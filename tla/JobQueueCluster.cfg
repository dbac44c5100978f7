\* Two processes and one job, which may be retried, whose runs may outlive the
\* visibility timeout: what still holds.
CONSTANTS
  Proc = {p1, p2}
  Job = {j1}
  Key = {}
  NoKey = NoKey
  Caller = {}
  Task = {1, 2, 3}
  RetryMax = 2
  Concurrency = 1
  Timely = FALSE
  MaxCrash = 2
  Revivable = {j1}
SPECIFICATION FairSpec
INVARIANT AttemptBounded
PROPERTY EventuallySettles
