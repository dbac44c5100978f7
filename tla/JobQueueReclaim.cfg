\* Two processes, timeouts kept: can a reclaim still lead to two runs of a job?
CONSTANTS
  Proc = {p1, p2}
  Job = {j1}
  Key = {k1}
  NoKey = NoKey
  Caller = {c1}
  Task = {1, 2, 3}
  RetryMax = 3
  Concurrency = 1
  Timely = TRUE
  MaxCrash = 1
  Revivable = {}
SPECIFICATION Spec
INVARIANT NoDoubleProcessing
