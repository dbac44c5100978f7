\* one module at a time; of the queue one process whose timeouts are kept
SPECIFICATION MCSpec
CONSTANTS
  Proc = {p1}
  Job = {j1, j2, j3}
  Key = {k1}
  NoKey = NoKey
  Caller = {c1}
  Task = {1, 2}
  RetryMax = 2
  Concurrency = 2
  Timely = TRUE
  MaxCrash = 1
  Revivable = {j1, j2, j3}
  m1 = m1
  m2 = m2
  e1 = e1
  AuthColls = {m1, m2}
  Accounts = {1, 2}
  Addresses = {e1, e2}
  NoColl = NoColl
  NoBackup = NoBackup
  Requests = {1, 2, 3}
  Span = 3
  Word = 4
  MaxBuffered = 2
  MaxSecond = 5
  MaxHits = 1
  LimitProcs = {p1}
  Principals = {q1}
  Kinds = {"create", "list"}
  RuleLists <- MCRuleLists
  Slots = {1, 2}
  Unit = 4
  IdleFor = 4
  KeepConfig = 2
  MaxClock = 6
  MaxAdmitted = 5
  Tokens = {t1}
  Minters = {a1}
  Bearers = {b1}
  Revokers = {r1, r2}
  TokenProcs = {p1}
  Lives = {2}
  RowsKept = 0
  MaxDay = 2
  MaxUses = 2
  MaxFlushes = 2
  h1 = h1
  w1 = w1
  w2 = w2
  v1 = v1
  v2 = v2
  bad = bad
  Writers = {w1, w2}
  HookOrder <- MCHookOrder
  Contents = {v1, v2, bad}
  Valid = {v1, v2}
  Blank = Blank
  MaxRows = 2
  s1 = s1
  s2 = s2
  a1 = a1
  Chars <- MCChars
  MaxLength = 2
  CsvRows = 2
  PageRows = 2
  MaxListed = 5
  MaxChanges = 2
  SqlProcs = {s1, s2}
  Consoles = {a1, a2}
  TableCount = 2
  SlotIdle = 1
  Absent = Absent
  MaxHour = 2
  MaxCommits = 1
  MaxStatements = 1
  MaxVisits = 4
  Updaters = {1, 2}
  Releases <- MCReleases
  First <- MCFirst
INVARIANTS ExclusiveRun LimitsKept Upgraded Accounted BurstBounded TokensHonest WrittenSound CsvFaithful SandboxKept
PROPERTY ImplementsLifecycle
SYMMETRY JobSymmetry
CHECK_DEADLOCK FALSE
