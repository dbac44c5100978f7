\* requests served while a batch runs on the shared connection
CONSTANTS
  CronJobs = {j1}
  Prompt = TRUE
  MaxFlight = 2
  MaxExtra = 2
  MaxFires = 4
  Hooks = {h1, h2}
  RetryMax = 3
  MaxDeliveries = 1
  MaxPosts = 2
  MaxDeaths = 1
  Members = {m1, m2}
  Observers = {o1}
  PresWorkers = {x1, x2}
  NoWorker = NoWorker
  MaxCrash = 2
  MaxFeed = 2
  N = 3
  MaxExits = 2
  Batches = {b1, b2}
  Singles = {s1, s2}
  NoBatch = NoBatch
  MaxOps = 3
  Gone = Gone
  MaxWrites = 3
  MaxSeconds = 4
  MaxLosses = 1
  Fields = {f1, f2}
  Settings = {t1}
  Plain = Plain
  Blank = Blank
  MaxKeys = 3
  CacheProcs = {x1, x2}
  Ttl = 2
  MaxEdits = 2
  MaxBeats = 3
SPECIFICATION MCSafety
CHECK_DEADLOCK FALSE
INVARIANT OthersKept
