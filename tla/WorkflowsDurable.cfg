\* steps and ticks shorter than STALE_SEC, a tick in each of two processes, one crash
SPECIFICATION FairSpec
CONSTANTS
  p1 = p1
  p2 = p2
  t1 = t1
  t2 = t2
  d1 = d1
  r1 = r1
  r2 = r2
  k1 = k1
  NoRun = NoRun
  NoKey = NoKey
  Run = {r1, r2}
  Proc = {p1, p2}
  Ticker = {t1, t2}
  Caller = {d1}
  Key = {k1}
  Home <- TwoHomes
  WaitKey <- FirstKeyed
  Program <- Mixed
  StaleSec = 2
  Sleeps <- Lengths
  TickLength = 2
  Timely = TRUE
  MaxCrash = 2
PROPERTIES
  AdvancesDurably
  EventuallyRests
