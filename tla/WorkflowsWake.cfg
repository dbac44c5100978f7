\* overlapping ticks of one process and a second sleep
SPECIFICATION Spec
CONSTANTS
  p1 = p1
  p2 = p2
  t1 = t1
  t2 = t2
  d1 = d1
  r1 = r1
  r2 = r2
  k1 = k1
  NoRun = NoRun
  NoKey = NoKey
  Run = {r1, r2}
  Proc = {p1}
  Ticker = {t1, t2}
  Caller = {d1}
  Key = {k1}
  Home <- OneHome
  WaitKey <- FirstKeyed
  Program <- TwoSleeps
  StaleSec = 1
  Sleeps <- Lengths
  TickLength = 1
  Timely = TRUE
  MaxCrash = 0
PROPERTY
  WakesWhenDue
