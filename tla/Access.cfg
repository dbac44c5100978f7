CONSTANTS
  r1 = r1  r2 = r2  r3 = r3  p1 = p1  p2 = p2  u1 = u1  u2 = u2  u3 = u3  e1 = e1  e2 = e2
  w1 = w1  w2 = w2  i1 = i1  c1 = c1  c2 = c2  a1 = a1  a2 = a2  a3 = a3  NoOne = NoOne
  Requests = {r1, r2, r3}
  Procs = {p1, p2}
  Home <- MCHome
  Users = {u1, u2, u3}
  Emails = {e1, e2}
  Passwords = {w1, w2}
  Identities = {i1}
  Codes = {c1, c2}
  MaxAttempts = 2
  TicketTtl <- MCTtl
  Window = 2
  MaxTickets = 2
  MaxTokens = 2
  MaxTime = 2
  MaxCrashes = 1
  Admins = {a1, a2, a3}
  MaxFailures = 2
  Lockout = 1
  SessionTtl = 2
  MaxSessions = 2
SPECIFICATION MCSpec
CHECK_DEADLOCK FALSE
INVARIANTS
  AccountsGuarded
PROPERTIES
  NothingRevives
  OwnerKept
