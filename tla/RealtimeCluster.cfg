\* one process and streams; two workers and a WebSocket client
SPECIFICATION MCSpec
CONSTANTS
  c1 = c1
  c2 = c2
  c3 = c3
  w1 = w1
  posts = posts
  star = star
  created = created
  deleted = deleted
  Nowhere = Nowhere
  Worker = {w1, w2}
  Client = {c1, c2, c3}
  Sse = {c1, c2}
  Topic = {posts, star}
  Kind = {created, deleted}
  Targets <- TwoKinds
  Visible <- SecondLimited
  Narrow = {created}
  TailPage = 1
  ReplayPage = 3
  Prompt = TRUE
  MaxSeq = 3
  MaxCrash = 1
INVARIANTS
  DeliveredOnce
PROPERTY
  OwedArrives
CHECK_DEADLOCK FALSE
