\* one module at a time
SPECIFICATION MCSpec
CONSTANTS
  Ids = {1, 2, 3, 4}
  Values = {1, 2}
  PerPage = 2
  f1 = f1
  f2 = f2
  Files = {f1, f2}
  FileTokens = {1}
  FileRequests = {q1, q2}
  Windows = {1, 3}
  Day = 2
  MaxHours = 3
  Collections = {1, 2}
  TableNames = {t1, t2}
  NoName = NoName
  Columns = {"x", "y"}
  Schemas <- MCSchemas
  Queries <- MCQueries
  SchemaRequests = {q1, q2}
  FlagKeys = {"a", "b", "c"}
  SegmentNames = {"s1"}
  Visitors = {"u", "w"}
  Matching = {"u"}
  Bucket <- MCBucket
  Percents = 2
  MaxDepth = 2
  FlagRules <- MCRules
  Devices = {v1, v2}
  u1 = u1
  v1 = v1
  People = {u1, u2}
  Nobody = Nobody
  Notices = {1, 2}
  MaxTries = 2
  MaxReinstalls = 1
  g1 = g1
  g2 = g2
  g3 = g3
  Seats = {g1, g2, g3}
  Stdio = {g3}
  HoldsSets <- MCHolds
  Nouns = {"collection", "setting"}
  Called <- MCCalled
  ReadMax = 2
  WriteMax = 1
  Minute = 2
  MaxInstant = 2
  MaxCalls = 4
  CollNames = {"m", "n"}
  Types = {"auth", "view"}
  Fields = {1}
  Rules = {1, 2}
  Given <- MCGiven
INVARIANTS
  Agree
  EachOnce
  FilesGuarded
  SchemaTold
  Consistent
  Reached
  ToolsGuarded
CHECK_DEADLOCK FALSE
