CONSTANTS
  p1 = p1
  u1 = u1
  s1 = s1
  r1 = r1
  r2 = r2
  v1 = v1
  v2 = v2
  w1 = w1
  w2 = w2
  x1 = x1
  NoOwner = NoOwner
  NoMessage = NoMessage
  Principals = {p1}
  SsoUsers = {u1}
  Sources = {s1}
  Requests = {r1, r2}
  Meters = {w1, w2}
  Tracers = {x1}
  CtOwner <- OneRole
  LogOwner <- R2Named
  LensOf <- R1Lenses
  TimeOf <- Times
  Profiled = {r1}
  Streamed = {r2}
  Traced = {r1}
  Windows = {v1}
  DefaultWindow = v1
  StartBudgets <- ModelRated
  RowCapacity = 5
  AsyncRetries = 1
  MaxUse <- Deaths
  MaxTotal = 1
SPECIFICATION FairSpec
INVARIANTS NoSilentLoss AllLinesBilled BucketNotAhead
PROPERTIES ImplementsBilling LateIdentityBills
CHECK_DEADLOCK FALSE
