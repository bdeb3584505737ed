CONSTANTS
  p1 = p1
  u1 = u1
  s1 = s1
  r1 = r1
  r2 = r2
  v1 = v1
  v2 = v2
  w1 = w1
  w2 = w2
  x1 = x1
  NoOwner = NoOwner
  NoMessage = NoMessage
  Principals = {p1}
  SsoUsers = {}
  Sources = {}
  Requests = {r1, r2}
  Meters = {w1, w2}
  Tracers = {x1}
  CtOwner <- OneRole
  LogOwner <- R2Named
  LensOf <- NoLenses
  TimeOf <- Times
  Profiled = {r1}
  Streamed = {r1}
  Traced = {r1}
  Windows = {v1, v2}
  DefaultWindow = v1
  StartBudgets <- ModelRated
  RowCapacity = 1
  AsyncRetries = 1
  MaxUse <- Rough
  MaxTotal = 2
SPECIFICATION Spec
INVARIANTS BilledInFull
SYMMETRY MeterSymmetry
CHECK_DEADLOCK FALSE
