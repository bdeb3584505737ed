CONSTANTS
  r1 = r1
  p1 = p1
  p2 = p2
  home = home
  west = west
  acct = acct
  named = named
  unknown = unknown
  anywhere = anywhere
  Regions = {home, west}
  AccountOf <- Account
  Unknown = unknown
  Anywhere = anywhere
  MinMonths = 1
  PageRows = 4
  s1 = s1
  m1 = m1
  m2 = m2
  old1 = old1
  f1 = f1
  q1 = q1
  q2 = q2
  q3 = q3
  c1 = c1
  c2 = c2
  Nil = Nil
  Requests = {q1, q2, q3}
  Req <- LedgerReq
  NoPrice = {q2, q3}
  WindowOf <- Monthly
  DaysPerMonth = 2
  MaxDay = 3
  OldRows <- LedgerOld
  MaxStamps = 0
  MaxFaults = 1
  Plan <- LedgerPlan
  Runs = {r1}
  Watermark = 0
  Anonymous = {q2, q3}
  BillName <- Name
  BillAccount <- Payer
  Unresolved = {}
  AskedMonths = {}
SPECIFICATION Spec
INVARIANTS ChargedOrOutstanding LedgerAgrees CompletedIsDone NoPhantomDrift TrendCountsOnce
PROPERTIES BackfillReplacesNothing
CONSTRAINT Lagging
CHECK_DEADLOCK FALSE
