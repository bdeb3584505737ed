CONSTANTS
  p1 = p1
  s1 = s1
  m1 = m1
  g1 = g1
  Regions = {g1}
  q1 = q1
  ann = ann
  boss = boss
  desk = desk
  Nil = Nil
  Requests = {q1}
  Req <- NoticeReq
  NoPrice = {}
  WindowOf <- Monthly
  DaysPerMonth = 1
  MaxDay = 1
  OldRows <- NoticeOld
  MaxStamps = 1
  MaxFaults = 1
  Budget <- NoticeBudget
  FirstPool <- NoticePool
  Mappings <- NoticeRoles
  Nobody = Nil
  Offered = {101}
  MaxEdits = 2
  Ops = desk
SPECIFICATION Spec
INVARIANTS DenyMailed CrossingMailed
PROPERTY NotifiedRises
CHECK_DEADLOCK FALSE
