CONSTANTS
  a1 = a1
  a2 = a2
  root = root
  ou = ou
  Org = Org
  x1 = x1
  x2 = x2
  Absent = Absent
  Linked = {a1}
  OrgUnits = {root, ou}
  Paths <- Tree
  Percents = {0, 10}
  Jobs = {x1, x2}
  MaxChanges = 3
  MaxFailures = 1
SPECIFICATION DiscountSpec
INVARIANTS AuthoredHolds
PROPERTIES DiscountsSettle
CHECK_DEADLOCK FALSE
