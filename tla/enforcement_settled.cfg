CONSTANTS
  p1 = p1
  m1 = m1
  m2 = m2
  any = any
  Principals = {p1}
  Targets = {m1}
  Wilds = {any}
  x1 = x1
  x2 = x2
  Removers = {x1, x2}
  NoPolicy = NoPolicy
  NoRow = NoRow
  NoBudget = NoBudget
  WildOf <- MCWildOf
  AttachKind <- Attachable
  BudgetValues <- MCBudgets
  StartBudgets <- Mixed
  MaxUse <- Manual
  Serialized = TRUE
  MaxPeriod = 1
  MaxSpend = 2
  MaxLate = 1
  BatchSize = 2
  RetryAttempts = 1
SPECIFICATION FairSpec
INVARIANTS NoSilentInertStamp BreachedIsStamped
PROPERTIES FeedbackEnds
CHECK_DEADLOCK FALSE
