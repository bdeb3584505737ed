CONSTANTS
  p1 = p1
  m1 = m1
  m2 = m2
  any = any
  Principals = {p1}
  Targets = {m1}
  Wilds = {any}
  x1 = x1
  x2 = x2
  Removers = {x1}
  NoPolicy = NoPolicy
  NoRow = NoRow
  NoBudget = NoBudget
  WildOf <- MCWildOf
  AttachKind <- Attachable
  BudgetValues <- EditBudgets
  StartBudgets <- ExactOnly
  MaxUse <- Every
  Serialized = TRUE
  MaxPeriod = 2
  MaxSpend = 1
  MaxLate = 1
  BatchSize = 2
  RetryAttempts = 1
SPECIFICATION Spec
INVARIANTS NoOrphanDeny
PROPERTIES ImplementsDenyRecord PausedImposesNothing
CHECK_DEADLOCK FALSE
