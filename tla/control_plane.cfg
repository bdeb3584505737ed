CONSTANTS
  p1 = p1
  p2 = p2
  t1 = t1
  acct = acct
  tag = tag
  root = root
  local = local
  Principals = {p1, p2}
  Wild = Wild
  Targets = {t1, Wild}
  Keys <- MCKeys
  NoRow = NoRow
  Null = Null
  Accounts = {acct}
  NoAccount = NoAccount
  AccountOf <- MCAccountOf
  Enforceable = {p1}
  Attachable = {p1}
  Tags = {tag}
  Admins = {root, local}
  ScopeOf <- MCScopeOf
  Bodies <- MCBodies
  Edits <- MCEdits
  Manifests <- MCManifests
  DefaultBodies <- MCDefaultBodies
  StartBudgets <- MCStartBudgets
  StartDefaults <- MCStartDefaults
  MaxOps = 3
  MaxFaults = 1
  MaxLag = 1
  MaxMonth = 2
SPECIFICATION Spec
INVARIANTS MirrorConverges ManifestTakesHold
PROPERTIES MirrorCatchesUp DefaultReplacesNothing DefaultRespectsWildcard
CHECK_DEADLOCK FALSE
