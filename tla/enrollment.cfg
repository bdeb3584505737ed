CONSTANTS
  dev = dev
  prod = prod
  h = h
  a = a
  x = x
  u = u
  west = west
  east = east
  Stages = {dev, prod}
  Turn <- MCTurn
  Pages = {dev, prod}
  StageOf <- MCStageOf
  Accounts = {h, a, x}
  Home = h
  Units = {u}
  NoUnit = NoUnit
  HomeRegion = west
  RegionSets <- MCRegions
  ListForms <- MCForms
  StartConfigs <- MCConfigs
  StartOrg <- MCOrg
  Overlap = FALSE
  MaxApplies = 2
  MaxTroubles = 1
  None = None
SPECIFICATION FairSpec
INVARIANTS LastFormStands OneOwner
PROPERTY EnrolmentLands
CHECK_DEADLOCK FALSE
