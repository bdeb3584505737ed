CONSTANTS
  m1 = m1
  m2 = m2
  r1 = r1
  r2 = r2
  in = in
  out = out
  img = img
  o1 = o1
  Models = {m1, m2}
  Kinds = {in, out, img}
  TokenKinds = {in, out}
  Regions <- TwoRegions
  Skus <- AllSkus
  FileOrders <- Orders
  Reviewed <- TierOnly
  ReviewedOn = 0
  ListedIn <- Listing
  Static = {m2}
  Forms = {o1}
  NewRates <- Entered
  StartOffer <- Filed
  StartIndex <- Indexed
  MaxDay = 1
  MaxEdits = 2
  MaxPublished = 1
  Changing <- Unsettled
  MaxFaults = 1
SPECIFICATION PriceSpec
INVARIANTS OverrideStands RatesAreBest
PROPERTIES ReportsCoverLive
CHECK_DEADLOCK FALSE
