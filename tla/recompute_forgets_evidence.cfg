SPECIFICATION Spec
CONSTANTS
  None = None
  Whole = 100
  Seeds <- MCSeeds
  FranchiseAssumption <- MCFranchiseAssumption
  FranchiseSales <- MCFranchiseSales
  IdOrder <- MCIdOrder
  MarketClaim <- MCMarketClaim
  MaterialCash = 500
  MaterialMonthly = 50
  MaterialSales = 100
  FirstFounders <- MCFounders
  StoredEvidence <- MCNothingStored
  FranchiseQueries <- MCQueries
  McpAnswer <- MCAnswer
  Reply <- MCReply
  Defects <- MCDefects
  AssessCapacity = 11
  MaxFaults = 0
  FollowedFounders <- MCFollowed
  FollowedFaults = 0
  FounderValue <- MCFounderValue
  InterestWords <- MCInterestWords
  ShopTerms <- MCShopTerms
  Forms <- MCForms
  MaxVersion = 2
PROPERTY RecomputeReusesEvidence
CHECK_DEADLOCK FALSE
