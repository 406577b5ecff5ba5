SPECIFICATION Spec
CONSTANTS
  None = None
  Whole = 100
  Seeds <- MCSeeds
  FranchiseAssumption <- MCFranchiseAssumption
  FranchiseSales <- MCFranchiseSales
  IdOrder <- MCIdOrder
  MarketClaim <- MCMarketClaim
  MaterialCash = 500
  MaterialMonthly = 50
  MaterialSales = 100
  FirstFounders <- MCFounders
  StoredEvidence <- MCStored
  FranchiseQueries <- MCQueries
  McpAnswer <- MCAnswer
  Reply <- MCReply
  Defects <- MCDefects
  AssessCapacity = 11
  MaxFaults = 2
  FollowedFounders <- MCFollowed
  FollowedFaults = 0
  FounderValue <- MCFounderValue
  InterestWords <- MCInterestWords
  ShopTerms <- MCShopTerms
  Forms <- MCForms
  MaxVersion = 4
INVARIANTS
  RecomputeTypeOK
  NothingUnassessedIsFact
  EachAdvisoryIsOfItsAgent
  PassedMeansAudited
  FailsOnlyWithoutAnyProposal
  UserInputsAreCurrent
  ContestedStaysOpen
  TraceExplainsOrder
PROPERTIES
  BenchmarksSurviveTheReplay
  DeltaNamesEveryChange
  BothFamiliesCompete
CHECK_DEADLOCK FALSE
