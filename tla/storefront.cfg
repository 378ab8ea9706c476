SPECIFICATION StoreSpec
CONSTANTS
  w1 = w1
  Worker <- MCWorker
  Product <- MCProduct
  Catalogues <- MCCatalogues
  Fit <- MCFit
  Named <- MCNamed
  Complements <- MCComplements
  Query <- MCQuery
  Readings <- MCReadings
  AgentQuery <- MCAgentQuery
  Similarity <- MCSimilarity
  MarketAnswers <- MCMarketAnswers
  MarketComplement <- MCMarketComplement
  Carts <- MCCarts
  SimilarEnough = 62
  CertainlySimilar = 80
  CacheTTL = 1
  CacheWindow = 2
  AddonPercent = 20
  MinConfidence = 55
  DefaultAccept = 60
  MaxFaults = 3
  MaxTime = 2
  MaxCached = 2
INVARIANTS
  StoreTypeOK
  StartedFresh
  FoundFits
  CacheAnswersSomething
  SuggestionsPayable
PROPERTIES
  IndexKept
  FeedNeverGoesBack
  ServedFresh
  TierTwoAgrees
CHECK_DEADLOCK FALSE
