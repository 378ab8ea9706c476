SPECIFICATION ChatSpec
CONSTANTS
  w1 = w1
  Worker <- MCWorker
  Merchant <- MCMerchant
  Reference <- MCReference
  Stock <- MCStock
  Price <- MCPrice
  ListingPrice <- MCListingPrice
  MaxQty = 3
  MaxRows = 2
  Actor <- BothActors
  MaxPerTransaction <- TransactionLimits
  MaxPerSession <- SessionLimits
  CartCalls <- NoCalls
  QuoteRequests <- AgentCarts
  RazorpayAnswers = {"issued"}
  LinkFates = {}
  Aborts = FALSE
  MaxVersion = 2
  MaxQuotes = 2
  MaxOrders = 2
  MaxLinks = 2
  CascadeEnabled = TRUE
  Owner = "human"
  ApiActors <- AgentOnly
  Messages <- AllMessages
  LlmAnswers <- SomeAnswers
  Findings <- CapturedOnly
  ListingSku <- MCListingSku
  CrossSold = {20}
  MaxErrors = 1
  MinRecovery = 3
INVARIANTS
  ChatTypeOK
  OrderAuthorised
  OrdersVerify
  SpendCap
  RecoveryFits
PROPERTIES
  VersionGrows
  OnlyApprovalPays
  OnlyAskedAdded
CHECK_DEADLOCK FALSE
