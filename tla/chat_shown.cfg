SPECIFICATION ChatSpec
CONSTANTS
  w1 = w1
  Worker <- MCWorker
  Merchant <- MCMerchant
  Reference <- MCReference
  Stock <- MCStock
  Price <- MCPrice
  ListingPrice <- MCListingPrice
  MaxQty = 3
  MaxRows = 2
  Actor <- BothActors
  MaxPerTransaction <- TransactionLimits
  MaxPerSession <- SessionLimits
  CartCalls <- NoCalls
  QuoteRequests <- OtherCarts
  RazorpayAnswers = {"issued"}
  LinkFates = {}
  Aborts = FALSE
  MaxVersion = 4
  MaxQuotes = 2
  MaxOrders = 2
  MaxLinks = 2
  CascadeEnabled = TRUE
  Owner = "human"
  ApiActors <- AgentOnly
  Messages <- PayingMessages
  LlmAnswers <- SilentModel
  Findings <- CapturedOnly
  ListingSku <- MCListingSku
  CrossSold = {}
  MaxErrors = 0
  MinRecovery = 3
PROPERTIES
  ApprovesWhatWasShown
CHECK_DEADLOCK FALSE
