SPECIFICATION FairSpec
CONSTANTS
  w1 = w1
  w2 = w2
  Worker <- OneWorker
  Merchant <- MCMerchant
  Reference <- MCReference
  Stock <- MCStock
  Price <- MCPrice
  ListingPrice <- FinePrices
  MaxQty = 4
  MaxRows = 3
  Actor <- BothActors
  MaxPerTransaction <- TransactionLimits
  MaxPerSession <- SessionLimits
  CartCalls <- CapCalls
  QuoteRequests <- CapCarts
  RazorpayAnswers = {"issued"}
  LinkFates = {"paid", "expired", "cancelled"}
  Aborts = FALSE
  MaxVersion = 4
  MaxQuotes = 2
  MaxOrders = 2
  MaxLinks = 2
INVARIANTS
  SpendCap
PROPERTIES
  RequestsEnd
  PaymentsArrive
