SPECIFICATION Spec
CONSTANTS
  w1 = w1
  w2 = w2
  Worker <- OneWorker
  Merchant <- MCMerchant
  Reference <- MCReference
  Stock <- MCStock
  Price <- MCPrice
  ListingPrice <- FinePrices
  MaxQty = 4
  MaxRows = 3
  Actor <- AgentOnly
  MaxPerTransaction <- TransactionLimits
  MaxPerSession <- SessionLimits
  CartCalls <- CapCalls
  QuoteRequests <- CapCarts
  RazorpayAnswers = {"issued", "refused"}
  LinkFates = {"paid", "expired"}
  Aborts = FALSE
  MaxVersion = 4
  MaxQuotes = 2
  MaxOrders = 2
  MaxLinks = 2
INVARIANTS
  SpendCap
