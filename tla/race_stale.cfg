SPECIFICATION Spec
CONSTANTS
  w1 = w1
  w2 = w2
  Worker <- TwoWorkers
  Merchant <- MCMerchant
  Reference <- MCReference
  Stock <- MCStock
  Price <- MCPrice
  ListingPrice <- MCListingPrice
  MaxQty = 4
  MaxRows = 3
  Actor <- AgentOnly
  MaxPerTransaction <- TransactionLimits
  MaxPerSession <- SessionLimits
  CartCalls <- RaceCalls
  QuoteRequests <- RaceCarts
  RazorpayAnswers = {"issued", "refused"}
  LinkFates = {"paid"}
  Aborts = FALSE
  MaxVersion = 3
  MaxQuotes = 1
  MaxOrders = 2
  MaxLinks = 2
PROPERTIES
  ChargesAreFresh
