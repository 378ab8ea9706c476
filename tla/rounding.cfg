SPECIFICATION Spec
CONSTANTS
  w1 = w1
  w2 = w2
  Worker <- OneWorker
  Merchant <- MCMerchant
  Reference <- MCReference
  Stock <- MCStock
  Price <- MCPrice
  ListingPrice <- AlikePrices
  MaxQty = 4
  MaxRows = 3
  Actor <- HumanOnly
  MaxPerTransaction <- TransactionLimits
  MaxPerSession <- SessionLimits
  CartCalls <- NoCalls
  QuoteRequests <- AlikeCarts
  RazorpayAnswers = {"issued"}
  LinkFates = {"paid"}
  Aborts = FALSE
  MaxVersion = 4
  MaxQuotes = 2
  MaxOrders = 2
  MaxLinks = 2
INVARIANTS
  AnsweredAsQuoted
