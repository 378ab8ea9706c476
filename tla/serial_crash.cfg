SPECIFICATION Spec
CONSTANTS
  w1 = w1
  w2 = w2
  Worker <- OneWorker
  Merchant <- MCMerchant
  Reference <- MCReference
  Stock <- MCStock
  Price <- MCPrice
  ListingPrice <- MCListingPrice
  MaxQty = 4
  MaxRows = 3
  Actor <- AgentOnly
  MaxPerTransaction <- TransactionLimits
  MaxPerSession <- SessionLimits
  CartCalls <- CrashCalls
  QuoteRequests <- CrashCarts
  RazorpayAnswers = {"issued", "refused", "lost"}
  LinkFates = {"paid", "expired"}
  Aborts = TRUE
  MaxVersion = 4
  MaxQuotes = 2
  MaxOrders = 2
  MaxLinks = 3
INVARIANTS
  OrdersVerify
  OneOrderPerSnapshot
  KnownLinksOwned
PROPERTIES
  PaidIsFinal
