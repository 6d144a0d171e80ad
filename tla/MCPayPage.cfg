SPECIFICATION PageFairSpec
CONSTANTS
  a1 = a1  a2 = a2  s1 = s1  s2 = s2
  Expected = Expected
  Other = Other
  NULL = NULL
  Accounts = {a1, a2}
  Slots = {s1, s2}
  MaxEvents = 3
INVARIANTS
  PendingIsTrue OnePaymentPerReset PaymentMatchesTerms PageFollowsWallet PaymentShown
PROPERTIES
  ReviewedBeforeSigning OutcomeShownUntilReset PageComesBack
