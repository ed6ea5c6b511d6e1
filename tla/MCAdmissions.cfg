CONSTANTS
  Emails = {m1}
  Visitors = {v1, v2}
  Nobody = Nobody
  MaxRows = 2
  Codes = {FEST}
  NoCode = NoCode
  Offers <- SomeOffers
  Fees = {50, 99}
  Clerks = {k1, k2}
  Editors = {a1}
  CsvRows = 2
  MaxEnrollments = 2
SPECIFICATION Spec
CHECK_DEADLOCK FALSE
INVARIANT PaidIsVisible
INVARIANT ServedHasAccount
INVARIANT UsageLimitHolds
INVARIANT LedgerBalances
PROPERTY SettledKeepsDetails
PROPERTY ChargedAsShown
SYMMETRY Symmetry
