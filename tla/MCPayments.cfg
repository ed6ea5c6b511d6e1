CONSTANTS
  None = None
  Enrollments = {e1}
  Orders = {o1, o2}
  Amounts = {1, 2}
  Sessions = {s1, s2}
  ExactCharge = TRUE
SPECIFICATION Spec
SYMMETRY MCSymmetry
INVARIANT OneActiveOrder
INVARIANT PaidIsBacked
INVARIANT HandoffIsBacked
INVARIANT OfferMatchesPrice
INVARIANT DeadlocksNeedSeveralRows
PROPERTY NewOrdersOnlyForUnpaid
PROPERTY SuccessNeverCancelled
PROPERTY ImplementsOrderBook
