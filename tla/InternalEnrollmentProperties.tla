-------------------- MODULE InternalEnrollmentProperties --------------------
(***************************************************************************)
(* What the coupons and the ledger of internal enrollments promise.        *)
(***************************************************************************)
EXTENDS InternalEnrollment

\* A coupon is redeemed at most as often as its limit said at the time, with
\* any number of clerks at once.  Only an edit of the plan whose counters were
\* read before a redemption can lift the limit: updateInternalPlan writes them
\* back without a lock.
UsageLimitHolds ==
  \A i \in 1 .. Len(ledger) :
    LET e == ledger[i] IN
    e.limit # 0 /\ e.code \notin torn => e.nth <= e.limit

\* The ledger balances to the paisa: no discount exceeds the price, what is
\* left is paid by one payment, and only a coupon worth everything leaves
\* nothing to pay.
LedgerBalances ==
  \A i \in 1 .. Len(ledger) :
    LET e == ledger[i] IN
    /\ e.discount + e.final = e.base /\ e.payment = e.final
    /\ e.st = "FULLY_DISCOUNTED" <=> e.discount = e.base

\* Who enrolls is charged what the wizard would show for the fee it started
\* with and the coupons of the moment.
ChargedAsShown ==
  [][\A k \in Clerks :
       Len(ledger') > Len(ledger) /\ clerk[k] # clerk'[k] =>
         ledger'[Len(ledger')].final = CalculateFee(clerk[k].fee, clerk[k].code, plan.coupons)
    ]_internalVars
=============================================================================
