------------------------------ MODULE OrderBook ------------------------------
(***************************************************************************)
(* What the payment subsystem promises to its callers, with no handlers,   *)
(* locks or statuses in it: at any time at most one order is on offer to   *)
(* an enrollment, an order belongs to one enrollment for ever, and an      *)
(* enrollment is credited only by an order of its own that the customer    *)
(* paid.                                                                   *)
(***************************************************************************)
CONSTANTS Enrollments, Orders, None

VARIABLES
  owner,     \* the enrollment each order was issued to, or None
  offer,     \* the order on offer to each enrollment, or None
  funded,    \* orders the customer has paid
  credited   \* enrollments whose account shows money received

vars == <<owner, offer, funded, credited>>

Init ==
  /\ owner = [o \in Orders |-> None]
  /\ offer = [e \in Enrollments |-> None]
  /\ funded = {}
  /\ credited = {}

\* A new order replaces the one on offer.
Issue(e, o) ==
  /\ owner[o] = None
  /\ owner' = [owner EXCEPT ![o] = e]
  /\ offer' = [offer EXCEPT ![e] = o]
  /\ UNCHANGED <<funded, credited>>

\* The order on offer is withdrawn: cancelled, failed or expired.
Withdraw(e) ==
  /\ offer[e] # None
  /\ offer' = [offer EXCEPT ![e] = None]
  /\ UNCHANGED <<owner, funded, credited>>

\* The customer pays an order, on offer or not.
Fund(o) ==
  /\ owner[o] # None
  /\ o \notin funded
  /\ funded' = funded \cup {o}
  /\ UNCHANGED <<owner, offer, credited>>

\* The payment is credited; an order that was on offer no longer is.
Credit(e, o) ==
  /\ owner[o] = e
  /\ o \in funded
  /\ credited' = credited \cup {e}
  /\ offer' = [offer EXCEPT ![e] = IF @ = o THEN None ELSE @]
  /\ UNCHANGED <<owner, funded>>

Next ==
  \/ \E e \in Enrollments, o \in Orders : Issue(e, o) \/ Credit(e, o)
  \/ \E e \in Enrollments : Withdraw(e)
  \/ \E o \in Orders : Fund(o)

Spec == Init /\ [][Next]_vars

=============================================================================
