------------------------- MODULE PaymentsProperties -------------------------
(***************************************************************************)
(* What the payment core promises, and the claims of its comments.         *)
(***************************************************************************)
EXTENDS Payments

\* Every variable keeps its type: columns hold values of their enums, locks
\* are held by sessions, handlers are at a known statement.
TypeOK ==
  /\ enr \in [Enrollments -> Enrollment]
  /\ pay \in [Orders -> Payment]
  /\ rzp \in [Orders -> RazorpayOrder]
  /\ lock \in [Rows -> Sessions \cup {None}]
  /\ pc \in [Sessions -> PCs]
  /\ loc \in [Sessions -> Locals]
  /\ dirty \in [Sessions -> SUBSET Rows]
  /\ handoff \in SUBSET Enrollments

\* At most one order of an enrollment is active at any time, whatever plan
\* changes, settlements and duplicate create-order calls run at once
\* (createOrder lists, cancels and inserts under the enrollment's row lock).
OneActiveOrder ==
  \A e \in Enrollments : \A p, q \in ActiveOrders(e) : p = q

\* An order the customer has paid at Razorpay.
Funded(e) == {p \in PaymentsOf(e) : rzp[p].state = "paid"}

\* An enrollment in a paid status, or showing money received, has an order of
\* its own that the customer paid, for the amount shown.  Verify, both
\* webhooks and the reconciliation settle from data they read earlier.
PaidIsBacked ==
  \A e \in Enrollments :
    /\ enr[e].status \in PaidStatuses => enr[e].paid # 0
    /\ enr[e].paid # 0 => \E p \in Funded(e) : pay[p].amount = enr[e].paid

\* The external system is told only about enrollments that somebody paid for.
HandoffIsBacked == \A e \in handoff : Funded(e) # {}

\* A payment row is inserted only while its enrollment is unpaid and has no
\* successful payment at that very moment, although createOrder checked both
\* several statements and one HTTP call earlier.
NewOrdersOnlyForUnpaid ==
  [][\A p \in Orders :
       pay[p].status = "none" /\ pay'[p].status # "none" =>
         LET e == pay'[p].owner IN
         enr[e].status \notin PaidStatuses /\ ~HasSuccess(e)]_vars

\* When createOrder commits and answers, the order it hands out costs what the
\* enrollment owes at that moment and what Razorpay will charge for it, even
\* if a plan selection is waiting to change the price.
OfferMatchesPrice ==
  \A s \in Sessions :
    pc[s] = "co_commit" =>
      /\ rzp[loc[s].order].amount = loc[s].amount
      /\ enr[loc[s].enr].amount = loc[s].amount
      /\ ~loc[s].fresh => pay[loc[s].order].amount = loc[s].amount

\* The transactions that lock rows never undo a success: a successful payment
\* is never cancelled, although createOrder and selectForEnrollment write
\* 'cancelled' to rows they listed in an earlier statement.
SuccessNeverCancelled ==
  [][\A p \in Orders :
       pay[p].status = "success" => pay'[p].status # "cancelled"]_vars

\* The rows each session has to lock, given the statement it is at.
Needs(s) ==
  CASE pc[s] \in {"co_cancel", "sel_lock"} -> loc[s].rows
    [] pc[s] \in {"sel_commit", "settle_commit", "rec_status"} -> {loc[s].enr}
    [] pc[s] \in {"settle_lock", "mark_failed", "rec_expire"} -> {loc[s].order}
    [] OTHER -> {}

\* Sessions each of which has to lock a row that another of them holds.
DeadlockedSet(S) ==
  S # {} /\ \A s \in S : \E r \in Needs(s) : lock[r] \in S \ {s}

\* Settlements, status updates and plan selections take payments before the
\* enrollment, and a settlement takes one payment only.  So a deadlock has a
\* createOrder in it, which locks the enrollment first, or two plan selections
\* of one enrollment, each with some of its payments locked: settlements never
\* deadlock with each other, with status updates, or with one selection.
DeadlocksNeedSeveralRows ==
  \A S \in SUBSET Sessions :
    DeadlockedSet(S) =>
      \/ \E s \in S : pc[s] \in CreateOrderPCs
      \/ \E s, t \in S : /\ s # t /\ loc[s].enr = loc[t].enr
                        /\ pc[s] = "sel_lock" /\ pc[t] = "sel_lock"

-----------------------------------------------------------------------------
(* The payment core implements the order book. *)

OfferTo(e) ==
  IF ActiveOrders(e) = {} THEN None ELSE CHOOSE p \in ActiveOrders(e) : TRUE

Book == INSTANCE OrderBook WITH
  owner    <- [p \in Orders |-> pay[p].owner],
  offer    <- [e \in Enrollments |-> OfferTo(e)],
  funded   <- {p \in Orders : rzp[p].state = "paid"},
  credited <- {e \in Enrollments : enr[e].paid # 0}

\* Every behaviour of the handlers, jobs and Razorpay is one of the order book.
ImplementsOrderBook == Book!Spec

-----------------------------------------------------------------------------
(* Claims of the comments that the code does not keep. *)

\* A payments row in status success is an immutable barrier
\* (enrollments/enrollment.repository.js:106-110), and a payment.failed event
\* after settlement is ignored (razorpay/webhook.controller.js:186-189): a
\* success stays a success.
SuccessIsFinal ==
  [][\A p \in Orders :
       pay[p].status = "success" => pay'[p].status = "success"]_vars

\* An enrollment in a paid state is immutable from the public flow
\* (plans/plan.service.js:453-454): no step takes it out of the paid statuses.
PaidIsImmutable ==
  [][\A e \in Enrollments :
       enr[e].status \in PaidStatuses => enr'[e].status \in PaidStatuses]_vars

\* Of two concurrent settlements of one payment the second reads the status
\* the first one wrote (payments/payment.repository.js:37-40): it never meets
\* a settled row that its transaction may not lock.
LoserReadsOutcome ==
  \A s \in Sessions :
    pc[s] = "settle_lock" /\ pay[loc[s].order].status = "success" =>
      loc[s].order \notin dirty[s]

\* The reconciliation expires only payments that Razorpay had not captured
\* when it asked (jobs/paymentReconciliation.job.js:11-13).
ExpiresOnlyUncaptured ==
  [][\A s \in Sessions :
       pc[s] = "rec_fetch" /\ pc'[s] = "rec_expire" =>
         rzp[loc[s].order].state # "paid"]_vars

=============================================================================
