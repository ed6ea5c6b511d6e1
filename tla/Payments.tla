------------------------------ MODULE Payments ------------------------------
(***************************************************************************)
(* The payment core: the payments and enrollments tables of PostgreSQL,    *)
(* and the request handlers and jobs that read and write them.             *)
(*                                                                         *)
(*   createOrder          payments/payment.service.js                      *)
(*   verifyPayment        payments/payment.service.js                      *)
(*   settlePayment        payments/payment.repository.js                   *)
(*   selectForEnrollment  plans/plan.service.js                            *)
(*   payment.captured and payment.failed   razorpay/webhook.controller.js  *)
(*   run                  jobs/paymentReconciliation.job.js                *)
(*   resume, restart, cleanup of a draft   enrollments/, jobs/             *)
(*                                                                         *)
(* A session is one running handler.  Between two of its statements any    *)
(* other session may run: one action is one SQL statement or one HTTP      *)
(* call, except where a row lock already held makes several statements     *)
(* indivisible.  The writes of a transaction appear when it commits; row   *)
(* locks are held until then.  A request that a guard refuses with an      *)
(* error changes nothing and is not an action.                             *)
(*                                                                         *)
(* A payment row is named by its razorpay_order_id, which is UNIQUE.       *)
(***************************************************************************)
EXTENDS Naturals

CONSTANTS
  Enrollments,   \* ids of enrollment rows
  Orders,        \* ids Razorpay can give to an order
  Amounts,       \* prices in paise
  Sessions,      \* handlers that may run at the same time
  None,          \* no row, no session
  ExactCharge    \* TRUE: Razorpay charges exactly the amount of the order

ASSUME AmountsAssumption == Amounts \subseteq Nat \ {0}
ASSUME NoneAssumption ==
  None \notin Enrollments /\ None \notin Orders /\ None \notin Sessions
ASSUME RowsAssumption == Enrollments \cap Orders = {}

VARIABLES
  enr,      \* table enrollments
  pay,      \* table payments
  rzp,      \* Razorpay's record of its orders
  lock,     \* the session holding each row lock
  pc,       \* the statement each session is about to run
  loc,      \* the local variables of each session
  dirty,    \* rows committed since the snapshot of a Serializable session
  handoff   \* enrollments handed to the external sync (queue or fallback)

vars == <<enr, pay, rzp, lock, pc, loc, dirty, handoff>>

-----------------------------------------------------------------------------
(* The tables *)

PaidStatuses == {"paid", "sync_pending", "completed"}
EnrollmentStatuses ==
  PaidStatuses \cup {"submitted", "payment_pending", "failed", "expired"}
ActiveStatuses == {"initiated", "pending"}
PaymentStatuses ==
  ActiveStatuses \cup {"success", "failed", "cancelled", "expired", "refunded"}

Rows == Enrollments \cup Orders

\* plan: plan_pricing_id is set; amount: the price due, 0 for the default that
\* stands until a plan is selected; paid: amount_paid_paise.
Enrollment ==
  [status : EnrollmentStatuses, plan : BOOLEAN,
   amount : Amounts \cup {0}, paid : Amounts \cup {0}]

NoRow == [status |-> "none", owner |-> None, amount |-> 0]
Payment ==
  [status : PaymentStatuses, owner : Enrollments, amount : Amounts] \cup {NoRow}

\* External: an order is unused until minted, open until the customer pays.
RazorpayOrder ==
  [state : {"unused", "open", "paid"},
   amount : Amounts \cup {0}, charged : Amounts \cup {0}]

CreateOrderPCs == {"co_list", "co_cancel", "co_mint", "co_commit"}
SelectPCs      == {"sel_list", "sel_lock", "sel_commit"}
SettlePCs      == {"settle_lock", "settle_commit"}
PCs == CreateOrderPCs \cup SelectPCs \cup SettlePCs \cup
       {"idle", "mark_failed", "rec_fetch", "rec_expire", "rec_status", "enqueue"}

Locals ==
  [enr : Enrollments \cup {None}, order : Orders \cup {None},
   rows : SUBSET Orders, amount : Amounts \cup {0},
   fresh : BOOLEAN, recon : BOOLEAN]
NoLocals ==
  [enr |-> None, order |-> None, rows |-> {}, amount |-> 0,
   fresh |-> FALSE, recon |-> FALSE]

PaymentsOf(e) == {p \in Orders : pay[p].owner = e}
ActiveOrders(e) == {p \in PaymentsOf(e) : pay[p].status \in ActiveStatuses}
HasSuccess(e) == \E p \in PaymentsOf(e) : pay[p].status = "success"

Free(rows) == \A r \in rows : lock[r] = None
Take(s, rows) == [r \in Rows |-> IF r \in rows THEN s ELSE lock[r]]
Release(s) == [r \in Rows |-> IF lock[r] = s THEN None ELSE lock[r]]

\* Session s moves to statement c with locals l.
Goto(s, c, l) ==
  /\ pc' = [pc EXCEPT ![s] = c]
  /\ loc' = [loc EXCEPT ![s] = l]

\* A statement on several rows locks them one after the other, in any order:
\* it waits for a row while it holds the rows before it.  With the last row it
\* has them all.
Missing(s) == {p \in loc[s].rows : lock[p] # s}
LockRow(s) ==
  /\ \E p \in Missing(s) : /\ Free({p}) /\ Missing(s) # {p}
                          /\ lock' = Take(s, {p})
  /\ Goto(s, pc[s], loc[s])
LastRow(s) == Free(Missing(s)) /\ \A p, q \in Missing(s) : p = q

\* The step commits a new version of these rows: a Serializable transaction
\* that began earlier can no longer lock them.
Commits(rows) ==
  dirty' = [t \in Sessions |->
              IF pc'[t] \in SettlePCs THEN dirty[t] \cup rows ELSE {}]

Init ==
  /\ enr = [e \in Enrollments |->
              [status |-> "submitted", plan |-> FALSE, amount |-> 0, paid |-> 0]]
  /\ pay = [p \in Orders |-> NoRow]
  /\ rzp = [p \in Orders |-> [state |-> "unused", amount |-> 0, charged |-> 0]]
  /\ lock = [r \in Rows |-> None]
  /\ pc = [s \in Sessions |-> "idle"]
  /\ loc = [s \in Sessions |-> NoLocals]
  /\ dirty = [s \in Sessions |-> {}]
  /\ handoff = {}

-----------------------------------------------------------------------------
(* createOrder: READ COMMITTED, the enrollment row locked throughout.      *)

\* Mutants: a plain SELECT instead of SELECT ... FOR UPDATE; no status guard.
CreateOrderLockPlainSelect(s, e) ==
  /\ pc[s] = "idle"
  /\ enr[e].status \notin PaidStatuses
  /\ enr[e].plan
  /\ Goto(s, "co_list", [NoLocals EXCEPT !.enr = e, !.amount = enr[e].amount])
  /\ Commits({})
  /\ UNCHANGED <<enr, pay, rzp, lock, handoff>>

CreateOrderLockAnyStatus(s, e) ==
  /\ pc[s] = "idle"
  /\ Free({e})
  /\ enr[e].plan
  /\ lock' = Take(s, {e})
  /\ Goto(s, "co_list", [NoLocals EXCEPT !.enr = e, !.amount = enr[e].amount])
  /\ Commits({})
  /\ UNCHANGED <<enr, pay, rzp, handoff>>

\* SELECT ... FOR UPDATE of the enrollment, then the guards on its columns.
CreateOrderLock(s, e) ==
  /\ pc[s] = "idle"
  /\ Free({e})
  /\ enr[e].status \notin PaidStatuses
  /\ enr[e].plan
  /\ lock' = Take(s, {e})
  /\ Goto(s, "co_list", [NoLocals EXCEPT !.enr = e, !.amount = enr[e].amount])
  /\ Commits({})
  /\ UNCHANGED <<enr, pay, rzp, handoff>>

\* Mutant: any active order is reused, whatever its amount.
CreateOrderListAnyAmount(s) ==
  LET e == loc[s].enr IN
  /\ pc[s] = "co_list"
  /\ ~HasSuccess(e)
  /\ \/ /\ ActiveOrders(e) = {}
        /\ Goto(s, "co_cancel", [loc[s] EXCEPT !.fresh = TRUE])
     \/ \E p \in ActiveOrders(e) :
          Goto(s, "co_cancel",
               [loc[s] EXCEPT !.rows = ActiveOrders(e) \ {p}, !.order = p])
  /\ Commits({})
  /\ UNCHANGED <<enr, pay, rzp, lock, handoff>>

\* The success count and the list of payments.  They are two statements, but
\* no payment of e can become a success in between: a settlement needs the
\* row lock held here.
CreateOrderList(s) ==
  LET e == loc[s].enr
      reusable == {p \in ActiveOrders(e) : pay[p].amount = loc[s].amount}
  IN
  /\ pc[s] = "co_list"
  /\ \/ /\ HasSuccess(e)
        /\ lock' = Release(s)
        /\ Goto(s, "idle", NoLocals)
     \/ /\ ~HasSuccess(e)
        /\ reusable = {}
        /\ Goto(s, "co_cancel",
                [loc[s] EXCEPT !.rows = ActiveOrders(e), !.fresh = TRUE])
        /\ UNCHANGED lock
     \/ /\ ~HasSuccess(e)
        /\ \E p \in reusable :
             Goto(s, "co_cancel",
                  [loc[s] EXCEPT !.rows = ActiveOrders(e) \ {p}, !.order = p])
        /\ UNCHANGED lock
  /\ Commits({})
  /\ UNCHANGED <<enr, pay, rzp, handoff>>

\* updateMany(... 'cancelled') locks the rows it writes.
CreateOrderCancel(s) ==
  /\ pc[s] = "co_cancel"
  /\ \/ LockRow(s)
     \/ /\ LastRow(s)
        /\ lock' = Take(s, Missing(s))
        /\ Goto(s, IF loc[s].fresh THEN "co_mint" ELSE "co_commit", loc[s])
  /\ Commits({})
  /\ UNCHANGED <<enr, pay, rzp, handoff>>

\* The HTTP call to Razorpay, made inside the transaction.
CreateOrderMint(s) ==
  /\ pc[s] = "co_mint"
  /\ \E p \in Orders :
       /\ rzp[p].state = "unused"
       /\ rzp' = [rzp EXCEPT ![p] = [state |-> "open", amount |-> loc[s].amount,
                                     charged |-> 0]]
       /\ Goto(s, "co_commit", [loc[s] EXCEPT !.order = p])
  /\ Commits({})
  /\ UNCHANGED <<enr, pay, lock, handoff>>

\* Mutant: the stale orders are left active.
CreateOrderCommitKeepsStale(s) ==
  LET e == loc[s].enr
      p == loc[s].order
      new == [status |-> "initiated", owner |-> e, amount |-> loc[s].amount]
  IN
  /\ pc[s] = "co_commit"
  /\ pay' = IF loc[s].fresh THEN [pay EXCEPT ![p] = new] ELSE pay
  /\ enr' = IF loc[s].fresh
            THEN [enr EXCEPT ![e].status = "payment_pending"] ELSE enr
  /\ lock' = Release(s)
  /\ Goto(s, "idle", NoLocals)
  /\ Commits(IF loc[s].fresh THEN {e, p} ELSE {})
  /\ UNCHANGED <<rzp, handoff>>

\* The insert, the status update and the commit.  A reused order changes
\* neither the payments row nor the enrollment.
CreateOrderCommit(s) ==
  LET e == loc[s].enr
      p == loc[s].order
      new == [status |-> "initiated", owner |-> e, amount |-> loc[s].amount]
  IN
  /\ pc[s] = "co_commit"
  /\ pay' = [q \in Orders |->
               IF loc[s].fresh /\ q = p THEN new
               ELSE IF q \in loc[s].rows THEN [pay[q] EXCEPT !.status = "cancelled"]
               ELSE pay[q]]
  /\ enr' = IF loc[s].fresh
            THEN [enr EXCEPT ![e].status = "payment_pending"] ELSE enr
  /\ lock' = Release(s)
  /\ Goto(s, "idle", NoLocals)
  /\ Commits(loc[s].rows \cup IF loc[s].fresh THEN {e, p} ELSE {})
  /\ UNCHANGED <<rzp, handoff>>

-----------------------------------------------------------------------------
(* selectForEnrollment: READ COMMITTED, the enrollment is read without a   *)
(* lock, then the payments are locked, then the enrollment is written.     *)

\* Mutant: a change of plan locks the enrollment before the payments.
SelectReadLocksChange(s, e, a) ==
  /\ pc[s] = "idle"
  /\ enr[e].status \notin PaidStatuses
  /\ IF enr[e].plan THEN Free({e}) /\ lock' = Take(s, {e}) ELSE UNCHANGED lock
  /\ Goto(s, "sel_list", [NoLocals EXCEPT !.enr = e, !.amount = a])
  /\ Commits({})
  /\ UNCHANGED <<enr, pay, rzp, handoff>>

SelectRead(s, e, a) ==
  /\ pc[s] = "idle"
  /\ enr[e].status \notin PaidStatuses
  /\ Goto(s, "sel_list", [NoLocals EXCEPT !.enr = e, !.amount = a])
  /\ Commits({})
  /\ UNCHANGED <<enr, pay, rzp, lock, handoff>>

\* SELECT ... FOR UPDATE fixes its set of rows when it starts; a row inserted
\* while it waits is not in the set.
SelectList(s) ==
  /\ pc[s] = "sel_list"
  /\ Goto(s, "sel_lock", [loc[s] EXCEPT !.rows = PaymentsOf(loc[s].enr)])
  /\ Commits({})
  /\ UNCHANGED <<enr, pay, rzp, lock, handoff>>

\* Mutant: the payments are read without FOR UPDATE.
SelectLockPlainSelect(s) ==
  /\ pc[s] = "sel_lock"
  /\ \A p \in loc[s].rows : pay[p].status # "success"
  /\ Goto(s, "sel_commit",
          [loc[s] EXCEPT !.rows = {p \in @ : pay[p].status \in ActiveStatuses}])
  /\ Commits({})
  /\ UNCHANGED <<enr, pay, rzp, lock, handoff>>

\* The payments are locked, and show their current status once they are: a
\* success among them ends the transaction.
SelectLock(s) ==
  /\ pc[s] = "sel_lock"
  /\ \/ LockRow(s)
     \/ /\ LastRow(s)
        /\ \E p \in loc[s].rows : pay[p].status = "success"
        /\ lock' = Release(s)
        /\ Goto(s, "idle", NoLocals)
     \/ /\ LastRow(s)
        /\ \A p \in loc[s].rows : pay[p].status # "success"
        /\ lock' = Take(s, Missing(s))
        /\ Goto(s, "sel_commit",
                [loc[s] EXCEPT !.rows = {p \in @ : pay[p].status \in ActiveStatuses}])
  /\ Commits({})
  /\ UNCHANGED <<enr, pay, rzp, handoff>>

\* The stale orders are cancelled, the plan is stamped, the transaction commits.
SelectCommit(s) ==
  LET e == loc[s].enr IN
  /\ pc[s] = "sel_commit"
  /\ Free({e})
  /\ pay' = [q \in Orders |-> IF q \in loc[s].rows
                              THEN [pay[q] EXCEPT !.status = "cancelled"]
                              ELSE pay[q]]
  /\ enr' = [enr EXCEPT ![e] = [@ EXCEPT !.plan = TRUE, !.amount = loc[s].amount,
                                         !.status = "payment_pending"]]
  /\ lock' = Release(s)
  /\ Goto(s, "idle", NoLocals)
  /\ Commits(loc[s].rows \cup {e})
  /\ UNCHANGED <<rzp, handoff>>

-----------------------------------------------------------------------------
(* settlePayment: Serializable.  The snapshot is taken when the first      *)
(* statement starts; a locked row that another transaction has changed     *)
(* since then raises a serialization failure.                              *)

SettleBegin(s, p, amount, recon) ==
  Goto(s, "settle_lock",
       [NoLocals EXCEPT !.enr = pay[p].owner, !.order = p,
                        !.amount = amount, !.recon = recon])

\* SELECT ... FOR UPDATE of the payment row.  An amount mismatch writes
\* 'failed' and throws in the same transaction, which rolls the write back.
SettleLock(s) ==
  LET p == loc[s].order IN
  /\ pc[s] = "settle_lock"
  /\ Free({p})
  /\ IF /\ p \notin dirty[s]
        /\ pay[p].status # "success"
        /\ pay[p].amount = loc[s].amount
     THEN /\ lock' = Take(s, {p})
          /\ Goto(s, "settle_commit", loc[s])
     ELSE /\ Goto(s, "idle", NoLocals)
          /\ UNCHANGED lock
  /\ Commits({})
  /\ UNCHANGED <<enr, pay, rzp, handoff>>

\* Both updates and the commit, unless the enrollment row has a newer version.
SettleCommit(s) ==
  LET e == loc[s].enr
      p == loc[s].order
  IN
  /\ pc[s] = "settle_commit"
  /\ Free({e})
  /\ e \notin dirty[s]
  /\ pay' = [pay EXCEPT ![p].status = "success"]
  /\ enr' = [enr EXCEPT ![e] = [@ EXCEPT !.status = "paid", !.paid = loc[s].amount]]
  /\ lock' = Release(s)
  /\ Goto(s, IF loc[s].recon THEN "rec_status" ELSE "enqueue", loc[s])
  /\ Commits({e, p})
  /\ UNCHANGED <<rzp, handoff>>

SettleConflict(s) ==
  /\ pc[s] = "settle_commit"
  /\ Free({loc[s].enr})
  /\ loc[s].enr \in dirty[s]
  /\ lock' = Release(s)
  /\ Goto(s, "idle", NoLocals)
  /\ Commits({})
  /\ UNCHANGED <<enr, pay, rzp, handoff>>

\* enqueueExternalApiSync; when the queue is down verify and the webhook call
\* the external API inline, the reconciliation only logs.
Enqueue(s) ==
  /\ pc[s] = "enqueue"
  /\ handoff' \in {handoff \cup {loc[s].enr}} \cup
                  (IF loc[s].recon THEN {handoff} ELSE {})
  /\ Goto(s, "idle", NoLocals)
  /\ Commits({})
  /\ UNCHANGED <<enr, pay, rzp, lock>>

-----------------------------------------------------------------------------
(* The callers of settlePayment *)

\* verifyPayment with a valid signature, which exists once the customer paid.
\* The amount it passes on is the row's own.
VerifyValid(s, p) ==
  /\ pc[s] = "idle"
  /\ pay[p].status # "none"
  /\ rzp[p].state = "paid"
  /\ SettleBegin(s, p, pay[p].amount, FALSE)
  /\ Commits({})
  /\ UNCHANGED <<enr, pay, rzp, lock, handoff>>

\* Mutant: every event on a known order settles it.
WebhookAnyEvent(s, p) ==
  /\ pc[s] = "idle"
  /\ pay[p].status # "none"
  /\ SettleBegin(s, p, rzp[p].amount, FALSE)
  /\ Commits({})
  /\ UNCHANGED <<enr, pay, rzp, lock, handoff>>

\* payment.captured or order.paid.
WebhookCaptured(s, p) ==
  /\ pc[s] = "idle"
  /\ pay[p].status # "none"
  /\ rzp[p].state = "paid"
  /\ SettleBegin(s, p, rzp[p].charged, FALSE)
  /\ Commits({})
  /\ UNCHANGED <<enr, pay, rzp, lock, handoff>>

\* verifyPayment with a signature that does not match.
VerifyInvalid(s, p) ==
  /\ pc[s] = "idle"
  /\ pay[p].status # "none"
  /\ Goto(s, "mark_failed", [NoLocals EXCEPT !.order = p])
  /\ Commits({})
  /\ UNCHANGED <<enr, pay, rzp, lock, handoff>>

\* payment.failed: an attempt on the order failed.
WebhookFailed(s, p) ==
  /\ pc[s] = "idle"
  /\ pay[p].status \notin {"none", "success"}
  /\ Goto(s, "mark_failed", [NoLocals EXCEPT !.order = p])
  /\ Commits({})
  /\ UNCHANGED <<enr, pay, rzp, lock, handoff>>

\* updatePaymentStatus: one UPDATE by primary key, with no condition on status.
UpdatePaymentStatus(s, p, status) ==
  /\ Free({p})
  /\ pay' = [pay EXCEPT ![p].status = status]
  /\ Goto(s, "idle", NoLocals)
  /\ Commits({p})
  /\ UNCHANGED <<enr, rzp, lock, handoff>>

MarkFailed(s) ==
  /\ pc[s] = "mark_failed"
  /\ UpdatePaymentStatus(s, loc[s].order, "failed")

\* The reconciliation job picks an active payment older than the grace period.
ReconPick(s, p) ==
  /\ pc[s] = "idle"
  /\ pay[p].status \in ActiveStatuses
  /\ Goto(s, "rec_fetch", [NoLocals EXCEPT !.order = p])
  /\ Commits({})
  /\ UNCHANGED <<enr, pay, rzp, lock, handoff>>

\* Mutant: a payment of the order that is not captured is settled too.
ReconFetchAnyPayment(s) ==
  LET p == loc[s].order IN
  /\ pc[s] = "rec_fetch"
  /\ SettleBegin(s, p, rzp[p].amount, TRUE)
  /\ Commits({})
  /\ UNCHANGED <<enr, pay, rzp, lock, handoff>>

\* fetchRazorpayPayment returns null when there is no captured payment and
\* also when the call fails; null expires a payment that is old enough.
ReconFetch(s) ==
  LET p == loc[s].order IN
  /\ pc[s] = "rec_fetch"
  /\ \/ /\ rzp[p].state = "paid"
        /\ SettleBegin(s, p, rzp[p].charged, TRUE)
     \/ Goto(s, "rec_expire", loc[s])
     \/ Goto(s, "idle", NoLocals)
  /\ Commits({})
  /\ UNCHANGED <<enr, pay, rzp, lock, handoff>>

ReconExpire(s) ==
  pc[s] = "rec_expire" /\ UpdatePaymentStatus(s, loc[s].order, "expired")

\* updateEnrollmentStatus(... 'sync_pending'), after the settlement committed.
ReconStatus(s) ==
  LET e == loc[s].enr IN
  /\ pc[s] = "rec_status"
  /\ Free({e})
  /\ enr' = [enr EXCEPT ![e].status = "sync_pending"]
  /\ Goto(s, "enqueue", loc[s])
  /\ Commits({e})
  /\ UNCHANGED <<pay, rzp, lock, handoff>>

-----------------------------------------------------------------------------
(* Other writers: each is one locked read and one write of the row.        *)

NextStatusOnResume(status) ==
  IF status \in {"failed", "expired"} THEN "submitted" ELSE status

\* createEnrollment on an existing row that is not paid.  A request of the
\* legacy shape also overwrites the amount with its own.
ResumeDraft(e) ==
  /\ Free({e})
  /\ enr[e].status \notin PaidStatuses
  /\ ~HasSuccess(e)
  /\ \E a \in Amounts \cup {enr[e].amount} :
       enr' = [enr EXCEPT ![e] =
                 [@ EXCEPT !.amount = a,
                           !.status = NextStatusOnResume(enr[e].status)]]
  /\ UNCHANGED <<pay, rzp, lock, pc, loc, handoff>>
  /\ Commits({e})

\* createSelfServiceEnrollment on an existing draft.
RestartDraft(e) ==
  /\ Free({e})
  /\ enr[e].status \in {"submitted", "payment_pending"}
  /\ enr' = [enr EXCEPT ![e] = [@ EXCEPT !.status = "submitted", !.plan = FALSE]]
  /\ UNCHANGED <<pay, rzp, lock, pc, loc, handoff>>
  /\ Commits({e})

\* The enrollment cleanup job.
CleanupDraft(e) ==
  /\ Free({e})
  /\ enr[e].status = "submitted"
  /\ enr' = [enr EXCEPT ![e].status = "expired"]
  /\ UNCHANGED <<pay, rzp, lock, pc, loc, handoff>>
  /\ Commits({e})

\* assignEnrollment and updateExternalSyncStatus write columns that are not
\* modelled here, and so a new version of the row.
AssignEnrollment(e) ==
  /\ Free({e})
  /\ UNCHANGED <<enr, pay, rzp, lock, pc, loc, handoff>>
  /\ Commits({e})

-----------------------------------------------------------------------------
(* The environment *)

\* External: the customer pays an open order at Razorpay, whatever the status
\* its row has here.  The response of createOrder, sent after the commit, is
\* how the customer learns the id.
Capture(p) ==
  /\ rzp[p].state = "open"
  /\ pay[p].status # "none"
  /\ \E a \in Amounts :
       /\ ExactCharge => a = rzp[p].amount
       /\ rzp' = [rzp EXCEPT ![p] = [@ EXCEPT !.state = "paid", !.charged = a]]
  /\ UNCHANGED <<enr, pay, lock, pc, loc, dirty, handoff>>

\* A session ends early: transaction timeout, deadlock victim, inactive plan,
\* unique violation, lost connection, crash of the process.  An open
\* transaction rolls back; statements not yet run never run.
Fail(s) ==
  /\ pc[s] # "idle"
  /\ lock' = Release(s)
  /\ Goto(s, "idle", NoLocals)
  /\ Commits({})
  /\ UNCHANGED <<enr, pay, rzp, handoff>>

SessionStep(s) ==
  \/ \E e \in Enrollments : CreateOrderLock(s, e)
  \/ CreateOrderList(s) \/ CreateOrderCancel(s)
  \/ CreateOrderMint(s) \/ CreateOrderCommit(s)
  \/ \E e \in Enrollments, a \in Amounts : SelectRead(s, e, a)
  \/ SelectList(s) \/ SelectLock(s) \/ SelectCommit(s)
  \/ SettleLock(s) \/ SettleCommit(s) \/ SettleConflict(s) \/ Enqueue(s)
  \/ \E p \in Orders :
       \/ VerifyValid(s, p) \/ VerifyInvalid(s, p)
       \/ WebhookCaptured(s, p) \/ WebhookFailed(s, p)
       \/ ReconPick(s, p)
  \/ MarkFailed(s) \/ ReconFetch(s) \/ ReconExpire(s) \/ ReconStatus(s)
  \/ Fail(s)

Next ==
  \/ \E s \in Sessions : SessionStep(s)
  \/ \E e \in Enrollments :
       ResumeDraft(e) \/ RestartDraft(e) \/ CleanupDraft(e) \/ AssignEnrollment(e)
  \/ \E p \in Orders : Capture(p)

Spec == Init /\ [][Next]_vars

=============================================================================
