--------------------------- MODULE PaymentsProofs ---------------------------
(***************************************************************************)
(* Proofs about the payment core, for any number of enrollments, orders,   *)
(* prices and sessions: the inductive invariant, then the properties that  *)
(* follow from it and that the core implements the order book.             *)
(***************************************************************************)
EXTENDS PaymentsProperties, TLAPS

-----------------------------------------------------------------------------
(* The inductive invariant *)

\* A payments row copies the order Razorpay minted, and a plan has a price.
TableInv ==
  /\ \A p \in Orders : pay[p].status # "none" =>
       rzp[p].state # "unused" /\ pay[p].amount = rzp[p].amount
  /\ \A e \in Enrollments : enr[e].plan => enr[e].amount \in Amounts

\* createOrder holds the row lock of an unpaid enrollment.  Once it has listed
\* the payments, none of them is a success, and every active one is either the
\* order it reuses or about to be cancelled.
CreateOrderInv(s) ==
  pc[s] \in CreateOrderPCs =>
    /\ loc[s].enr \in Enrollments
    /\ lock[loc[s].enr] = s
    /\ enr[loc[s].enr].status \notin PaidStatuses
    /\ enr[loc[s].enr].amount = loc[s].amount
    /\ loc[s].amount \in Amounts
    /\ pc[s] # "co_list" =>
         /\ ~HasSuccess(loc[s].enr)
         /\ loc[s].rows \subseteq PaymentsOf(loc[s].enr)
         /\ \A p \in ActiveOrders(loc[s].enr) :
              p \in loc[s].rows \/ (~loc[s].fresh /\ p = loc[s].order)
         /\ ~loc[s].fresh => /\ loc[s].order \in PaymentsOf(loc[s].enr)
                             /\ pay[loc[s].order].amount = loc[s].amount
    /\ pc[s] \in {"co_mint", "co_commit"} => \A p \in loc[s].rows : lock[p] = s
    /\ pc[s] = "co_list" => ~loc[s].fresh
    /\ pc[s] = "co_mint" => loc[s].fresh

\* An order just minted has no row yet, and no other session holds it.
MintInv(s) ==
  pc[s] = "co_commit" /\ loc[s].fresh =>
    /\ loc[s].order \in Orders
    /\ pay[loc[s].order] = NoRow
    /\ rzp[loc[s].order].state = "open"
    /\ rzp[loc[s].order].amount = loc[s].amount
    /\ \A t \in Sessions \ {s} :
         pc[t] = "co_commit" /\ loc[t].fresh => loc[t].order # loc[s].order

\* selectForEnrollment cancels only rows it has locked, none of them a success.
SelectInv(s) ==
  pc[s] \in SelectPCs =>
    /\ loc[s].enr \in Enrollments
    /\ loc[s].amount \in Amounts
    /\ loc[s].rows \subseteq PaymentsOf(loc[s].enr)
    /\ pc[s] = "sel_commit" =>
         \A p \in loc[s].rows : lock[p] = s /\ pay[p].status # "success"

\* A session that settles a payment, or has settled it, works for an order of
\* that enrollment which the customer paid.
SettleInv(s) ==
  pc[s] \in SettlePCs \cup {"rec_status", "enqueue"} =>
    /\ loc[s].enr \in Enrollments
    /\ loc[s].order \in Funded(loc[s].enr)
    /\ pc[s] = "settle_commit" =>
         /\ lock[loc[s].order] = s
         /\ pay[loc[s].order].amount = loc[s].amount
    /\ pc[s] = "rec_status" => enr[loc[s].enr].paid # 0

\* The other handlers work on a row that exists.
UpdateInv(s) ==
  pc[s] \in {"mark_failed", "rec_fetch", "rec_expire"} =>
    loc[s].order \in Orders /\ pay[loc[s].order].status # "none"

SessionInv(s) ==
  CreateOrderInv(s) /\ MintInv(s) /\ SelectInv(s) /\ SettleInv(s) /\ UpdateInv(s)

IInv ==
  /\ TypeOK
  /\ TableInv
  /\ \A s \in Sessions : SessionInv(s)
  /\ OneActiveOrder
  /\ PaidIsBacked
  /\ HandoffIsBacked

-----------------------------------------------------------------------------
(* The helpers of the model *)

\* Goto moves one session and keeps the types of pc and loc.
LEMMA GotoFacts ==
  ASSUME TypeOK, NEW s \in Sessions, NEW c \in PCs, NEW l \in Locals, Goto(s, c, l)
  PROVE  /\ pc' \in [Sessions -> PCs]
         /\ loc' \in [Sessions -> Locals]
         /\ pc'[s] = c
         /\ loc'[s] = l
         /\ \A t \in Sessions \ {s} : pc'[t] = pc[t] /\ loc'[t] = loc[t]
BY DEF TypeOK, Goto

\* Release frees the locks of one session and no others.
LEMMA ReleaseFacts ==
  ASSUME TypeOK, NEW s \in Sessions, lock' = Release(s)
  PROVE  /\ lock' \in [Rows -> Sessions \cup {None}]
         /\ \A r \in Rows : \A t \in Sessions \ {s} : lock[r] = t => lock'[r] = t
BY NoneAssumption DEF TypeOK, Release

\* Take gives free rows to one session and leaves every other lock alone.
LEMMA TakeFacts ==
  ASSUME TypeOK, NEW s \in Sessions, NEW R \in SUBSET Rows, Free(R), lock' = Take(s, R)
  PROVE  /\ lock' \in [Rows -> Sessions \cup {None}]
         /\ \A r \in Rows : \A t \in Sessions : lock[r] = t => lock'[r] = t
         /\ \A r \in R : lock'[r] = s
BY NoneAssumption DEF TypeOK, Take, Free

\* Commits keeps the type of dirty.
LEMMA CommitsType ==
  ASSUME TypeOK, NEW R \in SUBSET Rows, Commits(R)
  PROVE  dirty' \in [Sessions -> SUBSET Rows]
BY DEF TypeOK, Commits

LEMMA NoLocalsType == NoLocals \in Locals
BY DEF NoLocals, Locals

\* The fields of the locals of a session.
LEMMA LocalsFields ==
  ASSUME TypeOK, NEW s \in Sessions
  PROVE  /\ loc[s] \in Locals
         /\ loc[s].enr \in Enrollments \cup {None}
         /\ loc[s].order \in Orders \cup {None}
         /\ loc[s].rows \in SUBSET Orders
         /\ loc[s].amount \in Amounts \cup {0}
         /\ loc[s].fresh \in BOOLEAN
         /\ loc[s].recon \in BOOLEAN
BY DEF TypeOK, Locals

\* A payments row that exists belongs to an enrollment and has a price.
LEMMA RowFields ==
  ASSUME TypeOK, NEW p \in Orders
  PROVE  /\ pay[p] \in Payment
         /\ pay[p].status = "none" => pay[p] = NoRow
         /\ pay[p].status # "none" => /\ pay[p].status \in PaymentStatuses
                                      /\ pay[p].owner \in Enrollments
                                      /\ pay[p].amount \in Amounts
         /\ pay[p].owner \in Enrollments => pay[p].status # "none"
BY NoneAssumption DEF TypeOK, Payment, NoRow, PaymentStatuses, ActiveStatuses

-----------------------------------------------------------------------------
(* A step of another session does not disturb a session.                   *)

\* Rows stay, with their owner and price; minted orders stay minted; paid
\* orders stay paid; money shown stays shown.
Persist ==
  /\ \A p \in Orders : pay[p].status # "none" =>
       /\ pay'[p].status # "none"
       /\ pay'[p].owner = pay[p].owner
       /\ pay'[p].amount = pay[p].amount
  /\ \A p \in Orders :
       /\ rzp[p].state # "unused" =>
            rzp'[p].state # "unused" /\ rzp'[p].amount = rzp[p].amount
       /\ rzp[p].state = "paid" => rzp'[p].state = "paid"
  /\ \A e \in Enrollments : enr[e].paid # 0 => enr'[e].paid # 0

\* Session t does not move, and what it has locked or minted is left alone.
Undisturbed(t) ==
  /\ pc'[t] = pc[t] /\ loc'[t] = loc[t]
  /\ \A r \in Rows : lock[r] = t => lock'[r] = t
  /\ \A e \in Enrollments : lock[e] = t =>
       /\ enr'[e].status = enr[e].status
       /\ enr'[e].amount = enr[e].amount
       /\ \A p \in Orders :
            pay'[p].owner = e /\ pay'[p].status \in ActiveStatuses \cup {"success"} =>
              pay[p].owner = e /\ pay[p].status = pay'[p].status
  /\ \A p \in Orders : lock[p] = t /\ pay[p].status # "none" =>
       pay'[p].status = pay[p].status
  /\ pc[t] = "co_commit" /\ loc[t].fresh =>
       /\ pay'[loc[t].order] = pay[loc[t].order]
       /\ rzp'[loc[t].order] = rzp[loc[t].order]
       /\ \A u \in Sessions \ {t} :
            pc'[u] = "co_commit" /\ loc'[u].fresh => loc'[u].order # loc[t].order

LEMMA UndisturbedSession ==
  ASSUME IInv, TypeOK', Persist, NEW t \in Sessions, Undisturbed(t)
  PROVE  SessionInv(t)'
<1> USE DEF IInv
<1>1. CreateOrderInv(t)'
  <2> SUFFICES ASSUME pc[t] \in CreateOrderPCs
               PROVE  CreateOrderInv(t)'
    BY DEF CreateOrderInv, Undisturbed
  <2> DEFINE e == loc[t].enr
  <2>1. /\ CreateOrderInv(t)
        /\ e \in Enrollments /\ lock[e] = t /\ e \in Rows
    BY DEF SessionInv, CreateOrderInv, Rows
  <2>2. /\ e \in Enrollments /\ lock'[e] = t
        /\ enr'[e].status \notin PaidStatuses
        /\ enr'[e].amount = loc[t].amount
        /\ loc[t].amount \in Amounts
    BY <2>1 DEF CreateOrderInv, Undisturbed
  <2>3. \A p \in Orders :
          /\ p \in PaymentsOf(e) => p \in PaymentsOf(e)' /\ pay'[p].amount = pay[p].amount
          /\ p \in ActiveOrders(e)' => p \in ActiveOrders(e)
    BY <2>1, RowFields DEF Persist, Undisturbed, PaymentsOf, ActiveOrders
  <2>4. ~HasSuccess(e) => ~HasSuccess(e)'
    BY <2>1 DEF Undisturbed, HasSuccess, PaymentsOf
  <2>5. \A p \in Orders : lock[p] = t => lock'[p] = t
    BY DEF Undisturbed, Rows
  <2>6. pc[t] # "co_list" =>
         /\ ~HasSuccess(e)'
         /\ loc[t].rows \subseteq PaymentsOf(e)'
         /\ \A p \in ActiveOrders(e)' :
              p \in loc[t].rows \/ (~loc[t].fresh /\ p = loc[t].order)
         /\ ~loc[t].fresh => /\ loc[t].order \in PaymentsOf(e)'
                             /\ pay'[loc[t].order].amount = loc[t].amount
    <3> HAVE pc[t] # "co_list"
    <3>1. /\ ~HasSuccess(e)
          /\ loc[t].rows \subseteq PaymentsOf(e)
          /\ \A p \in ActiveOrders(e) :
              p \in loc[t].rows \/ (~loc[t].fresh /\ p = loc[t].order)
          /\ ~loc[t].fresh => /\ loc[t].order \in PaymentsOf(e)
                              /\ pay[loc[t].order].amount = loc[t].amount
      BY <2>1 DEF CreateOrderInv
    <3>2. PaymentsOf(e) \subseteq Orders /\ ActiveOrders(e)' \subseteq Orders
      BY DEF PaymentsOf, ActiveOrders
    <3> HIDE DEF e
    <3> QED BY <3>1, <3>2, <2>3, <2>4
  <2>7. /\ pc[t] \in {"co_mint", "co_commit"} => \A p \in loc[t].rows : lock'[p] = t
        /\ pc[t] = "co_list" => ~loc[t].fresh
        /\ pc[t] = "co_mint" => loc[t].fresh
    BY <2>1, <2>5, LocalsFields DEF CreateOrderInv
  <2>8. pc'[t] = pc[t] /\ loc'[t] = loc[t]
    BY DEF Undisturbed
  <2> QED BY <2>2, <2>6, <2>7, <2>8 DEF CreateOrderInv, HasSuccess, PaymentsOf, ActiveOrders
<1>2. MintInv(t)'
  <2> SUFFICES ASSUME pc[t] = "co_commit" /\ loc[t].fresh
               PROVE  MintInv(t)'
    BY DEF MintInv, Undisturbed
  <2>1. MintInv(t)
    BY DEF SessionInv
  <2>2. /\ pay'[loc[t].order] = pay[loc[t].order]
        /\ rzp'[loc[t].order] = rzp[loc[t].order]
        /\ pc'[t] = pc[t] /\ loc'[t] = loc[t]
        /\ \A u \in Sessions \ {t} :
             pc'[u] = "co_commit" /\ loc'[u].fresh => loc'[u].order # loc[t].order
    BY DEF Undisturbed
  <2> QED BY <2>1, <2>2 DEF MintInv
<1>3. SelectInv(t)'
  <2>1. \A e \in Enrollments : PaymentsOf(e) \subseteq PaymentsOf(e)'
    BY RowFields DEF Persist, PaymentsOf
  <2>2. pc'[t] = pc[t] /\ loc'[t] = loc[t]
    BY DEF Undisturbed
  <2>3. \A p \in Orders : lock[p] = t =>
          lock'[p] = t /\ (pay[p].status # "none" => pay'[p].status = pay[p].status)
    BY DEF Undisturbed, Rows
  <2>4. SelectInv(t) /\ loc[t].rows \in SUBSET Orders
    BY LocalsFields DEF SessionInv
  <2>5. \A e \in Enrollments : \A p \in PaymentsOf(e) : pay[p].status # "none"
    BY RowFields DEF PaymentsOf
  <2> QED BY <2>1, <2>2, <2>3, <2>4, <2>5 DEF SelectInv, PaymentsOf
<1>4. SettleInv(t)'
  <2>1. \A e \in Enrollments : \A p \in Funded(e) : p \in Funded(e)' /\ pay'[p].amount = pay[p].amount
    BY RowFields DEF Persist, PaymentsOf, Funded
  <2>2. pc'[t] = pc[t] /\ loc'[t] = loc[t]
    BY DEF Undisturbed
  <2>3. \A p \in Orders : lock[p] = t => lock'[p] = t
    BY DEF Undisturbed, Rows
  <2>4. SettleInv(t) /\ \A e \in Enrollments : Funded(e) \subseteq Orders
    BY DEF SessionInv, Funded, PaymentsOf
  <2> QED BY <2>1, <2>2, <2>3, <2>4 DEF SettleInv, Persist, Funded, PaymentsOf
<1>5. UpdateInv(t)'
  BY DEF SessionInv, UpdateInv, Undisturbed, Persist
<1> QED BY <1>1, <1>2, <1>3, <1>4, <1>5 DEF SessionInv

\* Only session s moves; it may take free locks and release its own.
OnlyMoves(s) ==
  /\ lock' \in [Rows -> Sessions \cup {None}]
  /\ pc' \in [Sessions -> PCs]
  /\ loc' \in [Sessions -> Locals]
  /\ dirty' \in [Sessions -> SUBSET Rows]
  /\ \A t \in Sessions \ {s} :
       /\ pc'[t] = pc[t] /\ loc'[t] = loc[t]
       /\ \A r \in Rows : lock[r] = t => lock'[r] = t

LEMMA IdleSession ==
  ASSUME NEW s \in Sessions, pc'[s] = "idle"
  PROVE  SessionInv(s)'
BY DEF SessionInv, CreateOrderInv, MintInv, SelectInv, SettleInv, UpdateInv,
       CreateOrderPCs, SelectPCs, SettlePCs

\* A step that writes no table keeps the invariant if the session that takes
\* it is in order afterwards.
LEMMA QuietStep ==
  ASSUME IInv, NEW s \in Sessions, OnlyMoves(s), UNCHANGED <<enr, pay, rzp, handoff>>,
         ~(pc'[s] = "co_commit" /\ loc'[s].fresh),
         SessionInv(s)'
  PROVE  IInv'
<1>1. TypeOK'
  BY DEF IInv, TypeOK, OnlyMoves
<1>2. Persist
  BY DEF Persist
<1>3. ASSUME NEW t \in Sessions \ {s}
      PROVE  SessionInv(t)'
  <2>1. ASSUME pc[t] = "co_commit" /\ loc[t].fresh, NEW u \in Sessions \ {t},
               pc'[u] = "co_commit" /\ loc'[u].fresh
        PROVE  loc'[u].order # loc[t].order
    <3>1. u # s /\ pc'[u] = pc[u] /\ loc'[u] = loc[u]
      BY <2>1 DEF OnlyMoves
    <3>2. MintInv(t)
      BY DEF IInv, SessionInv
    <3> QED BY <2>1, <3>1, <3>2 DEF MintInv
  <2>2. Undisturbed(t)
    BY <2>1 DEF Undisturbed, OnlyMoves
  <2> QED BY <1>1, <1>2, <2>2, UndisturbedSession
<1>4. TableInv' /\ OneActiveOrder' /\ PaidIsBacked' /\ HandoffIsBacked'
  BY DEF IInv, TableInv, OneActiveOrder, PaidIsBacked, HandoffIsBacked,
         ActiveOrders, PaymentsOf, Funded
<1> QED BY <1>1, <1>3, <1>4 DEF IInv

\* The general step: the tables change, but no other session is disturbed.
\* With None for s it is a step in which no session moves.
LEMMA WriteStep ==
  ASSUME IInv, NEW s, TypeOK', Persist,
         \A t \in Sessions \ {s} : Undisturbed(t), s \in Sessions => SessionInv(s)',
         TableInv', OneActiveOrder', PaidIsBacked', HandoffIsBacked'
  PROVE  IInv'
<1>1. \A t \in Sessions \ {s} : SessionInv(t)'
  BY UndisturbedSession
<1> QED BY <1>1 DEF IInv

\* Orders that the customer paid stay paid, for the same price.
LEMMA FundedPersists ==
  ASSUME TypeOK, Persist, NEW e \in Enrollments, NEW p \in Funded(e)
  PROVE  p \in Funded(e)' /\ pay'[p].amount = pay[p].amount
BY RowFields DEF Persist, Funded, PaymentsOf

\* What is credited and handed off stays backed if every enrollment keeps its
\* credit and enters no paid status, or has its credit backed afterwards.
LEMMA BackedStep ==
  ASSUME IInv, Persist,
         \A e \in Enrollments :
           \/ /\ enr'[e].paid = enr[e].paid
              /\ enr'[e].status \in PaidStatuses =>
                   enr[e].status \in PaidStatuses \/ enr[e].paid # 0
           \/ enr'[e].paid # 0 /\ \E p \in Funded(e)' : pay'[p].amount = enr'[e].paid,
         \A e \in handoff' \cap Enrollments : e \in handoff \/ Funded(e)' # {},
         handoff' \subseteq Enrollments
  PROVE  PaidIsBacked' /\ HandoffIsBacked'
<1>1. TypeOK /\ PaidIsBacked /\ HandoffIsBacked
  BY DEF IInv
<1>2. ASSUME NEW e \in Enrollments
      PROVE  /\ enr'[e].status \in PaidStatuses => enr'[e].paid # 0
             /\ enr'[e].paid # 0 => \E p \in Funded(e)' : pay'[p].amount = enr'[e].paid
  <2>1. \A p \in Funded(e) : p \in Funded(e)' /\ pay'[p].amount = pay[p].amount
    BY <1>1, FundedPersists
  <2>2. /\ enr[e].status \in PaidStatuses => enr[e].paid # 0
        /\ enr[e].paid # 0 => \E p \in Funded(e) : pay[p].amount = enr[e].paid
    BY <1>1 DEF PaidIsBacked
  <2> QED BY <2>1, <2>2
<1>3. ASSUME NEW e \in handoff'
      PROVE  Funded(e)' # {}
  <2>1. \A p \in Funded(e) : p \in Funded(e)'
    BY <1>1, FundedPersists
  <2>2. e \in handoff => Funded(e) # {}
    BY <1>1 DEF HandoffIsBacked
  <2> QED BY <2>1, <2>2
<1> QED BY <1>2, <1>3 DEF PaidIsBacked, HandoffIsBacked

\* A session that goes to a known statement moves alone.
LEMMA MoveFacts ==
  ASSUME TypeOK, NEW s \in Sessions, NEW c \in PCs, NEW l \in Locals,
         NEW R \in SUBSET Rows, Goto(s, c, l), Commits(R),
         \/ UNCHANGED lock
         \/ lock' = Release(s)
         \/ \E T \in SUBSET Rows : Free(T) /\ lock' = Take(s, T)
  PROVE  OnlyMoves(s) /\ pc'[s] = c /\ loc'[s] = l
<1>1. /\ pc' \in [Sessions -> PCs] /\ loc' \in [Sessions -> Locals]
      /\ pc'[s] = c /\ loc'[s] = l
      /\ \A t \in Sessions \ {s} : pc'[t] = pc[t] /\ loc'[t] = loc[t]
  BY GotoFacts
<1>2. dirty' \in [Sessions -> SUBSET Rows]
  BY CommitsType
<1>3. /\ lock' \in [Rows -> Sessions \cup {None}]
      /\ \A r \in Rows : \A t \in Sessions \ {s} : lock[r] = t => lock'[r] = t
  <2>1. CASE UNCHANGED lock
    BY <2>1 DEF TypeOK
  <2>2. CASE lock' = Release(s)
    BY <2>2, ReleaseFacts
  <2>3. CASE \E T \in SUBSET Rows : Free(T) /\ lock' = Take(s, T)
    BY <2>3, TakeFacts
  <2> QED BY <2>1, <2>2, <2>3
<1> QED BY <1>1, <1>2, <1>3 DEF OnlyMoves

\* A session that locks one more row stays at its statement.
LEMMA LockRowFacts ==
  ASSUME TypeOK, NEW s \in Sessions, LockRow(s), Commits({})
  PROVE  /\ OnlyMoves(s) /\ pc'[s] = pc[s] /\ loc'[s] = loc[s]
         /\ \A r \in Rows : lock[r] = s => lock'[r] = s
         /\ \A r \in Rows : lock'[r] = s => lock[r] = s \/ r \in loc[s].rows
<1>1. PICK p \in Missing(s) : Free({p}) /\ lock' = Take(s, {p})
  BY DEF LockRow
<1>2. /\ p \in loc[s].rows /\ {p} \in SUBSET Rows /\ {} \in SUBSET Rows
      /\ pc[s] \in PCs /\ loc[s] \in Locals
  BY <1>1, LocalsFields DEF Missing, Rows, TypeOK
<1>3. Goto(s, pc[s], loc[s])
  BY DEF LockRow
<1>4. OnlyMoves(s) /\ pc'[s] = pc[s] /\ loc'[s] = loc[s]
  BY <1>1, <1>2, <1>3, MoveFacts
<1>5. \A r \in Rows : lock[r] = s => lock'[r] = s
  BY <1>1, <1>2, TakeFacts
<1>6. \A r \in Rows : lock'[r] = s => lock[r] = s \/ r \in loc[s].rows
  BY <1>1, <1>2 DEF Take
<1> QED BY <1>4, <1>5, <1>6

\* With the last row a session holds them all.
LEMMA LastRowFacts ==
  ASSUME TypeOK, NEW s \in Sessions, LastRow(s), lock' = Take(s, Missing(s))
  PROVE  /\ Missing(s) \in SUBSET Rows /\ Free(Missing(s))
         /\ lock' \in [Rows -> Sessions \cup {None}]
         /\ \A r \in Rows : \A t \in Sessions : lock[r] = t => lock'[r] = t
         /\ \A r \in loc[s].rows : lock'[r] = s
         /\ \A r \in Rows : lock'[r] = s => lock[r] = s \/ r \in loc[s].rows
<1>1. loc[s].rows \subseteq Rows /\ Missing(s) \in SUBSET Rows /\ Free(Missing(s))
  BY LocalsFields DEF LastRow, Missing, Rows
<1>2. /\ lock' \in [Rows -> Sessions \cup {None}]
      /\ \A r \in Rows : \A t \in Sessions : lock[r] = t => lock'[r] = t
      /\ \A r \in Missing(s) : lock'[r] = s
  BY <1>1, TakeFacts
<1>3. \A r \in loc[s].rows : lock'[r] = s
  BY <1>1, <1>2 DEF Missing
<1>4. \A r \in Rows : lock'[r] = s => lock[r] = s \/ r \in loc[s].rows
  BY DEF Take, Missing
<1> QED BY <1>1, <1>2, <1>3, <1>4

\* Status st is written to the payments R and nothing else in the table
\* changes.  The rows exist, no other session has them locked, and a success
\* is written only if no other session has the enrollment locked either.
WritesStatus(s, R, st) ==
  /\ pay' \in [Orders -> Payment]
  /\ \A q \in Orders :
       /\ pay'[q].owner = pay[q].owner /\ pay'[q].amount = pay[q].amount
       /\ pay'[q].status = IF q \in R THEN st ELSE pay[q].status
       /\ q \notin R => pay'[q] = pay[q]
  /\ \A q \in R :
       /\ pay[q].status # "none"
       /\ \A t \in Sessions \ {s} : lock[q] # t
       /\ st = "success" => \A t \in Sessions \ {s} : lock[pay[q].owner] # t

\* The enrollments are written without disturbing another session.
WritesEnrollments(s) ==
  /\ enr' \in [Enrollments -> Enrollment]
  /\ \A e \in Enrollments :
       /\ \A t \in Sessions \ {s} : lock[e] = t =>
            enr'[e].status = enr[e].status /\ enr'[e].amount = enr[e].amount
       /\ enr'[e].plan => enr'[e].amount \in Amounts
       /\ enr[e].paid # 0 => enr'[e].paid # 0

LEMMA StatusWrite ==
  ASSUME TypeOK, NEW s, NEW R \in SUBSET Orders, NEW st \in PaymentStatuses,
         \A q \in R : /\ pay[q].status # "none"
                      /\ \A t \in Sessions \ {s} : lock[q] # t
                      /\ st = "success" =>
                           \A t \in Sessions \ {s} : lock[pay[q].owner] # t,
         pay' = [q \in Orders |-> IF q \in R THEN [pay[q] EXCEPT !.status = st]
                                  ELSE pay[q]]
  PROVE  WritesStatus(s, R, st)
<1>1. ASSUME NEW q \in Orders
      PROVE  /\ pay'[q] \in Payment
             /\ pay'[q].owner = pay[q].owner /\ pay'[q].amount = pay[q].amount
             /\ pay'[q].status = IF q \in R THEN st ELSE pay[q].status
             /\ q \notin R => pay'[q] = pay[q]
  <2>1. pay[q] \in Payment
    BY RowFields
  <2>2. CASE q \in R
    <3>1. pay'[q] = [pay[q] EXCEPT !.status = st] /\ pay[q].status # "none"
      BY <2>2
    <3> QED BY <2>1, <2>2, <3>1 DEF Payment, NoRow
  <2>3. CASE q \notin R
    BY <2>1, <2>3
  <2> QED BY <2>2, <2>3
<1> QED BY <1>1 DEF WritesStatus

\* Such writes keep rows, owners, prices and credits.
LEMMA StatusPersists ==
  ASSUME NEW s, UNCHANGED rzp, NEW R \in SUBSET Orders, NEW st \in PaymentStatuses,
         WritesStatus(s, R, st), WritesEnrollments(s)
  PROVE  Persist
<1>1. st # "none"
  BY DEF PaymentStatuses, ActiveStatuses
<1> QED BY <1>1 DEF Persist, WritesStatus, WritesEnrollments

\* A step that writes the status of payments and columns of enrollments.
LEMMA StatusStep ==
  ASSUME IInv, NEW s, OnlyMoves(s), UNCHANGED rzp,
         s \in Sessions => /\ SessionInv(s)'
                           /\ ~(pc'[s] = "co_commit" /\ loc'[s].fresh),
         NEW R \in SUBSET Orders, NEW st \in PaymentStatuses \ ActiveStatuses,
         WritesStatus(s, R, st), WritesEnrollments(s), handoff' \subseteq Enrollments,
         PaidIsBacked', HandoffIsBacked'
  PROVE  IInv'
<1>0. Persist
  BY StatusPersists
<1> USE DEF WritesStatus, WritesEnrollments
<1>1. /\ TypeOK /\ TableInv /\ OneActiveOrder
      /\ \A t \in Sessions : MintInv(t)
  BY DEF IInv, SessionInv
<1>2. \A q \in Orders :
           /\ pay'[q].owner = pay[q].owner /\ pay'[q].amount = pay[q].amount
           /\ pay'[q].status = IF q \in R THEN st ELSE pay[q].status
           /\ q \notin R => pay'[q] = pay[q]
  OBVIOUS
<1>3. \A q \in Orders : pay'[q].status = "none" <=> pay[q].status = "none"
  <2>1. st # "none"
    BY DEF PaymentStatuses, ActiveStatuses
  <2> QED BY <1>2, <2>1
<1>4. TypeOK'
  BY <1>1, <1>2 DEF TypeOK, OnlyMoves
<1>6. ASSUME NEW t \in Sessions \ {s}
      PROVE  Undisturbed(t)
  <2>1. ASSUME pc[t] = "co_commit" /\ loc[t].fresh
        PROVE  /\ pay'[loc[t].order] = pay[loc[t].order]
               /\ \A u \in Sessions \ {t} :
                     pc'[u] = "co_commit" /\ loc'[u].fresh => loc'[u].order # loc[t].order
    <3>1. /\ loc[t].order \in Orders /\ pay[loc[t].order] = NoRow
          /\ \A u \in Sessions \ {t} :
               pc[u] = "co_commit" /\ loc[u].fresh => loc[u].order # loc[t].order
      BY <1>1, <2>1 DEF MintInv
    <3>2. loc[t].order \notin R
      BY <3>1 DEF NoRow
    <3> QED BY <1>2, <3>1, <3>2 DEF OnlyMoves
  <2>2. ASSUME NEW e \in Enrollments, lock[e] = t, NEW p \in Orders,
               pay'[p].owner = e, pay'[p].status \in ActiveStatuses \cup {"success"}
        PROVE  pay[p].owner = e /\ pay[p].status = pay'[p].status
    BY <1>2, <2>2
  <2>3. \A p \in Orders : lock[p] = t => pay'[p].status = pay[p].status
    BY <1>2
  <2> QED BY <2>1, <2>2, <2>3 DEF Undisturbed, OnlyMoves
<1>7. TableInv'
  BY <1>1, <1>2, <1>3 DEF TableInv
<1>8. OneActiveOrder'
  <2>1. \A e \in Enrollments : ActiveOrders(e)' \subseteq ActiveOrders(e)
    BY <1>2 DEF ActiveOrders, PaymentsOf
  <2> QED BY <1>1, <2>1 DEF OneActiveOrder
<1> QED BY <1>4, <1>0, <1>6, <1>7, <1>8, WriteStep

-----------------------------------------------------------------------------
(* createOrder *)

LEMMA CreateOrderLockInv ==
  ASSUME IInv, NEW s \in Sessions, NEW e \in Enrollments, CreateOrderLock(s, e)
  PROVE  IInv'
<1> DEFINE l == [NoLocals EXCEPT !.enr = e, !.amount = enr[e].amount]
<1>1. TypeOK /\ TableInv /\ {e} \in SUBSET Rows /\ {} \in SUBSET Rows
  BY DEF IInv, Rows
<1>2. enr[e].amount \in Amounts
  BY <1>1 DEF CreateOrderLock, TableInv
<1>3. l \in Locals /\ l.enr = e /\ l.amount = enr[e].amount /\ l.fresh = FALSE
  BY <1>2 DEF NoLocals, Locals
<1>4. /\ pc' \in [Sessions -> PCs] /\ loc' \in [Sessions -> Locals]
      /\ pc'[s] = "co_list" /\ loc'[s] = l
      /\ \A t \in Sessions \ {s} : pc'[t] = pc[t] /\ loc'[t] = loc[t]
  <2>1. Goto(s, "co_list", l) /\ "co_list" \in PCs
    BY DEF CreateOrderLock, PCs, CreateOrderPCs
  <2> HIDE DEF l
  <2> QED BY <1>1, <1>3, <2>1, GotoFacts
<1>5. /\ lock' \in [Rows -> Sessions \cup {None}]
      /\ \A r \in Rows : \A t \in Sessions : lock[r] = t => lock'[r] = t
      /\ lock'[e] = s
  BY <1>1, TakeFacts DEF CreateOrderLock
<1>6. dirty' \in [Sessions -> SUBSET Rows]
  BY <1>1, CommitsType DEF CreateOrderLock
<1>7. UNCHANGED <<enr, pay, rzp, handoff>> /\ enr[e].status \notin PaidStatuses
  BY DEF CreateOrderLock
<1> HIDE DEF l
<1>8. OnlyMoves(s)
  BY <1>4, <1>5, <1>6 DEF OnlyMoves
<1>9. SessionInv(s)'
  BY <1>2, <1>3, <1>4, <1>5, <1>7
  DEF SessionInv, CreateOrderInv, MintInv, SelectInv, SettleInv, UpdateInv,
      CreateOrderPCs, SelectPCs, SettlePCs
<1> QED BY <1>3, <1>4, <1>7, <1>8, <1>9, QuietStep

LEMMA CreateOrderListInv ==
  ASSUME IInv, NEW s \in Sessions, CreateOrderList(s)
  PROVE  IInv'
<1> DEFINE e == loc[s].enr
           reusable == {p \in ActiveOrders(e) : pay[p].amount = loc[s].amount}
<1>1. TypeOK /\ {} \in SUBSET Rows /\ CreateOrderInv(s) /\ loc[s] \in Locals
  BY LocalsFields DEF IInv, SessionInv
<1>2. dirty' \in [Sessions -> SUBSET Rows] /\ UNCHANGED <<enr, pay, rzp, handoff>>
  BY <1>1, CommitsType DEF CreateOrderList
<1>3. /\ e \in Enrollments /\ lock[e] = s
      /\ enr[e].status \notin PaidStatuses
      /\ enr[e].amount = loc[s].amount
      /\ loc[s].amount \in Amounts
  BY <1>1 DEF CreateOrderList, CreateOrderInv, CreateOrderPCs
<1>4. CASE HasSuccess(e)
  <2>1. Goto(s, "idle", NoLocals) /\ lock' = Release(s) /\ "idle" \in PCs
    BY <1>4 DEF CreateOrderList, PCs
  <2>2. OnlyMoves(s) /\ pc'[s] = "idle"
    BY <1>1, <1>2, <2>1, GotoFacts, ReleaseFacts, NoLocalsType DEF OnlyMoves
  <2> QED BY <1>2, <2>2, IdleSession, QuietStep
<1>5. CASE ~HasSuccess(e)
  <2>1. PICK l \in Locals :
          /\ Goto(s, "co_cancel", l)
          /\ l.enr = e /\ l.amount = loc[s].amount
          /\ l.rows \subseteq ActiveOrders(e)
          /\ \A p \in ActiveOrders(e) : p \in l.rows \/ (~l.fresh /\ p = l.order)
          /\ ~l.fresh => l.order \in reusable
    <3>1. CASE /\ reusable = {}
               /\ Goto(s, "co_cancel",
                       [loc[s] EXCEPT !.rows = ActiveOrders(e), !.fresh = TRUE])
      <4> DEFINE l == [loc[s] EXCEPT !.rows = ActiveOrders(e), !.fresh = TRUE]
      <4>1. /\ l \in Locals /\ l.enr = e /\ l.amount = loc[s].amount
            /\ l.rows = ActiveOrders(e) /\ l.fresh = TRUE
        BY <1>1 DEF Locals, ActiveOrders, PaymentsOf
      <4> HIDE DEF l
      <4>2. Goto(s, "co_cancel", l)
        BY <3>1 DEF l
      <4> QED BY <4>1, <4>2
    <3>2. CASE \E p \in reusable :
                 Goto(s, "co_cancel",
                      [loc[s] EXCEPT !.rows = ActiveOrders(e) \ {p}, !.order = p])
      <4>1. PICK p \in reusable :
                 Goto(s, "co_cancel",
                      [loc[s] EXCEPT !.rows = ActiveOrders(e) \ {p}, !.order = p])
        BY <3>2
      <4> DEFINE l == [loc[s] EXCEPT !.rows = ActiveOrders(e) \ {p}, !.order = p]
      <4>2. loc[s].fresh = FALSE \/ loc[s].fresh = TRUE
        BY <1>1 DEF Locals
      <4>3. /\ l \in Locals /\ l.enr = e /\ l.amount = loc[s].amount
            /\ l.rows = ActiveOrders(e) \ {p} /\ l.order = p /\ l.fresh = loc[s].fresh
        BY <1>1 DEF Locals, ActiveOrders, PaymentsOf
      <4>4. loc[s].fresh = FALSE
        BY <1>1, <4>2 DEF CreateOrderList, CreateOrderInv, CreateOrderPCs
      <4> HIDE DEF l
      <4>5. Goto(s, "co_cancel", l)
        BY <4>1 DEF l
      <4> QED BY <4>1, <4>3, <4>4, <4>5
    <3> QED BY <1>5, <3>1, <3>2 DEF CreateOrderList
  <2>2. /\ pc'[s] = "co_cancel" /\ loc'[s] = l
        /\ OnlyMoves(s)
    <3>1. "co_cancel" \in PCs /\ UNCHANGED lock
      BY <1>5 DEF CreateOrderList, PCs, CreateOrderPCs
    <3> QED BY <1>1, <1>2, <2>1, <3>1, GotoFacts DEF OnlyMoves, TypeOK
  <2>3. lock'[e] = s
    BY <1>3, <1>5 DEF CreateOrderList
  <2>4. CreateOrderInv(s)'
    BY <1>2, <1>3, <1>5, <2>1, <2>2, <2>3
    DEF CreateOrderInv, CreateOrderPCs, HasSuccess, ActiveOrders, PaymentsOf
  <2>5. SessionInv(s)'
    BY <2>2, <2>4
    DEF SessionInv, MintInv, SelectInv, SettleInv, UpdateInv, SelectPCs, SettlePCs
  <2> QED BY <1>2, <2>2, <2>5, QuietStep
<1> QED BY <1>4, <1>5

LEMMA CreateOrderCancelInv ==
  ASSUME IInv, NEW s \in Sessions, CreateOrderCancel(s)
  PROVE  IInv'
<1> DEFINE c == IF loc[s].fresh THEN "co_mint" ELSE "co_commit"
<1>1. TypeOK /\ {} \in SUBSET Rows /\ CreateOrderInv(s) /\ loc[s] \in Locals
  BY LocalsFields DEF IInv, SessionInv
<1>2. loc[s].rows \in SUBSET Rows /\ loc[s].fresh \in BOOLEAN
  BY <1>1, LocalsFields DEF Rows
<1>3. /\ pc[s] = "co_cancel" /\ Commits({}) /\ UNCHANGED <<enr, pay, rzp, handoff>>
      /\ dirty' \in [Sessions -> SUBSET Rows]
  BY <1>1, CommitsType DEF CreateOrderCancel
<1>4. loc[s].enr \in Enrollments /\ loc[s].enr \in Rows /\ lock[loc[s].enr] = s
  BY <1>1, <1>3 DEF CreateOrderInv, CreateOrderPCs, Rows
<1>5. CASE LockRow(s)
  <2>1. /\ OnlyMoves(s) /\ pc'[s] = "co_cancel" /\ loc'[s] = loc[s]
        /\ lock'[loc[s].enr] = s
    BY <1>1, <1>3, <1>4, <1>5, LockRowFacts
  <2>2. CreateOrderInv(s)'
    BY <1>1, <1>3, <1>4, <2>1
    DEF CreateOrderInv, CreateOrderPCs, HasSuccess, ActiveOrders, PaymentsOf
  <2>3. SessionInv(s)' /\ ~(pc'[s] = "co_commit" /\ loc'[s].fresh)
    BY <2>1, <2>2
    DEF SessionInv, MintInv, SelectInv, SettleInv, UpdateInv, SelectPCs, SettlePCs
  <2> QED BY <1>3, <2>1, <2>3, QuietStep
<1>6. CASE LastRow(s) /\ lock' = Take(s, Missing(s)) /\ Goto(s, c, loc[s])
  <2>1. /\ lock' \in [Rows -> Sessions \cup {None}]
        /\ \A r \in Rows : \A t \in Sessions : lock[r] = t => lock'[r] = t
        /\ \A r \in loc[s].rows : lock'[r] = s
    BY <1>1, <1>6, LastRowFacts
  <2>2. /\ pc' \in [Sessions -> PCs] /\ loc' \in [Sessions -> Locals]
        /\ pc'[s] = c /\ loc'[s] = loc[s]
        /\ \A t \in Sessions \ {s} : pc'[t] = pc[t] /\ loc'[t] = loc[t]
    <3>1. c \in PCs
      BY DEF PCs, CreateOrderPCs
    <3> HIDE DEF c
    <3> QED BY <1>1, <1>6, <3>1, GotoFacts
  <2>3. OnlyMoves(s)
    BY <1>3, <2>1, <2>2 DEF OnlyMoves
  <2>4. lock'[loc[s].enr] = s
    BY <1>4, <2>1
  <2>5. CreateOrderInv(s)'
    BY <1>1, <1>3, <1>4, <2>1, <2>2, <2>4
    DEF CreateOrderInv, CreateOrderPCs, HasSuccess, ActiveOrders, PaymentsOf
  <2>6. SessionInv(s)' /\ ~(pc'[s] = "co_commit" /\ loc'[s].fresh)
    BY <1>2, <2>2, <2>5
    DEF SessionInv, MintInv, SelectInv, SettleInv, UpdateInv, SelectPCs, SettlePCs
  <2> QED BY <1>3, <2>3, <2>6, QuietStep
<1> QED BY <1>5, <1>6 DEF CreateOrderCancel

LEMMA CreateOrderMintInv ==
  ASSUME IInv, NEW s \in Sessions, CreateOrderMint(s)
  PROVE  IInv'
<1>1. TypeOK /\ {} \in SUBSET Rows /\ CreateOrderInv(s) /\ loc[s] \in Locals
  BY LocalsFields DEF IInv, SessionInv
<1>2. dirty' \in [Sessions -> SUBSET Rows] /\ UNCHANGED <<enr, pay, lock, handoff>>
  BY <1>1, CommitsType DEF CreateOrderMint
<1>3. PICK p \in Orders :
        /\ rzp[p].state = "unused"
        /\ rzp' = [rzp EXCEPT ![p] = [state |-> "open", amount |-> loc[s].amount,
                                      charged |-> 0]]
        /\ Goto(s, "co_commit", [loc[s] EXCEPT !.order = p])
  BY DEF CreateOrderMint
<1> DEFINE l == [loc[s] EXCEPT !.order = p]
<1>4. /\ l \in Locals /\ l.enr = loc[s].enr /\ l.order = p /\ l.rows = loc[s].rows
      /\ l.amount = loc[s].amount /\ l.fresh = loc[s].fresh
  BY <1>1 DEF Locals
<1>5. /\ pc' \in [Sessions -> PCs] /\ loc' \in [Sessions -> Locals]
      /\ pc'[s] = "co_commit" /\ loc'[s] = l
      /\ \A t \in Sessions \ {s} : pc'[t] = pc[t] /\ loc'[t] = loc[t]
  <2>1. "co_commit" \in PCs
    BY DEF PCs, CreateOrderPCs
  <2>2. Goto(s, "co_commit", l)
    BY <1>3
  <2> HIDE DEF l
  <2> QED BY <1>1, <1>4, <2>1, <2>2, GotoFacts
<1> HIDE DEF l
<1>6. pc[s] = "co_mint" /\ pc[s] \in CreateOrderPCs /\ loc[s].fresh /\ loc[s].amount \in Amounts
  BY <1>1 DEF CreateOrderMint, CreateOrderInv, CreateOrderPCs
<1>7. /\ rzp' \in [Orders -> RazorpayOrder]
      /\ rzp'[p].state = "open" /\ rzp'[p].amount = loc[s].amount
      /\ \A q \in Orders \ {p} : rzp'[q] = rzp[q]
  BY <1>1, <1>3, <1>6 DEF TypeOK, RazorpayOrder
<1>8. pay[p].status = "none" /\ pay[p] = NoRow
  BY <1>1, <1>3, RowFields DEF IInv, TableInv
<1>9. TypeOK'
  BY <1>1, <1>2, <1>5, <1>7 DEF TypeOK
<1>10. Persist
  BY <1>2, <1>3, <1>7 DEF Persist
<1>11. ASSUME NEW t \in Sessions \ {s}
       PROVE  Undisturbed(t)
  <2>1. MintInv(t)
    BY DEF IInv, SessionInv
  <2>2. ASSUME pc[t] = "co_commit" /\ loc[t].fresh
        PROVE  /\ rzp'[loc[t].order] = rzp[loc[t].order]
               /\ \A u \in Sessions \ {t} :
                     pc'[u] = "co_commit" /\ loc'[u].fresh => loc'[u].order # loc[t].order
    BY <1>3, <1>4, <1>5, <1>7, <2>1, <2>2 DEF MintInv
  <2> QED BY <1>2, <1>5, <2>2 DEF Undisturbed
<1>12. SessionInv(s)'
  <2>1. CreateOrderInv(s)'
    BY <1>1, <1>2, <1>4, <1>5, <1>6
    DEF CreateOrderInv, CreateOrderPCs, HasSuccess, ActiveOrders, PaymentsOf
  <2>2. MintInv(s)'
    <3>1. ASSUME NEW t \in Sessions \ {s}, pc[t] = "co_commit" /\ loc[t].fresh
          PROVE  loc[t].order # p
      <4>1. MintInv(t)
        BY DEF IInv, SessionInv
      <4> QED BY <1>3, <3>1, <4>1 DEF MintInv
    <3> QED BY <1>2, <1>4, <1>5, <1>6, <1>7, <1>8, <3>1 DEF MintInv
  <2> QED BY <1>5, <2>1, <2>2 DEF SessionInv, SelectInv, SettleInv, UpdateInv, SelectPCs, SettlePCs
<1>13. TableInv'
  BY <1>2, <1>7, <1>8 DEF IInv, TableInv
<1>14. PaidIsBacked' /\ HandoffIsBacked'
  BY <1>1, <1>2, <1>10, BackedStep DEF TypeOK
<1>15. OneActiveOrder'
  BY <1>2 DEF IInv, OneActiveOrder, ActiveOrders, PaymentsOf
<1> QED BY <1>9, <1>10, <1>11, <1>12, <1>13, <1>14, <1>15, WriteStep

LEMMA CreateOrderCommitInv ==
  ASSUME IInv, NEW s \in Sessions, CreateOrderCommit(s)
  PROVE  IInv'
<1> DEFINE e == loc[s].enr
           p == loc[s].order
           new == [status |-> "initiated", owner |-> e, amount |-> loc[s].amount]
<1>1. TypeOK /\ CreateOrderInv(s) /\ MintInv(s) /\ loc[s] \in Locals
  BY LocalsFields DEF IInv, SessionInv
<1>2. /\ pc[s] = "co_commit"
      /\ pay' = [q \in Orders |->
                   IF loc[s].fresh /\ q = p THEN new
                   ELSE IF q \in loc[s].rows THEN [pay[q] EXCEPT !.status = "cancelled"]
                   ELSE pay[q]]
      /\ enr' = IF loc[s].fresh
                THEN [enr EXCEPT ![e].status = "payment_pending"] ELSE enr
      /\ lock' = Release(s) /\ Goto(s, "idle", NoLocals)
      /\ Commits(loc[s].rows \cup IF loc[s].fresh THEN {e, p} ELSE {})
      /\ UNCHANGED <<rzp, handoff>>
  BY DEF CreateOrderCommit
<1>3. /\ e \in Enrollments /\ lock[e] = s
      /\ enr[e].status \notin PaidStatuses
      /\ loc[s].amount \in Amounts
      /\ ~HasSuccess(e)
      /\ loc[s].rows \subseteq PaymentsOf(e)
      /\ \A q \in ActiveOrders(e) : q \in loc[s].rows \/ (~loc[s].fresh /\ q = p)
      /\ \A q \in loc[s].rows : lock[q] = s
  BY <1>1, <1>2 DEF CreateOrderInv, CreateOrderPCs
<1>4. loc[s].fresh => /\ p \in Orders /\ pay[p] = NoRow
                      /\ rzp[p].state = "open" /\ rzp[p].amount = loc[s].amount
  BY <1>1, <1>2 DEF MintInv
<1>5. /\ pc' \in [Sessions -> PCs] /\ loc' \in [Sessions -> Locals] /\ pc'[s] = "idle"
      /\ \A t \in Sessions \ {s} : pc'[t] = pc[t] /\ loc'[t] = loc[t]
  <2>1. "idle" \in PCs
    BY DEF PCs
  <2> QED BY <1>1, <1>2, <2>1, GotoFacts, NoLocalsType
<1>6. /\ lock' \in [Rows -> Sessions \cup {None}]
      /\ \A r \in Rows : \A t \in Sessions \ {s} : lock[r] = t => lock'[r] = t
  BY <1>1, <1>2, ReleaseFacts
<1>7. dirty' \in [Sessions -> SUBSET Rows]
  <2>1. (loc[s].rows \cup IF loc[s].fresh THEN {e, p} ELSE {}) \in SUBSET Rows
    BY <1>1, <1>3, <1>4, LocalsFields DEF Rows
  <2> HIDE DEF e, p
  <2> QED BY <1>1, <1>2, <2>1, CommitsType DEF e, p
<1>8. /\ enr' \in [Enrollments -> Enrollment]
      /\ \A f \in Enrollments :
           /\ enr'[f].amount = enr[f].amount /\ enr'[f].paid = enr[f].paid
           /\ enr'[f].plan = enr[f].plan
           /\ f # e => enr'[f] = enr[f]
           /\ enr'[f].status = enr[f].status \/ enr'[f].status = "payment_pending"
  BY <1>1, <1>2, <1>3 DEF TypeOK, Enrollment, EnrollmentStatuses, PaidStatuses
<1>9. \A q \in Orders : q \in loc[s].rows =>
        /\ pay[q].status # "none" /\ pay[q].owner = e /\ pay[q] # NoRow
        /\ ~(loc[s].fresh /\ q = p)
        /\ pay'[q].status = "cancelled" /\ pay'[q].owner = e /\ pay'[q].amount = pay[q].amount
        /\ pay'[q] \in Payment
  <2> TAKE q \in Orders
  <2> HAVE q \in loc[s].rows
  <2>1. pay[q].status # "none" /\ pay[q].owner = e /\ pay[q] \in Payment
    BY <1>1, <1>3, RowFields DEF PaymentsOf
  <2>2. pay[q] # NoRow /\ NoRow.status = "none"
    BY <2>1 DEF NoRow
  <2>3. ~(loc[s].fresh /\ q = p)
    BY <1>4, <2>2
  <2>4. pay'[q] = [pay[q] EXCEPT !.status = "cancelled"]
    BY <1>2, <2>3
  <2> QED BY <2>1, <2>2, <2>3, <2>4 DEF Payment, PaymentStatuses
<1>10. \A q \in Orders : q \notin loc[s].rows /\ ~(loc[s].fresh /\ q = p) => pay'[q] = pay[q]
  BY <1>2
<1>11. loc[s].fresh => pay'[p] = new /\ new \in Payment
  BY <1>2, <1>3, <1>4 DEF Payment, PaymentStatuses, ActiveStatuses
<1>12. pay' \in [Orders -> Payment]
  <2>1. \A q \in Orders : pay'[q] \in Payment
    BY <1>1, <1>9, <1>10, <1>11 DEF TypeOK
  <2> QED BY <1>2, <2>1
<1>13. TypeOK'
  BY <1>1, <1>2, <1>5, <1>6, <1>7, <1>8, <1>12 DEF TypeOK
<1>14. NoRow.status = "none" /\ new.status = "initiated" /\ new.owner = e /\ new.amount = loc[s].amount
  BY DEF NoRow
<1> HIDE DEF new
<1>15. Persist
  BY <1>2, <1>4, <1>8, <1>9, <1>10, <1>14 DEF Persist
<1>16. ASSUME NEW t \in Sessions \ {s}
       PROVE  Undisturbed(t)
  <2>1. MintInv(t)
    BY DEF IInv, SessionInv
  <2>2. ASSUME pc[t] = "co_commit" /\ loc[t].fresh
        PROVE  /\ pay'[loc[t].order] = pay[loc[t].order]
               /\ rzp'[loc[t].order] = rzp[loc[t].order]
               /\ \A u \in Sessions \ {t} :
                     pc'[u] = "co_commit" /\ loc'[u].fresh => loc'[u].order # loc[t].order
    <3>1. loc[t].order \in Orders /\ pay[loc[t].order] = NoRow
      BY <2>1, <2>2 DEF MintInv
    <3>2. ~(loc[s].fresh /\ loc[t].order = p)
      BY <1>1, <1>2, <2>2 DEF MintInv
    <3> QED BY <1>2, <1>5, <1>9, <1>10, <2>1, <2>2, <3>1, <3>2 DEF MintInv
  <2>3. \A f \in Enrollments : lock[f] = t =>
          /\ f # e
          /\ \A q \in Orders : pay'[q].owner = f => pay'[q] = pay[q]
    BY <1>3, <1>9, <1>10, <1>11, <1>14
  <2>4. \A q \in Orders : lock[q] = t /\ pay[q].status # "none" =>
          pay'[q].status = pay[q].status
    BY <1>3, <1>4, <1>10, <1>14
  <2> QED BY <1>5, <1>6, <1>8, <2>2, <2>3, <2>4 DEF Undisturbed
<1>17. TableInv'
  <2>1. \A q \in Orders : pay'[q].status # "none" =>
          rzp[q].state # "unused" /\ pay'[q].amount = rzp[q].amount
    <3> SUFFICES ASSUME NEW q \in Orders, pay'[q].status # "none"
                 PROVE  rzp[q].state # "unused" /\ pay'[q].amount = rzp[q].amount
      OBVIOUS
    <3>1. CASE loc[s].fresh /\ q = p
      BY <1>4, <1>11, <1>14, <3>1
    <3>2. CASE q \in loc[s].rows
      BY <1>9, <3>2 DEF IInv, TableInv
    <3>3. CASE q \notin loc[s].rows /\ ~(loc[s].fresh /\ q = p)
      BY <1>10, <3>3 DEF IInv, TableInv
    <3> QED BY <3>1, <3>2, <3>3
  <2> QED BY <1>2, <1>8, <2>1 DEF IInv, TableInv
<1>18. ASSUME NEW f \in Enrollments \ {e}, NEW q \in Orders,
              pay[q].owner = f \/ pay'[q].owner = f
       PROVE  pay'[q] = pay[q]
  <2>1. NoRow.owner = None /\ f # None
    BY NoneAssumption DEF NoRow
  <2>2. q \notin loc[s].rows
    BY <1>9, <1>18
  <2>3. ~(loc[s].fresh /\ q = p)
    BY <1>4, <1>11, <1>14, <1>18, <2>1
  <2> QED BY <1>10, <2>2, <2>3
<1>19. OneActiveOrder'
  <2>1. ASSUME NEW q \in Orders, pay'[q].owner = e, pay'[q].status \in ActiveStatuses
        PROVE  q = p
    <3>2. q \notin loc[s].rows
      BY <1>9, <2>1 DEF ActiveStatuses
    <3>3. ASSUME ~(loc[s].fresh /\ q = p)
          PROVE  q \in ActiveOrders(e)
      BY <1>10, <2>1, <3>2, <3>3 DEF ActiveOrders, PaymentsOf
    <3> QED BY <1>3, <3>2, <3>3
  <2>2. ASSUME NEW f \in Enrollments \ {e}, NEW q \in ActiveOrders(f)'
        PROVE  q \in ActiveOrders(f)
    BY <1>18 DEF ActiveOrders, PaymentsOf
  <2>3. OneActiveOrder
    BY DEF IInv
  <2> SUFFICES ASSUME NEW f \in Enrollments,
                      NEW q \in ActiveOrders(f)', NEW r \in ActiveOrders(f)'
               PROVE  q = r
    BY DEF OneActiveOrder
  <2>4. /\ q \in Orders /\ pay'[q].owner = f /\ pay'[q].status \in ActiveStatuses
        /\ r \in Orders /\ pay'[r].owner = f /\ pay'[r].status \in ActiveStatuses
    BY DEF ActiveOrders, PaymentsOf
  <2>5. CASE f = e
    BY <2>1, <2>4, <2>5
  <2>6. CASE f # e
    BY <2>2, <2>3, <2>6 DEF OneActiveOrder
  <2> QED BY <2>5, <2>6
<1>20. \A f \in Enrollments : enr'[f].status \in PaidStatuses => enr[f].status \in PaidStatuses
  BY <1>8 DEF PaidStatuses
<1>21. PaidIsBacked' /\ HandoffIsBacked'
  BY <1>1, <1>2, <1>8, <1>15, <1>20, BackedStep DEF TypeOK
<1> HIDE DEF e, p
<1> QED BY <1>5, <1>13, <1>15, <1>16, <1>17, <1>19, <1>21, IdleSession, WriteStep

-----------------------------------------------------------------------------
(* selectForEnrollment *)

LEMMA SelectReadInv ==
  ASSUME IInv, NEW s \in Sessions, NEW e \in Enrollments, NEW a \in Amounts,
         SelectRead(s, e, a)
  PROVE  IInv'
<1> DEFINE l == [NoLocals EXCEPT !.enr = e, !.amount = a]
<1>1. TypeOK /\ {} \in SUBSET Rows /\ "sel_list" \in PCs
  BY DEF IInv, PCs, SelectPCs
<1>2. l \in Locals /\ l.enr = e /\ l.amount = a /\ l.rows = {}
  BY DEF NoLocals, Locals
<1>3. Goto(s, "sel_list", l) /\ Commits({}) /\ UNCHANGED <<enr, pay, rzp, lock, handoff>>
  BY DEF SelectRead
<1> HIDE DEF l
<1>4. OnlyMoves(s) /\ pc'[s] = "sel_list" /\ loc'[s] = l
  BY <1>1, <1>2, <1>3, MoveFacts
<1>5. SessionInv(s)'
  BY <1>2, <1>4
  DEF SessionInv, CreateOrderInv, MintInv, SelectInv, SettleInv, UpdateInv,
      CreateOrderPCs, SelectPCs, SettlePCs
<1> QED BY <1>3, <1>4, <1>5, QuietStep

LEMMA SelectListInv ==
  ASSUME IInv, NEW s \in Sessions, SelectList(s)
  PROVE  IInv'
<1> DEFINE l == [loc[s] EXCEPT !.rows = PaymentsOf(loc[s].enr)]
<1>1. TypeOK /\ {} \in SUBSET Rows /\ "sel_lock" \in PCs /\ SelectInv(s) /\ loc[s] \in Locals
  BY LocalsFields DEF IInv, PCs, SelectPCs, SessionInv
<1>2. l \in Locals /\ l.enr = loc[s].enr /\ l.amount = loc[s].amount
      /\ l.rows = PaymentsOf(loc[s].enr)
  BY <1>1 DEF Locals, PaymentsOf
<1>3. /\ pc[s] = "sel_list" /\ Goto(s, "sel_lock", l) /\ Commits({})
      /\ UNCHANGED <<enr, pay, rzp, lock, handoff>>
  BY DEF SelectList
<1> HIDE DEF l
<1>4. OnlyMoves(s) /\ pc'[s] = "sel_lock" /\ loc'[s] = l
  BY <1>1, <1>2, <1>3, MoveFacts
<1>5. SelectInv(s)'
  BY <1>1, <1>2, <1>3, <1>4 DEF SelectInv, SelectPCs, PaymentsOf
<1>6. SessionInv(s)'
  BY <1>4, <1>5
  DEF SessionInv, CreateOrderInv, MintInv, SettleInv, UpdateInv, CreateOrderPCs, SettlePCs
<1> QED BY <1>3, <1>4, <1>6, QuietStep

LEMMA SelectLockInv ==
  ASSUME IInv, NEW s \in Sessions, SelectLock(s)
  PROVE  IInv'
<1> DEFINE l == [loc[s] EXCEPT !.rows = {p \in @ : pay[p].status \in ActiveStatuses}]
<1>1. /\ TypeOK /\ {} \in SUBSET Rows /\ "sel_commit" \in PCs /\ "idle" \in PCs
      /\ SelectInv(s) /\ loc[s] \in Locals /\ loc[s].rows \in SUBSET Rows
  BY LocalsFields DEF IInv, PCs, SelectPCs, SessionInv, Rows
<1>2. /\ l \in Locals /\ l.enr = loc[s].enr /\ l.amount = loc[s].amount
      /\ l.rows = {p \in loc[s].rows : pay[p].status \in ActiveStatuses}
  BY <1>1 DEF Locals
<1>3. pc[s] = "sel_lock" /\ Commits({}) /\ UNCHANGED <<enr, pay, rzp, handoff>>
  BY DEF SelectLock
<1>4. CASE LockRow(s)
  <2>1. OnlyMoves(s) /\ pc'[s] = "sel_lock" /\ loc'[s] = loc[s]
    BY <1>1, <1>3, <1>4, LockRowFacts
  <2>2. SelectInv(s)'
    BY <1>1, <1>3, <2>1 DEF SelectInv, SelectPCs, PaymentsOf
  <2>3. SessionInv(s)'
    BY <2>1, <2>2
    DEF SessionInv, CreateOrderInv, MintInv, SettleInv, UpdateInv, CreateOrderPCs, SettlePCs
  <2> QED BY <1>3, <2>1, <2>3, QuietStep
<1>5. CASE Goto(s, "idle", NoLocals) /\ lock' = Release(s)
  <2>1. OnlyMoves(s) /\ pc'[s] = "idle"
    BY <1>1, <1>3, <1>5, NoLocalsType, MoveFacts
  <2> QED BY <1>3, <2>1, IdleSession, QuietStep
<1>6. CASE /\ \A p \in loc[s].rows : pay[p].status # "success"
           /\ LastRow(s) /\ lock' = Take(s, Missing(s))
           /\ Goto(s, "sel_commit", l)
  <2> HIDE DEF l
  <2>1. /\ Missing(s) \in SUBSET Rows /\ Free(Missing(s))
        /\ \A p \in loc[s].rows : lock'[p] = s
    BY <1>1, <1>6, LastRowFacts
  <2>2. OnlyMoves(s) /\ pc'[s] = "sel_commit" /\ loc'[s] = l
    BY <1>1, <1>2, <1>3, <1>6, <2>1, MoveFacts
  <2>3. SelectInv(s)'
    BY <1>1, <1>2, <1>3, <1>6, <2>1, <2>2 DEF SelectInv, SelectPCs, PaymentsOf
  <2>4. SessionInv(s)'
    BY <2>2, <2>3
    DEF SessionInv, CreateOrderInv, MintInv, SettleInv, UpdateInv, CreateOrderPCs, SettlePCs
  <2> QED BY <1>3, <2>2, <2>4, QuietStep
<1> QED BY <1>4, <1>5, <1>6 DEF SelectLock

LEMMA SelectCommitInv ==
  ASSUME IInv, NEW s \in Sessions, SelectCommit(s)
  PROVE  IInv'
<1>1. /\ TypeOK /\ TableInv /\ "idle" \in PCs /\ SelectInv(s) /\ loc[s] \in Locals
      /\ loc[s].rows \in SUBSET Orders
  BY LocalsFields DEF IInv, PCs, SessionInv
<1>2. PICK e \in Enrollments : e = loc[s].enr
  BY <1>1 DEF SelectCommit, SelectInv, SelectPCs
<1>3. /\ Free({e})
      /\ pay' = [q \in Orders |-> IF q \in loc[s].rows
                                  THEN [pay[q] EXCEPT !.status = "cancelled"]
                                  ELSE pay[q]]
      /\ enr' = [enr EXCEPT ![e] = [@ EXCEPT !.plan = TRUE, !.amount = loc[s].amount,
                                             !.status = "payment_pending"]]
      /\ lock' = Release(s) /\ Goto(s, "idle", NoLocals) /\ Commits(loc[s].rows \cup {e})
      /\ UNCHANGED <<rzp, handoff>>
  BY <1>2 DEF SelectCommit
<1>4. /\ loc[s].amount \in Amounts
      /\ \A q \in loc[s].rows : /\ pay[q].status # "none"
                               /\ \A t \in Sessions \ {s} : lock[q] # t
  <2>1. /\ loc[s].amount \in Amounts /\ loc[s].rows \subseteq PaymentsOf(e)
        /\ \A q \in loc[s].rows : lock[q] = s
    BY <1>1, <1>2 DEF SelectCommit, SelectInv, SelectPCs
  <2> QED BY <1>1, <2>1, RowFields DEF PaymentsOf
<1>5. OnlyMoves(s) /\ pc'[s] = "idle"
  <2>1. loc[s].rows \cup {e} \in SUBSET Rows
    BY <1>1 DEF Rows
  <2> QED BY <1>1, <1>3, <2>1, NoLocalsType, MoveFacts
<1>6. /\ enr' \in [Enrollments -> Enrollment]
      /\ \A f \in Enrollments :
           /\ f # e => enr'[f] = enr[f]
           /\ enr'[f].paid = enr[f].paid
           /\ enr'[f].plan => enr'[f].amount \in Amounts
           /\ enr'[f].status \in PaidStatuses => enr[f].status \in PaidStatuses
  <2> DEFINE r == [enr[e] EXCEPT !.plan = TRUE, !.amount = loc[s].amount,
                                 !.status = "payment_pending"]
  <2>1. enr \in [Enrollments -> Enrollment] /\ enr[e] \in Enrollment
    BY <1>1 DEF TypeOK
  <2>2. /\ r \in Enrollment
        /\ r.paid = enr[e].paid /\ r.amount = loc[s].amount /\ r.status = "payment_pending"
    BY <1>4, <2>1 DEF Enrollment, EnrollmentStatuses
  <2>3. enr' = [enr EXCEPT ![e] = r]
    BY <1>3
  <2>4. /\ enr' \in [Enrollments -> Enrollment] /\ enr'[e] = r
        /\ \A f \in Enrollments \ {e} : enr'[f] = enr[f]
    <3> HIDE DEF r
    <3> QED BY <2>1, <2>2, <2>3
  <2> QED
    <3> HIDE DEF r
    <3> QED BY <1>1, <1>4, <2>2, <2>4 DEF TableInv, PaidStatuses
<1>7. \A t \in Sessions : lock[e] # t
  BY <1>3, NoneAssumption DEF Free
<1>8. /\ "cancelled" \in PaymentStatuses \ ActiveStatuses /\ "cancelled" # "none"
      /\ "cancelled" # "success"
  BY DEF PaymentStatuses, ActiveStatuses
<1>9. WritesStatus(s, loc[s].rows, "cancelled")
  BY <1>1, <1>3, <1>4, <1>8, StatusWrite
<1>10. WritesEnrollments(s)
  BY <1>6, <1>7 DEF WritesEnrollments
<1>11. PaidIsBacked' /\ HandoffIsBacked'
  <2>1. Persist
    BY <1>1, <1>3, <1>8, <1>9, <1>10, StatusPersists
  <2> QED BY <1>1, <1>3, <1>6, <2>1, BackedStep DEF TypeOK
<1>12. handoff' \subseteq Enrollments /\ SessionInv(s)'
  BY <1>1, <1>3, <1>5, IdleSession DEF TypeOK
<1> QED BY <1>1, <1>3, <1>5, <1>8, <1>9, <1>10, <1>11, <1>12, StatusStep

-----------------------------------------------------------------------------
(* settlePayment and its callers *)

\* A caller that hands a paid order to settlePayment.
LEMMA SettleBeginInv ==
  ASSUME IInv, NEW s \in Sessions, NEW p \in Orders, NEW a \in Amounts \cup {0},
         NEW recon \in BOOLEAN,
         pay[p].status # "none", rzp[p].state = "paid", SettleBegin(s, p, a, recon),
         Commits({}), UNCHANGED <<enr, pay, rzp, lock, handoff>>
  PROVE  IInv'
<1> DEFINE l == [NoLocals EXCEPT !.enr = pay[p].owner, !.order = p,
                                 !.amount = a, !.recon = recon]
<1>1. TypeOK /\ {} \in SUBSET Rows /\ "settle_lock" \in PCs
  BY DEF IInv, PCs, SettlePCs
<1>2. pay[p].owner \in Enrollments
  BY <1>1, RowFields
<1>3. l \in Locals /\ l.enr = pay[p].owner /\ l.order = p
  BY <1>2 DEF NoLocals, Locals
<1>4. Goto(s, "settle_lock", l)
  BY DEF SettleBegin
<1> HIDE DEF l
<1>5. OnlyMoves(s) /\ pc'[s] = "settle_lock" /\ loc'[s] = l
  BY <1>1, <1>3, <1>4, MoveFacts
<1>6. SessionInv(s)'
  BY <1>2, <1>3, <1>5
  DEF SessionInv, CreateOrderInv, MintInv, SelectInv, SettleInv, UpdateInv,
      CreateOrderPCs, SelectPCs, SettlePCs, Funded, PaymentsOf
<1> QED BY <1>5, <1>6, QuietStep

LEMMA SettleCallersInv ==
  ASSUME IInv, NEW s \in Sessions, NEW p \in Orders,
         VerifyValid(s, p) \/ WebhookCaptured(s, p)
  PROVE  IInv'
<1>1. /\ pay[p].amount \in Amounts \cup {0} /\ rzp[p].charged \in Amounts \cup {0}
      /\ FALSE \in BOOLEAN
  BY RowFields DEF IInv, TypeOK, NoRow, RazorpayOrder, VerifyValid, WebhookCaptured
<1>2. CASE VerifyValid(s, p)
  BY <1>1, <1>2, SettleBeginInv DEF VerifyValid
<1>3. CASE WebhookCaptured(s, p)
  BY <1>1, <1>3, SettleBeginInv DEF WebhookCaptured
<1> QED BY <1>2, <1>3

LEMMA SettleLockInv ==
  ASSUME IInv, NEW s \in Sessions, SettleLock(s)
  PROVE  IInv'
<1>1. /\ TypeOK /\ {} \in SUBSET Rows /\ "settle_commit" \in PCs /\ "idle" \in PCs
      /\ SettleInv(s) /\ loc[s] \in Locals
  BY LocalsFields DEF IInv, PCs, SettlePCs, SessionInv
<1>2. pc[s] = "settle_lock" /\ Commits({}) /\ UNCHANGED <<enr, pay, rzp, handoff>>
  BY DEF SettleLock
<1> DEFINE e == loc[s].enr
<1>3. PICK p \in Orders : p = loc[s].order
  BY <1>1, <1>2 DEF SettleInv, SettlePCs, Funded, PaymentsOf
<1>4. e \in Enrollments /\ p \in Funded(e) /\ {p} \in SUBSET Rows /\ Free({p})
  BY <1>1, <1>2, <1>3 DEF SettleLock, SettleInv, SettlePCs, Rows
<1>5. CASE Goto(s, "idle", NoLocals) /\ UNCHANGED lock
  <2>1. OnlyMoves(s) /\ pc'[s] = "idle"
    BY <1>1, <1>2, <1>5, NoLocalsType, MoveFacts
  <2> QED BY <1>2, <2>1, IdleSession, QuietStep
<1>6. CASE /\ pay[p].amount = loc[s].amount
           /\ lock' = Take(s, {p})
           /\ Goto(s, "settle_commit", loc[s])
  <2>1. OnlyMoves(s) /\ pc'[s] = "settle_commit" /\ loc'[s] = loc[s]
    BY <1>1, <1>2, <1>6, <1>4, MoveFacts
  <2>2. lock'[p] = s
    BY <1>1, <1>6, <1>4, TakeFacts
  <2>3. SettleInv(s)'
    BY <1>2, <1>3, <1>6, <1>4, <2>1, <2>2 DEF SettleInv, SettlePCs, Funded, PaymentsOf
  <2>4. SessionInv(s)'
    BY <2>1, <2>3
    DEF SessionInv, CreateOrderInv, MintInv, SelectInv, UpdateInv, CreateOrderPCs, SelectPCs
  <2> QED BY <1>2, <2>1, <2>4, QuietStep
<1> QED BY <1>3, <1>5, <1>6 DEF SettleLock

LEMMA SettleCommitInv ==
  ASSUME IInv, NEW s \in Sessions, SettleCommit(s)
  PROVE  IInv'
<1> DEFINE c == IF loc[s].recon THEN "rec_status" ELSE "enqueue"
<1>1. TypeOK /\ TableInv /\ SettleInv(s) /\ loc[s] \in Locals /\ c \in PCs
  BY LocalsFields DEF IInv, PCs, SessionInv
<1>2. PICK e \in Enrollments, p \in Orders : e = loc[s].enr /\ p = loc[s].order
  BY <1>1 DEF SettleCommit, SettleInv, SettlePCs, Funded, PaymentsOf
<1>3. /\ pc[s] = "settle_commit" /\ Free({e})
      /\ pay' = [pay EXCEPT ![p].status = "success"]
      /\ enr' = [enr EXCEPT ![e] = [@ EXCEPT !.status = "paid", !.paid = loc[s].amount]]
      /\ lock' = Release(s) /\ Goto(s, c, loc[s]) /\ Commits({e, p})
      /\ UNCHANGED <<rzp, handoff>>
  BY <1>2 DEF SettleCommit
<1>4. p \in Funded(e) /\ lock[p] = s /\ pay[p].amount = loc[s].amount
  BY <1>1, <1>2, <1>3 DEF SettleInv, SettlePCs
<1>5. /\ pay[p].owner = e /\ pay[p].status # "none" /\ rzp[p].state = "paid"
      /\ loc[s].amount \in Amounts /\ loc[s].amount # 0
  BY <1>1, <1>4, RowFields, AmountsAssumption DEF Funded, PaymentsOf
<1>6. OnlyMoves(s) /\ pc'[s] = c /\ loc'[s] = loc[s]
  <2>1. {e, p} \in SUBSET Rows
    BY DEF Rows
  <2> HIDE DEF c
  <2> QED BY <1>1, <1>3, <2>1, MoveFacts
<1>7. \A t \in Sessions \ {s} : lock[e] # t /\ lock[p] # t
  BY <1>3, <1>4, NoneAssumption DEF Free
<1>8. WritesStatus(s, {p}, "success")
  <2>1. "success" \in PaymentStatuses /\ {p} \in SUBSET Orders
    BY DEF PaymentStatuses
  <2>2. pay' = [q \in Orders |-> IF q \in {p} THEN [pay[q] EXCEPT !.status = "success"]
                                 ELSE pay[q]]
    BY <1>1, <1>3 DEF TypeOK
  <2> QED BY <1>1, <1>5, <1>7, <2>1, <2>2, StatusWrite
<1>9. /\ enr' \in [Enrollments -> Enrollment]
      /\ enr'[e].paid = loc[s].amount /\ enr'[e].amount = enr[e].amount
      /\ enr'[e].plan = enr[e].plan
      /\ \A f \in Enrollments \ {e} : enr'[f] = enr[f]
  <2> DEFINE r == [enr[e] EXCEPT !.status = "paid", !.paid = loc[s].amount]
  <2>1. enr \in [Enrollments -> Enrollment] /\ enr[e] \in Enrollment
    BY <1>1 DEF TypeOK
  <2>2. /\ r \in Enrollment
        /\ r.paid = loc[s].amount /\ r.amount = enr[e].amount /\ r.plan = enr[e].plan
    BY <1>5, <2>1 DEF Enrollment, EnrollmentStatuses, PaidStatuses
  <2>3. enr' = [enr EXCEPT ![e] = r]
    BY <1>3
  <2> QED
    <3> HIDE DEF r
    <3> QED BY <2>1, <2>2, <2>3
<1>10. WritesEnrollments(s)
  BY <1>1, <1>5, <1>7, <1>9 DEF WritesEnrollments, TableInv
<1>11. /\ {p} \in SUBSET Orders /\ "success" \in PaymentStatuses \ ActiveStatuses
  BY DEF PaymentStatuses, ActiveStatuses
<1>12. Persist
  BY <1>3, <1>8, <1>10, <1>11, StatusPersists
<1>13. p \in Funded(e)' /\ pay'[p].amount = loc[s].amount
  BY <1>1, <1>4, <1>12, FundedPersists
<1>14. PaidIsBacked' /\ HandoffIsBacked'
  BY <1>1, <1>3, <1>5, <1>9, <1>12, <1>13, BackedStep DEF TypeOK
<1>15. SettleInv(s)'
  BY <1>2, <1>5, <1>6, <1>9, <1>13 DEF SettleInv, SettlePCs
<1>16. SessionInv(s)' /\ ~(pc'[s] = "co_commit" /\ loc'[s].fresh)
  BY <1>6, <1>15
  DEF SessionInv, CreateOrderInv, MintInv, SelectInv, UpdateInv, CreateOrderPCs, SelectPCs
<1>17. handoff' \subseteq Enrollments
  BY <1>1, <1>3 DEF TypeOK
<1> QED BY <1>3, <1>6, <1>8, <1>10, <1>11, <1>14, <1>16, <1>17, StatusStep

LEMMA SettleConflictInv ==
  ASSUME IInv, NEW s \in Sessions, SettleConflict(s)
  PROVE  IInv'
<1>1. TypeOK /\ {} \in SUBSET Rows /\ "idle" \in PCs
  BY DEF IInv, PCs
<1>2. OnlyMoves(s) /\ pc'[s] = "idle" /\ UNCHANGED <<enr, pay, rzp, handoff>>
  BY <1>1, NoLocalsType, MoveFacts DEF SettleConflict
<1> QED BY <1>2, IdleSession, QuietStep

LEMMA EnqueueInv ==
  ASSUME IInv, NEW s \in Sessions, Enqueue(s)
  PROVE  IInv'
<1>1. TypeOK /\ {} \in SUBSET Rows /\ {} \in SUBSET Orders /\ "idle" \in PCs /\ SettleInv(s)
  BY DEF IInv, PCs, SessionInv
<1>2. /\ OnlyMoves(s) /\ pc'[s] = "idle" /\ UNCHANGED <<enr, pay, rzp>>
      /\ handoff' \in {handoff \cup {loc[s].enr}, handoff}
  BY <1>1, NoLocalsType, MoveFacts DEF Enqueue
<1>3. loc[s].enr \in Enrollments /\ Funded(loc[s].enr) # {}
  BY <1>1 DEF Enqueue, SettleInv
<1>4. Persist
  BY <1>2 DEF Persist
<1>5. \A e \in Enrollments : Funded(e)' = Funded(e)
  BY <1>2 DEF Funded, PaymentsOf
<1>6. PaidIsBacked' /\ HandoffIsBacked'
  <2>1. handoff' \subseteq Enrollments
    BY <1>1, <1>2, <1>3 DEF TypeOK
  <2>2. \A e \in handoff' \cap Enrollments : e \in handoff \/ Funded(e)' # {}
    BY <1>2, <1>3, <1>5
  <2> QED BY <1>2, <1>4, <2>1, <2>2, BackedStep
<1>7. "expired" \in PaymentStatuses \ ActiveStatuses
  BY DEF PaymentStatuses, ActiveStatuses
<1>8. WritesStatus(s, {}, "expired") /\ WritesEnrollments(s)
  BY <1>1, <1>2 DEF WritesStatus, WritesEnrollments, TypeOK, IInv, TableInv
<1>9. handoff' \subseteq Enrollments /\ SessionInv(s)'
  BY <1>1, <1>2, <1>3, IdleSession DEF TypeOK
<1> QED BY <1>1, <1>2, <1>6, <1>7, <1>8, <1>9, StatusStep

-----------------------------------------------------------------------------
(* The handlers and the job that mark a payment *)

\* A handler that has read an existing payments row and will mark it.
LEMMA MarkBeginInv ==
  ASSUME IInv, NEW s \in Sessions, NEW p \in Orders, pay[p].status # "none",
         NEW c \in {"mark_failed", "rec_fetch"},
         Goto(s, c, [NoLocals EXCEPT !.order = p]),
         Commits({}), UNCHANGED <<enr, pay, rzp, lock, handoff>>
  PROVE  IInv'
<1> DEFINE l == [NoLocals EXCEPT !.order = p]
<1>1. TypeOK /\ {} \in SUBSET Rows /\ c \in PCs
  BY DEF IInv, PCs
<1>2. l \in Locals /\ l.order = p
  BY DEF NoLocals, Locals
<1>3. Goto(s, c, l)
  OBVIOUS
<1> HIDE DEF l
<1>4. OnlyMoves(s) /\ pc'[s] = c /\ loc'[s] = l
  BY <1>1, <1>2, <1>3, MoveFacts
<1>5. SessionInv(s)'
  BY <1>2, <1>4
  DEF SessionInv, CreateOrderInv, MintInv, SelectInv, SettleInv, UpdateInv,
      CreateOrderPCs, SelectPCs, SettlePCs
<1>6. ~(pc'[s] = "co_commit" /\ loc'[s].fresh)
  BY <1>4
<1> QED BY <1>4, <1>5, <1>6, QuietStep

LEMMA MarkCallersInv ==
  ASSUME IInv, NEW s \in Sessions, NEW p \in Orders,
         VerifyInvalid(s, p) \/ WebhookFailed(s, p) \/ ReconPick(s, p)
  PROVE  IInv'
<1>1. CASE VerifyInvalid(s, p)
  BY <1>1, MarkBeginInv DEF VerifyInvalid
<1>2. CASE WebhookFailed(s, p)
  BY <1>2, MarkBeginInv DEF WebhookFailed
<1>3. CASE ReconPick(s, p)
  BY <1>3, MarkBeginInv DEF ReconPick, ActiveStatuses
<1> QED BY <1>1, <1>2, <1>3

LEMMA ReconFetchInv ==
  ASSUME IInv, NEW s \in Sessions, ReconFetch(s)
  PROVE  IInv'
<1>1. /\ TypeOK /\ {} \in SUBSET Rows /\ "rec_expire" \in PCs /\ "idle" \in PCs
      /\ UpdateInv(s) /\ loc[s] \in Locals
  BY LocalsFields DEF IInv, PCs, SessionInv
<1>2. PICK p \in Orders : p = loc[s].order /\ pay[p].status # "none"
  BY <1>1 DEF ReconFetch, UpdateInv
<1>3. pc[s] = "rec_fetch" /\ Commits({}) /\ UNCHANGED <<enr, pay, rzp, lock, handoff>>
  BY DEF ReconFetch
<1>4. CASE rzp[p].state = "paid" /\ SettleBegin(s, p, rzp[p].charged, TRUE)
  <2>1. rzp[p].charged \in Amounts \cup {0} /\ TRUE \in BOOLEAN
    BY <1>1 DEF TypeOK, RazorpayOrder
  <2> QED BY <1>2, <1>3, <1>4, <2>1, SettleBeginInv
<1>5. CASE Goto(s, "rec_expire", loc[s])
  <2>1. OnlyMoves(s) /\ pc'[s] = "rec_expire" /\ loc'[s] = loc[s]
    BY <1>1, <1>3, <1>5, MoveFacts
  <2>2. SessionInv(s)'
    BY <1>2, <1>3, <2>1
    DEF SessionInv, CreateOrderInv, MintInv, SelectInv, SettleInv, UpdateInv,
        CreateOrderPCs, SelectPCs, SettlePCs
  <2> QED BY <1>3, <2>1, <2>2, QuietStep
<1>6. CASE Goto(s, "idle", NoLocals)
  <2>1. OnlyMoves(s) /\ pc'[s] = "idle"
    BY <1>1, <1>3, <1>6, NoLocalsType, MoveFacts
  <2> QED BY <1>3, <2>1, IdleSession, QuietStep
<1> QED BY <1>2, <1>4, <1>5, <1>6 DEF ReconFetch

\* updatePaymentStatus needs the row free, but looks at no status.
LEMMA UpdatePaymentStatusInv ==
  ASSUME IInv, NEW s \in Sessions, NEW p \in Orders, pay[p].status # "none",
         NEW st \in {"failed", "expired"}, UpdatePaymentStatus(s, p, st)
  PROVE  IInv'
<1>1. /\ TypeOK /\ TableInv /\ "idle" \in PCs /\ {p} \in SUBSET Rows /\ {p} \in SUBSET Orders
      /\ st \in PaymentStatuses /\ st \in PaymentStatuses \ ActiveStatuses
      /\ st # "success"
  BY DEF IInv, PCs, Rows, PaymentStatuses, ActiveStatuses
<1>2. /\ Free({p}) /\ pay' = [pay EXCEPT ![p].status = st]
      /\ UNCHANGED <<enr, rzp, lock, handoff>>
  BY DEF UpdatePaymentStatus
<1>3. OnlyMoves(s) /\ pc'[s] = "idle"
  BY <1>1, NoLocalsType, MoveFacts DEF UpdatePaymentStatus
<1>4. \A t \in Sessions : lock[p] # t
  BY <1>2, NoneAssumption DEF Free
<1>5. WritesStatus(s, {p}, st)
  <2>1. pay' = [q \in Orders |-> IF q \in {p} THEN [pay[q] EXCEPT !.status = st]
                                 ELSE pay[q]]
    BY <1>1, <1>2 DEF TypeOK
  <2> QED BY <1>1, <1>4, <2>1, StatusWrite
<1>6. WritesEnrollments(s)
  BY <1>1, <1>2 DEF WritesEnrollments, TypeOK, TableInv
<1>7. PaidIsBacked' /\ HandoffIsBacked'
  <2>1. Persist
    BY <1>1, <1>2, <1>5, <1>6, StatusPersists
  <2> QED BY <1>1, <1>2, <2>1, BackedStep DEF TypeOK
<1>8. handoff' \subseteq Enrollments /\ SessionInv(s)'
  BY <1>1, <1>2, <1>3, IdleSession DEF TypeOK
<1> QED BY <1>1, <1>2, <1>3, <1>5, <1>6, <1>7, <1>8, StatusStep

LEMMA MarkersInv ==
  ASSUME IInv, NEW s \in Sessions, MarkFailed(s) \/ ReconExpire(s)
  PROVE  IInv'
<1>1. loc[s].order \in Orders /\ pay[loc[s].order].status # "none"
  BY DEF IInv, SessionInv, UpdateInv, MarkFailed, ReconExpire
<1> QED BY <1>1, UpdatePaymentStatusInv DEF MarkFailed, ReconExpire

\* A step that writes one enrollment row that nobody has locked, without
\* entering a paid status or touching the money it shows.
LEMMA EnrollmentStep ==
  ASSUME IInv, NEW s, OnlyMoves(s), UNCHANGED <<pay, rzp, handoff>>,
         s \in Sessions => /\ SessionInv(s)'
                           /\ ~(pc'[s] = "co_commit" /\ loc'[s].fresh),
         NEW e \in Enrollments, Free({e}), enr' \in [Enrollments -> Enrollment],
         \A f \in Enrollments \ {e} : enr'[f] = enr[f],
         enr'[e].amount \in Amounts \cup {enr[e].amount}, enr'[e].paid = enr[e].paid,
         enr'[e].plan => enr[e].plan,
         enr'[e].status \in PaidStatuses => enr[e].status \in PaidStatuses \/ enr[e].paid # 0
  PROVE  IInv'
<1>1. TypeOK /\ TableInv /\ {} \in SUBSET Orders
  BY DEF IInv
<1>2. \A t \in Sessions : lock[e] # t
  BY NoneAssumption DEF Free
<1>3. "expired" \in PaymentStatuses /\ "expired" \in PaymentStatuses \ ActiveStatuses
  BY DEF PaymentStatuses, ActiveStatuses
<1>4. WritesStatus(s, {}, "expired")
  BY <1>1 DEF WritesStatus, TypeOK
<1>5. WritesEnrollments(s)
  BY <1>1, <1>2 DEF WritesEnrollments, TableInv
<1>6. PaidIsBacked' /\ HandoffIsBacked'
  <2>1. Persist
    BY <1>1, <1>3, <1>4, <1>5, StatusPersists
  <2>2. \A f \in Enrollments :
          /\ enr'[f].paid = enr[f].paid
          /\ enr'[f].status \in PaidStatuses =>
               enr[f].status \in PaidStatuses \/ enr[f].paid # 0
    OBVIOUS
  <2> QED BY <1>1, <2>1, <2>2, BackedStep DEF TypeOK
<1>7. handoff' \subseteq Enrollments
  BY <1>1 DEF TypeOK
<1> QED BY <1>1, <1>3, <1>4, <1>5, <1>6, <1>7, StatusStep

LEMMA ReconStatusInv ==
  ASSUME IInv, NEW s \in Sessions, ReconStatus(s)
  PROVE  IInv'
<1>1. /\ TypeOK /\ "enqueue" \in PCs /\ SettleInv(s) /\ loc[s] \in Locals
  BY LocalsFields DEF IInv, PCs, SessionInv
<1>2. PICK e \in Enrollments : e = loc[s].enr
  BY <1>1 DEF ReconStatus, SettleInv
<1>3. /\ pc[s] = "rec_status" /\ Free({e}) /\ enr' = [enr EXCEPT ![e].status = "sync_pending"]
      /\ Goto(s, "enqueue", loc[s]) /\ Commits({e}) /\ UNCHANGED <<pay, rzp, lock, handoff>>
  BY <1>2 DEF ReconStatus
<1>4. OnlyMoves(s) /\ pc'[s] = "enqueue" /\ loc'[s] = loc[s]
  <2>1. {e} \in SUBSET Rows
    BY DEF Rows
  <2> QED BY <1>1, <1>3, <2>1, MoveFacts
<1>5. loc[s].order \in Funded(e) /\ enr[e].paid # 0
  BY <1>1, <1>2, <1>3 DEF SettleInv
<1>6. SettleInv(s)'
  BY <1>2, <1>3, <1>4, <1>5 DEF SettleInv, SettlePCs, Funded, PaymentsOf
<1>7. SessionInv(s)' /\ ~(pc'[s] = "co_commit" /\ loc'[s].fresh)
  BY <1>4, <1>6
  DEF SessionInv, CreateOrderInv, MintInv, SelectInv, UpdateInv, CreateOrderPCs, SelectPCs
<1>8. /\ enr' \in [Enrollments -> Enrollment]
      /\ \A f \in Enrollments \ {e} : enr'[f] = enr[f]
      /\ enr'[e].amount = enr[e].amount /\ enr'[e].paid = enr[e].paid
      /\ enr'[e].plan = enr[e].plan
  <2> DEFINE r == [enr[e] EXCEPT !.status = "sync_pending"]
  <2>1. enr \in [Enrollments -> Enrollment] /\ enr[e] \in Enrollment
    BY <1>1 DEF TypeOK
  <2>2. /\ r \in Enrollment
        /\ r.amount = enr[e].amount /\ r.paid = enr[e].paid /\ r.plan = enr[e].plan
    BY <2>1 DEF Enrollment, EnrollmentStatuses, PaidStatuses
  <2>3. enr' = [enr EXCEPT ![e] = r]
    BY <1>3
  <2> QED
    <3> HIDE DEF r
    <3> QED BY <2>1, <2>2, <2>3
<1> QED BY <1>3, <1>4, <1>5, <1>7, <1>8, EnrollmentStep

-----------------------------------------------------------------------------
(* Drafts, the customer, failures *)

LEMMA DraftInv ==
  ASSUME IInv, NEW e \in Enrollments, ResumeDraft(e) \/ RestartDraft(e) \/ CleanupDraft(e) \/ AssignEnrollment(e)
  PROVE  IInv'
<1>1. TypeOK /\ {e} \in SUBSET Rows
  BY DEF IInv, Rows
<1>2. Free({e}) /\ Commits({e}) /\ UNCHANGED <<pay, rzp, lock, pc, loc, handoff>>
  BY DEF ResumeDraft, RestartDraft, CleanupDraft, AssignEnrollment
<1>3. OnlyMoves(None)
  BY <1>1, <1>2, CommitsType DEF OnlyMoves, TypeOK
<1>4. /\ enr' \in [Enrollments -> Enrollment]
      /\ \A f \in Enrollments \ {e} : enr'[f] = enr[f]
      /\ enr'[e].amount \in Amounts \cup {enr[e].amount} /\ enr'[e].paid = enr[e].paid
      /\ enr'[e].plan => enr[e].plan
      /\ enr'[e].status \in PaidStatuses => enr[e].status \in PaidStatuses
  <2>1. CASE ResumeDraft(e)
    <3>1. PICK a \in Amounts \cup {enr[e].amount} :
            enr' = [enr EXCEPT ![e] =
                      [@ EXCEPT !.amount = a,
                                !.status = NextStatusOnResume(enr[e].status)]]
      BY <2>1 DEF ResumeDraft
    <3>2. enr[e].status \notin PaidStatuses /\ enr[e] \in Enrollment
      BY <1>1, <2>1 DEF ResumeDraft, TypeOK
    <3>3. enr'[e] = [status |-> NextStatusOnResume(enr[e].status),
                     plan |-> enr[e].plan, amount |-> a, paid |-> enr[e].paid]
      BY <1>1, <3>1, <3>2 DEF TypeOK, Enrollment
    <3>4. enr'[e] \in Enrollment /\ enr'[e].status \notin PaidStatuses
      BY <3>2, <3>3 DEF Enrollment, EnrollmentStatuses, PaidStatuses, NextStatusOnResume
    <3> QED BY <1>1, <3>1, <3>3, <3>4 DEF TypeOK
  <2>2. CASE RestartDraft(e)
    BY <1>1, <2>2 DEF RestartDraft, TypeOK, Enrollment, EnrollmentStatuses, PaidStatuses
  <2>3. CASE CleanupDraft(e)
    BY <1>1, <2>3 DEF CleanupDraft, TypeOK, Enrollment, EnrollmentStatuses, PaidStatuses
  <2>4. CASE AssignEnrollment(e)
    BY <1>1, <2>4 DEF AssignEnrollment, TypeOK
  <2> QED BY <2>1, <2>2, <2>3, <2>4
<1> QED BY <1>2, <1>3, <1>4, NoneAssumption, EnrollmentStep

LEMMA CaptureInv ==
  ASSUME IInv, NEW p \in Orders, Capture(p)
  PROVE  IInv'
<1>1. TypeOK /\ TableInv
  BY DEF IInv
<1>2. /\ rzp[p].state = "open" /\ pay[p].status # "none"
      /\ UNCHANGED <<enr, pay, lock, pc, loc, dirty, handoff>>
  BY DEF Capture
<1>3. /\ rzp' \in [Orders -> RazorpayOrder]
      /\ rzp'[p].state = "paid" /\ rzp'[p].amount = rzp[p].amount
      /\ \A q \in Orders \ {p} : rzp'[q] = rzp[q]
  <2>1. PICK a \in Amounts :
          rzp' = [rzp EXCEPT ![p] = [@ EXCEPT !.state = "paid", !.charged = a]]
    BY DEF Capture
  <2> QED BY <1>1, <2>1 DEF TypeOK, RazorpayOrder
<1>4. TypeOK'
  BY <1>1, <1>2, <1>3 DEF TypeOK
<1>5. Persist
  BY <1>2, <1>3 DEF Persist
<1>6. ASSUME NEW t \in Sessions
      PROVE  Undisturbed(t)
  <2>1. ASSUME pc[t] = "co_commit" /\ loc[t].fresh
        PROVE  /\ rzp'[loc[t].order] = rzp[loc[t].order]
               /\ \A u \in Sessions \ {t} :
                     pc'[u] = "co_commit" /\ loc'[u].fresh => loc'[u].order # loc[t].order
    <3>1. MintInv(t) /\ NoRow.status = "none"
      BY DEF IInv, SessionInv, NoRow
    <3> QED BY <1>2, <1>3, <2>1, <3>1 DEF MintInv
  <2> QED BY <1>2, <2>1 DEF Undisturbed
<1>7. TableInv'
  BY <1>1, <1>2, <1>3 DEF TableInv
<1>8. OneActiveOrder'
  BY <1>2 DEF IInv, OneActiveOrder, ActiveOrders, PaymentsOf
<1>9. PaidIsBacked' /\ HandoffIsBacked'
  BY <1>1, <1>2, <1>5, BackedStep DEF TypeOK
<1> QED BY <1>4, <1>5, <1>6, <1>7, <1>8, <1>9, NoneAssumption, WriteStep

LEMMA FailInv ==
  ASSUME IInv, NEW s \in Sessions, Fail(s)
  PROVE  IInv'
<1>1. TypeOK /\ {} \in SUBSET Rows /\ "idle" \in PCs
  BY DEF IInv, PCs
<1>2. OnlyMoves(s) /\ pc'[s] = "idle" /\ UNCHANGED <<enr, pay, rzp, handoff>>
  BY <1>1, NoLocalsType, MoveFacts DEF Fail
<1> QED BY <1>2, IdleSession, QuietStep

-----------------------------------------------------------------------------
(* The invariant *)

LEMMA InitInv == Init => IInv
<1> SUFFICES ASSUME Init
             PROVE  IInv
  OBVIOUS
<1>1. TypeOK
  BY DEF Init, TypeOK, Enrollment, EnrollmentStatuses, Payment, RazorpayOrder,
         NoLocals, Locals, PCs
<1>2. TableInv
  BY DEF Init, TableInv, NoRow
<1>3. ASSUME NEW s \in Sessions
      PROVE  SessionInv(s)
  <2>1. pc[s] = "idle"
    BY DEF Init
  <2> QED BY <2>1 DEF SessionInv, CreateOrderInv, MintInv, SelectInv, SettleInv, UpdateInv,
                      CreateOrderPCs, SelectPCs, SettlePCs
<1>4. \A e \in Enrollments : PaymentsOf(e) = {}
  BY NoneAssumption DEF Init, PaymentsOf, NoRow
<1>5. OneActiveOrder
  BY <1>4 DEF OneActiveOrder, ActiveOrders
<1>6. PaidIsBacked /\ HandoffIsBacked
  BY DEF Init, PaidIsBacked, HandoffIsBacked, PaidStatuses
<1> QED BY <1>1, <1>2, <1>3, <1>5, <1>6 DEF IInv

LEMMA NextInv == IInv /\ [Next]_vars => IInv'
<1> SUFFICES ASSUME IInv, [Next]_vars
             PROVE  IInv'
  OBVIOUS
<1>1. ASSUME NEW s \in Sessions, SessionStep(s)
      PROVE  IInv'
  <2>1. CASE \E e \in Enrollments : CreateOrderLock(s, e)
    BY <2>1, CreateOrderLockInv
  <2>2. CASE \/ CreateOrderList(s) \/ CreateOrderCancel(s)
             \/ CreateOrderMint(s) \/ CreateOrderCommit(s)
    BY <2>2, CreateOrderListInv, CreateOrderCancelInv, CreateOrderMintInv, CreateOrderCommitInv
  <2>3. CASE \E e \in Enrollments, a \in Amounts : SelectRead(s, e, a)
    BY <2>3, SelectReadInv
  <2>4. CASE SelectList(s) \/ SelectLock(s) \/ SelectCommit(s)
    BY <2>4, SelectListInv, SelectLockInv, SelectCommitInv
  <2>5. CASE SettleLock(s) \/ SettleCommit(s) \/ SettleConflict(s) \/ Enqueue(s)
    BY <2>5, SettleLockInv, SettleCommitInv, SettleConflictInv, EnqueueInv
  <2>6. CASE \E p \in Orders :
               \/ VerifyValid(s, p) \/ VerifyInvalid(s, p)
               \/ WebhookCaptured(s, p) \/ WebhookFailed(s, p)
               \/ ReconPick(s, p)
    BY <2>6, SettleCallersInv, MarkCallersInv
  <2>7. CASE MarkFailed(s) \/ ReconFetch(s) \/ ReconExpire(s) \/ ReconStatus(s)
    BY <2>7, MarkersInv, ReconFetchInv, ReconStatusInv
  <2>8. CASE Fail(s)
    BY <2>8, FailInv
  <2> QED BY <1>1, <2>1, <2>2, <2>3, <2>4, <2>5, <2>6, <2>7, <2>8 DEF SessionStep
<1>2. ASSUME NEW e \in Enrollments, ResumeDraft(e) \/ RestartDraft(e) \/ CleanupDraft(e) \/ AssignEnrollment(e)
      PROVE  IInv'
  BY <1>2, DraftInv
<1>3. ASSUME NEW p \in Orders, Capture(p)
      PROVE  IInv'
  BY <1>3, CaptureInv
<1>4. CASE UNCHANGED vars
  BY <1>4
  DEF vars, IInv, TypeOK, TableInv, SessionInv, CreateOrderInv, MintInv, SelectInv,
      SettleInv, UpdateInv, OneActiveOrder, PaidIsBacked, HandoffIsBacked,
      HasSuccess, ActiveOrders, PaymentsOf, Funded
<1> QED BY <1>1, <1>2, <1>3, <1>4 DEF Next

\* The inductive invariant holds in every reachable state.
THEOREM Invariant == Spec => []IInv
BY InitInv, NextInv, PTL DEF Spec

-----------------------------------------------------------------------------
(* The properties of the payment core *)

\* Columns, locks and program counters keep their types whatever the handlers
\* do, in any number of rows and sessions.
THEOREM TypeCorrect == Spec => []TypeOK
<1>1. IInv => TypeOK
  BY DEF IInv
<1> QED BY <1>1, Invariant, PTL

\* createOrder, plan selection and settlement never leave an enrollment with
\* two active orders.
THEOREM OneActiveOrderHolds == Spec => []OneActiveOrder
<1>1. IInv => OneActiveOrder
  BY DEF IInv
<1> QED BY <1>1, Invariant, PTL

\* Nobody is paid without having paid the amount shown.
THEOREM PaidIsBackedHolds == Spec => []PaidIsBacked
<1>1. IInv => PaidIsBacked
  BY DEF IInv
<1> QED BY <1>1, Invariant, PTL

\* Nobody is handed to the external system without having paid.
THEOREM HandoffIsBackedHolds == Spec => []HandoffIsBacked
<1>1. IInv => HandoffIsBacked
  BY DEF IInv
<1> QED BY <1>1, Invariant, PTL

\* The order createOrder answers with costs what the enrollment owes.
THEOREM OfferMatchesPriceHolds == Spec => []OfferMatchesPrice
<1>1. IInv => OfferMatchesPrice
  <2> SUFFICES ASSUME IInv, NEW s \in Sessions, pc[s] = "co_commit"
               PROVE  /\ rzp[loc[s].order].amount = loc[s].amount
                      /\ enr[loc[s].enr].amount = loc[s].amount
                      /\ ~loc[s].fresh => pay[loc[s].order].amount = loc[s].amount
    BY DEF OfferMatchesPrice
  <2>1. TypeOK /\ TableInv /\ CreateOrderInv(s) /\ MintInv(s)
    BY DEF IInv, SessionInv
  <2>2. /\ loc[s].enr \in Enrollments /\ enr[loc[s].enr].amount = loc[s].amount
        /\ ~loc[s].fresh => /\ loc[s].order \in PaymentsOf(loc[s].enr)
                            /\ pay[loc[s].order].amount = loc[s].amount
    BY <2>1 DEF CreateOrderInv, CreateOrderPCs
  <2>3. CASE loc[s].fresh
    BY <2>1, <2>2, <2>3 DEF MintInv
  <2>4. CASE ~loc[s].fresh
    <3>1. loc[s].order \in Orders /\ pay[loc[s].order].status # "none"
      BY <2>1, <2>2, <2>4, RowFields DEF PaymentsOf
    <3> QED BY <2>1, <2>2, <2>4, <3>1 DEF TableInv
  <2> QED BY <2>3, <2>4
<1> QED BY <1>1, Invariant, PTL

-----------------------------------------------------------------------------
(* What a step does to the payments table *)

\* The steps that write the payments table.
WritesPayments(s) ==
  \/ CreateOrderCommit(s) \/ SelectCommit(s) \/ SettleCommit(s)
  \/ MarkFailed(s) \/ ReconExpire(s)

LEMMA PaymentsWriters ==
  ASSUME [Next]_vars
  PROVE  UNCHANGED pay \/ \E s \in Sessions : WritesPayments(s)
<1>1. ASSUME NEW s \in Sessions, SessionStep(s)
      PROVE  UNCHANGED pay \/ WritesPayments(s)
  BY <1>1
  DEF SessionStep, WritesPayments, CreateOrderLock, CreateOrderList, CreateOrderCancel,
      CreateOrderMint, SelectRead, SelectList, SelectLock, LockRow, SettleLock, SettleConflict,
      Enqueue, VerifyValid, VerifyInvalid, WebhookCaptured, WebhookFailed, ReconPick,
      ReconFetch, ReconStatus, Fail
<1>2. ASSUME NEW e \in Enrollments, ResumeDraft(e) \/ RestartDraft(e) \/ CleanupDraft(e) \/ AssignEnrollment(e)
      PROVE  UNCHANGED pay
  BY <1>2 DEF ResumeDraft, RestartDraft, CleanupDraft, AssignEnrollment
<1>3. ASSUME NEW p \in Orders, Capture(p)
      PROVE  UNCHANGED pay
  BY <1>3 DEF Capture
<1> QED BY <1>1, <1>2, <1>3 DEF Next, vars

\* The cancelled rows of a commit existed, and were not successes.
LEMMA CreateOrderWrites ==
  ASSUME IInv, NEW s \in Sessions, CreateOrderCommit(s), NEW p \in Orders
  PROVE  \/ pay'[p] = pay[p]
         \/ /\ pay[p].status \notin {"none", "success"}
            /\ pay'[p] = [pay[p] EXCEPT !.status = "cancelled"]
         \/ /\ pay[p].status = "none" /\ pay'[p].status = "initiated"
            /\ pay'[p].owner = loc[s].enr
            /\ enr[loc[s].enr].status \notin PaidStatuses
            /\ ~HasSuccess(loc[s].enr)
<1>1. TypeOK /\ CreateOrderInv(s) /\ MintInv(s) /\ pc[s] = "co_commit"
  BY DEF IInv, SessionInv, CreateOrderCommit
<1>2. /\ loc[s].enr \in Enrollments
      /\ enr[loc[s].enr].status \notin PaidStatuses /\ ~HasSuccess(loc[s].enr)
      /\ loc[s].rows \subseteq PaymentsOf(loc[s].enr)
  BY <1>1 DEF CreateOrderInv, CreateOrderPCs
<1>3. CASE loc[s].fresh /\ p = loc[s].order
  <2>1. pay[p] = NoRow
    BY <1>1, <1>3 DEF MintInv
  <2>2. pay'[p] = [status |-> "initiated", owner |-> loc[s].enr, amount |-> loc[s].amount]
    BY <1>3 DEF CreateOrderCommit
  <2> QED BY <1>2, <2>1, <2>2 DEF NoRow
<1>4. CASE p \in loc[s].rows /\ ~(loc[s].fresh /\ p = loc[s].order)
  <2>1. pay[p].status \notin {"none", "success"}
    BY <1>1, <1>2, <1>4, RowFields DEF PaymentsOf, HasSuccess
  <2>2. pay'[p] = [pay[p] EXCEPT !.status = "cancelled"]
    BY <1>4 DEF CreateOrderCommit
  <2> QED BY <2>1, <2>2
<1>5. CASE p \notin loc[s].rows /\ ~(loc[s].fresh /\ p = loc[s].order)
  BY <1>5 DEF CreateOrderCommit
<1> QED BY <1>3, <1>4, <1>5

LEMMA OtherWrites ==
  ASSUME IInv, NEW s \in Sessions, NEW p \in Orders,
         SelectCommit(s) \/ SettleCommit(s) \/ MarkFailed(s) \/ ReconExpire(s)
  PROVE  \/ pay'[p] = pay[p]
         \/ /\ pay[p].status # "none" /\ pay'[p].owner = pay[p].owner
            /\ \/ pay'[p].status \in {"success", "failed", "expired"}
               \/ pay'[p].status = "cancelled" /\ pay[p].status # "success"
<1>1. TypeOK /\ SelectInv(s) /\ SettleInv(s) /\ UpdateInv(s) /\ pay[p] \in Payment
  BY RowFields DEF IInv, SessionInv
<1>2. CASE SelectCommit(s)
  <2>1. CASE p \in loc[s].rows
    <3>1. /\ loc[s].enr \in Enrollments /\ p \in PaymentsOf(loc[s].enr)
          /\ pay[p].status # "success"
      BY <1>1, <1>2, <2>1 DEF SelectInv, SelectCommit, SelectPCs
    <3>2. pay[p].status # "none" /\ pay'[p] = [pay[p] EXCEPT !.status = "cancelled"]
      BY <1>1, <1>2, <2>1, <3>1, RowFields DEF PaymentsOf, SelectCommit
    <3>3. pay'[p].status = "cancelled" /\ pay'[p].owner = pay[p].owner
      BY <1>1, <3>2 DEF Payment, NoRow
    <3> QED BY <3>1, <3>2, <3>3
  <2>2. CASE p \notin loc[s].rows
    BY <1>2, <2>2 DEF SelectCommit
  <2> QED BY <2>1, <2>2
<1>3. ASSUME NEW st \in {"success", "failed", "expired"},
             pay' = [pay EXCEPT ![loc[s].order].status = st],
             pay[loc[s].order].status # "none"
      PROVE  \/ pay'[p] = pay[p]
             \/ /\ pay[p].status # "none" /\ pay'[p].owner = pay[p].owner
                /\ pay'[p].status \in {"success", "failed", "expired"}
  BY <1>1, <1>3 DEF TypeOK, Payment, NoRow
<1>4. CASE SettleCommit(s)
  <2>1. loc[s].order \in Funded(loc[s].enr) /\ loc[s].enr \in Enrollments
    BY <1>1, <1>4 DEF SettleCommit, SettleInv, SettlePCs
  <2>2. pay[loc[s].order].status # "none"
    BY <1>1, <2>1, RowFields DEF Funded, PaymentsOf
  <2>3. pay' = [pay EXCEPT ![loc[s].order].status = "success"]
    BY <1>4 DEF SettleCommit
  <2> QED BY <1>3, <2>2, <2>3
<1>5. CASE MarkFailed(s) \/ ReconExpire(s)
  BY <1>1, <1>3, <1>5 DEF MarkFailed, ReconExpire, UpdatePaymentStatus, UpdateInv
<1> QED BY <1>2, <1>4, <1>5

\* A row is inserted only for an enrollment that is unpaid at that moment.
THEOREM NewOrdersOnlyForUnpaidHolds == Spec => NewOrdersOnlyForUnpaid
<1>1. IInv /\ [Next]_vars =>
        [\A p \in Orders :
           pay[p].status = "none" /\ pay'[p].status # "none" =>
             LET e == pay'[p].owner IN
             enr[e].status \notin PaidStatuses /\ ~HasSuccess(e)]_vars
  <2> SUFFICES ASSUME IInv, [Next]_vars, NEW p \in Orders,
                      pay[p].status = "none", pay'[p].status # "none"
               PROVE  enr[pay'[p].owner].status \notin PaidStatuses /\ ~HasSuccess(pay'[p].owner)
    OBVIOUS
  <2>1. PICK s \in Sessions : WritesPayments(s)
    BY PaymentsWriters
  <2>2. CASE CreateOrderCommit(s)
    BY <2>2, CreateOrderWrites
  <2>3. CASE SelectCommit(s) \/ SettleCommit(s) \/ MarkFailed(s) \/ ReconExpire(s)
    BY <2>3, OtherWrites
  <2> QED BY <2>1, <2>2, <2>3 DEF WritesPayments
<1> QED BY <1>1, Invariant, PTL DEF Spec, NewOrdersOnlyForUnpaid

\* Cancelling rows listed earlier never hits a row settled since.
THEOREM SuccessNeverCancelledHolds == Spec => SuccessNeverCancelled
<1>1. IInv /\ [Next]_vars =>
        [\A p \in Orders :
           pay[p].status = "success" => pay'[p].status # "cancelled"]_vars
  <2> SUFFICES ASSUME IInv, [Next]_vars, NEW p \in Orders,
                      pay[p].status = "success"
               PROVE  pay'[p].status # "cancelled"
    OBVIOUS
  <2>1. CASE UNCHANGED pay
    BY <2>1
  <2>2. ASSUME NEW s \in Sessions, WritesPayments(s)
        PROVE  pay'[p].status # "cancelled"
    <3>1. CASE CreateOrderCommit(s)
      BY <3>1, CreateOrderWrites
    <3>2. CASE SelectCommit(s) \/ SettleCommit(s) \/ MarkFailed(s) \/ ReconExpire(s)
      BY <3>2, OtherWrites
    <3> QED BY <2>2, <3>1, <3>2 DEF WritesPayments
  <2> QED BY <2>1, <2>2, PaymentsWriters
<1> QED BY <1>1, Invariant, PTL DEF Spec, SuccessNeverCancelled

-----------------------------------------------------------------------------
(* Deadlocks *)

\* The statements at which a session may hold rows.
HoldPCs == CreateOrderPCs \cup {"sel_lock", "sel_commit", "settle_commit"}

\* Only createOrder ever holds an enrollment row while it waits.  Selections
\* and settlements hold payments rows, and a selection that is still locking
\* holds only rows of its list.
LockInv ==
  \A r \in Rows : \A t \in Sessions :
    lock[r] = t =>
      /\ pc[t] \in HoldPCs
      /\ r \in Enrollments => pc[t] \in CreateOrderPCs
      /\ pc[t] = "sel_lock" => r \in loc[t].rows

\* It is kept by a step in which session s moves, if it holds for s.
LEMMA LockStep ==
  ASSUME TypeOK, LockInv, NEW s \in Sessions, NEW c \in PCs, NEW l, Goto(s, c, l),
         \A r \in Rows : \A t \in Sessions \ {s} : lock'[r] = t => lock[r] = t,
         \A r \in Rows : lock'[r] = s =>
           /\ c \in HoldPCs
           /\ r \in Enrollments => c \in CreateOrderPCs
           /\ c = "sel_lock" => r \in l.rows
  PROVE  LockInv'
<1>1. /\ pc'[s] = c /\ loc'[s] = l
      /\ \A t \in Sessions \ {s} : pc'[t] = pc[t] /\ loc'[t] = loc[t]
  BY DEF TypeOK, Goto
<1> QED BY <1>1 DEF LockInv

\* A session that ends releases everything.
LEMMA ReleaseStep ==
  ASSUME TypeOK, LockInv, NEW s \in Sessions, NEW c \in PCs, NEW l, Goto(s, c, l),
         lock' = Release(s)
  PROVE  LockInv'
<1>1. /\ \A r \in Rows : lock'[r] # s
      /\ \A r \in Rows : \A t \in Sessions \ {s} : lock'[r] = t => lock[r] = t
  BY NoneAssumption DEF Release
<1> QED BY <1>1, LockStep

\* A session that takes rows it may hold at the statement it goes to.
LEMMA TakeStep ==
  ASSUME TypeOK, LockInv, NEW s \in Sessions, NEW c \in PCs, NEW l, Goto(s, c, l),
         NEW R, lock' = Take(s, R),
         c \in HoldPCs \ {"sel_lock"},
         \A r \in Rows : r \in Enrollments /\ (lock[r] = s \/ r \in R) => c \in CreateOrderPCs
  PROVE  LockInv'
<1>1. /\ \A r \in Rows : lock'[r] = s => lock[r] = s \/ r \in R
      /\ \A r \in Rows : \A t \in Sessions \ {s} : lock'[r] = t => lock[r] = t
  BY DEF Take
<1> QED BY <1>1, LockStep

\* A session that locks one more row of its list.
LEMMA RowStep ==
  ASSUME TypeOK, LockInv, NEW s \in Sessions, LockRow(s), Commits({}),
         pc[s] \in CreateOrderPCs \cup {"sel_lock"}
  PROVE  LockInv'
<1>1. PICK p \in loc[s].rows : lock' = Take(s, {p})
  BY DEF LockRow, Missing
<1>2. /\ \A r \in Rows : \A t \in Sessions \ {s} : lock'[r] = t => lock[r] = t
      /\ \A r \in Rows : lock'[r] = s => lock[r] = s \/ r \in loc[s].rows
  BY <1>1 DEF Take
<1>3. loc[s].rows \subseteq Orders /\ pc[s] \in PCs /\ Goto(s, pc[s], loc[s])
  BY LocalsFields DEF LockRow, TypeOK
<1>4. \A r \in Rows : lock'[r] = s =>
        /\ pc[s] \in HoldPCs
        /\ r \in Enrollments => pc[s] \in CreateOrderPCs
        /\ pc[s] = "sel_lock" => r \in loc[s].rows
  BY <1>2, <1>3, RowsAssumption DEF LockInv, HoldPCs
<1> QED BY <1>2, <1>3, <1>4, LockStep

\* A session that neither takes nor releases a row: it holds none, or it stays
\* inside createOrder.
LEMMA KeepStep ==
  ASSUME TypeOK, LockInv, NEW s \in Sessions, NEW c \in PCs, NEW l, Goto(s, c, l),
         UNCHANGED lock,
         pc[s] \notin HoldPCs \/ (pc[s] \in CreateOrderPCs /\ c \in CreateOrderPCs)
  PROVE  LockInv'
<1>1. \A r \in Rows : lock[r] = s => c \in CreateOrderPCs
  BY DEF LockInv
<1>2. "sel_lock" \notin CreateOrderPCs /\ CreateOrderPCs \subseteq HoldPCs
  BY DEF CreateOrderPCs, HoldPCs
<1> QED BY <1>1, <1>2, LockStep

LEMMA LockInvStep ==
  ASSUME IInv, LockInv, [Next]_vars
  PROVE  LockInv'
<1>1. TypeOK /\ {"idle", "co_list", "co_cancel", "co_mint", "co_commit", "sel_list",
                 "sel_lock", "sel_commit", "settle_lock", "settle_commit", "mark_failed",
                 "rec_fetch", "rec_expire", "rec_status", "enqueue"} \subseteq PCs
  BY DEF IInv, PCs, CreateOrderPCs, SelectPCs, SettlePCs
<1>2. ASSUME NEW s \in Sessions, SessionStep(s)
      PROVE  LockInv'
  <2>1. CASE CreateOrderCommit(s) \/ SelectCommit(s) \/ SettleConflict(s) \/ Fail(s)
    BY <1>1, <2>1, ReleaseStep DEF CreateOrderCommit, SelectCommit, SettleConflict, Fail
  <2>2. CASE SettleCommit(s)
    <3>1. PICK c \in PCs : Goto(s, c, loc[s]) /\ lock' = Release(s)
      BY <1>1, <2>2 DEF SettleCommit
    <3> QED BY <1>1, <3>1, ReleaseStep
  <2>3. CASE \E e \in Enrollments : CreateOrderLock(s, e)
    <3>1. PICK e \in Enrollments : CreateOrderLock(s, e)
      BY <2>3
    <3>2. "co_list" \in CreateOrderPCs /\ "co_list" \in HoldPCs \ {"sel_lock"}
      BY DEF CreateOrderPCs, HoldPCs
    <3> QED BY <1>1, <3>1, <3>2, TakeStep DEF CreateOrderLock
  <2>4. CASE CreateOrderList(s)
    <3>1. CASE lock' = Release(s) /\ Goto(s, "idle", NoLocals)
      BY <1>1, <3>1, ReleaseStep
    <3>2. ASSUME NEW l, UNCHANGED lock, Goto(s, "co_cancel", l)
          PROVE  LockInv'
      <4>1. "co_cancel" \in CreateOrderPCs /\ pc[s] \in CreateOrderPCs
        BY <2>4 DEF CreateOrderPCs, CreateOrderList
      <4> QED BY <1>1, <3>2, <4>1, KeepStep
    <3> QED BY <2>4, <3>1, <3>2 DEF CreateOrderList
  <2>5. CASE CreateOrderCancel(s)
    <3>1. CASE LockRow(s)
      <4>1. Commits({}) /\ pc[s] \in CreateOrderPCs
        BY <2>5 DEF CreateOrderCancel, CreateOrderPCs
      <4> QED BY <1>1, <3>1, <4>1, RowStep
    <3>2. ASSUME NEW c \in {"co_mint", "co_commit"}, Goto(s, c, loc[s]), lock' = Take(s, Missing(s))
          PROVE  LockInv'
      <4>1. c \in CreateOrderPCs /\ c \in PCs /\ c \in HoldPCs \ {"sel_lock"}
        BY <1>1 DEF CreateOrderPCs, HoldPCs
      <4> QED BY <1>1, <3>2, <4>1, TakeStep
    <3> QED BY <2>5, <3>1, <3>2 DEF CreateOrderCancel
  <2>6. CASE CreateOrderMint(s)
    <3>1. PICK p \in Orders : Goto(s, "co_commit", [loc[s] EXCEPT !.order = p])
      BY <2>6 DEF CreateOrderMint
    <3>2. "co_commit" \in CreateOrderPCs /\ pc[s] \in CreateOrderPCs /\ UNCHANGED lock
      BY <2>6 DEF CreateOrderPCs, CreateOrderMint
    <3> QED BY <1>1, <3>1, <3>2, KeepStep
  <2>7. CASE SelectLock(s)
    <3>1. CASE LockRow(s)
      BY <1>1, <2>7, <3>1, RowStep DEF SelectLock
    <3>2. CASE lock' = Release(s) /\ Goto(s, "idle", NoLocals)
      BY <1>1, <3>2, ReleaseStep
    <3>3. ASSUME NEW l, Goto(s, "sel_commit", l), lock' = Take(s, Missing(s))
          PROVE  LockInv'
      <4>1. /\ pc[s] \notin CreateOrderPCs /\ Missing(s) \subseteq Orders
            /\ "sel_commit" \in HoldPCs \ {"sel_lock"}
        BY <1>1, <2>7, LocalsFields DEF SelectLock, CreateOrderPCs, Missing, HoldPCs
      <4>2. \A r \in Rows : ~(r \in Enrollments /\ (lock[r] = s \/ r \in Missing(s)))
        BY <4>1, RowsAssumption DEF LockInv
      <4> QED BY <1>1, <3>3, <4>1, <4>2, TakeStep
    <3> QED BY <2>7, <3>1, <3>2, <3>3 DEF SelectLock
  <2>8. CASE SettleLock(s)
    <3>1. CASE Goto(s, "idle", NoLocals) /\ UNCHANGED lock
      <4>1. pc[s] \notin HoldPCs
        BY <2>8 DEF SettleLock, CreateOrderPCs, HoldPCs
      <4> QED BY <1>1, <3>1, <4>1, KeepStep
    <3>2. CASE Goto(s, "settle_commit", loc[s]) /\ lock' = Take(s, {loc[s].order})
      <4>1. /\ pc[s] \notin CreateOrderPCs /\ loc[s].order \in Orders \cup {None}
            /\ "settle_commit" \in HoldPCs \ {"sel_lock"}
        BY <1>1, <2>8, LocalsFields DEF SettleLock, CreateOrderPCs, HoldPCs
      <4>2. \A r \in Rows : ~(r \in Enrollments /\ (lock[r] = s \/ r \in {loc[s].order}))
        BY <4>1, RowsAssumption, NoneAssumption DEF LockInv
      <4> QED BY <1>1, <3>2, <4>1, <4>2, TakeStep
    <3> QED BY <2>8, <3>1, <3>2 DEF SettleLock
  <2>9. CASE \/ SelectList(s) \/ Enqueue(s) \/ MarkFailed(s) \/ ReconFetch(s)
             \/ ReconExpire(s) \/ ReconStatus(s)
             \/ \E e \in Enrollments, a \in Amounts : SelectRead(s, e, a)
             \/ \E p \in Orders : \/ VerifyValid(s, p) \/ VerifyInvalid(s, p)
                                  \/ WebhookCaptured(s, p) \/ WebhookFailed(s, p)
                                  \/ ReconPick(s, p)
    <3>1. /\ UNCHANGED lock
          /\ pc[s] \notin HoldPCs
          /\ \E c \in PCs : pc' = [pc EXCEPT ![s] = c]
          /\ \E l : loc' = [loc EXCEPT ![s] = l]
      BY <1>1, <2>9
      DEF SelectList, Enqueue, MarkFailed, ReconFetch, ReconExpire, ReconStatus, SelectRead,
          VerifyValid, VerifyInvalid, WebhookCaptured, WebhookFailed, ReconPick,
          UpdatePaymentStatus, SettleBegin, Goto, CreateOrderPCs, HoldPCs
    <3>2. \A r \in Rows : lock[r] # s
      BY <3>1 DEF LockInv
    <3>3. \A t \in Sessions \ {s} : pc'[t] = pc[t] /\ loc'[t] = loc[t]
      BY <1>1, <3>1 DEF TypeOK
    <3> QED BY <3>1, <3>2, <3>3 DEF LockInv
  <2> QED BY <1>2, <2>1, <2>2, <2>3, <2>4, <2>5, <2>6, <2>7, <2>8, <2>9 DEF SessionStep
<1>3. ASSUME UNCHANGED <<lock, pc, loc>>
      PROVE  LockInv'
  BY <1>3 DEF LockInv
<1> QED BY <1>2, <1>3 DEF Next, vars, ResumeDraft, RestartDraft, CleanupDraft, AssignEnrollment, Capture

\* Everybody but createOrder takes payments first, and only a selection takes
\* several: a deadlock without a createOrder is one of two selections.
THEOREM DeadlocksNeedSeveralRowsHolds == Spec => []DeadlocksNeedSeveralRows
<1>1. Init => LockInv
  BY NoneAssumption DEF Init, LockInv
<1>2. IInv /\ LockInv => DeadlocksNeedSeveralRows
  <2> SUFFICES ASSUME IInv, LockInv, NEW S \in SUBSET Sessions, DeadlockedSet(S),
                      \A t \in S : pc[t] \notin CreateOrderPCs
               PROVE  \E u, v \in S : /\ u # v /\ loc[u].enr = loc[v].enr
                                     /\ pc[u] = "sel_lock" /\ pc[v] = "sel_lock"
    BY DEF DeadlocksNeedSeveralRows
  <2>1. ASSUME NEW t \in S
        PROVE  Needs(t) \subseteq Rows
    <3>1. SelectInv(t) /\ SettleInv(t) /\ UpdateInv(t) /\ loc[t].rows \subseteq Orders
      BY LocalsFields DEF IInv, SessionInv
    <3>2. CASE pc[t] = "sel_lock"
      BY <3>1, <3>2 DEF Needs, Rows
    <3>3. CASE pc[t] \in {"sel_commit", "settle_commit", "rec_status"}
      <4>1. loc[t].enr \in Enrollments
        BY <3>1, <3>3 DEF SelectInv, SettleInv, SelectPCs, SettlePCs
      <4> QED BY <3>3, <4>1 DEF Needs, Rows
    <3>4. CASE pc[t] \in {"settle_lock", "mark_failed", "rec_expire"}
      <4>1. loc[t].order \in Orders
        BY <3>1, <3>4 DEF SettleInv, SettlePCs, UpdateInv, Funded, PaymentsOf
      <4> QED BY <3>4, <4>1 DEF Needs, Rows
    <3>5. CASE pc[t] \notin {"co_cancel", "sel_lock", "sel_commit", "settle_commit",
                           "rec_status", "settle_lock", "mark_failed", "rec_expire"}
      BY <3>5 DEF Needs
    <3> QED BY <3>2, <3>3, <3>4, <3>5 DEF CreateOrderPCs
  <2>2. ASSUME NEW t \in S
        PROVE  \E u \in S \ {t} : \E r \in Needs(t) : lock[r] = u
    BY DEF DeadlockedSet
  <2>3. ASSUME NEW u \in S, NEW r \in Rows, lock[r] = u
        PROVE  pc[u] = "sel_lock" /\ r \in loc[u].rows
    <3>1. pc[u] \in {"sel_lock", "sel_commit", "settle_commit"}
      BY <2>3 DEF LockInv, HoldPCs
    <3>2. ASSUME pc[u] \in {"sel_commit", "settle_commit"}
          PROVE  FALSE
      <4>1. SelectInv(u) /\ SettleInv(u)
        BY DEF IInv, SessionInv
      <4>2. Needs(u) = {loc[u].enr} /\ loc[u].enr \in Enrollments
        BY <3>2, <4>1 DEF Needs, SelectInv, SettleInv, SelectPCs, SettlePCs
      <4>3. PICK v \in S : lock[loc[u].enr] = v
        BY <2>2, <4>2
      <4>4. pc[v] \in CreateOrderPCs
        BY <4>2, <4>3 DEF LockInv, Rows
      <4> QED BY <4>4
    <3>3. pc[u] = "sel_lock"
      BY <3>1, <3>2
    <3> QED BY <2>3, <3>3 DEF LockInv
  <2>4. PICK t \in S : TRUE
    BY DEF DeadlockedSet
  <2>5. PICK u \in S, q \in Rows : lock[q] = u
    BY <2>1, <2>2, <2>4
  <2>6. pc[u] = "sel_lock"
    BY <2>3, <2>5
  <2>7. PICK v \in S \ {u}, r \in Needs(u) : lock[r] = v
    BY <2>2
  <2>8. r \in Rows /\ r \in loc[u].rows
    BY <2>1, <2>6, <2>7 DEF Needs
  <2>9. pc[v] = "sel_lock" /\ r \in loc[v].rows
    BY <2>3, <2>7, <2>8
  <2>10. loc[u].enr = loc[v].enr
    <3>1. SelectInv(u) /\ SelectInv(v)
      BY <2>7 DEF IInv, SessionInv
    <3>2. r \in PaymentsOf(loc[u].enr) /\ r \in PaymentsOf(loc[v].enr)
      BY <2>6, <2>8, <2>9, <3>1 DEF SelectInv, SelectPCs
    <3> QED BY <3>2 DEF PaymentsOf
  <2> QED BY <2>6, <2>7, <2>9, <2>10
<1>3. IInv /\ LockInv /\ [Next]_vars => LockInv'
  BY LockInvStep
<1> QED BY <1>1, <1>2, <1>3, Invariant, PTL DEF Spec

-----------------------------------------------------------------------------
(* The payment core implements the order book: the initial states map to     *)
(* initial states, and every step maps to a step of the book or to none.     *)

\* At most one active order, so the order on offer is that one.
LEMMA OfferIsTheActiveOrder ==
  ASSUME NEW A, \A p, q \in A : p = q,
         NEW x, x = IF A = {} THEN None ELSE CHOOSE p \in A : TRUE
  PROVE  /\ A = {} => x = None
         /\ \A p \in A : x = p
OBVIOUS

\* In the current and in the next state.
LEMMA Offers ==
  ASSUME IInv, IInv'
  PROVE  \A e \in Enrollments :
           /\ ActiveOrders(e) = {} => OfferTo(e) = None
           /\ \A p \in ActiveOrders(e) : OfferTo(e) = p
           /\ ActiveOrders(e)' = {} => OfferTo(e)' = None
           /\ \A p \in ActiveOrders(e)' : OfferTo(e)' = p
           /\ ActiveOrders(e)' = ActiveOrders(e) => OfferTo(e)' = OfferTo(e)
           /\ ActiveOrders(e) \subseteq Orders
<1> TAKE e \in Enrollments
<1>1. /\ \A p, q \in ActiveOrders(e) : p = q
      /\ \A p, q \in ActiveOrders(e)' : p = q
  BY DEF IInv, OneActiveOrder
<1>2. /\ OfferTo(e) = IF ActiveOrders(e) = {} THEN None
                      ELSE CHOOSE p \in ActiveOrders(e) : TRUE
      /\ OfferTo(e)' = IF ActiveOrders(e)' = {} THEN None
                       ELSE CHOOSE p \in ActiveOrders(e)' : TRUE
  BY DEF OfferTo
<1>3. ActiveOrders(e) \subseteq Orders
  BY DEF ActiveOrders, PaymentsOf
<1> QED BY <1>1, <1>2, <1>3, OfferIsTheActiveOrder

\* What the book sees of a step.
SameOwners == \A p \in Orders : pay'[p].owner = pay[p].owner
SameFunded == \A p \in Orders : rzp'[p].state = "paid" <=> rzp[p].state = "paid"
SameCredit == \A e \in Enrollments : enr'[e].paid # 0 <=> enr[e].paid # 0

LEMMA OwnersMap ==
  ASSUME SameOwners
  PROVE  UNCHANGED [p \in Orders |-> pay[p].owner]
BY DEF SameOwners

LEMMA FundedMap ==
  ASSUME SameFunded
  PROVE  UNCHANGED {p \in Orders : rzp[p].state = "paid"}
BY DEF SameFunded

LEMMA CreditMap ==
  ASSUME SameCredit
  PROVE  UNCHANGED {e \in Enrollments : enr[e].paid # 0}
BY DEF SameCredit

LEMMA OffersMap ==
  ASSUME IInv, IInv', \A e \in Enrollments : ActiveOrders(e)' = ActiveOrders(e)
  PROVE  UNCHANGED [e \in Enrollments |-> OfferTo(e)]
<1>1. \A e \in Enrollments : OfferTo(e)' = OfferTo(e)
  BY Offers
<1> QED BY <1>1

\* A function that differs from another at one point.
LEMMA PointUpdate ==
  ASSUME NEW S, NEW f, NEW g, NEW e \in S, NEW v,
         f = [x \in S |-> f[x]], g = [x \in S |-> g[x]],
         g[e] = v, \A x \in S \ {e} : g[x] = f[x]
  PROVE  g = [f EXCEPT ![e] = v]
<1> DEFINE h == [f EXCEPT ![e] = v]
<1>1. h = [x \in S |-> h[x]] /\ \A x \in S : h[x] = IF x = e THEN v ELSE f[x]
  OBVIOUS
<1> HIDE DEF h
<1>2. g = h
  BY <1>1
<1> QED BY <1>2 DEF h

OfferMap == [e \in Enrollments |-> OfferTo(e)]

\* The offer of one enrollment changes.
LEMMA OfferUpdate ==
  ASSUME IInv, IInv', NEW e \in Enrollments, NEW v, OfferTo(e)' = v,
         \A f \in Enrollments \ {e} : ActiveOrders(f)' = ActiveOrders(f)
  PROVE  OfferMap' = [OfferMap EXCEPT ![e] = v]
<1>1. /\ OfferMap = [f \in Enrollments |-> OfferMap[f]]
      /\ \A f \in Enrollments : OfferMap[f] = OfferTo(f)
  BY DEF OfferMap
<1>2. /\ OfferMap' = [f \in Enrollments |-> OfferMap'[f]]
      /\ \A f \in Enrollments : OfferMap'[f] = OfferTo(f)'
  BY DEF OfferMap
<1>3. \A f \in Enrollments \ {e} : OfferTo(f)' = OfferTo(f)
  BY Offers
<1> QED BY <1>1, <1>2, <1>3, PointUpdate

\* A step that changes nothing the book sees.
LEMMA Stutter ==
  ASSUME IInv, IInv', SameOwners, SameFunded, SameCredit,
         \A e \in Enrollments : ActiveOrders(e)' = ActiveOrders(e)
  PROVE  UNCHANGED Book!vars
BY OwnersMap, FundedMap, CreditMap, OffersMap DEF Book!vars

\* A step that at most deactivates orders of one enrollment.
LEMMA Withdrawal ==
  ASSUME IInv, IInv', SameOwners, SameFunded, SameCredit, NEW e \in Enrollments,
         ActiveOrders(e)' \subseteq ActiveOrders(e),
         \A f \in Enrollments \ {e} : ActiveOrders(f)' = ActiveOrders(f)
  PROVE  Book!Next \/ UNCHANGED Book!vars
<1>1. CASE ActiveOrders(e)' = ActiveOrders(e)
  BY <1>1, Stutter
<1>2. CASE ActiveOrders(e)' # ActiveOrders(e)
  <2>1. ActiveOrders(e)' = {} /\ ActiveOrders(e) # {}
    BY <1>2 DEF IInv, OneActiveOrder
  <2>2. OfferTo(e) # None /\ OfferTo(e)' = None
    BY <2>1, Offers, NoneAssumption
  <2>3. OfferMap' = [OfferMap EXCEPT ![e] = None]
    BY <2>2, OfferUpdate
  <2>4. Book!Withdraw(e)
    BY <2>2, <2>3, OwnersMap, FundedMap, CreditMap DEF Book!Withdraw, OfferMap
  <2> QED BY <2>4 DEF Book!Next
<1> QED BY <1>1, <1>2

-----------------------------------------------------------------------------
(* The steps *)

\* A new order is issued; the rows it replaces are withdrawn with it.
LEMMA CreateOrderIssues ==
  ASSUME IInv, IInv', NEW s \in Sessions, CreateOrderCommit(s)
  PROVE  Book!Next \/ UNCHANGED Book!vars
<1>1. /\ TypeOK /\ CreateOrderInv(s) /\ MintInv(s) /\ pc[s] = "co_commit"
      /\ loc[s].fresh \in BOOLEAN
  BY LocalsFields DEF IInv, SessionInv, CreateOrderCommit
<1>2. PICK e \in Enrollments : e = loc[s].enr
  BY <1>1 DEF CreateOrderInv, CreateOrderPCs
<1>3. /\ loc[s].rows \subseteq PaymentsOf(e)
      /\ \A q \in ActiveOrders(e) : q \in loc[s].rows \/ (~loc[s].fresh /\ q = loc[s].order)
  BY <1>1, <1>2 DEF CreateOrderInv, CreateOrderPCs
<1>4. /\ pay' = [q \in Orders |->
               IF loc[s].fresh /\ q = loc[s].order
               THEN [status |-> "initiated", owner |-> e, amount |-> loc[s].amount]
               ELSE IF q \in loc[s].rows THEN [pay[q] EXCEPT !.status = "cancelled"]
               ELSE pay[q]]
      /\ enr' = IF loc[s].fresh
                THEN [enr EXCEPT ![e].status = "payment_pending"] ELSE enr
      /\ rzp' = rzp
  BY <1>2 DEF CreateOrderCommit
<1>5. SameFunded /\ SameCredit
  <2>1. \A f \in Enrollments : enr'[f].paid = enr[f].paid
    BY <1>1, <1>4 DEF TypeOK, Enrollment
  <2> QED BY <1>4, <2>1 DEF SameFunded, SameCredit
<1>6. ASSUME NEW q \in Orders, q \in loc[s].rows, ~(loc[s].fresh /\ q = loc[s].order)
      PROVE  /\ pay[q].owner = e /\ pay'[q].owner = e
             /\ pay'[q].status = "cancelled"
  <2>1. /\ pay[q].owner = e /\ pay[q] \in Payment /\ pay[q].status # "none"
    BY <1>1, <1>3, <1>6, RowFields DEF PaymentsOf
  <2>2. pay'[q] = [pay[q] EXCEPT !.status = "cancelled"]
    BY <1>4, <1>6
  <2> QED BY <2>1, <2>2 DEF Payment, NoRow
<1>7. \A q \in Orders : q \notin loc[s].rows /\ ~(loc[s].fresh /\ q = loc[s].order) =>
        pay'[q] = pay[q]
  BY <1>4
<1>8. CASE ~loc[s].fresh
  <2>1. SameOwners
    BY <1>6, <1>7, <1>8 DEF SameOwners
  <2>2. /\ ActiveOrders(e)' \subseteq ActiveOrders(e)
        /\ \A f \in Enrollments \ {e} : ActiveOrders(f)' = ActiveOrders(f)
    BY <1>6, <1>7, <1>8 DEF ActiveOrders, PaymentsOf, ActiveStatuses
  <2> QED BY <1>5, <2>1, <2>2, Withdrawal
<1>9. CASE loc[s].fresh
  <2>1. PICK p \in Orders : p = loc[s].order /\ pay[p] = NoRow
    BY <1>1, <1>9 DEF MintInv
  <2>2. /\ pay'[p].owner = e /\ pay'[p].status = "initiated"
        /\ pay[p].owner = None /\ pay[p].status = "none"
    BY <1>4, <1>9, <2>1 DEF NoRow
  <2>3. \A q \in Orders \ {p} : pay'[q].owner = pay[q].owner
    BY <1>6, <1>7, <2>1
  <2>4. p \in ActiveOrders(e)'
    BY <2>2 DEF ActiveOrders, PaymentsOf, ActiveStatuses
  <2>5. \A f \in Enrollments \ {e} : ActiveOrders(f)' = ActiveOrders(f)
    <3>1. \A f \in Enrollments \ {e} : \A q \in Orders :
            /\ pay'[q].owner = f <=> pay[q].owner = f
            /\ pay[q].owner = f => pay'[q] = pay[q]
      BY <1>6, <1>7, <2>1, <2>2, <2>3, NoneAssumption
    <3> QED BY <3>1 DEF ActiveOrders, PaymentsOf
  <2>6. OfferTo(e)' = p
    BY <2>4, Offers
  <2>7. OfferMap' = [OfferMap EXCEPT ![e] = p]
    BY <2>5, <2>6, OfferUpdate
  <2>8. [q \in Orders |-> pay[q].owner]' = [[q \in Orders |-> pay[q].owner] EXCEPT ![p] = e]
    BY <2>2, <2>3
  <2>9. Book!Issue(e, p)
    BY <1>5, <2>2, <2>7, <2>8, FundedMap, CreditMap DEF Book!Issue, OfferMap
  <2> QED BY <2>9 DEF Book!Next
<1> QED BY <1>1, <1>8, <1>9

Restatus(R, st) ==
  pay' = [q \in Orders |-> IF q \in R THEN [pay[q] EXCEPT !.status = st] ELSE pay[q]]

\* A status written to existing rows takes them out of the active orders.
LEMMA RestatusWithdraws ==
  ASSUME IInv, IInv', NEW R \in SUBSET Orders, NEW e \in Enrollments,
         NEW st \in PaymentStatuses \ ActiveStatuses,
         R \subseteq PaymentsOf(e), Restatus(R, st)
  PROVE  /\ SameOwners
         /\ ActiveOrders(e)' = ActiveOrders(e) \ R
         /\ \A f \in Enrollments \ {e} : ActiveOrders(f)' = ActiveOrders(f)
<1>1. TypeOK
  BY DEF IInv
<1>2. ASSUME NEW q \in R
      PROVE  pay'[q].owner = pay[q].owner /\ pay'[q].status = st /\ pay[q].owner = e
  <2>1. q \in Orders /\ pay[q].owner = e /\ pay[q] \in Payment /\ pay[q].status # "none"
    BY <1>1, RowFields DEF PaymentsOf
  <2>2. pay'[q] = [pay[q] EXCEPT !.status = st]
    BY <2>1 DEF Restatus
  <2> QED BY <2>1, <2>2 DEF Payment, NoRow
<1>3. \A q \in Orders \ R : pay'[q] = pay[q]
  BY DEF Restatus
<1>4. SameOwners
  BY <1>2, <1>3 DEF SameOwners
<1>5. \A f \in Enrollments : \A q \in Orders :
        q \in ActiveOrders(f)' <=> q \in ActiveOrders(f) /\ q \notin R
  BY <1>2, <1>3 DEF ActiveOrders, PaymentsOf
<1>6. \A f \in Enrollments : ActiveOrders(f)' \subseteq Orders /\ ActiveOrders(f) \subseteq Orders
  BY DEF ActiveOrders, PaymentsOf
<1>7. \A f \in Enrollments \ {e} : \A q \in ActiveOrders(f) : q \notin R
  BY <1>2 DEF ActiveOrders, PaymentsOf
<1> QED BY <1>4, <1>5, <1>6, <1>7

LEMMA SelectWithdraws ==
  ASSUME IInv, IInv', NEW s \in Sessions, SelectCommit(s)
  PROVE  Book!Next \/ UNCHANGED Book!vars
<1>1. TypeOK /\ SelectInv(s) /\ loc[s].rows \in SUBSET Orders
  BY LocalsFields DEF IInv, SessionInv
<1>2. PICK e \in Enrollments : e = loc[s].enr /\ loc[s].rows \subseteq PaymentsOf(e)
  BY <1>1 DEF SelectInv, SelectPCs, SelectCommit
<1>3. Restatus(loc[s].rows, "cancelled") /\ rzp' = rzp
  BY DEF SelectCommit, Restatus
<1>4. "cancelled" \in PaymentStatuses \ ActiveStatuses
  BY DEF PaymentStatuses, ActiveStatuses
<1>5. /\ SameOwners
      /\ ActiveOrders(e)' = ActiveOrders(e) \ loc[s].rows
      /\ \A f \in Enrollments \ {e} : ActiveOrders(f)' = ActiveOrders(f)
  BY <1>1, <1>2, <1>3, <1>4, RestatusWithdraws
<1>6. SameFunded /\ SameCredit
  <2>1. enr' = [enr EXCEPT ![e] = [@ EXCEPT !.plan = TRUE, !.amount = loc[s].amount,
                                           !.status = "payment_pending"]]
    BY <1>2 DEF SelectCommit
  <2>2. \A f \in Enrollments : enr'[f].paid = enr[f].paid
    BY <1>1, <2>1 DEF TypeOK, Enrollment
  <2> QED BY <1>3, <2>2 DEF SameFunded, SameCredit
<1> QED BY <1>5, <1>6, Withdrawal

\* A settlement credits the enrollment and takes its order off the book.
LEMMA SettleCredits ==
  ASSUME IInv, IInv', NEW s \in Sessions, SettleCommit(s)
  PROVE  Book!Next \/ UNCHANGED Book!vars
<1>1. TypeOK /\ SettleInv(s)
  BY DEF IInv, SessionInv
<1>2. PICK e \in Enrollments, p \in Orders : e = loc[s].enr /\ p = loc[s].order
  BY <1>1 DEF SettleCommit, SettleInv, SettlePCs, Funded, PaymentsOf
<1>3. /\ p \in PaymentsOf(e) /\ rzp[p].state = "paid" /\ pay[p].amount = loc[s].amount
  BY <1>1, <1>2 DEF SettleCommit, SettleInv, SettlePCs, Funded
<1>4. loc[s].amount \in Amounts /\ loc[s].amount # 0
  BY <1>1, <1>3, RowFields, AmountsAssumption DEF PaymentsOf
<1>5. /\ pay' = [pay EXCEPT ![p].status = "success"]
      /\ enr' = [enr EXCEPT ![e] = [@ EXCEPT !.status = "paid", !.paid = loc[s].amount]]
      /\ rzp' = rzp
  BY <1>2 DEF SettleCommit
<1>6. /\ {p} \in SUBSET Orders /\ {p} \subseteq PaymentsOf(e)
      /\ "success" \in PaymentStatuses \ ActiveStatuses
      /\ Restatus({p}, "success")
  BY <1>1, <1>3, <1>5 DEF TypeOK, PaymentStatuses, ActiveStatuses, Restatus
<1>7. /\ SameOwners
      /\ ActiveOrders(e)' = ActiveOrders(e) \ {p}
      /\ \A f \in Enrollments \ {e} : ActiveOrders(f)' = ActiveOrders(f)
  BY <1>6, RestatusWithdraws
<1>8. SameFunded
  BY <1>5 DEF SameFunded
<1>9. {f \in Enrollments : enr[f].paid # 0}' = {f \in Enrollments : enr[f].paid # 0} \cup {e}
  <2>1. enr'[e].paid # 0 /\ \A f \in Enrollments \ {e} : enr'[f] = enr[f]
    BY <1>1, <1>4, <1>5 DEF TypeOK, Enrollment
  <2> QED BY <2>1
<1>10. OfferTo(e)' = IF OfferTo(e) = p THEN None ELSE OfferTo(e)
  <2>1. CASE p \in ActiveOrders(e)
    <3>1. ActiveOrders(e) = {p}
      BY <2>1 DEF IInv, OneActiveOrder
    <3>2. OfferTo(e) = p /\ ActiveOrders(e)' = {}
      BY <1>7, <2>1, <3>1, Offers
    <3> QED BY <3>2, Offers
  <2>2. CASE p \notin ActiveOrders(e)
    <3>1. ActiveOrders(e)' = ActiveOrders(e)
      BY <1>7, <2>2
    <3>2. OfferTo(e)' = OfferTo(e)
      BY <3>1, Offers
    <3>3. OfferTo(e) # p
      BY <2>2, Offers, NoneAssumption
    <3> QED BY <3>2, <3>3
  <2> QED BY <2>1, <2>2
<1>11. OfferMap' = [OfferMap EXCEPT ![e] = IF OfferTo(e) = p THEN None ELSE OfferTo(e)]
  BY <1>7, <1>10, OfferUpdate
<1>12. Book!Credit(e, p)
  <2>1. OfferMap[e] = OfferTo(e)
    BY DEF OfferMap
  <2>2. OfferMap' = [OfferMap EXCEPT ![e] = IF @ = p THEN None ELSE @]
    BY <1>11, <2>1 DEF OfferMap
  <2> QED BY <1>3, <1>7, <1>8, <1>9, <2>2, OwnersMap, FundedMap
          DEF Book!Credit, OfferMap, PaymentsOf
<1> QED BY <1>12 DEF Book!Next

LEMMA MarkWithdraws ==
  ASSUME IInv, IInv', NEW s \in Sessions, MarkFailed(s) \/ ReconExpire(s)
  PROVE  Book!Next \/ UNCHANGED Book!vars
<1>1. TypeOK /\ UpdateInv(s)
  BY DEF IInv, SessionInv
<1>2. PICK p \in Orders, st \in {"failed", "expired"} :
        /\ pay[p].status # "none"
        /\ pay' = [pay EXCEPT ![p].status = st]
        /\ UNCHANGED <<enr, rzp>>
  BY <1>1 DEF MarkFailed, ReconExpire, UpdatePaymentStatus, UpdateInv
<1>3. PICK e \in Enrollments : e = pay[p].owner
  BY <1>1, <1>2, RowFields
<1>4. /\ {p} \in SUBSET Orders /\ {p} \subseteq PaymentsOf(e)
      /\ st \in PaymentStatuses \ ActiveStatuses
      /\ Restatus({p}, st)
  BY <1>1, <1>2, <1>3 DEF TypeOK, PaymentStatuses, ActiveStatuses, PaymentsOf, Restatus
<1>5. /\ SameOwners
      /\ ActiveOrders(e)' = ActiveOrders(e) \ {p}
      /\ \A f \in Enrollments \ {e} : ActiveOrders(f)' = ActiveOrders(f)
  BY <1>4, RestatusWithdraws
<1>6. SameFunded /\ SameCredit
  BY <1>2 DEF SameFunded, SameCredit
<1> QED BY <1>5, <1>6, Withdrawal

LEMMA CaptureFunds ==
  ASSUME IInv, IInv', NEW p \in Orders, Capture(p)
  PROVE  Book!Next
<1>1. TypeOK /\ rzp[p].state = "open" /\ pay[p].status # "none" /\ UNCHANGED <<enr, pay>>
  BY DEF IInv, Capture
<1>2. rzp'[p].state = "paid" /\ \A q \in Orders \ {p} : rzp'[q] = rzp[q]
  BY <1>1 DEF Capture, TypeOK, RazorpayOrder
<1>3. {q \in Orders : rzp[q].state = "paid"}' = {q \in Orders : rzp[q].state = "paid"} \cup {p}
  BY <1>2
<1>4. SameOwners /\ SameCredit /\ \A e \in Enrollments : ActiveOrders(e)' = ActiveOrders(e)
  BY <1>1 DEF SameOwners, SameCredit, ActiveOrders, PaymentsOf
<1>5. pay[p].owner # None
  BY <1>1, RowFields, NoneAssumption
<1>6. Book!Fund(p)
  BY <1>1, <1>3, <1>4, <1>5, OwnersMap, CreditMap, OffersMap DEF Book!Fund
<1> QED BY <1>6 DEF Book!Next

\* Every other step changes neither the payments nor the money shown.
LEMMA OtherStepsStutter ==
  ASSUME IInv, IInv', UNCHANGED pay, SameFunded, SameCredit
  PROVE  UNCHANGED Book!vars
<1>1. SameOwners /\ \A e \in Enrollments : ActiveOrders(e)' = ActiveOrders(e)
  BY DEF SameOwners, ActiveOrders, PaymentsOf
<1> QED BY <1>1, Stutter

LEMMA StepSimulates ==
  ASSUME IInv, IInv', [Next]_vars
  PROVE  Book!Next \/ UNCHANGED Book!vars
<1>1. TypeOK
  BY DEF IInv
<1>2. ASSUME NEW s \in Sessions, WritesPayments(s)
      PROVE  Book!Next \/ UNCHANGED Book!vars
  BY <1>2, CreateOrderIssues, SelectWithdraws, SettleCredits, MarkWithdraws DEF WritesPayments
<1>3. ASSUME NEW s \in Sessions, SessionStep(s), ~WritesPayments(s)
      PROVE  UNCHANGED Book!vars
  <2>1. CASE CreateOrderMint(s)
    <3>1. SameFunded
      BY <1>1, <2>1 DEF CreateOrderMint, SameFunded, TypeOK, RazorpayOrder
    <3> QED BY <2>1, <3>1, OtherStepsStutter DEF CreateOrderMint, SameCredit
  <2>2. CASE ReconStatus(s)
    <3>1. SameCredit
      BY <1>1, <2>2 DEF ReconStatus, SameCredit, TypeOK, Enrollment
    <3> QED BY <2>2, <3>1, OtherStepsStutter DEF ReconStatus, SameFunded
  <2>3. CASE ~CreateOrderMint(s) /\ ~ReconStatus(s)
    <3>1. UNCHANGED <<enr, pay, rzp>>
      BY <1>3, <2>3
      DEF SessionStep, WritesPayments, CreateOrderLock, CreateOrderList, CreateOrderCancel,
          SelectRead, SelectList, SelectLock, LockRow, SettleLock, SettleConflict,
          Enqueue, VerifyValid, VerifyInvalid, WebhookCaptured, WebhookFailed, ReconPick,
          ReconFetch, Fail
    <3> QED BY <3>1, OtherStepsStutter DEF SameFunded, SameCredit
  <2> QED BY <2>1, <2>2, <2>3
<1>4. ASSUME NEW e \in Enrollments, ResumeDraft(e) \/ RestartDraft(e) \/ CleanupDraft(e) \/ AssignEnrollment(e)
      PROVE  UNCHANGED Book!vars
  <2>1. UNCHANGED <<pay, rzp>>
    BY <1>4 DEF ResumeDraft, RestartDraft, CleanupDraft, AssignEnrollment
  <2>2. \A f \in Enrollments : enr'[f].paid = enr[f].paid
    <3>1. CASE ResumeDraft(e)
      BY <1>1, <3>1 DEF ResumeDraft, TypeOK, Enrollment
    <3>2. CASE RestartDraft(e)
      BY <1>1, <3>2 DEF RestartDraft, TypeOK, Enrollment
    <3>3. CASE CleanupDraft(e)
      BY <1>1, <3>3 DEF CleanupDraft, TypeOK, Enrollment
    <3>4. CASE AssignEnrollment(e)
      BY <3>4 DEF AssignEnrollment
    <3> QED BY <1>4, <3>1, <3>2, <3>3, <3>4
  <2> QED BY <2>1, <2>2, OtherStepsStutter DEF SameFunded, SameCredit
<1>5. CASE UNCHANGED vars
  BY <1>5, OtherStepsStutter DEF vars, SameFunded, SameCredit
<1> QED BY <1>2, <1>3, <1>4, <1>5, CaptureFunds DEF Next

LEMMA InitSimulates == Init => Book!Init
<1> SUFFICES ASSUME Init
             PROVE  Book!Init
  OBVIOUS
<1>1. \A e \in Enrollments : ActiveOrders(e) = {}
  BY NoneAssumption DEF Init, ActiveOrders, PaymentsOf, NoRow
<1>2. \A e \in Enrollments : OfferTo(e) = None
  BY <1>1 DEF OfferTo
<1> QED BY <1>2 DEF Init, Book!Init, NoRow

\* Whatever the handlers, jobs, row locks and Razorpay do, a reader of the
\* order book sees orders issued, withdrawn, funded and credited, one at a time.
THEOREM RefinesOrderBook == Spec => ImplementsOrderBook
<1>1. IInv /\ IInv' /\ [Next]_vars => [Book!Next]_(Book!vars)
  BY StepSimulates
<1> QED BY <1>1, InitSimulates, Invariant, PTL DEF Spec, ImplementsOrderBook, Book!Spec
=============================================================================
