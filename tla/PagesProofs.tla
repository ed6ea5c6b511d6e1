---------------------------- MODULE PagesProofs ----------------------------
(***************************************************************************)
(* Proofs about what an admin reads while others write, for any value of   *)
(* the constants: the cached counts, the plan that is shown for a student, *)
(* and the lists and the export that are read in pages and batches.        *)
(***************************************************************************)
EXTENDS CountCacheProperties, PlanWindowsProperties, AdminListsProperties,
        Extrema, SequenceTheorems

-----------------------------------------------------------------------------
(* The count cache: a cached count was right a short while ago *)

\* Every variable that an answer depends on keeps its type.
CountTypeOK ==
  /\ matching \in [Filters -> Counts]
  /\ store \in [Filters -> [value : Counts, expiresAt : Nat]]
  /\ inflight \in [Filters -> [since : Nat, value : Counts, pc : {"none", "count", "store"}]]
  /\ ticks \in Nat
  /\ answered \in [filter : Filters, value : Counts, at : Nat]
  /\ trueAt \in [Filters -> [Counts -> Nat]]

\* What a count is made from: the rows as they are, a load that is not older
\* than a load may be, and an entry that ends one lifetime after such a load.
CountInv ==
  /\ \A f \in Filters : trueAt[f][matching[f]] = ticks
  /\ \A f \in Filters, v \in Counts : trueAt[f][v] <= ticks
  /\ \A f \in Filters : inflight[f].pc # "none" =>
       /\ inflight[f].since <= ticks /\ ticks <= inflight[f].since + MaxLoad
       /\ inflight[f].pc = "store" => trueAt[f][inflight[f].value] >= inflight[f].since
  /\ \A f \in Filters : trueAt[f][store[f].value] + CountTtl + MaxLoad >= store[f].expiresAt
  /\ CountsAreRecent

-----------------------------------------------------------------------------

\* Entries, running loads and the last answer keep their types.
THEOREM CountTypeCorrect == CountSpec => []CountTypeOK
<1> USE CountCacheAssumption
<1>1. CountInit => CountTypeOK
  <2> SUFFICES ASSUME CountInit
               PROVE  CountTypeOK
    OBVIOUS
  <2>1. 0 \in Counts
    BY DEF Counts
  <2>2. ticks \in Nat
    BY DEF CountInit
  <2>3. PICK f \in Filters : f = CHOOSE g \in Filters : TRUE
    OBVIOUS
  <2>4. answered = [filter |-> f, value |-> 0, at |-> ticks]
    BY <2>3 DEF CountInit
  <2>5. trueAt \in [Filters -> [Counts -> Nat]]
    BY <2>2 DEF CountInit
  <2> QED BY <2>1, <2>2, <2>4, <2>5 DEF CountInit, CountTypeOK, NoEntry, NoLoad
<1>2. CountTypeOK /\ [CountNext]_countVars => CountTypeOK'
  <2> SUFFICES ASSUME CountTypeOK, [CountNext]_countVars
               PROVE  CountTypeOK'
    OBVIOUS
  <2> USE DEF CountTypeOK
  <2>0. 0 \in Counts
    BY DEF Counts
  <2>1. ASSUME NEW f \in Filters, WriteRows(f)
        PROVE  CountTypeOK'
    BY <2>1 DEF WriteRows
  <2>2. ASSUME NEW f \in Filters, GetCountHit(f)
        PROVE  CountTypeOK'
    BY <2>2 DEF GetCountHit, Serve
  <2>3. ASSUME NEW f \in Filters, GetCountMiss(f)
        PROVE  CountTypeOK'
    <3>1. [since |-> ticks, value |-> 0, pc |-> "count"]
            \in [since : Nat, value : Counts, pc : {"none", "count", "store"}]
      BY <2>0
    <3> QED BY <2>3, <3>1 DEF GetCountMiss
  <2>4. ASSUME NEW f \in Filters, LoadRead(f)
        PROVE  CountTypeOK'
    <3> DEFINE read == [inflight[f] EXCEPT !.value = matching[f], !.pc = "store"]
    <3>0. inflight[f] \in [since : Nat, value : Counts, pc : {"none", "count", "store"}] /\ matching[f] \in Counts
      OBVIOUS
    <3>1. read \in [since : Nat, value : Counts, pc : {"none", "count", "store"}]
      BY <3>0
    <3>2. inflight' = [inflight EXCEPT ![f] = read]
      BY <2>4 DEF LoadRead
    <3> HIDE DEF read
    <3>3. inflight' \in [Filters -> [since : Nat, value : Counts, pc : {"none", "count", "store"}]]
      BY <3>1, <3>2
    <3> QED BY <2>4, <3>3 DEF LoadRead
  <2>5. ASSUME NEW f \in Filters, LoadDone(f)
        PROVE  CountTypeOK'
    <3>1. PICK kept : store' = [k \in Filters |->
                         IF k \notin ToSet(kept) THEN NoEntry
                         ELSE IF k = f THEN [value |-> inflight[f].value, expiresAt |-> ticks + CountTtl]
                         ELSE store[k]]
      BY <2>5 DEF LoadDone
    <3>2. 0 \in Counts
      BY DEF Counts
    <3>3. store' \in [Filters -> [value : Counts, expiresAt : Nat]]
      BY <3>1, <3>2 DEF NoEntry
    <3> QED BY <2>5, <3>2, <3>3 DEF LoadDone, NoLoad, Serve
  <2>6. ASSUME NEW f \in Filters, LoadFails(f)
        PROVE  CountTypeOK'
    BY <2>0, <2>6 DEF LoadFails, NoLoad
  <2>7. CASE Tick
    <3>1. trueAt' \in [Filters -> [Counts -> Nat]] /\ ticks' \in Nat
      BY <2>7 DEF Tick
    <3> QED BY <2>7, <3>1 DEF Tick
  <2>8. CASE UNCHANGED countVars
    BY <2>8 DEF countVars
  <2> QED BY <2>1, <2>2, <2>3, <2>4, <2>5, <2>6, <2>7, <2>8 DEF CountNext
<1> QED BY <1>1, <1>2, PTL DEF CountSpec

-----------------------------------------------------------------------------

\* What was true at some moment was true at that moment or later.
LEMMA TruthGrows ==
  ASSUME CountTypeOK, CountTypeOK', CountInv, [CountNext]_countVars
  PROVE  /\ ticks' >= ticks
         /\ \A f \in Filters, v \in Counts : trueAt'[f][v] >= trueAt[f][v] /\ trueAt'[f][v] <= ticks'
         /\ \A f \in Filters : trueAt'[f][matching'[f]] = ticks'
<1>0. /\ ticks \in Nat
      /\ \A f \in Filters : matching[f] \in Counts /\ trueAt[f][matching[f]] = ticks
      /\ \A f \in Filters, v \in Counts : trueAt[f][v] \in Nat /\ trueAt[f][v] <= ticks
  BY DEF CountTypeOK, CountInv
<1>1. CASE UNCHANGED <<matching, ticks, trueAt>>
  BY <1>0, <1>1
<1>2. ASSUME NEW f \in Filters, WriteRows(f)
      PROVE  /\ ticks' >= ticks
             /\ \A g \in Filters, v \in Counts : trueAt'[g][v] >= trueAt[g][v] /\ trueAt'[g][v] <= ticks'
             /\ \A g \in Filters : trueAt'[g][matching'[g]] = ticks'
  <2>1. PICK w \in Counts : /\ matching' = [matching EXCEPT ![f] = w]
                            /\ trueAt' = [trueAt EXCEPT ![f][w] = ticks]
                            /\ ticks' = ticks
    BY <1>2 DEF WriteRows
  <2>2. \A g \in Filters, v \in Counts :
          trueAt'[g][v] = IF g = f /\ v = w THEN ticks ELSE trueAt[g][v]
    BY <2>1 DEF CountTypeOK
  <2>3. \A g \in Filters : matching'[g] = IF g = f THEN w ELSE matching[g]
    BY <2>1 DEF CountTypeOK
  <2> QED BY <1>0, <2>1, <2>2, <2>3
<1>3. CASE Tick
  <2>1. ticks' = ticks + 1 /\ matching' = matching
    BY <1>3 DEF Tick
  <2>2. \A f \in Filters, v \in Counts :
          trueAt'[f][v] = IF v = matching[f] THEN ticks + 1 ELSE trueAt[f][v]
    BY <1>3 DEF Tick, CountTypeOK
  <2> QED BY <1>0, <2>1, <2>2
<1> QED BY <1>1, <1>2, <1>3
        DEF CountNext, GetCountHit, GetCountMiss, LoadRead, LoadDone, LoadFails, Serve, countVars

\* The running loads stay young and correct.
LEMMA LoadStep ==
  ASSUME CountTypeOK, CountTypeOK', CountInv, [CountNext]_countVars,
         NEW f \in Filters, inflight'[f].pc # "none"
  PROVE  /\ inflight'[f].since <= ticks' /\ ticks' <= inflight'[f].since + MaxLoad
         /\ inflight'[f].pc = "store" => trueAt'[f][inflight'[f].value] >= inflight'[f].since
<1> USE CountCacheAssumption
<1>0. ticks \in Nat /\ ticks' \in Nat /\ ticks' >= ticks
  BY TruthGrows DEF CountTypeOK
<1>1. CASE inflight'[f] = inflight[f]
  <2> DEFINE n == inflight[f].since
             v == inflight[f].value
             pc == inflight[f].pc
  <2>1. n \in Nat /\ v \in Counts
    BY DEF CountTypeOK
  <2>2. /\ n <= ticks /\ ticks <= n + MaxLoad
        /\ pc = "store" => trueAt[f][v] >= n
    BY <1>1 DEF CountInv
  <2>3. ticks' <= n + MaxLoad
    <3>1. CASE Tick
      <4>1. inflight[f] # NoLoad
        BY <1>1 DEF NoLoad
      <4> QED BY <2>1, <3>1, <4>1, <1>0 DEF Tick
    <3>2. CASE ticks' = ticks
      BY <2>2, <3>2
    <3> QED BY <2>2, <3>1, <3>2
            DEF CountNext, WriteRows, GetCountHit, GetCountMiss, LoadRead, LoadDone, LoadFails, countVars
  <2>4. trueAt[f][v] \in Nat /\ trueAt'[f][v] \in Nat /\ trueAt'[f][v] >= trueAt[f][v]
    BY <2>1, TruthGrows DEF CountTypeOK
  <2> HIDE DEF n, v, pc
  <2>5. /\ n <= ticks' /\ ticks' <= n + MaxLoad
        /\ pc = "store" => trueAt'[f][v] >= n
    BY <1>0, <2>1, <2>2, <2>3, <2>4
  <2> QED BY <1>1, <2>5 DEF n, v, pc
<1>2. CASE GetCountMiss(f)
  <2>1. inflight'[f] = [since |-> ticks, value |-> 0, pc |-> "count"] /\ ticks' = ticks
    BY <1>2 DEF GetCountMiss, CountTypeOK
  <2> QED BY <1>0, <2>1
<1>3. CASE LoadRead(f)
  <2>1. inflight[f].pc = "count" /\ UNCHANGED <<ticks, trueAt>>
    BY <1>3 DEF LoadRead
  <2>2. inflight'[f].since = inflight[f].since /\ inflight'[f].value = matching[f]
    BY <1>3 DEF LoadRead, CountTypeOK
  <2>3. /\ inflight[f].since <= ticks /\ ticks <= inflight[f].since + MaxLoad
        /\ trueAt[f][matching[f]] = ticks
    BY <2>1 DEF CountInv
  <2> QED BY <2>1, <2>2, <2>3
<1>4. inflight'[f] = inflight[f] \/ GetCountMiss(f) \/ LoadRead(f)
  <2>1. ASSUME NEW g \in Filters, GetCountMiss(g) \/ LoadRead(g)
        PROVE  inflight'[f] = inflight[f] \/ g = f
    BY <2>1 DEF GetCountMiss, LoadRead, CountTypeOK
  <2>2. ASSUME NEW g \in Filters, LoadDone(g) \/ LoadFails(g)
        PROVE  inflight'[f] = inflight[f]
    <3>1. inflight' = [inflight EXCEPT ![g] = NoLoad]
      BY <2>2 DEF LoadDone, LoadFails
    <3> QED BY <3>1 DEF NoLoad, CountTypeOK
  <2> QED BY <2>1, <2>2 DEF CountNext, WriteRows, GetCountHit, Tick, countVars
<1> QED BY <1>1, <1>2, <1>3, <1>4

\* An entry keeps its end, or is new and ends one lifetime from now.
LEMMA EntryStep ==
  ASSUME CountTypeOK, CountTypeOK', CountInv, [CountNext]_countVars, NEW f \in Filters
  PROVE  trueAt'[f][store'[f].value] + CountTtl + MaxLoad >= store'[f].expiresAt
<1> USE CountCacheAssumption
<1>1. CASE store'[f] = store[f]
  <2>1. store[f].value \in Counts /\ store[f].expiresAt \in Nat
    BY DEF CountTypeOK
  <2>2. trueAt[f][store[f].value] + CountTtl + MaxLoad >= store[f].expiresAt
    BY DEF CountInv
  <2>3. /\ trueAt[f][store[f].value] \in Nat /\ trueAt'[f][store[f].value] \in Nat
        /\ trueAt'[f][store[f].value] >= trueAt[f][store[f].value]
    BY <2>1, TruthGrows DEF CountTypeOK
  <2> QED BY <1>1, <2>1, <2>2, <2>3
<1>2. CASE store'[f] = NoEntry
  <2>1. 0 \in Counts
    BY DEF Counts
  <2>2. trueAt'[f][0] \in Nat
    BY <2>1 DEF CountTypeOK
  <2> QED BY <1>2, <2>2 DEF NoEntry
<1>3. ASSUME LoadDone(f), store'[f] = [value |-> inflight[f].value, expiresAt |-> ticks + CountTtl]
      PROVE  trueAt'[f][store'[f].value] + CountTtl + MaxLoad >= store'[f].expiresAt
  <2>1. inflight[f].pc = "store" /\ UNCHANGED trueAt
    BY <1>3 DEF LoadDone
  <2>2. /\ ticks <= inflight[f].since + MaxLoad
        /\ trueAt[f][inflight[f].value] >= inflight[f].since
    BY <2>1 DEF CountInv
  <2>3. ticks \in Nat /\ inflight[f].since \in Nat /\ trueAt[f][inflight[f].value] \in Nat
    BY DEF CountTypeOK
  <2> QED BY <1>3, <2>1, <2>2, <2>3
<1>4. ASSUME NEW g \in Filters, LoadDone(g)
      PROVE  \/ store'[f] \in {store[f], NoEntry}
             \/ g = f /\ store'[f] = [value |-> inflight[f].value, expiresAt |-> ticks + CountTtl]
  <2>1. PICK kept : store' = [k \in Filters |->
                       IF k \notin ToSet(kept) THEN NoEntry
                       ELSE IF k = g THEN [value |-> inflight[g].value, expiresAt |-> ticks + CountTtl]
                       ELSE store[k]]
    BY <1>4 DEF LoadDone
  <2> QED BY <2>1
<1>5. CASE UNCHANGED store
  BY <1>1, <1>5
<1> QED BY <1>1, <1>2, <1>3, <1>4, <1>5
        DEF CountNext, WriteRows, GetCountHit, GetCountMiss, LoadRead, LoadFails, Tick, countVars

LEMMA AnswerStep ==
  ASSUME CountTypeOK, CountTypeOK', CountInv, [CountNext]_countVars
  PROVE  CountsAreRecent'
<1> USE CountCacheAssumption
<1>1. CASE UNCHANGED answered
  <2> DEFINE f == answered.filter
             v == answered.value
             n == answered.at
  <2>1. f \in Filters /\ v \in Counts /\ n \in Nat
    BY DEF CountTypeOK
  <2>2. trueAt[f][v] + CountTtl + MaxLoad >= n
    BY DEF CountInv, CountsAreRecent
  <2>3. trueAt[f][v] \in Nat /\ trueAt'[f][v] \in Nat /\ trueAt'[f][v] >= trueAt[f][v]
    BY <2>1, TruthGrows DEF CountTypeOK
  <2> HIDE DEF f, v, n
  <2>4. trueAt'[f][v] + CountTtl + MaxLoad >= n
    BY <2>1, <2>2, <2>3
  <2> QED BY <1>1, <2>4 DEF f, v, n, CountsAreRecent
<1>2. ASSUME NEW f \in Filters, GetCountHit(f)
      PROVE  CountsAreRecent'
  <2>1. /\ answered' = [filter |-> f, value |-> store[f].value, at |-> ticks]
        /\ trueAt' = trueAt /\ store[f].expiresAt > ticks
    BY <1>2 DEF GetCountHit, Serve
  <2>2. trueAt[f][store[f].value] + CountTtl + MaxLoad >= store[f].expiresAt
    BY DEF CountInv
  <2>3. trueAt[f][store[f].value] \in Nat /\ store[f].expiresAt \in Nat /\ ticks \in Nat
    BY DEF CountTypeOK
  <2> QED BY <2>1, <2>2, <2>3 DEF CountsAreRecent
<1>3. ASSUME NEW f \in Filters, LoadDone(f)
      PROVE  CountsAreRecent'
  <2>1. /\ answered' = [filter |-> f, value |-> inflight[f].value, at |-> ticks]
        /\ trueAt' = trueAt /\ inflight[f].pc = "store"
    BY <1>3 DEF LoadDone, Serve
  <2>2. /\ ticks <= inflight[f].since + MaxLoad
        /\ trueAt[f][inflight[f].value] >= inflight[f].since
    BY <2>1 DEF CountInv
  <2>3. ticks \in Nat /\ inflight[f].since \in Nat /\ trueAt[f][inflight[f].value] \in Nat
    BY DEF CountTypeOK
  <2> QED BY <2>1, <2>2, <2>3 DEF CountsAreRecent
<1> QED BY <1>1, <1>2, <1>3
        DEF CountNext, WriteRows, GetCountMiss, LoadRead, LoadFails, Tick, countVars

\* Every entry of countCache.js expires no later than one lifetime after a count
\* that was right when its load began.
THEOREM CountInvariant == CountSpec => []CountInv
<1>1. CountInit /\ CountTypeOK => CountInv
  <2> SUFFICES ASSUME CountInit, CountTypeOK
               PROVE  CountInv
    OBVIOUS
  <2> USE CountCacheAssumption
  <2>1. 0 \in Counts /\ ticks \in Nat
    BY DEF Counts, CountTypeOK
  <2>2. \A f \in Filters, v \in Counts : trueAt[f][v] = IF v = 0 THEN ticks ELSE 0
    BY DEF CountInit
  <2>3. \A f \in Filters : /\ matching[f] = 0 /\ inflight[f].pc = "none"
                           /\ store[f].value = 0 /\ store[f].expiresAt = 0
    BY DEF CountInit, NoLoad, NoEntry
  <2>4. CountsAreRecent
    <3>1. answered.filter \in Filters /\ answered.value = 0 /\ answered.at = ticks
      BY DEF CountInit, CountTypeOK
    <3> QED BY <2>1, <2>2, <3>1 DEF CountsAreRecent
  <2> QED BY <2>1, <2>2, <2>3, <2>4 DEF CountInv
<1>2. CountTypeOK /\ CountTypeOK' /\ CountInv /\ [CountNext]_countVars => CountInv'
  BY TruthGrows, LoadStep, EntryStep, AnswerStep DEF CountInv
<1> QED BY <1>1, <1>2, CountTypeCorrect, PTL DEF CountSpec

\* A cached count was right less than one lifetime and one load ago, however
\* many keys there are, whoever evicts them and however long loads are joined.
THEOREM CountsAreRecentHolds == CountSpec => []CountsAreRecent
<1>1. CountInv => CountsAreRecent
  BY DEF CountInv
<1> QED BY <1>1, CountInvariant, PTL

-----------------------------------------------------------------------------
(* Plan windows: what moves the shown plan of a student *)

WindowRow == [st : Unsettled \cup {"paid"}, plan : Plans \cup {NoPlan}, updatedOn : Nat]
WindowPayment ==
  [row : Nat \ {0}, st : {"initiated", "success", "failed"}, openedOn : Nat, paidOn : Nat]

\* Every variable keeps its type, and a payment is that of an enrollment.
WindowsTypeOK ==
  /\ today \in Nat
  /\ bought \in Seq(WindowRow)
  /\ payments \in Seq(WindowPayment)
  /\ term \in [Plans -> Terms \cup {NoTerm, NoPlan}]
  /\ \A p \in 1 .. Len(payments) : payments[p].row <= Len(bought)

LEMMA RowAppended ==
  ASSUME WindowsTypeOK, NEW r \in WindowRow, bought' = Append(bought, r)
  PROVE  /\ bought' \in Seq(WindowRow) /\ Len(bought') = Len(bought) + 1
         /\ bought'[Len(bought) + 1] = r
         /\ \A i \in 1 .. Len(bought) : bought'[i] = bought[i]
BY DEF WindowsTypeOK

LEMMA PaymentAppended ==
  ASSUME WindowsTypeOK, NEW r \in WindowPayment, payments' = Append(payments, r)
  PROVE  /\ payments' \in Seq(WindowPayment) /\ Len(payments') = Len(payments) + 1
         /\ payments'[Len(payments) + 1] = r
         /\ \A p \in 1 .. Len(payments) : payments'[p] = payments[p]
BY DEF WindowsTypeOK

LEMMA RowReplaced ==
  ASSUME WindowsTypeOK, NEW i \in 1 .. Len(bought), NEW r \in WindowRow,
         bought' = [bought EXCEPT ![i] = r]
  PROVE  /\ bought' \in Seq(WindowRow) /\ Len(bought') = Len(bought) /\ bought'[i] = r
         /\ \A j \in 1 .. Len(bought) : j # i => bought'[j] = bought[j]
BY DEF WindowsTypeOK

LEMMA PaymentReplaced ==
  ASSUME WindowsTypeOK, NEW p \in 1 .. Len(payments), NEW r \in WindowPayment,
         payments' = [payments EXCEPT ![p] = r]
  PROVE  /\ payments' \in Seq(WindowPayment) /\ Len(payments') = Len(payments) /\ payments'[p] = r
         /\ \A q \in 1 .. Len(payments) : q # p => payments'[q] = payments[q]
BY DEF WindowsTypeOK

LEMMA WindowElements ==
  ASSUME WindowsTypeOK
  PROVE  /\ Len(bought) \in Nat /\ Len(payments) \in Nat
         /\ \A i \in 1 .. Len(bought) : bought[i] \in WindowRow
         /\ \A p \in 1 .. Len(payments) : payments[p] \in WindowPayment /\ payments[p].row \in 1 .. Len(bought)
<1>1. Len(bought) \in Nat /\ Len(payments) \in Nat
  BY DEF WindowsTypeOK
<1>2. \A i \in 1 .. Len(bought) : bought[i] \in WindowRow
  BY DEF WindowsTypeOK
<1>3. \A p \in 1 .. Len(payments) : payments[p] \in WindowPayment
  BY DEF WindowsTypeOK
<1>4. ASSUME NEW p \in 1 .. Len(payments)
      PROVE  payments[p].row \in 1 .. Len(bought)
  <2>1. payments[p].row \in Nat \ {0}
    BY <1>3 DEF WindowPayment
  <2>2. payments[p].row <= Len(bought)
    BY DEF WindowsTypeOK
  <2> QED BY <1>1, <2>1, <2>2
<1> QED BY <1>1, <1>2, <1>3, <1>4

LEMMA SubmitType ==
  ASSUME WindowsTypeOK, NEW plan \in Plans, Submit(plan)
  PROVE  WindowsTypeOK'
<1> DEFINE r == NewRow(plan, "submitted")
<1>1. r \in WindowRow
  BY DEF NewRow, WindowRow, Unsettled, WindowsTypeOK
<1>2. bought' = Append(bought, r) /\ UNCHANGED <<today, payments, term>>
  BY DEF Submit
<1> HIDE DEF r
<1>3. bought' \in Seq(WindowRow) /\ Len(bought') = Len(bought) + 1
  BY <1>1, <1>2, RowAppended
<1> QED BY <1>2, <1>3, WindowElements DEF WindowsTypeOK

LEMMA BuyInternalType ==
  ASSUME WindowsTypeOK, NEW plan \in Plans, NEW free \in BOOLEAN, BuyInternal(plan, free)
  PROVE  WindowsTypeOK' /\ Running' # Running
<1> DEFINE r == NewRow(plan, "paid")
           m == [row |-> Len(bought'), st |-> "success", openedOn |-> today, paidOn |-> today]
<1>1. r \in WindowRow /\ r.st = "paid"
  BY DEF NewRow, WindowRow, Unsettled, WindowsTypeOK
<1>2. bought' = Append(bought, r) /\ payments' \in {payments, Append(payments, m)} /\ UNCHANGED <<today, term>>
  BY DEF BuyInternal
<1> HIDE DEF r
<1>3. /\ bought' \in Seq(WindowRow) /\ Len(bought') = Len(bought) + 1
      /\ bought'[Len(bought) + 1] = r
  BY <1>1, <1>2, RowAppended
<1>4. m \in WindowPayment /\ m.row = Len(bought) + 1
  BY <1>3, WindowElements DEF WindowPayment, WindowsTypeOK
<1> HIDE DEF m
<1>5. WindowsTypeOK'
  <2>1. CASE payments' = payments
    BY <1>2, <1>3, <2>1, WindowElements DEF WindowsTypeOK
  <2>2. CASE payments' = Append(payments, m)
    <3>1. /\ payments' \in Seq(WindowPayment) /\ Len(payments') = Len(payments) + 1
          /\ payments'[Len(payments) + 1] = m
          /\ \A p \in 1 .. Len(payments) : payments'[p] = payments[p]
      BY <1>4, <2>2, PaymentAppended
    <3>2. ASSUME NEW p \in 1 .. Len(payments')
          PROVE  payments'[p].row <= Len(bought')
      <4>1. CASE p = Len(payments) + 1
        BY <1>3, <1>4, <3>1, <4>1, WindowElements
      <4>2. CASE p # Len(payments) + 1
        <5>1. p \in 1 .. Len(payments)
          BY <3>1, <4>2, WindowElements
        <5>2. payments'[p] = payments[p] /\ payments[p].row \in 1 .. Len(bought)
          BY <3>1, <5>1, WindowElements
        <5> QED BY <1>3, <5>2, WindowElements
      <4> QED BY <4>1, <4>2
    <3> QED BY <1>2, <1>3, <3>1, <3>2 DEF WindowsTypeOK
  <2> QED BY <1>2, <2>1, <2>2
<1>6. Len(bought) + 1 \in Running'
  BY <1>1, <1>3, WindowElements DEF Running, ActivePlanStatuses
<1>7. Len(bought) + 1 \notin Running
  BY WindowElements DEF Running
<1> QED BY <1>5, <1>6, <1>7

LEMMA SelectType ==
  ASSUME WindowsTypeOK, NEW i \in 1 .. Len(bought), NEW plan \in Plans, Select(i, plan)
  PROVE  WindowsTypeOK' /\ i \notin Running'
<1> DEFINE r == [st |-> "payment_pending", plan |-> plan, updatedOn |-> today]
<1>1. r \in WindowRow /\ r.st = "payment_pending"
  BY DEF WindowRow, Unsettled, WindowsTypeOK
<1>2. bought' = [bought EXCEPT ![i] = r] /\ UNCHANGED <<today, payments, term>>
  BY DEF Select
<1> HIDE DEF r
<1>3. bought' \in Seq(WindowRow) /\ Len(bought') = Len(bought) /\ bought'[i] = r
  BY <1>1, <1>2, RowReplaced
<1>4. WindowsTypeOK'
  BY <1>2, <1>3 DEF WindowsTypeOK
<1>5. i \notin Running'
  BY <1>1, <1>3 DEF Running, ActivePlanStatuses
<1> QED BY <1>4, <1>5

LEMMA OpenOrderType ==
  ASSUME WindowsTypeOK, NEW i \in 1 .. Len(bought), OpenOrderFor(i)
  PROVE  WindowsTypeOK'
<1> DEFINE r == [bought[i] EXCEPT !.st = "payment_pending", !.updatedOn = today]
           m == [row |-> i, st |-> "initiated", openedOn |-> today, paidOn |-> today]
<1>1. r \in WindowRow
  BY WindowElements DEF WindowRow, Unsettled, WindowsTypeOK
<1>2. m \in WindowPayment /\ m.row = i
  BY DEF WindowPayment, WindowsTypeOK
<1>3. bought' = [bought EXCEPT ![i] = r] /\ payments' = Append(payments, m) /\ UNCHANGED <<today, term>>
  BY DEF OpenOrderFor
<1> HIDE DEF r, m
<1>4. bought' \in Seq(WindowRow) /\ Len(bought') = Len(bought)
  BY <1>1, <1>3, RowReplaced
<1>5. /\ payments' \in Seq(WindowPayment) /\ Len(payments') = Len(payments) + 1
      /\ payments'[Len(payments) + 1] = m
      /\ \A p \in 1 .. Len(payments) : payments'[p] = payments[p]
  BY <1>2, <1>3, PaymentAppended
<1>6. ASSUME NEW p \in 1 .. Len(payments')
      PROVE  payments'[p].row <= Len(bought')
  <2>1. CASE p = Len(payments) + 1
    BY <1>2, <1>4, <1>5, <2>1
  <2>2. CASE p # Len(payments) + 1
    <3>1. p \in 1 .. Len(payments)
      BY <1>5, <2>2, WindowElements
    <3> QED BY <1>4, <1>5, <3>1, WindowElements
  <2> QED BY <2>1, <2>2
<1> QED BY <1>3, <1>4, <1>5, <1>6 DEF WindowsTypeOK

LEMMA PaymentsKeepRow ==
  ASSUME WindowsTypeOK, NEW p \in 1 .. Len(payments), NEW r \in WindowPayment,
         payments' = [payments EXCEPT ![p] = r], r.row = payments[p].row,
         bought' \in Seq(WindowRow), Len(bought') = Len(bought), UNCHANGED <<today, term>>
  PROVE  WindowsTypeOK'
<1>1. /\ payments' \in Seq(WindowPayment) /\ Len(payments') = Len(payments) /\ payments'[p] = r
      /\ \A q \in 1 .. Len(payments) : q # p => payments'[q] = payments[q]
  BY PaymentReplaced
<1>2. \A q \in 1 .. Len(payments) : payments'[q].row = payments[q].row
  BY <1>1
<1> QED BY <1>1, <1>2 DEF WindowsTypeOK

LEMMA SettlePaymentType ==
  ASSUME WindowsTypeOK, NEW p \in 1 .. Len(payments), SettlePayment(p)
  PROVE  WindowsTypeOK' /\ payments'[p].st # payments[p].st
<1> DEFINE i == payments[p].row
           m == [payments[p] EXCEPT !.st = "success", !.paidOn = today]
           r == [bought[i] EXCEPT !.st = "paid", !.updatedOn = today]
<1>1. i \in 1 .. Len(bought) /\ payments[p] \in WindowPayment
  BY WindowElements
<1>2. m \in WindowPayment /\ m.row = payments[p].row /\ m.st = "success"
  BY <1>1 DEF WindowPayment, WindowsTypeOK
<1>3. r \in WindowRow
  BY <1>1, WindowElements DEF WindowRow, Unsettled, WindowsTypeOK
<1>4. /\ payments' = [payments EXCEPT ![p] = m] /\ bought' = [bought EXCEPT ![i] = r]
      /\ payments[p].st # "success" /\ UNCHANGED <<today, term>>
  BY DEF SettlePayment
<1> HIDE DEF m, r, i
<1>5. bought' \in Seq(WindowRow) /\ Len(bought') = Len(bought)
  BY <1>1, <1>3, <1>4, RowReplaced
<1>6. WindowsTypeOK'
  BY <1>2, <1>4, <1>5, PaymentsKeepRow
<1>7. payments'[p] = m
  BY <1>2, <1>4, PaymentReplaced
<1> QED BY <1>2, <1>4, <1>6, <1>7

LEMMA FailLateType ==
  ASSUME WindowsTypeOK, NEW p \in 1 .. Len(payments), FailLate(p)
  PROVE  WindowsTypeOK' /\ payments'[p].st # payments[p].st
<1> DEFINE m == [payments[p] EXCEPT !.st = "failed"]
<1>1. m \in WindowPayment /\ m.row = payments[p].row /\ m.st = "failed"
  BY WindowElements DEF WindowPayment
<1>2. /\ payments' = [payments EXCEPT ![p] = m] /\ payments[p].st # "failed"
      /\ UNCHANGED <<today, bought, term>>
  BY DEF FailLate
<1> HIDE DEF m
<1>3. WindowsTypeOK'
  BY <1>1, <1>2, PaymentsKeepRow DEF WindowsTypeOK
<1>4. payments'[p] = m
  BY <1>1, <1>2, PaymentReplaced
<1> QED BY <1>1, <1>2, <1>3, <1>4

LEMMA TouchRowType ==
  ASSUME WindowsTypeOK, NEW i \in 1 .. Len(bought), TouchRow(i)
  PROVE  /\ WindowsTypeOK' /\ Len(bought') = Len(bought) /\ UNCHANGED <<payments, term>>
         /\ \A j \in 1 .. Len(bought) : bought'[j].st = bought[j].st /\ bought'[j].plan = bought[j].plan
<1> DEFINE r == [bought[i] EXCEPT !.updatedOn = today]
<1>1. r \in WindowRow /\ r.st = bought[i].st /\ r.plan = bought[i].plan
  BY WindowElements DEF WindowRow, WindowsTypeOK
<1>2. bought' = [bought EXCEPT ![i] = r] /\ UNCHANGED <<today, payments, term>>
  BY DEF TouchRow
<1> HIDE DEF r
<1>3. /\ bought' \in Seq(WindowRow) /\ Len(bought') = Len(bought) /\ bought'[i] = r
      /\ \A j \in 1 .. Len(bought) : j # i => bought'[j] = bought[j]
  BY <1>1, <1>2, RowReplaced
<1>4. WindowsTypeOK'
  BY <1>2, <1>3 DEF WindowsTypeOK
<1> QED BY <1>1, <1>2, <1>3, <1>4

LEMMA DeletePlanType ==
  ASSUME WindowsTypeOK, NEW plan \in Plans, DeletePlan(plan)
  PROVE  WindowsTypeOK' /\ term' # term
<1>1. /\ term' = [term EXCEPT ![plan] = NoPlan] /\ term[plan] # NoPlan
      /\ bought' = [i \in 1 .. Len(bought) |->
           IF bought[i].plan = plan THEN [bought[i] EXCEPT !.plan = NoPlan] ELSE bought[i]]
      /\ UNCHANGED <<today, payments>>
  BY DEF DeletePlan, Known
<1>2. term' \in [Plans -> Terms \cup {NoTerm, NoPlan}] /\ term'[plan] = NoPlan
  BY <1>1 DEF WindowsTypeOK
<1>3. \A i \in 1 .. Len(bought) :
        (IF bought[i].plan = plan THEN [bought[i] EXCEPT !.plan = NoPlan] ELSE bought[i]) \in WindowRow
  BY WindowElements DEF WindowRow
<1>4. bought' \in [1 .. Len(bought) -> WindowRow]
  BY <1>1, <1>3
<1>5. bought' \in Seq(WindowRow) /\ Len(bought') = Len(bought)
  BY <1>4, WindowElements
<1>6. WindowsTypeOK'
  BY <1>1, <1>2, <1>5 DEF WindowsTypeOK
<1> QED BY <1>1, <1>2, <1>6

\* Types of the enrollments, the payments and the plans of a student.
THEOREM WindowsTypeCorrect == WindowsSpec => []WindowsTypeOK
<1>1. WindowsInit => WindowsTypeOK
  <2> SUFFICES ASSUME WindowsInit
               PROVE  WindowsTypeOK
    OBVIOUS
  <2>1. bought = << >> /\ payments = << >> /\ today = 0 /\ term \in [Plans -> Terms]
    BY DEF WindowsInit
  <2>2. bought \in Seq(WindowRow) /\ payments \in Seq(WindowPayment)
    BY <2>1
  <2>3. Len(payments) = 0
    BY <2>1
  <2>4. \A p \in 1 .. Len(payments) : payments[p].row <= Len(bought)
    BY <2>3
  <2> QED BY <2>1, <2>2, <2>4 DEF WindowsTypeOK
<1>2. ASSUME WindowsTypeOK, WindowsNext
      PROVE  WindowsTypeOK'
  <2>1. ASSUME NEW plan \in Plans, NEW t \in Terms \cup {NoTerm}, EditPlan(plan, t)
        PROVE  WindowsTypeOK'
    BY <1>2, <2>1 DEF EditPlan, WindowsTypeOK
  <2>2. CASE NextDay
    BY <1>2, <2>2 DEF NextDay, WindowsTypeOK
  <2> QED BY <1>2, <2>1, <2>2, SubmitType, BuyInternalType, SelectType, OpenOrderType,
             SettlePaymentType, FailLateType, TouchRowType, DeletePlanType DEF WindowsNext
<1>3. WindowsTypeOK /\ UNCHANGED windowVars => WindowsTypeOK'
  BY DEF windowVars, WindowsTypeOK
<1> QED BY <1>1, <1>2, <1>3, PTL DEF WindowsSpec

LEMMA NewestRuns ==
  ASSUME WindowsTypeOK, Running # {}
  PROVE  Max(Running) \in Running
<1>1. Running \in SUBSET (0 .. Len(bought)) /\ Len(bought) \in Nat
  BY WindowElements DEF Running
<1>2. PICK m \in Running : \A i \in Running : i <= m
  BY <1>1, GreatestUpTo
<1>3. \A i \in Running : m >= i
  BY <1>1, <1>2
<1> QED BY <1>2, <1>3, Zenon DEF Max

\* The window reads the status and the plan of its enrollment, the opening days
\* of its successes, if it has any, and the plan's duration.
LEMMA WindowReads ==
  ASSUME NEW i, Successes(i) # {}, Successes(i)' = Successes(i),
         \A p \in Successes(i) : payments'[p].openedOn = payments[p].openedOn,
         bought'[i].st = bought[i].st, bought'[i].plan = bought[i].plan, term' = term
  PROVE  computePlanWindow(i)' = computePlanWindow(i)
<1>1. {payments[p].openedOn : p \in Successes(i)}' = {payments[p].openedOn : p \in Successes(i)}
  OBVIOUS
<1>2. StartOf(i)' = StartOf(i)
  BY <1>1 DEF StartOf
<1>3. DurationOf(bought[i].plan)' = DurationOf(bought[i].plan)
  BY DEF DurationOf
<1> QED BY <1>2, <1>3 DEF computePlanWindow

\* The start and the end shown for the plan of a student stand until a payment
\* succeeds or fails, the set of paid enrollments changes, or a plan does:
\* computePlanWindow reads no day, sync, assignment or open order.
THEOREM ShownPlanIsStableHolds == WindowsSpec => ShownPlanIsStable
<1> DEFINE Same == /\ CurrentPlan # NoWindow /\ Successes(CurrentPlan.row) # {}
                   /\ [p \in 1 .. Len(payments) |-> payments'[p].st] = [p \in 1 .. Len(payments) |-> payments[p].st]
                   /\ Running' = Running
                   /\ [i \in 1 .. Len(bought) |-> bought'[i].plan] = [i \in 1 .. Len(bought) |-> bought[i].plan]
                   /\ term' = term
           Unmoved == CurrentPlan' = CurrentPlan /\ ActivePlan' = CurrentPlan
<1>1. ASSUME WindowsTypeOK, Same, WindowsNext
      PROVE  Unmoved
  <2>1. Running # {} /\ CurrentPlan = computePlanWindow(Max(Running))
    BY <1>1 DEF CurrentPlan
  <2> PICK m \in Running : m = Max(Running)
    BY <1>1, <2>1, NewestRuns
  <2>2. m \in 1 .. Len(bought) /\ CurrentPlan = computePlanWindow(m) /\ computePlanWindow(m) # NoWindow
    BY <1>1, <2>1 DEF Running
  <2>3. computePlanWindow(m).row = m
    BY <2>2 DEF computePlanWindow
  <2>4. Successes(m) # {} /\ Running' = Running /\ term' = term
    BY <1>1, <2>2, <2>3
  <2>5. \A p \in 1 .. Len(payments) : payments'[p].st = payments[p].st
    BY <1>1
  <2> DEFINE Kept == /\ bought'[m].st = bought[m].st /\ bought'[m].plan = bought[m].plan
                     /\ Successes(m)' = Successes(m)
                     /\ \A p \in Successes(m) : payments'[p].openedOn = payments[p].openedOn
  <2>6. ASSUME Kept
        PROVE  Unmoved
    <3>1. computePlanWindow(m)' = computePlanWindow(m)
      BY <2>4, <2>6, WindowReads
    <3>2. Max(Running)' = m
      BY <2>4
    <3>3. CurrentPlan' = computePlanWindow(m) /\ ActivePlan' = [computePlanWindow(m) EXCEPT !.row = m]
      BY <2>1, <2>4, <3>1, <3>2 DEF CurrentPlan, ActivePlan
    <3>4. [computePlanWindow(m) EXCEPT !.row = m] = computePlanWindow(m)
      BY <2>3 DEF computePlanWindow, NoWindow
    <3> QED BY <2>2, <3>3, <3>4
  <2> HIDE DEF Same, Unmoved
  <2>7. ASSUME payments' = payments, bought'[m].st = bought[m].st, bought'[m].plan = bought[m].plan
        PROVE  Unmoved
    <3>1. Successes(m)' = Successes(m)
      BY <2>7 DEF Successes
    <3> QED BY <2>6, <2>7, <3>1
  <2>8. ASSUME NEW plan \in Plans, Submit(plan)
        PROVE  Unmoved
    <3>1. NewRow(plan, "submitted") \in WindowRow
      BY <1>1 DEF NewRow, WindowRow, Unsettled, WindowsTypeOK
    <3>2. bought'[m] = bought[m] /\ payments' = payments
      BY <1>1, <2>2, <2>8, <3>1, RowAppended DEF Submit
    <3> QED BY <2>7, <3>2
  <2>9. ASSUME NEW i \in 1 .. Len(bought), NEW plan \in Plans, Select(i, plan)
        PROVE  Unmoved
    <3>1. i # m
      BY <1>1, <2>2, <2>4, <2>9, SelectType
    <3>2. [st |-> "payment_pending", plan |-> plan, updatedOn |-> today] \in WindowRow
      BY <1>1 DEF WindowRow, Unsettled, WindowsTypeOK
    <3>3. bought'[m] = bought[m] /\ payments' = payments
      BY <1>1, <2>2, <2>9, <3>1, <3>2, RowReplaced DEF Select
    <3> QED BY <2>7, <3>3
  <2>10. ASSUME NEW i \in 1 .. Len(bought), OpenOrderFor(i)
         PROVE  Unmoved
    <3> DEFINE r == [bought[i] EXCEPT !.st = "payment_pending", !.updatedOn = today]
               o == [row |-> i, st |-> "initiated", openedOn |-> today, paidOn |-> today]
    <3>1. r \in WindowRow
      BY <1>1, WindowElements DEF WindowRow, Unsettled, WindowsTypeOK
    <3>2. o \in WindowPayment /\ o.st = "initiated"
      BY <1>1 DEF WindowPayment, WindowsTypeOK
    <3>3. /\ bought' = [bought EXCEPT ![i] = r] /\ payments' = Append(payments, o)
          /\ bought[i].st \in Unsettled
      BY <2>10 DEF OpenOrderFor
    <3> HIDE DEF r, o
    <3>4. i # m
      BY <2>2, <3>3 DEF Running, ActivePlanStatuses, Unsettled
    <3>5. bought'[m] = bought[m]
      BY <1>1, <2>2, <3>1, <3>3, <3>4, RowReplaced
    <3>6. /\ Len(payments') = Len(payments) + 1 /\ payments'[Len(payments) + 1] = o
          /\ \A p \in 1 .. Len(payments) : payments'[p] = payments[p]
      BY <1>1, <3>2, <3>3, PaymentAppended
    <3>7. Successes(m)' = Successes(m)
      <4>1. \A p \in 1 .. Len(payments') : p \in 1 .. Len(payments) \/ p = Len(payments) + 1
        BY <1>1, <3>6, WindowElements
      <4>2. 1 .. Len(payments) \subseteq 1 .. Len(payments')
        BY <1>1, <3>6, WindowElements
      <4> QED BY <3>2, <3>6, <4>1, <4>2 DEF Successes
    <3>8. \A p \in Successes(m) : payments'[p].openedOn = payments[p].openedOn
      BY <3>6 DEF Successes
    <3> QED BY <2>6, <3>5, <3>7, <3>8
  <2>11. ASSUME NEW i \in 1 .. Len(bought), TouchRow(i)
         PROVE  Unmoved
    BY <1>1, <2>2, <2>7, <2>11, TouchRowType
  <2>12. ASSUME NEW plan \in Plans, NEW t, EditPlan(plan, t)
         PROVE  Unmoved
    BY <2>7, <2>12 DEF EditPlan
  <2>13. CASE NextDay
    BY <2>7, <2>13 DEF NextDay
  <2>14. ASSUME NEW plan \in Plans, NEW free \in BOOLEAN, BuyInternal(plan, free)
         PROVE  FALSE
    BY <1>1, <2>4, <2>14, BuyInternalType
  <2>15. ASSUME NEW p \in 1 .. Len(payments), SettlePayment(p) \/ FailLate(p)
         PROVE  FALSE
    BY <1>1, <2>5, <2>15, SettlePaymentType, FailLateType
  <2>16. ASSUME NEW plan \in Plans, DeletePlan(plan)
         PROVE  FALSE
    BY <1>1, <2>4, <2>16, DeletePlanType
  <2> QED BY <1>1, <2>8, <2>9, <2>10, <2>11, <2>12, <2>13, <2>14, <2>15, <2>16 DEF WindowsNext
<1>2. WindowsTypeOK /\ [WindowsNext]_windowVars => [Same => Unmoved]_windowVars
  BY <1>1
<1> QED BY <1>2, WindowsTypeCorrect, PTL DEF WindowsSpec, ShownPlanIsStable

-----------------------------------------------------------------------------
(* Lists and export: what an order is, what a page is *)

\* How many elements of S are below x.
Rank(S, x) == Cardinality({y \in S : y < x})

\* Ranks tell the elements of a set of numbers apart, and run from zero.
LEMMA RankProperties ==
  ASSUME NEW S \in SUBSET Nat, IsFiniteSet(S)
  PROVE  /\ Cardinality(S) \in Nat
         /\ \A x \in S : Rank(S, x) \in 0 .. Cardinality(S) - 1
         /\ \A x, y \in S : x < y => Rank(S, x) < Rank(S, y)
<1> DEFINE Below(x) == {y \in S : y < x}
<1>1. Cardinality(S) \in Nat
  BY FS_CardinalityType
<1>2. ASSUME NEW x \in S
      PROVE  IsFiniteSet(Below(x)) /\ Cardinality(Below(x)) \in Nat
  <2>1. Below(x) \in SUBSET S
    OBVIOUS
  <2>2. IsFiniteSet(Below(x))
    BY <2>1, FS_Subset
  <2> QED BY <2>2, FS_CardinalityType
<1>3. ASSUME NEW x \in S, NEW T, IsFiniteSet(T), Below(x) \subseteq T, x \in T
      PROVE  Cardinality(Below(x)) < Cardinality(T)
  <2>1. Below(x) \in SUBSET T /\ Below(x) # T
    BY <1>3
  <2>2. Cardinality(T) \in Nat
    BY <1>3, FS_CardinalityType
  <2>3. Cardinality(Below(x)) <= Cardinality(T)
    BY <1>3, <2>1, FS_Subset
  <2>4. Cardinality(Below(x)) # Cardinality(T)
    BY <1>3, <2>1, FS_Subset
  <2> QED BY <1>2, <2>2, <2>3, <2>4
<1>4. \A x \in S : Rank(S, x) \in 0 .. Cardinality(S) - 1
  BY <1>1, <1>2, <1>3 DEF Rank
<1>5. ASSUME NEW x \in S, NEW y \in S, x < y
      PROVE  Rank(S, x) < Rank(S, y)
  <2>1. Below(x) \subseteq Below(y) /\ x \in Below(y)
    <3>1. x \in Nat /\ y \in Nat /\ \A z \in S : z \in Nat
      OBVIOUS
    <3>2. \A z \in S : z < x => z < y
      BY <1>5, <3>1
    <3> QED BY <1>5, <3>2
  <2> QED BY <1>2, <1>3, <2>1 DEF Rank
<1> QED BY <1>1, <1>4, <1>5

\* ORDER BY id: every id once, in ascending order.
LEMMA ByIdProperties ==
  ASSUME NEW S \in SUBSET Nat, IsFiniteSet(S)
  PROVE  /\ ById(S) \in [1 .. Cardinality(S) -> S]
         /\ \A i, j \in 1 .. Cardinality(S) : i < j => ById(S)[i] < ById(S)[j]
         /\ \A x \in S : \E i \in 1 .. Cardinality(S) : ById(S)[i] = x
<1> DEFINE n == Cardinality(S)
           rank == [x \in S |-> Rank(S, x)]
<1>1. n \in Nat /\ \A x \in S : rank[x] \in 0 .. n - 1
  BY RankProperties
<1>2. \A x, y \in S : x < y => rank[x] < rank[y]
  BY RankProperties
<1>3. rank \in Injection(S, 0 .. n - 1)
  <2>1. rank \in [S -> 0 .. n - 1]
    BY <1>1
  <2>2. ASSUME NEW x \in S, NEW y \in S, rank[x] = rank[y]
        PROVE  x = y
    <3>1. x \in Nat /\ y \in Nat /\ rank[x] \in Int /\ rank[y] \in Int
      BY <1>1
    <3>2. ~(rank[x] < rank[y]) /\ ~(rank[y] < rank[x])
      BY <2>2, <3>1
    <3>3. ~(x < y) /\ ~(y < x)
      BY <1>2, <3>2
    <3> QED BY <3>1, <3>3
  <2> QED BY <2>1, <2>2 DEF Injection, IsInjective
<1>4. rank \in Surjection(S, 0 .. n - 1)
  <2>1. IsFiniteSet(0 .. n - 1) /\ Cardinality(0 .. n - 1) = n
    <3>1. n \in Int /\ n - 1 \in Int /\ (IF 0 > n - 1 THEN 0 ELSE (n - 1) - 0 + 1) = n
      BY <1>1
    <3> HIDE DEF n
    <3> QED BY <3>1, FS_Interval
  <2> HIDE DEF rank
  <2> QED BY <1>3, <2>1, FS_Injection
<1>5. \A k \in 1 .. n : \E x \in S : rank[x] = k - 1
  <2>1. \A k \in 1 .. n : k - 1 \in 0 .. n - 1
    BY <1>1
  <2> QED BY <1>4, <2>1 DEF Surjection
<1>6. ASSUME NEW k \in 1 .. n
      PROVE  ById(S)[k] \in S /\ rank[ById(S)[k]] = k - 1
  <2>1. ById(S)[k] = CHOOSE x \in S : Rank(S, x) = k - 1
    <3>1. \A x \in S : {y \in S : [i \in S |-> i][y] < [i \in S |-> i][x]} = {y \in S : y < x}
      OBVIOUS
    <3> QED BY <3>1, Zenon DEF ById, OrderedBy, Rank
  <2> QED BY <1>5, <2>1
<1>7. ById(S) \in [1 .. n -> S]
  BY <1>6 DEF ById, OrderedBy
<1>8. ASSUME NEW i \in 1 .. n, NEW j \in 1 .. n, i < j
      PROVE  ById(S)[i] < ById(S)[j]
  <2>1. rank[ById(S)[i]] < rank[ById(S)[j]]
    BY <1>1, <1>6, <1>8
  <2>2. ById(S)[i] \in Nat /\ ById(S)[j] \in Nat
    BY <1>6
  <2>3. rank[ById(S)[i]] \in Int /\ rank[ById(S)[j]] \in Int
    BY <1>1, <1>6
  <2>4. ~(ById(S)[j] < ById(S)[i])
    <3> DEFINE a == ById(S)[i]
               b == ById(S)[j]
    <3>1. a \in S /\ b \in S /\ rank[a] < rank[b] /\ rank[a] \in Int /\ rank[b] \in Int
      BY <1>6, <2>1, <2>3
    <3> HIDE DEF a, b, rank
    <3>2. b < a => rank[b] < rank[a]
      BY <1>2, <3>1
    <3>3. ~(b < a)
      BY <3>1, <3>2
    <3> QED BY <3>3 DEF a, b
  <2>5. ById(S)[i] # ById(S)[j]
    BY <2>1, <2>3
  <2> QED BY <2>2, <2>4, <2>5
<1>9. ASSUME NEW x \in S
      PROVE  \E i \in 1 .. n : ById(S)[i] = x
  <2> DEFINE k == rank[x] + 1
  <2>1. k \in 1 .. n /\ k - 1 = rank[x]
    BY <1>1
  <2>2. ById(S)[k] \in S /\ rank[ById(S)[k]] = rank[x]
    BY <1>6, <2>1
  <2>3. ById(S)[k] = x
    <3> HIDE DEF rank, k
    <3> QED BY <1>3, <2>2 DEF Injection, IsInjective
  <2> QED BY <2>1, <2>3
<1> QED BY <1>7, <1>8, <1>9

LEMMA MinOfTwo ==
  ASSUME NEW a \in Nat, NEW b \in Nat
  PROVE  Min({a, b}) = IF a <= b THEN a ELSE b
<1> DEFINE m == IF a <= b THEN a ELSE b
<1>1. m \in {a, b} /\ \A y \in {a, b} : m =< y
  OBVIOUS
<1>2. \A x \in {a, b} : (\A y \in {a, b} : x =< y) => x = m
  OBVIOUS
<1> HIDE DEF m
<1> QED BY <1>1, <1>2 DEF Min, m

\* LIMIT k OFFSET skip: the rows from skip + 1 to skip + k, as far as there are.
LEMMA PageProperties ==
  ASSUME NEW T, NEW s \in Seq(T), NEW skip \in Nat, NEW k \in Nat
  PROVE  /\ Page(s, skip, k) \in Seq(T)
         /\ Len(Page(s, skip, k)) = IF Len(s) <= skip THEN 0
                                    ELSE IF skip + k <= Len(s) THEN k ELSE Len(s) - skip
         /\ \A i \in 1 .. Len(Page(s, skip, k)) : Page(s, skip, k)[i] = s[skip + i]
         /\ \A i \in 1 .. Len(s) : skip < i /\ i <= skip + k => s[i] \in ToSet(Page(s, skip, k))
<1> DEFINE m == IF skip + k <= Len(s) THEN skip + k ELSE Len(s)
           p == SubSeq(s, skip + 1, m)
<1>1. Len(s) \in Nat /\ skip + k \in Nat /\ m \in Int /\ m <= Len(s) /\ skip + 1 \in Int
  OBVIOUS
<1>2. Page(s, skip, k) = p
  <2>1. Min({skip + k, Len(s)}) = m
    BY <1>1, MinOfTwo
  <2> QED BY <2>1 DEF Page
<1>3. \A i \in skip + 1 .. m : s[i] \in T
  BY <1>1
<1> HIDE DEF m
<1>4. p \in Seq(T)
  BY <1>1, <1>3, SubSeqProperties
<1>5. Len(p) = IF skip + 1 <= m THEN m - (skip + 1) + 1 ELSE 0
  BY <1>1, <1>3, SubSeqProperties
<1>6. \A i \in 1 .. m - (skip + 1) + 1 : p[i] = s[(skip + 1) + i - 1]
  BY <1>1, <1>3, SubSeqProperties
<1>7. DOMAIN p = 1 .. Len(p)
  BY <1>4
<1> HIDE DEF p
<1>8. Len(p) = IF Len(s) <= skip THEN 0 ELSE IF skip + k <= Len(s) THEN k ELSE Len(s) - skip
  BY <1>1, <1>5 DEF m
<1>9. \A i \in 1 .. Len(p) : p[i] = s[skip + i]
  <2> SUFFICES ASSUME NEW i \in 1 .. Len(p)
               PROVE  p[i] = s[skip + i]
    OBVIOUS
  <2>1. i \in 1 .. m - (skip + 1) + 1 /\ (skip + 1) + i - 1 = skip + i
    BY <1>1, <1>5
  <2> QED BY <1>6, <2>1
<1>10. ASSUME NEW i \in 1 .. Len(s), skip < i, i <= skip + k
       PROVE  s[i] \in ToSet(p)
  <2>1. i - skip \in 1 .. Len(p) /\ skip + (i - skip) = i
    BY <1>1, <1>5, <1>10 DEF m
  <2>2. p[i - skip] = s[i]
    BY <1>9, <2>1
  <2> QED BY <1>7, <2>1, <2>2 DEF ToSet
<1> QED BY <1>2, <1>4, <1>8, <1>9, <1>10

LEMMA PageElement ==
  ASSUME NEW T, NEW s \in Seq(T), NEW skip \in Nat, NEW k \in Nat,
         NEW i \in 1 .. Len(Page(s, skip, k))
  PROVE  Page(s, skip, k)[i] = s[skip + i]
BY PageProperties

-----------------------------------------------------------------------------
(* What the writes do to the tables *)

Row == [student : Addresses, type : {"INTERNAL", "EXTERNAL"}, live : BOOLEAN, mine : BOOLEAN]

Tables == [enrolled : Seq(Row), mirror : [Addresses -> Nat], payments : Seq(PaymentIds),
           followups : Seq({"open", "closed"})]

WalkTypeOK ==
  /\ walk = [of |-> walk.of, page |-> walk.page, pc |-> walk.pc, emails |-> walk.emails,
             stale |-> walk.stale, rows |-> walk.rows, size |-> walk.size,
             counted |-> walk.counted, total |-> walk.total, seen |-> walk.seen,
             expected |-> walk.expected]
  /\ walk.of \in Lists /\ walk.page \in Nat \ {0}
  /\ walk.pc \in {"idle", "open", "page", "refused", "done"}
  /\ walk.emails \in SUBSET Addresses
  /\ walk.stale \in BOOLEAN /\ walk.rows \in BOOLEAN /\ walk.counted \in BOOLEAN
  /\ walk.size \in Nat /\ walk.total \in Nat

Exports == [pc : {"idle", "batch", "done"}, cursor : Nat, out : Seq(PaymentIds),
            expected : SUBSET PaymentIds]

ListsTypeOK ==
  db \in Tables /\ writes \in Nat /\ cached \in Nat /\ WalkTypeOK /\ export \in Exports

\* No payment goes, and no user leaves the mirror.
Keeps(d, e) ==
  /\ ToSet(d.payments) \subseteq ToSet(e.payments)
  /\ \A s \in Addresses : d.mirror[s] > 0 => e.mirror[s] > 0

LEMMA TablesChange ==
  ASSUME db \in Tables, writes \in Nat, ListsNext
  PROVE  \/ WriteTables(db') /\ db' \in Tables /\ Keeps(db, db')
         \/ LoadCount \/ OpenExport \/ ReadBatch
         \/ OpenList \/ RefusePage \/ OpenPage \/ ReadRows \/ ReadTotal \/ TurnPage
<1> DEFINE E == db.enrolled
           M == db.mirror
           P == db.payments
           F == db.followups
           Rec(e, m, p, f) == [enrolled |-> e, mirror |-> m, payments |-> p, followups |-> f]
<1>1. /\ db = Rec(E, M, P, F) /\ E \in Seq(Row) /\ M \in [Addresses -> Nat]
      /\ P \in Seq(PaymentIds) /\ F \in Seq({"open", "closed"})
      /\ db.enrolled = E /\ db.mirror = M /\ db.payments = P /\ db.followups = F
  BY DEF Tables
<1>x. \A x : /\ [db EXCEPT !.enrolled = x] = Rec(x, M, P, F)
             /\ [db EXCEPT !.mirror = x] = Rec(E, x, P, F)
             /\ [db EXCEPT !.payments = x] = Rec(E, M, x, F)
             /\ [db EXCEPT !.followups = x] = Rec(E, M, P, x)
  <2>1. db = [enrolled |-> E, mirror |-> M, payments |-> P, followups |-> F]
    BY <1>1
  <2> HIDE DEF E, M, P, F
  <2> SUFFICES ASSUME NEW x
               PROVE  /\ [db EXCEPT !.enrolled = x] = Rec(x, M, P, F)
                      /\ [db EXCEPT !.mirror = x] = Rec(E, x, P, F)
                      /\ [db EXCEPT !.payments = x] = Rec(E, M, x, F)
                      /\ [db EXCEPT !.followups = x] = Rec(E, M, P, x)
    OBVIOUS
  <2> QED BY <2>1
<1> HIDE DEF E, M, P, F
<1>2. ASSUME NEW e \in Seq(Row), NEW f \in Seq({"open", "closed"}), WriteTables(Rec(e, M, P, f))
      PROVE  WriteTables(db') /\ db' \in Tables /\ Keeps(db, db')
  <2>1. db' = Rec(e, M, P, f)
    BY <1>2 DEF WriteTables
  <2>2. db' \in Tables
    BY <1>1, <2>1 DEF Tables
  <2>3. db'.payments = db.payments /\ db'.mirror = db.mirror
    BY <1>1, <2>1
  <2> QED BY <1>2, <2>1, <2>2, <2>3 DEF Keeps
<1>3. ASSUME NEW s \in Addresses, NEW type \in {"INTERNAL", "EXTERNAL"}, AddEnrollment(s, type)
      PROVE  WriteTables(db') /\ db' \in Tables /\ Keeps(db, db')
  <2> DEFINE r == [student |-> s, type |-> type, live |-> TRUE, mine |-> FALSE]
  <2>1. r \in Row
    BY DEF Row
  <2>2. Append(E, r) \in Seq(Row)
    BY <1>1, <2>1, AppendProperties
  <2>3. [db EXCEPT !.enrolled = Append(@, r)] = Rec(Append(E, r), M, P, F)
    BY <1>1, <1>x, Zenon
  <2>4. WriteTables(Rec(Append(E, r), M, P, F))
    BY <1>3, <2>3 DEF AddEnrollment
  <2> QED BY <1>1, <1>2, <2>2, <2>4
<1>4. ASSUME NEW i \in 1 .. Len(db.enrolled), NEW r \in Row,
             WriteTables([db EXCEPT !.enrolled = [@ EXCEPT ![i] = r]])
      PROVE  WriteTables(db') /\ db' \in Tables /\ Keeps(db, db')
  <2>1. i \in 1 .. Len(E)
    BY DEF E
  <2>2. [E EXCEPT ![i] = r] \in Seq(Row)
    BY <1>1, <2>1, ExceptSeq
  <2>3. [db EXCEPT !.enrolled = [@ EXCEPT ![i] = r]] = Rec([E EXCEPT ![i] = r], M, P, F)
    BY <1>1, <1>x, Zenon
  <2>4. WriteTables(Rec([E EXCEPT ![i] = r], M, P, F))
    BY <1>4, <2>3
  <2> QED BY <1>1, <1>2, <2>2, <2>4
<1>5. ASSUME NEW i \in 1 .. Len(db.enrolled), RemoveDraft(i) \/ AssignLead(i)
      PROVE  WriteTables(db') /\ db' \in Tables /\ Keeps(db, db')
  <2>1. i \in 1 .. Len(E) /\ E[i] \in Row
    BY <1>1, ElementOfSeq DEF E
  <2>2. CASE RemoveDraft(i)
    <3> DEFINE r == [E[i] EXCEPT !.live = FALSE]
    <3>1. r \in Row
      BY <2>1 DEF Row
    <3>2. [db EXCEPT !.enrolled[i].live = FALSE] = [db EXCEPT !.enrolled = [@ EXCEPT ![i] = r]]
      BY <1>1 DEF E
    <3> HIDE DEF r
    <3>3. WriteTables([db EXCEPT !.enrolled = [@ EXCEPT ![i] = r]])
      BY <2>2, <3>2 DEF RemoveDraft
    <3> QED BY <1>4, <3>1, <3>3
  <2>3. CASE AssignLead(i)
    <3> DEFINE r == [E[i] EXCEPT !.mine = ~@]
    <3>1. r \in Row
      <4>1. PICK a \in Addresses, t \in {"INTERNAL", "EXTERNAL"}, b \in BOOLEAN, c \in BOOLEAN :
              E[i] = [student |-> a, type |-> t, live |-> b, mine |-> c]
        BY <2>1 DEF Row
      <4>2. r = [student |-> a, type |-> t, live |-> b, mine |-> ~c]
        BY <4>1
      <4>3. (~c) \in BOOLEAN
        BY Zenon
      <4> QED BY <4>2, <4>3 DEF Row
    <3>2. [db EXCEPT !.enrolled[i].mine = ~@] = [db EXCEPT !.enrolled = [@ EXCEPT ![i] = r]]
      BY <1>1, Zenon DEF E
    <3> HIDE DEF r
    <3>3. WriteTables([db EXCEPT !.enrolled = [@ EXCEPT ![i] = r]])
      BY <2>3, <3>2 DEF AssignLead
    <3> QED BY <1>4, <3>1, <3>3
  <2> QED BY <1>5, <2>2, <2>3
<1>6. ASSUME AddFollowup \/ \E i \in 1 .. Len(db.followups), status \in {"open", "closed"} :
                               EditFollowup(i, status)
      PROVE  WriteTables(db') /\ db' \in Tables /\ Keeps(db, db')
  <2>1. CASE AddFollowup
    <3>1. Append(F, "open") \in Seq({"open", "closed"})
      BY <1>1, AppendProperties
    <3>2. [db EXCEPT !.followups = Append(@, "open")] = Rec(E, M, P, Append(F, "open"))
      BY <1>1, <1>x, Zenon
    <3>3. WriteTables(Rec(E, M, P, Append(F, "open")))
      BY <2>1, <3>2 DEF AddFollowup
    <3> QED BY <1>1, <1>2, <3>1, <3>3
  <2>2. ASSUME NEW i \in 1 .. Len(db.followups), NEW status \in {"open", "closed"},
               EditFollowup(i, status)
        PROVE  WriteTables(db') /\ db' \in Tables /\ Keeps(db, db')
    <3>1. [F EXCEPT ![i] = status] \in Seq({"open", "closed"})
      BY <1>1, ExceptSeq DEF F
    <3>2. [db EXCEPT !.followups[i] = status] = Rec(E, M, P, [F EXCEPT ![i] = status])
      BY <1>1, <1>x, Zenon
    <3>3. WriteTables(Rec(E, M, P, [F EXCEPT ![i] = status]))
      BY <2>2, <3>2 DEF EditFollowup
    <3> QED BY <1>1, <1>2, <3>1, <3>3
  <2> QED BY <1>6, <2>1, <2>2
<1>7. ASSUME NEW s \in Addresses, SyncUser(s)
      PROVE  WriteTables(db') /\ db' \in Tables /\ Keeps(db, db')
  <2> DEFINE m == [M EXCEPT ![s] = writes + 1]
  <2>1. m \in [Addresses -> Nat] /\ \A a \in Addresses : M[a] > 0 => m[a] > 0
    BY <1>1
  <2>2. [db EXCEPT !.mirror = [@ EXCEPT ![s] = writes + 1]] = Rec(E, m, P, F)
    BY <1>1, <1>x, Zenon
  <2> HIDE DEF m
  <2>3. WriteTables(Rec(E, m, P, F))
    BY <1>7, <2>2 DEF SyncUser
  <2>4. db' = Rec(E, m, P, F)
    BY <2>3 DEF WriteTables
  <2>5. db' \in Tables
    BY <1>1, <2>1, <2>4 DEF Tables
  <2>6. db'.payments = P /\ db.payments = P /\ db'.mirror = m /\ db.mirror = M
    BY <1>1, <2>4
  <2> QED BY <2>1, <2>3, <2>4, <2>5, <2>6 DEF Keeps
<1>8. ASSUME NEW p \in PaymentIds, AddPayment(p)
      PROVE  WriteTables(db') /\ db' \in Tables /\ Keeps(db, db')
  <2> DEFINE q == Append(P, p)
  <2>1. q \in Seq(PaymentIds) /\ Len(q) = Len(P) + 1 /\ Len(P) \in Nat
        /\ \A i \in 1 .. Len(P) : q[i] = P[i]
    BY <1>1, AppendProperties
  <2>2. ToSet(P) \subseteq ToSet(q)
    <3>1. DOMAIN P = 1 .. Len(P) /\ DOMAIN q = 1 .. Len(q)
      BY <1>1, <2>1
    <3>2. \A i \in 1 .. Len(P) : i \in 1 .. Len(q)
      BY <2>1
    <3> HIDE DEF q
    <3> QED BY <2>1, <3>1, <3>2 DEF ToSet
  <2>3. [db EXCEPT !.payments = Append(@, p)] = Rec(E, M, q, F)
    BY <1>1, <1>x, Zenon
  <2> HIDE DEF q
  <2>4. WriteTables(Rec(E, M, q, F))
    BY <1>8, <2>3 DEF AddPayment
  <2>5. db' = Rec(E, M, q, F)
    BY <2>4 DEF WriteTables
  <2>6. db' \in Tables
    BY <1>1, <2>1, <2>5 DEF Tables
  <2>7. db'.payments = q /\ db.payments = P /\ db'.mirror = M /\ db.mirror = M
    BY <1>1, <2>5
  <2> QED BY <2>2, <2>4, <2>5, <2>6, <2>7 DEF Keeps
<1> QED BY <1>3, <1>5, <1>6, <1>7, <1>8 DEF ListsNext

-----------------------------------------------------------------------------
(* The lists are sequences, and which of them depend on what *)

LEMMA FunctionIsSequence ==
  ASSUME NEW n \in Nat, NEW s, s = [i \in 1 .. n |-> s[i]]
  PROVE  s \in Seq(ToSet(s)) /\ Len(s) = n
<1>1. DOMAIN s = 1 .. n
  OBVIOUS
<1>2. \A i \in 1 .. n : s[i] \in ToSet(s)
  BY <1>1 DEF ToSet
<1>3. s \in [1 .. n -> ToSet(s)]
  BY <1>2
<1> QED BY <1>3

LEMMA OrderedIsSequence ==
  ASSUME NEW S, IsFiniteSet(S), NEW column
  PROVE  /\ OrderedBy(S, column) \in Seq(ToSet(OrderedBy(S, column)))
         /\ Len(OrderedBy(S, column)) = Cardinality(S)
<1>1. Cardinality(S) \in Nat
  BY FS_CardinalityType
<1>2. OrderedBy(S, column) = [k \in 1 .. Cardinality(S) |-> OrderedBy(S, column)[k]]
  BY DEF OrderedBy
<1> HIDE DEF OrderedBy
<1> QED BY <1>1, <1>2, FunctionIsSequence

LEMMA ReverseIsSequence ==
  ASSUME NEW s, Len(s) \in Nat
  PROVE  Reverse(s) \in Seq(ToSet(Reverse(s))) /\ Len(Reverse(s)) = Len(s)
<1>1. Reverse(s) = [i \in 1 .. Len(s) |-> Reverse(s)[i]]
  BY DEF Reverse
<1> HIDE DEF Reverse
<1> QED BY <1>1, FunctionIsSequence

LEMMA NewestIsSequence ==
  ASSUME NEW ids, IsFiniteSet(ids)
  PROVE  Newest(ids) \in Seq(ToSet(Newest(ids))) /\ Len(Newest(ids)) = Cardinality(ids)
<1> DEFINE s == OrderedBy(ids, [i \in ids |-> i])
<1>1. Len(s) = Cardinality(ids) /\ Cardinality(ids) \in Nat
  BY OrderedIsSequence, FS_CardinalityType
<1> HIDE DEF s
<1>2. Reverse(s) \in Seq(ToSet(Reverse(s))) /\ Len(Reverse(s)) = Len(s)
  BY <1>1, ReverseIsSequence
<1> QED BY <1>1, <1>2 DEF Newest, ById, s

LEMMA RowsAreFinite ==
  ASSUME NEW d \in Tables, NEW ids
  PROVE  /\ ids \in SUBSET (1 .. Len(d.enrolled)) => IsFiniteSet(ids)
         /\ ids \in SUBSET (1 .. Len(d.followups)) => IsFiniteSet(ids)
<1>1. Len(d.enrolled) \in Nat /\ Len(d.followups) \in Nat
  BY DEF Tables
<1>2. IsFiniteSet(1 .. Len(d.enrolled)) /\ IsFiniteSet(1 .. Len(d.followups))
  <2>1. 1 \in Int /\ Len(d.enrolled) \in Int /\ Len(d.followups) \in Int
    BY <1>1
  <2>2. IsFiniteSet(1 .. Len(d.enrolled))
    BY <2>1, FS_Interval
  <2>3. IsFiniteSet(1 .. Len(d.followups))
    BY <2>1, FS_Interval
  <2> QED BY <2>2, <2>3
<1>3. ids \in SUBSET (1 .. Len(d.enrolled)) => IsFiniteSet(ids)
  BY <1>2, FS_Subset
<1>4. ids \in SUBSET (1 .. Len(d.followups)) => IsFiniteSet(ids)
  BY <1>2, FS_Subset
<1> QED BY <1>3, <1>4

LEMMA OnePerStudentIsSequence ==
  ASSUME NEW d \in Tables, NEW ids \in SUBSET (1 .. Len(d.enrolled))
  PROVE  OnePerStudent(d, ids) \in Seq(ToSet(OnePerStudent(d, ids)))
<1> DEFINE student(i) == d.enrolled[i].student
           latest == {i \in ids : \A j \in ids : student(j) = student(i) => j <= i}
           f == Newest(latest)
           s == OnePerStudent(d, ids)
<1>1. IsFiniteSet(latest)
  BY RowsAreFinite
<1> HIDE DEF latest
<1>2. f \in Seq(ToSet(f)) /\ Len(f) \in Nat
  BY <1>1, NewestIsSequence, FS_CardinalityType
<1>3. DOMAIN f = 1 .. Len(f)
  BY <1>2
<1>4. s = [k \in DOMAIN f |-> student(f[k])]
  BY DEF OnePerStudent, latest
<1> HIDE DEF s, f
<1>5. s = [k \in 1 .. Len(f) |-> s[k]]
  BY <1>3, <1>4
<1> QED BY <1>2, <1>5, FunctionIsSequence DEF s

\* The users of the mirror that the page's e-mails leave.
Unenrolled(d, emails) == {s \in Addresses : d.mirror[s] > 0 /\ s \notin emails}

LEMMA MirrorLength ==
  ASSUME NEW d \in Tables, NEW emails
  PROVE  /\ listFromDb(d, emails).items \in Seq(ToSet(listFromDb(d, emails).items))
         /\ Len(listFromDb(d, emails).items) = Cardinality(Unenrolled(d, emails))
         /\ IsFiniteSet(Unenrolled(d, emails))
<1> DEFINE U == Unenrolled(d, emails)
           s == OrderedBy(U, d.mirror)
           r == Reverse(s)
<1>1. U \in SUBSET Addresses
  BY DEF Unenrolled
<1>2. IsFiniteSet(U) /\ Cardinality(U) \in Nat
  BY <1>1, ListsAssumption, FS_Subset, FS_CardinalityType
<1>3. listFromDb(d, emails).items = r
  BY DEF listFromDb, Unenrolled
<1> HIDE DEF U
<1>4. Len(s) = Cardinality(U)
  BY <1>2, OrderedIsSequence
<1> HIDE DEF s
<1>5. r \in Seq(ToSet(r)) /\ Len(r) = Cardinality(U)
  BY <1>2, <1>4, ReverseIsSequence
<1> HIDE DEF r
<1> QED BY <1>2, <1>3, <1>5 DEF U

\* Users stay in the mirror, so a list with the same e-mails never shrinks.
LEMMA MirrorGrows ==
  ASSUME NEW d \in Tables, NEW e \in Tables, Keeps(d, e), NEW emails
  PROVE  Len(listFromDb(d, emails).items) <= Len(listFromDb(e, emails).items)
<1>1. Unenrolled(d, emails) \in SUBSET Unenrolled(e, emails)
  BY DEF Unenrolled, Keeps
<1>2. IsFiniteSet(Unenrolled(e, emails))
  BY MirrorLength
<1>3. Cardinality(Unenrolled(d, emails)) <= Cardinality(Unenrolled(e, emails))
  BY <1>1, <1>2, FS_Subset
<1> QED BY <1>3, MirrorLength

LEMMA ListingIsSequence ==
  ASSUME NEW name \in Lists, NEW d \in Tables, NEW emails
  PROVE  Listing(name, d, emails).items \in Seq(ToSet(Listing(name, d, emails).items))
<1> DEFINE l == Listing(name, d, emails)
<1>1. \A filter : LiveAmong(d, filter) \in SUBSET (1 .. Len(d.enrolled))
  BY DEF LiveAmong
<1>2. \A filter : IsFiniteSet(LiveAmong(d, filter))
  BY <1>1, RowsAreFinite
<1>3. CASE name = "list"
  <2>1. l.items = Newest(LiveAmong(d, ToSet(d.enrolled)))
    BY <1>3 DEF Listing, list
  <2> QED BY <1>2, <2>1, NewestIsSequence
<1>4. CASE name = "grouped"
  <2>1. l.items = OnePerStudent(d, LiveAmong(d, ToSet(d.enrolled)))
    BY <1>4 DEF Listing, groupedByEmail
  <2> QED BY <1>1, <2>1, OnePerStudentIsSequence
<1>5. CASE name = "internal"
  <2>1. l.items = OnePerStudent(d, LiveAmong(d, {e \in ToSet(d.enrolled) : e.type = "INTERNAL"}))
    BY <1>5 DEF Listing, internalGrouped
  <2> QED BY <1>1, <2>1, OnePerStudentIsSequence
<1>6. CASE name = "history"
  <2>1. l.items = Newest(LiveAmong(d, {e \in ToSet(d.enrolled) : e.student = Visited}))
    BY <1>6 DEF Listing, historyByEmail
  <2> QED BY <1>2, <2>1, NewestIsSequence
<1>7. CASE name = "mirror"
  BY <1>7, MirrorLength DEF Listing
<1>8. CASE name = "payments"
  <2>1. l.items = Reverse(d.payments)
    BY <1>8 DEF Listing, listPayments
  <2>2. Len(d.payments) \in Nat
    BY DEF Tables
  <2> QED BY <2>1, <2>2, ReverseIsSequence
<1>9. CASE name = "leads"
  <2>1. l.items = Newest(LiveAmong(d, {e \in ToSet(d.enrolled) : e.mine}))
    BY <1>9 DEF Listing, listMyLeads
  <2> QED BY <1>2, <2>1, NewestIsSequence
<1>10. CASE name \in {"followups", "report"}
  <2>1. PICK statuses :
          l.items = Newest({i \in 1 .. Len(d.followups) : d.followups[i] \in statuses})
    BY <1>10 DEF Listing, listFollowups, listReport, Followups
  <2> DEFINE ids == {i \in 1 .. Len(d.followups) : d.followups[i] \in statuses}
  <2>2. IsFiniteSet(ids)
    BY RowsAreFinite
  <2> HIDE DEF ids
  <2>3. Newest(ids) \in Seq(ToSet(Newest(ids)))
    BY <2>2, NewestIsSequence
  <2> QED BY <2>1, <2>3 DEF ids
<1> QED BY <1>3, <1>4, <1>5, <1>6, <1>7, <1>8, <1>9, <1>10 DEF Lists

\* Only the users without an enrollment depend on the e-mails read before.
LEMMA EmailsMatter ==
  ASSUME NEW name \in Lists, name # "mirror", NEW d, NEW a, NEW b
  PROVE  Listing(name, d, a) = Listing(name, d, b)
BY DEF Listing, Lists

\* The lists whose total is read after their rows.
TotalAfter == {"grouped", "internal", "payments", "followups", "report", "mirror"}

LEMMA TotalIsAfter ==
  ASSUME NEW name \in TotalAfter, NEW d, NEW emails
  PROVE  Listing(name, d, emails).total = "after"
BY DEF TotalAfter, Listing, groupedByEmail, internalGrouped, listPayments, listFollowups,
       listReport, Followups, listFromDb

-----------------------------------------------------------------------------
(* The export *)

\* The cursor is not below anything written; what the export must have is a
\* payment, and written once the cursor is past it.
ExportInv ==
  /\ \A i, j \in 1 .. Len(export.out) : i < j => export.out[i] < export.out[j]
  /\ \A i \in 1 .. Len(export.out) : export.out[i] <= export.cursor
  /\ export.expected \subseteq ToSet(db.payments)
  /\ \A p \in export.expected : p <= export.cursor => p \in ToSet(export.out)
  /\ export.pc = "done" => export.expected \subseteq ToSet(export.out)

\* Writing a batch after what was written before, all of it above the cursor.
LEMMA StreamProperties ==
  ASSUME NEW a \in Seq(PaymentIds), NEW b \in Seq(PaymentIds), NEW c \in Nat,
         \A i, j \in 1 .. Len(a) : i < j => a[i] < a[j],
         \A i \in 1 .. Len(a) : a[i] <= c,
         \A i, j \in 1 .. Len(b) : i < j => b[i] < b[j],
         \A i \in 1 .. Len(b) : b[i] > c
  PROVE  /\ a \o b \in Seq(PaymentIds)
         /\ \A i, j \in 1 .. Len(a \o b) : i < j => (a \o b)[i] < (a \o b)[j]
         /\ ToSet(a \o b) = ToSet(a) \cup ToSet(b)
         /\ \A n \in Nat : n >= c /\ (\A i \in 1 .. Len(b) : b[i] <= n)
              => \A i \in 1 .. Len(a \o b) : (a \o b)[i] <= n
<1> DEFINE s == a \o b
<1>1. s \in Seq(PaymentIds) /\ Len(a) \in Nat /\ Len(b) \in Nat /\ Len(s) = Len(a) + Len(b)
      /\ DOMAIN a = 1 .. Len(a) /\ DOMAIN b = 1 .. Len(b) /\ DOMAIN s = 1 .. Len(s)
  BY ConcatProperties, LenProperties
<1>2. \A i \in 1 .. Len(s) : s[i] = IF i <= Len(a) THEN a[i] ELSE b[i - Len(a)]
  BY <1>1, ConcatProperties
<1>3. /\ \A i \in 1 .. Len(a) : a[i] \in Nat
      /\ \A i \in 1 .. Len(b) : b[i] \in Nat
  BY ListsAssumption, ElementOfSeq
<1> HIDE DEF s
<1>4. ASSUME NEW i \in 1 .. Len(s), NEW j \in 1 .. Len(s), i < j
      PROVE  s[i] < s[j]
  <2>1. CASE j <= Len(a)
    BY <1>1, <1>2, <1>4, <2>1
  <2>2. CASE i <= Len(a) /\ ~(j <= Len(a))
    <3>1. i \in 1 .. Len(a) /\ j - Len(a) \in 1 .. Len(b) /\ s[i] = a[i] /\ s[j] = b[j - Len(a)]
      BY <1>1, <1>2, <2>2
    <3>2. a[i] <= c /\ b[j - Len(a)] > c /\ a[i] \in Nat /\ b[j - Len(a)] \in Nat
      BY <1>3, <3>1
    <3> QED BY <3>1, <3>2
  <2>3. CASE ~(i <= Len(a))
    <3>1. /\ i - Len(a) \in 1 .. Len(b) /\ j - Len(a) \in 1 .. Len(b)
          /\ i - Len(a) < j - Len(a)
          /\ s[i] = b[i - Len(a)] /\ s[j] = b[j - Len(a)]
      BY <1>1, <1>2, <1>4, <2>3
    <3> QED BY <3>1
  <2> QED BY <2>1, <2>2, <2>3
<1>5. ToSet(s) = ToSet(a) \cup ToSet(b)
  <2>1. ASSUME NEW i \in 1 .. Len(s)
        PROVE  s[i] \in ToSet(a) \cup ToSet(b)
    <3>1. i <= Len(a) => i \in 1 .. Len(a)
      BY <1>1
    <3>2. ~(i <= Len(a)) => i - Len(a) \in 1 .. Len(b)
      BY <1>1
    <3> QED BY <1>1, <1>2, <3>1, <3>2 DEF ToSet
  <2>2. ASSUME NEW i \in 1 .. Len(a)
        PROVE  a[i] \in ToSet(s)
    <3>1. i \in 1 .. Len(s) /\ s[i] = a[i]
      BY <1>1, <1>2
    <3> QED BY <1>1, <3>1 DEF ToSet
  <2>3. ASSUME NEW i \in 1 .. Len(b)
        PROVE  b[i] \in ToSet(s)
    <3>1. i + Len(a) \in 1 .. Len(s) /\ s[i + Len(a)] = b[i]
      <4>1. i + Len(a) \in 1 .. Len(s) /\ ~(i + Len(a) <= Len(a)) /\ (i + Len(a)) - Len(a) = i
        BY <1>1
      <4> QED BY <1>2, <4>1
    <3> QED BY <1>1, <3>1 DEF ToSet
  <2> QED BY <1>1, <2>1, <2>2, <2>3 DEF ToSet
<1>6. ASSUME NEW n \in Nat, n >= c, \A i \in 1 .. Len(b) : b[i] <= n, NEW i \in 1 .. Len(s)
      PROVE  s[i] <= n
  <2>1. CASE i <= Len(a)
    <3>1. i \in 1 .. Len(a) /\ s[i] = a[i]
      BY <1>1, <1>2, <2>1
    <3>2. a[i] \in Nat /\ a[i] <= c
      BY <1>3, <3>1
    <3> QED BY <1>6, <3>1, <3>2
  <2>2. CASE ~(i <= Len(a))
    <3>1. i - Len(a) \in 1 .. Len(b) /\ s[i] = b[i - Len(a)]
      BY <1>1, <1>2, <2>2
    <3> QED BY <1>6, <3>1
  <2> QED BY <2>1, <2>2
<1> QED BY <1>1, <1>4, <1>5, <1>6 DEF s

LEMMA FiniteRange ==
  ASSUME NEW T, NEW s \in Seq(T)
  PROVE  IsFiniteSet(ToSet(s))
<1>1. Len(s) \in Nat /\ s \in [1 .. Len(s) -> T] /\ DOMAIN s = 1 .. Len(s)
  BY LenProperties
<1>2. IsFiniteSet(1 .. Len(s))
  BY <1>1, FS_Interval
<1>3. s \in Surjection(1 .. Len(s), ToSet(s))
  BY <1>1 DEF Surjection, ToSet
<1> QED BY <1>2, <1>3, FS_Surjection

\* A batch: the next payments after the cursor, in the order of their ids.
LEMMA BatchProperties ==
  ASSUME NEW P \in SUBSET PaymentIds, IsFiniteSet(P), NEW c \in Nat,
         NEW b, b = Page(ById({p \in P : p > c}), 0, ExportBatch)
  PROVE  /\ b \in Seq(PaymentIds)
         /\ \A i, j \in 1 .. Len(b) : i < j => b[i] < b[j]
         /\ \A i \in 1 .. Len(b) : b[i] > c
         /\ \A p \in P, j \in 1 .. Len(b) : p > c /\ p <= b[j] => p \in ToSet(b)
         /\ Len(b) < ExportBatch => \A p \in P : p > c => p \in ToSet(b)
<1> DEFINE S == {p \in P : p > c}
           s == ById(S)
           n == Cardinality(S)
<1>1. S \in SUBSET Nat /\ S \in SUBSET PaymentIds /\ ExportBatch \in Nat
  BY ListsAssumption
<1>2. IsFiniteSet(S)
  <2>1. S \in SUBSET P
    OBVIOUS
  <2> QED BY <2>1, FS_Subset
<1>3. n \in Nat
  BY <1>2, FS_CardinalityType
<1>4. s \in [1 .. n -> S]
  BY <1>1, <1>2, ByIdProperties
<1>5. \A i, j \in 1 .. n : i < j => s[i] < s[j]
  BY <1>1, <1>2, ByIdProperties
<1>6. \A x \in S : \E i \in 1 .. n : s[i] = x
  BY <1>1, <1>2, ByIdProperties
<1>7. \A x \in S : x \in Nat /\ x \in PaymentIds /\ x > c
  BY <1>1
<1> HIDE DEF S, s, n
<1>8. s \in Seq(S) /\ Len(s) = n
  BY <1>3, <1>4
<1>9. b = Page(s, 0, ExportBatch)
  BY DEF s, S
<1>10. b \in Seq(S)
  BY <1>1, <1>8, <1>9, PageProperties
<1> DEFINE z == 0
<1>z. z \in Nat /\ b = Page(s, z, ExportBatch)
  BY <1>9
<1> HIDE DEF z
<1>11. Len(b) = IF n <= 0 THEN 0 ELSE IF ExportBatch <= n THEN ExportBatch ELSE n
  <2>1. Len(b) = IF Len(s) <= z THEN 0
                 ELSE IF z + ExportBatch <= Len(s) THEN ExportBatch ELSE Len(s) - z
    BY <1>1, <1>8, <1>z, PageProperties
  <2> QED BY <1>1, <1>3, <1>8, <2>1 DEF z
<1>12. \A i \in 1 .. Len(b) : b[i] = s[i]
  <2> DEFINE q == Page(s, z, ExportBatch)
  <2>q. ASSUME NEW i \in 1 .. Len(q)
        PROVE  q[i] = s[z + i]
    BY <1>1, <1>8, <1>z, PageElement
  <2>0. \A i \in 1 .. Len(b) : b[i] = s[z + i]
    BY <1>z, <2>q, Zenon
  <2>1. \A i \in 1 .. Len(b) : b[i] = s[0 + i]
    BY <2>0 DEF z
  <2>2. Len(b) \in Nat
    BY <1>10
  <2> QED BY <2>1, <2>2
<1>13. \A i \in 1 .. n : i <= ExportBatch => s[i] \in ToSet(b)
  <2>1. \A i \in 1 .. n : 0 < i /\ i <= 0 + ExportBatch => s[i] \in ToSet(b)
    BY <1>1, <1>8, <1>9, PageProperties
  <2> QED BY <1>1, <1>3, <2>1
<1>14. b \in Seq(PaymentIds)
  BY <1>7, <1>10, SeqMonotonic
<1>15. Len(b) \in Nat /\ Len(b) <= n /\ Len(b) <= ExportBatch
  BY <1>1, <1>3, <1>11
<1>16. \A i \in 1 .. Len(b) : i \in 1 .. n
  BY <1>3, <1>15
<1>17. \A i, j \in 1 .. Len(b) : i < j => b[i] < b[j]
  BY <1>5, <1>12, <1>16
<1>18. \A i \in 1 .. Len(b) : b[i] > c
  BY <1>7, <1>10, ElementOfSeq
<1>19. ASSUME NEW p \in S, NEW j \in 1 .. Len(b), p <= b[j]
       PROVE  p \in ToSet(b)
  <2>1. PICK i \in 1 .. n : s[i] = p
    BY <1>6
  <2>2. j \in 1 .. n /\ b[j] = s[j] /\ s[j] \in Nat /\ s[i] \in Nat
    BY <1>4, <1>7, <1>12, <1>16
  <2>3. i <= j
    <3>1. SUFFICES ASSUME j < i
                   PROVE  FALSE
      BY <1>3, <2>1, <2>2
    <3>2. s[j] < s[i]
      BY <1>5, <2>1, <2>2, <3>1
    <3> QED BY <1>19, <2>1, <2>2, <3>2
  <2>4. i <= ExportBatch
    BY <1>1, <1>3, <1>15, <2>3
  <2> QED BY <1>13, <2>1, <2>4
<1>20. ASSUME Len(b) < ExportBatch, NEW p \in S
       PROVE  p \in ToSet(b)
  <2>1. PICK i \in 1 .. n : s[i] = p
    BY <1>6
  <2>2. n < ExportBatch
    BY <1>1, <1>3, <1>11, <1>20
  <2>3. i <= ExportBatch
    BY <1>1, <1>3, <2>2
  <2> QED BY <1>13, <2>1, <2>3
<1>21. \A p \in P : p > c => p \in S
  BY DEF S
<1> QED BY <1>14, <1>17, <1>18, <1>19, <1>20, <1>21

\* A batch leaves the export's account in order.
LEMMA ReadBatchStep ==
  ASSUME ListsTypeOK, ExportInv, ReadBatch
  PROVE  /\ ExportInv'
         /\ export' \in Exports
<1> DEFINE P == ToSet(db.payments)
           c == export.cursor
           b == Page(ById({p \in P : p > c}), 0, ExportBatch)
           a == export.out
           e == export.expected
           n == IF b = << >> THEN c ELSE Last(b)
           pc == IF Len(b) < ExportBatch THEN "done" ELSE export.pc
<1>1. export' = [export EXCEPT !.out = a \o b, !.cursor = n, !.pc = pc] /\ UNCHANGED db
  BY DEF ReadBatch, Stream
<1>2. /\ a \in Seq(PaymentIds) /\ c \in Nat /\ e \in SUBSET PaymentIds
      /\ export.pc \in {"idle", "batch", "done"} /\ export.pc = "batch"
      /\ export = [pc |-> export.pc, cursor |-> c, out |-> a, expected |-> e]
      /\ db.payments \in Seq(PaymentIds)
  BY DEF ListsTypeOK, Tables, Exports, ReadBatch, Stream
<1>3. /\ \A i, j \in 1 .. Len(a) : i < j => a[i] < a[j]
      /\ \A i \in 1 .. Len(a) : a[i] <= c
      /\ e \subseteq P
      /\ \A p \in e : p <= c => p \in ToSet(a)
  BY DEF ExportInv
<1>4. P \in SUBSET PaymentIds
  <2>1. \A i \in 1 .. Len(db.payments) : db.payments[i] \in PaymentIds
    BY <1>2, ElementOfSeq
  <2>2. DOMAIN db.payments = 1 .. Len(db.payments)
    BY <1>2
  <2> QED BY <2>1, <2>2 DEF ToSet
<1>5. IsFiniteSet(P)
  BY <1>2, FiniteRange
<1> HIDE DEF P, c, a, e
<1>6. b \in Seq(PaymentIds) /\ \A i, j \in 1 .. Len(b) : i < j => b[i] < b[j]
  BY <1>2, <1>4, <1>5, BatchProperties
<1>7. \A i \in 1 .. Len(b) : b[i] > c
  BY <1>2, <1>4, <1>5, BatchProperties
<1>8. \A p \in P, j \in 1 .. Len(b) : p > c /\ p <= b[j] => p \in ToSet(b)
  BY <1>2, <1>4, <1>5, BatchProperties
<1>9. Len(b) < ExportBatch => \A p \in P : p > c => p \in ToSet(b)
  BY <1>2, <1>4, <1>5, BatchProperties
<1> HIDE DEF b
<1>10. Len(b) \in Nat /\ \A i \in 1 .. Len(b) : b[i] \in Nat
  <2>1. Len(b) \in Nat /\ \A i \in 1 .. Len(b) : b[i] \in PaymentIds
    BY <1>6, ElementOfSeq
  <2> QED BY <2>1, ListsAssumption
<1>11. /\ n \in Nat /\ n >= c /\ \A i \in 1 .. Len(b) : b[i] <= n
       /\ n = c \/ \E j \in 1 .. Len(b) : n = b[j]
  <2>1. CASE b = << >>
    <3>1. Len(b) = 0
      BY <2>1, EmptySeq
    <3> QED BY <1>2, <2>1, <3>1
  <2>2. CASE b # << >>
    <3>1. Len(b) # 0
      BY <1>6, <2>2, EmptySeq
    <3>2. Len(b) \in 1 .. Len(b) /\ n = b[Len(b)]
      BY <1>10, <2>2, <3>1 DEF Last
    <3>3. \A i \in 1 .. Len(b) : i = Len(b) \/ i < Len(b)
      BY <1>10
    <3>4. \A i \in 1 .. Len(b) : b[i] <= b[Len(b)]
      BY <1>6, <1>10, <3>2, <3>3
    <3> QED BY <1>2, <1>7, <1>10, <3>2, <3>4
  <2> QED BY <2>1, <2>2
<1>12. pc \in {"idle", "batch", "done"}
  BY <1>2
<1>13. pc = "done" => Len(b) < ExportBatch
  BY <1>2
<1> HIDE DEF n, pc
<1>14. a \o b \in Seq(PaymentIds)
  BY <1>2, <1>3, <1>6, <1>7, StreamProperties
<1>15. \A i, j \in 1 .. Len(a \o b) : i < j => (a \o b)[i] < (a \o b)[j]
  BY <1>2, <1>3, <1>6, <1>7, StreamProperties
<1>16. ToSet(a \o b) = ToSet(a) \cup ToSet(b)
  BY <1>2, <1>3, <1>6, <1>7, StreamProperties
<1>17. \A i \in 1 .. Len(a \o b) : (a \o b)[i] <= n
  BY <1>2, <1>3, <1>6, <1>7, <1>11, StreamProperties
<1>18. \A p \in e : p <= n => p \in ToSet(a \o b)
  <2> SUFFICES ASSUME NEW p \in e, p <= n, ~(p <= c)
               PROVE  p \in ToSet(b)
    BY <1>3, <1>16
  <2>1. p \in Nat /\ p \in P /\ p > c
    BY <1>2, <1>3, ListsAssumption
  <2>2. PICK j \in 1 .. Len(b) : n = b[j]
    BY <1>11
  <2> QED BY <1>8, <2>1, <2>2
<1>19. pc = "done" => e \subseteq ToSet(a \o b)
  <2> SUFFICES ASSUME pc = "done", NEW p \in e
               PROVE  p \in ToSet(a \o b)
    OBVIOUS
  <2>1. p \in Nat /\ p \in P
    BY <1>2, <1>3, ListsAssumption
  <2>2. CASE p <= c
    BY <1>3, <1>16, <2>2
  <2>3. CASE ~(p <= c)
    BY <1>2, <1>9, <1>13, <1>16, <2>1, <2>3
  <2> QED BY <2>2, <2>3
<1> DEFINE s == a \o b
<1> HIDE DEF s
<1>20. export' = [pc |-> pc, cursor |-> n, out |-> s, expected |-> e]
  <2>1. export = [pc |-> "batch", cursor |-> c, out |-> a, expected |-> e]
    BY <1>2
  <2>2. export' = [[pc |-> "batch", cursor |-> c, out |-> a, expected |-> e]
                     EXCEPT !.out = s, !.cursor = n, !.pc = pc]
    BY <1>1, <2>1 DEF s
  <2> QED BY <2>2
<1>21. s \in Seq(PaymentIds) /\ (\A i, j \in 1 .. Len(s) : i < j => s[i] < s[j])
       /\ (\A i \in 1 .. Len(s) : s[i] <= n) /\ (\A p \in e : p <= n => p \in ToSet(s))
       /\ (pc = "done" => e \subseteq ToSet(s))
  BY <1>14, <1>15, <1>17, <1>18, <1>19 DEF s
<1>22. e \subseteq ToSet(db.payments)
  BY <1>3 DEF P
<1>23. export' \in Exports
  BY <1>2, <1>11, <1>12, <1>20, <1>21 DEF Exports
<1>24. export'.pc = pc /\ export'.cursor = n /\ export'.out = s /\ export'.expected = e
       /\ db'.payments = db.payments
  <2>1. db' = db
    BY <1>1
  <2> QED BY <1>20, <2>1
<1> QED BY <1>21, <1>22, <1>23, <1>24 DEF ExportInv

-----------------------------------------------------------------------------
(* The walk: what each step makes of it *)

\* The walk after a step; its list stays.
Walked(page, pc, emails, stale, rows, size, counted, total, seen, expected) ==
  walk' = [of |-> walk.of, page |-> page, pc |-> pc, emails |-> emails, stale |-> stale,
           rows |-> rows, size |-> size, counted |-> counted, total |-> total, seen |-> seen,
           expected |-> expected]

IsStale == walk.stale \/ (walk.of = "mirror" /\ walk.emails # EnrolledEmails(db))
SeenPage == walk.seen \cup ToSet(Page(Shown.items, Offset, PageSize))
TotalRead == IF Shown.total = "cached" THEN cached ELSE Len(Shown.items)
EmailsRead == IF walk.of = "mirror" THEN EnrolledEmails(db) ELSE {}

LEMMA WalkSteps ==
  ASSUME ListsTypeOK
  PROVE  /\ WriteTables(db') =>
              Walked(walk.page, walk.pc, walk.emails, walk.stale, walk.rows, walk.size,
                     walk.counted, walk.total, walk.seen,
                     NeverMovedUp(Items(db), Items(db)'))
         /\ OpenList =>
              Walked(1, "open", {}, FALSE, FALSE, 0, FALSE, 0, {}, ToSet(Items(db)))
         /\ RefusePage =>
              Walked(walk.page, "refused", walk.emails, walk.stale, walk.rows, walk.size,
                     walk.counted, walk.total, walk.seen, walk.expected)
         /\ OpenPage =>
              Walked(walk.page, "page", EmailsRead, walk.stale, walk.rows, walk.size,
                     walk.counted, walk.total, walk.seen, walk.expected)
         /\ ReadRows =>
              Walked(walk.page, walk.pc, walk.emails, IsStale, TRUE, Len(Shown.items),
                     walk.counted, walk.total, SeenPage, walk.expected)
         /\ ReadTotal =>
              Walked(walk.page, walk.pc, walk.emails, walk.stale, walk.rows, walk.size,
                     TRUE, TotalRead, walk.seen, walk.expected)
         /\ TurnPage =>
              IF walk.page * PageSize < walk.total
              THEN Walked(walk.page + 1, "open", walk.emails, walk.stale, FALSE, walk.size,
                          FALSE, walk.total, walk.seen, walk.expected)
              ELSE Walked(walk.page, "done", walk.emails, walk.stale, walk.rows, walk.size,
                          walk.counted, walk.total, walk.seen, walk.expected)
<1> DEFINE Rec(of, page, pc, emails, stale, rows, size, counted, total, seen, expected) ==
      [of |-> of, page |-> page, pc |-> pc, emails |-> emails, stale |-> stale,
       rows |-> rows, size |-> size, counted |-> counted, total |-> total, seen |-> seen,
       expected |-> expected]
    o == walk.of  p == walk.page  c == walk.pc  m == walk.emails  t == walk.stale
    r == walk.rows  z == walk.size  d == walk.counted  n == walk.total  s == walk.seen
    e == walk.expected
<1>1. walk = Rec(o, p, c, m, t, r, z, d, n, s, e)
  BY DEF ListsTypeOK, WalkTypeOK
<1>2. walk.of = o
  OBVIOUS
<1>3. ASSUME WriteTables(db')
      PROVE  Walked(p, c, m, t, r, z, d, n, s, NeverMovedUp(Items(db), Items(db)'))
  <2> DEFINE x == NeverMovedUp(Items(db), Listing(walk.of, db', EnrolledEmails(db')).items)
  <2>1. walk' = [walk EXCEPT !.expected = x]
    BY <1>3 DEF WriteTables, Items
  <2> HIDE DEF x, o, p, c, m, t, r, z, d, n, s, e
  <2>2. walk' = Rec(o, p, c, m, t, r, z, d, n, s, x)
    BY <1>1, <2>1
  <2>3. walk'.of = o
    BY <2>2
  <2>4. x = NeverMovedUp(Items(db), Items(db)')
    BY <1>2, <2>3 DEF x, Items, EnrolledEmails
  <2> QED BY <1>2, <2>2, <2>4 DEF Walked
<1>4. ASSUME OpenList
      PROVE  Walked(1, "open", {}, FALSE, FALSE, 0, FALSE, 0, {}, ToSet(Items(db)))
  BY <1>4 DEF OpenList, FirstPage, Items, Walked
<1>5. ASSUME RefusePage
      PROVE  Walked(p, "refused", m, t, r, z, d, n, s, e)
  <2>1. walk' = [walk EXCEPT !.pc = "refused"]
    BY <1>5 DEF RefusePage
  <2> HIDE DEF o, p, c, m, t, r, z, d, n, s, e
  <2> QED BY <1>1, <1>2, <2>1 DEF Walked
<1>6. ASSUME OpenPage
      PROVE  Walked(p, "page", EmailsRead, t, r, z, d, n, s, e)
  <2>1. walk' = [walk EXCEPT !.pc = "page", !.emails = EmailsRead]
    BY <1>6 DEF OpenPage, EmailsRead
  <2> HIDE DEF o, p, c, m, t, r, z, d, n, s, e
  <2> QED BY <1>1, <1>2, <2>1 DEF Walked
<1>7. ASSUME ReadRows
      PROVE  Walked(p, c, m, IsStale, TRUE, Len(Shown.items), d, n, SeenPage, e)
  <2> DEFINE l == Len(Shown.items)
             b == IsStale
             y == SeenPage
  <2>1. walk' = [walk EXCEPT !.rows = TRUE, !.size = l, !.stale = b, !.seen = y]
    BY <1>7, Zenon DEF ReadRows, IsStale, SeenPage
  <2> HIDE DEF l, b, y, o, p, c, m, t, r, z, d, n, s, e
  <2>2. walk' = Rec(o, p, c, m, b, TRUE, l, d, n, y, e)
    BY <1>1, <2>1
  <2> QED BY <1>2, <2>2, Zenon DEF Walked, l, b, y
<1>8. ASSUME ReadTotal
      PROVE  Walked(p, c, m, t, r, z, TRUE, TotalRead, s, e)
  <2> DEFINE l == TotalRead
  <2>1. walk' = [walk EXCEPT !.counted = TRUE, !.total = l]
    BY <1>8, Zenon DEF ReadTotal, TotalRead
  <2> HIDE DEF l, o, p, c, m, t, r, z, d, n, s, e
  <2> QED BY <1>1, <1>2, <2>1 DEF Walked, l
<1>9. ASSUME TurnPage
      PROVE  IF p * PageSize < n
             THEN Walked(p + 1, "open", m, t, FALSE, z, FALSE, n, s, e)
             ELSE Walked(p, "done", m, t, r, z, d, n, s, e)
  <2>1. walk' = IF p * PageSize < n
                THEN [walk EXCEPT !.page = p + 1, !.pc = "open", !.rows = FALSE, !.counted = FALSE]
                ELSE [walk EXCEPT !.pc = "done"]
    BY <1>9 DEF TurnPage
  <2> HIDE DEF o, p, c, m, t, r, z, d, n, s, e
  <2>2. CASE p * PageSize < n
    BY <1>1, <1>2, <2>1, <2>2 DEF Walked
  <2>3. CASE ~(p * PageSize < n)
    BY <1>1, <1>2, <2>1, <2>3 DEF Walked
  <2> QED BY <2>2, <2>3
<1> QED BY <1>3, <1>4, <1>5, <1>6, <1>7, <1>8, <1>9

LEMMA ShownIsSequence ==
  ASSUME ListsTypeOK
  PROVE  /\ Items(db) \in Seq(ToSet(Items(db))) /\ Len(Items(db)) \in Nat
         /\ Shown.items \in Seq(ToSet(Shown.items)) /\ Len(Shown.items) \in Nat
         /\ walk.of # "mirror" => Shown.items = Items(db)
         /\ walk.emails = EnrolledEmails(db) => Shown.items = Items(db)
<1>1. walk.of \in Lists /\ db \in Tables
  BY DEF ListsTypeOK, WalkTypeOK
<1>2. Items(db) \in Seq(ToSet(Items(db)))
  BY <1>1, ListingIsSequence DEF Items
<1>3. Shown.items \in Seq(ToSet(Shown.items))
  BY <1>1, ListingIsSequence DEF Shown
<1>4. walk.of # "mirror" => Shown.items = Items(db)
  BY <1>1, EmailsMatter, Zenon DEF Shown, Items
<1>5. walk.emails = EnrolledEmails(db) => Shown.items = Items(db)
  BY Zenon DEF Shown, Items
<1>6. Len(Items(db)) \in Nat /\ Len(Shown.items) \in Nat
  <2>1. Len(Items(db)) \in Nat
    BY <1>2, LenProperties
  <2>2. Len(Shown.items) \in Nat
    BY <1>3, LenProperties
  <2> QED BY <2>1, <2>2
<1> QED BY <1>2, <1>3, <1>4, <1>5, <1>6

-----------------------------------------------------------------------------
(* Types of the lists *)

LEMMA WalkedType ==
  ASSUME walk.of \in Lists, NEW page \in Nat \ {0},
         NEW pc \in {"idle", "open", "page", "refused", "done"},
         NEW emails \in SUBSET Addresses, NEW stale \in BOOLEAN, NEW rows \in BOOLEAN,
         NEW size \in Nat, NEW counted \in BOOLEAN, NEW total \in Nat, NEW seen, NEW expected,
         Walked(page, pc, emails, stale, rows, size, counted, total, seen, expected)
  PROVE  /\ WalkTypeOK'
         /\ walk'.of = walk.of /\ walk'.page = page /\ walk'.pc = pc /\ walk'.emails = emails
         /\ walk'.size = size /\ walk'.total = total
         /\ walk'.seen = seen /\ walk'.expected = expected
         /\ walk'.stale = stale /\ walk'.rows = rows /\ walk'.counted = counted
<1>1. /\ walk'.of = walk.of /\ walk'.page = page /\ walk'.pc = pc /\ walk'.emails = emails
      /\ walk'.size = size /\ walk'.total = total /\ walk'.seen = seen
      /\ walk'.expected = expected
  BY Zenon DEF Walked
<1>2. walk'.stale = stale /\ walk'.rows = rows /\ walk'.counted = counted
  BY Zenon DEF Walked
<1>3. walk' = [of |-> walk'.of, page |-> walk'.page, pc |-> walk'.pc, emails |-> walk'.emails,
               stale |-> walk'.stale, rows |-> walk'.rows, size |-> walk'.size,
               counted |-> walk'.counted, total |-> walk'.total, seen |-> walk'.seen,
               expected |-> walk'.expected]
  BY <1>1, <1>2, Zenon DEF Walked
<1> QED BY <1>1, <1>2, <1>3, Zenon DEF WalkTypeOK

LEMMA EmailsAreAddresses ==
  ASSUME NEW d \in Tables
  PROVE  EnrolledEmails(d) \in SUBSET Addresses
<1>1. \A i \in 1 .. Len(d.enrolled) : d.enrolled[i] \in Row
  BY ElementOfSeq DEF Tables
<1>2. \A i \in 1 .. Len(d.enrolled) : d.enrolled[i].student \in Addresses
  BY <1>1 DEF Row
<1> QED BY <1>2 DEF EnrolledEmails

LEMMA WalkTypeStep ==
  ASSUME ListsTypeOK, ListsNext
  PROVE  WalkTypeOK'
<1> DEFINE yes == TRUE
           no == FALSE
<1>0. /\ yes \in BOOLEAN /\ no \in BOOLEAN
      /\ 0 \in Nat /\ 1 \in Nat \ {0} /\ {} \in SUBSET Addresses
      /\ "open" \in {"idle", "open", "page", "refused", "done"}
  OBVIOUS
<1> HIDE DEF yes, no
<1>1. /\ walk.of \in Lists /\ walk.page \in Nat \ {0} /\ walk.emails \in SUBSET Addresses
      /\ walk.pc \in {"idle", "open", "page", "refused", "done"}
      /\ walk.size \in Nat /\ walk.total \in Nat /\ db \in Tables /\ cached \in Nat /\ writes \in Nat
  BY DEF ListsTypeOK, WalkTypeOK
<1>2. walk.stale \in BOOLEAN /\ walk.rows \in BOOLEAN /\ walk.counted \in BOOLEAN
  BY Zenon DEF ListsTypeOK, WalkTypeOK
<1>3. Len(Shown.items) \in Nat
  BY ShownIsSequence
<1>4. CASE WriteTables(db')
  <2>1. Walked(walk.page, walk.pc, walk.emails, walk.stale, walk.rows, walk.size,
               walk.counted, walk.total, walk.seen, NeverMovedUp(Items(db), Items(db)'))
    BY <1>4, WalkSteps
  <2> QED BY <1>1, <1>2, <2>1, WalkedType
<1>5. CASE OpenList
  <2>1. Walked(1, "open", {}, no, no, 0, no, 0, {}, ToSet(Items(db)))
    BY <1>5, WalkSteps DEF no
  <2> QED BY <1>0, <1>1, <2>1, WalkedType
<1>6. CASE RefusePage
  <2>1. Walked(walk.page, "refused", walk.emails, walk.stale, walk.rows, walk.size,
               walk.counted, walk.total, walk.seen, walk.expected)
    BY <1>6, WalkSteps
  <2> QED BY <1>1, <1>2, <2>1, WalkedType
<1>7. CASE OpenPage
  <2>1. Walked(walk.page, "page", EmailsRead, walk.stale, walk.rows, walk.size,
               walk.counted, walk.total, walk.seen, walk.expected)
    BY <1>7, WalkSteps
  <2>2. EmailsRead \in SUBSET Addresses
    BY <1>1, EmailsAreAddresses DEF EmailsRead
  <2> QED BY <1>1, <1>2, <2>1, <2>2, WalkedType
<1>8. CASE ReadRows
  <2>1. Walked(walk.page, walk.pc, walk.emails, IsStale, yes, Len(Shown.items),
               walk.counted, walk.total, SeenPage, walk.expected)
    BY <1>8, WalkSteps DEF yes
  <2>2. IsStale \in BOOLEAN
    BY Zenon DEF IsStale
  <2> QED BY <1>0, <1>1, <1>2, <1>3, <2>1, <2>2, WalkedType
<1>9. CASE ReadTotal
  <2>1. Walked(walk.page, walk.pc, walk.emails, walk.stale, walk.rows, walk.size,
               yes, TotalRead, walk.seen, walk.expected)
    BY <1>9, WalkSteps DEF yes
  <2>2. TotalRead \in Nat
    BY <1>1, <1>3 DEF TotalRead
  <2> QED BY <1>0, <1>1, <1>2, <2>1, <2>2, WalkedType
<1>10. CASE TurnPage
  <2>1. CASE walk.page * PageSize < walk.total
    <3>1. Walked(walk.page + 1, "open", walk.emails, walk.stale, no, walk.size,
                 no, walk.total, walk.seen, walk.expected)
      BY <1>10, <2>1, WalkSteps DEF no
    <3>2. walk.page + 1 \in Nat \ {0}
      BY <1>1
    <3> QED BY <1>0, <1>1, <1>2, <3>1, <3>2, WalkedType
  <2>2. CASE ~(walk.page * PageSize < walk.total)
    <3>1. Walked(walk.page, "done", walk.emails, walk.stale, walk.rows, walk.size,
                 walk.counted, walk.total, walk.seen, walk.expected)
      BY <1>10, <2>2, WalkSteps
    <3> QED BY <1>1, <1>2, <3>1, WalkedType
  <2> QED BY <2>1, <2>2
<1>11. CASE LoadCount \/ OpenExport \/ ReadBatch
  <2>1. walk' = walk
    BY <1>11 DEF LoadCount, OpenExport, ReadBatch, Stream
  <2>2. WalkTypeOK
    BY Zenon DEF ListsTypeOK, WalkTypeOK
  <2> QED BY <2>1, <2>2, Zenon DEF WalkTypeOK
<1> QED BY <1>1, <1>4, <1>5, <1>6, <1>7, <1>8, <1>9, <1>10, <1>11, TablesChange

\* The export's account through any step.
LEMMA ExportStep ==
  ASSUME ListsTypeOK, ExportInv, ListsNext
  PROVE  ExportInv' /\ export' \in Exports
<1>1. export \in Exports
  BY DEF ListsTypeOK
<1>2. CASE UNCHANGED export /\ ToSet(db.payments) \subseteq ToSet(db'.payments)
  BY <1>1, <1>2 DEF ExportInv
<1>3. CASE WriteTables(db') /\ Keeps(db, db')
  BY <1>2, <1>3 DEF WriteTables, Keeps
<1>4. CASE LoadCount \/ OpenList \/ RefusePage \/ OpenPage \/ ReadRows \/ ReadTotal \/ TurnPage
  BY <1>2, <1>4 DEF LoadCount, OpenList, RefusePage, OpenPage, ReadRows, ReadTotal, TurnPage
<1>5. CASE OpenExport
  <2> DEFINE P == ToSet(db.payments)
  <2>1. P \in SUBSET PaymentIds
    <3>1. db.payments \in Seq(PaymentIds)
      BY DEF ListsTypeOK, Tables
    <3>2. \A i \in 1 .. Len(db.payments) : db.payments[i] \in PaymentIds
      BY <3>1, ElementOfSeq
    <3>3. DOMAIN db.payments = 1 .. Len(db.payments)
      BY <3>1
    <3> QED BY <3>2, <3>3 DEF ToSet
  <2>2. ToSet(db'.payments) = P
    BY <1>5 DEF OpenExport
  <2>3. export' = [pc |-> "batch", cursor |-> 0, out |-> << >>, expected |-> P]
    BY <1>5 DEF OpenExport
  <2> HIDE DEF P
  <2>4. export' \in Exports
    <3>1. << >> \in Seq(PaymentIds)
      OBVIOUS
    <3> QED BY <2>1, <2>3, <3>1 DEF Exports
  <2>5. /\ export'.pc = "batch" /\ export'.cursor = 0 /\ export'.out = << >>
        /\ export'.expected = P
    BY <2>3
  <2>6. Len(export'.out) = 0
    BY <2>5, EmptySeq
  <2>7. \A p \in P : ~(p <= 0)
    BY <2>1, ListsAssumption
  <2> QED BY <2>2, <2>4, <2>5, <2>6, <2>7 DEF ExportInv
<1>6. CASE ReadBatch
  BY <1>6, ReadBatchStep
<1>7. db \in Tables /\ writes \in Nat
  BY DEF ListsTypeOK
<1> QED BY <1>3, <1>4, <1>5, <1>6, <1>7, TablesChange

LEMMA ListsTypeStep ==
  ASSUME ListsTypeOK, ExportInv, ListsNext
  PROVE  ListsTypeOK'
<1>1. db \in Tables /\ writes \in Nat /\ cached \in Nat
  BY DEF ListsTypeOK
<1>2. db' \in Tables /\ writes' \in Nat
  <2>1. CASE WriteTables(db') /\ db' \in Tables
    BY <1>1, <2>1 DEF WriteTables
  <2>2. CASE LoadCount \/ OpenExport \/ ReadBatch
    BY <1>1, <2>2 DEF LoadCount, OpenExport, ReadBatch, Stream
  <2>3. CASE OpenList \/ RefusePage \/ OpenPage \/ ReadRows \/ ReadTotal \/ TurnPage
    BY <1>1, <2>3 DEF OpenList, RefusePage, OpenPage, ReadRows, ReadTotal, TurnPage
  <2> QED BY <1>1, <2>1, <2>2, <2>3, TablesChange
<1>3. cached' \in Nat
  <2>1. CASE WriteTables(db')
    BY <1>1, <2>1 DEF WriteTables
  <2>2. CASE LoadCount
    BY <2>2, ShownIsSequence DEF LoadCount
  <2>3. CASE OpenExport \/ ReadBatch
    BY <1>1, <2>3 DEF OpenExport, ReadBatch, Stream
  <2>4. CASE OpenList \/ RefusePage \/ OpenPage \/ ReadRows \/ ReadTotal \/ TurnPage
    BY <1>1, <2>4 DEF OpenList, RefusePage, OpenPage, ReadRows, ReadTotal, TurnPage
  <2> QED BY <1>1, <2>1, <2>2, <2>3, <2>4, TablesChange
<1> QED BY <1>2, <1>3, ExportStep, WalkTypeStep DEF ListsTypeOK

LEMMA ListsInitType ==
  ASSUME ListsInit
  PROVE  ListsTypeOK /\ ExportInv
<1>1. db \in Tables
  <2>1. PICK n \in {0, OwnedAtFirst} :
          db = [enrolled |-> [i \in 1 .. n |-> [student |-> Visited, type |-> "EXTERNAL",
                                                live |-> TRUE, mine |-> TRUE]],
                mirror |-> [s \in Addresses |-> 0], payments |-> << >>, followups |-> << >>]
    BY DEF ListsInit
  <2> DEFINE r == [student |-> Visited, type |-> "EXTERNAL", live |-> TRUE, mine |-> TRUE]
             e == [i \in 1 .. n |-> r]
             m == [s \in Addresses |-> 0]
  <2>2. r \in Row
    BY ListsAssumption DEF Row
  <2>3. n \in Nat
    BY ListsAssumption
  <2> HIDE DEF r
  <2>4. e \in Seq(Row)
    BY <2>2, <2>3
  <2>5. m \in [Addresses -> Nat]
    OBVIOUS
  <2>6. db = [enrolled |-> e, mirror |-> m, payments |-> << >>, followups |-> << >>]
    BY <2>1 DEF r
  <2> HIDE DEF e, m
  <2>7. << >> \in Seq(PaymentIds) /\ << >> \in Seq({"open", "closed"})
    OBVIOUS
  <2> QED BY <2>4, <2>5, <2>6, <2>7 DEF Tables
<1>2. export \in Exports /\ ExportInv
  <2>1. export = [pc |-> "idle", cursor |-> 0, out |-> << >>, expected |-> {}]
    BY DEF ListsInit
  <2>2. Len(export.out) = 0
    BY <2>1, EmptySeq
  <2>3. << >> \in Seq(PaymentIds)
    OBVIOUS
  <2>4. export \in Exports
    BY <2>1, <2>3 DEF Exports
  <2> QED BY <2>1, <2>2, <2>4 DEF ExportInv
<1>3. WalkTypeOK
  <2>1. PICK name \in Lists : walk = [FirstPage(name) EXCEPT !.pc = "idle"]
    BY DEF ListsInit
  <2>2. walk = [of |-> name, page |-> 1, pc |-> "idle", emails |-> {}, stale |-> FALSE,
                rows |-> FALSE, size |-> 0, counted |-> FALSE, total |-> 0, seen |-> {},
                expected |-> ToSet(Listing(name, db, EnrolledEmails(db)).items)]
    BY <2>1 DEF FirstPage
  <2> QED BY <2>2 DEF WalkTypeOK
<1>4. writes \in Nat /\ cached \in Nat
  BY DEF ListsInit
<1> QED BY <1>1, <1>2, <1>3, <1>4 DEF ListsTypeOK

\* The tables, the walk and the export keep their types, and the export its account.
THEOREM ListsTypeCorrect == ListsSpec => [](ListsTypeOK /\ ExportInv)
<1>1. ListsInit => ListsTypeOK /\ ExportInv
  BY ListsInitType
<1>2. ListsTypeOK /\ ExportInv /\ [ListsNext]_listVars => (ListsTypeOK /\ ExportInv)'
  <2>1. CASE ListsNext
    BY <2>1, ListsTypeStep, ExportStep
  <2>2. CASE UNCHANGED listVars
    BY <2>2, Zenon DEF listVars, ListsTypeOK, WalkTypeOK, ExportInv
  <2> QED BY <2>1, <2>2
<1> QED BY <1>1, <1>2, PTL DEF ListsSpec

\* The export has every payment that existed when it began, and none twice
\* (streamPaymentsForExport: batches after the last id, in the order of ids).
THEOREM ExportIsCompleteHolds == ListsSpec => []ExportIsComplete
<1>1. ListsTypeOK /\ ExportInv => ExportIsComplete
  <2> SUFFICES ASSUME ListsTypeOK, ExportInv
               PROVE  ExportIsComplete
    OBVIOUS
  <2>1. export.out \in Seq(PaymentIds)
    BY DEF ListsTypeOK, Exports
  <2>2. \A i \in 1 .. Len(export.out) : export.out[i] \in Nat
    <3>1. \A i \in 1 .. Len(export.out) : export.out[i] \in PaymentIds
      BY <2>1, ElementOfSeq
    <3> QED BY <3>1, ListsAssumption
  <2> QED BY <2>2 DEF ExportInv, ExportIsComplete
<1> QED BY <1>1, ListsTypeCorrect, PTL

-----------------------------------------------------------------------------
(* What an admin has seen *)

\* Of what may be expected, everything up to the n-th item has been seen.
SeenTo(n) == \A x \in walk.expected : Position(Items(db), x) <= n => x \in walk.seen

WalkInv ==
  /\ walk.expected \subseteq ToSet(Items(db))
  /\ walk.stale => walk.of = "mirror"
  /\ ~walk.stale =>
       /\ ~walk.rows => SeenTo(Offset)
       /\ walk.rows => /\ SeenTo(walk.page * PageSize)
                       /\ walk.size <= walk.page * PageSize => walk.expected \subseteq walk.seen
       /\ /\ walk.of \in TotalAfter \ {"mirror"}
          /\ walk.counted /\ walk.total <= walk.page * PageSize
          => walk.expected \subseteq walk.seen
  /\ walk.of \in TotalAfter /\ walk.counted => walk.rows
  /\ walk.of = "mirror" /\ walk.rows =>
       IF walk.counted THEN walk.size <= walk.total ELSE walk.size <= Len(Shown.items)
  /\ walk.pc = "done" => walk.rows /\ walk.counted /\ walk.total <= walk.page * PageSize
  /\ walk.pc \in {"idle", "open"} => ~walk.rows /\ ~walk.counted

LEMMA PositionProperties ==
  ASSUME NEW s, s \in Seq(ToSet(s)), NEW x \in ToSet(s)
  PROVE  Position(s, x) \in 1 .. Len(s) /\ s[Position(s, x)] = x
<1>1. DOMAIN s = 1 .. Len(s)
  OBVIOUS
<1>2. \E i \in 1 .. Len(s) : s[i] = x
  BY <1>1 DEF ToSet
<1> QED BY <1>2 DEF Position

\* Where the next page begins.
LEMMA PagesMeet ==
  ASSUME ListsTypeOK
  PROVE  /\ Offset \in Nat /\ walk.page * PageSize \in Nat
         /\ Offset + PageSize = walk.page * PageSize
         /\ ((walk.page + 1) - 1) * PageSize = walk.page * PageSize
<1>1. walk.page \in Nat \ {0} /\ PageSize \in Nat
  BY ListsAssumption DEF ListsTypeOK, WalkTypeOK
<1>2. PICK p \in Nat : p = walk.page - 1
  BY <1>1
<1>3. walk.page = p + 1 /\ (walk.page + 1) - 1 = walk.page
  BY <1>1, <1>2
<1>4. (p + 1) * PageSize = p * PageSize + PageSize /\ p * PageSize \in Nat
  BY <1>1
<1>5. Offset = p * PageSize
  BY <1>2 DEF Offset
<1> QED BY <1>1, <1>3, <1>4, <1>5

\* A write moves the items; what moved up is no longer expected.
LEMMA WriteKeepsWalk ==
  ASSUME ListsTypeOK, WalkInv, ListsTypeOK', WriteTables(db'), Keeps(db, db')
  PROVE  WalkInv'
<1> DEFINE I == Items(db)
           J == Items(db)'
           e == NeverMovedUp(I, J)
<1>1. Walked(walk.page, walk.pc, walk.emails, walk.stale, walk.rows, walk.size,
             walk.counted, walk.total, walk.seen, e)
  BY WalkSteps
<1>2. /\ walk'.of = walk.of /\ walk'.page = walk.page /\ walk'.pc = walk.pc
      /\ walk'.emails = walk.emails /\ walk'.size = walk.size /\ walk'.total = walk.total
      /\ walk'.seen = walk.seen /\ walk'.expected = e
      /\ walk'.stale = walk.stale /\ walk'.rows = walk.rows /\ walk'.counted = walk.counted
  BY <1>1, Zenon DEF Walked
<1>3. I \in Seq(ToSet(I)) /\ J \in Seq(ToSet(J))
  <2>1. I \in Seq(ToSet(I))
    BY ShownIsSequence
  <2>2. walk'.of \in Lists /\ db' \in Tables
    BY DEF ListsTypeOK, WalkTypeOK
  <2>3. J = Listing(walk'.of, db', EnrolledEmails(db')).items
    BY DEF Items, EnrolledEmails
  <2> HIDE DEF I, J
  <2>4. J \in Seq(ToSet(J))
    BY <2>2, <2>3, ListingIsSequence
  <2> QED BY <2>1, <2>4
<1>4. Offset' = Offset
  BY <1>2 DEF Offset
<1>5. walk.expected \subseteq ToSet(I)
  BY DEF WalkInv
<1> HIDE DEF I, J
<1>6. e \subseteq ToSet(J) /\ e \subseteq walk.expected
  BY DEF NeverMovedUp
<1>7. ASSUME NEW n \in Nat, SeenTo(n)
      PROVE  SeenTo(n)'
  <2> SUFFICES ASSUME NEW x \in e, Position(J, x) <= n
               PROVE  x \in walk.seen
    BY <1>2 DEF SeenTo, J
  <2>1. Position(J, x) \in Int /\ Position(I, x) \in Int
    <3>1. Position(J, x) \in 1 .. Len(J)
      BY <1>3, <1>6, PositionProperties
    <3>2. Position(I, x) \in 1 .. Len(I)
      BY <1>3, <1>5, <1>6, PositionProperties
    <3>3. Len(I) \in Nat /\ Len(J) \in Nat
      BY <1>3, LenProperties
    <3> QED BY <3>1, <3>2, <3>3
  <2>2. Position(I, x) <= Position(J, x)
    BY <2>1 DEF NeverMovedUp
  <2>3. Position(I, x) <= n
    BY <2>1, <2>2
  <2> QED BY <1>6, <1>7, <2>3 DEF SeenTo, I
<1>8. Offset \in Nat /\ walk.page * PageSize \in Nat
  BY PagesMeet
<1>9. walk.of = "mirror" /\ walk.size <= Len(Shown.items) => walk.size <= Len(Shown.items)'
  <2> SUFFICES ASSUME walk.of = "mirror", walk.size <= Len(Shown.items)
               PROVE  walk.size <= Len(Shown.items)'
    OBVIOUS
  <2>1. Shown = listFromDb(db, walk.emails)
    BY DEF Shown, Listing
  <2>2. Shown' = listFromDb(db', walk.emails)
    BY <1>2 DEF Shown, Listing, listFromDb
  <2>3. db \in Tables /\ db' \in Tables /\ walk.size \in Nat
    BY DEF ListsTypeOK, WalkTypeOK
  <2> DEFINE a == Len(listFromDb(db, walk.emails).items)
             b == Len(listFromDb(db', walk.emails).items)
  <2>4. a <= b
    BY <2>3, MirrorGrows
  <2>5. a \in Nat
    BY <2>3, MirrorLength, FS_CardinalityType
  <2>6. b \in Nat
    BY <2>3, MirrorLength, FS_CardinalityType
  <2>7. walk.size <= a
    BY <2>1
  <2> HIDE DEF a, b
  <2>8. walk.size <= b
    BY <2>3, <2>4, <2>5, <2>6, <2>7
  <2> QED BY <2>2, <2>8 DEF b
<1>10. (walk.expected \subseteq ToSet(Items(db)))'
  BY <1>2, <1>6 DEF J
<1>11. (walk.page * PageSize)' = walk.page * PageSize
  BY <1>2
<1> DEFINE top == walk.page * PageSize
<1>12. /\ SeenTo(Offset) => SeenTo(Offset)'
       /\ SeenTo(top) => SeenTo(top)'
  <2>1. SeenTo(Offset) => SeenTo(Offset)'
    <3>1. PICK n \in Nat : n = Offset
      BY <1>8
    <3>2. SeenTo(n) => SeenTo(n)'
      BY <1>7
    <3>3. SeenTo(Offset) => SeenTo(n)
      BY <3>1
    <3>4. SeenTo(n)' => SeenTo(Offset)'
      BY <1>4, <3>1 DEF SeenTo
    <3> QED BY <3>2, <3>3, <3>4
  <2>2. SeenTo(top) => SeenTo(top)'
    <3>1. PICK n \in Nat : n = top
      BY <1>8
    <3>2. SeenTo(n) => SeenTo(n)'
      BY <1>7
    <3>3. SeenTo(top) => SeenTo(n)
      BY <3>1
    <3>4. SeenTo(n)' => SeenTo(top)'
      BY <1>11, <3>1 DEF SeenTo
    <3> QED BY <3>2, <3>3, <3>4
  <2> QED BY <2>1, <2>2
<1> HIDE DEF e
<1>13. walk.expected \subseteq walk.seen => (walk.expected \subseteq walk.seen)'
  BY <1>2, <1>6
<1>14. WalkInv
  OBVIOUS
<1> QED BY <1>2, <1>9, <1>10, <1>11, <1>12, <1>13, <1>14, Zenon DEF WalkInv

\* The rows of a page join what has been seen.
LEMMA ReadRowsKeepsWalk ==
  ASSUME ListsTypeOK, WalkInv, ReadRows
  PROVE  WalkInv'
<1> DEFINE I == Items(db)
           e == walk.expected
           top == walk.page * PageSize
           size == Len(Shown.items)
           stale == IsStale
           seen == SeenPage
<1>1. Walked(walk.page, walk.pc, walk.emails, stale, TRUE, size, walk.counted, walk.total, seen, e)
  BY WalkSteps
<1>2. /\ walk'.of = walk.of /\ walk'.page = walk.page /\ walk'.pc = walk.pc
      /\ walk'.emails = walk.emails /\ walk'.size = size /\ walk'.total = walk.total
      /\ walk'.seen = seen /\ walk'.expected = e
      /\ walk'.stale = stale /\ walk'.rows = TRUE /\ walk'.counted = walk.counted
  BY <1>1, Zenon DEF Walked
<1>3. db' = db /\ walk.pc = "page" /\ ~walk.rows
  BY DEF ReadRows
<1>4. /\ I \in Seq(ToSet(I)) /\ Len(I) \in Nat
      /\ walk.of # "mirror" => Shown.items = I
      /\ walk.emails = EnrolledEmails(db) => Shown.items = I
  BY ShownIsSequence
<1>5. I' = I
  BY <1>2, <1>3 DEF Items, EnrolledEmails
<1>6. e \subseteq ToSet(I)
  BY DEF WalkInv
<1>7. ~stale => ~walk.stale /\ Shown.items = I
  BY <1>4, Zenon DEF IsStale
<1>8. ~walk.stale => SeenTo(Offset)
  BY <1>3, Zenon DEF WalkInv
<1>9. Offset \in Nat /\ top \in Nat /\ Offset + PageSize = top /\ PageSize \in Nat
  BY PagesMeet, ListsAssumption
<1>10. stale => walk.of = "mirror"
  BY Zenon DEF IsStale, WalkInv
<1> HIDE DEF I, top, stale
<1>11. ASSUME ~stale, NEW x \in e, Position(I, x) <= top
       PROVE  x \in seen
  <2>1. Position(I, x) \in 1 .. Len(I) /\ I[Position(I, x)] = x
    BY <1>4, <1>6, PositionProperties
  <2>2. seen = walk.seen \cup ToSet(Page(I, Offset, PageSize))
    BY <1>7, <1>11 DEF SeenPage
  <2>3. CASE Position(I, x) <= Offset
    BY <1>7, <1>8, <1>11, <2>2, <2>3 DEF SeenTo, I
  <2>4. CASE ~(Position(I, x) <= Offset)
    <3>1. Offset < Position(I, x) /\ Position(I, x) <= Offset + PageSize
      BY <1>4, <1>9, <1>11, <2>1, <2>4
    <3> DEFINE p == Position(I, x)
    <3>2. p \in 1 .. Len(I) /\ I[p] = x /\ Offset < p /\ p <= Offset + PageSize
      BY <2>1, <3>1
    <3> HIDE DEF p
    <3>3. \A i \in 1 .. Len(I) : Offset < i /\ i <= Offset + PageSize
                                   => I[i] \in ToSet(Page(I, Offset, PageSize))
      BY <1>4, <1>9, PageProperties
    <3>4. x \in ToSet(Page(I, Offset, PageSize))
      BY <3>2, <3>3
    <3> QED BY <2>2, <3>4
  <2> QED BY <2>3, <2>4
<1>12. ASSUME ~stale, size <= top
       PROVE  e \subseteq seen
  <2> SUFFICES ASSUME NEW x \in e
               PROVE  x \in seen
    OBVIOUS
  <2>1. Position(I, x) \in 1 .. Len(I)
    BY <1>4, <1>6, PositionProperties
  <2>2. Len(I) <= top
    BY <1>7, <1>12
  <2>3. Position(I, x) <= top
    BY <1>4, <1>9, <2>1, <2>2
  <2> QED BY <1>11, <1>12, <2>3
<1>13. ~stale => SeenTo(top)'
  <2>1. top' = top
    BY <1>2 DEF top
  <2> QED BY <1>2, <1>5, <1>11, <2>1 DEF SeenTo, I
<1>14. (walk.expected \subseteq ToSet(Items(db)))'
  BY <1>2, <1>5, <1>6 DEF I
<1>15. (walk.page * PageSize)' = top
  BY <1>2 DEF top
<1>16. walk.of \in TotalAfter => ~walk.counted
  BY <1>3, Zenon DEF WalkInv
<1>17. walk.of = "mirror" => walk.of \in TotalAfter
  BY DEF TotalAfter
<1>18. size' = size
  BY <1>2, <1>3 DEF Shown
<1>19. size <= size
  BY ShownIsSequence
<1>20. SeenTo(walk.page * PageSize)' <=> SeenTo(top)'
  BY DEF top
<1> HIDE DEF seen, e
<1>21. ~walk'.stale =>
         /\ ~walk'.rows => SeenTo(Offset)'
         /\ walk'.rows => /\ SeenTo(walk.page * PageSize)'
                          /\ walk'.size <= (walk.page * PageSize)' =>
                               walk'.expected \subseteq walk'.seen
         /\ /\ walk'.of \in TotalAfter \ {"mirror"}
            /\ walk'.counted /\ walk'.total <= (walk.page * PageSize)'
            => walk'.expected \subseteq walk'.seen
  <2>1. walk'.of \in TotalAfter \ {"mirror"} => ~walk'.counted
    BY <1>2, <1>16
  <2>2. ~walk'.stale => /\ SeenTo(walk.page * PageSize)'
                        /\ walk'.size <= (walk.page * PageSize)' =>
                               walk'.expected \subseteq walk'.seen
    BY <1>2, <1>12, <1>13, <1>15, <1>20, Zenon
  <2>3. walk'.rows
    BY <1>2
  <2> QED BY <2>1, <2>2, <2>3, Zenon
<1>22. walk'.of = "mirror" /\ walk'.rows =>
         IF walk'.counted THEN walk'.size <= walk'.total ELSE walk'.size <= size'
  <2>1. walk'.of = "mirror" => ~walk'.counted
    BY <1>2, <1>16, <1>17
  <2>2. walk'.size <= size'
    BY <1>2, <1>18, <1>19
  <2> QED BY <2>1, <2>2, Zenon
<1>23. walk'.stale => walk'.of = "mirror"
  BY <1>2, <1>10, Zenon
<1>24. walk'.of \in TotalAfter /\ walk'.counted => walk'.rows
  BY <1>2, Zenon
<1>25. walk'.pc = "page"
  BY <1>2, <1>3
<1>26. walk'.pc # "done" /\ walk'.pc \notin {"idle", "open"}
  BY <1>25
<1> QED BY <1>14, <1>21, <1>22, <1>23, <1>24, <1>26, Zenon DEF WalkInv

\* The total that is read after the rows is not below them.
LEMMA ReadTotalKeepsWalk ==
  ASSUME ListsTypeOK, WalkInv, ReadTotal
  PROVE  WalkInv'
<1> DEFINE I == Items(db)
           e == walk.expected
           top == walk.page * PageSize
           total == TotalRead
<1>1. Walked(walk.page, walk.pc, walk.emails, walk.stale, walk.rows, walk.size, TRUE, total,
             walk.seen, e)
  BY WalkSteps
<1>2. /\ walk'.of = walk.of /\ walk'.page = walk.page /\ walk'.pc = walk.pc
      /\ walk'.emails = walk.emails /\ walk'.size = walk.size /\ walk'.total = total
      /\ walk'.seen = walk.seen /\ walk'.expected = e
      /\ walk'.stale = walk.stale /\ walk'.rows = walk.rows /\ walk'.counted = TRUE
  BY <1>1, Zenon DEF Walked
<1>3. db' = db /\ walk.pc = "page" /\ ~walk.counted
  BY DEF ReadTotal
<1>4. /\ I \in Seq(ToSet(I)) /\ Len(I) \in Nat
      /\ walk.of # "mirror" => Shown.items = I
  BY ShownIsSequence
<1>5. I' = I
  BY <1>2, <1>3 DEF Items, EnrolledEmails
<1>6. e \subseteq ToSet(I)
  BY DEF WalkInv
<1>7. walk.of \in TotalAfter => walk.rows /\ total = Len(Shown.items)
  <2> SUFFICES ASSUME walk.of \in TotalAfter
               PROVE  walk.rows /\ total = Len(Shown.items)
    OBVIOUS
  <2>1. Shown.total = "after"
    BY TotalIsAfter DEF Shown
  <2> QED BY <2>1, Zenon DEF ReadTotal, TotalRead
<1>8. Offset \in Nat /\ top \in Nat
  BY PagesMeet
<1>9. (walk.page * PageSize)' = top /\ Offset' = Offset
  BY <1>2 DEF Offset
<1>10. \A n : SeenTo(n) => SeenTo(n)'
  BY <1>2, <1>5 DEF SeenTo
<1> HIDE DEF I, total
<1>11. ASSUME ~walk.stale, walk.of \in TotalAfter \ {"mirror"}, total <= top
       PROVE  e \subseteq walk.seen
  <2> SUFFICES ASSUME NEW x \in e
               PROVE  x \in walk.seen
    OBVIOUS
  <2>1. Position(I, x) \in 1 .. Len(I)
    BY <1>4, <1>6, PositionProperties
  <2>2. Len(I) <= top
    BY <1>4, <1>7, <1>11
  <2>3. Position(I, x) <= top
    BY <1>4, <1>8, <2>1, <2>2
  <2>4. SeenTo(top)
    BY <1>7, <1>11, Zenon DEF WalkInv
  <2> QED BY <2>3, <2>4 DEF SeenTo, I
<1>12. walk.of = "mirror" => walk.rows /\ walk.size <= total
  <2>1. walk.of = "mirror" => walk.of \in TotalAfter
    BY DEF TotalAfter
  <2> QED BY <1>3, <1>7, <2>1, Zenon DEF WalkInv
<1>13. (walk.expected \subseteq ToSet(Items(db)))'
  BY <1>2, <1>5, <1>6 DEF I
<1> HIDE DEF e
<1>14. ~walk'.stale =>
         /\ ~walk'.rows => SeenTo(Offset)'
         /\ walk'.rows => /\ SeenTo(walk.page * PageSize)'
                          /\ walk'.size <= (walk.page * PageSize)' =>
                               walk'.expected \subseteq walk'.seen
         /\ /\ walk'.of \in TotalAfter \ {"mirror"}
            /\ walk'.counted /\ walk'.total <= (walk.page * PageSize)'
            => walk'.expected \subseteq walk'.seen
  <2>1. ~walk.stale =>
         /\ ~walk.rows => SeenTo(Offset)
         /\ walk.rows => SeenTo(top) /\ (walk.size <= top => e \subseteq walk.seen)
    BY Zenon DEF WalkInv, e
  <2>2. SeenTo(top) => SeenTo(walk.page * PageSize)'
    BY <1>9, <1>10 DEF SeenTo
  <2>3. SeenTo(Offset) => SeenTo(Offset)'
    BY <1>9, <1>10 DEF SeenTo
  <2> HIDE DEF top
  <2> QED BY <1>2, <1>9, <1>11, <2>1, <2>2, <2>3, Zenon
<1>15. walk'.of = "mirror" /\ walk'.rows =>
         IF walk'.counted THEN walk'.size <= walk'.total ELSE walk'.size <= Len(Shown.items)'
  BY <1>2, <1>12, Zenon
<1>16. walk'.of \in TotalAfter /\ walk'.counted => walk'.rows
  BY <1>2, <1>7, Zenon
<1>17. walk'.stale => walk'.of = "mirror"
  BY <1>2, Zenon DEF WalkInv
<1>18. walk'.pc # "done" /\ walk'.pc \notin {"idle", "open"}
  BY <1>2, <1>3
<1> QED BY <1>13, <1>14, <1>15, <1>16, <1>17, <1>18, Zenon DEF WalkInv

LEMMA TurnPageKeepsWalk ==
  ASSUME ListsTypeOK, WalkInv, TurnPage
  PROVE  WalkInv'
<1> DEFINE top == walk.page * PageSize
           I == Items(db)
<1>1. db' = db /\ walk.pc = "page" /\ walk.rows /\ walk.counted
  BY DEF TurnPage
<1>2. CASE top < walk.total
  <2>1. Walked(walk.page + 1, "open", walk.emails, walk.stale, FALSE, walk.size,
               FALSE, walk.total, walk.seen, walk.expected)
    BY <1>2, WalkSteps
  <2>2. /\ walk'.of = walk.of /\ walk'.page = walk.page + 1 /\ walk'.pc = "open"
        /\ walk'.seen = walk.seen /\ walk'.expected = walk.expected
        /\ walk'.stale = walk.stale /\ ~walk'.rows /\ ~walk'.counted
    BY <2>1, Zenon DEF Walked
  <2>3. I' = I
    BY <1>1, <2>2 DEF Items, EnrolledEmails
  <2>4. Offset' = top
    BY <2>2, PagesMeet DEF Offset
  <2>5. ~walk.stale => SeenTo(top)
    BY <1>1, Zenon DEF WalkInv
  <2>6. SeenTo(top) => SeenTo(Offset)'
    BY <2>2, <2>3, <2>4 DEF SeenTo
  <2>7. (walk.expected \subseteq ToSet(Items(db)))'
    <3>1. walk.expected \subseteq ToSet(I)
      BY DEF WalkInv
    <3> QED BY <2>2, <2>3, <3>1
  <2>8. walk'.pc # "done"
    BY <2>2
  <2>9. walk'.stale => walk'.of = "mirror"
    BY <2>2, Zenon DEF WalkInv
  <2>10. ~walk'.stale => SeenTo(Offset)'
    BY <2>2, <2>5, <2>6, Zenon
  <2> QED BY <2>2, <2>7, <2>8, <2>9, <2>10, Zenon DEF WalkInv
<1>3. CASE ~(top < walk.total)
  <2>1. Walked(walk.page, "done", walk.emails, walk.stale, walk.rows, walk.size,
               walk.counted, walk.total, walk.seen, walk.expected)
    BY <1>3, WalkSteps
  <2>2. /\ walk'.of = walk.of /\ walk'.page = walk.page /\ walk'.pc = "done"
        /\ walk'.emails = walk.emails /\ walk'.size = walk.size /\ walk'.total = walk.total
        /\ walk'.seen = walk.seen /\ walk'.expected = walk.expected
        /\ walk'.stale = walk.stale /\ walk'.rows = walk.rows /\ walk'.counted = walk.counted
    BY <2>1, Zenon DEF Walked
  <2>3. I' = I
    BY <1>1, <2>2 DEF Items, EnrolledEmails
  <2>4. (walk.page * PageSize)' = top /\ Offset' = Offset
    BY <2>2 DEF Offset
  <2>5. \A n : SeenTo(n) => SeenTo(n)'
    BY <2>2, <2>3 DEF SeenTo
  <2>6. walk.total <= top
    BY <1>3, PagesMeet DEF ListsTypeOK, WalkTypeOK
  <2>7. (walk.expected \subseteq ToSet(Items(db)))'
    <3>1. walk.expected \subseteq ToSet(I)
      BY DEF WalkInv
    <3> QED BY <2>2, <2>3, <3>1
  <2>8. SeenTo(top) => SeenTo(walk.page * PageSize)'
    BY <2>2, <2>3, <2>4 DEF SeenTo
  <2>9. ~walk.stale => SeenTo(top) /\ (walk.size <= top => walk.expected \subseteq walk.seen)
    BY <1>1, Zenon DEF WalkInv
  <2>10. ~walk.stale /\ walk.of \in TotalAfter \ {"mirror"} => walk.expected \subseteq walk.seen
    BY <1>1, <2>6, Zenon DEF WalkInv
  <2>11. walk.of = "mirror" => walk.size <= walk.total
    BY <1>1, Zenon DEF WalkInv
  <2>12. walk'.pc \notin {"idle", "open"} /\ walk'.rows /\ walk'.counted
    BY <1>1, <2>2
  <2>13. walk'.stale => walk'.of = "mirror"
    BY <2>2, Zenon DEF WalkInv
  <2> HIDE DEF top, I
  <2> QED BY <2>2, <2>4, <2>6, <2>7, <2>8, <2>9, <2>10, <2>11, <2>12, <2>13, Zenon DEF WalkInv
<1> QED BY <1>2, <1>3

LEMMA OpeningKeepsWalk ==
  ASSUME ListsTypeOK, WalkInv, OpenList \/ RefusePage \/ OpenPage
  PROVE  WalkInv'
<1> DEFINE I == Items(db)
<1>1. db' = db
  BY DEF OpenList, RefusePage, OpenPage
<1>2. CASE OpenList
  <2>1. Walked(1, "open", {}, FALSE, FALSE, 0, FALSE, 0, {}, ToSet(I))
    BY <1>2, WalkSteps
  <2>2. /\ walk'.of = walk.of /\ walk'.page = 1 /\ walk'.pc = "open" /\ walk'.expected = ToSet(I)
        /\ ~walk'.stale /\ ~walk'.rows /\ ~walk'.counted
    BY <2>1, Zenon DEF Walked
  <2>3. I' = I
    BY <1>1, <2>2 DEF Items, EnrolledEmails
  <2>4. Offset' = 0
    BY <2>2, ListsAssumption DEF Offset
  <2>5. SeenTo(Offset)'
    <3> SUFFICES ASSUME NEW x \in ToSet(I), Position(I, x) <= 0
                 PROVE  FALSE
      BY <2>2, <2>3, <2>4 DEF SeenTo
    <3>1. I \in Seq(ToSet(I)) /\ Len(I) \in Nat
      BY ShownIsSequence
    <3> HIDE DEF I
    <3>2. Position(I, x) \in 1 .. Len(I)
      BY <3>1, PositionProperties
    <3> QED BY <3>1, <3>2
  <2>6. (walk.expected \subseteq ToSet(Items(db)))'
    BY <2>2, <2>3
  <2>7. walk'.pc # "done"
    BY <2>2
  <2> QED BY <2>2, <2>5, <2>6, <2>7, Zenon DEF WalkInv
<1>3. CASE RefusePage \/ OpenPage
  <2>1. /\ walk'.of = walk.of /\ walk'.page = walk.page /\ walk'.pc \in {"refused", "page"}
        /\ walk'.seen = walk.seen /\ walk'.expected = walk.expected
        /\ walk'.stale = walk.stale /\ walk'.rows = walk.rows /\ walk'.counted = walk.counted
    <3>1. CASE RefusePage
      <4>1. Walked(walk.page, "refused", walk.emails, walk.stale, walk.rows, walk.size,
                   walk.counted, walk.total, walk.seen, walk.expected)
        BY <3>1, WalkSteps
      <4> QED BY <4>1, Zenon DEF Walked
    <3>2. CASE OpenPage
      <4>1. Walked(walk.page, "page", EmailsRead, walk.stale, walk.rows, walk.size,
                   walk.counted, walk.total, walk.seen, walk.expected)
        BY <3>2, WalkSteps
      <4> QED BY <4>1, Zenon DEF Walked
    <3> QED BY <1>3, <3>1, <3>2
  <2>2. ~walk.rows /\ ~walk.counted
    <3>1. walk.pc = "open"
      BY <1>3 DEF RefusePage, OpenPage
    <3> QED BY <3>1, Zenon DEF WalkInv
  <2>3. I' = I
    BY <1>1, <2>1 DEF Items, EnrolledEmails
  <2>4. Offset' = Offset
    BY <2>1 DEF Offset
  <2>5. SeenTo(Offset) => SeenTo(Offset)'
    BY <2>1, <2>3, <2>4 DEF SeenTo
  <2>6. (walk.expected \subseteq ToSet(Items(db)))'
    <3>1. walk.expected \subseteq ToSet(I)
      BY DEF WalkInv
    <3> QED BY <2>1, <2>3, <3>1
  <2>7. walk'.pc # "done"
    BY <2>1
  <2>8. walk'.stale => walk'.of = "mirror"
    BY <2>1, Zenon DEF WalkInv
  <2>9. ~walk'.stale => SeenTo(Offset)'
    BY <2>1, <2>2, <2>5, Zenon DEF WalkInv
  <2>10. ~walk'.rows /\ ~walk'.counted
    BY <2>1, <2>2
  <2> QED BY <2>6, <2>7, <2>8, <2>9, <2>10, Zenon DEF WalkInv
<1> QED BY <1>2, <1>3

LEMMA WalkUnchanged ==
  ASSUME WalkInv, walk' = walk, db' = db
  PROVE  WalkInv'
<1>1. Items(db)' = Items(db) /\ Offset' = Offset /\ Shown' = Shown
  BY Zenon DEF Items, EnrolledEmails, Offset, Shown
<1> QED BY <1>1, Zenon DEF WalkInv, SeenTo

LEMMA WalkInvInit ==
  ASSUME ListsInit
  PROVE  WalkInv
<1>1. PICK name \in Lists : walk = [FirstPage(name) EXCEPT !.pc = "idle"]
  BY DEF ListsInit
<1>2. /\ walk.of = name /\ walk.page = 1 /\ walk.pc = "idle"
      /\ ~walk.stale /\ ~walk.rows /\ ~walk.counted
      /\ walk.expected = ToSet(Listing(name, db, EnrolledEmails(db)).items)
  BY <1>1 DEF FirstPage
<1>3. ListsTypeOK
  BY ListsInitType
<1>4. walk.expected = ToSet(Items(db))
  BY <1>2 DEF Items
<1>5. SeenTo(Offset)
  <2> SUFFICES ASSUME NEW x \in ToSet(Items(db)), Position(Items(db), x) <= 0
               PROVE  FALSE
    BY <1>2, <1>4, ListsAssumption DEF SeenTo, Offset
  <2>1. Items(db) \in Seq(ToSet(Items(db))) /\ Len(Items(db)) \in Nat
    BY <1>3, ShownIsSequence
  <2>2. Position(Items(db), x) \in 1 .. Len(Items(db))
    BY <2>1, PositionProperties
  <2> QED BY <2>1, <2>2
<1>6. walk.pc # "done"
  BY <1>2
<1> QED BY <1>2, <1>4, <1>5, <1>6, Zenon DEF WalkInv

\* What has been seen, page by page, whatever is written in between.
THEOREM WalkInvariant == ListsSpec => []WalkInv
<1>1. ListsInit => WalkInv
  BY WalkInvInit
<1>2. /\ ListsTypeOK /\ ExportInv /\ ListsTypeOK' /\ WalkInv
      /\ [ListsNext]_listVars
      => WalkInv'
  <2> SUFFICES ASSUME ListsTypeOK, ExportInv, ListsTypeOK', WalkInv, [ListsNext]_listVars
               PROVE  WalkInv'
    OBVIOUS
  <2>1. CASE WriteTables(db') /\ Keeps(db, db')
    BY <2>1, WriteKeepsWalk
  <2>2. CASE LoadCount \/ OpenExport \/ ReadBatch \/ UNCHANGED listVars
    BY <2>2, WalkUnchanged DEF LoadCount, OpenExport, ReadBatch, Stream, listVars
  <2>3. CASE OpenList \/ RefusePage \/ OpenPage
    BY <2>3, OpeningKeepsWalk
  <2>4. CASE ReadRows
    BY <2>4, ReadRowsKeepsWalk
  <2>5. CASE ReadTotal
    BY <2>5, ReadTotalKeepsWalk
  <2>6. CASE TurnPage
    BY <2>6, TurnPageKeepsWalk
  <2>7. db \in Tables /\ writes \in Nat
    BY DEF ListsTypeOK
  <2> QED BY <2>1, <2>2, <2>3, <2>4, <2>5, <2>6, <2>7, TablesChange
<1> QED BY <1>1, <1>2, ListsTypeCorrect, PTL DEF ListsSpec

\* An admin who turned all the pages has seen every row that was there at the
\* beginning and never moved up, but for a total that came from the cache or
\* from beside the rows and was too small, or e-mails that had changed
\* (list, groupedByEmail, internalGrouped, historyByEmail, listFromDb,
\* listPayments, listMyLeads, listFollowups, listReport).
THEOREM SeenUnlessMovedUpHolds == ListsSpec => []SeenUnlessMovedUp
<1>1. ListsTypeOK /\ WalkInv => SeenUnlessMovedUp
  <2> SUFFICES ASSUME ListsTypeOK, WalkInv, walk.pc = "done", ~walk.stale,
                      ~(walk.of \in {"list", "leads", "history"} /\ walk.total < walk.size)
               PROVE  walk.expected \subseteq walk.seen
    <3>1. WalkInv /\ walk.stale => walk.of = "mirror"
      BY Zenon DEF WalkInv
    <3> QED BY <3>1, Zenon DEF SeenUnlessMovedUp, WalkInv
  <2> DEFINE top == walk.page * PageSize
  <2>1. walk.rows /\ walk.counted /\ walk.total <= top
    BY Zenon DEF WalkInv
  <2>2. walk.size <= top => walk.expected \subseteq walk.seen
    BY <2>1, Zenon DEF WalkInv
  <2>3. walk.size \in Nat /\ walk.total \in Nat /\ top \in Nat /\ walk.of \in Lists
    BY PagesMeet DEF ListsTypeOK, WalkTypeOK
  <2>4. CASE walk.of \in {"list", "leads", "history"}
    BY <2>1, <2>2, <2>3, <2>4
  <2>5. CASE walk.of = "mirror"
    <3>1. walk.size <= walk.total
      BY <2>1, <2>5, Zenon DEF WalkInv
    <3> QED BY <2>1, <2>2, <2>3, <3>1
  <2>6. CASE walk.of \in TotalAfter \ {"mirror"}
    BY <2>1, <2>6, Zenon DEF WalkInv
  <2> QED BY <2>3, <2>4, <2>5, <2>6 DEF Lists, TotalAfter
<1> QED BY <1>1, ListsTypeCorrect, WalkInvariant, PTL

=============================================================================
