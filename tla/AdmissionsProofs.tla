-------------------------- MODULE AdmissionsProofs --------------------------
(***************************************************************************)
(* Proofs about the enrollments of the e-mail addresses, for any number of *)
(* addresses, of requests at once and of rows, and about the coupons and   *)
(* the ledger of internal enrollments, for any coupons, fees, clerks and   *)
(* editors of the plan.                                                    *)
(***************************************************************************)
EXTENDS RegistrationsProperties, InternalEnrollmentProperties, Extrema

-----------------------------------------------------------------------------
(* Registrations: the inductive invariant *)

Visit == [pc : {"idle", "insert", "onboard", "self", "draft", "discard", "select", "stamp"},
          row : Nat, email : Emails \cup {Nobody}, details : Visitors \cup {Nobody},
          seen : InProgress \cup {"paid", "expired", "none"}]

Served == [row : Nat, email : Emails \cup {Nobody},
           how : {"none", "onboarded", "failed", "duplicate"}]

RegistrationsTypeOK ==
  /\ table \in Seq(Row)
  /\ visit \in [Visitors -> Visit]
  /\ accounts \subseteq Emails
  /\ served \in Served
  /\ web \subseteq Ids /\ astray \subseteq Ids /\ crossed \subseteq Ids

\* A request that works on a row has one, whose e-mail is its own while nothing
\* but a public submission of it has been there.  The row that a selection is
\* about to write is settled only by crossing it.
VisitOK(w) ==
  /\ w.pc \in {"onboard", "draft", "discard", "select", "stamp"} => w.row \in Ids
  /\ w.pc # "idle" => w.email \in Emails
  /\ w.pc = "discard" => w.seen = "submitted"
  /\ w.pc = "onboard" /\ w.row \in web => w.email = table[w.row].email
  /\ w.pc = "stamp" /\ AlreadySettled(w.row) => w.row \in crossed

\* A row that is not being paid has an order, open or paid, only by a restart
\* or an accident of its discard.
Stray(r) ==
  \/ r.order # "none" /\ (r.st \in {"submitted", "expired"} \/ r.del)
  \/ r.st = "paid" /\ r.del

Onboarding(i) == \E v \in Visitors : At(v, "onboard") /\ visit[v].row = i

RowOK(i) ==
  /\ Stray(table[i]) => i \in astray
  /\ i \in web => table[i].email \in accounts \/ Onboarding(i)
  /\ table[i].order = "paid" /\ table[i].st # "paid" => i \in crossed

\* The last answer went to somebody with an account, followed an onboarding that
\* failed, or was the row of another request of the same address.
ServedOK ==
  served.row # 0 =>
    \/ served.email \in accounts
    \/ served.how = "failed"
    \/ /\ served.how = "duplicate" /\ served.row \in Ids
       /\ served.row \in web => served.email = table[served.row].email

RegistrationsInv ==
  /\ RegistrationsTypeOK
  /\ \A v \in Visitors : VisitOK(visit[v])
  /\ \A i \in Ids : RowOK(i)
  /\ ServedOK

LEMMA RegistrationsInitOK == RegistrationsInit => RegistrationsInv
<1> SUFFICES ASSUME RegistrationsInit
             PROVE  RegistrationsInv
  OBVIOUS
<1>1. table = << >> /\ Len(table) = 0 /\ table \in Seq(Row)
  BY DEF RegistrationsInit
<1>2. visit \in [Visitors -> Visit] /\ \A v \in Visitors : visit[v] = Away
  BY DEF RegistrationsInit, Away, Visit
<1>3. web = {} /\ astray = {} /\ crossed = {} /\ accounts \subseteq Emails /\ Ids = {}
  BY <1>1 DEF RegistrationsInit, Ids
<1>4. served.row = 0 /\ served \in Served
  BY DEF RegistrationsInit, NoAnswer, Served
<1>5. RegistrationsTypeOK
  BY <1>1, <1>2, <1>3, <1>4 DEF RegistrationsTypeOK
<1>6. \A v \in Visitors : VisitOK(visit[v])
  BY <1>2 DEF VisitOK, Away
<1>7. ServedOK
  BY <1>4 DEF ServedOK
<1> QED BY <1>3, <1>5, <1>6, <1>7 DEF RegistrationsInv

-----------------------------------------------------------------------------
(* Rows and requests *)

LEMMA RegTyped ==
  ASSUME RegistrationsInv
  PROVE  /\ table \in Seq(Row) /\ Len(table) \in Nat /\ Ids = 1 .. Len(table)
         /\ \A i \in Ids : table[i] \in Row
         /\ visit \in [Visitors -> Visit]
BY DEF RegistrationsInv, RegistrationsTypeOK, Ids

LEMMA LatestIsOne ==
  ASSUME NEW n \in Nat, NEW S \in SUBSET (1 .. n), S # {}
  PROVE  Latest(S) \in S
<1>1. S \in SUBSET (0 .. n)
  OBVIOUS
<1> QED BY <1>1, GreatestUpTo DEF Latest

\* The live rows of an address, and those in progress.
LEMMA LiveRows ==
  ASSUME RegistrationsInv, NEW e
  PROVE  /\ OpenIds(e) \subseteq LiveIds(e) /\ LiveIds(e) \subseteq Ids
         /\ \A i \in LiveIds(e) : ~table[i].del /\ table[i].email = e
         /\ \A i \in OpenIds(e) : table[i].st \in InProgress
         /\ LiveIds(e) # {} => Latest(LiveIds(e)) \in LiveIds(e)
         /\ OpenIds(e) # {} => Latest(OpenIds(e)) \in OpenIds(e)
<1>1. /\ OpenIds(e) \subseteq LiveIds(e) /\ LiveIds(e) \subseteq Ids
      /\ \A i \in LiveIds(e) : ~table[i].del /\ table[i].email = e
      /\ \A i \in OpenIds(e) : table[i].st \in InProgress
  BY DEF OpenIds, LiveIds, Live
<1>2. Len(table) \in Nat /\ LiveIds(e) \in SUBSET (1 .. Len(table)) /\ OpenIds(e) \in SUBSET (1 .. Len(table))
  BY <1>1, RegTyped
<1> QED BY <1>1, <1>2, LatestIsOne

\* A request that comes, moves on or leaves.
LEMMA VisitWritten ==
  ASSUME RegistrationsInv, NEW v \in Visitors, NEW w \in Visit, visit' = [visit EXCEPT ![v] = w]
  PROVE  /\ visit' \in [Visitors -> Visit] /\ visit'[v] = w
         /\ \A u \in Visitors : u # v => visit'[u] = visit[u]
BY RegTyped

LEMMA AwayIsVisit == Away \in Visit /\ Away.pc = "idle" /\ Away.row = 0
BY DEF Away, Visit

\* The requests after a step.  Ids only grow, web gains only ids that are new,
\* and a row that is settled under a selection is a crossed one.
LEMMA VisitsKept ==
  ASSUME RegistrationsInv, visit' \in [Visitors -> Visit],
         Ids \subseteq Ids', web' \cap Ids \subseteq web, crossed \subseteq crossed',
         \A i \in Ids : i \in web' => table'[i].email = table[i].email,
         \A i \in Ids : AlreadySettled(i)' =>
                        AlreadySettled(i) \/ ~Selecting(i) \/ i \in crossed',
         \A v \in Visitors : visit'[v] = visit[v] \/ VisitOK(visit[v])'
  PROVE  \A v \in Visitors : VisitOK(visit[v])'
<1> TAKE v \in Visitors
<1>1. CASE visit'[v] = visit[v]
  <2>1. VisitOK(visit[v])
    BY DEF RegistrationsInv
  <2>2. visit[v].pc = "stamp" => visit[v].row \in Ids /\ Selecting(visit[v].row)
    BY <2>1 DEF VisitOK, Selecting, At
  <2>3. (visit[v].pc = "stamp" /\ AlreadySettled(visit[v].row) => visit[v].row \in crossed)'
    BY <1>1, <2>1, <2>2 DEF VisitOK
  <2> QED BY <1>1, <2>1, <2>3 DEF VisitOK
<1> QED BY <1>1

\* The last answer stays good while accounts grow and the step made no answer.
LEMMA ServedKept ==
  ASSUME RegistrationsInv, served' = served, accounts \subseteq accounts',
         Ids \subseteq Ids', web' \cap Ids \subseteq web,
         \A i \in Ids : i \in web' => table'[i].email = table[i].email
  PROVE  ServedOK'
<1>1. CASE served.row \in Ids
  BY <1>1 DEF RegistrationsInv, ServedOK
<1>2. CASE served.row \notin Ids
  BY <1>2 DEF RegistrationsInv, ServedOK
<1> QED BY <1>1, <1>2

-----------------------------------------------------------------------------
(* The kinds of steps *)

\* No row changes, no request at the end of its submission moves.
LEMMA RequestStep ==
  ASSUME RegistrationsInv, NEW v \in Visitors, NEW w \in Visit, ~At(v, "onboard"),
         visit' = [visit EXCEPT ![v] = w], VisitOK(w),
         UNCHANGED <<table, accounts, served, web, astray, crossed>>
  PROVE  RegistrationsInv'
<1>1. /\ visit' \in [Visitors -> Visit] /\ visit'[v] = w
      /\ \A u \in Visitors : u # v => visit'[u] = visit[u]
  BY VisitWritten
<1>2. Ids' = Ids
  BY DEF Ids
<1>3. RegistrationsTypeOK'
  BY <1>1, <1>2 DEF RegistrationsInv, RegistrationsTypeOK
<1>4. \A u \in Visitors : VisitOK(visit[u])'
  BY <1>1, <1>2 DEF RegistrationsInv, VisitOK, AlreadySettled
<1>5. ASSUME NEW i \in Ids'
      PROVE  RowOK(i)'
  <2>1. RowOK(i)
    BY <1>2 DEF RegistrationsInv
  <2>2. Onboarding(i) => Onboarding(i)'
    BY <1>1 DEF Onboarding, At
  <2> QED BY <2>1, <2>2 DEF RowOK, Stray
<1>6. ServedOK'
  BY <1>2 DEF RegistrationsInv, ServedOK
<1> QED BY <1>3, <1>4, <1>5, <1>6 DEF RegistrationsInv

\* A row is settled for the first time, or has a payment without the status,
\* only where c knows of a selection that it crossed.
SettledOK(i, r, c) ==
  /\ r.st = "paid" \/ r.order = "paid" => AlreadySettled(i) \/ ~Selecting(i) \/ i \in c
  /\ r.order = "paid" /\ r.st # "paid" => i \in c

LEMMA NothingSettled ==
  ASSUME RegistrationsInv, NEW i \in Ids, NEW r,
         r.order = table[i].order, r.st = "paid" <=> table[i].st = "paid"
  PROVE  SettledOK(i, r, crossed)
BY DEF SettledOK, AlreadySettled, RegistrationsInv, RowOK

\* One row changes.
LEMMA RowStep ==
  ASSUME RegistrationsInv, NEW i \in Ids, NEW r \in Row, table' = [table EXCEPT ![i] = r],
         visit' \in [Visitors -> Visit],
         \A v \in Visitors :
           visit'[v] = visit[v] \/ (~At(v, "onboard") /\ VisitOK(visit[v])'),
         accounts' = accounts, served' = served,
         web' \subseteq web, i \in web' => r.email = table[i].email,
         astray \subseteq astray', astray' \subseteq astray \cup {i},
         crossed \subseteq crossed', crossed' \subseteq crossed \cup {i},
         Stray(r) => i \in astray',
         SettledOK(i, r, crossed')
  PROVE  RegistrationsInv'
<1>1. /\ table' \in Seq(Row) /\ Ids' = Ids /\ table'[i] = r
      /\ \A j \in Ids : j # i => table'[j] = table[j]
  BY RegTyped DEF Ids
<1>2. RegistrationsTypeOK'
  BY <1>1 DEF RegistrationsInv, RegistrationsTypeOK
<1>3. \A j \in Ids : j \in web' => table'[j].email = table[j].email
  BY <1>1
<1>4. \A j \in Ids : AlreadySettled(j)' =>
                     AlreadySettled(j) \/ ~Selecting(j) \/ j \in crossed'
  BY <1>1 DEF AlreadySettled, SettledOK
<1>5. \A v \in Visitors : VisitOK(visit[v])'
  BY <1>1, <1>3, <1>4, VisitsKept
<1>6. ASSUME NEW j \in Ids'
      PROVE  RowOK(j)'
  <2>1. RowOK(j) /\ j \in Ids
    BY <1>1 DEF RegistrationsInv
  <2>2. Onboarding(j) => Onboarding(j)'
    BY DEF Onboarding, At
  <2>3. j \in web' => table'[j].email \in accounts' \/ Onboarding(j)'
    BY <1>3, <2>1, <2>2 DEF RowOK
  <2>4. Stray(table[j])' => j \in astray'
    <3>1. CASE j = i
      BY <1>1, <3>1 DEF Stray
    <3>2. CASE j # i
      BY <1>1, <2>1, <3>2 DEF RowOK, Stray
    <3> QED BY <3>1, <3>2
  <2>5. table'[j].order = "paid" /\ table'[j].st # "paid" => j \in crossed'
    BY <1>1, <2>1 DEF RowOK, SettledOK
  <2> QED BY <2>3, <2>4, <2>5 DEF RowOK
<1>7. ServedOK'
  BY <1>1, <1>3, ServedKept
<1> QED BY <1>2, <1>5, <1>6, <1>7 DEF RegistrationsInv

\* A row comes.
LEMMA NewRowStep ==
  ASSUME RegistrationsInv, NEW r \in Row, table' = Append(table, r),
         ~r.del, r.order = "none",
         visit' \in [Visitors -> Visit],
         \A v \in Visitors :
           visit'[v] = visit[v] \/ (~At(v, "onboard") /\ VisitOK(visit[v])'),
         accounts' = accounts, served' = served, astray' = astray, crossed' = crossed,
         \/ web' = web
         \/ web' = web \cup {Len(table')} /\ Onboarding(Len(table))'
  PROVE  RegistrationsInv'
<1> DEFINE n == Len(table) + 1
<1>1. /\ table' \in Seq(Row) /\ Ids' = Ids \cup {n} /\ n \notin Ids /\ Len(table') = n
      /\ table'[n] = r /\ \A j \in Ids : table'[j] = table[j]
  BY RegTyped DEF Ids
<1> HIDE DEF n
<1>2. RegistrationsTypeOK'
  BY <1>1 DEF RegistrationsInv, RegistrationsTypeOK
<1>3. /\ \A j \in Ids : j \in web' => table'[j].email = table[j].email
      /\ Ids \subseteq Ids' /\ web' \cap Ids \subseteq web
  BY <1>1
<1>4. \A v \in Visitors : VisitOK(visit[v])'
  <2>1. \A j \in Ids : AlreadySettled(j)' => AlreadySettled(j)
    BY <1>1 DEF AlreadySettled
  <2> QED BY <1>3, <2>1, VisitsKept
<1>5. ASSUME NEW j \in Ids'
      PROVE  RowOK(j)'
  <2>1. CASE j = n
    <3>1. ~Stray(table[j])'
      BY <1>1, <2>1 DEF Stray
    <3>2. web \subseteq Ids
      BY DEF RegistrationsInv, RegistrationsTypeOK
    <3> QED BY <1>1, <2>1, <3>1, <3>2 DEF RowOK
  <2>2. CASE j # n
    <3>1. RowOK(j) /\ j \in Ids
      BY <1>1, <2>2 DEF RegistrationsInv
    <3>2. Onboarding(j) => Onboarding(j)'
      BY DEF Onboarding, At
    <3> QED BY <1>1, <1>3, <3>1, <3>2 DEF RowOK, Stray
  <2> QED BY <2>1, <2>2
<1>6. ServedOK'
  BY <1>3, ServedKept
<1> QED BY <1>2, <1>4, <1>5, <1>6 DEF RegistrationsInv

-----------------------------------------------------------------------------
(* The actions *)

LEMMA Entered ==
  ASSUME RegistrationsInv, NEW v \in Visitors, NEW pc, NEW i \in Nat, NEW e \in Emails,
         NEW d \in Visitors \cup {Nobody}, Enter(v, pc, i, e, d),
         \/ pc \in {"insert", "self"}
         \/ pc \in {"onboard", "draft", "select"} /\ i \in Ids
  PROVE  LET w == [pc |-> pc, row |-> i, email |-> e, details |-> d, seen |-> "none"]
         IN /\ w \in Visit /\ visit' = [visit EXCEPT ![v] = w] /\ At(v, "idle")
            /\ pc # "onboard" => VisitOK(w)
BY DEF Enter, Visit, VisitOK, At

\* Requests that read.
LEMMA ReadsKeep ==
  ASSUME RegistrationsInv, NEW v \in Visitors, NEW e \in Emails,
         \/ SubmitFindNone(v, e) \/ SelfServiceRead(v, e)
         \/ \E i \in Ids : DraftRead(v, i, e)
  PROVE  RegistrationsInv'
<1>1. UNCHANGED <<table, accounts, served, web, astray, crossed>>
  BY DEF SubmitFindNone, SelfServiceRead, DraftRead
<1>2. \A i \in Ids : i \in Nat /\ table[i] \in Row
  BY RegTyped
<1>3. CASE SubmitFindNone(v, e)
  <2>1. Enter(v, "insert", 0, e, Nobody)
    BY <1>3 DEF SubmitFindNone
  <2> DEFINE w == [pc |-> "insert", row |-> 0, email |-> e, details |-> Nobody, seen |-> "none"]
  <2>2. w \in Visit /\ visit' = [visit EXCEPT ![v] = w] /\ At(v, "idle") /\ VisitOK(w)
    BY <2>1, Entered
  <2> HIDE DEF w
  <2> QED BY <1>1, <2>2, RequestStep DEF At
<1>4. CASE SelfServiceRead(v, e)
  <2>1. PICK d \in Visitors \cup {Nobody} : Enter(v, "self", 0, e, d)
    <3>1. LiveIds(e) # {} => table[Latest(LiveIds(e))] \in Row
      BY <1>2, LiveRows
    <3> QED BY <1>4, <3>1 DEF SelfServiceRead, Row
  <2> DEFINE w == [pc |-> "self", row |-> 0, email |-> e, details |-> d, seen |-> "none"]
  <2>2. w \in Visit /\ visit' = [visit EXCEPT ![v] = w] /\ At(v, "idle") /\ VisitOK(w)
    BY <2>1, Entered
  <2> HIDE DEF w
  <2> QED BY <1>1, <2>2, RequestStep DEF At
<1>5. CASE \E i \in Ids : DraftRead(v, i, e)
  <2>1. PICK i \in Ids : Enter(v, "draft", i, e, Nobody)
    BY <1>5 DEF DraftRead
  <2> DEFINE w == [pc |-> "draft", row |-> i, email |-> e, details |-> Nobody, seen |-> "none"]
  <2>2. w \in Visit /\ visit' = [visit EXCEPT ![v] = w] /\ At(v, "idle") /\ VisitOK(w)
    BY <1>2, <2>1, Entered
  <2> HIDE DEF w
  <2> QED BY <1>1, <2>2, RequestStep DEF At
<1> QED BY <1>3, <1>4, <1>5

LEMMA DiscardReadKeeps ==
  ASSUME RegistrationsInv, NEW v \in Visitors, NEW i \in Ids, DiscardRead(v, i)
  PROVE  RegistrationsInv'
<1> DEFINE w == [pc |-> "discard", row |-> i, email |-> table[i].email, details |-> Nobody,
                 seen |-> "submitted"]
<1>1. UNCHANGED <<table, accounts, served, web, astray, crossed>>
  BY DEF DiscardRead
<1>2. visit' = [visit EXCEPT ![v] = w] /\ At(v, "idle")
  BY DEF DiscardRead, Enter, At
<1>3. w \in Visit /\ VisitOK(w)
  BY RegTyped DEF Visit, VisitOK, Row, InProgress
<1> HIDE DEF w
<1> QED BY <1>1, <1>2, <1>3, RequestStep DEF At

\* A plan selection begins.
LEMMA SelectReadKeeps ==
  ASSUME RegistrationsInv, NEW v \in Visitors, NEW i \in Ids, SelectRead(v, i)
  PROVE  RegistrationsInv'
<1> DEFINE w == [pc |-> "select", row |-> i, email |-> table[i].email, details |-> Nobody,
                 seen |-> "none"]
<1>1. UNCHANGED <<table, accounts, served, web, astray, crossed>>
  BY DEF SelectRead
<1>2. visit' = [visit EXCEPT ![v] = w] /\ At(v, "idle")
  BY DEF SelectRead, Enter, At
<1>3. w \in Visit /\ VisitOK(w)
  BY RegTyped DEF Visit, VisitOK, Row
<1> HIDE DEF w
<1> QED BY <1>1, <1>2, <1>3, RequestStep DEF At

\* Its payments are locked; the row may have been settled since it was read, and
\* the success written over.
LEMMA SelectLockKeeps ==
  ASSUME RegistrationsInv, NEW v \in Visitors, SelectLock(v)
  PROVE  RegistrationsInv'
<1> DEFINE i == visit[v].row
           w == [visit[v] EXCEPT !.pc = "stamp"]
<1>1. At(v, "select") /\ visit[v] \in Visit /\ i \in Ids /\ visit[v].email \in Emails
  BY RegTyped DEF SelectLock, RegistrationsInv, VisitOK, At
<1>2. /\ visit' = [visit EXCEPT ![v] = w] /\ table[i].order # "paid"
      /\ UNCHANGED <<table, accounts, served, web, astray>> /\ Ids' = Ids
      /\ crossed' = IF table[i].st = "paid" THEN crossed \cup {i} ELSE crossed
  BY DEF SelectLock, Crosses, Ids
<1>3. w \in Visit /\ w.pc = "stamp" /\ w.row = i /\ w.email = visit[v].email
  BY <1>1 DEF Visit
<1> HIDE DEF w
<1>4. /\ visit' \in [Visitors -> Visit] /\ visit'[v] = w
      /\ \A u \in Visitors : u # v => visit'[u] = visit[u]
  BY <1>2, <1>3, VisitWritten
<1>5. RegistrationsTypeOK'
  BY <1>1, <1>2, <1>4 DEF RegistrationsInv, RegistrationsTypeOK
<1>6. \A u \in Visitors : VisitOK(visit[u])'
  BY <1>1, <1>2, <1>3, <1>4 DEF RegistrationsInv, VisitOK, AlreadySettled
<1>7. ASSUME NEW j \in Ids'
      PROVE  RowOK(j)'
  <2>1. RowOK(j)
    BY <1>2 DEF RegistrationsInv
  <2>2. Onboarding(j) => Onboarding(j)'
    BY <1>1, <1>4 DEF Onboarding, At
  <2> QED BY <1>2, <2>1, <2>2 DEF RowOK, Stray
<1>8. ServedOK'
  BY <1>2 DEF RegistrationsInv, ServedOK
<1> QED BY <1>5, <1>6, <1>7, <1>8 DEF RegistrationsInv

\* A submission is answered with the row of an earlier one.
LEMMA SubmitDuplicateKeeps ==
  ASSUME RegistrationsInv, NEW v \in Visitors, NEW e \in Emails, SubmitDuplicate(v, e)
  PROVE  RegistrationsInv'
<1>1. UNCHANGED <<table, visit, accounts, web, astray, crossed>> /\ Ids' = Ids
  BY DEF SubmitDuplicate, Ids
<1>2. PICK i \in LiveIds(e) :
        served' = IF e \in accounts THEN NoAnswer
                  ELSE [row |-> i, email |-> e, how |-> "duplicate"]
  BY <1>1 DEF SubmitDuplicate, Answer
<1>3. i \in Ids /\ i \in Nat /\ table[i].email = e
  BY LiveRows, RegTyped
<1>4. /\ served' \in Served
      /\ served'.row # 0 =>
           served'.row = i /\ served'.email = e /\ served'.how = "duplicate"
  BY <1>2, <1>3 DEF NoAnswer, Served
<1>5. ServedOK'
  BY <1>1, <1>3, <1>4 DEF ServedOK
<1>6. RegistrationsTypeOK'
  BY <1>1, <1>4 DEF RegistrationsInv, RegistrationsTypeOK
<1>7. /\ \A u \in Visitors : VisitOK(visit[u])'
      /\ \A j \in Ids' : RowOK(j)'
  BY <1>1 DEF RegistrationsInv, VisitOK, AlreadySettled, RowOK, Stray, Onboarding, At
<1> QED BY <1>5, <1>6, <1>7 DEF RegistrationsInv

\* The account of a new submission, or the error that is swallowed.
LEMMA OnboardKeeps ==
  ASSUME RegistrationsInv, NEW v \in Visitors, Onboard(v)
  PROVE  RegistrationsInv'
<1> DEFINE i == visit[v].row
           e == visit[v].email
<1>1. At(v, "onboard") /\ VisitOK(visit[v]) /\ visit[v] \in Visit
  BY RegTyped DEF Onboard, RegistrationsInv
<1>2. i \in Ids /\ i \in Nat /\ e \in Emails /\ (i \in web => table[i].email = e)
  BY <1>1, RegTyped DEF At, VisitOK
<1>3. /\ UNCHANGED <<table, astray, crossed>> /\ Ids' = Ids
      /\ visit' = [visit EXCEPT ![v] = Away]
      /\ accounts' \in {accounts, accounts \cup {e}} /\ web' \in {web, web \ {i}}
      /\ e \in accounts' \/ i \notin web'
  BY DEF Onboard, OnboardFailed, Provision, Leave, Ids
<1>4. /\ served' \in Served
      /\ served'.row # 0 => served'.how = "failed"
  <2>1. \/ served' = NoAnswer
        \/ served' = [row |-> i, email |-> e, how |-> "failed"]
    BY DEF Onboard, OnboardFailed, Provision, Answer
  <2> QED BY <1>2, <2>1 DEF NoAnswer, Served
<1>5. ServedOK'
  BY <1>4 DEF ServedOK
<1>6. /\ visit' \in [Visitors -> Visit] /\ visit'[v] = Away
      /\ \A u \in Visitors : u # v => visit'[u] = visit[u]
  BY <1>3, AwayIsVisit, VisitWritten
<1>7. RegistrationsTypeOK'
  BY <1>2, <1>3, <1>4, <1>6 DEF RegistrationsInv, RegistrationsTypeOK
<1>8. \A u \in Visitors : VisitOK(visit[u])'
  BY <1>3, <1>6, AwayIsVisit DEF RegistrationsInv, VisitOK, AlreadySettled
<1>9. ASSUME NEW j \in Ids'
      PROVE  RowOK(j)'
  <2>1. RowOK(j)
    BY <1>3 DEF RegistrationsInv
  <2>2. Onboarding(j) => Onboarding(j)' \/ j = i
    BY <1>6 DEF Onboarding, At
  <2> QED BY <1>2, <1>3, <2>1, <2>2 DEF RowOK, Stray
<1> QED BY <1>5, <1>7, <1>8, <1>9 DEF RegistrationsInv

\* An admin makes the account.
LEMMA CreateUserKeeps ==
  ASSUME RegistrationsInv, NEW e \in Emails, CreateUser(e)
  PROVE  RegistrationsInv'
<1>1. /\ UNCHANGED <<table, visit, served, web, astray, crossed>> /\ Ids' = Ids
      /\ accounts' = accounts \cup {e}
  BY DEF CreateUser, Ids
<1>2. RegistrationsTypeOK' /\ ServedOK'
  BY <1>1 DEF RegistrationsInv, RegistrationsTypeOK, ServedOK
<1>3. /\ \A u \in Visitors : VisitOK(visit[u])'
      /\ \A j \in Ids' : RowOK(j)'
  BY <1>1 DEF RegistrationsInv, VisitOK, AlreadySettled, RowOK, Stray, Onboarding, At
<1> QED BY <1>2, <1>3 DEF RegistrationsInv

\* A request that dies takes the promise of its row with it.
LEMMA RegCrashKeeps ==
  ASSUME RegistrationsInv, NEW v \in Visitors, Crash(v)
  PROVE  RegistrationsInv'
<1>1. visit' = [visit EXCEPT ![v] = Away] /\ UNCHANGED <<table, accounts, served, astray, crossed>>
  BY DEF Crash, Leave
<1>2. VisitOK(Away)
  BY AwayIsVisit DEF VisitOK
<1>3. CASE ~At(v, "onboard")
  <2>1. web' = web
    BY <1>3 DEF Crash
  <2> QED BY <1>1, <1>2, <1>3, <2>1, AwayIsVisit, RequestStep
<1>4. CASE At(v, "onboard")
  <2>1. web' = web \ {visit[v].row} /\ Ids' = Ids
    BY <1>1, <1>4 DEF Crash, Ids
  <2>2. /\ visit' \in [Visitors -> Visit] /\ visit'[v] = Away
        /\ \A u \in Visitors : u # v => visit'[u] = visit[u]
    BY <1>1, AwayIsVisit, VisitWritten
  <2>3. RegistrationsTypeOK'
    BY <1>1, <2>1, <2>2 DEF RegistrationsInv, RegistrationsTypeOK
  <2>4. \A u \in Visitors : VisitOK(visit[u])'
    BY <1>1, <2>1, <2>2, AwayIsVisit DEF RegistrationsInv, VisitOK, AlreadySettled
  <2>5. ASSUME NEW j \in Ids'
        PROVE  RowOK(j)'
    <3>1. RowOK(j)
      BY <2>1 DEF RegistrationsInv
    <3>2. Onboarding(j) => Onboarding(j)' \/ j = visit[v].row
      BY <2>2 DEF Onboarding, At
    <3> QED BY <1>1, <2>1, <3>1, <3>2 DEF RowOK, Stray
  <2>6. ServedOK'
    BY <1>1, <2>1 DEF RegistrationsInv, ServedOK
  <2> QED BY <2>3, <2>4, <2>5, <2>6 DEF RegistrationsInv
<1> QED BY <1>3, <1>4

\* New rows.
LEMMA NewRow ==
  ASSUME RegistrationsInv, NEW e \in Emails, NEW st \in {"submitted", "paid"},
         NEW d \in Visitors \cup {Nobody}, Insert(e, st, d)
  PROVE  LET r == [email |-> e, st |-> st, del |-> FALSE, details |-> d, order |-> "none"]
         IN /\ r \in Row /\ table' = Append(table, r) /\ ~r.del /\ r.order = "none"
            /\ Ids' = Ids \cup {Len(table) + 1} /\ Len(table') = Len(table) + 1
            /\ Len(table') \in Ids' /\ table'[Len(table')] = r
<1> DEFINE r == [email |-> e, st |-> st, del |-> FALSE, details |-> d, order |-> "none"]
<1>1. r \in Row /\ ~r.del /\ r.order = "none"
  BY DEF Row, InProgress
<1>2. table' = Append(table, r)
  BY DEF Insert
<1> HIDE DEF r
<1>3. Ids' = Ids \cup {Len(table) + 1} /\ Len(table') = Len(table) + 1 /\ table'[Len(table')] = r
  BY <1>1, <1>2, RegTyped DEF Ids
<1> QED BY <1>1, <1>2, <1>3 DEF r

LEMMA InsertsKeep ==
  ASSUME RegistrationsInv, NEW v \in Visitors, NEW e \in Emails,
         \/ InsertDraft(v, e) \/ CreateSubmission(v, e)
         \/ CreateManualEnrollment(v, e) \/ InsertInternal(v, e)
  PROVE  RegistrationsInv'
<1>1. PICK st \in {"submitted", "paid"} : InsertAtOnce(v, e, st)
  BY DEF InsertDraft, CreateSubmission, CreateManualEnrollment, InsertInternal
<1> DEFINE r == [email |-> e, st |-> st, del |-> FALSE, details |-> v, order |-> "none"]
<1>2. r \in Row /\ table' = Append(table, r) /\ ~r.del /\ r.order = "none"
  BY <1>1, NewRow DEF InsertAtOnce
<1>3. UNCHANGED <<visit, accounts, served, web, astray, crossed>> /\ visit' \in [Visitors -> Visit]
  BY <1>1, RegTyped DEF InsertAtOnce
<1> HIDE DEF r
<1> QED BY <1>2, <1>3, NewRowStep

\* The INSERT of a public submission, whose account is still to come.
LEMMA SubmitInsertKeeps ==
  ASSUME RegistrationsInv, NEW v \in Visitors, SubmitInsert(v)
  PROVE  RegistrationsInv'
<1> DEFINE e == visit[v].email
<1>1. At(v, "insert") /\ e \in Emails /\ visit[v] \in Visit
  BY RegTyped DEF SubmitInsert, RegistrationsInv, VisitOK, At
<1>2. UNCHANGED <<accounts, served, astray, crossed>>
  BY DEF SubmitInsert
<1>3. CASE Leave(v) /\ UNCHANGED <<table, web>>
  <2>1. visit' = [visit EXCEPT ![v] = Away] /\ VisitOK(Away)
    BY <1>3, AwayIsVisit DEF Leave, VisitOK
  <2> QED BY <1>1, <1>2, <1>3, <2>1, AwayIsVisit, RequestStep DEF At
<1>4. CASE /\ Insert(e, "submitted", v)
           /\ visit' = [visit EXCEPT ![v] = [@ EXCEPT !.pc = "onboard", !.row = Len(table')]]
           /\ web' \in {web, web \cup {Len(table')}}
  <2> DEFINE r == [email |-> e, st |-> "submitted", del |-> FALSE, details |-> v, order |-> "none"]
             w == [visit[v] EXCEPT !.pc = "onboard", !.row = Len(table')]
  <2>1. /\ r \in Row /\ table' = Append(table, r) /\ ~r.del /\ r.order = "none"
        /\ Len(table') = Len(table) + 1 /\ Len(table') \in Ids' /\ table'[Len(table')] = r
    BY <1>1, <1>4, NewRow
  <2>2. Len(table') \in Nat
    BY <2>1, RegTyped
  <2>3. w \in Visit /\ visit' = [visit EXCEPT ![v] = w]
    BY <1>1, <1>4, <2>2, RegTyped DEF Visit
  <2>4. visit'[v].pc = "onboard" /\ visit'[v].row = Len(table') /\ visit'[v].email = e
    BY <1>1, <2>3, RegTyped DEF Visit
  <2>5. VisitOK(visit[v])'
    BY <1>1, <2>1, <2>4 DEF VisitOK
  <2>6. Onboarding(Len(table))'
    BY <2>4 DEF Onboarding, At
  <2> HIDE DEF r, w
  <2>7. /\ visit' \in [Visitors -> Visit]
        /\ \A u \in Visitors : u # v => visit'[u] = visit[u]
    BY <2>3, VisitWritten
  <2> QED BY <1>1, <1>2, <1>4, <2>1, <2>5, <2>6, <2>7, NewRowStep DEF At
<1> QED BY <1>3, <1>4 DEF SubmitInsert

-----------------------------------------------------------------------------

\* The latest live row is taken over.
LEMMA SubmitResumeKeeps ==
  ASSUME RegistrationsInv, NEW v \in Visitors, NEW e \in Emails, SubmitResume(v, e)
  PROVE  RegistrationsInv'
<1> DEFINE i  == Latest(LiveIds(e))
           st == IF table[i].st = "expired" THEN "submitted" ELSE table[i].st
           r  == [table[i] EXCEPT !.details = v, !.st = st]
           w  == [pc |-> "onboard", row |-> i, email |-> e, details |-> Nobody, seen |-> "none"]
<1>1. i \in Ids /\ i \in Nat /\ table[i] \in Row /\ ~table[i].del /\ table[i].email = e
  BY LiveRows, RegTyped DEF SubmitResume, Resume
<1>2. /\ ~AlreadySettled(i)
      /\ table' = [table EXCEPT ![i] = r]
      /\ Strays(i, HasOrder(i) /\ st # table[i].st)
      /\ Enter(v, "onboard", i, e, Nobody) /\ UNCHANGED <<accounts, served, web, crossed>>
  BY DEF SubmitResume, Resume
<1> HIDE DEF i
<1>3. /\ r \in Row /\ r.email = table[i].email /\ r.st = st /\ r.order = table[i].order
      /\ r.del = table[i].del
  BY <1>1, <1>2 DEF Row, InProgress, AlreadySettled
<1>4. w \in Visit /\ visit' = [visit EXCEPT ![v] = w] /\ At(v, "idle")
  BY <1>1, <1>2, Entered
<1>5. /\ astray \subseteq astray' /\ astray' \subseteq astray \cup {i}
      /\ HasOrder(i) /\ st # table[i].st => i \in astray'
  BY <1>2 DEF Strays
<1>6. Stray(table[i]) => i \in astray
  BY <1>1 DEF RegistrationsInv, RowOK
<1>7. Stray(r) => i \in astray'
  BY <1>1, <1>2, <1>3, <1>5, <1>6 DEF Stray, HasOrder
<1>8. r.email = e /\ w.pc = "onboard" /\ w.row = i /\ w.email = e
  BY <1>1, <1>3
<1> HIDE DEF r, w
<1>9. /\ visit' \in [Visitors -> Visit] /\ visit'[v] = w
      /\ \A u \in Visitors : u # v => visit'[u] = visit[u]
  BY <1>4, VisitWritten
<1>10. VisitOK(visit[v])'
  <2>1. Ids' = Ids /\ table'[i] = r
    BY <1>1, <1>2, <1>3, RegTyped DEF Ids
  <2> QED BY <1>1, <1>8, <1>9, <2>1 DEF VisitOK
<1>11. SettledOK(i, r, crossed)
  <2>1. table[i].st # "paid" /\ st # "paid"
    BY <1>2 DEF AlreadySettled
  <2> QED BY <1>1, <1>3, <2>1, NothingSettled
<1> QED BY <1>1, <1>2, <1>3, <1>4, <1>5, <1>7, <1>8, <1>9, <1>10, <1>11, RowStep DEF At

\* The upgrade link and the student panel.
LEMMA SelfServiceWriteKeeps ==
  ASSUME RegistrationsInv, NEW v \in Visitors, SelfServiceWrite(v)
  PROVE  RegistrationsInv'
<1> DEFINE e == visit[v].email
           d == visit[v].details
<1>1. At(v, "self") /\ e \in Emails /\ d \in Visitors \cup {Nobody}
  BY RegTyped DEF SelfServiceWrite, RegistrationsInv, VisitOK, At, Visit
<1>2. UNCHANGED <<accounts, served, web, crossed>> /\ visit' = [visit EXCEPT ![v] = Away]
  BY DEF SelfServiceWrite, Leave
<1>3. /\ visit' \in [Visitors -> Visit] /\ visit'[v] = Away
      /\ \A u \in Visitors : u # v => visit'[u] = visit[u]
  BY <1>2, AwayIsVisit, VisitWritten
<1>4. VisitOK(visit[v])'
  BY <1>3, AwayIsVisit DEF VisitOK
<1>5. CASE OpenIds(e) # {}
  <2> DEFINE i == Latest(OpenIds(e))
             r == [table[i] EXCEPT !.st = "submitted", !.details = d]
  <2>1. i \in Ids /\ table[i] \in Row /\ ~table[i].del /\ table[i].st \in InProgress
    BY <1>5, LiveRows, RegTyped
  <2>2. /\ table' = [table EXCEPT ![i] = r]
        /\ Strays(i, HasOrder(i))
    BY <1>5 DEF SelfServiceWrite
  <2> HIDE DEF i
  <2>3. /\ r \in Row /\ r.email = table[i].email /\ r.order = table[i].order
        /\ r.del = table[i].del /\ r.st = "submitted"
    BY <1>1, <2>1 DEF Row, InProgress
  <2>4. /\ astray \subseteq astray' /\ astray' \subseteq astray \cup {i}
        /\ HasOrder(i) => i \in astray'
    BY <2>2 DEF Strays
  <2>5. Stray(r) => i \in astray'
    BY <2>1, <2>3, <2>4 DEF Stray, HasOrder, Row
  <2>6. SettledOK(i, r, crossed)
    BY <2>1, <2>3, NothingSettled DEF InProgress
  <2> HIDE DEF r
  <2> QED BY <1>1, <1>2, <1>3, <1>4, <2>1, <2>2, <2>3, <2>4, <2>5, <2>6, RowStep DEF At
<1>6. CASE OpenIds(e) = {}
  <2> DEFINE r == [email |-> e, st |-> "submitted", del |-> FALSE, details |-> d, order |-> "none"]
  <2>1. Insert(e, "submitted", d) /\ UNCHANGED astray
    BY <1>6 DEF SelfServiceWrite
  <2>2. r \in Row /\ table' = Append(table, r) /\ ~r.del /\ r.order = "none"
    BY <1>1, <2>1, NewRow
  <2> HIDE DEF r
  <2> QED BY <1>1, <1>2, <1>3, <1>4, <2>1, <2>2, NewRowStep DEF At
<1> QED BY <1>5, <1>6

\* The admin's draft: only its identity changes.
LEMMA DraftUpdateKeeps ==
  ASSUME RegistrationsInv, NEW v \in Visitors, DraftUpdate(v)
  PROVE  RegistrationsInv'
<1> DEFINE i == visit[v].row
           e == visit[v].email
           r == [table[i] EXCEPT !.email = e, !.details = v]
<1>1. At(v, "draft") /\ i \in Ids /\ e \in Emails /\ table[i] \in Row
  BY RegTyped DEF DraftUpdate, RegistrationsInv, VisitOK, At
<1>2. /\ table' = [table EXCEPT ![i] = r]
      /\ web' = IF table[i].email = e THEN web ELSE web \ {i}
      /\ visit' = [visit EXCEPT ![v] = Away]
      /\ UNCHANGED <<accounts, served, astray, crossed>>
  BY DEF DraftUpdate, Leave
<1>3. /\ r \in Row /\ r.email = e /\ r.st = table[i].st /\ r.order = table[i].order
      /\ r.del = table[i].del
  BY <1>1 DEF Row
<1>4. Stray(r) => i \in astray'
  BY <1>1, <1>2, <1>3 DEF RegistrationsInv, RowOK, Stray
<1>5. web' \subseteq web /\ (i \in web' => r.email = table[i].email)
  BY <1>2, <1>3
<1>6. /\ visit' \in [Visitors -> Visit] /\ visit'[v] = Away
      /\ \A u \in Visitors : u # v => visit'[u] = visit[u]
  BY <1>2, AwayIsVisit, VisitWritten
<1>7. VisitOK(visit[v])'
  BY <1>6, AwayIsVisit DEF VisitOK
<1>8. SettledOK(i, r, crossed)
  BY <1>1, <1>3, NothingSettled
<1> HIDE DEF r
<1> QED BY <1>1, <1>2, <1>3, <1>4, <1>5, <1>6, <1>7, <1>8, RowStep DEF At

\* The draft is discarded; the check it went by was on "submitted".
LEMMA DiscardDeleteKeeps ==
  ASSUME RegistrationsInv, NEW v \in Visitors, DiscardDelete(v)
  PROVE  RegistrationsInv'
<1> DEFINE i == visit[v].row
           r == [table[i] EXCEPT !.del = TRUE]
<1>1. At(v, "discard") /\ i \in Ids /\ visit[v].seen = "submitted" /\ table[i] \in Row
  BY RegTyped DEF DiscardDelete, RegistrationsInv, VisitOK, At
<1>2. /\ table' = [table EXCEPT ![i] = r] /\ Strays(i, table[i].st # visit[v].seen)
      /\ visit' = [visit EXCEPT ![v] = Away]
      /\ UNCHANGED <<accounts, served, web, crossed>>
  BY RegTyped DEF DiscardDelete, Leave
<1>3. r \in Row /\ r.email = table[i].email /\ r.st = table[i].st /\ r.order = table[i].order
  BY <1>1 DEF Row
<1>4. /\ astray \subseteq astray' /\ astray' \subseteq astray \cup {i}
      /\ table[i].st # "submitted" => i \in astray'
  BY <1>1, <1>2 DEF Strays
<1>5. Stray(r) => i \in astray'
  <2>1. CASE table[i].st = "submitted"
    BY <1>1, <1>3, <1>4, <2>1 DEF RegistrationsInv, RowOK, Stray
  <2>2. CASE table[i].st # "submitted"
    BY <1>4, <2>2
  <2> QED BY <2>1, <2>2
<1>6. SettledOK(i, r, crossed)
  BY <1>1, <1>3, NothingSettled
<1> HIDE DEF r
<1>7. /\ visit' \in [Visitors -> Visit] /\ visit'[v] = Away
      /\ \A u \in Visitors : u # v => visit'[u] = visit[u]
  BY <1>2, AwayIsVisit, VisitWritten
<1>8. VisitOK(visit[v])'
  BY <1>7, AwayIsVisit DEF VisitOK
<1> QED BY <1>1, <1>2, <1>3, <1>4, <1>5, <1>6, <1>7, <1>8, RowStep DEF At

\* A plan selection writes the row it read.
LEMMA SelectWriteKeeps ==
  ASSUME RegistrationsInv, NEW v \in Visitors, SelectWrite(v)
  PROVE  RegistrationsInv'
<1> DEFINE i == visit[v].row
           r == [table[i] EXCEPT !.st = "payment_pending"]
<1>1. /\ At(v, "stamp") /\ i \in Ids /\ table[i] \in Row /\ RowOK(i)
      /\ AlreadySettled(i) => i \in crossed
  BY RegTyped DEF SelectWrite, RegistrationsInv, VisitOK, At
<1>2. /\ table' = [table EXCEPT ![i] = r] /\ visit' = [visit EXCEPT ![v] = Away]
      /\ UNCHANGED <<accounts, served, web, astray, crossed>>
  BY RegTyped DEF SelectWrite, Leave
<1>3. /\ r \in Row /\ r.email = table[i].email /\ r.st = "payment_pending"
      /\ r.order = table[i].order /\ r.del = table[i].del
  BY <1>1 DEF Row, InProgress
<1>4. Stray(r) => i \in astray
  BY <1>1, <1>3 DEF RowOK, Stray
<1>5. SettledOK(i, r, crossed)
  BY <1>1, <1>3 DEF SettledOK, AlreadySettled
<1> HIDE DEF r
<1>6. /\ visit' \in [Visitors -> Visit] /\ visit'[v] = Away
      /\ \A u \in Visitors : u # v => visit'[u] = visit[u]
  BY <1>2, AwayIsVisit, VisitWritten
<1>7. VisitOK(visit[v])'
  BY <1>6, AwayIsVisit DEF VisitOK
<1> QED BY <1>1, <1>2, <1>3, <1>4, <1>5, <1>6, <1>7, RowStep DEF At

\* Orders, settlement, a success written over, and expiry.
LEMMA PaymentKeeps ==
  ASSUME RegistrationsInv, NEW i \in Ids,
         CreateOrder(i) \/ Settle(i) \/ Overwrite(i) \/ Expire(i)
  PROVE  RegistrationsInv'
<1>1. table[i] \in Row /\ RowOK(i)
  BY RegTyped DEF RegistrationsInv
<1>2. UNCHANGED <<visit, accounts, served, web, astray>> /\ visit' \in [Visitors -> Visit]
  BY RegTyped DEF CreateOrder, Settle, Overwrite, Expire
<1>3. CASE CreateOrder(i)
  <2> DEFINE r == [table[i] EXCEPT !.order = "open"]
  <2>1. /\ table' = [table EXCEPT ![i] = r] /\ ~table[i].del /\ crossed' = crossed
        /\ table[i].st = "payment_pending"
    BY <1>3, RegTyped DEF CreateOrder
  <2>2. /\ r \in Row /\ r.email = table[i].email /\ r.del = table[i].del
        /\ r.st = "payment_pending" /\ r.order = "open"
    BY <1>1, <2>1 DEF Row
  <2>3. ~Stray(r) /\ SettledOK(i, r, crossed')
    BY <2>1, <2>2 DEF Stray, SettledOK
  <2> HIDE DEF r
  <2> QED BY <1>2, <2>1, <2>2, <2>3, RowStep
<1>4. CASE Settle(i)
  <2> DEFINE r == [table[i] EXCEPT !.st = "paid", !.order = "paid"]
  <2>1. /\ table' = [table EXCEPT ![i] = r] /\ table[i].order # "none"
        /\ crossed \subseteq crossed' /\ crossed' \subseteq crossed \cup {i}
        /\ Selecting(i) => i \in crossed'
    BY <1>4 DEF Settle, HasOrder, Crosses
  <2>2. /\ r \in Row /\ r.email = table[i].email /\ r.del = table[i].del
        /\ r.st = "paid" /\ r.order = "paid"
    BY <1>1 DEF Row
  <2>3. Stray(r) => i \in astray'
    BY <1>1, <1>2, <2>1, <2>2 DEF RowOK, Stray
  <2>4. SettledOK(i, r, crossed')
    BY <2>1, <2>2 DEF SettledOK
  <2> HIDE DEF r
  <2> QED BY <1>2, <2>1, <2>2, <2>3, <2>4, RowStep
<1>5. CASE Overwrite(i)
  <2> DEFINE r == [table[i] EXCEPT !.order = "open"]
  <2>1. table' = [table EXCEPT ![i] = r] /\ table[i].order = "paid" /\ crossed' = crossed
    BY <1>5, RegTyped DEF Overwrite
  <2>2. /\ r \in Row /\ r.email = table[i].email /\ r.del = table[i].del
        /\ r.st = table[i].st /\ r.order = "open"
    BY <1>1 DEF Row
  <2>3. Stray(r) => i \in astray'
    BY <1>1, <1>2, <2>1, <2>2 DEF RowOK, Stray
  <2>4. SettledOK(i, r, crossed')
    BY <2>1, <2>2 DEF SettledOK, AlreadySettled
  <2> HIDE DEF r
  <2> QED BY <1>2, <2>1, <2>2, <2>3, <2>4, RowStep
<1>6. CASE Expire(i)
  <2> DEFINE r == [table[i] EXCEPT !.st = "expired"]
  <2>1. /\ table' = [table EXCEPT ![i] = r] /\ ~table[i].del /\ table[i].st = "submitted"
        /\ crossed' = crossed
    BY <1>6, RegTyped DEF Expire
  <2>2. /\ r \in Row /\ r.email = table[i].email /\ r.del = table[i].del
        /\ r.order = table[i].order /\ r.st = "expired"
    BY <1>1 DEF Row
  <2>3. Stray(r) => i \in astray'
    BY <1>1, <1>2, <2>1, <2>2 DEF RowOK, Stray
  <2>4. SettledOK(i, r, crossed')
    BY <2>1, <2>2, NothingSettled
  <2> HIDE DEF r
  <2> QED BY <1>2, <2>1, <2>2, <2>3, <2>4, RowStep
<1> QED BY <1>3, <1>4, <1>5, <1>6

LEMMA RegistrationsStep == RegistrationsInv /\ [RegistrationsNext]_registrationsVars => RegistrationsInv'
<1> SUFFICES ASSUME RegistrationsInv, [RegistrationsNext]_registrationsVars
             PROVE  RegistrationsInv'
  OBVIOUS
<1>1. CASE UNCHANGED registrationsVars
  BY <1>1 DEF registrationsVars, RegistrationsInv, RegistrationsTypeOK, VisitOK, RowOK, Stray,
     Onboarding, At, ServedOK, Ids, AlreadySettled
<1>2. CASE RegistrationsNext
  BY <1>2, ReadsKeep, DiscardReadKeeps, SubmitDuplicateKeeps, OnboardKeeps, RegCrashKeeps, InsertsKeep,
     SubmitInsertKeeps, SubmitResumeKeeps, SelfServiceWriteKeeps, CreateUserKeeps,
     DraftUpdateKeeps, DiscardDeleteKeeps, SelectReadKeeps, SelectLockKeeps, SelectWriteKeeps,
     PaymentKeeps DEF RegistrationsNext
<1> QED BY <1>1, <1>2

-----------------------------------------------------------------------------
(* Registrations: the theorems *)

\* The enrollments keep their inductive invariant, whatever forms, links, admin
\* actions, payments, jobs, swallowed errors and crashes interleave to.
THEOREM RegistrationsInvariant == RegistrationsSpec => []RegistrationsInv
BY RegistrationsInitOK, RegistrationsStep, PTL DEF RegistrationsSpec

\* The enrollments table and the requests at work keep their types.
THEOREM RegistrationsTypeCorrect == RegistrationsSpec => []RegistrationsTypeOK
<1>1. RegistrationsInv => RegistrationsTypeOK
  BY DEF RegistrationsInv
<1> QED BY <1>1, RegistrationsInvariant, PTL

\* A paid enrollment disappears with a discarded draft only after one of the
\* two accidents.
THEOREM PaidIsVisibleHolds == RegistrationsSpec => []PaidIsVisible
<1>1. RegistrationsInv => PaidIsVisible
  BY DEF RegistrationsInv, RowOK, Stray, AlreadySettled, PaidIsVisible
<1> QED BY <1>1, RegistrationsInvariant, PTL

\* Whoever is told of success has an account or gets one, but for the rows that
\* the controller's comment forgets and the errors that onboarding swallows.
THEOREM ServedHasAccountHolds == RegistrationsSpec => []ServedHasAccount
<1>1. RegistrationsInv => ServedHasAccount
  BY DEF RegistrationsInv, ServedOK, RowOK, Onboarding, ServedHasAccount
<1> QED BY <1>1, RegistrationsInvariant, PTL

\* What a step may do to a settled row.
SettledStep ==
  \A i \in Ids :
    AlreadySettled(i) =>
      /\ table[i].st = "paid" =>
           \/ table'[i].st = "paid"
           \/ i \in crossed /\ Selecting(i)
      /\ table'[i].details # table[i].details =>
           \/ \E v \in Visitors : At(v, "draft") /\ visit[v].row = i
           \/ table[i].st # "paid" /\ i \in crossed /\ \E v \in Visitors : At(v, "self")

LEMMA OtherRowsStay ==
  ASSUME RegistrationsInv, NEW i \in Ids, NEW r, table' = [table EXCEPT ![i] = r],
         \/ ~AlreadySettled(i)
         \/ (table[i].st = "paid" => r.st = "paid") /\ r.details = table[i].details
  PROVE  SettledStep
BY RegTyped DEF SettledStep

LEMMA NewRowsDisturbNone ==
  ASSUME RegistrationsInv, NEW e, NEW st, NEW d, Insert(e, st, d)
  PROVE  SettledStep
<1>1. \A i \in Ids : table'[i] = table[i]
  BY RegTyped DEF Insert
<1> QED BY <1>1 DEF SettledStep

\* Nothing but an admin's draft rewrites the details of a settled enrollment,
\* and nothing takes it back, unless a plan selection crossed the settlement:
\* the resume refuses it, the self-service looks for rows in progress, orders
\* and expiry ask for the status.
THEOREM SettledKeepsDetailsHolds == RegistrationsSpec => SettledKeepsDetails
<1>1. RegistrationsInv /\ [RegistrationsNext]_registrationsVars => SettledStep
  <2> SUFFICES ASSUME RegistrationsInv, [RegistrationsNext]_registrationsVars
               PROVE  SettledStep
    OBVIOUS
  <2>1. CASE UNCHANGED table
    BY <2>1 DEF SettledStep
  <2>2. ASSUME NEW v \in Visitors
        PROVE  SubmitInsert(v) \/ Onboard(v) \/ Crash(v) \/ SelectLock(v) => SettledStep
    BY <2>1, NewRowsDisturbNone DEF SubmitInsert, Onboard, Crash, SelectLock
  <2>3. ASSUME NEW v \in Visitors, SelfServiceWrite(v)
        PROVE  SettledStep
    <3> DEFINE e == visit[v].email
               i == Latest(OpenIds(e))
               r == [table[i] EXCEPT !.st = "submitted", !.details = visit[v].details]
    <3>1. CASE OpenIds(e) = {}
      BY <2>3, <3>1, NewRowsDisturbNone DEF SelfServiceWrite
    <3>2. CASE OpenIds(e) # {}
      <4>1. i \in Ids /\ table[i].st # "paid"
        BY <3>2, LiveRows DEF InProgress
      <4>2. table' = [table EXCEPT ![i] = r] /\ At(v, "self")
        BY <2>3, <3>2 DEF SelfServiceWrite
      <4> HIDE DEF i, r
      <4>3. \A j \in Ids : j # i => table'[j] = table[j]
        BY <4>1, <4>2, RegTyped
      <4>4. AlreadySettled(i) => i \in crossed
        BY <4>1 DEF AlreadySettled, RegistrationsInv, RowOK
      <4> QED BY <4>1, <4>2, <4>3, <4>4 DEF SettledStep
    <3> QED BY <3>1, <3>2
  <2>4. ASSUME NEW v \in Visitors, DraftUpdate(v)
        PROVE  SettledStep
    <3> DEFINE i == visit[v].row
               r == [table[i] EXCEPT !.email = visit[v].email, !.details = v]
    <3>1. At(v, "draft") /\ i \in Ids /\ table[i] \in Row
      BY <2>4, RegTyped DEF DraftUpdate, RegistrationsInv, VisitOK, At
    <3>2. table' = [table EXCEPT ![i] = r]
      BY <2>4 DEF DraftUpdate
    <3>3. r.st = table[i].st
      BY <3>1 DEF Row
    <3> HIDE DEF r
    <3>4. table'[i].st = table[i].st /\ \A j \in Ids : j # i => table'[j] = table[j]
      BY <3>1, <3>2, <3>3, RegTyped
    <3> QED BY <3>1, <3>4 DEF SettledStep
  <2>5. ASSUME NEW v \in Visitors, DiscardDelete(v)
        PROVE  SettledStep
    <3> DEFINE i == visit[v].row
               r == [table[i] EXCEPT !.del = TRUE]
    <3>1. i \in Ids /\ table[i] \in Row /\ table' = [table EXCEPT ![i] = r]
      BY <2>5, RegTyped DEF DiscardDelete, RegistrationsInv, VisitOK, At
    <3>2. r.st = table[i].st /\ r.details = table[i].details
      BY <3>1 DEF Row
    <3> HIDE DEF r
    <3> QED BY <3>1, <3>2, OtherRowsStay
  <2>6. ASSUME NEW v \in Visitors, SelectWrite(v)
        PROVE  SettledStep
    <3> DEFINE i == visit[v].row
               r == [table[i] EXCEPT !.st = "payment_pending"]
    <3>1. /\ At(v, "stamp") /\ i \in Ids /\ table[i] \in Row
          /\ table' = [table EXCEPT ![i] = r]
          /\ AlreadySettled(i) => i \in crossed
      BY <2>6, RegTyped DEF SelectWrite, RegistrationsInv, VisitOK, At
    <3>2. r.details = table[i].details
      BY <3>1 DEF Row
    <3> HIDE DEF r
    <3>3. /\ table'[i].details = table[i].details /\ Selecting(i)
          /\ \A j \in Ids : j # i => table'[j] = table[j]
      BY <3>1, <3>2, RegTyped DEF Selecting
    <3> HIDE DEF i
    <3> QED BY <3>1, <3>3 DEF SettledStep
  <2>7. ASSUME NEW v \in Visitors, NEW e \in Emails, SubmitResume(v, e)
        PROVE  SettledStep
    <3> DEFINE i  == Latest(LiveIds(e))
               st == IF table[i].st = "expired" THEN "submitted" ELSE table[i].st
    <3>1. /\ ~AlreadySettled(i) /\ i \in Ids
          /\ table' = [table EXCEPT ![i] = [table[i] EXCEPT !.details = v, !.st = st]]
      BY <2>7, LiveRows DEF SubmitResume, Resume
    <3> HIDE DEF i, st
    <3> QED BY <3>1, OtherRowsStay
  <2>8. ASSUME NEW v \in Visitors, NEW e \in Emails
        PROVE  /\ SubmitDuplicate(v, e) \/ SubmitFindNone(v, e) => SettledStep
               /\ SelfServiceRead(v, e) => SettledStep
               /\ InsertDraft(v, e) \/ CreateSubmission(v, e) => SettledStep
               /\ CreateManualEnrollment(v, e) \/ InsertInternal(v, e) => SettledStep
               /\ \A i \in Ids : DraftRead(v, i, e) => SettledStep
    BY <2>1, NewRowsDisturbNone DEF SubmitDuplicate, SubmitFindNone, SelfServiceRead,
       InsertDraft, CreateSubmission, CreateManualEnrollment, InsertInternal, InsertAtOnce,
       DraftRead
  <2>9. ASSUME NEW i \in Ids, CreateOrder(i) \/ Settle(i) \/ Overwrite(i) \/ Expire(i)
        PROVE  SettledStep
    <3>1. table[i] \in Row
      BY RegTyped
    <3>2. CASE Settle(i)
      <4> DEFINE r == [table[i] EXCEPT !.st = "paid", !.order = "paid"]
      <4>1. r.st = "paid" /\ r.details = table[i].details /\ table' = [table EXCEPT ![i] = r]
        BY <3>1, <3>2 DEF Settle, Row
      <4> HIDE DEF r
      <4> QED BY <4>1, OtherRowsStay
    <3>3. CASE CreateOrder(i) \/ Overwrite(i)
      <4> DEFINE r == [table[i] EXCEPT !.order = "open"]
      <4>1. /\ r.st = table[i].st /\ r.details = table[i].details
            /\ table' = [table EXCEPT ![i] = r]
        BY <3>1, <3>3, RegTyped DEF CreateOrder, Overwrite, Row
      <4> HIDE DEF r
      <4> QED BY <4>1, OtherRowsStay
    <3>4. CASE Expire(i)
      <4> DEFINE r == [table[i] EXCEPT !.st = "expired"]
      <4>1. /\ table[i].st = "submitted" /\ r.details = table[i].details
            /\ table' = [table EXCEPT ![i] = r]
        BY <3>1, <3>4, RegTyped DEF Expire, Row
      <4> HIDE DEF r
      <4> QED BY <4>1, OtherRowsStay
    <3> QED BY <2>9, <3>2, <3>3, <3>4
  <2>10. ASSUME NEW v \in Visitors, NEW i \in Ids
         PROVE  DiscardRead(v, i) \/ SelectRead(v, i) => SettledStep
    BY <2>1 DEF DiscardRead, SelectRead
  <2>11. ASSUME NEW e \in Emails, CreateUser(e)
         PROVE  SettledStep
    BY <2>1, <2>11 DEF CreateUser
  <2> QED BY <2>1, <2>2, <2>3, <2>4, <2>5, <2>6, <2>7, <2>8, <2>9, <2>10, <2>11
      DEF RegistrationsNext, registrationsVars
<1>2. SettledStep => [SettledStep]_registrationsVars
  OBVIOUS
<1> QED BY <1>1, RegistrationsInvariant, PTL DEF RegistrationsSpec, SettledKeepsDetails, SettledStep

-----------------------------------------------------------------------------
(* Internal enrollments: money *)

\* A percentage of up to 100 leaves something between nothing and the price.
LEMMA PercentOfPrice ==
  ASSUME NEW price \in Nat \ {0}, NEW value \in Nat \ {0}, value <= 100
  PROVE  Percent(price, value) \in 0 .. price
<1> DEFINE q == Percent(price, value)
           a == 2 * price * value + 100
<1>1. price * value \in Nat /\ price * value <= price * 100
  <2>1. price * (100 - value) >= 0
    OBVIOUS
  <2> QED BY <2>1
<1>2. a \in Nat /\ a <= 200 * price + 100
  BY <1>1
<1> HIDE DEF a
<1>3. q = a \div 200
  BY DEF Percent, a
<1>4. q \in Nat /\ 200 * q <= a
  BY <1>2, <1>3
<1> QED BY <1>2, <1>4

LEMMA DiscountOfPrice ==
  ASSUME NEW price \in Nat \ {0}, NEW offer \in Offers
  PROVE  Discount(offer, price) \in 0 .. price
<1>1. /\ offer.type \in {"PERCENT", "FLAT"} /\ offer.value \in Nat \ {0}
      /\ offer.type = "PERCENT" => offer.value <= 100
  BY OffersAssumption
<1> QED BY <1>1, PercentOfPrice DEF Discount

\* What is left is the price less the discount, and nothing only when the
\* discount is the price.
LEMMA FinalOfPrice ==
  ASSUME NEW price \in Nat \ {0}, NEW discount \in 0 .. price
  PROVE  /\ FinalAmount(price, discount) \in Nat
         /\ discount + FinalAmount(price, discount) = price
         /\ FinalAmount(price, discount) = 0 <=> discount = price
BY DEF FinalAmount

-----------------------------------------------------------------------------
(* Internal enrollments: the inductive invariant *)

Entry == [code : Codes \cup {NoCode}, base : Nat, discount : Nat, final : Nat,
          nth : Nat, limit : Nat, payment : Nat, st : {"FULLY_DISCOUNTED", "PAID"}]
Clerk == [pc : {"idle", "tx", "row"}, left : Nat, code : Codes \cup {NoCode},
          fee : Nat, used : Nat]
Counters == [Codes -> Nat]
Editor == [pc : {"idle", "open", "save"}, sent : Counters, seen : Counters,
           live : Counters, seenLive : Counters]

InternalTypeOK ==
  /\ plan \in [st : {"ACTIVE", "INACTIVE", "none"}, coupons : [Codes -> Coupon]]
  /\ fee \in Fees
  /\ clerk \in [Clerks -> Clerk]
  /\ editor \in [Editors -> Editor]
  /\ ledger \in Seq(Entry)
  /\ torn \subseteq Codes

\* A transaction starts from a course fee.
ClerksOK == \A k \in Clerks : clerk[k].pc = "tx" => clerk[k].fee \in Fees

\* Unless an edit has torn it, a counter is the number of redemptions, in the
\* plan and in every form that has read it since.
CountersOK ==
  \A c \in Codes \ torn :
    /\ plan.coupons[c].used = Redemptions(c)
    /\ \A a \in Editors :
         /\ editor[a].pc # "idle" => editor[a].sent[c] = editor[a].seen[c]
         /\ editor[a].pc = "save" => editor[a].live[c] = editor[a].seenLive[c]

InternalInv ==
  InternalTypeOK /\ ClerksOK /\ CountersOK /\ UsageLimitHolds /\ LedgerBalances

\* What a new entry does to the redemptions.
LEMMA RedemptionsAfter ==
  ASSUME ledger \in Seq(Entry), NEW x \in Entry, ledger' = Append(ledger, x), NEW c
  PROVE  /\ Redemptions(c) \in Nat
         /\ Redemptions(c)' = IF x.code = c THEN Redemptions(c) + 1 ELSE Redemptions(c)
<1> DEFINE n == Len(ledger)
           M == Append(ledger, x)
           S == {i \in 1 .. n : ledger[i].code = c}
           T == {i \in 1 .. Len(M) : M[i].code = c}
<1>1. n \in Nat /\ IsFiniteSet(1 .. n)
  BY FS_Interval
<1>2. IsFiniteSet(S)
  BY <1>1, FS_Subset
<1>3. Cardinality(S) \in Nat
  BY <1>2, FS_CardinalityType
<1>4. Len(M) = n + 1 /\ M[n + 1] = x /\ \A i \in 1 .. n : M[i] = ledger[i]
  BY <1>1
<1>5. T = IF x.code = c THEN S \cup {n + 1} ELSE S
  <2>1. 1 .. Len(M) = (1 .. n) \cup {n + 1}
    BY <1>1, <1>4
  <2> QED BY <1>4, <2>1
<1>6. n + 1 \notin S
  BY <1>1
<1>7. Cardinality(T) = IF x.code = c THEN Cardinality(S) + 1 ELSE Cardinality(S)
  BY <1>2, <1>5, <1>6, FS_AddElement
<1>8. Redemptions(c) = Cardinality(S) /\ Redemptions(c)' = Cardinality(T)
  BY DEF Redemptions
<1> QED BY <1>3, <1>7, <1>8

LEMMA RedemptionsAreNumbers ==
  ASSUME ledger \in Seq(Entry), NEW c
  PROVE  Redemptions(c) \in Nat
<1>1. IsFiniteSet(1 .. Len(ledger))
  BY FS_Interval
<1>2. IsFiniteSet({i \in 1 .. Len(ledger) : ledger[i].code = c})
  BY <1>1, FS_Subset
<1> QED BY <1>2, FS_CardinalityType DEF Redemptions

LEMMA InternalInitOK == InternalInit => InternalInv
<1> SUFFICES ASSUME InternalInit
             PROVE  InternalInv
  OBVIOUS
<1>1. PICK offers \in [Codes -> Offers] :
        plan = [st |-> "ACTIVE",
                coupons |-> [c \in Codes |-> [offer |-> offers[c], used |-> 0, on |-> TRUE]]]
  BY DEF InternalInit
<1>2. ledger = << >> /\ Len(ledger) = 0 /\ ledger \in Seq(Entry) /\ torn = {}
  BY DEF InternalInit
<1>3. /\ plan \in [st : {"ACTIVE", "INACTIVE", "none"}, coupons : [Codes -> Coupon]]
      /\ \A c \in Codes : plan.coupons[c].used = 0
  BY <1>1 DEF Coupon
<1>4. Zero \in Counters /\ Closed \in Editor /\ Closed.pc = "idle"
  BY DEF Zero, Counters, Closed, Editor
<1>5. NoRequest \in Clerk /\ NoRequest.pc = "idle"
  BY DEF NoRequest, Clerk
<1>6. InternalTypeOK
  BY <1>2, <1>3, <1>4, <1>5 DEF InternalInit, InternalTypeOK
<1>7. ClerksOK
  BY <1>5 DEF InternalInit, ClerksOK
<1>8. CountersOK
  <2>1. \A c \in Codes : Redemptions(c) = 0
    <3>1. \A c : {i \in 1 .. Len(ledger) : ledger[i].code = c} = {}
      BY <1>2
    <3> QED BY <3>1, FS_EmptySet DEF Redemptions
  <2> QED BY <1>3, <1>4, <2>1 DEF InternalInit, CountersOK
<1>9. UsageLimitHolds /\ LedgerBalances
  BY <1>2 DEF UsageLimitHolds, LedgerBalances
<1> QED BY <1>6, <1>7, <1>8, <1>9 DEF InternalInv

-----------------------------------------------------------------------------
(* Internal enrollments: the actions *)

LEMMA IntTyped ==
  ASSUME InternalInv
  PROVE  /\ plan.coupons \in [Codes -> Coupon] /\ clerk \in [Clerks -> Clerk]
         /\ editor \in [Editors -> Editor] /\ ledger \in Seq(Entry) /\ Len(ledger) \in Nat
         /\ fee \in Fees /\ torn \subseteq Codes
         /\ \A c \in Codes : plan.coupons[c].offer \in Offers /\ plan.coupons[c].used \in Nat
BY DEF InternalInv, InternalTypeOK, Coupon

LEMMA NextClerk ==
  ASSUME InternalInv, NEW k \in Clerks, NextRow(k)
  PROVE  /\ clerk' \in [Clerks -> Clerk] /\ clerk'[k].pc # "tx"
         /\ \A j \in Clerks : j # k => clerk'[j] = clerk[j]
<1> DEFINE w == IF clerk[k].left > 1
                THEN [NoRequest EXCEPT !.pc = "row", !.left = clerk[k].left - 1, !.code = clerk[k].code]
                ELSE NoRequest
<1>1. clerk[k] \in Clerk
  BY IntTyped
<1>2. w \in Clerk /\ w.pc # "tx"
  <2>1. CASE clerk[k].left > 1
    <3>1. clerk[k].left - 1 \in Nat /\ clerk[k].code \in Codes \cup {NoCode}
      BY <1>1, <2>1 DEF Clerk
    <3> QED BY <2>1, <3>1 DEF Clerk, NoRequest
  <2>2. CASE ~(clerk[k].left > 1)
    BY <2>2 DEF Clerk, NoRequest
  <2> QED BY <2>1, <2>2
<1>3. clerk' = [clerk EXCEPT ![k] = w]
  BY DEF NextRow
<1> HIDE DEF w
<1> QED BY <1>2, <1>3, IntTyped

\* A clerk's step that leaves plan, forms and ledger alone.
LEMMA ClerkStep ==
  ASSUME InternalInv, clerk' \in [Clerks -> Clerk], ClerksOK',
         UNCHANGED <<plan, fee, editor, ledger, torn>>
  PROVE  InternalInv'
<1>1. \A c : Redemptions(c)' = Redemptions(c)
  BY DEF Redemptions
<1>2. CountersOK'
  BY <1>1 DEF InternalInv, CountersOK
<1>3. InternalTypeOK'
  BY DEF InternalInv, InternalTypeOK
<1>4. UsageLimitHolds' /\ LedgerBalances'
  BY DEF InternalInv, UsageLimitHolds, LedgerBalances
<1> QED BY <1>2, <1>3, <1>4 DEF InternalInv

LEMMA ReadsPlan ==
  ASSUME InternalInv, NEW k \in Clerks, NEW code \in Codes \cup {NoCode}, NEW left \in Nat,
         ReadPlan(k, code, left)
  PROVE  clerk' \in [Clerks -> Clerk] /\ ClerksOK'
<1> DEFINE used == IF code = NoCode THEN 0 ELSE plan.coupons[code].used
           w == [pc |-> "tx", left |-> left, code |-> code, fee |-> fee, used |-> used]
<1>1. clerk' = [clerk EXCEPT ![k] = w]
  BY DEF ReadPlan
<1>2. used \in Nat /\ fee \in Nat
  BY IntTyped, OffersAssumption
<1>3. w \in Clerk /\ w.fee \in Fees
  BY <1>2, IntTyped DEF Clerk
<1> HIDE DEF w
<1> QED BY <1>1, <1>3, IntTyped DEF ClerksOK, InternalInv

LEMMA ClerkReadsKeep ==
  ASSUME InternalInv, NEW k \in Clerks,
         \/ CreateBulkEnrollments(k)
         \/ \E code \in Codes \cup {NoCode}, rows \in {1, CsvRows} : BeginEnrollment(k, code, rows)
  PROVE  InternalInv'
<1>1. UNCHANGED <<plan, fee, editor, ledger, torn>>
  BY DEF CreateBulkEnrollments, BeginEnrollment
<1>2. CASE NextRow(k)
  <2>1. clerk' \in [Clerks -> Clerk] /\ ClerksOK'
    BY <1>2, NextClerk DEF InternalInv, ClerksOK
  <2> QED BY <1>1, <2>1, ClerkStep
<1>3. CASE \E code \in Codes \cup {NoCode}, left \in Nat : ReadPlan(k, code, left)
  BY <1>1, <1>3, ReadsPlan, ClerkStep
<1>4. CreateBulkEnrollments(k) => <1>2!1 \/ <1>3!1
  BY IntTyped DEF CreateBulkEnrollments, Clerk
<1>5. CASE \E code \in Codes \cup {NoCode}, rows \in {1, CsvRows} : BeginEnrollment(k, code, rows)
  <2>1. {1, CsvRows} \subseteq Nat
    BY OffersAssumption
  <2> QED BY <1>3, <1>5, <2>1 DEF BeginEnrollment
<1> QED BY <1>2, <1>3, <1>4, <1>5

Accepted(k) == clerk[k].code = NoCode \/ CouponValid(plan.coupons[clerk[k].code])

LEMMA CouponAsRead ==
  ASSUME InternalInv, NEW c \in Codes
  PROVE  [plan.coupons[c] EXCEPT !.used = plan.coupons[c].used] = plan.coupons[c]
BY IntTyped DEF Coupon

\* The two outcomes of a transaction.
LEMMA Redeemed ==
  ASSUME InternalInv, NEW k \in Clerks, CreateInternalEnrollment(k)
  PROVE  LET code   == clerk[k].code
             coupon == plan.coupons[code]
         IN /\ clerk[k].pc = "tx" /\ NextRow(k) /\ UNCHANGED <<fee, editor, torn>>
            /\ \/ UNCHANGED <<plan, ledger>>
               \/ /\ Accepted(k)
                  /\ ledger' = Append(ledger, Enrolled(code, coupon, clerk[k].fee))
                  /\ plan' = IF code = NoCode THEN plan
                             ELSE [plan EXCEPT !.coupons = [@ EXCEPT ![code] = Counted(coupon)]]
<1> DEFINE code   == clerk[k].code
           coupon == plan.coupons[code]
<1>1. clerk[k].pc = "tx" /\ NextRow(k) /\ UNCHANGED <<fee, editor, torn>>
  BY DEF CreateInternalEnrollment, Redeem
<1>2. code \in Codes \cup {NoCode}
  BY IntTyped DEF Clerk
<1>3. CASE UNCHANGED <<plan, ledger>>
  BY <1>1, <1>3
<1>4. CASE ~UNCHANGED <<plan, ledger>>
  <2>1. CASE code = NoCode
    <3>1. /\ plan' = plan
          /\ ledger' = Append(ledger, Enrolled(code, [coupon EXCEPT !.used = Used(k)], clerk[k].fee))
      BY <1>4, <2>1 DEF CreateInternalEnrollment, Redeem
    <3>2. \A x, y, p : Enrolled(NoCode, x, p) = Enrolled(NoCode, y, p)
      BY DEF Enrolled
    <3> QED BY <1>1, <2>1, <3>1, <3>2 DEF Accepted
  <2>2. CASE code # NoCode
    <3>1. code \in Codes /\ Used(k) = coupon.used
      BY <1>2, <2>2 DEF Used
    <3>2. [coupon EXCEPT !.used = Used(k)] = coupon
      BY <3>1, CouponAsRead
    <3>3. /\ CouponValid([coupon EXCEPT !.used = Used(k)])
          /\ plan' = [plan EXCEPT !.coupons =
                        [@ EXCEPT ![code] = Counted([coupon EXCEPT !.used = Used(k)])]]
          /\ ledger' = Append(ledger, Enrolled(code, [coupon EXCEPT !.used = Used(k)], clerk[k].fee))
      BY <1>4, <2>2 DEF CreateInternalEnrollment, Redeem
    <3> QED BY <1>1, <2>2, <3>2, <3>3 DEF Accepted
  <2> QED BY <2>1, <2>2
<1> QED BY <1>3, <1>4

\* What the new entry says.
LEMMA EntryBalances ==
  ASSUME InternalInv, NEW k \in Clerks, Accepted(k), clerk[k].pc = "tx"
  PROVE  LET code == clerk[k].code
             x    == Enrolled(code, plan.coupons[code], clerk[k].fee)
         IN /\ x \in Entry /\ x.code = code
            /\ x.discount + x.final = x.base /\ x.payment = x.final
            /\ x.st = "FULLY_DISCOUNTED" <=> x.discount = x.base
            /\ x.limit # 0 /\ code \notin torn => x.nth <= x.limit
<1> DEFINE code     == clerk[k].code
           coupon   == plan.coupons[code]
           price    == clerk[k].fee
           discount == IF code = NoCode THEN 0 ELSE Discount(coupon.offer, price)
           final    == FinalAmount(price, discount)
           x        == Enrolled(code, coupon, price)
<1>1. price \in Nat \ {0} /\ code \in Codes \cup {NoCode}
  BY IntTyped, OffersAssumption DEF InternalInv, ClerksOK, Clerk
<1>2. code # NoCode => coupon.offer \in Offers /\ coupon.used \in Nat
  BY <1>1, IntTyped
<1>3. discount \in 0 .. price
  BY <1>1, <1>2, DiscountOfPrice
<1> DEFINE nth   == IF code = NoCode THEN 0 ELSE Redemptions(code) + 1
           limit == IF code = NoCode THEN 0 ELSE coupon.offer.limit
<1>4. x = [code |-> code, base |-> price, discount |-> discount, final |-> final,
           nth |-> nth, limit |-> limit, payment |-> final,
           st |-> IF final = 0 THEN "FULLY_DISCOUNTED" ELSE "PAID"]
  BY DEF Enrolled
<1>5. nth \in Nat /\ limit \in Nat
  BY <1>2, RedemptionsAreNumbers, IntTyped, OffersAssumption
<1>6. limit # 0 /\ code \notin torn => nth <= limit
  <2> SUFFICES ASSUME limit # 0, code \notin torn
               PROVE  nth <= limit
    OBVIOUS
  <2>1. code # NoCode /\ code \in Codes /\ coupon.used = Redemptions(code)
    BY <1>1 DEF InternalInv, CountersOK
  <2>2. coupon.used < coupon.offer.limit
    BY <2>1 DEF Accepted, CouponValid
  <2> QED BY <1>2, <1>5, <2>1, <2>2
<1> HIDE DEF discount, nth, limit
<1>7. final \in Nat /\ discount + final = price /\ (final = 0 <=> discount = price)
  BY <1>1, <1>3, FinalOfPrice
<1> HIDE DEF final, x
<1>8. x \in Entry
  BY <1>1, <1>3, <1>4, <1>5, <1>7 DEF Entry
<1> QED BY <1>4, <1>6, <1>7, <1>8 DEF x

LEMMA CounterAfter ==
  ASSUME InternalInv, NEW code \in Codes,
         plan' = [plan EXCEPT !.coupons = [@ EXCEPT ![code] = Counted(plan.coupons[code])]]
  PROVE  /\ plan' \in [st : {"ACTIVE", "INACTIVE", "none"}, coupons : [Codes -> Coupon]]
         /\ plan'.coupons[code].used = plan.coupons[code].used + 1
         /\ \A c \in Codes : c # code => plan'.coupons[c] = plan.coupons[c]
<1> DEFINE d == Counted(plan.coupons[code])
<1>1. plan \in [st : {"ACTIVE", "INACTIVE", "none"}, coupons : [Codes -> Coupon]]
  BY DEF InternalInv, InternalTypeOK
<1>2. plan.coupons[code] \in Coupon
  BY <1>1
<1>3. d \in Coupon /\ d.used = plan.coupons[code].used + 1
  BY <1>2 DEF Counted, Coupon
<1> DEFINE after == [plan.coupons EXCEPT ![code] = d]
<1>4. plan' = [plan EXCEPT !.coupons = after]
  OBVIOUS
<1> HIDE DEF d
<1>5. /\ after \in [Codes -> Coupon] /\ after[code] = d
      /\ \A c \in Codes : c # code => after[c] = plan.coupons[c]
  BY <1>1, <1>3
<1> HIDE DEF after
<1>6. plan'.coupons = after /\ plan'.st = plan.st
  BY <1>1, <1>4
<1>7. plan' \in [st : {"ACTIVE", "INACTIVE", "none"}, coupons : [Codes -> Coupon]]
  BY <1>1, <1>4, <1>5
<1> QED BY <1>3, <1>5, <1>6, <1>7

\* createInternalEnrollment: one more entry, one more redemption on the counter.
LEMMA CreateInternalKeeps ==
  ASSUME InternalInv, NEW k \in Clerks, CreateInternalEnrollment(k)
  PROVE  InternalInv'
<1> DEFINE code == clerk[k].code
           x    == Enrolled(code, plan.coupons[code], clerk[k].fee)
<1>1. /\ clerk[k].pc = "tx" /\ NextRow(k) /\ UNCHANGED <<fee, editor, torn>>
      /\ \/ UNCHANGED <<plan, ledger>>
         \/ /\ Accepted(k)
            /\ ledger' = Append(ledger, x)
            /\ plan' = IF code = NoCode THEN plan
                       ELSE [plan EXCEPT !.coupons = [@ EXCEPT ![code] = Counted(plan.coupons[code])]]
  BY Redeemed
<1>2. clerk' \in [Clerks -> Clerk] /\ ClerksOK'
  BY <1>1, NextClerk DEF InternalInv, ClerksOK
<1>3. CASE UNCHANGED <<plan, ledger>>
  BY <1>1, <1>2, <1>3, ClerkStep
<1>4. CASE ~UNCHANGED <<plan, ledger>>
  <2>1. /\ x \in Entry /\ x.code = code
        /\ x.discount + x.final = x.base /\ x.payment = x.final
        /\ x.st = "FULLY_DISCOUNTED" <=> x.discount = x.base
        /\ x.limit # 0 /\ code \notin torn => x.nth <= x.limit
    BY <1>1, <1>4, EntryBalances
  <2>2. ledger' = Append(ledger, x)
    BY <1>1, <1>4
  <2>3. code \in Codes \cup {NoCode} /\ NoCode \notin Codes
    BY IntTyped, OffersAssumption DEF Clerk
  <2>4. plan' = IF code = NoCode THEN plan
                ELSE [plan EXCEPT !.coupons = [@ EXCEPT ![code] = Counted(plan.coupons[code])]]
    BY <1>1, <1>4
  <2> HIDE DEF x
  <2>5. /\ ledger' \in Seq(Entry) /\ Len(ledger') = Len(ledger) + 1 /\ ledger'[Len(ledger')] = x
        /\ \A i \in 1 .. Len(ledger) : ledger'[i] = ledger[i]
        /\ \A i \in 1 .. Len(ledger') : i \in 1 .. Len(ledger) \/ i = Len(ledger')
    BY <2>1, <2>2, IntTyped
  <2>6. /\ plan' \in [st : {"ACTIVE", "INACTIVE", "none"}, coupons : [Codes -> Coupon]]
        /\ \A c \in Codes : plan'.coupons[c].used =
             IF c = code THEN plan.coupons[c].used + 1 ELSE plan.coupons[c].used
    <3>1. CASE code = NoCode
      BY <2>3, <2>4, <3>1 DEF InternalInv, InternalTypeOK
    <3>2. CASE code # NoCode
      BY <2>3, <2>4, <3>2, CounterAfter
    <3> QED BY <3>1, <3>2
  <2>7. \A c : Redemptions(c)' = IF code = c THEN Redemptions(c) + 1 ELSE Redemptions(c)
    BY <2>1, <2>2, IntTyped, RedemptionsAfter
  <2>8. CountersOK'
    BY <1>1, <2>6, <2>7 DEF InternalInv, CountersOK
  <2>9. InternalTypeOK'
    BY <1>1, <1>2, <2>5, <2>6 DEF InternalInv, InternalTypeOK
  <2>10. UsageLimitHolds'
    BY <1>1, <2>1, <2>5 DEF InternalInv, UsageLimitHolds
  <2>11. LedgerBalances'
    BY <2>1, <2>5 DEF InternalInv, LedgerBalances
  <2> QED BY <1>2, <2>8, <2>9, <2>10, <2>11 DEF InternalInv
<1> QED BY <1>3, <1>4

\* The form of an editor.
LEMMA UsesAreCounters ==
  ASSUME InternalInv
  PROVE  Uses \in Counters /\ Counts(plan.coupons) \in Counters /\ Zero \in Counters
BY IntTyped, RedemptionsAreNumbers DEF Uses, Counts, Counters, Zero

LEMMA FormsKeep ==
  ASSUME InternalInv, NEW a \in Editors, OpenForm(a) \/ UpdateRead(a)
  PROVE  InternalInv'
<1>1. UNCHANGED <<plan, fee, clerk, ledger, torn>> /\ \A c : Redemptions(c)' = Redemptions(c)
  BY DEF OpenForm, UpdateRead, Redemptions
<1>2. PICK w \in Editor :
        /\ editor' = [editor EXCEPT ![a] = w]
        /\ \A c \in Codes \ torn :
             /\ w.pc # "idle" => w.sent[c] = w.seen[c]
             /\ w.pc = "save" => w.live[c] = w.seenLive[c]
  <2>1. editor[a] \in Editor
    BY IntTyped
  <2>2. \A c \in Codes \ torn : Counts(plan.coupons)[c] = Uses[c]
    BY DEF InternalInv, CountersOK, Counts, Uses
  <2>3. CASE OpenForm(a)
    <3> DEFINE w == [Closed EXCEPT !.pc = "open", !.sent = Counts(plan.coupons), !.seen = Uses]
    <3>1. w \in Editor /\ w.pc = "open" /\ w.sent = Counts(plan.coupons) /\ w.seen = Uses
      BY UsesAreCounters DEF Closed, Editor
    <3>2. editor' = [editor EXCEPT ![a] = w]
      BY <2>3 DEF OpenForm
    <3> HIDE DEF w
    <3> QED BY <2>2, <3>1, <3>2
  <2>4. CASE UpdateRead(a)
    <3> DEFINE w == [editor[a] EXCEPT !.pc = "save", !.live = Counts(plan.coupons), !.seenLive = Uses]
    <3>1. /\ w \in Editor /\ w.pc = "save" /\ w.live = Counts(plan.coupons) /\ w.seenLive = Uses
          /\ w.sent = editor[a].sent /\ w.seen = editor[a].seen
      BY <2>1, UsesAreCounters DEF Editor
    <3>2. editor' = [editor EXCEPT ![a] = w] /\ editor[a].pc = "open"
      BY <2>4 DEF UpdateRead
    <3>3. \A c \in Codes \ torn : editor[a].sent[c] = editor[a].seen[c]
      BY <3>2 DEF InternalInv, CountersOK
    <3> HIDE DEF w
    <3>4. \A c \in Codes \ torn : w.sent[c] = w.seen[c] /\ w.live[c] = w.seenLive[c]
      BY <2>2, <3>1, <3>3
    <3> QED BY <3>1, <3>2, <3>4
  <2> QED BY <2>3, <2>4
<1>3. /\ editor' \in [Editors -> Editor] /\ editor'[a] = w
      /\ \A b \in Editors : b # a => editor'[b] = editor[b]
  BY <1>2, IntTyped
<1>4. CountersOK'
  BY <1>1, <1>2, <1>3 DEF InternalInv, CountersOK
<1>5. InternalTypeOK' /\ ClerksOK'
  BY <1>1, <1>3 DEF InternalInv, InternalTypeOK, ClerksOK
<1>6. UsageLimitHolds' /\ LedgerBalances'
  BY <1>1 DEF InternalInv, UsageLimitHolds, LedgerBalances
<1> QED BY <1>4, <1>5, <1>6 DEF InternalInv

\* The save of a form: a counter that is not torn by it was read when all
\* redemptions of today had been made.
LEMMA UpdateWriteKeeps ==
  ASSUME InternalInv, NEW a \in Editors, NEW sends \in BOOLEAN, NEW c \in Codes,
         NEW offer \in Offers, NEW on \in BOOLEAN, UpdateWrite(a, sends, c, offer, on)
  PROVE  InternalInv'
<1> DEFINE e     == editor[a]
           used  == IF sends THEN e.sent ELSE e.live
           seen  == IF sends THEN e.seen ELSE e.seenLive
           old   == plan.coupons
           after == [d \in Codes |->
                       [offer |-> IF d = c THEN offer ELSE old[d].offer, used |-> used[d],
                        on |-> IF d = c THEN on ELSE old[d].on]]
<1>1. /\ e.pc = "save" /\ UNCHANGED <<fee, clerk, ledger>>
      /\ plan' = [plan EXCEPT !.coupons = after]
      /\ torn' = torn \cup {d \in Codes : Redemptions(d) # seen[d]}
      /\ editor' = [editor EXCEPT ![a] = Closed]
  BY DEF UpdateWrite
<1>2. e \in Editor /\ plan \in [st : {"ACTIVE", "INACTIVE", "none"}, coupons : [Codes -> Coupon]]
  BY IntTyped DEF InternalInv, InternalTypeOK
<1>3. used \in Counters
  BY <1>2 DEF Editor
<1>4. \A d \in Codes \ torn : used[d] = seen[d]
  BY <1>1 DEF InternalInv, CountersOK
<1> HIDE DEF used, seen
<1>5. after \in [Codes -> Coupon] /\ \A d \in Codes : after[d].used = used[d]
  <2>1. ASSUME NEW d \in Codes
        PROVE  after[d] \in Coupon /\ after[d].used = used[d]
    <3>1. old[d] \in Coupon /\ used[d] \in Nat
      BY <1>2, <1>3 DEF Counters
    <3>2. (IF d = c THEN offer ELSE old[d].offer) \in Offers
      BY <3>1 DEF Coupon
    <3>3. (IF d = c THEN on ELSE old[d].on) \in BOOLEAN
      BY <3>1 DEF Coupon
    <3> QED BY <3>1, <3>2, <3>3 DEF Coupon
  <2> QED BY <2>1
<1> HIDE DEF after
<1>6. plan' \in [st : {"ACTIVE", "INACTIVE", "none"}, coupons : [Codes -> Coupon]] /\ plan'.coupons = after
  BY <1>1, <1>2, <1>5
<1>7. Closed \in Editor /\ Closed.pc = "idle"
  BY UsesAreCounters DEF Closed, Editor
<1>8. /\ editor' \in [Editors -> Editor] /\ editor'[a] = Closed
      /\ \A b \in Editors : b # a => editor'[b] = editor[b]
  BY <1>1, <1>7, IntTyped
<1>9. torn \subseteq torn' /\ torn' \subseteq Codes /\ \A d \in Codes \ torn' : Redemptions(d) = seen[d]
  BY <1>1, IntTyped
<1>10. \A d : Redemptions(d)' = Redemptions(d)
  BY <1>1 DEF Redemptions
<1>11. CountersOK'
  BY <1>4, <1>5, <1>6, <1>7, <1>8, <1>9, <1>10 DEF InternalInv, CountersOK
<1>12. InternalTypeOK' /\ ClerksOK'
  BY <1>1, <1>6, <1>8, <1>9 DEF InternalInv, InternalTypeOK, ClerksOK
<1>13. UsageLimitHolds' /\ LedgerBalances'
  BY <1>1, <1>9 DEF InternalInv, UsageLimitHolds, LedgerBalances
<1> QED BY <1>11, <1>12, <1>13 DEF InternalInv

LEMMA PlanStepsKeep ==
  ASSUME InternalInv,
         \/ \E st \in {"ACTIVE", "INACTIVE"} : SetStatus(st)
         \/ DeletePlan
         \/ \E f \in Fees : SetFee(f)
  PROVE  InternalInv'
<1>1. plan \in [st : {"ACTIVE", "INACTIVE", "none"}, coupons : [Codes -> Coupon]]
  BY DEF InternalInv, InternalTypeOK
<1>2. /\ UNCHANGED <<clerk, editor, ledger, torn>> /\ fee' \in Fees
      /\ plan' = plan \/ \E st \in {"ACTIVE", "INACTIVE", "none"} : plan' = [plan EXCEPT !.st = st]
  BY IntTyped DEF SetStatus, DeletePlan, SetFee
<1>3. /\ plan' \in [st : {"ACTIVE", "INACTIVE", "none"}, coupons : [Codes -> Coupon]]
      /\ plan'.coupons = plan.coupons
  BY <1>1, <1>2
<1>4. \A c : Redemptions(c)' = Redemptions(c)
  BY <1>2 DEF Redemptions
<1>5. CountersOK'
  BY <1>2, <1>3, <1>4 DEF InternalInv, CountersOK
<1>6. InternalTypeOK' /\ ClerksOK'
  BY <1>2, <1>3 DEF InternalInv, InternalTypeOK, ClerksOK
<1>7. UsageLimitHolds' /\ LedgerBalances'
  BY <1>2 DEF InternalInv, UsageLimitHolds, LedgerBalances
<1> QED BY <1>5, <1>6, <1>7 DEF InternalInv

LEMMA InternalStep == InternalInv /\ [InternalNext]_internalVars => InternalInv'
<1> SUFFICES ASSUME InternalInv, [InternalNext]_internalVars
             PROVE  InternalInv'
  OBVIOUS
<1>1. CASE UNCHANGED internalVars
  <2>1. clerk' \in [Clerks -> Clerk] /\ ClerksOK'
    BY <1>1, IntTyped DEF internalVars, InternalInv, ClerksOK
  <2> QED BY <1>1, <2>1, ClerkStep DEF internalVars
<1>2. CASE InternalNext
  BY <1>2, CreateInternalKeeps, ClerkReadsKeep, FormsKeep, UpdateWriteKeeps, PlanStepsKeep
     DEF InternalNext
<1> QED BY <1>1, <1>2

-----------------------------------------------------------------------------
(* Internal enrollments: the theorems *)

\* Plan, requests, forms and ledger keep the inductive invariant: whatever
\* clerks, files and editors interleave to, a counter that no edit has torn is
\* the number of redemptions.
THEOREM InternalInvariant == InternalSpec => []InternalInv
BY InternalInitOK, InternalStep, PTL DEF InternalSpec

\* A coupon is redeemed at most as often as its limit, unless an edit wrote a
\* counter back that was read before a redemption.
THEOREM UsageLimitHoldsAlways == InternalSpec => []UsageLimitHolds
<1>1. InternalInv => UsageLimitHolds
  BY DEF InternalInv
<1> QED BY <1>1, InternalInvariant, PTL

\* Discount, payment and price of every internal enrollment balance to the
\* paisa, for any offers and fees.
THEOREM LedgerBalancesHolds == InternalSpec => []LedgerBalances
<1>1. InternalInv => LedgerBalances
  BY DEF InternalInv
<1> QED BY <1>1, InternalInvariant, PTL

\* A clerk's request is charged what calculateFee shows for the fee it started
\* with and the coupons of the moment.
ShownStep ==
  \A k \in Clerks :
    Len(ledger') > Len(ledger) /\ clerk[k] # clerk'[k] =>
      ledger'[Len(ledger')].final = CalculateFee(clerk[k].fee, clerk[k].code, plan.coupons)

\* createInternalEnrollment charges what the wizard shows: both go through the
\* same validation and the same discount, from the fee of the snapshot.
THEOREM ChargedAsShownHolds == InternalSpec => ChargedAsShown
<1>1. InternalInv /\ [InternalNext]_internalVars => ShownStep
  <2> SUFFICES ASSUME InternalInv, [InternalNext]_internalVars,
                      NEW k \in Clerks, Len(ledger') > Len(ledger), clerk[k] # clerk'[k]
               PROVE  ledger'[Len(ledger')].final
                        = CalculateFee(clerk[k].fee, clerk[k].code, plan.coupons)
    BY DEF ShownStep
  <2>1. ledger' # ledger
    BY IntTyped
  <2>2. PICK j \in Clerks : CreateInternalEnrollment(j)
    BY <2>1 DEF InternalNext, internalVars, CreateBulkEnrollments, BeginEnrollment, OpenForm,
       UpdateRead, UpdateWrite, SetStatus, DeletePlan, SetFee
  <2> DEFINE code   == clerk[j].code
             price  == clerk[j].fee
             coupon == plan.coupons[code]
             x      == Enrolled(code, coupon, price)
  <2>3. /\ clerk[j].pc = "tx" /\ NextRow(j) /\ Accepted(j)
        /\ ledger' = Append(ledger, x)
    BY <2>1, <2>2, Redeemed
  <2>4. j = k
    BY <2>3, NextClerk
  <2>5. price \in Nat \ {0}
    BY <2>3, OffersAssumption DEF InternalInv, ClerksOK
  <2>6. ledger'[Len(ledger')] = x
    <3> HIDE DEF x
    <3> QED BY <2>3, IntTyped
  <2>7. x.final = FinalAmount(price, IF code = NoCode THEN 0 ELSE Discount(coupon.offer, price))
    BY DEF Enrolled
  <2>8. FinalAmount(price, 0) = price
    BY <2>5 DEF FinalAmount
  <2> QED BY <2>3, <2>4, <2>6, <2>7, <2>8 DEF CalculateFee, Accepted
<1> QED BY <1>1, InternalInvariant, PTL DEF InternalSpec, ChargedAsShown, ShownStep

=============================================================================
