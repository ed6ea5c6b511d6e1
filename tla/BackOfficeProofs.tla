-------------------------- MODULE BackOfficeProofs --------------------------
(***************************************************************************)
(* Proofs about components of the back office that share no variable, for  *)
(* any value of their constants: the follow-ups, the gateway's             *)
(* configurations, the course catalogue, the plan catalogue and the mirror *)
(* of the platform's users.                                                *)
(***************************************************************************)
EXTENDS LeadsProperties, GatewayConfigsProperties, CourseCatalogueProperties,
        PlanCatalogueProperties, ProvisioningProperties, Extrema,
        FunctionTheorems, SequenceTheorems

-----------------------------------------------------------------------------
(* Follow-ups: types, then who may overtake whom, then the counts and the *)
(* timeline                                                               *)

Statuses == FirstStatuses \cup Terminal \cup Outcomes \cup {"new"}
Moment == Dates \cup {Unset}
Note == [kind : {"status"}, from : Statuses, to : Statuses] \cup [kind : {"schedule", "note", "retry"}]
FollowupRow == [lead : LeadIds, status : Statuses, due : Moment, deleted : BOOLEAN, notes : Seq(Note)]

\* What the follow-up is ensured for, and what is done with a row once read.
StatusGoal(statuses) == [kind : {"status"}, to : statuses, date : Moment \cup {"keep"}]
EnsuredGoal == [kind : {"none", "deadLetter", "note"}] \cup StatusGoal(Outcomes \cup {"same"})
RowGoal == [kind : {"note", "retry"}] \cup StatusGoal(Statuses)

EnsureRequest(pcs) == [pc : pcs, lead : LeadIds, goal : EnsuredGoal, born : {"new", "payment_pending"}]
ReadRequest == [pc : {"read"}, f : Nat, goal : RowGoal]
UpdateRequest == [pc : {"update"}, f : Nat, goal : StatusGoal(Statuses), from : Statuses, fromDate : Moment]
NoteRequest == [pc : {"notes"}, f : Nat, todo : Seq(Note) \ {<<>>}]
OrderRequest == [pc : {"order"}, f : Nat]
ConvertRequest == [pc : {"convert"}, lead : LeadIds]
AssignRequest(pcs) == [pc : pcs, lead : LeadIds, to : Employees \cup {Unset}, rest : Seq(LeadIds)]
BulkRequest == [pc : {"bulk"}, to : Employees \cup {Unset}, rest : Seq(LeadIds) \ {<<>>}]

Request ==
  {Idle} \cup EnsureRequest({"ensure", "create"}) \cup ReadRequest \cup UpdateRequest \cup NoteRequest
    \cup OrderRequest \cup ConvertRequest \cup AssignRequest({"employee", "assign"}) \cup BulkRequest

OnRow == {"read", "update", "notes", "order"}

\* Every variable keeps its type, and a request holds rows that exist.
LeadsTypeOK ==
  /\ followups \in Seq(FollowupRow)
  /\ owner \in [LeadIds -> Employees \cup {Unset}]
  /\ paid \subseteq LeadIds /\ gone \subseteq LeadIds /\ staff \subseteq Employees
  /\ request \in [LeadRequests -> Request]
  /\ \A r \in LeadRequests : request[r].pc \in OnRow => request[r].f \in 1 .. Len(followups)
  /\ begun \in Nat
  /\ tangled \subseteq 1 .. Len(followups) /\ raced \subseteq LeadIds

\* Which request it is, is told by its statement.
LEMMA RequestKinds ==
  ASSUME NEW q \in Request
  PROVE  /\ q.pc \in {"ensure", "create"} => q \in EnsureRequest({"ensure", "create"})
         /\ q.pc = "read" => q \in ReadRequest
         /\ q.pc = "update" => q \in UpdateRequest
         /\ q.pc = "notes" => q \in NoteRequest
         /\ q.pc = "order" => q \in OrderRequest
         /\ q.pc = "convert" => q \in ConvertRequest
         /\ q.pc \in {"employee", "assign"} => q \in AssignRequest({"employee", "assign"})
         /\ q.pc = "bulk" => q \in BulkRequest
BY DEF Request, Idle, EnsureRequest, ReadRequest, UpdateRequest, NoteRequest, OrderRequest,
       ConvertRequest, AssignRequest, BulkRequest

\* A request that goes on, with the rows as they are after the step.
RowsStay == Len(followups') >= Len(followups)

LEMMA GotoType ==
  ASSUME LeadsTypeOK, RowsStay, followups' \in Seq(FollowupRow),
         NEW r \in LeadRequests, NEW next \in Request, Goto(r, next),
         next.pc \in OnRow => next.f \in 1 .. Len(followups')
  PROVE  /\ request' \in [LeadRequests -> Request]
         /\ \A q \in LeadRequests : request'[q].pc \in OnRow => request'[q].f \in 1 .. Len(followups')
<1>1. request' \in [LeadRequests -> Request]
  BY DEF Goto, LeadsTypeOK
<1>2. Len(followups) \in Nat /\ Len(followups') \in Nat
  BY DEF LeadsTypeOK
<1>3. ASSUME NEW q \in LeadRequests, request'[q].pc \in OnRow
      PROVE  request'[q].f \in 1 .. Len(followups')
  <2>1. CASE q = r
    BY <1>3, <2>1 DEF Goto, LeadsTypeOK
  <2>2. CASE q # r
    <3>1. request'[q] = request[q] /\ request[q].f \in 1 .. Len(followups)
      BY <1>3, <2>2 DEF Goto, LeadsTypeOK
    <3> QED BY <1>2, <3>1 DEF RowsStay
  <2> QED BY <2>1, <2>2
<1> QED BY <1>1, <1>3

\* Most steps move one request, and no row.
LEMMA MoveType ==
  ASSUME LeadsTypeOK, NEW r \in LeadRequests, NEW next \in Request, Goto(r, next),
         next.pc \in OnRow => next.f \in 1 .. Len(followups),
         UNCHANGED followups, owner' \in [LeadIds -> Employees \cup {Unset}],
         paid' \subseteq LeadIds, UNCHANGED <<gone, staff>>, begun' \in Nat,
         tangled' \subseteq 1 .. Len(followups), raced' \subseteq LeadIds
  PROVE  LeadsTypeOK'
<1>1. RowsStay
  BY DEF RowsStay, LeadsTypeOK
<1> QED BY <1>1, GotoType DEF LeadsTypeOK

LEMMA BeginType ==
  ASSUME LeadsTypeOK, NEW r \in LeadRequests, NEW first \in Request, Begin(r, first),
         first.pc \in OnRow => first.f \in 1 .. Len(followups),
         UNCHANGED <<followups, owner, gone, staff, tangled, raced>>, paid' \subseteq LeadIds
  PROVE  LeadsTypeOK'
BY MoveType DEF Begin, LeadsTypeOK

LEMMA RowType ==
  ASSUME LeadsTypeOK, NEW f \in 1 .. Len(followups)
  PROVE  followups[f] \in FollowupRow
BY DEF LeadsTypeOK

\* A caller goes on with the row it has ensured.
LEMMA ContinueNext ==
  ASSUME LeadsTypeOK, followups' \in Seq(FollowupRow), NEW r \in LeadRequests,
         request[r] \in EnsureRequest({"ensure", "create"}),
         NEW f \in 1 .. Len(followups'), Continue(r, f)
  PROVE  \E next \in ReadRequest \cup {Idle} :
           Goto(r, next) /\ (next.pc \in OnRow => next.f = f)
<1> DEFINE goal == request[r].goal
<1>1. goal \in EnsuredGoal
  BY DEF EnsureRequest
<1>2. followups'[f] \in FollowupRow
  OBVIOUS
<1>3. followups'[f].status \in Statuses
  BY <1>2 DEF FollowupRow
<1>4. CASE goal.kind \in {"none", "deadLetter"}
  <2>1. Goto(r, Idle) /\ Idle.pc \notin OnRow
    BY <1>4 DEF Continue, Idle, OnRow
  <2> QED BY <2>1
<1>5. CASE goal.kind = "status"
  <2>1. goal \in StatusGoal(Outcomes \cup {"same"})
    BY <1>1, <1>5 DEF EnsuredGoal
  <2> DEFINE next == [pc |-> "read", f |-> f,
                      goal |-> IF goal.to = "same"
                               THEN [kind |-> "status", to |-> followups'[f].status, date |-> goal.date]
                               ELSE goal]
  <2>2. Goto(r, next)
    BY <1>5 DEF Continue
  <2>3. (IF goal.to = "same"
         THEN [kind |-> "status", to |-> followups'[f].status, date |-> goal.date] ELSE goal)
          \in StatusGoal(Statuses)
    BY <1>3, <2>1 DEF StatusGoal, Statuses
  <2>4. next \in ReadRequest /\ next.f = f
    BY <2>3 DEF ReadRequest, RowGoal
  <2> QED BY <2>2, <2>4
<1>6. CASE goal.kind = "note"
  <2>1. goal \in [kind : {"note", "retry"}]
    BY <1>1, <1>6 DEF EnsuredGoal, StatusGoal
  <2>2. Goto(r, [pc |-> "read", f |-> f, goal |-> goal])
    BY <1>6 DEF Continue
  <2>3. [pc |-> "read", f |-> f, goal |-> goal] \in ReadRequest
    BY <2>1 DEF ReadRequest, RowGoal
  <2> QED BY <2>2, <2>3
<1>7. goal.kind \in {"none", "deadLetter", "status", "note"}
  BY <1>1 DEF EnsuredGoal, StatusGoal
<1> QED BY <1>4, <1>5, <1>6, <1>7

\* A lead list that is left is a request that goes on.
LEMMA AfterLeadType ==
  ASSUME NEW to \in Employees \cup {Unset}, NEW rest \in Seq(LeadIds)
  PROVE  AfterLead(to, rest) \in Request /\ AfterLead(to, rest).pc \notin OnRow
<1>1. CASE rest = <<>>
  BY <1>1 DEF AfterLead, Request, Idle, OnRow
<1>2. CASE rest # <<>>
  <2>1. [pc |-> "bulk", to |-> to, rest |-> rest] \in BulkRequest
    BY <1>2 DEF BulkRequest
  <2> QED BY <1>2, <2>1 DEF AfterLead, Request, OnRow
<1> QED BY <1>1, <1>2

LEMMA AllLeads ==
  ASSUME NEW leads \in SetToSeqs(LeadIds)
  PROVE  leads \in Seq(LeadIds) \ {<<>>}
<1>1. Cardinality(LeadIds) \in Nat /\ Cardinality(LeadIds) # 0
  BY LeadsAssumption, FS_CardinalityType, FS_EmptySet
<1>2. leads \in [1 .. Cardinality(LeadIds) -> LeadIds]
  BY DEF SetToSeqs
<1>3. leads \in Seq(LeadIds) /\ Len(leads) = Cardinality(LeadIds)
  BY <1>1, <1>2
<1> QED BY <1>1, <1>3

\* What becomes of one row.
LEMMA RowChanges ==
  ASSUME LeadsTypeOK, NEW f \in 1 .. Len(followups), NEW row \in FollowupRow,
         followups' = [followups EXCEPT ![f] = row]
  PROVE  /\ followups' \in Seq(FollowupRow) /\ Len(followups') = Len(followups) /\ RowsStay
         /\ followups'[f] = row
         /\ \A g \in 1 .. Len(followups) : g # f => followups'[g] = followups[g]
BY DEF LeadsTypeOK, RowsStay

LEMMA EnsureType ==
  ASSUME LeadsTypeOK, NEW r \in LeadRequests, EnsureFollowup(r)
  PROVE  LeadsTypeOK'
<1>1. request[r] \in EnsureRequest({"ensure", "create"})
  BY RequestKinds DEF EnsureFollowup, RequestAt, LeadsTypeOK
<1>2. request[r].lead \in LeadIds
  BY <1>1 DEF EnsureRequest
<1>3. CASE Active(request[r].lead) # {}
  <2>1. UNCHANGED <<followups, raced, owner, paid, gone, staff, begun, tangled>>
    BY <1>3 DEF EnsureFollowup
  <2>2. PICK f : f \in Active(request[r].lead) /\ Continue(r, f)
    <3> DEFINE A == Active(request[r].lead)
    <3>1. \E f \in A : \A g \in A : g <= f
      <4>1. A \subseteq 0 .. Len(followups) /\ Len(followups) \in Nat
        BY DEF Active, LiveOf, LeadsTypeOK
      <4> HIDE DEF A
      <4> QED BY <1>3, <4>1, GreatestUpTo DEF A
    <3>2. Continue(r, CHOOSE f \in A : \A g \in A : g <= f)
      BY <1>3 DEF EnsureFollowup
    <3> HIDE DEF A
    <3>3. (CHOOSE f \in A : \A g \in A : g <= f) \in A
      BY <3>1
    <3> QED BY <3>2, <3>3 DEF A
  <2>3. f \in 1 .. Len(followups)
    BY <2>2 DEF Active, LiveOf, LeadsTypeOK
  <2>4. PICK next \in ReadRequest \cup {Idle} : Goto(r, next) /\ (next.pc \in OnRow => next.f = f)
    BY <1>1, <2>1, <2>2, <2>3, ContinueNext DEF LeadsTypeOK
  <2> QED BY <2>1, <2>3, <2>4, MoveType DEF Request, LeadsTypeOK
<1>4. CASE Active(request[r].lead) = {}
  <2> DEFINE next == [request[r] EXCEPT !.pc = "create"]
  <2>1. next \in EnsureRequest({"ensure", "create"}) /\ next.pc = "create"
    BY <1>1 DEF EnsureRequest
  <2>2. /\ Goto(r, next) /\ UNCHANGED <<followups, owner, paid, gone, staff, begun, tangled>>
        /\ raced' \in {raced, raced \cup {request[r].lead}}
    BY <1>4 DEF EnsureFollowup
  <2> HIDE DEF next
  <2>3. raced' \subseteq LeadIds
    BY <1>2, <2>2 DEF LeadsTypeOK
  <2> QED BY <2>1, <2>2, <2>3, MoveType DEF Request, LeadsTypeOK, OnRow
<1> QED BY <1>3, <1>4

LEMMA CreateType ==
  ASSUME LeadsTypeOK, NEW r \in LeadRequests, CreateFollowup(r)
  PROVE  LeadsTypeOK'
<1> DEFINE row == [lead |-> request[r].lead, status |-> request[r].born,
                   due |-> Unset, deleted |-> FALSE, notes |-> <<>>]
<1>1. request[r] \in EnsureRequest({"ensure", "create"})
  BY RequestKinds DEF CreateFollowup, RequestAt, LeadsTypeOK
<1>2. row \in FollowupRow
  BY <1>1 DEF EnsureRequest, FollowupRow, Statuses, FirstStatuses, Moment
<1>3. followups' = Append(followups, row) /\ Continue(r, Len(followups) + 1)
  BY DEF CreateFollowup
<1> HIDE DEF row
<1>4. /\ followups' \in Seq(FollowupRow) /\ Len(followups') = Len(followups) + 1 /\ RowsStay
      /\ Len(followups) \in Nat
  BY <1>2, <1>3 DEF LeadsTypeOK, RowsStay
<1>5. Len(followups) + 1 \in 1 .. Len(followups')
  BY <1>4
<1>6. PICK next \in ReadRequest \cup {Idle} :
        Goto(r, next) /\ (next.pc \in OnRow => next.f = Len(followups) + 1)
  BY <1>1, <1>3, <1>4, <1>5, ContinueNext
<1>7. /\ request' \in [LeadRequests -> Request]
      /\ \A q \in LeadRequests : request'[q].pc \in OnRow => request'[q].f \in 1 .. Len(followups')
  BY <1>4, <1>5, <1>6, GotoType DEF Request
<1>8. tangled' \subseteq 1 .. Len(followups')
  BY <1>4 DEF CreateFollowup, LeadsTypeOK
<1> QED BY <1>4, <1>7, <1>8 DEF CreateFollowup, LeadsTypeOK

LEMMA ReadType ==
  ASSUME LeadsTypeOK, NEW r \in LeadRequests, ReadFollowup(r)
  PROVE  LeadsTypeOK'
<1> DEFINE f == request[r].f
           goal == request[r].goal
           row == followups[f]
<1>1. request[r] \in ReadRequest /\ f \in 1 .. Len(followups)
  BY RequestKinds DEF ReadFollowup, RequestAt, LeadsTypeOK, OnRow
<1>2. goal \in RowGoal /\ f \in Nat
  BY <1>1 DEF ReadRequest
<1>3. row.status \in Statuses /\ row.due \in Moment
  BY <1>1, RowType DEF FollowupRow
<1>4. /\ tangled' \in {tangled, tangled \cup {f}}
      /\ UNCHANGED <<followups, owner, paid, gone, staff, begun, raced>>
  BY DEF ReadFollowup
<1>5. tangled' \subseteq 1 .. Len(followups)
  BY <1>1, <1>4 DEF LeadsTypeOK
<1>6. ASSUME NEW next \in Request, Goto(r, next), next.pc \in OnRow => next.f = f
      PROVE  LeadsTypeOK'
  BY <1>1, <1>4, <1>5, <1>6, MoveType DEF LeadsTypeOK
<1>7. CASE Goto(r, Idle)
  BY <1>6, <1>7 DEF Request, Idle, OnRow
<1>8. CASE ~Goto(r, Idle)
  <2>1. Goto(r, CASE goal.kind = "status" ->
                       [pc |-> "update", f |-> f, goal |-> goal,
                        from |-> row.status, fromDate |-> row.due]
                  [] goal.kind = "note" ->
                       [pc |-> "notes", f |-> f, todo |-> <<[kind |-> "note"]>>]
                  [] goal.kind = "retry" -> [pc |-> "order", f |-> f])
    BY <1>8 DEF ReadFollowup
  <2> HIDE DEF f, goal, row
  <2>2. CASE goal.kind = "status"
    <3>1. goal \in StatusGoal(Statuses)
      BY <1>2, <2>2 DEF RowGoal
    <3>2. [pc |-> "update", f |-> f, goal |-> goal, from |-> row.status, fromDate |-> row.due] \in UpdateRequest
      BY <1>2, <1>3, <3>1 DEF UpdateRequest
    <3>3. Goto(r, [pc |-> "update", f |-> f, goal |-> goal, from |-> row.status, fromDate |-> row.due])
      BY <2>1, <2>2
    <3> QED BY <1>6, <3>2, <3>3 DEF Request
  <2>3. CASE goal.kind = "note"
    <3>1. <<[kind |-> "note"]>> \in Seq(Note) \ {<<>>}
      BY DEF Note
    <3>2. [pc |-> "notes", f |-> f, todo |-> <<[kind |-> "note"]>>] \in NoteRequest
      BY <1>2, <3>1 DEF NoteRequest
    <3>3. Goto(r, [pc |-> "notes", f |-> f, todo |-> <<[kind |-> "note"]>>])
      BY <2>1, <2>3
    <3> QED BY <1>6, <3>2, <3>3 DEF Request
  <2>4. CASE goal.kind = "retry"
    <3>1. [pc |-> "order", f |-> f] \in OrderRequest
      BY <1>2 DEF OrderRequest
    <3>2. Goto(r, [pc |-> "order", f |-> f])
      BY <2>1, <2>4
    <3> QED BY <1>6, <3>1, <3>2 DEF Request
  <2>5. goal.kind \in {"status", "note", "retry"}
    BY <1>2 DEF RowGoal, StatusGoal
  <2> QED BY <2>2, <2>3, <2>4, <2>5
<1> QED BY <1>7, <1>8

\* The row as updateStatus leaves it.
LEMMA UpdatedRow ==
  ASSUME LeadsTypeOK, NEW r \in LeadRequests, UpdateFollowup(r)
  PROVE  /\ request[r] \in UpdateRequest /\ request[r].f \in 1 .. Len(followups)
         /\ followups' \in Seq(FollowupRow) /\ Len(followups') = Len(followups) /\ RowsStay
         /\ \A g \in 1 .. Len(followups) : g # request[r].f => followups'[g] = followups[g]
         /\ followups'[request[r].f].lead = followups[request[r].f].lead
         /\ followups'[request[r].f].deleted = followups[request[r].f].deleted
         /\ followups'[request[r].f].status = request[r].goal.to
         /\ followups'[request[r].f].notes = followups[request[r].f].notes
<1> DEFINE q == request[r]
           row == [followups[q.f] EXCEPT
                     !.status = q.goal.to,
                     !.due = IF q.goal.date # "keep" THEN q.goal.date ELSE followups[q.f].due]
<1>1. q \in UpdateRequest /\ q.f \in 1 .. Len(followups)
  BY RequestKinds DEF UpdateFollowup, RequestAt, LeadsTypeOK, OnRow
<1>2. q.goal.to \in Statuses /\ q.goal.date \in Moment \cup {"keep"}
  BY <1>1 DEF UpdateRequest, StatusGoal
<1>3. followups[q.f] \in FollowupRow
  BY <1>1, RowType
<1>4. /\ row \in FollowupRow /\ row.lead = followups[q.f].lead
      /\ row.deleted = followups[q.f].deleted
      /\ row.status = q.goal.to /\ row.notes = followups[q.f].notes
  BY <1>2, <1>3 DEF FollowupRow
<1>5. followups' = [followups EXCEPT ![q.f] = row]
  BY DEF UpdateFollowup
<1> HIDE DEF q, row
<1>6. /\ followups' \in Seq(FollowupRow) /\ Len(followups') = Len(followups) /\ RowsStay
      /\ followups'[q.f] = row
      /\ \A g \in 1 .. Len(followups) : g # q.f => followups'[g] = followups[g]
  BY <1>1, <1>4, <1>5, RowChanges
<1> QED BY <1>1, <1>4, <1>6 DEF q

LEMMA UpdateType ==
  ASSUME LeadsTypeOK, NEW r \in LeadRequests, UpdateFollowup(r)
  PROVE  LeadsTypeOK'
<1> DEFINE q == request[r]
           changed == IF q.from # q.goal.to
                      THEN <<[kind |-> "status", from |-> q.from, to |-> q.goal.to]>> ELSE <<>>
           moved == IF q.goal.date # "keep" /\ q.fromDate # q.goal.date
                    THEN <<[kind |-> "schedule"]>> ELSE <<>>
           todo == changed \o moved
<1>1. q \in UpdateRequest /\ q.f \in 1 .. Len(followups)
  BY UpdatedRow
<1>2. q.from \in Statuses /\ q.goal.to \in Statuses /\ q.f \in Nat
  BY <1>1 DEF UpdateRequest, StatusGoal
<1>3. changed \in Seq(Note) /\ moved \in Seq(Note)
  <2>1. [kind |-> "status", from |-> q.from, to |-> q.goal.to] \in Note
    BY <1>2 DEF Note
  <2>2. [kind |-> "schedule"] \in Note
    BY DEF Note
  <2> HIDE DEF q
  <2> QED BY <2>1, <2>2
<1>4. Goto(r, IF todo = <<>> THEN Idle ELSE [pc |-> "notes", f |-> q.f, todo |-> todo])
  BY DEF UpdateFollowup
<1> HIDE DEF changed, moved
<1>5. todo \in Seq(Note)
  BY <1>3
<1> HIDE DEF q, todo
<1>6. PICK next \in Request : Goto(r, next) /\ (next.pc \in OnRow => next.f = q.f)
  <2>1. CASE todo = <<>>
    BY <1>4, <2>1 DEF Request, Idle, OnRow
  <2>2. CASE todo # <<>>
    <3>1. [pc |-> "notes", f |-> q.f, todo |-> todo] \in NoteRequest
      BY <1>2, <1>5, <2>2 DEF NoteRequest
    <3> QED BY <1>4, <2>2, <3>1 DEF Request
  <2> QED BY <2>1, <2>2
<1>7. /\ request' \in [LeadRequests -> Request]
      /\ \A p \in LeadRequests : request'[p].pc \in OnRow => request'[p].f \in 1 .. Len(followups')
  BY <1>1, <1>6, UpdatedRow, GotoType DEF q
<1> QED BY <1>7, UpdatedRow DEF UpdateFollowup, LeadsTypeOK

\* The notes of a row grow by one.
LEMMA NotedRow ==
  ASSUME LeadsTypeOK, NEW r \in LeadRequests, AppendNote(r)
  PROVE  /\ request[r] \in NoteRequest /\ request[r].f \in 1 .. Len(followups)
         /\ followups' \in Seq(FollowupRow) /\ Len(followups') = Len(followups) /\ RowsStay
         /\ \A g \in 1 .. Len(followups) :
              /\ followups'[g].lead = followups[g].lead
              /\ followups'[g].deleted = followups[g].deleted
              /\ followups'[g].status = followups[g].status
              /\ followups'[g].notes = IF g = request[r].f
                                       THEN Append(followups[g].notes, Head(request[r].todo))
                                       ELSE followups[g].notes
<1> DEFINE q == request[r]
           row == [followups[q.f] EXCEPT !.notes = Append(followups[q.f].notes, Head(q.todo))]
<1>1. q \in NoteRequest /\ q.f \in 1 .. Len(followups)
  BY RequestKinds DEF AppendNote, RequestAt, LeadsTypeOK, OnRow
<1>2. q.todo \in Seq(Note) /\ q.todo # <<>>
  BY <1>1 DEF NoteRequest
<1>3. Head(q.todo) \in Note
  BY <1>2
<1>4. followups[q.f] \in FollowupRow
  BY <1>1, RowType
<1>5. Append(followups[q.f].notes, Head(q.todo)) \in Seq(Note)
  BY <1>3, <1>4 DEF FollowupRow
<1>6. /\ row \in FollowupRow /\ row.lead = followups[q.f].lead
      /\ row.deleted = followups[q.f].deleted /\ row.status = followups[q.f].status
      /\ row.notes = Append(followups[q.f].notes, Head(q.todo))
  BY <1>4, <1>5 DEF FollowupRow
<1>7. followups' = [followups EXCEPT ![q.f] = row]
  BY DEF AppendNote
<1> HIDE DEF q, row
<1>8. /\ followups' \in Seq(FollowupRow) /\ Len(followups') = Len(followups) /\ RowsStay
      /\ followups'[q.f] = row
      /\ \A g \in 1 .. Len(followups) : g # q.f => followups'[g] = followups[g]
  BY <1>1, <1>6, <1>7, RowChanges
<1> QED BY <1>1, <1>6, <1>8 DEF q

LEMMA NoteType ==
  ASSUME LeadsTypeOK, NEW r \in LeadRequests, AppendNote(r)
  PROVE  LeadsTypeOK'
<1> DEFINE q == request[r]
<1>1. q \in NoteRequest /\ q.f \in 1 .. Len(followups)
  BY NotedRow
<1>2. q.todo \in Seq(Note) /\ q.todo # <<>> /\ q.f \in Nat
  BY <1>1 DEF NoteRequest
<1>3. Goto(r, IF Len(q.todo) = 1 THEN Idle ELSE [pc |-> "notes", f |-> q.f, todo |-> Tail(q.todo)])
  BY DEF AppendNote
<1> HIDE DEF q
<1>4. PICK next \in Request : Goto(r, next) /\ (next.pc \in OnRow => next.f = q.f)
  <2>1. CASE Len(q.todo) = 1
    BY <1>3, <2>1 DEF Request, Idle, OnRow
  <2>2. CASE Len(q.todo) # 1
    <3>1. Tail(q.todo) \in Seq(Note) /\ Tail(q.todo) # <<>>
      <4>1. PICK todo \in Seq(Note) : todo = q.todo
        BY <1>2
      <4>2. Tail(todo) \in Seq(Note) /\ Len(Tail(todo)) = Len(todo) - 1
        BY <1>2, <4>1, HeadTailProperties
      <4>3. Len(todo) \in Nat /\ Len(todo) # 1
        BY <2>2, <4>1
      <4>4. Len(Tail(todo)) # 0
        BY <4>2, <4>3
      <4>5. ASSUME Tail(todo) = <<>>
            PROVE  FALSE
        <5>1. Len(<<>>) = 0
          OBVIOUS
        <5> QED BY <4>4, <4>5, <5>1, Zenon
      <4> QED BY <4>1, <4>2, <4>5
    <3>2. [pc |-> "notes", f |-> q.f, todo |-> Tail(q.todo)] \in NoteRequest
      BY <1>2, <3>1 DEF NoteRequest
    <3> QED BY <1>3, <2>2, <3>2 DEF Request
  <2> QED BY <2>1, <2>2
<1>5. /\ request' \in [LeadRequests -> Request]
      /\ \A p \in LeadRequests : request'[p].pc \in OnRow => request'[p].f \in 1 .. Len(followups')
  BY <1>1, <1>4, NotedRow, GotoType DEF q
<1> QED BY <1>5, NotedRow DEF AppendNote, LeadsTypeOK

LEMMA RetryType ==
  ASSUME LeadsTypeOK, NEW r \in LeadRequests, RetryPayment(r)
  PROVE  LeadsTypeOK'
<1> DEFINE f == request[r].f
<1>1. request[r] \in OrderRequest /\ f \in 1 .. Len(followups)
  BY RequestKinds DEF RetryPayment, RequestAt, LeadsTypeOK, OnRow
<1>2. <<[kind |-> "retry"]>> \in Seq(Note) \ {<<>>}
  BY DEF Note
<1>3. [pc |-> "notes", f |-> f, todo |-> <<[kind |-> "retry"]>>] \in NoteRequest
  BY <1>1, <1>2 DEF NoteRequest, OrderRequest
<1>4. Goto(r, IF followups[f].lead \in paid \cup gone THEN Idle
              ELSE [pc |-> "notes", f |-> f, todo |-> <<[kind |-> "retry"]>>])
  BY DEF RetryPayment
<1> HIDE DEF f
<1>5. PICK next \in Request : Goto(r, next) /\ (next.pc \in OnRow => next.f = f)
  BY <1>3, <1>4 DEF Request, Idle, OnRow
<1> QED BY <1>1, <1>5, MoveType DEF RetryPayment, LeadsTypeOK

LEMMA ConvertType ==
  ASSUME LeadsTypeOK, NEW r \in LeadRequests, ConvertFollowups(r)
  PROVE  LeadsTypeOK'
<1> DEFINE open == {f \in LiveOf(request[r].lead) :
                      followups[f].status \notin Terminal \cup {"lost"}}
           Row(f) == IF f \in open THEN [followups[f] EXCEPT !.status = "converted"] ELSE followups[f]
<1>1. followups' = [f \in DOMAIN followups |-> Row(f)]
  BY DEF ConvertFollowups
<1>2. ASSUME NEW f \in 1 .. Len(followups)
      PROVE  Row(f) \in FollowupRow
  <2>1. followups[f] \in FollowupRow
    BY RowType
  <2>2. [followups[f] EXCEPT !.status = "converted"] \in FollowupRow
    BY <2>1 DEF FollowupRow, Statuses, Terminal
  <2> QED BY <2>1, <2>2
<1>3. open \subseteq 1 .. Len(followups)
  BY DEF LiveOf, LeadsTypeOK
<1>4. tangled' \subseteq tangled \cup open
  BY DEF ConvertFollowups
<1> HIDE DEF open, Row
<1>5. followups' \in Seq(FollowupRow) /\ Len(followups') = Len(followups) /\ RowsStay
  <2>1. /\ Len(followups) \in Nat /\ DOMAIN followups = 1 .. Len(followups)
    BY DEF LeadsTypeOK
  <2>2. followups' \in [1 .. Len(followups) -> FollowupRow]
    BY <1>1, <1>2, <2>1
  <2> QED BY <2>1, <2>2 DEF RowsStay
<1>6. Idle \in Request /\ Idle.pc \notin OnRow
  BY DEF Request, Idle, OnRow
<1>7. /\ request' \in [LeadRequests -> Request]
      /\ \A p \in LeadRequests : request'[p].pc \in OnRow => request'[p].f \in 1 .. Len(followups')
  BY <1>5, <1>6, GotoType DEF ConvertFollowups
<1> QED BY <1>3, <1>4, <1>5, <1>7 DEF ConvertFollowups, LeadsTypeOK

LEMMA DiscardType ==
  ASSUME LeadsTypeOK, NEW l \in LeadIds, DiscardDraft(l)
  PROVE  LeadsTypeOK'
<1>1. Len(followups) \in Nat /\ DOMAIN followups = 1 .. Len(followups)
  BY DEF LeadsTypeOK
<1>2. ASSUME NEW f \in 1 .. Len(followups)
      PROVE  (IF followups[f].lead = l THEN [followups[f] EXCEPT !.deleted = TRUE] ELSE followups[f])
                \in FollowupRow
  <2>1. followups[f] \in FollowupRow
    BY RowType
  <2>2. [followups[f] EXCEPT !.deleted = TRUE] \in FollowupRow
    BY <2>1 DEF FollowupRow
  <2> QED BY <2>1, <2>2
<1>3. followups' \in [1 .. Len(followups) -> FollowupRow]
  BY <1>1, <1>2 DEF DiscardDraft
<1>4. followups' \in Seq(FollowupRow) /\ Len(followups') = Len(followups)
  BY <1>1, <1>3
<1> QED BY <1>4 DEF DiscardDraft, LeadsTypeOK

\* The assignment of leads: no row is touched.
LEMMA BulkNextType ==
  ASSUME LeadsTypeOK, NEW r \in LeadRequests, BulkNext(r)
  PROVE  LeadsTypeOK'
<1> DEFINE q == request[r]
           l == Head(q.rest)
<1>1. q \in BulkRequest
  BY RequestKinds DEF BulkNext, RequestAt, LeadsTypeOK
<1>2. /\ q.to \in Employees \cup {Unset} /\ l \in LeadIds /\ Tail(q.rest) \in Seq(LeadIds)
  <2>1. q.to \in Employees \cup {Unset} /\ q.rest \in Seq(LeadIds) /\ q.rest # <<>>
    BY <1>1 DEF BulkRequest
  <2> QED BY <2>1, HeadTailProperties
<1>3. Goto(r, IF l \notin gone /\ q.to # owner[l]
              THEN [pc |-> "employee", lead |-> l, to |-> q.to, rest |-> Tail(q.rest)]
              ELSE AfterLead(q.to, Tail(q.rest)))
  BY DEF BulkNext
<1> HIDE DEF q, l
<1>4. [pc |-> "employee", lead |-> l, to |-> q.to, rest |-> Tail(q.rest)]
        \in AssignRequest({"employee", "assign"})
  BY <1>2 DEF AssignRequest
<1>5. AfterLead(q.to, Tail(q.rest)) \in Request /\ AfterLead(q.to, Tail(q.rest)).pc \notin OnRow
  BY <1>2, AfterLeadType
<1>6. PICK next \in Request : Goto(r, next) /\ next.pc \notin OnRow
  BY <1>3, <1>4, <1>5 DEF Request, OnRow
<1> QED BY <1>6, MoveType DEF BulkNext, LeadsTypeOK

LEMMA CheckEmployeeType ==
  ASSUME LeadsTypeOK, NEW r \in LeadRequests, CheckEmployee(r)
  PROVE  LeadsTypeOK'
<1> DEFINE q == request[r]
           next == [q EXCEPT !.pc = "assign"]
<1>1. q \in AssignRequest({"employee", "assign"})
  BY RequestKinds DEF CheckEmployee, RequestAt, LeadsTypeOK
<1>2. next \in AssignRequest({"employee", "assign"}) /\ next.pc = "assign"
  BY <1>1 DEF AssignRequest
<1>3. AfterLead(q.to, q.rest) \in Request /\ AfterLead(q.to, q.rest).pc \notin OnRow
  BY <1>1, AfterLeadType DEF AssignRequest
<1>4. Goto(r, next) \/ Goto(r, AfterLead(q.to, q.rest))
  BY DEF CheckEmployee
<1> HIDE DEF q, next
<1>5. PICK step \in Request : Goto(r, step) /\ step.pc \notin OnRow
  BY <1>2, <1>3, <1>4 DEF Request, OnRow
<1> QED BY <1>5, MoveType DEF CheckEmployee, LeadsTypeOK

LEMMA AssignType ==
  ASSUME LeadsTypeOK, NEW r \in LeadRequests, Assign(r)
  PROVE  LeadsTypeOK'
<1> DEFINE q == request[r]
<1>1. q \in AssignRequest({"employee", "assign"})
  BY RequestKinds DEF Assign, RequestAt, LeadsTypeOK
<1>2. AfterLead(q.to, q.rest) \in Request /\ AfterLead(q.to, q.rest).pc \notin OnRow
  BY <1>1, AfterLeadType DEF AssignRequest
<1>3. owner' \in [LeadIds -> Employees \cup {Unset}]
  BY <1>1 DEF Assign, AssignRequest, LeadsTypeOK
<1> QED BY <1>2, <1>3, MoveType DEF Assign, LeadsTypeOK

\* The requests that begin.
LEMMA EnsuredBegins ==
  ASSUME LeadsTypeOK, NEW r \in LeadRequests, NEW l \in LeadIds, NEW goal \in EnsuredGoal,
         NEW born \in {"new", "payment_pending"}, Begin(r, Ensure(l, goal, born)),
         UNCHANGED <<followups, owner, paid, gone, staff, tangled, raced>>
  PROVE  LeadsTypeOK'
<1>1. Ensure(l, goal, born) \in EnsureRequest({"ensure", "create"}) /\ Ensure(l, goal, born).pc = "ensure"
  BY DEF Ensure, EnsureRequest
<1> QED BY <1>1, BeginType DEF Request, OnRow, LeadsTypeOK

LEMMA GoalTypes ==
  /\ [kind |-> "none"] \in EnsuredGoal /\ [kind |-> "deadLetter"] \in EnsuredGoal
  /\ [kind |-> "note"] \in EnsuredGoal /\ StatusGoals \subseteq EnsuredGoal
<1>1. StatusGoals \subseteq StatusGoal(Outcomes \cup {"same"})
  BY DEF StatusGoals, Patches, StatusGoal, Moment
<1> QED BY <1>1 DEF EnsuredGoal

LEMMA StaffActsType ==
  ASSUME LeadsTypeOK, NEW r \in LeadRequests, NEW f \in DOMAIN followups,
         NEW goal \in Goals \cup {[kind |-> "retry"]}, StaffActs(r, f, goal)
  PROVE  LeadsTypeOK'
<1> DEFINE first == [pc |-> "read", f |-> f, goal |-> goal]
<1>1. goal \in RowGoal
  <2>1. CASE goal \in StatusGoals
    <3>1. PICK p \in Patches(Outcomes \cup {"same"}) :
            goal = [kind |-> "status", to |-> p.to, date |-> p.date]
      BY <2>1 DEF StatusGoals
    <3>2. goal.to \in FirstStatuses
      BY <3>1 DEF StaffActs
    <3> QED BY <3>1, <3>2 DEF RowGoal, StatusGoal, Statuses, Patches, Moment
  <2>2. CASE goal \in {[kind |-> "note"], [kind |-> "retry"]}
    BY <2>2 DEF RowGoal
  <2> QED BY <2>1, <2>2 DEF Goals
<1>2. f \in 1 .. Len(followups) /\ f \in Nat
  BY DEF LeadsTypeOK
<1>3. first \in ReadRequest /\ first.f = f
  BY <1>1, <1>2 DEF ReadRequest
<1>4. Begin(r, first)
  BY DEF StaffActs
<1> HIDE DEF first
<1> QED BY <1>2, <1>3, <1>4, BeginType DEF StaffActs, Request, LeadsTypeOK

LEMMA SettleType ==
  ASSUME LeadsTypeOK, NEW r \in LeadRequests, NEW l \in LeadIds, SettleOrder(r, l)
  PROVE  LeadsTypeOK'
<1>1. [pc |-> "convert", lead |-> l] \in ConvertRequest
  BY DEF ConvertRequest
<1>2. PICK first \in {Idle, [pc |-> "convert", lead |-> l]} : Begin(r, first)
  BY DEF SettleOrder
<1>3. first \in Request /\ first.pc \notin OnRow
  BY <1>1, <1>2 DEF Request, Idle, OnRow
<1>4. paid' \subseteq LeadIds
  BY DEF SettleOrder, LeadsTypeOK
<1> QED BY <1>2, <1>3, <1>4, BeginType DEF SettleOrder, LeadsTypeOK

LEMMA BeginAssignType ==
  ASSUME LeadsTypeOK, NEW r \in LeadRequests, NEW l \in LeadIds,
         NEW e \in Employees \cup {Unset}, BeginAssign(r, l, e)
  PROVE  LeadsTypeOK'
<1>1. [pc |-> "employee", lead |-> l, to |-> e, rest |-> <<>>] \in AssignRequest({"employee", "assign"})
  BY DEF AssignRequest
<1> QED BY <1>1, BeginType DEF BeginAssign, Request, OnRow, LeadsTypeOK

LEMMA BeginBulkAssignType ==
  ASSUME LeadsTypeOK, NEW r \in LeadRequests, NEW leads \in SetToSeqs(LeadIds),
         NEW e \in Employees \cup {Unset}, BeginBulkAssign(r, leads, e)
  PROVE  LeadsTypeOK'
<1>1. [pc |-> "bulk", to |-> e, rest |-> leads] \in BulkRequest
  BY AllLeads DEF BulkRequest
<1> QED BY <1>1, BeginType DEF BeginBulkAssign, Request, OnRow, LeadsTypeOK

LEMMA AbandonType ==
  ASSUME LeadsTypeOK, NEW r \in LeadRequests, Abandon(r)
  PROVE  LeadsTypeOK'
<1>1. Idle \in Request /\ Idle.pc \notin OnRow
  BY DEF Request, Idle, OnRow
<1>2. tangled' \subseteq 1 .. Len(followups)
  BY DEF Abandon, LeadsTypeOK, OnRow
<1> QED BY <1>1, <1>2, MoveType DEF Abandon, LeadsTypeOK

LEMMA LeadsTypeNext ==
  ASSUME LeadsTypeOK, LeadsNext
  PROVE  LeadsTypeOK'
<1>1. CASE \E r \in LeadRequests, l \in LeadIds :
             \/ SubmitLead(r, l) \/ DeadLetter(r, l) \/ SettleOrder(r, l)
             \/ \E e \in Employees :
                  OwnerNotes(r, l, e) \/ \E goal \in StatusGoals : OwnerUpdates(r, l, e, goal)
             \/ \E e \in Employees \cup {Unset} : BeginAssign(r, l, e)
  <2>1. PICK r \in LeadRequests, l \in LeadIds :
             \/ SubmitLead(r, l) \/ DeadLetter(r, l) \/ SettleOrder(r, l)
             \/ \E e \in Employees :
                  OwnerNotes(r, l, e) \/ \E goal \in StatusGoals : OwnerUpdates(r, l, e, goal)
             \/ \E e \in Employees \cup {Unset} : BeginAssign(r, l, e)
    BY <1>1
  <2>2. CASE SubmitLead(r, l)
    BY <2>2, GoalTypes, EnsuredBegins DEF SubmitLead
  <2>3. CASE DeadLetter(r, l)
    BY <2>3, GoalTypes, EnsuredBegins DEF DeadLetter
  <2>4. CASE SettleOrder(r, l)
    BY <2>4, SettleType
  <2>5. ASSUME NEW e \in Employees, OwnerNotes(r, l, e)
        PROVE  LeadsTypeOK'
    BY <2>5, GoalTypes, EnsuredBegins DEF OwnerNotes, OwnerActs
  <2>6. ASSUME NEW e \in Employees, NEW goal \in StatusGoals, OwnerUpdates(r, l, e, goal)
        PROVE  LeadsTypeOK'
    BY <2>6, GoalTypes, EnsuredBegins DEF OwnerUpdates, OwnerActs
  <2>7. ASSUME NEW e \in Employees \cup {Unset}, BeginAssign(r, l, e)
        PROVE  LeadsTypeOK'
    BY <2>7, BeginAssignType
  <2> QED BY <2>1, <2>2, <2>3, <2>4, <2>5, <2>6, <2>7
<1>2. ASSUME NEW r \in LeadRequests, NEW leads \in SetToSeqs(LeadIds),
             NEW e \in Employees \cup {Unset}, BeginBulkAssign(r, leads, e)
      PROVE  LeadsTypeOK'
  BY <1>2, BeginBulkAssignType
<1>3. ASSUME NEW r \in LeadRequests, NEW f \in DOMAIN followups,
             NEW goal \in Goals \cup {[kind |-> "retry"]}, StaffActs(r, f, goal)
      PROVE  LeadsTypeOK'
  BY <1>3, StaffActsType
<1>4. ASSUME NEW r \in LeadRequests,
             \/ EnsureFollowup(r) \/ CreateFollowup(r)
             \/ ReadFollowup(r) \/ UpdateFollowup(r) \/ AppendNote(r) \/ RetryPayment(r)
             \/ ConvertFollowups(r) \/ BulkNext(r) \/ CheckEmployee(r) \/ Assign(r) \/ Abandon(r)
      PROVE  LeadsTypeOK'
  BY <1>4, EnsureType, CreateType, ReadType, UpdateType, NoteType, RetryType, ConvertType,
     BulkNextType, CheckEmployeeType, AssignType, AbandonType
<1>5. ASSUME NEW l \in LeadIds, DiscardDraft(l)
      PROVE  LeadsTypeOK'
  BY <1>5, DiscardType
<1>6. ASSUME NEW e \in Employees, DeleteEmployee(e)
      PROVE  LeadsTypeOK'
  BY <1>6 DEF DeleteEmployee, LeadsTypeOK
<1> QED BY <1>1, <1>2, <1>3, <1>4, <1>5, <1>6 DEF LeadsNext

\* Rows, requests and the histories keep their types: a request never holds a
\* follow-up that does not exist, and never has an empty list of notes to add.
THEOREM LeadsTypeCorrect == LeadsSpec => []LeadsTypeOK
<1>1. LeadsInit => LeadsTypeOK
  BY DEF LeadsInit, LeadsTypeOK, Request, Idle, OnRow
<1>2. LeadsTypeOK /\ [LeadsNext]_leadVars => LeadsTypeOK'
  <2>1. CASE UNCHANGED leadVars
    BY <2>1 DEF leadVars, LeadsTypeOK
  <2> QED BY <2>1, LeadsTypeNext
<1> QED BY <1>1, <1>2, PTL DEF LeadsSpec

-----------------------------------------------------------------------------

At(r, f) == RequestAt(r, "update") /\ request[r].f = f
Creates(r, l) == RequestAt(r, "create") /\ request[r].lead = l
Untangled(l) == Active(l) \ tangled

\* As long as no two requests overlapped on a row, the one about to write it
\* is alone, and the row is open as it was when that request read it.
WritersOverlap ==
  \A r \in LeadRequests, f \in DOMAIN followups : At(r, f) /\ f \notin tangled =>
    /\ followups[f].status \notin Terminal
    /\ \A q \in LeadRequests : At(q, f) => q = r

\* As long as no two requests raced on a lead, the one about to create its row
\* is alone, and the lead still has no row but those reopened by an overlap.
CreatorsRace ==
  \A r \in LeadRequests, l \in LeadIds : Creates(r, l) /\ l \notin raced =>
    /\ Untangled(l) = {}
    /\ \A q \in LeadRequests : Creates(q, l) => q = r

OneUntangled == \A l \in LeadIds \ raced : \A f, g \in Untangled(l) : f = g

LeadsInv == WritersOverlap /\ CreatorsRace /\ OneUntangled

\* What a step that creates no row does to the rows.
RowsKept ==
  /\ Len(followups') = Len(followups)
  /\ \A g \in 1 .. Len(followups) :
       /\ followups'[g].lead = followups[g].lead
       /\ followups[g].deleted => followups'[g].deleted
  /\ tangled \subseteq tangled' /\ raced \subseteq raced'

LEMMA UntangledShrinks ==
  ASSUME LeadsTypeOK, LeadsTypeOK', RowsKept,
         \A g \in 1 .. Len(followups) :
           followups[g].status \in {"payment_completed", "followup_closed"} =>
             followups'[g].status = followups[g].status \/ g \in tangled,
         NEW l \in LeadIds
  PROVE  Untangled(l)' \subseteq Untangled(l)
<1>1. DOMAIN followups = 1 .. Len(followups) /\ DOMAIN followups' = 1 .. Len(followups)
  BY DEF LeadsTypeOK, RowsKept
<1>2. ASSUME NEW g \in Untangled(l)'
      PROVE  g \in Untangled(l)
  <2>1. /\ g \in 1 .. Len(followups) /\ followups'[g].lead = l /\ ~followups'[g].deleted
        /\ followups'[g].status \notin {"payment_completed", "followup_closed"} /\ g \notin tangled'
    BY <1>1, <1>2 DEF Untangled, Active, LiveOf, LiveRows
  <2>2. /\ followups[g].lead = l /\ ~followups[g].deleted /\ g \notin tangled
        /\ followups[g].status \notin {"payment_completed", "followup_closed"}
    BY <2>1 DEF RowsKept
  <2> QED BY <1>1, <2>1, <2>2 DEF Untangled, Active, LiveOf, LiveRows
<1> QED BY <1>2

\* Creators stay as they are when nobody joins them and no row becomes active.
LEMMA CreatorsKept ==
  ASSUME LeadsInv, raced \subseteq raced',
         \A l \in LeadIds : Untangled(l)' \subseteq Untangled(l),
         \A q \in LeadRequests : request'[q].pc = "create" => request'[q] = request[q]
  PROVE  CreatorsRace' /\ OneUntangled'
<1>1. ASSUME NEW q \in LeadRequests, NEW l \in LeadIds, Creates(q, l)'
      PROVE  Creates(q, l)
  BY <1>1 DEF Creates, RequestAt
<1>2. CreatorsRace'
  <2> SUFFICES ASSUME NEW r \in LeadRequests, NEW l \in LeadIds, Creates(r, l)', l \notin raced'
               PROVE  /\ Untangled(l)' = {}
                      /\ \A q \in LeadRequests : Creates(q, l)' => q = r
    BY DEF CreatorsRace
  <2>1. Creates(r, l) /\ l \notin raced
    BY <1>1
  <2> QED BY <1>1, <2>1 DEF LeadsInv, CreatorsRace
<1>3. OneUntangled'
  <2> SUFFICES ASSUME NEW l \in LeadIds, l \notin raced',
                      NEW f \in Untangled(l)', NEW g \in Untangled(l)'
               PROVE  f = g
    BY DEF OneUntangled
  <2>1. l \notin raced /\ f \in Untangled(l) /\ g \in Untangled(l)
    OBVIOUS
  <2> QED BY <2>1 DEF LeadsInv, OneUntangled
<1> QED BY <1>2, <1>3

\* So do writers when nobody joins them and no status changes.
LEMMA WritersKept ==
  ASSUME LeadsTypeOK, LeadsInv, tangled \subseteq tangled',
         \A g \in 1 .. Len(followups) : followups'[g].status = followups[g].status,
         \A q \in LeadRequests : request'[q].pc = "update" => request'[q] = request[q]
  PROVE  WritersOverlap'
<1> SUFFICES ASSUME NEW r \in LeadRequests, NEW f \in DOMAIN followups', At(r, f)', f \notin tangled'
             PROVE  /\ followups'[f].status \notin Terminal
                    /\ \A q \in LeadRequests : At(q, f)' => q = r
  BY DEF WritersOverlap
<1>1. \A q \in LeadRequests : At(q, f)' => At(q, f)
  BY DEF At, RequestAt
<1>2. f \in 1 .. Len(followups) /\ f \in DOMAIN followups /\ f \notin tangled
  BY <1>1 DEF At, RequestAt, LeadsTypeOK, OnRow
<1> QED BY <1>1, <1>2 DEF LeadsInv, WritersOverlap

\* Most steps leave every status alone, and bring nobody to a write.
LEMMA QuietStep ==
  ASSUME LeadsTypeOK, LeadsTypeOK', LeadsInv, RowsKept,
         \A g \in 1 .. Len(followups) : followups'[g].status = followups[g].status,
         \A q \in LeadRequests :
           request'[q].pc \in {"update", "create"} => request'[q] = request[q]
  PROVE  LeadsInv'
<1>1. \A l \in LeadIds : Untangled(l)' \subseteq Untangled(l)
  BY UntangledShrinks
<1>2. tangled \subseteq tangled' /\ raced \subseteq raced'
  BY DEF RowsKept
<1> QED BY <1>1, <1>2, CreatorsKept, WritersKept DEF LeadsInv

\* One request moves on to a statement that writes no status and no row.
LEMMA QuietMove ==
  ASSUME LeadsTypeOK, LeadsTypeOK', LeadsInv, UNCHANGED followups,
         tangled \subseteq tangled', raced \subseteq raced',
         NEW r \in LeadRequests, NEW next, Goto(r, next), next.pc \notin {"update", "create"}
  PROVE  LeadsInv'
<1>1. RowsKept
  BY DEF RowsKept
<1>2. \A q \in LeadRequests :
        request'[q].pc \in {"update", "create"} => request'[q] = request[q]
  BY DEF Goto, LeadsTypeOK
<1> QED BY <1>1, <1>2, QuietStep

LEMMA QuietBegin ==
  ASSUME LeadsTypeOK, LeadsTypeOK', LeadsInv, UNCHANGED <<followups, tangled, raced>>,
         NEW r \in LeadRequests, NEW first, Begin(r, first), first.pc \notin {"update", "create"}
  PROVE  LeadsInv'
BY QuietMove DEF Begin

LEMMA EnsureInv ==
  ASSUME LeadsTypeOK, LeadsTypeOK', LeadsInv, NEW r \in LeadRequests, EnsureFollowup(r)
  PROVE  LeadsInv'
<1> DEFINE l == request[r].lead
           found == Active(l)
<1>1. request[r] \in EnsureRequest({"ensure", "create"}) /\ l \in LeadIds
  BY RequestKinds DEF EnsureFollowup, RequestAt, LeadsTypeOK, EnsureRequest
<1>2. CASE found # {}
  <2>1. PICK f : Continue(r, f)
    BY <1>2 DEF EnsureFollowup
  <2>2. PICK next : Goto(r, next) /\ next.pc \in {"idle", "read"}
    BY <2>1 DEF Continue, Idle
  <2>3. UNCHANGED <<followups, tangled, raced>>
    BY <1>2 DEF EnsureFollowup
  <2> QED BY <2>2, <2>3, QuietMove
<1>3. CASE found = {}
  <2>1. /\ Goto(r, [request[r] EXCEPT !.pc = "create"]) /\ UNCHANGED <<followups, tangled>>
        /\ raced' = IF \E q \in LeadRequests : Creates(q, l) THEN raced \cup {l} ELSE raced
        /\ request[r].pc = "ensure"
    BY <1>3 DEF EnsureFollowup, Creates, RequestAt
  <2>2. /\ request'[r].pc = "create" /\ request'[r].lead = l
        /\ \A q \in LeadRequests : q # r => request'[q] = request[q]
    BY <1>1, <2>1 DEF Goto, LeadsTypeOK, EnsureRequest
  <2>3. \A m \in LeadIds : Untangled(m)' = Untangled(m)
    BY <2>1 DEF Untangled, Active, LiveOf, LiveRows
  <2>4. Untangled(l) = {}
    BY <1>3 DEF Untangled
  <2>5. \A q \in LeadRequests, m \in LeadIds :
          Creates(q, m)' => Creates(q, m) \/ (q = r /\ m = l)
    BY <2>2 DEF Creates, RequestAt
  <2>6. WritersOverlap'
    BY <2>1, <2>2, WritersKept DEF LeadsInv
  <2>7. raced \subseteq raced'
    BY <2>1
  <2>8. OneUntangled'
    BY <2>3, <2>7 DEF LeadsInv, OneUntangled
  <2> HIDE DEF l, found
  <2>9. ASSUME NEW p \in LeadRequests, NEW m \in LeadIds, Creates(p, m)', m \notin raced'
        PROVE  /\ Untangled(m)' = {}
               /\ \A q \in LeadRequests : Creates(q, m)' => q = p
    <3>1. CASE m = l
      <4>1. ~ \E q \in LeadRequests : Creates(q, l)
        BY <2>1, <2>9, <3>1
      <4> QED BY <1>1, <2>3, <2>4, <2>5, <2>9, <3>1, <4>1
    <3>2. CASE m # l
      BY <2>3, <2>5, <2>7, <2>9, <3>2 DEF LeadsInv, CreatorsRace
    <3> QED BY <3>1, <3>2
  <2>10. CreatorsRace'
    BY <2>9 DEF CreatorsRace
  <2> QED BY <2>6, <2>8, <2>10 DEF LeadsInv
<1> QED BY <1>2, <1>3

LEMMA CreateInv ==
  ASSUME LeadsTypeOK, LeadsTypeOK', LeadsInv, NEW r \in LeadRequests, CreateFollowup(r)
  PROVE  LeadsInv'
<1> DEFINE l == request[r].lead
           n == Len(followups) + 1
           row == [lead |-> l, status |-> request[r].born, due |-> Unset, deleted |-> FALSE, notes |-> <<>>]
<1>1. request[r] \in EnsureRequest({"ensure", "create"}) /\ l \in LeadIds /\ Creates(r, l)
  BY RequestKinds DEF CreateFollowup, RequestAt, LeadsTypeOK, EnsureRequest, Creates
<1>2. /\ followups' = Append(followups, row) /\ Continue(r, n) /\ UNCHANGED <<tangled, raced>>
  BY DEF CreateFollowup
<1>3. row.lead = l
  OBVIOUS
<1> HIDE DEF row
<1>4. /\ Len(followups) \in Nat /\ DOMAIN followups = 1 .. Len(followups)
      /\ DOMAIN followups' = 1 .. n /\ followups'[n] = row
      /\ \A g \in 1 .. Len(followups) : followups'[g] = followups[g]
  BY <1>2 DEF LeadsTypeOK
<1>5. PICK next : Goto(r, next) /\ next.pc \in {"idle", "read"}
  BY <1>2 DEF Continue, Idle
<1>6. \A q \in LeadRequests :
        request'[q].pc \in {"update", "create"} => q # r /\ request'[q] = request[q]
  BY <1>5 DEF Goto, LeadsTypeOK
<1> HIDE DEF n, l
<1>7. WritersOverlap'
  BY <1>2, <1>4, <1>6, WritersKept
<1>8. ASSUME NEW m \in LeadIds, NEW g \in Untangled(m)'
      PROVE  g \in Untangled(m) \/ (m = l /\ g = n)
  <2>1. /\ g \in 1 .. n /\ followups'[g].lead = m /\ ~followups'[g].deleted
        /\ followups'[g].status \notin {"payment_completed", "followup_closed"} /\ g \notin tangled
    BY <1>2, <1>4, <1>8 DEF Untangled, Active, LiveOf, LiveRows
  <2>2. CASE g = n
    BY <1>3, <1>4, <2>1, <2>2
  <2>3. CASE g # n
    <3>1. g \in 1 .. Len(followups)
      BY <1>4, <2>1, <2>3 DEF n
    <3> QED BY <1>4, <2>1, <3>1 DEF Untangled, Active, LiveOf, LiveRows
  <2> QED BY <2>2, <2>3
<1>9. l \notin raced => Untangled(l) = {}
  BY <1>1 DEF LeadsInv, CreatorsRace
<1>10. OneUntangled'
  BY <1>2, <1>8, <1>9 DEF LeadsInv, OneUntangled
<1>11. \A q \in LeadRequests, m \in LeadIds : Creates(q, m)' => Creates(q, m) /\ q # r
  BY <1>6 DEF Creates, RequestAt
<1>12. ASSUME NEW p \in LeadRequests, NEW m \in LeadIds, Creates(p, m)', m \notin raced'
       PROVE  /\ Untangled(m)' = {}
              /\ \A q \in LeadRequests : Creates(q, m)' => q = p
  <2>1. Creates(p, m) /\ p # r /\ m \notin raced
    BY <1>2, <1>11, <1>12
  <2>2. m # l
    BY <1>1, <2>1 DEF LeadsInv, CreatorsRace
  <2>3. Untangled(m) = {} /\ \A q \in LeadRequests : Creates(q, m) => q = p
    BY <2>1 DEF LeadsInv, CreatorsRace
  <2> QED BY <1>8, <1>11, <2>2, <2>3
<1>13. CreatorsRace'
  BY <1>12 DEF CreatorsRace
<1> QED BY <1>7, <1>10, <1>13 DEF LeadsInv

LEMMA ReadInv ==
  ASSUME LeadsTypeOK, LeadsTypeOK', LeadsInv, NEW r \in LeadRequests, ReadFollowup(r)
  PROVE  LeadsInv'
<1> DEFINE f == request[r].f
           goal == request[r].goal
           row == followups[f]
           update == [pc |-> "update", f |-> f, goal |-> goal, from |-> row.status, fromDate |-> row.due]
<1>1. UNCHANGED <<followups, raced>> /\ tangled \subseteq tangled'
  BY DEF ReadFollowup
<1>2. request[r] \in ReadRequest /\ f \in 1 .. Len(followups) /\ DOMAIN followups = 1 .. Len(followups)
  BY RequestKinds DEF ReadFollowup, RequestAt, LeadsTypeOK, OnRow
<1>3. CASE row.deleted \/ row.status \in Terminal \/ goal.kind # "status"
  <2>1. goal.kind \in {"status", "note", "retry"}
    BY <1>2 DEF ReadRequest, RowGoal, StatusGoal
  <2>2. PICK next : Goto(r, next) /\ next.pc \in {"idle", "notes", "order"}
    <3>1. CASE row.deleted \/ row.status \in Terminal
      BY <3>1 DEF ReadFollowup, Idle
    <3>2. CASE ~(row.deleted \/ row.status \in Terminal) /\ goal.kind = "note"
      <4>1. Goto(r, [pc |-> "notes", f |-> f, todo |-> <<[kind |-> "note"]>>])
        BY <3>2 DEF ReadFollowup
      <4> QED BY <4>1
    <3>3. CASE ~(row.deleted \/ row.status \in Terminal) /\ goal.kind = "retry"
      <4>1. Goto(r, [pc |-> "order", f |-> f])
        BY <3>3 DEF ReadFollowup
      <4> QED BY <4>1
    <3> QED BY <1>3, <2>1, <3>1, <3>2, <3>3
  <2> QED BY <1>1, <2>2, QuietMove
<1>4. CASE ~(row.deleted \/ row.status \in Terminal) /\ goal.kind = "status"
  <2>1. /\ Goto(r, update) /\ row.status \notin Terminal
        /\ tangled' = IF Overlapped(r, f) THEN tangled \cup {f} ELSE tangled
    BY <1>4 DEF ReadFollowup
  <2>2. update.pc = "update" /\ update.f = f
    OBVIOUS
  <2> HIDE DEF update
  <2>3. request'[r] = update /\ \A q \in LeadRequests : q # r => request'[q] = request[q]
    BY <2>1 DEF Goto, LeadsTypeOK
  <2>4. \A l \in LeadIds : Untangled(l)' \subseteq Untangled(l)
    BY <1>1 DEF Untangled, Active, LiveOf, LiveRows
  <2>5. \A q \in LeadRequests : request'[q].pc = "create" => request'[q] = request[q]
    BY <2>2, <2>3
  <2>6. CreatorsRace' /\ OneUntangled'
    BY <1>1, <2>4, <2>5, CreatorsKept
  <2>7. ASSUME NEW p \in LeadRequests, NEW g \in DOMAIN followups', At(p, g)', g \notin tangled'
        PROVE  /\ followups'[g].status \notin Terminal
               /\ \A q \in LeadRequests : At(q, g)' => q = p
    <3>1. \A q \in LeadRequests : At(q, g)' => At(q, g) \/ (q = r /\ g = f)
      BY <2>2, <2>3 DEF At, RequestAt
    <3>2. g \in DOMAIN followups /\ g \notin tangled /\ followups' = followups
      BY <1>1, <2>7
    <3>3. CASE g = f
      <4>1. ~Overlapped(r, f)
        BY <2>1, <2>7, <3>3
      <4>2. \A q \in LeadRequests : q # r => ~At(q, f)
        BY <4>1 DEF Overlapped, At, RequestAt
      <4>3. \A q \in LeadRequests : At(q, g)' => q = r
        BY <3>1, <3>3, <4>2
      <4> QED BY <2>1, <2>7, <3>2, <3>3, <4>3
    <3>4. CASE g # f
      BY <2>7, <3>1, <3>2, <3>4 DEF LeadsInv, WritersOverlap
    <3> QED BY <3>3, <3>4
  <2>8. WritersOverlap'
    BY <2>7 DEF WritersOverlap
  <2> QED BY <2>6, <2>8 DEF LeadsInv
<1> QED BY <1>3, <1>4

LEMMA UpdateInv ==
  ASSUME LeadsTypeOK, LeadsTypeOK', LeadsInv, NEW r \in LeadRequests, UpdateFollowup(r)
  PROVE  LeadsInv'
<1> DEFINE f == request[r].f
<1>1. /\ f \in 1 .. Len(followups) /\ Len(followups') = Len(followups)
      /\ \A g \in 1 .. Len(followups) : g # f => followups'[g] = followups[g]
      /\ followups'[f].lead = followups[f].lead /\ followups'[f].deleted = followups[f].deleted
  BY UpdatedRow
<1>2. UNCHANGED <<tangled, raced>> /\ At(r, f)
  BY DEF UpdateFollowup, At
<1>3. DOMAIN followups = 1 .. Len(followups) /\ DOMAIN followups' = 1 .. Len(followups)
  BY <1>1 DEF LeadsTypeOK
<1>4. RowsKept
  <2>1. \A g \in 1 .. Len(followups) :
          /\ followups'[g].lead = followups[g].lead
          /\ followups[g].deleted => followups'[g].deleted
    BY <1>1
  <2> QED BY <1>1, <1>2, <2>1 DEF RowsKept
<1>5. f \notin tangled =>
        /\ followups[f].status \notin Terminal
        /\ \A q \in LeadRequests : At(q, f) => q = r
  BY <1>1, <1>2, <1>3 DEF LeadsInv, WritersOverlap
<1>6. \A l \in LeadIds : Untangled(l)' \subseteq Untangled(l)
  <2>1. \A g \in 1 .. Len(followups) :
          followups[g].status \in {"payment_completed", "followup_closed"} =>
            followups'[g].status = followups[g].status \/ g \in tangled
    BY <1>1, <1>5 DEF Terminal
  <2> QED BY <1>4, <2>1, UntangledShrinks
<1>7. PICK next : Goto(r, next) /\ next.pc \in {"idle", "notes"}
  BY DEF UpdateFollowup, Idle
<1>8. /\ request'[r].pc \in {"idle", "notes"}
      /\ \A q \in LeadRequests : q # r => request'[q] = request[q]
  BY <1>7 DEF Goto, LeadsTypeOK
<1> HIDE DEF f
<1>9. \A q \in LeadRequests : request'[q].pc = "create" => request'[q] = request[q]
  BY <1>8
<1>10. CreatorsRace' /\ OneUntangled'
  BY <1>2, <1>6, <1>9, CreatorsKept
<1>11. ASSUME NEW p \in LeadRequests, NEW g \in DOMAIN followups', At(p, g)', g \notin tangled'
       PROVE  /\ followups'[g].status \notin Terminal
              /\ \A q \in LeadRequests : At(q, g)' => q = p
  <2>1. \A q \in LeadRequests : At(q, g)' => At(q, g) /\ q # r
    BY <1>8 DEF At, RequestAt
  <2>2. g # f
    BY <1>2, <1>5, <1>11, <2>1
  <2> QED BY <1>1, <1>2, <1>3, <1>11, <2>1, <2>2 DEF LeadsInv, WritersOverlap
<1>12. WritersOverlap'
  BY <1>11 DEF WritersOverlap
<1> QED BY <1>10, <1>12 DEF LeadsInv

\* What the conversion of a lead's rows does to one of them.
LEMMA ConvertedRow ==
  ASSUME LeadsTypeOK, NEW r \in LeadRequests, ConvertFollowups(r), NEW g \in 1 .. Len(followups)
  PROVE  /\ followups'[g].lead = followups[g].lead
         /\ followups'[g].deleted = followups[g].deleted
         /\ followups'[g].notes = followups[g].notes
         /\ \/ followups'[g].status = followups[g].status
            \/ /\ followups[g].status \notin Terminal /\ followups'[g].status = "converted"
               /\ Overlapped(r, g) => g \in tangled'
<1> DEFINE open == {f \in LiveOf(request[r].lead) :
                      followups[f].status \notin Terminal \cup {"lost"}}
<1>1. followups[g] \in FollowupRow /\ g \in DOMAIN followups
  BY RowType DEF LeadsTypeOK
<1>2. followups'[g] = IF g \in open THEN [followups[g] EXCEPT !.status = "converted"] ELSE followups[g]
  BY <1>1 DEF ConvertFollowups
<1>3. CASE g \in open
  <2>1. /\ followups'[g].lead = followups[g].lead /\ followups'[g].deleted = followups[g].deleted
        /\ followups'[g].notes = followups[g].notes /\ followups'[g].status = "converted"
    BY <1>1, <1>2, <1>3 DEF FollowupRow
  <2>2. Overlapped(r, g) => g \in tangled'
    BY <1>3 DEF ConvertFollowups
  <2>3. followups[g].status \notin Terminal
    BY <1>3
  <2> QED BY <2>1, <2>2, <2>3
<1>4. CASE g \notin open
  BY <1>2, <1>4
<1> QED BY <1>3, <1>4

LEMMA ConvertInv ==
  ASSUME LeadsTypeOK, LeadsTypeOK', LeadsInv, NEW r \in LeadRequests, ConvertFollowups(r)
  PROVE  LeadsInv'
<1>1. /\ tangled \subseteq tangled' /\ raced' = raced /\ Goto(r, Idle)
      /\ DOMAIN followups = 1 .. Len(followups) /\ Len(followups) \in Nat
  BY DEF ConvertFollowups, LeadsTypeOK
<1>2. DOMAIN followups' = DOMAIN followups
  BY DEF ConvertFollowups
<1>3. Len(followups') = Len(followups)
  BY <1>1, <1>2 DEF LeadsTypeOK
<1>4. RowsKept
  <2>1. \A g \in 1 .. Len(followups) :
          /\ followups'[g].lead = followups[g].lead
          /\ followups[g].deleted => followups'[g].deleted
    BY ConvertedRow
  <2> QED BY <1>1, <1>3, <2>1 DEF RowsKept
<1>5. \A l \in LeadIds : Untangled(l)' \subseteq Untangled(l)
  <2>1. \A g \in 1 .. Len(followups) :
          followups[g].status \in {"payment_completed", "followup_closed"} =>
            followups'[g].status = followups[g].status \/ g \in tangled
    BY ConvertedRow DEF Terminal
  <2> QED BY <1>4, <2>1, UntangledShrinks
<1>6. request'[r].pc = "idle" /\ \A q \in LeadRequests : q # r => request'[q] = request[q]
  BY <1>1 DEF Goto, Idle, LeadsTypeOK
<1>7. CreatorsRace' /\ OneUntangled'
  BY <1>1, <1>5, <1>6, CreatorsKept
<1>8. ASSUME NEW p \in LeadRequests, NEW g \in DOMAIN followups', At(p, g)', g \notin tangled'
      PROVE  /\ followups'[g].status \notin Terminal
             /\ \A q \in LeadRequests : At(q, g)' => q = p
  <2>1. \A q \in LeadRequests : At(q, g)' => At(q, g) /\ q # r
    BY <1>6 DEF At, RequestAt
  <2>2. Overlapped(r, g)
    BY <1>8, <2>1 DEF Overlapped, At, RequestAt
  <2>3. g \in 1 .. Len(followups) /\ g \notin tangled
    BY <1>1, <1>2, <1>8
  <2>4. followups'[g].status = followups[g].status
    BY <1>8, <2>2, <2>3, ConvertedRow
  <2> QED BY <1>1, <1>8, <2>1, <2>3, <2>4 DEF LeadsInv, WritersOverlap
<1>9. WritersOverlap'
  BY <1>8 DEF WritersOverlap
<1> QED BY <1>7, <1>9 DEF LeadsInv

LEMMA DiscardedRow ==
  ASSUME LeadsTypeOK, NEW l \in LeadIds, DiscardDraft(l), NEW g \in 1 .. Len(followups)
  PROVE  /\ followups'[g].lead = followups[g].lead
         /\ followups[g].deleted => followups'[g].deleted
         /\ followups'[g].status = followups[g].status
         /\ followups'[g].notes = followups[g].notes
<1>1. followups[g] \in FollowupRow /\ g \in DOMAIN followups
  BY RowType DEF LeadsTypeOK
<1>2. followups'[g] = IF followups[g].lead = l THEN [followups[g] EXCEPT !.deleted = TRUE] ELSE followups[g]
  BY <1>1 DEF DiscardDraft
<1>3. CASE followups[g].lead = l
  BY <1>1, <1>2, <1>3 DEF FollowupRow
<1>4. CASE followups[g].lead # l
  BY <1>2, <1>4
<1> QED BY <1>3, <1>4

\* The first statement of a request about one lead.
LEMMA FirstStatements ==
  ASSUME NEW r \in LeadRequests, NEW l \in LeadIds,
         \/ SubmitLead(r, l) \/ DeadLetter(r, l) \/ SettleOrder(r, l)
         \/ \E e \in Employees :
              OwnerNotes(r, l, e) \/ \E goal \in StatusGoals : OwnerUpdates(r, l, e, goal)
         \/ \E e \in Employees \cup {Unset} : BeginAssign(r, l, e)
  PROVE  \E first : Begin(r, first) /\ first.pc \in {"ensure", "idle", "convert", "employee"}
<1>1. ASSUME NEW goal, NEW born, Begin(r, Ensure(l, goal, born))
      PROVE  \E first : Begin(r, first) /\ first.pc = "ensure"
  BY <1>1 DEF Ensure
<1>2. CASE SubmitLead(r, l) \/ DeadLetter(r, l)
  BY <1>1, <1>2 DEF SubmitLead, DeadLetter
<1>3. ASSUME NEW e \in Employees, NEW goal, OwnerActs(r, l, e, goal)
      PROVE  \E first : Begin(r, first) /\ first.pc = "ensure"
  BY <1>1, <1>3 DEF OwnerActs
<1>4. CASE SettleOrder(r, l)
  <2>1. CASE Begin(r, Idle)
    BY <2>1 DEF Idle
  <2>2. CASE Begin(r, [pc |-> "convert", lead |-> l])
    BY <2>2
  <2> QED BY <1>4, <2>1, <2>2 DEF SettleOrder
<1>5. ASSUME NEW e \in Employees \cup {Unset}, BeginAssign(r, l, e)
      PROVE  \E first : Begin(r, first) /\ first.pc = "employee"
  <2>1. Begin(r, [pc |-> "employee", lead |-> l, to |-> e, rest |-> <<>>])
    BY <1>5 DEF BeginAssign
  <2> QED BY <2>1
<1> QED BY <1>2, <1>3, <1>4, <1>5 DEF OwnerNotes, OwnerUpdates

LEMMA LeadsInvNext ==
  ASSUME LeadsTypeOK, LeadsTypeOK', LeadsInv, LeadsNext
  PROVE  LeadsInv'
<1>1. ASSUME NEW r \in LeadRequests, NEW l \in LeadIds,
             \/ SubmitLead(r, l) \/ DeadLetter(r, l) \/ SettleOrder(r, l)
             \/ \E e \in Employees :
                  OwnerNotes(r, l, e) \/ \E goal \in StatusGoals : OwnerUpdates(r, l, e, goal)
             \/ \E e \in Employees \cup {Unset} : BeginAssign(r, l, e)
      PROVE  LeadsInv'
  <2>1. UNCHANGED <<followups, tangled, raced>>
    BY <1>1 DEF SubmitLead, DeadLetter, SettleOrder, OwnerNotes, OwnerUpdates, OwnerActs, BeginAssign
  <2>2. PICK first : Begin(r, first) /\ first.pc \in {"ensure", "idle", "convert", "employee"}
    BY <1>1, FirstStatements
  <2> QED BY <2>1, <2>2, QuietBegin
<1>2. ASSUME NEW r \in LeadRequests, NEW leads \in SetToSeqs(LeadIds),
             NEW e \in Employees \cup {Unset}, BeginBulkAssign(r, leads, e)
      PROVE  LeadsInv'
  <2> DEFINE first == [pc |-> "bulk", to |-> e, rest |-> leads]
  <2>1. Begin(r, first) /\ UNCHANGED <<followups, tangled, raced>> /\ first.pc = "bulk"
    BY <1>2 DEF BeginBulkAssign
  <2> HIDE DEF first
  <2> QED BY <2>1, QuietBegin
<1>3. ASSUME NEW r \in LeadRequests, NEW f \in DOMAIN followups,
             NEW goal \in Goals \cup {[kind |-> "retry"]}, StaffActs(r, f, goal)
      PROVE  LeadsInv'
  <2> DEFINE first == [pc |-> "read", f |-> f, goal |-> goal]
  <2>1. Begin(r, first) /\ UNCHANGED <<followups, tangled, raced>> /\ first.pc = "read"
    BY <1>3 DEF StaffActs
  <2> HIDE DEF first
  <2> QED BY <2>1, QuietBegin
<1>4. ASSUME NEW r \in LeadRequests,
             EnsureFollowup(r) \/ CreateFollowup(r) \/ ReadFollowup(r) \/ UpdateFollowup(r) \/ ConvertFollowups(r)
      PROVE  LeadsInv'
  BY <1>4, EnsureInv, CreateInv, ReadInv, UpdateInv, ConvertInv
<1>5. ASSUME NEW r \in LeadRequests, AppendNote(r)
      PROVE  LeadsInv'
  <2>1. UNCHANGED <<tangled, raced>>
    BY <1>5 DEF AppendNote
  <2>2. RowsKept /\ \A g \in 1 .. Len(followups) : followups'[g].status = followups[g].status
    BY <1>5, <2>1, NotedRow DEF RowsKept
  <2>3. PICK next : Goto(r, next) /\ next.pc \in {"idle", "notes"}
    BY <1>5 DEF AppendNote, Idle
  <2>4. \A q \in LeadRequests :
          request'[q].pc \in {"update", "create"} => request'[q] = request[q]
    BY <2>3 DEF Goto, LeadsTypeOK
  <2> QED BY <2>2, <2>4, QuietStep
<1>6. ASSUME NEW r \in LeadRequests,
             RetryPayment(r) \/ BulkNext(r) \/ CheckEmployee(r) \/ Assign(r) \/ Abandon(r)
      PROVE  LeadsInv'
  <2>1. UNCHANGED <<followups, raced>> /\ tangled \subseteq tangled'
    BY <1>6 DEF RetryPayment, BulkNext, CheckEmployee, Assign, Abandon
  <2>2. CASE CheckEmployee(r)
    <3>1. request[r] \in AssignRequest({"employee", "assign"})
      BY <2>2, RequestKinds DEF CheckEmployee, RequestAt, LeadsTypeOK
    <3>2. [request[r] EXCEPT !.pc = "assign"].pc = "assign"
      BY <3>1 DEF AssignRequest
    <3>3. AfterLead(request[r].to, request[r].rest).pc \in {"bulk", "idle"}
      BY DEF AfterLead, Idle
    <3>4. \/ Goto(r, [request[r] EXCEPT !.pc = "assign"])
          \/ Goto(r, AfterLead(request[r].to, request[r].rest))
      BY <2>2 DEF CheckEmployee
    <3> QED BY <2>1, <3>2, <3>3, <3>4, QuietMove
  <2>3. CASE RetryPayment(r) \/ BulkNext(r) \/ Assign(r) \/ Abandon(r)
    <3>1. PICK next : Goto(r, next) /\ next.pc \in {"notes", "employee", "bulk", "idle"}
      BY <2>3 DEF RetryPayment, BulkNext, Assign, Abandon, AfterLead, Idle
    <3> QED BY <2>1, <3>1, QuietMove
  <2> QED BY <1>6, <2>2, <2>3
<1>7. ASSUME NEW l \in LeadIds, DiscardDraft(l)
      PROVE  LeadsInv'
  <2>1. UNCHANGED <<request, tangled, raced>> /\ DOMAIN followups' = DOMAIN followups
    BY <1>7 DEF DiscardDraft
  <2>2. Len(followups') = Len(followups)
    BY <2>1 DEF LeadsTypeOK
  <2>3. RowsKept /\ \A g \in 1 .. Len(followups) : followups'[g].status = followups[g].status
    BY <1>7, <2>1, <2>2, DiscardedRow DEF RowsKept
  <2> QED BY <2>1, <2>3, QuietStep
<1>8. ASSUME NEW e \in Employees, DeleteEmployee(e)
      PROVE  LeadsInv'
  <2>1. UNCHANGED <<followups, request, tangled, raced>>
    BY <1>8 DEF DeleteEmployee
  <2>2. RowsKept
    BY <2>1 DEF RowsKept
  <2> QED BY <2>1, <2>2, QuietStep
<1> QED BY <1>1, <1>2, <1>3, <1>4, <1>5, <1>6, <1>7, <1>8 DEF LeadsNext

\* Overtaken writes and doubled rows always leave a trace in the histories.
THEOREM LeadsInvariant == LeadsSpec => [](LeadsTypeOK /\ LeadsInv)
<1>1. LeadsInit => LeadsInv
  BY DEF LeadsInit, LeadsInv, WritersOverlap, CreatorsRace, OneUntangled, Untangled, Active, LiveOf,
         Creates, RequestAt, Idle
<1>2. LeadsTypeOK /\ LeadsTypeOK' /\ LeadsInv /\ [LeadsNext]_leadVars => LeadsInv'
  <2>1. CASE UNCHANGED leadVars
    BY <2>1 DEF leadVars, LeadsInv, WritersOverlap, CreatorsRace, OneUntangled, Untangled, Active,
                LiveOf, LiveRows, Creates, At, RequestAt
  <2> QED BY <2>1, LeadsInvNext
<1> QED BY <1>1, <1>2, LeadsTypeCorrect, PTL DEF LeadsSpec

\* A done follow-up is reopened only where two requests overlapped: a write
\* that finds a terminal status has been overtaken since its request read.
THEOREM ReopenNeedsRaceHolds == LeadsSpec => ReopenNeedsRace
<1> DEFINE Change ==
      \A f \in DOMAIN followups :
        followups[f].status \in Terminal /\ followups'[f].status # followups[f].status => f \in tangled
<1>1. ASSUME LeadsTypeOK, LeadsInv, LeadsNext
      PROVE  Change
  <2> SUFFICES ASSUME NEW f \in DOMAIN followups, followups[f].status \in Terminal,
                      followups'[f].status # followups[f].status
               PROVE  f \in tangled
    OBVIOUS
  <2>1. f \in 1 .. Len(followups) /\ DOMAIN followups = 1 .. Len(followups) /\ Len(followups) \in Nat
    BY <1>1 DEF LeadsTypeOK
  <2>2. ASSUME NEW r \in LeadRequests, UpdateFollowup(r)
        PROVE  f \in tangled
    <3>1. f = request[r].f /\ At(r, f)
      BY <1>1, <2>1, <2>2, UpdatedRow DEF UpdateFollowup, At
    <3> QED BY <1>1, <3>1 DEF LeadsInv, WritersOverlap
  <2>3. ASSUME NEW r \in LeadRequests, ConvertFollowups(r)
        PROVE  f \in tangled
    BY <1>1, <2>1, <2>3, ConvertedRow
  <2>4. ASSUME NEW r \in LeadRequests, AppendNote(r)
        PROVE  f \in tangled
    BY <1>1, <2>1, <2>4, NotedRow
  <2>5. ASSUME NEW r \in LeadRequests, CreateFollowup(r)
        PROVE  f \in tangled
    <3>1. PICK row : followups' = Append(followups, row)
      BY <2>5 DEF CreateFollowup
    <3>2. followups'[f] = followups[f]
      BY <1>1, <2>1, <3>1 DEF LeadsTypeOK
    <3> QED BY <3>2
  <2>6. ASSUME NEW l \in LeadIds, DiscardDraft(l)
        PROVE  f \in tangled
    BY <1>1, <2>1, <2>6, DiscardedRow
  <2>7. CASE UNCHANGED followups
    BY <2>7
  <2> QED BY <1>1, <2>2, <2>3, <2>4, <2>5, <2>6, <2>7
          DEF LeadsNext, SubmitLead, DeadLetter, SettleOrder, OwnerNotes, OwnerUpdates, OwnerActs,
              BeginAssign, BeginBulkAssign, StaffActs, EnsureFollowup, ReadFollowup, RetryPayment,
              BulkNext, CheckEmployee, Assign, Abandon, DeleteEmployee
<1>2. LeadsTypeOK /\ LeadsInv /\ [LeadsNext]_leadVars => [Change]_leadVars
  BY <1>1
<1> QED BY <1>2, LeadsInvariant, PTL DEF LeadsSpec, ReopenNeedsRace

LEMMA AtMostOne ==
  ASSUME NEW S, IsFiniteSet(S)
  PROVE  Cardinality(S) <= 1 <=> \A x, y \in S : x = y
<1>1. Cardinality(S) \in Nat
  BY FS_CardinalityType
<1>2. ASSUME Cardinality(S) <= 1
      PROVE  \A x, y \in S : x = y
  <2>1. CASE Cardinality(S) = 0
    BY <2>1, FS_EmptySet
  <2>2. CASE Cardinality(S) = 1
    BY <2>2, FS_Singleton
  <2> QED BY <1>1, <1>2, <2>1, <2>2
<1>3. ASSUME \A x, y \in S : x = y
      PROVE  Cardinality(S) <= 1
  <2>1. CASE S = {}
    BY <2>1, FS_EmptySet
  <2>2. CASE S # {}
    <3>1. PICK x \in S : S = {x}
      BY <1>3, <2>2
    <3> QED BY <3>1, FS_Singleton
  <2> QED BY <2>1, <2>2
<1> QED BY <1>2, <1>3

LEMMA FiniteRows ==
  ASSUME LeadsTypeOK, NEW S \in SUBSET (DOMAIN followups)
  PROVE  IsFiniteSet(S)
<1>1. DOMAIN followups = 1 .. Len(followups) /\ Len(followups) \in Nat
  BY DEF LeadsTypeOK
<1>2. IsFiniteSet(1 .. Len(followups))
  BY <1>1, FS_Interval
<1>3. S \in SUBSET (1 .. Len(followups))
  BY <1>1
<1> QED BY <1>2, <1>3, FS_Subset

\* Two active rows of one lead take a race: two creators that both found none,
\* or an overlap on one of the rows.
THEOREM DuplicateNeedsRaceHolds == LeadsSpec => []DuplicateNeedsRace
<1>1. ASSUME LeadsTypeOK, LeadsInv
      PROVE  DuplicateNeedsRace
  <2> SUFFICES ASSUME NEW l \in LeadIds, Cardinality(Active(l)) > 1, l \notin raced,
                      Active(l) \cap tangled = {}
               PROVE  FALSE
    BY DEF DuplicateNeedsRace
  <2>1. Active(l) = Untangled(l)
    BY DEF Untangled
  <2>2. \A f, g \in Active(l) : f = g
    BY <1>1, <2>1 DEF LeadsInv, OneUntangled
  <2>3. IsFiniteSet(Active(l))
    BY <1>1, FiniteRows DEF Active, LiveOf
  <2>4. Cardinality(Active(l)) <= 1 /\ Cardinality(Active(l)) \in Nat
    BY <2>2, <2>3, AtMostOne, FS_CardinalityType
  <2> QED BY <2>4
<1> QED BY <1>1, LeadsInvariant, PTL

\* The dashboard's count of new leads is the length of the list the user is
\* shown, of every employee whose leads have at most one row and none that is
\* 'followup_closed'.
THEOREM NewLeadsAgreeHolds == LeadsSpec => []NewLeadsAgree
<1>1. ASSUME LeadsTypeOK
      PROVE  NewLeadsAgree
  <2> SUFFICES ASSUME NEW e \in Employees,
                      \A l \in Mine(e) :
                        /\ Cardinality(LiveOf(l)) <= 1
                        /\ \A f \in LiveOf(l) : followups[f].status # "followup_closed"
               PROVE  NewLeadsCount(e) = Cardinality(NewLeadsList(e))
    BY DEF NewLeadsAgree
  <2> DEFINE Closing == {"contacted", "interested", "not_interested", "converted", "closed"}
             done == {f \in UNION {LiveOf(l) : l \in Mine(e)} :
                        followups[f].status \in Closing \cup {"followup_closed"}}
             helped == {l \in Mine(e) : \E f \in LiveOf(l) : followups[f].status \in Closing}
             lead == [f \in done |-> followups[f].lead]
  <2>1. IsFiniteSet(Mine(e))
    <3>1. Mine(e) \in SUBSET LeadIds
      BY DEF Mine
    <3> QED BY <3>1, LeadsAssumption, FS_Subset
  <2>2. \A l \in Mine(e) : \A f, g \in LiveOf(l) : f = g
    <3> TAKE l \in Mine(e)
    <3>1. IsFiniteSet(LiveOf(l))
      BY <1>1, FiniteRows DEF LiveOf
    <3> QED BY <3>1, AtMostOne
  <2>3. done \subseteq DOMAIN followups
    BY DEF LiveOf
  <2>4. \A f \in done : /\ followups[f].lead \in Mine(e) /\ f \in LiveOf(followups[f].lead)
                        /\ followups[f].status \in Closing
    BY DEF LiveOf
  <2>5. lead \in [done -> helped]
    BY <2>4
  <2>6. \A f, g \in done : lead[f] = lead[g] => f = g
    BY <2>2, <2>4
  <2>7. \A l \in helped : \E f \in done : lead[f] = l
    BY DEF LiveOf
  <2>8. ExistsBijection(done, helped)
    <3> HIDE DEF done, helped, lead
    <3>1. lead \in Bijection(done, helped)
      BY <2>5, <2>6, <2>7, Fun_IsBij
    <3> QED BY <3>1 DEF ExistsBijection
  <2>9. IsFiniteSet(done) /\ Cardinality(helped) = Cardinality(done)
    <3>1. IsFiniteSet(done)
      BY <1>1, <2>3, FiniteRows
    <3> HIDE DEF done, helped
    <3> QED BY <2>8, <3>1, FS_Bijection
  <2>10. NewLeadsList(e) = Mine(e) \ helped /\ helped \subseteq Mine(e)
    BY DEF NewLeadsList
  <2>11. /\ Cardinality(helped) <= Cardinality(Mine(e))
         /\ Cardinality(Mine(e) \ helped) = Cardinality(Mine(e)) - Cardinality(helped)
         /\ Cardinality(Mine(e)) \in Nat /\ Cardinality(helped) \in Nat
    <3>1. helped \in SUBSET Mine(e) /\ Mine(e) \cap helped = helped
      BY <2>10
    <3> HIDE DEF helped
    <3>2. IsFiniteSet(helped) /\ Cardinality(helped) <= Cardinality(Mine(e))
      BY <2>1, <3>1, FS_Subset
    <3>3. Cardinality(Mine(e) \ helped) = Cardinality(Mine(e)) - Cardinality(Mine(e) \cap helped)
      BY <2>1, FS_Difference
    <3>4. Cardinality(Mine(e)) \in Nat /\ Cardinality(helped) \in Nat
      BY <2>1, <3>2, FS_CardinalityType
    <3> QED BY <3>1, <3>2, <3>3, <3>4
  <2>12. NewLeadsCount(e) = IF Cardinality(done) > Cardinality(Mine(e)) THEN 0
                            ELSE Cardinality(Mine(e)) - Cardinality(done)
    BY DEF NewLeadsCount
  <2> HIDE DEF done, helped
  <2> QED BY <2>9, <2>10, <2>11, <2>12
<1> QED BY <1>1, LeadsTypeCorrect, PTL

---------------------------------------------------------------
(* Follow-ups: the timeline explains the status *)

\* What an entry more says.
LEMMA EntryAdded ==
  ASSUME NEW notes \in Seq(Note), NEW n \in Note
  PROVE  /\ Len(Append(notes, n)) = Len(notes) + 1 /\ Len(notes) \in Nat
         /\ DOMAIN notes = 1 .. Len(notes) /\ DOMAIN Append(notes, n) = 1 .. Len(notes) + 1
         /\ Append(notes, n)[Len(notes) + 1] = n
         /\ \A i \in 1 .. Len(notes) : Append(notes, n)[i] = notes[i]
         /\ Changes(Append(notes, n)) =
              Changes(notes) \cup (IF n.kind = "status" THEN {Len(notes) + 1} ELSE {})
         /\ Changes(notes) \subseteq 1 .. Len(notes)
<1>1. /\ Len(Append(notes, n)) = Len(notes) + 1 /\ Len(notes) \in Nat
      /\ DOMAIN notes = 1 .. Len(notes) /\ DOMAIN Append(notes, n) = 1 .. Len(notes) + 1
      /\ Append(notes, n)[Len(notes) + 1] = n
      /\ \A i \in 1 .. Len(notes) : Append(notes, n)[i] = notes[i]
  OBVIOUS
<1> DEFINE more == Append(notes, n)
           size == Len(notes)
<1>2. /\ size \in Nat /\ DOMAIN notes = 1 .. size /\ DOMAIN more = 1 .. size + 1 /\ more[size + 1] = n
      /\ \A i \in 1 .. size : more[i] = notes[i]
  BY <1>1
<1> HIDE DEF more, size
<1>3. Changes(more) = Changes(notes) \cup (IF n.kind = "status" THEN {size + 1} ELSE {})
  <2>1. ASSUME NEW i \in 1 .. size + 1
        PROVE  i \in Changes(more) <=> i \in Changes(notes) \/ (n.kind = "status" /\ i = size + 1)
    <3>1. CASE i = size + 1
      BY <1>2, <3>1 DEF Changes
    <3>2. CASE i # size + 1
      <4>1. i \in 1 .. size
        BY <1>2, <3>2
      <4> QED BY <1>2, <3>2, <4>1 DEF Changes
    <3> QED BY <3>1, <3>2
  <2>2. Changes(more) \subseteq 1 .. size + 1 /\ Changes(notes) \subseteq 1 .. size + 1
    BY <1>2 DEF Changes
  <2> QED BY <1>2, <2>1, <2>2
<1>4. Changes(notes) \subseteq 1 .. size
  BY <1>2 DEF Changes
<1> QED BY <1>1, <1>3, <1>4 DEF more, size

\* It leaves alone what the entries before it say.
LEMMA SaidBefore ==
  ASSUME NEW notes \in Seq(Note), NEW n \in Note, NEW s, NEW k \in 0 .. Len(notes)
  PROVE  Says(Append(notes, n), k, s) <=> Says(notes, k, s)
<1> DEFINE more == Append(notes, n)
           size == Len(notes)
           old == {i \in Changes(notes) : i <= k}
           new == {i \in Changes(more) : i <= k}
<1>1. /\ size \in Nat /\ Changes(notes) \subseteq 1 .. size
      /\ Changes(more) = Changes(notes) \cup (IF n.kind = "status" THEN {size + 1} ELSE {})
      /\ \A i \in 1 .. size : more[i] = notes[i]
  BY EntryAdded
<1> HIDE DEF more, size
<1>2. k \in 0 .. size
  BY DEF size
<1>3. old = new /\ old \subseteq 1 .. size
  BY <1>1, <1>2
<1> HIDE DEF old, new
<1>4. \A i \in old : more[i].to = notes[i].to
  BY <1>1, <1>3
<1>5. Says(notes, k, s) <=> \/ old = {} /\ s \in {"new", "payment_pending"}
                            \/ \E i \in old : notes[i].to = s /\ \A j \in old : j <= i
  BY DEF Says, old
<1>6. Says(more, k, s) <=> \/ new = {} /\ s \in {"new", "payment_pending"}
                           \/ \E i \in new : more[i].to = s /\ \A j \in new : j <= i
  BY DEF Says, new
<1> QED BY <1>3, <1>4, <1>5, <1>6 DEF more

\* A change is what is said next, anything else repeats what was said.
LEMMA SaidNext ==
  ASSUME NEW notes \in Seq(Note), NEW n \in Note, NEW s
  PROVE  /\ n.kind = "status" => Says(Append(notes, n), Len(notes) + 1, n.to)
         /\ n.kind # "status" => (Says(Append(notes, n), Len(notes) + 1, s) <=> Says(notes, Len(notes), s))
<1> DEFINE more == Append(notes, n)
           size == Len(notes)
<1>1. /\ size \in Nat /\ Changes(notes) \subseteq 1 .. size /\ more[size + 1] = n
      /\ Changes(more) = Changes(notes) \cup (IF n.kind = "status" THEN {size + 1} ELSE {})
      /\ \A i \in 1 .. size : more[i] = notes[i]
  BY EntryAdded
<1> HIDE DEF more, size
<1>2. ASSUME n.kind = "status"
      PROVE  Says(more, size + 1, n.to)
  <2>1. size + 1 \in {i \in Changes(more) : i <= size + 1}
    BY <1>1, <1>2
  <2>2. \A j \in {i \in Changes(more) : i <= size + 1} : j <= size + 1
    OBVIOUS
  <2> QED BY <1>1, <2>1, <2>2 DEF Says
<1>3. ASSUME n.kind # "status"
      PROVE  Says(more, size + 1, s) <=> Says(notes, size, s)
  <2>1. /\ {i \in Changes(more) : i <= size + 1} = Changes(notes)
        /\ {i \in Changes(notes) : i <= size} = Changes(notes)
    BY <1>1, <1>3
  <2>2. \A i \in Changes(notes) : more[i].to = notes[i].to
    BY <1>1
  <2> QED BY <2>1, <2>2 DEF Says
<1> QED BY <1>2, <1>3 DEF more, size

\* Every change leads on from what the entries before it say.
Chained(shown) == \A i \in Changes(shown) : Says(shown, i - 1, shown[i].from)

LEMMA ChainGrows ==
  ASSUME NEW notes \in Seq(Note), NEW n \in Note, Chained(notes),
         n.kind = "status" => Says(notes, Len(notes), n.from)
  PROVE  Chained(Append(notes, n))
<1> DEFINE more == Append(notes, n)
           size == Len(notes)
<1>1. /\ size \in Nat /\ Changes(notes) \subseteq 1 .. size /\ more[size + 1] = n
      /\ Changes(more) = Changes(notes) \cup (IF n.kind = "status" THEN {size + 1} ELSE {})
      /\ \A i \in 1 .. size : more[i] = notes[i]
  BY EntryAdded
<1>2. \A k \in 0 .. size : \A s : Says(more, k, s) <=> Says(notes, k, s)
  BY SaidBefore
<1>3. n.kind = "status" => Says(notes, size, n.from)
  OBVIOUS
<1> HIDE DEF more, size
<1>4. ASSUME NEW i \in Changes(more)
      PROVE  Says(more, i - 1, more[i].from)
  <2>1. CASE i \in Changes(notes)
    <3>1. i \in 1 .. size /\ i - 1 \in 0 .. size
      BY <1>1, <2>1
    <3>2. Says(notes, i - 1, notes[i].from)
      BY <2>1 DEF Chained
    <3> QED BY <1>1, <1>2, <3>1, <3>2
  <2>2. CASE i \notin Changes(notes)
    <3>1. i = size + 1 /\ n.kind = "status"
      BY <1>1, <1>4, <2>2
    <3>2. i - 1 = size /\ size \in 0 .. size
      BY <1>1, <3>1
    <3> QED BY <1>1, <1>2, <1>3, <3>1, <3>2
  <2> QED BY <2>1, <2>2
<1>5. Chained(more)
  BY <1>4 DEF Chained
<1> QED BY <1>5 DEF more

\* The creation, which every timeline shows first, is no change.
LEMMA CreationSaysNothing ==
  ASSUME NEW notes \in Seq(Note), NEW first, first.kind = "created"
  PROVE  /\ Len(<<first>> \o notes) = Len(notes) + 1 /\ Len(notes) \in Nat
         /\ \A i \in Changes(<<first>> \o notes) :
              i - 1 \in Changes(notes) /\ (<<first>> \o notes)[i] = notes[i - 1]
         /\ \A k \in 0 .. Len(notes) : \A s :
              Says(notes, k, s) => Says(<<first>> \o notes, k + 1, s)
<1> DEFINE shown == <<first>> \o notes
           size == Len(notes)
<1>1. /\ size \in Nat /\ DOMAIN notes = 1 .. size /\ DOMAIN shown = 1 .. size + 1 /\ Len(shown) = size + 1
      /\ shown[1] = first
  OBVIOUS
<1>2. \A i \in 1 .. size : shown[i + 1] = notes[i]
  OBVIOUS
<1> HIDE DEF shown, size
<1>3. ASSUME NEW i \in Changes(shown)
      PROVE  i \in 2 .. size + 1 /\ i - 1 \in Changes(notes) /\ shown[i] = notes[i - 1]
  <2>1. i \in 1 .. size + 1 /\ shown[i].kind = "status"
    BY <1>1, <1>3 DEF Changes
  <2>2. i # 1
    BY <1>1, <2>1
  <2>3. i - 1 \in 1 .. size /\ (i - 1) + 1 = i
    BY <1>1, <2>1, <2>2
  <2>4. shown[i] = notes[i - 1]
    BY <1>2, <2>3
  <2> QED BY <1>1, <2>1, <2>2, <2>3, <2>4 DEF Changes
<1>4. ASSUME NEW i \in Changes(notes)
      PROVE  i \in 1 .. size /\ i + 1 \in Changes(shown) /\ shown[i + 1] = notes[i]
  BY <1>1, <1>2, <1>4 DEF Changes
<1>5. ASSUME NEW k \in 0 .. size, NEW s, Says(notes, k, s)
      PROVE  Says(shown, k + 1, s)
  <2> DEFINE before == {i \in Changes(notes) : i <= k}
             then == {i \in Changes(shown) : i <= k + 1}
  <2>1. \A i \in then : i - 1 \in before /\ i \in 2 .. size + 1
    BY <1>1, <1>3
  <2>2. \A i \in before : i + 1 \in then /\ shown[i + 1] = notes[i] /\ i \in 1 .. size
    BY <1>1, <1>4
  <2>3. \/ before = {} /\ s \in {"new", "payment_pending"}
        \/ \E i \in before : notes[i].to = s /\ \A j \in before : j <= i
    BY <1>5 DEF Says
  <2>4. Says(shown, k + 1, s) <=> \/ then = {} /\ s \in {"new", "payment_pending"}
                                  \/ \E i \in then : shown[i].to = s /\ \A j \in then : j <= i
    BY DEF Says
  <2> HIDE DEF before, then
  <2>5. CASE before = {} /\ s \in {"new", "payment_pending"}
    BY <2>1, <2>4, <2>5
  <2>6. ASSUME NEW i \in before, notes[i].to = s, \A j \in before : j <= i
        PROVE  Says(shown, k + 1, s)
    <3>1. i + 1 \in then /\ shown[i + 1].to = s /\ i \in 1 .. size
      BY <2>2, <2>6
    <3>2. \A j \in then : j <= i + 1
      BY <1>1, <2>1, <2>6, <3>1
    <3> QED BY <2>4, <3>1, <3>2
  <2> QED BY <2>3, <2>5, <2>6
<1> QED BY <1>1, <1>3, <1>5 DEF shown, size

\* A request that has a change of status to note.
Pending(r, f) == /\ RequestAt(r, "notes") /\ request[r].f = f
                 /\ Changes(request[r].todo) # {}
Changing(r, f) == At(r, f) \/ Pending(r, f)

\* As long as no two requests overlapped on a row, one at most changes its
\* status, from what the row has and its timeline says; the change is written
\* first and noted next, and it is the first thing that the request notes.
Told(f) ==
  /\ Chained(followups[f].notes)
  /\ \A q, r \in LeadRequests : Changing(q, f) /\ Changing(r, f) => q = r
  /\ \A r \in LeadRequests : At(r, f) => request[r].from = followups[f].status
  /\ \A r \in LeadRequests : Pending(r, f) =>
       LET change == Head(request[r].todo)
       IN /\ Changes(request[r].todo) = {1}
          /\ change.to = followups[f].status
          /\ Says(followups[f].notes, Len(followups[f].notes), change.from)
  /\ (\A r \in LeadRequests : ~Pending(r, f)) =>
       \/ followups[f].status = "converted"
       \/ Says(followups[f].notes, Len(followups[f].notes), followups[f].status)

TimelineInv == \A f \in DOMAIN followups \ tangled : Told(f)

\* A row that a step leaves alone, with those who change it.
LEMMA ToldStill ==
  ASSUME NEW f, Told(f), followups'[f].notes = followups[f].notes,
         followups'[f].status = followups[f].status,
         \A q \in LeadRequests : Changing(q, f)' \/ Pending(q, f) => request'[q] = request[q]
  PROVE  Told(f)'
<1>1. \A q \in LeadRequests : At(q, f)' => At(q, f) /\ request'[q] = request[q]
  BY DEF Changing, At, RequestAt
<1>2. \A q \in LeadRequests : Pending(q, f)' <=> Pending(q, f) /\ request'[q] = request[q]
  BY DEF Changing, Pending, RequestAt
<1>3. \A q \in LeadRequests : Changing(q, f)' => Changing(q, f)
  BY <1>1, <1>2 DEF Changing
<1>4. Chained(followups[f].notes)'
  BY DEF Told, Chained, Says, Changes
<1>5. \A q, r \in LeadRequests : Changing(q, f)' /\ Changing(r, f)' => q = r
  BY <1>3 DEF Told
<1>6. \A r \in LeadRequests : At(r, f)' => request'[r].from = followups'[f].status
  BY <1>1 DEF Told
<1>7. \A r \in LeadRequests : Pending(r, f)' =>
        /\ Changes(request'[r].todo) = {1}
        /\ Head(request'[r].todo).to = followups'[f].status
        /\ Says(followups'[f].notes, Len(followups'[f].notes), Head(request'[r].todo).from)
  BY <1>2 DEF Told
<1>8. (\A r \in LeadRequests : ~Pending(r, f)') =>
        \/ followups'[f].status = "converted"
        \/ Says(followups'[f].notes, Len(followups'[f].notes), followups'[f].status)
  BY <1>2 DEF Told
<1> QED BY <1>4, <1>5, <1>6, <1>7, <1>8 DEF Told, Chained, Says, Changes

\* A step that no row notices.
LEMMA TimelineQuiet ==
  ASSUME TimelineInv, DOMAIN followups' = DOMAIN followups, tangled \subseteq tangled',
         \A f \in DOMAIN followups : /\ followups'[f].notes = followups[f].notes
                                     /\ followups'[f].status = followups[f].status,
         \A f \in DOMAIN followups \ tangled' : \A q \in LeadRequests :
           Changing(q, f)' \/ Pending(q, f) => request'[q] = request[q]
  PROVE  TimelineInv'
<1>1. ASSUME NEW f \in DOMAIN followups \ tangled'
      PROVE  Told(f)'
  <2>1. Told(f)
    BY DEF TimelineInv
  <2> QED BY <2>1, ToldStill
<1> QED BY <1>1 DEF TimelineInv

\* One request moves on, with no change of status to write or to note.
LEMMA TimelineMove ==
  ASSUME LeadsTypeOK, TimelineInv, UNCHANGED followups, tangled \subseteq tangled',
         NEW r \in LeadRequests, NEW next, Goto(r, next), next.pc # "update",
         next.pc = "notes" => Changes(next.todo) = {},
         request[r].pc = "notes" => request[r].f \in tangled'
  PROVE  TimelineInv'
<1>1. request'[r] = next /\ \A q \in LeadRequests : q # r => request'[q] = request[q]
  BY DEF Goto, LeadsTypeOK
<1>2. ASSUME NEW f \in DOMAIN followups \ tangled', NEW q \in LeadRequests,
             Changing(q, f)' \/ Pending(q, f)
      PROVE  request'[q] = request[q]
  <2>1. CASE q = r
    <3>1. ~Pending(r, f)
      BY DEF Pending, RequestAt
    <3>2. ~Changing(r, f)'
      BY <1>1 DEF Changing, At, Pending, RequestAt
    <3> QED BY <1>2, <2>1, <3>1, <3>2
  <2> QED BY <1>1, <2>1
<1> QED BY <1>2, TimelineQuiet

LEMMA CreateTold ==
  ASSUME LeadsTypeOK, TimelineInv, NEW r \in LeadRequests, CreateFollowup(r)
  PROVE  TimelineInv'
<1> PICK n \in Nat : n = Len(followups) + 1
  BY DEF LeadsTypeOK
<1> DEFINE row == [lead |-> request[r].lead, status |-> request[r].born, due |-> Unset,
                   deleted |-> FALSE, notes |-> <<>>]
<1>1. request[r] \in EnsureRequest({"ensure", "create"}) /\ request[r].pc = "create"
  BY RequestKinds DEF CreateFollowup, RequestAt, LeadsTypeOK
<1>2. followups' = Append(followups, row) /\ Continue(r, n) /\ tangled' = tangled
  BY DEF CreateFollowup
<1>3. row.notes = <<>> /\ row.status \in {"new", "payment_pending"}
  BY <1>1 DEF EnsureRequest
<1> HIDE DEF row
<1>4. /\ Len(followups) \in Nat /\ DOMAIN followups = 1 .. Len(followups)
      /\ DOMAIN followups' = 1 .. n /\ followups'[n] = row
      /\ \A g \in 1 .. Len(followups) : followups'[g] = followups[g]
  BY <1>2 DEF LeadsTypeOK
<1>5. PICK next : Goto(r, next) /\ next.pc \in {"idle", "read"}
  BY <1>2 DEF Continue, Idle
<1>6. request'[r] = next /\ \A q \in LeadRequests : q # r => request'[q] = request[q]
  BY <1>5 DEF Goto, LeadsTypeOK
<1>7. \A q \in LeadRequests : request[q].pc \in OnRow => request[q].f \in 1 .. Len(followups)
  BY DEF LeadsTypeOK
<1>8. ASSUME NEW q \in LeadRequests, NEW f, Changing(q, f)' \/ Pending(q, f)
      PROVE  q # r /\ request'[q] = request[q] /\ f \in 1 .. Len(followups)
  <2>1. q # r
    BY <1>1, <1>5, <1>6, <1>8 DEF Changing, At, Pending, RequestAt
  <2>2. request'[q] = request[q] /\ request[q].pc \in OnRow /\ request[q].f = f
    BY <1>6, <1>8, <2>1 DEF Changing, At, Pending, RequestAt, OnRow
  <2> QED BY <1>7, <2>1, <2>2
<1>9. ASSUME NEW f \in 1 .. Len(followups), f \notin tangled
      PROVE  Told(f)'
  <2>1. Told(f)
    BY <1>4, <1>9 DEF TimelineInv
  <2> QED BY <1>4, <1>8, <2>1, ToldStill
<1>10. Told(n)'
  <2>1. \A q \in LeadRequests : ~Changing(q, n)'
    BY <1>4, <1>8
  <2>2. followups'[n].notes = <<>> /\ followups'[n].status \in {"new", "payment_pending"}
    BY <1>3, <1>4
  <2>3. Changes(<<>>) = {}
    BY DEF Changes
  <2>4. Says(followups'[n].notes, Len(followups'[n].notes), followups'[n].status)
    BY <2>2, <2>3 DEF Says
  <2>5. Changes(followups[n].notes)' = {}
    BY <2>2, <2>3 DEF Changes
  <2>6. Chained(followups[n].notes)'
    BY <2>5 DEF Chained
  <2> QED BY <2>1, <2>4, <2>6 DEF Told, Changing, Says, Changes
<1>11. \A f \in DOMAIN followups' : f \in 1 .. Len(followups) \/ f = n
  BY <1>4
<1> QED BY <1>2, <1>9, <1>10, <1>11 DEF TimelineInv

LEMMA ReadTold ==
  ASSUME LeadsTypeOK, TimelineInv, NEW r \in LeadRequests, ReadFollowup(r)
  PROVE  TimelineInv'
<1> PICK f : f = request[r].f
  OBVIOUS
<1> DEFINE goal == request[r].goal
           row == followups[f]
           update == [pc |-> "update", f |-> f, goal |-> goal, from |-> row.status, fromDate |-> row.due]
<1>1. UNCHANGED followups /\ tangled \subseteq tangled' /\ request[r].pc = "read"
  BY DEF ReadFollowup, RequestAt
<1>2. request[r] \in ReadRequest /\ f \in 1 .. Len(followups) /\ DOMAIN followups = 1 .. Len(followups)
  BY RequestKinds DEF ReadFollowup, RequestAt, LeadsTypeOK, OnRow
<1>3. CASE row.deleted \/ row.status \in Terminal \/ goal.kind # "status"
  <2>1. goal.kind \in {"status", "note", "retry"}
    BY <1>2 DEF ReadRequest, RowGoal, StatusGoal
  <2>2. PICK next : Goto(r, next) /\ next.pc # "update" /\ (next.pc = "notes" => Changes(next.todo) = {})
    <3>1. CASE row.deleted \/ row.status \in Terminal
      BY <3>1 DEF ReadFollowup, Idle
    <3>2. CASE ~(row.deleted \/ row.status \in Terminal) /\ goal.kind = "note"
      <4>1. Goto(r, [pc |-> "notes", f |-> f, todo |-> <<[kind |-> "note"]>>])
        BY <3>2 DEF ReadFollowup
      <4>2. Changes(<<[kind |-> "note"]>>) = {}
        BY DEF Changes
      <4> QED BY <4>1, <4>2
    <3>3. CASE ~(row.deleted \/ row.status \in Terminal) /\ goal.kind = "retry"
      <4>1. Goto(r, [pc |-> "order", f |-> f])
        BY <3>3 DEF ReadFollowup
      <4> QED BY <4>1
    <3> QED BY <1>3, <2>1, <3>1, <3>2, <3>3
  <2> QED BY <1>1, <2>2, TimelineMove
<1>4. CASE ~(row.deleted \/ row.status \in Terminal) /\ goal.kind = "status"
  <2>1. /\ Goto(r, update)
        /\ tangled' = IF Overlapped(r, f) THEN tangled \cup {f} ELSE tangled
    BY <1>4 DEF ReadFollowup
  <2>2. update.pc = "update" /\ update.f = f /\ update.from = followups[f].status
    OBVIOUS
  <2> HIDE DEF update
  <2>3. request'[r] = update /\ \A q \in LeadRequests : q # r => request'[q] = request[q]
    BY <2>1 DEF Goto, LeadsTypeOK
  <2> HIDE DEF goal, row
  <2>4. ASSUME NEW g \in DOMAIN followups, g \notin tangled', g # f
        PROVE  Told(g)'
    <3>1. Told(g)
      BY <1>1, <2>4 DEF TimelineInv
    <3>2. ~Changing(r, g)' /\ ~Pending(r, g)
      BY <1>1, <2>2, <2>3, <2>4 DEF Changing, At, Pending, RequestAt
    <3>3. \A q \in LeadRequests : Changing(q, g)' \/ Pending(q, g) => request'[q] = request[q]
      BY <2>3, <3>2
    <3>4. followups'[g].notes = followups[g].notes /\ followups'[g].status = followups[g].status
      BY <1>1
    <3> QED BY <3>1, <3>3, <3>4, ToldStill
  <2>5. ASSUME f \notin tangled'
        PROVE  Told(f)'
    <3>1. Told(f) /\ ~Overlapped(r, f)
      BY <1>2, <2>1, <2>5 DEF TimelineInv
    <3>2. \A q \in LeadRequests : q # r => ~At(q, f) /\ ~Pending(q, f)
      BY <3>1 DEF Overlapped, At, Pending, RequestAt
    <3>3. \A q \in LeadRequests : q # r => ~At(q, f)' /\ ~Pending(q, f)'
      BY <2>3, <3>2 DEF At, Pending, RequestAt
    <3>4. ~Pending(r, f) /\ ~Pending(r, f)' /\ request'[r].from = followups'[f].status
      BY <1>1, <2>2, <2>3 DEF Pending, RequestAt
    <3>5. Chained(followups[f].notes)'
      BY <1>1, <3>1 DEF Told, Chained, Says, Changes
    <3>6. \/ followups[f].status = "converted"
          \/ Says(followups[f].notes, Len(followups[f].notes), followups[f].status)
      BY <3>1, <3>2, <3>4 DEF Told
    <3>7. \/ followups'[f].status = "converted"
          \/ Says(followups[f].notes, Len(followups[f].notes), followups[f].status)'
      BY <1>1, <3>6
    <3>8. \A q \in LeadRequests : Changing(q, f)' => q = r
      BY <3>3 DEF Changing
    <3>9. \A q \in LeadRequests : ~Pending(q, f)'
      BY <3>3, <3>4
    <3>10. \A q \in LeadRequests : At(q, f)' => request'[q].from = followups'[f].status
      BY <3>3, <3>4
    <3> QED BY <3>5, <3>7, <3>8, <3>9, <3>10 DEF Told, Chained, Says, Changes
  <2> QED BY <1>1, <2>4, <2>5 DEF TimelineInv
<1> QED BY <1>3, <1>4

\* The notes of an update: the change of status, if any, comes first.
LEMMA ChangeComesFirst ==
  ASSUME NEW change, change.kind = "status", NEW moved \in {<<>>, <<[kind |-> "schedule"]>>}
  PROVE  /\ Changes(<<change>> \o moved) = {1} /\ Head(<<change>> \o moved) = change
         /\ <<change>> \o moved # <<>>
         /\ Changes(<<>> \o moved) = {}
<1>1. CASE moved = <<>>
  <2>1. <<change>> \o moved = <<change>> /\ <<>> \o moved = <<>>
    BY <1>1
  <2> QED BY <2>1 DEF Changes
<1>2. CASE moved = <<[kind |-> "schedule"]>>
  <2> DEFINE schedule == [kind |-> "schedule"]
  <2>1. schedule.kind = "schedule" /\ moved = <<schedule>>
    BY <1>2
  <2> HIDE DEF schedule
  <2> DEFINE both == <<change>> \o <<schedule>>
  <2>2. /\ Len(both) = 2 /\ both[1] = change /\ both[2] = schedule
        /\ both \in Seq({change, schedule})
    <3>1. <<change>> \in Seq({change, schedule}) /\ <<schedule>> \in Seq({change, schedule})
      OBVIOUS
    <3> QED BY <3>1
  <2>3. DOMAIN both = {1, 2} /\ Head(both) = change /\ both # <<>>
    BY <2>2
  <2>4. Changes(both) = {1}
    <3> HIDE DEF both
    <3> QED BY <2>1, <2>2, <2>3 DEF Changes
  <2>5. <<>> \o <<schedule>> = <<schedule>> /\ Changes(<<schedule>>) = {}
    BY <2>1 DEF Changes
  <2> QED BY <2>1, <2>3, <2>4, <2>5
<1> QED BY <1>1, <1>2

LEMMA UpdateTold ==
  ASSUME LeadsTypeOK, LeadsInv, TimelineInv, NEW r \in LeadRequests, UpdateFollowup(r)
  PROVE  TimelineInv'
<1> PICK f : f = request[r].f
  OBVIOUS
<1>1. /\ f \in 1 .. Len(followups) /\ Len(followups') = Len(followups)
      /\ DOMAIN followups = 1 .. Len(followups) /\ DOMAIN followups' = 1 .. Len(followups)
      /\ \A g \in 1 .. Len(followups) : g # f => followups'[g] = followups[g]
      /\ followups'[f].status = request[r].goal.to /\ followups'[f].notes = followups[f].notes
  BY UpdatedRow DEF LeadsTypeOK
<1>2. tangled' = tangled /\ At(r, f)
  BY DEF UpdateFollowup, At
<1> DEFINE q == request[r]
           change == [kind |-> "status", from |-> q.from, to |-> q.goal.to]
           moved == IF q.goal.date # "keep" /\ q.fromDate # q.goal.date
                    THEN <<[kind |-> "schedule"]>> ELSE <<>>
           noted(todo) == IF todo = <<>> THEN Idle ELSE [pc |-> "notes", f |-> q.f, todo |-> todo]
<1>3. \/ q.from # q.goal.to /\ Goto(r, [pc |-> "notes", f |-> f, todo |-> <<change>> \o moved])
      \/ q.from = q.goal.to /\ Goto(r, noted(<<>> \o moved))
  <2>1. Goto(r, noted((IF q.from # q.goal.to THEN <<change>> ELSE <<>>) \o moved))
    BY DEF UpdateFollowup
  <2>2. moved \in {<<>>, <<[kind |-> "schedule"]>>}
    OBVIOUS
  <2>3. <<change>> \o moved # <<>>
    <3>1. change.kind = "status"
      OBVIOUS
    <3> QED BY <2>2, <3>1, ChangeComesFirst
  <2> HIDE DEF moved, change
  <2> QED BY <2>1, <2>3
<1>4. /\ Changes(<<change>> \o moved) = {1} /\ Head(<<change>> \o moved) = change
      /\ Changes(<<>> \o moved) = {}
  <2>1. change.kind = "status" /\ moved \in {<<>>, <<[kind |-> "schedule"]>>}
    OBVIOUS
  <2> HIDE DEF change, moved
  <2> QED BY <2>1, ChangeComesFirst
<1>5. change.from = q.from /\ change.to = q.goal.to
  OBVIOUS
<1> HIDE DEF change, moved, q
<1>6. /\ request'[r].pc \in {"idle", "notes"} /\ (request'[r].pc = "notes" => request'[r].f = f)
      /\ \A x \in LeadRequests : x # r => request'[x] = request[x]
      /\ q.from # q.goal.to =>
           /\ request'[r].pc = "notes" /\ Changes(request'[r].todo) = {1}
           /\ Head(request'[r].todo) = change
      /\ q.from = q.goal.to /\ request'[r].pc = "notes" => Changes(request'[r].todo) = {}
  <2>1. CASE q.from # q.goal.to
    <3>1. request'[r] = [pc |-> "notes", f |-> f, todo |-> <<change>> \o moved]
      BY <1>3, <2>1 DEF Goto, LeadsTypeOK
    <3> QED BY <1>3, <1>4, <2>1, <3>1 DEF Goto, LeadsTypeOK
  <2>2. CASE q.from = q.goal.to
    <3>1. request'[r] = noted(<<>> \o moved)
      BY <1>3, <2>2 DEF Goto, LeadsTypeOK
    <3>2. q.f = f
      BY DEF q
    <3> QED BY <1>3, <1>4, <2>2, <3>1, <3>2 DEF Goto, LeadsTypeOK, Idle
  <2> QED BY <2>1, <2>2
<1>7. ASSUME NEW g \in 1 .. Len(followups), g \notin tangled, g # f
      PROVE  Told(g)'
  <2>1. Told(g)
    BY <1>1, <1>7 DEF TimelineInv
  <2>2. ~Changing(r, g)' /\ ~Pending(r, g)
    BY <1>2, <1>6, <1>7 DEF Changing, At, Pending, RequestAt
  <2>3. \A x \in LeadRequests : Changing(x, g)' \/ Pending(x, g) => request'[x] = request[x]
    BY <1>6, <2>2
  <2> QED BY <1>1, <1>7, <2>1, <2>3, ToldStill
<1>8. ASSUME f \notin tangled
      PROVE  Told(f)'
  <2>1. Told(f) /\ followups[f].status \notin Terminal
    BY <1>1, <1>2, <1>8 DEF TimelineInv, LeadsInv, WritersOverlap
  <2>2. \A x \in LeadRequests : x # r => ~Changing(x, f)
    BY <1>2, <2>1 DEF Told, Changing
  <2>3. \A x \in LeadRequests : x # r => ~Changing(x, f)'
    BY <1>6, <2>2 DEF Changing, At, Pending, RequestAt
  <2>4. \A x \in LeadRequests : ~Pending(x, f)
    BY <1>2, <2>2 DEF Changing, At, Pending, RequestAt
  <2>5. Says(followups[f].notes, Len(followups[f].notes), followups[f].status)
    BY <2>1, <2>4 DEF Told, Terminal
  <2>6. q.from = followups[f].status
    BY <1>2, <2>1 DEF Told, q
  <2>7. Says(followups'[f].notes, Len(followups'[f].notes), q.from)
    BY <1>1, <2>5, <2>6
  <2>8. Chained(followups'[f].notes)
    BY <1>1, <2>1 DEF Told
  <2>9. ~At(r, f)'
    BY <1>6 DEF At, RequestAt
  <2>10. \A x, y \in LeadRequests : Changing(x, f)' /\ Changing(y, f)' => x = y
    BY <2>3
  <2>11. \A x \in LeadRequests : ~At(x, f)'
    BY <2>3, <2>9 DEF Changing
  <2>12. \A x \in LeadRequests : Pending(x, f)' =>
           /\ Changes(request'[x].todo) = {1}
           /\ Head(request'[x].todo).to = followups'[f].status
           /\ Says(followups'[f].notes, Len(followups'[f].notes), Head(request'[x].todo).from)
    <3> SUFFICES ASSUME Pending(r, f)'
                 PROVE  /\ Changes(request'[r].todo) = {1}
                        /\ Head(request'[r].todo).to = followups'[f].status
                        /\ Says(followups'[f].notes, Len(followups'[f].notes), Head(request'[r].todo).from)
      BY <2>3 DEF Changing
    <3>1. request'[r].pc = "notes" /\ Changes(request'[r].todo) # {}
      BY DEF Pending, RequestAt, Changes
    <3>2. Changes(request'[r].todo) = {1} /\ Head(request'[r].todo) = change
      BY <1>6, <3>1
    <3> QED BY <1>1, <1>5, <2>7, <3>2 DEF q
  <2>13. (\A x \in LeadRequests : ~Pending(x, f)') =>
           \/ followups'[f].status = "converted"
           \/ Says(followups'[f].notes, Len(followups'[f].notes), followups'[f].status)
    <3> SUFFICES ASSUME ~Pending(r, f)'
                 PROVE  Says(followups'[f].notes, Len(followups'[f].notes), followups'[f].status)
      OBVIOUS
    <3>1. q.from = q.goal.to
      <4> SUFFICES ASSUME q.from # q.goal.to
                   PROVE  Pending(r, f)'
        OBVIOUS
      <4>1. request'[r].pc = "notes" /\ request'[r].f = f /\ Changes(request'[r].todo) = {1}
        BY <1>6
      <4> QED BY <4>1 DEF Pending, RequestAt, Changes
    <3> QED BY <1>1, <2>7, <3>1 DEF q
  <2> QED BY <2>8, <2>10, <2>11, <2>12, <2>13 DEF Told, Chained, Says, Changes
<1> QED BY <1>1, <1>2, <1>7, <1>8 DEF TimelineInv

\* What is left to note has no change once the first note is written.
LEMMA ChangeIsHead ==
  ASSUME NEW todo \in Seq(Note), todo # <<>>, Changes(todo) \in {{}, {1}}
  PROVE  /\ Head(todo) \in Note /\ Tail(todo) \in Seq(Note)
         /\ Head(todo).kind = "status" <=> Changes(todo) = {1}
         /\ Changes(Tail(todo)) = {}
<1>1. Head(todo) \in Note /\ Tail(todo) \in Seq(Note)
  OBVIOUS
<1>2. Len(todo) \in Nat \ {0} /\ DOMAIN todo = 1 .. Len(todo) /\ Head(todo) = todo[1]
  OBVIOUS
<1>3. Head(todo).kind = "status" <=> 1 \in Changes(todo)
  BY <1>2 DEF Changes
<1>4. /\ DOMAIN Tail(todo) = 1 .. Len(todo) - 1
      /\ \A i \in 1 .. Len(todo) - 1 : Tail(todo)[i] = todo[i + 1]
  BY <1>2
<1>5. ASSUME NEW i \in Changes(Tail(todo))
      PROVE  FALSE
  <2>1. i \in 1 .. Len(todo) - 1 /\ todo[i + 1].kind = "status"
    BY <1>4, <1>5 DEF Changes
  <2>2. i + 1 \in Changes(todo)
    BY <1>2, <2>1 DEF Changes
  <2> QED BY <2>1, <2>2
<1> QED BY <1>1, <1>3, <1>5

LEMMA NoteTold ==
  ASSUME LeadsTypeOK, TimelineInv, NEW r \in LeadRequests, AppendNote(r)
  PROVE  TimelineInv'
<1> PICK f : f = request[r].f
  OBVIOUS
<1> PICK note : note = Head(request[r].todo)
  OBVIOUS
<1>1. /\ f \in 1 .. Len(followups) /\ Len(followups') = Len(followups)
      /\ DOMAIN followups = 1 .. Len(followups) /\ DOMAIN followups' = 1 .. Len(followups)
      /\ \A g \in 1 .. Len(followups) :
           /\ followups'[g].status = followups[g].status
           /\ g # f => followups'[g].notes = followups[g].notes
      /\ followups'[f].notes = Append(followups[f].notes, note)
      /\ request[r] \in NoteRequest
  <2>1. /\ request[r] \in NoteRequest /\ f \in 1 .. Len(followups) /\ Len(followups') = Len(followups)
        /\ followups' \in Seq(FollowupRow)
    BY NotedRow
  <2>2. DOMAIN followups = 1 .. Len(followups) /\ DOMAIN followups' = 1 .. Len(followups)
    BY <2>1 DEF LeadsTypeOK
  <2>3. \A g \in 1 .. Len(followups) :
          /\ followups'[g].status = followups[g].status
          /\ followups'[g].notes = IF g = f THEN Append(followups[g].notes, note) ELSE followups[g].notes
    BY NotedRow
  <2> QED BY <2>1, <2>2, <2>3
<1>2. tangled' = tangled /\ request[r].pc = "notes"
  BY DEF AppendNote, RequestAt
<1>3. /\ request'[r].pc \in {"idle", "notes"}
      /\ request'[r].pc = "notes" => request'[r].f = f /\ request'[r].todo = Tail(request[r].todo)
      /\ \A q \in LeadRequests : q # r => request'[q] = request[q]
  <2> DEFINE next == IF Len(request[r].todo) = 1 THEN Idle
                     ELSE [pc |-> "notes", f |-> request[r].f, todo |-> Tail(request[r].todo)]
  <2>1. request'[r] = next /\ \A q \in LeadRequests : q # r => request'[q] = request[q]
    BY DEF AppendNote, Goto, LeadsTypeOK
  <2> QED BY <2>1 DEF Idle
<1>4. ASSUME NEW g \in 1 .. Len(followups), g \notin tangled, g # f
      PROVE  Told(g)'
  <2>1. Told(g)
    BY <1>1, <1>4 DEF TimelineInv
  <2>2. ~Changing(r, g)' /\ ~Pending(r, g)
    BY <1>2, <1>3, <1>4 DEF Changing, At, Pending, RequestAt
  <2>3. \A q \in LeadRequests : Changing(q, g)' \/ Pending(q, g) => request'[q] = request[q]
    BY <1>3, <2>2
  <2> QED BY <1>1, <1>4, <2>1, <2>3, ToldStill
<1>5. ASSUME f \notin tangled
      PROVE  Told(f)'
  <2> DEFINE notes == followups[f].notes
             size == Len(notes)
  <2>1. Told(f) /\ notes \in Seq(Note)
    BY <1>1, <1>5, RowType DEF TimelineInv, FollowupRow
  <2>2. Pending(r, f) <=> Changes(request[r].todo) # {}
    BY <1>2 DEF Pending, RequestAt
  <2>3. Changes(request[r].todo) \in {{}, {1}}
    BY <2>1, <2>2 DEF Told
  <2>4. /\ note \in Note /\ (note.kind = "status" <=> Pending(r, f))
        /\ Changes(Tail(request[r].todo)) = {}
    <3>1. request[r].todo \in Seq(Note) /\ request[r].todo # <<>>
      BY <1>1 DEF NoteRequest
    <3> QED BY <2>2, <2>3, <3>1, ChangeIsHead
  <2>5. ~Pending(r, f)' /\ ~At(r, f)'
    <3>1. request'[r].pc = "notes" => Changes(request'[r].todo) = {}
      BY <1>3, <2>4
    <3> QED BY <1>3, <3>1 DEF Pending, At, RequestAt, Changes
  <2>6. \A q \in LeadRequests : q # r => /\ At(q, f)' <=> At(q, f)
                                         /\ Pending(q, f)' <=> Pending(q, f)
    BY <1>3 DEF Pending, At, RequestAt, Changes
  <2>7. /\ Len(Append(notes, note)) = size + 1
        /\ note.kind = "status" => Says(Append(notes, note), size + 1, note.to)
        /\ note.kind # "status" => \A s : Says(Append(notes, note), size + 1, s) <=> Says(notes, size, s)
    BY <2>1, <2>4, SaidNext
  <2>8. Pending(r, f) => /\ note.to = followups[f].status /\ Says(notes, size, note.from)
                         /\ \A q \in LeadRequests : Pending(q, f) => q = r
    BY <2>1 DEF Told, Changing
  <2>9. Chained(Append(notes, note))
    BY <2>1, <2>4, <2>8, ChainGrows DEF Told
  <2>10. \A q, p \in LeadRequests : Changing(q, f)' /\ Changing(p, f)' => q = p
    BY <2>1, <2>5, <2>6 DEF Told, Changing
  <2>11. \A q \in LeadRequests : At(q, f)' => request'[q].from = followups'[f].status
    BY <1>1, <1>3, <2>1, <2>5, <2>6 DEF Told
  <2> HIDE DEF notes, size
  <2>12. ASSUME NEW q \in LeadRequests, Pending(q, f)'
         PROVE  /\ Changes(request'[q].todo) = {1}
                /\ Head(request'[q].todo).to = followups'[f].status
                /\ Says(Append(notes, note), size + 1, Head(request'[q].todo).from)
    <3>1. q # r /\ Pending(q, f) /\ request'[q] = request[q]
      BY <1>3, <2>5, <2>6, <2>12
    <3>2. note.kind # "status"
      BY <2>4, <2>8, <3>1
    <3>3. /\ Changes(request[q].todo) = {1} /\ Head(request[q].todo).to = followups[f].status
          /\ Says(notes, size, Head(request[q].todo).from)
      BY <2>1, <3>1 DEF Told, notes, size
    <3> QED BY <1>1, <2>7, <3>1, <3>2, <3>3
  <2>13. ASSUME \A q \in LeadRequests : ~Pending(q, f)'
         PROVE  \/ followups[f].status = "converted"
                \/ Says(Append(notes, note), size + 1, followups[f].status)
    <3>1. CASE Pending(r, f)
      BY <2>4, <2>7, <2>8, <3>1
    <3>2. CASE ~Pending(r, f)
      <4>1. \A q \in LeadRequests : ~Pending(q, f)
        BY <2>6, <2>13, <3>2
      <4>2. followups[f].status = "converted" \/ Says(notes, size, followups[f].status)
        BY <2>1, <4>1 DEF Told, notes, size
      <4> QED BY <2>4, <2>7, <3>2, <4>2
    <3> QED BY <3>1, <3>2
  <2>14. followups'[f].notes = Append(notes, note) /\ Len(followups'[f].notes) = size + 1
         /\ followups'[f].status = followups[f].status
    BY <1>1, <2>7 DEF notes
  <2>15. Chained(followups'[f].notes)
    BY <2>9, <2>14
  <2>16. \A q \in LeadRequests : Pending(q, f)' =>
           /\ Changes(request'[q].todo) = {1}
           /\ Head(request'[q].todo).to = followups'[f].status
           /\ Says(followups'[f].notes, Len(followups'[f].notes), Head(request'[q].todo).from)
    BY <2>12, <2>14
  <2>17. (\A q \in LeadRequests : ~Pending(q, f)') =>
           \/ followups'[f].status = "converted"
           \/ Says(followups'[f].notes, Len(followups'[f].notes), followups'[f].status)
    BY <2>13, <2>14
  <2> QED BY <2>10, <2>11, <2>15, <2>16, <2>17 DEF Told, Chained, Says, Changes
<1> QED BY <1>1, <1>2, <1>4, <1>5 DEF TimelineInv

LEMMA ConvertTold ==
  ASSUME LeadsTypeOK, TimelineInv, NEW r \in LeadRequests, ConvertFollowups(r)
  PROVE  TimelineInv'
<1>1. /\ tangled \subseteq tangled' /\ DOMAIN followups' = DOMAIN followups
      /\ DOMAIN followups = 1 .. Len(followups) /\ request[r].pc = "convert" /\ Goto(r, Idle)
  BY DEF ConvertFollowups, LeadsTypeOK, RequestAt
<1>2. request'[r].pc = "idle" /\ \A q \in LeadRequests : q # r => request'[q] = request[q]
  BY <1>1 DEF Goto, LeadsTypeOK, Idle
<1>3. ASSUME NEW f \in 1 .. Len(followups), f \notin tangled'
      PROVE  Told(f)'
  <2>1. Told(f)
    BY <1>1, <1>3 DEF TimelineInv
  <2>2. ~Changing(r, f) /\ ~Changing(r, f)'
    BY <1>1, <1>2 DEF Changing, At, Pending, RequestAt
  <2>3. \A q \in LeadRequests : Changing(q, f)' \/ Pending(q, f) => request'[q] = request[q]
    BY <1>2, <2>2 DEF Changing
  <2>4. followups'[f].notes = followups[f].notes
    BY ConvertedRow
  <2>5. CASE followups'[f].status = followups[f].status
    BY <2>1, <2>3, <2>4, <2>5, ToldStill
  <2>6. CASE followups'[f].status # followups[f].status
    <3>1. ~Overlapped(r, f) /\ followups'[f].status = "converted"
      BY <1>3, <2>6, ConvertedRow
    <3>2. \A q \in LeadRequests : ~Changing(q, f)
      BY <2>2, <3>1 DEF Overlapped, Changing, At, Pending, RequestAt
    <3>3. \A q \in LeadRequests : ~Changing(q, f)'
      BY <1>2, <2>2, <3>2 DEF Changing, At, Pending, RequestAt
    <3>4. Chained(followups'[f].notes)
      BY <2>1, <2>4 DEF Told
    <3> QED BY <3>1, <3>3, <3>4 DEF Told, Changing, Chained, Says, Changes
  <2> QED BY <2>5, <2>6
<1> QED BY <1>1, <1>3 DEF TimelineInv

LEMMA TimelineNext ==
  ASSUME LeadsTypeOK, LeadsInv, TimelineInv, LeadsNext
  PROVE  TimelineInv'
<1>1. ASSUME NEW r \in LeadRequests, NEW first, Begin(r, first),
             first.pc \notin {"update", "notes"}, UNCHANGED <<followups, tangled>>
      PROVE  TimelineInv'
  BY <1>1, TimelineMove DEF Begin, RequestAt
<1>2. ASSUME NEW r \in LeadRequests, NEW l \in LeadIds,
             \/ SubmitLead(r, l) \/ DeadLetter(r, l) \/ SettleOrder(r, l)
             \/ \E e \in Employees :
                  OwnerNotes(r, l, e) \/ \E goal \in StatusGoals : OwnerUpdates(r, l, e, goal)
             \/ \E e \in Employees \cup {Unset} : BeginAssign(r, l, e)
      PROVE  TimelineInv'
  <2>1. UNCHANGED <<followups, tangled>>
    BY <1>2 DEF SubmitLead, DeadLetter, SettleOrder, OwnerNotes, OwnerUpdates, OwnerActs, BeginAssign
  <2>2. PICK first : Begin(r, first) /\ first.pc \in {"ensure", "idle", "convert", "employee"}
    BY <1>2, FirstStatements
  <2> QED BY <1>1, <2>1, <2>2
<1>3. ASSUME NEW r \in LeadRequests, NEW leads \in SetToSeqs(LeadIds),
             NEW e \in Employees \cup {Unset}, BeginBulkAssign(r, leads, e)
      PROVE  TimelineInv'
  <2> DEFINE first == [pc |-> "bulk", to |-> e, rest |-> leads]
  <2>1. Begin(r, first) /\ UNCHANGED <<followups, tangled>> /\ first.pc = "bulk"
    BY <1>3 DEF BeginBulkAssign
  <2> HIDE DEF first
  <2> QED BY <1>1, <2>1
<1>4. ASSUME NEW r \in LeadRequests, NEW f \in DOMAIN followups,
             NEW goal \in Goals \cup {[kind |-> "retry"]}, StaffActs(r, f, goal)
      PROVE  TimelineInv'
  <2> DEFINE first == [pc |-> "read", f |-> f, goal |-> goal]
  <2>1. Begin(r, first) /\ UNCHANGED <<followups, tangled>> /\ first.pc = "read"
    BY <1>4 DEF StaffActs
  <2> HIDE DEF first
  <2> QED BY <1>1, <2>1
<1>5. ASSUME NEW r \in LeadRequests,
             \/ CreateFollowup(r) \/ ReadFollowup(r) \/ UpdateFollowup(r) \/ AppendNote(r)
             \/ ConvertFollowups(r)
      PROVE  TimelineInv'
  BY <1>5, CreateTold, ReadTold, UpdateTold, NoteTold, ConvertTold
<1>6. ASSUME NEW r \in LeadRequests, EnsureFollowup(r)
      PROVE  TimelineInv'
  <2>1. UNCHANGED <<followups, tangled>> /\ request[r].pc = "ensure"
    BY <1>6 DEF EnsureFollowup, RequestAt
  <2>2. request[r] \in EnsureRequest({"ensure", "create"})
    BY <2>1, RequestKinds DEF LeadsTypeOK
  <2>3. [request[r] EXCEPT !.pc = "create"].pc = "create"
    BY <2>2 DEF EnsureRequest
  <2>4. PICK next : Goto(r, next) /\ next.pc \in {"idle", "read", "create"}
    <3>1. CASE Active(request[r].lead) # {}
      BY <1>6, <3>1 DEF EnsureFollowup, Continue, Idle
    <3>2. CASE Active(request[r].lead) = {}
      <4>1. Goto(r, [request[r] EXCEPT !.pc = "create"])
        BY <1>6, <3>2 DEF EnsureFollowup
      <4> QED BY <2>3, <4>1
    <3> QED BY <3>1, <3>2
  <2> QED BY <2>1, <2>4, TimelineMove
<1>7. ASSUME NEW r \in LeadRequests,
             RetryPayment(r) \/ BulkNext(r) \/ CheckEmployee(r) \/ Assign(r) \/ Abandon(r)
      PROVE  TimelineInv'
  <2>1. /\ UNCHANGED followups /\ tangled \subseteq tangled'
        /\ request[r].pc = "notes" => request[r].f \in tangled'
    BY <1>7 DEF RetryPayment, BulkNext, CheckEmployee, Assign, Abandon, RequestAt
  <2>2. PICK next : Goto(r, next) /\ next.pc # "update" /\ (next.pc = "notes" => Changes(next.todo) = {})
    <3>1. CASE CheckEmployee(r)
      <4>1. request[r] \in AssignRequest({"employee", "assign"})
        BY <3>1, RequestKinds DEF CheckEmployee, RequestAt, LeadsTypeOK
      <4>2. [request[r] EXCEPT !.pc = "assign"].pc = "assign"
        BY <4>1 DEF AssignRequest
      <4>3. AfterLead(request[r].to, request[r].rest).pc \in {"bulk", "idle"}
        BY DEF AfterLead, Idle
      <4>4. \/ Goto(r, [request[r] EXCEPT !.pc = "assign"])
            \/ Goto(r, AfterLead(request[r].to, request[r].rest))
        BY <3>1 DEF CheckEmployee
      <4> QED BY <4>2, <4>3, <4>4
    <3>2. CASE RetryPayment(r)
      <4> DEFINE noting == [pc |-> "notes", f |-> request[r].f, todo |-> <<[kind |-> "retry"]>>]
      <4>1. Changes(<<[kind |-> "retry"]>>) = {}
        BY DEF Changes
      <4>2. noting.pc = "notes" /\ noting.todo = <<[kind |-> "retry"]>>
        OBVIOUS
      <4>3. Goto(r, Idle) \/ Goto(r, noting)
        BY <3>2 DEF RetryPayment
      <4> HIDE DEF noting
      <4> QED BY <4>1, <4>2, <4>3 DEF Idle
    <3>3. CASE BulkNext(r) \/ Assign(r) \/ Abandon(r)
      <4>1. PICK next : Goto(r, next) /\ next.pc \in {"employee", "bulk", "idle"}
        BY <3>3 DEF BulkNext, Assign, Abandon, AfterLead, Idle
      <4> QED BY <4>1
    <3> QED BY <1>7, <3>1, <3>2, <3>3
  <2> QED BY <2>1, <2>2, TimelineMove
<1>8. ASSUME NEW l \in LeadIds, DiscardDraft(l)
      PROVE  TimelineInv'
  <2>1. UNCHANGED <<request, tangled>> /\ DOMAIN followups' = DOMAIN followups
    BY <1>8 DEF DiscardDraft
  <2>2. \A g \in DOMAIN followups : /\ followups'[g].notes = followups[g].notes
                                    /\ followups'[g].status = followups[g].status
    BY <1>8, DiscardedRow DEF LeadsTypeOK
  <2> QED BY <2>1, <2>2, TimelineQuiet
<1>9. ASSUME NEW e \in Employees, DeleteEmployee(e)
      PROVE  TimelineInv'
  <2>1. UNCHANGED <<followups, request, tangled>>
    BY <1>9 DEF DeleteEmployee
  <2> QED BY <2>1, TimelineQuiet
<1> QED BY <1>2, <1>3, <1>4, <1>5, <1>6, <1>7, <1>8, <1>9 DEF LeadsNext

\* What every change of status, written first and noted next, keeps true.
THEOREM TimelineInvariant == LeadsSpec => []TimelineInv
<1>1. LeadsInit => TimelineInv
  BY DEF LeadsInit, TimelineInv
<1>2. LeadsTypeOK /\ LeadsInv /\ TimelineInv /\ [LeadsNext]_leadVars => TimelineInv'
  <2>1. CASE UNCHANGED leadVars
    <3>1. UNCHANGED <<followups, request, tangled>>
      BY <2>1 DEF leadVars
    <3> QED BY <3>1, TimelineQuiet
  <2> QED BY <2>1, TimelineNext
<1> QED BY <1>1, <1>2, LeadsInvariant, PTL DEF LeadsSpec

\* For any number of rows, notes and requests: the timeline of a row on which
\* no two requests overlapped leads to its status, unless it was converted.
THEOREM TimelineIsTrueHolds == LeadsSpec => []TimelineIsTrue
<1>1. ASSUME LeadsTypeOK, TimelineInv
      PROVE  TimelineIsTrue
  <2> SUFFICES ASSUME NEW f \in DOMAIN followups, f \notin tangled
               PROVE  /\ \A i \in Changes(Timeline(f)) : Says(Timeline(f), i - 1, Timeline(f)[i].from)
                      /\ (\A r \in LeadRequests : ~(RequestAt(r, "notes") /\ request[r].f = f)) =>
                           \/ followups[f].status = "converted"
                           \/ Says(Timeline(f), Len(Timeline(f)), followups[f].status)
    BY DEF TimelineIsTrue
  <2> DEFINE first == [kind |-> "created", status |-> followups[f].status]
             notes == followups[f].notes
             shown == <<first>> \o notes
  <2>1. Told(f) /\ f \in 1 .. Len(followups)
    BY <1>1 DEF TimelineInv, LeadsTypeOK
  <2>2. notes \in Seq(Note) /\ first.kind = "created" /\ Timeline(f) = shown
    BY <1>1, <2>1, RowType DEF FollowupRow, Timeline
  <2>3. Chained(notes)
    BY <2>1 DEF Told
  <2>4. (\A r \in LeadRequests : ~(RequestAt(r, "notes") /\ request[r].f = f)) =>
          followups[f].status = "converted" \/ Says(notes, Len(notes), followups[f].status)
    BY <2>1 DEF Told, Pending
  <2> HIDE DEF first, notes
  <2>5. /\ Len(shown) = Len(notes) + 1 /\ Len(notes) \in Nat
        /\ \A i \in Changes(shown) : i - 1 \in Changes(notes) /\ shown[i] = notes[i - 1]
        /\ \A k \in 0 .. Len(notes) : \A s : Says(notes, k, s) => Says(shown, k + 1, s)
    BY <2>2, CreationSaysNothing
  <2> HIDE DEF shown
  <2>6. ASSUME NEW i \in Changes(shown)
        PROVE  Says(shown, i - 1, shown[i].from)
    <3> PICK j \in Changes(notes) : j = i - 1
      BY <2>5
    <3>1. j \in 1 .. Len(notes) /\ shown[i] = notes[j]
      BY <2>2, <2>5 DEF Changes
    <3>2. Says(notes, j - 1, notes[j].from)
      BY <2>3 DEF Chained
    <3>3. j - 1 \in 0 .. Len(notes) /\ (j - 1) + 1 = j
      BY <2>5, <3>1
    <3>4. Says(shown, (j - 1) + 1, notes[j].from)
      BY <2>5, <3>2, <3>3
    <3> QED BY <3>1, <3>3, <3>4
  <2>7. Says(notes, Len(notes), followups[f].status) => Says(shown, Len(shown), followups[f].status)
    <3>1. Len(notes) \in 0 .. Len(notes)
      BY <2>5
    <3> QED BY <2>5, <3>1
  <2> QED BY <2>2, <2>4, <2>6, <2>7
<1> QED BY <1>1, LeadsTypeCorrect, TimelineInvariant, PTL

-----------------------------------------------------------------------------
(* The gateway: one configuration is active, and every order keeps its key *)

\* A task that moves on moves to a task.
LEMMA TaskMoves ==
  ASSUME task \in [Tasks -> Task], NEW t \in Tasks, NEW next \in Task, GoOn(t, next)
  PROVE  task' \in [Tasks -> Task]
BY DEF GoOn

LEMMA TaskBeginsType ==
  ASSUME GatewayTypeOK, NEW t \in Tasks, NEW c \in Configs, NEW pc, TaskBegins(t, pc, c),
         pc \in {"begin", "delete", "order", "seed_look", "seed_begin"}
  PROVE  GatewayTypeOK'
<1>1. [pc |-> pc, id |-> c, rows |-> {}] \in Task
  BY DEF Task
<1>2. task' \in [Tasks -> Task]
  BY <1>1, TaskMoves DEF TaskBegins, GatewayTypeOK
<1>3. overlapped' \in BOOLEAN
  BY Zenon DEF TaskBegins
<1>4. tasks' \in Nat
  BY DEF TaskBegins, GatewayTypeOK
<1> QED BY <1>2, <1>3, <1>4 DEF TaskBegins, GatewayTypeOK

\* Rows, orders and tasks keep their types whatever is activated or deleted.
THEOREM GatewayTypeCorrect == GatewaySpec => []GatewayTypeOK
<1>1. GatewayInit => GatewayTypeOK
  <2> SUFFICES ASSUME GatewayInit
               PROVE  GatewayTypeOK
    OBVIOUS
  <2>1. order \in [Orders -> Order]
    BY DEF GatewayInit, Order
  <2>2. task \in [Tasks -> Task]
    BY DEF GatewayInit, Task, NoTask
  <2> QED BY <2>1, <2>2, GatewayAssumption DEF GatewayInit, GatewayTypeOK
<1>2. GatewayTypeOK /\ [GatewayNext]_gatewayVars => GatewayTypeOK'
  <2> SUFFICES ASSUME GatewayTypeOK, [GatewayNext]_gatewayVars
               PROVE  GatewayTypeOK'
    OBVIOUS
  <2> USE DEF GatewayTypeOK
  <2>0. NoTask \in Task
    BY DEF NoTask, Task
  <2>1. ASSUME NEW t \in Tasks, NEW c \in Configs, BeginActivate(t, c) \/ BeginDelete(t, c) \/ BeginOrder(t, c)
        PROVE  GatewayTypeOK'
    BY <2>1, TaskBeginsType DEF BeginActivate, BeginDelete, BeginOrder
  <2>2. ASSUME NEW t \in Tasks, BeginSeed(t)
        PROVE  GatewayTypeOK'
    BY <2>2, TaskBeginsType, GatewayAssumption DEF BeginSeed
  <2>3. ASSUME NEW t \in Tasks,
               StartSwitch(t) \/ Deactivate(t) \/ AbortSwitch(t) \/ SeedLook(t)
        PROVE  GatewayTypeOK'
    <3>1. CASE StartSwitch(t)
      <4>1. [task[t] EXCEPT !.pc = IF @ = "begin" THEN "deactivate" ELSE "seed_deactivate", !.rows = active] \in Task
        BY DEF Task
      <4> QED BY <3>1, <4>1, TaskMoves DEF StartSwitch
    <3>2. CASE Deactivate(t)
      <4>1. [task[t] EXCEPT !.pc = "activate", !.rows = @ \cap active] \in Task
        BY DEF Task
      <4> QED BY <3>2, <4>1, TaskMoves DEF Deactivate
    <3>3. CASE SeedLook(t)
      <4>1. [task[t] EXCEPT !.pc = "seed_activate"] \in Task
        BY DEF Task
      <4> QED BY <2>0, <3>3, <4>1, TaskMoves DEF SeedLook
    <3>4. CASE AbortSwitch(t)
      BY <2>0, <3>4, TaskMoves DEF AbortSwitch
    <3> QED BY <2>3, <3>1, <3>2, <3>3, <3>4
  <2>4. ASSUME NEW t \in Tasks, AbortSeed(t)
        PROVE  GatewayTypeOK'
    <3>1. task' \in [Tasks -> Task]
      BY <2>0, <2>4, TaskMoves DEF AbortSeed
    <3>2. overlapped' \in BOOLEAN
      BY <2>4, Zenon DEF AbortSeed
    <3> QED BY <2>4, <3>1, <3>2 DEF AbortSeed
  <2>5. ASSUME NEW t \in Tasks, Activate(t)
        PROVE  GatewayTypeOK'
    <3>1. task' \in [Tasks -> Task]
      BY <2>0, <2>5, TaskMoves DEF Activate
    <3> QED BY <2>5, <3>1 DEF Activate
  <2>6. ASSUME NEW t \in Tasks, DeleteConfig(t)
        PROVE  GatewayTypeOK'
    <3>1. task' \in [Tasks -> Task]
      BY <2>0, <2>6, TaskMoves DEF DeleteConfig
    <3>2. order' \in [Orders -> Order]
      BY <2>6 DEF DeleteConfig, Order
    <3> QED BY <2>6, <3>1, <3>2 DEF DeleteConfig
  <2>7. ASSUME NEW t \in Tasks, SeedActivate(t) \/ SeedDeactivate(t) \/ SeedCreate(t)
        PROVE  GatewayTypeOK'
    <3>1. CASE SeedDeactivate(t)
      <4>1. [task[t] EXCEPT !.pc = "seed_create", !.rows = {}] \in Task
        BY DEF Task
      <4> QED BY <3>1, <4>1, TaskMoves DEF SeedDeactivate
    <3>2. CASE SeedActivate(t)
      BY <2>0, <3>2, TaskMoves DEF SeedActivate
    <3>3. CASE SeedCreate(t)
      BY <2>0, <3>3, TaskMoves DEF SeedCreate
    <3> QED BY <2>7, <3>1, <3>2, <3>3
  <2>8. ASSUME NEW t \in Tasks, CreateOrder(t)
        PROVE  GatewayTypeOK'
    <3>1. task' \in [Tasks -> Task]
      BY <2>0, <2>8, TaskMoves DEF CreateOrder
    <3>2. order' \in [Orders -> Order]
      BY <2>8 DEF CreateOrder, Order
    <3> QED BY <2>8, <3>1, <3>2 DEF CreateOrder
  <2>9. ASSUME NEW c \in Configs, CreateConfig(c)
        PROVE  GatewayTypeOK'
    BY <2>9 DEF CreateConfig
  <2>10. ASSUME NEW o \in Orders, Pay(o) \/ Verify(o) \/ SettleByActive(o)
         PROVE  GatewayTypeOK'
    <3>1. order' \in [Orders -> Order]
      BY <2>10 DEF Pay, Verify, SettleByActive, VerifyWith, Order
    <3> QED BY <2>10, <3>1 DEF Pay, Verify, SettleByActive
  <2>11. CASE UNCHANGED gatewayVars
    BY <2>11 DEF gatewayVars
  <2> QED BY <2>1, <2>2, <2>3, <2>4, <2>5, <2>6, <2>7, <2>8, <2>9, <2>10, <2>11 DEF GatewayNext, TaskStep
<1> QED BY <1>1, <1>2, PTL DEF GatewaySpec

-----------------------------------------------------------------------------
(* One active configuration *)

Busy(t) == task[t].pc \notin {"idle", "order"}

\* What a task knows of the active rows while no other one changes them.
Knows(t) ==
  /\ task[t].pc \in {"deactivate", "seed_deactivate", "activate"} => task[t].rows = active
  /\ task[t].pc \in {"seed_activate", "seed_create"} => active = {}
  /\ Doing(t, "delete") => task[t].id \notin active

Lone ==
  ~overlapped =>
    /\ \A t, u \in Tasks : Busy(t) /\ Busy(u) => t = u
    /\ \A t \in Tasks : Knows(t)
    /\ \A c, d \in active : c = d
    /\ chosen /\ (\A t \in Tasks : ~Doing(t, "seed_create")) => active # {}

\* A step of the only busy task.
LEMMA LoneStep ==
  ASSUME GatewayTypeOK, Lone, ~overlapped,
         NEW t \in Tasks, NEW next \in Task, Busy(t), GoOn(t, next),
         Knows(t)', \A c, d \in active' : c = d,
         chosen' /\ next.pc # "seed_create" => active' # {}
  PROVE  Lone'
<1>1. task'[t] = next
  BY DEF GatewayTypeOK, GoOn
<1>2. ASSUME NEW u \in Tasks, u # t
      PROVE  ~Busy(u)' /\ Knows(u)'
  <2>1. task'[u] = task[u] /\ ~Busy(u)
    BY <1>2 DEF GatewayTypeOK, GoOn, Lone
  <2> QED BY <2>1 DEF Busy, Knows, Doing
<1> QED BY <1>1, <1>2 DEF Lone, Doing

\* Any other task leaves the rows alone.
LEMMA IdleStep ==
  ASSUME GatewayTypeOK, Lone, NEW t \in Tasks, NEW next \in Task, GoOn(t, next),
         ~Busy(t), next.pc \in {"idle", "order"}, UNCHANGED <<active, chosen, overlapped>>
  PROVE  Lone'
<1>1. task'[t] = next /\ ~Busy(t)' /\ Knows(t)'
  BY DEF GatewayTypeOK, GoOn, Busy, Knows, Doing
<1>2. ASSUME NEW u \in Tasks, u # t
      PROVE  Busy(u)' = Busy(u) /\ (Knows(u) => Knows(u)') /\ task'[u] = task[u]
  BY <1>2 DEF GatewayTypeOK, GoOn, Busy, Knows, Doing
<1>3. ~Doing(t, "seed_create")
  BY DEF Busy, Doing
<1> QED BY <1>1, <1>2, <1>3 DEF Lone, Doing

LEMMA TaskBeginStep ==
  ASSUME GatewayTypeOK, Lone, NEW t \in Tasks, NEW c \in Configs, NEW pc, TaskBegins(t, pc, c),
         pc \in {"begin", "delete", "order", "seed_look", "seed_begin"},
         pc = "delete" => c \notin active
  PROVE  Lone'
<1>1. [pc |-> pc, id |-> c, rows |-> {}] \in Task
  BY DEF Task
<1>2. GoOn(t, [pc |-> pc, id |-> c, rows |-> {}]) /\ ~Busy(t) /\ UNCHANGED <<active, chosen>>
  BY DEF TaskBegins, Busy, Doing
<1>3. CASE pc = "order"
  <2>1. overlapped' = overlapped
    BY <1>3, Zenon DEF TaskBegins, GatewayTypeOK
  <2> QED BY <1>1, <1>2, <1>3, <2>1, IdleStep
<1>4. CASE pc # "order" /\ ~overlapped'
  <2>1. ~overlapped /\ \A u \in Tasks \ {t} : ~Busy(u)
    BY <1>4 DEF TaskBegins, Busy
  <2>2. task'[t] = [pc |-> pc, id |-> c, rows |-> {}]
    BY <1>2 DEF GatewayTypeOK, GoOn
  <2>3. \A u \in Tasks \ {t} : task'[u] = task[u]
    BY <1>2 DEF GatewayTypeOK, GoOn
  <2>4. \A u \in Tasks \ {t} : ~Busy(u)' /\ Knows(u)'
    BY <2>1, <2>3 DEF Busy, Knows, Doing
  <2>5. Knows(t)'
    BY <1>2, <2>2 DEF Knows, Doing
  <2>6. \A u \in Tasks : ~Doing(u, "seed_create")
    BY <1>2, <2>1 DEF Busy, Doing
  <2> QED BY <1>2, <2>1, <2>4, <2>5, <2>6 DEF Lone
<1>5. CASE overlapped'
  BY <1>5 DEF Lone
<1> QED BY <1>3, <1>4, <1>5

\* The steps of a task that changes configurations.
LEMMA SwitchSteps ==
  ASSUME GatewayTypeOK, Lone, ~overlapped, NEW t \in Tasks,
         StartSwitch(t) \/ Deactivate(t) \/ Activate(t) \/ AbortSwitch(t)
  PROVE  Lone'
<1>0. NoTask \in Task /\ task[t] \in Task /\ NoTask.pc = "idle"
  BY DEF NoTask, Task, GatewayTypeOK
<1>1. Busy(t)
  BY DEF StartSwitch, Deactivate, Activate, AbortSwitch, Doing, Busy
<1>2. /\ Knows(t) /\ (\A c, d \in active : c = d)
      /\ chosen /\ ~Doing(t, "seed_create") => active # {}
  BY <1>1 DEF Lone, Busy, Doing
<1>3. CASE StartSwitch(t)
  <2> DEFINE next == [task[t] EXCEPT !.pc = IF @ = "begin" THEN "deactivate" ELSE "seed_deactivate", !.rows = active]
  <2>1. next \in Task /\ GoOn(t, next) /\ UNCHANGED <<active, chosen>>
    BY <1>0, <1>3 DEF StartSwitch, Task, GatewayTypeOK
  <2>2. task'[t] = next
    BY <2>1 DEF GoOn, GatewayTypeOK
  <2>3. next.pc \in {"deactivate", "seed_deactivate"} /\ next.rows = active
    BY <1>0 DEF Task
  <2>4. Knows(t)'
    BY <2>1, <2>2, <2>3 DEF Knows, Doing
  <2>5. ~Doing(t, "seed_create")
    BY <1>3 DEF StartSwitch, Doing
  <2> QED BY <1>1, <1>2, <2>1, <2>4, <2>5, LoneStep
<1>4. CASE Deactivate(t)
  <2> DEFINE next == [task[t] EXCEPT !.pc = "activate", !.rows = @ \cap active]
  <2>1. next \in Task /\ GoOn(t, next) /\ UNCHANGED <<active, chosen>>
    BY <1>0, <1>4 DEF Deactivate, Task
  <2>2. task'[t] = next
    BY <2>1 DEF GoOn, GatewayTypeOK
  <2>3. next.pc = "activate" /\ next.rows = active
    BY <1>0, <1>2, <1>4 DEF Task, Knows, Deactivate, Doing
  <2>4. Knows(t)'
    BY <2>1, <2>2, <2>3 DEF Knows, Doing
  <2>5. ~Doing(t, "seed_create")
    BY <1>4 DEF Deactivate, Doing
  <2> QED BY <1>1, <1>2, <2>1, <2>4, <2>5, LoneStep
<1>5. CASE Activate(t)
  <2>1. GoOn(t, NoTask) /\ task'[t] = NoTask /\ task[t].rows = active
    BY <1>2, <1>5 DEF Activate, GoOn, GatewayTypeOK, Knows, Doing
  <2>2. Knows(t)'
    BY <1>0, <2>1 DEF Knows, Doing
  <2>3. \/ active' = {task[t].id}
        \/ UNCHANGED <<active, chosen>>
    BY <1>5, <2>1 DEF Activate
  <2>4. ~Doing(t, "seed_create")
    BY <1>5 DEF Activate, Doing
  <2> QED BY <1>0, <1>1, <1>2, <2>1, <2>2, <2>3, <2>4, LoneStep
<1>6. CASE AbortSwitch(t)
  <2>1. GoOn(t, NoTask) /\ task'[t] = NoTask /\ UNCHANGED <<active, chosen>>
    BY <1>6 DEF AbortSwitch, GoOn, GatewayTypeOK
  <2>2. Knows(t)' /\ ~Doing(t, "seed_create")
    BY <1>0, <1>6, <2>1 DEF Knows, Doing, AbortSwitch
  <2> QED BY <1>0, <1>1, <1>2, <2>1, <2>2, LoneStep
<1> QED BY <1>3, <1>4, <1>5, <1>6

LEMMA OtherSteps ==
  ASSUME GatewayTypeOK, Lone, ~overlapped, ~overlapped', NEW t \in Tasks,
         DeleteConfig(t) \/ SeedLook(t) \/ SeedActivate(t) \/ SeedDeactivate(t) \/ SeedCreate(t) \/ AbortSeed(t)
  PROVE  Lone'
<1>0. NoTask \in Task /\ task[t] \in Task /\ NoTask.pc = "idle"
  BY DEF NoTask, Task, GatewayTypeOK
<1>1. Busy(t)
  BY DEF DeleteConfig, SeedLook, SeedActivate, SeedDeactivate, SeedCreate, AbortSeed, Doing, Busy
<1>2. /\ Knows(t) /\ (\A c, d \in active : c = d)
      /\ chosen /\ ~Doing(t, "seed_create") => active # {}
  BY <1>1 DEF Lone, Busy, Doing
<1>3. CASE DeleteConfig(t)
  <2>1. GoOn(t, NoTask) /\ task'[t] = NoTask /\ UNCHANGED <<active, chosen>> /\ ~Doing(t, "seed_create")
    BY <1>2, <1>3 DEF DeleteConfig, GoOn, GatewayTypeOK, Knows, Doing
  <2>2. Knows(t)'
    BY <1>0, <2>1 DEF Knows, Doing
  <2> QED BY <1>0, <1>1, <1>2, <2>1, <2>2, LoneStep
<1>4. CASE SeedLook(t)
  <2> DEFINE next == IF active = {} THEN [task[t] EXCEPT !.pc = "seed_activate"] ELSE NoTask
  <2>1. next \in Task /\ GoOn(t, next) /\ UNCHANGED <<active, chosen>> /\ ~Doing(t, "seed_create")
    BY <1>0, <1>4 DEF SeedLook, Task, Doing
  <2>2. task'[t] = next
    BY <2>1 DEF GoOn, GatewayTypeOK
  <2>3. IF active = {} THEN next.pc = "seed_activate" ELSE next.pc = "idle"
    BY <1>0 DEF Task
  <2>4. Knows(t)'
    BY <2>1, <2>2, <2>3 DEF Knows, Doing
  <2> QED BY <1>1, <1>2, <2>1, <2>4, LoneStep
<1>5. CASE SeedActivate(t)
  <2>1. GoOn(t, NoTask) /\ task'[t] = NoTask /\ UNCHANGED chosen
    BY <1>5 DEF SeedActivate, GoOn, GatewayTypeOK
  <2>2. Knows(t)' /\ ~chosen
    BY <1>0, <1>2, <1>5, <2>1 DEF Knows, Doing, SeedActivate
  <2>3. active' \subseteq {SeedConfig}
    BY <1>2, <1>5 DEF Knows, Doing, SeedActivate
  <2> QED BY <1>0, <1>1, <2>1, <2>2, <2>3, LoneStep
<1>6. CASE SeedDeactivate(t)
  <2> DEFINE next == [task[t] EXCEPT !.pc = "seed_create", !.rows = {}]
  <2>1. next \in Task /\ GoOn(t, next) /\ active' = {}
    BY <1>0, <1>2, <1>6 DEF SeedDeactivate, Task, Knows, Doing
  <2>2. task'[t] = next /\ next.pc = "seed_create"
    BY <1>0, <2>1 DEF GoOn, GatewayTypeOK, Task
  <2>3. Knows(t)'
    BY <2>1, <2>2 DEF Knows, Doing
  <2> QED BY <1>1, <2>1, <2>2, <2>3, LoneStep
<1>7. CASE SeedCreate(t)
  <2>1. GoOn(t, NoTask) /\ task'[t] = NoTask
    BY <1>7 DEF SeedCreate, GoOn, GatewayTypeOK
  <2>2. PICK c \in Configs : active' = {c}
    BY <1>2, <1>7 DEF SeedCreate, Knows, Doing
  <2>3. Knows(t)'
    BY <1>0, <2>1 DEF Knows, Doing
  <2> QED BY <1>0, <1>1, <2>1, <2>2, <2>3, LoneStep
<1>8. CASE AbortSeed(t)
  <2>1. ~Doing(t, "seed_create")
    BY <1>8 DEF AbortSeed
  <2>2. GoOn(t, NoTask) /\ task'[t] = NoTask /\ UNCHANGED <<active, chosen>>
    BY <1>8 DEF AbortSeed, GoOn, GatewayTypeOK
  <2>3. Knows(t)'
    BY <1>0, <2>2 DEF Knows, Doing
  <2> QED BY <1>0, <1>1, <1>2, <2>1, <2>2, <2>3, LoneStep
<1> QED BY <1>3, <1>4, <1>5, <1>6, <1>7, <1>8

LEMMA LoneNext == GatewayTypeOK /\ Lone /\ [GatewayNext]_gatewayVars => Lone'
<1> SUFFICES ASSUME GatewayTypeOK, Lone, [GatewayNext]_gatewayVars
             PROVE  Lone'
  OBVIOUS
<1>1. ASSUME NEW t \in Tasks, NEW c \in Configs, BeginActivate(t, c) \/ BeginDelete(t, c) \/ BeginOrder(t, c)
      PROVE  Lone'
  BY <1>1, TaskBeginStep DEF BeginActivate, BeginDelete, BeginOrder
<1>2. ASSUME NEW t \in Tasks, BeginSeed(t)
      PROVE  Lone'
  BY <1>2, TaskBeginStep, GatewayAssumption DEF BeginSeed
<1>3. ASSUME NEW t \in Tasks, StartSwitch(t) \/ Deactivate(t) \/ Activate(t) \/ AbortSwitch(t)
      PROVE  Lone'
  <2>1. overlapped' = overlapped
    BY <1>3 DEF StartSwitch, Deactivate, Activate, AbortSwitch
  <2> QED BY <1>3, <2>1, SwitchSteps DEF Lone
<1>4. ASSUME NEW t \in Tasks,
             DeleteConfig(t) \/ SeedLook(t) \/ SeedActivate(t) \/ SeedDeactivate(t) \/ SeedCreate(t) \/ AbortSeed(t)
      PROVE  Lone'
  <2>1. overlapped => overlapped'
    BY <1>4 DEF DeleteConfig, SeedLook, SeedActivate, SeedDeactivate, SeedCreate, AbortSeed
  <2>2. CASE overlapped'
    BY <2>2 DEF Lone
  <2> QED BY <1>4, <2>1, <2>2, OtherSteps
<1>5. ASSUME NEW t \in Tasks, CreateOrder(t)
      PROVE  Lone'
  <2>1. NoTask \in Task /\ NoTask.pc = "idle"
    BY DEF NoTask, Task
  <2> QED BY <1>5, <2>1, IdleStep DEF CreateOrder, Busy, Doing
<1>6. CASE UNCHANGED <<active, task, chosen, overlapped>>
  BY <1>6 DEF Lone, Busy, Knows, Doing
<1>7. ASSUME NEW c \in Configs, CreateConfig(c)
      PROVE  Lone'
  BY <1>6, <1>7 DEF CreateConfig
<1>8. ASSUME NEW o \in Orders, Pay(o) \/ Verify(o) \/ SettleByActive(o)
      PROVE  Lone'
  BY <1>6, <1>8 DEF Pay, Verify, SettleByActive
<1> QED BY <1>1, <1>2, <1>3, <1>4, <1>5, <1>6, <1>7, <1>8 DEF GatewayNext, TaskStep, gatewayVars

\* One configuration is active, unless tasks crossed or the seed died.
THEOREM OneActiveConfigHolds == GatewaySpec => []OneActiveConfig
<1>1. GatewayInit => Lone
  BY DEF GatewayInit, Lone, Busy, Knows, Doing, NoTask
<1>2. Lone => OneActiveConfig
  BY DEF Lone, OneActiveConfig
<1> QED BY <1>1, <1>2, LoneNext, GatewayTypeCorrect, PTL DEF GatewaySpec

-----------------------------------------------------------------------------
(* Genuine signatures *)

\* An order keeps the configuration of its account, or none.
OwnKeys == \A o \in Orders : order[o].config \in {order[o].account, NoConfig}

LEMMA OwnKeysHolds == GatewaySpec => []OwnKeys
<1>1. GatewayInit => OwnKeys
  BY DEF GatewayInit, OwnKeys
<1>2. GatewayTypeOK /\ OwnKeys /\ [GatewayNext]_gatewayVars => OwnKeys'
  <2> SUFFICES ASSUME GatewayTypeOK, OwnKeys, [GatewayNext]_gatewayVars
               PROVE  OwnKeys'
    OBVIOUS
  <2>1. CASE UNCHANGED order
    BY <2>1 DEF OwnKeys
  <2>2. ASSUME NEW t \in Tasks, DeleteConfig(t)
        PROVE  OwnKeys'
    BY <2>2 DEF DeleteConfig, OwnKeys, GatewayTypeOK, Order
  <2>3. ASSUME NEW t \in Tasks, CreateOrder(t)
        PROVE  OwnKeys'
    BY <2>3 DEF CreateOrder, OwnKeys, GatewayTypeOK, Order
  <2>4. ASSUME NEW o \in Orders, Pay(o) \/ Verify(o) \/ SettleByActive(o)
        PROVE  OwnKeys'
    BY <2>4 DEF Pay, Verify, SettleByActive, VerifyWith, OwnKeys, GatewayTypeOK, Order
  <2> QED BY <2>1, <2>2, <2>3, <2>4
          DEF GatewayNext, TaskStep, BeginActivate, BeginDelete, BeginOrder, BeginSeed, TaskBegins,
              StartSwitch, Deactivate, Activate, AbortSwitch, SeedLook, SeedActivate, SeedDeactivate,
              SeedCreate, AbortSeed, CreateConfig, gatewayVars
<1> QED BY <1>1, <1>2, GatewayTypeCorrect, PTL DEF GatewaySpec

\* Whatever configuration is active, verifying uses the order's own key.
THEOREM GenuineIsNeverFailedHolds == GatewaySpec => GenuineIsNeverFailed
<1>1. GatewayTypeOK /\ OwnKeys /\ [GatewayNext]_gatewayVars =>
        [\A o \in captured : order'[o].status = "failed" => order[o].status = "failed"]_gatewayVars
  <2> SUFFICES ASSUME GatewayTypeOK, OwnKeys, [GatewayNext]_gatewayVars, NEW o \in captured,
                      order'[o].status = "failed"
               PROVE  order[o].status = "failed"
    OBVIOUS
  <2>0. o \in Orders
    BY DEF GatewayTypeOK
  <2>1. CASE UNCHANGED order
    BY <2>1
  <2>2. ASSUME NEW t \in Tasks, DeleteConfig(t)
        PROVE  order[o].status = "failed"
    BY <2>0, <2>2 DEF DeleteConfig, GatewayTypeOK, Order
  <2>3. ASSUME NEW t \in Tasks, CreateOrder(t)
        PROVE  order[o].status = "failed"
    BY <2>0, <2>3 DEF CreateOrder, GatewayTypeOK, Order
  <2>4. ASSUME NEW p \in Orders, Pay(p) \/ Verify(p) \/ SettleByActive(p)
        PROVE  order[o].status = "failed"
    BY <2>0, <2>4 DEF Pay, Verify, SettleByActive, VerifyWith, OwnKeys, GatewayTypeOK, Order
  <2> QED BY <2>1, <2>2, <2>3, <2>4
          DEF GatewayNext, TaskStep, BeginActivate, BeginDelete, BeginOrder, BeginSeed, TaskBegins,
              StartSwitch, Deactivate, Activate, AbortSwitch, SeedLook, SeedActivate, SeedDeactivate,
              SeedCreate, AbortSeed, CreateConfig, gatewayVars
<1> QED BY <1>1, OwnKeysHolds, GatewayTypeCorrect, PTL DEF GatewaySpec, GenuineIsNeverFailed

-----------------------------------------------------------------------------
(* The catalogue: twins need a race, free text or the seed *)

MasterRow == [kind : Kinds \cup CaseBlind, label : Labels, active : BOOLEAN, locked : BOOLEAN]
Offering == [name : RowIds, duration : RowIds \cup {Nothing}, group : Labels, locked : BOOLEAN]

RowRequest == [pc : {"label", "row"}, kind : Kinds \cup CaseBlind,
               id : RowIds \cup {Nothing}, label : Labels]
DeleteRequest == [pc : {"delete"}, id : RowIds]
FormRequest(pcs, names) ==
  [pc : pcs, id : OfferingIds \cup {Nothing}, name : names,
   duration : RowIds \cup {Nothing, "keep"}, existing : Offering \cup {Nothing}]
StoredNames == [by : {"stored"}, of : RowIds, label : Labels] \cup {[by |-> "keep"]}
OfferingRequest ==
  FormRequest({"duration", "name"}, NameInputs) \cup FormRequest({"pair", "offering"}, StoredNames)

\* A form of a new offering names all of it; one of an old offering has read it.
FormIsWhole(q) ==
  IF q.id = Nothing THEN q.existing = Nothing /\ q.name.by # "keep" /\ q.duration # "keep"
  ELSE q.existing \in Offering

SeedLocals ==
  [pc : SeedPCs, left : SUBSET Labels, ids : [SeedDurations -> RowIds \cup {Nothing}],
   course : Labels \cup {Nothing}, row : RowIds \cup {Nothing}, found : OfferingIds \cup {Nothing}]

\* A run of the seed has the names of the part it is in before it, and knows the
\* course and the row that it is about to write.
SeedIsWhole(q) ==
  /\ q.left \subseteq IF q.pc \in {"plant", "look"} THEN SeedDurations ELSE SeedCourses
  /\ q.pc \in {"renew", "stock", "make"} => q.course \in SeedCourses
  /\ q.pc = "renew" => q.found \in OfferingIds
  /\ q.pc = "make" => q.row \in RowIds

ClerkRequest ==
  {ClerkIdle} \cup RowRequest \cup DeleteRequest \cup {q \in OfferingRequest : FormIsWhole(q)}
    \cup {q \in SeedLocals : SeedIsWhole(q)}

\* Every variable keeps its type.
CourseTypeOK ==
  /\ rows \in [RowIds -> MasterRow \cup {Nothing}]
  /\ offerings \in [OfferingIds -> Offering \cup {Nothing}]
  /\ clerk \in [Clerks -> ClerkRequest]
  /\ served \in Nat /\ crossed \in BOOLEAN /\ typed \subseteq Labels
  /\ planted \subseteq (Kinds \cup CaseBlind) \X Labels

OfferingPCs == {"duration", "name", "pair", "offering"}

\* What a run of the seed that nobody crossed knows: the durations that it has
\* stored are there, and so it finds them.
SeedKnows(q) ==
  /\ q.pc = "plant" => \A l \in SeedDurations : l \in q.left \/ Labelled("duration", l) # {}
  /\ q.pc = "look" => \A l \in SeedDurations : Labelled("duration", l) # {}
  /\ q.pc = "look" => \A l \in SeedDurations : l \in q.left \/ q.ids[l] # Nothing
  /\ q.pc \in {"find", "renew", "stock", "make"} => \A l \in SeedDurations : q.ids[l] # Nothing

\* What a request that nobody crossed knows of the tables: of a row the kind,
\* and that its label is free; of an offering what it was, and that its pair
\* is free.
Informed(q) ==
  /\ q.pc \in SeedPCs => SeedKnows(q)
  /\ q.pc \in {"label", "row"} /\ q.id # Nothing => rows[q.id] = Nothing \/ rows[q.id].kind = q.kind
  /\ q.pc = "row" /\ q.kind \in CaseBlind =>
       \A j \in RowsOf(q.kind) \ {q.id} :
         LowerCase[rows[j].label] = LowerCase[q.label] => Respelled(q.kind, q.label)
  /\ q.pc \in OfferingPCs /\ q.id # Nothing => offerings[q.id] \in {q.existing, Nothing}
  /\ q.pc = "offering" => \A p \in OfferingIds \ {q.id} : offerings[p] = Nothing \/ ~Twins(offerings[p], Pair(q, q.existing))

OneAtATime ==
  ~crossed => \A b, c \in Clerks : ~ClerkAt(b, "idle") /\ ~ClerkAt(c, "idle") => b = c

ClerksInv == OneAtATime /\ (~crossed => \A c \in Clerks : Informed(clerk[c]))
CourseInv == ClerksInv /\ TwinsNeedRace

-----------------------------------------------------------------------------

\* The pair that a whole form makes of what it has read, or of the row itself.
LEMMA PairType ==
  ASSUME NEW q \in FormRequest({"pair", "offering"}, StoredNames),
         FormIsWhole(q), NEW old \in Offering \cup {Nothing}, q.id = Nothing \/ old \in Offering
  PROVE  Pair(q, old) \in Offering
<1>1. /\ q.id = Nothing \/ old \in Offering
      /\ q.id = Nothing => q.name.by # "keep" /\ q.duration # "keep"
  BY DEF FormIsWhole
<1>2. q.duration \in RowIds \cup {Nothing, "keep"} /\ q.name \in StoredNames
  BY DEF FormRequest
<1>3. (IF q.name.by = "keep" THEN old.name ELSE q.name.of) \in RowIds
  BY <1>1, <1>2 DEF StoredNames, Offering
<1>4. (IF q.name.by = "keep" THEN old.group ELSE q.name.label) \in Labels
  BY <1>1, <1>2 DEF StoredNames, Offering
<1>5. (IF q.duration = "keep" THEN old.duration ELSE q.duration) \in RowIds \cup {Nothing}
  BY <1>1, <1>2 DEF Offering
<1>6. (q.id # Nothing /\ old.locked) \in BOOLEAN
  BY Zenon
<1> QED BY <1>3, <1>4, <1>5, <1>6 DEF Pair, Offering

LEMMA ClerkMoves ==
  ASSUME clerk \in [Clerks -> ClerkRequest], NEW c \in Clerks, NEW next \in ClerkRequest,
         ClerkTo(c, next)
  PROVE  clerk' \in [Clerks -> ClerkRequest]
BY DEF ClerkTo

LEMMA ClerkBeginsType ==
  ASSUME CourseTypeOK, NEW c \in Clerks, NEW first \in ClerkRequest, ClerkBegins(c, first)
  PROVE  CourseTypeOK'
<1>1. clerk' \in [Clerks -> ClerkRequest]
  BY ClerkMoves DEF ClerkBegins, CourseTypeOK
<1>2. crossed' \in BOOLEAN
  BY Zenon DEF ClerkBegins
<1> QED BY <1>1, <1>2 DEF ClerkBegins, CourseTypeOK

\* Which request a clerk is at is told by its statement.
LEMMA ClerkKinds ==
  ASSUME CourseTypeOK, NEW c \in Clerks
  PROVE  /\ clerk[c].pc \in {"label", "row"} => clerk[c] \in RowRequest
         /\ clerk[c].pc = "delete" => clerk[c] \in DeleteRequest
         /\ clerk[c].pc \in {"duration", "name"} =>
              clerk[c] \in FormRequest({"duration", "name"}, NameInputs) /\ FormIsWhole(clerk[c])
         /\ clerk[c].pc \in {"pair", "offering"} =>
              /\ clerk[c] \in FormRequest({"pair", "offering"},
                                          StoredNames)
              /\ FormIsWhole(clerk[c])
         /\ clerk[c].pc \in SeedPCs => clerk[c] \in SeedLocals /\ SeedIsWhole(clerk[c])
<1>1. clerk[c] \in ClerkRequest
  BY DEF CourseTypeOK
<1> QED BY <1>1 DEF ClerkRequest, ClerkIdle, RowRequest, DeleteRequest, OfferingRequest, FormRequest,
                    SeedLocals, SeedPCs

\* A new row of the seed, and what is recorded of it.
LEMMA PlantType ==
  ASSUME CourseTypeOK, NEW i \in RowIds, NEW k \in CaseBlind, NEW label \in Labels, Plant(i, k, label)
  PROVE  /\ rows' \in [RowIds -> MasterRow \cup {Nothing}]
         /\ planted' \subseteq (Kinds \cup CaseBlind) \X Labels
<1>1. (<<k, label>> \in SeedDefaults) \in BOOLEAN
  BY SMT
<1>2. [kind |-> k, label |-> label, active |-> TRUE, locked |-> <<k, label>> \in SeedDefaults] \in MasterRow
  BY <1>1 DEF MasterRow
<1> QED BY <1>2 DEF Plant, CourseTypeOK

\* The script passes a name, or goes on to its next part.
LEMMA SeedPassesType ==
  ASSUME NEW q \in SeedLocals, SeedIsWhole(q), NEW name, NEW part, NEW all,
         \/ q.pc = "plant" /\ part = "look" /\ all = SeedDurations
         \/ q.pc = "look" /\ part = "find" /\ all = SeedCourses
  PROVE  SeedPasses(q, name, part, all) \in ClerkRequest
<1>1. q.left \subseteq SeedDurations /\ all \subseteq Labels /\ SeedDurations \subseteq Labels
  BY CourseAssumption DEF SeedIsWhole
<1>2. CASE q.left = {name}
  <2> PICK next : next = [q EXCEPT !.pc = part, !.left = all]
    OBVIOUS
  <2>1. next \in SeedLocals /\ SeedIsWhole(next)
    BY <1>1 DEF SeedLocals, SeedPCs, SeedIsWhole
  <2> QED BY <1>2, <2>1 DEF SeedPasses, ClerkRequest
<1>3. CASE q.left # {name}
  <2> PICK next : next = [q EXCEPT !.left = q.left \ {name}]
    OBVIOUS
  <2>1. next \in SeedLocals /\ SeedIsWhole(next)
    BY <1>1 DEF SeedLocals, SeedPCs, SeedIsWhole
  <2> QED BY <1>3, <2>1 DEF SeedPasses, ClerkRequest
<1> QED BY <1>2, <1>3

\* After a course the next one, or the end.
LEMMA NextCourseType ==
  ASSUME CourseTypeOK, NEW c \in Clerks, clerk[c].pc \in {"renew", "make"},
         NextCourse(c) \/ ClerkTo(c, ClerkIdle)
  PROVE  clerk' \in [Clerks -> ClerkRequest]
<1> PICK q : q = clerk[c]
  OBVIOUS
<1>1. q \in SeedLocals /\ SeedIsWhole(q) /\ q.pc \in {"renew", "make"}
  BY ClerkKinds DEF SeedPCs
<1> PICK next : next = [q EXCEPT !.pc = "find", !.course = Nothing, !.row = Nothing, !.found = Nothing]
  OBVIOUS
<1>2. next \in SeedLocals /\ SeedIsWhole(next)
  BY <1>1 DEF SeedLocals, SeedPCs, SeedIsWhole
<1>3. next \in ClerkRequest /\ ClerkIdle \in ClerkRequest
  BY <1>2 DEF ClerkRequest
<1>4. ClerkTo(c, next) \/ ClerkTo(c, ClerkIdle)
  BY DEF NextCourse
<1> QED BY <1>3, <1>4, ClerkMoves DEF CourseTypeOK

\* What a run of the seed stores of a course: a row of the right type, and not
\* beside another with its name and duration.
LEMMA CourseWritten ==
  ASSUME CourseTypeOK, NEW c \in Clerks, RenewCourse(c) \/ MakeCourse(c)
  PROVE  \/ UNCHANGED offerings
         \/ \E o \in OfferingIds, row \in Offering :
              /\ offerings' = [offerings EXCEPT ![o] = row]
              /\ row.duration = clerk[c].ids[SeedDuration[clerk[c].course]]
              /\ SeedDuration[clerk[c].course] \in SeedDurations
              /\ row.duration # Nothing => SameOffering(row) \subseteq {o}
<1> PICK q : q = clerk[c]
  OBVIOUS
<1>1. q \in SeedLocals /\ SeedIsWhole(q) /\ q.pc \in {"renew", "make"}
  BY ClerkKinds DEF SeedPCs, RenewCourse, MakeCourse, ClerkAt
<1>2. q.course \in SeedCourses
  BY <1>1 DEF SeedIsWhole
<1>3. SeedDuration[q.course] \in SeedDurations /\ q.course \in Labels
  BY <1>2, CourseAssumption
<1>4. q.ids[SeedDuration[q.course]] \in RowIds \cup {Nothing}
  BY <1>1, <1>3 DEF SeedLocals
<1>5. (<<"name", q.course>> \in SeedDefaults) \in BOOLEAN
  BY SMT
<1>6. ASSUME RenewCourse(c), ~UNCHANGED offerings
      PROVE  \E o \in OfferingIds, row \in Offering :
              /\ offerings' = [offerings EXCEPT ![o] = row]
              /\ row.duration = q.ids[SeedDuration[q.course]]
              /\ row.duration # Nothing => SameOffering(row) \subseteq {o}
  <2> DEFINE row == [offerings[q.found] EXCEPT !.duration = q.ids[SeedDuration[q.course]],
                                               !.locked = <<"name", q.course>> \in SeedDefaults]
  <2>1. q.found \in OfferingIds
    BY <1>1, <1>6 DEF SeedIsWhole, RenewCourse, ClerkAt
  <2>2. /\ offerings[q.found] # Nothing /\ ~SeedRefused(row, q.found)
        /\ offerings' = [offerings EXCEPT ![q.found] = row]
    BY <1>6 DEF RenewCourse
  <2>3. offerings[q.found] \in Offering
    BY <2>1, <2>2 DEF CourseTypeOK
  <2>4. row \in Offering /\ row.duration = q.ids[SeedDuration[q.course]]
    BY <1>4, <1>5, <2>3 DEF Offering
  <2> HIDE DEF row
  <2> QED BY <2>1, <2>2, <2>4 DEF SeedRefused
<1>7. ASSUME MakeCourse(c), ~UNCHANGED offerings
      PROVE  \E o \in OfferingIds, row \in Offering :
              /\ offerings' = [offerings EXCEPT ![o] = row]
              /\ row.duration = q.ids[SeedDuration[q.course]]
              /\ row.duration # Nothing => SameOffering(row) \subseteq {o}
  <2> DEFINE row == [name |-> q.row, duration |-> q.ids[SeedDuration[q.course]],
                     group |-> q.course, locked |-> <<"name", q.course>> \in SeedDefaults]
  <2>1. q.row \in RowIds
    BY <1>1, <1>7 DEF SeedIsWhole, MakeCourse, ClerkAt
  <2>2. /\ ~SeedRefused(row, Nothing)
        /\ \E o \in Fresh(offerings) : offerings' = [offerings EXCEPT ![o] = row]
    BY <1>7 DEF MakeCourse
  <2>3. row \in Offering /\ row.duration = q.ids[SeedDuration[q.course]]
    BY <1>3, <1>4, <1>5, <2>1 DEF Offering
  <2> HIDE DEF row
  <2>4. \E o \in OfferingIds : offerings' = [offerings EXCEPT ![o] = row]
    BY <2>2 DEF Fresh, CourseTypeOK
  <2>5. row.duration # Nothing => SameOffering(row) = {}
    BY <2>2, CourseAssumption DEF SeedRefused, SameOffering
  <2> QED BY <2>3, <2>4, <2>5
<1> QED BY <1>3, <1>6, <1>7

\* What WriteOffering stores: the form's pair, in a row that was free or in the
\* one it changes, and nothing that the index refuses.
LEMMA OfferingWritten ==
  ASSUME CourseTypeOK, NEW c \in Clerks, WriteOffering(c)
  PROVE  \/ UNCHANGED offerings
         \/ \E o \in OfferingIds, row \in Offering :
              /\ offerings' = [offerings EXCEPT ![o] = row]
              /\ row.duration # Nothing => SameOffering(row) \subseteq {clerk[c].id}
              /\ \/ clerk[c].id = Nothing /\ row = Pair(clerk[c], Nothing)
                 \/ /\ clerk[c].id = o /\ offerings[o] # Nothing
                    /\ row = Pair(clerk[c], offerings[o])
<1> DEFINE q == clerk[c]
           row == Pair(q, IF q.id = Nothing THEN Nothing ELSE offerings[q.id])
<1>1. /\ q \in FormRequest({"pair", "offering"}, StoredNames)
      /\ FormIsWhole(q)
  BY ClerkKinds DEF WriteOffering, history, ClerkAt
<1>2. q.id \in OfferingIds \cup {Nothing}
  BY <1>1 DEF FormRequest
<1>3. CASE UNCHANGED offerings
  BY <1>3
<1>4. CASE ~UNCHANGED offerings
  <2>1. /\ q.id # Nothing => offerings[q.id] # Nothing
        /\ row.duration # Nothing => SameOffering(row) \subseteq {q.id}
        /\ \E o \in IF q.id = Nothing THEN Fresh(offerings) ELSE {q.id} :
             offerings' = [offerings EXCEPT ![o] = row]
    BY <1>4 DEF WriteOffering, history
  <2>2. PICK o \in IF q.id = Nothing THEN Fresh(offerings) ELSE {q.id} :
          offerings' = [offerings EXCEPT ![o] = row]
    BY <2>1
  <2>3. o \in OfferingIds
    BY <1>2, <2>2 DEF Fresh, CourseTypeOK
  <2>4. row \in Offering
    <3>1. q.id # Nothing => offerings[q.id] \in Offering
      BY <1>2, <2>1 DEF CourseTypeOK
    <3>2. (IF q.id = Nothing THEN Nothing ELSE offerings[q.id]) \in Offering \cup {Nothing}
      BY <3>1
    <3> QED BY <1>1, <3>1, <3>2, PairType
  <2> QED BY <2>1, <2>2, <2>3, <2>4
<1> QED BY <1>3, <1>4

\* Rows, offerings and requests keep their types: no request goes on from a
\* row it has not read.
THEOREM CourseTypeCorrect == CourseSpec => []CourseTypeOK
<1>1. CourseInit => CourseTypeOK
  <2> SUFFICES ASSUME CourseInit
               PROVE  CourseTypeOK
    OBVIOUS
  <2>1. clerk \in [Clerks -> ClerkRequest]
    BY DEF CourseInit, ClerkRequest
  <2>2. rows \in [RowIds -> MasterRow \cup {Nothing}]
    BY DEF CourseInit
  <2> QED BY <2>1, <2>2 DEF CourseInit, CourseTypeOK
<1>2. CourseTypeOK /\ [CourseNext]_courseVars => CourseTypeOK'
  <2> SUFFICES ASSUME CourseTypeOK, [CourseNext]_courseVars
               PROVE  CourseTypeOK'
    OBVIOUS
  <2>0. ClerkIdle \in ClerkRequest
    BY DEF ClerkRequest
  <2>1. ASSUME NEW c \in Clerks, NEW k \in Kinds, NEW label \in Labels, BeginCreateRow(c, k, label)
        PROVE  CourseTypeOK'
    <3>1. [pc |-> IF k \in CaseBlind THEN "label" ELSE "row", kind |-> k, id |-> Nothing, label |-> label]
            \in ClerkRequest
      BY DEF ClerkRequest, RowRequest
    <3> QED BY <2>1, <3>1, ClerkBeginsType DEF BeginCreateRow
  <2>2. ASSUME NEW c \in Clerks, NEW i \in RowIds, NEW label \in Labels, BeginRenameRow(c, i, label)
        PROVE  CourseTypeOK'
    <3>1. rows[i].kind \in Kinds \cup CaseBlind
      BY <2>2 DEF BeginRenameRow, CourseTypeOK, MasterRow
    <3> DEFINE first == [pc |-> IF rows[i].kind \in CaseBlind /\ LowerCase[label] # LowerCase[rows[i].label]
                                THEN "label" ELSE "row",
                         kind |-> rows[i].kind, id |-> i, label |-> label]
    <3>2. first \in ClerkRequest
      BY <3>1 DEF ClerkRequest, RowRequest
    <3>3. ClerkBegins(c, first)
      BY <2>2 DEF BeginRenameRow
    <3> HIDE DEF first
    <3> QED BY <3>2, <3>3, ClerkBeginsType
  <2>3. ASSUME NEW c \in Clerks, NEW i \in RowIds, BeginDeleteRow(c, i)
        PROVE  CourseTypeOK'
    <3>1. [pc |-> "delete", id |-> i] \in ClerkRequest
      BY DEF ClerkRequest, DeleteRequest
    <3> QED BY <2>3, <3>1, ClerkBeginsType DEF BeginDeleteRow
  <2>4. ASSUME NEW c \in Clerks, NEW o \in OfferingIds \cup {Nothing}, NEW name \in NameInputs,
               NEW d \in RowIds \cup {Nothing, "keep"}, BeginOffering(c, o, name, d)
        PROVE  CourseTypeOK'
    <3> DEFINE first == [pc |-> "duration", id |-> o, name |-> name, duration |-> d,
                         existing |-> IF o = Nothing THEN Nothing ELSE offerings[o]]
    <3>1. o # Nothing => offerings[o] \in Offering
      BY <2>4 DEF BeginOffering, CourseTypeOK
    <3>2. first \in FormRequest({"duration", "name"}, NameInputs)
      BY <3>1 DEF FormRequest
    <3>3. FormIsWhole(first)
      BY <2>4, <3>1 DEF FormIsWhole, BeginOffering
    <3>4. ClerkBegins(c, first)
      BY <2>4 DEF BeginOffering
    <3> HIDE DEF first
    <3> QED BY <3>2, <3>3, <3>4, ClerkBeginsType DEF ClerkRequest, OfferingRequest
  <2>5. ASSUME NEW c \in Clerks, CheckLabel(c)
        PROVE  CourseTypeOK'
    <3>1. clerk[c] \in RowRequest
      BY <2>5, ClerkKinds DEF CheckLabel, history, ClerkAt
    <3>2. [clerk[c] EXCEPT !.pc = "row"] \in RowRequest
      BY <3>1 DEF RowRequest
    <3>3. ClerkTo(c, ClerkIdle) \/ ClerkTo(c, [clerk[c] EXCEPT !.pc = "row"])
      BY <2>5 DEF CheckLabel, history
    <3>4. clerk' \in [Clerks -> ClerkRequest]
      BY <2>0, <3>2, <3>3, ClerkMoves DEF CourseTypeOK, ClerkRequest
    <3> QED BY <2>5, <3>4 DEF CheckLabel, history, CourseTypeOK
  <2>6. ASSUME NEW c \in Clerks, WriteRow(c)
        PROVE  CourseTypeOK'
    <3>1. clerk[c] \in RowRequest
      BY <2>6, ClerkKinds DEF WriteRow, history, ClerkAt
    <3>2. clerk' \in [Clerks -> ClerkRequest]
      BY <2>0, <2>6, ClerkMoves DEF WriteRow, history, CourseTypeOK
    <3>3. rows' \in [RowIds -> MasterRow \cup {Nothing}]
      <4> DEFINE q == clerk[c]
      <4>1. q.label \in Labels /\ q.kind \in Kinds \cup CaseBlind /\ q.id \in RowIds \cup {Nothing}
        BY <3>1 DEF RowRequest
      <4>2. \/ UNCHANGED rows
            \/ q.id # Nothing /\ rows[q.id] # Nothing /\ rows' = [rows EXCEPT ![q.id].label = q.label]
            \/ \E i \in Fresh(rows) :
                 rows' = [rows EXCEPT ![i] = [kind |-> q.kind, label |-> q.label,
                                              active |-> TRUE, locked |-> FALSE]]
        BY <2>6 DEF WriteRow, history
      <4> HIDE DEF q
      <4>3. CASE UNCHANGED rows
        BY <4>3 DEF CourseTypeOK
      <4>4. CASE q.id # Nothing /\ rows[q.id] # Nothing /\ rows' = [rows EXCEPT ![q.id].label = q.label]
        <5>1. rows[q.id] \in MasterRow
          BY <4>1, <4>4 DEF CourseTypeOK
        <5>2. [rows[q.id] EXCEPT !.label = q.label] \in MasterRow
          BY <4>1, <5>1 DEF MasterRow
        <5> QED BY <4>4, <5>2 DEF CourseTypeOK
      <4>5. ASSUME NEW i, rows' = [rows EXCEPT ![i] = [kind |-> q.kind, label |-> q.label,
                                                       active |-> TRUE, locked |-> FALSE]]
            PROVE  rows' \in [RowIds -> MasterRow \cup {Nothing}]
        <5>1. [kind |-> q.kind, label |-> q.label, active |-> TRUE, locked |-> FALSE] \in MasterRow
          BY <4>1 DEF MasterRow
        <5> QED BY <4>5, <5>1 DEF CourseTypeOK
      <4> QED BY <4>2, <4>3, <4>4, <4>5
    <3> QED BY <2>6, <3>2, <3>3 DEF WriteRow, history, CourseTypeOK
  <2>7. ASSUME NEW c \in Clerks, DeleteRow(c)
        PROVE  CourseTypeOK'
    <3>1. clerk' \in [Clerks -> ClerkRequest]
      BY <2>0, <2>7, ClerkMoves DEF DeleteRow, history, CourseTypeOK
    <3> QED BY <2>7, <3>1 DEF DeleteRow, history, CourseTypeOK
  <2>8. ASSUME NEW c \in Clerks, ValidateDuration(c)
        PROVE  CourseTypeOK'
    <3> DEFINE next == [clerk[c] EXCEPT !.pc = "name"]
    <3>1. clerk[c] \in FormRequest({"duration", "name"}, NameInputs) /\ FormIsWhole(clerk[c])
      BY <2>8, ClerkKinds DEF ValidateDuration, history, ClerkAt
    <3>2. next \in FormRequest({"duration", "name"}, NameInputs) /\ FormIsWhole(next)
      BY <3>1 DEF FormRequest, FormIsWhole
    <3>3. ClerkTo(c, ClerkIdle) \/ ClerkTo(c, next)
      BY <2>8 DEF ValidateDuration, history
    <3> HIDE DEF next
    <3>4. clerk' \in [Clerks -> ClerkRequest]
      BY <2>0, <3>2, <3>3, ClerkMoves DEF CourseTypeOK, ClerkRequest, OfferingRequest
    <3> QED BY <2>8, <3>4 DEF ValidateDuration, history, CourseTypeOK
  <2>9. ASSUME NEW c \in Clerks, ResolveName(c)
        PROVE  CourseTypeOK'
    <3> PICK names : names = StoredNames
      OBVIOUS
    <3>1. clerk[c] \in FormRequest({"duration", "name"}, NameInputs) /\ FormIsWhole(clerk[c])
      BY <2>9, ClerkKinds DEF ResolveName, ClerkAt
    <3>2. ASSUME NEW i \in RowIds, NEW label \in Labels
          PROVE  [clerk[c] EXCEPT !.pc = "pair",
                                  !.name = [by |-> "stored", of |-> i, label |-> label]] \in ClerkRequest
      <4> DEFINE next == [clerk[c] EXCEPT !.pc = "pair",
                                          !.name = [by |-> "stored", of |-> i, label |-> label]]
      <4>1. [by |-> "stored", of |-> i, label |-> label] \in names
        BY DEF StoredNames
      <4>2. next \in FormRequest({"pair", "offering"}, names) /\ FormIsWhole(next)
        BY <3>1, <4>1 DEF FormRequest, FormIsWhole
      <4> QED BY <4>2 DEF ClerkRequest, OfferingRequest
    <3>3. ASSUME clerk[c].name.by = "keep"
          PROVE  [clerk[c] EXCEPT !.pc = "pair"] \in ClerkRequest
      <4> DEFINE next == [clerk[c] EXCEPT !.pc = "pair"]
      <4>1. clerk[c].name \in names
        BY <3>1, <3>3 DEF FormRequest, NameInputs, StoredNames
      <4>2. next \in FormRequest({"pair", "offering"}, names) /\ FormIsWhole(next)
        BY <3>1, <4>1 DEF FormRequest, FormIsWhole
      <4> QED BY <4>2 DEF ClerkRequest, OfferingRequest
    <3> DEFINE Found(i, label) ==
                 ClerkTo(c, [clerk[c] EXCEPT !.pc = "pair",
                                             !.name = [by |-> "stored", of |-> i, label |-> label]])
               added == [kind |-> "name", label |-> clerk[c].name.of, active |-> TRUE, locked |-> FALSE]
    <3>4. ASSUME NEW i \in RowIds, NEW label \in Labels, Found(i, label)
          PROVE  clerk' \in [Clerks -> ClerkRequest]
      BY <3>2, <3>4, ClerkMoves DEF CourseTypeOK
    <3>5. CASE clerk[c].name.by = "keep"
      <4>1. ClerkTo(c, [clerk[c] EXCEPT !.pc = "pair"]) /\ UNCHANGED <<rows, typed>>
        BY <2>9, <3>5 DEF ResolveName
      <4>2. clerk' \in [Clerks -> ClerkRequest]
        BY <3>3, <3>5, <4>1, ClerkMoves DEF CourseTypeOK
      <4> QED BY <2>9, <4>1, <4>2 DEF ResolveName, CourseTypeOK
    <3>6. CASE clerk[c].name.by = "row"
      <4>1. clerk[c].name.of \in RowIds
        BY <3>1, <3>6 DEF FormRequest, NameInputs
      <4>2. /\ UNCHANGED <<rows, typed>>
            /\ \/ ClerkTo(c, ClerkIdle)
               \/ /\ Usable(clerk[c].name.of, "name")
                  /\ Found(clerk[c].name.of, rows[clerk[c].name.of].label)
        BY <2>9, <3>6 DEF ResolveName
      <4>4. Usable(clerk[c].name.of, "name") => rows[clerk[c].name.of].label \in Labels
        BY <4>1 DEF Usable, RowsOf, CourseTypeOK, MasterRow
      <4> HIDE DEF Found
      <4>3. clerk' \in [Clerks -> ClerkRequest]
        BY <2>0, <3>4, <4>1, <4>2, <4>4, ClerkMoves DEF CourseTypeOK
      <4> QED BY <2>9, <4>2, <4>3 DEF ResolveName, CourseTypeOK
    <3>7. CASE clerk[c].name.by = "text"
      <4>1. clerk[c].name.of \in Labels
        BY <3>1, <3>7 DEF FormRequest, NameInputs
      <4>2. /\ typed' = typed \cup {clerk[c].name.of}
            /\ \E i \in RowIds : /\ Found(i, clerk[c].name.of)
                               /\ (UNCHANGED rows \/ rows' = [rows EXCEPT ![i] = added])
        BY <2>9, <3>7 DEF ResolveName, Labelled, RowsOf, Fresh, CourseTypeOK
      <4>3. added \in MasterRow
        BY <4>1 DEF MasterRow, CaseBlind
      <4> HIDE DEF Found, added
      <4>4. clerk' \in [Clerks -> ClerkRequest]
        BY <3>4, <4>1, <4>2
      <4>5. rows' \in [RowIds -> MasterRow \cup {Nothing}]
        BY <4>2, <4>3 DEF CourseTypeOK
      <4> QED BY <2>9, <4>1, <4>2, <4>4, <4>5 DEF ResolveName, CourseTypeOK
    <3> QED BY <2>9, <3>5, <3>6, <3>7 DEF ResolveName
  <2>10. ASSUME NEW c \in Clerks, CheckPair(c)
        PROVE  CourseTypeOK'
    <3> DEFINE next == [clerk[c] EXCEPT !.pc = "offering"]
    <3>1. clerk[c] \in FormRequest({"pair", "offering"}, StoredNames) /\ FormIsWhole(clerk[c])
      BY <2>10, ClerkKinds DEF CheckPair, history, ClerkAt
    <3>2. next \in FormRequest({"pair", "offering"}, StoredNames) /\ FormIsWhole(next)
      BY <3>1 DEF FormRequest, FormIsWhole
    <3>3. ClerkTo(c, ClerkIdle) \/ ClerkTo(c, next)
      BY <2>10 DEF CheckPair, history
    <3> HIDE DEF next
    <3>4. next \in OfferingRequest
      BY <3>2 DEF OfferingRequest
    <3>5. next \in ClerkRequest
      BY <3>2, <3>4 DEF ClerkRequest
    <3>6. clerk' \in [Clerks -> ClerkRequest]
      BY <2>0, <3>3, <3>5, ClerkMoves DEF CourseTypeOK
    <3> QED BY <2>10, <3>6 DEF CheckPair, history, CourseTypeOK
  <2>11. ASSUME NEW c \in Clerks, WriteOffering(c)
        PROVE  CourseTypeOK'
    <3>1. clerk' \in [Clerks -> ClerkRequest]
      BY <2>0, <2>11, ClerkMoves DEF WriteOffering, history, CourseTypeOK
    <3>2. PICK row, o : \/ UNCHANGED offerings
                        \/ row \in Offering /\ offerings' = [offerings EXCEPT ![o] = row]
      BY <2>11, OfferingWritten
    <3>3. offerings' \in [OfferingIds -> Offering \cup {Nothing}]
      BY <3>2 DEF CourseTypeOK
    <3> QED BY <2>11, <3>1, <3>3 DEF WriteOffering, history, CourseTypeOK
  <2>12. ASSUME NEW i \in RowIds, SetRowStatus(i)
        PROVE  CourseTypeOK'
    <3>1. rows[i] \in MasterRow
      BY <2>12 DEF SetRowStatus, history, CourseTypeOK
    <3>2. [rows[i] EXCEPT !.active = ~@] \in MasterRow
      BY <3>1 DEF MasterRow
    <3> QED BY <2>12, <3>2 DEF SetRowStatus, history, CourseTypeOK
  <2>13. ASSUME NEW o \in OfferingIds, DeleteOffering(o)
        PROVE  CourseTypeOK'
    BY <2>13 DEF DeleteOffering, history, CourseTypeOK
  <2>14. CASE UNCHANGED courseVars
    BY <2>14 DEF courseVars, history, CourseTypeOK
  <2>15. ASSUME NEW c \in Clerks, BeginCourseSeed(c)
         PROVE  CourseTypeOK'
    <3> PICK first : first = SeedAt("plant", SeedDurations)
      OBVIOUS
    <3>1. first \in SeedLocals /\ SeedIsWhole(first)
      BY CourseAssumption DEF SeedAt, SeedLocals, SeedPCs, SeedIsWhole
    <3> QED BY <2>15, <3>1, ClerkBeginsType DEF BeginCourseSeed, ClerkRequest
  <2>16. ASSUME NEW c \in Clerks, PlantDuration(c)
         PROVE  CourseTypeOK'
    <3> PICK q : q = clerk[c]
      OBVIOUS
    <3>1. q \in SeedLocals /\ SeedIsWhole(q) /\ q.pc = "plant"
      BY <2>16, ClerkKinds DEF PlantDuration, ClerkAt, SeedPCs
    <3> PICK label \in q.left :
          /\ \/ \E i \in Labelled("duration", label) :
                  /\ rows' = [rows EXCEPT ![i].locked = <<"duration", label>> \in SeedDefaults]
                  /\ UNCHANGED planted
             \/ \E i \in Fresh(rows) : Plant(i, "duration", label)
          /\ ClerkTo(c, SeedPasses(q, label, "look", SeedDurations))
      BY <2>16 DEF PlantDuration
    <3>2. label \in Labels /\ "duration" \in CaseBlind
      BY <3>1 DEF SeedLocals, CaseBlind
    <3>3. clerk' \in [Clerks -> ClerkRequest]
      BY <3>1, SeedPassesType, ClerkMoves DEF CourseTypeOK
    <3>4. ASSUME NEW i \in Labelled("duration", label),
                 rows' = [rows EXCEPT ![i].locked = <<"duration", label>> \in SeedDefaults]
          PROVE  rows' \in [RowIds -> MasterRow \cup {Nothing}]
      <4>1. i \in RowIds /\ rows[i] \in MasterRow
        BY DEF Labelled, RowsOf, CourseTypeOK
      <4>2. (<<"duration", label>> \in SeedDefaults) \in BOOLEAN
        BY SMT
      <4>3. [rows[i] EXCEPT !.locked = <<"duration", label>> \in SeedDefaults] \in MasterRow
        BY <4>1, <4>2 DEF MasterRow
      <4> QED BY <3>4, <4>1, <4>3 DEF CourseTypeOK
    <3>5. \A i \in Fresh(rows) : i \in RowIds
      BY DEF Fresh, CourseTypeOK
    <3>6. /\ rows' \in [RowIds -> MasterRow \cup {Nothing}]
          /\ planted' \subseteq (Kinds \cup CaseBlind) \X Labels
      BY <3>2, <3>4, <3>5, PlantType DEF CourseTypeOK
    <3> QED BY <2>16, <3>3, <3>6 DEF PlantDuration, CourseTypeOK
  <2>17. ASSUME NEW c \in Clerks, LookUpDuration(c)
         PROVE  CourseTypeOK'
    <3> PICK q : q = clerk[c]
      OBVIOUS
    <3>1. q \in SeedLocals /\ SeedIsWhole(q) /\ q.pc = "look"
      BY <2>17, ClerkKinds DEF LookUpDuration, ClerkAt, SeedPCs
    <3> PICK label \in q.left :
          ClerkTo(c, SeedPasses([q EXCEPT !.ids[label] =
                                   IF Labelled("duration", label) = {} THEN Nothing
                                   ELSE CHOOSE i \in Labelled("duration", label) : TRUE],
                                label, "find", SeedCourses))
      BY <2>17 DEF LookUpDuration
    <3> PICK found : found = IF Labelled("duration", label) = {} THEN Nothing
                             ELSE CHOOSE i \in Labelled("duration", label) : TRUE
      OBVIOUS
    <3> PICK next : next = [q EXCEPT !.ids[label] = found]
      OBVIOUS
    <3>2. found \in RowIds \cup {Nothing}
      BY DEF Labelled, RowsOf
    <3>3. next \in SeedLocals /\ SeedIsWhole(next) /\ next.pc = "look"
      BY <3>1, <3>2 DEF SeedLocals, SeedIsWhole
    <3>4. ClerkTo(c, SeedPasses(next, label, "find", SeedCourses))
      OBVIOUS
    <3>5. clerk' \in [Clerks -> ClerkRequest]
      BY <3>3, <3>4, SeedPassesType, ClerkMoves DEF CourseTypeOK
    <3> QED BY <2>17, <3>5 DEF LookUpDuration, history, CourseTypeOK
  <2>18. ASSUME NEW c \in Clerks, FindCourse(c)
         PROVE  CourseTypeOK'
    <3> PICK q : q = clerk[c]
      OBVIOUS
    <3>1. q \in SeedLocals /\ SeedIsWhole(q) /\ q.pc = "find"
      BY <2>18, ClerkKinds DEF FindCourse, ClerkAt, SeedPCs
    <3> PICK course \in q.left, o \in OfferingIds \cup {Nothing} :
          ClerkTo(c, [q EXCEPT !.pc = IF o = Nothing THEN "stock" ELSE "renew",
                               !.left = q.left \ {course}, !.course = course, !.found = o])
      BY <2>18 DEF FindCourse
    <3> PICK next : next = [q EXCEPT !.pc = IF o = Nothing THEN "stock" ELSE "renew",
                                     !.left = q.left \ {course}, !.course = course, !.found = o]
      OBVIOUS
    <3>2. course \in SeedCourses /\ course \in Labels
      BY <3>1, CourseAssumption DEF SeedIsWhole
    <3>3. next \in SeedLocals /\ SeedIsWhole(next)
      BY <3>1, <3>2 DEF SeedLocals, SeedIsWhole, SeedPCs
    <3>4. clerk' \in [Clerks -> ClerkRequest]
      BY <3>3, ClerkMoves DEF CourseTypeOK, ClerkRequest
    <3> QED BY <2>18, <3>4 DEF FindCourse, history, CourseTypeOK
  <2>19. ASSUME NEW c \in Clerks, StockName(c)
         PROVE  CourseTypeOK'
    <3> PICK q : q = clerk[c]
      OBVIOUS
    <3>1. q \in SeedLocals /\ SeedIsWhole(q) /\ q.pc = "stock"
      BY <2>19, ClerkKinds DEF StockName, ClerkAt, SeedPCs
    <3>2. q.course \in Labels /\ "name" \in CaseBlind
      BY <3>1, CourseAssumption DEF SeedIsWhole, CaseBlind
    <3> PICK i \in RowIds :
          /\ ClerkTo(c, [q EXCEPT !.pc = "make", !.row = i])
          /\ UNCHANGED <<rows, planted>> \/ Plant(i, "name", q.course)
      BY <2>19 DEF StockName, Labelled, RowsOf, Fresh, CourseTypeOK
    <3> PICK next : next = [q EXCEPT !.pc = "make", !.row = i]
      OBVIOUS
    <3>3. next \in SeedLocals /\ SeedIsWhole(next)
      BY <3>1 DEF SeedLocals, SeedIsWhole, SeedPCs
    <3>4. clerk' \in [Clerks -> ClerkRequest]
      BY <3>3, ClerkMoves DEF CourseTypeOK, ClerkRequest
    <3>5. /\ rows' \in [RowIds -> MasterRow \cup {Nothing}]
          /\ planted' \subseteq (Kinds \cup CaseBlind) \X Labels
      BY <3>2, PlantType DEF CourseTypeOK
    <3> QED BY <2>19, <3>4, <3>5 DEF StockName, CourseTypeOK
  <2>20. ASSUME NEW c \in Clerks, RenewCourse(c) \/ MakeCourse(c)
         PROVE  CourseTypeOK'
    <3>1. clerk[c].pc \in {"renew", "make"} /\ (NextCourse(c) \/ ClerkTo(c, ClerkIdle))
      BY <2>20 DEF RenewCourse, MakeCourse, ClerkAt
    <3>2. clerk' \in [Clerks -> ClerkRequest]
      BY <3>1, NextCourseType
    <3>3. offerings' \in [OfferingIds -> Offering \cup {Nothing}]
      BY <2>20, CourseWritten DEF CourseTypeOK
    <3>4. UNCHANGED <<rows, served, history>>
      BY <2>20 DEF RenewCourse, MakeCourse
    <3> QED BY <3>2, <3>3, <3>4 DEF history, CourseTypeOK
  <2> QED BY <2>1, <2>2, <2>3, <2>4, <2>5, <2>6, <2>7, <2>8, <2>9, <2>10, <2>11, <2>12, <2>13, <2>14,
             <2>15, <2>16, <2>17, <2>18, <2>19, <2>20
          DEF CourseNext
<1> QED BY <1>1, <1>2, PTL DEF CourseSpec

-----------------------------------------------------------------------------
(* Twins *)

\* Rows may go, but keep their kind and label; offerings may go.
TablesShrink ==
  /\ \A i \in RowIds :
       \/ rows'[i] = Nothing
       \/ rows[i] # Nothing /\ rows'[i].kind = rows[i].kind /\ rows'[i].label = rows[i].label
  /\ \A o \in OfferingIds : offerings'[o] \in {offerings[o], Nothing}
  /\ typed \subseteq typed' /\ planted \subseteq planted'

\* No row goes.
MasterRowsStay == \A i \in RowIds : rows'[i] = Nothing => rows[i] = Nothing

LEMMA OfferingsKept ==
  ASSUME OfferingsApart, \A o \in OfferingIds : offerings'[o] \in {offerings[o], Nothing},
         crossed => crossed'
  PROVE  OfferingsApart'
<1>1. ASSUME NEW o \in OfferingIds, NEW p \in OfferingIds, o # p,
             offerings'[o] # Nothing, offerings'[p] # Nothing,
             offerings'[o].name = offerings'[p].name, offerings'[o].duration = offerings'[p].duration
      PROVE  offerings'[o].duration = Nothing /\ crossed'
  BY <1>1 DEF OfferingsApart, Twins
<1> QED BY <1>1 DEF OfferingsApart, Twins

LEMMA TwinsKept ==
  ASSUME TwinsNeedRace, TablesShrink, crossed => crossed'
  PROVE  TwinsNeedRace'
<1>1. OfferingsApart'
  BY OfferingsKept DEF TwinsNeedRace, TablesShrink
<1>2. ASSUME NEW k \in CaseBlind, NEW i \in RowsOf(k)', NEW j \in RowsOf(k)', i # j,
             NEW label, label = rows'[i].label, LowerCase[label] = LowerCase[rows'[j].label]
      PROVE  crossed' \/ Respelled(k, label)'
  <2>1. /\ i \in RowsOf(k) /\ j \in RowsOf(k)
        /\ rows'[i].label = rows[i].label /\ rows'[j].label = rows[j].label
    BY DEF RowsOf, TablesShrink
  <2>2. crossed \/ Respelled(k, rows[i].label)
    BY <1>2, <2>1 DEF TwinsNeedRace, LabelsApart
  <2> QED BY <1>2, <2>1, <2>2 DEF Respelled, TablesShrink
<1>3. \A k \in CaseBlind : \A i, j \in RowsOf(k)' : \A label :
        i # j /\ label = rows'[i].label /\ LowerCase[label] = LowerCase[rows'[j].label] =>
          crossed' \/ Respelled(k, label)'
  BY <1>2
<1>4. LabelsApart'
  BY <1>3 DEF LabelsApart, Respelled
<1> QED BY <1>1, <1>4 DEF TwinsNeedRace

\* One row is new or has a new label: the others of its kind whose labels differ
\* from it in their case are the only twins there can be.
LEMMA RowWritten ==
  ASSUME LabelsApart, NEW h \in RowIds, NEW k, NEW label,
         rows'[h] # Nothing => rows'[h].kind = k /\ rows'[h].label = label,
         \A g \in RowIds : g # h => rows'[g] = rows[g],
         crossed => crossed', typed \subseteq typed', planted \subseteq planted',
         k \in CaseBlind =>
           \A g \in RowsOf(k) \ {h} :
             LowerCase[rows[g].label] = LowerCase[label] => crossed' \/ Respelled(k, label)'
  PROVE  LabelsApart'
<1>1. ASSUME NEW kind \in CaseBlind, NEW i \in RowsOf(kind)', NEW j \in RowsOf(kind)', i # j,
             NEW l, l = rows'[i].label, LowerCase[l] = LowerCase[rows'[j].label]
      PROVE  crossed' \/ Respelled(kind, l)'
  <2>1. i \in RowIds /\ j \in RowIds /\ rows'[i].kind = kind /\ rows'[j].kind = kind
        /\ rows'[i] # Nothing /\ rows'[j] # Nothing
    BY DEF RowsOf
  <2>2. CASE i # h /\ j # h
    <3>1. i \in RowsOf(kind) /\ j \in RowsOf(kind) /\ rows'[i] = rows[i] /\ rows'[j] = rows[j]
      BY <2>1, <2>2 DEF RowsOf
    <3>2. crossed \/ Respelled(kind, l)
      BY <1>1, <3>1 DEF LabelsApart
    <3> QED BY <3>2 DEF Respelled
  <2>3. CASE i = h
    <3>1. j \in RowsOf(k) \ {h} /\ rows'[j] = rows[j] /\ kind = k /\ l = label
      BY <1>1, <2>1, <2>3 DEF RowsOf
    <3> QED BY <1>1, <3>1
  <2>4. CASE j = h
    <3>1. i \in RowsOf(k) \ {h} /\ rows'[i] = rows[i] /\ kind = k /\ LowerCase[l] = LowerCase[label]
      BY <1>1, <2>1, <2>4 DEF RowsOf
    <3>2. crossed' \/ Respelled(k, label)'
      BY <1>1, <3>1
    <3> QED BY <3>1, <3>2 DEF Respelled
  <2> QED BY <2>2, <2>3, <2>4
<1> QED BY <1>1 DEF LabelsApart, Respelled

\* One offering is new or has a new pair: the others with that pair are the only
\* twins there can be.
LEMMA OfferingChanged ==
  ASSUME CourseTypeOK, OfferingsApart, NEW h \in OfferingIds, NEW row \in Offering,
         offerings' = [offerings EXCEPT ![h] = row], UNCHANGED crossed,
         \A g \in OfferingIds \ {h} :
           offerings[g] # Nothing /\ Twins(offerings[g], row) => row.duration = Nothing /\ crossed
  PROVE  OfferingsApart'
<1>1. offerings'[h] = row /\ \A g \in OfferingIds : g # h => offerings'[g] = offerings[g]
  BY DEF CourseTypeOK
<1>2. ASSUME NEW o \in OfferingIds, NEW p \in OfferingIds, o # p,
             offerings'[o] # Nothing, offerings'[p] # Nothing,
             offerings'[o].name = offerings'[p].name, offerings'[o].duration = offerings'[p].duration
      PROVE  offerings'[o].duration = Nothing /\ crossed'
  <2>1. CASE o # h /\ p # h
    BY <1>1, <1>2, <2>1 DEF OfferingsApart, Twins
  <2>2. CASE o = h
    BY <1>1, <1>2, <2>2 DEF Twins
  <2>3. CASE p = h
    BY <1>1, <1>2, <2>3 DEF Twins
  <2> QED BY <2>1, <2>2, <2>3
<1> QED BY <1>2 DEF OfferingsApart, Twins

\* What a seed stores beside another spelling is recorded.
LEMMA PlantStep ==
  ASSUME CourseTypeOK, LabelsApart, NEW i \in Fresh(rows), NEW k \in CaseBlind, NEW label \in Labels,
         Plant(i, k, label), UNCHANGED <<crossed, typed>>
  PROVE  /\ LabelsApart' /\ planted \subseteq planted' /\ Labelled(k, label)' # {}
         /\ \A g \in RowIds : rows[g] # Nothing => rows'[g] = rows[g]
<1>1. i \in RowIds /\ rows[i] = Nothing
  BY DEF Fresh, CourseTypeOK
<1>2. PICK row : row = [kind |-> k, label |-> label, active |-> TRUE, locked |-> <<k, label>> \in SeedDefaults]
  OBVIOUS
<1>3. row.kind = k /\ row.label = label
  BY <1>2
<1>4. row \in MasterRow
  <2>1. (<<k, label>> \in SeedDefaults) \in BOOLEAN
    BY SMT
  <2> QED BY <1>2, <2>1 DEF MasterRow
<1>5. rows'[i] = row /\ \A g \in RowIds : g # i => rows'[g] = rows[g]
  BY <1>1, <1>2 DEF Plant, CourseTypeOK
<1>6. planted \subseteq planted'
  BY DEF Plant
<1>7. ASSUME NEW g \in RowsOf(k) \ {i}, LowerCase[rows[g].label] = LowerCase[label]
      PROVE  Respelled(k, label)'
  <2>1. <<k, label>> \in planted'
    BY <1>7 DEF Plant
  <2> QED BY <2>1 DEF Respelled
<1>8. LabelsApart'
  BY <1>1, <1>3, <1>5, <1>6, <1>7, RowWritten
<1>9. row # Nothing
  BY <1>4, CourseAssumption DEF MasterRow, CaseBlind
<1> QED BY <1>1, <1>3, <1>5, <1>6, <1>8, <1>9 DEF Labelled, RowsOf

LEMMA InformedKept ==
  ASSUME NEW q \in ClerkRequest, Informed(q), TablesShrink, MasterRowsStay
  PROVE  Informed(q)'
<1>1. q.pc \in {"label", "row"} /\ q.id # Nothing => q.id \in RowIds
  BY DEF ClerkRequest, ClerkIdle, RowRequest, DeleteRequest, OfferingRequest, FormRequest, SeedLocals, SeedPCs
<1>2. q.pc \in OfferingPCs /\ q.id # Nothing => q.id \in OfferingIds
  BY DEF ClerkRequest, ClerkIdle, RowRequest, DeleteRequest, OfferingRequest, FormRequest, OfferingPCs,
         SeedLocals, SeedPCs
<1>3. q.pc \in {"label", "row"} /\ q.id # Nothing => rows'[q.id] = Nothing \/ rows'[q.id].kind = q.kind
  BY <1>1 DEF Informed, TablesShrink
<1>4. ASSUME q.pc = "row", q.kind \in CaseBlind, NEW j \in RowsOf(q.kind)' \ {q.id},
             LowerCase[rows'[j].label] = LowerCase[q.label]
      PROVE  Respelled(q.kind, q.label)'
  <2>1. j \in RowsOf(q.kind) \ {q.id} /\ rows'[j].label = rows[j].label
    BY DEF RowsOf, TablesShrink
  <2> QED BY <1>4, <2>1 DEF Informed, Respelled, TablesShrink
<1>5. q.pc \in OfferingPCs /\ q.id # Nothing => offerings'[q.id] \in {q.existing, Nothing}
  BY <1>2 DEF Informed, TablesShrink
<1>6. q.pc = "offering" =>
        \A p \in OfferingIds \ {q.id} : offerings'[p] = Nothing \/ ~Twins(offerings'[p], Pair(q, q.existing))
  BY DEF Informed, TablesShrink
<1>7. \A l \in SeedDurations : Labelled("duration", l) # {} => Labelled("duration", l)' # {}
  BY DEF Labelled, RowsOf, TablesShrink, MasterRowsStay
<1>8. q.pc \in SeedPCs => SeedKnows(q)'
  BY <1>7 DEF Informed, SeedKnows
<1> QED BY <1>3, <1>4, <1>5, <1>6, <1>8 DEF Informed, Twins, Pair

LEMMA ClerkEnds ==
  ASSUME CourseTypeOK, ClerksInv, NEW c \in Clerks, ~ClerkAt(c, "idle"), ClerkTo(c, ClerkIdle),
         UNCHANGED crossed
  PROVE  ClerksInv'
<1>1. SUFFICES ASSUME ~crossed
               PROVE  ClerksInv'
  BY DEF ClerksInv, OneAtATime
<1>2. \A b \in Clerks : clerk'[b].pc = "idle"
  BY <1>1 DEF ClerksInv, OneAtATime, ClerkTo, ClerkAt, ClerkIdle, CourseTypeOK
<1> QED BY <1>2 DEF ClerksInv, OneAtATime, ClerkAt, Informed, OfferingPCs, SeedPCs

\* What a request knows it knows of the clerk that runs it.
LEMMA InformedOf ==
  ASSUME NEW b \in Clerks, NEW q, clerk'[b] = q, Informed(q)'
  PROVE  Informed(clerk[b])'
BY DEF Informed, SeedKnows, RowsOf, Labelled, Respelled, Twins, Pair

LEMMA ClerkGoesOn ==
  ASSUME CourseTypeOK, ClerksInv, NEW c \in Clerks, ~ClerkAt(c, "idle"), NEW next, ClerkTo(c, next),
         UNCHANGED crossed, ~crossed => Informed(next)'
  PROVE  ClerksInv'
<1>1. SUFFICES ASSUME ~crossed
               PROVE  ClerksInv'
  BY DEF ClerksInv, OneAtATime
<1>2. \A b \in Clerks : b # c => clerk'[b].pc = "idle"
  BY <1>1 DEF ClerksInv, OneAtATime, ClerkTo, ClerkAt, CourseTypeOK
<1>3. OneAtATime'
  BY <1>2 DEF OneAtATime, ClerkAt
<1>4. ASSUME NEW b \in Clerks
      PROVE  Informed(clerk[b])'
  <2>1. CASE b # c
    BY <1>2, <2>1 DEF Informed, OfferingPCs, SeedPCs
  <2>2. CASE b = c
    <3>1. clerk'[b] = next
      BY <2>2 DEF ClerkTo, CourseTypeOK
    <3> QED BY <1>1, <3>1, InformedOf
  <2> QED BY <2>1, <2>2
<1> QED BY <1>1, <1>3, <1>4 DEF ClerksInv

LEMMA ClerkBeginStep ==
  ASSUME CourseTypeOK, CourseInv, NEW c \in Clerks, NEW first \in ClerkRequest, ClerkBegins(c, first),
         ~crossed => Informed(first)
  PROVE  CourseInv'
<1>1. TablesShrink /\ MasterRowsStay
  BY DEF ClerkBegins, TablesShrink, MasterRowsStay, CourseTypeOK
<1>2. TwinsNeedRace'
  BY <1>1, TwinsKept DEF CourseInv, ClerkBegins
<1>3. ASSUME ~crossed'
      PROVE  OneAtATime' /\ \A b \in Clerks : Informed(clerk[b])'
  <2>1. ~crossed /\ \A b \in Clerks : b # c => clerk'[b].pc = "idle"
    BY <1>3 DEF ClerkBegins, ClerkTo, ClerkAt, CourseTypeOK
  <2>2. clerk'[c] = first /\ Informed(first)'
    BY <1>1, <2>1, InformedKept DEF ClerkBegins, ClerkTo, CourseTypeOK
  <2>3. ASSUME NEW b \in Clerks
        PROVE  Informed(clerk[b])'
    <3>1. CASE b # c
      BY <2>1, <3>1 DEF Informed, OfferingPCs, SeedPCs
    <3>2. CASE b = c
      BY <2>2, <3>2, InformedOf
    <3> QED BY <3>1, <3>2
  <2> QED BY <2>1, <2>3 DEF OneAtATime, ClerkAt
<1> QED BY <1>2, <1>3 DEF CourseInv, ClerksInv, OneAtATime

\* A rename that changes only the case meets no twin that the row has not met.
LEMMA RenameStep ==
  ASSUME CourseTypeOK, CourseInv, NEW c \in Clerks, NEW i \in RowIds, NEW label \in Labels,
         BeginRenameRow(c, i, label)
  PROVE  CourseInv'
<1> DEFINE first == [pc |-> IF rows[i].kind \in CaseBlind /\ LowerCase[label] # LowerCase[rows[i].label]
                            THEN "label" ELSE "row",
                     kind |-> rows[i].kind, id |-> i, label |-> label]
<1>1. rows[i] \in MasterRow /\ rows[i] # Nothing
  BY DEF BeginRenameRow, CourseTypeOK
<1>2. first \in ClerkRequest
  BY <1>1 DEF ClerkRequest, RowRequest, MasterRow
<1>3. ASSUME ~crossed
      PROVE  Informed(first)
  <2>1. ASSUME rows[i].kind \in CaseBlind, LowerCase[label] = LowerCase[rows[i].label],
               NEW j \in RowsOf(rows[i].kind) \ {i}, LowerCase[rows[j].label] = LowerCase[label]
        PROVE  Respelled(rows[i].kind, label)
    <3>1. i \in RowsOf(rows[i].kind)
      BY <1>1 DEF RowsOf
    <3>2. Respelled(rows[i].kind, rows[i].label)
      BY <1>3, <2>1, <3>1 DEF CourseInv, TwinsNeedRace, LabelsApart
    <3> QED BY <2>1, <3>2 DEF Respelled
  <2> QED BY <2>1 DEF Informed, OfferingPCs, SeedPCs
<1>4. ClerkBegins(c, first)
  BY DEF BeginRenameRow
<1> HIDE DEF first
<1> QED BY <1>2, <1>3, <1>4, ClerkBeginStep

LEMMA CreateRowStep ==
  ASSUME CourseTypeOK, CourseInv, NEW c \in Clerks, NEW k \in Kinds, NEW label \in Labels,
         BeginCreateRow(c, k, label)
  PROVE  CourseInv'
<1> DEFINE first == [pc |-> IF k \in CaseBlind THEN "label" ELSE "row",
                     kind |-> k, id |-> Nothing, label |-> label]
<1>1. first \in ClerkRequest
  BY DEF ClerkRequest, RowRequest
<1>2. Informed(first)
  BY DEF Informed, OfferingPCs, SeedPCs
<1>3. ClerkBegins(c, first)
  BY DEF BeginCreateRow
<1> HIDE DEF first
<1> QED BY <1>1, <1>2, <1>3, ClerkBeginStep

LEMMA DeleteRowBegins ==
  ASSUME CourseTypeOK, CourseInv, NEW c \in Clerks, NEW i \in RowIds, BeginDeleteRow(c, i)
  PROVE  CourseInv'
<1> DEFINE first == [pc |-> "delete", id |-> i]
<1>1. first \in ClerkRequest /\ Informed(first)
  BY DEF ClerkRequest, DeleteRequest, Informed, OfferingPCs, SeedPCs
<1>2. ClerkBegins(c, first)
  BY DEF BeginDeleteRow
<1> HIDE DEF first
<1> QED BY <1>1, <1>2, ClerkBeginStep

LEMMA OfferingBegins ==
  ASSUME CourseTypeOK, CourseInv, NEW c \in Clerks, NEW o \in OfferingIds \cup {Nothing},
         NEW name \in NameInputs, NEW d \in RowIds \cup {Nothing, "keep"}, BeginOffering(c, o, name, d)
  PROVE  CourseInv'
<1> DEFINE first == [pc |-> "duration", id |-> o, name |-> name, duration |-> d,
                     existing |-> IF o = Nothing THEN Nothing ELSE offerings[o]]
<1>1. o # Nothing => offerings[o] \in Offering
  BY DEF BeginOffering, CourseTypeOK
<1>2. first \in FormRequest({"duration", "name"}, NameInputs)
  BY <1>1 DEF FormRequest
<1>3. FormIsWhole(first)
  BY <1>1 DEF FormIsWhole, BeginOffering
<1>4. first \in ClerkRequest
  <2> HIDE DEF first
  <2> QED BY <1>2, <1>3 DEF ClerkRequest, OfferingRequest
<1>5. Informed(first)
  BY DEF Informed, OfferingPCs, SeedPCs
<1>6. ClerkBegins(c, first)
  BY DEF BeginOffering
<1> HIDE DEF first
<1> QED BY <1>4, <1>5, <1>6, ClerkBeginStep

\* A run of the seed has all its durations ahead.
LEMMA CourseSeedBegins ==
  ASSUME CourseTypeOK, CourseInv, NEW c \in Clerks, BeginCourseSeed(c)
  PROVE  CourseInv'
<1> PICK first : first = SeedAt("plant", SeedDurations)
  OBVIOUS
<1>1. first \in SeedLocals /\ SeedIsWhole(first)
  BY CourseAssumption DEF SeedAt, SeedLocals, SeedPCs, SeedIsWhole
<1>2. first.pc = "plant" /\ first.left = SeedDurations
  BY DEF SeedAt
<1>3. Informed(first)
  BY <1>2 DEF Informed, SeedKnows, OfferingPCs
<1>4. first \in ClerkRequest
  BY <1>1 DEF ClerkRequest
<1> QED BY <1>3, <1>4, ClerkBeginStep DEF BeginCourseSeed

LEMMA TablesSame ==
  ASSUME TwinsNeedRace, UNCHANGED <<rows, offerings, history>>
  PROVE  TwinsNeedRace'
BY DEF TwinsNeedRace, OfferingsApart, LabelsApart, Twins, RowsOf, Respelled, history

LEMMA CheckLabelStep ==
  ASSUME CourseTypeOK, CourseInv, NEW c \in Clerks, CheckLabel(c)
  PROVE  CourseInv'
<1>0. PICK next : next = [clerk[c] EXCEPT !.pc = "row"]
  OBVIOUS
<1>1. clerk[c] \in RowRequest
  BY ClerkKinds DEF CheckLabel, ClerkAt
<1>2. /\ next.pc = "row" /\ next.kind = clerk[c].kind /\ next.id = clerk[c].id
      /\ next.label = clerk[c].label
  BY <1>0, <1>1 DEF RowRequest
<1>3. UNCHANGED <<rows, offerings, history>> /\ ~ClerkAt(c, "idle") /\ clerk[c].pc = "label"
  BY DEF CheckLabel, ClerkAt
<1>4. CASE ClerkTo(c, ClerkIdle)
  BY <1>3, <1>4, ClerkEnds, TablesSame DEF CourseInv, history
<1>5. CASE ~ClerkTo(c, ClerkIdle)
  <2>1. /\ ClerkTo(c, next)
        /\ ~\E i \in RowsOf(clerk[c].kind) \ {clerk[c].id} :
              LowerCase[rows[i].label] = LowerCase[clerk[c].label]
    BY <1>0, <1>5 DEF CheckLabel
  <2>2. ASSUME ~crossed
        PROVE  Informed(next)'
    <3>1. Informed(clerk[c])
      BY <2>2 DEF CourseInv, ClerksInv
    <3> QED BY <1>2, <1>3, <2>1, <3>1 DEF Informed, RowsOf, OfferingPCs, SeedPCs
  <2>3. ClerksInv'
    BY <1>3, <2>1, <2>2, ClerkGoesOn DEF CourseInv, history
  <2> QED BY <1>3, <2>3, TablesSame DEF CourseInv
<1> QED BY <1>4, <1>5

\* The label is unique but for its case among its kind, or was respelled.
LEMMA WriteRowStep ==
  ASSUME CourseTypeOK, CourseInv, NEW c \in Clerks, WriteRow(c)
  PROVE  CourseInv'
<1> PICK q : q = clerk[c]
  OBVIOUS
<1>1. q \in RowRequest /\ q.pc = "row"
  BY ClerkKinds DEF WriteRow, ClerkAt
<1>2. q.id \in RowIds \cup {Nothing} /\ q.label \in Labels
  BY <1>1 DEF RowRequest
<1>3. ClerksInv'
  BY <1>1, ClerkEnds DEF WriteRow, history, CourseInv, ClerkAt
<1>4. UNCHANGED <<offerings, crossed, typed, planted>>
  BY DEF WriteRow, history
<1>5. OfferingsApart'
  BY <1>4 DEF CourseInv, TwinsNeedRace, OfferingsApart, Twins
<1>6. CASE UNCHANGED rows
  BY <1>3, <1>4, <1>6, TablesSame DEF CourseInv, history
<1>7. ASSUME NEW h \in RowIds, rows'[h].kind = q.kind, rows'[h].label = q.label,
             \A g \in RowIds : g # h => rows'[g] = rows[g], q.id \in {h, Nothing}
      PROVE  LabelsApart'
  <2>1. ASSUME q.kind \in CaseBlind, NEW g \in RowsOf(q.kind) \ {h},
               LowerCase[rows[g].label] = LowerCase[q.label], ~crossed
        PROVE  Respelled(q.kind, q.label)'
    <3>1. g \in RowsOf(q.kind) \ {q.id}
      BY <1>7, CourseAssumption DEF RowsOf
    <3>2. Informed(q)
      BY <2>1 DEF CourseInv, ClerksInv
    <3>3. Respelled(q.kind, q.label)
      BY <1>1, <2>1, <3>1, <3>2 DEF Informed
    <3> QED BY <1>4, <3>3 DEF Respelled
  <2> QED BY <1>4, <1>7, <2>1, RowWritten DEF CourseInv, TwinsNeedRace
<1>8. CASE crossed
  <2>1. TwinsNeedRace'
    BY <1>4, <1>5, <1>8 DEF TwinsNeedRace, LabelsApart
  <2> QED BY <1>3, <2>1 DEF CourseInv
<1>9. CASE ~crossed /\ q.id # Nothing /\ rows[q.id] # Nothing /\ rows' = [rows EXCEPT ![q.id].label = q.label]
  <2>1. q.id \in RowIds /\ rows[q.id] \in MasterRow /\ rows[q.id].kind = q.kind
    BY <1>1, <1>2, <1>9 DEF CourseTypeOK, CourseInv, ClerksInv, Informed
  <2>2. rows'[q.id] = [rows[q.id] EXCEPT !.label = q.label] /\ \A g \in RowIds : g # q.id => rows'[g] = rows[g]
    BY <1>9, <2>1 DEF CourseTypeOK
  <2>3. rows'[q.id].kind = q.kind /\ rows'[q.id].label = q.label
    BY <2>1, <2>2 DEF MasterRow
  <2>4. LabelsApart'
    BY <1>7, <2>1, <2>2, <2>3
  <2> QED BY <1>3, <1>5, <2>4 DEF CourseInv, TwinsNeedRace
<1>10. ASSUME q.id = Nothing, NEW h \in Fresh(rows),
              rows' = [rows EXCEPT ![h] = [kind |-> q.kind, label |-> q.label,
                                           active |-> TRUE, locked |-> FALSE]]
       PROVE  CourseInv'
  <2>1. h \in RowIds
    BY DEF Fresh, CourseTypeOK
  <2>2. /\ rows'[h].kind = q.kind /\ rows'[h].label = q.label
        /\ \A g \in RowIds : g # h => rows'[g] = rows[g]
    BY <1>10, <2>1 DEF CourseTypeOK
  <2>3. LabelsApart'
    BY <1>7, <1>10, <2>1, <2>2
  <2> QED BY <1>3, <1>5, <2>3 DEF CourseInv, TwinsNeedRace
<1> QED BY <1>6, <1>8, <1>9, <1>10 DEF WriteRow

LEMMA DeleteRowStep ==
  ASSUME CourseTypeOK, CourseInv, NEW c \in Clerks, DeleteRow(c)
  PROVE  CourseInv'
<1>1. ClerksInv'
  BY ClerkEnds DEF DeleteRow, history, CourseInv, ClerkAt
<1>2. TablesShrink
  BY DEF DeleteRow, history, TablesShrink, CourseTypeOK
<1> QED BY <1>1, <1>2, TwinsKept DEF DeleteRow, history, CourseInv

LEMMA ValidateDurationStep ==
  ASSUME CourseTypeOK, CourseInv, NEW c \in Clerks, ValidateDuration(c)
  PROVE  CourseInv'
<1>0. PICK next : next = [clerk[c] EXCEPT !.pc = "name"]
  OBVIOUS
<1>1. clerk[c] \in FormRequest({"duration", "name"}, NameInputs) /\ clerk[c].pc = "duration"
  BY ClerkKinds DEF ValidateDuration, ClerkAt
<1>2. next.pc = "name" /\ next.id = clerk[c].id /\ next.existing = clerk[c].existing
  BY <1>0, <1>1 DEF FormRequest
<1>3. UNCHANGED <<rows, offerings, history>> /\ ~ClerkAt(c, "idle")
  BY DEF ValidateDuration, ClerkAt
<1>4. ClerkTo(c, ClerkIdle) \/ ClerkTo(c, next)
  BY <1>0 DEF ValidateDuration
<1>5. ASSUME ~crossed
      PROVE  Informed(next)'
  <2>1. Informed(clerk[c])
    BY <1>5 DEF CourseInv, ClerksInv
  <2> QED BY <1>1, <1>2, <1>3, <2>1 DEF Informed, OfferingPCs, SeedPCs
<1>6. ClerksInv'
  BY <1>3, <1>4, <1>5, ClerkEnds, ClerkGoesOn DEF CourseInv, history
<1> QED BY <1>3, <1>6, TablesSame DEF CourseInv

LEMMA CheckPairStep ==
  ASSUME CourseTypeOK, CourseInv, NEW c \in Clerks, CheckPair(c)
  PROVE  CourseInv'
<1> DEFINE q == clerk[c]
<1>0. PICK next : next = [q EXCEPT !.pc = "offering"]
  OBVIOUS
<1>1. q \in FormRequest({"pair", "offering"}, StoredNames) /\ q.pc = "pair"
  BY ClerkKinds DEF CheckPair, ClerkAt
<1>2. /\ next.pc = "offering" /\ next.id = q.id /\ next.existing = q.existing
      /\ next.name = q.name /\ next.duration = q.duration
  BY <1>0, <1>1 DEF FormRequest
<1>3. UNCHANGED <<rows, offerings, history>> /\ ~ClerkAt(c, "idle")
  BY DEF CheckPair, ClerkAt
<1>4. ClerkTo(c, ClerkIdle) \/ (ClerkTo(c, next) /\ SameOffering(Pair(q, q.existing)) \subseteq {q.id})
  BY <1>0 DEF CheckPair
<1>5. Pair(next, next.existing) = Pair(q, q.existing)
  BY <1>2 DEF Pair
<1>6. ASSUME ~crossed
      PROVE  Informed(q)
  BY <1>6 DEF CourseInv, ClerksInv
<1>7. ASSUME ~crossed, SameOffering(Pair(q, q.existing)) \subseteq {q.id}
      PROVE  Informed(next)'
  <2>1. q.id # Nothing => offerings[q.id] \in {q.existing, Nothing}
    BY <1>1, <1>6, <1>7 DEF Informed, OfferingPCs
  <2>2. \A p \in OfferingIds \ {q.id} : offerings[p] = Nothing \/ ~Twins(offerings[p], Pair(next, next.existing))
    BY <1>5, <1>7 DEF SameOffering
  <2> QED BY <1>2, <1>3, <2>1, <2>2 DEF Informed, Twins, Pair, OfferingPCs, SeedPCs
<1>8. ClerksInv'
  BY <1>3, <1>4, <1>7, ClerkEnds, ClerkGoesOn DEF CourseInv, history
<1> QED BY <1>3, <1>8, TablesSame DEF CourseInv

\* Free text is stored with its case, whatever labels there are.
LEMMA ResolveNameStep ==
  ASSUME CourseTypeOK, CourseInv, NEW c \in Clerks, ResolveName(c)
  PROVE  CourseInv'
<1>0. PICK q : q = clerk[c]
  OBVIOUS
<1>1. q \in FormRequest({"duration", "name"}, NameInputs) /\ q.pc = "name"
  BY <1>0, ClerkKinds DEF ResolveName, ClerkAt
<1>2. UNCHANGED <<offerings, crossed, planted>> /\ ~ClerkAt(c, "idle")
  BY DEF ResolveName, ClerkAt
<1>3. ASSUME NEW next, next.pc = "pair", next.id = q.id, next.existing = q.existing, ClerkTo(c, next)
      PROVE  ClerksInv'
  <2>1. ASSUME ~crossed
        PROVE  Informed(next)'
    <3>1. Informed(q)
      BY <1>0, <2>1 DEF CourseInv, ClerksInv
    <3> QED BY <1>1, <1>2, <1>3, <3>1 DEF Informed, OfferingPCs, SeedPCs
  <2> QED BY <1>2, <1>3, <2>1, ClerkGoesOn DEF CourseInv
<1>4. ASSUME ClerkTo(c, ClerkIdle)
      PROVE  ClerksInv'
  BY <1>2, <1>4, ClerkEnds DEF CourseInv
<1>5. ASSUME ClerkTo(c, [q EXCEPT !.pc = "pair"])
      PROVE  ClerksInv'
  <2>1. PICK next : next = [q EXCEPT !.pc = "pair"]
    OBVIOUS
  <2>2. next.pc = "pair" /\ next.id = q.id /\ next.existing = q.existing
    BY <1>1, <2>1 DEF FormRequest
  <2> QED BY <1>3, <1>5, <2>1, <2>2
<1>6. ASSUME NEW i, NEW label,
             ClerkTo(c, [q EXCEPT !.pc = "pair", !.name = [by |-> "stored", of |-> i, label |-> label]])
      PROVE  ClerksInv'
  <2>1. PICK next : next = [q EXCEPT !.pc = "pair", !.name = [by |-> "stored", of |-> i, label |-> label]]
    OBVIOUS
  <2>2. next.pc = "pair" /\ next.id = q.id /\ next.existing = q.existing
    BY <1>1, <2>1 DEF FormRequest
  <2> QED BY <1>3, <1>6, <2>1, <2>2
<1>7. CASE UNCHANGED <<rows, typed>>
  <2>1. \/ ClerkTo(c, ClerkIdle) \/ ClerkTo(c, [q EXCEPT !.pc = "pair"])
        \/ \E i, label : ClerkTo(c, [q EXCEPT !.pc = "pair",
                                              !.name = [by |-> "stored", of |-> i, label |-> label]])
    BY <1>0 DEF ResolveName
  <2>2. ClerksInv'
    BY <1>4, <1>5, <1>6, <2>1
  <2> QED BY <1>2, <1>7, <2>2, TablesSame DEF CourseInv, history
<1>8. CASE q.name.by = "text"
  <2> DEFINE Found(i) ==
               ClerkTo(c, [q EXCEPT !.pc = "pair", !.name = [by |-> "stored", of |-> i, label |-> q.name.of]])
             added == [kind |-> "name", label |-> q.name.of, active |-> TRUE, locked |-> FALSE]
  <2>1. /\ typed' = typed \cup {q.name.of}
        /\ \E i \in RowIds : Found(i) /\ (UNCHANGED rows \/ rows' = [rows EXCEPT ![i] = added])
    BY <1>0, <1>8 DEF ResolveName, Labelled, RowsOf, Fresh, CourseTypeOK
  <2>2. PICK h \in RowIds : Found(h) /\ (UNCHANGED rows \/ rows' = [rows EXCEPT ![h] = added])
    BY <2>1
  <2>3. ClerksInv'
    BY <1>6, <2>2
  <2> HIDE DEF Found
  <2>4. CASE UNCHANGED rows
    <3>1. TablesShrink
      BY <1>2, <2>1, <2>4 DEF TablesShrink, CourseTypeOK
    <3> QED BY <1>2, <2>3, <3>1, TwinsKept DEF CourseInv
  <2>5. CASE rows' = [rows EXCEPT ![h] = added]
    <3>1. /\ rows'[h].kind = "name" /\ rows'[h].label = q.name.of
          /\ \A g \in RowIds : g # h => rows'[g] = rows[g]
      BY <2>5 DEF CourseTypeOK
    <3>2. Respelled("name", q.name.of)'
      BY <2>1 DEF Respelled
    <3>3. LabelsApart'
      BY <1>2, <2>1, <3>1, <3>2, RowWritten DEF CourseInv, TwinsNeedRace
    <3>4. OfferingsApart'
      BY <1>2 DEF CourseInv, TwinsNeedRace, OfferingsApart, Twins
    <3> QED BY <2>3, <3>3, <3>4 DEF CourseInv, TwinsNeedRace
  <2> QED BY <2>2, <2>4, <2>5
<1> QED BY <1>0, <1>7, <1>8 DEF ResolveName

LEMMA LabelsSame ==
  ASSUME LabelsApart, UNCHANGED <<rows, history>>
  PROVE  LabelsApart'
BY DEF LabelsApart, RowsOf, Respelled, history

\* A pair with a duration is refused by the index, one without is free unless
\* requests crossed.
LEMMA WriteOfferingStep ==
  ASSUME CourseTypeOK, CourseInv, NEW c \in Clerks, WriteOffering(c)
  PROVE  CourseInv'
<1>0. PICK q : q = clerk[c]
  OBVIOUS
<1>1. q.pc = "offering" /\ FormIsWhole(q)
  BY <1>0, ClerkKinds DEF WriteOffering, ClerkAt
<1>2. ClerksInv'
  BY ClerkEnds DEF WriteOffering, history, CourseInv, ClerkAt
<1>3. UNCHANGED <<rows, history>>
  BY DEF WriteOffering
<1>4. CASE UNCHANGED offerings
  BY <1>2, <1>3, <1>4, TablesSame DEF CourseInv
<1>5. ASSUME NEW h \in OfferingIds, NEW row \in Offering,
             offerings' = [offerings EXCEPT ![h] = row],
             row.duration # Nothing => SameOffering(row) \subseteq {q.id},
             \/ q.id = Nothing /\ row = Pair(q, Nothing)
             \/ q.id = h /\ offerings[h] # Nothing /\ row = Pair(q, offerings[h])
      PROVE  CourseInv'
  <2>1. ASSUME NEW g \in OfferingIds \ {h}, offerings[g] # Nothing, Twins(offerings[g], row)
        PROVE  row.duration = Nothing /\ crossed
    <3>1. g # q.id
      BY <1>5, CourseAssumption
    <3>2. row.duration = Nothing
      BY <1>5, <2>1, <3>1 DEF SameOffering
    <3>3. ASSUME ~crossed
          PROVE  FALSE
      <4>1. Informed(q)
        BY <1>0, <3>3 DEF CourseInv, ClerksInv
      <4>2. row = Pair(q, q.existing)
        <5>1. CASE q.id = Nothing
          BY <1>1, <1>5, <5>1, CourseAssumption DEF FormIsWhole
        <5>2. CASE q.id # Nothing
          <6>1. row = Pair(q, offerings[q.id]) /\ offerings[q.id] # Nothing
            BY <1>5, <5>2
          <6>2. offerings[q.id] = q.existing
            BY <1>1, <4>1, <5>2, <6>1 DEF Informed, OfferingPCs
          <6> QED BY <6>1, <6>2
        <5> QED BY <5>1, <5>2
      <4> QED BY <1>1, <2>1, <3>1, <4>1, <4>2 DEF Informed
    <3> QED BY <3>2, <3>3
  <2>2. OfferingsApart'
    BY <1>3, <1>5, <2>1, OfferingChanged DEF CourseInv, TwinsNeedRace, history
  <2> QED BY <1>2, <1>3, <2>2, LabelsSame DEF CourseInv, TwinsNeedRace
<1> QED BY <1>0, <1>4, <1>5, OfferingWritten

\* The seed stores a label that is not there, or finds it: no request that it has
\* not crossed takes it away again.
LEMMA PlantDurationStep ==
  ASSUME CourseTypeOK, CourseInv, NEW c \in Clerks, PlantDuration(c)
  PROVE  CourseInv'
<1> PICK q : q = clerk[c]
  OBVIOUS
<1>1. /\ q \in SeedLocals /\ SeedIsWhole(q) /\ q.pc = "plant" /\ ~ClerkAt(c, "idle")
      /\ UNCHANGED <<offerings, crossed, typed>>
  BY ClerkKinds DEF PlantDuration, ClerkAt, SeedPCs
<1> PICK label \in q.left :
      /\ \/ \E i \in Labelled("duration", label) :
              /\ rows' = [rows EXCEPT ![i].locked = <<"duration", label>> \in SeedDefaults]
              /\ UNCHANGED planted
         \/ \E i \in Fresh(rows) : Plant(i, "duration", label)
      /\ ClerkTo(c, SeedPasses(q, label, "look", SeedDurations))
  BY DEF PlantDuration
<1>2. label \in Labels /\ label \in SeedDurations /\ "duration" \in CaseBlind
  BY <1>1 DEF SeedLocals, SeedIsWhole, CaseBlind
<1>3. ASSUME NEW i \in Labelled("duration", label), UNCHANGED planted,
             rows' = [rows EXCEPT ![i].locked = <<"duration", label>> \in SeedDefaults]
      PROVE  /\ TwinsNeedRace' /\ Labelled("duration", label)' # {}
             /\ \A l \in SeedDurations : Labelled("duration", l) # {} => Labelled("duration", l)' # {}
  <2>1. i \in RowIds /\ rows[i] \in MasterRow /\ rows[i] # Nothing
    BY DEF Labelled, RowsOf, CourseTypeOK
  <2> PICK row : row = [rows[i] EXCEPT !.locked = <<"duration", label>> \in SeedDefaults]
    OBVIOUS
  <2>2. row.kind = rows[i].kind /\ row.label = rows[i].label
    BY <2>1 DEF MasterRow
  <2>3. row \in MasterRow
    <3>1. (<<"duration", label>> \in SeedDefaults) \in BOOLEAN
      BY SMT
    <3> QED BY <2>1, <3>1 DEF MasterRow
  <2>4. row # Nothing
    BY <2>3, CourseAssumption DEF MasterRow, CaseBlind
  <2>5. rows'[i] = row /\ \A g \in RowIds : g # i => rows'[g] = rows[g]
    BY <1>3, <2>1 DEF CourseTypeOK
  <2>6. TablesShrink /\ MasterRowsStay
    BY <1>1, <1>3, <2>1, <2>2, <2>4, <2>5 DEF TablesShrink, MasterRowsStay
  <2>7. TwinsNeedRace'
    BY <1>1, <2>6, TwinsKept DEF CourseInv
  <2>8. \A l : Labelled("duration", l) # {} => Labelled("duration", l)' # {}
    BY <2>6 DEF TablesShrink, MasterRowsStay, Labelled, RowsOf
  <2> QED BY <2>7, <2>8
<1>4. ASSUME NEW i \in Fresh(rows), Plant(i, "duration", label)
      PROVE  /\ TwinsNeedRace' /\ Labelled("duration", label)' # {}
             /\ \A l \in SeedDurations : Labelled("duration", l) # {} => Labelled("duration", l)' # {}
  <2>1. /\ LabelsApart' /\ Labelled("duration", label)' # {}
        /\ \A g \in RowIds : rows[g] # Nothing => rows'[g] = rows[g]
    BY <1>1, <1>2, <1>4, PlantStep DEF CourseInv, TwinsNeedRace
  <2>2. OfferingsApart'
    BY <1>1 DEF CourseInv, TwinsNeedRace, OfferingsApart, Twins
  <2>3. \A l : Labelled("duration", l) # {} => Labelled("duration", l)' # {}
    BY <2>1 DEF Labelled, RowsOf
  <2> QED BY <2>1, <2>2, <2>3 DEF TwinsNeedRace
<1>5. /\ TwinsNeedRace' /\ Labelled("duration", label)' # {}
      /\ \A l \in SeedDurations : Labelled("duration", l) # {} => Labelled("duration", l)' # {}
  BY <1>3, <1>4
<1> PICK next : next = SeedPasses(q, label, "look", SeedDurations)
  OBVIOUS
<1>6. \/ next.pc = "look" /\ next.left = SeedDurations /\ q.left = {label}
      \/ next.pc = "plant" /\ next.left = q.left \ {label}
  BY <1>1 DEF SeedPasses, SeedLocals
<1>7. ASSUME ~crossed
      PROVE  Informed(next)'
  <2>1. \A l \in SeedDurations : l \in q.left \/ Labelled("duration", l) # {}
    BY <1>1, <1>7 DEF CourseInv, ClerksInv, Informed, SeedKnows, SeedPCs
  <2>2. \A l \in SeedDurations : l \in q.left \ {label} \/ Labelled("duration", l)' # {}
    BY <1>5, <2>1
  <2>3. SeedKnows(next)'
    BY <1>6, <2>2 DEF SeedKnows
  <2> QED BY <1>6, <2>3 DEF Informed, OfferingPCs
<1>8. ClerksInv'
  BY <1>1, <1>7, ClerkGoesOn DEF CourseInv
<1> QED BY <1>5, <1>8 DEF CourseInv

LEMMA LookUpDurationStep ==
  ASSUME CourseTypeOK, CourseInv, NEW c \in Clerks, LookUpDuration(c)
  PROVE  CourseInv'
<1> PICK q : q = clerk[c]
  OBVIOUS
<1>1. /\ q \in SeedLocals /\ SeedIsWhole(q) /\ q.pc = "look" /\ ~ClerkAt(c, "idle")
      /\ UNCHANGED <<rows, offerings, history>>
  BY ClerkKinds DEF LookUpDuration, ClerkAt, SeedPCs
<1> PICK label \in q.left :
      ClerkTo(c, SeedPasses([q EXCEPT !.ids[label] =
                               IF Labelled("duration", label) = {} THEN Nothing
                               ELSE CHOOSE i \in Labelled("duration", label) : TRUE],
                            label, "find", SeedCourses))
  BY DEF LookUpDuration
<1> PICK found : found = IF Labelled("duration", label) = {} THEN Nothing
                         ELSE CHOOSE i \in Labelled("duration", label) : TRUE
  OBVIOUS
<1> PICK looked : looked = [q EXCEPT !.ids[label] = found]
  OBVIOUS
<1> PICK next : next = SeedPasses(looked, label, "find", SeedCourses)
  OBVIOUS
<1>2. looked.ids = [q.ids EXCEPT ![label] = found] /\ looked.pc = "look" /\ looked.left = q.left
  BY <1>1 DEF SeedLocals
<1>3. looked \in SeedLocals
  <2>1. found \in RowIds \cup {Nothing}
    BY DEF Labelled, RowsOf
  <2> QED BY <1>1, <2>1 DEF SeedLocals
<1>4. /\ next.ids = looked.ids
      /\ \/ next.pc = "find" /\ q.left = {label}
         \/ next.pc = "look" /\ next.left = q.left \ {label}
  BY <1>2, <1>3 DEF SeedPasses, SeedLocals
<1>5. ASSUME ~crossed
      PROVE  Informed(next)'
  <2>1. /\ \A l \in SeedDurations : Labelled("duration", l) # {}
        /\ \A l \in SeedDurations : l \in q.left \/ q.ids[l] # Nothing
    BY <1>1, <1>5 DEF CourseInv, ClerksInv, Informed, SeedKnows, SeedPCs
  <2>2. label \in SeedDurations
    BY <1>1 DEF SeedIsWhole
  <2>3. found # Nothing
    BY <2>1, <2>2, CourseAssumption DEF Labelled, RowsOf
  <2>4. \A l \in SeedDurations : l \in q.left \ {label} \/ looked.ids[l] # Nothing
    BY <1>1, <1>2, <2>1, <2>3 DEF SeedLocals
  <2>5. \A l \in SeedDurations : Labelled("duration", l)' # {}
    BY <1>1, <2>1 DEF Labelled, RowsOf
  <2>6. SeedKnows(next)'
    BY <1>4, <2>4, <2>5 DEF SeedKnows
  <2> QED BY <1>4, <2>6 DEF Informed, OfferingPCs
<1>6. ClerksInv'
  BY <1>1, <1>5, ClerkGoesOn DEF CourseInv, history
<1> QED BY <1>1, <1>6, TablesSame DEF CourseInv

\* A run that goes on with its courses knows the durations it has found.
LEMMA CoursesGoOn ==
  ASSUME CourseTypeOK, CourseInv, NEW c \in Clerks, clerk[c].pc \in {"find", "renew", "stock", "make"},
         UNCHANGED crossed, NEW next, next.ids = clerk[c].ids, next.pc \in {"find", "renew", "stock", "make"},
         ClerkTo(c, next)
  PROVE  ClerksInv'
<1>1. ~ClerkAt(c, "idle")
  BY DEF ClerkAt
<1>2. ASSUME ~crossed
      PROVE  Informed(next)'
  <2>1. \A l \in SeedDurations : clerk[c].ids[l] # Nothing
    BY <1>2 DEF CourseInv, ClerksInv, Informed, SeedKnows, SeedPCs
  <2> QED BY <2>1 DEF Informed, SeedKnows, OfferingPCs
<1> QED BY <1>1, <1>2, ClerkGoesOn DEF CourseInv

LEMMA FindCourseStep ==
  ASSUME CourseTypeOK, CourseInv, NEW c \in Clerks, FindCourse(c)
  PROVE  CourseInv'
<1> PICK q : q = clerk[c]
  OBVIOUS
<1>1. q \in SeedLocals /\ q.pc = "find" /\ UNCHANGED <<rows, offerings, history>>
  BY ClerkKinds DEF FindCourse, ClerkAt, SeedPCs
<1> PICK course, o :
      ClerkTo(c, [q EXCEPT !.pc = IF o = Nothing THEN "stock" ELSE "renew",
                           !.left = q.left \ {course}, !.course = course, !.found = o])
  BY DEF FindCourse
<1> PICK next : next = [q EXCEPT !.pc = IF o = Nothing THEN "stock" ELSE "renew",
                                 !.left = q.left \ {course}, !.course = course, !.found = o]
  OBVIOUS
<1>2. next.ids = q.ids /\ next.pc \in {"renew", "stock"}
  BY <1>1 DEF SeedLocals
<1>3. ClerksInv'
  BY <1>1, <1>2, CoursesGoOn DEF history
<1> QED BY <1>1, <1>3, TablesSame DEF CourseInv

LEMMA StockNameStep ==
  ASSUME CourseTypeOK, CourseInv, NEW c \in Clerks, StockName(c)
  PROVE  CourseInv'
<1> PICK q : q = clerk[c]
  OBVIOUS
<1>1. q \in SeedLocals /\ SeedIsWhole(q) /\ q.pc = "stock" /\ UNCHANGED <<offerings, crossed, typed>>
  BY ClerkKinds DEF StockName, ClerkAt, SeedPCs
<1>2. q.course \in Labels /\ "name" \in CaseBlind
  BY <1>1, CourseAssumption DEF SeedIsWhole, CaseBlind
<1> PICK i :
      /\ ClerkTo(c, [q EXCEPT !.pc = "make", !.row = i])
      /\ UNCHANGED <<rows, planted>> \/ (i \in Fresh(rows) /\ Plant(i, "name", q.course))
  BY DEF StockName
<1> PICK next : next = [q EXCEPT !.pc = "make", !.row = i]
  OBVIOUS
<1>3. next.ids = q.ids /\ next.pc = "make"
  BY <1>1 DEF SeedLocals
<1>4. ClerksInv'
  BY <1>1, <1>3, CoursesGoOn
<1>5. CASE UNCHANGED <<rows, planted>>
  BY <1>1, <1>4, <1>5, TablesSame DEF CourseInv, history
<1>6. CASE i \in Fresh(rows) /\ Plant(i, "name", q.course)
  <2>1. LabelsApart'
    BY <1>1, <1>2, <1>6, PlantStep DEF CourseInv, TwinsNeedRace
  <2>2. OfferingsApart'
    BY <1>1 DEF CourseInv, TwinsNeedRace, OfferingsApart, Twins
  <2> QED BY <1>4, <2>1, <2>2 DEF CourseInv, TwinsNeedRace
<1> QED BY <1>5, <1>6

\* What a run stores of a course has a duration, unless it was crossed, and then
\* the index looks after it.
LEMMA CourseWrittenStep ==
  ASSUME CourseTypeOK, CourseInv, NEW c \in Clerks, RenewCourse(c) \/ MakeCourse(c)
  PROVE  CourseInv'
<1> PICK q : q = clerk[c]
  OBVIOUS
<1>1. q \in SeedLocals /\ q.pc \in {"renew", "make"} /\ UNCHANGED <<rows, history>>
  BY ClerkKinds DEF RenewCourse, MakeCourse, ClerkAt, SeedPCs
<1> PICK next : next = [q EXCEPT !.pc = "find", !.course = Nothing, !.row = Nothing, !.found = Nothing]
  OBVIOUS
<1>2. next.ids = q.ids /\ next.pc = "find"
  BY <1>1 DEF SeedLocals
<1>3. ClerkTo(c, next) \/ ClerkTo(c, ClerkIdle)
  BY DEF RenewCourse, MakeCourse, NextCourse
<1>4. ClerksInv'
  <2>1. CASE ClerkTo(c, next)
    BY <1>1, <1>2, <2>1, CoursesGoOn DEF history
  <2>2. CASE ClerkTo(c, ClerkIdle)
    BY <1>1, <2>2, ClerkEnds DEF CourseInv, ClerkAt, history
  <2> QED BY <1>3, <2>1, <2>2
<1>5. CASE UNCHANGED offerings
  BY <1>1, <1>4, <1>5, TablesSame DEF CourseInv
<1>6. ASSUME NEW o \in OfferingIds, NEW row \in Offering,
             offerings' = [offerings EXCEPT ![o] = row],
             row.duration = q.ids[SeedDuration[q.course]],
             SeedDuration[q.course] \in SeedDurations,
             row.duration # Nothing => SameOffering(row) \subseteq {o}
      PROVE  CourseInv'
  <2>1. ASSUME NEW g \in OfferingIds \ {o}, offerings[g] # Nothing, Twins(offerings[g], row)
        PROVE  row.duration = Nothing /\ crossed
    <3>1. row.duration = Nothing
      BY <1>6, <2>1 DEF SameOffering
    <3>2. ~crossed => q.ids[SeedDuration[q.course]] # Nothing
      BY <1>1, <1>6 DEF CourseInv, ClerksInv, Informed, SeedKnows, SeedPCs
    <3> QED BY <1>6, <3>1, <3>2
  <2>2. OfferingsApart'
    BY <1>1, <1>6, <2>1, OfferingChanged DEF CourseInv, TwinsNeedRace, history
  <2> QED BY <1>1, <1>4, <2>2, LabelsSame DEF CourseInv, TwinsNeedRace
<1> QED BY <1>5, <1>6, CourseWritten

LEMMA SharedRowStep ==
  ASSUME CourseTypeOK, CourseInv, TablesShrink, MasterRowsStay, UNCHANGED <<clerk, crossed>>
  PROVE  CourseInv'
<1>1. TwinsNeedRace'
  BY TwinsKept DEF CourseInv
<1>2. ASSUME NEW c \in Clerks, ~crossed
      PROVE  Informed(clerk[c])'
  <2>1. PICK q \in ClerkRequest : q = clerk[c]
    BY DEF CourseTypeOK
  <2>2. Informed(q)'
    BY <1>2, <2>1, InformedKept DEF CourseInv, ClerksInv
  <2>3. clerk'[c] = q
    BY <2>1
  <2> QED BY <2>2, <2>3, InformedOf
<1> QED BY <1>1, <1>2 DEF CourseInv, ClerksInv, OneAtATime, ClerkAt

\* While one request or one run of the seed is under way at a time, what it has
\* read is true of the tables.
THEOREM CourseInvariant == CourseSpec => []CourseInv
<1>1. CourseInit /\ CourseTypeOK => CourseInv
  <2> SUFFICES ASSUME CourseInit, CourseTypeOK
               PROVE  CourseInv
    OBVIOUS
  <2>1. \A c \in Clerks : clerk[c].pc = "idle"
    BY DEF CourseInit, ClerkIdle
  <2>2. ClerksInv
    BY <2>1 DEF ClerksInv, OneAtATime, ClerkAt, Informed, OfferingPCs, SeedPCs
  <2>3. /\ \A o \in OfferingIds : offerings[o] = Nothing
        /\ \A i \in RowIds : rows[i] = Nothing
    BY DEF CourseInit
  <2>4. TwinsNeedRace
    BY <2>3 DEF TwinsNeedRace, OfferingsApart, LabelsApart, RowsOf
  <2> QED BY <2>2, <2>4 DEF CourseInv
<1>2. CourseTypeOK /\ CourseInv /\ [CourseNext]_courseVars => CourseInv'
  <2> SUFFICES ASSUME CourseTypeOK, CourseInv, [CourseNext]_courseVars
               PROVE  CourseInv'
    OBVIOUS
  <2>1. ASSUME NEW i \in RowIds, SetRowStatus(i)
        PROVE  CourseInv'
    <3>1. rows[i] \in MasterRow /\ rows[i] # Nothing
      BY <2>1 DEF SetRowStatus, CourseTypeOK
    <3> DEFINE row == [rows[i] EXCEPT !.active = ~@]
    <3>2. row.kind = rows[i].kind /\ row.label = rows[i].label
      BY <3>1 DEF MasterRow
    <3>3. row \in MasterRow
      BY <3>1 DEF MasterRow
    <3>4. rows' = [rows EXCEPT ![i] = row]
      BY <2>1 DEF SetRowStatus
    <3> HIDE DEF row
    <3>5. row # Nothing
      BY <3>3, CourseAssumption DEF MasterRow, CaseBlind
    <3>6. TablesShrink /\ MasterRowsStay
      BY <2>1, <3>1, <3>2, <3>4, <3>5 DEF SetRowStatus, history, TablesShrink, MasterRowsStay, CourseTypeOK
    <3> QED BY <2>1, <3>6, SharedRowStep DEF SetRowStatus, history
  <2>2. ASSUME NEW o \in OfferingIds, DeleteOffering(o)
        PROVE  CourseInv'
    <3>1. TablesShrink /\ MasterRowsStay
      BY <2>2 DEF DeleteOffering, history, TablesShrink, MasterRowsStay, CourseTypeOK
    <3> QED BY <2>2, <3>1, SharedRowStep DEF DeleteOffering, history
  <2>3. CASE UNCHANGED courseVars
    <3>1. TablesShrink /\ MasterRowsStay
      BY <2>3 DEF courseVars, history, TablesShrink, MasterRowsStay, CourseTypeOK
    <3> QED BY <2>3, <3>1, SharedRowStep DEF courseVars, history
  <2> QED BY <2>1, <2>2, <2>3, CreateRowStep, RenameStep, DeleteRowBegins, OfferingBegins,
             CheckLabelStep, WriteRowStep, DeleteRowStep, ValidateDurationStep, ResolveNameStep,
             CheckPairStep, WriteOfferingStep, CourseSeedBegins, PlantDurationStep,
             LookUpDurationStep, FindCourseStep, StockNameStep, CourseWrittenStep
          DEF CourseNext
<1> QED BY <1>1, <1>2, CourseTypeCorrect, PTL DEF CourseSpec

\* For any number of clerks, runs of the seed, rows and spellings: two offerings
\* of one course, or two labels that differ in their case only, need requests
\* that crossed, free text in a course form, or a label that the seed stored
\* beside another spelling of it.
THEOREM TwinsNeedRaceHolds == CourseSpec => []TwinsNeedRace
<1>1. CourseInv => TwinsNeedRace
  BY DEF CourseInv
<1> QED BY <1>1, CourseInvariant, PTL

-----------------------------------------------------------------------------
(* The plan catalogue: an enrollment keeps its pricing *)

PlanStatus == {"none", "ACTIVE", "INACTIVE"}
Pricing == [code : PlanIds, status : {"ACTIVE", "INACTIVE"}]
OnePricing == {{p} : p \in Pricings}

PlanRequest ==
  {EditorIdle} \cup [pc : {"create"}, tier : Tiers, codes : [Slots -> PlanIds \cup {Unpriced}]]
    \cup [pc : {"upsert"}, of : OnePricing, code : PlanIds]
    \cup [pc : {"delete", "deactivate"}, of : OnePricing]
    \cup [pc : {"delete_plan"}, of : {PricingsOf(t) : t \in Tiers}]
    \cup [pc : {"select", "stamp"}, buyer : Buyers, of : OnePricing]

\* Every variable keeps its type, and what is about to be deactivated is there.
PlanTypeOK ==
  /\ plans \in [Tiers -> PlanStatus]
  /\ pricings \in [Pricings -> Pricing \cup {Unpriced}]
  /\ choice \in [Buyers -> Pricings \cup {Unpriced}]
  /\ discarded \subseteq Buyers /\ unseen \subseteq Buyers
  /\ editor \in [Editors -> PlanRequest]
  /\ edits \in Nat
  /\ \A c \in Editors : Editing(c, "deactivate") => editor[c].of \subseteq Stored

Deleting(c) == editor[c].pc \in {"delete", "delete_plan"}

\* Who has chosen a pricing that is about to be deleted is discarded, or chose
\* it after the count.
CountsStand ==
  \A c \in Editors, b \in Buyers :
    Deleting(c) /\ choice[b] # Unpriced /\ choice[b] \in editor[c].of => b \in discarded \cup unseen

PlanInv == PlanTypeOK /\ CountsStand

LEMMA PlanKinds ==
  ASSUME NEW q \in PlanRequest
  PROVE  /\ q.pc = "create" => q \in [pc : {"create"}, tier : Tiers, codes : [Slots -> PlanIds \cup {Unpriced}]]
         /\ q.pc = "upsert" => q \in [pc : {"upsert"}, of : OnePricing, code : PlanIds]
         /\ q.pc \in {"delete", "deactivate"} => q \in [pc : {"delete", "deactivate"}, of : OnePricing]
         /\ q.pc = "delete_plan" => q \in [pc : {"delete_plan"}, of : {PricingsOf(t) : t \in Tiers}]
         /\ q.pc \in {"select", "stamp"} => q \in [pc : {"select", "stamp"}, buyer : Buyers, of : OnePricing]
BY DEF PlanRequest, EditorIdle

LEMMA ThenType ==
  ASSUME PlanInv, NEW c \in Editors, NEW next \in PlanRequest, Then(c, next)
  PROVE  /\ editor' \in [Editors -> PlanRequest] /\ editor'[c] = next
         /\ \A d \in Editors : d # c => editor'[d] = editor[d]
BY DEF Then, PlanInv, PlanTypeOK

\* A request begins; a delete has counted.
LEMMA EditBeginsInv ==
  ASSUME PlanInv, NEW c \in Editors, NEW first \in PlanRequest, EditBegins(c, first),
         first.pc = "deactivate" => first.of \subseteq Stored,
         first.pc \in {"delete", "delete_plan"} => BuyersOf(first.of) = {}
  PROVE  PlanInv'
<1>1. /\ editor' \in [Editors -> PlanRequest] /\ editor'[c] = first
      /\ \A d \in Editors : d # c => editor'[d] = editor[d]
  BY ThenType DEF EditBegins
<1>2. UNCHANGED <<plans, pricings, choice, discarded, unseen>> /\ Stored' = Stored /\ edits' \in Nat
  BY DEF EditBegins, Stored, PlanInv, PlanTypeOK
<1>3. \A d \in Editors : Editing(d, "deactivate")' => editor'[d].of \subseteq Stored'
  BY <1>1, <1>2 DEF Editing, PlanInv, PlanTypeOK
<1>4. PlanTypeOK'
  BY <1>1, <1>2, <1>3 DEF PlanInv, PlanTypeOK
<1>5. ASSUME NEW d \in Editors, NEW b \in Buyers, Deleting(d)', choice[b] # Unpriced,
             choice[b] \in editor'[d].of
      PROVE  b \in discarded \cup unseen
  <2>1. CASE d = c
    BY <1>1, <1>5, <2>1 DEF Deleting, BuyersOf
  <2>2. CASE d # c
    BY <1>1, <1>5, <2>2 DEF Deleting, PlanInv, CountsStand
  <2> QED BY <2>1, <2>2
<1>6. CountsStand'
  BY <1>2, <1>5 DEF CountsStand
<1> QED BY <1>4, <1>6 DEF PlanInv

\* A request ends or goes on, and chooses nothing; no pricing goes.
LEMMA EditorStep ==
  ASSUME PlanInv, NEW c \in Editors, NEW next \in PlanRequest, Then(c, next),
         next.pc \in {"idle", "stamp"}, plans' \in [Tiers -> PlanStatus],
         pricings' \in [Pricings -> Pricing \cup {Unpriced}], Stored \subseteq Stored',
         UNCHANGED <<choice, discarded, edits, unseen>>
  PROVE  PlanInv'
<1>1. /\ editor' \in [Editors -> PlanRequest] /\ editor'[c] = next
      /\ \A d \in Editors : d # c => editor'[d] = editor[d]
  BY ThenType
<1>2. \A d \in Editors : Editing(d, "deactivate")' => editor'[d].of \subseteq Stored'
  BY <1>1 DEF Editing, PlanInv, PlanTypeOK
<1>3. PlanTypeOK'
  BY <1>1, <1>2 DEF PlanInv, PlanTypeOK
<1>4. CountsStand'
  BY <1>1 DEF CountsStand, Deleting, PlanInv
<1> QED BY <1>3, <1>4 DEF PlanInv

LEMMA IdlePlanRequest == EditorIdle \in PlanRequest /\ EditorIdle.pc = "idle"
BY DEF PlanRequest, EditorIdle

LEMMA CreatePlanInv ==
  ASSUME PlanInv, NEW c \in Editors, CreatePlan(c)
  PROVE  PlanInv'
<1> DEFINE q == editor[c]
           free == /\ plans[q.tier] = "none"
                   /\ \A p \in Stored, s \in Slots : pricings[p].code # q.codes[s]
<1>1. q \in [pc : {"create"}, tier : Tiers, codes : [Slots -> PlanIds \cup {Unpriced}]]
  BY PlanKinds DEF CreatePlan, Editing, PlanInv, PlanTypeOK
<1>2. /\ plans' = IF free THEN [plans EXCEPT ![q.tier] = "ACTIVE"] ELSE plans
      /\ pricings' = [p \in Pricings |->
           IF free /\ p[1] = q.tier /\ q.codes[p[2]] # Unpriced
           THEN [code |-> q.codes[p[2]], status |-> "ACTIVE"] ELSE pricings[p]]
      /\ Then(c, EditorIdle) /\ UNCHANGED <<choice, discarded, edits, unseen>>
  BY DEF CreatePlan
<1> HIDE DEF free
<1>3. plans' \in [Tiers -> PlanStatus]
  BY <1>1, <1>2 DEF PlanInv, PlanTypeOK, PlanStatus
<1> HIDE DEF q
<1>4. \A p \in Pricings : p[2] \in Slots
  BY DEF Pricings
<1>5. \A p \in Pricings : pricings'[p] \in Pricing \cup {Unpriced} /\ (pricings[p] # Unpriced => pricings'[p] # Unpriced)
  <2> TAKE p \in Pricings
  <2>1. CASE free /\ p[1] = q.tier /\ q.codes[p[2]] # Unpriced
    <3>1. [code |-> q.codes[p[2]], status |-> "ACTIVE"] \in Pricing
      BY <1>1, <1>4, <2>1 DEF Pricing
    <3>2. pricings'[p] \in Pricing
      BY <1>2, <2>1, <3>1
    <3> QED BY <3>2, PlanAssumption DEF Pricing
  <2>2. CASE ~(free /\ p[1] = q.tier /\ q.codes[p[2]] # Unpriced)
    BY <1>2, <2>2 DEF PlanInv, PlanTypeOK
  <2> QED BY <2>1, <2>2
<1>6. pricings' \in [Pricings -> Pricing \cup {Unpriced}]
  BY <1>2, <1>5
<1>7. Stored \subseteq Stored'
  BY <1>5 DEF Stored
<1> QED BY <1>2, <1>3, <1>6, <1>7, IdlePlanRequest, EditorStep

LEMMA UpsertPricingInv ==
  ASSUME PlanInv, NEW c \in Editors, UpsertPricing(c)
  PROVE  PlanInv'
<1> DEFINE q == editor[c]
           taken == \E other \in Stored \ q.of : pricings[other].code = q.code
<1>1. q \in [pc : {"upsert"}, of : OnePricing, code : PlanIds]
  BY PlanKinds DEF UpsertPricing, Editing, PlanInv, PlanTypeOK
<1>2. /\ pricings' = [p \in Pricings |->
           IF p \in q.of /\ ~taken THEN [code |-> q.code, status |-> "ACTIVE"] ELSE pricings[p]]
      /\ Then(c, EditorIdle) /\ UNCHANGED <<plans, choice, discarded, edits, unseen>>
  BY DEF UpsertPricing
<1>3. [code |-> q.code, status |-> "ACTIVE"] \in Pricing
  BY <1>1 DEF Pricing
<1> HIDE DEF taken, q
<1>4. \A p \in Pricings : pricings'[p] \in Pricing \cup {Unpriced} /\ (pricings[p] # Unpriced => pricings'[p] # Unpriced)
  BY <1>2, <1>3, PlanAssumption DEF PlanInv, PlanTypeOK, Pricing
<1>5. pricings' \in [Pricings -> Pricing \cup {Unpriced}]
  BY <1>2, <1>4
<1>6. Stored \subseteq Stored'
  BY <1>4 DEF Stored
<1> QED BY <1>2, <1>5, <1>6, IdlePlanRequest, EditorStep DEF PlanInv, PlanTypeOK

LEMMA DeactivatePricingInv ==
  ASSUME PlanInv, NEW c \in Editors, DeactivatePricing(c)
  PROVE  PlanInv'
<1>1. /\ pricings' = [p \in Pricings |->
           IF p \in editor[c].of THEN [pricings[p] EXCEPT !.status = "INACTIVE"] ELSE pricings[p]]
      /\ Then(c, EditorIdle) /\ UNCHANGED <<plans, choice, discarded, edits, unseen>>
  BY DEF DeactivatePricing
<1>2. editor[c].of \subseteq Stored
  BY DEF DeactivatePricing, PlanInv, PlanTypeOK
<1>3. \A p \in Pricings : pricings'[p] \in Pricing \cup {Unpriced} /\ (pricings[p] # Unpriced => pricings'[p] # Unpriced)
  <2> TAKE p \in Pricings
  <2>1. CASE p \in editor[c].of
    <3>1. pricings[p] \in Pricing
      BY <1>2, <2>1 DEF Stored, PlanInv, PlanTypeOK
    <3>2. [pricings[p] EXCEPT !.status = "INACTIVE"] \in Pricing
      BY <3>1 DEF Pricing
    <3>3. pricings'[p] \in Pricing
      BY <1>1, <2>1, <3>2
    <3> QED BY <3>3, PlanAssumption DEF Pricing
  <2>2. CASE p \notin editor[c].of
    BY <1>1, <2>2 DEF PlanInv, PlanTypeOK
  <2> QED BY <2>1, <2>2
<1>4. pricings' \in [Pricings -> Pricing \cup {Unpriced}]
  BY <1>1, <1>3
<1>5. Stored \subseteq Stored'
  BY <1>3 DEF Stored
<1> QED BY <1>1, <1>4, <1>5, IdlePlanRequest, EditorStep DEF PlanInv, PlanTypeOK

\* The rows that a delete takes away are pricings.
LEMMA DeletedRows ==
  ASSUME PlanInv, NEW c \in Editors, Deleting(c)
  PROVE  editor[c].of \subseteq Pricings
BY PlanKinds DEF Deleting, PlanInv, PlanTypeOK, OnePricing, PricingsOf, Pricings

LEMMA DeleteInv ==
  ASSUME PlanInv, NEW c \in Editors, Delete(c)
  PROVE  PlanInv'
<1> DEFINE doomed == editor[c].of
           whole == Editing(c, "delete_plan")
<1>1. /\ pricings' = [p \in Pricings |-> IF p \in doomed THEN Unpriced ELSE pricings[p]]
      /\ plans' = [t \in Tiers |-> IF whole /\ PricingsOf(t) = doomed THEN "none" ELSE plans[t]]
      /\ choice' = [b \in Buyers |-> IF choice[b] \in doomed THEN Unpriced ELSE choice[b]]
      /\ UNCHANGED <<discarded, edits, unseen>>
  BY DEF Delete
<1>2. /\ DOMAIN editor' = Editors /\ editor' = [d \in Editors |-> editor'[d]]
      /\ \A d \in Editors : /\ editor'[d] \in {EditorIdle, editor[d]}
                            /\ editor[d].pc = "deactivate" /\ editor'[d] # EditorIdle => ~(editor[d].of \subseteq doomed)
  BY DEF Delete
<1> HIDE DEF doomed, whole
<1>3. plans' \in [Tiers -> PlanStatus]
  BY <1>1 DEF PlanInv, PlanTypeOK, PlanStatus
<1>4. pricings' \in [Pricings -> Pricing \cup {Unpriced}] /\ choice' \in [Buyers -> Pricings \cup {Unpriced}]
  BY <1>1 DEF PlanInv, PlanTypeOK
<1>5. editor' \in [Editors -> PlanRequest]
  BY <1>2, IdlePlanRequest DEF PlanInv, PlanTypeOK
<1>6. ASSUME NEW d \in Editors, Editing(d, "deactivate")'
      PROVE  editor'[d].of \subseteq Stored'
  <2>1. editor'[d] = editor[d] /\ editor[d].pc = "deactivate" /\ ~(editor[d].of \subseteq doomed)
    BY <1>2, <1>6, IdlePlanRequest DEF Editing
  <2>2. editor[d].of \in OnePricing /\ editor[d].of \subseteq Stored
    BY <2>1, PlanKinds DEF Editing, PlanInv, PlanTypeOK
  <2>3. PICK p \in Pricings : editor[d].of = {p}
    BY <2>2 DEF OnePricing
  <2>4. p \in Stored /\ p \notin doomed
    BY <2>1, <2>2, <2>3
  <2>5. p \in Stored'
    BY <1>1, <2>4 DEF Stored
  <2> QED BY <2>1, <2>3, <2>5
<1>7. PlanTypeOK'
  BY <1>1, <1>3, <1>4, <1>5, <1>6 DEF PlanInv, PlanTypeOK
<1>8. CountsStand'
  <2> SUFFICES ASSUME NEW d \in Editors, NEW b \in Buyers, Deleting(d)',
                      choice'[b] # Unpriced, choice'[b] \in editor'[d].of
               PROVE  b \in (discarded \cup unseen)'
    BY DEF CountsStand
  <2>1. editor'[d] = editor[d] /\ choice'[b] = choice[b]
    BY <1>1, <1>2, IdlePlanRequest DEF Deleting
  <2> QED BY <1>1, <2>1 DEF Deleting, PlanInv, CountsStand
<1> QED BY <1>7, <1>8 DEF PlanInv

LEMMA StampInv ==
  ASSUME PlanInv, NEW c \in Editors, Stamp(c)
  PROVE  PlanInv' /\ \E p \in Pricings : choice' = [choice EXCEPT ![editor[c].buyer] = p]
<1> DEFINE buyer == editor[c].buyer
           Counted(p) == \E d \in Editors : Deleting(d) /\ p \in editor[d].of
<1>1. editor[c] \in [pc : {"select", "stamp"}, buyer : Buyers, of : OnePricing]
  BY PlanKinds DEF Stamp, Editing, PlanInv, PlanTypeOK
<1>2. buyer \in Buyers /\ editor[c].of \subseteq Pricings
  BY <1>1 DEF OnePricing
<1>3. PICK p \in editor[c].of :
        /\ choice' = [choice EXCEPT ![buyer] = p]
        /\ unseen' = IF Counted(p) THEN unseen \cup {buyer} ELSE unseen \ {buyer}
  BY DEF Stamp, Deleting
<1>4. UNCHANGED <<plans, pricings, discarded, edits>> /\ Then(c, EditorIdle)
  BY DEF Stamp
<1> HIDE DEF buyer, Counted
<1>5. p \in Pricings
  BY <1>2
<1>6. /\ editor' \in [Editors -> PlanRequest] /\ editor'[c] = EditorIdle
      /\ \A d \in Editors : d # c => editor'[d] = editor[d]
  BY <1>4, IdlePlanRequest, ThenType
<1>7. \A d \in Editors : Editing(d, "deactivate")' => editor'[d].of \subseteq Stored'
  BY <1>4, <1>6, IdlePlanRequest DEF Editing, Stored, PlanInv, PlanTypeOK
<1>8. choice' \in [Buyers -> Pricings \cup {Unpriced}] /\ unseen' \subseteq Buyers
  BY <1>2, <1>3, <1>5 DEF PlanInv, PlanTypeOK
<1>9. PlanTypeOK'
  BY <1>4, <1>6, <1>7, <1>8 DEF PlanInv, PlanTypeOK
<1>10. ASSUME NEW d \in Editors, NEW b \in Buyers, Deleting(d)', choice'[b] # Unpriced,
              choice'[b] \in editor'[d].of
       PROVE  b \in discarded \cup unseen'
  <2>1. d # c /\ editor'[d] = editor[d] /\ Deleting(d)
    BY <1>6, <1>10, IdlePlanRequest DEF Deleting
  <2>2. CASE b = buyer
    <3>1. choice'[b] = p
      BY <1>2, <1>3, <2>2 DEF PlanInv, PlanTypeOK
    <3>2. Counted(p)
      BY <1>10, <2>1, <3>1 DEF Counted
    <3> QED BY <1>3, <2>2, <3>2
  <2>3. CASE b # buyer
    <3>1. choice'[b] = choice[b]
      BY <1>3, <2>3 DEF PlanInv, PlanTypeOK
    <3>2. b \in discarded \cup unseen
      BY <1>10, <2>1, <3>1 DEF PlanInv, CountsStand
    <3> QED BY <1>3, <2>3, <3>2
  <2> QED BY <2>2, <2>3
<1>11. CountsStand'
  BY <1>4, <1>10 DEF CountsStand
<1> QED BY <1>3, <1>5, <1>9, <1>11 DEF PlanInv, buyer

LEMMA PlanNextInv ==
  ASSUME PlanInv, PlanNext
  PROVE  PlanInv'
<1>1. ASSUME NEW c \in Editors, NEW tier \in Tiers, NEW codes \in [Slots -> PlanIds \cup {Unpriced}],
             BeginCreatePlan(c, tier, codes)
      PROVE  PlanInv'
  <2> DEFINE first == [pc |-> "create", tier |-> tier, codes |-> codes]
  <2>1. first \in PlanRequest /\ first.pc = "create"
    BY DEF PlanRequest
  <2>2. EditBegins(c, first)
    BY <1>1 DEF BeginCreatePlan
  <2> HIDE DEF first
  <2> QED BY <2>1, <2>2, EditBeginsInv
<1>2. ASSUME NEW c \in Editors, NEW p \in Pricings, NEW code \in PlanIds, BeginUpsertPricing(c, p, code)
      PROVE  PlanInv'
  <2> DEFINE first == [pc |-> "upsert", of |-> {p}, code |-> code]
  <2>1. first \in PlanRequest /\ first.pc = "upsert"
    BY DEF PlanRequest, OnePricing
  <2>2. EditBegins(c, first)
    BY <1>2 DEF BeginUpsertPricing
  <2> HIDE DEF first
  <2> QED BY <2>1, <2>2, EditBeginsInv
<1>3. ASSUME NEW c \in Editors, NEW p \in Pricings, BeginRemovePricing(c, p)
      PROVE  PlanInv'
  <2> DEFINE first == [pc |-> IF BuyersOf({p}) = {} THEN "delete" ELSE "deactivate", of |-> {p}]
  <2>1. /\ first \in PlanRequest /\ first.of = {p} /\ first.pc \in {"delete", "deactivate"}
        /\ first.pc = "delete" => BuyersOf({p}) = {}
    BY DEF PlanRequest, OnePricing
  <2>2. EditBegins(c, first) /\ {p} \subseteq Stored
    BY <1>3 DEF BeginRemovePricing
  <2> HIDE DEF first
  <2> QED BY <2>1, <2>2, EditBeginsInv
<1>4. ASSUME NEW c \in Editors, NEW tier \in Tiers, BeginDeletePlan(c, tier)
      PROVE  PlanInv'
  <2> DEFINE first == [pc |-> "delete_plan", of |-> PricingsOf(tier)]
  <2>1. first \in PlanRequest /\ first.of = PricingsOf(tier) /\ first.pc = "delete_plan"
    BY DEF PlanRequest
  <2>2. EditBegins(c, first) /\ BuyersOf(PricingsOf(tier)) = {}
    BY <1>4 DEF BeginDeletePlan
  <2> HIDE DEF first
  <2> QED BY <2>1, <2>2, EditBeginsInv
<1>5. ASSUME NEW c \in Editors, NEW b \in Buyers, NEW p \in Pricings, BeginSelect(c, b, p)
      PROVE  PlanInv'
  <2> DEFINE first == [pc |-> "select", buyer |-> b, of |-> {p}]
  <2>1. first \in PlanRequest /\ first.pc = "select"
    BY DEF PlanRequest, OnePricing
  <2>2. EditBegins(c, first)
    BY <1>5 DEF BeginSelect
  <2> HIDE DEF first
  <2> QED BY <2>1, <2>2, EditBeginsInv
<1>6. ASSUME NEW c \in Editors,
             CreatePlan(c) \/ UpsertPricing(c) \/ DeactivatePricing(c) \/ Delete(c) \/ Stamp(c)
      PROVE  PlanInv'
  BY <1>6, CreatePlanInv, UpsertPricingInv, DeactivatePricingInv, DeleteInv, StampInv
<1>7. ASSUME NEW c \in Editors, ReadAgain(c)
      PROVE  PlanInv'
  <2> DEFINE again == [editor[c] EXCEPT !.pc = "stamp"]
  <2>1. editor[c] \in [pc : {"select", "stamp"}, buyer : Buyers, of : OnePricing]
    BY <1>7, PlanKinds DEF ReadAgain, Editing, PlanInv, PlanTypeOK
  <2>2. again \in PlanRequest /\ again.pc = "stamp"
    BY <2>1 DEF PlanRequest
  <2>3. /\ Then(c, EditorIdle) \/ Then(c, again)
        /\ UNCHANGED <<plans, pricings, choice, discarded, edits, unseen>>
    BY <1>7 DEF ReadAgain
  <2> HIDE DEF again
  <2>4. Stored' = Stored
    BY <2>3 DEF Stored
  <2> QED BY <2>2, <2>3, <2>4, IdlePlanRequest, EditorStep DEF PlanInv, PlanTypeOK
<1>8. ASSUME NEW tier \in Tiers, NEW status \in {"ACTIVE", "INACTIVE"}, SetPlanStatus(tier, status)
      PROVE  PlanInv'
  <2>1. plans' \in [Tiers -> PlanStatus] /\ UNCHANGED <<pricings, choice, discarded, editor, edits, unseen>>
    BY <1>8 DEF SetPlanStatus, PlanInv, PlanTypeOK, PlanStatus
  <2> QED BY <2>1 DEF PlanInv, PlanTypeOK, Editing, Stored, CountsStand, Deleting
<1>9. ASSUME NEW b \in Buyers, Discard(b)
      PROVE  PlanInv'
  BY <1>9 DEF Discard, PlanInv, PlanTypeOK, Editing, Stored, CountsStand, Deleting
<1> QED BY <1>1, <1>2, <1>3, <1>4, <1>5, <1>6, <1>7, <1>8, <1>9 DEF PlanNext

\* A delete that has counted no enrollment meets none that was there when it
\* counted, whatever requests choose, discard and delete meanwhile.
THEOREM PlanInvariant == PlanSpec => []PlanInv
<1>1. ASSUME PlanInit
      PROVE  PlanInv
  <2>1. plans \in [Tiers -> PlanStatus]
    BY <1>1 DEF PlanInit, PlanStatus
  <2>2. pricings \in [Pricings -> Pricing \cup {Unpriced}]
    <3>1. CASE pricings = [p \in Pricings |-> Unpriced]
      BY <3>1
    <3>2. ASSUME NEW tier \in Tiers, NEW codes \in [Slots -> PlanIds],
                 pricings = [p \in Pricings |->
                   IF p[1] = tier THEN [code |-> codes[p[2]], status |-> "ACTIVE"] ELSE Unpriced]
          PROVE  pricings \in [Pricings -> Pricing \cup {Unpriced}]
      <4>1. \A p \in Pricings : [code |-> codes[p[2]], status |-> "ACTIVE"] \in Pricing
        BY DEF Pricings, Pricing
      <4> QED BY <3>2, <4>1
    <3> QED BY <1>1, <3>1, <3>2 DEF PlanInit
  <2>3. editor \in [Editors -> PlanRequest] /\ \A c \in Editors : editor[c].pc = "idle"
    BY <1>1, IdlePlanRequest DEF PlanInit
  <2> QED BY <1>1, <2>1, <2>2, <2>3 DEF PlanInit, PlanInv, PlanTypeOK, Editing, CountsStand, Deleting
<1>2. PlanInv /\ UNCHANGED planVars => PlanInv'
  BY DEF planVars, PlanInv, PlanTypeOK, Editing, Stored, CountsStand, Deleting
<1> QED BY <1>1, <1>2, PlanNextInv, PTL DEF PlanSpec

\* Types of the plans, their pricings and the requests on them.
THEOREM PlanTypeCorrect == PlanSpec => []PlanTypeOK
BY PlanInvariant, PTL DEF PlanInv

\* An enrollment that loses its pricing was discarded, or chose it between the
\* count and the delete of deactivatePricing or softDelete.
THEOREM PricingIsKeptHolds == PlanSpec => PricingIsKept
<1> DEFINE Kept == \A b \in Buyers : choice[b] # Unpriced /\ choice'[b] = Unpriced => b \in discarded \cup unseen
<1>1. ASSUME PlanInv, PlanNext
      PROVE  Kept
  <2> SUFFICES ASSUME NEW b \in Buyers, choice[b] # Unpriced, choice'[b] = Unpriced
               PROVE  b \in discarded \cup unseen
    OBVIOUS
  <2>1. ASSUME NEW c \in Editors, Delete(c)
        PROVE  b \in discarded \cup unseen
    <3>1. choice[b] \in editor[c].of /\ Deleting(c)
      BY <2>1 DEF Delete, Deleting
    <3> QED BY <1>1, <3>1 DEF PlanInv, CountsStand
  <2>2. ASSUME NEW c \in Editors, Stamp(c)
        PROVE  b \in discarded \cup unseen
    <3>1. PICK p \in Pricings : choice' = [choice EXCEPT ![editor[c].buyer] = p]
      BY <1>1, <2>2, StampInv
    <3>2. choice'[b] \in {p, choice[b]}
      BY <1>1, <3>1 DEF PlanInv, PlanTypeOK
    <3> QED BY <3>2, PlanAssumption DEF Pricings
  <2>3. CASE UNCHANGED choice
    BY <2>3
  <2> QED BY <1>1, <2>1, <2>2, <2>3
          DEF PlanNext, BeginCreatePlan, BeginUpsertPricing, BeginRemovePricing, BeginDeletePlan,
              BeginSelect, EditBegins, CreatePlan, UpsertPricing, DeactivatePricing, ReadAgain,
              SetPlanStatus, Discard
<1>2. PlanInv /\ [PlanNext]_planVars => [Kept]_planVars
  BY <1>1
<1> QED BY <1>2, PlanInvariant, PTL DEF PlanSpec, PricingIsKept

-----------------------------------------------------------------------------
(* Mirror: a sync that runs alone leaves every user as it fetched them *)

TransactionId ==
  [of : Payments \cup Students, form : {"gateway", "random", "code", "local"}]
Delivery ==
  [via : {"sync", "webhook", "admin", "test"}, to : Students, id : TransactionId, n : Nat]
Users == [Students -> Seq(TransactionId)]
SyncLocals ==
  [pc : {"idle", "read", "insert", "update", "done"}, users : Users, known : Users, overlap : BOOLEAN]

\* Deliveries, the platform's records, the mirror and the syncs keep their types.
ProvisioningTypeOK ==
  /\ settled \subseteq Payments /\ success \subseteq Payments /\ fired \in Nat /\ inFlight \subseteq Delivery
  /\ platform \in Users /\ mirror \in Users
  /\ sync \in [Syncs -> SyncLocals]

Syncing(k) == sync[k].pc \notin {"idle", "done"}

\* While no other sync overlaps it, a sync is the only one there is, the rows it
\* knows are those of the mirror, and after its insert the mirror lacks
\* nothing but its updates.
AloneInv ==
  \A k \in Syncs : Syncing(k) /\ ~sync[k].overlap =>
    /\ \A o \in Syncs \ {k} : ~Syncing(o)
    /\ sync[k].pc = "insert" => sync[k].known = mirror
    /\ sync[k].pc = "update" =>
         \A s \in Students : sync[k].users[s] # Absent =>
           mirror[s] = IF sync[k].known[s] = Absent THEN sync[k].users[s] ELSE sync[k].known[s]

MirrorInv == ProvisioningTypeOK /\ AloneInv

LEMMA NoSyncType == NoSync \in SyncLocals /\ NoSync.pc = "idle"
<1>1. \A s \in Students : Absent \in Seq(TransactionId)
  BY DEF Absent
<1>2. [s \in Students |-> Absent] \in Users
  BY <1>1 DEF Users
<1> QED BY <1>2 DEF NoSync, SyncLocals

LEMMA IdsType ==
  ASSUME NEW p \in Payments \cup Students
  PROVE  WebhookId(p) \in TransactionId /\ RequestId(p) \in TransactionId
BY DEF WebhookId, RequestId, TransactionId

LEMMA DispatchType ==
  ASSUME ProvisioningTypeOK, NEW d \in Delivery, Dispatch(d)
  PROVE  fired' \in Nat /\ inFlight' \subseteq Delivery
BY DEF Dispatch, ProvisioningTypeOK

LEMMA FireType ==
  ASSUME ProvisioningTypeOK, NEW via \in {"sync", "webhook", "admin", "test"}, NEW s \in Students,
         NEW id \in TransactionId
  PROVE  Fire(via, s, id) \in Delivery
BY DEF Fire, Delivery, ProvisioningTypeOK

\* Only syncs read and write the mirror.
LEMMA MirrorUntouched ==
  ASSUME MirrorInv, UNCHANGED <<mirror, sync>>
  PROVE  AloneInv'
BY DEF MirrorInv, AloneInv, Syncing

LEMMA SettleThenInv ==
  ASSUME MirrorInv, NEW p \in Payments, NEW d \in Delivery, SettleThen(p, d)
  PROVE  MirrorInv'
<1>1. fired' \in Nat /\ inFlight' \subseteq Delivery
  BY DispatchType DEF SettleThen, MirrorInv, ProvisioningTypeOK
<1>2. AloneInv'
  BY MirrorUntouched DEF SettleThen
<1> QED BY <1>1, <1>2 DEF SettleThen, MirrorInv, ProvisioningTypeOK

LEMMA DispatchInv ==
  ASSUME MirrorInv, NEW d \in Delivery, Dispatch(d), UNCHANGED <<settled, success, platform, mirror, sync>>
  PROVE  MirrorInv'
BY DispatchType, MirrorUntouched DEF MirrorInv, ProvisioningTypeOK

LEMMA PostType ==
  ASSUME MirrorInv, NEW d \in inFlight, Post(d)
  PROVE  platform' \in Users /\ UNCHANGED <<settled, success, mirror, sync>>
<1>1. d.to \in Students /\ d.id \in TransactionId
  BY DEF MirrorInv, ProvisioningTypeOK, Delivery
<1>2. \A s \in Students : platform[s] \in Seq(TransactionId)
  BY DEF MirrorInv, ProvisioningTypeOK, Users
<1>3. Append(platform[d.to], d.id) \in Seq(TransactionId)
  BY <1>1, <1>2
<1>4. [platform EXCEPT ![d.to] = Append(platform[d.to], d.id)] \in Users
  BY <1>3 DEF MirrorInv, ProvisioningTypeOK, Users
<1> QED BY <1>4 DEF Post, MirrorInv, ProvisioningTypeOK

LEMMA DeliverInv ==
  ASSUME MirrorInv, NEW d \in inFlight, Deliver(d) \/ AttemptSync(d)
  PROVE  MirrorInv'
<1>1. platform' \in Users /\ UNCHANGED <<settled, success, mirror, sync>>
  BY PostType DEF Deliver, AttemptSync
<1>2. ThenSync(d) \subseteq Delivery
  <2>1. d \in Delivery /\ d.id.of \in Payments \cup Students
    BY DEF MirrorInv, ProvisioningTypeOK, Delivery, TransactionId
  <2>2. RequestId(d.id.of) \in TransactionId
    BY <2>1, IdsType
  <2>3. [d EXCEPT !.via = "sync", !.id = RequestId(d.id.of)] \in Delivery
    BY <2>1, <2>2 DEF Delivery
  <2> QED BY <2>3 DEF ThenSync
<1>3. inFlight' \subseteq Delivery /\ fired' \in Nat
  BY <1>2 DEF Deliver, AttemptSync, MirrorInv, ProvisioningTypeOK
<1>4. AloneInv'
  BY <1>1, MirrorUntouched
<1> QED BY <1>1, <1>3, <1>4 DEF MirrorInv, ProvisioningTypeOK

LEMMA RestartInv ==
  ASSUME MirrorInv, Restart
  PROVE  MirrorInv'
<1>1. \A k \in Syncs : sync'[k] = NoSync
  BY DEF Restart
<1>2. AloneInv'
  BY <1>1, NoSyncType DEF AloneInv, Syncing
<1>3. ProvisioningTypeOK'
  BY NoSyncType DEF Restart, MirrorInv, ProvisioningTypeOK
<1> QED BY <1>2, <1>3 DEF MirrorInv

LEMMA FetchedType ==
  ASSUME NEW users \in Users, NEW overlap \in BOOLEAN,
         NEW r, r = [NoSync EXCEPT !.pc = "read", !.users = users, !.overlap = overlap]
  PROVE  r \in SyncLocals /\ r.pc = "read" /\ r.overlap = overlap
<1>1. NoSync \in SyncLocals
  BY NoSyncType
<1> QED BY <1>1 DEF SyncLocals

LEMMA SyncFetchInv ==
  ASSUME MirrorInv, NEW k \in Syncs, SyncFetch(k)
  PROVE  MirrorInv'
<1> DEFINE others == {o \in Syncs \ {k} : sync[o].pc \notin {"idle", "done"}}
           mine == [NoSync EXCEPT !.pc = "read", !.users = platform, !.overlap = others # {}]
           Crossed(o) == [sync[o] EXCEPT !.overlap = TRUE]
<1>1. /\ sync' = [o \in Syncs |-> IF o = k THEN mine ELSE IF o \in others THEN Crossed(o) ELSE sync[o]]
      /\ UNCHANGED <<settled, success, fired, inFlight, platform, mirror>>
  BY DEF SyncFetch
<1>2. (others # {}) \in BOOLEAN
  BY Zenon
<1>3. mine \in SyncLocals /\ mine.pc = "read" /\ (~mine.overlap => others = {})
  <2>1. platform \in Users
    BY DEF MirrorInv, ProvisioningTypeOK
  <2> DEFINE met == others # {}
             read == [NoSync EXCEPT !.pc = "read", !.users = platform, !.overlap = met]
  <2>2. met \in BOOLEAN /\ (~met => others = {})
    BY <1>2
  <2>3. mine = read
    OBVIOUS
  <2> HIDE DEF met, others, mine
  <2>4. read \in SyncLocals /\ read.pc = "read" /\ read.overlap = met
    BY <2>1, <2>2, FetchedType
  <2> QED BY <2>2, <2>3, <2>4
<1>4. \A o \in Syncs : Crossed(o) \in SyncLocals /\ Crossed(o).overlap = TRUE
  BY DEF MirrorInv, ProvisioningTypeOK, SyncLocals
<1> HIDE DEF mine, Crossed
<1>5. ProvisioningTypeOK'
  BY <1>1, <1>3, <1>4 DEF MirrorInv, ProvisioningTypeOK
<1>6. ASSUME NEW o \in Syncs, Syncing(o)', ~sync'[o].overlap
      PROVE  o = k /\ others = {}
  <2>1. CASE o = k
    BY <1>1, <1>3, <1>6, <2>1
  <2>2. CASE o # k
    <3>1. o \in others
      BY <1>1, <1>6, <2>2 DEF Syncing
    <3> QED BY <1>1, <1>4, <1>6, <2>2, <3>1
  <2> QED BY <2>1, <2>2
<1>7. others = {} => \A o \in Syncs \ {k} : ~Syncing(o)'
  BY <1>1 DEF Syncing
<1>8. sync'[k].pc = "read"
  BY <1>1, <1>3
<1> HIDE DEF others
<1>9. AloneInv'
  BY <1>6, <1>7, <1>8 DEF AloneInv
<1> QED BY <1>5, <1>9 DEF MirrorInv

\* A sync goes on to its next statement; the others do not move.
LEMMA SyncStep ==
  ASSUME MirrorInv, NEW k \in Syncs, Syncing(k), NEW next \in SyncLocals, sync' = [sync EXCEPT ![k] = next],
         mirror' \in Users, UNCHANGED <<settled, success, fired, inFlight, platform>>,
         next.pc # "done" => next.overlap = sync[k].overlap,
         ~sync[k].overlap =>
           /\ next.pc = "insert" => next.known = mirror'
           /\ next.pc = "update" =>
                \A s \in Students : next.users[s] # Absent =>
                  mirror'[s] = IF next.known[s] = Absent THEN next.users[s] ELSE next.known[s]
  PROVE  MirrorInv'
<1>1. /\ sync' \in [Syncs -> SyncLocals] /\ sync'[k] = next
      /\ \A o \in Syncs : o # k => sync'[o] = sync[o]
  BY DEF MirrorInv, ProvisioningTypeOK
<1>2. ProvisioningTypeOK'
  BY <1>1 DEF MirrorInv, ProvisioningTypeOK
<1>3. ASSUME NEW o \in Syncs, Syncing(o)', ~sync'[o].overlap
      PROVE  o = k
  BY <1>1, <1>3 DEF MirrorInv, AloneInv, Syncing
<1>4. ASSUME Syncing(k)', ~sync'[k].overlap
      PROVE  ~sync[k].overlap /\ \A o \in Syncs \ {k} : ~Syncing(o)'
  <2>1. ~sync[k].overlap
    BY <1>1, <1>4 DEF Syncing
  <2> QED BY <1>1, <2>1 DEF MirrorInv, AloneInv, Syncing
<1>5. AloneInv'
  BY <1>1, <1>3, <1>4 DEF AloneInv
<1> QED BY <1>2, <1>5 DEF MirrorInv

LEMMA SyncReadInv ==
  ASSUME MirrorInv, NEW k \in Syncs, SyncRead(k)
  PROVE  MirrorInv'
<1> DEFINE next == [sync[k] EXCEPT !.pc = "insert", !.known = mirror]
<1>1. sync[k] \in SyncLocals /\ mirror \in Users
  BY DEF MirrorInv, ProvisioningTypeOK
<1>2. /\ next \in SyncLocals /\ next.pc = "insert" /\ next.known = mirror
      /\ next.overlap = sync[k].overlap
  BY <1>1 DEF SyncLocals
<1>3. sync' = [sync EXCEPT ![k] = next] /\ UNCHANGED <<settled, success, fired, inFlight, platform, mirror>>
  BY DEF SyncRead
<1>4. Syncing(k)
  BY DEF SyncRead, Syncing
<1> HIDE DEF next
<1> QED BY <1>1, <1>2, <1>3, <1>4, SyncStep

LEMMA SyncInsertInv ==
  ASSUME MirrorInv, NEW k \in Syncs, SyncInsert(k)
  PROVE  MirrorInv'
<1> DEFINE next == [sync[k] EXCEPT !.pc = "update"]
           r == sync[k]
<1>1. r \in SyncLocals /\ mirror \in Users
  BY DEF MirrorInv, ProvisioningTypeOK
<1>2. /\ next \in SyncLocals /\ next.pc = "update" /\ next.overlap = r.overlap
      /\ next.users = r.users /\ next.known = r.known
  BY <1>1 DEF SyncLocals
<1>3. /\ sync' = [sync EXCEPT ![k] = next] /\ UNCHANGED <<settled, success, fired, inFlight, platform>>
      /\ mirror' = [s \in Students |->
           IF s \in Inserts(k) /\ mirror[s] = Absent THEN r.users[s] ELSE mirror[s]]
  BY DEF SyncInsert
<1>4. Syncing(k) /\ r.pc = "insert"
  BY DEF SyncInsert, Syncing
<1>5. mirror' \in Users
  BY <1>1, <1>3 DEF Users, SyncLocals
<1>6. ASSUME ~r.overlap, NEW s \in Students, next.users[s] # Absent
      PROVE  mirror'[s] = IF next.known[s] = Absent THEN next.users[s] ELSE next.known[s]
  <2>1. r.known = mirror
    BY <1>4, <1>6 DEF MirrorInv, AloneInv
  <2> QED BY <1>2, <1>3, <1>6, <2>1 DEF Inserts
<1> HIDE DEF next
<1> QED BY <1>2, <1>3, <1>4, <1>5, <1>6, SyncStep

\* The last statement, and what it leaves.
LEMMA SyncUpdateInv ==
  ASSUME MirrorInv, NEW k \in Syncs, SyncUpdate(k)
  PROVE  /\ MirrorInv' /\ \A o \in Syncs : o # k => sync'[o] = sync[o]
         /\ ~sync[k].overlap =>
              \A s \in Students : sync[k].users[s] # Absent => mirror'[s] = sync[k].users[s]
<1> DEFINE next == [NoSync EXCEPT !.pc = "done"]
           r == sync[k]
<1>1. r \in SyncLocals /\ mirror \in Users
  BY DEF MirrorInv, ProvisioningTypeOK
<1>2. next \in SyncLocals /\ next.pc = "done"
  BY NoSyncType DEF SyncLocals
<1>3. /\ sync' = [sync EXCEPT ![k] = next] /\ UNCHANGED <<settled, success, fired, inFlight, platform>>
      /\ mirror' = [s \in Students |-> IF s \in Updates(k) THEN r.users[s] ELSE mirror[s]]
  BY DEF SyncUpdate
<1>4. Syncing(k) /\ r.pc = "update"
  BY DEF SyncUpdate, Syncing
<1>5. mirror' \in Users
  BY <1>1, <1>3 DEF Users, SyncLocals
<1>6. ASSUME ~r.overlap, NEW s \in Students, r.users[s] # Absent
      PROVE  mirror'[s] = r.users[s]
  <2>1. mirror[s] = IF r.known[s] = Absent THEN r.users[s] ELSE r.known[s]
    BY <1>4, <1>6 DEF MirrorInv, AloneInv
  <2> QED BY <1>3, <1>6, <2>1 DEF Updates
<1> HIDE DEF next
<1>7. MirrorInv'
  BY <1>2, <1>3, <1>4, <1>5, SyncStep
<1>8. \A o \in Syncs : o # k => sync'[o] = sync[o]
  BY <1>3 DEF MirrorInv, ProvisioningTypeOK
<1> QED BY <1>6, <1>7, <1>8

\* While no other sync runs, what a sync has read of the mirror is still so when
\* it writes, whatever is settled, delivered or restarted meanwhile.
THEOREM MirrorInvariant == ProvisioningSpec => []MirrorInv
<1>1. ProvisioningInit => MirrorInv
  <2> SUFFICES ASSUME ProvisioningInit
               PROVE  MirrorInv
    OBVIOUS
  <2>1. Absent \in Seq(TransactionId)
    BY DEF Absent
  <2>2. platform \in Users /\ mirror \in Users
    BY <2>1 DEF ProvisioningInit, Users
  <2>3. sync \in [Syncs -> SyncLocals] /\ \A k \in Syncs : sync[k].pc = "idle"
    BY NoSyncType DEF ProvisioningInit
  <2> QED BY <2>2, <2>3 DEF ProvisioningInit, MirrorInv, ProvisioningTypeOK, AloneInv, Syncing
<1>2. ASSUME MirrorInv, ProvisioningNext
      PROVE  MirrorInv'
  <2>1. ASSUME NEW p \in Payments, Settle(p) \/ VerifyPayment(p) \/ EnrollByAdmin(p)
        PROVE  MirrorInv'
    <3>1. Payer[p] \in Students
      BY ProvisioningAssumption
    <3>2. /\ Fire("sync", Payer[p], RequestId(p)) \in Delivery
          /\ Fire("admin", Payer[p], WebhookId(p)) \in Delivery
          /\ Fire("webhook", Payer[p], WebhookId(p)) \in Delivery
      BY <1>2, <3>1, IdsType, FireType DEF MirrorInv
    <3> QED BY <1>2, <2>1, <3>2, SettleThenInv, DispatchInv DEF Settle, EnrollByAdmin, VerifyPayment
  <2>2. ASSUME NEW s \in Students, SendTestWebhook(s)
        PROVE  MirrorInv'
    <3>1. [of |-> s, form |-> "random"] \in TransactionId
      BY DEF TransactionId
    <3>2. Fire("test", s, [of |-> s, form |-> "random"]) \in Delivery
      BY <1>2, <3>1, FireType DEF MirrorInv
    <3> QED BY <1>2, <2>2, <3>2, DispatchInv DEF SendTestWebhook
  <2>3. ASSUME NEW p \in Payments, Overwrite(p) \/ Reopen(p)
        PROVE  MirrorInv'
    <3>1. ProvisioningTypeOK'
      BY <1>2, <2>3 DEF Overwrite, Reopen, MirrorInv, ProvisioningTypeOK
    <3> QED BY <1>2, <2>3, <3>1 DEF Overwrite, Reopen, MirrorInv, AloneInv, Syncing
  <2> QED BY <1>2, <2>1, <2>2, <2>3, DeliverInv, RestartInv, SyncFetchInv, SyncReadInv, SyncInsertInv,
             SyncUpdateInv DEF ProvisioningNext
<1>3. MirrorInv /\ UNCHANGED provisioningVars => MirrorInv'
  BY DEF provisioningVars, MirrorInv, ProvisioningTypeOK, AloneInv, Syncing
<1> QED BY <1>1, <1>2, <1>3, PTL DEF ProvisioningSpec

\* A sync of the platform's users that no other sync overlapped leaves each of
\* them as it was fetched: its two writes, computed from an older read, set
\* nothing back.
THEOREM LoneSyncIsExactHolds == ProvisioningSpec => LoneSyncIsExact
<1> DEFINE Exact ==
      \A k \in Syncs :
        sync[k].pc = "update" /\ sync'[k].pc = "done" /\ ~sync[k].overlap =>
          \A s \in Students : sync[k].users[s] # Absent => mirror'[s] = sync[k].users[s]
<1>1. ASSUME MirrorInv, ProvisioningNext
      PROVE  Exact
  <2> SUFFICES ASSUME NEW k \in Syncs, sync[k].pc = "update", sync'[k].pc = "done", ~sync[k].overlap
               PROVE  \A s \in Students : sync[k].users[s] # Absent => mirror'[s] = sync[k].users[s]
    OBVIOUS
  <2>1. ASSUME NEW o \in Syncs, o # k, SyncFetch(o) \/ SyncRead(o) \/ SyncInsert(o) \/ SyncUpdate(o)
        PROVE  sync'[k].pc = sync[k].pc
    <3>1. CASE SyncFetch(o)
      <4>1. sync'[k] \in {sync[k], [sync[k] EXCEPT !.overlap = TRUE]}
        BY <2>1, <3>1 DEF SyncFetch
      <4>2. sync[k] \in SyncLocals
        BY <1>1 DEF MirrorInv, ProvisioningTypeOK
      <4> QED BY <4>1, <4>2 DEF SyncLocals
    <3>2. CASE SyncRead(o) \/ SyncInsert(o) \/ SyncUpdate(o)
      BY <1>1, <2>1, <3>2 DEF SyncRead, SyncInsert, SyncUpdate, MirrorInv, ProvisioningTypeOK
    <3> QED BY <2>1, <3>1, <3>2
  <2>2. ASSUME SyncFetch(k) \/ SyncRead(k) \/ SyncInsert(k)
        PROVE  FALSE
    BY <2>2 DEF SyncFetch, SyncRead, SyncInsert
  <2>3. CASE SyncUpdate(k)
    BY <1>1, <2>3, SyncUpdateInv
  <2>4. CASE Restart
    BY <2>4, NoSyncType DEF Restart
  <2>5. CASE UNCHANGED sync
    BY <2>5
  <2> QED BY <1>1, <2>1, <2>2, <2>3, <2>4, <2>5
          DEF ProvisioningNext, Settle, Overwrite, Reopen, EnrollByAdmin, SettleThen, VerifyPayment,
              SendTestWebhook,
              Deliver, AttemptSync, Post
<1>2. MirrorInv /\ [ProvisioningNext]_provisioningVars => [Exact]_provisioningVars
  BY <1>1
<1> QED BY <1>2, MirrorInvariant, PTL DEF ProvisioningSpec, LoneSyncIsExact

---------------------------------------------------------------
(* The account overview: every settled purchase, and none doubled by us *)

\* The list that is made of a finite set.
LEMMA ListOfSet ==
  ASSUME NEW E, IsFiniteSet(E)
  PROVE  /\ SetToSeq(E) \in Seq(E) /\ Len(SetToSeq(E)) \in Nat
         /\ \A i, j \in 1 .. Len(SetToSeq(E)) : SetToSeq(E)[i] = SetToSeq(E)[j] => i = j
         /\ \A x \in E : \E i \in 1 .. Len(SetToSeq(E)) : SetToSeq(E)[i] = x
<1> DEFINE n == Cardinality(E)
           Lists == Injection(1 .. n, E)
<1>1. n \in Nat
  BY FS_CardinalityType
<1>2. IsFiniteSet(1 .. n) /\ Cardinality(1 .. n) = n
  BY <1>1, FS_Interval
<1>3. PICK f \in Bijection(1 .. n, E) : TRUE
  BY <1>2, FS_SameCardinalityBij DEF ExistsBijection
<1>4. f \in Injection(1 .. n, E)
  BY <1>3 DEF Bijection
<1>5. SetToSeq(E) \in Injection(1 .. n, E)
  <2>1. SetToSeq(E) = CHOOSE g \in [1 .. n -> E] : IsInjective(g)
    BY DEF SetToSeq
  <2>2. f \in [1 .. n -> E] /\ IsInjective(f)
    BY <1>4 DEF Injection
  <2> HIDE DEF n
  <2>3. SetToSeq(E) \in [1 .. n -> E] /\ IsInjective(SetToSeq(E))
    BY <2>1, <2>2
  <2> QED BY <2>3 DEF Injection
<1>6. SetToSeq(E) \in Surjection(1 .. n, E)
  BY <1>2, <1>5, FS_Injection
<1> PICK e : e = SetToSeq(E)
  OBVIOUS
<1> HIDE DEF n
<1>7. e \in [1 .. n -> E] /\ \A i, j \in 1 .. n : e[i] = e[j] => i = j
  BY <1>5 DEF Injection, IsInjective
<1>8. \A x \in E : \E i \in 1 .. n : e[i] = x
  BY <1>6 DEF Surjection
<1>9. e \in Seq(E) /\ Len(e) = n
  BY <1>1, <1>7
<1> QED BY <1>1, <1>7, <1>8, <1>9

\* Two lists in a row.
LEMMA ListsJoined ==
  ASSUME NEW T, NEW u \in Seq(T), NEW v \in Seq(T)
  PROVE  /\ Len(u) \in Nat /\ Len(v) \in Nat
         /\ DOMAIN (u \o v) = 1 .. Len(u) + Len(v)
         /\ DOMAIN u = 1 .. Len(u) /\ DOMAIN v = 1 .. Len(v)
         /\ \A i \in 1 .. Len(u) : (u \o v)[i] = u[i]
         /\ \A i \in 1 .. Len(v) : (u \o v)[Len(u) + i] = v[i]
         /\ \A i \in 1 .. Len(u) + Len(v) :
              i \in 1 .. Len(u) \/ i - Len(u) \in 1 .. Len(v)
OBVIOUS

\* What an overview w says of a transaction t that is one of ours: the mirror's
\* list comes first, and then what that does not mention.
OverviewSays(told, ours, t, w) ==
  /\ Times(t, w) \in Nat \ {0}
  /\ Times(t, w) > 1 => Times(t, w) = Times(t, told)
  /\ \A i \in DOMAIN w : (\E j \in DOMAIN told : w[i] = told[j]) \/ w[i] \in ours

LEMMA OverviewLists ==
  ASSUME NEW T, NEW told \in Seq(T), NEW ours \in SUBSET T, IsFiniteSet(ours), NEW t \in ours
  PROVE  OverviewSays(told, ours, t, told \o SetToSeq(ours \ ToSet(told)))
<1> DEFINE E == ours \ ToSet(told)
           w == told \o SetToSeq(E)
           At1(list) == {i \in DOMAIN list : list[i] = t}
<1> PICK e : e = SetToSeq(E)
  OBVIOUS
<1>1. IsFiniteSet(E)
  BY FS_Subset
<1>2. /\ e \in Seq(E) /\ Len(e) \in Nat
      /\ \A i, j \in 1 .. Len(e) : e[i] = e[j] => i = j
      /\ \A x \in E : \E i \in 1 .. Len(e) : e[i] = x
  BY <1>1, ListOfSet
<1>3. e \in Seq(T) /\ \A i \in 1 .. Len(e) : e[i] \in E
  <2>1. E \subseteq T
    OBVIOUS
  <2> HIDE DEF E
  <2> QED BY <1>2, <2>1
<1> DEFINE m == Len(told)
           n == Len(e)
<1>4. /\ m \in Nat /\ n \in Nat /\ DOMAIN w = 1 .. m + n /\ DOMAIN told = 1 .. m /\ DOMAIN e = 1 .. n
      /\ \A i \in 1 .. m : w[i] = told[i]
      /\ \A i \in 1 .. n : w[m + i] = e[i]
      /\ \A i \in 1 .. m + n : i \in 1 .. m \/ i - m \in 1 .. n
  BY <1>3, ListsJoined
<1>5. \A x : x \in ToSet(told) <=> \E j \in 1 .. m : told[j] = x
  BY <1>4 DEF ToSet
<1> HIDE DEF m, n, w
<1>6. ASSUME NEW i \in DOMAIN w
      PROVE  (\E j \in DOMAIN told : w[i] = told[j]) \/ w[i] \in ours
  <2>1. CASE i \in 1 .. m
    BY <1>4, <2>1
  <2>2. CASE i - m \in 1 .. n
    <3>1. i = m + (i - m)
      BY <1>4
    <3>2. w[i] = e[i - m] /\ e[i - m] \in E
      BY <1>3, <1>4, <2>2, <3>1 DEF n
    <3> QED BY <3>2
  <2> QED BY <1>4, <2>1, <2>2
<1>7. IsFiniteSet(At1(w))
  <2>1. IsFiniteSet(1 .. m + n)
    BY <1>4, FS_Interval
  <2> QED BY <1>4, <2>1, FS_Subset
<1>8. At1(w) # {}
  <2>1. CASE t \in ToSet(told)
    <3> PICK j \in 1 .. m : told[j] = t
      BY <1>5, <2>1
    <3>1. j \in DOMAIN w /\ w[j] = t
      BY <1>4
    <3> QED BY <3>1
  <2>2. CASE t \notin ToSet(told)
    <3> PICK j \in 1 .. n : e[j] = t
      BY <1>2, <2>2 DEF n
    <3>1. m + j \in DOMAIN w
      BY <1>4
    <3>2. w[m + j] = e[j]
      BY <1>4
    <3> QED BY <3>1, <3>2
  <2> QED BY <2>1, <2>2
<1>9. Cardinality(At1(w)) \in Nat \ {0}
  BY <1>7, <1>8, FS_CardinalityType, FS_EmptySet
<1>10. CASE t \in ToSet(told)
  <2>1. \A i \in 1 .. n : e[i] # t
    BY <1>3, <1>10 DEF n
  <2>2. ASSUME NEW i \in At1(w)
        PROVE  i \in At1(told)
    <3>1. i \in 1 .. m
      <4> SUFFICES ASSUME i - m \in 1 .. n
                   PROVE  FALSE
        BY <1>4
      <4>1. i = m + (i - m)
        BY <1>4
      <4>2. w[i] = e[i - m]
        BY <1>4, <4>1
      <4> QED BY <2>1, <4>2
    <3> QED BY <1>4, <3>1
  <2>3. At1(told) \subseteq At1(w)
    BY <1>4
  <2>4. At1(w) = At1(told)
    BY <2>2, <2>3
  <2>5. Times(t, w) = Cardinality(At1(w)) /\ Times(t, told) = Cardinality(At1(w))
    BY <2>4 DEF Times
  <2>6. /\ Times(t, w) \in Nat \ {0}
        /\ Times(t, w) > 1 => Times(t, w) = Times(t, told)
    BY <1>9, <2>5
  <2> HIDE DEF At1
  <2>7. OverviewSays(told, ours, t, w)
    BY <1>6, <2>6 DEF OverviewSays
  <2> QED BY <2>7 DEF w
<1>11. CASE t \notin ToSet(told)
  <2> PICK j \in 1 .. n : e[j] = t
    BY <1>2, <1>11 DEF n
  <2>1. ASSUME NEW i \in At1(w)
        PROVE  i = m + j
    <3>1. i \notin 1 .. m
      BY <1>4, <1>5, <1>11
    <3>2. i - m \in 1 .. n /\ i = m + (i - m)
      BY <1>4, <3>1
    <3>3. e[i - m] = t
      BY <1>4, <3>2
    <3>4. i - m = j
      BY <1>2, <3>2, <3>3 DEF n
    <3> QED BY <1>4, <3>4
  <2>2. At1(w) = {m + j}
    BY <1>8, <2>1
  <2>3. Cardinality(At1(w)) = 1
    BY <2>2, FS_Singleton
  <2>4. Times(t, w) = 1
    BY <2>3 DEF Times
  <2>5. /\ Times(t, w) \in Nat \ {0}
        /\ Times(t, w) > 1 => Times(t, w) = Times(t, told)
    BY <2>4
  <2> HIDE DEF At1
  <2>6. OverviewSays(told, ours, t, w)
    BY <1>6, <2>5 DEF OverviewSays
  <2> QED BY <2>6 DEF w
<1> QED BY <1>10, <1>11

\* An id that only the gateway gives to a purchase of its own.
Genuine(t) == t.of \in Payments \ AdminMade => t.form = "gateway"

Begins(u, v) == Len(u) <= Len(v) /\ \A i \in 1 .. Len(u) : u[i] = v[i]

\* The mirror, and what a sync is about to write to it, are older records of
\* the platform, which adds to its records and never takes from them.
RecordsInv ==
  /\ IsFiniteSet(OnRecord)
  /\ \A d \in inFlight : Genuine(d.id)
  /\ \A s \in Students :
       /\ \A i \in 1 .. Len(platform[s]) : Genuine(platform[s][i])
       /\ Begins(mirror[s], platform[s])
       /\ \A k \in Syncs : Begins(sync[k].users[s], platform[s])

LEMMA BeginsAppended ==
  ASSUME NEW u \in Seq(TransactionId), NEW v \in Seq(TransactionId), NEW t \in TransactionId, Begins(u, v)
  PROVE  Begins(u, Append(v, t))
<1> PICK m \in Nat : m = Len(u)
  OBVIOUS
<1>1. Len(Append(v, t)) = Len(v) + 1 /\ Len(v) \in Nat
  OBVIOUS
<1>2. \A i \in 1 .. Len(v) : Append(v, t)[i] = v[i]
  OBVIOUS
<1> QED BY <1>1, <1>2 DEF Begins

LEMMA ListTypes ==
  ASSUME ProvisioningTypeOK, NEW s \in Students
  PROVE  /\ platform[s] \in Seq(TransactionId) /\ mirror[s] \in Seq(TransactionId)
         /\ Len(platform[s]) \in Nat
         /\ \A k \in Syncs : sync[k].users[s] \in Seq(TransactionId)
<1>1. platform[s] \in Seq(TransactionId) /\ mirror[s] \in Seq(TransactionId)
  BY DEF ProvisioningTypeOK, Users
<1>2. ASSUME NEW k \in Syncs
      PROVE  sync[k].users[s] \in Seq(TransactionId)
  <2>1. sync[k].users \in Users
    BY DEF ProvisioningTypeOK, SyncLocals
  <2> QED BY <2>1 DEF Users
<1> QED BY <1>1, <1>2

\* What every step does to the records.
LEMMA RecordsGrow ==
  ASSUME ProvisioningTypeOK, RecordsInv, IsFiniteSet(OnRecord'), \A d \in inFlight' : Genuine(d.id),
         \A s \in Students :
           /\ \/ platform'[s] = platform[s]
              \/ \E t \in TransactionId : Genuine(t) /\ platform'[s] = Append(platform[s], t)
           /\ mirror'[s] = mirror[s] \/ \E k \in Syncs : mirror'[s] = sync[k].users[s]
           /\ \A k \in Syncs : sync'[k].users[s] \in {sync[k].users[s], platform[s], Absent}
  PROVE  RecordsInv'
<1>1. ASSUME NEW s \in Students
      PROVE  /\ \A i \in 1 .. Len(platform'[s]) : Genuine(platform'[s][i])
             /\ Begins(mirror'[s], platform'[s])
             /\ \A k \in Syncs : Begins(sync'[k].users[s], platform'[s])
  <2>1. /\ platform[s] \in Seq(TransactionId) /\ mirror[s] \in Seq(TransactionId)
        /\ Len(platform[s]) \in Nat
        /\ \A k \in Syncs : sync[k].users[s] \in Seq(TransactionId)
    BY ListTypes
  <2>2. /\ \A i \in 1 .. Len(platform[s]) : Genuine(platform[s][i])
        /\ Begins(mirror[s], platform[s])
        /\ \A k \in Syncs : Begins(sync[k].users[s], platform[s])
    BY DEF RecordsInv
  <2>3. ASSUME NEW u \in Seq(TransactionId), Begins(u, platform[s])
        PROVE  Begins(u, platform'[s])
    <3>1. CASE platform'[s] = platform[s]
      BY <2>3, <3>1
    <3>2. ASSUME NEW t \in TransactionId, platform'[s] = Append(platform[s], t)
          PROVE  Begins(u, platform'[s])
      BY <2>1, <2>3, <3>2, BeginsAppended
    <3> QED BY <3>1, <3>2
  <2>4. \A i \in 1 .. Len(platform'[s]) : Genuine(platform'[s][i])
    <3>1. CASE platform'[s] = platform[s]
      BY <2>2, <3>1
    <3>2. ASSUME NEW t \in TransactionId, Genuine(t), platform'[s] = Append(platform[s], t)
          PROVE  \A i \in 1 .. Len(platform'[s]) : Genuine(platform'[s][i])
      <4> PICK v \in Seq(TransactionId) : v = platform[s]
        BY <2>1
      <4>1. /\ Len(Append(v, t)) = Len(v) + 1 /\ Len(v) \in Nat /\ Append(v, t)[Len(v) + 1] = t
            /\ \A i \in 1 .. Len(v) : Append(v, t)[i] = v[i]
        OBVIOUS
      <4> QED BY <2>2, <3>2, <4>1
    <3> QED BY <3>1, <3>2
  <2>5. Begins(mirror'[s], platform'[s])
    <3>1. CASE mirror'[s] = mirror[s]
      BY <2>1, <2>2, <2>3, <3>1
    <3>2. ASSUME NEW k \in Syncs, mirror'[s] = sync[k].users[s]
          PROVE  Begins(mirror'[s], platform'[s])
      BY <2>1, <2>2, <2>3, <3>2
    <3> QED BY <3>1, <3>2
  <2>6. ASSUME NEW k \in Syncs
        PROVE  Begins(sync'[k].users[s], platform'[s])
    <3>1. CASE sync'[k].users[s] = sync[k].users[s]
      BY <2>1, <2>2, <2>3, <3>1
    <3>2. CASE sync'[k].users[s] = platform[s]
      <4>1. Begins(platform[s], platform[s])
        BY <2>1 DEF Begins
      <4> QED BY <2>1, <2>3, <3>2, <4>1
    <3>3. CASE sync'[k].users[s] = Absent
      <4>1. Absent \in Seq(TransactionId) /\ Begins(Absent, platform[s])
        BY <2>1 DEF Begins, Absent
      <4> QED BY <2>3, <3>3, <4>1
    <3> QED BY <3>1, <3>2, <3>3
  <2> QED BY <2>4, <2>5, <2>6
<1>2. \A s \in Students :
        /\ \A i \in 1 .. Len(platform'[s]) : Genuine(platform'[s][i])
        /\ Begins(mirror'[s], platform'[s])
        /\ \A k \in Syncs : Begins(sync'[k].users[s], platform'[s])
  BY <1>1
<1> QED BY <1>2 DEF RecordsInv, Genuine, Begins

\* The ids that are sent.
LEMMA SentIds ==
  /\ \A x : Genuine(RequestId(x))
  /\ \A p \in Payments : Genuine(WebhookId(p))
  /\ \A s \in Students : Genuine([of |-> s, form |-> "random"])
BY ProvisioningAssumption DEF RequestId, WebhookId, Genuine

\* Deliveries begin, settle or not, and leave the records alone.
LEMMA DispatchRecords ==
  ASSUME ProvisioningTypeOK, RecordsInv, NEW d, Genuine(d.id), Dispatch(d) \/ UNCHANGED inFlight,
         IsFiniteSet(OnRecord'), UNCHANGED <<platform, mirror, sync>>
  PROVE  RecordsInv'
<1>1. \A e \in inFlight' : Genuine(e.id)
  BY DEF Dispatch, RecordsInv
<1> QED BY <1>1, RecordsGrow

LEMMA DeliverRecords ==
  ASSUME ProvisioningTypeOK, RecordsInv, NEW d \in inFlight, Deliver(d) \/ AttemptSync(d)
  PROVE  RecordsInv'
<1>1. Post(d) /\ UNCHANGED <<settled, success, mirror, sync>>
  BY DEF Deliver, AttemptSync, Post
<1>2. d.to \in Students /\ d.id \in TransactionId /\ Genuine(d.id) /\ d \in Delivery
  BY DEF ProvisioningTypeOK, Delivery, RecordsInv
<1>3. \A e \in ThenSync(d) : Genuine(e.id)
  <2>1. [d EXCEPT !.via = "sync", !.id = RequestId(d.id.of)].id = RequestId(d.id.of)
    BY <1>2 DEF Delivery
  <2> QED BY <2>1, SentIds DEF ThenSync
<1>4. \A e \in inFlight' : Genuine(e.id)
  BY <1>3 DEF Deliver, AttemptSync, RecordsInv
<1>5. \A s \in Students :
        \/ platform'[s] = platform[s]
        \/ \E t \in TransactionId : Genuine(t) /\ platform'[s] = Append(platform[s], t)
  <2>1. CASE UNCHANGED platform
    BY <2>1
  <2>2. CASE platform' = [platform EXCEPT ![d.to] = Append(platform[d.to], d.id)]
    <3>1. \A s \in Students : platform'[s] = platform[s] \/ platform'[s] = Append(platform[s], d.id)
      BY <1>2, <2>2 DEF ProvisioningTypeOK, Users
    <3> QED BY <1>2, <3>1
  <2> QED BY <1>1, <2>1, <2>2 DEF Post
<1>6. IsFiniteSet(OnRecord')
  BY <1>1 DEF RecordsInv, OnRecord
<1> QED BY <1>1, <1>4, <1>5, <1>6, RecordsGrow

LEMMA NoUsers == \A s \in Students : NoSync.users[s] = Absent
BY DEF NoSync

\* What a sync does to the mirror and to its own copy.
LEMMA SyncRecords ==
  ASSUME MirrorInv, RecordsInv, NEW k \in Syncs,
         SyncFetch(k) \/ SyncRead(k) \/ SyncInsert(k) \/ SyncUpdate(k)
  PROVE  RecordsInv'
<1>1. UNCHANGED <<settled, success, inFlight, platform>> /\ \A o \in Syncs : sync[o] \in SyncLocals
  BY DEF SyncFetch, SyncRead, SyncInsert, SyncUpdate, MirrorInv, ProvisioningTypeOK
<1>2. \A s \in Students : mirror'[s] = mirror[s] \/ \E o \in Syncs : mirror'[s] = sync[o].users[s]
  BY DEF SyncFetch, SyncRead, SyncInsert, SyncUpdate
<1>3. ASSUME NEW s \in Students, NEW o \in Syncs
      PROVE  sync'[o].users[s] \in {sync[o].users[s], platform[s], Absent}
  <2>1. CASE SyncFetch(k)
    <3> PICK overlap : sync'[k] = [NoSync EXCEPT !.pc = "read", !.users = platform, !.overlap = overlap]
      BY <2>1 DEF SyncFetch
    <3>1. sync'[k].users = platform
      BY NoSyncType DEF NoSync
    <3>2. o # k => sync'[o] \in {sync[o], [sync[o] EXCEPT !.overlap = TRUE]}
      BY <2>1 DEF SyncFetch
    <3>3. o # k => sync'[o].users = sync[o].users
      BY <1>1, <3>2 DEF SyncLocals
    <3> QED BY <3>1, <3>3
  <2>2. CASE SyncRead(k)
    <3>1. sync'[o] \in {sync[o], [sync[o] EXCEPT !.pc = "insert", !.known = mirror]}
      BY <2>2 DEF SyncRead, MirrorInv, ProvisioningTypeOK
    <3> QED BY <1>1, <3>1 DEF SyncLocals
  <2>3. CASE SyncInsert(k)
    <3>1. sync'[o] \in {sync[o], [sync[o] EXCEPT !.pc = "update"]}
      BY <2>3 DEF SyncInsert, MirrorInv, ProvisioningTypeOK
    <3> QED BY <1>1, <3>1 DEF SyncLocals
  <2>4. CASE SyncUpdate(k)
    <3>1. sync'[o] \in {sync[o], [NoSync EXCEPT !.pc = "done"]}
      BY <2>4 DEF SyncUpdate, MirrorInv, ProvisioningTypeOK
    <3>2. [NoSync EXCEPT !.pc = "done"].users = NoSync.users
      BY DEF NoSync
    <3> QED BY <3>1, <3>2, NoUsers
  <2> QED BY <2>1, <2>2, <2>3, <2>4
<1>4. IsFiniteSet(OnRecord') /\ \A d \in inFlight' : Genuine(d.id)
  BY <1>1 DEF RecordsInv, OnRecord
<1> QED BY <1>1, <1>2, <1>3, <1>4, RecordsGrow DEF MirrorInv

\* The platform's records only grow, and the mirror never runs ahead of them.
THEOREM RecordsInvariant == ProvisioningSpec => []RecordsInv
<1>1. ProvisioningInit => RecordsInv
  <2> SUFFICES ASSUME ProvisioningInit
               PROVE  RecordsInv
    OBVIOUS
  <2>1. Len(Absent) = 0 /\ Begins(Absent, Absent)
    BY DEF Absent, Begins
  <2>2. \A k \in Syncs, s \in Students : sync[k].users[s] = Absent
    BY NoUsers DEF ProvisioningInit
  <2>3. IsFiniteSet(OnRecord)
    BY FS_EmptySet DEF ProvisioningInit, OnRecord
  <2> QED BY <2>1, <2>2, <2>3 DEF ProvisioningInit, RecordsInv
<1>2. ASSUME MirrorInv, RecordsInv, ProvisioningNext
      PROVE  RecordsInv'
  <2>1. IsFiniteSet(OnRecord) /\ ProvisioningTypeOK
    BY <1>2 DEF RecordsInv, MirrorInv
  <2>2. ASSUME NEW p \in Payments, Settle(p) \/ VerifyPayment(p) \/ EnrollByAdmin(p)
        PROVE  RecordsInv'
    <3>1. PICK id : /\ Genuine(id)
                    /\ \E via : Dispatch(Fire(via, Payer[p], id)) \/ UNCHANGED inFlight
                    /\ OnRecord' \in {OnRecord, OnRecord \cup {p}} /\ UNCHANGED <<platform, mirror, sync>>
      BY <2>2, SentIds DEF Settle, VerifyPayment, EnrollByAdmin, SettleThen, OnRecord
    <3>2. PICK via : Dispatch(Fire(via, Payer[p], id)) \/ UNCHANGED inFlight
      BY <3>1
    <3>3. Fire(via, Payer[p], id).id = id
      BY DEF Fire
    <3>4. IsFiniteSet(OnRecord')
      BY <2>1, <3>1, FS_AddElement
    <3> QED BY <1>2, <2>1, <3>1, <3>2, <3>3, <3>4, DispatchRecords
  <2>3. ASSUME NEW s \in Students, SendTestWebhook(s)
        PROVE  RecordsInv'
    <3> PICK id : id = [of |-> s, form |-> "random"]
      OBVIOUS
    <3>1. Fire("test", s, id).id = id /\ Genuine(id)
      BY SentIds DEF Fire
    <3>2. Dispatch(Fire("test", s, id)) /\ UNCHANGED <<settled, success, platform, mirror, sync>>
      BY <2>3 DEF SendTestWebhook
    <3>3. IsFiniteSet(OnRecord')
      BY <2>1, <3>2 DEF OnRecord
    <3> QED BY <1>2, <2>1, <3>1, <3>2, <3>3, DispatchRecords
  <2>4. CASE Restart
    <3>1. \A k \in Syncs, s \in Students : sync'[k].users[s] = Absent
      BY <2>4, NoUsers DEF Restart
    <3>2. /\ inFlight' \subseteq inFlight /\ UNCHANGED <<settled, success, platform, mirror>>
      BY <2>4 DEF Restart
    <3>3. \A d \in inFlight' : Genuine(d.id)
      BY <1>2, <3>2 DEF RecordsInv
    <3>4. IsFiniteSet(OnRecord')
      BY <2>1, <3>2 DEF OnRecord
    <3> QED BY <1>2, <2>1, <3>1, <3>2, <3>3, <3>4, RecordsGrow
  <2>5. ASSUME NEW p \in Payments, Overwrite(p) \/ Reopen(p)
        PROVE  RecordsInv'
    <3>1. UNCHANGED <<inFlight, platform, mirror, sync>> /\ OnRecord' \subseteq OnRecord
      BY <2>5 DEF Overwrite, Reopen, OnRecord
    <3>2. IsFiniteSet(OnRecord')
      BY <2>1, <3>1, FS_Subset
    <3>3. \A d \in inFlight' : Genuine(d.id)
      BY <1>2, <3>1 DEF RecordsInv
    <3> QED BY <1>2, <2>1, <3>1, <3>2, <3>3, RecordsGrow
  <2> QED BY <1>2, <2>1, <2>2, <2>3, <2>4, <2>5, DeliverRecords, SyncRecords DEF ProvisioningNext
<1>3. MirrorInv /\ RecordsInv /\ UNCHANGED provisioningVars => RecordsInv'
  <2> SUFFICES ASSUME MirrorInv, RecordsInv, UNCHANGED provisioningVars
               PROVE  RecordsInv'
    OBVIOUS
  <2>1. UNCHANGED <<settled, success, inFlight, platform, mirror, sync>>
    BY DEF provisioningVars
  <2>2. IsFiniteSet(OnRecord') /\ \A d \in inFlight' : Genuine(d.id)
    BY <2>1 DEF RecordsInv, OnRecord
  <2> QED BY <2>1, <2>2, RecordsGrow DEF MirrorInv
<1> QED BY <1>1, <1>2, <1>3, MirrorInvariant, PTL DEF ProvisioningSpec

\* For any number of purchases, deliveries and syncs, and however often a success
\* or an enrollment's status is written over: every purchase that one of the two
\* still records is in the overview, not more often than the platform recorded
\* it, and under the gateway's id alone while its payment has the status success.
THEOREM OverviewShowsEveryPaymentHolds == ProvisioningSpec => []OverviewShowsEveryPayment
<1>1. ASSUME MirrorInv, RecordsInv
      PROVE  OverviewShowsEveryPayment
  <2> SUFFICES ASSUME NEW p \in OnRecord
               PROVE  LET shown == Overview(Payer[p])
                          own == LocalId(p)
                      IN /\ Times(own, shown) >= 1
                         /\ Times(own, shown) > 1 => Times(own, platform[Payer[p]]) >= Times(own, shown)
                         /\ p \in success \ AdminMade => \A i \in DOMAIN shown : shown[i].of = p => shown[i] = own
    BY DEF OverviewShowsEveryPayment
  <2> DEFINE own == LocalId(p)
             Bought(s) == {q \in OnRecord : Payer[q] = s}
             Ids == [of : Payments, form : {"gateway", "local"}]
  <2> PICK s \in Students : s = Payer[p]
    BY <1>1, ProvisioningAssumption DEF MirrorInv, ProvisioningTypeOK, OnRecord
  <2> PICK ours : ours = LocalTransactions(s)
    OBVIOUS
  <2> PICK told : told = mirror[s]
    OBVIOUS
  <2> DEFINE shown == told \o SetToSeq(ours \ ToSet(told))
  <2>1. Overview(Payer[p]) = shown
    BY DEF Overview
  <2>2. OnRecord \subseteq Payments /\ IsFiniteSet(OnRecord) /\ told \in Seq(TransactionId)
    BY <1>1, ListTypes DEF MirrorInv, ProvisioningTypeOK, RecordsInv, OnRecord
  <2>3. ours \in SUBSET TransactionId /\ own \in ours
    BY <2>2 DEF LocalTransactions, LocalId, TransactionId
  <2>4. IsFiniteSet(ours)
    <3>1. IsFiniteSet(Bought(s))
      BY <2>2, FS_Subset
    <3>2. [q \in Bought(s) |-> LocalId(q)] \in Surjection(Bought(s), ours)
      BY DEF LocalTransactions, Surjection
    <3> QED BY <3>1, <3>2, FS_Surjection
  <2>5. /\ Times(own, shown) \in Nat \ {0}
        /\ Times(own, shown) > 1 => Times(own, shown) = Times(own, told)
        /\ \A i \in DOMAIN shown : (\E j \in DOMAIN told : shown[i] = told[j]) \/ shown[i] \in ours
    <3> PICK t \in ours : t = own
      BY <2>3
    <3> PICK w : w = told \o SetToSeq(ours \ ToSet(told))
      OBVIOUS
    <3>1. OverviewSays(told, ours, t, w)
      BY <2>2, <2>3, <2>4, OverviewLists
    <3>2. w = shown
      OBVIOUS
    <3> HIDE DEF shown, own
    <3> QED BY <3>1, <3>2 DEF OverviewSays
  <2> HIDE DEF shown, own
  <2>6. /\ platform[s] \in Seq(TransactionId) /\ Len(platform[s]) \in Nat /\ Begins(told, platform[s])
        /\ \A i \in 1 .. Len(platform[s]) : Genuine(platform[s][i])
    BY <1>1, ListTypes DEF RecordsInv, MirrorInv
  <2>7. Times(own, platform[s]) >= Times(own, told)
    <3> DEFINE at == {i \in DOMAIN told : told[i] = own}
               all == {i \in DOMAIN platform[s] : platform[s][i] = own}
    <3>1. DOMAIN told = 1 .. Len(told) /\ Len(told) \in Nat /\ DOMAIN platform[s] = 1 .. Len(platform[s])
      BY <2>2, <2>6
    <3>2. at \subseteq all
      BY <2>6, <3>1 DEF Begins
    <3>3. IsFiniteSet(all)
      <4>1. IsFiniteSet(1 .. Len(platform[s]))
        BY <2>6, FS_Interval
      <4> QED BY <3>1, <4>1, FS_Subset
    <3>4. Cardinality(at) <= Cardinality(all)
      BY <3>2, <3>3, FS_Subset
    <3>5. IsFiniteSet(at)
      BY <3>2, <3>3, FS_Subset
    <3>6. Cardinality(at) \in Nat /\ Cardinality(all) \in Nat
      BY <3>3, <3>5, FS_CardinalityType
    <3>7. Times(own, told) = Cardinality(at) /\ Times(own, platform[s]) = Cardinality(all)
      BY DEF Times
    <3> HIDE DEF at, all
    <3> QED BY <3>4, <3>6, <3>7
  <2>8. ASSUME p \in success \ AdminMade, NEW i \in DOMAIN shown, shown[i].of = p
        PROVE  shown[i] = own
    <3>1. own = [of |-> p, form |-> "gateway"] /\ p \in Payments
      BY <2>2, <2>8 DEF LocalId, own
    <3>2. CASE shown[i] \in ours
      <4> PICK q \in OnRecord : shown[i] = LocalId(q)
        BY <3>2 DEF LocalTransactions
      <4>1. q = p
        BY <2>8 DEF LocalId
      <4> QED BY <4>1 DEF own
    <3>3. ASSUME NEW j \in DOMAIN told, shown[i] = told[j]
          PROVE  shown[i] = own
      <4>1. j \in 1 .. Len(told) /\ told[j] \in TransactionId /\ Len(told) \in Nat
        BY <2>2
      <4>2. told[j] = platform[s][j] /\ j \in 1 .. Len(platform[s])
        BY <2>6, <4>1 DEF Begins
      <4>3. Genuine(told[j])
        BY <2>6, <4>2
      <4> QED BY <2>8, <3>1, <3>3, <4>1, <4>3 DEF Genuine, TransactionId
    <3> QED BY <2>5, <3>2, <3>3
  <2>9. Times(own, shown) >= 1
    BY <2>5
  <2>10. Times(own, shown) > 1 => Times(own, platform[s]) >= Times(own, shown)
    BY <2>5, <2>7
  <2> QED BY <2>1, <2>8, <2>9, <2>10 DEF own
<1> QED BY <1>1, MirrorInvariant, RecordsInvariant, PTL

=============================================================================
