------------------------------- MODULE Leads --------------------------------
(***************************************************************************)
(* Leads and their follow-ups: rows that several requests create, read,    *)
(* write and annotate, each in statements of its own.                      *)
(*                                                                         *)
(*   modules/followups             the rows, their status and their notes  *)
(*   modules/employee/leads        the portal of the lead's owner          *)
(*   modules/admin/employees       who owns a lead                         *)
(*   payment.service verifyPayment converts the follow-ups of a paid lead  *)
(*   queues/workers/externalApi    reports a dead-lettered lead            *)
(***************************************************************************)
EXTENDS Naturals, SequencesExt

CONSTANTS
  LeadIds,        \* enrollments
  Employees,
  Unset,          \* NULL: no owner, no date
  Dates,          \* next_followup_date
  Outcomes,       \* the statuses that users ask for
  LeadRequests,   \* requests under way
  MaxRequests     \* bound: how many requests there are in all

ASSUME LeadsAssumption == IsFiniteSet(LeadIds) /\ LeadIds # {}

VARIABLES
  followups,   \* the rows, in order of creation
  owner,       \* enrollments.assigned_to
  paid, gone,  \* the leads with status 'paid', with deleted_at set
  staff,       \* the employees who are not deleted
  request,     \* the locals of each request, and its next statement: pc
  begun,       \* how many requests there were
  tangled,        \* history: the rows that requests wrote in overlapping steps,
  raced        \*   the leads that two requests found without a row

leadVars == <<followups, owner, paid, gone, staff, request, begun, tangled, raced>>

-----------------------------------------------------------------------------

Terminal == {"payment_completed", "followup_closed", "converted", "closed"}

\* The statuses of the first release, all that PATCH /followups/:id accepts.
FirstStatuses ==
  {"payment_pending", "call_back_later", "interested", "not_interested",
   "payment_completed", "followup_closed", "invalid_number", "no_response"}

LiveRows(f) == ~followups[f].deleted
LiveOf(l) == {f \in DOMAIN followups : followups[f].lead = l /\ LiveRows(f)}

\* findActiveForEnrollment knows two of the four terminal statuses.
Active(l) == {f \in LiveOf(l) : followups[f].status \notin {"payment_completed", "followup_closed"}}

Idle == [pc |-> "idle"]
Goto(r, next) == request' = [request EXCEPT ![r] = next]
RequestAt(r, pc) == request[r].pc = pc
Begin(r, first) ==
  /\ RequestAt(r, "idle") /\ begun < MaxRequests
  /\ begun' = begun + 1
  /\ Goto(r, first)
Ensure(lead, goal, born) == [pc |-> "ensure", lead |-> lead, goal |-> goal, born |-> born]

\* A status to set and a date: a date, Unset to clear it, or "keep".
Patches(statuses) == [to : statuses, date : Dates \cup {Unset, "keep"}]

-----------------------------------------------------------------------------

\* createEnrollment, the contact form and the draft wizard.
SubmitLead(r, l) ==
  /\ l \notin gone \cup paid
  /\ Begin(r, Ensure(l, [kind |-> "none"], "new"))
  /\ UNCHANGED <<followups, owner, paid, gone, staff, tangled, raced>>

\* The worker's failed handler, after the last attempt.
DeadLetter(r, l) ==
  /\ l \in paid
  /\ Begin(r, Ensure(l, [kind |-> "deadLetter"], "payment_pending"))
  /\ UNCHANGED <<followups, owner, paid, gone, staff, tangled, raced>>

\* loadOwnedEnrollment, before what the portal does with a lead.
OwnerActs(r, l, e, goal) ==
  /\ l \notin gone /\ owner[l] = e
  /\ Begin(r, Ensure(l, goal, "payment_pending"))
  /\ UNCHANGED <<followups, owner, paid, gone, staff, tangled, raced>>

OwnerNotes(r, l, e) == OwnerActs(r, l, e, [kind |-> "note"])

\* updateStatusAndSchedule: a PATCH without a date clears it, and one without a
\* status keeps the status that the follow-up will be found with.
OwnerUpdates(r, l, e, goal) == goal.date # "keep" /\ OwnerActs(r, l, e, goal)

\* PATCH /followups/:id/status, its notes and its payment retry.
StaffActs(r, f, goal) ==
  /\ goal.kind = "status" => goal.to \in FirstStatuses /\ goal.date # Unset
  /\ Begin(r, [pc |-> "read", f |-> f, goal |-> goal])
  /\ UNCHANGED <<followups, owner, paid, gone, staff, tangled, raced>>

\* What the caller does with the row it has ensured.
Continue(r, f) ==
  LET goal == request[r].goal
  IN Goto(r, IF goal.kind \in {"none", "deadLetter"} THEN Idle
             ELSE [pc |-> "read", f |-> f,
                   goal |-> IF goal.kind = "status" /\ goal.to = "same"
                            THEN [kind |-> "status", to |-> followups'[f].status, date |-> goal.date]
                            ELSE goal])

-----------------------------------------------------------------------------

\* Mutant: the row is created without looking for one.
EnsureBlindly(r) ==
  /\ RequestAt(r, "ensure")
  /\ Goto(r, [request[r] EXCEPT !.pc = "create"])
  /\ UNCHANGED <<followups, owner, paid, gone, staff, begun, tangled, raced>>

\* autoCreateFromDeadLetter: findFirst, the newest row first.
EnsureFollowup(r) ==
  /\ RequestAt(r, "ensure")
  /\ LET l == request[r].lead
         found == Active(l)
     IN \/ /\ found # {}
           /\ UNCHANGED <<followups, raced>>
           /\ Continue(r, CHOOSE f \in found : \A g \in found : g <= f)
        \/ /\ found = {}
           /\ Goto(r, [request[r] EXCEPT !.pc = "create"])
           /\ raced' = IF \E q \in LeadRequests : RequestAt(q, "create") /\ request[q].lead = l
                       THEN raced \cup {l} ELSE raced
           /\ UNCHANGED followups
  /\ UNCHANGED <<owner, paid, gone, staff, begun, tangled>>

CreateFollowup(r) ==
  /\ RequestAt(r, "create")
  /\ followups' = Append(followups, [lead |-> request[r].lead, status |-> request[r].born,
                                     due |-> Unset, deleted |-> FALSE, notes |-> <<>>])
  /\ Continue(r, Len(followups) + 1)
  /\ UNCHANGED <<owner, paid, gone, staff, begun, tangled, raced>>

\* Somebody else is between the read and the last note of this row.
Overlapped(r, f) ==
  \E q \in LeadRequests \ {r} : request[q].pc \in {"update", "notes"} /\ request[q].f = f

\* Mutant: the terminal statuses of the first release only.
ReadKnowsTwoStatuses(r) ==
  /\ RequestAt(r, "read")
  /\ LET f == request[r].f
         goal == request[r].goal
     IN IF \/ followups[f].deleted \/ goal.kind # "status"
           \/ followups[f].status \in {"payment_completed", "followup_closed"}
        THEN Goto(r, Idle) /\ UNCHANGED tangled
        ELSE /\ tangled' = IF Overlapped(r, f) THEN tangled \cup {f} ELSE tangled
             /\ Goto(r, [pc |-> "update", f |-> f, goal |-> goal,
                         from |-> followups[f].status, fromDate |-> followups[f].due])
  /\ UNCHANGED <<followups, owner, paid, gone, staff, begun, raced>>

\* updateStatus, addNote, triggerPaymentRetry: findFollowupById and the
\* terminal guard.
ReadFollowup(r) ==
  /\ RequestAt(r, "read")
  /\ LET f == request[r].f
         goal == request[r].goal
         row == followups[f]
     IN IF row.deleted \/ row.status \in Terminal
        THEN Goto(r, Idle) /\ UNCHANGED tangled
        ELSE /\ tangled' = IF Overlapped(r, f) THEN tangled \cup {f} ELSE tangled
             /\ Goto(r, CASE goal.kind = "status" ->
                               [pc |-> "update", f |-> f, goal |-> goal,
                                from |-> row.status, fromDate |-> row.due]
                          [] goal.kind = "note" ->
                               [pc |-> "notes", f |-> f, todo |-> <<[kind |-> "note"]>>]
                          [] goal.kind = "retry" -> [pc |-> "order", f |-> f])
  /\ UNCHANGED <<followups, owner, paid, gone, staff, begun, raced>>

\* Mutant: no note of a change that closes the row.
UpdateClosesSilently(r) ==
  /\ RequestAt(r, "update")
  /\ LET q == request[r]
     IN /\ followups' = [followups EXCEPT ![q.f].status = q.goal.to]
        /\ Goto(r, IF q.goal.to \in Terminal \cup {q.from} THEN Idle
                   ELSE [pc |-> "notes", f |-> q.f,
                         todo |-> <<[kind |-> "status", from |-> q.from, to |-> q.goal.to]>>])
  /\ UNCHANGED <<owner, paid, gone, staff, begun, tangled, raced>>

\* updateStatus: the write looks at nothing but the id, and the notes to add
\* are those of the row as it was read.
UpdateFollowup(r) ==
  /\ RequestAt(r, "update")
  /\ LET q == request[r]
         dated == q.goal.date # "keep"
         todo == (IF q.from # q.goal.to
                  THEN <<[kind |-> "status", from |-> q.from, to |-> q.goal.to]>> ELSE <<>>)
                 \o (IF dated /\ q.fromDate # q.goal.date THEN <<[kind |-> "schedule"]>> ELSE <<>>)
     IN /\ followups' = [followups EXCEPT ![q.f] =
             [@ EXCEPT !.status = q.goal.to,
                       !.due = IF dated THEN q.goal.date ELSE followups[q.f].due]]
        /\ Goto(r, IF todo = <<>> THEN Idle ELSE [pc |-> "notes", f |-> q.f, todo |-> todo])
  /\ UNCHANGED <<owner, paid, gone, staff, begun, tangled, raced>>

\* appendNote; the audit record of a status change follows the last note.
AppendNote(r) ==
  /\ RequestAt(r, "notes")
  /\ LET q == request[r]
     IN /\ followups' = [followups EXCEPT ![q.f].notes = Append(@, Head(q.todo))]
        /\ Goto(r, IF Len(q.todo) = 1 THEN Idle ELSE [pc |-> "notes", f |-> q.f, todo |-> Tail(q.todo)])
  /\ UNCHANGED <<owner, paid, gone, staff, begun, tangled, raced>>

\* triggerPaymentRetry: createOrder refuses a paid or deleted enrollment.
RetryPayment(r) ==
  /\ RequestAt(r, "order")
  /\ LET f == request[r].f
     IN Goto(r, IF followups[f].lead \in paid \cup gone THEN Idle
                ELSE [pc |-> "notes", f |-> f, todo |-> <<[kind |-> "retry"]>>])
  /\ UNCHANGED <<followups, owner, paid, gone, staff, begun, tangled, raced>>

-----------------------------------------------------------------------------

\* settlePayment, called by a verification or by the webhook: only the
\* verification goes on to convert the follow-ups.
SettleOrder(r, l) ==
  /\ l \notin paid
  /\ paid' = paid \cup {l}
  /\ Begin(r, Idle) \/ Begin(r, [pc |-> "convert", lead |-> l])
  /\ UNCHANGED <<followups, owner, gone, staff, tangled, raced>>

\* verifyPayment: one updateMany, without a note; a lost lead stays lost.
ConvertFollowups(r) ==
  /\ RequestAt(r, "convert")
  /\ LET open == {f \in LiveOf(request[r].lead) :
                    followups[f].status \notin Terminal \cup {"lost"}}
     IN /\ followups' = [f \in DOMAIN followups |->
             IF f \in open THEN [followups[f] EXCEPT !.status = "converted"] ELSE followups[f]]
        /\ tangled' = tangled \cup {f \in open : Overlapped(r, f)}
  /\ Goto(r, Idle)
  /\ UNCHANGED <<owner, paid, gone, staff, begun, raced>>

\* createInternalEnrollment discards the wizard's draft: one transaction.
DiscardDraft(l) ==
  /\ l \notin gone \cup paid
  /\ gone' = gone \cup {l}
  /\ followups' = [f \in DOMAIN followups |->
       IF followups[f].lead = l THEN [followups[f] EXCEPT !.deleted = TRUE] ELSE followups[f]]
  /\ UNCHANGED <<owner, paid, staff, request, begun, tangled, raced>>

\* assignEnrollment: the lead is read, then the employee, then one transaction
\* writes.
BeginAssign(r, l, e) ==
  /\ l \notin gone /\ e # owner[l]
  /\ Begin(r, [pc |-> "employee", lead |-> l, to |-> e, rest |-> <<>>])
  /\ UNCHANGED <<followups, owner, paid, gone, staff, tangled, raced>>

\* bulkAssignEnrollments checks the employee up front; its leads then go through
\* assignEnrollment one by one, and a lead that fails is only reported.
BeginBulkAssign(r, leads, e) ==
  /\ e \in staff \cup {Unset}
  /\ Begin(r, [pc |-> "bulk", to |-> e, rest |-> leads])
  /\ UNCHANGED <<followups, owner, paid, gone, staff, tangled, raced>>

AfterLead(to, rest) == IF rest = <<>> THEN Idle ELSE [pc |-> "bulk", to |-> to, rest |-> rest]

BulkNext(r) ==
  /\ RequestAt(r, "bulk")
  /\ LET q == request[r]
         l == Head(q.rest)
     IN Goto(r, IF l \notin gone /\ q.to # owner[l]
                THEN [pc |-> "employee", lead |-> l, to |-> q.to, rest |-> Tail(q.rest)]
                ELSE AfterLead(q.to, Tail(q.rest)))
  /\ UNCHANGED <<followups, owner, paid, gone, staff, begun, tangled, raced>>

CheckEmployee(r) ==
  /\ RequestAt(r, "employee")
  /\ Goto(r, IF request[r].to \in staff \cup {Unset}
             THEN [request[r] EXCEPT !.pc = "assign"]
             ELSE AfterLead(request[r].to, request[r].rest))
  /\ UNCHANGED <<followups, owner, paid, gone, staff, begun, tangled, raced>>

Assign(r) ==
  /\ RequestAt(r, "assign")
  /\ owner' = [owner EXCEPT ![request[r].lead] = request[r].to]
  /\ Goto(r, AfterLead(request[r].to, request[r].rest))
  /\ UNCHANGED <<followups, paid, gone, staff, begun, tangled, raced>>

\* deleteUser: the leads of a deleted employee keep their owner.
DeleteEmployee(e) ==
  /\ e \in staff /\ staff' = staff \ {e}
  /\ UNCHANGED <<followups, owner, paid, gone, request, begun, tangled, raced>>

\* A statement fails or the process dies; every caller gives up.
Abandon(r) ==
  /\ ~RequestAt(r, "idle") /\ Goto(r, Idle)
  /\ tangled' = IF request[r].pc = "notes" THEN tangled \cup {request[r].f} ELSE tangled
  /\ UNCHANGED <<followups, owner, paid, gone, staff, begun, raced>>

-----------------------------------------------------------------------------

LeadsInit ==
  /\ followups = <<>>
  /\ owner = [l \in LeadIds |-> Unset]
  /\ paid = {} /\ gone = {}
  /\ staff = Employees
  /\ request = [r \in LeadRequests |-> Idle]
  /\ begun = 0
  /\ tangled = {} /\ raced = {}

\* What the two surfaces let a user ask for.
StatusGoals ==
  {[kind |-> "status", to |-> p.to, date |-> p.date] : p \in Patches(Outcomes \cup {"same"})}
Goals == StatusGoals \cup {[kind |-> "note"]}

LeadsNext ==
  \/ \E r \in LeadRequests, l \in LeadIds :
       \/ SubmitLead(r, l) \/ DeadLetter(r, l) \/ SettleOrder(r, l)
       \/ \E e \in Employees :
            OwnerNotes(r, l, e) \/ \E goal \in StatusGoals : OwnerUpdates(r, l, e, goal)
       \/ \E e \in Employees \cup {Unset} : BeginAssign(r, l, e)
  \/ \E r \in LeadRequests, leads \in SetToSeqs(LeadIds), e \in Employees \cup {Unset} :
       BeginBulkAssign(r, leads, e)
  \/ \E r \in LeadRequests, f \in DOMAIN followups :
       \E goal \in Goals \cup {[kind |-> "retry"]} : StaffActs(r, f, goal)
  \/ \E r \in LeadRequests :
       \/ EnsureFollowup(r) \/ CreateFollowup(r)
       \/ ReadFollowup(r) \/ UpdateFollowup(r) \/ AppendNote(r) \/ RetryPayment(r)
       \/ ConvertFollowups(r) \/ BulkNext(r) \/ CheckEmployee(r) \/ Assign(r) \/ Abandon(r)
  \/ \E l \in LeadIds : DiscardDraft(l)
  \/ \E e \in Employees : DeleteEmployee(e)

LeadsSpec == LeadsInit /\ [][LeadsNext]_leadVars
=============================================================================
