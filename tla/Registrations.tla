---------------------------- MODULE Registrations ----------------------------
(***************************************************************************)
(* The enrollments of one e-mail address: the many ways a row comes into   *)
(* being, and which of them take over a row that exists.                   *)
(*                                                                         *)
(*   createEnrollment, createSelfServiceEnrollment    enrollments/         *)
(*   createDraftEnrollment, the draft's discard in                         *)
(*   createInternalEnrollment, createManualEnrollment adminEnrollments/    *)
(*   createSubmission of the contact form             contact/             *)
(*   enrollmentCleanup                                jobs/                *)
(*   selectForEnrollment                              plans/               *)
(*   the account of a student                         admin/users/         *)
(*   orders and settlement, in outline                module Payments      *)
(*                                                                         *)
(* One action is one statement, or one transaction when it locks the row   *)
(* it works on.  The database allows one live row in progress per address  *)
(* (index uniq_enrollments_email_inprogress).  Requests that are refused   *)
(* change nothing and are left out.                                        *)
(***************************************************************************)
EXTENDS Naturals, Sequences

CONSTANTS
  Emails,
  Visitors,     \* requests that run at once
  Nobody,
  MaxRows       \* bound

ASSUME RegistrationsAssumption == Nobody \notin Visitors /\ MaxRows \in Nat

VARIABLES
  table,      \* the enrollments table, in order of created_at
  visit,      \* the local variables of each request
  accounts,   \* e-mails in the users table, as deleted users too
  served,     \* history: the last answer to a successful public submission,
              \* if it went to somebody without an account
  web,        \* history: rows that a public submission of their e-mail
              \* inserted for somebody without an account, and whose onboarding
              \* neither died nor failed
  astray,     \* history: rows that went back to "submitted" with an order
              \* open or paid, or changed between the check and the delete of
              \* their discard
  crossed     \* history: rows that were settled after a plan selection, which
              \* went on, had looked at them

registrationsVars == <<table, visit, accounts, served, web, astray, crossed>>

-----------------------------------------------------------------------------

InProgress == {"submitted", "payment_pending"}

\* details: the request whose name and phone the row has.  order: what the
\* payments of the row are, "open" when one can still be settled, "paid" when
\* one has status success.
Row == [email : Emails, st : InProgress \cup {"paid", "expired"}, del : BOOLEAN,
        details : Visitors \cup {Nobody}, order : {"none", "open", "paid"}]

Ids == 1 .. Len(table)
Live(i, e) == ~table[i].del /\ table[i].email = e
LiveIds(e) == {i \in Ids : Live(i, e)}
Latest(S) == CHOOSE i \in S : \A j \in S : j <= i
HasOrder(i) == table[i].order # "none"
AlreadySettled(i) == table[i].st = "paid" \/ table[i].order = "paid"
OpenIds(e) == {i \in LiveIds(e) : table[i].st \in InProgress}

Strays(i, turns) == astray' = IF turns THEN astray \cup {i} ELSE astray

\* The unique index; it leaves deleted rows out.
Deleted(i) == i \in Ids /\ table[i].del
Unique(i, e, st) == st \in InProgress /\ ~Deleted(i) => OpenIds(e) \subseteq {i}

Insert(e, st, v) ==
  /\ Len(table) < MaxRows /\ Unique(Len(table) + 1, e, st)
  /\ table' = Append(table,
       [email |-> e, st |-> st, del |-> FALSE, details |-> v, order |-> "none"])

Away == [pc |-> "idle", row |-> 0, email |-> Nobody, details |-> Nobody, seen |-> "none"]
\* seen is history: the status a discard has read.
Enter(v, pc, i, e, d) ==
  /\ visit[v].pc = "idle"
  /\ visit' = [visit EXCEPT ![v] =
       [pc |-> pc, row |-> i, email |-> e, details |-> d,
        seen |-> IF pc = "discard" THEN table[i].st ELSE "none"]]
At(v, pc) == visit[v].pc = pc
Leave(v) == visit' = [visit EXCEPT ![v] = Away]

-----------------------------------------------------------------------------
(* createEnrollment *)

NoAnswer == [row |-> 0, email |-> Nobody, how |-> "none"]
Answer(i, e, how) ==
  served' = IF e \in accounts' THEN NoAnswer ELSE [row |-> i, email |-> e, how |-> how]

\* findRecentDuplicate: a row in status "submitted", with the same phone and
\* not older than five minutes, is the answer.
SubmitDuplicate(v, e) ==
  /\ At(v, "idle")
  /\ UNCHANGED <<table, visit, accounts, web, astray, crossed>>
  /\ \E i \in LiveIds(e) : table[i].st = "submitted" /\ Answer(i, e, "duplicate")

\* No duplicate, and findActiveByEmailForUpdate finds nothing either.
SubmitFindNone(v, e) ==
  /\ LiveIds(e) = {}
  /\ Enter(v, "insert", 0, e, Nobody)
  /\ UNCHANGED <<table, accounts, served, web, astray, crossed>>

\* The INSERT.  When another request was faster it fails, and the retry in the
\* catch fails with it: PostgreSQL has aborted the transaction.
SubmitInsert(v) ==
  /\ At(v, "insert")
  /\ \/ /\ Insert(visit[v].email, "submitted", v)
        /\ visit' = [visit EXCEPT ![v] = [@ EXCEPT !.pc = "onboard", !.row = Len(table')]]
        /\ web' = IF visit[v].email \in accounts THEN web ELSE web \cup {Len(table')}
     \/ /\ ~Unique(0, visit[v].email, "submitted")
        /\ Leave(v) /\ UNCHANGED <<table, web>>
  /\ UNCHANGED <<accounts, served, astray, crossed>>

Resume(v, e, refused) ==
  LET i  == Latest(LiveIds(e))
      st == IF table[i].st = "expired" THEN "submitted" ELSE table[i].st
  IN /\ LiveIds(e) # {} /\ ~refused /\ Unique(i, e, st)
     /\ table' = [table EXCEPT ![i] = [@ EXCEPT !.details = v, !.st = st]]
     /\ Strays(i, HasOrder(i) /\ st # table[i].st)
     /\ Enter(v, "onboard", i, e, Nobody)
     /\ UNCHANGED <<accounts, served, web, crossed>>

\* Mutant: only the status is looked at, not the payments.
ResumeByStatus(v, e) == Resume(v, e, table[Latest(LiveIds(e))].st = "paid")

\* The latest live row, locked, is taken over unless it is settled.
SubmitResume(v, e) == Resume(v, e, AlreadySettled(Latest(LiveIds(e))))

\* An existing user of the e-mail, a deleted one too, is left alone.
Provision(e) == accounts' = accounts \cup {e}

\* onboardNewEnrollment swallows its errors, and the customer is told of
\* success all the same.
OnboardFailed(v) ==
  /\ web' = web \ {visit[v].row} /\ UNCHANGED accounts
  /\ Answer(visit[v].row, visit[v].email, "failed")

\* Mutant: only new rows get an account.
OnboardNewRows(v) ==
  /\ At(v, "onboard")
  /\ \/ /\ IF visit[v].row \in web THEN Provision(visit[v].email) ELSE UNCHANGED accounts
        /\ Answer(visit[v].row, visit[v].email, "onboarded") /\ UNCHANGED web
     \/ OnboardFailed(v)
  /\ Leave(v)
  /\ UNCHANGED <<table, astray, crossed>>

\* onboardNewEnrollment of the controller, then the answer.
Onboard(v) ==
  /\ At(v, "onboard")
  /\ \/ /\ Provision(visit[v].email)
        /\ Answer(visit[v].row, visit[v].email, "onboarded") /\ UNCHANGED web
     \/ OnboardFailed(v)
  /\ Leave(v)
  /\ UNCHANGED <<table, astray, crossed>>

\* createUser and resendOnboarding of the admins.
CreateUser(e) ==
  /\ accounts' = accounts \cup {e}
  /\ UNCHANGED <<table, visit, served, web, astray, crossed>>

-----------------------------------------------------------------------------
(* createSelfServiceEnrollment: the student panel and the upgrade link *)

\* The identity of the latest enrollment.
SelfServiceRead(v, e) ==
  /\ LET L == LiveIds(e) IN
       Enter(v, "self", 0, e, IF L = {} THEN Nobody ELSE table[Latest(L)].details)
  /\ UNCHANGED <<table, accounts, served, web, astray, crossed>>

\* The draft starts again, whatever its payments are, its orders stay open; or
\* there is none.
SelfServiceWrite(v) ==
  LET e == visit[v].email IN
  /\ At(v, "self")
  /\ \/ /\ OpenIds(e) # {}
        /\ LET i == Latest(OpenIds(e)) IN
             /\ table' = [table EXCEPT ![i] =
                             [@ EXCEPT !.st = "submitted", !.details = visit[v].details]]
             /\ Strays(i, HasOrder(i))
     \/ OpenIds(e) = {} /\ Insert(e, "submitted", visit[v].details) /\ UNCHANGED astray
  /\ Leave(v)
  /\ UNCHANGED <<accounts, served, web, crossed>>

-----------------------------------------------------------------------------
(* The admin's wizard *)

\* createDraftEnrollment with the id of a draft: read, whatever its status.
DraftRead(v, i, e) ==
  /\ i \in Ids /\ ~table[i].del
  /\ Enter(v, "draft", i, e, Nobody)
  /\ UNCHANGED <<table, accounts, served, web, astray, crossed>>

\* Its identity is rewritten, the e-mail included, if the index allows it.
DraftUpdate(v) ==
  LET i == visit[v].row IN
  /\ At(v, "draft") /\ Unique(i, visit[v].email, table[i].st)
  /\ table' = [table EXCEPT ![i] = [@ EXCEPT !.email = visit[v].email, !.details = v]]
  /\ web' = IF table[i].email = visit[v].email THEN web ELSE web \ {i}
  /\ Leave(v)
  /\ UNCHANGED <<accounts, served, astray, crossed>>

\* A row of one statement; the index may refuse it.
InsertAtOnce(v, e, st) ==
  /\ At(v, "idle")
  /\ Insert(e, st, v)
  /\ UNCHANGED <<visit, accounts, served, web, astray, crossed>>

\* createDraftEnrollment without a draft.
InsertDraft(v, e) == InsertAtOnce(v, e, "submitted")

\* The lead of a contact form.  When the index refuses it, the message stays a
\* submission without a follow-up.
CreateSubmission(v, e) == InsertAtOnce(v, e, "submitted")

\* Always a new row.
CreateManualEnrollment(v, e) == InsertAtOnce(v, e, "paid")

\* Mutant: the draft is discarded whatever its status.
DiscardAny(v, i) ==
  /\ i \in Ids /\ ~table[i].del
  /\ Enter(v, "discard", i, table[i].email, Nobody)
  /\ UNCHANGED <<table, accounts, served, web, astray, crossed>>

\* createInternalEnrollment looks for its draft, still "submitted".
DiscardRead(v, i) ==
  /\ i \in Ids /\ ~table[i].del /\ table[i].st = "submitted"
  /\ Enter(v, "discard", i, table[i].email, Nobody)
  /\ UNCHANGED <<table, accounts, served, web, astray, crossed>>

\* It deletes draft and follow-ups in another transaction, without a look.
DiscardDelete(v) ==
  LET i == visit[v].row IN
  /\ At(v, "discard")
  /\ table' = [table EXCEPT ![i].del = TRUE]
  /\ Strays(i, table[i].st # visit[v].seen)
  /\ Leave(v)
  /\ UNCHANGED <<accounts, served, web, crossed>>

\* createInternalEnrollment, with a draft discarded in the transaction before or
\* without one: always a new row.
InsertInternal(v, e) == InsertAtOnce(v, e, "paid")

-----------------------------------------------------------------------------
(* The rest of a row's life *)

Crosses(i, settled) == crossed' = IF settled THEN crossed \cup {i} ELSE crossed

\* selectForEnrollment: it reads the row without a lock,
SelectRead(v, i) ==
  /\ i \in Ids /\ ~table[i].del /\ table[i].st # "paid"
  /\ Enter(v, "select", i, table[i].email, Nobody)
  /\ UNCHANGED <<table, accounts, served, web, astray, crossed>>

\* locks the payments that there are, none with success,
SelectLock(v) ==
  LET i == visit[v].row IN
  /\ At(v, "select") /\ table[i].order # "paid"
  /\ visit' = [visit EXCEPT ![v] = [@ EXCEPT !.pc = "stamp"]]
  /\ Crosses(i, table[i].st = "paid")
  /\ UNCHANGED <<table, accounts, served, web, astray>>

\* and writes the row by its id, whatever became of it since: an order made
\* after the lock may have been settled.
SelectWrite(v) ==
  LET i == visit[v].row IN
  /\ At(v, "stamp") /\ Unique(i, table[i].email, "payment_pending")
  /\ table' = [table EXCEPT ![i].st = "payment_pending"]
  /\ Leave(v)
  /\ UNCHANGED <<accounts, served, web, astray, crossed>>

\* createOrder, under the row's lock.  An enrollment that is not settled has a
\* plan exactly while its status is payment_pending.
CreateOrder(i) ==
  /\ i \in Ids /\ ~table[i].del /\ ~AlreadySettled(i) /\ table[i].st = "payment_pending"
  /\ table' = [table EXCEPT ![i].order = "open"]
  /\ UNCHANGED <<visit, accounts, served, web, astray, crossed>>

Selecting(i) == \E v \in Visitors : At(v, "stamp") /\ visit[v].row = i

\* settlePayment of an order, by primary key.
Settle(i) ==
  /\ i \in Ids /\ HasOrder(i)
  /\ table' = [table EXCEPT ![i] = [@ EXCEPT !.st = "paid", !.order = "paid"]]
  /\ Crosses(i, Selecting(i))
  /\ UNCHANGED <<visit, accounts, served, web, astray>>

\* A late failed verification or reconciliation writes over the success.
Overwrite(i) ==
  /\ i \in Ids /\ table[i].order = "paid"
  /\ table' = [table EXCEPT ![i].order = "open"]
  /\ UNCHANGED <<visit, accounts, served, web, astray, crossed>>

\* enrollmentCleanup.
Expire(i) ==
  /\ i \in Ids /\ ~table[i].del /\ table[i].st = "submitted"
  /\ table' = [table EXCEPT ![i].st = "expired"]
  /\ UNCHANGED <<visit, accounts, served, web, astray, crossed>>

\* The process dies, or a statement fails.
Crash(v) ==
  /\ ~At(v, "idle")
  /\ web' = IF At(v, "onboard") THEN web \ {visit[v].row} ELSE web
  /\ Leave(v)
  /\ UNCHANGED <<table, accounts, served, astray, crossed>>

-----------------------------------------------------------------------------

RegistrationsInit ==
  /\ table = << >>
  /\ visit = [v \in Visitors |-> Away]
  /\ accounts \in SUBSET Emails /\ served = NoAnswer
  /\ web = {} /\ astray = {} /\ crossed = {}

RegistrationsNext ==
  \/ \E v \in Visitors :
       \/ SubmitInsert(v) \/ Onboard(v) \/ SelfServiceWrite(v)
       \/ DraftUpdate(v) \/ DiscardDelete(v) \/ Crash(v)
       \/ SelectLock(v) \/ SelectWrite(v)
       \/ \E e \in Emails :
            \/ SubmitDuplicate(v, e) \/ SubmitFindNone(v, e) \/ SubmitResume(v, e)
            \/ SelfServiceRead(v, e) \/ InsertDraft(v, e) \/ CreateSubmission(v, e)
            \/ CreateManualEnrollment(v, e) \/ InsertInternal(v, e)
            \/ \E i \in Ids : DraftRead(v, i, e)
       \/ \E i \in Ids : DiscardRead(v, i) \/ SelectRead(v, i)
  \/ \E i \in Ids : CreateOrder(i) \/ Settle(i) \/ Overwrite(i) \/ Expire(i)
  \/ \E e \in Emails : CreateUser(e)

RegistrationsSpec == RegistrationsInit /\ [][RegistrationsNext]_registrationsVars
=============================================================================
