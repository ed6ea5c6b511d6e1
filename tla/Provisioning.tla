---------------------------- MODULE Provisioning ----------------------------
(***************************************************************************)
(* What the Sumago platform hears of a purchase, and what we show of the   *)
(* platform's users: the provision-user webhook and the sync job, the      *)
(* sumago_users mirror, the student's account overview.                    *)
(*                                                                         *)
(*   verifyPaymentForEnrollment, fireEnrollmentWebhook      enrollments/   *)
(*   createManualEnrollment, createInternalEnrollment   adminEnrollments/  *)
(*   buildRequestBody (attempts and outcomes: ExternalSync) externalApi/   *)
(*   sendTestWebhook, syncFromSumago                        webhooks/      *)
(*   getAccountOverview                                     auth/          *)
(*                                                                         *)
(* The platform's record of a student is the sequence of the transactions  *)
(* it was told (planHistory); every delivery it accepts appends to it, so  *)
(* its length stands for the version of the payload and for contentHash.   *)
(* A transaction is its id; last_synced_at, names and plans are left out,  *)
(* and so is webhook_deliveries, a log that is only listed and counted.    *)
(***************************************************************************)
EXTENDS Naturals, Sequences, SequencesExt

CONSTANTS
  Students,
  Payments,    \* purchases: an enrollment and the payment that may settle it
  Payer,       \* the student of each
  AdminMade,   \* those that an admin enters, without the gateway
  Syncs,       \* syncs that run at once
  MaxFired     \* bound: deliveries begun, attempts of a sync job included

\* A transaction is named for its purchase, or for the student of a test.
ASSUME ProvisioningAssumption ==
  /\ Payer \in [Payments -> Students] /\ AdminMade \subseteq Payments
  /\ Students \cap Payments = {}
  /\ MaxFired \in Nat \ {0}

VARIABLES
  settled,     \* the purchases whose enrollment is paid now
  success,     \* those whose payment has the status success now
  fired,       \* how many deliveries were begun
  inFlight,    \* deliveries to be sent
  platform,    \* external: planHistory of each user it has
  mirror,      \* the sumago_users table
  sync         \* the local variables of each syncFromSumago

provisioningVars == <<settled, success, fired, inFlight, platform, mirror, sync>>

-----------------------------------------------------------------------------

Absent == << >>   \* no user, no row: both have a transaction when they exist

NoSync == [pc |-> "idle", users |-> [s \in Students |-> Absent],
           known |-> [s \in Students |-> Absent], overlap |-> FALSE]

-----------------------------------------------------------------------------
(* Transaction ids: the gateway's payment id when there is one. *)

\* buildPayload draws one of its own for an admin's purchase.
WebhookId(p) == [of |-> p, form |-> IF p \in AdminMade THEN "random" ELSE "gateway"]

\* buildRequestBody makes one of the enrollment's code.
RequestId(p) == [of |-> p, form |-> IF p \in AdminMade THEN "code" ELSE "gateway"]

\* buildLocalTransactions knows the made-up order id of an admin's purchase; a
\* paid enrollment without a successful payment is a row under its code, without
\* the prefix that buildRequestBody gives it.
LocalId(p) == [of |-> p, form |-> IF p \in success \ AdminMade THEN "gateway" ELSE "local"]

Fire(via, s, id) ==
  [via |-> via, to |-> s, id |-> id, n |-> fired + 1]

-----------------------------------------------------------------------------
(* Deliveries *)

Dispatch(d) ==
  /\ fired < MaxFired
  /\ fired' = fired + 1
  /\ inFlight' = inFlight \cup {d}

\* The process may die between the commit and the first delivery.
SettleThen(p, d) ==
  /\ p \notin success
  /\ success' = success \cup {p} /\ settled' = settled \cup {p}
  /\ Dispatch(d) \/ UNCHANGED <<fired, inFlight>>
  /\ UNCHANGED <<platform, mirror, sync>>

\* A verification or the gateway's webhook settles the order and enqueues the
\* sync job: again, when the success was written over.
Settle(p) == p \notin AdminMade /\ SettleThen(p, Fire("sync", Payer[p], RequestId(p)))

\* A refused verification, a late payment.failed event or a reconciliation whose
\* list is old writes failed or expired by id: the enrollment stays paid.
Overwrite(p) ==
  /\ p \in success \ AdminMade
  /\ success' = success \ {p}
  /\ UNCHANGED <<settled, fired, inFlight, platform, mirror, sync>>

\* A plan selection that had read the enrollment before it was paid writes
\* payment_pending by id: the payment stays successful.
Reopen(p) ==
  /\ p \in settled \ AdminMade
  /\ settled' = settled \ {p}
  /\ UNCHANGED <<success, fired, inFlight, platform, mirror, sync>>

\* createManualEnrollment, createInternalEnrollment: settled at creation, then
\* fireAdminWebhook, awaited.
EnrollByAdmin(p) == p \in AdminMade /\ SettleThen(p, Fire("admin", Payer[p], WebhookId(p)))

\* verifyPayment has succeeded, for the first time or again (alreadySettled,
\* a second tab, a retry of the browser): the webhook is fired either way.
VerifyPayment(p) ==
  /\ p \in success \ AdminMade
  /\ Dispatch(Fire("webhook", Payer[p], WebhookId(p)))
  /\ UNCHANGED <<settled, success, platform, mirror, sync>>

\* The test button posts to the same URL, for whatever e-mail was typed in.
SendTestWebhook(s) ==
  /\ Dispatch(Fire("test", s, [of |-> s, form |-> "random"]))
  /\ UNCHANGED <<settled, success, platform, mirror, sync>>

\* triggerKommonSchoolSync, once the admin's webhook has ended either way.
ThenSync(d) ==
  IF d.via = "admin" THEN {[d EXCEPT !.via = "sync", !.id = RequestId(d.id.of)]} ELSE {}

\* The POST: the platform acts or does not, whatever becomes of its answer.
Post(d) ==
  /\ \/ platform' = [platform EXCEPT ![d.to] = Append(@, d.id)]
     \/ UNCHANGED platform
  /\ UNCHANGED <<settled, success, mirror, sync>>

\* executeWebhookDelivery, which nobody asks whether it succeeded.
Deliver(d) ==
  /\ d.via # "sync" /\ Post(d)
  /\ inFlight' = (inFlight \ {d}) \cup ThenSync(d)
  /\ UNCHANGED fired

\* An attempt of the sync job: it ends, or is to be attempted again.
AttemptSync(d) ==
  /\ d.via = "sync" /\ Post(d)
  /\ \/ inFlight' = inFlight \ {d} /\ UNCHANGED fired
     \/ fired < MaxFired /\ fired' = fired + 1 /\ UNCHANGED inFlight

\* A restart of the server loses the webhooks it had not sent, with
\* the sync that an admin's was to enqueue, and its syncs; jobs are kept.
Restart ==
  /\ inFlight' = {d \in inFlight : d.via = "sync"}
  /\ sync' = [k \in Syncs |-> NoSync]
  /\ UNCHANGED <<settled, success, fired, platform, mirror>>

-----------------------------------------------------------------------------
(* syncFromSumago *)

\* fetchUsers; when it fails, the page shows the mirror as it is.
SyncFetch(k) ==
  LET others == {o \in Syncs \ {k} : sync[o].pc \notin {"idle", "done"}} IN
  /\ sync[k].pc \in {"idle", "done"} /\ \E s \in Students : platform[s] # Absent
  /\ sync' = [o \in Syncs |->
       IF o = k THEN [NoSync EXCEPT !.pc = "read", !.users = platform,
                                    !.overlap = others # {}]
       ELSE IF o \in others THEN [sync[o] EXCEPT !.overlap = TRUE] ELSE sync[o]]
  /\ UNCHANGED <<settled, success, fired, inFlight, platform, mirror>>

\* The existing rows of the fetched e-mails.
SyncRead(k) ==
  /\ sync[k].pc = "read"
  /\ sync' = [sync EXCEPT ![k].pc = "insert", ![k].known = mirror]
  /\ UNCHANGED <<settled, success, fired, inFlight, platform, mirror>>

Inserts(k) == {s \in Students : sync[k].users[s] # Absent /\ sync[k].known[s] = Absent}
Updates(k) == {s \in Students : sync[k].users[s] # Absent /\ sync[k].known[s] # Absent
                                /\ sync[k].users[s] # sync[k].known[s]}

\* createMany with skipDuplicates.
SyncInsert(k) ==
  /\ sync[k].pc = "insert"
  /\ mirror' = [s \in Students |->
       IF s \in Inserts(k) /\ mirror[s] = Absent THEN sync[k].users[s] ELSE mirror[s]]
  /\ sync' = [sync EXCEPT ![k].pc = "update"]
  /\ UNCHANGED <<settled, success, fired, inFlight, platform>>

\* Mutant: rows that exist are never written again.
SyncUpdateNothing(k) ==
  /\ sync[k].pc = "update"
  /\ sync' = [sync EXCEPT ![k] = [NoSync EXCEPT !.pc = "done"]]
  /\ UNCHANGED <<settled, success, fired, inFlight, platform, mirror>>

\* The changed rows in one transaction, by primary key and unconditionally.
SyncUpdate(k) ==
  /\ sync[k].pc = "update"
  /\ mirror' = [s \in Students |-> IF s \in Updates(k) THEN sync[k].users[s] ELSE mirror[s]]
  /\ sync' = [sync EXCEPT ![k] = [NoSync EXCEPT !.pc = "done"]]
  /\ UNCHANGED <<settled, success, fired, inFlight, platform>>

-----------------------------------------------------------------------------
(* getAccountOverview *)

\* Paid enrollments, and successful payments whatever became of theirs.
OnRecord == settled \cup success
LocalTransactions(s) == {LocalId(p) : p \in {q \in OnRecord : Payer[q] = s}}

\* Mutant: the mirror's list replaces the local one as soon as there is one.
MirrorFirst(s) ==
  IF mirror[s] # Absent THEN mirror[s] ELSE SetToSeq(LocalTransactions(s))

\* planHistory of the mirror, and the local transactions it does not mention.
Overview(s) == mirror[s] \o SetToSeq(LocalTransactions(s) \ ToSet(mirror[s]))

-----------------------------------------------------------------------------

ProvisioningInit ==
  /\ settled = {} /\ success = {}
  /\ fired = 0
  /\ inFlight = {}
  /\ platform = [s \in Students |-> Absent]
  /\ mirror = [s \in Students |-> Absent]
  /\ sync = [k \in Syncs |-> NoSync]

ProvisioningNext ==
  \/ \E p \in Payments : Settle(p) \/ Overwrite(p) \/ Reopen(p) \/ VerifyPayment(p) \/ EnrollByAdmin(p)
  \/ \E s \in Students : SendTestWebhook(s)
  \/ \E d \in inFlight : Deliver(d) \/ AttemptSync(d)
  \/ Restart
  \/ \E k \in Syncs : SyncFetch(k) \/ SyncRead(k) \/ SyncInsert(k) \/ SyncUpdate(k)

ProvisioningSpec == ProvisioningInit /\ [][ProvisioningNext]_provisioningVars
=============================================================================
