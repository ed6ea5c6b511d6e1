---------------------------- MODULE WebhookInbox ----------------------------
(***************************************************************************)
(* The webhook_events inbox: Razorpay's deliveries, the handler of each,   *)
(* and the retry job that replays what was not processed, under the Redis  *)
(* lock that all cron jobs use.                                            *)
(*                                                                         *)
(*   handle, processEvent, replayEvent   razorpay/webhook.controller.js    *)
(*   run                                 jobs/webhookRetry.job.js          *)
(*   runJob                              jobs/index.js                     *)
(*   withLock                            utils/distributedLock.js          *)
(*                                                                         *)
(* The events are those of a captured payment, payment.captured and        *)
(* order.paid; several may tell of one payment.  Module Payments has the   *)
(* settlement itself and the payment.failed events.  A process runs one    *)
(* handler and one run of the job at a time.  Time is what is left of the  *)
(* lock's time to live, and the age of each run.                           *)
(***************************************************************************)
EXTENDS Naturals, Sequences, FiniteSets

CONSTANTS
  Paid,            \* the payments events can tell of
  MaxEvents,       \* bound: events that Razorpay sends
  Servers,         \* server processes
  Nobody,
  LockTtl,         \* lockTtlMs
  MaxTries,        \* WEBHOOK_RETRY_MAX_ATTEMPTS, 5
  Batch,           \* WEBHOOK_RETRY_BATCH_SIZE, 50
  MaxFaults        \* bound: crashes and failing statements

ASSUME WebhookInboxAssumption ==
  /\ MaxEvents \in Nat
  /\ Nobody \notin Servers
  /\ LockTtl \in Nat \ {0} /\ MaxTries \in Nat \ {0} /\ Batch \in Nat \ {0}
  /\ MaxFaults \in Nat

VARIABLES
  event,     \* the webhook_events rows, oldest first: an event is named by its place
  settled,   \* payments settled by one of the events
  handed,    \* how often each payment was handed to the external sync
  lost,      \* history: payments whose process died between the two
  holder, ttl,   \* the Redis key of the job's lock, and its time to live
  work,      \* what the handler and the run of each process are doing
  faults

inboxVars == <<event, settled, handed, lost, holder, ttl,
               work, faults>>
database == <<event, settled, handed>>
redis == <<holder, ttl>>

-----------------------------------------------------------------------------

\* Each process has a handler and a run of the job; both work on `todo`, event
\* by event and the oldest first.
Kinds == {"handler", "run"}
Work == [pc : {"idle", "select", "process", "enqueue", "mark", "count", "release"},
         todo : SUBSET (1 .. MaxEvents), age : 0 .. LockTtl]
Resting == [pc |-> "idle", todo |-> {}, age |-> 0]

At(s, k, pc) == work[s][k].pc = pc
Goto(s, k, pc) == work' = [work EXCEPT ![s][k].pc = pc]
Oldest(rows) == CHOOSE e \in rows : \A f \in rows : e <= f
Current(s, k) == Oldest(work[s][k].todo)
NextEvent(s, k) ==
  LET rest == work[s][k].todo \ {Current(s, k)} IN
  work' = [work EXCEPT ![s][k] =
    IF rest # {} THEN [@ EXCEPT !.todo = rest, !.pc = "process"]
    ELSE IF k = "run" THEN [@ EXCEPT !.todo = {}, !.pc = "release"]
    ELSE Resting]

\* Mutant: alreadySettled is not looked at.
ProcessAgain(s, k) ==
  /\ At(s, k, "process")
  /\ settled' = settled \cup {event[Current(s, k)].pay}
  /\ Goto(s, k, "enqueue")
  /\ UNCHANGED <<event, handed, lost, redis, faults>>

\* settlePayment, one Serializable transaction: it throws, or it settles the
\* payment, or finds it settled, in which case nothing is enqueued.  An event
\* with another amount throws every time: one of the behaviours.
Process(s, k) ==
  LET p == event[Current(s, k)].pay IN
  /\ At(s, k, "process")
  /\ \/ Goto(s, k, "count") /\ UNCHANGED settled
     \/ /\ settled' = settled \cup {p}
        /\ Goto(s, k, IF p \in settled THEN "mark" ELSE "enqueue")
  /\ UNCHANGED <<event, handed, lost, redis, faults>>

\* enqueueExternalApiSync, or its inline fallback.
Enqueue(s, k) ==
  /\ At(s, k, "enqueue")
  /\ handed' = [handed EXCEPT ![event[Current(s, k)].pay] = @ + 1]
  /\ Goto(s, k, "mark")
  /\ UNCHANGED <<event, settled, lost, redis, faults>>

Counted(row, done) ==
  [pay |-> row.pay, processed |-> done, attempts |-> row.attempts + 1]

\* The row is marked as processed and its attempts are counted.
MarkProcessed(s, k) ==
  /\ At(s, k, "mark")
  /\ event' = [event EXCEPT ![Current(s, k)] = Counted(@, TRUE)]
  /\ NextEvent(s, k)
  /\ UNCHANGED <<settled, handed, lost, redis, faults>>

\* Mutant: a failure is not counted.
CountNothing(s, k) ==
  /\ At(s, k, "count")
  /\ NextEvent(s, k)
  /\ UNCHANGED <<database, lost, redis, faults>>

\* The catch of both: only the attempts are counted.
CountFailure(s, k) ==
  /\ At(s, k, "count")
  /\ event' = [event EXCEPT ![Current(s, k)] = Counted(@, @.processed)]
  /\ NextEvent(s, k)
  /\ UNCHANGED <<settled, handed, lost, redis, faults>>

\* What handle does after the INSERT, answering 200 in any case; what run
\* does with each row.
Statement(s, k) ==
  Process(s, k) \/ Enqueue(s, k) \/ MarkProcessed(s, k) \/ CountFailure(s, k)

-----------------------------------------------------------------------------
(* Deliveries *)

\* handle, up to the INSERT.  A repeated delivery fails on the unique
\* event_id and is answered with 200 whatever became of the first: no change.
Deliver(s, p) ==
  /\ Len(event) < MaxEvents /\ At(s, "handler", "idle")
  /\ event' = Append(event, [pay |-> p, processed |-> FALSE, attempts |-> 0])
  /\ work' = [work EXCEPT ![s]["handler"] =
                [pc |-> "process", todo |-> {Len(event')}, age |-> 0]]
  /\ UNCHANGED <<settled, handed, lost, redis, faults>>

-----------------------------------------------------------------------------
(* The retry job *)

\* runJob and acquireLock: SET key id PX ttl NX, else the run is skipped.
AcquireLock(s) ==
  /\ At(s, "run", "idle") /\ holder = Nobody
  /\ holder' = s /\ ttl' = LockTtl
  /\ Goto(s, "run", "select")
  /\ UNCHANGED <<database, lost, faults>>

\* The oldest unprocessed events with attempts left, those that a handler has
\* just inserted and is working on included.
Select(s) ==
  LET open == {e \in 1 .. Len(event) : ~event[e].processed /\ event[e].attempts < MaxTries}
      rows == {e \in open : Cardinality({f \in open : f < e}) < Batch}
  IN /\ At(s, "run", "select")
     /\ work' = [work EXCEPT ![s]["run"].todo = rows,
                    ![s]["run"].pc = IF rows = {} THEN "release" ELSE "process"]
     /\ UNCHANGED <<database, lost, redis, faults>>

\* Mutant: DEL without comparing the owner.
ReleaseAny(s) ==
  /\ At(s, "run", "release")
  /\ holder' = Nobody /\ ttl' = 0
  /\ work' = [work EXCEPT ![s]["run"] = Resting]
  /\ UNCHANGED <<database, lost, faults>>

\* releaseLock: the script deletes the key only if it still is the caller's.
ReleaseLock(s) ==
  /\ At(s, "run", "release")
  /\ holder' = IF holder = s THEN Nobody ELSE holder
  /\ ttl' = IF holder = s THEN 0 ELSE ttl
  /\ work' = [work EXCEPT ![s]["run"] = Resting]
  /\ UNCHANGED <<database, lost, faults>>

-----------------------------------------------------------------------------
(* Time and faults *)

PassTtl ==
  /\ ttl > 0
  /\ ttl' = ttl - 1
  /\ holder' = IF ttl = 1 THEN Nobody ELSE holder
  /\ work' = [s \in Servers |->
       IF At(s, "run", "idle") \/ work[s]["run"].age = LockTtl THEN work[s]
       ELSE [work[s] EXCEPT !["run"].age = @ + 1]]
  /\ UNCHANGED <<database, lost, faults>>

Fault == faults < MaxFaults /\ faults' = faults + 1

\* The process dies; its lock stays until it expires.
Crash(s) ==
  /\ Fault /\ \E k \in Kinds : work[s][k] # Resting
  /\ lost' = lost \cup {event[Current(s, k)].pay : k \in {j \in Kinds : At(s, j, "enqueue")}}
  /\ work' = [work EXCEPT ![s] = [k \in Kinds |-> Resting]]
  /\ UNCHANGED <<database, redis>>

\* The row is not marked: an attempt is counted although the event was served.
MarkFails(s, k) ==
  /\ Fault
  /\ At(s, k, "mark") /\ Goto(s, k, "count")
  /\ UNCHANGED <<database, lost, redis>>

\* The catch fails in its turn: handle throws.
HandleFails(s) ==
  /\ Fault
  /\ At(s, "handler", "count")
  /\ work' = [work EXCEPT ![s]["handler"] = Resting]
  /\ UNCHANGED <<database, lost, redis>>

\* A statement of the job that nothing catches: runJob logs job_failed.
RunFails(s) ==
  /\ Fault
  /\ work[s]["run"].pc \in {"select", "count"}
  /\ work' = [work EXCEPT ![s]["run"].pc = "release", ![s]["run"].todo = {}]
  /\ UNCHANGED <<database, lost, redis>>

\* The release fails and is only logged: the key stays until it expires.
ReleaseFails(s) ==
  /\ Fault
  /\ At(s, "run", "release")
  /\ work' = [work EXCEPT ![s]["run"] = Resting]
  /\ UNCHANGED <<database, lost, redis>>

-----------------------------------------------------------------------------

InboxInit ==
  /\ event = << >>
  /\ settled = {} /\ handed = [p \in Paid |-> 0] /\ lost = {}
  /\ holder = Nobody /\ ttl = 0
  /\ work = [s \in Servers |-> [k \in Kinds |-> Resting]]
  /\ faults = 0

InboxNext ==
  \/ \E s \in Servers :
       \/ \E p \in Paid : Deliver(s, p)
       \/ \E k \in Kinds : Statement(s, k) \/ MarkFails(s, k)
       \/ AcquireLock(s) \/ Select(s) \/ ReleaseLock(s)
       \/ Crash(s) \/ HandleFails(s) \/ RunFails(s) \/ ReleaseFails(s)
  \/ PassTtl

\* The cron ticks go on, time passes, and a run goes on unless its process
\* dies.  Nothing is asked of the handlers.
InboxFairness ==
  /\ WF_inboxVars(PassTtl)
  /\ WF_inboxVars(\E s \in Servers : AcquireLock(s))
  /\ \A s \in Servers :
       WF_inboxVars(Select(s) \/ Statement(s, "run") \/ ReleaseLock(s))

InboxSpec == InboxInit /\ [][InboxNext]_inboxVars /\ InboxFairness
=============================================================================
