---------------------------- MODULE ExternalSync ----------------------------
(***************************************************************************)
(* The push of one paid enrollment to the external platform: the column    *)
(* external_sync_status, the rows of external_api_logs, the BullMQ queue   *)
(* and everything that works on them.                                      *)
(*                                                                         *)
(*   syncEnrollment, syncEnrollmentInBackground                            *)
(*                              externalApi/external.service.js            *)
(*   the worker and its failed handler   queues/workers/                   *)
(*   the retry sweeper          jobs/externalApiRetry.job.js               *)
(*   Retry sync                 admin/adminEnrollments/                    *)
(*   the settlement's hand-off  payments/, razorpay/, jobs/                *)
(*                                                                         *)
(* A session is one running handler, worker slot or sweep.  One action is  *)
(* one SQL statement, one queue command or one HTTP call.  The log rows    *)
(* are numbered in the order of their created_at.                          *)
(***************************************************************************)
EXTENDS Naturals, Sequences, FiniteSets

CONSTANTS
  Sessions,        \* handlers, worker slots and sweeps that may run at once
  RetryJobs,       \* uuid job ids that can be alive at the same time
  Main,            \* the job id that is the enrollment's own id
  None,            \* no job
  MaxAttempts,     \* defaultJobOptions.attempts
  MaxSettlements,  \* bounds: successful payments of the enrollment,
  MaxRetrySyncs,   \*   presses of the Retry sync button,
  MaxFaults,       \*   calls to the queue and the platform that go wrong,
  MaxBroken        \*   statements that fail or at which a process crashes

ASSUME JobsAssumption == Main \notin RetryJobs /\ None \notin RetryJobs \cup {Main}
ASSUME BoundsAssumption ==
  /\ MaxAttempts \in Nat \ {0}
  /\ MaxSettlements \in Nat /\ MaxRetrySyncs \in Nat
  /\ MaxFaults \in Nat /\ MaxBroken \in Nat

VARIABLES
  sync,     \* enrollments.external_sync_status
  logs,     \* status of each row of external_api_logs, oldest first
  job,      \* the queue
  known,    \* TRUE when the external platform has the enrollment
  pc,       \* the statement each session is about to run
  loc,      \* the local variables of each session
  used,     \* how much of each bound is used up
  broken    \* the statements that have failed or broken, each at most once

vars == <<sync, logs, job, known, pc, loc, used, broken>>

-----------------------------------------------------------------------------

SyncStatuses == {"NULL", "PENDING", "SUCCESS", "FAILED", "DEAD_LETTER"}
TerminalLogStatuses == {"success", "failed", "dead_letter"}
LogStatuses == TerminalLogStatuses \cup {"pending", "processing", "retrying"}

JobIds == RetryJobs \cup {Main}
Job ==
  [state : {"absent", "waiting", "active", "completed", "failed"},
   attempts : 0 .. MaxAttempts, stalled : BOOLEAN]
NoJob == [state |-> "absent", attempts |-> 0, stalled |-> FALSE]
NewJob == [state |-> "waiting", attempts |-> 0, stalled |-> FALSE]

SyncPCs == {"find_log", "create_log", "processing", "call", "record_log", "record_sync"}
DeadLetterPCs == {"dl_find", "dl_log", "dl_sync"}
RetrySyncPCs == {"rs_find", "rs_log", "rs_add"}
PCs == SyncPCs \cup DeadLetterPCs \cup RetrySyncPCs \cup {"idle", "handoff", "sweep_add"}

\* What a call came back with, after classify.
Outcomes == {"none", "success", "terminal", "transient"}

\* log: 0 for no row; recon: the hand-off is the reconciliation job's.
Locals ==
  [job : JobIds \cup {None}, log : 0 .. Len(logs), outcome : Outcomes, recon : BOOLEAN]
NoLocals == [job |-> None, log |-> 0, outcome |-> "none", recon |-> FALSE]

\* The latest row with one of these statuses, or 0.
Latest(statuses) ==
  LET found == {i \in DOMAIN logs : logs[i] \in statuses}
  IN IF found = {} THEN 0 ELSE CHOOSE i \in found : \A k \in found : k <= i

FindActiveLog == Latest(LogStatuses \ TerminalLogStatuses)

Goto(s, c, l) == pc' = [pc EXCEPT ![s] = c] /\ loc' = [loc EXCEPT ![s] = l]
Step(s, c) == pc' = [pc EXCEPT ![s] = c] /\ UNCHANGED loc

Spend(what) == used' = [used EXCEPT ![what] = @ + 1]

Init ==
  /\ sync = "NULL"
  /\ logs = <<>>
  /\ job = [j \in JobIds |-> NoJob]
  /\ known = FALSE
  /\ pc = [s \in Sessions |-> "idle"]
  /\ loc = [s \in Sessions |-> NoLocals]
  /\ used = [settlements |-> 0, retrySyncs |-> 0, faults |-> 0]
  /\ broken = {}

-----------------------------------------------------------------------------
(* The hand-off after a settlement *)

\* settlePayment has committed; the same transaction set PENDING.
Settle(s) ==
  /\ pc[s] = "idle"
  /\ used.settlements < MaxSettlements
  /\ Spend("settlements")
  /\ sync' = "PENDING"
  /\ \E recon \in BOOLEAN : Goto(s, "handoff", [NoLocals EXCEPT !.recon = recon])
  /\ UNCHANGED <<logs, job, known, broken>>

\* enqueueExternalApiSync.  BullMQ drops a job whose id it still stores, in
\* whatever state; of the completed jobs it stores the last 1000.
AddMain ==
  \/ /\ job[Main].state \in {"absent", "completed"}
     /\ job' = [job EXCEPT ![Main] = NewJob]
  \/ /\ job[Main].state # "absent"
     /\ UNCHANGED job

Handoff(s) ==
  /\ pc[s] = "handoff"
  /\ AddMain
  /\ Goto(s, "idle", NoLocals)
  /\ UNCHANGED <<sync, logs, known, used, broken>>

\* The queue is down: verify, webhook and admin flows sync inline, the
\* reconciliation job only logs.
HandoffQueueDown(s) ==
  /\ pc[s] = "handoff"
  /\ used.faults < MaxFaults
  /\ Spend("faults")
  /\ IF loc[s].recon THEN Goto(s, "idle", NoLocals) ELSE Goto(s, "find_log", NoLocals)
  /\ UNCHANGED <<sync, logs, job, known, broken>>

-----------------------------------------------------------------------------
(* syncEnrollment, run by a worker for a job or inline without one *)

StartJob(s, j) ==
  /\ pc[s] = "idle"
  /\ job[j].state = "waiting"
  /\ job' = [job EXCEPT ![j].state = "active"]
  /\ Goto(s, "find_log", [NoLocals EXCEPT !.job = j])
  /\ UNCHANGED <<sync, logs, known, used, broken>>

FindLog(s) ==
  /\ pc[s] = "find_log"
  /\ Goto(s, IF FindActiveLog = 0 THEN "create_log" ELSE "processing",
          [loc[s] EXCEPT !.log = FindActiveLog])
  /\ UNCHANGED <<sync, logs, job, known, used, broken>>

CreateLog(s) ==
  /\ pc[s] = "create_log"
  /\ logs' = Append(logs, "pending")
  /\ Goto(s, "processing", [loc[s] EXCEPT !.log = Len(logs) + 1])
  /\ UNCHANGED <<sync, job, known, used, broken>>

MarkProcessing(s) ==
  /\ pc[s] = "processing"
  /\ logs' = [logs EXCEPT ![loc[s].log] = "processing"]
  /\ Step(s, "call")
  /\ UNCHANGED <<sync, job, known, used, broken>>

\* The platform accepts the enrollment, or says that it has it (409).
CallAccepted(s) ==
  /\ pc[s] = "call"
  /\ known' = TRUE
  /\ Goto(s, "record_log", [loc[s] EXCEPT !.outcome = "success"])
  /\ UNCHANGED <<sync, logs, job, used, broken>>

\* Mutant: classify takes a 4xx other than 409 for success as well.
CallRefusedAsSuccess(s) ==
  /\ pc[s] = "call"
  /\ used.faults < MaxFaults
  /\ Spend("faults")
  /\ Goto(s, "record_log", [loc[s] EXCEPT !.outcome = "success"])
  /\ UNCHANGED <<sync, logs, job, known, broken>>

\* 400 or 422: classify calls it terminal.
CallRefused(s) ==
  /\ pc[s] = "call"
  /\ ~known
  /\ used.faults < MaxFaults
  /\ Spend("faults")
  /\ Goto(s, "record_log", [loc[s] EXCEPT !.outcome = "terminal"])
  /\ UNCHANGED <<sync, logs, job, known, broken>>

\* Open breaker, network error, timeout, 401, 429, 5xx.  A request that timed
\* out may have been carried out.
CallFailed(s) ==
  /\ pc[s] = "call"
  /\ used.faults < MaxFaults
  /\ Spend("faults")
  /\ known' \in {known, TRUE}
  /\ Goto(s, "record_log", [loc[s] EXCEPT !.outcome = "transient"])
  /\ UNCHANGED <<sync, logs, job, broken>>

\* Mutant: a transient failure does not mark its row for the sweeper.
RecordLogNotRetrying(s) ==
  /\ pc[s] = "record_log"
  /\ logs' = [logs EXCEPT ![loc[s].log] =
                CASE loc[s].outcome = "success"   -> "success"
                  [] loc[s].outcome = "terminal"  -> "failed"
                  [] loc[s].outcome = "transient" -> @]
  /\ Step(s, "record_sync")
  /\ UNCHANGED <<sync, job, known, used, broken>>

\* markSuccess, markFailed, markRetrying: by primary key.
RecordLog(s) ==
  /\ pc[s] = "record_log"
  /\ logs' = [logs EXCEPT ![loc[s].log] =
                CASE loc[s].outcome = "success"   -> "success"
                  [] loc[s].outcome = "terminal"  -> "failed"
                  [] loc[s].outcome = "transient" -> "retrying"]
  /\ Step(s, "record_sync")
  /\ UNCHANGED <<sync, job, known, used, broken>>

\* The handler returns: a job is complete, and BullMQ stores it.
Return(s) ==
  /\ job' = CASE loc[s].job = None -> job
              [] loc[s].job = Main -> [job EXCEPT ![Main].state = "completed"]
              [] OTHER             -> [job EXCEPT ![loc[s].job] = NoJob]
  /\ Goto(s, "idle", NoLocals)

\* A job with one more attempt behind it.
Attempted(j, state) ==
  [state |-> state, attempts |-> job[j].attempts + 1, stalled |-> job[j].stalled]

\* Mutant: nothing listens to the worker's failed event.
ThrowNoDeadLetter(s) ==
  LET j == loc[s].job IN
  /\ Goto(s, "idle", NoLocals)
  /\ job' = CASE j = None -> job
              [] j # None /\ job[j].attempts + 1 < MaxAttempts ->
                   [job EXCEPT ![j] = Attempted(j, "waiting")]
              [] OTHER -> [job EXCEPT ![j] = IF j = Main THEN Attempted(j, "failed") ELSE NoJob]

\* The handler throws: the job waits for its next attempt or, out of attempts,
\* is stored as failed and the failed handler runs.  Inline, the error ends here.
Throw(s) ==
  LET j == loc[s].job IN
  IF j = None
  THEN UNCHANGED job /\ Goto(s, "idle", NoLocals)
  ELSE IF job[j].attempts + 1 < MaxAttempts
  THEN /\ job' = [job EXCEPT ![j] = Attempted(j, "waiting")]
       /\ Goto(s, "idle", NoLocals)
  ELSE /\ job' = [job EXCEPT ![j] = IF j = Main THEN Attempted(j, "failed") ELSE NoJob]
       /\ Goto(s, "dl_find", NoLocals)

\* updateExternalSyncStatus, then return or throw.
RecordSync(s) ==
  /\ pc[s] = "record_sync"
  /\ \/ /\ loc[s].outcome = "success"
        /\ sync' = "SUCCESS"
        /\ Return(s)
     \/ /\ loc[s].outcome = "terminal"
        /\ sync' = "DEAD_LETTER"
        /\ Return(s)
     \/ /\ loc[s].outcome = "transient"
        /\ sync' = "FAILED"
        /\ Throw(s)
  /\ UNCHANGED <<logs, known, used, broken>>

-----------------------------------------------------------------------------
(* The failed handler of the worker, after the last attempt *)

DeadLetterFind(s) ==
  /\ pc[s] = "dl_find"
  /\ Goto(s, IF FindActiveLog = 0 THEN "dl_sync" ELSE "dl_log",
          [loc[s] EXCEPT !.log = FindActiveLog])
  /\ UNCHANGED <<sync, logs, job, known, used, broken>>

MarkDeadLetter(s) ==
  /\ pc[s] = "dl_log"
  /\ logs' = [logs EXCEPT ![loc[s].log] = "dead_letter"]
  /\ Step(s, "dl_sync")
  /\ UNCHANGED <<sync, job, known, used, broken>>

DeadLetterSync(s) ==
  /\ pc[s] = "dl_sync"
  /\ sync' = "DEAD_LETTER"
  /\ Goto(s, "idle", NoLocals)
  /\ UNCHANGED <<logs, job, known, used, broken>>

-----------------------------------------------------------------------------
(* The retry sweeper and the Retry sync button *)

\* Mutant: the retry reuses the enrollment's own job id.
EnqueueRetryAsMain == AddMain

\* enqueueExternalApiRetry: a job id of its own.
EnqueueRetry ==
  \E j \in RetryJobs :
    /\ job[j].state = "absent"
    /\ job' = [job EXCEPT ![j] = NewJob]

\* Bound: every session that is going to enqueue a retry has an id left for it.
RetryIdLeft ==
  Cardinality({s \in Sessions : pc[s] \in RetrySyncPCs \cup {"sweep_add"}})
    < Cardinality({j \in RetryJobs : job[j].state = "absent"})

\* The sweep finds a retrying row whose next_attempt_at has passed; that is at
\* least a second after the row was written, and the session that wrote it is
\* past its next statement.
SweepFind(s) ==
  /\ pc[s] = "idle"
  /\ \E l \in DOMAIN logs :
       /\ logs[l] = "retrying"
       /\ \A t \in Sessions : loc[t].log = l => pc[t] # "record_sync"
  /\ RetryIdLeft
  /\ Goto(s, "sweep_add", NoLocals)
  /\ UNCHANGED <<sync, logs, job, known, used, broken>>

\* The row itself is not changed.
SweepAdd(s) ==
  /\ pc[s] = "sweep_add"
  /\ EnqueueRetry
  /\ Goto(s, "idle", NoLocals)
  /\ UNCHANGED <<sync, logs, known, used, broken>>

\* retrySync, for an enrollment that has been paid, whatever its sync status.
RetrySync(s) ==
  /\ pc[s] = "idle"
  /\ used.settlements > 0
  /\ used.retrySyncs < MaxRetrySyncs
  /\ RetryIdLeft
  /\ Spend("retrySyncs")
  /\ sync' = "PENDING"
  /\ Goto(s, "rs_find", NoLocals)
  /\ UNCHANGED <<logs, job, known, broken>>

RetrySyncFind(s) ==
  /\ pc[s] = "rs_find"
  /\ Goto(s, IF logs = <<>> THEN "rs_add" ELSE "rs_log", [loc[s] EXCEPT !.log = Len(logs)])
  /\ UNCHANGED <<sync, logs, job, known, used, broken>>

RetrySyncLog(s) ==
  /\ pc[s] = "rs_log"
  /\ logs' = [logs EXCEPT ![loc[s].log] = "retrying"]
  /\ Step(s, "rs_add")
  /\ UNCHANGED <<sync, job, known, used, broken>>

RetrySyncAdd(s) ==
  /\ pc[s] = "rs_add"
  /\ EnqueueRetry
  /\ Goto(s, "idle", NoLocals)
  /\ UNCHANGED <<sync, logs, known, used, broken>>

-----------------------------------------------------------------------------
(* Failures *)

Break(s) ==
  /\ pc[s] \notin broken
  /\ Cardinality(broken) < MaxBroken
  /\ broken' = broken \cup {pc[s]}
  /\ UNCHANGED <<sync, logs, known, used>>

\* A statement fails: the database or the queue is away for a moment.
StatementFails(s) ==
  /\ pc[s] \notin {"idle", "handoff", "call"}
  /\ IF pc[s] \in SyncPCs
     THEN Throw(s)
     ELSE UNCHANGED job /\ Goto(s, "idle", NoLocals)
  /\ Break(s)

\* The process crashes.  BullMQ moves a stalled job back to waiting once; the
\* second time it stores it as failed, and the failed handler sees attempts
\* left and does nothing.
Crash(s) ==
  LET j == loc[s].job IN
  /\ pc[s] # "idle"
  /\ job' = IF j = None THEN job
            ELSE IF ~job[j].stalled
            THEN [job EXCEPT ![j] =
                    [state |-> "waiting", attempts |-> job[j].attempts, stalled |-> TRUE]]
            ELSE [job EXCEPT ![j] = IF j = Main THEN [@ EXCEPT !.state = "failed"] ELSE NoJob]
  /\ Goto(s, "idle", NoLocals)
  /\ Break(s)

-----------------------------------------------------------------------------

Progress(s) ==
  \/ Handoff(s)
  \/ FindLog(s) \/ CreateLog(s) \/ MarkProcessing(s)
  \/ CallAccepted(s) \/ CallRefused(s) \/ CallFailed(s)
  \/ RecordLog(s) \/ RecordSync(s)
  \/ DeadLetterFind(s) \/ MarkDeadLetter(s) \/ DeadLetterSync(s)
  \/ SweepAdd(s)
  \/ RetrySyncFind(s) \/ RetrySyncLog(s) \/ RetrySyncAdd(s)

Work(s) == \E j \in JobIds : StartJob(s, j)

Environment(s) ==
  Settle(s) \/ HandoffQueueDown(s) \/ RetrySync(s) \/ StatementFails(s) \/ Crash(s)

Next == \E s \in Sessions : Progress(s) \/ Work(s) \/ SweepFind(s) \/ Environment(s)

\* A running handler runs on, the worker takes jobs, the cron job runs.
Fairness ==
  /\ \A s \in Sessions : WF_vars(Progress(s)) /\ WF_vars(Work(s))
  /\ WF_vars(\E s \in Sessions : SweepFind(s))

Spec == Init /\ [][Next]_vars /\ Fairness

=============================================================================
