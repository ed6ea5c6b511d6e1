----------------------- MODULE ExternalSyncProperties -----------------------
(***************************************************************************)
(* What the external sync promises.                                        *)
(***************************************************************************)
EXTENDS ExternalSync

\* Every variable keeps its type.
TypeOK ==
  /\ sync \in SyncStatuses
  /\ logs \in Seq(LogStatuses)
  /\ job \in [JobIds -> Job]
  /\ known \in BOOLEAN
  /\ pc \in [Sessions -> PCs]
  /\ loc \in [Sessions -> Locals]
  /\ used \in [settlements : 0 .. MaxSettlements,
               retrySyncs : 0 .. MaxRetrySyncs, faults : 0 .. MaxFaults]
  /\ broken \in SUBSET PCs

\* SUCCESS, on the enrollment or on a log row, means that the external
\* platform has the enrollment, whatever calls were lost, repeated or refused.
SuccessIsReal ==
  /\ sync = "SUCCESS" => known
  /\ \A l \in DOMAIN logs : logs[l] = "success" => known

\* Some session, job or log row will still bring the enrollment to an end:
\* a session at work on it, a job in the queue, or a row the sweeper picks up.
InProgress ==
  \/ \E s \in Sessions : pc[s] # "idle"
  \/ \E j \in JobIds : job[j].state \in {"waiting", "active"}
  \/ \E l \in DOMAIN logs : logs[l] = "retrying"

\* The log tells how the push ended.
LogEnded == \E l \in DOMAIN logs : logs[l] \in TerminalLogStatuses

\* FAILED means that the retry loop is still active (schema.prisma, enum
\* ExternalSyncStatus): several jobs, the sweeper and the failed handler write
\* the same rows, and FAILED is left behind with nobody to retry only when the
\* log shows how the push ended.  The two writes of the failed handler, of the
\* hand-off and of an inline sync are separate, so a break at them is excepted.
FailedIsRetried ==
  sync = "FAILED" /\ broken = {} => InProgress \/ LogEnded

\* A job that waits in the queue brings the push to an end in the log or on the
\* enrollment, whatever statement of syncEnrollment the worker crashes or fails
\* at; only the failed handler can lose it.
JobsResolve ==
  \A j \in JobIds :
    job[j].state = "waiting" ~>
      sync \in {"SUCCESS", "DEAD_LETTER"} \/ LogEnded \/ broken \cap DeadLetterPCs # {}

\* Pressing Retry sync gets the enrollment out of PENDING: its job is not lost
\* among the jobs that BullMQ still stores.
RetrySyncResolves ==
  \A s \in Sessions :
    pc[s] = "rs_add" ~> sync # "PENDING" \/ broken \cap (RetrySyncPCs \cup DeadLetterPCs) # {}

\* PENDING means queued or in flight (schema.prisma, enum ExternalSyncStatus).
PendingIsQueued == sync = "PENDING" => InProgress

=============================================================================
