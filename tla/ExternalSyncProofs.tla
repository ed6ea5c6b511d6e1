------------------------- MODULE ExternalSyncProofs -------------------------
(***************************************************************************)
(* Proofs about the external sync, for any number of sessions and of retry *)
(* jobs and for any bound on attempts, faults and broken statements.       *)
(***************************************************************************)
EXTENDS ExternalSyncProperties, Extrema

-----------------------------------------------------------------------------
(* The inductive invariant *)

\* The statements that have a log row at hand, and those that follow a call.
RowPCs == {"processing", "call", "record_log", "record_sync", "dl_log", "rs_log"}
AnsweredPCs == {"record_log", "record_sync"}
WritingPCs == {"processing", "call", "record_log"}

\* A job is run by one session, and one that is alive has attempts left.
JobsInv ==
  /\ \A s \in Sessions :
       loc[s].job # None =>
         /\ job[loc[s].job].state = "active"
         /\ \A t \in Sessions : loc[t].job = loc[s].job => t = s
  /\ \A j \in JobIds : job[j].state \in {"waiting", "active"} => job[j].attempts < MaxAttempts

\* What a session has at hand when it needs it.
SessionInv(s) ==
  /\ pc[s] \in RowPCs => loc[s].log # 0
  /\ pc[s] \in AnsweredPCs => loc[s].outcome # "none"
  /\ loc[s].outcome = "success" => known

\* A row that is neither closed nor left to the sweeper belongs to a session
\* that has still to record how its call went.
RowAttended(l) ==
  logs[l] \in {"pending", "processing"} =>
    \E s \in Sessions : loc[s].log = l /\ pc[s] \in WritingPCs

RowsInv ==
  /\ sync = "FAILED" => logs # <<>>
  /\ broken = {} => \A l \in 1 .. Len(logs) : RowAttended(l)

SyncInv ==
  /\ TypeOK /\ JobsInv
  /\ \A s \in Sessions : SessionInv(s)
  /\ SuccessIsReal /\ RowsInv

LEMMA SyncInit == Init => SyncInv
<1> SUFFICES ASSUME Init
             PROVE  SyncInv
  OBVIOUS
<1> USE JobsAssumption, BoundsAssumption
<1>1. NoJob \in Job
  BY DEF NoJob, Job
<1>2. logs = <<>> /\ logs \in Seq(LogStatuses) /\ Len(logs) = 0
  BY DEF Init
<1>3. NoLocals \in Locals
  BY <1>2 DEF NoLocals, Locals, Outcomes
<1>4. TypeOK
  <2>1. job \in [JobIds -> Job] /\ loc \in [Sessions -> Locals]
    BY <1>1, <1>3 DEF Init
  <2>2. sync \in SyncStatuses /\ pc \in [Sessions -> PCs]
    BY DEF Init, SyncStatuses, PCs
  <2>3. used \in [settlements : 0 .. MaxSettlements,
                 retrySyncs : 0 .. MaxRetrySyncs, faults : 0 .. MaxFaults]
    BY DEF Init
  <2>4. known \in BOOLEAN /\ broken \in SUBSET PCs
    BY DEF Init
  <2> QED BY <1>2, <2>1, <2>2, <2>3, <2>4 DEF TypeOK
<1>5. JobsInv
  BY DEF Init, JobsInv, NoLocals, NoJob
<1>6. \A s \in Sessions : SessionInv(s)
  BY DEF Init, SessionInv, NoLocals, RowPCs, AnsweredPCs
<1>7. SuccessIsReal /\ RowsInv
  BY <1>2 DEF Init, SuccessIsReal, RowsInv
<1> QED BY <1>4, <1>5, <1>6, <1>7 DEF SyncInv

-----------------------------------------------------------------------------
(* What the steps are made of *)

LEMMA StepGoes ==
  ASSUME TypeOK, NEW s \in Sessions, NEW c, Step(s, c)
  PROVE  Goto(s, c, loc[s])
BY DEF TypeOK, Step, Goto

LEMMA Moved ==
  ASSUME TypeOK, NEW s \in Sessions, NEW c, NEW l, Goto(s, c, l)
  PROVE  /\ pc'[s] = c /\ loc'[s] = l
         /\ \A t \in Sessions \ {s} : pc'[t] = pc[t] /\ loc'[t] = loc[t]
         /\ DOMAIN pc' = Sessions /\ DOMAIN loc' = Sessions
BY DEF TypeOK, Goto

\* The log only grows, and a step writes one row at most.
LogsStep ==
  \/ UNCHANGED logs
  \/ logs' = Append(logs, "pending")
  \/ \E r \in 1 .. Len(logs), x \in LogStatuses : logs' = [logs EXCEPT ![r] = x]

LEMMA LogsGrow ==
  ASSUME TypeOK, LogsStep
  PROVE  /\ logs' \in Seq(LogStatuses)
         /\ Len(logs) \in Nat /\ Len(logs') \in Nat /\ Len(logs) <= Len(logs')
         /\ Locals \subseteq Locals'
<1>1. logs \in Seq(LogStatuses) /\ Len(logs) \in Nat /\ "pending" \in LogStatuses
  BY DEF TypeOK, LogStatuses
<1>2. CASE UNCHANGED logs
  BY <1>1, <1>2 DEF Locals
<1>3. CASE logs' = Append(logs, "pending")
  <2>1. logs' \in Seq(LogStatuses) /\ Len(logs') = Len(logs) + 1
    BY <1>1, <1>3
  <2> QED BY <1>1, <2>1 DEF Locals
<1>4. CASE \E r \in 1 .. Len(logs), x \in LogStatuses : logs' = [logs EXCEPT ![r] = x]
  <2>1. logs' \in Seq(LogStatuses) /\ Len(logs') = Len(logs)
    BY <1>1, <1>4
  <2> QED BY <1>1, <2>1 DEF Locals
<1> QED BY <1>2, <1>3, <1>4 DEF LogsStep

LEMMA TypeStep ==
  ASSUME TypeOK, LogsStep, NEW s \in Sessions, NEW c \in PCs, NEW l \in Locals', Goto(s, c, l),
         sync' \in SyncStatuses, job' \in [JobIds -> Job], known' \in BOOLEAN,
         used' \in [settlements : 0 .. MaxSettlements,
                    retrySyncs : 0 .. MaxRetrySyncs, faults : 0 .. MaxFaults],
         broken' \in SUBSET PCs
  PROVE  TypeOK'
<1>1. pc' \in [Sessions -> PCs]
  BY DEF TypeOK, Goto
<1>2. loc' \in [Sessions -> Locals']
  <2>1. loc \in [Sessions -> Locals']
    BY LogsGrow DEF TypeOK
  <2> QED BY <2>1 DEF Goto
<1> QED BY <1>1, <1>2, LogsGrow DEF TypeOK

\* The bounds.
LEMMA Spent ==
  ASSUME TypeOK
  PROVE  /\ used.settlements < MaxSettlements /\ Spend("settlements") =>
              used' \in [settlements : 0 .. MaxSettlements,
                         retrySyncs : 0 .. MaxRetrySyncs, faults : 0 .. MaxFaults]
         /\ used.retrySyncs < MaxRetrySyncs /\ Spend("retrySyncs") =>
              used' \in [settlements : 0 .. MaxSettlements,
                         retrySyncs : 0 .. MaxRetrySyncs, faults : 0 .. MaxFaults]
         /\ used.faults < MaxFaults /\ Spend("faults") =>
              used' \in [settlements : 0 .. MaxSettlements,
                         retrySyncs : 0 .. MaxRetrySyncs, faults : 0 .. MaxFaults]
<1> DEFINE Used == [settlements : 0 .. MaxSettlements,
                    retrySyncs : 0 .. MaxRetrySyncs, faults : 0 .. MaxFaults]
<1>1. used \in Used /\ MaxSettlements \in Nat /\ MaxRetrySyncs \in Nat /\ MaxFaults \in Nat
  BY BoundsAssumption DEF TypeOK
<1>2. used.settlements < MaxSettlements /\ Spend("settlements") => used' \in Used
  BY <1>1 DEF Spend
<1>3. used.retrySyncs < MaxRetrySyncs /\ Spend("retrySyncs") => used' \in Used
  BY <1>1 DEF Spend
<1>4. used.faults < MaxFaults /\ Spend("faults") => used' \in Used
  BY <1>1 DEF Spend
<1> QED BY <1>2, <1>3, <1>4

-----------------------------------------------------------------------------
(* The queue *)

JobsOK == job \in [JobIds -> Job] /\ JobsInv

\* A step that leaves the queue alone and takes on no job.
LEMMA JobsKept ==
  ASSUME TypeOK, JobsInv, UNCHANGED job, NEW s \in Sessions, NEW c, NEW l, Goto(s, c, l),
         l.job \in {None, loc[s].job}
  PROVE  JobsOK'
<1>1. \A t \in Sessions : loc'[t].job \in {None, loc[t].job}
  BY Moved
<1>2. ASSUME NEW t \in Sessions, loc'[t].job # None
      PROVE  /\ job'[loc'[t].job].state = "active"
             /\ \A u \in Sessions : loc'[u].job = loc'[t].job => u = t
  BY <1>1, <1>2 DEF JobsInv
<1> QED BY <1>2 DEF JobsOK, JobsInv, TypeOK

\* A step that writes a job: its own, which it gives up, or one that no session
\* runs.
LEMMA JobWritten ==
  ASSUME TypeOK, JobsInv, NEW s \in Sessions, NEW c, NEW l, Goto(s, c, l),
         NEW j \in JobIds, NEW x \in Job, job' = [job EXCEPT ![j] = x],
         x.state \in {"waiting", "active"} => x.attempts < MaxAttempts,
         \/ loc[s].job = j /\ l.job = None
         \/ job[j].state # "active" /\ l.job \in {None, loc[s].job}
         \/ job[j].state # "active" /\ l.job = j /\ x.state = "active"
  PROVE  JobsOK'
<1>1. job' \in [JobIds -> Job] /\ job'[j] = x /\ \A i \in JobIds \ {j} : job'[i] = job[i]
  BY DEF TypeOK
<1>2. j # None
  BY JobsAssumption DEF JobIds
<1>3. /\ loc'[s] = l
      /\ \A t \in Sessions \ {s} : loc'[t] = loc[t]
  BY Moved
<1>4. \A t \in Sessions : loc[t].job \in JobIds \cup {None}
  BY DEF TypeOK, Locals
<1>5. \A t \in Sessions \ {s} : loc[t].job # j
                                \/ (l.job \in {None, loc[s].job} /\ job[j].state # "active")
  BY <1>2 DEF JobsInv
<1>6. \A t \in Sessions \ {s} : loc[t].job # j
  BY <1>2, <1>5 DEF JobsInv
<1>7. \A t \in Sessions : loc'[t].job = j => t = s /\ (x.state = "active")
  BY <1>2, <1>3, <1>6 DEF JobsInv
<1>8. ASSUME NEW t \in Sessions, loc'[t].job # None
      PROVE  /\ job'[loc'[t].job].state = "active"
             /\ \A u \in Sessions : loc'[u].job = loc'[t].job => u = t
  <2>1. CASE loc'[t].job = j
    BY <1>1, <1>7, <2>1
  <2>2. CASE loc'[t].job # j
    <3>1. loc'[t].job = loc[t].job
      BY <1>3, <1>8, <2>2
    <3>2. job[loc[t].job].state = "active" /\ \A u \in Sessions : loc[u].job = loc[t].job => u = t
      BY <1>8, <3>1 DEF JobsInv
    <3>3. \A u \in Sessions : loc'[u].job = loc'[t].job => loc[u].job = loc[t].job
      BY <1>3, <1>8, <2>2, <3>1
    <3> QED BY <1>1, <1>4, <1>8, <2>2, <3>1, <3>2, <3>3
  <2> QED BY <2>1, <2>2
<1> QED BY <1>1, <1>8 DEF JobsOK, JobsInv

LEMMA ReturnJobs ==
  ASSUME TypeOK, JobsInv, NEW s \in Sessions, Return(s)
  PROVE  JobsOK' /\ Goto(s, "idle", NoLocals)
<1> DEFINE j == loc[s].job
<1>1. Goto(s, "idle", NoLocals) /\ NoLocals.job = None
  BY DEF Return, NoLocals
<1>2. j \in JobIds \cup {None} /\ Main # None /\ job \in [JobIds -> Job]
  BY JobsAssumption DEF TypeOK, Locals, JobIds
<1>3. CASE j = None
  <2>1. UNCHANGED job
    BY <1>2, <1>3 DEF Return
  <2> QED BY <1>1, <2>1, JobsKept
<1>4. CASE j = Main
  <2> DEFINE x == [job[Main] EXCEPT !.state = "completed"]
  <2>1. j \in JobIds
    BY <1>4 DEF JobIds
  <2>2. x \in Job /\ x.state = "completed"
    BY <1>2, <1>4, <2>1 DEF Job
  <2>3. job' = [job EXCEPT ![j] = x]
    BY <1>2, <1>4 DEF Return
  <2> HIDE DEF x
  <2> QED BY <1>1, <2>1, <2>2, <2>3, JobWritten
<1>5. CASE j # None /\ j # Main
  <2>1. NoJob \in Job /\ NoJob.state = "absent"
    BY BoundsAssumption DEF Job, NoJob
  <2>2. job' = [job EXCEPT ![j] = NoJob] /\ j \in JobIds
    BY <1>2, <1>5 DEF Return
  <2> QED BY <1>1, <2>1, <2>2, JobWritten
<1> QED BY <1>3, <1>4, <1>5

LEMMA ThrowJobs ==
  ASSUME TypeOK, JobsInv, NEW s \in Sessions, Throw(s)
  PROVE  JobsOK' /\ \E c \in {"idle", "dl_find"} : Goto(s, c, NoLocals)
<1> DEFINE j == loc[s].job
<1>1. NoLocals.job = None
  BY DEF NoLocals
<1>2. j \in JobIds \cup {None} /\ job \in [JobIds -> Job]
  BY DEF TypeOK, Locals
<1>3. CASE j = None
  <2>1. UNCHANGED job /\ Goto(s, "idle", NoLocals)
    BY <1>3 DEF Throw
  <2> QED BY <1>1, <2>1, JobsKept
<1>4. CASE j # None
  <2>1. j \in JobIds /\ job[j] \in Job /\ job[j].attempts < MaxAttempts
    BY <1>2, <1>4 DEF JobsInv
  <2>2. job[j].attempts \in Nat /\ MaxAttempts \in Nat
    BY <2>1, BoundsAssumption DEF Job
  <2>3. CASE job[j].attempts + 1 < MaxAttempts
    <3> DEFINE x == Attempted(j, "waiting")
    <3>1. x \in Job /\ x.attempts < MaxAttempts
      BY <2>1, <2>2, <2>3 DEF Job, Attempted
    <3>2. job' = [job EXCEPT ![j] = x] /\ Goto(s, "idle", NoLocals)
      BY <1>4, <2>3 DEF Throw
    <3> HIDE DEF x
    <3>3. JobsOK'
      BY <1>1, <2>1, <3>1, <3>2, JobWritten
    <3> QED BY <3>2, <3>3
  <2>4. CASE ~(job[j].attempts + 1 < MaxAttempts)
    <3> DEFINE x == IF j = Main THEN Attempted(j, "failed") ELSE NoJob
    <3>1. job' = [job EXCEPT ![j] = x] /\ Goto(s, "dl_find", NoLocals)
      BY <1>4, <2>4 DEF Throw
    <3>2. x \in Job /\ x.state \in {"failed", "absent"}
      <4>1. job[j].attempts + 1 \in 0 .. MaxAttempts
        BY <2>1, <2>2
      <4>2. Attempted(j, "failed") \in Job /\ Attempted(j, "failed").state = "failed"
        BY <2>1, <4>1 DEF Job, Attempted
      <4>3. NoJob \in Job /\ NoJob.state = "absent"
        BY BoundsAssumption DEF Job, NoJob
      <4> QED BY <4>2, <4>3
    <3> HIDE DEF x
    <3>3. JobsOK'
      BY <1>1, <2>1, <3>1, <3>2, JobWritten
    <3> QED BY <3>1, <3>3
  <2> QED BY <2>3, <2>4
<1> QED BY <1>3, <1>4

\* A new job, added to the queue by a session that gives up whatever it had.
LEMMA NewJobIsOne == NewJob \in Job /\ NewJob.attempts < MaxAttempts
BY BoundsAssumption DEF Job, NewJob

LEMMA AddJobs ==
  ASSUME TypeOK, JobsInv, NEW s \in Sessions, NEW c, Goto(s, c, NoLocals),
         AddMain \/ EnqueueRetry
  PROVE  JobsOK'
<1>1. NoLocals.job = None
  BY DEF NoLocals
<1>2. CASE UNCHANGED job
  BY <1>1, <1>2, JobsKept
<1>3. CASE \E j \in JobIds : /\ job[j].state # "active"
                             /\ job' = [job EXCEPT ![j] = NewJob]
  <2>1. PICK j \in JobIds : /\ job[j].state # "active"
                            /\ job' = [job EXCEPT ![j] = NewJob]
    BY <1>3
  <2> QED BY <1>1, <2>1, NewJobIsOne, JobWritten
<1>4. AddMain => <1>2!1 \/ <1>3!1
  BY DEF AddMain, JobIds
<1>5. EnqueueRetry => <1>3!1
  BY DEF EnqueueRetry, JobIds
<1> QED BY <1>2, <1>3, <1>4, <1>5

LEMMA CrashJobs ==
  ASSUME TypeOK, JobsInv, NEW s \in Sessions, Crash(s)
  PROVE  JobsOK'
<1> DEFINE j == loc[s].job
<1>1. NoLocals.job = None /\ Goto(s, "idle", NoLocals)
  BY DEF NoLocals, Crash
<1>2. j \in JobIds \cup {None} /\ job \in [JobIds -> Job]
  BY DEF TypeOK, Locals
<1>3. CASE j = None
  <2>1. UNCHANGED job
    BY <1>3 DEF Crash
  <2> QED BY <1>1, <2>1, JobsKept
<1>4. CASE j # None
  <2>1. j \in JobIds /\ job[j] \in Job /\ job[j].attempts < MaxAttempts
    BY <1>2, <1>4 DEF JobsInv
  <2>2. CASE ~job[j].stalled
    <3> DEFINE x == [state |-> "waiting", attempts |-> job[j].attempts, stalled |-> TRUE]
    <3>1. x \in Job
      BY <2>1 DEF Job
    <3>2. job' = [job EXCEPT ![j] = x]
      BY <1>4, <2>2 DEF Crash
    <3>3. x.attempts < MaxAttempts
      BY <2>1
    <3> HIDE DEF x
    <3> QED BY <1>1, <2>1, <3>1, <3>2, <3>3, JobWritten
  <2>3. CASE job[j].stalled
    <3> DEFINE x == IF j = Main THEN [job[j] EXCEPT !.state = "failed"] ELSE NoJob
    <3>1. job' = [job EXCEPT ![j] = x]
      BY <1>2, <1>4, <2>1, <2>3 DEF Crash
    <3>2. x \in Job /\ x.state \in {"failed", "absent"}
      BY <2>1, BoundsAssumption DEF Job, NoJob
    <3> HIDE DEF x
    <3> QED BY <1>1, <2>1, <3>1, <3>2, JobWritten
  <2> QED BY <2>2, <2>3
<1> QED BY <1>3, <1>4

LEMMA StartJobs ==
  ASSUME TypeOK, JobsInv, NEW s \in Sessions, NEW j \in JobIds, StartJob(s, j)
  PROVE  JobsOK'
<1> DEFINE x == [job[j] EXCEPT !.state = "active"]
           l == [NoLocals EXCEPT !.job = j]
<1>1. job[j] \in Job /\ job[j].state = "waiting" /\ job[j].attempts < MaxAttempts
  BY DEF TypeOK, StartJob, JobsInv
<1>2. x \in Job /\ x.state = "active" /\ x.attempts < MaxAttempts
  BY <1>1 DEF Job
<1>3. job' = [job EXCEPT ![j] = x] /\ Goto(s, "find_log", l) /\ l.job = j
  BY DEF StartJob, TypeOK, NoLocals
<1> HIDE DEF x, l
<1> QED BY <1>1, <1>2, <1>3, JobWritten

-----------------------------------------------------------------------------
(* Types *)

\* The latest row with a status is a row.
LEMMA LatestIsRow ==
  ASSUME TypeOK, NEW statuses
  PROVE  Latest(statuses) \in 0 .. Len(logs)
<1> DEFINE found == {i \in DOMAIN logs : logs[i] \in statuses}
<1>1. Len(logs) \in Nat /\ found \in SUBSET (0 .. Len(logs))
  BY DEF TypeOK
<1>2. CASE found = {}
  BY <1>1, <1>2 DEF Latest
<1>3. CASE found # {}
  <2>1. \E m \in found : \A i \in found : i <= m
    BY <1>1, <1>3, GreatestUpTo
  <2>2. (CHOOSE i \in found : \A k \in found : k <= i) \in found
    BY <2>1
  <2>3. Latest(statuses) \in found
    BY <1>3, <2>2 DEF Latest
  <2> QED BY <1>1, <2>3
<1> QED BY <1>2, <1>3

\* The locals a session goes on with are its own, but for the field it has just
\* written.
LEMMA LocalsAre ==
  ASSUME TypeOK, LogsStep, NEW s \in Sessions
  PROVE  /\ loc[s] \in Locals' /\ NoLocals \in Locals'
         /\ NoLocals.job = None /\ NoLocals.log = 0 /\ NoLocals.outcome = "none"
         /\ \A r \in 0 .. Len(logs') :
              LET l == [loc[s] EXCEPT !.log = r]
              IN l \in Locals' /\ l.job = loc[s].job /\ l.outcome = loc[s].outcome /\ l.log = r
         /\ \A o \in Outcomes :
              LET l == [loc[s] EXCEPT !.outcome = o]
              IN l \in Locals' /\ l.job = loc[s].job /\ l.outcome = o /\ l.log = loc[s].log
<1>1. loc[s] \in Locals' /\ Len(logs') \in Nat
  BY LogsGrow DEF TypeOK
<1>2. NoLocals \in Locals'
  BY <1>1 DEF Locals, NoLocals, Outcomes
<1>3. NoLocals.job = None /\ NoLocals.log = 0 /\ NoLocals.outcome = "none"
  BY DEF NoLocals
<1>4. ASSUME NEW r \in 0 .. Len(logs')
      PROVE  LET l == [loc[s] EXCEPT !.log = r]
             IN l \in Locals' /\ l.job = loc[s].job /\ l.outcome = loc[s].outcome /\ l.log = r
  BY <1>1, <1>4 DEF Locals
<1>5. ASSUME NEW o \in Outcomes
      PROVE  LET l == [loc[s] EXCEPT !.outcome = o]
             IN l \in Locals' /\ l.job = loc[s].job /\ l.outcome = o /\ l.log = loc[s].log
  BY <1>1, <1>5 DEF Locals
<1> QED BY <1>1, <1>2, <1>3, <1>4, <1>5

-----------------------------------------------------------------------------
(* Sessions *)

LEMMA SessionsStep ==
  ASSUME TypeOK, \A t \in Sessions : SessionInv(t),
         NEW s \in Sessions, NEW c, NEW l, Goto(s, c, l), known => known',
         c \in RowPCs => l.log # 0, c \in AnsweredPCs => l.outcome # "none",
         l.outcome = "success" => known'
  PROVE  \A t \in Sessions : SessionInv(t)'
BY Moved DEF SessionInv

-----------------------------------------------------------------------------
(* Rows *)

\* A step that writes no row.
LEMMA RowsKept ==
  ASSUME TypeOK, RowsInv, NEW s \in Sessions, NEW c, NEW l, Goto(s, c, l),
         UNCHANGED logs, sync' = "FAILED" => logs # <<>>,
         broken' = {} => /\ broken = {}
                         /\ pc[s] \in WritingPCs => c \in WritingPCs /\ l.log = loc[s].log
  PROVE  RowsInv'
<1>1. ASSUME broken' = {}, NEW r \in 1 .. Len(logs)
      PROVE  RowAttended(r)'
  <2>1. RowAttended(r)
    BY <1>1 DEF RowsInv
  <2>2. ASSUME NEW t \in Sessions, loc[t].log = r, pc[t] \in WritingPCs
        PROVE  loc'[t].log = r /\ pc'[t] \in WritingPCs
    BY <1>1, <2>2, Moved
  <2> QED BY <2>1, <2>2 DEF RowAttended
<1> QED BY <1>1 DEF RowsInv

\* A step that writes one: the row it leaves is written, and the row it writes
\* is closed or left to the sweeper, or the session stays with it.
LEMMA RowWritten ==
  ASSUME TypeOK, RowsInv, NEW s \in Sessions, NEW c, NEW l, Goto(s, c, l),
         NEW r \in 1 .. Len(logs), NEW x \in LogStatuses, logs' = [logs EXCEPT ![r] = x],
         sync' = sync, broken' = broken,
         pc[s] \in WritingPCs => loc[s].log = r,
         x \in {"pending", "processing"} => c \in WritingPCs /\ l.log = r
  PROVE  RowsInv'
<1>1. /\ logs' \in Seq(LogStatuses) /\ Len(logs') = Len(logs) /\ Len(logs) \in Nat
      /\ logs'[r] = x /\ \A i \in 1 .. Len(logs) : i # r => logs'[i] = logs[i]
  BY DEF TypeOK
<1>2. logs' # <<>>
  BY <1>1
<1>3. ASSUME broken' = {}, NEW i \in 1 .. Len(logs')
      PROVE  RowAttended(i)'
  <2>1. RowAttended(i)
    BY <1>1, <1>3 DEF RowsInv
  <2>2. CASE i = r
    BY <1>1, <2>2, Moved DEF RowAttended
  <2>3. CASE i # r
    <3>1. ASSUME NEW t \in Sessions, loc[t].log = i, pc[t] \in WritingPCs
          PROVE  loc'[t].log = i /\ pc'[t] \in WritingPCs
      BY <2>3, <3>1, Moved
    <3> QED BY <1>1, <1>3, <2>1, <2>3, <3>1 DEF RowAttended
  <2> QED BY <2>2, <2>3
<1> QED BY <1>2, <1>3 DEF RowsInv

-----------------------------------------------------------------------------
(* The steps *)

UsedOK == used \in [settlements : 0 .. MaxSettlements,
                    retrySyncs : 0 .. MaxRetrySyncs, faults : 0 .. MaxFaults]

LEMMA Together ==
  ASSUME SyncInv, NEW s \in Sessions, NEW c \in PCs, NEW l \in Locals', Goto(s, c, l),
         LogsStep, sync' \in SyncStatuses, JobsOK', known' \in BOOLEAN, UsedOK',
         broken' \in SUBSET PCs, known => known',
         c \in RowPCs => l.log # 0, c \in AnsweredPCs => l.outcome # "none",
         l.outcome = "success" => known',
         SuccessIsReal', RowsInv'
  PROVE  SyncInv'
<1>1. TypeOK'
  BY TypeStep DEF SyncInv, JobsOK, UsedOK
<1>2. \A t \in Sessions : SessionInv(t)'
  BY SessionsStep DEF SyncInv
<1> QED BY <1>1, <1>2 DEF SyncInv, JobsOK

LEMMA Parts ==
  ASSUME SyncInv, NEW s \in Sessions
  PROVE  /\ TypeOK /\ JobsInv /\ SessionInv(s) /\ SuccessIsReal /\ RowsInv
         /\ sync \in SyncStatuses /\ known \in BOOLEAN /\ UsedOK /\ broken \in SUBSET PCs
         /\ pc[s] \in PCs /\ loc[s].outcome \in Outcomes /\ loc[s].log \in 0 .. Len(logs)
         /\ Len(logs) \in Nat /\ logs \in Seq(LogStatuses)
BY DEF SyncInv, TypeOK, UsedOK, Locals

\* A session moves on, and nothing else happens.
LEMMA OnlyMoves ==
  ASSUME SyncInv, NEW s \in Sessions, NEW c \in PCs, NEW r \in 0 .. Len(logs),
         NEW l \in {NoLocals, [loc[s] EXCEPT !.log = r]}, Goto(s, c, l),
         UNCHANGED <<sync, logs, job, known, used, broken>>,
         pc[s] \notin WritingPCs, c \in RowPCs => l.log # 0, c \notin AnsweredPCs
  PROVE  SyncInv'
<1>1. LogsStep /\ Len(logs') = Len(logs)
  BY DEF LogsStep
<1>2. /\ l \in Locals' /\ l.job \in {None, loc[s].job}
      /\ l.outcome = "success" => loc[s].outcome = "success"
  <2>1. TypeOK
    BY Parts
  <2>2. CASE l = NoLocals
    BY <1>1, <2>1, <2>2, LocalsAre
  <2>3. CASE l = [loc[s] EXCEPT !.log = r]
    BY <1>1, <2>1, <2>3, LocalsAre
  <2> QED BY <2>2, <2>3
<1>3. JobsOK'
  BY <1>2, Parts, JobsKept
<1>4. SuccessIsReal'
  BY Parts DEF SuccessIsReal
<1>5. RowsInv'
  BY Parts, RowsKept DEF RowsInv
<1>6. l.outcome = "success" => known'
  BY <1>2, Parts DEF SessionInv
<1>7. sync' \in SyncStatuses /\ known' \in BOOLEAN /\ UsedOK' /\ broken' \in SUBSET PCs /\ (known => known')
  BY Parts DEF UsedOK
<1> QED BY <1>1, <1>2, <1>3, <1>4, <1>5, <1>6, <1>7, Together

LEMMA FindsKeep ==
  ASSUME SyncInv, NEW s \in Sessions,
         FindLog(s) \/ DeadLetterFind(s) \/ RetrySyncFind(s) \/ SweepFind(s)
  PROVE  SyncInv'
<1> USE DEF PCs, SyncPCs, DeadLetterPCs, RetrySyncPCs, RowPCs, WritingPCs, AnsweredPCs
<1>1. FindActiveLog \in 0 .. Len(logs) /\ loc[s] \in Locals
  BY LatestIsRow, Parts DEF FindActiveLog, SyncInv, TypeOK
<1>2. CASE FindLog(s)
  <2> DEFINE c == IF FindActiveLog = 0 THEN "create_log" ELSE "processing"
             l == [loc[s] EXCEPT !.log = FindActiveLog]
  <2>1. l.log = FindActiveLog
    BY <1>1 DEF Locals
  <2>2. c \in PCs /\ c \notin AnsweredPCs /\ (c \in RowPCs => l.log # 0)
    BY <2>1
  <2>3. /\ Goto(s, c, l) /\ pc[s] \notin WritingPCs
        /\ UNCHANGED <<sync, logs, job, known, used, broken>>
    BY <1>2 DEF FindLog
  <2> HIDE DEF c
  <2> QED BY <1>1, <2>2, <2>3, OnlyMoves
<1>3. CASE DeadLetterFind(s)
  <2> DEFINE c == IF FindActiveLog = 0 THEN "dl_sync" ELSE "dl_log"
             l == [loc[s] EXCEPT !.log = FindActiveLog]
  <2>1. l.log = FindActiveLog
    BY <1>1 DEF Locals
  <2>2. c \in PCs /\ c \notin AnsweredPCs /\ (c \in RowPCs => l.log # 0)
    BY <2>1
  <2>3. /\ Goto(s, c, l) /\ pc[s] \notin WritingPCs
        /\ UNCHANGED <<sync, logs, job, known, used, broken>>
    BY <1>3 DEF DeadLetterFind
  <2> HIDE DEF c
  <2> QED BY <1>1, <2>2, <2>3, OnlyMoves
<1>4. CASE RetrySyncFind(s)
  <2> DEFINE c == IF logs = <<>> THEN "rs_add" ELSE "rs_log"
             l == [loc[s] EXCEPT !.log = Len(logs)]
  <2>1. l.log = Len(logs) /\ Len(logs) \in 0 .. Len(logs) /\ (logs # <<>> => Len(logs) # 0)
    BY <1>1, Parts DEF Locals
  <2>2. c \in PCs /\ c \notin AnsweredPCs /\ (c \in RowPCs => l.log # 0)
    BY <2>1
  <2>3. /\ Goto(s, c, l) /\ pc[s] \notin WritingPCs
        /\ UNCHANGED <<sync, logs, job, known, used, broken>>
    BY <1>4 DEF RetrySyncFind
  <2> HIDE DEF c
  <2> QED BY <2>1, <2>2, <2>3, OnlyMoves
<1>5. CASE SweepFind(s)
  <2>1. /\ Goto(s, "sweep_add", NoLocals) /\ pc[s] = "idle"
        /\ UNCHANGED <<sync, logs, job, known, used, broken>>
    BY <1>5 DEF SweepFind
  <2>2. 0 \in 0 .. Len(logs) /\ NoLocals \in {NoLocals, [loc[s] EXCEPT !.log = 0]}
    BY Parts
  <2>3. /\ "sweep_add" \in PCs /\ "sweep_add" \notin RowPCs
        /\ "sweep_add" \notin AnsweredPCs /\ pc[s] \notin WritingPCs
    BY <2>1
  <2> HIDE DEF PCs, RowPCs, WritingPCs, AnsweredPCs
  <2> QED BY <2>1, <2>2, <2>3, OnlyMoves
<1> QED BY <1>2, <1>3, <1>4, <1>5

\* Settlement, hand-off and the additions to the queue: no row is written and
\* the enrollment is not set to FAILED or SUCCESS.
LEMMA QueueStep ==
  ASSUME SyncInv, NEW s \in Sessions, NEW c \in PCs, NEW l \in Locals', Goto(s, c, l),
         c \notin RowPCs, l.outcome = "none", pc[s] \notin WritingPCs,
         sync' \in {sync, "PENDING", "DEAD_LETTER"}, UNCHANGED <<logs, known, broken>>,
         JobsOK', UsedOK'
  PROVE  SyncInv'
<1>1. LogsStep /\ c \notin AnsweredPCs
  BY DEF LogsStep, RowPCs, AnsweredPCs
<1>2. SuccessIsReal'
  BY Parts DEF SuccessIsReal
<1>3. RowsInv'
  BY Parts, RowsKept DEF RowsInv
<1>4. /\ sync' \in SyncStatuses /\ known' \in BOOLEAN /\ broken' \in SUBSET PCs
      /\ (known => known') /\ (l.outcome = "success" => known')
  BY Parts DEF SyncStatuses
<1>5. (c \in RowPCs => l.log # 0) /\ (c \in AnsweredPCs => l.outcome # "none")
  BY <1>1
<1>6. known' \in BOOLEAN
  BY <1>4
<1> QED BY <1>1, <1>2, <1>3, <1>4, <1>5, <1>6, Together

LEMMA QueueStepsKeep ==
  ASSUME SyncInv, NEW s \in Sessions,
         \/ Settle(s) \/ Handoff(s) \/ HandoffQueueDown(s) \/ DeadLetterSync(s)
         \/ SweepAdd(s) \/ RetrySync(s) \/ RetrySyncAdd(s)
         \/ \E j \in JobIds : StartJob(s, j)
  PROVE  SyncInv'
<1> USE DEF PCs, SyncPCs, DeadLetterPCs, RetrySyncPCs, RowPCs, WritingPCs
<1>1. UNCHANGED logs /\ LogsStep /\ TypeOK /\ JobsInv /\ UsedOK
  BY Parts DEF LogsStep, Settle, Handoff, HandoffQueueDown, DeadLetterSync,
     SweepAdd, RetrySync, RetrySyncAdd, StartJob
<1>2. /\ NoLocals \in Locals' /\ NoLocals.job = None /\ NoLocals.log = 0 /\ NoLocals.outcome = "none"
  BY <1>1, LocalsAre
<1>3. CASE Settle(s)
  <2>1. PICK recon \in BOOLEAN : Goto(s, "handoff", [NoLocals EXCEPT !.recon = recon])
    BY <1>3 DEF Settle
  <2> DEFINE l == [NoLocals EXCEPT !.recon = recon]
  <2>2. l \in Locals' /\ l.job = None /\ l.outcome = "none"
    BY <1>2, <2>1 DEF Locals
  <2>3. Goto(s, "handoff", l)
    BY <2>1
  <2>4. /\ pc[s] = "idle" /\ sync' = "PENDING" /\ UNCHANGED <<logs, job, known, broken>>
        /\ used.settlements < MaxSettlements /\ Spend("settlements")
    BY <1>3 DEF Settle
  <2> HIDE DEF l
  <2>5. JobsOK' /\ UsedOK'
    BY <1>1, <2>2, <2>3, <2>4, JobsKept, Spent DEF UsedOK
  <2> QED BY <2>2, <2>3, <2>4, <2>5, QueueStep
<1>4. CASE Handoff(s)
  <2>1. /\ pc[s] = "handoff" /\ AddMain /\ Goto(s, "idle", NoLocals)
        /\ UNCHANGED <<sync, logs, known, used, broken>>
    BY <1>4 DEF Handoff
  <2>2. JobsOK' /\ UsedOK'
    BY <1>1, <2>1, AddJobs DEF UsedOK
  <2> QED BY <1>2, <2>1, <2>2, QueueStep
<1>5. CASE HandoffQueueDown(s)
  <2>1. PICK c \in {"idle", "find_log"} : Goto(s, c, NoLocals)
    BY <1>5 DEF HandoffQueueDown
  <2>2. /\ pc[s] = "handoff" /\ UNCHANGED <<sync, logs, job, known, broken>>
        /\ used.faults < MaxFaults /\ Spend("faults")
    BY <1>5 DEF HandoffQueueDown
  <2>3. JobsOK' /\ UsedOK'
    BY <1>1, <1>2, <2>1, <2>2, JobsKept, Spent DEF UsedOK
  <2> QED BY <1>2, <2>1, <2>2, <2>3, QueueStep
<1>6. CASE DeadLetterSync(s)
  <2>1. /\ pc[s] = "dl_sync" /\ sync' = "DEAD_LETTER" /\ Goto(s, "idle", NoLocals)
        /\ UNCHANGED <<logs, job, known, used, broken>>
    BY <1>6 DEF DeadLetterSync
  <2>2. JobsOK' /\ UsedOK'
    BY <1>1, <1>2, <2>1, JobsKept DEF UsedOK
  <2> QED BY <1>2, <2>1, <2>2, QueueStep
<1>7. CASE SweepAdd(s) \/ RetrySyncAdd(s)
  <2>1. /\ pc[s] \in {"sweep_add", "rs_add"} /\ EnqueueRetry /\ Goto(s, "idle", NoLocals)
        /\ UNCHANGED <<sync, logs, known, used, broken>>
    BY <1>7 DEF SweepAdd, RetrySyncAdd
  <2>2. JobsOK' /\ UsedOK'
    BY <1>1, <2>1, AddJobs DEF UsedOK
  <2> QED BY <1>2, <2>1, <2>2, QueueStep
<1>8. CASE RetrySync(s)
  <2>1. /\ pc[s] = "idle" /\ sync' = "PENDING" /\ Goto(s, "rs_find", NoLocals)
        /\ UNCHANGED <<logs, job, known, broken>>
        /\ used.retrySyncs < MaxRetrySyncs /\ Spend("retrySyncs")
    BY <1>8 DEF RetrySync
  <2>2. JobsOK' /\ UsedOK'
    BY <1>1, <1>2, <2>1, JobsKept, Spent DEF UsedOK
  <2> QED BY <1>2, <2>1, <2>2, QueueStep
<1>9. CASE \E j \in JobIds : StartJob(s, j)
  <2>1. PICK j \in JobIds : StartJob(s, j)
    BY <1>9
  <2> DEFINE l == [NoLocals EXCEPT !.job = j]
  <2>2. l \in Locals' /\ l.outcome = "none"
    BY <1>2 DEF Locals
  <2>3. /\ pc[s] = "idle" /\ Goto(s, "find_log", l)
        /\ UNCHANGED <<sync, logs, known, used, broken>>
    BY <2>1 DEF StartJob
  <2> HIDE DEF l
  <2>4. JobsOK' /\ UsedOK'
    BY <1>1, <2>1, <2>3, StartJobs DEF UsedOK
  <2> QED BY <2>2, <2>3, <2>4, QueueStep
<1> QED BY <1>3, <1>4, <1>5, <1>6, <1>7, <1>8, <1>9

\* The call: what it came back with is what happened.
LEMMA CallsKeep ==
  ASSUME SyncInv, NEW s \in Sessions, CallAccepted(s) \/ CallRefused(s) \/ CallFailed(s)
  PROVE  SyncInv'
<1>1. LogsStep /\ TypeOK /\ JobsInv /\ UsedOK /\ SessionInv(s)
  BY Parts DEF LogsStep, CallAccepted, CallRefused, CallFailed
<1>2. PICK o \in Outcomes :
        /\ Goto(s, "record_log", [loc[s] EXCEPT !.outcome = o])
        /\ o # "none" /\ (o = "success" => known')
  BY DEF CallAccepted, CallRefused, CallFailed, Outcomes
<1> DEFINE l == [loc[s] EXCEPT !.outcome = o]
<1>3. l \in Locals' /\ l.job = loc[s].job /\ l.outcome = o /\ l.log = loc[s].log
  BY <1>1, LocalsAre
<1>4. pc[s] = "call" /\ UNCHANGED <<sync, logs, job, broken>>
  BY DEF CallAccepted, CallRefused, CallFailed
<1>5. known' \in BOOLEAN /\ (known => known')
  <2>1. known \in BOOLEAN
    BY Parts
  <2>2. CallFailed(s) => known' = known \/ known' = TRUE
    BY Zenon DEF CallFailed
  <2> QED BY <2>1, <2>2 DEF CallAccepted, CallRefused
<1>6. UsedOK'
  BY <1>1, Spent DEF UsedOK, CallAccepted, CallRefused, CallFailed
<1> HIDE DEF l
<1>7. Goto(s, "record_log", l) /\ "record_log" \in PCs
  BY <1>2 DEF l, PCs, SyncPCs
<1>8. JobsOK'
  BY <1>1, <1>3, <1>4, <1>7, JobsKept
<1>9. SuccessIsReal'
  BY <1>4, <1>5, Parts DEF SuccessIsReal
<1>10. RowsInv'
  BY <1>3, <1>4, <1>7, Parts, RowsKept DEF RowsInv, WritingPCs
<1>11. l.log # 0
  BY <1>1, <1>3, <1>4 DEF SessionInv, RowPCs
<1>12. sync' \in SyncStatuses /\ broken' \in SUBSET PCs
  BY <1>4, Parts
<1> QED BY <1>1, <1>2, <1>3, <1>5, <1>6, <1>7, <1>8, <1>9, <1>10, <1>11, <1>12, Together

\* The rows.
LEMMA RowStepsKeep ==
  ASSUME SyncInv, NEW s \in Sessions,
         CreateLog(s) \/ MarkProcessing(s) \/ RecordLog(s) \/ MarkDeadLetter(s) \/ RetrySyncLog(s)
  PROVE  SyncInv'
<1> USE DEF PCs, SyncPCs, DeadLetterPCs, RetrySyncPCs
<1>1. /\ TypeOK /\ JobsInv /\ UsedOK /\ SessionInv(s) /\ SuccessIsReal /\ RowsInv
      /\ Len(logs) \in Nat /\ logs \in Seq(LogStatuses) /\ loc[s].log \in 0 .. Len(logs)
  BY Parts
<1>2. UNCHANGED <<sync, job, known, used, broken>>
  BY DEF CreateLog, MarkProcessing, RecordLog, MarkDeadLetter, RetrySyncLog
<1>3. /\ sync' \in SyncStatuses /\ known' \in BOOLEAN /\ UsedOK' /\ broken' \in SUBSET PCs
      /\ known => known'
  BY <1>2, Parts DEF UsedOK
<1>4. CASE CreateLog(s)
  <2> DEFINE l == [loc[s] EXCEPT !.log = Len(logs) + 1]
  <2>1. pc[s] = "create_log" /\ logs' = Append(logs, "pending") /\ Goto(s, "processing", l)
    BY <1>4 DEF CreateLog
  <2>2. LogsStep /\ Len(logs') = Len(logs) + 1 /\ Len(logs) + 1 \in 0 .. Len(logs')
    BY <1>1, <2>1 DEF LogsStep
  <2>3. l \in Locals' /\ l.job = loc[s].job /\ l.outcome = loc[s].outcome /\ l.log = Len(logs) + 1
    BY <1>1, <2>2, LocalsAre
  <2> HIDE DEF l
  <2>4. JobsOK'
    BY <1>1, <1>2, <2>1, <2>3, JobsKept
  <2>5. /\ logs'[Len(logs) + 1] = "pending" /\ logs' # <<>>
        /\ \A r \in 1 .. Len(logs') : r # Len(logs) + 1 => r \in 1 .. Len(logs) /\ logs'[r] = logs[r]
    BY <1>1, <2>1
  <2>6. SuccessIsReal'
    BY <1>1, <1>2, <2>2, <2>5 DEF SuccessIsReal
  <2>7. ASSUME broken' = {}, NEW r \in 1 .. Len(logs')
        PROVE  RowAttended(r)'
    <3>1. CASE r = Len(logs) + 1
      BY <1>1, <2>1, <2>3, <3>1, Moved DEF RowAttended, WritingPCs
    <3>2. CASE r # Len(logs) + 1
      <4>1. RowAttended(r) /\ logs'[r] = logs[r]
        BY <1>1, <1>2, <2>5, <2>7, <3>2 DEF RowsInv
      <4>2. ASSUME NEW t \in Sessions, loc[t].log = r, pc[t] \in WritingPCs
            PROVE  loc'[t].log = r /\ pc'[t] \in WritingPCs
        BY <1>1, <2>1, <4>2, Moved DEF WritingPCs
      <4> QED BY <4>1, <4>2 DEF RowAttended
    <3> QED BY <3>1, <3>2
  <2>8. RowsInv'
    BY <2>5, <2>7 DEF RowsInv
  <2>9. l.log # 0 /\ "processing" \notin AnsweredPCs /\ (l.outcome = "success" => known')
    BY <1>1, <1>2, <2>3 DEF AnsweredPCs, SessionInv
  <2> QED BY <1>3, <2>1, <2>2, <2>3, <2>4, <2>6, <2>8, <2>9, Together
<1>5. CASE ~CreateLog(s)
  <2> DEFINE r == loc[s].log
  <2>1. /\ pc[s] \in {"processing", "record_log", "dl_log", "rs_log"}
        /\ r \in 1 .. Len(logs)
        /\ pc[s] = "record_log" => loc[s].outcome # "none"
    BY <1>1, <1>5 DEF MarkProcessing, RecordLog, MarkDeadLetter, RetrySyncLog,
       SessionInv, RowPCs, AnsweredPCs
  <2>2. PICK c \in PCs, x \in LogStatuses :
          /\ Step(s, c) /\ logs' = [logs EXCEPT ![r] = x]
          /\ c \in AnsweredPCs => loc[s].outcome # "none"
          /\ x = "success" => loc[s].outcome = "success"
          /\ x \in {"pending", "processing"} => c \in WritingPCs
    <3> USE DEF LogStatuses, TerminalLogStatuses, AnsweredPCs, WritingPCs
    <3>1. CASE MarkProcessing(s)
      BY <1>1, <2>1, <3>1 DEF MarkProcessing
    <3>2. CASE RecordLog(s)
      <4>1. loc[s].outcome \in {"success", "terminal", "transient"}
        BY <2>1, <3>2, Parts DEF RecordLog, Outcomes
      <4>2. PICK x \in {"success", "failed", "retrying"} :
              /\ logs' = [logs EXCEPT ![r] = x]
              /\ x = "success" => loc[s].outcome = "success"
        BY <3>2, <4>1 DEF RecordLog
      <4> QED BY <2>1, <3>2, <4>2 DEF RecordLog
    <3>3. CASE MarkDeadLetter(s)
      BY <3>3 DEF MarkDeadLetter
    <3>4. CASE RetrySyncLog(s)
      BY <3>4 DEF RetrySyncLog
    <3> QED BY <1>5, <3>1, <3>2, <3>3, <3>4
  <2>3. Goto(s, c, loc[s])
    BY <1>1, <2>2, StepGoes
  <2>4. LogsStep /\ loc[s] \in Locals'
    BY <1>1, <2>1, <2>2, LocalsAre DEF LogsStep
  <2>5. JobsOK'
    BY <1>1, <1>2, <2>3, JobsKept
  <2>6. SuccessIsReal'
    <3>1. \A i \in 1 .. Len(logs') : logs'[i] = "success" => logs[i] = "success" \/ x = "success"
      BY <1>1, <2>1, <2>2
    <3>2. x = "success" => known
      BY <1>1, <2>2 DEF SessionInv
    <3>3. Len(logs') = Len(logs) /\ DOMAIN logs' = 1 .. Len(logs') /\ DOMAIN logs = 1 .. Len(logs)
      BY <1>1, <2>1, <2>2
    <3> QED BY <1>1, <1>2, <3>1, <3>2, <3>3 DEF SuccessIsReal
  <2>7. RowsInv'
    BY <1>1, <1>2, <2>1, <2>2, <2>3, RowWritten
  <2>8. loc[s].log # 0 /\ (loc[s].outcome = "success" => known')
    BY <1>1, <1>2, <2>1 DEF SessionInv
  <2> QED BY <1>3, <2>2, <2>3, <2>4, <2>5, <2>6, <2>7, <2>8, Together
<1> QED BY <1>4, <1>5

\* The enrollment's status, and the end of the job.
LEMMA RecordSyncKeeps ==
  ASSUME SyncInv, NEW s \in Sessions, RecordSync(s)
  PROVE  SyncInv'
<1>1. TypeOK /\ JobsInv /\ UsedOK /\ SessionInv(s) /\ SuccessIsReal /\ RowsInv
  BY Parts
<1>2. pc[s] = "record_sync" /\ UNCHANGED <<logs, known, used, broken>> /\ LogsStep
  BY DEF RecordSync, LogsStep
<1>3. PICK c \in {"idle", "dl_find"} : Goto(s, c, NoLocals)
  BY <1>1, ReturnJobs, ThrowJobs DEF RecordSync
<1>4. JobsOK'
  BY <1>1, ReturnJobs, ThrowJobs DEF RecordSync
<1>5. /\ sync' \in SyncStatuses
      /\ sync' = "SUCCESS" => loc[s].outcome = "success"
  BY DEF RecordSync, SyncStatuses
<1>6. SuccessIsReal'
  BY <1>1, <1>2, <1>5 DEF SuccessIsReal, SessionInv
<1>7. logs # <<>>
  BY <1>1, <1>2, Parts DEF SessionInv, RowPCs
<1>8. RowsInv'
  BY <1>1, <1>2, <1>3, <1>7, RowsKept DEF WritingPCs
<1>9. c \in PCs /\ c \notin RowPCs /\ c \notin AnsweredPCs
  BY DEF PCs, DeadLetterPCs, RowPCs, AnsweredPCs
<1>10. NoLocals \in Locals' /\ NoLocals.outcome = "none"
  BY <1>1, <1>2, LocalsAre
<1>11. /\ known' \in BOOLEAN /\ UsedOK' /\ broken' \in SUBSET PCs
       /\ known => known'
  BY <1>2, Parts DEF UsedOK
<1> QED BY <1>2, <1>3, <1>4, <1>5, <1>6, <1>8, <1>9, <1>10, <1>11, Together

\* Failures.
LEMMA FailuresKeep ==
  ASSUME SyncInv, NEW s \in Sessions, StatementFails(s) \/ Crash(s)
  PROVE  SyncInv'
<1>1. TypeOK /\ JobsInv /\ UsedOK /\ SuccessIsReal /\ RowsInv /\ pc[s] \in PCs
  BY Parts
<1>2. Break(s) /\ UNCHANGED <<sync, logs, known, used>> /\ LogsStep
  BY DEF StatementFails, Crash, Break, LogsStep
<1>3. JobsOK' /\ \E c \in {"idle", "dl_find"} : Goto(s, c, NoLocals)
  <2>1. NoLocals.job = None
    BY DEF NoLocals
  <2>2. CASE Crash(s)
    BY <1>1, <2>2, CrashJobs DEF Crash
  <2>3. CASE StatementFails(s)
    <3>1. CASE Throw(s)
      BY <1>1, <3>1, ThrowJobs
    <3>2. CASE UNCHANGED job /\ Goto(s, "idle", NoLocals)
      BY <1>1, <2>1, <3>2, JobsKept
    <3> QED BY <2>3, <3>1, <3>2 DEF StatementFails
  <2> QED BY <2>2, <2>3
<1>4. PICK c \in {"idle", "dl_find"} : Goto(s, c, NoLocals)
  BY <1>3
<1>5. broken' \in SUBSET PCs /\ broken' # {}
  BY <1>1, <1>2, Parts DEF Break
<1>6. SuccessIsReal'
  BY <1>1, <1>2 DEF SuccessIsReal
<1>7. RowsInv'
  BY <1>1, <1>2, <1>5 DEF RowsInv
<1>8. c \in PCs /\ c \notin RowPCs /\ c \notin AnsweredPCs
  BY DEF PCs, DeadLetterPCs, RowPCs, AnsweredPCs
<1>9. NoLocals \in Locals' /\ NoLocals.outcome = "none"
  BY <1>1, <1>2, LocalsAre
<1>10. /\ sync' \in SyncStatuses /\ known' \in BOOLEAN /\ UsedOK'
       /\ known => known'
  BY <1>2, Parts DEF UsedOK
<1> QED BY <1>2, <1>3, <1>4, <1>5, <1>6, <1>7, <1>8, <1>9, <1>10, Together

LEMMA SyncNext == SyncInv /\ [Next]_vars => SyncInv'
<1> SUFFICES ASSUME SyncInv, [Next]_vars
             PROVE  SyncInv'
  OBVIOUS
<1>1. CASE UNCHANGED vars
  BY <1>1 DEF vars, SyncInv, TypeOK, JobsInv, SessionInv, SuccessIsReal, RowsInv, RowAttended, Locals
<1>2. CASE Next
  <2>1. PICK s \in Sessions : Progress(s) \/ Work(s) \/ SweepFind(s) \/ Environment(s)
    BY <1>2 DEF Next
  <2>2. CASE Progress(s)
    BY <2>2, QueueStepsKeep, FindsKeep, RowStepsKeep, CallsKeep, RecordSyncKeeps DEF Progress
  <2>3. CASE Work(s)
    BY <2>3, QueueStepsKeep DEF Work
  <2>4. CASE SweepFind(s)
    BY <2>4, FindsKeep
  <2>5. CASE Environment(s)
    BY <2>5, QueueStepsKeep, FailuresKeep DEF Environment
  <2> QED BY <2>1, <2>2, <2>3, <2>4, <2>5
<1> QED BY <1>1, <1>2

-----------------------------------------------------------------------------
(* The theorems *)

\* The sync keeps its inductive invariant, whatever the sessions, the sweeper,
\* the Retry sync button, faults and crashes interleave to.
THEOREM SyncInvariant == Spec => []SyncInv
BY SyncInit, SyncNext, PTL DEF Spec

\* Every variable keeps its type: above all, a job never has more attempts
\* behind it than the queue allows, since one session at a time runs it.
THEOREM SyncTypeCorrect == Spec => []TypeOK
<1>1. SyncInv => TypeOK
  BY DEF SyncInv
<1> QED BY <1>1, SyncInvariant, PTL

\* SUCCESS, on the enrollment or in the log, is never a guess: the platform has
\* the enrollment (classify, updateExternalSyncStatus, markSuccess).
THEOREM SuccessIsRealHolds == Spec => []SuccessIsReal
<1>1. SyncInv => SuccessIsReal
  BY DEF SyncInv
<1> QED BY <1>1, SyncInvariant, PTL

\* While nothing has broken, FAILED has someone to retry it or a log row that
\* tells how the push ended.  When no session is left no row is pending or
\* processing, and FAILED has at least one row.
THEOREM FailedIsRetriedHolds == Spec => []FailedIsRetried
<1>1. ASSUME SyncInv
      PROVE  FailedIsRetried
  <2> SUFFICES ASSUME sync = "FAILED", broken = {}, ~InProgress
               PROVE  LogEnded
    BY DEF FailedIsRetried
  <2>1. /\ TypeOK /\ logs \in Seq(LogStatuses) /\ Len(logs) \in Nat
        /\ logs # <<>> /\ \A l \in 1 .. Len(logs) : RowAttended(l)
    BY <1>1 DEF SyncInv, RowsInv, TypeOK
  <2>2. 1 \in DOMAIN logs /\ 1 \in 1 .. Len(logs) /\ logs[1] \in LogStatuses
    BY <2>1
  <2>3. logs[1] # "retrying" /\ \A s \in Sessions : pc[s] = "idle"
    BY <2>2 DEF InProgress
  <2>4. logs[1] \notin {"pending", "processing"}
    BY <2>1, <2>2, <2>3 DEF RowAttended, WritingPCs
  <2> QED BY <2>2, <2>3, <2>4 DEF LogStatuses, LogEnded
<1> QED BY <1>1, SyncInvariant, PTL

=============================================================================
