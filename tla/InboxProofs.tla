---------------------------- MODULE InboxProofs -----------------------------
(***************************************************************************)
(* Proofs about the webhook inbox and the job lock, for any number of      *)
(* servers, payments and events and for any time to live of the lock.      *)
(***************************************************************************)
EXTENDS WebhookInboxProperties, Extrema

-----------------------------------------------------------------------------
(* The inductive invariant *)

Event == [pay : Paid, processed : BOOLEAN, attempts : Nat]
Serving == {"process", "enqueue", "mark", "count"}

InboxTypeOK ==
  /\ event \in Seq(Event) /\ Len(event) <= MaxEvents
  /\ settled \in SUBSET Paid /\ lost \in SUBSET Paid
  /\ handed \in [Paid -> Nat]
  /\ holder \in Servers \cup {Nobody} /\ ttl \in 0 .. LockTtl
  /\ work \in [Servers -> [Kinds -> Work]]
  /\ faults \in Nat

\* A run that has not outlived the lock holds it, and its age and the time the
\* lock has left make up the time to live.  A key whose run is gone stays, so
\* the holder may have no run.
LockInv ==
  /\ holder = Nobody <=> ttl = 0
  /\ \A s \in Servers :
       LET run == work[s]["run"] IN
       /\ run.pc = "idle" => run.age = 0
       /\ run.pc # "idle" /\ run.age # LockTtl => holder = s /\ ttl + run.age = LockTtl

\* A handler or a run that serves events has some left, all of them stored.
SlotInv(s, k) ==
  /\ work[s][k].pc \in Serving =>
       work[s][k].todo # {} /\ work[s][k].todo \subseteq 1 .. Len(event)
  /\ At(s, k, "mark") => event[Current(s, k)].pay \in settled

HandsOn(s, k, p) == At(s, k, "enqueue") /\ event[Current(s, k)].pay = p

\* A settled payment is in one of three places: handed on, about to be, or lost
\* with the process that was about to.
OnePlace(p) ==
  /\ handed[p] <= 1
  /\ p \notin settled => handed[p] = 0 /\ p \notin lost
  /\ handed[p] = 1 => p \notin lost
  /\ \A s \in Servers, k \in Kinds :
       HandsOn(s, k, p) => /\ p \in settled /\ p \notin lost /\ handed[p] = 0
                           /\ \A t \in Servers, j \in Kinds : HandsOn(t, j, p) => t = s /\ j = k
  /\ p \in settled => \/ handed[p] = 1
                      \/ p \in lost
                      \/ \E s \in Servers, k \in Kinds : HandsOn(s, k, p)

EffectInv ==
  /\ \A e \in 1 .. Len(event) : event[e].processed => event[e].pay \in settled
  /\ \A s \in Servers, k \in Kinds : SlotInv(s, k)
  /\ \A p \in Paid : OnePlace(p)

InboxInv == InboxTypeOK /\ LockInv /\ EffectInv

-----------------------------------------------------------------------------
(* Slots *)

\* A step that writes one slot.
Writes(s, k, w) == work' = [work EXCEPT ![s][k] = w]

LEMMA SlotWritten ==
  ASSUME work \in [Servers -> [Kinds -> Work]],
         NEW s \in Servers, NEW k \in Kinds, NEW w \in Work, Writes(s, k, w)
  PROVE  /\ work' \in [Servers -> [Kinds -> Work]]
         /\ work'[s][k] = w
         /\ \A t \in Servers, j \in Kinds : t # s \/ j # k => work'[t][j] = work[t][j]
BY DEF Writes

LEMMA OldestIsOne ==
  ASSUME NEW S \in SUBSET Nat, S # {}
  PROVE  Oldest(S) \in S
BY LeastOfNaturals DEF Oldest

\* Whoever serves events has a stored one at hand.
LEMMA CurrentIsStored ==
  ASSUME InboxTypeOK, NEW s \in Servers, NEW k \in Kinds, SlotInv(s, k), work[s][k].pc \in Serving
  PROVE  /\ Current(s, k) \in work[s][k].todo
         /\ Current(s, k) \in 1 .. Len(event)
         /\ event[Current(s, k)] \in Event
<1>1. Len(event) \in Nat /\ \A e \in 1 .. Len(event) : event[e] \in Event
  BY DEF InboxTypeOK
<1>2. work[s][k].todo \in SUBSET Nat /\ work[s][k].todo # {}
  BY <1>1 DEF SlotInv
<1>3. Current(s, k) \in work[s][k].todo
  BY <1>2, OldestIsOne DEF Current
<1> QED BY <1>1, <1>3 DEF SlotInv

\* What a slot becomes when its program counter moves, and after an event.
LEMMA SlotGoes ==
  ASSUME InboxTypeOK, NEW s \in Servers, NEW k \in Kinds,
         NEW pc \in {"idle", "select", "process", "enqueue", "mark", "count", "release"},
         Goto(s, k, pc)
  PROVE  LET w == [work[s][k] EXCEPT !.pc = pc]
         IN w \in Work /\ Writes(s, k, w)
<1>1. work[s][k] \in Work
  BY DEF InboxTypeOK
<1>2. [work[s][k] EXCEPT !.pc = pc] \in Work
  BY <1>1 DEF Work
<1>3. Writes(s, k, [work[s][k] EXCEPT !.pc = pc])
  BY DEF Goto, Writes
<1> QED BY <1>2, <1>3

LEMMA RestingIsWork == Resting \in Work
BY WebhookInboxAssumption DEF Resting, Work

LEMMA SlotGoesOn ==
  ASSUME InboxTypeOK, NEW s \in Servers, NEW k \in Kinds, NextEvent(s, k)
  PROVE  \E w \in Work :
           /\ Writes(s, k, w)
           /\ \/ w.pc = "process" /\ w.todo # {} /\ w.todo \subseteq work[s][k].todo /\ w.age = work[s][k].age
              \/ k = "run" /\ w.pc = "release" /\ w.age = work[s][k].age
              \/ k = "handler" /\ w = Resting
<1> DEFINE old == work[s][k]
           rest == old.todo \ {Current(s, k)}
<1>0. old \in Work
  BY DEF InboxTypeOK
<1>1. CASE rest # {}
  <2>1. [old EXCEPT !.todo = rest, !.pc = "process"] \in Work
    BY <1>0 DEF Work
  <2>2. Writes(s, k, [old EXCEPT !.todo = rest, !.pc = "process"])
    BY <1>1 DEF NextEvent, Writes
  <2> QED BY <1>0, <1>1, <2>1, <2>2 DEF Work
<1>2. CASE rest = {} /\ k = "run"
  <2>1. [old EXCEPT !.todo = {}, !.pc = "release"] \in Work
    BY <1>0 DEF Work
  <2>2. Writes(s, k, [old EXCEPT !.todo = {}, !.pc = "release"])
    BY <1>2 DEF NextEvent, Writes
  <2> QED BY <1>0, <1>2, <2>1, <2>2 DEF Work
<1>3. CASE rest = {} /\ k # "run"
  <2>1. Writes(s, k, Resting) /\ k = "handler"
    BY <1>3 DEF NextEvent, Writes, Kinds
  <2> QED BY <2>1, RestingIsWork
<1> QED BY <1>1, <1>2, <1>3
-----------------------------------------------------------------------------
(* Types *)

\* The actions that write one slot, with what they make of it.
LEMMA ActionsWriteOneSlot ==
  ASSUME InboxTypeOK, NEW s \in Servers
  PROVE  /\ \A p \in Paid : Deliver(s, p) =>
              \E w \in Work : Writes(s, "handler", w) /\ w.pc = "process" /\ w.todo = {Len(event')}
         /\ AcquireLock(s) =>
              \E w \in Work : /\ Writes(s, "run", w) /\ w.pc = "select"
                              /\ w.age = work[s]["run"].age
         /\ Select(s) =>
              \E w \in Work : /\ Writes(s, "run", w) /\ w.age = work[s]["run"].age
                              /\ w.todo \subseteq 1 .. Len(event)
                              /\ w.pc = IF w.todo = {} THEN "release" ELSE "process"
         /\ ReleaseLock(s) \/ ReleaseFails(s) => Writes(s, "run", Resting)
         /\ HandleFails(s) => Writes(s, "handler", Resting)
         /\ RunFails(s) =>
              \E w \in Work : /\ Writes(s, "run", w) /\ w.pc = "release"
                              /\ w.age = work[s]["run"].age
<1>0. "handler" \in Kinds /\ "run" \in Kinds /\ work[s]["run"] \in Work
  BY DEF Kinds, InboxTypeOK
<1>1. ASSUME NEW p \in Paid, Deliver(s, p)
      PROVE  \E w \in Work : Writes(s, "handler", w) /\ w.pc = "process" /\ w.todo = {Len(event')}
  <2> DEFINE w == [pc |-> "process", todo |-> {Len(event')}, age |-> 0]
  <2>1. Len(event') \in 1 .. MaxEvents
    BY <1>1, WebhookInboxAssumption DEF Deliver, InboxTypeOK
  <2>2. w \in Work
    <3>1. {Len(event')} \in SUBSET (1 .. MaxEvents) /\ 0 \in 0 .. LockTtl
      BY <2>1, WebhookInboxAssumption
    <3> QED BY <3>1 DEF Work
  <2>3. Writes(s, "handler", w)
    BY <1>1 DEF Deliver, Writes
  <2> QED BY <2>2, <2>3 DEF Resting
<1>2. ASSUME AcquireLock(s)
      PROVE  \E w \in Work : Writes(s, "run", w) /\ w.pc = "select" /\ w.age = work[s]["run"].age
  <2> DEFINE w == [work[s]["run"] EXCEPT !.pc = "select"]
  <2>1. w \in Work /\ Writes(s, "run", w)
    BY <1>0, <1>2, SlotGoes DEF AcquireLock
  <2>2. w.pc = "select" /\ w.age = work[s]["run"].age
    BY <1>0 DEF Work
  <2> QED BY <2>1, <2>2
<1>3. ASSUME Select(s)
      PROVE  \E w \in Work : /\ Writes(s, "run", w) /\ w.age = work[s]["run"].age
                             /\ w.todo \subseteq 1 .. Len(event)
                             /\ w.pc = IF w.todo = {} THEN "release" ELSE "process"
  <2> DEFINE open == {e \in 1 .. Len(event) : ~event[e].processed /\ event[e].attempts < MaxTries}
             rows == {e \in open : Cardinality({f \in open : f < e}) < Batch}
             w == [work[s]["run"] EXCEPT !.todo = rows, !.pc = IF rows = {} THEN "release" ELSE "process"]
  <2>1. rows \subseteq 1 .. Len(event)
    OBVIOUS
  <2>2. Writes(s, "run", w)
    BY <1>3, Zenon DEF Select, Writes
  <2> HIDE DEF rows
  <2>3. rows \in SUBSET (1 .. MaxEvents)
    BY <2>1, WebhookInboxAssumption DEF InboxTypeOK
  <2>4. w \in Work /\ w.age = work[s]["run"].age /\ w.todo = rows
        /\ w.pc = IF rows = {} THEN "release" ELSE "process"
    BY <1>0, <2>3 DEF Work
  <2> QED BY <2>1, <2>2, <2>4
<1>4. ASSUME RunFails(s)
      PROVE  \E w \in Work : Writes(s, "run", w) /\ w.pc = "release" /\ w.age = work[s]["run"].age
  <2> DEFINE w == [work[s]["run"] EXCEPT !.pc = "release", !.todo = {}]
  <2>1. w \in Work /\ w.pc = "release" /\ w.age = work[s]["run"].age
    BY <1>0 DEF Work
  <2>2. Writes(s, "run", w)
    BY <1>4 DEF RunFails, Writes
  <2> QED BY <2>1, <2>2
<1> QED BY <1>1, <1>2, <1>3, <1>4 DEF ReleaseLock, ReleaseFails, HandleFails, Writes

LEMMA RowsStayEvents ==
  ASSUME NEW row \in Event, NEW done \in BOOLEAN
  PROVE  Counted(row, done) \in Event
BY DEF Event, Counted

LEMMA RunsAge ==
  ASSUME NEW run \in Work, run.age # LockTtl
  PROVE  [run EXCEPT !.age = @ + 1] \in Work
<1>1. run.age + 1 \in 0 .. LockTtl
  BY WebhookInboxAssumption DEF Work
<1> QED BY <1>1 DEF Work

LEMMA TypeStep ==
  ASSUME InboxTypeOK, EffectInv, [InboxNext]_inboxVars
  PROVE  InboxTypeOK'
<1> USE WebhookInboxAssumption DEF redis, database
<1>0. "handler" \in Kinds /\ "run" \in Kinds
  BY DEF Kinds
<1>1. ASSUME NEW s \in Servers, NEW p \in Paid, Deliver(s, p)
      PROVE  InboxTypeOK'
  <2>1. [pay |-> p, processed |-> FALSE, attempts |-> 0] \in Event
    BY DEF Event
  <2>2. event' \in Seq(Event) /\ Len(event') <= MaxEvents
    BY <1>1, <2>1 DEF Deliver, InboxTypeOK
  <2>3. work' \in [Servers -> [Kinds -> Work]]
    BY <1>0, <1>1, ActionsWriteOneSlot, SlotWritten DEF InboxTypeOK
  <2> QED BY <1>1, <2>2, <2>3 DEF Deliver, InboxTypeOK
<1>2. ASSUME NEW s \in Servers, NEW k \in Kinds, Process(s, k)
      PROVE  InboxTypeOK'
  <2>1. PICK pc \in {"count", "mark", "enqueue"} : Goto(s, k, pc)
    BY <1>2 DEF Process
  <2>2. work' \in [Servers -> [Kinds -> Work]]
    <3>1. [work[s][k] EXCEPT !.pc = pc] \in Work /\ Writes(s, k, [work[s][k] EXCEPT !.pc = pc])
      BY <2>1, SlotGoes
    <3> QED BY <3>1, SlotWritten DEF InboxTypeOK
  <2>3. event[Current(s, k)].pay \in Paid
    BY <1>2, CurrentIsStored DEF Process, At, Serving, EffectInv, Event
  <2> QED BY <1>2, <2>2, <2>3 DEF Process, InboxTypeOK
<1>3. ASSUME NEW s \in Servers, NEW k \in Kinds, Enqueue(s, k)
      PROVE  InboxTypeOK'
  <2>1. work' \in [Servers -> [Kinds -> Work]]
    BY <1>3, SlotGoes, SlotWritten DEF Enqueue, InboxTypeOK
  <2>2. handed' \in [Paid -> Nat]
    <3>1. event[Current(s, k)].pay \in Paid
      BY <1>3, CurrentIsStored DEF Enqueue, At, Serving, EffectInv, Event
    <3> QED BY <1>3, <3>1 DEF Enqueue, InboxTypeOK
  <2> QED BY <1>3, <2>1, <2>2 DEF Enqueue, InboxTypeOK
<1>4. ASSUME NEW s \in Servers, NEW k \in Kinds, MarkProcessed(s, k) \/ CountFailure(s, k)
      PROVE  InboxTypeOK'
  <2> DEFINE c == Current(s, k)
  <2>1. c \in 1 .. Len(event) /\ event[c] \in Event
    BY <1>4, CurrentIsStored DEF MarkProcessed, CountFailure, At, Serving, EffectInv
  <2>2. \E row \in Event : event' = [event EXCEPT ![c] = row]
    <3>1. event[c].processed \in BOOLEAN
      BY <2>1 DEF Event
    <3>2. Counted(event[c], TRUE) \in Event /\ Counted(event[c], event[c].processed) \in Event
      BY <2>1, <3>1, RowsStayEvents
    <3> QED BY <1>4, <3>2 DEF MarkProcessed, CountFailure
  <2>3. event' \in Seq(Event) /\ Len(event') = Len(event)
    BY <2>1, <2>2 DEF InboxTypeOK
  <2>4. work' \in [Servers -> [Kinds -> Work]]
    <3>1. PICK w \in Work : Writes(s, k, w)
      BY <1>4, SlotGoesOn DEF MarkProcessed, CountFailure
    <3> QED BY <3>1, SlotWritten DEF InboxTypeOK
  <2> QED BY <1>4, <2>3, <2>4 DEF MarkProcessed, CountFailure, InboxTypeOK
<1>5. ASSUME NEW s \in Servers, NEW k \in Kinds, MarkFails(s, k)
      PROVE  InboxTypeOK'
  <2>1. work' \in [Servers -> [Kinds -> Work]]
    BY <1>5, SlotGoes, SlotWritten DEF MarkFails, InboxTypeOK
  <2> QED BY <1>5, <2>1 DEF MarkFails, Fault, InboxTypeOK
<1>6. ASSUME NEW s \in Servers, AcquireLock(s) \/ Select(s) \/ ReleaseLock(s)
      PROVE  InboxTypeOK'
  <2>1. work' \in [Servers -> [Kinds -> Work]]
    BY <1>0, <1>6, ActionsWriteOneSlot, SlotWritten, RestingIsWork DEF InboxTypeOK
  <2>2. UNCHANGED <<event, settled, handed, lost, faults>>
    BY <1>6 DEF AcquireLock, Select, ReleaseLock
  <2>3. holder' \in Servers \cup {Nobody} /\ ttl' \in 0 .. LockTtl
    BY <1>6 DEF AcquireLock, Select, ReleaseLock, InboxTypeOK
  <2> QED BY <2>1, <2>2, <2>3 DEF InboxTypeOK
<1>7. ASSUME NEW s \in Servers, HandleFails(s) \/ RunFails(s) \/ ReleaseFails(s)
      PROVE  InboxTypeOK'
  <2>1. work' \in [Servers -> [Kinds -> Work]]
    BY <1>0, <1>7, ActionsWriteOneSlot, SlotWritten, RestingIsWork DEF InboxTypeOK
  <2>2. UNCHANGED <<event, settled, handed, lost, holder, ttl>> /\ faults' = faults + 1
    BY <1>7 DEF HandleFails, RunFails, ReleaseFails, Fault
  <2> QED BY <2>1, <2>2 DEF InboxTypeOK
<1>8. ASSUME NEW s \in Servers, Crash(s)
      PROVE  InboxTypeOK'
  <2>1. work' \in [Servers -> [Kinds -> Work]]
    BY <1>8, RestingIsWork DEF Crash, InboxTypeOK
  <2>2. \A k \in Kinds : At(s, k, "enqueue") => event[Current(s, k)].pay \in Paid
    BY CurrentIsStored DEF At, Serving, EffectInv, Event
  <2> QED BY <1>8, <2>1, <2>2 DEF Crash, Fault, InboxTypeOK
<1>9. ASSUME PassTtl
      PROVE  InboxTypeOK'
  <2>1. ASSUME NEW s \in Servers
        PROVE  work'[s] \in [Kinds -> Work]
    <3>1. work[s] \in [Kinds -> Work] /\ work[s]["run"] \in Work
      BY <1>0 DEF InboxTypeOK
    <3>2. work[s]["run"].age # LockTtl => [work[s]["run"] EXCEPT !.age = @ + 1] \in Work
      BY <3>1, RunsAge
    <3>3. \/ work'[s] = work[s]
          \/ work[s]["run"].age # LockTtl
             /\ work'[s] = [work[s] EXCEPT !["run"] = [work[s]["run"] EXCEPT !.age = @ + 1]]
      BY <1>9 DEF PassTtl
    <3> QED BY <3>1, <3>2, <3>3
  <2>2. work' \in [Servers -> [Kinds -> Work]]
    <3>1. work' = [s \in Servers |-> work'[s]]
      BY <1>9 DEF PassTtl
    <3> QED BY <2>1, <3>1
  <2>3. holder' \in Servers \cup {Nobody} /\ ttl' \in 0 .. LockTtl
    BY <1>9 DEF PassTtl, InboxTypeOK
  <2> QED BY <1>9, <2>2, <2>3 DEF PassTtl, InboxTypeOK
<1>10. CASE UNCHANGED inboxVars
  BY <1>10 DEF inboxVars, InboxTypeOK
<1> QED BY <1>1, <1>2, <1>3, <1>4, <1>5, <1>6, <1>7, <1>8, <1>9, <1>10 DEF InboxNext, Statement

-----------------------------------------------------------------------------
(* The lock *)

\* Whatever leaves holder and time alone, writes one run or none, and lets the
\* run keep its age, or end, keeps the lock right.
LEMMA LockKept ==
  ASSUME InboxTypeOK, LockInv, UNCHANGED <<holder, ttl>>,
         NEW s \in Servers, NEW k \in Kinds, NEW w \in Work, Writes(s, k, w),
         k = "run" => \/ w.pc = "idle" /\ w.age = 0
                      \/ work[s]["run"].pc # "idle" /\ w.pc # "idle" /\ w.age = work[s]["run"].age
  PROVE  LockInv'
<1>1. \A t \in Servers : \/ work'[t]["run"] = work[t]["run"]
                         \/ t = s /\ k = "run" /\ work'[t]["run"] = w
  BY SlotWritten DEF InboxTypeOK, Kinds
<1> QED BY <1>1 DEF LockInv

LEMMA LockStep ==
  ASSUME InboxInv, [InboxNext]_inboxVars
  PROVE  LockInv'
<1> USE DEF InboxInv
<1>0. "handler" \in Kinds /\ "run" \in Kinds /\ "handler" # "run"
  BY DEF Kinds
<1>1. ASSUME NEW s \in Servers, NEW p \in Paid, Deliver(s, p)
      PROVE  LockInv'
  <2>1. PICK w \in Work : Writes(s, "handler", w)
    BY <1>1, ActionsWriteOneSlot
  <2> QED BY <1>0, <1>1, <2>1, LockKept DEF Deliver, redis
<1>2. ASSUME NEW s \in Servers, NEW k \in Kinds,
             Process(s, k) \/ Enqueue(s, k) \/ MarkFails(s, k)
      PROVE  LockInv'
  <2>1. PICK pc \in {"count", "mark", "enqueue"} : Goto(s, k, pc)
    BY <1>2 DEF Process, Enqueue, MarkFails
  <2> DEFINE w == [work[s][k] EXCEPT !.pc = pc]
  <2>2. w \in Work /\ Writes(s, k, w)
    BY <2>1, SlotGoes
  <2>3. work[s][k] \in Work /\ work[s][k].pc # "idle"
    BY <1>2 DEF Process, Enqueue, MarkFails, At, InboxTypeOK
  <2>4. w.pc # "idle" /\ w.age = work[s][k].age
    BY <2>3 DEF Work
  <2>5. UNCHANGED <<holder, ttl>>
    BY <1>2 DEF Process, Enqueue, MarkFails, redis
  <2> HIDE DEF w
  <2> QED BY <2>2, <2>3, <2>4, <2>5, LockKept
<1>3. ASSUME NEW s \in Servers, NEW k \in Kinds, MarkProcessed(s, k) \/ CountFailure(s, k)
      PROVE  LockInv'
  <2>1. PICK w \in Work :
           /\ Writes(s, k, w)
           /\ \/ w.pc = "process" /\ w.age = work[s][k].age
              \/ k = "run" /\ w.pc = "release" /\ w.age = work[s][k].age
              \/ k = "handler" /\ w = Resting
    <3>1. NextEvent(s, k)
      BY <1>3 DEF MarkProcessed, CountFailure
    <3> QED BY <3>1, SlotGoesOn
  <2>2. work[s][k].pc # "idle" /\ UNCHANGED <<holder, ttl>>
    BY <1>3 DEF MarkProcessed, CountFailure, At, redis
  <2> QED BY <1>0, <2>1, <2>2, LockKept
<1>4. ASSUME NEW s \in Servers, AcquireLock(s)
      PROVE  LockInv'
  <2>1. PICK w \in Work : Writes(s, "run", w) /\ w.pc = "select" /\ w.age = work[s]["run"].age
    BY <1>4, ActionsWriteOneSlot
  <2>2. work'[s]["run"] = w /\ \A t \in Servers \ {s} : work'[t]["run"] = work[t]["run"]
    BY <1>0, <2>1, SlotWritten DEF InboxTypeOK
  <2>3. ttl = 0 /\ work[s]["run"].age = 0
    BY <1>4 DEF AcquireLock, LockInv, At
  <2>4. holder' = s /\ ttl' = LockTtl /\ s # Nobody /\ LockTtl \in Nat \ {0}
    BY <1>4, WebhookInboxAssumption DEF AcquireLock
  <2>5. \A t \in Servers \ {s} : work[t]["run"].pc # "idle" => work[t]["run"].age = LockTtl
    BY <2>3, <1>4, WebhookInboxAssumption DEF LockInv, AcquireLock
  <2> QED BY <2>1, <2>2, <2>3, <2>4, <2>5 DEF LockInv
<1>5. ASSUME NEW s \in Servers, ReleaseLock(s)
      PROVE  LockInv'
  <2>1. work'[s]["run"] = Resting /\ \A t \in Servers \ {s} : work'[t]["run"] = work[t]["run"]
    BY <1>0, <1>5, ActionsWriteOneSlot, SlotWritten, RestingIsWork DEF InboxTypeOK
  <2>2. Resting.pc = "idle" /\ Resting.age = 0
    BY DEF Resting
  <2>3. CASE holder = s
    <3>1. holder' = Nobody /\ ttl' = 0
      BY <1>5, <2>3 DEF ReleaseLock
    <3>2. \A t \in Servers \ {s} : work[t]["run"].pc # "idle" => work[t]["run"].age = LockTtl
      BY <2>3 DEF LockInv
    <3>3. \A t \in Servers \ {s} : work[t]["run"].pc = "idle" => work[t]["run"].age = 0
      BY DEF LockInv
    <3> QED BY <2>1, <2>2, <3>1, <3>2, <3>3 DEF LockInv
  <2>4. CASE holder # s
    <3>1. holder' = holder /\ ttl' = ttl
      BY <1>5, <2>4 DEF ReleaseLock
    <3> QED BY <2>1, <2>2, <3>1 DEF LockInv
  <2> QED BY <2>3, <2>4
<1>6. ASSUME NEW s \in Servers, Select(s) \/ RunFails(s)
      PROVE  LockInv'
  <2>1. PICK w \in Work : /\ Writes(s, "run", w) /\ w.pc # "idle"
                          /\ w.age = work[s]["run"].age
    BY <1>6, ActionsWriteOneSlot
  <2>2. work[s]["run"].pc # "idle" /\ UNCHANGED <<holder, ttl>>
    BY <1>6 DEF Select, RunFails, At, redis
  <2> QED BY <1>0, <2>1, <2>2, LockKept
<1>7. ASSUME NEW s \in Servers, HandleFails(s) \/ ReleaseFails(s)
      PROVE  LockInv'
  <2>1. PICK k \in Kinds : Writes(s, k, Resting)
    BY <1>0, <1>7, ActionsWriteOneSlot
  <2>2. UNCHANGED <<holder, ttl>>
    BY <1>7 DEF HandleFails, ReleaseFails, redis
  <2> QED BY <2>1, <2>2, LockKept, RestingIsWork DEF Resting
<1>8. ASSUME NEW s \in Servers, Crash(s)
      PROVE  LockInv'
  <2>1. work'[s]["run"] = Resting /\ \A t \in Servers \ {s} : work'[t]["run"] = work[t]["run"]
    BY <1>0, <1>8 DEF Crash, InboxTypeOK
  <2>2. UNCHANGED <<holder, ttl>>
    BY <1>8 DEF Crash, redis
  <2> QED BY <2>1, <2>2 DEF LockInv, Resting
<1>9. ASSUME PassTtl
      PROVE  LockInv'
  <2>1. ttl \in Nat \ {0} /\ ttl' = ttl - 1 /\ holder # Nobody
    BY <1>9 DEF PassTtl, LockInv, InboxTypeOK
  <2>2. holder' = IF ttl' = 0 THEN Nobody ELSE holder
    BY <1>9, <2>1 DEF PassTtl
  <2>3. ASSUME NEW s \in Servers
        PROVE  LET run == work[s]["run"]
               IN /\ work'[s]["run"].pc = run.pc
                  /\ run.pc = "idle" \/ run.age = LockTtl => work'[s]["run"].age = run.age
                  /\ run.pc # "idle" /\ run.age # LockTtl => work'[s]["run"].age = run.age + 1
    <3>1. work[s] \in [Kinds -> Work] /\ work[s]["run"] \in Work
      BY <1>0 DEF InboxTypeOK
    <3>2. CASE work[s]["run"].pc = "idle" \/ work[s]["run"].age = LockTtl
      <4>1. work'[s] = work[s]
        BY <1>9, <3>2 DEF PassTtl, At
      <4> QED BY <3>2, <4>1
    <3>3. CASE work[s]["run"].pc # "idle" /\ work[s]["run"].age # LockTtl
      <4>1. work'[s] = [work[s] EXCEPT !["run"] = [work[s]["run"] EXCEPT !.age = @ + 1]]
        BY <1>9, <3>3 DEF PassTtl, At
      <4>2. work'[s]["run"] = [work[s]["run"] EXCEPT !.age = @ + 1]
        BY <1>0, <3>1, <4>1
      <4> QED BY <3>1, <3>3, <4>2 DEF Work
    <3> QED BY <3>2, <3>3
  <2>4. ASSUME NEW s \in Servers, work'[s]["run"].pc # "idle", work'[s]["run"].age # LockTtl
        PROVE  holder' = s /\ ttl' + work'[s]["run"].age = LockTtl
    <3>1. work[s]["run"].pc # "idle" /\ work[s]["run"].age # LockTtl /\ work[s]["run"].age \in Nat
      BY <1>0, <2>3, <2>4 DEF InboxTypeOK, Work
    <3>2. holder = s /\ ttl + work[s]["run"].age = LockTtl
      BY <3>1 DEF LockInv
    <3>3. ttl' + work'[s]["run"].age = LockTtl
      BY <2>1, <2>3, <3>1, <3>2
    <3>4. ttl' # 0
      BY <2>1, <2>3, <2>4, <3>1, <3>3, WebhookInboxAssumption
    <3> QED BY <2>2, <3>2, <3>3, <3>4
  <2>5. holder' = Nobody <=> ttl' = 0
    BY <2>1, <2>2
  <2>6. \A s \in Servers : work'[s]["run"].pc = "idle" => work'[s]["run"].age = 0
    BY <2>3 DEF LockInv
  <2> QED BY <2>4, <2>5, <2>6 DEF LockInv
<1>10. CASE UNCHANGED inboxVars
  BY <1>10 DEF inboxVars, LockInv
<1> QED BY <1>1, <1>2, <1>3, <1>4, <1>5, <1>6, <1>7, <1>8, <1>9, <1>10 DEF InboxNext, Statement

-----------------------------------------------------------------------------
(* The effect *)

\* A step that writes one slot, before and after which it is not about to hand
\* a payment on, and that adds or counts events without losing one.
LEMMA QuietStep ==
  ASSUME InboxTypeOK, EffectInv, UNCHANGED <<settled, handed, lost>>,
         NEW s \in Servers, NEW k \in Kinds, NEW w \in Work, Writes(s, k, w),
         Len(event) <= Len(event'), Len(event') \in Nat,
         \A e \in 1 .. Len(event) : event'[e].pay = event[e].pay,
         \A e \in 1 .. Len(event') : event'[e].processed => event'[e].pay \in settled,
         ~At(s, k, "enqueue"), w.pc # "enqueue",
         w.pc \in Serving => w.todo # {} /\ w.todo \subseteq 1 .. Len(event'),
         w.pc = "mark" => event'[Oldest(w.todo)].pay \in settled
  PROVE  EffectInv'
<1>1. work'[s][k] = w /\ \A t \in Servers, j \in Kinds : t # s \/ j # k => work'[t][j] = work[t][j]
  BY SlotWritten DEF InboxTypeOK
<1>2. Len(event) \in Nat
  BY DEF InboxTypeOK
<1>3. ASSUME NEW t \in Servers, NEW j \in Kinds, t # s \/ j # k, work[t][j].pc \in Serving
      PROVE  /\ Current(t, j)' = Current(t, j)
             /\ Current(t, j) \in 1 .. Len(event)
             /\ event'[Current(t, j)].pay = event[Current(t, j)].pay
  <2>1. Current(t, j)' = Current(t, j)
    BY <1>1, <1>3 DEF Current
  <2> QED BY <1>3, <2>1, CurrentIsStored DEF EffectInv
<1>4. ASSUME NEW t \in Servers, NEW j \in Kinds
      PROVE  SlotInv(t, j)'
  <2>1. CASE t = s /\ j = k
    BY <1>1, <2>1 DEF SlotInv, At, Current
  <2>2. CASE t # s \/ j # k
    <3>1. work'[t][j] = work[t][j]
      BY <1>1, <2>2
    <3>2. work[t][j].pc \in Serving =>
            work[t][j].todo # {} /\ work[t][j].todo \subseteq 1 .. Len(event')
      BY <1>2 DEF EffectInv, SlotInv
    <3>3. At(t, j, "mark") => event'[Current(t, j)'].pay \in settled
      BY <1>3, <2>2 DEF EffectInv, SlotInv, At, Serving
    <3> QED BY <3>1, <3>2, <3>3 DEF SlotInv, At
  <2> QED BY <2>1, <2>2
<1>5. \A t \in Servers, j \in Kinds, q \in Paid : HandsOn(t, j, q)' <=> HandsOn(t, j, q)
  BY <1>1, <1>3 DEF HandsOn, At, Serving
<1>6. \A q \in Paid : OnePlace(q)'
  BY <1>5 DEF EffectInv, OnePlace
<1> QED BY <1>4, <1>6 DEF EffectInv

\* A statement on events leaves their payments alone.
LEMMA CountingKeepsRows ==
  ASSUME InboxTypeOK, EffectInv, NEW c \in 1 .. Len(event), event[c] \in Event, NEW done \in BOOLEAN,
         event' = [event EXCEPT ![c] = Counted(event[c], done)], UNCHANGED settled,
         done => event[c].processed \/ event[c].pay \in settled
  PROVE  /\ Len(event') = Len(event)
         /\ \A e \in 1 .. Len(event) : event'[e].pay = event[e].pay
         /\ \A e \in 1 .. Len(event') : event'[e].processed => event'[e].pay \in settled
<1>1. Len(event') = Len(event) /\ Len(event) \in Nat
  BY DEF InboxTypeOK
<1>2. \A e \in 1 .. Len(event) : event'[e] = IF e = c THEN Counted(event[c], done) ELSE event[e]
  BY DEF InboxTypeOK
<1> QED BY <1>1, <1>2 DEF Counted, EffectInv

\* A slot that moves to another place without touching events or payments.
LEMMA QuietMove ==
  ASSUME InboxTypeOK, EffectInv, UNCHANGED <<event, settled, handed, lost>>,
         NEW s \in Servers, NEW k \in Kinds, NEW w \in Work, Writes(s, k, w),
         ~At(s, k, "enqueue"), w.pc # "enqueue",
         w.pc \in Serving => w.todo # {} /\ w.todo \subseteq 1 .. Len(event),
         w.pc = "mark" => event[Oldest(w.todo)].pay \in settled
  PROVE  EffectInv'
<1>1. Len(event) \in Nat
  BY DEF InboxTypeOK
<1>2. \A e \in 1 .. Len(event) : event[e].processed => event[e].pay \in settled
  BY DEF EffectInv
<1> QED BY <1>1, <1>2, QuietStep

LEMMA DeliverEffect ==
  ASSUME InboxTypeOK, EffectInv, NEW s \in Servers, NEW p \in Paid, Deliver(s, p)
  PROVE  EffectInv'
<1>0. "handler" \in Kinds
  BY DEF Kinds
<1> DEFINE row == [pay |-> p, processed |-> FALSE, attempts |-> 0]
<1>1. PICK w \in Work : Writes(s, "handler", w) /\ w.pc = "process" /\ w.todo = {Len(event')}
  BY ActionsWriteOneSlot
<1>2. row \in Event /\ ~row.processed /\ event' = Append(event, row)
  BY DEF Deliver, Event
<1> HIDE DEF row
<1>3. /\ Len(event) \in Nat /\ Len(event') = Len(event) + 1
      /\ \A e \in 1 .. Len(event) : event'[e] = event[e]
      /\ event'[Len(event) + 1] = row
  BY <1>2 DEF InboxTypeOK
<1>4. \A e \in 1 .. Len(event') : event'[e].processed => event'[e].pay \in settled
  BY <1>2, <1>3 DEF EffectInv
<1>5. UNCHANGED <<settled, handed, lost>> /\ ~At(s, "handler", "enqueue")
  BY DEF Deliver, At
<1> QED BY <1>0, <1>1, <1>3, <1>4, <1>5, QuietStep

LEMMA CountEffect ==
  ASSUME InboxTypeOK, EffectInv, NEW s \in Servers, NEW k \in Kinds,
         MarkProcessed(s, k) \/ CountFailure(s, k)
  PROVE  EffectInv'
<1> DEFINE c == Current(s, k)
<1>1. work[s][k].pc \in {"mark", "count"} /\ SlotInv(s, k)
  BY DEF MarkProcessed, CountFailure, At, EffectInv
<1>2. c \in 1 .. Len(event) /\ event[c] \in Event
  BY <1>1, CurrentIsStored DEF Serving
<1>3. PICK done \in BOOLEAN :
        /\ event' = [event EXCEPT ![c] = Counted(event[c], done)]
        /\ done => event[c].processed \/ event[c].pay \in settled
  <2>1. event[c].processed \in BOOLEAN
    BY <1>2 DEF Event
  <2>2. CASE MarkProcessed(s, k)
    <3>1. event' = [event EXCEPT ![c] = Counted(event[c], TRUE)]
      BY <2>2 DEF MarkProcessed
    <3>2. event[c].pay \in settled
      BY <2>2, <1>1 DEF MarkProcessed, SlotInv
    <3> QED BY <3>1, <3>2
  <2>3. CASE CountFailure(s, k)
    <3>1. event' = [event EXCEPT ![c] = Counted(event[c], event[c].processed)]
      BY <2>3 DEF CountFailure
    <3> QED BY <2>1, <3>1
  <2> QED BY <2>2, <2>3
<1>4. NextEvent(s, k) /\ UNCHANGED <<settled, handed, lost>>
  BY DEF MarkProcessed, CountFailure
<1>5. /\ Len(event') = Len(event) /\ Len(event) \in Nat
      /\ \A e \in 1 .. Len(event) : event'[e].pay = event[e].pay
      /\ \A e \in 1 .. Len(event') : event'[e].processed => event'[e].pay \in settled
  <2> HIDE DEF c
  <2>1. settled' = settled
    BY <1>4
  <2>2. /\ Len(event') = Len(event)
        /\ \A e \in 1 .. Len(event) : event'[e].pay = event[e].pay
        /\ \A e \in 1 .. Len(event') : event'[e].processed => event'[e].pay \in settled
    BY <1>2, <1>3, <2>1, CountingKeepsRows
  <2> QED BY <2>2 DEF InboxTypeOK
<1>6. PICK w \in Work :
        /\ Writes(s, k, w)
        /\ \/ w.pc = "process" /\ w.todo # {} /\ w.todo \subseteq work[s][k].todo
           \/ w.pc = "release"
           \/ w = Resting
  BY <1>4, SlotGoesOn
<1>7. w.pc \in {"process", "release", "idle"} /\ w.pc \in Serving =>
        w.todo # {} /\ w.todo \subseteq 1 .. Len(event)
  BY <1>1, <1>6 DEF Resting, SlotInv, Serving
<1>8. w.pc \in {"process", "release", "idle"}
  BY <1>6 DEF Resting
<1> QED BY <1>1, <1>4, <1>5, <1>6, <1>7, <1>8, QuietStep DEF At

\* Settling a payment is the only way to be about to hand it on.
LEMMA ProcessEffect ==
  ASSUME InboxTypeOK, EffectInv, NEW s \in Servers, NEW k \in Kinds, Process(s, k)
  PROVE  EffectInv'
<1> DEFINE p == event[Current(s, k)].pay
           old == work[s][k]
<1>1. old.pc = "process" /\ SlotInv(s, k) /\ old \in Work
  BY DEF Process, At, EffectInv, InboxTypeOK
<1>2. p \in Paid /\ Current(s, k) \in 1 .. Len(event) /\ UNCHANGED <<event, handed, lost>>
  BY <1>1, CurrentIsStored DEF Serving, Event, Process
<1>3. old.todo # {} /\ old.todo \subseteq 1 .. Len(event)
  BY <1>1 DEF SlotInv, Serving
<1>4. CASE settled' = settled
  <2>1. PICK pc \in {"count", "mark"} : Goto(s, k, pc) /\ (pc = "mark" => p \in settled)
    BY <1>4 DEF Process
  <2> DEFINE w == [old EXCEPT !.pc = pc]
  <2>2. w \in Work /\ Writes(s, k, w)
    BY <2>1, SlotGoes
  <2>3. w.pc = pc /\ w.todo = old.todo
    BY <1>1 DEF Work
  <2>4. w.pc = "mark" => event[Oldest(w.todo)].pay \in settled
    BY <2>1, <2>3 DEF Current
  <2> HIDE DEF w
  <2> QED BY <1>1, <1>2, <1>3, <1>4, <2>1, <2>2, <2>3, <2>4, QuietMove DEF At
<1>5. CASE settled' # settled
  <2>1. p \notin settled /\ settled' = settled \cup {p} /\ Goto(s, k, "enqueue")
    BY <1>5 DEF Process
  <2> DEFINE w == [old EXCEPT !.pc = "enqueue"]
  <2>2. w \in Work /\ Writes(s, k, w)
    BY <2>1, SlotGoes
  <2>3. w.pc = "enqueue" /\ w.todo = old.todo
    BY <1>1 DEF Work
  <2> HIDE DEF w
  <2>4. work'[s][k] = w /\ \A t \in Servers, j \in Kinds : t # s \/ j # k => work'[t][j] = work[t][j]
    BY <2>2, SlotWritten DEF InboxTypeOK
  <2>5. \A t \in Servers, j \in Kinds : Current(t, j)' = Current(t, j)
    BY <2>3, <2>4 DEF Current
  <2>6. ASSUME NEW t \in Servers, NEW j \in Kinds
        PROVE  SlotInv(t, j)'
    <3>1. SlotInv(t, j)
      BY DEF EffectInv
    <3>2. CASE t = s /\ j = k
      BY <1>2, <1>3, <2>3, <2>4, <3>2 DEF SlotInv, At
    <3>3. CASE t # s \/ j # k
      BY <1>2, <2>1, <2>4, <2>5, <3>1, <3>3 DEF SlotInv, At
    <3> QED BY <3>2, <3>3
  <2>7. ASSUME NEW t \in Servers, NEW j \in Kinds, NEW q \in Paid
        PROVE  HandsOn(t, j, q)' <=> HandsOn(t, j, q) \/ (t = s /\ j = k /\ q = p)
    BY <1>1, <1>2, <2>3, <2>4, <2>5 DEF HandsOn, At
  <2>8. ASSUME NEW q \in Paid
        PROVE  OnePlace(q)'
    <3>1. OnePlace(q)
      BY DEF EffectInv
    <3>2. CASE q # p
      BY <1>2, <2>1, <2>7, <3>1, <3>2 DEF OnePlace
    <3>3. CASE q = p
      <4>1. \A t \in Servers, j \in Kinds : ~HandsOn(t, j, q)
        BY <2>1, <3>1, <3>3 DEF OnePlace
      <4>2. handed[q] = 0 /\ q \notin lost /\ q \in settled'
        BY <2>1, <3>1, <3>3 DEF OnePlace
      <4>3. \A t \in Servers, j \in Kinds : HandsOn(t, j, q)' <=> t = s /\ j = k
        BY <2>7, <3>3, <4>1
      <4> HIDE DEF p
      <4> QED BY <1>2, <3>3, <4>2, <4>3 DEF OnePlace
    <3> QED BY <3>2, <3>3
  <2>9. \A e \in 1 .. Len(event') : event'[e].processed => event'[e].pay \in settled'
    BY <1>2, <2>1 DEF EffectInv
  <2> QED BY <2>6, <2>8, <2>9 DEF EffectInv
<1> QED BY <1>4, <1>5

LEMMA EnqueueEffect ==
  ASSUME InboxTypeOK, EffectInv, NEW s \in Servers, NEW k \in Kinds, Enqueue(s, k)
  PROVE  EffectInv'
<1> DEFINE p == event[Current(s, k)].pay
           old == work[s][k]
           w == [old EXCEPT !.pc = "mark"]
<1>1. old.pc = "enqueue" /\ SlotInv(s, k) /\ old \in Work
  BY DEF Enqueue, At, EffectInv, InboxTypeOK
<1>2. p \in Paid /\ Current(s, k) \in 1 .. Len(event) /\ UNCHANGED <<event, settled, lost>>
  BY <1>1, CurrentIsStored DEF Serving, Event, Enqueue
<1>3. w \in Work /\ Writes(s, k, w)
  BY SlotGoes DEF Enqueue
<1>4. w.pc = "mark" /\ w.todo = old.todo
  BY <1>1 DEF Work
<1> HIDE DEF w
<1>5. work'[s][k] = w /\ \A t \in Servers, j \in Kinds : t # s \/ j # k => work'[t][j] = work[t][j]
  BY <1>3, SlotWritten DEF InboxTypeOK
<1>6. \A t \in Servers, j \in Kinds : Current(t, j)' = Current(t, j)
  BY <1>4, <1>5 DEF Current
<1>7. HandsOn(s, k, p) /\ OnePlace(p)
  BY <1>1, <1>2 DEF HandsOn, At, EffectInv
<1>8. /\ handed[p] = 0 /\ p \in settled /\ p \notin lost
      /\ \A t \in Servers, j \in Kinds : HandsOn(t, j, p) => t = s /\ j = k
  BY <1>7 DEF OnePlace
<1>9. \A q \in Paid : handed'[q] = IF q = p THEN 1 ELSE handed[q]
  BY <1>2, <1>8 DEF Enqueue, InboxTypeOK
<1>10. ASSUME NEW t \in Servers, NEW j \in Kinds
       PROVE  SlotInv(t, j)'
  <2>1. SlotInv(t, j)
    BY DEF EffectInv
  <2>2. CASE t = s /\ j = k
    BY <1>1, <1>2, <1>4, <1>5, <1>6, <1>8, <2>1, <2>2 DEF SlotInv, At, Serving
  <2>3. CASE t # s \/ j # k
    BY <1>2, <1>5, <1>6, <2>1, <2>3 DEF SlotInv, At
  <2> QED BY <2>2, <2>3
<1>11. ASSUME NEW t \in Servers, NEW j \in Kinds, NEW q \in Paid
       PROVE  HandsOn(t, j, q)' <=> HandsOn(t, j, q) /\ (t # s \/ j # k)
  BY <1>2, <1>4, <1>5, <1>6 DEF HandsOn, At
<1>12. ASSUME NEW q \in Paid
       PROVE  OnePlace(q)'
  <2>1. OnePlace(q)
    BY DEF EffectInv
  <2>2. CASE q # p
    <3>1. \A t \in Servers, j \in Kinds : HandsOn(t, j, q)' <=> HandsOn(t, j, q)
      BY <1>11, <2>2 DEF HandsOn
    <3>2. handed'[q] = handed[q]
      BY <1>9, <2>2
    <3> QED BY <1>2, <2>1, <3>1, <3>2 DEF OnePlace
  <2>3. CASE q = p
    <3> HIDE DEF p
    <3>1. \A t \in Servers, j \in Kinds : ~HandsOn(t, j, q)'
      BY <1>8, <1>11, <2>3
    <3> QED BY <1>2, <1>8, <1>9, <2>3, <3>1 DEF OnePlace
  <2> QED BY <2>2, <2>3
<1>13. \A e \in 1 .. Len(event') : event'[e].processed => event'[e].pay \in settled'
  BY <1>2 DEF EffectInv
<1> QED BY <1>10, <1>12, <1>13 DEF EffectInv

LEMMA CrashEffect ==
  ASSUME InboxTypeOK, EffectInv, NEW s \in Servers, Crash(s)
  PROVE  EffectInv'
<1>1. /\ UNCHANGED <<event, settled, handed>>
      /\ lost' = lost \cup {event[Current(s, k)].pay : k \in {j \in Kinds : At(s, j, "enqueue")}}
      /\ \A k \in Kinds : work'[s][k] = Resting
      /\ \A t \in Servers \ {s} : work'[t] = work[t]
  BY DEF Crash, database, InboxTypeOK
<1>2. ASSUME NEW t \in Servers, NEW j \in Kinds
      PROVE  SlotInv(t, j)'
  <2>1. SlotInv(t, j)
    BY DEF EffectInv
  <2> QED BY <1>1, <2>1 DEF SlotInv, At, Resting, Serving, Current
<1>3. ASSUME NEW t \in Servers, NEW j \in Kinds, NEW q \in Paid
      PROVE  HandsOn(t, j, q)' <=> HandsOn(t, j, q) /\ t # s
  BY <1>1 DEF HandsOn, At, Resting, Current
<1>4. ASSUME NEW q \in Paid
      PROVE  q \in lost' <=> q \in lost \/ \E j \in Kinds : HandsOn(s, j, q)
  BY <1>1 DEF HandsOn
<1>5. ASSUME NEW q \in Paid
      PROVE  OnePlace(q)'
  <2>1. OnePlace(q)
    BY DEF EffectInv
  <2>2. CASE \E j \in Kinds : HandsOn(s, j, q)
    <3>1. \A t \in Servers, j \in Kinds : ~HandsOn(t, j, q)'
      BY <1>3, <2>1, <2>2 DEF OnePlace
    <3>2. handed[q] = 0 /\ q \in settled /\ q \in lost'
      BY <1>4, <2>1, <2>2 DEF OnePlace
    <3> QED BY <1>1, <3>1, <3>2 DEF OnePlace
  <2>3. CASE ~\E j \in Kinds : HandsOn(s, j, q)
    <3>1. \A t \in Servers, j \in Kinds : HandsOn(t, j, q)' <=> HandsOn(t, j, q)
      BY <1>3, <2>3
    <3>2. q \in lost' <=> q \in lost
      BY <1>4, <2>3
    <3> QED BY <1>1, <2>1, <3>1, <3>2 DEF OnePlace
  <2> QED BY <2>2, <2>3
<1> QED BY <1>1, <1>2, <1>5 DEF EffectInv

\* The age of a run is nobody's effect.
LEMMA TtlEffect ==
  ASSUME InboxTypeOK, EffectInv, PassTtl
  PROVE  EffectInv'
<1>0. "run" \in Kinds
  BY DEF Kinds
<1>1. UNCHANGED <<event, settled, handed, lost>>
  BY DEF PassTtl, database
<1>2. ASSUME NEW t \in Servers, NEW j \in Kinds
      PROVE  work'[t][j].pc = work[t][j].pc /\ work'[t][j].todo = work[t][j].todo
  <2>1. work[t] \in [Kinds -> Work] /\ work[t][j] \in Work /\ work[t]["run"] \in Work
    BY <1>0 DEF InboxTypeOK
  <2>2. \/ work'[t] = work[t]
        \/ work'[t] = [work[t] EXCEPT !["run"] = [work[t]["run"] EXCEPT !.age = @ + 1]]
    BY DEF PassTtl
  <2>3. \/ work'[t][j] = work[t][j]
        \/ work'[t][j] = [work[t][j] EXCEPT !.age = @ + 1]
    BY <2>1, <2>2
  <2> QED BY <2>1, <2>3 DEF Work
<1>3. \A t \in Servers, j \in Kinds : Current(t, j)' = Current(t, j)
  BY <1>2 DEF Current
<1>4. \A t \in Servers, j \in Kinds : SlotInv(t, j)'
  BY <1>1, <1>2, <1>3 DEF EffectInv, SlotInv, At
<1>5. \A t \in Servers, j \in Kinds, q \in Paid : HandsOn(t, j, q)' <=> HandsOn(t, j, q)
  BY <1>1, <1>2, <1>3 DEF HandsOn, At
<1>6. \A q \in Paid : OnePlace(q)'
  BY <1>1, <1>5 DEF EffectInv, OnePlace
<1> QED BY <1>1, <1>4, <1>6 DEF EffectInv

LEMMA EffectStep ==
  ASSUME InboxTypeOK, EffectInv, [InboxNext]_inboxVars
  PROVE  EffectInv'
<1>0. "handler" \in Kinds /\ "run" \in Kinds
  BY DEF Kinds
<1>1. ASSUME NEW s \in Servers, AcquireLock(s)
      PROVE  EffectInv'
  <2>1. PICK w \in Work : Writes(s, "run", w) /\ w.pc = "select"
    BY <1>1, ActionsWriteOneSlot
  <2> QED BY <1>0, <1>1, <2>1, QuietMove DEF AcquireLock, database, At, Serving
<1>2. ASSUME NEW s \in Servers, Select(s)
      PROVE  EffectInv'
  <2>1. PICK w \in Work : /\ Writes(s, "run", w) /\ w.todo \subseteq 1 .. Len(event)
                         /\ w.pc = IF w.todo = {} THEN "release" ELSE "process"
    BY <1>2, ActionsWriteOneSlot
  <2> QED BY <1>0, <1>2, <2>1, QuietMove DEF Select, database, At, Serving
<1>3. ASSUME NEW s \in Servers, NEW k \in Kinds, Writes(s, k, Resting), ~At(s, k, "enqueue"),
             UNCHANGED <<event, settled, handed, lost>>
      PROVE  EffectInv'
  BY <1>3, RestingIsWork, QuietMove DEF Resting, Serving
<1>4. ASSUME NEW s \in Servers, ReleaseLock(s) \/ ReleaseFails(s)
      PROVE  EffectInv'
  BY <1>0, <1>3, <1>4, ActionsWriteOneSlot DEF ReleaseLock, ReleaseFails, database, At
<1>5. ASSUME NEW s \in Servers, HandleFails(s)
      PROVE  EffectInv'
  BY <1>0, <1>3, <1>5, ActionsWriteOneSlot DEF HandleFails, database, At
<1>6. ASSUME NEW s \in Servers, RunFails(s)
      PROVE  EffectInv'
  <2>1. PICK w \in Work : Writes(s, "run", w) /\ w.pc = "release"
    BY <1>6, ActionsWriteOneSlot
  <2> QED BY <1>0, <1>6, <2>1, QuietMove DEF RunFails, database, At, Serving
<1>7. ASSUME NEW s \in Servers, NEW k \in Kinds, MarkFails(s, k)
      PROVE  EffectInv'
  <2> DEFINE w == [work[s][k] EXCEPT !.pc = "count"]
  <2>1. w \in Work /\ Writes(s, k, w)
    BY <1>7, SlotGoes DEF MarkFails
  <2>2. w.pc = "count" /\ w.todo = work[s][k].todo /\ SlotInv(s, k) /\ work[s][k].pc = "mark"
    BY <1>7 DEF MarkFails, At, InboxTypeOK, EffectInv, Work
  <2> HIDE DEF w
  <2> QED BY <1>7, <2>1, <2>2, QuietMove DEF MarkFails, database, At, Serving, SlotInv
<1>8. CASE UNCHANGED inboxVars
  <2>1. UNCHANGED <<event, settled, handed, lost, work>>
    BY <1>8 DEF inboxVars
  <2>2. \A t \in Servers, j \in Kinds : Current(t, j)' = Current(t, j)
    BY <2>1 DEF Current
  <2> QED BY <2>1, <2>2 DEF EffectInv, SlotInv, OnePlace, HandsOn, At
<1> QED BY <1>1, <1>2, <1>4, <1>5, <1>6, <1>7, <1>8, DeliverEffect, CountEffect, ProcessEffect,
           EnqueueEffect, CrashEffect, TtlEffect DEF InboxNext, Statement

-----------------------------------------------------------------------------
(* The theorems *)

LEMMA InboxStarts == InboxInit => InboxInv
<1> SUFFICES ASSUME InboxInit
             PROVE  InboxInv
  OBVIOUS
<1>1. \A s \in Servers, k \in Kinds : work[s][k] = Resting
  BY DEF InboxInit
<1>2. "run" \in Kinds /\ Resting.pc = "idle" /\ Resting.age = 0
  BY DEF Kinds, Resting
<1>3. InboxTypeOK
  <2>1. event \in Seq(Event) /\ Len(event) = 0
    BY DEF InboxInit
  <2>2. work \in [Servers -> [Kinds -> Work]]
    BY RestingIsWork DEF InboxInit
  <2> QED BY <2>1, <2>2, WebhookInboxAssumption DEF InboxInit, InboxTypeOK
<1>4. LockInv
  BY <1>1, <1>2 DEF InboxInit, LockInv
<1>5. EffectInv
  <2>1. \A s \in Servers, k \in Kinds : SlotInv(s, k) /\ \A p \in Paid : ~HandsOn(s, k, p)
    BY <1>1, <1>2 DEF SlotInv, HandsOn, At, Serving
  <2>2. Len(event) = 0
    BY DEF InboxInit
  <2> QED BY <2>1, <2>2 DEF InboxInit, EffectInv, OnePlace
<1> QED BY <1>3, <1>4, <1>5 DEF InboxInv

\* What the scheduler and the webhook jobs know of each other always holds.
THEOREM InboxInvariant == InboxSpec => []InboxInv
<1>1. InboxInv /\ [InboxNext]_inboxVars => InboxInv'
  BY TypeStep, LockStep, EffectStep DEF InboxInv
<1> QED BY <1>1, InboxStarts, PTL DEF InboxSpec

\* The inbox keeps its types whatever is delivered, replayed, or crashes.
THEOREM InboxTypeCorrect == InboxSpec => []InboxTypeOK
<1>1. InboxInv => InboxTypeOK
  BY DEF InboxInv
<1> QED BY <1>1, InboxInvariant, PTL

\* Two runs of the retry job overlap only when one has outlived the lock, on
\* any number of servers.
THEOREM OneRunPerLockHolds == InboxSpec => []OneRunPerLock
<1>1. InboxInv => OneRunPerLock
  BY DEF InboxInv, LockInv, OneRunPerLock, At
<1> QED BY <1>1, InboxInvariant, PTL

-----------------------------------------------------------------------------
(* The refinement *)

\* How far a payment has come by the database and by what was lost.  That
\* somebody is about to hand a settled one on is OnePlace.
Place(p) ==
  IF handed[p] = 1 THEN "handed"
  ELSE IF p \in lost THEN "lost"
  ELSE IF p \in settled THEN "settled"
  ELSE "none"

LEMMA EffectIsPlace ==
  ASSUME InboxTypeOK, InboxTypeOK', EffectInv, EffectInv'
  PROVE  \A p \in Paid : EffectOf(p) = Place(p) /\ EffectOf(p)' = Place(p)'
<1> SUFFICES ASSUME NEW p \in Paid
             PROVE  EffectOf(p) = Place(p) /\ EffectOf(p)' = Place(p)'
  OBVIOUS
<1>1. OnePlace(p) /\ OnePlace(p)'
  BY DEF EffectInv
<1>2. EffectOf(p) = Place(p)
  <2>1. p \in settled /\ handed[p] # 1 /\ p \notin lost => AboutToHandOn(p)
    BY <1>1 DEF OnePlace, HandsOn, AboutToHandOn
  <2>2. ~(handed[p] > 1)
    BY <1>1 DEF OnePlace, InboxTypeOK
  <2> QED BY <2>1, <2>2 DEF EffectOf, Place
<1>3. EffectOf(p)' = Place(p)'
  <2>1. p \in settled' /\ handed'[p] # 1 /\ p \notin lost' => AboutToHandOn(p)'
    BY <1>1 DEF OnePlace, HandsOn, AboutToHandOn
  <2>2. ~(handed'[p] > 1)
    BY <1>1 DEF OnePlace, InboxTypeOK
  <2> QED BY <2>1, <2>2 DEF EffectOf, Place
<1> QED BY <1>2, <1>3

\* What a reader of the effects sees of a step is what becomes of settled,
\* handed, lost and of the marks.
LEMMA EffectsStutter ==
  ASSUME InboxTypeOK, InboxTypeOK', EffectInv, EffectInv',
         UNCHANGED <<settled, handed, lost>>, Served' = Served
  PROVE  UNCHANGED Effects!vars
<1>1. \A p \in Paid : Place(p)' = Place(p)
  BY DEF Place
<1> QED BY <1>1, EffectIsPlace DEF Effects!vars

\* A delivery is a row without a mark.
LEMMA DeliverStutters ==
  ASSUME InboxTypeOK, InboxTypeOK', EffectInv, EffectInv', NEW s \in Servers, NEW p \in Paid, Deliver(s, p)
  PROVE  UNCHANGED Effects!vars
<1> DEFINE row == [pay |-> p, processed |-> FALSE, attempts |-> 0]
<1>1. row \in Event /\ ~row.processed /\ event' = Append(event, row)
  BY DEF Deliver, Event
<1> HIDE DEF row
<1>2. /\ Len(event) \in Nat /\ Len(event') = Len(event) + 1
      /\ \A e \in 1 .. Len(event) : event'[e] = event[e]
      /\ event'[Len(event) + 1] = row
  BY <1>1 DEF InboxTypeOK
<1>3. Served' = Served
  BY <1>1, <1>2 DEF Served
<1>4. UNCHANGED <<settled, handed, lost>>
  BY DEF Deliver
<1> QED BY <1>3, <1>4, EffectsStutter

\* The settlement is the step of the one payment that nobody had settled.
LEMMA ProcessSettles ==
  ASSUME InboxTypeOK, InboxTypeOK', EffectInv, EffectInv', NEW s \in Servers, NEW k \in Kinds, Process(s, k)
  PROVE  Effects!Next \/ UNCHANGED Effects!vars
<1>0. PICK p : p = event[Current(s, k)].pay
  OBVIOUS
<1>1. p \in Paid
  BY <1>0, CurrentIsStored DEF Process, At, Serving, EffectInv, Event
<1>2. UNCHANGED <<event, handed, lost>> /\ Served' = Served
  BY DEF Process, Served
<1>3. CASE settled' = settled
  BY <1>2, <1>3, EffectsStutter
<1>4. CASE settled' # settled
  <2>1. p \notin settled /\ settled' = settled \cup {p}
    BY <1>0, <1>4 DEF Process
  <2>2. handed[p] = 0 /\ p \notin lost
    BY <1>1, <2>1 DEF EffectInv, OnePlace
  <2>3. Place(p) = "none" /\ Place(p)' = "settled"
    BY <1>2, <2>1, <2>2 DEF Place
  <2>4. \A q \in Paid \ {p} : Place(q)' = Place(q)
    BY <1>2, <2>1 DEF Place
  <2>5. Effects!Settle(p)
    BY <1>1, <1>2, <2>3, <2>4, EffectIsPlace DEF Effects!Settle
  <2> QED BY <1>1, <2>5 DEF Effects!Next
<1> QED BY <1>3, <1>4

\* Whoever hands a payment on is the only one to, and the first.
LEMMA EnqueueHandsOn ==
  ASSUME InboxTypeOK, InboxTypeOK', EffectInv, EffectInv', NEW s \in Servers, NEW k \in Kinds, Enqueue(s, k)
  PROVE  Effects!Next
<1>0. PICK p : p = event[Current(s, k)].pay
  OBVIOUS
<1>1. p \in Paid
  BY <1>0, CurrentIsStored DEF Enqueue, At, Serving, EffectInv, Event
<1>2. UNCHANGED <<event, settled, lost>> /\ Served' = Served
  BY DEF Enqueue, Served
<1>3. handed[p] = 0 /\ p \in settled /\ p \notin lost
  BY <1>0, <1>1 DEF Enqueue, EffectInv, OnePlace, HandsOn
<1>4. \A q \in Paid : handed'[q] = IF q = p THEN 1 ELSE handed[q]
  BY <1>0, <1>1, <1>3 DEF Enqueue, InboxTypeOK
<1>5. Place(p) = "settled" /\ Place(p)' = "handed"
  BY <1>1, <1>2, <1>3, <1>4 DEF Place
<1>6. \A q \in Paid \ {p} : Place(q)' = Place(q)
  BY <1>2, <1>4 DEF Place
<1>7. Effects!HandOn(p)
  BY <1>1, <1>2, <1>5, <1>6, EffectIsPlace DEF Effects!HandOn
<1> QED BY <1>1, <1>7 DEF Effects!Next

\* A payment that was settled has an effect.
LEMMA SettledHasEffect ==
  ASSUME NEW p \in settled
  PROVE  Place(p) # "none"
BY DEF Place

\* A mark reports one payment, and it was settled.
LEMMA MarkServes ==
  ASSUME InboxTypeOK, InboxTypeOK', EffectInv, EffectInv', NEW s \in Servers, NEW k \in Kinds, MarkProcessed(s, k)
  PROVE  Effects!Next
<1>0. work[s][k].pc = "mark" /\ SlotInv(s, k)
  BY DEF MarkProcessed, At, EffectInv
<1>1. PICK c : c = Current(s, k)
  OBVIOUS
<1>2. PICK p : p = event[c].pay
  OBVIOUS
<1>3. PICK row : row = Counted(event[c], TRUE)
  OBVIOUS
<1>4. c \in 1 .. Len(event) /\ event[c] \in Event /\ p \in Paid /\ p \in settled
  BY <1>0, <1>1, <1>2, CurrentIsStored DEF Serving, Event, SlotInv, At
<1>5. event' = [event EXCEPT ![c] = row] /\ UNCHANGED <<settled, handed, lost>>
  BY <1>1, <1>3 DEF MarkProcessed
<1>6. /\ Len(event') = Len(event) /\ Len(event) \in Nat
      /\ \A e \in 1 .. Len(event) : event'[e] = IF e = c THEN row ELSE event[e]
  BY <1>4, <1>5 DEF InboxTypeOK
<1>7. row.pay = p /\ row.processed
  BY <1>2, <1>3 DEF Counted
<1>8. Served' = Served \cup {p}
  <2>1. \A q : q \in Served' <=> \E e \in 1 .. Len(event) : event'[e].processed /\ event'[e].pay = q
    BY <1>6 DEF Served
  <2>2. \A q : q \in Served <=> \E e \in 1 .. Len(event) : event[e].processed /\ event[e].pay = q
    BY DEF Served
  <2>3. event'[c].processed /\ event'[c].pay = p
    BY <1>4, <1>6, <1>7
  <2>4. \A e \in 1 .. Len(event) : e # c => event'[e] = event[e]
    BY <1>6
  <2> QED BY <1>2, <1>4, <2>1, <2>2, <2>3, <2>4
<1>9. \A q \in Paid : Place(q)' = Place(q)
  BY <1>5 DEF Place
<1>10. Place(p) # "none"
  BY <1>4, SettledHasEffect
<1>11. Effects!Serve(p)
  BY <1>4, <1>8, <1>9, <1>10, EffectIsPlace DEF Effects!Serve
<1> QED BY <1>4, <1>11 DEF Effects!Next

\* Counting a failure leaves every mark as it is.
LEMMA CountStutters ==
  ASSUME InboxTypeOK, InboxTypeOK', EffectInv, EffectInv', NEW s \in Servers, NEW k \in Kinds, CountFailure(s, k)
  PROVE  UNCHANGED Effects!vars
<1> DEFINE c == Current(s, k)
           row == Counted(event[c], event[c].processed)
<1>1. c \in 1 .. Len(event) /\ event[c] \in Event
  BY CurrentIsStored DEF CountFailure, At, EffectInv, Serving
<1>2. event' = [event EXCEPT ![c] = row] /\ UNCHANGED <<settled, handed, lost>>
  BY DEF CountFailure
<1>3. row.pay = event[c].pay /\ row.processed = event[c].processed
  BY DEF Counted
<1> HIDE DEF c, row
<1>4. /\ Len(event') = Len(event) /\ Len(event) \in Nat
      /\ \A e \in 1 .. Len(event) : event'[e] = IF e = c THEN row ELSE event[e]
  BY <1>1, <1>2 DEF InboxTypeOK
<1>5. Served' = Served
  <2>1. \A e \in 1 .. Len(event) :
          event'[e].pay = event[e].pay /\ (event'[e].processed <=> event[e].processed)
    BY <1>3, <1>4
  <2> QED BY <1>4, <2>1 DEF Served
<1> QED BY <1>2, <1>5, EffectsStutter

\* What a process dies with was settled, and nothing else is lost.
LEMMA CrashLoses ==
  ASSUME InboxTypeOK, InboxTypeOK', EffectInv, EffectInv', NEW s \in Servers, Crash(s)
  PROVE  Effects!Next
<1> DEFINE P == {event[Current(s, k)].pay : k \in {j \in Kinds : At(s, j, "enqueue")}}
<1>1. UNCHANGED <<event, settled, handed>> /\ lost' = lost \cup P /\ Served' = Served
  BY DEF Crash, database, Served
<1>2. ASSUME NEW p \in P
      PROVE  p \in Paid /\ p \in settled /\ p \notin lost /\ handed[p] = 0
  <2>1. PICK k \in Kinds : At(s, k, "enqueue") /\ p = event[Current(s, k)].pay
    OBVIOUS
  <2>2. p \in Paid
    BY <2>1, CurrentIsStored DEF At, Serving, EffectInv, Event
  <2> QED BY <2>1, <2>2 DEF EffectInv, OnePlace, HandsOn
<1> HIDE DEF P
<1>3. \A p \in P : Place(p) = "settled" /\ Place(p)' = "lost"
  BY <1>1, <1>2 DEF Place
<1>4. \A p \in Paid \ P : Place(p)' = Place(p)
  BY <1>1 DEF Place
<1>5. P \in SUBSET Paid
  BY <1>2
<1>6. Effects!Lose(P)
  BY <1>1, <1>3, <1>4, <1>5, EffectIsPlace DEF Effects!Lose
<1> QED BY <1>5, <1>6 DEF Effects!Next

LEMMA StepHasEffect ==
  ASSUME InboxInv, InboxInv', [InboxNext]_inboxVars
  PROVE  Effects!Next \/ UNCHANGED Effects!vars
<1> USE DEF InboxInv
<1>1. ASSUME UNCHANGED <<event, settled, handed, lost>>
      PROVE  UNCHANGED Effects!vars
  BY <1>1, EffectsStutter DEF Served
<1>2. ASSUME NEW s \in Servers,
             \/ AcquireLock(s) \/ Select(s) \/ ReleaseLock(s) \/ HandleFails(s) \/ RunFails(s)
             \/ ReleaseFails(s) \/ \E k \in Kinds : MarkFails(s, k)
      PROVE  UNCHANGED Effects!vars
  BY <1>1, <1>2 DEF AcquireLock, Select, ReleaseLock, HandleFails, RunFails, ReleaseFails, MarkFails, database
<1>3. CASE PassTtl
  BY <1>1, <1>3 DEF PassTtl, database
<1>4. CASE UNCHANGED inboxVars
  BY <1>1, <1>4 DEF inboxVars
<1> QED BY <1>2, <1>3, <1>4, DeliverStutters, ProcessSettles, EnqueueHandsOn, MarkServes,
           CountStutters, CrashLoses DEF InboxNext, Statement

LEMMA NothingHasHappened == InboxInit => Effects!Init
<1> SUFFICES ASSUME InboxInit
             PROVE  Effects!Init
  OBVIOUS
<1>1. \A p \in Paid : EffectOf(p) = "none"
  BY DEF InboxInit, EffectOf
<1>2. Served = {}
  BY DEF InboxInit, Served
<1> QED BY <1>1, <1>2 DEF Effects!Init

\* Whatever is delivered, replayed and retried on however many servers, a
\* reader of the effects sees payments settled, handed on, lost and served, one
\* step each.
THEOREM RefinesEventEffects == InboxSpec => ImplementsEventEffects
<1>1. InboxInv /\ InboxInv' /\ [InboxNext]_inboxVars => [Effects!Next]_Effects!vars
  BY StepHasEffect
<1> QED BY <1>1, NothingHasHappened, InboxInvariant, PTL
        DEF InboxSpec, ImplementsEventEffects, Effects!Spec
=============================================================================
