----------------------------- MODULE CountCache -----------------------------
(***************************************************************************)
(* utils/countCache.js under the admin list of enrollments: cached counts  *)
(* with a time to live, one load per key at a time, and eviction of the    *)
(* least recently used key.  A key is one combination of filters.          *)
(*                                                                         *)
(* invalidate is not modelled: no statement of the repository calls it, or *)
(* invalidateEnrollmentCounts, so a write is seen when the entry expires.  *)
(***************************************************************************)
EXTENDS Naturals, Sequences, SequencesExt

CONSTANTS
  Filters,     \* keys
  MaxKeys,     \* MAX_KEYS, 1024
  CountTtl,    \* DEFAULT_TTL_MS
  MaxLoad,     \* how long a COUNT may take
  MaxCount,    \* bounds: the counts themselves
  MaxTicks     \*   and the clock

ASSUME CountCacheAssumption ==
  /\ Filters # {} /\ MaxKeys \in Nat \ {0} /\ CountTtl \in Nat \ {0}
  /\ MaxLoad \in Nat /\ MaxCount \in Nat /\ MaxTicks \in Nat

VARIABLES
  matching,      \* how many enrollments match each filter
  store,     \* the Map of entries
  recency,   \* its insertion order, the least recently used key first
  inflight,  \* the Map of running loads
  ticks,     \* Date.now()
  answered,    \* the last count given out
  trueAt     \* history: when each filter last had each count

countVars == <<matching, store, recency, inflight, ticks, answered, trueAt>>

-----------------------------------------------------------------------------

Counts == 0 .. MaxCount
NoEntry == [value |-> 0, expiresAt |-> 0]
NoLoad == [since |-> 0, value |-> 0, pc |-> "none"]

Serve(f, v) == answered' = [filter |-> f, value |-> v, at |-> ticks]
Touch(f) == Append(SelectSeq(recency, LAMBDA k : k # f), f)

\* Any write that changes the total.
WriteRows(f) ==
  \E v \in Counts \ {matching[f]} :
    /\ matching' = [matching EXCEPT ![f] = v]
    /\ trueAt' = [trueAt EXCEPT ![f][v] = ticks]
    /\ UNCHANGED <<store, recency, inflight, ticks, answered>>

\* Mutant: the entry never expires.
HitForever(f) ==
  /\ store[f] # NoEntry
  /\ Serve(f, store[f].value) /\ recency' = Touch(f)
  /\ UNCHANGED <<matching, store, inflight, ticks, trueAt>>

\* getCount with a fresh entry: bumpLru.
GetCountHit(f) ==
  /\ store[f].expiresAt > ticks
  /\ Serve(f, store[f].value) /\ recency' = Touch(f)
  /\ UNCHANGED <<matching, store, inflight, ticks, trueAt>>

\* getCount without one: later callers wait for the same load.
GetCountMiss(f) ==
  /\ store[f].expiresAt <= ticks /\ inflight[f] = NoLoad
  /\ inflight' = [inflight EXCEPT ![f] = [since |-> ticks, value |-> 0, pc |-> "count"]]
  /\ UNCHANGED <<matching, store, recency, ticks, answered, trueAt>>

\* The database answers; the count travels back.
LoadRead(f) ==
  /\ inflight[f].pc = "count"
  /\ inflight' = [inflight EXCEPT ![f] = [@ EXCEPT !.value = matching[f], !.pc = "store"]]
  /\ UNCHANGED <<matching, store, recency, ticks, answered, trueAt>>

\* The entry is stored, living from now on, in its old place when the key was
\* there; evictIfNeeded; all waiting callers get the value.
LoadDone(f) ==
  LET lru == IF f \in ToSet(recency) THEN recency ELSE Append(recency, f)
      kept  == IF Len(lru) > MaxKeys THEN Tail(lru) ELSE lru
  IN /\ inflight[f].pc = "store"
     /\ recency' = kept
     /\ store' = [k \in Filters |->
          IF k \notin ToSet(kept) THEN NoEntry
          ELSE IF k = f THEN [value |-> inflight[f].value, expiresAt |-> ticks + CountTtl]
          ELSE store[k]]
     /\ inflight' = [inflight EXCEPT ![f] = NoLoad]
     /\ Serve(f, inflight[f].value)
     /\ UNCHANGED <<matching, ticks, trueAt>>

\* The query fails: its callers fail, the next one starts a new load.
LoadFails(f) ==
  /\ inflight[f].pc = "count"
  /\ inflight' = [inflight EXCEPT ![f] = NoLoad]
  /\ UNCHANGED <<matching, store, recency, ticks, answered, trueAt>>

Tick ==
  /\ ticks < MaxTicks
  /\ \A f \in Filters : inflight[f] # NoLoad => ticks < inflight[f].since + MaxLoad
  /\ ticks' = ticks + 1
  /\ trueAt' = [f \in Filters |-> [trueAt[f] EXCEPT ![matching[f]] = ticks']]
  /\ UNCHANGED <<matching, store, recency, inflight, answered>>

CountInit ==
  /\ matching = [f \in Filters |-> 0]
  /\ store = [f \in Filters |-> NoEntry] /\ recency = << >>
  /\ inflight = [f \in Filters |-> NoLoad]
  /\ ticks = 1 + CountTtl + MaxLoad
  /\ answered = [filter |-> CHOOSE f \in Filters : TRUE, value |-> 0, at |-> ticks]
  /\ trueAt = [f \in Filters |-> [v \in Counts |-> IF v = 0 THEN ticks ELSE 0]]

CountNext ==
  \/ \E f \in Filters :
       WriteRows(f) \/ GetCountHit(f) \/ GetCountMiss(f) \/ LoadRead(f) \/ LoadDone(f) \/ LoadFails(f)
  \/ Tick

CountSpec == CountInit /\ [][CountNext]_countVars
=============================================================================
