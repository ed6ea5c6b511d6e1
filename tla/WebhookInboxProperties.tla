----------------------- MODULE WebhookInboxProperties -----------------------
(***************************************************************************)
(* What the inbox and the job lock promise.                                *)
(***************************************************************************)
EXTENDS WebhookInbox

\* Two runs of the job are under way at once only after one of them has
\* outlived the lock: a run that ends late does not take away the lock of the
\* run that followed it (the compare-and-delete of releaseLock).
OneRunPerLock ==
  \A s, t \in Servers :
    s # t /\ ~At(s, "run", "idle") /\ ~At(t, "run", "idle") =>
      \E u \in {s, t} : work[u]["run"].age = LockTtl

\* Every event that was stored is processed in the end, or has used up its
\* attempts: no crash leaves it behind, and events that always fail do not
\* keep the batch for themselves.
StoredIsProcessed ==
  \A e \in 1 .. MaxEvents :
    (e <= Len(event)) ~>
      (e <= Len(event) /\ (event[e].processed \/ event[e].attempts >= MaxTries))

-----------------------------------------------------------------------------

\* Somebody has settled the payment and has not handed it on yet.
AboutToHandOn(p) ==
  \E s \in Servers, k \in Kinds : At(s, k, "enqueue") /\ event[Current(s, k)].pay = p

\* How far a payment has come; nothing in the promise corresponds to the first
\* and the last of these.
EffectOf(p) ==
  IF handed[p] > 1 THEN "repeated"
  ELSE IF handed[p] = 1 THEN "handed"
  ELSE IF p \in lost THEN "lost"
  ELSE IF p \notin settled THEN "none"
  ELSE IF AboutToHandOn(p) THEN "settled"
  ELSE "forgotten"

\* The payments of which an event is marked as processed.
Served == {event[e].pay : e \in {i \in 1 .. Len(event) : event[i].processed}}

Effects == INSTANCE EventEffects WITH
  effect <- [p \in Paid |-> EffectOf(p)],
  served <- Served

\* Whatever payment.captured and order.paid events, repeated deliveries, and
\* replays of events whose handler is still at work there are, and whoever dies
\* half-way: a payment is handed on once at most, only the death of the process
\* that settled it keeps it from being handed on, and an event is marked only
\* after its payment was settled.
ImplementsEventEffects == Effects!Spec
=============================================================================
