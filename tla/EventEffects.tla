---------------------------- MODULE EventEffects ----------------------------
(***************************************************************************)
(* What the inbox promises to those who are paid and to the external       *)
(* system, with no events, servers, retries or locks in it: a payment that *)
(* events tell of is settled once, and then handed on once or lost with    *)
(* the process that was about to; what is lost is not handed on later, and *)
(* only a payment that was settled is reported as served.                  *)
(***************************************************************************)
CONSTANT Paid

VARIABLES
  effect,    \* how far each payment has come: "settled" is about to be handed on
  served     \* payments of which some event is marked as processed

vars == <<effect, served>>

Init ==
  /\ effect = [p \in Paid |-> "none"]
  /\ served = {}

Settle(p) ==
  /\ effect[p] = "none"
  /\ effect' = [effect EXCEPT ![p] = "settled"]
  /\ UNCHANGED served

HandOn(p) ==
  /\ effect[p] = "settled"
  /\ effect' = [effect EXCEPT ![p] = "handed"]
  /\ UNCHANGED served

\* A process dies with what it was about to hand on.
Lose(P) ==
  /\ \A p \in P : effect[p] = "settled"
  /\ effect' = [p \in Paid |-> IF p \in P THEN "lost" ELSE effect[p]]
  /\ UNCHANGED served

Serve(p) ==
  /\ effect[p] # "none"
  /\ served' = served \cup {p}
  /\ UNCHANGED effect

Next ==
  \/ \E p \in Paid : Settle(p) \/ HandOn(p) \/ Serve(p)
  \/ \E P \in SUBSET Paid : Lose(P)

Spec == Init /\ [][Next]_vars

=============================================================================
