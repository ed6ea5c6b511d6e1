------------------------ MODULE PlanWindowsProperties ------------------------
(***************************************************************************)
(* What the window of a plan promises, and the claim of its comment.       *)
(***************************************************************************)
EXTENDS PlanWindows

\* The start and the end shown for a student's plan change only when a payment
\* succeeds or fails, an enrollment becomes a paid one, or a plan is edited or
\* deleted: no day that passes, sync, assignment or new order moves
\* them.  A plan without a successful payment (fully discounted, or its success
\* overwritten) is excepted: its window restarts with every write to the row.
ShownPlanIsStable ==
  [][/\ CurrentPlan # NoWindow /\ Successes(CurrentPlan.row) # {}
     /\ [p \in 1 .. Len(payments) |-> payments'[p].st] = [p \in 1 .. Len(payments) |-> payments[p].st]
     /\ Running' = Running
     /\ [i \in 1 .. Len(bought) |-> bought'[i].plan] = [i \in 1 .. Len(bought) |-> bought[i].plan]
     /\ term' = term
     => CurrentPlan' = CurrentPlan /\ ActivePlan' = CurrentPlan]_windowVars

\* "Start = the most recent successful payment date (the moment the plan was
\* actually paid for)" (adminEnrollment.controller.js:587-588).
WindowStartsWhenPaid ==
  \A i \in Running :
    Successes(i) # {} /\ computePlanWindow(i) # NoWindow =>
      computePlanWindow(i).start = Max({payments[p].paidOn : p \in Successes(i)})
=============================================================================
