----------------------------- MODULE PlanWindows -----------------------------
(***************************************************************************)
(* How long a student's plan runs, as the admin pages show it: the window  *)
(* computePlanWindow derives from the enrollment, its payments and its     *)
(* plan, and the plan shown as the student's current one                   *)
(* (admin/adminEnrollments/adminEnrollment.controller.js).                 *)
(*                                                                         *)
(* Nothing of a window is stored.  The enrollments of one student, their   *)
(* payments and the plans change here as the modules Payments, Registrations *)
(* and PlanCatalogue let them; a day is the unit of time.                  *)
(***************************************************************************)
EXTENDS Naturals, Sequences, FiniteSetsExt

CONSTANTS
  Plans,
  Terms,         \* durations a plan may be given: [value, unit]
  NoTerm,        \* a plan without a resolvable duration
  NoPlan,        \* a deleted plan, and the plan of its enrollments (SET NULL)
  MonthStarts,   \* the first day of each month of the calendar
  LastDay,       \* bounds: the days that pass,
  MaxBought,     \*   the enrollments of the student
  MaxWindowOrders  \*   and their payments

ASSUME WindowsAssumption ==
  /\ NoPlan \notin Plans /\ NoTerm \notin Terms /\ NoPlan \notin Terms /\ NoPlan # NoTerm
  /\ Terms \subseteq [value : Nat \ {0}, unit : {"DAYS", "MONTHS"}]
  /\ MonthStarts \in Seq(Nat) /\ MonthStarts[1] = 0
  /\ LastDay \in Nat /\ MaxBought \in Nat /\ MaxWindowOrders \in Nat

VARIABLES
  today,
  bought,   \* the student's enrollments in the order of created_at
  payments, \* the payments table; paidOn is when the money came, for the properties
  term      \* the duration of each plan

windowVars == <<today, bought, payments, term>>

-----------------------------------------------------------------------------
(* Calendar *)

MonthOf(d) == Max({m \in 1 .. Len(MonthStarts) : MonthStarts[m] <= d})

\* setUTCMonth keeps the day of the month, and runs into the month after when
\* the month is too short for it.
AddMonths(d, n) == MonthStarts[MonthOf(d) + n] + (d - MonthStarts[MonthOf(d)])

\* parseDurationFromPlanId, the enum of an internal plan, or the columns of a
\* pricing: all of them are read from the plan as it is now.
DurationOf(plan) == IF plan = NoPlan THEN NoTerm ELSE term[plan]

AddTerm(d, t) == IF t.unit = "DAYS" THEN d + t.value ELSE AddMonths(d, t.value)

-----------------------------------------------------------------------------
(* computePlanWindow, and the current plan of a student *)

ActivePlanStatuses == {"paid", "completed", "sync_pending"}

Successes(i) == {p \in 1 .. Len(payments) : payments[p].row = i /\ payments[p].st = "success"}

\* Mutant: the date of the row, whatever was paid.
StartFromUpdatedAt(i) == bought[i].updatedOn

\* The latest successful payment, by created_at, or when the row last changed.
StartOf(i) ==
  IF Successes(i) # {} THEN Max({payments[p].openedOn : p \in Successes(i)})
  ELSE bought[i].updatedOn

NoWindow == [row |-> 0, start |-> 0, expiry |-> 0]

computePlanWindow(i) ==
  LET t == DurationOf(bought[i].plan) IN
  IF bought[i].st \notin ActivePlanStatuses \/ t = NoTerm THEN NoWindow
  ELSE [row |-> i, start |-> StartOf(i), expiry |-> AddTerm(StartOf(i), t)]

Running == {i \in 1 .. Len(bought) : bought[i].st \in ActivePlanStatuses}

\* activeByEmail of groupedByEmail and internalGrouped: the newest enrollment
\* in an active status, with or without a duration.
ActivePlan ==
  IF Running = {} THEN NoWindow
  ELSE [computePlanWindow(Max(Running)) EXCEPT !.row = Max(Running)]

\* currentPlan of historyByEmail: nothing when daysLeft is null.
CurrentPlan ==
  IF Running = {} THEN NoWindow ELSE computePlanWindow(Max(Running))

-----------------------------------------------------------------------------
(* What happens to the rows *)

Unsettled == {"submitted", "payment_pending"}

Known(plan) == term[plan] # NoPlan

NewRow(plan, st) == [st |-> st, plan |-> plan, updatedOn |-> today]

Submit(plan) ==
  /\ Known(plan) /\ Len(bought) < MaxBought
  /\ bought' = Append(bought, NewRow(plan, "submitted"))
  /\ UNCHANGED <<today, payments, term>>

\* createInternalEnrollment: born paid, with a payment unless it is free.
BuyInternal(plan, free) ==
  /\ Known(plan) /\ Len(bought) < MaxBought /\ (free \/ Len(payments) < MaxWindowOrders)
  /\ bought' = Append(bought, NewRow(plan, "paid"))
  /\ payments' = IF free THEN payments
                 ELSE Append(payments, [row |-> Len(bought'), st |-> "success",
                                        openedOn |-> today, paidOn |-> today])
  /\ UNCHANGED <<today, term>>

\* selectForEnrollment, which may have read the row before its settlement.
Select(i, plan) ==
  /\ Known(plan) /\ bought[i].st \in Unsettled \cup {"paid"}
  /\ bought' = [bought EXCEPT ![i] = [st |-> "payment_pending", plan |-> plan, updatedOn |-> today]]
  /\ UNCHANGED <<today, payments, term>>

\* createOrder.
OpenOrderFor(i) ==
  /\ bought[i].st \in Unsettled /\ Len(payments) < MaxWindowOrders
  /\ payments' = Append(payments, [row |-> i, st |-> "initiated", openedOn |-> today, paidOn |-> today])
  /\ bought' = [bought EXCEPT ![i] = [@ EXCEPT !.st = "payment_pending", !.updatedOn = today]]
  /\ UNCHANGED <<today, term>>

\* The settlement, on the day of the order or later, and even of an order that
\* had failed or whose enrollment is paid.
SettlePayment(p) ==
  /\ payments[p].st # "success"
  /\ payments' = [payments EXCEPT ![p] = [@ EXCEPT !.st = "success", !.paidOn = today]]
  /\ bought' = [bought EXCEPT ![payments[p].row] = [@ EXCEPT !.st = "paid", !.updatedOn = today]]
  /\ UNCHANGED <<today, term>>

\* A payment.failed event, which may come late and overwrite a success.
FailLate(p) ==
  /\ payments[p].st \in {"initiated", "success"}
  /\ payments' = [payments EXCEPT ![p].st = "failed"]
  /\ UNCHANGED <<today, bought, term>>

\* Every other write to the row: a sync status, an assignment, a retry.
TouchRow(i) ==
  /\ bought' = [bought EXCEPT ![i].updatedOn = today]
  /\ UNCHANGED <<today, payments, term>>

EditPlan(plan, t) ==
  /\ Known(plan)
  /\ term' = [term EXCEPT ![plan] = t]
  /\ UNCHANGED <<today, bought, payments>>

\* deleteInternalPlan never asks for buyers, and deletePricing counts them in
\* an earlier statement; the foreign keys are SET NULL.
DeletePlan(plan) ==
  /\ Known(plan)
  /\ term' = [term EXCEPT ![plan] = NoPlan]
  /\ bought' = [i \in 1 .. Len(bought) |->
       IF bought[i].plan = plan THEN [bought[i] EXCEPT !.plan = NoPlan] ELSE bought[i]]
  /\ UNCHANGED <<today, payments>>

NextDay ==
  /\ today < LastDay /\ today' = today + 1
  /\ UNCHANGED <<bought, payments, term>>

WindowsInit ==
  /\ today = 0 /\ bought = << >> /\ payments = << >>
  /\ term \in [Plans -> Terms]

WindowsNext ==
  \/ \E plan \in Plans : Submit(plan) \/ \E free \in BOOLEAN : BuyInternal(plan, free)
  \/ \E i \in 1 .. Len(bought) :
       OpenOrderFor(i) \/ TouchRow(i) \/ \E plan \in Plans : Select(i, plan)
  \/ \E p \in 1 .. Len(payments) : SettlePayment(p) \/ FailLate(p)
  \/ \E plan \in Plans : DeletePlan(plan) \/ \E t \in Terms \cup {NoTerm} : EditPlan(plan, t)
  \/ NextDay

WindowsSpec == WindowsInit /\ [][WindowsNext]_windowVars
=============================================================================
