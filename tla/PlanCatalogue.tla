--------------------------- MODULE PlanCatalogue ----------------------------
(***************************************************************************)
(* The plans on sale, their pricings, and the enrollments that chose one.  *)
(*                                                                         *)
(*   modules/plans/plan.service       the operations                       *)
(*   modules/plans/plan.repository    their statements                     *)
(*                                                                         *)
(* Each statement is a step, the transactions of a creation too; a         *)
(* selection's transaction has two.  Pricings go with their plan (ON       *)
(* DELETE CASCADE), and an enrollment whose pricing goes keeps none (SET   *)
(* NULL).                                                                  *)
(***************************************************************************)
EXTENDS Naturals, FiniteSets

CONSTANTS
  Tiers,              \* a plan is known by its tier, which is unique
  Slots,              \* a duration and its unit
  PlanIds,              \* external plan ids
  Buyers,             \* enrollments
  Unpriced,           \* NULL
  Editors,            \* requests under way
  MaxEdits            \* bound: the requests there are in all

VARIABLES
  plans,       \* by tier: its status, or "none"
  pricings,    \* by tier and slot: Unpriced, or a code and a status
  choice,      \* the pricing of each enrollment, or Unpriced
  discarded,   \* enrollments with deleted_at set
  editor,      \* the locals of each request, and its next statement: pc
  edits,       \* how many requests there were
  unseen       \* history: enrollments that chose a pricing after a delete
               \*   of it had counted its enrollments

planVars == <<plans, pricings, choice, discarded, editor, edits, unseen>>

\* NULL is no row: neither a pricing, nor the key of one.
ASSUME PlanAssumption ==
  /\ Unpriced \notin Tiers \X Slots
  /\ Unpriced \notin [code : PlanIds, status : {"ACTIVE", "INACTIVE"}]

-----------------------------------------------------------------------------

Pricings == Tiers \X Slots
PricingsOf(tier) == {tier} \X Slots
Stored == {p \in Pricings : pricings[p] # Unpriced}
OnSale(p) == p \in Stored /\ pricings[p].status = "ACTIVE" /\ plans[p[1]] = "ACTIVE"

\* Mutant: an enrollment counts only while its pricing is on sale.
BuyersOfOffers(P) == {b \in Buyers \ discarded : choice[b] \in P /\ OnSale(choice[b])}

\* countEnrollmentsByPricingId, countEnrollmentsByPlanId.
BuyersOf(P) == {b \in Buyers \ discarded : choice[b] \in P}

EditorIdle == [pc |-> "idle"]
Editing(c, pc) == editor[c].pc = pc
Then(c, next) == editor' = [editor EXCEPT ![c] = next]
EditBegins(c, first) ==
  /\ Editing(c, "idle") /\ edits < MaxEdits
  /\ edits' = edits + 1
  /\ Then(c, first)
  /\ UNCHANGED <<plans, pricings, choice, discarded, unseen>>

-----------------------------------------------------------------------------

\* create: the tier must be free and the codes of its pricings distinct.
BeginCreatePlan(c, tier, codes) ==
  /\ plans[tier] = "none"
  /\ \A s, t \in Slots : s # t /\ codes[s] = codes[t] => codes[s] = Unpriced
  /\ EditBegins(c, [pc |-> "create", tier |-> tier, codes |-> codes])

\* Its transaction: the plan and its pricings, or nothing if an index
\* refuses one of them.
CreatePlan(c) ==
  /\ Editing(c, "create")
  /\ LET q == editor[c]
         free == /\ plans[q.tier] = "none"
                 /\ \A p \in Stored, s \in Slots : pricings[p].code # q.codes[s]
     IN /\ plans' = IF free THEN [plans EXCEPT ![q.tier] = "ACTIVE"] ELSE plans
        /\ pricings' = [p \in Pricings |->
             IF free /\ p[1] = q.tier /\ q.codes[p[2]] # Unpriced
             THEN [code |-> q.codes[p[2]], status |-> "ACTIVE"] ELSE pricings[p]]
  /\ Then(c, EditorIdle)
  /\ UNCHANGED <<choice, discarded, edits, unseen>>

\* setStatus, and the status of an update.
SetPlanStatus(tier, status) ==
  /\ plans[tier] \notin {"none", status}
  /\ plans' = [plans EXCEPT ![tier] = status]
  /\ UNCHANGED <<pricings, choice, discarded, editor, edits, unseen>>

\* upsertPricing: the collision check, then the upsert.
BeginUpsertPricing(c, p, code) ==
  /\ plans[p[1]] # "none"
  /\ \A other \in Stored \ {p} : pricings[other].code # code
  /\ EditBegins(c, [pc |-> "upsert", of |-> {p}, code |-> code])

UpsertPricing(c) ==
  /\ Editing(c, "upsert")
  /\ LET q == editor[c]
         taken == \E other \in Stored \ q.of : pricings[other].code = q.code
     IN pricings' = [p \in Pricings |->
          IF p \in q.of /\ ~taken THEN [code |-> q.code, status |-> "ACTIVE"] ELSE pricings[p]]
  /\ Then(c, EditorIdle)
  /\ UNCHANGED <<plans, choice, discarded, edits, unseen>>

-----------------------------------------------------------------------------

\* deactivatePricing: the count decides which statement follows.
BeginRemovePricing(c, p) ==
  /\ p \in Stored
  /\ EditBegins(c, [pc |-> IF BuyersOf({p}) = {} THEN "delete" ELSE "deactivate", of |-> {p}])

DeactivatePricing(c) ==
  /\ Editing(c, "deactivate")
  /\ pricings' = [p \in Pricings |->
       IF p \in editor[c].of THEN [pricings[p] EXCEPT !.status = "INACTIVE"] ELSE pricings[p]]
  /\ Then(c, EditorIdle)
  /\ UNCHANGED <<plans, choice, discarded, edits, unseen>>

\* softDelete: refused while an enrollment counts; it deletes the plan's row.
BeginDeletePlan(c, tier) ==
  /\ plans[tier] # "none" /\ BuyersOf(PricingsOf(tier)) = {}
  /\ EditBegins(c, [pc |-> "delete_plan", of |-> PricingsOf(tier)])

\* The DELETE of a pricing, or of a plan with whatever pricings it has now.
\* Requests hold rows by id: those of a row that goes have no effect any more.
Delete(c) ==
  /\ editor[c].pc \in {"delete", "delete_plan"}
  /\ LET rows == editor[c].of
         whole == Editing(c, "delete_plan")
         Lost(d) == CASE editor[d].pc \in {"delete", "deactivate", "select", "stamp"} -> editor[d].of \subseteq rows
                      [] editor[d].pc = "delete_plan" -> whole /\ editor[d].of = rows
                      [] editor[d].pc = "upsert"      -> whole /\ editor[d].of \subseteq rows
                      [] OTHER -> FALSE
     IN /\ pricings' = [p \in Pricings |-> IF p \in rows THEN Unpriced ELSE pricings[p]]
        /\ plans' = [t \in Tiers |-> IF whole /\ PricingsOf(t) = rows THEN "none" ELSE plans[t]]
        /\ choice' = [b \in Buyers |-> IF choice[b] \in rows THEN Unpriced ELSE choice[b]]
        /\ editor' = [d \in Editors |-> IF d = c \/ Lost(d) THEN EditorIdle ELSE editor[d]]
  /\ UNCHANGED <<discarded, edits, unseen>>

-----------------------------------------------------------------------------

\* selectForEnrollment: the reads of the pricing before and in the
\* transaction, then its update of the enrollment.
BeginSelect(c, b, p) ==
  /\ OnSale(p) /\ b \notin discarded
  /\ EditBegins(c, [pc |-> "select", buyer |-> b, of |-> {p}])

ReadAgain(c) ==
  /\ Editing(c, "select")
  /\ Then(c, IF \A p \in editor[c].of : OnSale(p) THEN [editor[c] EXCEPT !.pc = "stamp"] ELSE EditorIdle)
  /\ UNCHANGED <<plans, pricings, choice, discarded, edits, unseen>>

Stamp(c) ==
  /\ Editing(c, "stamp")
  /\ \E p \in editor[c].of :
       LET buyer == editor[c].buyer
           counted == \E d \in Editors : editor[d].pc \in {"delete", "delete_plan"} /\ p \in editor[d].of
       IN /\ choice' = [choice EXCEPT ![buyer] = p]
          /\ unseen' = IF counted THEN unseen \cup {buyer} ELSE unseen \ {buyer}
  /\ Then(c, EditorIdle)
  /\ UNCHANGED <<plans, pricings, discarded, edits>>

\* discardDraftEnrollment, seen from here.
Discard(b) ==
  /\ b \notin discarded
  /\ discarded' = discarded \cup {b}
  /\ UNCHANGED <<plans, pricings, choice, editor, edits, unseen>>

-----------------------------------------------------------------------------

\* The seed's plan, if it has run, is on sale.
PlanInit ==
  /\ \/ plans = [t \in Tiers |-> "none"] /\ pricings = [p \in Pricings |-> Unpriced]
     \/ \E tier \in Tiers, codes \in [Slots -> PlanIds] :
          /\ \A s, t \in Slots : s # t => codes[s] # codes[t]
          /\ plans = [t \in Tiers |-> IF t = tier THEN "ACTIVE" ELSE "none"]
          /\ pricings = [p \in Pricings |->
               IF p[1] = tier THEN [code |-> codes[p[2]], status |-> "ACTIVE"] ELSE Unpriced]
  /\ choice = [b \in Buyers |-> Unpriced]
  /\ discarded = {} /\ unseen = {}
  /\ editor = [c \in Editors |-> EditorIdle]
  /\ edits = 0

PlanNext ==
  \/ \E c \in Editors :
       \/ \E tier \in Tiers, codes \in [Slots -> PlanIds \cup {Unpriced}] : BeginCreatePlan(c, tier, codes)
       \/ \E p \in Pricings, code \in PlanIds : BeginUpsertPricing(c, p, code)
       \/ \E p \in Pricings : BeginRemovePricing(c, p)
       \/ \E tier \in Tiers : BeginDeletePlan(c, tier)
       \/ \E b \in Buyers, p \in Pricings : BeginSelect(c, b, p)
       \/ CreatePlan(c) \/ UpsertPricing(c) \/ DeactivatePricing(c) \/ Delete(c)
       \/ ReadAgain(c) \/ Stamp(c)
  \/ \E tier \in Tiers, status \in {"ACTIVE", "INACTIVE"} : SetPlanStatus(tier, status)
  \/ \E b \in Buyers : Discard(b)

PlanSpec == PlanInit /\ [][PlanNext]_planVars
=============================================================================
