---------------------------- MODULE MCBackOffice ----------------------------
(***************************************************************************)
(* Model checking of what the staff work with: leads, the platform's users *)
(* and webhooks, the catalogue, the plans, the gateway's configurations;   *)
(* and what a page shows of tables that change: cached counts, lists       *)
(* walked page by page, the export, and the window of a plan.  These       *)
(* components share no variable, so one run checks them by turns: `part`   *)
(* says which one moves.  Their requests are the same two model values,    *)
(* which may be exchanged.                                                 *)
(***************************************************************************)
EXTENDS LeadsProperties, ProvisioningProperties, CourseCatalogueProperties,
        PlanCatalogueProperties, GatewayConfigsProperties, CountCacheProperties,
        AdminListsProperties, PlanWindowsProperties, TLC

VARIABLE part

OneClass == [l \in Labels |-> "one label but for its case"]
OnePayer == [p \in Payments |-> CHOOSE s \in Students : TRUE]

\* The seed stores one of the spellings, as a duration and as a course's name.
SeedLabel == CHOOSE l \in Labels : TRUE
SeedLabels == {SeedLabel}
OneDuration == [l \in SeedLabels |-> SeedLabel]
General == {<<"name", SeedLabel>>}

TwoDays == [value |-> 2, unit |-> "DAYS"]
SomeTerms == {TwoDays, [value |-> 1, unit |-> "MONTHS"]}
Calendar == <<0, 3, 4, 7, 10>>  \* its second month has one day

Symmetry == Permutations(Tasks)

Init ==
  /\ part \in {"leads", "provisioning", "courses", "plans", "gateway",
               "counts", "walk", "export", "windows"}
  /\ LeadsInit /\ ProvisioningInit /\ CourseInit /\ PlanInit /\ GatewayInit
  /\ CountInit /\ ListsInit /\ WindowsInit
  /\ part # "gateway" => exists = {}
  /\ part # "plans" => \A t \in Tiers : plans[t] = "none"
  /\ part # "walk" => db.enrolled = << >> /\ walk.of = "payments"
  /\ part # "windows" => \A g \in Plans : term[g] = TwoDays

\* The writes to the tables that the list at hand does not read are left out.
ReadTablesOnly ==
  /\ db'.mirror # db.mirror => walk.of = "mirror"
  /\ db'.payments # db.payments => walk.of = "payments"
  /\ db'.followups # db.followups => walk.of \in {"followups", "report"}
  /\ db'.enrolled # db.enrolled => walk.of \notin {"payments", "followups", "report"}

officeVars == <<leadVars, provisioningVars, courseVars, planVars, gatewayVars>>
pageVars == <<countVars, listVars, windowVars>>

OfficeNext ==
  \/ part = "leads" /\ LeadsNext /\ UNCHANGED <<provisioningVars, courseVars, planVars, gatewayVars>>
  \/ part = "provisioning" /\ ProvisioningNext /\ UNCHANGED <<leadVars, courseVars, planVars, gatewayVars>>
  \/ part = "courses" /\ CourseNext /\ UNCHANGED <<leadVars, provisioningVars, planVars, gatewayVars>>
  \/ part = "plans" /\ PlanNext /\ UNCHANGED <<leadVars, provisioningVars, courseVars, gatewayVars>>
  \/ part = "gateway" /\ GatewayNext /\ UNCHANGED <<leadVars, provisioningVars, courseVars, planVars>>

PagesNext ==
  \/ part = "counts" /\ CountNext /\ UNCHANGED <<listVars, windowVars>>
  \/ /\ \/ part = "walk" /\ UNCHANGED export
        \/ part = "export" /\ UNCHANGED walk
     /\ ListsNext /\ ReadTablesOnly
     /\ UNCHANGED <<countVars, windowVars>>
  \/ part = "windows" /\ WindowsNext /\ UNCHANGED <<countVars, listVars>>

Next ==
  /\ UNCHANGED part
  /\ \/ OfficeNext /\ UNCHANGED pageVars
     \/ PagesNext /\ UNCHANGED officeVars

Spec == Init /\ [][Next]_<<part, officeVars, pageVars>>
=============================================================================
