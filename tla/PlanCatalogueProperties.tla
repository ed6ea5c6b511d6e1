----------------------- MODULE PlanCatalogueProperties ----------------------
EXTENDS PlanCatalogue

\* plan.repository.js deletePricing asks its callers to ensure that no
\* enrollment refers to the row.  They count in one statement and delete in
\* another, so an enrollment loses its pricing only when it was discarded, or
\* chose between the two.
PricingIsKept ==
  [][\A b \in Buyers :
       choice[b] # Unpriced /\ choice'[b] = Unpriced => b \in discarded \cup unseen]_planVars
=============================================================================
