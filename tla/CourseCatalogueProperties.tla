---------------------- MODULE CourseCatalogueProperties ----------------------
EXTENDS CourseCatalogue

\* A spelling of the label came in through a course form, or the seed stored one
\* while there was another.
Respelled(k, label) ==
  \/ k = "name" /\ \E l \in typed : LowerCase[l] = LowerCase[label]
  \/ \E l \in Labels : <<k, l>> \in planted /\ LowerCase[l] = LowerCase[label]

\* Two offerings of one course have no duration and need requests that crossed.
OfferingsApart ==
  \A o, p \in OfferingIds :
    o # p /\ offerings[o] # Nothing /\ offerings[p] # Nothing /\ Twins(offerings[o], offerings[p])
      => offerings[o].duration = Nothing /\ crossed

\* Two labels that differ only in their case.
LabelsApart ==
  \A k \in CaseBlind : \A i, j \in RowsOf(k) :
    i # j /\ LowerCase[rows[i].label] = LowerCase[rows[j].label]
      => crossed \/ Respelled(k, rows[i].label)

\* No two offerings sell one course: with a duration never, the index sees to
\* it; without one only by requests that crossed.  And labels differ in more
\* than their case (courseName.service.js) unless requests crossed, one
\* spelling was typed into a course form, which upserts it with its case, or a
\* run of the seed, which looks for its labels in their own case, stored one
\* beside a row that the admins had written or renamed otherwise; a rename that
\* changes only the case is then not checked against the other.
TwinsNeedRace == OfferingsApart /\ LabelsApart
=============================================================================
