-------------------------- MODULE LeadsProperties ---------------------------
(***************************************************************************)
(* What the follow-ups promise to the people who work on them.             *)
(***************************************************************************)
EXTENDS Leads, FiniteSetsExt

\* A follow-up that is done is reopened, or its outcome replaced, only by a
\* request that overlapped the one that ended it: updateStatus reads the
\* status, refuses a terminal one and then writes by the id alone.
ReopenNeedsRace ==
  [][\A f \in DOMAIN followups :
       followups[f].status \in Terminal /\ followups'[f].status # followups[f].status
         => f \in tangled]_leadVars

\* "Idempotently ensure a Followup row exists": two active rows of one lead
\* come from two requests that both found none, or from a closed row that an
\* overlapping request reopened.
DuplicateNeedsRace ==
  \A l \in LeadIds :
    Cardinality(Active(l)) > 1 => l \in raced \/ Active(l) \cap tangled # {}

\* What a user is shown: the creation, for which getFollowupTimeline gives the
\* status of today, and the notes in order; payments are left out.
Timeline(f) ==
  <<[kind |-> "created", status |-> followups[f].status]>> \o followups[f].notes

\* The places of the changes of status in a timeline.
Changes(shown) == {i \in DOMAIN shown : shown[i].kind = "status"}

\* By its first n entries the status is s: the last of them that is a change
\* leads to s, or none is and s is a status that a row is created with.
Says(shown, n, s) ==
  LET before == {i \in Changes(shown) : i <= n}
  IN \/ before = {} /\ s \in {"new", "payment_pending"}
     \/ \E i \in before : shown[i].to = s /\ \A j \in before : j <= i

\* The timeline explains the status: when every request on a row came after
\* the last note of the one before, the status notes lead from the status the
\* row was created with to the one it has now, save for a conversion, which
\* writes no note.
TimelineIsTrue ==
  \A f \in DOMAIN followups :
    LET shown == Timeline(f)
        quiet == \A r \in LeadRequests : ~(RequestAt(r, "notes") /\ request[r].f = f)
    IN f \notin tangled =>
         /\ \A i \in Changes(shown) : Says(shown, i - 1, shown[i].from)
         /\ quiet => \/ followups[f].status = "converted"
                     \/ Says(shown, Len(shown), followups[f].status)

-----------------------------------------------------------------------------

Mine(e) == {l \in LeadIds : owner[l] = e /\ l \notin gone}

\* getDashboard's newLeads: the leads less the follow-ups with an outcome.
NewLeadsCount(e) ==
  LET done == {f \in UNION {LiveOf(l) : l \in Mine(e)} :
                 followups[f].status \in {"contacted", "interested", "not_interested",
                                          "converted", "closed", "followup_closed"}}
      all == Cardinality(Mine(e))
  IN IF Cardinality(done) > all THEN 0 ELSE all - Cardinality(done)

\* Mutant: the leads with a row whose status is 'new'.
NewLeadsByStatus(e) == {l \in Mine(e) : \E f \in LiveOf(l) : followups[f].status = "new"}

\* listMyLeads with followupStatus = 'new'.
NewLeadsList(e) ==
  {l \in Mine(e) : \A f \in LiveOf(l) :
     followups[f].status \notin {"contacted", "interested", "not_interested",
                                 "converted", "closed"}}

\* "Matches the dashboard's newLeads count exactly" (employeeLead.service.js):
\* it does as long as no lead has two rows and none is 'followup_closed',
\* which the dashboard counts as closed and the list takes for new.
NewLeadsAgree ==
  \A e \in Employees :
    (\A l \in Mine(e) :
       /\ Cardinality(LiveOf(l)) <= 1
       /\ \A f \in LiveOf(l) : followups[f].status # "followup_closed")
    => NewLeadsCount(e) = Cardinality(NewLeadsList(e))
=============================================================================
