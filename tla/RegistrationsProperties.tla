----------------------- MODULE RegistrationsProperties -----------------------
(***************************************************************************)
(* What the enrollments of an address promise.                             *)
(***************************************************************************)
EXTENDS Registrations

\* A settled enrollment stays paid and keeps the details it was paid under.
\* No public form rewrites it, whatever runs while it is being paid.  An admin
\* who saves it as a draft does: createDraftEnrollment does not ask for the
\* status.  And a plan selection that had read the enrollment before it was
\* settled takes it back to payment_pending, from where the upgrade link may
\* start it again.
SettledKeepsDetails ==
  [][\A i \in Ids :
       AlreadySettled(i) =>
         /\ table[i].st = "paid" =>
              \/ table'[i].st = "paid"
              \/ i \in crossed /\ Selecting(i)
         /\ table'[i].details # table[i].details =>
              \/ \E v \in Visitors : At(v, "draft") /\ visit[v].row = i
              \/ table[i].st # "paid" /\ i \in crossed /\ \E v \in Visitors : At(v, "self")
    ]_registrationsVars

\* A student's payment never disappears with a discarded draft, except when
\* the order had been left open by a restart of the draft, or when the draft
\* moved on between the check and the delete of createInternalEnrollment.
PaidIsVisible ==
  \A i \in Ids :
    AlreadySettled(i) /\ table[i].del => i \in astray

\* Whoever is told that the enrollment succeeded has an account, or will have
\* one, unless the onboarding before this answer failed and nobody was told.
\* (The account may be one that an admin has deleted: onboarding leaves it so.)
\* The controller skips the onboarding for a duplicate because "the original
\* submission already onboarded"; that leaves out rows that no public
\* submission made (contact form, upgrade link, admin's draft) and those whose
\* request died or failed to onboard.
ServedHasAccount ==
  LET i == served.row IN
  i # 0 =>
    \/ served.email \in accounts
    \/ served.how = "failed"
    \/ /\ served.how = "duplicate"
       /\ \/ i \notin web
          \/ \E v \in Visitors : At(v, "onboard") /\ visit[v].row = i
=============================================================================
