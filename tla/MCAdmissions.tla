---------------------------- MODULE MCAdmissions ----------------------------
(***************************************************************************)
(* Model checking of registrations and of internal enrollments, by turns:  *)
(* they share no variable (module Registrations has the row that an        *)
(* internal enrollment inserts, InternalEnrollment its money).             *)
(*                                                                         *)
(* Registrations are checked with addresses that have an account from the  *)
(* start, where nothing is left to onboard, and, as "newcomers", with      *)
(* addresses that have none yet, where nobody gets as far as an order.     *)
(***************************************************************************)
EXTENDS RegistrationsProperties, InternalEnrollmentProperties, TLC

VARIABLE part

SomeOffers == {[type |-> "PERCENT", value |-> 33, limit |-> 1],
               [type |-> "FLAT", value |-> 60, limit |-> 2]}

Symmetry == Permutations(Visitors) \cup Permutations(Clerks)

Init ==
  /\ part \in {"registrations", "newcomers", "internal"}
  /\ RegistrationsInit /\ InternalInit
  /\ accounts = IF part = "newcomers" THEN {} ELSE Emails
  /\ part # "internal" =>
       /\ fee = CHOOSE f \in Fees : TRUE
       /\ \A c \in Codes : plan.coupons[c].offer = CHOOSE o \in Offers : TRUE

Next ==
  /\ UNCHANGED part
  /\ \/ /\ part # "internal" /\ RegistrationsNext /\ UNCHANGED internalVars
        /\ part = "newcomers" => \A i \in Ids' : table'[i].order = "none"
     \/ part = "internal" /\ InternalNext /\ UNCHANGED registrationsVars

Spec == Init /\ [][Next]_<<part, registrationsVars, internalVars>>
=============================================================================
