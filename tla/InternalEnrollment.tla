------------------------- MODULE InternalEnrollment -------------------------
(***************************************************************************)
(* Internal enrollments against one internal plan: the fee, the coupon and *)
(* its counter, and the admin who edits the plan meanwhile.                *)
(*                                                                         *)
(*   createInternalEnrollment, createBulkEnrollments   adminEnrollments/   *)
(*   runCouponValidation, calculateFee                 internalPlans/      *)
(*   update, setStatus, delete of the plan             internalPlans/      *)
(*                                                                         *)
(* Money is in paise.  Plans do not interact: one is enough.  Coupons of a *)
(* plan have different codes; an edit keeps the codes.  The discarded      *)
(* draft is in module Registrations.                                       *)
(***************************************************************************)
EXTENDS Integers, Sequences, FiniteSets

CONSTANTS
  Codes, NoCode,
  Offers,          \* records [type, value, limit]; limit 0 stands for none
  Fees,            \* course fees
  Clerks,          \* requests that enroll somebody
  CsvRows,         \* bound: rows of an uploaded file
  Editors,         \* admins with the plan's form open
  MaxEnrollments   \* bound

ASSUME OffersAssumption ==
  /\ Fees \subseteq Nat \ {0}
  /\ Offers \subseteq [type : {"PERCENT", "FLAT"}, value : Nat \ {0}, limit : Nat]
  /\ \A o \in Offers : o.type = "PERCENT" => o.value <= 100
  /\ NoCode \notin Codes
  /\ CsvRows \in Nat /\ MaxEnrollments \in Nat

VARIABLES
  plan,     \* the internal_plans row with its coupons, "none" when deleted
  fee,      \* course_master.course_fee
  clerk,    \* the local variables of createInternalEnrollment
  editor,   \* the form of each editor, and the row updateInternalPlan has read
  ledger,   \* the enrollments and their payments, in order of commit
  torn      \* history: codes for which an edit was saved whose counter was
            \* read before a redemption that had committed by then

internalVars == <<plan, fee, clerk, editor, ledger, torn>>

-----------------------------------------------------------------------------
(* runCouponValidation *)

Coupon == [offer : Offers, used : Nat, on : BOOLEAN]

\* expiryDate is one more reason to be refused, as `on` is.
CouponValid(c) == c.on /\ (c.offer.limit = 0 \/ c.used < c.offer.limit)

\* Math.round of rupees times a percentage, to the paisa.
Percent(price, value) == (2 * price * value + 100) \div 200

\* Mutant: a flat discount is not capped.
DiscountUncapped(offer, price) ==
  IF offer.type = "PERCENT" THEN Percent(price, offer.value) ELSE offer.value

Discount(offer, price) ==
  CASE offer.type = "PERCENT" -> Percent(price, offer.value)
    [] offer.type = "FLAT"    -> IF offer.value < price THEN offer.value ELSE price

FinalAmount(price, discount) == IF discount < price THEN price - discount ELSE 0

\* calculateFee, what the wizard shows.
CalculateFee(price, code, coupons) ==
  IF code # NoCode /\ CouponValid(coupons[code])
  THEN FinalAmount(price, Discount(coupons[code].offer, price)) ELSE price

Redemptions(c) == Cardinality({i \in 1 .. Len(ledger) : ledger[i].code = c})

-----------------------------------------------------------------------------
(* createInternalEnrollment *)

\* left: the students still to be enrolled by the request, one unless a file
\* was uploaded.
NoRequest == [pc |-> "idle", left |-> 0, code |-> NoCode, fee |-> 0, used |-> 0]

\* The checks before the transaction: planSnapshot, of which the course fee and
\* the coupon's counter are kept here.
ReadPlan(k, code, left) ==
  /\ plan.st = "ACTIVE"
  /\ clerk' = [clerk EXCEPT ![k] =
       [pc |-> "tx", left |-> left, code |-> code, fee |-> fee,
        used |-> IF code = NoCode THEN 0 ELSE plan.coupons[code].used]]

\* One student, or the rows of a file, all with the same code.
BeginEnrollment(k, code, rows) ==
  /\ clerk[k].pc = "idle"
  /\ ReadPlan(k, code, rows)
  /\ UNCHANGED <<plan, fee, editor, ledger, torn>>

\* createBulkEnrollments goes on with the next row, whether this one failed or
\* not.
NextRow(k) ==
  clerk' = [clerk EXCEPT ![k] =
    IF clerk[k].left > 1
    THEN [NoRequest EXCEPT !.pc = "row", !.left = clerk[k].left - 1, !.code = clerk[k].code]
    ELSE NoRequest]

CreateBulkEnrollments(k) ==
  /\ clerk[k].pc = "row"
  /\ ReadPlan(k, clerk[k].code, clerk[k].left) \/ (plan.st # "ACTIVE" /\ NextRow(k))
  /\ UNCHANGED <<plan, fee, editor, ledger, torn>>

Counted(coupon) == [coupon EXCEPT !.used = coupon.used + 1]

\* The enrollment and its payment row, none for an amount of 0.
Enrolled(code, coupon, price) ==
  LET discount == IF code = NoCode THEN 0 ELSE Discount(coupon.offer, price)
      final    == FinalAmount(price, discount)
  IN [code |-> code, base |-> price, discount |-> discount, final |-> final,
      nth |-> IF code = NoCode THEN 0 ELSE Redemptions(code) + 1,
      limit |-> IF code = NoCode THEN 0 ELSE coupon.offer.limit,
      payment |-> final,
      st |-> IF final = 0 THEN "FULLY_DISCOUNTED" ELSE "PAID"]

\* The transaction, with the price it starts from and the counter it goes by.
Redeem(k, price, used) ==
  LET r        == clerk[k]
      coupon   == [plan.coupons[r.code] EXCEPT !.used = used]
      accepted == r.code = NoCode \/ CouponValid(coupon)
  IN /\ r.pc = "tx" /\ Len(ledger) < MaxEnrollments
     /\ IF plan.st = "none" \/ ~accepted
        THEN UNCHANGED <<plan, ledger>>
        ELSE /\ plan' = IF r.code = NoCode THEN plan
                        ELSE [plan EXCEPT !.coupons = [@ EXCEPT ![r.code] = Counted(coupon)]]
             /\ ledger' = Append(ledger, Enrolled(r.code, coupon, price))
     /\ NextRow(k)
     /\ UNCHANGED <<fee, editor, torn>>

\* The counter read under the lock, 0 without a coupon.
Used(k) == IF clerk[k].code = NoCode THEN 0 ELSE plan.coupons[clerk[k].code].used

\* Mutant: the counter of the snapshot, not the one read under the lock.
RedeemSnapshot(k) == Redeem(k, clerk[k].fee, clerk[k].used)

\* Mutant: the fee is read again, after the wizard has shown the amount.
RedeemCurrentFee(k) == Redeem(k, fee, Used(k))

\* SELECT ... FOR UPDATE of the plan, validation, counter, enrollment and
\* payment row (none for an amount of 0): the row lock makes it one step.
CreateInternalEnrollment(k) == Redeem(k, clerk[k].fee, Used(k))

-----------------------------------------------------------------------------
(* The plan's form *)

Counts(coupons) == [c \in Codes |-> coupons[c].used]
Uses == [c \in Codes |-> Redemptions(c)]
Zero == [c \in Codes |-> 0]
Closed == [pc |-> "idle", sent |-> Zero, seen |-> Zero, live |-> Zero, seenLive |-> Zero]

\* The form loads the plan; seen is history.
OpenForm(a) ==
  /\ editor[a].pc = "idle" /\ plan.st # "none"
  /\ editor' = [editor EXCEPT ![a] =
       [Closed EXCEPT !.pc = "open", !.sent = Counts(plan.coupons), !.seen = Uses]]
  /\ UNCHANGED <<plan, fee, clerk, ledger, torn>>

\* updateInternalPlan reads the row (liveUsedByCode), without a lock.
UpdateRead(a) ==
  /\ editor[a].pc = "open" /\ plan.st # "none"
  /\ editor' = [editor EXCEPT ![a] =
       [@ EXCEPT !.pc = "save", !.live = Counts(plan.coupons), !.seenLive = Uses]]
  /\ UNCHANGED <<plan, fee, clerk, ledger, torn>>

\* It writes the coupons of the form; a counter is the one sent with the form
\* or, if the client sends none, the one just read.
UpdateWrite(a, sends, c, offer, on) ==
  LET e    == editor[a]
      used == IF sends THEN e.sent ELSE e.live
      seen == IF sends THEN e.seen ELSE e.seenLive
  IN /\ e.pc = "save" /\ plan.st # "none"
     /\ plan' = [plan EXCEPT !.coupons = [d \in Codes |->
          [offer |-> IF d = c THEN offer ELSE @[d].offer, used |-> used[d],
           on |-> IF d = c THEN on ELSE @[d].on]]]
     /\ torn' = torn \cup {d \in Codes : Redemptions(d) # seen[d]}
     /\ editor' = [editor EXCEPT ![a] = Closed]
     /\ UNCHANGED <<fee, clerk, ledger>>

\* setInternalPlanStatus and deleteInternalPlan; enrollments keep their
\* snapshot.
SetStatus(st) ==
  /\ plan.st # "none" /\ plan.st # st
  /\ plan' = [plan EXCEPT !.st = st]
  /\ UNCHANGED <<fee, clerk, editor, ledger, torn>>

DeletePlan ==
  /\ plan.st # "none"
  /\ plan' = [plan EXCEPT !.st = "none"]
  /\ UNCHANGED <<fee, clerk, editor, ledger, torn>>

\* updateCourse.
SetFee(f) ==
  /\ f # fee
  /\ fee' = f
  /\ UNCHANGED <<plan, clerk, editor, ledger, torn>>

-----------------------------------------------------------------------------

InternalInit ==
  /\ \E offers \in [Codes -> Offers] :
       plan = [st |-> "ACTIVE",
               coupons |-> [c \in Codes |-> [offer |-> offers[c], used |-> 0, on |-> TRUE]]]
  /\ fee \in Fees
  /\ clerk = [k \in Clerks |-> NoRequest]
  /\ ledger = << >> /\ torn = {}
  /\ editor = [a \in Editors |-> Closed]

InternalNext ==
  \/ \E k \in Clerks :
       \/ CreateInternalEnrollment(k) \/ CreateBulkEnrollments(k)
       \/ \E code \in Codes \cup {NoCode}, rows \in {1, CsvRows} : BeginEnrollment(k, code, rows)
  \/ \E a \in Editors :
       \/ OpenForm(a) \/ UpdateRead(a)
       \/ \E sends, on \in BOOLEAN, c \in Codes, o \in Offers : UpdateWrite(a, sends, c, o, on)
  \/ \E st \in {"ACTIVE", "INACTIVE"} : SetStatus(st)
  \/ DeletePlan
  \/ \E f \in Fees : SetFee(f)

InternalSpec == InternalInit /\ [][InternalNext]_internalVars
=============================================================================
