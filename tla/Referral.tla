------------------------------ MODULE Referral ------------------------------
(***************************************************************************)
(* Referral codes and links (rewards/referral.move).  A code is the hex of   *)
(* its owner's address, so a code is its owner.  A user has at most one      *)
(* referrer, so the link is kept with the referee: `referrer`, `status`,     *)
(* `generated` and `firstRewarded` are the ReferralLink, and `known`,        *)
(* `total`, `active` and `earned` the ReferralRecord.                        *)
(***************************************************************************)
EXTENDS Config

CONSTANT NoUser   \* the address 0x0 of a record without a referrer

ASSUME NoUserAssumption == NoUser \notin Users

FirstLoanPoints == 50
InstallmentPoints == 20

ReferralEntryType ==
  [known : BOOLEAN, referrer : Users \cup {NoUser},
   total : Nat, active : Nat, earned : Nat,
   status : {"none", "pending", "active", "defaulted"},
   generated : Nat, firstRewarded : BOOLEAN]

ReferralType == [Users -> ReferralEntryType]

NoReferrals ==
  [u \in Users |-> [known |-> FALSE, referrer |-> NoUser,
                    total |-> 0, active |-> 0, earned |-> 0, status |-> "none",
                    generated |-> 0, firstRewarded |-> FALSE]]

\* borrow_or_create_record_in_registry: the code of u can now be found.
CreateRecord(ref, u) == [ref EXCEPT ![u] = [@ EXCEPT !.known = TRUE]]

Linked(entry, r) == [entry EXCEPT !.known = TRUE, !.referrer = r, !.status = "pending"]
Joined(entry) == [entry EXCEPT !.total = @ + 1]

Link(ref, referee, r) == [ref EXCEPT ![referee] = Linked(@, r), ![r] = Joined(@)]

\* reward_referrer_points returns early for a referee without a link, for a
\* defaulted link, and for a first loan that was already rewarded.
PaysReferrer(ref, referee, firstLoan) ==
  /\ ref[referee].status \in {"pending", "active"}
  /\ firstLoan => ~ref[referee].firstRewarded

ReferrerPoints(firstLoan) == IF firstLoan THEN FirstLoanPoints ELSE InstallmentPoints

\* Fault: any payment of a pending referee counts it as active.
ActivatesOnAny(ref, referee, firstLoan) == ref[referee].status = "pending"

\* Only the first loan of a referee activates the referral.
Activates(ref, referee, firstLoan) == firstLoan /\ ref[referee].status = "pending"

Rewarded(entry, firstLoan) ==
  [entry EXCEPT !.firstRewarded = @ \/ firstLoan,
                !.status = IF firstLoan /\ @ = "pending" THEN "active" ELSE @,
                !.generated = @ + ReferrerPoints(firstLoan)]

Earning(entry, points, activates) ==
  [entry EXCEPT !.active = IF activates THEN @ + 1 ELSE @, !.earned = @ + points]

CreditReferrer(ref, referee, firstLoan) ==
  IF PaysReferrer(ref, referee, firstLoan)
  THEN [ref EXCEPT
          ![referee] = Rewarded(@, firstLoan),
          ![ref[referee].referrer] = Earning(@, ReferrerPoints(firstLoan),
                                             Activates(ref, referee, firstLoan))]
  ELSE ref

LosingOne(entry) == [entry EXCEPT !.active = IF @ > 0 THEN @ - 1 ELSE @]

MarkReferralDefault(ref, referee) ==
  LET marked == [ref EXCEPT ![referee] = [@ EXCEPT !.status = "defaulted"]]
  IN CASE ref[referee].status \in {"none", "defaulted"} -> ref
       [] ref[referee].status = "pending" -> marked
       [] ref[referee].status = "active" ->
            [marked EXCEPT ![ref[referee].referrer] = LosingOne(@)]
=============================================================================
