----------------------------- MODULE Reputation -----------------------------
(***************************************************************************)
(* The credit history of each user (credit/reputation.move).  Entries are    *)
(* created on first use with zero counts, so a registry is a function.       *)
(***************************************************************************)
EXTENDS Config

HistoryType ==
  [requested : Nat, approved : Nat, repaid : Nat, defaulted : Nat,
   onTime : Nat, late : Nat]

ReputationType == [Users -> HistoryType]

NoHistory ==
  [u \in Users |-> [requested |-> 0, approved |-> 0, repaid |-> 0,
                    defaulted |-> 0, onTime |-> 0, late |-> 0]]

RecordRequest(rep, u) == [rep EXCEPT ![u].requested = @ + 1]
RecordApproval(rep, u) == [rep EXCEPT ![u].approved = @ + 1]
RecordDefault(rep, u) == [rep EXCEPT ![u].defaulted = @ + 1]

\* Fault: a late payment leaves no trace.
RecordPaymentIfOnTime(rep, u, onTime) ==
  IF onTime THEN [rep EXCEPT ![u].onTime = @ + 1] ELSE rep

RecordPayment(rep, u, onTime) ==
  IF onTime THEN [rep EXCEPT ![u].onTime = @ + 1]
            ELSE [rep EXCEPT ![u].late = @ + 1]

RecordFullRepayment(rep, u) == [rep EXCEPT ![u].repaid = @ + 1]
=============================================================================
