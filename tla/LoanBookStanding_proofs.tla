----------------------- MODULE LoanBookStanding_proofs -----------------------
(***************************************************************************)
(* The standing of the users, for every instance: the reputation, the fee    *)
(* states, the referral records and the points that other modules keep by    *)
(* hooks are what the tables of requests, loans and links say.              *)
(***************************************************************************)
EXTENDS LoanBookMoney_proofs

-----------------------------------------------------------------------------
(* The history of each borrower, in the tables and in the reputation.        *)

Asked(u) == {i \in DOMAIN requests : requests[i].borrower = u}
Owed(u) == {j \in DOMAIN loans : loans[j].borrower = u}
SettledAs(u, status) == {j \in Owed(u) : loans[j].status = status}
Payments(u) == SumFunction([j \in Owed(u) |-> loans[j].paid])

\* A step after which the tables show that many more requests, loans, payoffs,
\* defaults and payments of u.
Grown(u, requested, approved, repaid, defaulted, payments) ==
  /\ Cardinality(Asked(u)') = Cardinality(Asked(u)) + requested
  /\ Cardinality(Owed(u)') = Cardinality(Owed(u)) + approved
  /\ Cardinality(SettledAs(u, "repaid")') = Cardinality(SettledAs(u, "repaid")) + repaid
  /\ Cardinality(SettledAs(u, "defaulted")')
       = Cardinality(SettledAs(u, "defaulted")) + defaulted
  /\ Payments(u)' = Payments(u) + payments

LEMMA CountsType ==
  ASSUME TypeOK, NEW u
  PROVE  /\ IsFiniteSet(Asked(u)) /\ Cardinality(Asked(u)) \in Nat
         /\ IsFiniteSet(Owed(u)) /\ Cardinality(Owed(u)) \in Nat
         /\ \A status : /\ IsFiniteSet(SettledAs(u, status))
                        /\ Cardinality(SettledAs(u, status)) \in Nat
         /\ [j \in Owed(u) |-> loans[j].paid] \in [Owed(u) -> Nat]
         /\ Payments(u) \in Nat
<1>1. IsFiniteSet(DOMAIN requests) /\ IsFiniteSet(DOMAIN loans)
  <2>1. /\ DOMAIN requests = 1..Len(requests) /\ Len(requests) \in Int
        /\ DOMAIN loans = 1..Len(loans) /\ Len(loans) \in Int /\ 1 \in Int
    BY DEF TypeOK
  <2> QED
    BY <2>1, FS_Interval
<1>2. /\ Asked(u) \in SUBSET (DOMAIN requests) /\ Owed(u) \in SUBSET (DOMAIN loans)
      /\ \A status : SettledAs(u, status) \in SUBSET (DOMAIN loans)
  BY DEF Asked, Owed, SettledAs
<1>3. /\ IsFiniteSet(Asked(u)) /\ IsFiniteSet(Owed(u))
      /\ \A status : IsFiniteSet(SettledAs(u, status))
  BY <1>1, <1>2, FS_Subset
<1>4. [j \in Owed(u) |-> loans[j].paid] \in [Owed(u) -> Nat]
  BY Entries DEF Owed, LoanType
<1> QED
  BY <1>3, <1>4, FS_CardinalityType, SumFunctionType DEF Payments

\* Nothing of u is touched.
LEMMA GrownByNothing ==
  ASSUME TypeOK, NEW u, Asked(u)' = Asked(u), Owed(u)' = Owed(u),
         \A j \in Owed(u) : /\ loans'[j].status = loans[j].status
                            /\ loans'[j].paid = loans[j].paid
  PROVE  Grown(u, 0, 0, 0, 0, 0)
<1>1. /\ SettledAs(u, "repaid")' = SettledAs(u, "repaid")
      /\ SettledAs(u, "defaulted")' = SettledAs(u, "defaulted")
  BY DEF SettledAs
<1>2. Payments(u)' = Payments(u)
  <2>1. [j \in Owed(u)' |-> loans'[j].paid] = [j \in Owed(u) |-> loans[j].paid]
    OBVIOUS
  <2> QED
    BY <2>1 DEF Payments
<1>3. /\ Cardinality(Asked(u)) \in Nat /\ Cardinality(Owed(u)) \in Nat
      /\ Cardinality(SettledAs(u, "repaid")) \in Nat
      /\ Cardinality(SettledAs(u, "defaulted")) \in Nat /\ Payments(u) \in Nat
  BY CountsType
<1> QED
  BY <1>1, <1>2, <1>3 DEF Grown

LEMMA GrownByRequest ==
  ASSUME TypeOK, NEW r \in RequestType, requests' = Append(requests, r),
         loans' = loans, NEW u
  PROVE  Grown(u, IF u = r.borrower THEN 1 ELSE 0, 0, 0, 0, 0)
<1>1. /\ DOMAIN requests' = DOMAIN requests \cup {Len(requests) + 1}
      /\ Len(requests) + 1 \notin DOMAIN requests
      /\ requests'[Len(requests) + 1] = r
      /\ \A i \in DOMAIN requests : requests'[i] = requests[i]
  BY SeqAppend DEF TypeOK
<1>2. Owed(u)' = Owed(u)
  BY DEF Owed
<1>3. CASE u # r.borrower
  <2>1. Asked(u)' = Asked(u)
    BY <1>1, <1>3 DEF Asked
  <2> QED
    BY <1>2, <1>3, <2>1, GrownByNothing
<1>4. CASE u = r.borrower
  <2>1. Asked(u)' = Asked(u) \cup {Len(requests) + 1} /\ Len(requests) + 1 \notin Asked(u)
    BY <1>1, <1>4 DEF Asked
  <2>2. Cardinality(Asked(u)') = Cardinality(Asked(u)) + 1
    BY <2>1, CountsType, FS_AddElement
  <2>3. /\ SettledAs(u, "repaid")' = SettledAs(u, "repaid")
        /\ SettledAs(u, "defaulted")' = SettledAs(u, "defaulted")
        /\ Payments(u)' = Payments(u)
    BY <1>2 DEF SettledAs, Payments
  <2>4. /\ Cardinality(Owed(u)) \in Nat /\ Payments(u) \in Nat
        /\ Cardinality(SettledAs(u, "repaid")) \in Nat
        /\ Cardinality(SettledAs(u, "defaulted")) \in Nat
    BY CountsType
  <2> QED
    BY <1>2, <1>4, <2>2, <2>3, <2>4 DEF Grown
<1> QED
  BY <1>3, <1>4

LEMMA GrownByDecision ==
  ASSUME TypeOK, NEW i \in DOMAIN requests,
         NEW outcome \in {"approved", "rejected", "cancelled"},
         requests' = [requests EXCEPT ![i] = Decided(@, outcome)], NEW u
  PROVE  /\ Asked(u)' = Asked(u)
         /\ loans' = loans => Grown(u, 0, 0, 0, 0, 0)
<1>1. Asked(u)' = Asked(u)
  BY DecisionEntries DEF Asked
<1>2. loans' = loans => Owed(u)' = Owed(u)
  BY DEF Owed
<1> QED
  BY <1>1, <1>2, GrownByNothing

LEMMA GrownByLoan ==
  ASSUME TypeOK, NEW l \in LoanType, l.status = "active", l.paid = 0,
         loans' = Append(loans, l), NEW u, Asked(u)' = Asked(u)
  PROVE  Grown(u, 0, IF u = l.borrower THEN 1 ELSE 0, 0, 0, 0)
<1>0. PICK b : b = Len(loans) + 1
  OBVIOUS
<1>1. /\ DOMAIN loans' = DOMAIN loans \cup {b} /\ b \notin DOMAIN loans
      /\ loans'[b] = l /\ \A j \in DOMAIN loans : loans'[j] = loans[j]
  BY <1>0, SeqAppend DEF TypeOK
<1>2. CASE u # l.borrower
  <2>1. Owed(u)' = Owed(u)
    BY <1>1, <1>2 DEF Owed
  <2>2. \A j \in Owed(u) : loans'[j] = loans[j]
    BY <1>1 DEF Owed
  <2> QED
    BY <1>2, <2>1, <2>2, GrownByNothing
<1>3. CASE u = l.borrower
  <2>1. Owed(u)' = Owed(u) \cup {b} /\ b \notin Owed(u)
    BY <1>1, <1>3 DEF Owed
  <2>2. \A j \in Owed(u) : loans'[j] = loans[j]
    BY <1>1 DEF Owed
  <2>3. Cardinality(Owed(u)') = Cardinality(Owed(u)) + 1
    BY <2>1, CountsType, FS_AddElement
  <2>4. /\ SettledAs(u, "repaid")' = SettledAs(u, "repaid")
        /\ SettledAs(u, "defaulted")' = SettledAs(u, "defaulted")
    BY <1>1, <2>1, <2>2 DEF SettledAs
  <2>5. Payments(u)' = Payments(u)
    <3> DEFINE f == [j \in Owed(u) |-> loans[j].paid]
               g == [j \in Owed(u)' |-> loans'[j].paid]
    <3>1. f \in [Owed(u) -> Nat] /\ IsFiniteSet(Owed(u))
      BY CountsType
    <3>2. \A j \in Owed(u) : loans[j].paid \in Nat /\ g[j] = f[j]
      BY <2>1, <2>2, <3>1
    <3>3. g[b] = 0 /\ g \in [Owed(u)' -> Nat]
      <4>1. loans'[b].paid = 0 /\ b \in Owed(u)' /\ loans'[b].paid \in Nat
        BY <1>1, <2>1
      <4>2. \A j \in Owed(u)' : loans'[j].paid \in Nat
        <5> SUFFICES ASSUME NEW j \in Owed(u)' PROVE loans'[j].paid \in Nat
          OBVIOUS
        <5>1. CASE j = b
          BY <4>1, <5>1, Zenon
        <5>2. CASE j \in Owed(u)
          BY <2>2, <3>2, <5>2
        <5> QED
          BY <2>1, <5>1, <5>2
      <4> QED
        BY <4>1, <4>2
    <3> HIDE DEF f, g
    <3>4. SumFunction(g) = SumFunction(f) + g[b]
      BY <2>1, <3>1, <3>2, <3>3, SumFunctionExtends
    <3>5. Payments(u) = SumFunction(f) /\ Payments(u)' = SumFunction(g)
      BY DEF Payments, f, g
    <3> QED
      BY <3>3, <3>4, <3>5, CountsType
  <2>6. /\ Cardinality(Asked(u)) \in Nat /\ Cardinality(Owed(u)) \in Nat
        /\ Cardinality(SettledAs(u, "repaid")) \in Nat
        /\ Cardinality(SettledAs(u, "defaulted")) \in Nat /\ Payments(u) \in Nat
    BY CountsType
  <2> QED
    BY <1>3, <2>3, <2>4, <2>5, <2>6 DEF Grown
<1> QED
  BY <1>2, <1>3

LEMMA GrownByService ==
  ASSUME TypeOK, NEW i \in DOMAIN loans, NEW m \in LoanType,
         loans[i].status = "active", m.borrower = loans[i].borrower,
         requests' = requests, loans' = [loans EXCEPT ![i] = m], NEW u
  PROVE  IF u = m.borrower
         THEN Grown(u, 0, 0, IF m.status = "repaid" THEN 1 ELSE 0,
                    IF m.status = "defaulted" THEN 1 ELSE 0, m.paid - loans[i].paid)
         ELSE Grown(u, 0, 0, 0, 0, 0)
<1>1. /\ DOMAIN loans' = DOMAIN loans /\ loans'[i] = m
      /\ \A j \in DOMAIN loans : j # i => loans'[j] = loans[j]
  BY SeqReplace DEF TypeOK
<1>2. Asked(u)' = Asked(u) /\ Owed(u)' = Owed(u)
  BY <1>1 DEF Asked, Owed
<1>3. CASE u # m.borrower
  <2>1. \A j \in Owed(u) : loans'[j] = loans[j]
    BY <1>1, <1>3 DEF Owed
  <2> QED
    BY <1>2, <1>3, <2>1, GrownByNothing
<1>4. CASE u = m.borrower
  <2>1. i \in Owed(u) /\ \A j \in Owed(u) : j # i => loans'[j] = loans[j]
    BY <1>1, <1>4 DEF Owed
  <2>2. ASSUME NEW status \in {"repaid", "defaulted"}
        PROVE  Cardinality(SettledAs(u, status)')
                 = Cardinality(SettledAs(u, status)) + IF m.status = status THEN 1 ELSE 0
    <3>1. i \notin SettledAs(u, status) /\ Cardinality(SettledAs(u, status)) \in Nat
      BY CountsType DEF SettledAs
    <3>2. SettledAs(u, status)' = IF m.status = status THEN SettledAs(u, status) \cup {i}
                              ELSE SettledAs(u, status)
      BY <1>1, <1>2, <2>1, <3>1 DEF SettledAs
    <3>3. IsFiniteSet(SettledAs(u, status))
      BY CountsType
    <3>4. Cardinality(SettledAs(u, status) \cup {i}) = Cardinality(SettledAs(u, status)) + 1
      BY <3>1, <3>3, FS_AddElement
    <3>5. CASE m.status = status
      BY <3>2, <3>4, <3>5
    <3>6. CASE m.status # status
      BY <3>1, <3>2, <3>6
    <3> QED
      BY <3>5, <3>6
  <2>3. Payments(u)' = Payments(u) + (m.paid - loans[i].paid)
    <3> DEFINE f == [j \in Owed(u) |-> loans[j].paid]
               g == [j \in Owed(u)' |-> loans'[j].paid]
    <3>1. f \in [Owed(u) -> Nat] /\ IsFiniteSet(Owed(u)) /\ f[i] = loans[i].paid
      BY <2>1, CountsType
    <3>2. \A j \in Owed(u) : j # i => loans[j].paid \in Nat /\ g[j] = f[j]
      BY <1>2, <2>1, <3>1
    <3>3. m.paid \in Nat
      BY DEF LoanType
    <3>4. g[i] = m.paid /\ g \in [Owed(u) -> Nat]
      BY <1>1, <1>2, <2>1, <3>2, <3>3
    <3> HIDE DEF f, g
    <3>5. SumFunction(g) = SumFunction(f) - f[i] + g[i]
      BY <2>1, <3>1, <3>2, <3>4, SumFunctionChanges
    <3>6. Payments(u) = SumFunction(f) /\ Payments(u)' = SumFunction(g)
      BY DEF Payments, f, g
    <3>7. loans[i].paid \in Nat
      BY Entries DEF LoanType
    <3> QED
      BY <3>1, <3>3, <3>4, <3>5, <3>6, <3>7, CountsType
  <2>4. Cardinality(Asked(u)) \in Nat /\ Cardinality(Owed(u)) \in Nat
    BY CountsType
  <2> QED
    BY <1>2, <1>4, <2>2, <2>3, <2>4 DEF Grown
<1> QED
  BY <1>3, <1>4

\* History h is history k with that much more in it.
Adds(h, k, requested, approved, repaid, defaulted, onTime, late) ==
  /\ h.requested = k.requested + requested /\ h.approved = k.approved + approved
  /\ h.repaid = k.repaid + repaid /\ h.defaulted = k.defaulted + defaulted
  /\ h.onTime = k.onTime + onTime /\ h.late = k.late + late

LEMMA AddsNothing ==
  ASSUME NEW h \in HistoryType
  PROVE  Adds(h, h, 0, 0, 0, 0, 0, 0)
BY DEF Adds, HistoryType

\* What the hooks of the reputation write.
LEMMA HistoryFacts ==
  ASSUME NEW rep \in ReputationType, NEW u \in Users, NEW onTime \in BOOLEAN
  PROVE  /\ Adds(RecordRequest(rep, u)[u], rep[u], 1, 0, 0, 0, 0, 0)
         /\ Adds(RecordApproval(rep, u)[u], rep[u], 0, 1, 0, 0, 0, 0)
         /\ Adds(RecordFullRepayment(rep, u)[u], rep[u], 0, 0, 1, 0, 0, 0)
         /\ Adds(RecordDefault(rep, u)[u], rep[u], 0, 0, 0, 1, 0, 0)
         /\ Adds(RecordPayment(rep, u, onTime)[u], rep[u], 0, 0, 0, 0,
                 IF onTime THEN 1 ELSE 0, IF onTime THEN 0 ELSE 1)
         /\ \A v \in Users : v # u =>
              /\ RecordRequest(rep, u)[v] = rep[v]
              /\ RecordApproval(rep, u)[v] = rep[v]
              /\ RecordFullRepayment(rep, u)[v] = rep[v]
              /\ RecordDefault(rep, u)[v] = rep[v]
              /\ RecordPayment(rep, u, onTime)[v] = rep[v]
<1> USE DEF ReputationType, HistoryType, Adds
<1>1. /\ Adds(RecordRequest(rep, u)[u], rep[u], 1, 0, 0, 0, 0, 0)
      /\ \A v \in Users : v # u => RecordRequest(rep, u)[v] = rep[v]
  BY DEF RecordRequest
<1>2. /\ Adds(RecordApproval(rep, u)[u], rep[u], 0, 1, 0, 0, 0, 0)
      /\ \A v \in Users : v # u => RecordApproval(rep, u)[v] = rep[v]
  BY DEF RecordApproval
<1>3. /\ Adds(RecordFullRepayment(rep, u)[u], rep[u], 0, 0, 1, 0, 0, 0)
      /\ \A v \in Users : v # u => RecordFullRepayment(rep, u)[v] = rep[v]
  BY DEF RecordFullRepayment
<1>4. /\ Adds(RecordDefault(rep, u)[u], rep[u], 0, 0, 0, 1, 0, 0)
      /\ \A v \in Users : v # u => RecordDefault(rep, u)[v] = rep[v]
  BY DEF RecordDefault
<1>5. /\ Adds(RecordPayment(rep, u, onTime)[u], rep[u], 0, 0, 0, 0,
              IF onTime THEN 1 ELSE 0, IF onTime THEN 0 ELSE 1)
      /\ \A v \in Users : v # u => RecordPayment(rep, u, onTime)[v] = rep[v]
  BY DEF RecordPayment
<1> HIDE DEF ReputationType, HistoryType, Adds
<1> QED
  BY <1>1, <1>2, <1>3, <1>4, <1>5

\* What a payment writes, the last one included.
PaymentRecorded(rep, u, onTime, final) ==
  LET recorded == RecordPayment(rep, u, onTime)
  IN IF final THEN RecordFullRepayment(recorded, u) ELSE recorded

LEMMA PaymentFacts ==
  ASSUME NEW rep \in ReputationType, NEW u \in Users, NEW onTime \in BOOLEAN,
         NEW final \in BOOLEAN
  PROVE  /\ Adds(PaymentRecorded(rep, u, onTime, final)[u], rep[u], 0, 0,
                 IF final THEN 1 ELSE 0, 0,
                 IF onTime THEN 1 ELSE 0, IF onTime THEN 0 ELSE 1)
         /\ \A v \in Users : v # u => PaymentRecorded(rep, u, onTime, final)[v] = rep[v]
<1> DEFINE r1 == RecordPayment(rep, u, onTime)
           r2 == RecordFullRepayment(r1, u)
<1>1. /\ r1 \in ReputationType
      /\ Adds(r1[u], rep[u], 0, 0, 0, 0, IF onTime THEN 1 ELSE 0, IF onTime THEN 0 ELSE 1)
      /\ \A v \in Users : v # u => r1[v] = rep[v]
  BY ReputationStep, HistoryFacts
<1> HIDE DEF r1
<1>2. /\ Adds(r2[u], r1[u], 0, 0, 1, 0, 0, 0)
      /\ \A v \in Users : v # u => r2[v] = r1[v]
  BY <1>1, HistoryFacts
<1> HIDE DEF r2
<1>3. PaymentRecorded(rep, u, onTime, final) = IF final THEN r2 ELSE r1
  BY DEF PaymentRecorded, r1, r2
<1>4. rep[u] \in HistoryType
  BY DEF ReputationType
<1>5. CASE final
  <2>1. Adds(r2[u], rep[u], 0, 0, 1, 0, IF onTime THEN 1 ELSE 0,
             IF onTime THEN 0 ELSE 1)
    BY <1>1, <1>2, <1>4 DEF Adds, HistoryType
  <2> QED
    BY <1>1, <1>2, <1>3, <1>5, <2>1
<1>6. CASE ~final
  BY <1>1, <1>3, <1>6
<1> QED
  BY <1>5, <1>6

-----------------------------------------------------------------------------
(* The two move together.                                                   *)

Matches(u) ==
  /\ reputation[u].requested = Cardinality(Asked(u))
  /\ reputation[u].approved = Cardinality(Owed(u))
  /\ reputation[u].repaid = Cardinality(SettledAs(u, "repaid"))
  /\ reputation[u].defaulted = Cardinality(SettledAs(u, "defaulted"))
  /\ reputation[u].onTime + reputation[u].late = Payments(u)

LEMMA MatchesIsReputation == ReputationMatchesBook <=> \A u \in Users : Matches(u)
BY DEF ReputationMatchesBook, Matches, Asked, Owed, SettledAs, Payments

LEMMA MatchesStep ==
  ASSUME TypeOK, NEW u \in Users, Matches(u),
         NEW requested \in Nat, NEW approved \in Nat, NEW repaid \in Nat,
         NEW defaulted \in Nat, NEW onTime \in Nat, NEW late \in Nat,
         Grown(u, requested, approved, repaid, defaulted, onTime + late),
         Adds(reputation'[u], reputation[u], requested, approved, repaid, defaulted,
              onTime, late)
  PROVE  Matches(u)'
<1>1. reputation[u] \in HistoryType
  BY DEF TypeOK, ReputationType
<1> QED
  BY <1>1 DEF Matches, Grown, Adds, HistoryType

LEMMA MatchesStays ==
  ASSUME TypeOK, NEW u \in Users, Matches(u), Grown(u, 0, 0, 0, 0, 0),
         reputation'[u] = reputation[u]
  PROVE  Matches(u)'
<1>1. reputation[u] \in HistoryType
  BY DEF TypeOK, ReputationType
<1>2. Adds(reputation'[u], reputation[u], 0, 0, 0, 0, 0, 0)
  BY <1>1, AddsNothing
<1>3. 0 \in Nat /\ 0 + 0 = 0
  OBVIOUS
<1> QED
  BY <1>2, <1>3, MatchesStep

\* The entry points, as far as the tables and the reputation are concerned.
LEMMA OpenHistory ==
  ASSUME TypeOK, NEW u \in Users, Borrow(u)
  PROVE  \E r \in RequestType :
           /\ r.borrower = u /\ requests' = Append(requests, r) /\ loans' = loans
           /\ reputation' = RecordRequest(reputation, u)
           /\ rewards' = RewardRequest(rewards, u)
           /\ UNCHANGED <<referral, fees>>
<1>1. PICK amount \in Amounts, tenor \in Tenors :
        \/ RequestLoan(u, amount, tenor)
        \/ \E p \in DOMAIN Profiles : RequestProfiledLoan(u, p, amount, tenor)
        \/ \E p \in DOMAIN Profiles, collateral \in Collaterals :
             RequestCollateralizedLoan(u, p, amount, collateral, tenor)
  BY DEF Borrow
<1>2. amount \in Nat /\ tenor \in Nat /\ 0 \in Nat /\ Collaterals \subseteq Nat
  BY LoanBookAssumption
<1>3. ASSUME NEW p \in DOMAIN Profiles \cup {Unspecified}, NEW collateral \in Nat,
             OpenRequest(u, p, amount, collateral, tenor)
      PROVE  \E r \in RequestType :
               /\ r.borrower = u /\ requests' = Append(requests, r) /\ loans' = loans
               /\ reputation' = RecordRequest(reputation, u)
               /\ rewards' = RewardRequest(rewards, u)
               /\ UNCHANGED <<referral, fees>>
  <2> DEFINE r == [borrower |-> u, profile |-> p, amount |-> amount,
                   collateral |-> collateral, tenor |-> tenor, status |-> "pending"]
  <2>1. r \in RequestType /\ r.borrower = u
    BY <1>2 DEF RequestType
  <2> QED
    BY <1>3, <2>1 DEF OpenRequest
<1> QED
  BY <1>1, <1>2, <1>3
  DEF RequestLoan, RequestProfiledLoan, RequestCollateralizedLoan

LEMMA ReputationStepMatches ==
  ASSUME TypeOK, \A u \in Users : Matches(u), [Next]_vars, NEW v \in Users
  PROVE  Matches(v)'
<1>1. Matches(v) /\ reputation \in ReputationType
  BY DEF TypeOK
<1>2. ASSUME UNCHANGED book, reputation' = reputation
      PROVE  Matches(v)'
  <2>1. Asked(v)' = Asked(v) /\ Owed(v)' = Owed(v) /\ loans' = loans
    BY <1>2 DEF book, Asked, Owed
  <2> QED
    BY <1>1, <1>2, <2>1, GrownByNothing, MatchesStays
<1>3. ASSUME NEW u \in Users, Borrow(u)
      PROVE  Matches(v)'
  <2>1. PICK r \in RequestType :
          /\ r.borrower = u /\ requests' = Append(requests, r) /\ loans' = loans
          /\ reputation' = RecordRequest(reputation, u)
    BY <1>3, OpenHistory
  <2>2. Grown(v, IF v = u THEN 1 ELSE 0, 0, 0, 0, 0)
    BY <2>1, GrownByRequest
  <2>3. CASE v # u
    BY <1>1, <2>1, <2>2, <2>3, HistoryFacts, MatchesStays
  <2>4. CASE v = u
    <3>1. Adds(reputation'[v], reputation[v], 1, 0, 0, 0, 0, 0)
      BY <1>1, <2>1, <2>4, HistoryFacts
    <3>2. Grown(v, 1, 0, 0, 0, 0 + 0) /\ 0 \in Nat /\ 1 \in Nat
      BY <2>2, <2>4
    <3> QED
      BY <1>1, <3>1, <3>2, MatchesStep
  <2> QED
    BY <2>3, <2>4
<1>4. ASSUME NEW i \in DOMAIN requests, NEW outcome \in {"rejected", "cancelled"},
             CloseRequest(i, outcome)
      PROVE  Matches(v)'
  <2>1. Grown(v, 0, 0, 0, 0, 0) /\ reputation' = reputation
    BY <1>4, GrownByDecision DEF CloseRequest, standing
  <2> QED
    BY <1>1, <2>1, MatchesStays
<1>5. ASSUME NEW i \in DOMAIN requests, NEW apr \in Aprs,
             NEW installment \in Installments, NEW grace \in Graces,
             ApproveRequest(i, apr, installment, grace)
      PROVE  Matches(v)'
  <2> DEFINE l == NewLoan(i, apr, installment, grace)
  <2>0. PICK u \in Users : u = requests[i].borrower
    BY Entries DEF RequestType
  <2>1. /\ l \in LoanType /\ l.status = "active" /\ l.paid = 0 /\ l.borrower = u
    <3>1. l \in LoanType
      BY LoanBookAssumption, NewLoanType
    <3> QED
      BY <2>0, <3>1 DEF NewLoan
  <2>2. /\ requests' = [requests EXCEPT ![i] = Decided(@, "approved")]
        /\ loans' = Append(loans, l) /\ reputation' = RecordApproval(reputation, u)
    BY <1>5, <2>0 DEF ApproveRequest
  <2> HIDE DEF l
  <2>3. Grown(v, 0, IF v = u THEN 1 ELSE 0, 0, 0, 0)
    <3>1. Asked(v)' = Asked(v)
      BY <2>2, GrownByDecision
    <3> QED
      BY <2>1, <2>2, <3>1, GrownByLoan
  <2>4. CASE v # u
    BY <1>1, <2>2, <2>3, <2>4, HistoryFacts, MatchesStays
  <2>5. CASE v = u
    <3>1. Adds(reputation'[v], reputation[v], 0, 1, 0, 0, 0, 0)
      BY <1>1, <2>2, <2>5, HistoryFacts
    <3>2. Grown(v, 0, 1, 0, 0, 0 + 0) /\ 0 \in Nat /\ 1 \in Nat
      BY <2>3, <2>5
    <3> QED
      BY <1>1, <3>1, <3>2, MatchesStep
  <2> QED
    BY <2>4, <2>5
<1>6. ASSUME NEW i \in DOMAIN loans, RepayInstallment(i)
      PROVE  Matches(v)'
  <2> DEFINE m == AfterInstallment(loans[i])
  <2>u. PICK u \in Users : u = loans[i].borrower
    BY Entries DEF LoanType
  <2>o. PICK onTime \in BOOLEAN : onTime = (now <= loans[i].due + loans[i].grace)
    <3>1. now \in Int /\ loans[i].due + loans[i].grace \in Int
      BY Entries DEF TypeOK, LoanType
    <3>2. (now <= loans[i].due + loans[i].grace) \in BOOLEAN
      BY <3>1
    <3> QED
      BY <3>2, Zenon
  <2>f. PICK final \in BOOLEAN : final = (loans[i].paid + 1 = loans[i].total)
    OBVIOUS
  <2>0. /\ u = loans[i].borrower /\ onTime = (now <= loans[i].due + loans[i].grace)
        /\ final = (loans[i].paid + 1 = loans[i].total)
    BY <2>u, <2>o, <2>f
  <2>1. /\ loans[i].status = "active" /\ requests' = requests
        /\ loans' = [loans EXCEPT ![i] = m]
        /\ reputation' = PaymentRecorded(reputation, u, onTime, final)
    BY <1>6, <2>0 DEF RepayInstallment, PaymentRecorded
  <2>2. /\ m \in LoanType /\ m.borrower = u /\ m.paid - loans[i].paid = 1
        /\ m.status = IF final THEN "repaid" ELSE "active"
    <3>1. loans[i] \in LoanType /\ loans[i].paid \in Nat
      BY Entries DEF LoanType
    <3>2. /\ m.paid = loans[i].paid + 1 /\ m.borrower = loans[i].borrower
          /\ m.status = IF loans[i].paid + 1 = loans[i].total THEN "repaid" ELSE "active"
      BY <2>1, <3>1, InstallmentFacts DEF SameTerms
    <3> HIDE DEF m
    <3>3. m.status = IF final THEN "repaid" ELSE "active"
      BY <2>0, <3>2, Zenon
    <3>4. m \in LoanType
      BY <3>1, AfterInstallmentType DEF m
    <3> QED
      BY <2>0, <3>1, <3>2, <3>3, <3>4
  <2> HIDE DEF m
  <2>3. IF v = u THEN Grown(v, 0, 0, IF final THEN 1 ELSE 0, 0, 1)
        ELSE Grown(v, 0, 0, 0, 0, 0)
    <3>1. m.borrower = loans[i].borrower
      BY <2>0, <2>2
    <3>2. IF v = m.borrower
          THEN Grown(v, 0, 0, IF m.status = "repaid" THEN 1 ELSE 0,
                     IF m.status = "defaulted" THEN 1 ELSE 0, m.paid - loans[i].paid)
          ELSE Grown(v, 0, 0, 0, 0, 0)
      BY <2>1, <2>2, <3>1, GrownByService
    <3> QED
      BY <2>2, <3>2
  <2>4. CASE v # u
    BY <1>1, <2>1, <2>3, <2>4, PaymentFacts, MatchesStays
  <2>5. CASE v = u
    <3> DEFINE n == IF final THEN 1 ELSE 0
               p == IF onTime THEN 1 ELSE 0
               q == IF onTime THEN 0 ELSE 1
    <3>1. n \in Nat /\ p \in Nat /\ q \in Nat /\ p + q = 1 /\ 0 \in Nat
      OBVIOUS
    <3>2. Adds(reputation'[v], reputation[v], 0, 0, n, 0, p, q)
      BY <1>1, <2>1, <2>5, PaymentFacts
    <3>3. Grown(v, 0, 0, n, 0, p + q)
      BY <2>3, <2>5, <3>1
    <3> HIDE DEF n, p, q
    <3> QED
      BY <1>1, <3>1, <3>2, <3>3, MatchesStep
  <2> QED
    BY <2>4, <2>5
<1>7. ASSUME NEW i \in DOMAIN loans, MarkDefault(i)
      PROVE  Matches(v)'
  <2> DEFINE m == AfterDefault(loans[i])
  <2>0. PICK u \in Users : u = loans[i].borrower
    BY Entries DEF LoanType
  <2>1. /\ loans[i].status = "active" /\ requests' = requests
        /\ loans' = [loans EXCEPT ![i] = m]
        /\ reputation' = RecordDefault(reputation, u)
    BY <1>7, <2>0 DEF MarkDefault
  <2>2. /\ m \in LoanType /\ m.borrower = u /\ m.paid - loans[i].paid = 0
        /\ m.status = "defaulted"
    <3>1. loans[i] \in LoanType /\ loans[i].paid \in Nat
      BY Entries DEF LoanType
    <3> QED
      BY <2>0, <3>1, AfterDefaultType, DefaultFacts DEF SameTerms
  <2> HIDE DEF m
  <2>3. IF v = u THEN Grown(v, 0, 0, 0, 1, 0) ELSE Grown(v, 0, 0, 0, 0, 0)
    <3>1. m.borrower = loans[i].borrower
      BY <2>0, <2>2
    <3>2. IF v = m.borrower
          THEN Grown(v, 0, 0, IF m.status = "repaid" THEN 1 ELSE 0,
                     IF m.status = "defaulted" THEN 1 ELSE 0, m.paid - loans[i].paid)
          ELSE Grown(v, 0, 0, 0, 0, 0)
      BY <2>1, <2>2, <3>1, GrownByService
    <3> QED
      BY <2>2, <3>2
  <2>4. CASE v # u
    BY <1>1, <2>1, <2>3, <2>4, HistoryFacts, MatchesStays
  <2>5. CASE v = u
    <3>1. Adds(reputation'[v], reputation[v], 0, 0, 0, 1, 0, 0)
      BY <1>1, <2>1, <2>5, HistoryFacts
    <3>2. Grown(v, 0, 0, 0, 1, 0 + 0) /\ 0 \in Nat /\ 1 \in Nat
      BY <2>3, <2>5
    <3> QED
      BY <1>1, <3>1, <3>2, MatchesStep
  <2> QED
    BY <2>4, <2>5
<1>8. CASE Administer \/ Tick \/ UNCHANGED vars
  BY <1>2, <1>8 DEF Administer, DepositLiquidity, WithdrawSeizedCollateral, SetPause,
                    Tick, vars, book, standing
<1>9. ASSUME NEW u \in Users, Refer(u)
      PROVE  Matches(v)'
  BY <1>2, <1>9 DEF Refer, GenerateCode, ApplyCode, RewardReferrer, book
<1> QED
  BY <1>3, <1>4, <1>5, <1>6, <1>7, <1>8, <1>9
  DEF Next, Decide, RejectRequest, CancelRequest, Service

LEMMA HistoryStarts == Init => ReputationMatchesBook
<1> SUFFICES ASSUME Init, NEW u \in Users PROVE Matches(u)
  BY MatchesIsReputation
<1>1. /\ Asked(u) = {} /\ Owed(u) = {} /\ SettledAs(u, "repaid") = {}
      /\ SettledAs(u, "defaulted") = {} /\ DOMAIN [j \in Owed(u) |-> loans[j].paid] = {}
  BY DEF Init, Asked, Owed, SettledAs
<1>2. reputation[u] = [requested |-> 0, approved |-> 0, repaid |-> 0,
                       defaulted |-> 0, onTime |-> 0, late |-> 0]
  BY DEF Init, NoHistory
<1>3. /\ Cardinality(Asked(u)) = 0 /\ Cardinality(Owed(u)) = 0
      /\ Cardinality(SettledAs(u, "repaid")) = 0
      /\ Cardinality(SettledAs(u, "defaulted")) = 0
  BY <1>1, FS_EmptySet
<1>4. Payments(u) = 0
  BY <1>1, SumFunctionEmpty DEF Payments
<1>5. /\ reputation[u].requested = 0 /\ reputation[u].approved = 0
      /\ reputation[u].repaid = 0 /\ reputation[u].defaulted = 0
      /\ reputation[u].onTime + reputation[u].late = 0
  BY <1>2
<1> QED
  BY <1>3, <1>4, <1>5 DEF Matches

LEMMA HistoryStep == TypeOK /\ ReputationMatchesBook /\ [Next]_vars => ReputationMatchesBook'
<1> SUFFICES ASSUME TypeOK, ReputationMatchesBook, [Next]_vars
             PROVE  ReputationMatchesBook'
  OBVIOUS
<1>1. \A u \in Users : Matches(u)
  BY MatchesIsReputation
<1>2. \A u \in Users : Matches(u)'
  BY <1>1, ReputationStepMatches
<1>3. (ReputationMatchesBook <=> \A u \in Users : Matches(u))'
  BY MatchesIsReputation, PTL
<1> QED
  BY <1>2, <1>3

\* The reputation a credit decision reads is the history in the tables, for any
\* order of requests, approvals, payments and defaults.
THEOREM ReputationMatchesBookAlways == Spec => []ReputationMatchesBook
<1>1. Init => ReputationMatchesBook
  BY HistoryStarts
<1>2. TypeOK /\ ReputationMatchesBook /\ [Next]_vars => ReputationMatchesBook'
  BY HistoryStep
<1> QED
  BY <1>1, <1>2, TypeCorrect, PTL DEF Spec

-----------------------------------------------------------------------------
(* Fee states and loans.                                                    *)

\* A step that keeps the fees, the borrowers of the loans, and late payments.
FeesAside ==
  /\ fees' = fees /\ DOMAIN loans' = DOMAIN loans /\ Len(loans') = Len(loans)
  /\ \A j \in DOMAIN loans : loans'[j].borrower = loans[j].borrower
  /\ \A u \in Users : reputation'[u].late >= reputation[u].late

LEMMA FeesAsideMatch ==
  ASSUME TypeOK, TypeOK', FeesMatchLoans, FeesAside
  PROVE  FeesMatchLoans'
<1>1. Len(fees') = Len(loans') /\ DOMAIN fees' = DOMAIN fees /\ DOMAIN fees = DOMAIN loans
  BY DEF FeesAside, FeesMatchLoans, TypeOK, FeesType
<1>2. \A u \in Users : reputation[u].late \in Nat /\ reputation'[u].late \in Nat
  BY DEF TypeOK, ReputationType, HistoryType
<1> SUFFICES ASSUME NEW j \in DOMAIN fees
             PROVE  /\ fees'[j].borrower = loans'[j].borrower
                    /\ fees'[j].lateDue > 0 => reputation'[loans'[j].borrower].late > 0
  BY <1>1 DEF FeesMatchLoans
<1>3. /\ fees'[j] = fees[j] /\ loans'[j].borrower = loans[j].borrower
      /\ loans[j].borrower \in Users
  BY <1>1, Entries DEF FeesAside, LoanType
<1>4. /\ fees[j].borrower = loans[j].borrower
      /\ fees[j].lateDue > 0 => reputation[loans[j].borrower].late > 0
  BY DEF FeesMatchLoans
<1> QED
  BY <1>2, <1>3, <1>4 DEF FeesAside

\* What assessing a fee does to the states.
LEMMA OriginationAppends ==
  ASSUME NEW fs \in FeesType, NEW loan, loan = Len(fs) + 1, NEW u \in Users,
         NEW principal, NEW balance
  PROVE  LET gs == AssessOriginationFee(fs, loan, u, principal, balance)
         IN /\ Len(gs) = Len(fs) + 1 /\ DOMAIN gs = 1..(Len(fs) + 1)
            /\ \A j \in DOMAIN fs : gs[j] = fs[j]
            /\ gs[loan].borrower = u /\ gs[loan].lateDue = 0
<1> DEFINE e == [borrower |-> u, originationDue |-> 0, lateDue |-> 0, paid |-> 0]
           os == Append(fs, e)
           x == OwingOrigination(os[loan], OriginationFee(principal, balance))
<1>1. fs \in Seq(FeeStateType) /\ e \in FeeStateType /\ e.borrower = u /\ e.lateDue = 0
  BY DEF FeesType, FeeStateType
<1>2. loan \notin DOMAIN fs
  BY <1>1
<1> HIDE DEF e
<1>3. /\ os \in Seq(FeeStateType) /\ Len(os) = Len(fs) + 1
      /\ DOMAIN os = 1..(Len(fs) + 1) /\ os[loan] = e
      /\ \A j \in DOMAIN fs : os[j] = fs[j]
  BY <1>1, SeqAppend
<1>4. AssessOriginationFee(fs, loan, u, principal, balance) = [os EXCEPT ![loan] = x]
  BY <1>2 DEF AssessOriginationFee, StateFor, e
<1>5. x.borrower = u /\ x.lateDue = 0
  BY <1>1, <1>3, Zenon DEF OwingOrigination, FeeStateType
<1> HIDE DEF os, x
<1>6. Len(fs) \in Nat /\ DOMAIN fs = 1..Len(fs)
  BY <1>1
<1>7. /\ DOMAIN [os EXCEPT ![loan] = x] = 1..(Len(fs) + 1)
      /\ [os EXCEPT ![loan] = x][loan] = x
      /\ \A j \in DOMAIN fs : [os EXCEPT ![loan] = x][j] = fs[j]
  BY <1>2, <1>3, <1>6
<1>8. Len([os EXCEPT ![loan] = x]) = Len(fs) + 1
  BY <1>6, <1>7
<1> QED
  BY <1>4, <1>5, <1>7, <1>8

LEMMA LateFeeReplaces ==
  ASSUME NEW fs \in FeesType, NEW loan \in DOMAIN fs, NEW u, NEW installment, NEW balance
  PROVE  LET gs == AssessLateFee(fs, loan, u, installment, balance)
         IN /\ Len(gs) = Len(fs) /\ DOMAIN gs = DOMAIN fs
            /\ gs[loan].borrower = fs[loan].borrower
            /\ \A j \in DOMAIN fs : j # loan => gs[j] = fs[j]
<1> DEFINE x == OwingLate(fs[loan], LateFee(installment, balance))
<1>1. fs \in Seq(FeeStateType) /\ fs[loan] \in FeeStateType
  BY DEF FeesType
<1>2. x.borrower = fs[loan].borrower
  BY <1>1, Zenon DEF OwingLate, FeeStateType
<1>3. AssessLateFee(fs, loan, u, installment, balance) = [fs EXCEPT ![loan] = x]
  BY DEF AssessLateFee, StateFor
<1> HIDE DEF x
<1>4. /\ DOMAIN [fs EXCEPT ![loan] = x] = DOMAIN fs /\ [fs EXCEPT ![loan] = x][loan] = x
      /\ \A j \in DOMAIN fs : j # loan => [fs EXCEPT ![loan] = x][j] = fs[j]
  OBVIOUS
<1>5. Len([fs EXCEPT ![loan] = x]) = Len(fs)
  BY <1>1, <1>4
<1> QED
  BY <1>2, <1>3, <1>4, <1>5

\* The hooks that are no payment leave the late payments alone.
LEMMA LateKept ==
  ASSUME NEW rep \in ReputationType, NEW u \in Users
  PROVE  \A v \in Users : /\ RecordRequest(rep, u)[v].late = rep[v].late
                          /\ RecordApproval(rep, u)[v].late = rep[v].late
                          /\ RecordDefault(rep, u)[v].late = rep[v].late
BY Zenon DEF ReputationType, HistoryType, RecordRequest, RecordApproval, RecordDefault

LEMMA FeesMatchStep ==
  ASSUME TypeOK, TypeOK', FeesMatchLoans, [Next]_vars
  PROVE  FeesMatchLoans'
<1>1. /\ reputation \in ReputationType /\ fees \in FeesType
      /\ \A v \in Users : reputation[v].late \in Nat
      /\ DOMAIN fees = DOMAIN loans /\ Len(fees) = Len(loans)
      /\ DOMAIN loans = 1..Len(loans) /\ Len(loans) \in Nat
  BY DEF TypeOK, FeesType, FeesMatchLoans, ReputationType, HistoryType
<1>2. ASSUME fees' = fees, loans' = loans,
             \A v \in Users : reputation'[v].late = reputation[v].late
      PROVE  FeesMatchLoans'
  BY <1>1, <1>2, FeesAsideMatch DEF FeesAside
<1>3. ASSUME NEW u \in Users, Borrow(u)
      PROVE  FeesMatchLoans'
  <2>1. /\ fees' = fees /\ loans' = loans
        /\ reputation' = RecordRequest(reputation, u)
    BY <1>3, OpenHistory
  <2>2. \A v \in Users : reputation'[v].late = reputation[v].late
    BY <1>1, <2>1, LateKept
  <2> QED
    BY <1>2, <2>1, <2>2
<1>4. ASSUME NEW i \in DOMAIN requests, NEW outcome, CloseRequest(i, outcome)
      PROVE  FeesMatchLoans'
  BY <1>2, <1>4 DEF CloseRequest, standing
<1>5. ASSUME NEW i \in DOMAIN requests, NEW apr \in Aprs,
             NEW installment \in Installments, NEW grace \in Graces,
             ApproveRequest(i, apr, installment, grace)
      PROVE  FeesMatchLoans'
  <2> DEFINE l == NewLoan(i, apr, installment, grace)
             b == Len(loans) + 1
  <2>0. PICK u \in Users : u = requests[i].borrower
    BY Entries DEF RequestType
  <2>1. l \in LoanType /\ l.borrower = u
    <3>1. l \in LoanType
      BY LoanBookAssumption, NewLoanType
    <3> QED
      BY <2>0, <3>1 DEF NewLoan
  <2>2. /\ loans' = Append(loans, l) /\ reputation' = RecordApproval(reputation, u)
        /\ fees' = AssessOriginationFee(fees, b, u, requests[i].amount,
                                        TotalBalance(lend, u))
    BY <1>5, <2>0 DEF ApproveRequest
  <2>3. /\ Len(loans') = b /\ DOMAIN loans' = 1..b /\ loans'[b] = l
        /\ \A j \in DOMAIN loans : loans'[j] = loans[j]
    BY <2>1, <2>2, SeqAppend DEF TypeOK
  <2>4. /\ Len(fees') = b /\ DOMAIN fees' = 1..b
        /\ \A j \in DOMAIN fees : fees'[j] = fees[j]
        /\ fees'[b].borrower = u /\ fees'[b].lateDue = 0
    BY <1>1, <2>2, OriginationAppends
  <2> HIDE DEF l
  <2>5. \A v \in Users : reputation'[v].late = reputation[v].late
    BY <1>1, <2>2, LateKept
  <2>6. ASSUME NEW j \in 1..b
        PROVE  /\ fees'[j].borrower = loans'[j].borrower
               /\ fees'[j].lateDue > 0 => reputation'[loans'[j].borrower].late > 0
    <3>1. CASE j = b
      BY <2>1, <2>3, <2>4, <3>1
    <3>2. CASE j # b
      <4>1. j \in DOMAIN fees /\ j \in DOMAIN loans
        BY <1>1, <3>2
      <4>2. loans[j].borrower \in Users
        BY <4>1, Entries DEF LoanType
      <4>3. /\ fees[j].borrower = loans[j].borrower
            /\ fees[j].lateDue > 0 => reputation[loans[j].borrower].late > 0
        BY <4>1 DEF FeesMatchLoans
      <4>4. fees'[j] = fees[j] /\ loans'[j] = loans[j]
        BY <2>3, <2>4, <4>1
      <4> QED
        BY <2>5, <4>2, <4>3, <4>4
    <3> QED
      BY <3>1, <3>2
  <2> QED
    BY <2>3, <2>4, <2>6 DEF FeesMatchLoans
<1>6. ASSUME NEW i \in DOMAIN loans, RepayInstallment(i)
      PROVE  FeesMatchLoans'
  <2> DEFINE m == AfterInstallment(loans[i])
  <2>u. PICK u \in Users : u = loans[i].borrower
    BY Entries DEF LoanType
  <2>o. PICK onTime \in BOOLEAN : onTime = (now <= loans[i].due + loans[i].grace)
    <3>1. now \in Int /\ loans[i].due + loans[i].grace \in Int
      BY SMTT(30), Entries DEF TypeOK, LoanType
    <3>2. (now <= loans[i].due + loans[i].grace) \in BOOLEAN
      BY <3>1
    <3> QED
      BY <3>2, Zenon
  <2>f. PICK final \in BOOLEAN : final = (loans[i].paid + 1 = loans[i].total)
    OBVIOUS
  <2>1. /\ loans' = [loans EXCEPT ![i] = m]
        /\ reputation' = PaymentRecorded(reputation, u, onTime, final)
        /\ fees' = IF onTime THEN fees
                   ELSE AssessLateFee(fees, i, u, loans[i].installment,
                                      TotalBalance(lend, u))
    BY <1>6, <2>u, <2>o, <2>f DEF RepayInstallment, PaymentRecorded
  <2>2. m \in LoanType /\ m.borrower = loans[i].borrower
    BY Entries, AfterInstallmentType, InstallmentFacts DEF SameTerms
  <2> HIDE DEF m
  <2>3. /\ DOMAIN loans' = DOMAIN loans /\ Len(loans') = Len(loans)
        /\ \A j \in DOMAIN loans : loans'[j].borrower = loans[j].borrower
    BY <2>1, <2>2, SeqReplace DEF TypeOK
  <2>4. /\ \A v \in Users : v # u => reputation'[v] = reputation[v]
        /\ reputation'[u].late = reputation[u].late + IF onTime THEN 0 ELSE 1
    BY <1>1, <2>1, PaymentFacts DEF Adds
  <2>5. \A v \in Users : reputation'[v].late >= reputation[v].late
    BY <1>1, <2>4
  <2>6. CASE onTime
    BY <2>1, <2>3, <2>5, <2>6, FeesAsideMatch DEF FeesAside
  <2>7. CASE ~onTime
    <3>1. /\ Len(fees') = Len(fees) /\ DOMAIN fees' = DOMAIN fees
          /\ fees'[i].borrower = fees[i].borrower
          /\ \A j \in DOMAIN fees : j # i => fees'[j] = fees[j]
      <4>1. /\ i \in DOMAIN fees /\ fees \in FeesType
            /\ fees' = AssessLateFee(fees, i, u, loans[i].installment,
                                     TotalBalance(lend, u))
        BY <1>1, <2>1, <2>7
      <4> QED
        BY <4>1, LateFeeReplaces
    <3>2. reputation'[u].late > 0
      BY <1>1, <2>4, <2>7
    <3>3. ASSUME NEW j \in DOMAIN fees
          PROVE  /\ fees'[j].borrower = loans'[j].borrower
                 /\ fees'[j].lateDue > 0 => reputation'[loans'[j].borrower].late > 0
      <4>1. /\ fees[j].borrower = loans[j].borrower
            /\ fees[j].lateDue > 0 => reputation[loans[j].borrower].late > 0
        BY DEF FeesMatchLoans
      <4>2. loans'[j].borrower = loans[j].borrower /\ loans[j].borrower \in Users
        BY <1>1, <2>3, Entries DEF LoanType
      <4>3. CASE j = i
        BY <2>u, <3>1, <3>2, <4>1, <4>2, <4>3
      <4>4. CASE j # i
        <5>1. /\ reputation[loans[j].borrower].late \in Nat
              /\ reputation'[loans[j].borrower].late
                   >= reputation[loans[j].borrower].late
              /\ reputation'[loans[j].borrower].late \in Nat
          BY <1>1, <2>5, <4>2 DEF TypeOK, ReputationType, HistoryType
        <5> QED
          BY <3>1, <4>1, <4>2, <4>4, <5>1
      <4> QED
        BY <4>3, <4>4
    <3> QED
      BY <1>1, <2>3, <3>1, <3>3 DEF FeesMatchLoans
  <2> QED
    BY <2>6, <2>7
<1>7. ASSUME NEW i \in DOMAIN loans, MarkDefault(i)
      PROVE  FeesMatchLoans'
  <2> DEFINE m == AfterDefault(loans[i])
  <2>0. PICK u \in Users : u = loans[i].borrower
    BY Entries DEF LoanType
  <2>1. /\ loans' = [loans EXCEPT ![i] = m] /\ fees' = fees
        /\ reputation' = RecordDefault(reputation, u)
    BY <1>7, <2>0 DEF MarkDefault
  <2>2. m \in LoanType /\ m.borrower = loans[i].borrower
    BY Entries, AfterDefaultType, DefaultFacts DEF SameTerms
  <2> HIDE DEF m
  <2>3. /\ DOMAIN loans' = DOMAIN loans /\ Len(loans') = Len(loans)
        /\ \A j \in DOMAIN loans : loans'[j].borrower = loans[j].borrower
    BY <2>1, <2>2, SeqReplace DEF TypeOK
  <2>4. \A v \in Users : reputation'[v].late = reputation[v].late
    BY <1>1, <2>1, LateKept
  <2>5. \A v \in Users : reputation'[v].late >= reputation[v].late
    BY <1>1, <2>4
  <2> QED
    BY <2>1, <2>3, <2>5, FeesAsideMatch DEF FeesAside
<1>8. CASE Administer \/ Tick \/ UNCHANGED vars
  BY <1>2, <1>8 DEF Administer, DepositLiquidity, WithdrawSeizedCollateral, SetPause,
                    Tick, vars, book, standing
<1>9. ASSUME NEW u \in Users, Refer(u)
      PROVE  FeesMatchLoans'
  BY <1>2, <1>9 DEF Refer, GenerateCode, ApplyCode, RewardReferrer, book
<1> QED
  BY <1>3, <1>4, <1>5, <1>6, <1>7, <1>8, <1>9
  DEF Next, Decide, RejectRequest, CancelRequest, Service

\* Every loan has its own fee state, of its own borrower, and nobody owes a late
\* fee without a late payment on record.
THEOREM FeesMatchLoansAlways == Spec => []FeesMatchLoans
<1>1. Init => FeesMatchLoans
  BY DEF Init, FeesMatchLoans
<1>2. TypeOK /\ TypeOK' /\ FeesMatchLoans /\ [Next]_vars => FeesMatchLoans'
  BY FeesMatchStep
<1> QED
  BY <1>1, <1>2, TypeCorrect, PTL DEF Spec

-----------------------------------------------------------------------------
(* Referral records and referral links.                                     *)

Referees(ref, r) == {u \in Users : ref[u].referrer = r}
Live(ref, r) == {u \in Referees(ref, r) : ref[u].status = "active"}
Points(ref, r) == [u \in Referees(ref, r) |-> ref[u].generated]

RecordAgrees(ref, r) ==
  /\ ref[r].total = Cardinality(Referees(ref, r))
  /\ ref[r].active = Cardinality(Live(ref, r))
  /\ ref[r].earned = SumFunction(Points(ref, r))

\* The agreement alone is not inductive: a user who is nobody's referee could
\* have points to bring along, or be paid for itself.
LinkSound(ref, u) ==
  /\ ref[u].status = "none" <=> ref[u].referrer = NoUser
  /\ ref[u].referrer # u
  /\ ref[u].status = "none" => ref[u].generated = 0

ReferralsSound(ref) == \A u \in Users : LinkSound(ref, u) /\ RecordAgrees(ref, u)

LEMMA RefereesType ==
  ASSUME NEW ref \in ReferralType, NEW r
  PROVE  /\ IsFiniteSet(Referees(ref, r)) /\ IsFiniteSet(Live(ref, r))
         /\ Cardinality(Referees(ref, r)) \in Nat /\ Cardinality(Live(ref, r)) \in Nat
         /\ Points(ref, r) \in [Referees(ref, r) -> Nat]
         /\ SumFunction(Points(ref, r)) \in Nat
<1>1. Referees(ref, r) \in SUBSET Users /\ Live(ref, r) \in SUBSET Users
  BY DEF Referees, Live
<1>2. IsFiniteSet(Referees(ref, r)) /\ IsFiniteSet(Live(ref, r))
  BY <1>1, LoanBookAssumption, FS_Subset
<1>3. Points(ref, r) \in [Referees(ref, r) -> Nat]
  BY DEF Points, Referees, ReferralType, ReferralEntryType
<1> QED
  BY <1>2, <1>3, FS_CardinalityType, SumFunctionType

\* A record agrees as long as its counts and its referees stay as they are.
LEMMA RecordStays ==
  ASSUME NEW ref, NEW new, NEW r, RecordAgrees(ref, r),
         new[r].total = ref[r].total, new[r].active = ref[r].active,
         new[r].earned = ref[r].earned,
         \A u \in Users : new[u].referrer = r <=> ref[u].referrer = r,
         \A u \in Referees(ref, r) :
           /\ new[u].status = "active" <=> ref[u].status = "active"
           /\ new[u].generated = ref[u].generated
  PROVE  RecordAgrees(new, r)
<1>1. Referees(new, r) = Referees(ref, r)
  BY DEF Referees
<1>2. Live(new, r) = Live(ref, r) /\ Points(new, r) = Points(ref, r)
  BY <1>1 DEF Live, Points
<1> QED
  BY <1>1, <1>2 DEF RecordAgrees

\* What the updates of an entry leave alone and what they set.
SameRecord(d, e) == d.total = e.total /\ d.active = e.active /\ d.earned = e.earned
SameLink(d, e) ==
  d.referrer = e.referrer /\ d.status = e.status /\ d.generated = e.generated

LEMMA EntryFacts ==
  ASSUME NEW e \in ReferralEntryType, NEW r
  PROVE  /\ SameRecord([e EXCEPT !.known = TRUE], e)
         /\ SameLink([e EXCEPT !.known = TRUE], e)
         /\ SameRecord(Linked(e, r), e)
         /\ Linked(e, r).referrer = r /\ Linked(e, r).status = "pending"
         /\ Linked(e, r).generated = e.generated
         /\ SameLink(Joined(e), e) /\ Joined(e).total = e.total + 1
         /\ Joined(e).active = e.active /\ Joined(e).earned = e.earned
<1> USE DEF ReferralEntryType, SameRecord, SameLink
<1>1. /\ SameRecord([e EXCEPT !.known = TRUE], e)
      /\ SameLink([e EXCEPT !.known = TRUE], e)
  BY Zenon
<1>2. /\ SameRecord(Linked(e, r), e)
      /\ Linked(e, r).referrer = r /\ Linked(e, r).status = "pending"
      /\ Linked(e, r).generated = e.generated
  BY Zenon DEF Linked
<1>3. /\ SameLink(Joined(e), e) /\ Joined(e).total = e.total + 1
      /\ Joined(e).active = e.active /\ Joined(e).earned = e.earned
  BY Zenon DEF Joined
<1> QED
  BY <1>1, <1>2, <1>3

LEMMA RewardedFacts ==
  ASSUME NEW e \in ReferralEntryType, NEW firstLoan \in BOOLEAN,
         NEW points \in Nat, NEW activates \in BOOLEAN
  PROVE  /\ SameRecord(Rewarded(e, firstLoan), e)
         /\ Rewarded(e, firstLoan).referrer = e.referrer
         /\ Rewarded(e, firstLoan).generated = e.generated + ReferrerPoints(firstLoan)
         /\ Rewarded(e, firstLoan).status
              = IF firstLoan /\ e.status = "pending" THEN "active" ELSE e.status
         /\ SameLink(Earning(e, points, activates), e)
         /\ Earning(e, points, activates).total = e.total
         /\ Earning(e, points, activates).active
              = IF activates THEN e.active + 1 ELSE e.active
         /\ Earning(e, points, activates).earned = e.earned + points
<1> USE DEF ReferralEntryType, SameRecord, SameLink
<1>1. /\ SameRecord(Rewarded(e, firstLoan), e)
      /\ Rewarded(e, firstLoan).referrer = e.referrer
      /\ Rewarded(e, firstLoan).generated = e.generated + ReferrerPoints(firstLoan)
      /\ Rewarded(e, firstLoan).status
           = IF firstLoan /\ e.status = "pending" THEN "active" ELSE e.status
  BY Zenon DEF Rewarded
<1>2. /\ SameLink(Earning(e, points, activates), e)
      /\ Earning(e, points, activates).total = e.total
      /\ Earning(e, points, activates).active
           = IF activates THEN e.active + 1 ELSE e.active
      /\ Earning(e, points, activates).earned = e.earned + points
  BY Zenon DEF Earning
<1> QED
  BY <1>1, <1>2

LEMMA DefaultedFacts ==
  ASSUME NEW e \in ReferralEntryType
  PROVE  /\ SameLink(LosingOne(e), e)
         /\ LosingOne(e).total = e.total /\ LosingOne(e).earned = e.earned
         /\ LosingOne(e).active = IF e.active > 0 THEN e.active - 1 ELSE e.active
         /\ SameRecord([e EXCEPT !.status = "defaulted"], e)
         /\ [e EXCEPT !.status = "defaulted"].status = "defaulted"
         /\ [e EXCEPT !.status = "defaulted"].referrer = e.referrer
         /\ [e EXCEPT !.status = "defaulted"].generated = e.generated
BY Zenon DEF ReferralEntryType, SameRecord, SameLink, LosingOne

LEMMA CodeSound ==
  ASSUME NEW ref \in ReferralType, ReferralsSound(ref), NEW u \in Users
  PROVE  ReferralsSound(CreateRecord(ref, u))
<1> DEFINE new == CreateRecord(ref, u)
<1>1. \A v \in Users : SameRecord(new[v], ref[v]) /\ SameLink(new[v], ref[v])
  <2>1. ref[u] \in ReferralEntryType /\ DOMAIN ref = Users
    BY DEF ReferralType
  <2>2. /\ new[u] = [ref[u] EXCEPT !.known = TRUE]
        /\ \A v \in Users : v # u => new[v] = ref[v]
    BY <2>1 DEF CreateRecord
  <2>3. SameRecord(new[u], ref[u]) /\ SameLink(new[u], ref[u])
    BY <2>1, <2>2, EntryFacts
  <2> QED
    BY <2>2, <2>3 DEF SameRecord, SameLink
<1> HIDE DEF new
<1>2. ASSUME NEW v \in Users
      PROVE  LinkSound(new, v) /\ RecordAgrees(new, v)
  <2>1. LinkSound(new, v)
    BY <1>1 DEF ReferralsSound, LinkSound, SameLink
  <2>2. RecordAgrees(new, v)
    <3>1. \A x \in Users : /\ new[x].referrer = ref[x].referrer
                           /\ new[x].status = ref[x].status
                           /\ new[x].generated = ref[x].generated
      BY <1>1 DEF SameLink
    <3>2. /\ new[v].total = ref[v].total /\ new[v].active = ref[v].active
          /\ new[v].earned = ref[v].earned
      BY <1>1 DEF SameRecord
    <3>3. RecordAgrees(ref, v) /\ Referees(ref, v) \subseteq Users
      BY DEF ReferralsSound, Referees
    <3> QED
      BY <3>1, <3>2, <3>3, RecordStays
  <2> QED
    BY <2>1, <2>2
<1> QED
  BY <1>2 DEF ReferralsSound, new

LEMMA LinkKeepsSound ==
  ASSUME NEW ref \in ReferralType, ReferralsSound(ref),
         NEW u \in Users, NEW r \in Users, r # u, ref[u].referrer = NoUser
  PROVE  ReferralsSound(Link(ref, u, r))
<1> DEFINE new == Link(ref, u, r)
<1>1. /\ new[u] = Linked(ref[u], r) /\ new[r] = Joined(ref[r])
      /\ \A v \in Users : v # u /\ v # r => new[v] = ref[v]
  BY DEF Link, ReferralType
<1>2. new \in ReferralType
  BY ReferralStep
<1> HIDE DEF new
<1>3. /\ SameRecord(new[u], ref[u]) /\ new[u].referrer = r
      /\ new[u].status = "pending" /\ new[u].generated = 0
      /\ SameLink(new[r], ref[r]) /\ new[r].total = ref[r].total + 1
      /\ new[r].active = ref[r].active /\ new[r].earned = ref[r].earned
  <2>1. ref[u] \in ReferralEntryType /\ ref[r] \in ReferralEntryType
    BY DEF ReferralType
  <2>2. ref[u].generated = 0 /\ ref[u].status = "none"
    BY DEF ReferralsSound, LinkSound
  <2>3. /\ SameRecord(Linked(ref[u], r), ref[u]) /\ Linked(ref[u], r).referrer = r
        /\ Linked(ref[u], r).status = "pending" /\ Linked(ref[u], r).generated = 0
    <3>1. /\ SameRecord(Linked(ref[u], r), ref[u]) /\ Linked(ref[u], r).referrer = r
          /\ Linked(ref[u], r).status = "pending"
          /\ Linked(ref[u], r).generated = ref[u].generated
      BY Zenon, <2>1, EntryFacts
    <3> QED
      BY <2>2, <3>1
  <2>4. /\ SameLink(Joined(ref[r]), ref[r]) /\ Joined(ref[r]).total = ref[r].total + 1
        /\ Joined(ref[r]).active = ref[r].active /\ Joined(ref[r]).earned = ref[r].earned
    BY <2>1, EntryFacts
  <2> QED
    BY <1>1, <2>3, <2>4
<1>4. \A v \in Users : v # u => SameLink(new[v], ref[v])
  BY <1>1, <1>3 DEF SameLink
<1>5. ASSUME NEW v \in Users
      PROVE  LinkSound(new, v)
  <2>1. CASE v = u
    BY <1>3, <2>1, NoUserAssumption DEF LinkSound
  <2>2. CASE v # u
    BY <1>4, <2>2 DEF ReferralsSound, LinkSound, SameLink
  <2> QED
    BY <2>1, <2>2
<1>6. ASSUME NEW v \in Users, v # r
      PROVE  RecordAgrees(new, v)
  <2>1. RecordAgrees(ref, v) /\ ref[u].referrer # v
    BY NoUserAssumption DEF ReferralsSound
  <2>2. SameRecord(new[v], ref[v])
    BY <1>1, <1>3, <1>6 DEF SameRecord
  <2>3. \A x \in Users : new[x].referrer = v <=> ref[x].referrer = v
    BY <1>3, <1>4, <1>6, <2>1 DEF SameLink
  <2>4. \A x \in Referees(ref, v) : new[x].status = ref[x].status
                                    /\ new[x].generated = ref[x].generated
    BY <1>4, <2>1 DEF SameLink, Referees
  <2> QED
    BY <2>1, <2>2, <2>3, <2>4, RecordStays DEF SameRecord
<1>7. RecordAgrees(new, r)
  <2>0. RecordAgrees(ref, r) /\ ref[u].referrer # r
    BY NoUserAssumption DEF ReferralsSound
  <2>1. Referees(new, r) = Referees(ref, r) \cup {u} /\ u \notin Referees(ref, r)
    BY <1>3, <1>4, <2>0 DEF Referees, SameLink
  <2>2. Live(new, r) = Live(ref, r)
    BY <1>3, <1>4, <2>1 DEF Live, Referees, SameLink
  <2>3. SumFunction(Points(new, r)) = SumFunction(Points(ref, r))
    <3>1. /\ Points(ref, r) \in [Referees(ref, r) -> Nat] /\ IsFiniteSet(Referees(ref, r))
          /\ Points(new, r) \in [Referees(new, r) -> Nat]
      BY <1>2, RefereesType
    <3>2. \A x \in Referees(ref, r) : Points(new, r)[x] = Points(ref, r)[x]
      BY <1>4, <2>1 DEF Points, SameLink, Referees
    <3>3. Points(new, r)[u] = 0
      BY <1>3, <2>1 DEF Points
    <3>4. SumFunction(Points(new, r)) = SumFunction(Points(ref, r)) + Points(new, r)[u]
      BY <2>1, <3>1, <3>2, SumFunctionExtends
    <3> QED
      BY <3>3, <3>4, RefereesType
  <2>4. Cardinality(Referees(new, r)) = Cardinality(Referees(ref, r)) + 1
    BY ZenonT(40), <2>1, RefereesType, FS_AddElement
  <2> QED
    BY <1>3, <2>0, <2>2, <2>3, <2>4 DEF RecordAgrees
<1> QED
  BY <1>5, <1>6, <1>7 DEF ReferralsSound, new

LEMMA CreditKeepsSound ==
  ASSUME NEW ref \in ReferralType, ReferralsSound(ref), NEW u \in Users,
         NEW firstLoan \in BOOLEAN
  PROVE  /\ ReferralsSound(CreditReferrer(ref, u, firstLoan))
         /\ PaysReferrer(ref, u, firstLoan) => ref[u].referrer \in Users
         /\ \A v \in Users :
              CreditReferrer(ref, u, firstLoan)[v].earned
                = ref[v].earned + IF PaysReferrer(ref, u, firstLoan) /\ v = ref[u].referrer
                                  THEN ReferrerPoints(firstLoan) ELSE 0
<1> DEFINE new == CreditReferrer(ref, u, firstLoan)
<1>0. /\ new \in ReferralType /\ \A v \in Users : ref[v] \in ReferralEntryType
      /\ \A v \in Users : ref[v].earned \in Nat
      /\ ReferrerPoints(firstLoan) \in Nat
  BY ReferralStep DEF ReferralType, ReferralEntryType
<1>1. CASE ~PaysReferrer(ref, u, firstLoan)
  BY <1>0, <1>1 DEF CreditReferrer
<1>2. CASE PaysReferrer(ref, u, firstLoan)
  <2>0. PICK r \in Users : r = ref[u].referrer /\ r # u
    BY <1>0, <1>2 DEF PaysReferrer, ReferralsSound, LinkSound, ReferralEntryType
  <2>a. PICK p \in Nat, a \in BOOLEAN :
          p = ReferrerPoints(firstLoan) /\ a = Activates(ref, u, firstLoan)
    BY <1>0 DEF Activates
  <2>1. /\ new[u] = Rewarded(ref[u], firstLoan) /\ new[r] = Earning(ref[r], p, a)
        /\ \A v \in Users : v # u /\ v # r => new[v] = ref[v]
    BY <1>2, <2>0, <2>a DEF CreditReferrer, ReferralType
  <2> HIDE DEF new
  <2>2. /\ SameRecord(new[u], ref[u]) /\ new[u].referrer = r
        /\ new[u].generated = ref[u].generated + p
        /\ new[u].status = IF a THEN "active" ELSE ref[u].status
        /\ SameLink(new[r], ref[r]) /\ new[r].total = ref[r].total
        /\ new[r].active = (IF a THEN ref[r].active + 1 ELSE ref[r].active)
        /\ new[r].earned = ref[r].earned + p
    <3>1. ref[u] \in ReferralEntryType /\ ref[r] \in ReferralEntryType
      BY <1>0
    <3>2. /\ SameRecord(Rewarded(ref[u], firstLoan), ref[u])
          /\ Rewarded(ref[u], firstLoan).referrer = ref[u].referrer
          /\ Rewarded(ref[u], firstLoan).generated
               = ref[u].generated + ReferrerPoints(firstLoan)
          /\ Rewarded(ref[u], firstLoan).status
               = IF firstLoan /\ ref[u].status = "pending" THEN "active" ELSE ref[u].status
      BY <3>1, RewardedFacts
    <3>3. a <=> firstLoan /\ ref[u].status = "pending"
      BY <2>a DEF Activates
    <3>4. /\ SameLink(Earning(ref[r], p, a), ref[r])
          /\ Earning(ref[r], p, a).total = ref[r].total
          /\ Earning(ref[r], p, a).active = IF a THEN ref[r].active + 1 ELSE ref[r].active
          /\ Earning(ref[r], p, a).earned = ref[r].earned + p
      BY <3>1, RewardedFacts
    <3> QED
      BY <2>0, <2>a, <2>1, <3>2, <3>3, <3>4
  <2>3. \A v \in Users : v # u => SameLink(new[v], ref[v])
    BY <2>1, <2>2 DEF SameLink
  <2>4. \A v \in Users : v # r => SameRecord(new[v], ref[v])
    BY <2>1, <2>2 DEF SameRecord
  <2>5. ASSUME NEW v \in Users
        PROVE  LinkSound(new, v)
    <3>1. CASE v = u
      <4>1. r # NoUser /\ ref[u].status # "none" /\ new[u].status # "none"
        BY <1>2, <2>2, NoUserAssumption DEF PaysReferrer
      <4> QED
        BY <2>0, <2>2, <3>1, <4>1 DEF LinkSound
    <3>2. CASE v # u
      BY <2>3, <3>2 DEF ReferralsSound, LinkSound, SameLink
    <3> QED
      BY <3>1, <3>2
  <2>6. \A v, x \in Users : new[x].referrer = v <=> ref[x].referrer = v
    BY <2>0, <2>2, <2>3 DEF SameLink
  <2>7. ASSUME NEW v \in Users, v # r
        PROVE  RecordAgrees(new, v)
    <3>1. RecordAgrees(ref, v) /\ SameRecord(new[v], ref[v])
      BY <2>4, <2>7 DEF ReferralsSound
    <3>2. \A x \in Referees(ref, v) : new[x].status = ref[x].status
                                      /\ new[x].generated = ref[x].generated
      BY <2>0, <2>3, <2>7 DEF SameLink, Referees
    <3> QED
      BY <2>6, <3>1, <3>2, RecordStays DEF SameRecord
  <2>8. RecordAgrees(new, r)
    <3>0. RecordAgrees(ref, r) /\ u \in Referees(ref, r) /\ Referees(new, r) = Referees(ref, r)
      BY <2>0, <2>6 DEF ReferralsSound, Referees
    <3>1. \A x \in Referees(ref, r) : x # u => SameLink(new[x], ref[x])
      BY <2>3 DEF Referees
    <3>2. SumFunction(Points(new, r)) = SumFunction(Points(ref, r)) + p
      <4>1. /\ Points(ref, r) \in [Referees(ref, r) -> Nat]
            /\ IsFiniteSet(Referees(ref, r))
            /\ Points(new, r) \in [Referees(ref, r) -> Nat]
        BY <1>0, <3>0, RefereesType DEF new
      <4>2. \A x \in Referees(ref, r) : x # u => Points(new, r)[x] = Points(ref, r)[x]
        BY <3>0, <3>1 DEF Points, SameLink
      <4>3. Points(new, r)[u] = Points(ref, r)[u] + p /\ Points(ref, r)[u] \in Nat
        BY <2>2, <3>0, <4>1 DEF Points
      <4>4. SumFunction(Points(new, r))
              = SumFunction(Points(ref, r)) - Points(ref, r)[u] + Points(new, r)[u]
        BY <3>0, <4>1, <4>2, SumFunctionChanges
      <4> QED
        BY <4>3, <4>4, RefereesType
    <3>3. Cardinality(Live(new, r)) = Cardinality(Live(ref, r)) + IF a THEN 1 ELSE 0
      <4>1. CASE a
        <5>1. Live(new, r) = Live(ref, r) \cup {u} /\ u \notin Live(ref, r)
          BY ZenonT(40), <2>a, <2>2, <3>0, <3>1, <4>1 DEF Live, Activates, SameLink
        <5> QED
          BY <4>1, <5>1, RefereesType, FS_AddElement
      <4>2. CASE ~a
        <5>1. Live(new, r) = Live(ref, r)
          BY <2>2, <3>0, <3>1, <4>2 DEF Live, SameLink
        <5> QED
          BY <4>2, <5>1, RefereesType
      <4> QED
        BY <4>1, <4>2
    <3>4. /\ ref[r].total = Cardinality(Referees(ref, r))
          /\ ref[r].active = Cardinality(Live(ref, r))
          /\ ref[r].earned = SumFunction(Points(ref, r))
          /\ Cardinality(Live(ref, r)) \in Nat
      BY <3>0, RefereesType DEF RecordAgrees
    <3>5. new[r].active = Cardinality(Live(new, r))
      BY <2>2, <3>3, <3>4
    <3> QED
      BY <2>2, <3>0, <3>2, <3>4, <3>5 DEF RecordAgrees
  <2>9. ReferralsSound(new)
    BY <2>5, <2>7, <2>8 DEF ReferralsSound
  <2>10. \A v \in Users : new[v].earned
           = ref[v].earned + IF PaysReferrer(ref, u, firstLoan) /\ v = ref[u].referrer
                             THEN ReferrerPoints(firstLoan) ELSE 0
    BY <1>0, <1>2, <2>0, <2>a, <2>2, <2>4 DEF SameRecord
  <2> QED
    BY <2>0, <2>9, <2>10 DEF new
<1> QED
  BY <1>1, <1>2

LEMMA DefaultKeepsSound ==
  ASSUME NEW ref \in ReferralType, ReferralsSound(ref), NEW u \in Users
  PROVE  /\ ReferralsSound(MarkReferralDefault(ref, u))
         /\ \A v \in Users : MarkReferralDefault(ref, u)[v].earned = ref[v].earned
<1> DEFINE new == MarkReferralDefault(ref, u)
           d == [ref[u] EXCEPT !.status = "defaulted"]
           marked == [ref EXCEPT ![u] = d]
<1>0. /\ \A v \in Users : ref[v] \in ReferralEntryType
      /\ ref[u].status \in {"none", "pending", "active", "defaulted"}
  BY DEF ReferralType, ReferralEntryType
<1>1. CASE ref[u].status \in {"none", "defaulted"}
  BY <1>1 DEF MarkReferralDefault
<1>2. CASE ref[u].status \in {"pending", "active"}
  <2>0. PICK r \in Users : r = ref[u].referrer /\ r # u
    BY <1>0, <1>2 DEF ReferralsSound, LinkSound, ReferralEntryType
  <2>1. /\ marked[u] = d /\ marked[r] = ref[r]
        /\ \A v \in Users : v # u => marked[v] = ref[v]
        /\ DOMAIN marked = Users
    BY <2>0 DEF ReferralType
  <2>2. /\ SameRecord(d, ref[u]) /\ d.status = "defaulted"
        /\ d.referrer = ref[u].referrer /\ d.generated = ref[u].generated
    BY <1>0, DefaultedFacts
  <2>3. new = IF ref[u].status = "active" THEN [marked EXCEPT ![r] = LosingOne(@)]
              ELSE marked
    BY <1>2, <2>0 DEF MarkReferralDefault
  <2> HIDE DEF new, marked, d
  <2>4. /\ new[u] = d
        /\ new[r] = IF ref[u].status = "active" THEN LosingOne(ref[r]) ELSE ref[r]
        /\ \A v \in Users : v # u /\ v # r => new[v] = ref[v]
    BY <2>0, <2>1, <2>3
  <2>5. /\ SameLink(new[r], ref[r]) /\ new[r].total = ref[r].total
        /\ new[r].earned = ref[r].earned
        /\ new[r].active = IF ref[u].status = "active" /\ ref[r].active > 0
                           THEN ref[r].active - 1 ELSE ref[r].active
    <3>1. ref[r] \in ReferralEntryType /\ SameLink(ref[r], ref[r])
      BY <1>0 DEF SameLink
    <3>2. /\ SameLink(LosingOne(ref[r]), ref[r])
          /\ LosingOne(ref[r]).total = ref[r].total
          /\ LosingOne(ref[r]).earned = ref[r].earned
          /\ LosingOne(ref[r]).active
               = IF ref[r].active > 0 THEN ref[r].active - 1 ELSE ref[r].active
      BY <3>1, DefaultedFacts
    <3>3. CASE ref[u].status = "active"
      BY <2>4, <3>2, <3>3
    <3>4. CASE ref[u].status # "active"
      BY <2>4, <3>1, <3>4
    <3> QED
      BY <3>3, <3>4
  <2>6. \A v \in Users : v # u => SameLink(new[v], ref[v])
    BY <2>4, <2>5 DEF SameLink
  <2>7. \A v \in Users : v # r => SameRecord(new[v], ref[v])
    BY <2>2, <2>4 DEF SameRecord
  <2>8. ASSUME NEW v \in Users
        PROVE  LinkSound(new, v)
    <3>1. CASE v = u
      BY <1>2, <2>0, <2>2, <2>4, <3>1, NoUserAssumption DEF LinkSound
    <3>2. CASE v # u
      BY <2>6, <3>2 DEF ReferralsSound, LinkSound, SameLink
    <3> QED
      BY <3>1, <3>2
  <2>9. \A v, x \in Users : new[x].referrer = v <=> ref[x].referrer = v
    BY <2>2, <2>4, <2>6 DEF SameLink
  <2>10. ASSUME NEW v \in Users, v # r
         PROVE  RecordAgrees(new, v)
    <3>1. RecordAgrees(ref, v) /\ SameRecord(new[v], ref[v])
      BY <2>7, <2>10 DEF ReferralsSound
    <3>2. \A x \in Referees(ref, v) : new[x].status = ref[x].status
                                      /\ new[x].generated = ref[x].generated
      BY <2>0, <2>6, <2>10 DEF SameLink, Referees
    <3> QED
      BY <2>9, <3>1, <3>2, RecordStays DEF SameRecord
  <2>11. RecordAgrees(new, r)
    <3>0. RecordAgrees(ref, r) /\ u \in Referees(ref, r) /\ Referees(new, r) = Referees(ref, r)
      BY <2>0, <2>9 DEF ReferralsSound, Referees
    <3>1. \A x \in Referees(ref, r) : x # u => SameLink(new[x], ref[x])
      BY <2>6 DEF Referees
    <3>2. Points(new, r) = Points(ref, r)
      BY <2>2, <2>4, <3>0, <3>1 DEF Points, SameLink
    <3>3. Live(new, r) = Live(ref, r) \ {u}
      BY <2>2, <2>4, <3>0, <3>1 DEF Live, SameLink
    <3>4. /\ ref[r].total = Cardinality(Referees(ref, r))
          /\ ref[r].active = Cardinality(Live(ref, r))
          /\ ref[r].earned = SumFunction(Points(ref, r))
          /\ IsFiniteSet(Live(ref, r)) /\ Cardinality(Live(ref, r)) \in Nat
      BY <3>0, RefereesType DEF RecordAgrees
    <3>5. new[r].active = Cardinality(Live(new, r))
      <4>1. CASE ref[u].status = "active"
        <5>1. u \in Live(ref, r)
          BY <3>0, <4>1 DEF Live
        <5>2. Cardinality(Live(new, r)) = Cardinality(Live(ref, r)) - 1
          BY <3>3, <3>4, <5>1, FS_RemoveElement
        <5>3. Cardinality(Live(ref, r)) # 0
          BY <3>4, <5>1, FS_EmptySet
        <5> QED
          BY <2>5, <3>4, <4>1, <5>2, <5>3
      <4>2. CASE ref[u].status # "active"
        <5>1. Live(new, r) = Live(ref, r)
          BY <3>3, <4>2 DEF Live
        <5> QED
          BY <2>5, <3>4, <4>2, <5>1
      <4> QED
        BY <4>1, <4>2
    <3> QED
      BY <2>5, <3>0, <3>2, <3>4, <3>5 DEF RecordAgrees
  <2>12. ReferralsSound(new)
    BY <2>8, <2>10, <2>11 DEF ReferralsSound
  <2>13. \A v \in Users : new[v].earned = ref[v].earned
    BY <2>5, <2>7 DEF SameRecord
  <2> QED
    BY <2>12, <2>13 DEF new
<1> QED
  BY <1>0, <1>1, <1>2

LEMMA ReferralsStep ==
  ASSUME TypeOK, ReferralsSound(referral), [Next]_vars
  PROVE  ReferralsSound(referral')
<1>0. referral \in ReferralType
  BY DEF TypeOK
<1>1. ASSUME referral' = referral
      PROVE  ReferralsSound(referral')
  BY <1>1
<1>2. ASSUME NEW u \in Users, Borrow(u)
      PROVE  ReferralsSound(referral')
  BY <1>1, <1>2, OpenHistory
<1>3. ASSUME NEW i \in DOMAIN requests, Decide(i)
      PROVE  ReferralsSound(referral')
  <2>0. requests[i].borrower \in Users
    BY Entries DEF RequestType
  <2>1. CASE \E outcome : CloseRequest(i, outcome)
    BY <1>1, <2>1 DEF CloseRequest, standing
  <2>2. CASE \E apr \in Aprs, installment \in Installments, grace \in Graces :
               ApproveRequest(i, apr, installment, grace)
    <3>1. referral' = CreditReferrer(referral, requests[i].borrower, TRUE)
      BY <2>2 DEF ApproveRequest
    <3> QED
      BY <1>0, <2>0, <3>1, CreditKeepsSound
  <2> QED
    BY <1>3, <2>1, <2>2 DEF Decide, RejectRequest, CancelRequest
<1>4. ASSUME NEW i \in DOMAIN loans, Service(i)
      PROVE  ReferralsSound(referral')
  <2>0. loans[i].borrower \in Users
    BY Entries DEF LoanType
  <2>1. CASE RepayInstallment(i)
    <3>1. \/ referral' = referral
          \/ referral' = CreditReferrer(referral, loans[i].borrower, FALSE)
      BY <2>1 DEF RepayInstallment
    <3> QED
      BY <1>0, <2>0, <3>1, CreditKeepsSound
  <2>2. CASE MarkDefault(i)
    <3>1. referral' = MarkReferralDefault(referral, loans[i].borrower)
      BY <2>2 DEF MarkDefault
    <3> QED
      BY <1>0, <2>0, <3>1, DefaultKeepsSound
  <2> QED
    BY <1>4, <2>1, <2>2 DEF Service
<1>5. ASSUME NEW u \in Users, Refer(u)
      PROVE  ReferralsSound(referral')
  BY <1>0, <1>5, CodeSound, LinkKeepsSound, CreditKeepsSound
  DEF Refer, GenerateCode, ApplyCode, RewardReferrer
<1>6. CASE Administer \/ Tick \/ UNCHANGED vars
  BY <1>1, <1>6 DEF Administer, DepositLiquidity, WithdrawSeizedCollateral, SetPause,
                    Tick, vars, standing
<1> QED
  BY <1>2, <1>3, <1>4, <1>5, <1>6 DEF Next

LEMMA ReferralsStart == Init => ReferralsSound(referral)
<1> SUFFICES ASSUME Init, NEW u \in Users
             PROVE  LinkSound(referral, u) /\ RecordAgrees(referral, u)
  BY DEF ReferralsSound
<1>1. \A v \in Users : /\ referral[v].referrer = NoUser /\ referral[v].status = "none"
                       /\ referral[v].generated = 0 /\ referral[v].total = 0
                       /\ referral[v].active = 0 /\ referral[v].earned = 0
  BY DEF Init, NoReferrals
<1>2. Referees(referral, u) = {} /\ Live(referral, u) = {}
  BY <1>1, NoUserAssumption DEF Referees, Live
<1>3. DOMAIN Points(referral, u) = {}
  BY <1>2 DEF Points
<1> QED
  BY <1>1, <1>2, <1>3, NoUserAssumption, FS_EmptySet, SumFunctionEmpty
  DEF LinkSound, RecordAgrees

LEMMA ReferralsSoundAlways == Spec => [](TypeOK /\ ReferralsSound(referral))
<1>1. Init => ReferralsSound(referral)
  BY ReferralsStart
<1>2. TypeOK /\ ReferralsSound(referral) /\ [Next]_vars => ReferralsSound(referral)'
  BY ReferralsStep
<1> QED
  BY <1>1, <1>2, TypeCorrect, PTL DEF Spec

\* Three transactions move the status of a link, each on the entries of two
\* users; the record of every referrer still counts its links and their points.
THEOREM ReferralBooksAgreeAlways == Spec => []ReferralBooksAgree
<1>1. ReferralsSound(referral) => ReferralBooksAgree
  BY DEF ReferralsSound, RecordAgrees, Referees, Live, Points, ReferralBooksAgree
<1> QED
  BY <1>1, ReferralsSoundAlways, PTL

-----------------------------------------------------------------------------
(* Points ever granted, and what explains them.                              *)

\* What the policy pays for a history h.
Worth(h) ==
  Policy.requestPoints * h.requested + Policy.approvalPoints * h.approved
  + Policy.onTimePoints * h.onTime + Policy.latePoints * h.late
  + Policy.fullRepaymentPoints * h.repaid

\* What that comes to for so many more events.
Gain(requested, approved, repaid, onTime, late) ==
  Policy.requestPoints * requested + Policy.approvalPoints * approved
  + Policy.onTimePoints * onTime + Policy.latePoints * late
  + Policy.fullRepaymentPoints * repaid

\* What a referral payment for the referee u brings to v.
Bonus(ref, u, firstLoan, v) ==
  IF PaysReferrer(ref, u, firstLoan) /\ v = ref[u].referrer
  THEN ReferrerPoints(firstLoan) ELSE 0

Explained(u) == rewards[u].lifetime = Worth(reputation[u]) + referral[u].earned

LEMMA Distributivity == \A p, n, m \in Int : p * (n + m) = p * n + p * m
OBVIOUS

LEMMA ExplainedStep ==
  ASSUME TypeOK, NEW v \in Users, Explained(v),
         NEW requested \in Nat, NEW approved \in Nat, NEW repaid \in Nat,
         NEW defaulted \in Nat, NEW onTime \in Nat, NEW late \in Nat, NEW bonus \in Nat,
         Adds(reputation'[v], reputation[v], requested, approved, repaid, defaulted,
              onTime, late),
         rewards'[v].lifetime = rewards[v].lifetime
           + Gain(requested, approved, repaid, onTime, late) + bonus,
         referral'[v].earned = referral[v].earned + bonus
  PROVE  Explained(v)'
<1> DEFINE k == reputation[v]
           h == reputation'[v]
<1>0. k \in HistoryType /\ referral[v].earned \in Nat
  BY DEF TypeOK, ReputationType, ReferralType, ReferralEntryType
<1>1. /\ k.requested \in Nat /\ k.approved \in Nat /\ k.repaid \in Nat
      /\ k.onTime \in Nat /\ k.late \in Nat
  BY <1>0 DEF HistoryType
<1>2. \A p, n \in Nat : p * n \in Nat
  OBVIOUS
<1>3. /\ Policy.requestPoints \in Nat /\ Policy.approvalPoints \in Nat
      /\ Policy.onTimePoints \in Nat /\ Policy.latePoints \in Nat
      /\ Policy.fullRepaymentPoints \in Nat
  BY PolicyFacts
<1>4. /\ Policy.requestPoints * h.requested
           = Policy.requestPoints * k.requested + Policy.requestPoints * requested
      /\ Policy.approvalPoints * h.approved
           = Policy.approvalPoints * k.approved + Policy.approvalPoints * approved
      /\ Policy.onTimePoints * h.onTime
           = Policy.onTimePoints * k.onTime + Policy.onTimePoints * onTime
      /\ Policy.latePoints * h.late
           = Policy.latePoints * k.late + Policy.latePoints * late
      /\ Policy.fullRepaymentPoints * h.repaid
           = Policy.fullRepaymentPoints * k.repaid + Policy.fullRepaymentPoints * repaid
  BY <1>1, <1>3, Distributivity DEF Adds
<1>5. /\ Policy.requestPoints * k.requested \in Nat
      /\ Policy.approvalPoints * k.approved \in Nat
      /\ Policy.onTimePoints * k.onTime \in Nat /\ Policy.latePoints * k.late \in Nat
      /\ Policy.fullRepaymentPoints * k.repaid \in Nat
      /\ Policy.requestPoints * requested \in Nat
      /\ Policy.approvalPoints * approved \in Nat
      /\ Policy.onTimePoints * onTime \in Nat /\ Policy.latePoints * late \in Nat
      /\ Policy.fullRepaymentPoints * repaid \in Nat
  BY <1>1, <1>2, <1>3
<1> HIDE DEF h, k
<1>6. /\ Worth(k) \in Nat /\ Gain(requested, approved, repaid, onTime, late) \in Nat
      /\ Worth(h) = Worth(k) + Gain(requested, approved, repaid, onTime, late)
  BY <1>4, <1>5 DEF Worth, Gain
<1>7. /\ rewards[v].lifetime = Worth(k) + referral[v].earned
      /\ rewards'[v].lifetime = rewards[v].lifetime
           + Gain(requested, approved, repaid, onTime, late) + bonus
      /\ referral'[v].earned = referral[v].earned + bonus
      /\ Explained(v)' <=> rewards'[v].lifetime = Worth(h) + referral'[v].earned
  BY DEF Explained, h, k
<1> QED
  BY <1>0, <1>6, <1>7

LEMMA ExplainedStays ==
  ASSUME NEW v, Explained(v), reputation'[v] = reputation[v],
         rewards'[v].lifetime = rewards[v].lifetime,
         referral'[v].earned = referral[v].earned
  PROVE  Explained(v)'
BY DEF Explained

\* The points that the hooks of the rewards add.
LEMMA LifetimeGranted ==
  ASSUME NEW rw \in RewardsType, NEW u \in Users, NEW points \in Nat, NEW streak \in Nat,
         NEW v \in Users
  PROVE  GrantPoints(rw, u, points, streak)[v].lifetime
           = rw[v].lifetime + IF v = u THEN points ELSE 0
<1>1. rw[v] \in RewardAccountType /\ rw[v].lifetime \in Nat /\ DOMAIN rw = Users
  BY DEF RewardsType, RewardAccountType
<1>2. Granted(rw[v], points, streak).lifetime = rw[v].lifetime + points
  BY <1>1, Zenon DEF Granted, RewardAccountType
<1>3. GrantPoints(rw, u, points, streak)[v]
        = IF v = u THEN Granted(rw[v], points, streak) ELSE rw[v]
  BY <1>1 DEF GrantPoints
<1> QED
  BY <1>1, <1>2, <1>3

LEMMA LifetimeFacts ==
  ASSUME NEW rw \in RewardsType, NEW u \in Users, NEW onTime \in BOOLEAN, NEW v \in Users
  PROVE  /\ RewardRequest(rw, u)[v].lifetime
              = rw[v].lifetime + IF v = u THEN Policy.requestPoints ELSE 0
         /\ RewardApproval(rw, u)[v].lifetime
              = rw[v].lifetime + IF v = u THEN Policy.approvalPoints ELSE 0
         /\ RewardFullRepayment(rw, u)[v].lifetime
              = rw[v].lifetime + IF v = u THEN Policy.fullRepaymentPoints ELSE 0
         /\ RewardPayment(rw, u, onTime)[v].lifetime
              = rw[v].lifetime + IF v # u THEN 0
                                 ELSE IF onTime THEN Policy.onTimePoints
                                 ELSE Policy.latePoints
         /\ PenalizeDefault(rw, u)[v].lifetime = rw[v].lifetime
<1>1. /\ rw[u].streak \in Nat /\ rw[u].streak + 1 \in Nat /\ 0 \in Nat
      /\ \A x \in Users : rw[x] \in RewardAccountType
  BY DEF RewardsType, RewardAccountType
<1>2. /\ RewardRequest(rw, u)[v].lifetime
           = rw[v].lifetime + IF v = u THEN Policy.requestPoints ELSE 0
      /\ RewardApproval(rw, u)[v].lifetime
           = rw[v].lifetime + IF v = u THEN Policy.approvalPoints ELSE 0
      /\ RewardFullRepayment(rw, u)[v].lifetime
           = rw[v].lifetime + IF v = u THEN Policy.fullRepaymentPoints ELSE 0
  <2>1. /\ Policy.requestPoints \in Nat /\ Policy.approvalPoints \in Nat
        /\ Policy.fullRepaymentPoints \in Nat
    BY PolicyFacts
  <2>2. \A points \in Nat : GrantPoints(rw, u, points, rw[u].streak)[v].lifetime
                             = rw[v].lifetime + IF v = u THEN points ELSE 0
    BY <1>1, LifetimeGranted
  <2> QED
    BY <2>1, <2>2 DEF RewardRequest, RewardApproval, RewardFullRepayment
<1>3. RewardPayment(rw, u, onTime)[v].lifetime
        = rw[v].lifetime + IF v # u THEN 0 ELSE IF onTime THEN Policy.onTimePoints
                                           ELSE Policy.latePoints
  <2>1. CASE onTime
    <3>1. RewardPayment(rw, u, onTime)
            = GrantPoints(rw, u, Policy.onTimePoints, rw[u].streak + 1)
      BY <2>1 DEF RewardPayment
    <3>2. GrantPoints(rw, u, Policy.onTimePoints, rw[u].streak + 1)[v].lifetime
            = rw[v].lifetime + IF v = u THEN Policy.onTimePoints ELSE 0
      <4>1. Policy.onTimePoints \in Nat
        BY PolicyFacts
      <4> QED
        BY <1>1, <4>1, LifetimeGranted
    <3> QED
      BY <2>1, <3>1, <3>2
  <2>2. CASE ~onTime
    <3>1. RewardPayment(rw, u, onTime) = GrantPoints(rw, u, Policy.latePoints, 0)
      BY <2>2 DEF RewardPayment
    <3>2. GrantPoints(rw, u, Policy.latePoints, 0)[v].lifetime
            = rw[v].lifetime + IF v = u THEN Policy.latePoints ELSE 0
      <4>1. Policy.latePoints \in Nat
        BY PolicyFacts
      <4> QED
        BY <1>1, <4>1, LifetimeGranted
    <3> QED
      BY <2>2, <3>1, <3>2
  <2> QED
    BY <2>1, <2>2
<1>4. Penalized(rw[v]).lifetime = rw[v].lifetime
  BY <1>1, Zenon DEF Penalized, RewardAccountType
<1>5. PenalizeDefault(rw, u)[v].lifetime = rw[v].lifetime
  BY <1>4 DEF PenalizeDefault, RewardsType
<1> QED
  BY <1>2, <1>3, <1>5

LEMMA ReferralLifetime ==
  ASSUME TypeOK, ReferralsSound(referral), NEW rw \in RewardsType, NEW u \in Users,
         NEW firstLoan \in BOOLEAN, NEW v \in Users
  PROVE  /\ RewardedWithReferral(rw, u, firstLoan)[v].lifetime
              = rw[v].lifetime + Bonus(referral, u, firstLoan, v)
         /\ CreditReferrer(referral, u, firstLoan)[v].earned
              = referral[v].earned + Bonus(referral, u, firstLoan, v)
         /\ Bonus(referral, u, firstLoan, v) \in Nat
<1>1. /\ referral \in ReferralType /\ ReferrerPoints(firstLoan) \in Nat
      /\ rw[v].lifetime \in Nat
  BY ReferralStep DEF TypeOK, RewardsType, RewardAccountType
<1>2. CreditReferrer(referral, u, firstLoan)[v].earned
        = referral[v].earned + Bonus(referral, u, firstLoan, v)
  BY <1>1, CreditKeepsSound DEF Bonus
<1>3. CASE ~PaysReferrer(referral, u, firstLoan)
  BY <1>1, <1>2, <1>3 DEF Bonus, RewardedWithReferral
<1>4. CASE PaysReferrer(referral, u, firstLoan)
  <2>1. PICK r \in Users : r = referral[u].referrer
    BY <1>1, <1>4, CreditKeepsSound
  <2>2. rw[r].streak \in Nat
    BY DEF RewardsType, RewardAccountType
  <2>3. RewardedWithReferral(rw, u, firstLoan)
          = GrantPoints(rw, r, ReferrerPoints(firstLoan), rw[r].streak)
    BY <1>4, <2>1 DEF RewardedWithReferral, RewardReferral
  <2>4. RewardedWithReferral(rw, u, firstLoan)[v].lifetime
          = rw[v].lifetime + IF v = r THEN ReferrerPoints(firstLoan) ELSE 0
    BY <1>1, <2>2, <2>3, LifetimeGranted
  <2> QED
    BY <1>1, <1>2, <1>4, <2>1, <2>4 DEF Bonus
<1> QED
  BY <1>3, <1>4
\* A code or a link earns nobody anything.
LEMMA CodeKeepsEarned ==
  ASSUME NEW ref \in ReferralType, NEW u \in Users, NEW v \in Users
  PROVE  /\ CreateRecord(ref, u)[v].earned = ref[v].earned
         /\ \A r \in Users : r # u => Link(ref, u, r)[v].earned = ref[v].earned
<1>1. \A x \in Users : ref[x] \in ReferralEntryType
  BY DEF ReferralType
<1>2. CreateRecord(ref, u)[v].earned = ref[v].earned
  BY <1>1, Zenon DEF CreateRecord, ReferralType, ReferralEntryType
<1>3. ASSUME NEW r \in Users, r # u
      PROVE  Link(ref, u, r)[v].earned = ref[v].earned
  <2>1. /\ Link(ref, u, r)[u] = Linked(ref[u], r) /\ Link(ref, u, r)[r] = Joined(ref[r])
        /\ v # u /\ v # r => Link(ref, u, r)[v] = ref[v]
    BY <1>3 DEF Link, ReferralType
  <2>2. /\ Linked(ref[u], r).earned = ref[u].earned
        /\ Joined(ref[r]).earned = ref[r].earned
    BY <1>1, EntryFacts DEF SameRecord
  <2> QED
    BY <2>1, <2>2
<1> QED
  BY <1>2, <1>3

LEMMA GainFacts ==
  /\ Gain(0, 0, 0, 0, 0) = 0
  /\ Gain(1, 0, 0, 0, 0) = Policy.requestPoints
  /\ Gain(0, 1, 0, 0, 0) = Policy.approvalPoints
<1>1. \A p \in Nat : p * 0 = 0 /\ p * 1 = p
  OBVIOUS
<1>2. /\ Policy.requestPoints \in Nat /\ Policy.approvalPoints \in Nat
      /\ Policy.onTimePoints \in Nat /\ Policy.latePoints \in Nat
      /\ Policy.fullRepaymentPoints \in Nat
  BY PolicyFacts
<1>3. /\ Policy.requestPoints * 0 = 0 /\ Policy.requestPoints * 1 = Policy.requestPoints
      /\ Policy.approvalPoints * 0 = 0 /\ Policy.approvalPoints * 1 = Policy.approvalPoints
      /\ Policy.onTimePoints * 0 = 0 /\ Policy.latePoints * 0 = 0
      /\ Policy.fullRepaymentPoints * 0 = 0
  BY <1>1, <1>2
<1> QED
  BY <1>2, <1>3 DEF Gain

\* What one payment is worth.
PaymentPoints(onTime, final) ==
  (IF onTime THEN Policy.onTimePoints ELSE Policy.latePoints)
  + IF final THEN Policy.fullRepaymentPoints ELSE 0

LEMMA GainOfPayment ==
  ASSUME NEW final \in BOOLEAN, NEW onTime \in BOOLEAN
  PROVE  /\ PaymentPoints(onTime, final) \in Nat
         /\ Gain(0, 0, IF final THEN 1 ELSE 0, IF onTime THEN 1 ELSE 0,
                 IF onTime THEN 0 ELSE 1) = PaymentPoints(onTime, final)
<1>1. \A p \in Nat : p * 0 = 0 /\ p * 1 = p
  OBVIOUS
<1>2. /\ Policy.requestPoints \in Nat /\ Policy.approvalPoints \in Nat
      /\ Policy.onTimePoints \in Nat /\ Policy.latePoints \in Nat
      /\ Policy.fullRepaymentPoints \in Nat
  BY PolicyFacts
<1>3. /\ Policy.requestPoints * 0 = 0 /\ Policy.approvalPoints * 0 = 0
      /\ Policy.onTimePoints * 0 = 0 /\ Policy.onTimePoints * 1 = Policy.onTimePoints
      /\ Policy.latePoints * 0 = 0 /\ Policy.latePoints * 1 = Policy.latePoints
      /\ Policy.fullRepaymentPoints * 0 = 0
      /\ Policy.fullRepaymentPoints * 1 = Policy.fullRepaymentPoints
  BY <1>1, <1>2
<1> QED
  BY <1>2, <1>3 DEF Gain, PaymentPoints

\* The rewards after a payment, in the order the entry point grants them.
PaymentRewarded(rw, u, onTime, final) ==
  LET paid == RewardPayment(rw, u, onTime)
      earned == IF onTime THEN RewardedWithReferral(paid, u, FALSE) ELSE paid
  IN IF final THEN RewardFullRepayment(earned, u) ELSE earned

Lifetime(rw, v) == rw[v].lifetime
PaidPoints(u, onTime, final, v) == IF v = u THEN PaymentPoints(onTime, final) ELSE 0
PaidBonus(ref, u, onTime, v) == IF onTime THEN Bonus(ref, u, FALSE, v) ELSE 0

\* What a payment adds to the points of anyone.
LEMMA PaymentLifetime ==
  ASSUME TypeOK, ReferralsSound(referral), NEW u \in Users, NEW onTime \in BOOLEAN,
         NEW final \in BOOLEAN, NEW v \in Users
  PROVE  Lifetime(PaymentRewarded(rewards, u, onTime, final), v)
           = Lifetime(rewards, v) + PaidPoints(u, onTime, final, v)
             + PaidBonus(referral, u, onTime, v)
<1>w. PICK worth \in Nat : worth = PaidPoints(u, onTime, final, v)
  BY GainOfPayment DEF PaidPoints
<1>b. PICK bonus \in Nat : bonus = PaidBonus(referral, u, onTime, v)
  <2>1. referral \in ReferralType /\ rewards \in RewardsType /\ FALSE \in BOOLEAN
    BY DEF TypeOK
  <2>2. Bonus(referral, u, FALSE, v) \in Nat
    BY <2>1, ReferralLifetime
  <2> QED
    BY <2>2 DEF PaidBonus
<1>p. PICK paid : paid = RewardPayment(rewards, u, onTime)
  OBVIOUS
<1>e. PICK earned :
        earned = IF onTime THEN RewardedWithReferral(paid, u, FALSE) ELSE paid
  OBVIOUS
<1>a. PICK all : all = IF final THEN RewardFullRepayment(earned, u) ELSE earned
  OBVIOUS
<1>f. /\ rewards \in RewardsType /\ FALSE \in BOOLEAN
      /\ Policy.onTimePoints \in Nat /\ Policy.latePoints \in Nat
      /\ Policy.fullRepaymentPoints \in Nat
      /\ \A rw \in RewardsType : rw[v].lifetime \in Nat
  BY PolicyFacts DEF TypeOK, RewardsType, RewardAccountType
<1>1. paid \in RewardsType
  BY <1>p, <1>f, RewardsStep
<1>2. paid[v].lifetime = rewards[v].lifetime
        + IF v # u THEN 0 ELSE IF onTime THEN Policy.onTimePoints ELSE Policy.latePoints
  <2>1. RewardPayment(rewards, u, onTime)[v].lifetime = rewards[v].lifetime
          + IF v # u THEN 0 ELSE IF onTime THEN Policy.onTimePoints ELSE Policy.latePoints
    BY <1>f, LifetimeFacts
  <2> QED
    BY <1>p, <2>1
<1>3. earned \in RewardsType
  BY <1>e, <1>f, <1>1, ReferralRewardType
<1>4. earned[v].lifetime = paid[v].lifetime + bonus
  <2>1. RewardedWithReferral(paid, u, FALSE)[v].lifetime
          = paid[v].lifetime + Bonus(referral, u, FALSE, v)
    BY <1>f, <1>1, ReferralLifetime
  <2>2. CASE onTime
    BY <1>b, <1>e, <2>1, <2>2 DEF PaidBonus
  <2>3. CASE ~onTime
    BY <1>b, <1>e, <1>f, <1>1, <2>3 DEF PaidBonus
  <2> QED
    BY <2>2, <2>3
<1>5. all[v].lifetime = earned[v].lifetime
        + IF final /\ v = u THEN Policy.fullRepaymentPoints ELSE 0
  <2>1. RewardFullRepayment(earned, u)[v].lifetime
          = earned[v].lifetime + IF v = u THEN Policy.fullRepaymentPoints ELSE 0
    <3> TRUE \in BOOLEAN
      OBVIOUS
    <3> QED
      BY <1>3, LifetimeFacts
  <2>2. CASE final
    BY <1>a, <2>1, <2>2
  <2>3. CASE ~final
    BY <1>a, <1>f, <1>3, <2>3
  <2> QED
    BY <2>2, <2>3
<1>6. all[v].lifetime = rewards[v].lifetime + worth + bonus
  <2>1. rewards[v].lifetime \in Nat
    BY <1>f
  <2> QED
    BY <1>w, <1>2, <1>4, <1>5, <1>f, <2>1 DEF PaymentPoints, PaidPoints
<1> QED
  BY <1>w, <1>b, <1>p, <1>e, <1>a, <1>6 DEF PaymentRewarded, Lifetime

LEMMA ExplainedNext ==
  ASSUME TypeOK, ReferralsSound(referral), [Next]_vars, NEW v \in Users, Explained(v)
  PROVE  Explained(v)'
<1>0. /\ reputation \in ReputationType /\ rewards \in RewardsType
      /\ referral \in ReferralType /\ rewards[v].lifetime \in Nat
      /\ referral[v].earned \in Nat /\ reputation[v] \in HistoryType
      /\ TRUE \in BOOLEAN /\ FALSE \in BOOLEAN
  BY DEF TypeOK, ReputationType, RewardsType, RewardAccountType, ReferralType,
         ReferralEntryType
<1>p. /\ Policy.requestPoints \in Nat /\ Policy.approvalPoints \in Nat
      /\ Policy.onTimePoints \in Nat /\ Policy.latePoints \in Nat
      /\ Policy.fullRepaymentPoints \in Nat
  BY PolicyFacts
<1>1. ASSUME UNCHANGED standing
      PROVE  Explained(v)'
  BY <1>1 DEF standing, Explained
<1>2. ASSUME NEW u \in Users, Borrow(u)
      PROVE  Explained(v)'
  <2>1. /\ reputation' = RecordRequest(reputation, u)
        /\ rewards' = RewardRequest(rewards, u) /\ referral' = referral
    BY <1>2, OpenHistory
  <2>2. rewards'[v].lifetime
          = rewards[v].lifetime + IF v = u THEN Policy.requestPoints ELSE 0
    BY ZenonT(40), <1>0, <2>1, LifetimeFacts
  <2>3. CASE v # u
    <3>1. reputation'[v] = reputation[v]
      BY <1>0, <2>1, <2>3, HistoryFacts
    <3> QED
      BY <1>0, <2>1, <2>2, <2>3, <3>1, ExplainedStays
  <2>4. CASE v = u
    <3>1. Adds(reputation'[v], reputation[v], 1, 0, 0, 0, 0, 0)
      BY <1>0, <2>1, <2>4, HistoryFacts
    <3>2. /\ rewards'[v].lifetime = rewards[v].lifetime + Gain(1, 0, 0, 0, 0) + 0
          /\ referral'[v].earned = referral[v].earned + 0
      <4>1. Gain(1, 0, 0, 0, 0) = Policy.requestPoints /\ referral'[v] = referral[v]
        BY <2>1, GainFacts
      <4> QED
        BY <1>0, <1>p, <2>2, <2>4, <4>1
    <3>3. 0 \in Nat /\ 1 \in Nat
      OBVIOUS
    <3> QED
      BY <3>1, <3>2, <3>3, ExplainedStep
  <2> QED
    BY <2>3, <2>4
<1>3. ASSUME NEW i \in DOMAIN requests, NEW apr \in Aprs,
             NEW installment \in Installments, NEW grace \in Graces,
             ApproveRequest(i, apr, installment, grace)
      PROVE  Explained(v)'
  <2>0. PICK u \in Users : u = requests[i].borrower
    BY Entries DEF RequestType
  <2>b. PICK bonus \in Nat : bonus = Bonus(referral, u, TRUE, v)
    BY <1>0, ReferralLifetime
  <2>1. /\ reputation' = RecordApproval(reputation, u)
        /\ rewards' = RewardedWithReferral(RewardApproval(rewards, u), u, TRUE)
        /\ referral' = CreditReferrer(referral, u, TRUE)
    BY <1>3, <2>0 DEF ApproveRequest
  <2>2. /\ rewards'[v].lifetime = rewards[v].lifetime
             + (IF v = u THEN Policy.approvalPoints ELSE 0) + bonus
        /\ referral'[v].earned = referral[v].earned + bonus
    <3>1. /\ RewardApproval(rewards, u) \in RewardsType
          /\ RewardApproval(rewards, u)[v].lifetime
               = rewards[v].lifetime + IF v = u THEN Policy.approvalPoints ELSE 0
      BY ZenonT(40), <1>0, RewardsStep, LifetimeFacts
    <3>2. RewardedWithReferral(RewardApproval(rewards, u), u, TRUE)[v].lifetime
            = RewardApproval(rewards, u)[v].lifetime + Bonus(referral, u, TRUE, v)
      BY <1>0, <3>1, ReferralLifetime
    <3>3. CreditReferrer(referral, u, TRUE)[v].earned
            = referral[v].earned + Bonus(referral, u, TRUE, v)
      BY <1>0, <3>1, ReferralLifetime
    <3> QED
      BY <2>b, <2>1, <3>1, <3>2, <3>3
  <2>3. /\ rewards'[v].lifetime = rewards[v].lifetime
             + Gain(0, IF v = u THEN 1 ELSE 0, 0, 0, 0) + bonus
    BY <1>0, <2>2, GainFacts
  <2>4. Adds(reputation'[v], reputation[v], 0, IF v = u THEN 1 ELSE 0, 0, 0, 0, 0)
    BY <1>0, <2>1, HistoryFacts, AddsNothing
  <2>5. 0 \in Nat /\ (IF v = u THEN 1 ELSE 0) \in Nat
    OBVIOUS
  <2> QED
    BY <2>2, <2>3, <2>4, <2>5, ExplainedStep
<1>4. ASSUME NEW i \in DOMAIN loans, RepayInstallment(i)
      PROVE  Explained(v)'
  <2>u. PICK u \in Users : u = loans[i].borrower
    BY Entries DEF LoanType
  <2>o. PICK onTime \in BOOLEAN : onTime = (now <= loans[i].due + loans[i].grace)
    <3>1. now \in Int /\ loans[i].due + loans[i].grace \in Int
      BY Entries DEF TypeOK, LoanType
    <3>2. (now <= loans[i].due + loans[i].grace) \in BOOLEAN
      BY <3>1
    <3> QED
      BY <3>2, Zenon
  <2>f. PICK final \in BOOLEAN : final = (loans[i].paid + 1 = loans[i].total)
    OBVIOUS
  <2>1. /\ reputation' = PaymentRecorded(reputation, u, onTime, final)
        /\ rewards' = PaymentRewarded(rewards, u, onTime, final)
        /\ referral' = IF onTime THEN CreditReferrer(referral, u, FALSE) ELSE referral
    BY <1>4, <2>u, <2>o, <2>f DEF RepayInstallment, PaymentRecorded, PaymentRewarded
  <2>a. /\ Bonus(referral, u, FALSE, v) \in Nat
        /\ CreditReferrer(referral, u, FALSE)[v].earned
             = referral[v].earned + Bonus(referral, u, FALSE, v)
    BY <1>0, ReferralLifetime
  <2>b. PICK bonus \in Nat : bonus = PaidBonus(referral, u, onTime, v)
    BY <2>a DEF PaidBonus
  <2>w. PICK worth \in Nat : worth = PaidPoints(u, onTime, final, v)
    BY GainOfPayment DEF PaidPoints
  <2>2. rewards'[v].lifetime = rewards[v].lifetime + worth + bonus
    BY <2>1, <2>b, <2>w, PaymentLifetime DEF Lifetime
  <2>3. referral'[v].earned = referral[v].earned + bonus
    <3>1. CASE onTime
      BY <2>1, <2>a, <2>b, <3>1 DEF PaidBonus
    <3>2. CASE ~onTime
      BY <1>0, <2>1, <2>b, <3>2 DEF PaidBonus
    <3> QED
      BY <3>1, <3>2
  <2>4. CASE v # u
    <3>1. Adds(reputation'[v], reputation[v], 0, 0, 0, 0, 0, 0)
      BY <1>0, <2>1, <2>4, PaymentFacts, AddsNothing
    <3>2. rewards'[v].lifetime = rewards[v].lifetime + Gain(0, 0, 0, 0, 0) + bonus
      BY <1>0, <2>2, <2>4, <2>w, GainFacts DEF PaidPoints
    <3>3. 0 \in Nat
      OBVIOUS
    <3> QED
      BY <2>3, <3>1, <3>2, <3>3, ExplainedStep
  <2>5. CASE v = u
    <3> DEFINE n == IF final THEN 1 ELSE 0
               p == IF onTime THEN 1 ELSE 0
               q == IF onTime THEN 0 ELSE 1
    <3>1. n \in Nat /\ p \in Nat /\ q \in Nat /\ 0 \in Nat
      OBVIOUS
    <3>2. Adds(reputation'[v], reputation[v], 0, 0, n, 0, p, q)
      BY <1>0, <2>1, <2>5, PaymentFacts
    <3>3. Gain(0, 0, n, p, q) = PaymentPoints(onTime, final)
      BY GainOfPayment
    <3>4. rewards'[v].lifetime = rewards[v].lifetime + Gain(0, 0, n, p, q) + bonus
      BY <2>2, <2>5, <2>w, <3>3 DEF PaidPoints
    <3> HIDE DEF n, p, q
    <3> QED
      BY <2>3, <3>1, <3>2, <3>4, ExplainedStep
  <2> QED
    BY <2>4, <2>5
<1>5. ASSUME NEW i \in DOMAIN loans, MarkDefault(i)
      PROVE  Explained(v)'
  <2>0. PICK u \in Users : u = loans[i].borrower
    BY Entries DEF LoanType
  <2>1. /\ reputation' = RecordDefault(reputation, u)
        /\ rewards' = PenalizeDefault(rewards, u)
        /\ referral' = MarkReferralDefault(referral, u)
    BY <1>5, <2>0 DEF MarkDefault
  <2>2. /\ rewards'[v].lifetime = rewards[v].lifetime
        /\ referral'[v].earned = referral[v].earned
    BY ZenonT(40), <1>0, <2>1, LifetimeFacts, DefaultKeepsSound
  <2>3. Adds(reputation'[v], reputation[v], 0, 0, 0, IF v = u THEN 1 ELSE 0, 0, 0)
    BY <1>0, <2>1, HistoryFacts, AddsNothing
  <2>4. /\ rewards'[v].lifetime = rewards[v].lifetime + Gain(0, 0, 0, 0, 0) + 0
        /\ referral'[v].earned = referral[v].earned + 0
    <3>1. Gain(0, 0, 0, 0, 0) = 0
      BY GainFacts
    <3> QED
      BY <1>0, <2>2, <3>1
  <2>5. 0 \in Nat /\ (IF v = u THEN 1 ELSE 0) \in Nat
    OBVIOUS
  <2> QED
    BY <2>3, <2>4, <2>5, ExplainedStep
<1>6. ASSUME NEW u \in Users, Refer(u)
      PROVE  Explained(v)'
  <2>1. CASE GenerateCode(u) \/ \E r \in Users : ApplyCode(u, r)
    <3>1. /\ reputation' = reputation /\ rewards' = rewards
          /\ referral'[v].earned = referral[v].earned
      BY <1>0, <2>1, CodeKeepsEarned DEF GenerateCode, ApplyCode
    <3> QED
      BY <3>1, ExplainedStays
  <2>2. ASSUME NEW firstLoan \in BOOLEAN, RewardReferrer(u, firstLoan)
        PROVE  Explained(v)'
    <3>b. PICK bonus \in Nat : bonus = Bonus(referral, u, firstLoan, v)
      BY <1>0, ReferralLifetime
    <3>1. /\ reputation' = reputation
          /\ rewards'[v].lifetime = rewards[v].lifetime + bonus
          /\ referral'[v].earned = referral[v].earned + bonus
      BY <1>0, <2>2, <3>b, ReferralLifetime DEF RewardReferrer
    <3>2. /\ Adds(reputation'[v], reputation[v], 0, 0, 0, 0, 0, 0)
          /\ rewards'[v].lifetime = rewards[v].lifetime + Gain(0, 0, 0, 0, 0) + bonus
      BY <1>0, <3>1, AddsNothing, GainFacts
    <3>3. 0 \in Nat
      OBVIOUS
    <3> QED
      BY <3>1, <3>2, <3>3, ExplainedStep
  <2> QED
    BY <1>6, <2>1, <2>2 DEF Refer
<1>7. CASE Administer \/ Tick \/ UNCHANGED vars
  BY <1>1, <1>7 DEF Administer, DepositLiquidity, WithdrawSeizedCollateral, SetPause,
                    Tick, vars, standing
<1>8. ASSUME NEW i \in DOMAIN requests, NEW outcome, CloseRequest(i, outcome)
      PROVE  Explained(v)'
  BY <1>1, <1>8 DEF CloseRequest
<1> QED
  BY <1>2, <1>3, <1>4, <1>5, <1>6, <1>7, <1>8
  DEF Next, Decide, RejectRequest, CancelRequest, Service

LEMMA PointsOfEach == PointsExplained <=> \A u \in Users : Explained(u)
BY DEF PointsExplained, Explained, Worth

LEMMA PointsStart == Init => PointsExplained
<1> SUFFICES ASSUME Init, NEW u \in Users PROVE Explained(u)
  BY PointsOfEach
<1>1. rewards[u].lifetime = 0 /\ referral[u].earned = 0
  BY DEF Init, NoRewards, NoReferrals
<1>2. /\ reputation[u].requested = 0 /\ reputation[u].approved = 0
      /\ reputation[u].repaid = 0 /\ reputation[u].onTime = 0
      /\ reputation[u].late = 0
  BY DEF Init, NoHistory
<1>3. Worth(reputation[u]) = Gain(0, 0, 0, 0, 0)
  BY <1>2 DEF Worth, Gain
<1> QED
  BY <1>1, <1>3, GainFacts DEF Explained

LEMMA PointsStep == TypeOK /\ ReferralsSound(referral) /\ PointsExplained /\ [Next]_vars
  => PointsExplained'
<1> SUFFICES ASSUME TypeOK, ReferralsSound(referral), PointsExplained, [Next]_vars
             PROVE  PointsExplained'
  OBVIOUS
<1>1. \A u \in Users : Explained(u)'
  BY PointsOfEach, ExplainedNext
<1>2. (PointsExplained <=> \A u \in Users : Explained(u))'
  BY PointsOfEach, PTL
<1> QED
  BY <1>1, <1>2

\* Every point a user was ever granted comes from an event in the history or
\* from a referral on record: no hook is skipped, doubled or paid to another.
THEOREM PointsExplainedAlways == Spec => []PointsExplained
<1>1. Init => PointsExplained
  BY PointsStart
<1>2. TypeOK /\ ReferralsSound(referral) /\ PointsExplained /\ [Next]_vars
        => PointsExplained'
  BY PointsStep
<1> QED
  BY <1>1, <1>2, ReferralsSoundAlways, PTL DEF Spec

=============================================================================
