--------------------------- MODULE LoanBook_proofs ---------------------------
(***************************************************************************)
(* Machine-checked facts about LoanBook, for every set of users, policy,     *)
(* profiles, inputs and bounds that the assumptions of the modules admit.   *)
(***************************************************************************)
EXTENDS LoanBook, TLAPS

-----------------------------------------------------------------------------
(* Arithmetic of the policy.                                                *)

\* Every policy field the credit life cycle reads is a natural number.
LEMMA PolicyFacts ==
  /\ Policy.originationFeeBps \in Nat /\ Policy.lateFeeBps \in Nat
  /\ Policy.requestPoints \in Nat /\ Policy.approvalPoints \in Nat
  /\ Policy.onTimePoints \in Nat /\ Policy.latePoints \in Nat
  /\ Policy.fullRepaymentPoints \in Nat /\ Policy.defaultPenalty \in Nat
  /\ Policy.lendPerPointBps \in Nat
  /\ \A t \in 1..4 : Policy.tierMin[t] \in Nat /\ Policy.tierFeeDiscountBps[t] \in Nat
<1>1. Policy \in PolicyType
  BY PolicyAssumption
<1>2. /\ Policy.originationFeeBps \in 0..BPS /\ Policy.lateFeeBps \in 0..BPS
      /\ Policy.requestPoints \in Nat /\ Policy.approvalPoints \in Nat
      /\ Policy.onTimePoints \in Nat /\ Policy.latePoints \in Nat
      /\ Policy.fullRepaymentPoints \in Nat /\ Policy.defaultPenalty \in Nat
      /\ Policy.lendPerPointBps \in Nat
  BY <1>1 DEF PolicyType
<1>3. Policy.tierMin \in [Tiers -> Nat] /\ Policy.tierFeeDiscountBps \in [Tiers -> Nat]
  BY <1>1, Zenon DEF PolicyType
<1>4. Policy.originationFeeBps \in Nat /\ Policy.lateFeeBps \in Nat
  <2>1. \A rate \in 0..BPS : rate \in Nat
    OBVIOUS
  <2> QED
    BY <1>2, <2>1, Zenon
<1>5. \A t \in 1..4 : Policy.tierMin[t] \in Nat /\ Policy.tierFeeDiscountBps[t] \in Nat
  BY <1>3 DEF Tiers
<1> QED
  BY <1>2, <1>4, <1>5

\* A product of naturals is a natural, and so is a share of it in basis points.
LEMMA BpsShare ==
  ASSUME NEW a \in Nat, NEW b \in Nat
  PROVE  a * b \in Nat /\ (a * b) \div BPS \in Nat
<1>1. a * b \in Nat
  OBVIOUS
<1>2. \A n \in Nat : n \div BPS \in Nat
  BY DEF BPS
<1> QED
  BY <1>1, <1>2

LEMMA PointsToLendType ==
  ASSUME NEW points \in Nat
  PROVE  PointsToLend(points) \in Nat
BY BpsShare, PolicyFacts DEF PointsToLend

LEMMA TierDiscountType ==
  ASSUME NEW balance \in Nat
  PROVE  /\ TierFor(balance) \in 0..4
         /\ TierFeeDiscount(balance) \in Nat
         /\ TierAprDiscount(balance) \in Nat
<1>1. TierFor(balance) \in 0..4
  BY DEF TierFor
<1>2. TierFeeDiscount(balance) \in Nat
  BY <1>1, PolicyFacts DEF TierFeeDiscount
<1>3. TierAprDiscount(balance) \in Nat
  BY <1>1 DEF TierAprDiscount
<1> QED
  BY <1>1, <1>2, <1>3

\* A discount that does not abort leaves a natural amount.
LEMMA ApplyDiscountType ==
  ASSUME NEW amount \in Nat, NEW bps \in Nat, CanDiscount(amount, bps)
  PROVE  ApplyDiscount(amount, bps) \in Nat
BY BpsShare DEF CanDiscount, ApplyDiscount

LEMMA FeeBaseType ==
  ASSUME NEW amount \in Nat
  PROVE  OriginationBase(amount) \in Nat /\ LateBase(amount) \in Nat
BY BpsShare, PolicyFacts DEF OriginationBase, LateBase

-----------------------------------------------------------------------------
(* The operators of the component modules preserve the types of their state. *)

\* Treasury operators, under the guards their callers establish.
LEMMA TreasuryStep ==
  ASSUME NEW t \in TreasuryType, NEW amount \in Nat
  PROVE  /\ DepositLiquidityTo(t, amount) \in TreasuryType
         /\ RecordRepayment(t, amount) \in TreasuryType
         /\ LockCollateral(t, amount) \in TreasuryType
         /\ CanDisburse(t, amount) => Disburse(t, amount) \in TreasuryType
         /\ CanUnlock(t, amount) => /\ ReleaseCollateral(t, amount) \in TreasuryType
                                    /\ LiquidateCollateral(t, amount) \in TreasuryType
         /\ CanWithdrawSeized(t, amount) => WithdrawFromSeized(t, amount) \in TreasuryType
         /\ CanSpendReserve(t, amount) => BurnProtocolLend(t, amount) \in TreasuryType
<1>1. \A x \in Nat : x + amount \in Nat
  OBVIOUS
<1>2. \A x \in Nat : x >= amount => x - amount \in Nat
  OBVIOUS
<1>3. /\ t.loanVault \in Nat /\ t.collateralVault \in Nat /\ t.seizedVault \in Nat
      /\ t.deposited \in Nat /\ t.disbursed \in Nat /\ t.repaid \in Nat
      /\ t.locked \in Nat /\ t.released \in Nat /\ t.liquidated \in Nat
      /\ t.rewardReserve \in Nat /\ t.lendBurned \in Nat
  BY DEF TreasuryType
<1>4. DepositLiquidityTo(t, amount) \in TreasuryType
  BY <1>1, <1>3, Zenon DEF DepositLiquidityTo, TreasuryType
<1>5. RecordRepayment(t, amount) \in TreasuryType
  BY <1>1, <1>3, Zenon DEF RecordRepayment, TreasuryType
<1>6. LockCollateral(t, amount) \in TreasuryType
  BY <1>1, <1>3, Zenon DEF LockCollateral, TreasuryType
<1>7. CanDisburse(t, amount) => Disburse(t, amount) \in TreasuryType
  BY <1>1, <1>2, <1>3, Zenon DEF CanDisburse, Disburse, TreasuryType
<1>8. CanUnlock(t, amount) => ReleaseCollateral(t, amount) \in TreasuryType
  BY <1>1, <1>2, <1>3, Zenon DEF CanUnlock, ReleaseCollateral, TreasuryType
<1>9. CanUnlock(t, amount) => LiquidateCollateral(t, amount) \in TreasuryType
  BY <1>1, <1>2, <1>3, Zenon DEF CanUnlock, LiquidateCollateral, TreasuryType
<1>10. CanWithdrawSeized(t, amount) => WithdrawFromSeized(t, amount) \in TreasuryType
  BY <1>1, <1>2, <1>3, Zenon DEF CanWithdrawSeized, WithdrawFromSeized, TreasuryType
<1>11. CanSpendReserve(t, amount) => BurnProtocolLend(t, amount) \in TreasuryType
  BY <1>1, <1>2, <1>3, Zenon DEF CanSpendReserve, BurnProtocolLend, TreasuryType
<1> QED
  BY <1>4, <1>5, <1>6, <1>7, <1>8, <1>9, <1>10, <1>11

\* LEND ledger operators; what is burned never exceeds the reserve.
LEMMA LendStep ==
  ASSUME NEW l \in LendType, NEW u \in Users, NEW amount \in Nat
  PROVE  /\ TotalBalance(l, u) \in Nat
         /\ Credit(l, u, amount) \in LendType
         /\ CanPay(l, u, amount) => Debit(l, u, amount) \in LendType
         /\ Burnable(l, amount) \in Nat
         /\ Burnable(l, amount) <= l.reserve
         /\ amount <= l.reserve => BurnReserve(l, amount) \in LendType
<1>1. TotalBalance(l, u) \in Nat
  BY DEF LendType, TotalBalance
<1>2. Credit(l, u, amount) \in LendType
  BY DEF LendType, Credit
<1>3. CanPay(l, u, amount) => Debit(l, u, amount) \in LendType
  BY DEF LendType, CanPay, Debit
<1>4. Burnable(l, amount) \in Nat /\ Burnable(l, amount) <= l.reserve
  BY DEF LendType, Burnable
<1>5. amount <= l.reserve => BurnReserve(l, amount) \in LendType
  <2> SUFFICES ASSUME amount <= l.reserve
               PROVE  BurnReserve(l, amount) \in LendType
    OBVIOUS
  <2>1. l.reserve - amount \in Nat /\ l.burned + amount \in Nat
    BY DEF LendType
  <2> QED
    BY <2>1, Zenon DEF LendType, BurnReserve
<1> QED
  BY <1>1, <1>2, <1>3, <1>4, <1>5

LEMMA ReputationStep ==
  ASSUME NEW rep \in ReputationType, NEW u \in Users, NEW onTime \in BOOLEAN
  PROVE  /\ RecordRequest(rep, u) \in ReputationType
         /\ RecordApproval(rep, u) \in ReputationType
         /\ RecordDefault(rep, u) \in ReputationType
         /\ RecordPayment(rep, u, onTime) \in ReputationType
         /\ RecordFullRepayment(rep, u) \in ReputationType
<1> USE DEF ReputationType, HistoryType
<1>1. RecordRequest(rep, u) \in ReputationType
  BY DEF RecordRequest
<1>2. RecordApproval(rep, u) \in ReputationType
  BY DEF RecordApproval
<1>3. RecordDefault(rep, u) \in ReputationType
  BY DEF RecordDefault
<1>4. RecordPayment(rep, u, onTime) \in ReputationType
  BY DEF RecordPayment
<1>5. RecordFullRepayment(rep, u) \in ReputationType
  BY DEF RecordFullRepayment
<1> QED
  BY <1>1, <1>2, <1>3, <1>4, <1>5

\* A grant of points to an account.
LEMMA GrantedType ==
  ASSUME NEW account \in RewardAccountType, NEW points \in Nat, NEW streak \in Nat
  PROVE  Granted(account, points, streak) \in RewardAccountType
<1>1. /\ account.points + points \in Nat
      /\ account.lifetime + points \in Nat
      /\ account.claimable + PointsToLend(points) \in Nat
  BY PointsToLendType DEF RewardAccountType
<1> QED
  BY <1>1, Zenon DEF Granted, RewardAccountType

\* A grant to an address outside Users, the 0x0 referrer, would change nothing.
LEMMA GrantPointsType ==
  ASSUME NEW rw \in RewardsType, NEW u, NEW points \in Nat, NEW streak,
         u \in Users => streak \in Nat
  PROVE  GrantPoints(rw, u, points, streak) \in RewardsType
<1>1. u \in Users => Granted(rw[u], points, streak) \in RewardAccountType
  BY GrantedType DEF RewardsType
<1> QED
  BY <1>1 DEF RewardsType, GrantPoints

LEMMA RewardsStep ==
  ASSUME NEW rw \in RewardsType, NEW u \in Users, NEW onTime \in BOOLEAN
  PROVE  /\ RewardRequest(rw, u) \in RewardsType
         /\ RewardApproval(rw, u) \in RewardsType
         /\ RewardFullRepayment(rw, u) \in RewardsType
         /\ RewardPayment(rw, u, onTime) \in RewardsType
         /\ PenalizeDefault(rw, u) \in RewardsType
<1>1. rw[u] \in RewardAccountType
  BY DEF RewardsType
<1>2. rw[u].streak \in Nat /\ rw[u].streak + 1 \in Nat
  BY <1>1 DEF RewardAccountType
<1>3. /\ RewardRequest(rw, u) \in RewardsType
      /\ RewardApproval(rw, u) \in RewardsType
      /\ RewardFullRepayment(rw, u) \in RewardsType
  BY <1>2, GrantPointsType, PolicyFacts
  DEF RewardRequest, RewardApproval, RewardFullRepayment
<1>4. RewardPayment(rw, u, onTime) \in RewardsType
  BY <1>2, GrantPointsType, PolicyFacts DEF RewardPayment
<1>5. Penalized(rw[u]) \in RewardAccountType
  <2> DEFINE penalty == IF rw[u].points > Policy.defaultPenalty
                        THEN Policy.defaultPenalty ELSE rw[u].points
  <2>1. rw[u].points - penalty \in Nat
    BY <1>1, PolicyFacts DEF RewardAccountType
  <2>2. [rw[u] EXCEPT !.points = @ - penalty, !.streak = 0] \in RewardAccountType
    BY <1>1, <2>1, Zenon DEF RewardAccountType
  <2> QED
    BY <2>2 DEF Penalized
<1>6. PenalizeDefault(rw, u) \in RewardsType
  BY <1>5 DEF PenalizeDefault, RewardsType
<1> QED
  BY <1>3, <1>4, <1>6

LEMMA ReferralStep ==
  ASSUME NEW ref \in ReferralType, NEW u \in Users, NEW r \in Users,
         NEW firstLoan \in BOOLEAN
  PROVE  /\ CreateRecord(ref, u) \in ReferralType
         /\ Link(ref, u, r) \in ReferralType
         /\ ReferrerPoints(firstLoan) \in Nat
         /\ CreditReferrer(ref, u, firstLoan) \in ReferralType
         /\ MarkReferralDefault(ref, u) \in ReferralType
<1> DEFINE E == ReferralEntryType
<1>1. \A v \in Users : ref[v] \in E
  BY DEF ReferralType
<1>2. CreateRecord(ref, u) \in ReferralType
  BY DEF CreateRecord, ReferralType, ReferralEntryType
<1>3. \A e \in E : Linked(e, r) \in E /\ Joined(e) \in E
  <2> SUFFICES ASSUME NEW e \in E PROVE Linked(e, r) \in E /\ Joined(e) \in E
    OBVIOUS
  <2>1. e.total + 1 \in Nat
    BY DEF ReferralEntryType
  <2>2. Linked(e, r) \in E
    BY Zenon DEF Linked, ReferralEntryType
  <2> QED
    BY <2>1, <2>2, Zenon DEF Joined, ReferralEntryType
<1>4. Link(ref, u, r) \in ReferralType
  BY <1>3 DEF Link, ReferralType
<1>5. ReferrerPoints(firstLoan) \in Nat
  BY DEF ReferrerPoints, FirstLoanPoints, InstallmentPoints
<1>6. \A e \in E : Rewarded(e, firstLoan) \in E
  <2> SUFFICES ASSUME NEW e \in E PROVE Rewarded(e, firstLoan) \in E
    OBVIOUS
  <2>1. (e.firstRewarded \/ firstLoan) \in BOOLEAN
    OBVIOUS
  <2>2. e.generated + ReferrerPoints(firstLoan) \in Nat
    BY <1>5 DEF ReferralEntryType
  <2> QED
    BY <2>1, <2>2, Zenon DEF Rewarded, ReferralEntryType
<1>7. \A e \in E, points \in Nat, b \in BOOLEAN : Earning(e, points, b) \in E
  <2> SUFFICES ASSUME NEW e \in E, NEW points \in Nat, NEW b \in BOOLEAN
               PROVE  Earning(e, points, b) \in E
    OBVIOUS
  <2>1. e.active \in Nat /\ e.active + 1 \in Nat /\ e.earned + points \in Nat
    BY DEF ReferralEntryType
  <2> QED
    BY <2>1, Zenon DEF Earning, ReferralEntryType
<1>8. Activates(ref, u, firstLoan) \in BOOLEAN
  BY DEF Activates
<1>9. CreditReferrer(ref, u, firstLoan) \in ReferralType
  BY <1>5, <1>6, <1>7, <1>8 DEF CreditReferrer, ReferralType
<1>10. \A e \in E : LosingOne(e) \in E /\ [e EXCEPT !.status = "defaulted"] \in E
  BY DEF LosingOne, ReferralEntryType
<1>11. ref[u].status \in {"none", "pending", "active", "defaulted"}
  BY <1>1 DEF ReferralEntryType
<1>12. MarkReferralDefault(ref, u) \in ReferralType
  BY <1>10, <1>11 DEF MarkReferralDefault, ReferralType
<1> QED
  BY <1>2, <1>4, <1>5, <1>9, <1>12

-----------------------------------------------------------------------------
(* Sequences: appending to one and replacing an element.                    *)

LEMMA SeqReplace ==
  ASSUME NEW S, NEW s \in Seq(S), NEW i \in DOMAIN s, NEW e \in S
  PROVE  /\ [s EXCEPT ![i] = e] \in Seq(S)
         /\ DOMAIN [s EXCEPT ![i] = e] = DOMAIN s
         /\ Len([s EXCEPT ![i] = e]) = Len(s)
         /\ [s EXCEPT ![i] = e][i] = e
         /\ \A j \in DOMAIN s : j # i => [s EXCEPT ![i] = e][j] = s[j]
<1>1. DOMAIN s = 1..Len(s) /\ Len(s) \in Nat /\ s \in [1..Len(s) -> S]
  OBVIOUS
<1>2. [s EXCEPT ![i] = e] \in [1..Len(s) -> S]
  BY <1>1
<1>3. [s EXCEPT ![i] = e] \in Seq(S) /\ Len([s EXCEPT ![i] = e]) = Len(s)
  BY <1>1, <1>2
<1> QED
  BY <1>1, <1>2, <1>3

LEMMA SeqAppend ==
  ASSUME NEW S, NEW s \in Seq(S), NEW e \in S
  PROVE  /\ Append(s, e) \in Seq(S)
         /\ Len(Append(s, e)) = Len(s) + 1
         /\ DOMAIN s = 1..Len(s) /\ Len(s) \in Nat
         /\ DOMAIN Append(s, e) = 1..(Len(s) + 1)
         /\ \A j \in DOMAIN s : Append(s, e)[j] = s[j]
         /\ Append(s, e)[Len(s) + 1] = e
OBVIOUS

LEMMA DecidedType ==
  ASSUME NEW r \in RequestType, NEW outcome \in {"approved", "rejected", "cancelled"}
  PROVE  Decided(r, outcome) \in RequestType
BY Zenon DEF Decided, RequestType

LEMMA AfterInstallmentType ==
  ASSUME NEW l \in LoanType
  PROVE  AfterInstallment(l) \in LoanType
<1>1. l.paid + 1 \in Nat /\ l.repaid + l.installment \in Nat /\ l.due \in Nat
  BY DEF LoanType
<1>2. l.due + Month \in Nat
  BY <1>1, LoanBookAssumption
<1> DEFINE final == l.paid + 1 = l.total
<1>3. (IF final THEN 0 ELSE l.due + Month) \in Nat
  BY <1>2
<1> QED
  BY <1>1, <1>3, Zenon DEF AfterInstallment, LoanType

LEMMA AfterDefaultType ==
  ASSUME NEW l \in LoanType
  PROVE  AfterDefault(l) \in LoanType
BY Zenon DEF AfterDefault, LoanType

LEMMA FeesStep ==
  ASSUME NEW fs \in FeesType, NEW loan, NEW u \in Users,
         NEW amount \in Nat, NEW balance \in Nat
  PROVE  /\ CanDiscount(OriginationBase(amount), TierFeeDiscount(balance))
              => AssessOriginationFee(fs, loan, u, amount, balance) \in FeesType
         /\ CanDiscount(LateBase(amount), TierFeeDiscount(balance))
              => AssessLateFee(fs, loan, u, amount, balance) \in FeesType
<1>1. StateFor(fs, loan, u) \in FeesType
  <2>1. [borrower |-> u, originationDue |-> 0, lateDue |-> 0, paid |-> 0] \in FeeStateType
    BY DEF FeeStateType
  <2> QED
    BY <2>1, SeqAppend DEF StateFor, FeesType
<1>2. PICK n \in Nat : StateFor(fs, loan, u) \in [1..n -> FeeStateType]
  BY <1>1 DEF FeesType
<1>3. \A f \in [1..n -> FeeStateType] : f \in FeesType
  BY DEF FeesType
<1>4. \A state \in FeeStateType, fee \in Nat :
        OwingOrigination(state, fee) \in FeeStateType /\ OwingLate(state, fee) \in FeeStateType
  BY DEF OwingOrigination, OwingLate, FeeStateType
<1>5. ASSUME CanDiscount(OriginationBase(amount), TierFeeDiscount(balance))
      PROVE  AssessOriginationFee(fs, loan, u, amount, balance) \in FeesType
  <2>1. OriginationFee(amount, balance) \in Nat
    BY <1>5, FeeBaseType, TierDiscountType, ApplyDiscountType DEF OriginationFee
  <2> QED
    BY <1>2, <1>3, <1>4, <2>1 DEF AssessOriginationFee
<1>6. ASSUME CanDiscount(LateBase(amount), TierFeeDiscount(balance))
      PROVE  AssessLateFee(fs, loan, u, amount, balance) \in FeesType
  <2>1. LateFee(amount, balance) \in Nat
    BY <1>6, FeeBaseType, TierDiscountType, ApplyDiscountType DEF LateFee
  <2> QED
    BY <1>2, <1>3, <1>4, <2>1 DEF AssessLateFee
<1> QED
  BY <1>5, <1>6

-----------------------------------------------------------------------------
(* TypeOK is inductive: it holds initially and every action preserves it.    *)

LEMMA TypeInit == Init => TypeOK
<1> SUFFICES ASSUME Init PROVE TypeOK
  OBVIOUS
<1>1. now \in Nat /\ paused \in BOOLEAN
  BY DEF Init
<1>2. requests \in Seq(RequestType) /\ loans \in Seq(LoanType) /\ fees \in FeesType
  BY DEF Init, FeesType
<1>3. treasury \in TreasuryType
  <2>1. InitialReserve + InitialDistributed \in Nat /\ 0 \in Nat
    BY LoanBookAssumption
  <2> QED
    BY <2>1, LoanBookAssumption, Zenon DEF Init, FundedTreasury, TreasuryType
<1>4. lend \in LendType
  BY LoanBookAssumption DEF Init, LendType
<1>5. reputation \in ReputationType
  BY DEF Init, NoHistory, ReputationType, HistoryType
<1>6. rewards \in RewardsType
  BY DEF Init, NoRewards, RewardsType, RewardAccountType
<1>7. referral \in ReferralType
  BY DEF Init, NoReferrals, ReferralType, ReferralEntryType
<1> QED
  BY <1>1, <1>2, <1>3, <1>4, <1>5, <1>6, <1>7 DEF TypeOK

\* What a reward to the referrer does to the registries.
LEMMA ReferralRewardType ==
  ASSUME TypeOK, NEW rw \in RewardsType, NEW u \in Users, NEW firstLoan \in BOOLEAN
  PROVE  RewardedWithReferral(rw, u, firstLoan) \in RewardsType
<1> DEFINE r == referral[u].referrer
<1>1. ReferrerPoints(firstLoan) \in Nat
  BY ReferralStep DEF TypeOK
<1>2. r \in Users => rw[r].streak \in Nat
  BY DEF RewardsType, RewardAccountType
<1> QED
  BY <1>1, <1>2, GrantPointsType DEF RewardedWithReferral, RewardReferral

LEMMA TypeOpen ==
  ASSUME TypeOK, NEW u \in Users, NEW p \in DOMAIN Profiles \cup {Unspecified},
         NEW amount \in Nat, NEW collateral \in Nat, NEW tenor \in Nat,
         OpenRequest(u, p, amount, collateral, tenor)
  PROVE  /\ now' \in Nat /\ paused' \in BOOLEAN
         /\ requests' \in Seq(RequestType) /\ loans' \in Seq(LoanType)
         /\ reputation' \in ReputationType /\ rewards' \in RewardsType
         /\ referral' \in ReferralType /\ fees' \in FeesType
<1> DEFINE r == [borrower |-> u, profile |-> p, amount |-> amount,
                 collateral |-> collateral, tenor |-> tenor, status |-> "pending"]
<1>1. r \in RequestType
  BY DEF RequestType
<1>2. requests' \in Seq(RequestType)
  BY <1>1, SeqAppend DEF OpenRequest, TypeOK
<1>3. reputation' \in ReputationType /\ rewards' \in RewardsType
  BY ReputationStep, RewardsStep DEF OpenRequest, TypeOK
<1> QED
  BY <1>2, <1>3 DEF OpenRequest, TypeOK

LEMMA TypeBorrow ==
  ASSUME TypeOK, NEW u \in Users, Borrow(u)
  PROVE  TypeOK'
<1>1. PICK amount \in Amounts, tenor \in Tenors :
        \/ RequestLoan(u, amount, tenor)
        \/ \E p \in DOMAIN Profiles : RequestProfiledLoan(u, p, amount, tenor)
        \/ \E p \in DOMAIN Profiles, collateral \in Collaterals :
             RequestCollateralizedLoan(u, p, amount, collateral, tenor)
  BY DEF Borrow
<1>2. amount \in Nat /\ tenor \in Nat /\ 0 \in Nat
  BY LoanBookAssumption
<1>3. CASE RequestLoan(u, amount, tenor)
  BY <1>2, <1>3, TypeOpen DEF RequestLoan, money, TypeOK
<1>4. CASE \E p \in DOMAIN Profiles : RequestProfiledLoan(u, p, amount, tenor)
  BY <1>2, <1>4, TypeOpen DEF RequestProfiledLoan, money, TypeOK
<1>5. CASE \E p \in DOMAIN Profiles, collateral \in Collaterals :
             RequestCollateralizedLoan(u, p, amount, collateral, tenor)
  <2>1. PICK p \in DOMAIN Profiles, collateral \in Collaterals :
             RequestCollateralizedLoan(u, p, amount, collateral, tenor)
    BY <1>5
  <2>2. collateral \in Nat
    BY LoanBookAssumption
  <2>3. lend' \in LendType /\ treasury' \in TreasuryType
    BY <2>1, <2>2, LendStep, TreasuryStep DEF RequestCollateralizedLoan, TypeOK
  <2> QED
    BY <1>2, <2>1, <2>2, <2>3, TypeOpen DEF RequestCollateralizedLoan, TypeOK
<1> QED
  BY <1>1, <1>3, <1>4, <1>5

LEMMA NewLoanType ==
  ASSUME TypeOK, NEW i \in DOMAIN requests, NEW apr \in Nat,
         NEW installment \in Nat, NEW grace \in Nat
  PROVE  NewLoan(i, apr, installment, grace) \in LoanType
<1> DEFINE u == requests[i].borrower
<1>1. requests[i] \in RequestType /\ i \in Nat
  BY DEF TypeOK
<1>2. /\ u \in Users /\ requests[i].amount \in Nat
      /\ requests[i].collateral \in Nat /\ requests[i].tenor \in Nat
  BY <1>1 DEF RequestType
<1>3. TierAprDiscount(TotalBalance(lend, u)) \in Nat
  BY <1>2, LendStep, TierDiscountType DEF TypeOK
<1>4. rewards[u].interestDiscountBps \in Nat
  BY <1>2 DEF TypeOK, RewardsType, RewardAccountType
<1>5. EffectiveApr(u, apr) \in Nat
  BY <1>3, <1>4 DEF EffectiveApr, MinEffectiveApr
<1>6. now \in Nat /\ now + Month \in Nat /\ 0 \in Nat
  BY LoanBookAssumption DEF TypeOK
<1>7. (IF requests[i].collateral > 0 THEN "locked" ELSE "none")
        \in {"none", "locked", "returned", "liquidated"}
  OBVIOUS
<1> QED
  BY <1>1, <1>2, <1>5, <1>6, <1>7, Zenon DEF NewLoan, LoanType

LEMMA TypeApprove ==
  ASSUME TypeOK, NEW i \in DOMAIN requests, NEW apr \in Aprs,
         NEW installment \in Installments, NEW grace \in Graces,
         ApproveRequest(i, apr, installment, grace)
  PROVE  TypeOK'
<1> DEFINE r == requests[i]
           u == r.borrower
           balance == TotalBalance(lend, u)
<1>1. apr \in Nat /\ installment \in Nat /\ grace \in Nat
  BY LoanBookAssumption
<1>2. r \in RequestType
  BY DEF TypeOK
<1>3. u \in Users /\ r.amount \in Nat
  BY <1>2 DEF RequestType
<1>4. requests' \in Seq(RequestType)
  BY <1>2, DecidedType, SeqReplace DEF ApproveRequest, TypeOK
<1>5. loans' \in Seq(LoanType)
  BY <1>1, NewLoanType, SeqAppend DEF ApproveRequest, TypeOK
<1>6. treasury' \in TreasuryType
  BY <1>3, TreasuryStep DEF ApproveRequest, TypeOK
<1>7. reputation' \in ReputationType
  BY <1>3, ReputationStep DEF ApproveRequest, TypeOK
<1>8. rewards' \in RewardsType
  BY <1>3, RewardsStep, ReferralRewardType DEF ApproveRequest, TypeOK
<1>9. referral' \in ReferralType
  BY <1>3, ReferralStep DEF ApproveRequest, TypeOK
<1>10. balance \in Nat
  BY <1>3, LendStep DEF TypeOK
<1>11. fees' \in FeesType
  BY <1>3, <1>10, FeesStep DEF ApproveRequest, TypeOK
<1> QED
  BY <1>4, <1>5, <1>6, <1>7, <1>8, <1>9, <1>11 DEF ApproveRequest, TypeOK

LEMMA TypeClose ==
  ASSUME TypeOK, NEW i \in DOMAIN requests, RejectRequest(i) \/ CancelRequest(i)
  PROVE  TypeOK'
<1> DEFINE r == requests[i]
<1>1. PICK outcome \in {"rejected", "cancelled"} : CloseRequest(i, outcome)
  BY DEF RejectRequest, CancelRequest
<1>2. r \in RequestType
  BY DEF TypeOK
<1>3. r.borrower \in Users /\ r.collateral \in Nat
  BY <1>2 DEF RequestType
<1>4. requests' \in Seq(RequestType)
  BY <1>1, <1>2, DecidedType, SeqReplace DEF CloseRequest, TypeOK
<1>5. treasury' \in TreasuryType /\ lend' \in LendType
  BY <1>1, <1>3, TreasuryStep, LendStep DEF CloseRequest, TypeOK
<1> QED
  BY <1>1, <1>4, <1>5 DEF CloseRequest, standing, TypeOK

\* What a settlement frees is the collateral of the loan or nothing.
LEMMA FreedType ==
  ASSUME NEW l \in LoanType, NEW settles \in BOOLEAN
  PROVE  Freed(l, settles) \in Nat
BY DEF Freed, LoanType

\* A release and a burn after a repayment; they touch different vaults.
LEMMA TreasuryRepayment ==
  ASSUME NEW t \in TreasuryType, NEW paid \in Nat, NEW refund \in Nat, NEW burn \in Nat,
         CanUnlock(t, refund), CanSpendReserve(t, burn)
  PROVE  BurnProtocolLend(ReleaseCollateral(RecordRepayment(t, paid), refund), burn)
           \in TreasuryType
<1> DEFINE t1 == RecordRepayment(t, paid)
           t2 == ReleaseCollateral(t1, refund)
<1>1. t1 \in TreasuryType /\ t1.collateralVault = t.collateralVault
                         /\ t1.rewardReserve = t.rewardReserve
  BY TreasuryStep, Zenon DEF RecordRepayment, TreasuryType
<1>2. CanUnlock(t1, refund)
  BY <1>1 DEF CanUnlock
<1>3. t2 \in TreasuryType
  BY <1>1, <1>2, TreasuryStep
<1>4. t2.rewardReserve = t1.rewardReserve
  BY <1>1, Zenon DEF ReleaseCollateral, TreasuryType
<1>5. CanSpendReserve(t2, burn)
  BY <1>1, <1>4 DEF CanSpendReserve
<1> QED
  BY <1>3, <1>5, TreasuryStep

LEMMA TypeRepay ==
  ASSUME TypeOK, NEW i \in DOMAIN loans, RepayInstallment(i)
  PROVE  TypeOK'
<1> DEFINE loan == loans[i]
           u == loan.borrower
           onTime == now <= loan.due + loan.grace
           final == loan.paid + 1 = loan.total
           refund == Freed(loan, final)
           burn == IF final THEN Burnable(lend, BurnForFullRepayment(loan.amount)) ELSE 0
           balance == TotalBalance(lend, u)
           paidRewards == RewardPayment(rewards, u, onTime)
           recorded == RecordPayment(reputation, u, onTime)
<1>1. loan \in LoanType
  BY DEF TypeOK
<1>2. u \in Users /\ loan.installment \in Nat /\ loan.amount \in Nat
  BY <1>1 DEF LoanType
<1>3. refund \in Nat /\ balance \in Nat
  BY <1>1, <1>2, FreedType, LendStep DEF TypeOK
<1>4. BurnForFullRepayment(loan.amount) \in Nat
  BY <1>2 DEF BurnForFullRepayment
<1>5. burn \in Nat /\ burn <= lend.reserve
  <2>1. lend.reserve \in Nat
    BY DEF TypeOK, LendType
  <2> QED
    BY <1>2, <1>4, <2>1, LendStep DEF TypeOK
<1>6. loans' \in Seq(LoanType)
  BY <1>1, AfterInstallmentType, SeqReplace DEF RepayInstallment, TypeOK
<1>7. treasury' \in TreasuryType
  BY <1>2, <1>3, <1>5, TreasuryRepayment DEF RepayInstallment, TypeOK
<1>8. lend' \in LendType
  <2>1. Credit(lend, u, refund) \in LendType /\ Credit(lend, u, refund).reserve = lend.reserve
    BY <1>2, <1>3, LendStep DEF TypeOK, Credit, LendType
  <2> QED
    BY <1>2, <1>5, <2>1, LendStep DEF RepayInstallment
<1>9. onTime \in BOOLEAN
  OBVIOUS
<1>10. reputation' \in ReputationType
  BY <1>2, <1>9, ReputationStep DEF RepayInstallment, TypeOK
<1>11. rewards' \in RewardsType
  <2>1. paidRewards \in RewardsType
    BY <1>2, <1>9, RewardsStep DEF TypeOK
  <2>2. RewardedWithReferral(paidRewards, u, FALSE) \in RewardsType
    BY <1>2, <2>1, ReferralRewardType
  <2> QED
    BY <1>2, <2>1, <2>2, RewardsStep DEF RepayInstallment
<1>12. referral' \in ReferralType
  BY <1>2, ReferralStep DEF RepayInstallment, TypeOK
<1>13. fees' \in FeesType
  BY <1>2, <1>3, FeesStep DEF RepayInstallment, TypeOK
<1> QED
  BY <1>6, <1>7, <1>8, <1>10, <1>11, <1>12, <1>13 DEF RepayInstallment, TypeOK

LEMMA TypeDefault ==
  ASSUME TypeOK, NEW i \in DOMAIN loans, MarkDefault(i)
  PROVE  TypeOK'
<1> DEFINE loan == loans[i]
<1>1. loan \in LoanType
  BY DEF TypeOK
<1>2. loan.borrower \in Users /\ Freed(loan, TRUE) \in Nat
  BY <1>1, FreedType DEF LoanType
<1>3. loans' \in Seq(LoanType)
  BY <1>1, AfterDefaultType, SeqReplace DEF MarkDefault, TypeOK
<1>4. treasury' \in TreasuryType
  BY <1>2, TreasuryStep DEF MarkDefault, TypeOK
<1>5. /\ reputation' \in ReputationType /\ rewards' \in RewardsType
      /\ referral' \in ReferralType
  BY <1>2, ReputationStep, RewardsStep, ReferralStep DEF MarkDefault, TypeOK
<1> QED
  BY <1>3, <1>4, <1>5 DEF MarkDefault, TypeOK

LEMMA TypeRefer ==
  ASSUME TypeOK, NEW u \in Users, Refer(u)
  PROVE  TypeOK'
<1>1. CASE GenerateCode(u)
  BY <1>1, ReferralStep DEF GenerateCode, TypeOK, book, money
<1>2. CASE \E r \in Users : ApplyCode(u, r)
  BY <1>2, ReferralStep DEF ApplyCode, TypeOK, book, money
<1>3. CASE \E firstLoan \in BOOLEAN : RewardReferrer(u, firstLoan)
  <2>1. PICK firstLoan \in BOOLEAN : RewardReferrer(u, firstLoan)
    BY <1>3
  <2>2. referral' \in ReferralType
    BY <2>1, ReferralStep DEF RewardReferrer, TypeOK
  <2>3. rewards' \in RewardsType
    BY <2>1, ReferralRewardType DEF RewardReferrer, TypeOK
  <2> QED
    BY <2>1, <2>2, <2>3 DEF RewardReferrer, TypeOK, book, money
<1> QED
  BY <1>1, <1>2, <1>3 DEF Refer

LEMMA TypeAdminister ==
  ASSUME TypeOK, Administer
  PROVE  TypeOK'
<1>1. CASE \E amount \in Deposits : DepositLiquidity(amount)
  BY <1>1, TreasuryStep, LoanBookAssumption DEF DepositLiquidity, TypeOK, book, standing
<1>2. CASE \E u \in Users, amount \in Collaterals : WithdrawSeizedCollateral(u, amount)
  <2>1. PICK u \in Users, amount \in Collaterals : WithdrawSeizedCollateral(u, amount)
    BY <1>2
  <2>2. treasury' \in TreasuryType /\ lend' \in LendType
    BY <2>1, TreasuryStep, LendStep, LoanBookAssumption DEF WithdrawSeizedCollateral, TypeOK
  <2> QED
    BY <2>1, <2>2 DEF WithdrawSeizedCollateral, TypeOK, book, standing
<1>3. CASE \E value \in BOOLEAN : SetPause(value)
  BY <1>3 DEF SetPause, TypeOK, book, money, standing
<1> QED
  BY <1>1, <1>2, <1>3 DEF Administer

LEMMA TypeNext == TypeOK /\ [Next]_vars => TypeOK'
<1> SUFFICES ASSUME TypeOK, [Next]_vars PROVE TypeOK'
  OBVIOUS
<1>1. CASE \E u \in Users : Borrow(u) \/ Refer(u)
  BY <1>1, TypeBorrow, TypeRefer
<1>2. CASE \E i \in DOMAIN requests : Decide(i)
  BY <1>2, TypeApprove, TypeClose DEF Decide
<1>3. CASE \E i \in DOMAIN loans : Service(i)
  BY <1>3, TypeRepay, TypeDefault DEF Service
<1>4. CASE Administer
  BY <1>4, TypeAdminister
<1>5. CASE Tick
  BY <1>5 DEF Tick, TypeOK, book, money, standing
<1>6. CASE UNCHANGED vars
  BY <1>6 DEF TypeOK, vars
<1> QED
  BY <1>1, <1>2, <1>3, <1>4, <1>5, <1>6 DEF Next

\* Every reachable state has the declared types: in particular no vault, balance
\* or counter of the contracts is ever driven below zero, so no u64 subtraction
\* of these handlers underflows.
THEOREM TypeCorrect == Spec => []TypeOK
BY TypeInit, TypeNext, PTL DEF Spec

-----------------------------------------------------------------------------
(* The safety of the book of requests and loans.  All of it follows from     *)
(* what a transaction may do to the two tables: BookStep lists it, BookSteps *)
(* shows nothing else happens, and each property is then inductive over      *)
(* BookStep.                                                                *)

Opens ==
  \E r \in RequestType :
    /\ r.status = "pending" /\ ~HasPending(r.borrower) /\ ~HasActive(r.borrower)
    /\ requests' = Append(requests, r) /\ loans' = loans

\* The loan that an approval appends.
Originates(i, l) ==
  LET r == requests[i]
  IN /\ r.status = "pending" /\ ~HasActive(r.borrower) /\ r.tenor > 0
     /\ l \in LoanType /\ l.status = "active" /\ l.request = i
     /\ l.borrower = r.borrower /\ l.amount = r.amount
     /\ l.collateral = r.collateral /\ l.total = r.tenor
     /\ l.paid = 0 /\ l.repaid = 0 /\ l.due = l.issued + Month
     /\ l.collateralState = IF r.collateral > 0 THEN "locked" ELSE "none"

Approves ==
  \E i \in DOMAIN requests, l \in LoanType :
    /\ Originates(i, l)
    /\ requests' = [requests EXCEPT ![i] = Decided(@, "approved")]
    /\ loans' = Append(loans, l)

Closes ==
  \E i \in DOMAIN requests, outcome \in {"rejected", "cancelled"} :
    /\ requests[i].status = "pending"
    /\ requests' = [requests EXCEPT ![i] = Decided(@, outcome)] /\ loans' = loans

Pays ==
  \E i \in DOMAIN loans :
    /\ loans[i].status = "active" /\ loans[i].paid < loans[i].total
    /\ loans' = [loans EXCEPT ![i] = AfterInstallment(@)] /\ requests' = requests

Defaults ==
  \E i \in DOMAIN loans :
    /\ loans[i].status = "active"
    /\ loans' = [loans EXCEPT ![i] = AfterDefault(@)] /\ requests' = requests

BookStep == Opens \/ Approves \/ Closes \/ Pays \/ Defaults \/ UNCHANGED book

LEMMA OpenIsStep ==
  ASSUME TypeOK, NEW u \in Users, NEW p \in DOMAIN Profiles \cup {Unspecified},
         NEW amount \in Nat, NEW collateral \in Nat, NEW tenor \in Nat,
         OpenRequest(u, p, amount, collateral, tenor)
  PROVE  Opens
<1> DEFINE r == [borrower |-> u, profile |-> p, amount |-> amount,
                 collateral |-> collateral, tenor |-> tenor, status |-> "pending"]
<1>1. r \in RequestType
  BY DEF RequestType
<1>2. r.status = "pending" /\ r.borrower = u
  OBVIOUS
<1> QED
  BY <1>1, <1>2 DEF OpenRequest, Opens

LEMMA BorrowIsStep ==
  ASSUME TypeOK, NEW u \in Users, Borrow(u)
  PROVE  Opens
<1>1. PICK amount \in Amounts, tenor \in Tenors :
        \/ RequestLoan(u, amount, tenor)
        \/ \E p \in DOMAIN Profiles : RequestProfiledLoan(u, p, amount, tenor)
        \/ \E p \in DOMAIN Profiles, collateral \in Collaterals :
             RequestCollateralizedLoan(u, p, amount, collateral, tenor)
  BY DEF Borrow
<1>2. amount \in Nat /\ tenor \in Nat /\ 0 \in Nat /\ Collaterals \subseteq Nat
  BY LoanBookAssumption
<1> QED
  BY <1>1, <1>2, OpenIsStep
  DEF RequestLoan, RequestProfiledLoan, RequestCollateralizedLoan

LEMMA ApproveIsStep ==
  ASSUME TypeOK, NEW i \in DOMAIN requests, NEW apr \in Aprs,
         NEW installment \in Installments, NEW grace \in Graces,
         ApproveRequest(i, apr, installment, grace)
  PROVE  Approves
<1> DEFINE l == NewLoan(i, apr, installment, grace)
<1>1. l \in LoanType
  BY LoanBookAssumption, NewLoanType
<1>2. Originates(i, l)
  <2>1. /\ l.status = "active" /\ l.request = i
        /\ l.borrower = requests[i].borrower /\ l.amount = requests[i].amount
        /\ l.collateral = requests[i].collateral /\ l.total = requests[i].tenor
        /\ l.paid = 0 /\ l.repaid = 0 /\ l.due = l.issued + Month
        /\ l.collateralState = IF requests[i].collateral > 0 THEN "locked" ELSE "none"
    BY DEF NewLoan
  <2> QED
    BY <1>1, <2>1 DEF Originates, ApproveRequest
<1> QED
  BY <1>1, <1>2 DEF ApproveRequest, Approves

\* Every step of the specification does one of these things to the tables.
LEMMA BookSteps ==
  ASSUME TypeOK, [Next]_vars
  PROVE  BookStep
<1>1. CASE \E u \in Users : Borrow(u)
  BY <1>1, BorrowIsStep DEF BookStep
<1>2. CASE \E u \in Users : Refer(u)
  BY <1>2 DEF Refer, GenerateCode, ApplyCode, RewardReferrer, book, BookStep
<1>3. CASE \E i \in DOMAIN requests : Decide(i)
  <2>1. PICK i \in DOMAIN requests : Decide(i)
    BY <1>3
  <2>2. CASE RejectRequest(i) \/ CancelRequest(i)
    BY <2>2 DEF RejectRequest, CancelRequest, CloseRequest, Closes, BookStep
  <2> QED
    BY <2>1, <2>2, ApproveIsStep DEF Decide, BookStep
<1>4. CASE \E i \in DOMAIN loans : Service(i)
  <2>1. PICK i \in DOMAIN loans : Service(i)
    BY <1>4
  <2>2. CASE RepayInstallment(i)
    BY <2>2 DEF RepayInstallment, Pays, BookStep
  <2>3. CASE MarkDefault(i)
    BY <2>3 DEF MarkDefault, Defaults, BookStep
  <2> QED
    BY <2>1, <2>2, <2>3 DEF Service
<1>5. CASE Administer
  BY <1>5 DEF Administer, DepositLiquidity, WithdrawSeizedCollateral, SetPause, book,
              BookStep
<1>6. CASE Tick
  BY <1>6 DEF Tick, book, BookStep
<1>7. CASE UNCHANGED vars
  BY <1>7 DEF vars, book, BookStep
<1> QED
  BY <1>1, <1>2, <1>3, <1>4, <1>5, <1>6, <1>7 DEF Next
-----------------------------------------------------------------------------
(* One open credit per borrower.                                            *)

\* What the two record updates leave alone and what they set.
LEMMA DecidedFacts ==
  ASSUME NEW r \in RequestType, NEW outcome
  PROVE  /\ Decided(r, outcome).status = outcome
         /\ Decided(r, outcome).borrower = r.borrower
         /\ Decided(r, outcome).amount = r.amount
         /\ Decided(r, outcome).collateral = r.collateral
         /\ Decided(r, outcome).tenor = r.tenor
BY Zenon DEF Decided, RequestType

LEMMA InstallmentFacts ==
  ASSUME NEW l \in LoanType
  PROVE  LET m == AfterInstallment(l)
             final == l.paid + 1 = l.total
         IN /\ SameTerms(m, l)
            /\ m.paid = l.paid + 1 /\ m.repaid = l.repaid + l.installment
            /\ m.status = IF final THEN "repaid" ELSE l.status
            /\ m.due = IF final THEN 0 ELSE l.due + Month
            /\ m.collateralState = IF final /\ l.collateralState = "locked"
                                   THEN "returned" ELSE l.collateralState
BY Zenon DEF AfterInstallment, LoanType, SameTerms

LEMMA DefaultFacts ==
  ASSUME NEW l \in LoanType
  PROVE  LET m == AfterDefault(l)
         IN /\ SameTerms(m, l)
            /\ m.paid = l.paid /\ m.repaid = l.repaid /\ m.due = l.due
            /\ m.status = "defaulted"
            /\ m.collateralState = IF l.collateralState = "locked"
                                   THEN "liquidated" ELSE l.collateralState
BY Zenon DEF AfterDefault, LoanType, SameTerms

\* What each kind of step does, element by element.
LEMMA OpensFacts ==
  ASSUME TypeOK, Opens
  PROVE  \E r \in RequestType :
           /\ r.status = "pending" /\ ~HasPending(r.borrower) /\ ~HasActive(r.borrower)
           /\ loans' = loans
           /\ DOMAIN requests' = DOMAIN requests \cup {Len(requests) + 1}
           /\ Len(requests) + 1 \notin DOMAIN requests
           /\ Len(requests') = Len(requests) + 1
           /\ \A j \in DOMAIN requests : requests'[j] = requests[j]
           /\ requests'[Len(requests) + 1] = r
BY SeqAppend DEF Opens, TypeOK

LEMMA ApprovesFacts ==
  ASSUME TypeOK, Approves
  PROVE  \E i \in DOMAIN requests, l \in LoanType :
           /\ Originates(i, l)
           /\ DOMAIN loans' = DOMAIN loans \cup {Len(loans) + 1}
           /\ Len(loans) + 1 \notin DOMAIN loans
           /\ Len(loans') = Len(loans) + 1
           /\ \A j \in DOMAIN loans : loans'[j] = loans[j]
           /\ loans'[Len(loans) + 1] = l
           /\ DOMAIN requests' = DOMAIN requests
           /\ Len(requests') = Len(requests)
           /\ requests'[i] = Decided(requests[i], "approved")
           /\ \A j \in DOMAIN requests : j # i => requests'[j] = requests[j]
<1>1. PICK i \in DOMAIN requests, l \in LoanType :
        /\ Originates(i, l)
        /\ requests' = [requests EXCEPT ![i] = Decided(@, "approved")]
        /\ loans' = Append(loans, l)
  BY DEF Approves
<1>2. requests[i] \in RequestType
  BY DEF TypeOK
<1>3. /\ DOMAIN loans' = DOMAIN loans \cup {Len(loans) + 1}
      /\ Len(loans) + 1 \notin DOMAIN loans
      /\ Len(loans') = Len(loans) + 1
      /\ \A j \in DOMAIN loans : loans'[j] = loans[j]
      /\ loans'[Len(loans) + 1] = l
  BY <1>1, SeqAppend DEF TypeOK
<1>4. /\ DOMAIN requests' = DOMAIN requests
      /\ Len(requests') = Len(requests)
      /\ requests'[i] = Decided(requests[i], "approved")
      /\ \A j \in DOMAIN requests : j # i => requests'[j] = requests[j]
  BY <1>1, <1>2, DecidedType, SeqReplace DEF TypeOK
<1> QED
  BY <1>1, <1>3, <1>4

LEMMA ClosesFacts ==
  ASSUME TypeOK, Closes
  PROVE  \E i \in DOMAIN requests, outcome \in {"rejected", "cancelled"} :
           /\ requests[i].status = "pending" /\ loans' = loans
           /\ DOMAIN requests' = DOMAIN requests
           /\ Len(requests') = Len(requests)
           /\ requests'[i] = Decided(requests[i], outcome)
           /\ \A j \in DOMAIN requests : j # i => requests'[j] = requests[j]
<1>1. \A i \in DOMAIN requests : requests[i] \in RequestType
  BY DEF TypeOK
<1> QED
  BY <1>1, DecidedType, SeqReplace DEF Closes, TypeOK

LEMMA PaysFacts ==
  ASSUME TypeOK, Pays
  PROVE  \E i \in DOMAIN loans :
           /\ loans[i].status = "active" /\ loans[i].paid < loans[i].total
           /\ requests' = requests
           /\ DOMAIN loans' = DOMAIN loans /\ Len(loans') = Len(loans)
           /\ loans'[i] = AfterInstallment(loans[i])
           /\ \A j \in DOMAIN loans : j # i => loans'[j] = loans[j]
<1>1. \A i \in DOMAIN loans : loans[i] \in LoanType
  BY DEF TypeOK
<1> QED
  BY <1>1, AfterInstallmentType, SeqReplace DEF Pays, TypeOK

LEMMA DefaultsFacts ==
  ASSUME TypeOK, Defaults
  PROVE  \E i \in DOMAIN loans :
           /\ loans[i].status = "active" /\ requests' = requests
           /\ DOMAIN loans' = DOMAIN loans /\ Len(loans') = Len(loans)
           /\ loans'[i] = AfterDefault(loans[i])
           /\ \A j \in DOMAIN loans : j # i => loans'[j] = loans[j]
<1>1. \A i \in DOMAIN loans : loans[i] \in LoanType
  BY DEF TypeOK
<1> QED
  BY <1>1, AfterDefaultType, SeqReplace DEF Defaults, TypeOK

\* The table entries have the declared types.
LEMMA Entries ==
  ASSUME TypeOK
  PROVE  /\ \A i \in DOMAIN requests : requests[i] \in RequestType
         /\ \A j \in DOMAIN loans : loans[j] \in LoanType
BY DEF TypeOK

LEMMA OneOpenStep ==
  ASSUME TypeOK, OneOpenCredit, BookStep
  PROVE  OneOpenCredit'
<1> USE Entries DEF OneOpenCredit, HasPending, HasActive
<1>1. CASE Opens
  BY <1>1, OpensFacts
<1>2. CASE Approves
  <2>1. PICK i \in DOMAIN requests, l \in LoanType :
          /\ Originates(i, l)
          /\ DOMAIN loans' = DOMAIN loans \cup {Len(loans) + 1}
          /\ Len(loans) + 1 \notin DOMAIN loans
          /\ \A j \in DOMAIN loans : loans'[j] = loans[j]
          /\ loans'[Len(loans) + 1] = l
          /\ DOMAIN requests' = DOMAIN requests
          /\ requests'[i] = Decided(requests[i], "approved")
          /\ \A j \in DOMAIN requests : j # i => requests'[j] = requests[j]
    BY <1>2, ApprovesFacts
  <2>2. requests'[i].status = "approved"
    BY <2>1, Entries, DecidedFacts
  <2>3. /\ requests[i].status = "pending" /\ ~HasActive(requests[i].borrower)
        /\ l.borrower = requests[i].borrower /\ l.status = "active"
    BY <2>1 DEF Originates
  <2> HIDE <1>2
  <2>4. \A j \in DOMAIN requests :
          requests'[j].status = "pending"
            => /\ j # i /\ requests'[j] = requests[j]
               /\ requests[j].borrower # l.borrower
    BY <2>1, <2>2, <2>3
  <2>5. \A j \in DOMAIN loans : loans[j].status = "active"
                                => loans[j].borrower # l.borrower
    BY <2>3
  <2> QED
    BY <2>1, <2>3, <2>4, <2>5
<1>3. CASE Closes
  BY <1>3, ClosesFacts, DecidedFacts
<1>4. CASE Pays
  BY <1>4, PaysFacts, InstallmentFacts DEF SameTerms
<1>5. CASE Defaults
  BY <1>5, DefaultsFacts, DefaultFacts
<1>6. CASE UNCHANGED book
  BY <1>6 DEF book
<1> QED
  BY <1>1, <1>2, <1>3, <1>4, <1>5, <1>6 DEF BookStep

\* No borrower ever has two credits open, however requests, decisions and
\* repayments interleave.
THEOREM OneOpenCreditAlways == Spec => []OneOpenCredit
<1>1. Init => OneOpenCredit
  BY DEF Init, OneOpenCredit, HasPending, HasActive
<1>2. TypeOK /\ OneOpenCredit /\ [Next]_vars => OneOpenCredit'
  BY BookSteps, OneOpenStep
<1> QED
  BY <1>1, <1>2, TypeCorrect, PTL DEF Spec

-----------------------------------------------------------------------------
(* Requests and the loans they became.                                      *)

LEMMA ApprovedOnceStep ==
  ASSUME TypeOK, ApprovedOnce, BookStep
  PROVE  ApprovedOnce'
<1>1. CASE Opens
  BY <1>1, OpensFacts, Entries DEF ApprovedOnce
<1>2. CASE Approves
  <2>1. PICK i \in DOMAIN requests, l \in LoanType :
          /\ Originates(i, l)
          /\ DOMAIN loans' = DOMAIN loans \cup {Len(loans) + 1}
          /\ Len(loans) + 1 \notin DOMAIN loans
          /\ \A j \in DOMAIN loans : loans'[j] = loans[j]
          /\ loans'[Len(loans) + 1] = l
          /\ DOMAIN requests' = DOMAIN requests
          /\ requests'[i] = Decided(requests[i], "approved")
          /\ \A j \in DOMAIN requests : j # i => requests'[j] = requests[j]
    BY <1>2, ApprovesFacts
  <2>2. /\ requests'[i].status = "approved"
        /\ requests'[i].borrower = requests[i].borrower
        /\ requests'[i].amount = requests[i].amount
        /\ requests'[i].collateral = requests[i].collateral
        /\ requests'[i].tenor = requests[i].tenor
    BY <2>1, Entries, DecidedFacts
  <2>3. /\ requests[i].status = "pending" /\ l.request = i
        /\ l.borrower = requests[i].borrower /\ l.amount = requests[i].amount
        /\ l.collateral = requests[i].collateral /\ l.total = requests[i].tenor
    BY <2>1 DEF Originates
  <2>4. \A j \in DOMAIN loans : loans[j].request # i
    BY <2>3 DEF ApprovedOnce
  <2> HIDE <1>2
  <2> QED
    BY <2>1, <2>2, <2>3, <2>4 DEF ApprovedOnce
<1>3. CASE Closes
  BY <1>3, ClosesFacts, DecidedFacts, Entries DEF ApprovedOnce
<1>4. CASE Pays
  BY <1>4, PaysFacts, InstallmentFacts, Entries DEF SameTerms, ApprovedOnce
<1>5. CASE Defaults
  BY <1>5, DefaultsFacts, DefaultFacts, Entries DEF SameTerms, ApprovedOnce
<1>6. CASE UNCHANGED book
  BY <1>6 DEF book, ApprovedOnce
<1> QED
  BY <1>1, <1>2, <1>3, <1>4, <1>5, <1>6 DEF BookStep

\* Every approved request became one loan, on the terms that were asked for,
\* and no loan exists without one.
THEOREM ApprovedOnceAlways == Spec => []ApprovedOnce
<1>1. Init => ApprovedOnce
  BY DEF Init, ApprovedOnce
<1>2. TypeOK /\ ApprovedOnce /\ [Next]_vars => ApprovedOnce'
  BY BookSteps, ApprovedOnceStep
<1> QED
  BY <1>1, <1>2, TypeCorrect, PTL DEF Spec

-----------------------------------------------------------------------------
(* What is closed stays closed.                                             *)

LEMMA Settled ==
  ASSUME TypeOK, BookStep
  PROVE  SettledStep
<1>1. CASE Opens
  BY <1>1, OpensFacts DEF SettledStep, SameTerms, TypeOK
<1>2. CASE Approves
  BY <1>2, ApprovesFacts DEF Originates, SettledStep, SameTerms, TypeOK
<1>3. CASE Closes
  BY <1>3, ClosesFacts DEF SettledStep, SameTerms, TypeOK
<1>4. CASE Pays
  BY <1>4, PaysFacts, InstallmentFacts, Entries DEF SettledStep, SameTerms, TypeOK
<1>5. CASE Defaults
  BY <1>5, DefaultsFacts, DefaultFacts, Entries DEF SettledStep, SameTerms, TypeOK
<1>6. CASE UNCHANGED book
  BY <1>6 DEF book, SettledStep, SameTerms, TypeOK
<1> QED
  BY <1>1, <1>2, <1>3, <1>4, <1>5, <1>6 DEF BookStep

\* No transaction reopens a decided request or a settled loan, removes an entry
\* or rewrites the terms of a loan.
THEOREM SettledForeverHolds == Spec => SettledForever
<1>1. TypeOK /\ [Next]_vars => [SettledStep]_vars
  BY BookSteps, Settled
<1> QED
  BY <1>1, TypeCorrect, PTL DEF Spec, SettledForever

-----------------------------------------------------------------------------
(* The story of one loan.                                                   *)

LEMMA OriginatedIsConsistent ==
  ASSUME TypeOK, NEW i \in DOMAIN requests, NEW l \in LoanType, Originates(i, l)
  PROVE  Consistent(l)
<1>1. l.installment \in Nat /\ l.issued \in Nat /\ l.total \in Nat \ {0}
  BY Entries DEF Originates, LoanType, RequestType
<1>2. l.repaid = l.paid * l.installment /\ l.due = l.issued + (l.paid + 1) * Month
  BY <1>1, LoanBookAssumption DEF Originates
<1>3. l.due # 0
  BY <1>1, LoanBookAssumption DEF Originates
<1>4. l.collateral \in Nat
  BY DEF LoanType
<1> QED
  BY <1>1, <1>2, <1>3, <1>4 DEF Originates, Consistent

LEMMA PaidIsConsistent ==
  ASSUME NEW l \in LoanType, Consistent(l), l.status = "active", l.paid < l.total
  PROVE  Consistent(AfterInstallment(l))
<1> DEFINE m == AfterInstallment(l)
           final == l.paid + 1 = l.total
<1>1. /\ l.paid \in Nat /\ l.installment \in Nat /\ l.issued \in Nat
      /\ l.total \in Nat /\ l.repaid \in Nat /\ l.due \in Nat
      /\ l.collateral \in Nat
  BY DEF LoanType
<1>2. /\ SameTerms(m, l)
      /\ m.paid = l.paid + 1 /\ m.repaid = l.repaid + l.installment
      /\ m.status = IF final THEN "repaid" ELSE l.status
      /\ m.due = IF final THEN 0 ELSE l.due + Month
      /\ m.collateralState = IF final /\ l.collateralState = "locked"
                             THEN "returned" ELSE l.collateralState
  BY InstallmentFacts
<1> HIDE DEF m
<1>3. m.repaid = m.paid * m.installment
  <2>1. (l.paid + 1) * l.installment = l.paid * l.installment + l.installment
    BY <1>1
  <2> QED
    BY <1>2, <2>1 DEF SameTerms, Consistent
<1>4. m.status = "repaid" <=> m.paid = m.total
  BY <1>1, <1>2 DEF SameTerms
<1>5. m.status = "repaid" <=> m.due = 0
  BY <1>1, <1>2, LoanBookAssumption
<1>6. m.status # "repaid" => m.due = m.issued + (m.paid + 1) * Month
  <2>1. (l.paid + 1 + 1) * Month = (l.paid + 1) * Month + Month
    BY <1>1, LoanBookAssumption
  <2> QED
    BY <1>1, <1>2, <2>1, LoanBookAssumption DEF SameTerms, Consistent
<1>7. m.collateralState =
        IF m.collateral = 0 THEN "none"
        ELSE CASE m.status = "active" -> "locked"
               [] m.status = "repaid" -> "returned"
               [] m.status = "defaulted" -> "liquidated"
  BY <1>2 DEF SameTerms, Consistent
<1> QED
  BY <1>3, <1>4, <1>5, <1>6, <1>7 DEF Consistent, m

LEMMA DefaultedIsConsistent ==
  ASSUME NEW l \in LoanType, Consistent(l), l.status = "active"
  PROVE  Consistent(AfterDefault(l))
BY DefaultFacts DEF SameTerms, Consistent

LEMMA LoanConsistentStep ==
  ASSUME TypeOK, LoanConsistent, BookStep
  PROVE  LoanConsistent'
<1> SUFFICES ASSUME NEW j \in DOMAIN loans'
             PROVE  Consistent(loans'[j])
  BY DEF LoanConsistent, Consistent
<1>1. CASE Opens
  BY <1>1, OpensFacts DEF LoanConsistent
<1>2. CASE Approves
  BY <1>2, ApprovesFacts, OriginatedIsConsistent DEF LoanConsistent
<1>3. CASE Closes
  BY <1>3, ClosesFacts DEF LoanConsistent
<1>4. CASE Pays
  BY <1>4, PaysFacts, PaidIsConsistent, Entries DEF LoanConsistent
<1>5. CASE Defaults
  BY <1>5, DefaultsFacts, DefaultedIsConsistent, Entries DEF LoanConsistent
<1>6. CASE UNCHANGED book
  BY <1>6 DEF book, LoanConsistent
<1> QED
  BY <1>1, <1>2, <1>3, <1>4, <1>5, <1>6 DEF BookStep

\* Whatever the tenor, the installment and the moment of each payment, the
\* status, the schedule, the amount repaid and the collateral of a loan agree.
THEOREM LoanConsistentAlways == Spec => []LoanConsistent
<1>1. Init => LoanConsistent
  BY DEF Init, LoanConsistent
<1>2. TypeOK /\ LoanConsistent /\ [Next]_vars => LoanConsistent'
  BY BookSteps, LoanConsistentStep
<1> QED
  BY <1>1, <1>2, TypeCorrect, PTL DEF Spec

=============================================================================
