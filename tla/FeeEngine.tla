------------------------------ MODULE FeeEngine ------------------------------
(***************************************************************************)
(* Fees assessed against loans (tokenomics/fee_engine.move).  A registry is  *)
(* the sequence of fee states; approval creates the state of each new loan,  *)
(* so the state of loan i is found at position i.                           *)
(***************************************************************************)
EXTENDS Tokenomics, Sequences

FeeStateType ==
  [borrower : Users, originationDue : Nat, lateDue : Nat, paid : Nat]

FeesType == Seq(FeeStateType)

\* apply_discount subtracts in u64: a discount above 100% aborts the caller.
CanDiscount(amount, bps) == (amount * bps) \div BPS <= amount
ApplyDiscount(amount, bps) == amount - (amount * bps) \div BPS

OriginationBase(principal) == (principal * Policy.originationFeeBps) \div BPS
LateBase(installment) == (installment * Policy.lateFeeBps) \div BPS

\* Fault: every assessment opens a state of its own.
StateForEach(fs, loan, u) ==
  Append(fs, [borrower |-> u, originationDue |-> 0, lateDue |-> 0, paid |-> 0])

\* The state of `loan`, created when it is missing.
StateFor(fs, loan, u) ==
  IF loan \in DOMAIN fs THEN fs
  ELSE Append(fs, [borrower |-> u, originationDue |-> 0, lateDue |-> 0, paid |-> 0])

\* The quotes discount the base fee by the tier of the borrower's balance.
OriginationFee(principal, balance) ==
  ApplyDiscount(OriginationBase(principal), TierFeeDiscount(balance))
LateFee(installment, balance) ==
  ApplyDiscount(LateBase(installment), TierFeeDiscount(balance))

OwingOrigination(state, fee) == [state EXCEPT !.originationDue = @ + fee]
OwingLate(state, fee) == [state EXCEPT !.lateDue = @ + fee]

(* Paying in LEND: the discounted dues, split in three.                     *)
Shares(treasury, staking, burn) ==
  [treasury |-> treasury, staking |-> staking, burn |-> burn]

\* Fault: three rounded shares that do not add up.
SplitRounded(amount) ==
  Shares((amount * FeeSplit.treasury) \div BPS, (amount * FeeSplit.staking) \div BPS,
         (amount * FeeSplit.burn) \div BPS)

\* split_standard_fee burns what rounding leaves over.
SplitStandard(amount) ==
  LET treasury == (amount * FeeSplit.treasury) \div BPS
      staking == (amount * FeeSplit.staking) \div BPS
  IN Shares(treasury, staking, amount - treasury - staking)

\* split_late_fee gives the staking side what rounding leaves over.
SplitLate(amount) ==
  LET burn == (amount * LateFeeBurn) \div BPS
      treasury == (amount - burn) \div 2
  IN Shares(treasury, amount - burn - treasury, burn)

InLend(due) == ApplyDiscount(due, Policy.payInLendDiscountBps)
DueInLend(state) == InLend(state.originationDue) + InLend(state.lateDue)

\* The three shares of what clears a state.
SharesOf(state) ==
  LET standard == SplitStandard(InLend(state.originationDue))
      late == SplitLate(InLend(state.lateDue))
  IN Shares(standard.treasury + late.treasury, standard.staking + late.staking,
            standard.burn + late.burn)

Cleared(state) ==
  [state EXCEPT !.paid = @ + DueInLend(state), !.originationDue = 0, !.lateDue = 0]

-----------------------------------------------------------------------------
AssessOriginationFee(fs, loan, u, principal, balance) ==
  [StateFor(fs, loan, u) EXCEPT
     ![loan] = OwingOrigination(@, OriginationFee(principal, balance))]

AssessLateFee(fs, loan, u, installment, balance) ==
  [StateFor(fs, loan, u) EXCEPT ![loan] = OwingLate(@, LateFee(installment, balance))]
=============================================================================
