------------------------------ MODULE Treasury ------------------------------
(***************************************************************************)
(* The protocol vaults (credit/treasury.move).  A treasury t is a record:    *)
(* the balances of the three vaults and the counters kept beside them.  The  *)
(* operators are the friend functions; Can... is what their assert! demands, *)
(* and a caller that does not meet it aborts and changes nothing.  Amount 0  *)
(* stands for "the caller's branch was not taken": every caller guards the   *)
(* call with amount > 0, and each operator is then the identity.             *)
(***************************************************************************)
EXTENDS Integers

TreasuryType ==
  [loanVault : Nat, collateralVault : Nat, seizedVault : Nat,
   deposited : Nat, disbursed : Nat, repaid : Nat,
   locked : Nat, released : Nat, liquidated : Nat,
   rewardReserve : Nat, rewardFunded : Nat, lendClaimed : Nat, lendBurned : Nat]

\* A treasury that was funded with `liquidity` of the loan asset and with LEND,
\* of which `distributed` has reached users and `reserve` is left.
FundedTreasury(liquidity, reserve, distributed) ==
  [loanVault |-> liquidity, collateralVault |-> 0, seizedVault |-> 0,
   deposited |-> liquidity, disbursed |-> 0, repaid |-> 0,
   locked |-> 0, released |-> 0, liquidated |-> 0,
   rewardReserve |-> reserve, rewardFunded |-> reserve + distributed,
   lendClaimed |-> distributed, lendBurned |-> 0]

DepositLiquidityTo(t, amount) ==
  [t EXCEPT !.loanVault = @ + amount, !.deposited = @ + amount]

CanDisburse(t, amount) == t.loanVault >= amount
Disburse(t, amount) ==
  [t EXCEPT !.loanVault = @ - amount, !.disbursed = @ + amount]

RecordRepayment(t, amount) ==
  [t EXCEPT !.loanVault = @ + amount, !.repaid = @ + amount]

LockCollateral(t, amount) ==
  [t EXCEPT !.collateralVault = @ + amount, !.locked = @ + amount]

CanUnlock(t, amount) == t.collateralVault >= amount
ReleaseCollateral(t, amount) ==
  [t EXCEPT !.collateralVault = @ - amount, !.released = @ + amount]

\* Fault: the liquidated total is not kept.
LiquidateUncounted(t, amount) ==
  [t EXCEPT !.collateralVault = @ - amount, !.seizedVault = @ + amount]

\* Fault: the collateral leaves its vault and does not reach the other one.
LiquidateLost(t, amount) ==
  [t EXCEPT !.collateralVault = @ - amount, !.liquidated = @ + amount]

LiquidateCollateral(t, amount) ==
  [t EXCEPT !.collateralVault = @ - amount, !.seizedVault = @ + amount,
            !.liquidated = @ + amount]

CanWithdrawSeized(t, amount) == t.seizedVault >= amount
WithdrawFromSeized(t, amount) == [t EXCEPT !.seizedVault = @ - amount]

AbsorbProtocolLend(t, amount) ==
  [t EXCEPT !.rewardReserve = @ + amount, !.rewardFunded = @ + amount]

\* release_reward and burn_protocol_lend both draw on the reserve.
CanSpendReserve(t, amount) == t.rewardReserve >= amount
BurnProtocolLend(t, amount) ==
  [t EXCEPT !.rewardReserve = @ - amount, !.lendBurned = @ + amount]
ReleaseReward(t, amount) ==
  [t EXCEPT !.rewardReserve = @ - amount, !.lendClaimed = @ + amount]
=============================================================================
