----------------------------- MODULE MCCommunity -----------------------------
(***************************************************************************)
(* Small instances of Community for TLC.                                    *)
(***************************************************************************)
EXTENDS Community, TLC

CONSTANTS alice, bob   \* model values

MCUsers == {alice, bob}
MCDistributed == SumFunction(InitialWallet)

\* One user holds two thirds of what circulates, so either may fail the quorum
\* alone or reach it with LEND that was moved.
MCWallet == [u \in MCUsers |-> IF u = alice THEN 200 ELSE 100]
MCEqualWallet == [u \in MCUsers |-> 100]

MCPolicy ==
  [maxTenor |-> 12,
   originationFeeBps |-> 0, lateFeeBps |-> 0, payInLendDiscountBps |-> 0,
   requestPoints |-> 100, approvalPoints |-> 200, onTimePoints |-> 0,
   latePoints |-> 0, fullRepaymentPoints |-> 0, defaultPenalty |-> 0,
   lendPerPointBps |-> 1000,
   limitBoostCost |-> 500, limitBoostBps |-> 500,
   interestCostPerPercent |-> 300, premiumCheckCost |-> 2000, badgeCost |-> 1000,
   tierMin |-> <<100, 500, 2000, 10000>>,
   tierFeeDiscountBps |-> <<500, 1000, 1500, 2500>>]

MCVotingRules == [threshold |-> 100, quorumBps |-> 5000, period |-> 1]

NoProfiles ==
  [p \in {} |-> [maxPrincipal |-> 0, maxTenor |-> 0, minHoldings |-> 0,
                 requiresCollateral |-> FALSE, collateralRatioBps |-> BPS]]

MCSymmetry == Permutations(MCUsers)
=============================================================================
