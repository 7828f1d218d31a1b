------------------------------ MODULE MCEconomy ------------------------------
(***************************************************************************)
(* Small instances of Economy for TLC, with the policy of MCLoanBook and,    *)
(* for the run on points, prices that a single loan's points can pay.       *)
(***************************************************************************)
EXTENDS Offers, TLC

CONSTANTS alice, bob   \* model values

MCUsers == {alice, bob}
MCOneUser == {alice}
MCDistributed == SumFunction(InitialWallet)
MCWallet == [u \in MCUsers |-> 100]
MCOneWallet == [u \in MCOneUser |-> 10]

MCPolicy ==
  [maxTenor |-> 12,
   originationFeeBps |-> 150, lateFeeBps |-> 500, payInLendDiscountBps |-> 500,
   requestPoints |-> 100, approvalPoints |-> 200, onTimePoints |-> 50,
   latePoints |-> 0, fullRepaymentPoints |-> 100, defaultPenalty |-> 250,
   lendPerPointBps |-> 100,
   limitBoostCost |-> 500, limitBoostBps |-> 500,
   interestCostPerPercent |-> 300, premiumCheckCost |-> 200, badgeCost |-> 1000,
   tierMin |-> <<100, 500, 2000, 10000>>,
   tierFeeDiscountBps |-> <<500, 1000, 1500, 2500>>]

\* A tenth of the points of MCPolicy, worth ten times as much LEND each; perks that
\* cost 10 points, and one boost that reaches half of the total.
MCCheapPerks ==
  [MCPolicy EXCEPT !.requestPoints = 10, !.approvalPoints = 20, !.onTimePoints = 5,
                   !.fullRepaymentPoints = 10, !.defaultPenalty = 25,
                   !.lendPerPointBps = 1000,
                   !.limitBoostCost = 10, !.limitBoostBps = 5000,
                   !.interestCostPerPercent = 1, !.premiumCheckCost = 10,
                   !.badgeCost = 10]

\* The page's prices are those of the policy in force.
MCPagePrices ==
  [limitBoost |-> Policy.limitBoostCost, interestPercent |-> Policy.interestCostPerPercent,
   premiumCheck |-> Policy.premiumCheckCost, badge |-> Policy.badgeCost]

\* Points that yield no LEND leave the reserve to the stakers.
MCNoPointsForLend == [MCPolicy EXCEPT !.lendPerPointBps = 0]

NoProfiles ==
  [p \in {} |-> [maxPrincipal |-> 0, maxTenor |-> 0, minHoldings |-> 0,
                 requiresCollateral |-> FALSE, collateralRatioBps |-> BPS]]

MCSymmetry == Permutations(MCUsers)
=============================================================================
