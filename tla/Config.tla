------------------------------- MODULE Config -------------------------------
(***************************************************************************)
(* The policy of a deployment (credit/config.move) and the people that use  *)
(* it.  The admin's update_* entry points are rare, privileged and write    *)
(* numbers nothing else writes, so a behaviour keeps one Policy; every      *)
(* theorem quantifies over all of them.                                     *)
(***************************************************************************)
EXTENDS Integers

CONSTANTS
  Users,    \* the addresses that hold LEND, borrow and refer each other
  Policy    \* the tunable fields of the Config resource

\* Basis points, the unit of every rate of the contracts.
BPS == 10000

\* MIN_EFFECTIVE_APR_BPS: no discount takes an APR below this.
MinEffectiveApr == 100

\* MAX_TOTAL_CREDIT_LIMIT_BOOST_BPS: points never more than double a limit.
MaxLimitBoost == 10000

\* MAX_TOTAL_INTEREST_DISCOUNT_BPS, MAX_INTEREST_DISCOUNT_PURCHASE_PERCENT
MaxInterestDiscount == 5000
MaxInterestPurchase == 10

Tiers == 1..4   \* bronze, silver, gold, diamond

(***************************************************************************)
(* What the setters let an admin write.  update_fee_policy bounds its three  *)
(* rates by 100%; update_tier_policy orders the thresholds and leaves the    *)
(* tier discounts unbounded; update_point_spend_policy keeps one purchase of *)
(* limit boost within the total.                                            *)
(***************************************************************************)
PolicyType ==
  [maxTenor : Nat,
   originationFeeBps : 0..BPS, lateFeeBps : 0..BPS, payInLendDiscountBps : 0..BPS,
   requestPoints : Nat, approvalPoints : Nat, onTimePoints : Nat,
   latePoints : Nat, fullRepaymentPoints : Nat, defaultPenalty : Nat,
   lendPerPointBps : Nat,
   limitBoostCost : Nat, limitBoostBps : 1..MaxLimitBoost,
   interestCostPerPercent : Nat \ {0}, premiumCheckCost : Nat, badgeCost : Nat,
   tierMin : [Tiers -> Nat], tierFeeDiscountBps : [Tiers -> Nat]]

ASSUME PolicyAssumption ==
  /\ Policy \in PolicyType
  /\ \A s, t \in Tiers : s <= t => Policy.tierMin[s] <= Policy.tierMin[t]
=============================================================================
