----------------------------- MODULE Tokenomics -----------------------------
(***************************************************************************)
(* Holder tiers, fee splits and burns (tokenomics/tokenomics.move): pure     *)
(* functions of a LEND balance or of an amount.                             *)
(***************************************************************************)
EXTENDS Config

\* The highest tier whose threshold the balance reaches; 0 is no tier.
TierFor(balance) ==
  IF balance >= Policy.tierMin[4] THEN 4
  ELSE IF balance >= Policy.tierMin[3] THEN 3
  ELSE IF balance >= Policy.tierMin[2] THEN 2
  ELSE IF balance >= Policy.tierMin[1] THEN 1
  ELSE 0

TierFeeDiscount(balance) ==
  IF TierFor(balance) = 0 THEN 0 ELSE Policy.tierFeeDiscountBps[TierFor(balance)]

TierAprDiscount(balance) ==
  IF TierFor(balance) = 0 THEN 0 ELSE <<500, 1000, 2000, 3500>>[TierFor(balance)]

TierLimitMultiplier(balance) ==
  IF TierFor(balance) = 0 THEN BPS
  ELSE <<10000, 10000, 15000, 20000>>[TierFor(balance)]

\* fee_split_bps and late_fee_burn_share_bps.
FeeSplit == [treasury |-> 4000, staking |-> 3000, burn |-> 3000]
LateFeeBurn == 5000

\* points_to_lend: what a grant of points adds to the claimable LEND.
PointsToLend(points) == (points * Policy.lendPerPointBps) \div BPS

\* What full repayment of a loan burns from the reserve.
BurnForFullRepayment(principal) == principal \div 200
=============================================================================
