------------------------------- MODULE Economy -------------------------------
(***************************************************************************)
(* The LEND economy around the credit life cycle: fees paid in LEND feed the *)
(* stakers and the reserve, points become claimable LEND and perks, and the  *)
(* one reserve pays rewards and staking claims alike.  It extends LoanBook   *)
(* with the entry points of fee_engine.move, staking.move, rewards.move and  *)
(* lend_token.move; every step of LoanBook is a step of it.                  *)
(***************************************************************************)
EXTENDS LoanBook, Staking

CONSTANTS
  Stakes, Redemptions, Percents, Transfers, Mints,   \* the arguments users choose
  MaxMinted,   \* bounds of the model: all LEND minted, and the earnings up to
  MaxEarned    \* which a user goes on changing its stake

ASSUME EconomyAssumption ==
  /\ Stakes \subseteq Nat /\ Redemptions \subseteq Nat /\ Percents \subseteq Nat
  /\ Transfers \subseteq Nat /\ Mints \subseteq Nat /\ MaxMinted \in Nat
  /\ MaxEarned \in Nat

VARIABLES
  staking,      \* StakingRegistry
  feeTotals     \* the four totals of FeeRegistry

economyVars == <<staking, feeTotals>>
allVars == <<vars, economyVars>>

FeeTotalsType == [treasury : Nat, staking : Nat, burn : Nat, paid : Nat]

EconomyInit ==
  /\ Init
  /\ staking = NoStakes
  /\ feeTotals = [treasury |-> 0, staking |-> 0, burn |-> 0, paid |-> 0]

-----------------------------------------------------------------------------
(* Fees.  An entry point whose checks a page repeats has them in a May... of  *)
(* its own: where it holds, the entry function runs to its end.              *)

MayPayFees(i) ==
  LET state == fees[i]
      shares == SharesOf(state)
  IN /\ ~paused /\ DueInLend(state) > 0
     /\ CanPay(lend, state.borrower, shares.treasury + shares.staking + shares.burn)
     /\ CanFund(staking, shares.staking)

\* pay_outstanding_fees_in_lend, called by the borrower of the state; the
\* discount is at most 100%, so apply_discount never aborts here.
PayOutstandingFees(i) ==
  LET state == fees[i]
      u == state.borrower
      shares == SharesOf(state)
      credit == shares.treasury + shares.staking
  IN /\ MayPayFees(i)
     /\ lend' = CollectFee(lend, u, credit, shares.burn)
     /\ treasury' = AbsorbProtocolLend(treasury, credit)
     /\ staking' = FundFromFee(staking, shares.staking)
     /\ fees' = [fees EXCEPT ![i] = Cleared(@)]
     /\ feeTotals' = [treasury |-> feeTotals.treasury + shares.treasury,
                      staking |-> feeTotals.staking + shares.staking,
                      burn |-> feeTotals.burn + shares.burn,
                      paid |-> feeTotals.paid + DueInLend(state)]
     /\ UNCHANGED <<now, paused, book, standing>>

-----------------------------------------------------------------------------
(* Staking.                                                                 *)

MayStake(u, amount) ==
  /\ ~paused /\ amount > 0
  /\ CanPay(lend, u, amount) /\ CanChangeStake(staking, u, amount)

Stake(u, amount) ==
  /\ MayStake(u, amount)
  /\ staking' = ChangeStake(staking, u, amount)
  /\ lend' = MoveToStaked(lend, u, amount)
  /\ UNCHANGED <<now, paused, book, treasury, standing, fees, feeTotals>>

\* The registry and the ledger each check their own record of the stake.
MayUnstake(u, amount) ==
  /\ ~paused /\ amount > 0
  /\ staking.positions[u].staked >= amount /\ lend.staked[u] >= amount
  /\ CanChangeStake(staking, u, -amount)

Unstake(u, amount) ==
  /\ MayUnstake(u, amount)
  /\ staking' = ChangeStake(staking, u, -amount)
  /\ lend' = ReleaseFromStaked(lend, u, amount)
  /\ UNCHANGED <<now, paused, book, treasury, standing, fees, feeTotals>>

\* Both kinds of claim draw on the one reserve.
MayPayOut(amount) ==
  amount > 0 /\ CanDistribute(lend, amount) /\ CanSpendReserve(treasury, amount)

PayOut(u, amount) ==
  /\ MayPayOut(amount)
  /\ lend' = Distribute(lend, u, amount)
  /\ treasury' = ReleaseReward(treasury, amount)

MayClaimStakingRewards(u) ==
  ~paused /\ CanHarvest(staking, u) /\ MayPayOut(Harvest(staking, u))

ClaimStakingRewards(u) ==
  /\ MayClaimStakingRewards(u)
  /\ PayOut(u, Harvest(staking, u))
  /\ staking' = Harvested(staking, u)
  /\ UNCHANGED <<now, paused, book, standing, fees, feeTotals>>

-----------------------------------------------------------------------------
(* Points.                                                                  *)

MayClaimLend(u) == ~paused /\ MayPayOut(rewards[u].claimable)

ClaimLend(u) ==
  /\ MayClaimLend(u)
  /\ PayOut(u, rewards[u].claimable)
  /\ rewards' = [rewards EXCEPT ![u] = Claimed(@)]
  /\ UNCHANGED <<now, paused, book, reputation, referral, fees, economyVars>>

MaySpend(u, points) == ~paused /\ CanSpend(rewards[u], points)

\* The account of u after spending `points` on what `after` says.
SpendPoints(u, points, after) ==
  /\ MaySpend(u, points)
  /\ rewards' = [rewards EXCEPT ![u] = after]
  /\ UNCHANGED <<now, paused, book, money, reputation, referral, fees, economyVars>>

MayRedeem(u, points) == points > 0 /\ MaySpend(u, points)
RedeemPoints(u, points) ==
  MayRedeem(u, points) /\ SpendPoints(u, points, Redeemed(rewards[u], points))

MayBoost(u) ==
  /\ rewards[u].limitBoostBps <= MaxLimitBoost - Policy.limitBoostBps
  /\ MaySpend(u, Policy.limitBoostCost)
SpendForLimitBoost(u) ==
  MayBoost(u) /\ SpendPoints(u, Policy.limitBoostCost, Boosted(rewards[u]))

MayDiscount(u, percent) ==
  /\ percent > 0 /\ percent <= MaxInterestPurchase
  /\ rewards[u].interestDiscountBps <= MaxInterestDiscount - percent * 100
  /\ MaySpend(u, percent * Policy.interestCostPerPercent)
SpendForInterestDiscount(u, percent) ==
  /\ MayDiscount(u, percent)
  /\ SpendPoints(u, percent * Policy.interestCostPerPercent,
                 Discounted(rewards[u], percent))

UnlockPremiumCheck(u) ==
  SpendPoints(u, Policy.premiumCheckCost, PremiumUnlocked(rewards[u]))

RedeemBadge(u) == SpendPoints(u, Policy.badgeCost, Badged(rewards[u]))

-----------------------------------------------------------------------------
(* LEND itself; none of these is stopped by a pause.                        *)

Transfer(u, v, amount) ==
  /\ amount > 0 /\ u # v /\ CanPay(lend, u, amount)
  /\ lend' = Credit(Debit(lend, u, amount), v, amount)
  /\ UNCHANGED <<now, paused, book, treasury, standing, fees, economyVars>>

MintToProtocolReserve(amount) ==
  /\ amount > 0 /\ lend.minted + amount <= MaxMinted
  /\ lend' = MintToReserve(lend, amount)
  /\ treasury' = AbsorbProtocolLend(treasury, amount)
  /\ UNCHANGED <<now, paused, book, standing, fees, economyVars>>

\* The treasury admin, whichever account that is, gives back its own LEND.
DepositToProtocolReserve(u, amount) ==
  /\ amount > 0 /\ CanPay(lend, u, amount)
  /\ lend' = DepositFrom(lend, u, amount)
  /\ treasury' = AbsorbProtocolLend(treasury, amount)
  /\ UNCHANGED <<now, paused, book, standing, fees, economyVars>>

-----------------------------------------------------------------------------
StakeStep(u) ==
  \/ /\ staking.positions[u].pending + staking.positions[u].claimed <= MaxEarned
     /\ \E amount \in Stakes : Stake(u, amount) \/ Unstake(u, amount)
  \/ ClaimStakingRewards(u)

RewardStep(u) ==
  \/ ClaimLend(u)
  \/ \E points \in Redemptions : RedeemPoints(u, points)
  \/ SpendForLimitBoost(u)
  \/ \E percent \in Percents : SpendForInterestDiscount(u, percent)
  \/ UnlockPremiumCheck(u)
  \/ RedeemBadge(u)

TokenStep(u) ==
  \/ \E v \in Users, amount \in Transfers : Transfer(u, v, amount)
  \/ \E amount \in Transfers : DepositToProtocolReserve(u, amount)

EconomyNext ==
  \/ Next /\ UNCHANGED economyVars
  \/ \E i \in DOMAIN fees : PayOutstandingFees(i)
  \/ \E u \in Users : StakeStep(u) \/ RewardStep(u) \/ TokenStep(u)
  \/ \E amount \in Mints : MintToProtocolReserve(amount)

EconomySpec == EconomyInit /\ [][EconomyNext]_allVars

-----------------------------------------------------------------------------
(* Properties.                                                              *)

EconomyTypeOK ==
  /\ TypeOK
  /\ staking \in RegistryType /\ feeTotals \in FeeTotalsType

\* The registry, the ledger and the vault agree on what is staked: three modules
\* keep the number, and an unstake that one allowed and another did not could
\* never be finished.
StakeBooksAgree ==
  /\ \A u \in Users : staking.positions[u].staked = lend.staked[u]
  /\ staking.total = SumFunction(lend.staked) /\ staking.total = lend.stakingVault

\* As soon as somebody is staked, no fee is left waiting outside the index.
FeesReachStakers == staking.total = 0 \/ staking.undistributed = 0

EarningsGrow ==
  /\ staking'.index >= staking.index
  /\ \A u \in Users :
       staking'.positions[u].pending + staking'.positions[u].claimed
         >= staking.positions[u].pending + staking.positions[u].claimed

\* What a staker has earned, claimed or not, is never taken back, whatever
\* anybody stakes, unstakes or pays afterwards.
EarningsKept == [][EarningsGrow]_allVars

\* Every unit of a fee paid is in exactly one of the three shares, and what the
\* loans say was paid is what the registry took in.
FeesAccounted ==
  /\ feeTotals.paid = feeTotals.treasury + feeTotals.staking + feeTotals.burn
  /\ feeTotals.paid = SumFunction([i \in DOMAIN fees |-> fees[i].paid])

\* All LEND the reserve ever paid out was a rewards or a staking claim, each
\* recorded with its user.
PayoutsAccounted ==
  /\ staking.claimed = SumFunction([u \in Users |-> staking.positions[u].claimed])
  /\ treasury.lendClaimed =
       InitialDistributed + staking.claimed
       + SumFunction([u \in Users |-> rewards[u].claimed])

\* No point is spent twice: what is left and what was spent never exceeds what
\* was granted, and falls short of it only by the penalty of a default.
PointsSpentOnce ==
  \A u \in Users :
    /\ rewards[u].points + rewards[u].spent <= rewards[u].lifetime
    /\ reputation[u].defaulted = 0
         => rewards[u].points + rewards[u].spent = rewards[u].lifetime

\* A point yields LEND at most twice, once granted and once redeemed.
LendPerPointBounded ==
  \A u \in Users :
    rewards[u].claimable + rewards[u].claimed
      <= PointsToLend(rewards[u].lifetime) + PointsToLend(rewards[u].spent)

\* The documentation has staking rewards backed by the fees borrowers paid.
RewardsBackedByFees == staking.claimed <= feeTotals.staking
=============================================================================
