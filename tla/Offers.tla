-------------------------------- MODULE Offers --------------------------------
(***************************************************************************)
(* What the loyalty and repayment pages let a borrower send to the rewards,  *)
(* staking and fee contracts (the handlers of frontend/src/App.tsx behind    *)
(* LoyaltyHubPage and RepayPage).  Each handler checks what the borrower     *)
(* typed against the account the backend last read from the chain, and has   *)
(* prices of its own compiled in; the contract then checks again, against    *)
(* records the page never sees.  The page here has just been synchronised.   *)
(***************************************************************************)
EXTENDS Economy

CONSTANT PagePrices   \* the four prices compiled into the page

ASSUME OffersAssumption ==
  PagePrices \in [limitBoost : Nat, interestPercent : Nat, premiumCheck : Nat, badge : Nat]

-----------------------------------------------------------------------------
(* The page.                                                                *)

\* The account of u as the backend reads it from the chain's views; the stake is
\* the one of the ledger, and quote_claimable projects what a claim would harvest.
Page(u) ==
  [points |-> rewards[u].points, claimable |-> rewards[u].claimable,
   liquid |-> lend.wallet[u], staked |-> lend.staked[u],
   stakingRewards |-> Harvest(staking, u)]

\* totalFeesDue: the page shows the fees of the active loan only.
FeesShown(i) == fees[i].originationDue + fees[i].lateDue

-----------------------------------------------------------------------------
(* The cards of the pages, as the sets of buttons they enable.  Two cards of  *)
(* the loyalty page are behind a flag of the address, which any borrower can  *)
(* set; the bridge page has staking without it.                              *)

Enabled(condition, button) == IF condition THEN {button} ELSE {}

\* One button claims both rewards.
ClaimCard(page) == Enabled(page.claimable + page.stakingRewards > 0, "claim-all")

HasLendInventory(page) ==
  page.liquid > 0 \/ page.claimable > 0 \/ page.staked > 0 \/ page.stakingRewards > 0

StakingCard(page) ==
  IF HasLendInventory(page)
  THEN Enabled(page.liquid # 0, "stake") \cup Enabled(page.staked # 0, "unstake")
  ELSE {}

\* The bridge page, which asks for no inventory and claims as well.
BridgeCard(page) ==
  Enabled(page.liquid # 0, "stake") \cup Enabled(page.staked # 0, "unstake") \cup ClaimCard(page)

\* The points below which a button of the card is disabled.
PerkFloor ==
  [redeem |-> 1, limitBoost |-> PagePrices.limitBoost, interestDiscount |-> 1,
   premiumCheck |-> PagePrices.premiumCheck, badge |-> PagePrices.badge]

PointsCard(page) ==
  IF page.points > 0 THEN {perk \in DOMAIN PerkFloor : page.points >= PerkFloor[perk]} ELSE {}

FeeCard(u, i) == IF i \in ActiveOf(u) THEN Enabled(FeesShown(i) > 0, "pay-fees") ELSE {}

-----------------------------------------------------------------------------
(* When a handler goes on to ask for a signature: its button is enabled and   *)
(* its own checks of what was typed pass.  No button calls the two handlers   *)
(* that claim one reward each; claim-all repeats their checks.               *)

OfferClaimLend(page) == page.claimable # 0
OfferClaimStakingRewards(page) == page.stakingRewards # 0

\* handleClaimAvailableRewards sends one message after the other, each only when
\* the account it began with has something to claim.
OfferClaimAll(page) ==
  /\ "claim-all" \in ClaimCard(page) \cup BridgeCard(page)
  /\ OfferClaimLend(page) \/ OfferClaimStakingRewards(page)

\* Fault: the amount is compared with all LEND held.
OfferStakeOfHeld(page, amount) ==
  "stake" \in StakingCard(page) \cup BridgeCard(page) /\ amount > 0 /\ amount <= page.liquid + page.staked

OfferStake(page, amount) ==
  "stake" \in StakingCard(page) \cup BridgeCard(page) /\ amount > 0 /\ amount <= page.liquid
OfferUnstake(page, amount) ==
  "unstake" \in StakingCard(page) \cup BridgeCard(page) /\ amount > 0 /\ amount <= page.staked

OfferPayFees(u, i) == "pay-fees" \in FeeCard(u, i) /\ FeesShown(i) > 0

OfferRedeem(page, points) ==
  "redeem" \in PointsCard(page) /\ points > 0 /\ points <= page.points
OfferLimitBoost(page) ==
  "limitBoost" \in PointsCard(page) /\ page.points >= PagePrices.limitBoost
OfferInterestDiscount(page, percent) ==
  /\ "interestDiscount" \in PointsCard(page)
  /\ percent > 0 /\ page.points >= percent * PagePrices.interestPercent
OfferPremiumCheck(page) ==
  "premiumCheck" \in PointsCard(page) /\ page.points >= PagePrices.premiumCheck
OfferBadge(page) == "badge" \in PointsCard(page) /\ page.points >= PagePrices.badge

-----------------------------------------------------------------------------
(* The messages: an entry function and its argument.  Three builders serve    *)
(* every handler of these pages.                                             *)

ClaimMessage(entry) == [entry |-> entry, arg |-> 0]
StakeMessage(entry, amount) == [entry |-> entry, arg |-> amount]
SpendPointsMessage(entry, amount) == [entry |-> entry, arg |-> amount]
LoanMessage(entry, i) == [entry |-> entry, arg |-> i]

\* The chain runs the entry function of that name, or aborts.
Accepts(u, m) ==
  CASE m.entry = "claim_lend" -> MayClaimLend(u)
    [] m.entry = "claim_rewards" -> MayClaimStakingRewards(u)
    [] m.entry = "stake" -> MayStake(u, m.arg)
    [] m.entry = "unstake" -> MayUnstake(u, m.arg)
    [] m.entry = "pay_outstanding_fees_in_lend" -> MayPayFees(m.arg) /\ fees[m.arg].borrower = u
    [] m.entry = "redeem_points_to_claimable_lend" -> MayRedeem(u, m.arg)
    [] m.entry = "spend_points_for_limit_boost" -> MayBoost(u)
    [] m.entry = "spend_points_for_interest_discount" -> MayDiscount(u, m.arg)
    [] m.entry = "unlock_premium_credit_check" -> MaySpend(u, Policy.premiumCheckCost)
    [] m.entry = "redeem_exclusive_badge" -> MaySpend(u, Policy.badgeCost)

-----------------------------------------------------------------------------
(* What the page does not read, and the contract may still refuse for.  On     *)
(* the instances TLC checks the prices agree and every product fits.          *)

ReserveShort(amount) == lend.reserve < amount
NoLendForFees(u, i) == lend.wallet[u] < DueInLend(fees[i])
BoostsExhausted(u) == rewards[u].limitBoostBps + Policy.limitBoostBps > MaxLimitBoost
DiscountsExhausted(u, percent) ==
  \/ percent > MaxInterestPurchase
  \/ rewards[u].interestDiscountBps + percent * 100 > MaxInterestDiscount

\* The fees shown are before the discount, which may take off all of them.
FeesDiscountedAway(i) == DueInLend(fees[i]) = 0

\* The treasury admin raised a price after the page was built.
PriceRaised(pagePrice, price) == pagePrice < price

\* A product of the staking registry that u64 does not hold.
StakeOverflows(u, delta) == ~CanChangeStake(staking, u, delta)
HarvestOverflows(u) == ~CanHarvest(staking, u)
FundingOverflows(i) == ~CanFund(staking, SharesOf(fees[i]).staking)

\* The LEND that handleClaimAvailableRewards leaves to its second message.
LeftForSecond(page) == lend.reserve - page.claimable

-----------------------------------------------------------------------------
(* Property.                                                                *)

ClaimsAccepted(u) ==
  LET page == Page(u)
      lendTaken == Accepts(u, ClaimMessage("claim_lend"))
      rewardsTaken == Accepts(u, ClaimMessage("claim_rewards"))
  IN /\ OfferClaimLend(page) => lendTaken \/ ReserveShort(page.claimable)
     /\ OfferClaimStakingRewards(page) =>
          rewardsTaken \/ ReserveShort(page.stakingRewards) \/ HarvestOverflows(u)
     /\ OfferClaimAll(page) =>
          \/ ReserveShort(page.claimable) \/ LeftForSecond(page) < page.stakingRewards
          \/ (lendTaken \/ page.claimable = 0)
             /\ (rewardsTaken \/ page.stakingRewards = 0 \/ HarvestOverflows(u))

StakesAccepted(u) ==
  LET page == Page(u)
  IN \A amount \in 0..(page.liquid + page.staked) :
       /\ OfferStake(page, amount) =>
            Accepts(u, StakeMessage("stake", amount)) \/ StakeOverflows(u, amount)
       /\ OfferUnstake(page, amount) =>
            Accepts(u, StakeMessage("unstake", amount)) \/ StakeOverflows(u, -amount)

FeesAccepted(u) ==
  \A i \in DOMAIN loans :
    OfferPayFees(u, i) =>
      \/ Accepts(u, LoanMessage("pay_outstanding_fees_in_lend", i))
      \/ NoLendForFees(u, i) \/ FeesDiscountedAway(i) \/ FundingOverflows(i)

PurchasesAccepted(u) ==
  LET page == Page(u)
  IN /\ \A points \in 0..page.points :
          OfferRedeem(page, points) =>
            Accepts(u, SpendPointsMessage("redeem_points_to_claimable_lend", points))
     /\ OfferLimitBoost(page) =>
          \/ Accepts(u, ClaimMessage("spend_points_for_limit_boost")) \/ BoostsExhausted(u)
          \/ PriceRaised(PagePrices.limitBoost, Policy.limitBoostCost)
     /\ \A percent \in Percents :
          OfferInterestDiscount(page, percent) =>
            \/ Accepts(u, SpendPointsMessage("spend_points_for_interest_discount", percent))
            \/ DiscountsExhausted(u, percent)
            \/ PriceRaised(PagePrices.interestPercent, Policy.interestCostPerPercent)
     /\ OfferPremiumCheck(page) =>
          \/ Accepts(u, ClaimMessage("unlock_premium_credit_check"))
          \/ PriceRaised(PagePrices.premiumCheck, Policy.premiumCheckCost)
     /\ OfferBadge(page) =>
          \/ Accepts(u, ClaimMessage("redeem_exclusive_badge"))
          \/ PriceRaised(PagePrices.badge, Policy.badgeCost)

\* What the page offers the contract accepts, for every amount up to the whole
\* balance, unless the protocol is paused or for one of the causes the page never
\* reads: an empty reserve, no LEND for the fees or nothing left of them after
\* the discount, boosts or discounts exhausted, a price raised since the page was
\* built, or a product beyond u64.  The page checks one record of an amount,
\* the contracts two or three; in particular LEND shown as staked can always be
\* unstaked, and nobody is offered the fees of another's loan.
OffersAccepted ==
  paused \/ \A u \in Users : ClaimsAccepted(u) /\ StakesAccepted(u)
                             /\ FeesAccepted(u) /\ PurchasesAccepted(u)
=============================================================================
