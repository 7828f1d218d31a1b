------------------------------- MODULE Rewards -------------------------------
(***************************************************************************)
(* Points and claimable LEND (rewards/rewards.move).  Every grant of points  *)
(* adds claimable LEND at the same time; a default takes points back but     *)
(* never the LEND that came with them.                                      *)
(***************************************************************************)
EXTENDS Tokenomics

RewardAccountType ==
  [points : Nat, spent : Nat, lifetime : Nat, claimable : Nat, claimed : Nat,
   streak : Nat, limitBoostBps : Nat, interestDiscountBps : Nat,
   premiumChecks : Nat, badges : Nat]

RewardsType == [Users -> RewardAccountType]

NoRewards ==
  [u \in Users |-> [points |-> 0, spent |-> 0, lifetime |-> 0, claimable |-> 0,
                    claimed |-> 0, streak |-> 0, limitBoostBps |-> 0,
                    interestDiscountBps |-> 0, premiumChecks |-> 0, badges |-> 0]]

\* grant_points, with the streak the caller asks for.
Granted(account, points, streak) ==
  [account EXCEPT !.points = @ + points,
                  !.lifetime = @ + points,
                  !.claimable = @ + PointsToLend(points),
                  !.streak = streak]

GrantPoints(rw, u, points, streak) ==
  [rw EXCEPT ![u] = Granted(@, points, streak)]

RewardRequest(rw, u) == GrantPoints(rw, u, Policy.requestPoints, rw[u].streak)
RewardApproval(rw, u) == GrantPoints(rw, u, Policy.approvalPoints, rw[u].streak)
RewardFullRepayment(rw, u) ==
  GrantPoints(rw, u, Policy.fullRepaymentPoints, rw[u].streak)
RewardReferral(rw, u, points) == GrantPoints(rw, u, points, rw[u].streak)

\* reward_on_time_payment extends the streak, reward_late_payment resets it.
RewardPayment(rw, u, onTime) ==
  IF onTime THEN GrantPoints(rw, u, Policy.onTimePoints, rw[u].streak + 1)
            ELSE GrantPoints(rw, u, Policy.latePoints, 0)

Penalized(account) ==
  LET penalty == IF account.points > Policy.defaultPenalty
                 THEN Policy.defaultPenalty ELSE account.points
  IN [account EXCEPT !.points = @ - penalty, !.streak = 0]

PenalizeDefault(rw, u) == [rw EXCEPT ![u] = Penalized(@)]

\* spend_points_in_registry.
CanSpend(account, points) == account.points >= points

\* Fault: the points are counted as spent and stay spendable.
SpentUncharged(account, points) == [account EXCEPT !.spent = @ + points]

Spent(account, points) ==
  [account EXCEPT !.points = @ - points, !.spent = @ + points]

\* What each way of spending points buys.
Redeemed(account, points) ==
  [Spent(account, points) EXCEPT !.claimable = @ + PointsToLend(points)]
Boosted(account) ==
  [Spent(account, Policy.limitBoostCost) EXCEPT !.limitBoostBps = @ + Policy.limitBoostBps]
Discounted(account, percent) ==
  [Spent(account, percent * Policy.interestCostPerPercent) EXCEPT
     !.interestDiscountBps = @ + percent * 100]
PremiumUnlocked(account) ==
  [Spent(account, Policy.premiumCheckCost) EXCEPT !.premiumChecks = @ + 1]
Badged(account) == [Spent(account, Policy.badgeCost) EXCEPT !.badges = @ + 1]

\* Fault: the claim can be repeated.
ClaimedAgain(account) == [account EXCEPT !.claimed = @ + account.claimable]

\* claim_lend zeroes the account before LEND moves.
Claimed(account) ==
  [account EXCEPT !.claimed = @ + account.claimable, !.claimable = 0]
=============================================================================
