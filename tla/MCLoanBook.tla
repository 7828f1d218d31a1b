----------------------------- MODULE MCLoanBook -----------------------------
(***************************************************************************)
(* Small instances of LoanBook for TLC: the policy the contracts ship with   *)
(* (credit/config.move:5-38), profiles scaled to the amounts in use, and     *)
(* months of two ticks.                                                     *)
(***************************************************************************)
EXTENDS LoanBook, TLC

CONSTANTS alice, bob, carol   \* model values

MCUsers == {alice, bob}
MCThreeUsers == {alice, bob, carol}

\* What the wallets of the instance add up to.
MCDistributed == SumFunction(InitialWallet)

MCPolicy ==
  [maxTenor |-> 12,
   originationFeeBps |-> 150, lateFeeBps |-> 500, payInLendDiscountBps |-> 500,
   requestPoints |-> 100, approvalPoints |-> 200, onTimePoints |-> 50,
   latePoints |-> 0, fullRepaymentPoints |-> 100, defaultPenalty |-> 250,
   lendPerPointBps |-> 100,
   limitBoostCost |-> 500, limitBoostBps |-> 500,
   interestCostPerPercent |-> 300, premiumCheckCost |-> 200, badgeCost |-> 1000,
   tierMin |-> <<100, 500, 2000, 10000>>,
   tierFeeDiscountBps |-> <<500, 1000, 1500, 2500>>]

\* PROFILE_MICRO_LOAN, PROFILE_STANDARD_BNPL and PROFILE_COLLATERALIZED.
MCProfiles ==
  1 :> [maxPrincipal |-> 500, maxTenor |-> 3, minHoldings |-> 0,
        requiresCollateral |-> FALSE, collateralRatioBps |-> 0]
  @@ 2 :> [maxPrincipal |-> 2500, maxTenor |-> 6, minHoldings |-> 100,
           requiresCollateral |-> FALSE, collateralRatioBps |-> 0]
  @@ 4 :> [maxPrincipal |-> 20000, maxTenor |-> 18, minHoldings |-> 0,
           requiresCollateral |-> TRUE, collateralRatioBps |-> 15000]

SecuredOnly == 4 :> MCProfiles[4]
MicroOnly == 1 :> MCProfiles[1]
MicroAndSecured == MicroOnly @@ SecuredOnly
NoProfiles == [p \in {} |-> MCProfiles[1]]

MCSymmetry == Permutations(MCUsers)
MCThreeSymmetry == Permutations(MCThreeUsers)

\* 900 LEND is silver; 600 of it locked as collateral leaves bronze.
MCWallet == [u \in MCUsers |-> 900]
MCSmallWallet == [u \in MCUsers |-> 45]
MCThreeWallet == [u \in MCThreeUsers |-> 100]
=============================================================================
