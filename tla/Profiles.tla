------------------------------ MODULE Profiles ------------------------------
(***************************************************************************)
(* Credit profiles (credit/profiles.move): who may ask for how much under    *)
(* which product.  The rules read the user's LEND balance and limit boost    *)
(* at the moment of the request, and only then.                             *)
(***************************************************************************)
EXTENDS Tokenomics

CONSTANT Profiles   \* profile id -> the product's rules

ProfileType ==
  [maxPrincipal : Nat, maxTenor : Nat, minHoldings : Nat,
   requiresCollateral : BOOLEAN, collateralRatioBps : Nat]

\* update_profile lets no secured product ask for less than 100% collateral.
ASSUME ProfilesAssumption ==
  /\ Profiles \in [DOMAIN Profiles -> ProfileType]
  /\ \A p \in DOMAIN Profiles :
       Profiles[p].requiresCollateral => Profiles[p].collateralRatioBps >= BPS

\* quote_profile: the limit scaled by the tier, then by the purchased boost.
MaxPrincipal(p, balance, boostBps) ==
  LET boost == IF boostBps > MaxLimitBoost THEN MaxLimitBoost ELSE boostBps
      tiered == (Profiles[p].maxPrincipal * TierLimitMultiplier(balance)) \div BPS
  IN (tiered * (BPS + boost)) \div BPS

\* required_collateral_for rounds up.
RequiredCollateral(p, amount) ==
  IF ~Profiles[p].requiresCollateral THEN 0
  ELSE (amount * Profiles[p].collateralRatioBps + BPS - 1) \div BPS

RequestAllowed(p, amount, tenor, balance, boostBps) ==
  /\ balance >= Profiles[p].minHoldings
  /\ tenor > 0 /\ tenor <= Profiles[p].maxTenor /\ tenor <= Policy.maxTenor
  /\ amount > 0 /\ amount <= MaxPrincipal(p, balance, boostBps)

PlainRequestAllowed(p, amount, tenor, balance, boostBps) ==
  /\ ~Profiles[p].requiresCollateral
  /\ RequestAllowed(p, amount, tenor, balance, boostBps)

CollateralRequestAllowed(p, amount, tenor, balance, boostBps, collateral) ==
  /\ Profiles[p].requiresCollateral
  /\ RequestAllowed(p, amount, tenor, balance, boostBps)
  /\ collateral >= RequiredCollateral(p, amount)
=============================================================================
