\* Three users that refer each other, two unsecured loans, liquidity that runs out.
CONSTANTS
  alice = alice
  bob = bob
  carol = carol
  NoUser = NoUser
  Users <- MCThreeUsers
  Policy <- MCPolicy
  Profiles <- NoProfiles
  Month = 2
  Amounts = {400}
  Tenors = {1}
  Collaterals = {}
  Aprs = {1200}
  Installments = {230}
  Graces = {0}
  Deposits = {400}
  InitialWallet <- MCThreeWallet
  InitialLiquidity = 400
  InitialReserve = 3
  InitialDistributed <- MCDistributed
  MaxTime = 2
  MaxRequests = 2
  MaxDeposited = 800
  Referrers <- MCThreeUsers
  MaxReferralPoints = 20
SPECIFICATION Spec
INVARIANTS
  ReferralBooksAgree
  PointsExplained
SYMMETRY MCThreeSymmetry
