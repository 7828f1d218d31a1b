\* One loan whose fees are paid in two parts, two stakers that come and go.
CONSTANTS
  alice = alice
  bob = bob
  NoUser = NoUser
  Profiles <- NoProfiles
  Tenors = {1}
  Collaterals = {}
  Aprs = {1200}
  Graces = {0}
  Deposits = {}
  InitialDistributed <- MCDistributed
  Referrers = {}
  MaxReferralPoints = 0
  Precision = 100
  PagePrices <- MCPagePrices
  Users <- MCUsers
  Policy <- MCNoPointsForLend
  Month = 1
  Amounts = {2000}
  Installments = {2100}
  InitialWallet <- MCWallet
  InitialLiquidity = 2000
  InitialReserve = 30
  MaxTime = 2
  MaxRequests = 1
  MaxDeposited = 2000
  MaxU64 = 3000
  Stakes = {40}
  Redemptions = {}
  Percents = {}
  Transfers = {100}
  Mints = {}
  MaxEarned = 8
  MaxMinted = 230
SPECIFICATION EconomySpec
INVARIANTS
  StakeBooksAgree
  FeesReachStakers
  FeesAccounted
  PayoutsAccounted
  LendConserved
PROPERTIES
  EarningsKept
SYMMETRY MCSymmetry
