\* One borrower, one loan, every way to spend points and to claim LEND.
CONSTANTS
  alice = alice
  bob = bob
  NoUser = NoUser
  Profiles <- NoProfiles
  Tenors = {1}
  Collaterals = {}
  Aprs = {1200}
  Graces = {0}
  Deposits = {}
  InitialDistributed <- MCDistributed
  Referrers = {}
  MaxReferralPoints = 0
  Precision = 100
  PagePrices <- MCPagePrices
  Users <- MCOneUser
  Policy <- MCCheapPerks
  Month = 1
  Amounts = {400}
  Installments = {420}
  InitialWallet <- MCOneWallet
  InitialLiquidity = 400
  InitialReserve = 2
  MaxTime = 2
  MaxRequests = 1
  MaxDeposited = 400
  MaxU64 = 1000000
  Stakes = {4}
  Redemptions = {10}
  Percents = {10, 11}
  Transfers = {10}
  Mints = {10}
  MaxEarned = 0
  MaxMinted = 22
SPECIFICATION EconomySpec
INVARIANTS
  PointsSpentOnce
  LendPerPointBounded
  OffersAccepted
