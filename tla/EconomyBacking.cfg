\* Two stakers and one loan: where the rewards that are claimed come from.
CONSTANTS
  alice = alice
  bob = bob
  NoUser = NoUser
  Profiles <- NoProfiles
  Tenors = {1}
  Collaterals = {}
  Aprs = {1200}
  Graces = {0}
  Deposits = {}
  InitialDistributed <- MCDistributed
  Referrers = {}
  MaxReferralPoints = 0
  Precision = 100
  PagePrices <- MCPagePrices
  Users <- MCUsers
  Policy <- MCPolicy
  Month = 1
  Amounts = {2000}
  Installments = {2100}
  InitialWallet <- MCWallet
  InitialLiquidity = 2000
  InitialReserve = 30
  MaxTime = 2
  MaxRequests = 1
  MaxDeposited = 2000
  MaxU64 = 1000000
  Stakes = {40}
  Redemptions = {}
  Percents = {}
  Transfers = {}
  Mints = {}
  MaxEarned = 20
  MaxMinted = 230
SPECIFICATION EconomySpec
INVARIANTS
  RewardsBackedByFees
