\* Campaigns beside requests, point claims and one reserve of 60 LEND.
CONSTANTS
  alice = alice
  bob = bob
  NoUser = NoUser
  Profiles <- NoProfiles
  Tenors = {1}
  Collaterals = {}
  Aprs = {1200}
  Graces = {0}
  Deposits = {}
  InitialDistributed <- MCDistributed
  Referrers = {}
  MaxReferralPoints = 0
  Precision = 100
  Users <- MCUsers
  Policy <- MCPolicy
  VotingRules <- MCVotingRules
  Month = 1
  Percents = {}
  Redemptions = {}
  MaxEarned = 0
  Installments = {2100}
  Amounts = {2000}
  InitialWallet <- MCEqualWallet
  InitialLiquidity = 2000
  InitialReserve = 60
  MaxTime = 0
  MaxRequests = 1
  MaxDeposited = 2000
  MaxU64 = 5000000
  Stakes = {}
  Transfers = {}
  Mints = {}
  MaxMinted = 260
  Topics = {}
  MaxProposals = 0
  Budgets = {50}
  Grants = {20, 30}
  Activity = {2}
  MaxCampaigns = 2
  MaxAllocations = 3
SPECIFICATION CommunitySpec
INVARIANTS
  CampaignBudgets
  ReservePayoutsExplained
SYMMETRY MCSymmetry
