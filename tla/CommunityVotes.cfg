\* A proposal, while LEND is staked, moved, given back and spent.
CONSTANTS
  alice = alice
  bob = bob
  NoUser = NoUser
  Profiles <- NoProfiles
  Tenors = {1}
  Collaterals = {}
  Aprs = {1200}
  Graces = {0}
  Deposits = {}
  InitialDistributed <- MCDistributed
  Referrers = {}
  MaxReferralPoints = 0
  Precision = 100
  Users <- MCUsers
  Policy <- MCPolicy
  VotingRules <- MCVotingRules
  Month = 1
  Percents = {}
  Redemptions = {}
  MaxEarned = 0
  Installments = {}
  Amounts = {}
  InitialWallet <- MCWallet
  InitialLiquidity = 0
  InitialReserve = 50
  MaxTime = 3
  MaxRequests = 0
  MaxDeposited = 0
  MaxU64 = 4000000
  Stakes = {100}
  Transfers = {100}
  Mints = {}
  MaxMinted = 350
  Topics = {1}
  MaxProposals = 1
  Budgets = {}
  Grants = {}
  Activity = {}
  MaxCampaigns = 0
  MaxAllocations = 0
SPECIFICATION CommunitySpec
INVARIANTS
  TallyIsReceipts
  VoteOrFinalize
PROPERTIES
  OutcomeIsFinal
