\* Two borrowers, two requests of two installments, plain and secured.
CONSTANTS
  alice = alice
  bob = bob
  carol = carol
  NoUser = NoUser
  Users <- MCUsers
  Policy <- MCPolicy
  Profiles <- MicroAndSecured
  Month = 2
  Amounts = {400}
  Tenors = {2}
  Collaterals = {600}
  Aprs = {1200}
  Installments = {230}
  Graces = {1}
  Deposits = {}
  InitialWallet <- MCWallet
  InitialLiquidity = 800
  InitialReserve = 3
  InitialDistributed <- MCDistributed
  MaxTime = 5
  MaxRequests = 2
  MaxDeposited = 800
  Referrers <- MCUsers
  MaxReferralPoints = 0
SPECIFICATION Spec
INVARIANTS
  TypeOK
  LoanConsistent
  ReputationMatchesBook
  VaultsMatchCounters
  TotalsMatchBook
  FeesMatchLoans
SYMMETRY MCSymmetry
