\* The grace window and the default that may overtake it.
CONSTANTS
  alice = alice
  bob = bob
  carol = carol
  NoUser = NoUser
  Users <- MCUsers
  Policy <- MCPolicy
  Profiles <- SecuredOnly
  Month = 2
  Amounts = {400}
  Tenors = {2}
  Collaterals = {600}
  Aprs = {1200}
  Installments = {230}
  Graces = {1}
  Deposits = {}
  InitialWallet <- MCWallet
  InitialLiquidity = 800
  InitialReserve = 3
  InitialDistributed <- MCDistributed
  MaxTime = 6
  MaxRequests = 2
  MaxDeposited = 800
  Referrers <- MCUsers
  MaxReferralPoints = 0
SPECIFICATION Spec
PROPERTIES
  DefaultOnlyOverdue
