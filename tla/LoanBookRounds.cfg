\* Three one-month requests, one after the other and side by side.
CONSTANTS
  alice = alice
  bob = bob
  carol = carol
  NoUser = NoUser
  Users <- MCUsers
  Policy <- MCPolicy
  Profiles <- SecuredOnly
  Month = 2
  Amounts = {20}
  Tenors = {1}
  Collaterals = {30}
  Aprs = {1200}
  Installments = {23}
  Graces = {0}
  Deposits = {}
  InitialWallet <- MCSmallWallet
  InitialLiquidity = 40
  InitialReserve = 3
  InitialDistributed <- MCDistributed
  MaxTime = 2
  MaxRequests = 3
  MaxDeposited = 40
  Referrers <- MCUsers
  MaxReferralPoints = 0
SPECIFICATION Spec
INVARIANTS
  CollateralBacked
  OneOpenCredit
  ApprovedOnce
PROPERTIES
  SettledForever
  CreditLineSpec
SYMMETRY MCSymmetry
