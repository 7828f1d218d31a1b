\* Two accounts, two loads beside each other, two logins.
CONSTANTS
  alice = alice
  bob = bob
  n1 = n1
  n2 = n2
  n3 = n3
  l1 = l1
  l2 = l2
  MaxMoves = 5
  None = None
  Wallets <- MCWallets
  Logins <- MCTwoLogins
  Loads <- MCLoads
SPECIFICATION Spec
CHECK_DEADLOCK FALSE
INVARIANTS
  SessionTypeOK
  StoredTokenOwn
  SyncingOwned
PROPERTIES
  StrandedByOutlived
  SyncingEnds
