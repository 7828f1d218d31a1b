\* Four products under three terms, two apps, one live item, and four moves of the user, the chain or a sync.
CONSTANTS
  a1 = a1
  a2 = a2
  i1 = i1
  None = None
  DefaultProfile = 1
  DemoApproval = TRUE
  MaxMoves = 4
  Terms <- MCTerms
  Rows <- MCRows
  Apps <- MCApps
  Catalogue <- MCCatalogue
  Routes <- MCRoutes
  Amounts <- MCAmounts
  Collaterals <- MCCollaterals
SPECIFICATION Spec
CHECK_DEADLOCK FALSE
INVARIANTS
  RestFits
PROPERTIES
  EffectsProgress
  RefusalsExplained
  FormSettles
