SPECIFICATION MCSpec
CONSTANTS
  Ann = Ann
  Ben = Ben
  ConfigA = ConfigA
  ConfigB = ConfigB
  Persons = {Ann, Ben}
  Configs = {ConfigA, ConfigB}
  Keys = {k1, k2}
  Queries = {"q1"}
  Hashes = {"h1", "h2"}
  Collects = {c1, c2, c3}
  MaxVersion = 4
  MaxAuthorityVersion = 3
  MaxReviews = 2
  k1 = k1
  k2 = k2
  c3 = c3
  MaxReceipts = 4
  MaxClaims = 1
  MaxFaults = 1
  MaxChanges = 2
  InitAuthorities <- MCInitAuthorities
  InitConnections <- MCInitConnections
  InitReceipts <- MCInitReceipts
  PatchStates <- MCPatchStates
  ManualResults <- MCManualResults
  Case = {1, 2}
  Claim = {1, 2}
  FirstClaims = {1, 2}
  Attestation = {1, 2, 3}
  Request = {1, 2, 3}
  Dispute = {1, 2}
  Reviewer = {"rae"}
  Officer = {"olu", "ola"}
  Bodies <- MCBodies
  Disclosure = {"none"}
  Expiring = {"rae"}
  MaxAssignments = 2
  t1 = t1
  t2 = t2
  Tx <- MCTx
  Tier <- MCTier
  Submitter <- MCSubmitter
INVARIANTS
  SourcesStand
  
  ClaimsStand
SYMMETRY MCSymmetry
CHECK_DEADLOCK FALSE
