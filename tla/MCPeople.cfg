SPECIFICATION MCSpec
CONSTANTS
  p1 = p1
  p2 = p2
  p3 = p3
  p4 = p4
  p5 = p5
  b1 = b1
  b2 = b2
  Person <- MCPerson
  MaxRequests = 2
  MaxAddress = 2
  Proposal = {1}
  Voter = {"ann", "ben"}
  Address = {"x", "y"}
  Holdings <- MCHoldings
  Supply = 3
  ManualWeights = {1}
  Terms <- MCTerms
  Ballot <- MCBallot
  MaxWallets = 4
  Checking <- MCBallot
  MaxSessions = 3
  MaxPasskeys = 1
  MaxTotps = 2
  MaxChallenges = 2
  MaxSets = 1
  MaxStep = 2
  MaxCount = 0
  CodesInSet = 2
  AttemptCap = 1
  Callback <- MCBallot
  Holder = {"ann", "bea"}
  Invited = {"bea"}
  Account = {"g1", "g2"}
  ProviderOf <- MCProviderOf
  MaxFlows = 2
  MaxEntries = 2
  MaxIdentities = 2
  Bindable <- MCBindable
  Project = {"p1", "p2", "p3"}
  OwnerOf <- MCOwner
  HostOf <- MCHost
  MaxBindings = 2
  Value = {"v1", "v2"}
  MaxTokens = 3
  InstanceParts = {"recovery", "authority", "sign-in", "courses", "weights",
                   "keys", "app", "providers", "access", "tokens"}
  MaxNow = 4
  MaxChanges = 2
INVARIANTS
  AuthorityStands
  BalancesCountOnce
  FactorsHold
  SignInsStand
  DecisionsAgree
PROPERTIES
  EnrolmentIsEarned
  TokensHandOver
SYMMETRY MCSymmetry
CHECK_DEADLOCK FALSE
