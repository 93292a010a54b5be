SPECIFICATION MCSpec
CONSTANTS
    ann = ann
    bob = bob
    issuer = issuer
    audit = audit
    r1 = r1
    s1 = s1
    s2 = s2
    c1 = c1
    c2 = c2
    d1 = d1
    d2 = d2
    Person <- MCPerson
    Content <- MCContent
    Seeded <- MCSeeded
    Decider <- MCDecider
    MaxProposals = 2
    MaxClock = 7
    Requirement <- MCRequirement
    Requires <- MCRequires
    Evidence <- MCEvidence
    Payload <- MCPayload
    Target <- MCTarget
    Session <- MCSession
    Ttl = 3
    MaxAssessments = 1
    MaxRequests = 2
    Precondition <- MCPrecondition
    Command <- MCCommand
    Restriction <- MCRestriction
    Covers <- MCCovers
    Binds <- MCBinds
    MaxVersion = 5
SYMMETRY Symmetry
INVARIANTS
    GoNeedsReadiness
CHECK_DEADLOCK FALSE
