CONSTANTS
    b1 = b1  b2 = b2  b3 = b3
    r1 = r1  r2 = r2
    zero = zero
    admin = admin  key = key
    d1 = d1  d2 = d2
    p1 = p1  p2 = p2
    BatchId <- MCBatchId
    Root <- MCRoot
    Account <- MCAccount
    Zero = zero
    Admin = admin
    MaxTime = 2
    MaxRecords = 1
    RegistryType = {"project", "verification"}
    Draft <- MCDraft
    Person <- MCPerson
    Request <- MCRequest
    Builder = {b1, b2}
    Evidence = 1
    NoDraft = NoDraft
    Worker <- MCRequest
    MaxTxs = 2
    MaxUploads = 1
    InstanceParts = {"contract", "entry", "signer", "safe"}
SPECIFICATION MCSpec
SYMMETRY Interchangeable
INVARIANTS
    SupersedeAcyclic
    StorageMatchesEvents
    PublishedOnce
    
PROPERTIES
    HistoryAppendOnly
    PublishedAsItStands
    KeepsVersionHistory
CHECK_DEADLOCK FALSE
