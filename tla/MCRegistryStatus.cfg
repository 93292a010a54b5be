CONSTANTS
    c1 = c1
    c2 = c2
    e1 = e1
    e2 = e2
    n1 = n1
    n2 = n2
    Content = {c1, c2}
    ContentHash = {c1, c2, ZeroHash}
    ZeroHash = ZeroHash
    VersionBound = 2
    Destination = {This, Other}
    This = This
    Other = Other
    MaxReportTTL = 2
    MaxTime = 3
    Execution = {e1, e2}
    Elsewhere = {}
    Node = {n1, n2}
    Agreement = 2
    Ttl = 1
    Skew = 1
    NoAnswer = NoAnswer
SPECIFICATION Spec
SYMMETRY Interchangeable
INVARIANTS
    ReportsCanBeReliedOn
    NewerReportIsAdmissible
PROPERTIES
    RevocationSticks
