CONSTANTS
    Event = {e1}
    Worker = {w1, w2}
    NoEvent = NoEvent
    MaxAttempts = 2
    MaxLosses = 2
    MaxReplays = 1
    Sender = {w1, w2}
    Notice = {n1}
    Sink = {s1}
    Mail = {m1}
    MaxTries = 2
    MaxCuts = 1
    Sweeper = {w1}
    Caller = {c1}
    ProjectId = {1, 2}
    BatchSize = 1
    MaxFacts = 4
    MaxRestarts = 1
SPECIFICATION MCSpec
INVARIANTS
    WorkBeforeReceipt
    PublishedIsHandled
    DeliveriesStand
PROPERTIES
    ExportStands
    JobsComeToAnEnd
CHECK_DEADLOCK FALSE
