\* As many failing subjects as the batch has slots: the flowing subject starves.
SPECIFICATION FairSpec
CONSTANTS
    e1 = e1
    e2 = e2
    e3 = e3
    s1 = s1
    s2 = s2
    nats = nats
    s2dest = s2dest
    r1 = r1
    r2 = r2
    NoSubject = NoSubject
    NoReplica = NoReplica
    Replicas = {r1}
    Events = {e1, e2, e3}
    DestOrder <- OneDest
    Subjects = {s1, s2}
    SubjectOf <- AllApart
    Accepts <- AcceptAll
    Unroutable = {e2}
    Rejected = {e1}
    MaxAttempts = 2
    BatchSize = 2
    CleanupBatchSize = 1
    SerialWriters = TRUE
    SessionLoss = FALSE
    LongStall = FALSE
    MaxFaults = 0
PROPERTIES
    OthersKeepFlowing
