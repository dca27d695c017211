\* Two replicas, one leader at a time: a session dies only with its process.
SPECIFICATION Spec
CONSTANTS
    e1 = e1
    e2 = e2
    e3 = e3
    s1 = s1
    s2 = s2
    nats = nats
    s2dest = s2dest
    r1 = r1
    r2 = r2
    NoSubject = NoSubject
    NoReplica = NoReplica
    Replicas = {r1, r2}
    Events = {e1, e2}
    DestOrder <- BothDests
    Subjects = {s1, s2}
    SubjectOf <- OneSubject
    Accepts <- AcceptAll
    Unroutable = {}
    Rejected = {}
    MaxAttempts = 2
    BatchSize = 2
    CleanupBatchSize = 1
    SerialWriters = TRUE
    SessionLoss = FALSE
    LongStall = FALSE
    MaxFaults = 2
SYMMETRY ReplicaSymmetry
INVARIANTS
    NoGap
    OnlyHolderDrains
    DeliveredMeansPublished
PROPERTIES
    NeverUnpublished
