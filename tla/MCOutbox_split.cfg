\* Sessions die under live leaders and passes outlast the retention: two
\* replicas drain and clean up at once.
SPECIFICATION Spec
CONSTANTS
    e1 = e1
    e2 = e2
    e3 = e3
    s1 = s1
    s2 = s2
    nats = nats
    s2dest = s2dest
    r1 = r1
    r2 = r2
    NoSubject = NoSubject
    NoReplica = NoReplica
    Replicas = {r1, r2}
    Events = {e1, e2}
    DestOrder <- OneDest
    Subjects = {s1, s2}
    SubjectOf <- OneSubject
    Accepts <- AcceptAll
    Unroutable = {}
    Rejected = {}
    MaxAttempts = 2
    BatchSize = 2
    CleanupBatchSize = 1
    SerialWriters = TRUE
    SessionLoss = TRUE
    LongStall = TRUE
    MaxFaults = 2
SYMMETRY ReplicaSymmetry
INVARIANTS
    AtLeastOnce
    MarkedMeansReceived
PROPERTIES
    ImplementsPromise
