\* Liveness: e1 cannot be routed, e2 of its subject is refused, e3 flows past them;
\* crashes, failed statements and takeover by the standby.
SPECIFICATION FairSpec
CONSTANTS
    e1 = e1
    e2 = e2
    e3 = e3
    s1 = s1
    s2 = s2
    nats = nats
    s2dest = s2dest
    r1 = r1
    r2 = r2
    NoSubject = NoSubject
    NoReplica = NoReplica
    Replicas = {r1, r2}
    Events = {e1, e2, e3}
    DestOrder <- OneDest
    Subjects = {s1, s2}
    SubjectOf <- TwoSubjects
    Accepts <- AcceptAll
    Unroutable = {e1}
    Rejected = {e2}
    MaxAttempts = 2
    BatchSize = 2
    CleanupBatchSize = 1
    SerialWriters = TRUE
    SessionLoss = FALSE
    LongStall = FALSE
    MaxFaults = 1
INVARIANTS
    StuckMeansFailing
PROPERTIES
    EventuallyReceived
    MarkedUnlessFault
