\* A term that ends between the election and the reopen.
SPECIFICATION Spec
CONSTANTS
    e1 = e1
    e2 = e2
    bad = bad
    r1 = r1
    r2 = r2
    NoReplica = NoReplica
    Replicas = {r1, r2}
    Events = {e1, e2}
    Malformed = {}
    Dedup = FALSE
    SkipOnError = FALSE
    FromTail = FALSE
    SessionLoss = FALSE
    Crashes = FALSE
    MaxRecords = 1
    MaxFaults = 1
SYMMETRY ReplicaSymmetry
INVARIANTS
    NeverReturns
\* A consumer at the end of the bounded feed waits for a record for ever.
CHECK_DEADLOCK FALSE
