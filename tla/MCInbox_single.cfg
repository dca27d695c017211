\* Terms end, calls fail, processes crash, but a session dies only with its
\* holder: one reader at a time.
SPECIFICATION Spec
CONSTANTS
    e1 = e1
    e2 = e2
    bad = bad
    r1 = r1
    r2 = r2
    NoReplica = NoReplica
    Replicas = {r1, r2}
    Events = {e1, bad}
    Malformed = {bad}
    Dedup = TRUE
    SkipOnError = TRUE
    FromTail = FALSE
    SessionLoss = FALSE
    Crashes = TRUE
    MaxRecords = 3
    MaxFaults = 2
SYMMETRY ReplicaSymmetry
INVARIANTS
    RerunsAreFaults
PROPERTIES
    CursorMonotone
\* A consumer at the end of the bounded feed waits for a record for ever.
CHECK_DEADLOCK FALSE
