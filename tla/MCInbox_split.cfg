\* The lock's session may die under a live leader: two replicas read at once;
\* a malformed record blocks what follows it.
SPECIFICATION FairSpec
CONSTANTS
    e1 = e1
    e2 = e2
    bad = bad
    r1 = r1
    r2 = r2
    NoReplica = NoReplica
    Replicas = {r1, r2}
    Events = {e1, bad}
    Malformed = {bad}
    Dedup = TRUE
    SkipOnError = FALSE
    FromTail = FALSE
    SessionLoss = TRUE
    Crashes = TRUE
    MaxRecords = 3
    MaxFaults = 1
INVARIANTS
    CursorNeverLeads
    HandledInOrder
PROPERTIES
    EventuallySettled
\* A consumer at the end of the bounded feed waits for a record for ever.
CHECK_DEADLOCK FALSE
