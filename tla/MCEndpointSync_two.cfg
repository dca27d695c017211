\* Two callers of one client on a log of two: a good event, a corrupted one and
\* one the server refuses; the breaker opens at the second failure in a row.
SPECIFICATION FairSpec
CONSTANTS
    e1 = e1
    corrupt = corrupt
    invalid = invalid
    p1 = p1
    p2 = p2
    tool = tool
    Clients = {tool}
    Callers = {p1, p2}
    ClientOf <- OneClient
    Events = {e1, corrupt, invalid}
    Corrupt = {corrupt}
    Invalid = {invalid}
    BatchSize = 2
    MaxPending = 2
    TripAfter = 2
    MaxFaults = 2
INVARIANTS
    NothingLost
    CountExact
    SyncedHonest
PROPERTIES
    SyncAsPromised
    SyncReturns
    EventuallyResolved
