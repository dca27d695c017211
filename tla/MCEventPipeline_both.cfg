\* One publisher and one consumer, one fault at either end, one publish whose answer is lost.
SPECIFICATION Spec
CONSTANTS
    e1 = e1
    e2 = e2
    sub = sub
    nats = nats
    s2 = s2
    PlEvents = {e1, e2}
    PlSubjects = {sub}
    PlNoSubject = NoSubject
    PlSubjectOf <- OneSubject
    PlFeedOf <- OneFeed
    PlPublic = {e1, e2}
    PlTenantOf <- NoTenants
    PlNoTenant = NoTenant
    PlS2 = s2
    PlNats = nats
    PlDestOrder <- BothDests
    PlStream <- PublicStream
    PlPublishers = {p1}
    PlConsumers = {c1}
    PlNoReplica = NoReplica
    PlSessionLoss = TRUE
    PlLostAnswers = 1
    \* Each event once, and once more for the lost answer and for the fault: never full.
    PlMaxRecords = 4
    PlMaxFaults = 1
INVARIANT
    NothingInBetween
PROPERTIES
    PipelineDelivers
    EventuallyHandled
\* A consumer at the end of the bounded feed waits for a record for ever.
CHECK_DEADLOCK FALSE
