\* Three requests over credentials revoked once, an upstream of each kind opened on
\* each setting, a stream that breaks up to the limit, and pipes of one line.
\* Requests, openings, streams and children end.
CHECK_DEADLOCK FALSE
CONSTANTS
    r1 = r1
    r2 = r2
    r3 = r3
    Requests <- ThreeRequests
    MaxCredential = 2
    MaxFailures = 1
    MaxPages = 3
    MaxChanges = 2
    MaxReconnects = 4
    MaxEvents = 5
    PipeSize = 1
    ReadAhead = 5
    Lines = 2
    Outstanding = 3
    MaxSends = 5
SPECIFICATION Spec
INVARIANTS OpeningsHold MessagesInOrder
PROPERTIES FetchesAreNeeded LinksEnd
