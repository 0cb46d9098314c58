\* Two requests on two sockets, one of them from a callback; four messages in the queue
\* alone.  It may stop: once waitForAllDone has returned nothing more has to happen.
CONSTANTS
    MaxIds = 4
    Fds = {1, 2}
    MaxRequests = 2
SPECIFICATION MCSpec
INVARIANTS
    PopsInOrder
    EndsOnce
PROPERTIES
    WaitsForAll
    RequestsEnd
CHECK_DEADLOCK FALSE
