\* Two clients with room for two events each, a backlog of one and three events:
\* both kinds of drop happen, and one client can lag the other.  No symmetry: it
\* is unsound for liveness.
CONSTANTS
    Clients = {c1, c2}
    MaxEvents = 3
    SendBuffer = 2
    Backlog = 1
SPECIFICATION FairSpec
CHECK_DEADLOCK FALSE
INVARIANTS
    TypeOK
    NoChannelPanic
    DeliveredInOrder
    NobodyStranded
PROPERTIES
    ImplementsFeed
    NoGoroutineLeak
    BrokenClientForgotten
    QueuedIsWritten
