\* A reconnect while a job is running.
CONSTANTS
    Jobs = {j1}
    Workers = {w1}
    Requests = {r1}
    MaxAttempts = 1
    MaxSessions = 2
    OutBuffer = 2
    CommandBuffer = 1
    NoStream = NoStream
SPECIFICATION RoutingSpec
SYMMETRY Symmetry
INVARIANTS
    HolderIsRouted
