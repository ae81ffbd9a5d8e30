\* The window between a claim and its PROCESSING event.
CONSTANTS
    Jobs = {j1}
    Workers = {w1}
    Requests = {r1}
    MaxAttempts = 1
    MaxSessions = 1
    OutBuffer = 2
    CommandBuffer = 1
    NoStream = NoStream
SPECIFICATION RoutingSpec
SYMMETRY Symmetry
INVARIANTS
    RegisteredBeforeCancel
