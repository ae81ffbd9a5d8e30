\* Five small worlds in one instance, joined by the constraint: one worker that
\* reconnects, with one job and a cancel, or with two jobs; two workers that take
\* one job from each other; two cancels of one job at once; and a cancel that
\* arrives when its worker is at another job.
CONSTANTS
    Jobs = {j1, j2}
    Workers = {w1, w2}
    Requests = {r1, r2}
    MaxAttempts = 2
    MaxSessions = 2
    OutBuffer = 2
    CommandBuffer = 1
    NoStream = NoStream
SPECIFICATION RoutingSpec
SYMMETRY Symmetry
CONSTRAINT SmallWorlds
INVARIANTS
    LeasesOnOpenStreams
    FirstRunIsRouted
    FirstCancelArrives
    VerdictsAreRecorded
    OnlyAskedIsCanceled
    FailedAnswerHolds
