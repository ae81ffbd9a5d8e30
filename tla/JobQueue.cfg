\* Two jobs and two workers; two attempts are enough for a retry, a takeover and
\* an exhausted job.  No symmetry: it is unsound for liveness.
CONSTANTS
    Jobs = {j1, j2}
    Workers = {w1, w2}
    MaxAttempts = 2
SPECIFICATION FairSpec
INVARIANTS
    TypeOK
    OneLeaseHolder
    NoRowStranded
    DownloadLinkWorks
    IInv
PROPERTIES
    ImplementsLifecycle
    TerminalIsFinal
    LiveLeaseRespected
    DoneByLatestAttempt
    RowsMoveForward
    EveryJobFinishes
