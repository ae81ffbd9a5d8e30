\* Two requests share one api process, which may die under both.  The poll
\* interval is longer than the backoff, as in the code (5s and 2s).
CONSTANTS
    Uploads = {u1, u2}
    Poll = 3
    Backoff = 2
SPECIFICATION WorkerSpec
SYMMETRY Symmetry
INVARIANTS
    RowHasPdf
    AcceptedJobRuns
    SignalIffRow
    UploadInv
    TriedInTime
    NoLostWakeup
    LoopInv
