\* A page that only watches one job, on a network that loses nothing.
CONSTANTS
    Jobs = {j1}
    MaxAttempts = 1
    Slots = {g1, g2}
    MaxNews = 2
    NoReload = NoReload
SPECIFICATION ReliableSpec
INVARIANTS
    GapClosed
