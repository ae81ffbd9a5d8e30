\* One job, since no row depends on another; two attempts, so that events and
\* answers of the first are late in the second; two reloads and two events at once,
\* so that each can overtake the other.
CONSTANTS
    Jobs = {j1}
    MaxAttempts = 2
    Slots = {g1, g2}
    MaxNews = 2
    NoReload = NoReload
SPECIFICATION UiFairSpec
INVARIANTS
    VerdictShownIsTrue
    LinkIsLive
    SettledIsShown
    UiInv
PROPERTIES
    ReloadsConverge
