\* Every way to call four tools, four risks, and gated calls over both transports.
CONSTANTS
    Programs <- FourTools
    ThePolicy <- SmallRefunds
    Window = 1
    MaxClock = 2
    MaxInFlight = 2
    MaxLines = 2
SPECIFICATION Spec
INVARIANTS
    KeyIsTheCall
    RecoveredCallIsFaithful
    BlockedStaysBlocked
    AckedIsApplied
PROPERTIES
    VerdictStands
\* Calls return and nobody has to call again.
CHECK_DEADLOCK FALSE
