\* A tool whose ignored parameter stands before one that is persisted.
CONSTANTS
    Programs <- IgnoringPrograms
    ThePolicy <- SmallRefunds
    Window = 1
    MaxClock = 2
    MaxInFlight = 2
    MaxLines = 2
SPECIFICATION Spec
INVARIANTS
    RecoveredCallIsFaithful
\* Calls return and nobody has to call again.
CHECK_DEADLOCK FALSE
