\* Three writers and a verification pass over one key, on either store.
CONSTANTS
    w1 = w1
    w2 = w2
    w3 = w3
    k1 = k1
    Nobody = Nobody
    Writers = {w1, w2, w3}
    Keys = {k1}
    Dialects = {"postgres", "sqlite"}
    Workloads <- ThreeWorkloads
    Outcomes = {"committed", "aborted"}
    MaxEpoch = 2
    MaxEvents = 4
    Damages = {"lost", "altered", "replaced", "headless", "rewritten"}
SPECIFICATION Spec
SYMMETRY WriterSymmetry
VIEW WhatIsLeft
INVARIANTS
    TrailMatchesTables
    LoserFindsRow
    NoStandoff
    ChainIntact
    HealthyIsAccepted
    AcceptedIsGenuine
PROPERTIES
    ImplementsLedgerService
\* The clients may stop asking; stuck transactions are an invariant of their own.
CHECK_DEADLOCK FALSE
