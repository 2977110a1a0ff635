\* One gated key, raced by a gated call, two deliveries (one in a process
\* that never registered the action), a paused sweep and a backstop poll.
CONSTANTS
    g1 = g1
    g2 = g2
    r1 = r1
    r2 = r2
    sw = sw
    kGate = kGate
    kBoth = kBoth
    NoKey = NoKey
    Gates = {g1}
    Receivers = {r1, r2}
    Sweepers = {sw}
    Keys = {kGate}
    AutoKeys = {}
    Wired = {g1, r1, sw}
    Hosted = TRUE
    Vouched = {kGate}
    MaxEffects = 2
    MaxFaults = 0
SPECIFICATION FreeSpec
VIEW WhatMatters
INVARIANTS
    TypeOK
    ApprovalBeforeClaim
    RunMatchesLedger
    OneTerminalEvent
    TrailIsPath
    SettlesAtOnce
    SaidIsTrue
