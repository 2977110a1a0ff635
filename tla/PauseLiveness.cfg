\* Sweeps and polls alone drive a decided run home, faults permitting; the
\* key may be committed by an ungated call too.
CONSTANTS
    g1 = g1
    g2 = g2
    r1 = r1
    r2 = r2
    sw = sw
    kGate = kGate
    kBoth = kBoth
    NoKey = NoKey
    Gates = {g1}
    Receivers = {}
    Sweepers = {sw}
    Keys = {kBoth}
    AutoKeys = {kBoth}
    Wired = {g1, sw}
    Hosted = TRUE
    Vouched = {kBoth}
    MaxEffects = 1
    MaxFaults = 3
SPECIFICATION FairSpec
PROPERTIES
    ApprovedIsDriven
    DecisionIsFetched
