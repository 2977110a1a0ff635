\* One crash between the two transactions of a rejection.
CONSTANTS
    g1 = g1
    g2 = g2
    r1 = r1
    r2 = r2
    sw = sw
    kGate = kGate
    kBoth = kBoth
    NoKey = NoKey
    Gates = {g1}
    Receivers = {}
    Sweepers = {sw}
    Keys = {kGate}
    AutoKeys = {}
    Wired = {g1, sw}
    Hosted = TRUE
    Vouched = {kGate}
    MaxEffects = 1
    MaxFaults = 1
SPECIFICATION FairSpec
PROPERTIES
    RejectedIsClosed
