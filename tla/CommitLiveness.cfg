\* Every claimed row is resolved, faults permitting.
CONSTANTS
    c1 = c1
    c2 = c2
    s1 = s1
    s2 = s2
    kNone = kNone
    kVerify = kVerify
    kParam = kParam
    NoKey = NoKey
    Callers = {c1, c2}
    Sweepers = {s1}
    Keys = {kVerify}
    KeyParam = {}
    HasVerify = {kVerify}
    CanNoop = {kVerify}
    Registered = {kVerify}
    OnAbsent = {"abort", "retry"}
    Bare = {}
    MaxEpoch = 7
    MaxFaults = 2
SPECIFICATION LiveSpec
PROPERTIES
    EventuallyResolved
