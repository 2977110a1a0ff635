\* One verify-only effect, two callers, two sweepers, any timing: what a key is promised until a slip.
CONSTANTS
    c1 = c1
    c2 = c2
    s1 = s1
    s2 = s2
    kNone = kNone
    kVerify = kVerify
    kParam = kParam
    NoKey = NoKey
    Callers = {c1, c2}
    Sweepers = {s1, s2}
    Keys = {kVerify}
    KeyParam = {}
    HasVerify = {kVerify}
    CanNoop = {kVerify}
    Registered = {kVerify}
    OnAbsent = {"abort", "retry"}
    Bare = {}
    MaxEpoch = 3
SPECIFICATION Spec
SYMMETRY ProcessSymmetry
INVARIANTS
    AtMostOnceVerifiable
    RefusedEffectFree
    PunctualInv
PROPERTIES
    ImplementsExactlyOnce
