\* A verify-only effect, default on_absent; excepted are the slips that timeouts can rule out.
CONSTANTS
    c1 = c1
    c2 = c2
    s1 = s1
    s2 = s2
    kNone = kNone
    kVerify = kVerify
    kParam = kParam
    NoKey = NoKey
    Callers = {c1}
    Sweepers = {s1, s2}
    Keys = {kVerify}
    KeyParam = {}
    HasVerify = {kVerify}
    CanNoop = {}
    Registered = {kVerify}
    OnAbsent = {"abort"}
    Bare = {}
    MaxEpoch = 3
SPECIFICATION Spec
INVARIANTS
    RefusedUnlessLate
