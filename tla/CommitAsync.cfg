\* No timing assumption: a caller that is slow, dies or calls again, and a sweep,
\* over an unregistered effect without safeguards beside a keyed one.
CONSTANTS
    c1 = c1
    c2 = c2
    s1 = s1
    s2 = s2
    kNone = kNone
    kVerify = kVerify
    kParam = kParam
    NoKey = NoKey
    Callers = {c1}
    Sweepers = {s1}
    Keys = {kParam, kNone}
    KeyParam = {kParam}
    HasVerify = {kParam}
    CanNoop = {kParam, kNone}
    Registered = {kParam}
    OnAbsent = {"abort", "retry"}
    Bare <- BareNone
    MaxEpoch = 3
SPECIFICATION Spec
VIEW WithoutSlips
INVARIANTS
    TypeOK
    PendingNeverStarted
    AtMostOnceUnretried
    OneHolderPerEpoch
    CommittedTookEffect
    CallersAgree
    AuditMatchesLedger
    AsyncInv
PROPERTIES
    LedgerLifecycle
    FenceHolds
