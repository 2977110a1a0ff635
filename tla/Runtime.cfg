\* Four programs: a guarded tool inside another, two calls one of them timed,
\* and an approved call, with and without a timeout, driven from the event loop
\* or from a cron.  Programs end.
CONSTANTS
    w1 = w1
    w2 = w2
    LoopThread = LoopThread
    CronThread = CronThread
    NoCall = NoCall
    outer = outer
    inner = inner
    plain = plain
    timed = timed
    approved = approved
    bounded = bounded
    audit1 = audit1
    close1 = close1
    Workers = {w1, w2}
    Threads = {w1, w2, LoopThread, CronThread}
    Closers = {close1}
    Auditors = {audit1}
    Calls = {outer, inner, plain, timed, approved, bounded}
    Inner <- Nesting
    Timed = {timed, bounded}
    Audited = {outer, approved, bounded}
    Mixes <- FourPrograms
    Decided = {approved, bounded}
    Sizes = {1, 2}
SPECIFICATION Spec
INVARIANTS
    GateHolds
    EffectsAreOnLedger
    SaturationIsAnnounced
PROPERTIES
    NothingHangs
CHECK_DEADLOCK FALSE
