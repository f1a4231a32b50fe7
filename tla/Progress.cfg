SPECIFICATION MCSpec
CONSTANTS
    k1 = k1 k2 = k2
    Key = {k1, k2}
    Op = {c1, c2, c3, c4}
    NoOp = NoOp
    MayNest <- Ordered
    s1 = s1 s2 = s2 p1 = p1
    m1 = m1 m2 = m2 e1 = e1 r1 = r1
    Msg = {m1, m2, e1}
    Edits = {e1}
    Compact = {m2}
    Retry = {r1}
    User = {u1}
    None = None
    MaxOutside = 1
    Features = {"fail", "refuse", "sendnow", "restore"}
INVARIANTS TypesHold ToldNeverStarts OnePlace WaitersAreBusy DeferredForEdit
INVARIANTS MutexTypeOK MutualExclusion Chain NoLeak
PROPERTIES ImplementsFifoLock EveryCallRuns
PROPERTIES StartsReturn CancelsReturn AbortsAreReported TurnsEnd
CHECK_DEADLOCK FALSE
