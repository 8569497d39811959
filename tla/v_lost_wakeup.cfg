SPECIFICATION LegacySpec
CONSTANTS
    Users = {u1}
    Pings = {p1}
    NoTrans = NoTrans
    Calls <- LegacyCalls
    IoCreateCb = FALSE
    Faults = {}
    AppThreads = {m1, m2}
    NoThread = NoThread
INVARIANTS NoLostWakeup
