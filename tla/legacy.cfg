SPECIFICATION LegacySpec
CONSTANTS
    Users = {u1, u2}
    Pings = {p1}
    NoTrans = NoTrans
    Calls <- LegacyCalls
    IoCreateCb = FALSE
    Faults = {"block", "garbage", "iofail"}
    AppThreads = {m1}
    NoThread = NoThread
SYMMETRY Symmetry
INVARIANTS
    NeverImplicit SettledBetweenCalls NoLostWakeup SuccessNeedsAnswer
PROPERTIES SendResultHonest
