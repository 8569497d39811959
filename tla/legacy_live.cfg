SPECIFICATION FairLegacySpec
CONSTANTS
    Users = {u1}
    Pings = {p1}
    NoTrans = NoTrans
    Calls <- LegacyCalls
    IoCreateCb = FALSE
    Faults = {}
    AppThreads = {m1}
    NoThread = NoThread
PROPERTIES CallsReturn BlockedReturns
