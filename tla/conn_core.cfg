SPECIFICATION Spec
CONSTANTS
    Users = {u1, u2}
    Pings = {p1}
    NoTrans = NoTrans
    Calls <- NoPingCalls
    IoCreateCb = FALSE
    Faults = {"block", "garbage"}
SYMMETRY Symmetry
INVARIANTS
    TypeOK EventTransValid IdleTimerRuns TimeoutOnlyPending HandlerOutlived
PROPERTIES KeepsPromise KeepsCallbackPromise
