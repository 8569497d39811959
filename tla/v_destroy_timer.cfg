SPECIFICATION Spec
CONSTANTS
    Users = {u1}
    Pings = {p1}
    NoTrans = NoTrans
    Calls <- LoopCalls
    IoCreateCb = FALSE
    Faults = {"block"}
INVARIANTS DestroyStopsTimers
