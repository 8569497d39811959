SPECIFICATION Spec
CONSTANTS
    Users = {u1}
    Pings = {}
    NoTrans = NoTrans
    Calls <- NoPingCalls
    IoCreateCb = FALSE
    Faults = {"block"}
INVARIANTS NoStrandedOutput
