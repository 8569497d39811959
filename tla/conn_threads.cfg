SPECIFICATION Spec
CONSTANTS
    Users = {u1, u2}
    Pings = {p1}
    NoTrans = NoTrans
    Calls <- ThreadCalls
    IoCreateCb = TRUE
    Faults = {"block", "garbage", "iofail", "dup"}
SYMMETRY Symmetry
INVARIANTS QueueInv CompletionInv NoStrandedOutput IdleTimerStopped
PROPERTIES ReadySurvives
