SPECIFICATION FairSpec
CONSTANTS
    Users = {u1}
    Pings = {p1}
    NoTrans = NoTrans
    Calls <- LoopCalls
    IoCreateCb = FALSE
    Faults = {"block"}
PROPERTIES ConnectEnds DisconnectEnds ReadyServed CompletionReported DestroyHappens
