--------------------------- MODULE MonetraLegacy ---------------------------
(***************************************************************************)
(* The poll-style API of monetra_legacy.c (M_CONN) on top of MonetraConn.  *)
(*                                                                         *)
(* An M_CONN owns an event loop that runs only while some thread of the    *)
(* application is inside M_event_loop, that is, inside a blocking call of  *)
(* this API.  The one callback it registers makes no call of its own: it   *)
(* asks the loop to return, and whoever waits looks at the status again.   *)
(*                                                                         *)
(* Calls of the API count as calls of MonetraConn's thread "app"; "loop"   *)
(* is whichever thread is inside M_event_loop.                             *)
(***************************************************************************)
EXTENDS MonetraConn

CONSTANTS
    AppThreads,  \* the application's threads that share the M_CONN
    NoThread     \* nobody runs the event loop

ASSUME LegacyAssumption == NoThread \notin AppThreads /\ ~IoCreateCb

VARIABLES
    \* struct _M_CONN
    blocking,    \* M_SetBlocking
    monitored,   \* is_monitor_previously_successful
    runner,      \* the thread inside M_event_loop
    returned,    \* M_event_return was called on the running loop
    \* per thread: the API function it is in, how far, its argument, the last result
    fn, at, arg, ret,
    \* per transaction
    response,    \* response_type and, for key/value data, the "code"
    answered     \* history: transactions whose response came from the server

threadVars == <<fn, at, arg, ret>>
respVars   == <<response, answered>>
legacyVars == <<blocking, monitored, runner, returned, threadVars, respVars>>
allVars    == <<vars, legacyVars>>

(* UNKNOWN: no response yet.  AUTH, DENY: key/value data with a code that   *)
(* approves or not.  TABLE: CSV or BULK.                                    *)
Responses == {"UNKNOWN", "AUTH", "DENY", "TABLE"}
LegacyFunctions == {"none", "M_Connect", "M_Disconnect", "M_DestroyConn", "M_Monitor", "M_TransSend"}

-----------------------------------------------------------------------------
(* Control flow of a thread.                                               *)

Begin(th, f, t, label) ==
    /\ alive /\ fn[th] = "none"
    /\ fn' = [fn EXCEPT ![th] = f]
    /\ arg' = [arg EXCEPT ![th] = t]
    /\ at' = [at EXCEPT ![th] = label]
    /\ ret' = [ret EXCEPT ![th] = 0]
    /\ UNCHANGED <<vars, blocking, monitored, runner, returned, respVars>>

Goto(th, label) ==
    /\ at' = [at EXCEPT ![th] = label]
    /\ UNCHANGED <<fn, arg, ret>>

Return(th, r) ==
    /\ fn' = [fn EXCEPT ![th] = "none"]
    /\ arg' = [arg EXCEPT ![th] = NoTrans]
    /\ at' = [at EXCEPT ![th] = "out"]
    /\ ret' = [ret EXCEPT ![th] = r]

AtLabel(th, label) ==
    /\ alive /\ at[th] = label
    /\ UNCHANGED <<blocking, runner, returned, respVars>>

(* A step between calls: a wrapper that is one call of the connection API.  *)
Wrapper(th) ==
    /\ fn[th] = "none"
    /\ UNCHANGED <<blocking, monitored, runner, returned, threadVars>>

-----------------------------------------------------------------------------
(* M_event_loop.                                                           *)

(* Where each call of M_event_loop goes on.                                 *)
AfterLoop == [poll |-> "polled", connecting |-> "connected", monitoring |-> "monitored",
              disconnecting |-> "disconnect_test"]

(* M_event_loop of a loop that another thread is running returns at once.   *)
EventLoopEnter(th) ==
    /\ alive /\ at[th] \in DOMAIN AfterLoop /\ runner # th
    /\ IF runner = NoThread
       THEN /\ runner' = th /\ returned' = FALSE
            /\ UNCHANGED threadVars
       ELSE /\ Goto(th, AfterLoop[at[th]])
            /\ UNCHANGED <<runner, returned>>
    /\ UNCHANGED <<vars, blocking, monitored, respVars>>

(* M_TransSend polls and M_Monitor waits for a limited time; every other    *)
(* wait has M_TIMEOUT_INF.                                                  *)
LimitedPoll(th) == at[th] = "poll"
Limited(th) == at[th] = "poll" \/ fn[th] = "M_Monitor"

EventLoopReturn(th) ==
    /\ runner = th /\ pc = "idle" /\ call["loop"] = "none"
    /\ returned \/ Limited(th)
    /\ runner' = NoThread
    /\ Goto(th, AfterLoop[at[th]])
    /\ UNCHANGED <<vars, blocking, monitored, returned, respVars>>

(* M_legacy_event_callback asks the loop to return.                         *)
WakesOnLink(type) == type \in ConnEvents
Wakes(type) == type # "TRANS_TIMEOUT"

(* A lost connection fakes a response for integrators that only poll.       *)
LostUnfilled == "UNKNOWN"
LostResponse == "DENY"

(* The response fields after a step: filled in when the transaction gets    *)
(* DONE, by the parser or by LM_conn_event_handle_conn_error.               *)
Respond(answer) ==
    LET done == {t \in Trans : tstatus[t] = "PENDING" /\ tstatus'[t] = "DONE"}
        lost == io' = "none"
    IN  /\ response' = [t \in Trans |->
              IF tstatus'[t] = "FREE" THEN "UNKNOWN"
              ELSE IF t \notin done THEN response[t]
              ELSE IF lost THEN LostResponse ELSE answer]
        /\ answered' = {t \in answered : tstatus'[t] # "FREE"} \cup (IF lost THEN {} ELSE done)

(* The running loop serves an event source or goes on with its handler; at  *)
(* the handler's end it may have to connect first.                          *)
LoopStep ==
    /\ runner # NoThread
    /\ IF call["loop"] = "connect" THEN ImplicitConnect("loop") ELSE LoopDispatch \/ Handler
    /\ returned' = (returned \/ (pc = "callbacks" /\ pc' = "callback" /\ Wakes(Head(events).type)))
    /\ \E answer \in {"AUTH", "DENY", "TABLE"} : Respond(answer)
    /\ UNCHANGED <<blocking, monitored, runner, threadVars>>

-----------------------------------------------------------------------------
(* The API.  Wrappers first; an identifier that is not in trans_id_map      *)
(* makes each of them return without effect.                                *)

M_SetBlocking(th) ==
    /\ alive /\ fn[th] = "none"
    /\ blocking' = ~blocking
    /\ UNCHANGED <<vars, monitored, runner, returned, threadVars, respVars>>

M_VerifyConnection(th) == Wrapper(th) /\ LM_conn_disable_ping("app") /\ UNCHANGED respVars

M_TransNew(th) == Wrapper(th) /\ LM_trans_new("app") /\ UNCHANGED respVars

M_TransKeyVal(th, t) == Wrapper(th) /\ LM_trans_set_param("app", t) /\ UNCHANGED respVars

(* The application does not delete what another thread is sending.          *)
M_DeleteTrans(th, t) ==
    /\ Wrapper(th)
    /\ \A other \in AppThreads : arg[other] # t
    /\ LM_trans_delete("app", t)
    /\ Respond("UNKNOWN")

(* M_Connect: connect, run the loop until something happens, look.          *)
M_Connect(th) == Begin(th, "M_Connect", NoTrans, "connect")

ConnectStarted(th) ==
    /\ AtLabel(th, "connect")
    /\ LM_conn_connect("app")
    /\ IF io' = io THEN Return(th, 0) ELSE Goto(th, "connecting")
    /\ UNCHANGED monitored

ConnectEnded(th) ==
    /\ AtLabel(th, "connected")
    /\ IF status # "CONNECTED" THEN Return(th, 0)
       ELSE IF fn[th] = "M_TransSend" THEN Goto(th, "send") ELSE Return(th, 1)
    /\ UNCHANGED <<vars, monitored>>

(* M_Disconnect: only if CONNECTED, and until the close has completed.      *)
M_Disconnect(th) == Begin(th, "M_Disconnect", NoTrans, "disconnect")
M_DestroyConn(th) == Begin(th, "M_DestroyConn", NoTrans, "disconnect")

DisconnectReturns(th) == IF fn[th] = "M_DestroyConn" THEN Goto(th, "destroy") ELSE Return(th, 1)

DisconnectStarted(th) ==
    /\ AtLabel(th, "disconnect")
    /\ IF status = "CONNECTED" THEN Goto(th, "disconnect_call") ELSE DisconnectReturns(th)
    /\ UNCHANGED <<vars, monitored>>

(* LM_conn_disconnect does nothing if the connection was lost meanwhile.    *)
DisconnectCalled(th) ==
    /\ AtLabel(th, "disconnect_call")
    /\ IF status = "CONNECTED" THEN LM_conn_disconnect("app") ELSE UNCHANGED vars
    /\ Goto(th, "disconnect_test")
    /\ UNCHANGED monitored

(* The loop condition: a transaction that completes meanwhile ends the wait *)
(* as well.                                                                 *)
ClosingOnce == status = "DISCONNECTING" /\ ~returned
Closing == status = "DISCONNECTING"

DisconnectTest(th) ==
    /\ AtLabel(th, "disconnect_test")
    /\ IF Closing THEN Goto(th, "disconnecting") ELSE DisconnectReturns(th)
    /\ UNCHANGED <<vars, monitored>>

Destroyed(th) ==
    /\ AtLabel(th, "destroy")
    /\ LM_conn_destroy("app")
    /\ Return(th, 1)
    /\ UNCHANGED monitored

(* M_Monitor_ex: nothing to report without transactions until a first call  *)
(* has succeeded; else an error unless connected or connecting, before and  *)
(* after running the loop.  LM_conn_status is read once for each of the two *)
(* and without the lock, so that a connection which another thread's loop   *)
(* gets up in between counts as neither.  Called by the application or by   *)
(* M_TransSend.                                                             *)
M_Monitor(th) == Begin(th, "M_Monitor", NoTrans, "monitor")

MonitorReturns(th, r) ==
    IF fn[th] = "M_Monitor" THEN Return(th, r)
    ELSE IF r = 0 /\ tstatus[arg[th]] # "DONE" THEN Return(th, 0) ELSE Goto(th, "wait")

MonitorCount(th) ==
    /\ AtLabel(th, "monitor")
    /\ IF trans_pending = <<>> /\ trans_ready = <<>> /\ ~monitored
       THEN MonitorReturns(th, 1) ELSE Goto(th, "monitor_status")
    /\ UNCHANGED <<vars, monitored>>

MonitorStatus(th) ==
    /\ AtLabel(th, "monitor_status")
    /\ Goto(th, IF status = "CONNECTED" THEN "monitor_gate" ELSE "monitor_again")
    /\ UNCHANGED <<vars, monitored>>

MonitorStatusAgain(th) ==
    /\ AtLabel(th, "monitor_again")
    /\ IF status = "CONNECTING" THEN Goto(th, "monitor_gate") ELSE MonitorReturns(th, 0)
    /\ UNCHANGED <<vars, monitored>>

(* M_event_get_status: if the loop is running in another thread, sleep.     *)
MonitorGate(th) ==
    /\ AtLabel(th, "monitor_gate")
    /\ Goto(th, IF runner # NoThread THEN "monitored" ELSE "monitoring")
    /\ UNCHANGED <<vars, monitored>>

MonitorEnded(th) ==
    /\ AtLabel(th, "monitored")
    /\ IF status = "CONNECTED" THEN MonitorReturns(th, 1) ELSE Goto(th, "monitored_again")
    /\ monitored' = (monitored \/ status = "CONNECTED")
    /\ UNCHANGED vars

MonitorEndedAgain(th) ==
    /\ AtLabel(th, "monitored_again")
    /\ IF status = "CONNECTING" THEN MonitorReturns(th, 1) ELSE MonitorReturns(th, 0)
    /\ monitored' = (monitored \/ status = "CONNECTING")
    /\ UNCHANGED vars

(* M_TransSend: poll, connect unless connected, send and, in blocking mode, *)
(* monitor until the transaction is DONE.                                   *)
M_TransSend(th, t) ==
    /\ t \in held
    /\ \A other \in AppThreads : arg[other] # t
    /\ Begin(th, "M_TransSend", t, "poll")

MustConnectNever == FALSE
MustConnect == status # "CONNECTED"

Polled(th) ==
    /\ AtLabel(th, "polled")
    /\ Goto(th, IF MustConnect THEN "connect" ELSE "send")
    /\ UNCHANGED <<vars, monitored>>

Send(th) ==
    /\ AtLabel(th, "send")
    /\ IF tstatus[arg[th]] = "NEW" /\ params[arg[th]]
       THEN LM_trans_send("app", arg[th]) /\ Goto(th, "sent")
       ELSE Return(th, 0) /\ UNCHANGED vars
    /\ UNCHANGED monitored

(* LM_trans_send returns after the implicit connect, if it made one.        *)
Sent(th) ==
    /\ AtLabel(th, "sent")
    /\ IF call["app"] = "connect" THEN ImplicitConnect("app") /\ UNCHANGED threadVars
       ELSE /\ IF blocking THEN Goto(th, "wait") ELSE Return(th, 1)
            /\ UNCHANGED vars
    /\ UNCHANGED monitored

WaitsForAnything(th) == monitored
WaitIsOver(th) == tstatus[arg[th]] = "DONE"

Wait(th) ==
    /\ AtLabel(th, "wait")
    /\ IF WaitIsOver(th) THEN Return(th, 1) ELSE Goto(th, "monitor")
    /\ UNCHANGED <<vars, monitored>>

-----------------------------------------------------------------------------
(* What the application reads.                                             *)

M_CheckStatus(t) ==
    CASE tstatus[t] = "NEW" -> "M_NEW"
      [] tstatus[t] \in {"READY", "PENDING"} -> "M_PENDING"
      [] tstatus[t] = "DONE" -> "M_DONE"
      [] OTHER -> "M_UNUSED"

(* Every response that is not key/value data, no response included.         *)
M_IsCommaDelimited(t) == tstatus[t] # "FREE" /\ response[t] # "AUTH" /\ response[t] # "DENY"

M_ReturnStatus(t) ==
    IF M_CheckStatus(t) # "M_DONE" THEN "M_ERROR"
    ELSE IF M_IsCommaDelimited(t) \/ response[t] = "AUTH" THEN "M_SUCCESS" ELSE "M_FAIL"

(* monetra_deprecated.c: the same, without looking at the status.           *)
M_ReturnCode(t) ==
    IF M_IsCommaDelimited(t) THEN "M_SUCCESS"
    ELSE IF tstatus[t] # "DONE" THEN "M_ERROR"
    ELSE IF response[t] = "AUTH" THEN "M_AUTH" ELSE "M_DENY"

-----------------------------------------------------------------------------
LegacyInit ==
    /\ Init
    /\ blocking = FALSE /\ monitored = FALSE
    /\ runner = NoThread /\ returned = FALSE
    /\ fn = [th \in AppThreads |-> "none"]
    /\ at = [th \in AppThreads |-> "out"]
    /\ arg = [th \in AppThreads |-> NoTrans]
    /\ ret = [th \in AppThreads |-> 0]
    /\ response = [t \in Trans |-> "UNKNOWN"]
    /\ answered = {}

(* A call of the application.                                               *)
LegacyCall(th) ==
    \/ M_SetBlocking(th)
    \/ M_VerifyConnection(th)
    \/ M_TransNew(th)
    \/ M_Connect(th)
    \/ M_Disconnect(th)
    \/ M_DestroyConn(th)
    \/ M_Monitor(th)
    \/ \E t \in Trans : M_TransKeyVal(th, t) \/ M_DeleteTrans(th, t) \/ M_TransSend(th, t)

(* A thread goes on with the call it is in.                                 *)
LegacyStep(th) ==
    \/ EventLoopEnter(th)
    \/ EventLoopReturn(th)
    \/ ConnectStarted(th)
    \/ ConnectEnded(th)
    \/ DisconnectStarted(th)
    \/ DisconnectCalled(th)
    \/ DisconnectTest(th)
    \/ Destroyed(th)
    \/ MonitorCount(th)
    \/ MonitorStatus(th)
    \/ MonitorStatusAgain(th)
    \/ MonitorGate(th)
    \/ MonitorEnded(th)
    \/ MonitorEndedAgain(th)
    \/ Polled(th)
    \/ Send(th)
    \/ Sent(th)
    \/ Wait(th)

LegacyGone == ~alive /\ UNCHANGED allVars

LegacyNext ==
    \/ \E th \in AppThreads : LegacyCall(th) \/ LegacyStep(th)
    \/ LoopStep
    \/ LegacyGone

LegacySpec == LegacyInit /\ [][LegacyNext]_allVars

-----------------------------------------------------------------------------
(* Properties.                                                             *)

(* M_TransSend forces a connection "rather than relying on implicit         *)
(* connection": nothing is ever READY and no implicit connect happens, so   *)
(* the reconnect of the event handler never starts on its own.              *)
NeverImplicit == trans_ready = <<>> /\ call["app"] = "none" /\ call["loop"] = "none"

(* Between two calls the link is settled: no M_ function returns while a    *)
(* connection attempt or a disconnect it started is still going on.         *)
SettledBetweenCalls ==
    alive /\ (\A th \in AppThreads : fn[th] = "none") => status \in {"CONNECTED", "DISCONNECTED"}

(* A result of M_TransSend can be relied on: 0 means that LM_trans_send was *)
(* not reached or refused the transaction, so it may be sent again; 1 means *)
(* that the request was accepted and, in blocking mode, is decided.         *)
SendResultHonest ==
    [][\A th \in AppThreads :
          fn[th] = "M_TransSend" /\ fn'[th] = "none" =>
              /\ ret'[th] = 1 <=> at[th] \notin {"connect", "connected", "send"}
              /\ ret'[th] = 1 /\ blocking => tstatus[arg[th]] = "DONE"]_allVars

(* No lost wakeup: a blocking M_TransSend that waits without limit in the   *)
(* event loop, which is idle, waits for something: its transaction is not   *)
(* DONE, or the loop has been asked to return.                              *)
NoLostWakeup ==
    \A th \in AppThreads :
        runner = th /\ fn[th] = "M_TransSend" /\ at[th] = "monitoring" /\ pc = "idle" =>
            tstatus[arg[th]] # "DONE" \/ returned

(* A poll-only application never takes a transaction for approved that the  *)
(* server did not answer, by M_ReturnStatus or by M_AUTH of M_ReturnCode:   *)
(* lost connections read as denied.                                         *)
SuccessNeedsAnswer ==
    \A t \in Users :
        M_ReturnStatus(t) = "M_SUCCESS" \/ M_ReturnCode(t) = "M_AUTH" => t \in answered

(* Fairness: threads go on with their calls, the running loop is served as  *)
(* in MonetraConn, and a loop that was asked to return does.                *)
LegacyFairness ==
    /\ \A th \in AppThreads : WF_allVars(LegacyStep(th)) /\ SF_allVars(EventLoopReturn(th))
    /\ WF_allVars(LoopStep /\ pc # "idle")
    /\ SF_allVars(LoopStep /\ timer = "armed" /\ timer' # "armed" /\ pc = "idle")
    /\ SF_allVars(LoopStep /\ io = "connecting" /\ pc = "idle" /\ pc' = "dispatched"
                  /\ ev'.type \in {"CONNECTED", "ERROR"})
    /\ SF_allVars(LoopStep /\ io = "closing" /\ pc = "idle" /\ pc' = "dispatched"
                  /\ ev'.type \in {"DISCONNECTED", "ERROR"})

FairLegacySpec == LegacySpec /\ LegacyFairness

(* Every call that does not wait for the server's answer returns: the       *)
(* callback's M_event_return ends each wait without limit.                  *)
CallsReturn ==
    \A th \in AppThreads :
        (fn[th] # "none" /\ ~(fn[th] = "M_TransSend" /\ blocking)) ~> (fn[th] = "none")

(* A blocking M_TransSend returns once its transaction is decided.          *)
BlockedReturns ==
    \A th \in AppThreads :
        (fn[th] = "M_TransSend" /\ at[th] \notin {"poll", "polled"} /\ tstatus[arg[th]] = "DONE")
            ~> (fn[th] = "none")

============================================================================
