------------------------ MODULE MonetraLegacyProofs ------------------------
(***************************************************************************)
(* The legacy API: that it uses a connection as any application may, what  *)
(* a poll-only application reads, and what its calls promise to a program  *)
(* with one thread, for any sets of transactions and any faults.           *)
(***************************************************************************)
EXTENDS MonetraLegacy, MonetraConnSafety

-----------------------------------------------------------------------------
(* On the connection.  Each step is a call of the application, a step of    *)
(* the event loop, or nothing.                                              *)

(* A step of the legacy layer is a step of the connection or a stutter.     *)
LEMMA LegacyOnConn == TypeOK /\ [LegacyNext]_allVars => [Next]_vars
  <1> SUFFICES ASSUME TypeOK, [LegacyNext]_allVars
               PROVE  [Next]_vars
    OBVIOUS
  <1>0. "app" \in Threads /\ "loop" \in Threads
    BY DEF Threads
  <1>1. ASSUME NEW th \in AppThreads, LegacyCall(th)
        PROVE  [Next]_vars
    <2>1. CASE M_SetBlocking(th) \/ M_Connect(th) \/ M_Disconnect(th) \/ M_DestroyConn(th)
               \/ M_Monitor(th) \/ \E t \in Trans : M_TransSend(th, t)
      BY <2>1 DEF M_SetBlocking, M_Connect, M_Disconnect, M_DestroyConn, M_Monitor, M_TransSend,
                  Begin
    <2>2. CASE M_VerifyConnection(th) \/ M_TransNew(th)
      BY <1>0, <2>2 DEF M_VerifyConnection, M_TransNew, Next, ApiCall
    <2>3. ASSUME NEW t \in Trans, M_TransKeyVal(th, t) \/ M_DeleteTrans(th, t)
          PROVE  [Next]_vars
      BY <1>0, <2>3 DEF M_TransKeyVal, M_DeleteTrans, Next, ApiCall
    <2>4. QED BY <1>1, <2>1, <2>2, <2>3 DEF LegacyCall
  <1>2. ASSUME NEW th \in AppThreads, LegacyStep(th)
        PROVE  [Next]_vars
    <2>1. CASE \/ EventLoopEnter(th) \/ EventLoopReturn(th) \/ ConnectEnded(th)
               \/ DisconnectStarted(th) \/ DisconnectTest(th) \/ MonitorCount(th)
               \/ MonitorStatus(th) \/ MonitorStatusAgain(th) \/ MonitorGate(th)
               \/ MonitorEnded(th) \/ MonitorEndedAgain(th) \/ Polled(th) \/ Wait(th)
      BY <2>1 DEF EventLoopEnter, EventLoopReturn, ConnectEnded, DisconnectStarted, DisconnectTest,
                  MonitorCount, MonitorStatus, MonitorStatusAgain, MonitorGate, MonitorEnded,
                  MonitorEndedAgain, Polled, Wait
    <2>2. CASE ConnectStarted(th) \/ Destroyed(th)
      BY <1>0, <2>2 DEF ConnectStarted, Destroyed, Next, ApiCall
    <2>3. CASE DisconnectCalled(th)
      BY <1>0, <2>3 DEF DisconnectCalled, Next, ApiCall
    <2>4. CASE Send(th)
      <3>1. CASE tstatus[arg[th]] = "NEW" /\ params[arg[th]]
        <4>1. LM_trans_send("app", arg[th])
          BY <2>4, <3>1 DEF Send
        <4>2. arg[th] \in Trans
          BY <4>1 DEF LM_trans_send, TypeOK
        <4>3. QED BY <1>0, <4>1, <4>2 DEF Next, ApiCall
      <3>2. QED BY <2>4, <3>1 DEF Send
    <2>5. CASE Sent(th)
      BY <1>0, <2>5 DEF Sent, Next
    <2>6. QED BY <1>2, <2>1, <2>2, <2>3, <2>4, <2>5 DEF LegacyStep
  <1>3. CASE LoopStep
    BY <1>0, <1>3 DEF LoopStep, Next
  <1>4. CASE LegacyGone \/ UNCHANGED allVars
    BY <1>4 DEF LegacyGone, allVars
  <1>5. QED BY <1>1, <1>2, <1>3, <1>4 DEF LegacyNext

(* What is proved of a connection holds of the one below this API.          *)
LEMMA LegacyTypes == LegacySpec => []TypeOK
  <1>1. LegacyInit => TypeOK
    BY InitTypes DEF LegacyInit
  <1>2. TypeOK /\ [LegacyNext]_allVars => TypeOK'
    BY LegacyOnConn, TypeStep
  <1>3. QED BY <1>1, <1>2, PTL DEF LegacySpec

(* The legacy API uses the connection API as any application may: every     *)
(* M_ function makes the LM_ calls it makes when the code allows them.      *)
THEOREM LegacyImplementsConn == LegacySpec => Spec
  <1>1. LegacyInit => Init
    BY DEF LegacyInit
  <1>2. QED BY <1>1, LegacyTypes, LegacyOnConn, PTL DEF LegacySpec, Spec

(* What is proved of the connection holds below the legacy layer.           *)
LEMMA LegacyBasis == LegacySpec => []Basis /\ []ToldInv
  BY LegacyImplementsConn, BasisCorrect, ToldCorrect, PTL

-----------------------------------------------------------------------------
(* What a poll-only application reads.  A transaction that is DONE has a    *)
(* response, and one that approves or is a table came from the server.      *)

AnswerInv ==
    \A t \in Trans : tstatus[t] = "DONE" =>
        /\ response[t] \in {"AUTH", "DENY", "TABLE"}
        /\ response[t] \in {"AUTH", "TABLE"} => t \in answered

(* A server's answer is recorded together with the response it gives.       *)
LEMMA Responded ==
    ASSUME AnswerInv, NEW answer \in {"AUTH", "DENY", "TABLE"}, Respond(answer),
           \A t \in Trans : tstatus'[t] = "DONE" => tstatus[t] \in {"DONE", "PENDING"}
    PROVE  AnswerInv'
  <1> SUFFICES ASSUME NEW t \in Trans, tstatus'[t] = "DONE"
               PROVE  /\ response'[t] \in {"AUTH", "DENY", "TABLE"}
                      /\ response'[t] \in {"AUTH", "TABLE"} => t \in answered'
    BY DEF AnswerInv
  <1>1. CASE tstatus[t] = "DONE"
    BY <1>1 DEF AnswerInv, Respond
  <1>2. CASE tstatus[t] = "PENDING"
    BY <1>2 DEF Respond, LostResponse
  <1>3. QED BY <1>1, <1>2

(* Steps that record no response and complete no transaction.               *)
LEMMA Unresponded ==
    ASSUME AnswerInv, UNCHANGED respVars,
           \A t \in Trans : tstatus'[t] = "DONE" => tstatus[t] = "DONE"
    PROVE  AnswerInv'
  BY DEF AnswerInv, respVars

(* A call of the connection API completes no transaction.                   *)
LEMMA CallsNotDone ==
    ASSUME TypeOK, NEW a \in Threads, ApiCall(a) \/ ImplicitConnect(a), NEW t \in Trans,
           tstatus'[t] = "DONE"
    PROVE  tstatus[t] = "DONE"
  <1>0. tstatus \in [Trans -> TransStatus]
    BY DEF TypeOK
  <1>1. ASSUME NEW u, DeleteUnlocked(u)
        PROVE  tstatus[t] = "DONE"
    BY <1>0, <1>1 DEF DeleteUnlocked
  <1>2. CASE UNCHANGED tstatus
    BY <1>2
  <1>3. CASE FreeConn
    BY <1>3 DEF FreeConn
  <1>4. CASE \/ LM_conn_connect(a) \/ LM_conn_disconnect(a) \/ LM_conn_disable_ping(a)
             \/ LM_conn_set_idle_timeout(a) \/ LM_conn_destroy(a) \/ ImplicitConnect(a)
    BY <1>2, <1>3, <1>4 DEF LM_conn_connect, LM_conn_disconnect, LM_conn_disable_ping, queueVars,
          LM_conn_set_idle_timeout, LM_conn_destroy, ImplicitConnect
  <1>5. CASE LM_trans_new(a)
    BY <1>0, <1>5 DEF LM_trans_new
  <1>6. ASSUME NEW u \in Trans, LM_trans_set_param(a, u) \/ LM_trans_set_timeout(a, u)
        PROVE  tstatus[t] = "DONE"
    BY <1>2, <1>6 DEF LM_trans_set_param, LM_trans_set_timeout, queueVars
  <1>7. ASSUME NEW u \in Trans, LM_trans_send(a, u)
        PROVE  tstatus[t] = "DONE"
    BY <1>0, <1>7 DEF LM_trans_send, SendReady
  <1>8. ASSUME NEW u \in Trans, LM_trans_delete(a, u)
        PROVE  tstatus[t] = "DONE"
    BY <1>1, <1>2, <1>8 DEF LM_trans_delete, queueVars
  <1>9. QED BY <1>4, <1>5, <1>6, <1>7, <1>8 DEF ApiCall

(* The handler completes only what is PENDING.                              *)
LEMMA HandlerDone ==
    ASSUME TypeOK, QueueInv, LoopDispatch \/ Handler, NEW t \in Trans, tstatus'[t] = "DONE"
    PROVE  tstatus[t] \in {"DONE", "PENDING"}
  <1>0. tstatus \in [Trans -> TransStatus]
    BY DEF TypeOK
  <1>1. CASE UNCHANGED tstatus
    BY <1>1
  <1>2. ASSUME NEW u, DeleteUnlocked(u)
        PROVE  tstatus[t] \in {"DONE", "PENDING"}
    BY <1>0, <1>2 DEF DeleteUnlocked
  <1>3. ASSUME NEW type, ConnError(type)
        PROVE  tstatus[t] \in {"DONE", "PENDING"}
    BY <1>0, <1>3 DEF ConnError, Abandoned, QueueInv
  <1>4. CASE LoopDispatch
    BY <1>1, <1>4 DEF LoopDispatch, DispatchConnected, DispatchClosed, DispatchRead, DispatchWrite,
                DispatchTrigger, DispatchTimer, DispatchTransTimer, Dispatch, queueVars
  <1>5. CASE \/ HandleConnectedNoPing \/ HandleRead \/ HandleWrite \/ HandleTransTimeout
             \/ HandlePingTimeout \/ HandleIdleTimeout \/ ParseWait \/ Deliver
             \/ CallbackReturns \/ AllDelivered \/ Release
             \/ \E u \in Trans : ParseOrphan(u)
    BY <1>1, <1>5 DEF HandleConnectedNoPing, HandleRead, HandleWrite, HandleTransTimeout,
          HandlePingTimeout, HandleIdleTimeout, ParseWait, Deliver, CallbackReturns, AllDelivered,
          Release, ParseOrphan, queueVars
  <1>6. CASE HandleConnected
    BY <1>0, <1>6 DEF HandleConnected
  <1>7. CASE \/ ParseError \/ PingLost \/ \E type \in {"DISCONNECTED", "ERROR"} : HandleClosed(type)
    BY <1>3, <1>7 DEF ParseError, PingLost, HandleClosed
  <1>8. ASSUME NEW u \in Trans, ParseResponse(u)
        PROVE  tstatus[t] \in {"DONE", "PENDING"}
    BY <1>0, <1>8 DEF ParseResponse
  <1>9. CASE SetConnected
    BY <1>0, <1>9 DEF SetConnected, SendReady
  <1>10. ASSUME NEW u \in Trans, Reap(u)
         PROVE  tstatus[t] \in {"DONE", "PENDING"}
    BY <1>2, <1>10 DEF Reap
  <1>11. CASE Leave
    BY <1>1, <1>11 DEF Leave, FreeConn, queueVars
  <1>12. QED
    BY <1>4, <1>5, <1>6, <1>7, <1>8, <1>9, <1>10, <1>11 DEF Handler

(* No step of a thread, of the loop or of the server breaks AnswerInv.      *)
LEMMA AnswerStep == TypeOK /\ QueueInv /\ AnswerInv /\ [LegacyNext]_allVars => AnswerInv'
  <1> SUFFICES ASSUME TypeOK, QueueInv, AnswerInv, [LegacyNext]_allVars
               PROVE  AnswerInv'
    OBVIOUS
  <1>0. "app" \in Threads /\ "loop" \in Threads
    BY DEF Threads
  <1>1. ASSUME UNCHANGED vars, UNCHANGED respVars
        PROVE  AnswerInv'
    BY <1>1, Unresponded DEF vars, queueVars
  <1>2. ASSUME UNCHANGED respVars, ApiCall("app") \/ ImplicitConnect("app")
        PROVE  AnswerInv'
    BY <1>0, <1>2, CallsNotDone, Unresponded
  <1>3. ASSUME NEW th \in AppThreads, LegacyCall(th)
        PROVE  AnswerInv'
    <2>1. CASE M_SetBlocking(th) \/ M_Connect(th) \/ M_Disconnect(th) \/ M_DestroyConn(th)
               \/ M_Monitor(th) \/ \E t \in Trans : M_TransSend(th, t)
      BY <1>1, <2>1 DEF M_SetBlocking, M_Connect, M_Disconnect, M_DestroyConn, M_Monitor,
                  M_TransSend, Begin
    <2>2. CASE M_VerifyConnection(th) \/ M_TransNew(th) \/ \E t \in Trans : M_TransKeyVal(th, t)
      BY <1>2, <2>2 DEF M_VerifyConnection, M_TransNew, M_TransKeyVal, ApiCall
    <2>3. ASSUME NEW t \in Trans, M_DeleteTrans(th, t)
          PROVE  AnswerInv'
      <3>1. ApiCall("app") /\ Respond("UNKNOWN")
        BY <2>3 DEF M_DeleteTrans, ApiCall
      <3>2. \A u \in Trans : tstatus'[u] = "DONE" => tstatus[u] = "DONE"
        BY <1>0, <3>1, CallsNotDone
      <3>3. \A u \in Trans : tstatus'[u] = "DONE" => response'[u] = response[u]
                                                   /\ (u \in answered => u \in answered')
        BY <3>1, <3>2 DEF Respond
      <3>4. QED BY <3>2, <3>3 DEF AnswerInv
    <2>4. QED BY <1>3, <2>1, <2>2, <2>3 DEF LegacyCall
  <1>4. ASSUME NEW th \in AppThreads, LegacyStep(th)
        PROVE  AnswerInv'
    <2>1. CASE EventLoopEnter(th) \/ EventLoopReturn(th)
      BY <1>1, <2>1 DEF EventLoopEnter, EventLoopReturn
    <2>2. CASE \/ ConnectEnded(th) \/ DisconnectStarted(th) \/ DisconnectTest(th)
               \/ MonitorCount(th) \/ MonitorStatus(th) \/ MonitorStatusAgain(th)
               \/ MonitorGate(th) \/ MonitorEnded(th) \/ MonitorEndedAgain(th)
               \/ Polled(th) \/ Wait(th)
      BY <1>1, <2>2 DEF ConnectEnded, DisconnectStarted, DisconnectTest, MonitorCount,
                  MonitorStatus, MonitorStatusAgain, MonitorGate, MonitorEnded,
                  MonitorEndedAgain, Polled, Wait, AtLabel
    <2>3. CASE ConnectStarted(th) \/ Destroyed(th) \/ DisconnectCalled(th) \/ Sent(th)
      <3>1. UNCHANGED respVars /\ (ApiCall("app") \/ ImplicitConnect("app") \/ UNCHANGED vars)
        BY <2>3 DEF ConnectStarted, Destroyed, DisconnectCalled, Sent, AtLabel, ApiCall
      <3>2. QED BY <1>1, <1>2, <3>1
    <2>4. CASE Send(th)
      <3>1. UNCHANGED respVars /\ (UNCHANGED vars \/ LM_trans_send("app", arg[th]))
        BY <2>4 DEF Send, AtLabel
      <3>2. CASE LM_trans_send("app", arg[th])
        <4>1. arg[th] \in Trans
          BY <3>2 DEF LM_trans_send, TypeOK
        <4>2. ApiCall("app")
          BY <3>2, <4>1 DEF ApiCall
        <4>3. QED BY <1>2, <3>1, <4>2
      <3>3. QED BY <1>1, <3>1, <3>2
    <2>5. QED BY <1>4, <2>1, <2>2, <2>3, <2>4 DEF LegacyStep
  <1>5. CASE LoopStep
    <2>1. PICK answer \in {"AUTH", "DENY", "TABLE"} : Respond(answer)
      BY <1>5 DEF LoopStep
    <2>2. ImplicitConnect("loop") \/ LoopDispatch \/ Handler
      BY <1>5 DEF LoopStep
    <2>3. \A t \in Trans : tstatus'[t] = "DONE" => tstatus[t] \in {"DONE", "PENDING"}
      BY <1>0, <2>2, CallsNotDone, HandlerDone
    <2>4. QED BY <2>1, <2>3, Responded
  <1>6. CASE LegacyGone \/ UNCHANGED allVars
    BY <1>1, <1>6 DEF LegacyGone, allVars, legacyVars
  <1>7. QED BY <1>3, <1>4, <1>5, <1>6 DEF LegacyNext

(* A poll-only application, with any number of threads, takes no lost       *)
(* transaction for an approved one: M_ReturnStatus and M_ReturnCode say so  *)
(* only of transactions the server has answered.                            *)
THEOREM AnswersCorrect == LegacySpec => []SuccessNeedsAnswer
  <1>1. LegacyInit => AnswerInv
    BY DEF LegacyInit, Init, AnswerInv
  <1>2. AnswerInv => SuccessNeedsAnswer
    <2> SUFFICES ASSUME AnswerInv, NEW t \in Users,
                        M_ReturnStatus(t) = "M_SUCCESS" \/ M_ReturnCode(t) = "M_AUTH"
                 PROVE  t \in answered
      BY DEF SuccessNeedsAnswer
    <2>1. tstatus[t] = "DONE"
      <3>1. M_ReturnStatus(t) = "M_SUCCESS" => M_CheckStatus(t) = "M_DONE"
        BY DEF M_ReturnStatus
      <3>2. M_CheckStatus(t) = "M_DONE" => tstatus[t] = "DONE"
        BY Zenon DEF M_CheckStatus
      <3>3. M_ReturnCode(t) = "M_AUTH" => tstatus[t] = "DONE"
        BY DEF M_ReturnCode
      <3>4. QED BY <3>1, <3>2, <3>3
    <2>2. response[t] # "DENY"
      BY DEF M_ReturnStatus, M_ReturnCode, M_IsCommaDelimited
    <2>3. QED BY <2>1, <2>2 DEF AnswerInv, Trans
  <1>3. QED BY <1>1, <1>2, AnswerStep, LegacyImplementsConn, TypeCorrect, QueuesCorrect, PTL
               DEF LegacySpec

-----------------------------------------------------------------------------
(* A program with one thread.  It calls the connection API only while its   *)
(* loop does not run, so that no handler is in the middle of anything.      *)

(* The connection below it: nothing is ever READY, no delete or destroy is  *)
(* put off, there is no idle timeout and no transaction has a timeout, and  *)
(* while the connection is on its way up there is nothing to tell: the only *)
(* transaction outstanding is the ping.                                     *)
Unasked(p) ==
    tstatus[p] = "PENDING" =>
        \/ p \in delay_rm
        \/ /\ p = pingtxn /\ status = "CONNECTING" /\ io = "up"
           /\ ~(pc \in {"dispatched", "ping"} /\ ev.type = "CONNECTED")

SoloConn ==
    /\ trans_ready = <<>> /\ \A a \in Threads : call[a] = "none"
    /\ ~destroy /\ ~idle_timeout /\ delay_rm \subseteq Pings
    /\ \A t \in Trans : ~timeout_s[t] /\ ttimer[t] = "none"
    /\ timer # "none" => status = "CONNECTING"
    /\ alive =>
          /\ status # "IDLE_TIMEOUT"
          /\ pc = "dispatched" /\ ev.type = "OTHER" => ev.trans = NoTrans /\ status = "CONNECTING"
          /\ status = "CONNECTING" => events = <<>> /\ delay_rm = {}
          /\ \A p \in Pings : Unasked(p)

Labels == {"out", "connect", "connecting", "connected", "disconnect", "disconnect_call",
           "disconnect_test", "disconnecting", "destroy", "monitor", "monitor_status",
           "monitor_again", "monitor_gate", "monitoring", "monitored", "monitored_again",
           "poll", "polled", "send", "sent", "wait"}
InLoop == {"poll", "connecting", "monitoring", "disconnecting"}
InConnect == {"connect", "connecting", "connected"}
InDisconnect == {"disconnect", "disconnect_call", "disconnect_test", "disconnecting", "destroy"}
BeforeLoop == {"monitor", "monitor_status", "monitor_again", "monitor_gate", "monitoring"}
InMonitor == BeforeLoop \cup {"monitored", "monitored_again"}
InSend == {"poll", "polled", "send", "sent", "wait"}

SoloLink(th) ==
    /\ runner = NoThread => pc = "idle"
    /\ at[th] = "send" => status = "CONNECTED"
    /\ at[th] \in {"monitor_again", "monitored_again"} => status # "CONNECTED"
    /\ status = "CONNECTING" => at[th] = "connecting" /\ ~(runner = th /\ returned)
    /\ status = "DISCONNECTING" => at[th] \in {"disconnect_test", "disconnecting"}

SoloSend(th) ==
    fn[th] = "M_TransSend" =>
        /\ at[th] \in InMonitor \cup {"sent", "wait"} =>
              arg[th] \in Users /\ tstatus[arg[th]] \in {"PENDING", "DONE"}
        /\ at[th] \in BeforeLoop /\ runner = NoThread
              => tstatus[arg[th]] # "DONE"
        /\ at[th] = "monitoring" /\ runner = th /\ arg[th] \in told => returned

(* Where the thread is, and what that says of the connection: it is on its  *)
(* way up or down only while somebody waits for that, and a transaction     *)
(* that is waited for is decided only inside the loop.                      *)
SoloPlace(th) ==
    /\ fn \in [AppThreads -> LegacyFunctions] /\ at \in [AppThreads -> Labels]
    /\ DOMAIN arg = AppThreads /\ DOMAIN ret = AppThreads
    /\ fn[th] = "none" <=> at[th] = "out"
    /\ at[th] \in InConnect => fn[th] \in {"M_Connect", "M_TransSend"}
    /\ at[th] \in InDisconnect => fn[th] \in {"M_Disconnect", "M_DestroyConn"}
    /\ at[th] \in InMonitor => fn[th] \in {"M_Monitor", "M_TransSend"}
    /\ at[th] \in InSend => fn[th] = "M_TransSend"
    /\ runner \in {th, NoThread}
    /\ runner = th => alive /\ at[th] \in InLoop

SoloThread(th) == SoloPlace(th) /\ (alive => SoloLink(th) /\ SoloSend(th))

-----------------------------------------------------------------------------
(* Between handlers nothing is left to deliver or to delete.                *)
LEMMA SoloIdle ==
    ASSUME HandlerInv, alive, pc = "idle"
    PROVE  ~in_use /\ events = <<>> /\ delay_rm = {}
  BY DEF HandlerInv

(* A call of the application that neither connects, disconnects, sends nor  *)
(* destroys.                                                                *)
LEMMA SoloTransCall ==
    ASSUME Basis, SoloConn, alive, pc = "idle",
           \/ LM_trans_new("app") \/ LM_conn_disable_ping("app")
           \/ \E t \in Trans : LM_trans_set_param("app", t) \/ LM_trans_delete("app", t)
    PROVE  SoloConn' /\ UNCHANGED <<alive, status, pc>>
  <1> USE DEF objVars, linkVars, confVars, queueVars, fieldVars, loopVars, histVars
  <1>0. tstatus \in [Trans -> TransStatus] /\ timeout_s \in [Trans -> BOOLEAN]
        /\ ttimer \in [Trans -> {"none", "armed", "fired"}]
    BY DEF Basis, TypeOK
  <1>1. ~in_use /\ events = <<>> /\ delay_rm = {}
    BY SoloIdle DEF Basis
  <1>2. CASE LM_trans_new("app")
    <2>1. PICK t \in Users : tstatus' = [tstatus EXCEPT ![t] = "NEW"]
      BY <1>2 DEF LM_trans_new
    <2>2. \A p \in Pings : tstatus'[p] = tstatus[p]
      BY <1>0, <2>1, ConnAssumption DEF Trans
    <2>3. UNCHANGED <<objVars, linkVars, confVars, trans_ready, fieldVars, loopVars, pingtxn, delay_rm>>
      BY <1>2 DEF LM_trans_new
    <2>4. QED BY <2>2, <2>3 DEF SoloConn, Unasked
  <1>3. CASE LM_conn_disable_ping("app")
    BY <1>3 DEF LM_conn_disable_ping, SoloConn, Unasked
  <1>4. ASSUME NEW t \in Trans, LM_trans_set_param("app", t)
        PROVE  SoloConn' /\ UNCHANGED <<alive, status, pc>>
    BY <1>4 DEF LM_trans_set_param, SoloConn, Unasked
  <1>5. ASSUME NEW t \in Trans, LM_trans_delete("app", t)
        PROVE  SoloConn' /\ UNCHANGED <<alive, status, pc>>
    <2>1. /\ DeleteUnlocked(t) /\ ttimer' = [ttimer EXCEPT ![t] = "none"]
          /\ UNCHANGED <<objVars, status, io, confVars, loopVars, pingtxn, delay_rm>>
      BY <1>1, <1>5 DEF LM_trans_delete, Deferred, StopTimeout
    <2>2. /\ \A u \in Trans : ~timeout_s'[u] /\ ttimer'[u] = "none"
          /\ \A p \in Pings : tstatus'[p] = "PENDING" => tstatus[p] = "PENDING"
      BY <1>0, <2>1 DEF DeleteUnlocked, SoloConn, Trans
    <2>3. trans_ready' = <<>>
      <3>1. tstatus[t] # "READY"
        BY ToSetEmpty DEF Basis, QueueInv, SoloConn
      <3>2. QED BY <2>1, <3>1 DEF DeleteUnlocked, SoloConn
    <2>4. timer' # "none" => status = "CONNECTING"
      BY <2>1 DEF DeleteUnlocked, TimerReset, SoloConn
    <2>5. QED BY <2>1, <2>2, <2>3, <2>4 DEF SoloConn, Unasked
  <1>6. QED BY <1>2, <1>3, <1>4, <1>5

(* A connection that has been asked for.                                    *)
LEMMA SoloConnect ==
    ASSUME Basis, SoloConn, alive, pc = "idle", LM_conn_connect("app")
    PROVE  /\ SoloConn' /\ UNCHANGED <<alive, pc, tstatus, told>>
           /\ \/ UNCHANGED <<io, status>>
              \/ io' # io /\ status' = "CONNECTING"
  <1> USE DEF objVars, linkVars, confVars, queueVars, fieldVars, loopVars, histVars
  <1>1. ~in_use /\ events = <<>> /\ delay_rm = {}
    BY SoloIdle DEF Basis
  <1>2. /\ ConnConnect("app")
        /\ UNCHANGED <<objVars, timer, confVars, queueVars, fieldVars, pc, ev, events, told,
                       pingtxn, delay_rm>>
    BY DEF LM_conn_connect
  <1>3. ~IoCreateCb /\ call \in [Threads -> {"none", "connect", "register"}]
    BY LegacyAssumption DEF Basis, TypeOK
  <1>4. CASE UNCHANGED <<io, status>> /\ call' = [call EXCEPT !["app"] = "none"]
    BY <1>2, <1>3, <1>4 DEF SoloConn, Unasked
  <1>5. CASE /\ io = "none" /\ io' = "connecting" /\ status' = "CONNECTING"
             /\ call' = [call EXCEPT !["app"] = "none"]
    <2>1. status = "DISCONNECTED"
      BY <1>5 DEF Basis, LinkInv
    <2>2. \A p \in Pings : tstatus'[p] # "PENDING"
      BY <1>1, <1>2, <2>1 DEF SoloConn, Unasked
    <2>3. QED BY <1>1, <1>2, <1>3, <1>5, <2>1, <2>2 DEF SoloConn, Unasked
  <1>6. QED BY <1>2, <1>3, <1>4, <1>5 DEF ConnConnect

(* The one thread asks for a disconnect.                                    *)
LEMMA SoloDisconnect ==
    ASSUME Basis, SoloConn, alive, pc = "idle", LM_conn_disconnect("app")
    PROVE  SoloConn' /\ UNCHANGED <<alive, pc>> /\ status' = "DISCONNECTING"
  <1> USE DEF objVars, linkVars, confVars, queueVars, fieldVars, loopVars, histVars
  <1>1. /\ status = "CONNECTED" /\ status' = "DISCONNECTING"
        /\ UNCHANGED <<objVars, timer, confVars, queueVars, fieldVars, loopVars, pingtxn, delay_rm>>
    BY DEF LM_conn_disconnect, DisconnectIo
  <1>2. QED BY <1>1 DEF SoloConn, Unasked

(* The one thread destroys a connection that no handler is using.           *)
LEMMA SoloDestroy ==
    ASSUME Basis, SoloConn, alive, pc = "idle", LM_conn_destroy("app")
    PROVE  SoloConn' /\ ~alive'
  <1>1. ~in_use
    BY SoloIdle DEF Basis
  <1>2. FreeConn
    BY <1>1 DEF LM_conn_destroy, Deferred
  <1>3. QED BY <1>2 DEF FreeConn, SoloConn, confVars, fieldVars

(* A transaction is sent on a connection that is up.                        *)
LEMMA SoloSends ==
    ASSUME Basis, SoloConn, alive, pc = "idle", status = "CONNECTED",
           NEW t \in Trans, LM_trans_send("app", t)
    PROVE  /\ SoloConn' /\ UNCHANGED <<alive, pc, status>>
           /\ t \in Users /\ tstatus'[t] = "PENDING"
  <1> USE DEF objVars, linkVars, confVars, queueVars, fieldVars, loopVars, histVars
  <1> DEFINE ready == Append(trans_ready, t)
  <1>1. t \in Users /\ \A p \in Pings : p # t
    BY ConnAssumption DEF LM_trans_send, Basis, StandingInv, Trans
  <1>2. ToSet(ready) = {t}
    <2>1. trans_ready = <<>> /\ trans_ready \in Seq(Trans)
      BY DEF SoloConn, Basis, TypeOK
    <2>2. ToSet(ready) = ToSet(trans_ready) \cup {t}
      <3>1. trans_ready \in Seq(Trans)
        BY <2>1
      <3>2. QED BY <3>1, ToSetAppend
    <2>3. ToSet(trans_ready) = {}
      BY <2>1, ToSetEmpty
    <2>4. QED BY <2>2, <2>3
  <1>3. /\ SendReady(ready) /\ timer' = TimerStop(timer)
        /\ call' = [call EXCEPT !["app"] = call["app"]]
        /\ UNCHANGED <<objVars, status, io, confVars, timeout_s, pc, ev, events, pingtxn, delay_rm>>
    BY DEF LM_trans_send, CanSend
  <1> HIDE DEF ready
  <1>4. /\ trans_ready' = <<>>
        /\ tstatus' = [u \in Trans |-> IF u \in ToSet(ready) THEN "PENDING" ELSE tstatus[u]]
        /\ ttimer' = [u \in Trans |-> IF u \in ToSet(ready) /\ timeout_s[u]
                                      THEN "armed" ELSE ttimer[u]]
    BY <1>3 DEF SendReady
  <1>5. /\ \A u \in Trans : ~timeout_s'[u] /\ ttimer'[u] = "none"
        /\ tstatus'[t] = "PENDING" /\ \A p \in Pings : tstatus'[p] = tstatus[p]
    BY <1>1, <1>2, <1>3, <1>4 DEF SoloConn, Trans
  <1>6. timer' = "none"
    BY <1>3 DEF SoloConn, TimerStop
  <1>7. UNCHANGED call
    BY <1>3 DEF Basis, TypeOK
  <1>8. QED BY <1>1, <1>3, <1>4, <1>5, <1>6, <1>7 DEF SoloConn, Unasked

-----------------------------------------------------------------------------
(* The loop runs.                                                           *)

(* What a step of the loop leaves as it is, for the thread that runs it.    *)
LoopKeeps ==
    /\ alive'
    /\ status' = "CONNECTING" => status = "CONNECTING"
    /\ status' = "DISCONNECTING" => status = "DISCONNECTING"
    /\ pc = "callbacks" /\ pc' = "callback" => events # <<>>
    /\ \A t \in Users :
          /\ tstatus[t] \in {"PENDING", "DONE"} => tstatus'[t] \in {"PENDING", "DONE"}
          /\ t \in told' => t \in told \/ (/\ pc = "callbacks" /\ pc' = "callback"
                                         /\ Wakes(Head(events).type))

(* A loss, from whatever event, while the one thread runs the loop.         *)
LEMMA SoloLost ==
    ASSUME Basis, SoloConn, alive, NEW type, ConnError(type),
           UNCHANGED <<alive, destroy, confVars, call, told>>, pc' = "callbacks",
           delay_rm \subseteq delay_rm', delay_rm' \subseteq Pings,
           pc = "ping" /\ pingtxn # NoTrans /\ tstatus[pingtxn] # "FREE" => pingtxn \in delay_rm'
    PROVE  SoloConn' /\ LoopKeeps
  <1> USE DEF objVars, confVars
  <1>1. \A t \in Trans : /\ tstatus'[t] = IF t \in ToSet(trans_pending) THEN "DONE" ELSE tstatus[t]
                         /\ ttimer'[t] = "none" /\ timeout_s'[t] = timeout_s[t]
    BY DEF ConnError, Abandoned, SoloConn
  <1>2. status' = "DISCONNECTED" /\ timer' = "none" /\ trans_ready' = trans_ready
    BY DEF ConnError
  <1>3. \A p \in Pings : tstatus'[p] = "PENDING" => p \in delay_rm'
    <2> SUFFICES ASSUME NEW p \in Pings, tstatus'[p] = "PENDING"
                 PROVE  p \in delay_rm'
      OBVIOUS
    <2>1. p \in Trans /\ p # NoTrans
      BY ConnAssumption DEF Trans
    <2>2. tstatus[p] = "PENDING" /\ p \notin ToSet(trans_pending)
      BY <1>1, <2>1
    <2>3. p \in delay_rm \/ (pc = "ping" /\ p = pingtxn)
      BY <2>1, <2>2 DEF Basis, QueueInv
    <2>4. QED BY <2>1, <2>2, <2>3
  <1>4. SoloConn'
    BY <1>1, <1>2, <1>3 DEF SoloConn, Unasked
  <1>5. QED BY <1>1, <1>2, <1>4 DEF LoopKeeps, Trans

(* Steps of the handler that only concern the queues of events and deletes. *)
LEMMA SoloDispatch ==
    ASSUME Basis, SoloConn, alive, LoopDispatch
    PROVE  SoloConn' /\ LoopKeeps
  <1> USE DEF objVars, linkVars, confVars, queueVars, fieldVars, loopVars, histVars
  <1>1. \A t \in Trans : ~DispatchTransTimer(t)
    BY DEF DispatchTransTimer, SoloConn
  <1>2. /\ pc = "idle" /\ pc' = "dispatched"
        /\ UNCHANGED <<objVars, confVars, status, queueVars, timeout_s, events, call, told,
                       pingtxn, delay_rm, ttimer>>
    BY <1>1 DEF LoopDispatch, DispatchConnected, DispatchClosed, DispatchRead, DispatchWrite,
                DispatchTrigger, DispatchTimer, Dispatch
  <1>3. LoopKeeps
    BY <1>2 DEF LoopKeeps
  <1>4. CASE DispatchConnected
    <2>1. status = "CONNECTING" /\ io = "connecting" /\ ev'.type = "CONNECTED"
      <3>1. io = "connecting" /\ ev' = UserEvent("CONNECTED", NoTrans)
        BY <1>4 DEF DispatchConnected, Dispatch
      <3>2. status \in ConnStatus
        BY DEF Basis, TypeOK
      <3>3. status = "CONNECTING"
        BY <3>1, <3>2 DEF Basis, LinkInv, ConnStatus
      <3>4. QED BY <3>1, <3>3 DEF UserEvent
    <2>2. \A p \in Pings : tstatus[p] # "PENDING"
      BY <2>1 DEF SoloConn, Unasked
    <2>3. UNCHANGED timer
      BY <1>4 DEF DispatchConnected
    <2>4. SoloConn'
      BY <1>2, <2>1, <2>2, <2>3 DEF SoloConn, Unasked
    <2>5. QED BY <1>3, <2>4
  <1>5. CASE DispatchTimer
    <2>1. timer = "armed" /\ ev' = UserEvent("OTHER", NoTrans) /\ UNCHANGED io
      BY <1>5 DEF DispatchTimer, Dispatch
    <2>2. SoloConn'
      BY <1>2, <2>1 DEF SoloConn, Unasked, UserEvent
    <2>3. QED BY <1>3, <2>2
  <1>6. CASE \/ \E type \in {"DISCONNECTED", "ERROR"} : DispatchClosed(type)
             \/ DispatchRead \/ DispatchWrite \/ DispatchTrigger
    <2>1. UNCHANGED <<io, timer>> /\ ev'.type \in {"DISCONNECTED", "ERROR", "READ", "WRITE"}
      <3>1. UNCHANGED <<io, timer>> /\ \E type \in {"DISCONNECTED", "ERROR", "READ", "WRITE"} :
                                          ev' = UserEvent(type, NoTrans)
        BY <1>6 DEF DispatchClosed, DispatchRead, DispatchWrite, DispatchTrigger, Dispatch
      <3>2. QED BY <3>1 DEF UserEvent
    <2>2. SoloConn'
      BY <1>2, <2>1 DEF SoloConn, Unasked
    <2>3. QED BY <1>3, <2>2
  <1>7. QED BY <1>1, <1>4, <1>5, <1>6 DEF LoopDispatch

(* The handler, while the connection goes up, comes down or times out.      *)
LEMMA SoloLinkHandler ==
    ASSUME Basis, SoloConn, alive,
           \/ HandleConnectedNoPing \/ HandleConnected
           \/ \E type \in {"DISCONNECTED", "ERROR"} : HandleClosed(type)
           \/ HandlePingTimeout \/ ParseError \/ SetConnected \/ PingLost
    PROVE  SoloConn' /\ LoopKeeps
  <1> USE DEF objVars, linkVars, confVars, queueVars, fieldVars, loopVars, histVars
  <1>0. /\ tstatus \in [Trans -> TransStatus] /\ pingtxn \in Pings \cup {NoTrans}
        /\ trans_ready = <<>> /\ \A p \in Pings : p \in Trans /\ p # NoTrans /\ p \notin Users
    BY ConnAssumption DEF Basis, TypeOK, SoloConn, Trans
  <1>1. CASE HandleConnectedNoPing
    <2>1. /\ pc = "dispatched" /\ ev.type = "CONNECTED" /\ pc' = "ping" /\ timer' = "none"
          /\ UNCHANGED <<alive, destroy, confVars, ev, call, told, status, io, trans_ready, tstatus,
                         fieldVars, events, pingtxn, delay_rm>>
      BY <1>1 DEF HandleConnectedNoPing, Enter, CleanupPing
    <2>2. \A p \in Pings : tstatus[p] = "PENDING" => p \in delay_rm
      BY <2>1 DEF SoloConn, Unasked
    <2>3. QED BY <2>1, <2>2 DEF SoloConn, Unasked, LoopKeeps
  <1>2. CASE HandleConnected
    <2>1. PICK p \in Pings : /\ pingtxn' = p /\ tstatus' = [tstatus EXCEPT ![p] = "PENDING"]
      BY <1>2 DEF HandleConnected
    <2>2. /\ pc = "dispatched" /\ ev.type = "CONNECTED" /\ pc' = "callbacks"
          /\ UNCHANGED <<alive, destroy, confVars, ev, call, told, status, io, trans_ready,
                         fieldVars, events, delay_rm>>
      BY <1>2 DEF HandleConnected, Enter
    <2>3. status = "CONNECTING" /\ io = "up"
      BY <2>2 DEF Basis, LinkInv
    <2>4. \A q \in Pings : tstatus'[q] = "PENDING" => q = p
      BY <1>0, <2>1, <2>2, <2>3 DEF SoloConn, Unasked
    <2>5. \A t \in Users : tstatus'[t] = tstatus[t]
      BY <1>0, <2>1 DEF Trans
    <2>6. SoloConn'
      BY <2>1, <2>2, <2>3, <2>4 DEF SoloConn, Unasked
    <2>7. QED BY <2>2, <2>5, <2>6 DEF LoopKeeps
  <1>3. ASSUME NEW type, HandleClosed(type)
        PROVE  SoloConn' /\ LoopKeeps
    <2>1. /\ ConnError(type) /\ pc = "dispatched" /\ pc' = "callbacks"
          /\ UNCHANGED <<alive, destroy, confVars, call, told, delay_rm>>
      BY <1>3 DEF HandleClosed, Enter
    <2>2. QED BY <2>1, SoloLost DEF SoloConn
  <1>4. CASE HandlePingTimeout
    <2>1. /\ pc = "dispatched" /\ ev.type = "OTHER" /\ pc' = "ping" /\ timer' = "none"
          /\ UNCHANGED <<alive, destroy, confVars, ev, call, told, status, io, trans_ready, tstatus,
                         fieldVars, events, pingtxn, delay_rm>>
      BY <1>4 DEF HandlePingTimeout, Enter, CleanupPing
    <2>2. QED BY <2>1 DEF SoloConn, Unasked, LoopKeeps
  <1>5. CASE ParseError
    <2>1. /\ ConnError("ERROR") /\ pc = "reading" /\ pc' = "callbacks"
          /\ UNCHANGED <<objVars, confVars, call, told, delay_rm>>
      BY <1>5 DEF ParseError, Parsing
    <2>2. QED BY <2>1, SoloLost DEF SoloConn
  <1>6. CASE PingLost \/ SetConnected
    <2>0. PingDeleted /\ pc = "ping"
      BY <1>6 DEF PingLost, SetConnected, PingDeleted
    <2>1. /\ delay_rm' \subseteq Pings /\ delay_rm \subseteq delay_rm'
          /\ pingtxn # NoTrans /\ tstatus[pingtxn] # "FREE" => pingtxn \in delay_rm'
          /\ UNCHANGED <<objVars, confVars, ev, call, told>>
      BY <1>0, <2>0 DEF PingDeleted, SoloConn
    <2>2. CASE PingLost
      <3>1. ConnError("ERROR") /\ pc' = "callbacks"
        BY <2>2 DEF PingLost
      <3>2. QED BY <2>0, <2>1, <3>1, SoloLost
    <2>3. CASE SetConnected
      <3>1. /\ status' = "CONNECTED" /\ SendReady(trans_ready) /\ UNCHANGED timeout_s
            /\ timer' = IF idle_timeout THEN "stopped" ELSE "none"
            /\ pc' \in {"callbacks", "reading"}
        BY <2>3 DEF SetConnected
      <3>2. /\ trans_ready' = <<>>
            /\ \A t \in Trans : tstatus'[t] = tstatus[t] /\ ttimer'[t] = ttimer[t]
        BY <1>0, <3>1, ToSetEmpty DEF SendReady
      <3>3. timer' = "none"
        BY <3>1 DEF SoloConn
      <3>4. \A p \in Pings : tstatus[p] = "PENDING" => p \in delay_rm'
        <4> SUFFICES ASSUME NEW p \in Pings, tstatus[p] = "PENDING"
                     PROVE  p \in delay_rm'
          OBVIOUS
        <4>1. p \in delay_rm \/ p = pingtxn
          BY DEF SoloConn, Unasked
        <4>2. QED BY <1>0, <2>1, <4>1
      <3>5. SoloConn'
        BY <1>0, <2>1, <3>1, <3>2, <3>3, <3>4 DEF SoloConn, Unasked
      <3>6. QED BY <2>0, <2>1, <3>1, <3>2, <3>5 DEF LoopKeeps, Trans
    <2>4. QED BY <1>6, <2>2, <2>3
  <1>7. QED BY <1>1, <1>2, <1>3, <1>4, <1>5, <1>6

(* The handler, reading, writing and telling the user.                      *)
LEMMA SoloHandler ==
    ASSUME Basis, SoloConn, alive, Handler
    PROVE  SoloConn' /\ LoopKeeps
  <1> USE DEF objVars, linkVars, confVars, queueVars, fieldVars, loopVars, histVars
  <1>0. /\ tstatus \in [Trans -> TransStatus] /\ ttimer \in [Trans -> {"none", "armed", "fired"}]
        /\ timeout_s \in [Trans -> BOOLEAN] /\ call \in [Threads -> {"none", "connect", "register"}]
        /\ trans_ready = <<>> /\ \A p \in Pings : p \in Trans /\ p # NoTrans /\ p \notin Users
    BY ConnAssumption DEF Basis, TypeOK, SoloConn, Trans
  <1>1. CASE HandleTransTimeout
    BY <1>1 DEF HandleTransTimeout, Enter, IsTransTimer, SoloConn
  <1>2. CASE HandleIdleTimeout
    BY <1>2 DEF HandleIdleTimeout, Enter, SoloConn
  <1>3. CASE HandleRead \/ HandleWrite
    <2>1. /\ pc = "dispatched" /\ ev.type \in {"READ", "WRITE"} /\ pc' \in {"reading", "callbacks"}
          /\ UNCHANGED <<alive, destroy, confVars, ev, call, told, status, io, timer, queueVars,
                         fieldVars, events, pingtxn, delay_rm>>
      BY <1>3 DEF HandleRead, HandleWrite, Enter
    <2>2. QED BY <2>1 DEF SoloConn, Unasked, LoopKeeps
  <1>4. ASSUME NEW t \in Trans, ParseResponse(t)
        PROVE  SoloConn' /\ LoopKeeps
    <2>1. /\ pc = "reading" /\ tstatus[t] = "PENDING" /\ tstatus' = [tstatus EXCEPT ![t] = "DONE"]
          /\ UNCHANGED <<objVars, confVars, ev, call, told, status, io, trans_ready, timeout_s,
                         pingtxn, delay_rm>>
      BY <1>4 DEF ParseResponse, Parsing
    <2>2. CASE status = "CONNECTING"
      <3>1. t \in Pings
        BY <2>1, <2>2 DEF Basis, StandingInv, Trans
      <3>2. t = pingtxn
        BY <2>1, <2>2, <3>1 DEF SoloConn, Unasked
      <3>3. timer' = "none" /\ pc' = "ping" /\ UNCHANGED <<events, ttimer>>
        BY <1>4, <3>2 DEF ParseResponse, CleanupPing
      <3>4. \A p \in Pings : tstatus'[p] # "PENDING"
        BY <1>0, <2>1, <2>2, <3>2 DEF SoloConn, Unasked
      <3>5. SoloConn'
        BY <1>0, <2>1, <3>3, <3>4 DEF SoloConn, Unasked
      <3>6. QED BY <1>0, <2>1, <3>3, <3>5 DEF LoopKeeps, Trans
    <2>3. CASE status # "CONNECTING"
      <3>1. pc' \in {"ping", "reading"} /\ timer' \in {timer, "none"} /\ ttimer' \in {ttimer, StopTimeout(t)}
        BY <1>4, <2>1 DEF ParseResponse, CleanupPing
      <3>2. \A u \in Trans : ttimer'[u] = "none"
        BY <1>0, <3>1 DEF StopTimeout, SoloConn
      <3>3. \A p \in Pings : tstatus'[p] = "PENDING" => p \in delay_rm
        BY <1>0, <2>1, <2>3 DEF SoloConn, Unasked
      <3>4. SoloConn'
        BY <1>0, <2>1, <2>3, <3>1, <3>2, <3>3 DEF SoloConn, Unasked
      <3>5. QED BY <1>0, <2>1, <3>1, <3>4 DEF LoopKeeps, Trans
    <2>4. QED BY <2>2, <2>3
  <1>5. CASE ParseWait \/ \E t \in Trans : ParseOrphan(t)
    <2>1. /\ pc = "reading" /\ pc' \in {"reading", "callbacks"} /\ timer' \in {timer, TimerReset(timer)}
          /\ UNCHANGED <<objVars, confVars, ev, call, told, status, io, queueVars,
                         fieldVars, events, pingtxn, delay_rm>>
      BY <1>5 DEF ParseWait, ParseOrphan, Parsing
    <2>2. timer' # "none" => status = "CONNECTING"
      BY <2>1 DEF TimerReset, SoloConn
    <2>3. QED BY <2>1, <2>2 DEF SoloConn, Unasked, LoopKeeps
  <1>6. CASE Deliver
    <2>1. /\ pc = "callbacks" /\ pc' = "callback" /\ events # <<>> /\ events' = Tail(events)
          /\ \A u \in Users : u \in told' => u \in told \/ Head(events).type \in {"TRANS_DONE", "TRANS_ERROR"}
          /\ UNCHANGED <<objVars, confVars, ev, call, status, io, timer, queueVars,
                         fieldVars, pingtxn, delay_rm>>
      BY <1>6 DEF Deliver
    <2>2. status # "CONNECTING"
      BY <2>1 DEF SoloConn
    <2>3. QED BY <2>1, <2>2 DEF SoloConn, Unasked, LoopKeeps, Wakes
  <1>7. CASE CallbackReturns \/ AllDelivered
    <2>1. /\ pc \in {"callback", "callbacks"} /\ pc' \in {"callbacks", "reap"}
          /\ events' \in {events, <<>>}
          /\ UNCHANGED <<objVars, confVars, ev, call, told, status, io, timer, queueVars,
                         fieldVars, pingtxn, delay_rm>>
      BY <1>7 DEF CallbackReturns, AllDelivered
    <2>2. QED BY <2>1 DEF SoloConn, Unasked, LoopKeeps
  <1>8. ASSUME NEW t \in Trans, Reap(t)
        PROVE  SoloConn' /\ LoopKeeps
    <2>1. /\ t \in delay_rm /\ delay_rm' = delay_rm \ {t} /\ DeleteUnlocked(t)
          /\ pc = "reap" /\ UNCHANGED <<objVars, status, io, confVars, ttimer, loopVars, pingtxn>>
      BY <1>8 DEF Reap
    <2>2. t \in Pings /\ tstatus[t] # "READY" /\ status # "CONNECTING"
      BY <2>1 DEF SoloConn, Basis, StandingInv
    <2>3. /\ trans_ready' = trans_ready /\ timer' = "none"
          /\ \A u \in Trans : tstatus'[u] = IF u = t THEN "FREE" ELSE tstatus[u]
          /\ \A u \in Trans : ~timeout_s'[u]
      <3>1. trans_ready' = trans_ready
        BY <2>1, <2>2 DEF DeleteUnlocked
      <3>2. timer = "none"
        BY <2>2 DEF SoloConn
      <3>3. timer' = "none"
        BY <2>1, <3>2 DEF DeleteUnlocked, TimerReset
      <3>4. /\ tstatus' = [tstatus EXCEPT ![t] = "FREE"]
            /\ timeout_s' = [timeout_s EXCEPT ![t] = FALSE]
        BY <2>1 DEF DeleteUnlocked
      <3>5. \A u \in Trans : ~timeout_s[u]
        BY DEF SoloConn
      <3>6. \A u \in Trans : ~timeout_s'[u]
        BY <1>0, <3>4, <3>5
      <3>7. QED BY <1>0, <3>1, <3>3, <3>4, <3>6
    <2>4. \A p \in Pings : tstatus'[p] = "PENDING" => p \in delay_rm'
      BY <1>0, <2>1, <2>2, <2>3 DEF SoloConn, Unasked
    <2>5. told' \subseteq told
      BY <2>1 DEF DeleteUnlocked
    <2>6. SoloConn'
      BY <2>1, <2>2, <2>3, <2>4 DEF SoloConn, Unasked
    <2>7. QED BY <1>0, <2>1, <2>2, <2>3, <2>5, <2>6 DEF LoopKeeps, Trans
  <1>9. CASE Release \/ Leave
    <2>1. ~destroy /\ call["loop"] = "none" /\ ~NeedsReconnect
      BY <1>0 DEF SoloConn, NeedsReconnect, Threads
    <2>2. /\ pc \in {"reap", "leaving"} /\ pc' \in {"leaving", "idle"}
          /\ call' \in {call, [call EXCEPT !["loop"] = "none"]}
          /\ UNCHANGED <<alive, destroy, confVars, ev, told, status, io, timer, queueVars,
                         fieldVars, events, pingtxn, delay_rm>>
      BY <1>9, <2>1 DEF Release, Leave, DestroyIsSet
    <2>3. \A a \in Threads : call'[a] = "none"
      BY <1>0, <2>2 DEF SoloConn
    <2>4. QED BY <2>2, <2>3 DEF SoloConn, Unasked, LoopKeeps
  <1>10. QED BY <1>1, <1>2, <1>3, <1>4, <1>5, <1>6, <1>7, <1>8, <1>9, SoloLinkHandler DEF Handler

-----------------------------------------------------------------------------
(* The thread.                                                              *)

(* It goes on with the function it is in.                                   *)
LEMMA SoloGoto ==
    ASSUME NEW th \in AppThreads, SoloPlace(th), NEW label \in Labels \ {"out"}, Goto(th, label),
           fn[th] # "none",
           label \in InConnect => fn[th] \in {"M_Connect", "M_TransSend"},
           label \in InDisconnect => fn[th] \in {"M_Disconnect", "M_DestroyConn"},
           label \in InMonitor => fn[th] \in {"M_Monitor", "M_TransSend"},
           label \in InSend => fn[th] = "M_TransSend",
           runner' \in {th, NoThread}, runner' = th => alive' /\ label \in InLoop
    PROVE  SoloPlace(th)' /\ at'[th] = label /\ UNCHANGED <<fn, arg>>
  BY DEF SoloPlace, Goto

(* It returns.                                                              *)
LEMMA SoloReturn ==
    ASSUME NEW th \in AppThreads, SoloPlace(th), NEW r, Return(th, r), runner' = NoThread,
           NoThread # th
    PROVE  SoloPlace(th)' /\ at'[th] = "out" /\ fn'[th] = "none" /\ ret'[th] = r
  BY DEF SoloPlace, Return, InConnect, InDisconnect, BeforeLoop, InMonitor, InSend, LegacyFunctions, Labels

(* It calls one of the functions that run the loop.                         *)
LEMMA SoloBegin ==
    ASSUME NEW th \in AppThreads, NoThread # th, SoloConn, SoloThread(th),
           NEW f, NEW t, NEW label, Begin(th, f, t, label),
           <<f, label>> \in {<<"M_Connect", "connect">>, <<"M_Disconnect", "disconnect">>,
                            <<"M_DestroyConn", "disconnect">>, <<"M_Monitor", "monitor">>,
                            <<"M_TransSend", "poll">>}
    PROVE  SoloConn' /\ SoloThread(th)'
  <1> USE DEF Labels, InLoop, InConnect, InDisconnect, BeforeLoop, InMonitor, InSend
  <1>1. alive /\ at[th] = "out" /\ runner = NoThread /\ SoloLink(th)
    BY DEF Begin, SoloThread, SoloPlace
  <1>2. UNCHANGED vars /\ UNCHANGED <<runner, returned>>
    BY DEF Begin
  <1>3. at'[th] = label /\ fn'[th] = f
    BY DEF Begin, SoloThread, SoloPlace
  <1>4. SoloPlace(th)'
    BY <1>1, <1>2, <1>3 DEF Begin, SoloThread, SoloPlace, LegacyFunctions, vars, objVars
  <1>5. SoloConn'
    BY <1>2 DEF vars, objVars, linkVars, confVars, queueVars, fieldVars, loopVars, SoloConn, Unasked
  <1>6. SoloLink(th)'
    BY <1>1, <1>2, <1>3 DEF vars, linkVars, loopVars, SoloLink
  <1>7. SoloSend(th)'
    BY <1>3 DEF SoloSend
  <1>8. QED BY <1>4, <1>5, <1>6, <1>7 DEF SoloThread

(* The other calls.                                                         *)
LEMMA SoloWrapper ==
    ASSUME NEW th \in AppThreads, NoThread # th, Basis, SoloConn, SoloThread(th),
           \/ M_SetBlocking(th) \/ M_VerifyConnection(th) \/ M_TransNew(th)
           \/ \E t \in Trans : M_TransKeyVal(th, t) \/ M_DeleteTrans(th, t)
    PROVE  SoloConn' /\ SoloThread(th)'
  <1>1. CASE M_SetBlocking(th)
    <2>1. UNCHANGED <<vars, runner, returned, threadVars>>
      BY <1>1 DEF M_SetBlocking
    <2>2. QED BY <2>1 DEF vars, objVars, linkVars, confVars, queueVars, fieldVars, loopVars, histVars,
                    threadVars, SoloConn, Unasked, SoloThread, SoloPlace, SoloLink, SoloSend
  <1>2. CASE \/ M_VerifyConnection(th) \/ M_TransNew(th)
             \/ \E t \in Trans : M_TransKeyVal(th, t) \/ M_DeleteTrans(th, t)
    <2>1. Wrapper(th) /\ (\/ LM_trans_new("app") \/ LM_conn_disable_ping("app")
                          \/ \E t \in Trans : \/ LM_trans_set_param("app", t)
                                              \/ LM_trans_delete("app", t))
      BY <1>2 DEF M_VerifyConnection, M_TransNew, M_TransKeyVal, M_DeleteTrans
    <2>2. alive
      BY <2>1 DEF LM_trans_new, LM_conn_disable_ping, LM_trans_set_param, LM_trans_delete, MayCall
    <2>3. fn[th] = "none" /\ UNCHANGED <<runner, returned, fn, at, arg, ret>>
      BY <2>1 DEF Wrapper, threadVars
    <2>4. pc = "idle"
      BY <2>2, <2>3 DEF SoloThread, SoloPlace, SoloLink, InLoop
    <2>5. SoloConn' /\ UNCHANGED <<alive, status, pc>>
      BY <2>1, <2>2, <2>4, SoloTransCall
    <2>6. QED BY <2>3, <2>5 DEF SoloThread, SoloPlace, SoloLink, SoloSend
  <1>3. QED BY <1>1, <1>2

(* It runs the loop.                                                        *)
LEMMA SoloInLoop ==
    ASSUME NEW th \in AppThreads, NoThread # th, Basis, SoloConn, SoloThread(th), LoopStep
    PROVE  SoloConn' /\ SoloThread(th)'
  <1>1. runner = th /\ alive /\ UNCHANGED <<runner, fn, at, arg, ret>>
    BY DEF LoopStep, SoloThread, SoloPlace, threadVars
  <1>2. LoopDispatch \/ Handler
    BY DEF LoopStep, SoloConn, Threads
  <1>3. SoloConn' /\ LoopKeeps
    BY <1>1, <1>2, SoloDispatch, SoloHandler
  <1>4. returned => returned'
    BY DEF LoopStep
  <1>5. pc = "callbacks" /\ pc' = "callback" /\ Wakes(Head(events).type) => returned'
    BY DEF LoopStep
  <1>6. returned' => returned \/ (pc = "callbacks" /\ pc' = "callback")
    BY DEF LoopStep
  <1>7. SoloPlace(th)'
    BY <1>1, <1>3 DEF SoloThread, SoloPlace, LoopKeeps
  <1>8. SoloLink(th)'
    <2>1. status' = "CONNECTING" => at[th] = "connecting" /\ ~returned /\ events = <<>>
      BY <1>1, <1>3 DEF LoopKeeps, SoloThread, SoloLink, SoloConn
    <2>2. status' = "CONNECTING" => ~returned'
      BY <1>3, <1>6, <2>1 DEF LoopKeeps
    <2>3. at[th] \notin {"send", "monitor_again", "monitored_again"}
      BY <1>1 DEF SoloThread, SoloPlace, InLoop
    <2>4. status' = "DISCONNECTING" => at[th] \in {"disconnect_test", "disconnecting"}
      BY <1>1, <1>3 DEF LoopKeeps, SoloThread, SoloLink
    <2>5. QED BY <1>1, <2>1, <2>2, <2>3, <2>4 DEF SoloLink
  <1>9. SoloSend(th)'
    <2>1. SoloSend(th)
      BY <1>1 DEF SoloThread
    <2>2. QED BY <1>1, <1>3, <1>4, <1>5, <2>1 DEF SoloSend, LoopKeeps, BeforeLoop, InMonitor
  <1>10. QED BY <1>7, <1>8, <1>9, <1>3 DEF SoloThread

(* It enters and leaves the loop.                                           *)
LEMMA SoloEnter ==
    ASSUME NEW th \in AppThreads, NoThread # th, Basis, ToldInv, SoloConn, SoloThread(th),
           EventLoopEnter(th)
    PROVE  SoloConn' /\ SoloThread(th)'
  <1>1. /\ alive /\ at[th] \in InLoop /\ runner = NoThread /\ runner' = th /\ returned' = FALSE
        /\ UNCHANGED <<vars, fn, at, arg, ret>>
    BY DEF EventLoopEnter, SoloThread, SoloPlace, threadVars, AfterLoop, InLoop
  <1> USE DEF vars, objVars, linkVars, confVars, queueVars, fieldVars, loopVars, histVars
  <1>2. SoloConn' /\ SoloPlace(th)'
    BY <1>1 DEF SoloConn, Unasked, SoloThread, SoloPlace
  <1>3. SoloLink(th)'
    BY <1>1 DEF SoloThread, SoloLink, InLoop
  <1>4. SoloSend(th)'
    <2>1. SoloSend(th)
      BY <1>1 DEF SoloThread
    <2>2. fn[th] = "M_TransSend" /\ at[th] = "monitoring" => arg[th] \notin told
      BY <1>1, <2>1 DEF SoloSend, BeforeLoop, InMonitor, ToldInv, CompletionFine
    <2>3. QED BY <1>1, <2>1, <2>2 DEF SoloSend
  <1>5. QED BY <1>2, <1>3, <1>4 DEF SoloThread

(* The event loop returns to the function that ran it.                      *)
LEMMA SoloLeave ==
    ASSUME NEW th \in AppThreads, NoThread # th, SoloConn, SoloThread(th), EventLoopReturn(th)
    PROVE  SoloConn' /\ SoloThread(th)'
  <1>1. /\ alive /\ at[th] \in InLoop /\ runner = th /\ runner' = NoThread /\ pc = "idle"
        /\ UNCHANGED vars /\ (returned \/ Limited(th))
    BY DEF EventLoopReturn, SoloThread, SoloPlace
  <1>2. PICK label \in {"polled", "connected", "monitored", "disconnect_test"} :
            /\ Goto(th, label)
            /\ at[th] = "poll" => label = "polled"
            /\ at[th] = "connecting" => label = "connected"
            /\ at[th] = "monitoring" => label = "monitored"
            /\ at[th] = "disconnecting" => label = "disconnect_test"
    BY <1>1 DEF EventLoopReturn, AfterLoop, InLoop
  <1>3. SoloPlace(th) /\ SoloLink(th) /\ SoloSend(th)
    BY <1>1 DEF SoloThread
  <1>4. SoloPlace(th)' /\ at'[th] = label /\ UNCHANGED <<fn, arg>>
    <2> USE DEF Labels, InLoop, InConnect, InDisconnect, BeforeLoop, InMonitor, InSend
    <2>1. label \in Labels \ {"out"} /\ fn[th] # "none"
      BY <1>1, <1>3 DEF SoloPlace
    <2>2. /\ label \in InConnect => fn[th] \in {"M_Connect", "M_TransSend"}
          /\ label \in InDisconnect => fn[th] \in {"M_Disconnect", "M_DestroyConn"}
          /\ label \in InMonitor => fn[th] \in {"M_Monitor", "M_TransSend"}
          /\ label \in InSend => fn[th] = "M_TransSend"
      BY <1>1, <1>2, <1>3 DEF SoloPlace
    <2>3. QED BY <1>1, <1>2, <1>3, <2>1, <2>2, SoloGoto
  <1> USE DEF vars, objVars, linkVars, confVars, queueVars, fieldVars, loopVars, histVars
  <1>5. SoloConn'
    BY <1>1 DEF SoloConn, Unasked
  <1>6. status # "CONNECTING"
    BY <1>1, <1>3 DEF SoloLink, SoloPlace, Limited, InConnect
  <1>7. SoloLink(th)'
    <2>1. status' = status /\ pc' = "idle"
      BY <1>1
    <2>2. at'[th] \notin {"send", "monitor_again", "monitored_again"} /\ (at[th] = "disconnecting" => at'[th] = "disconnect_test")
      BY <1>2, <1>4
    <2>3. status = "DISCONNECTING" => at[th] = "disconnecting"
      BY <1>1, <1>3 DEF SoloLink, InLoop
    <2>4. QED BY <1>6, <2>1, <2>2, <2>3 DEF SoloLink
  <1>8. SoloSend(th)'
    <2>1. tstatus' = tstatus /\ at'[th] \in {"polled", "connected", "monitored", "disconnect_test"}
          /\ (at'[th] = "monitored" => at[th] = "monitoring")
      BY <1>1, <1>2, <1>4 DEF InLoop
    <2>2. QED BY <1>3, <1>4, <2>1 DEF SoloSend, BeforeLoop, InMonitor
  <1>9. QED BY <1>4, <1>5, <1>7, <1>8 DEF SoloThread

(* Where the thread is not inside the loop, nobody is.                      *)
LEMMA SoloAt ==
    ASSUME NEW th \in AppThreads, NoThread # th, SoloThread(th), NEW label \in Labels \ InLoop,
           AtLabel(th, label)
    PROVE  /\ alive /\ at[th] = label /\ runner = NoThread /\ pc = "idle"
           /\ UNCHANGED <<runner, returned>> /\ SoloPlace(th) /\ SoloLink(th) /\ SoloSend(th)
  BY DEF AtLabel, SoloThread, SoloPlace, SoloLink

(* Its place in the function is all that changes.                           *)
LEMMA SoloStays ==
    ASSUME NEW th \in AppThreads, SoloConn, SoloLink(th), alive, runner = NoThread,
           UNCHANGED <<vars, runner, returned>>, SoloPlace(th)',
           at'[th] = "send" => status = "CONNECTED",
           at'[th] \in {"monitor_again", "monitored_again"} => status # "CONNECTED",
           status = "CONNECTING" => at'[th] = "connecting",
           status = "DISCONNECTING" => at'[th] \in {"disconnect_test", "disconnecting"},
           SoloSend(th)', NoThread # th
    PROVE  SoloConn' /\ SoloThread(th)'
  <1> USE DEF vars, objVars, linkVars, confVars, queueVars, fieldVars, loopVars, histVars
  <1>1. SoloConn'
    BY DEF SoloConn, Unasked
  <1>2. SoloLink(th)'
    BY DEF SoloLink
  <1>3. QED BY <1>1, <1>2 DEF SoloThread

(* M_Connect, M_Disconnect and M_DestroyConn.                               *)
LEMMA SoloConnects ==
    ASSUME NEW th \in AppThreads, NoThread # th, Basis, SoloConn, SoloThread(th),
           ConnectStarted(th) \/ ConnectEnded(th)
    PROVE  SoloConn' /\ SoloThread(th)'
  <1> USE DEF Labels, InLoop, InConnect, InDisconnect, BeforeLoop, InMonitor, InSend
  <1>1. CASE ConnectStarted(th)
    <2>1. /\ alive /\ at[th] = "connect" /\ runner = NoThread /\ pc = "idle"
          /\ UNCHANGED <<runner, returned>> /\ SoloPlace(th) /\ SoloLink(th) /\ SoloSend(th)
      BY <1>1, SoloAt DEF ConnectStarted
    <2>2. /\ SoloConn' /\ UNCHANGED <<alive, pc, tstatus, told>>
          /\ UNCHANGED <<io, status>> \/ (io' # io /\ status' = "CONNECTING")
      BY <1>1, <2>1, SoloConnect DEF ConnectStarted
    <2>3. CASE io' = io
      <3>1. Return(th, 0) /\ UNCHANGED status
        BY <1>1, <2>2, <2>3 DEF ConnectStarted
      <3>2. SoloPlace(th)' /\ at'[th] = "out" /\ fn'[th] = "none"
        BY <2>1, <3>1, SoloReturn
      <3>3. SoloLink(th)'
        BY <2>1, <2>2, <3>1, <3>2 DEF SoloLink
      <3>4. SoloSend(th)'
        BY <3>2 DEF SoloSend
      <3>5. QED BY <2>2, <3>2, <3>3, <3>4 DEF SoloThread
    <2>4. CASE io' # io
      <3>1. Goto(th, "connecting") /\ status' = "CONNECTING"
        BY <1>1, <2>2, <2>4 DEF ConnectStarted
      <3>2. SoloPlace(th)' /\ at'[th] = "connecting" /\ UNCHANGED <<fn, arg>>
        BY <2>1, <3>1, SoloGoto DEF SoloPlace
      <3>3. SoloLink(th)'
        BY <2>1, <2>2, <3>1, <3>2 DEF SoloLink
      <3>4. SoloSend(th)'
        BY <3>2 DEF SoloSend
      <3>5. QED BY <2>2, <3>2, <3>3, <3>4 DEF SoloThread
    <2>5. QED BY <2>3, <2>4
  <1>2. CASE ConnectEnded(th)
    <2>1. /\ alive /\ at[th] = "connected" /\ runner = NoThread /\ pc = "idle"
          /\ UNCHANGED <<runner, returned>> /\ SoloPlace(th) /\ SoloLink(th) /\ SoloSend(th)
      BY <1>2, SoloAt DEF ConnectEnded
    <2>2. status \notin {"CONNECTING", "DISCONNECTING"} /\ UNCHANGED vars
      BY <1>2, <2>1 DEF SoloLink, ConnectEnded
    <2>3. CASE status = "CONNECTED" /\ fn[th] = "M_TransSend"
      <3>1. SoloPlace(th)' /\ at'[th] = "send"
        BY <1>2, <2>1, <2>3, SoloGoto DEF ConnectEnded, SoloPlace
      <3>2. SoloSend(th)'
        BY <3>1 DEF SoloSend
      <3>3. QED BY <2>1, <2>2, <2>3, <3>1, <3>2, SoloStays
    <2>4. CASE ~(status = "CONNECTED" /\ fn[th] = "M_TransSend")
      <3>1. \E r \in {0, 1} : Return(th, r)
        BY <1>2, <2>4 DEF ConnectEnded
      <3>2. SoloPlace(th)' /\ at'[th] = "out" /\ fn'[th] = "none"
        BY <2>1, <3>1, SoloReturn
      <3>3. SoloSend(th)'
        BY <3>2 DEF SoloSend
      <3>4. QED BY <2>1, <2>2, <3>2, <3>3, SoloStays
    <2>5. QED BY <2>3, <2>4
  <1>3. QED BY <1>1, <1>2

(* The steps of M_Disconnect and M_DestroyConn.                             *)
LEMMA SoloDisconnects ==
    ASSUME NEW th \in AppThreads, NoThread # th, Basis, SoloConn, SoloThread(th),
           DisconnectStarted(th) \/ DisconnectCalled(th) \/ DisconnectTest(th) \/ Destroyed(th)
    PROVE  SoloConn' /\ SoloThread(th)'
  <1> USE DEF Labels, InLoop, InConnect, InDisconnect, BeforeLoop, InMonitor, InSend
  <1>0. PICK label \in {"disconnect", "disconnect_call", "disconnect_test", "destroy"} :
            AtLabel(th, label)
    BY DEF DisconnectStarted, DisconnectCalled, DisconnectTest, Destroyed
  <1>1. /\ alive /\ at[th] = label /\ runner = NoThread /\ pc = "idle"
        /\ UNCHANGED <<runner, returned>> /\ SoloPlace(th) /\ SoloLink(th) /\ SoloSend(th)
    BY <1>0, SoloAt
  <1>2. ASSUME DisconnectReturns(th), UNCHANGED vars, status # "DISCONNECTING"
        PROVE  SoloConn' /\ SoloThread(th)'
    <2>1. SoloPlace(th)' /\ at'[th] \in {"destroy", "out"} /\ fn'[th] # "M_TransSend"
      <3>1. CASE fn[th] = "M_DestroyConn"
        BY <1>1, <1>2, <3>1, SoloGoto DEF DisconnectReturns
      <3>2. CASE fn[th] # "M_DestroyConn"
        BY <1>1, <1>2, <3>2, SoloReturn DEF DisconnectReturns
      <3>3. QED BY <3>1, <3>2
    <2>2. SoloSend(th)'
      BY <2>1 DEF SoloSend
    <2>3. status # "CONNECTING"
      BY <1>1 DEF SoloLink
    <2>4. QED BY <1>1, <1>2, <2>1, <2>2, <2>3, SoloStays
  <1>3. ASSUME NEW to \in {"disconnect_call", "disconnect_test", "disconnecting"}, Goto(th, to)
        PROVE  SoloPlace(th)' /\ at'[th] = to /\ SoloSend(th)'
    <2>1. SoloPlace(th)' /\ at'[th] = to
      BY <1>1, <1>3, SoloGoto DEF SoloPlace
    <2>2. QED BY <1>3, <2>1 DEF SoloSend
  <1>4. CASE DisconnectStarted(th)
    <2>1. UNCHANGED vars /\ at[th] = "disconnect"
      BY <1>4 DEF DisconnectStarted, AtLabel
    <2>2. status \notin {"CONNECTING", "DISCONNECTING"}
      BY <1>1, <2>1 DEF SoloLink
    <2>3. CASE status = "CONNECTED"
      <3>1. Goto(th, "disconnect_call")
        BY <1>4, <2>3 DEF DisconnectStarted
      <3>2. SoloPlace(th)' /\ at'[th] = "disconnect_call" /\ SoloSend(th)'
        BY <1>3, <3>1
      <3>3. QED BY <1>1, <2>1, <2>2, <3>2, SoloStays
    <2>4. CASE status # "CONNECTED"
      BY <1>2, <1>4, <2>1, <2>2, <2>4 DEF DisconnectStarted
    <2>5. QED BY <2>3, <2>4
  <1>8. CASE DisconnectCalled(th)
    <2>1. at[th] = "disconnect_call" /\ Goto(th, "disconnect_test")
      BY <1>8 DEF DisconnectCalled, AtLabel
    <2>2. SoloPlace(th)' /\ at'[th] = "disconnect_test" /\ SoloSend(th)'
      BY <1>3, <2>1
    <2>3. CASE status = "CONNECTED"
      <3>1. LM_conn_disconnect("app")
        BY <1>8, <2>3 DEF DisconnectCalled
      <3>2. SoloConn' /\ UNCHANGED <<alive, pc>> /\ status' = "DISCONNECTING"
        BY <1>1, <3>1, SoloDisconnect
      <3>3. SoloLink(th)'
        BY <1>1, <2>2, <3>2 DEF SoloLink
      <3>4. QED BY <2>2, <3>2, <3>3 DEF SoloThread
    <2>4. CASE status # "CONNECTED"
      <3>1. UNCHANGED vars
        BY <1>8, <2>4 DEF DisconnectCalled
      <3>2. status # "CONNECTING"
        BY <1>1, <2>1 DEF SoloLink
      <3>3. QED BY <1>1, <2>2, <3>1, <3>2, SoloStays
    <2>5. QED BY <2>3, <2>4
  <1>5. CASE DisconnectTest(th)
    <2>1. UNCHANGED vars
      BY <1>5 DEF DisconnectTest
    <2>2. CASE Closing
      <3>1. Goto(th, "disconnecting") /\ status = "DISCONNECTING"
        BY <1>5, <2>2 DEF DisconnectTest, Closing
      <3>2. SoloPlace(th)' /\ at'[th] = "disconnecting" /\ SoloSend(th)'
        BY <1>3, <3>1
      <3>3. QED BY <1>1, <2>1, <3>1, <3>2, SoloStays
    <2>3. CASE ~Closing
      BY <1>2, <1>5, <2>1, <2>3 DEF DisconnectTest, Closing
    <2>4. QED BY <2>2, <2>3
  <1>6. CASE Destroyed(th)
    <2>1. LM_conn_destroy("app") /\ Return(th, 1)
      BY <1>6 DEF Destroyed
    <2>2. SoloConn' /\ ~alive'
      BY <1>1, <2>1, SoloDestroy
    <2>3. SoloPlace(th)'
      BY <1>1, <2>1, SoloReturn
    <2>4. QED BY <2>2, <2>3 DEF SoloThread
  <1>7. QED BY <1>4, <1>5, <1>6, <1>8

(* M_Monitor, and the result it has for M_TransSend: there it is an error   *)
(* only of a transaction that is DONE by then.                              *)
LEMMA SoloOffline ==
    ASSUME NEW th \in AppThreads, Basis, SoloConn, alive, SoloLink(th), SoloSend(th),
           at[th] \in {"monitor_again", "monitored_again"}, status # "CONNECTING",
           fn[th] = "M_TransSend"
    PROVE  tstatus[arg[th]] = "DONE"
  <1>1. status = "DISCONNECTED"
    <2>1. status \in ConnStatus /\ status \notin {"CONNECTED", "CONNECTING", "IDLE_TIMEOUT"}
      BY DEF Basis, TypeOK, SoloLink, SoloConn
    <2>2. status # "DISCONNECTING"
      BY DEF SoloLink
    <2>3. QED BY <2>1, <2>2 DEF ConnStatus
  <1>2. arg[th] \in Users /\ tstatus[arg[th]] \in {"PENDING", "DONE"}
    BY DEF SoloSend, InMonitor, BeforeLoop
  <1>3. QED BY <1>1, <1>2 DEF Basis, StandingInv

(* The steps of M_Monitor_ex.                                               *)
LEMMA SoloMonitors ==
    ASSUME NEW th \in AppThreads, NoThread # th, Basis, SoloConn, SoloThread(th),
           \/ MonitorCount(th) \/ MonitorStatus(th) \/ MonitorStatusAgain(th)
           \/ MonitorGate(th) \/ MonitorEnded(th) \/ MonitorEndedAgain(th)
    PROVE  SoloConn' /\ SoloThread(th)'
  <1> USE DEF Labels, InLoop, InConnect, InDisconnect, BeforeLoop, InMonitor, InSend
  <1>0. PICK label \in {"monitor", "monitor_status", "monitor_again", "monitor_gate", "monitored",
                        "monitored_again"} : AtLabel(th, label)
    BY DEF MonitorCount, MonitorStatus, MonitorStatusAgain, MonitorGate, MonitorEnded,
           MonitorEndedAgain
  <1>1. /\ alive /\ at[th] = label /\ runner = NoThread /\ pc = "idle"
        /\ UNCHANGED <<runner, returned>> /\ SoloPlace(th) /\ SoloLink(th) /\ SoloSend(th)
    BY <1>0, SoloAt
  <1>2. UNCHANGED vars
    BY DEF MonitorCount, MonitorStatus, MonitorStatusAgain, MonitorGate, MonitorEnded,
           MonitorEndedAgain
  <1>3. status \notin {"CONNECTING", "DISCONNECTING"}
    BY <1>1 DEF SoloLink
  <1>4. tstatus' = tstatus /\ told' = told
    BY <1>2 DEF vars, queueVars, histVars
  <1>5. ASSUME NEW r \in {0, 1}, MonitorReturns(th, r)
        PROVE  SoloConn' /\ SoloThread(th)'
    <2>1. SoloPlace(th)' /\ at'[th] \in {"out", "wait"} /\ SoloSend(th)'
      <3>1. CASE Return(th, r)
        <4>1. SoloPlace(th)' /\ at'[th] = "out" /\ fn'[th] = "none"
          BY <1>1, <3>1, SoloReturn
        <4>2. QED BY <4>1 DEF SoloSend
      <3>2. CASE fn[th] = "M_TransSend" /\ Goto(th, "wait")
        <4>1. SoloPlace(th)' /\ at'[th] = "wait" /\ UNCHANGED <<fn, arg>>
          BY <1>1, <3>2, SoloGoto
        <4>2. SoloSend(th)'
          BY <1>1, <1>4, <3>2, <4>1 DEF SoloSend
        <4>3. QED BY <4>1, <4>2
      <3>3. CASE fn[th] = "M_TransSend" /\ Return(th, 0)
        <4>1. SoloPlace(th)' /\ at'[th] = "out" /\ fn'[th] = "none"
          BY <1>1, <3>3, SoloReturn
        <4>2. QED BY <4>1 DEF SoloSend
      <3>4. fn[th] \in {"M_Monitor", "M_TransSend"}
        BY <1>1 DEF SoloPlace
      <3>5. QED BY <1>5, <3>1, <3>2, <3>3, <3>4 DEF MonitorReturns
    <2>2. QED BY <1>1, <1>2, <1>3, <2>1, SoloStays
  <1>6. ASSUME NEW to \in {"monitor_status", "monitor_again", "monitor_gate", "monitoring",
                           "monitored", "monitored_again"}, Goto(th, to),
               to \in BeforeLoop => label \in BeforeLoop,
               to \in {"monitor_again", "monitored_again"} => status # "CONNECTED"
        PROVE  SoloConn' /\ SoloThread(th)'
    <2>1. SoloPlace(th)' /\ at'[th] = to /\ UNCHANGED <<fn, arg>>
      BY <1>1, <1>6, SoloGoto DEF SoloPlace
    <2>2. SoloSend(th)'
      BY <1>1, <1>4, <1>6, <2>1 DEF SoloSend
    <2>3. QED BY <1>1, <1>2, <1>3, <1>6, <2>1, <2>2, SoloStays
  <1>7. CASE MonitorCount(th)
    BY <1>1, <1>5, <1>6, <1>7 DEF MonitorCount, AtLabel
  <1>8. CASE MonitorStatus(th)
    BY <1>1, <1>6, <1>8 DEF MonitorStatus, AtLabel
  <1>9. CASE MonitorStatusAgain(th)
    BY <1>1, <1>5, <1>6, <1>9 DEF MonitorStatusAgain, AtLabel
  <1>10. CASE MonitorGate(th)
    BY <1>1, <1>6, <1>10 DEF MonitorGate, AtLabel
  <1>11. CASE MonitorEnded(th)
    BY <1>1, <1>5, <1>6, <1>11 DEF MonitorEnded, AtLabel
  <1>12. CASE MonitorEndedAgain(th)
    BY <1>5, <1>12 DEF MonitorEndedAgain
  <1>13. QED BY <1>7, <1>8, <1>9, <1>10, <1>11, <1>12

(* M_TransSend.                                                             *)
LEMMA SoloTransSend ==
    ASSUME NEW th \in AppThreads, NoThread # th, Basis, SoloConn, SoloThread(th),
           Polled(th) \/ Send(th) \/ Sent(th) \/ Wait(th)
    PROVE  SoloConn' /\ SoloThread(th)'
  <1> USE DEF Labels, InLoop, InConnect, InDisconnect, BeforeLoop, InMonitor, InSend
  <1>0. PICK label \in {"polled", "send", "sent", "wait"} : AtLabel(th, label)
    BY DEF Polled, Send, Sent, Wait
  <1>1. /\ alive /\ at[th] = label /\ runner = NoThread /\ pc = "idle"
        /\ UNCHANGED <<runner, returned>> /\ SoloPlace(th) /\ SoloLink(th) /\ SoloSend(th)
    BY <1>0, SoloAt
  <1>2. fn[th] = "M_TransSend" /\ status \notin {"CONNECTING", "DISCONNECTING"}
    BY <1>1 DEF SoloLink, SoloPlace
  <1>3. ASSUME NEW r \in {0, 1}, Return(th, r), UNCHANGED vars
        PROVE  SoloConn' /\ SoloThread(th)'
    <2>1. SoloPlace(th)' /\ at'[th] = "out" /\ fn'[th] = "none"
      BY <1>1, <1>3, SoloReturn
    <2>2. SoloSend(th)'
      BY <2>1 DEF SoloSend
    <2>3. QED BY <1>1, <1>2, <1>3, <2>1, <2>2, SoloStays
  <1>4. ASSUME NEW to \in {"connect", "send", "sent", "wait", "monitor"}, Goto(th, to)
        PROVE  SoloPlace(th)' /\ at'[th] = to /\ UNCHANGED <<fn, arg>>
    BY <1>1, <1>2, <1>4, SoloGoto
  <1>5. CASE Polled(th)
    <2>1. PICK to \in {"connect", "send"} : Goto(th, to) /\ (to = "send" => status = "CONNECTED")
      BY <1>5 DEF Polled, MustConnect
    <2>2. UNCHANGED vars
      BY <1>5 DEF Polled
    <2>3. SoloPlace(th)' /\ at'[th] = to
      BY <1>4, <2>1
    <2>4. SoloSend(th)'
      BY <2>3 DEF SoloSend
    <2>5. QED BY <1>1, <1>2, <2>1, <2>2, <2>3, <2>4, SoloStays
  <1>6. CASE Send(th)
    <2>1. CASE tstatus[arg[th]] = "NEW" /\ params[arg[th]]
      <3>1. LM_trans_send("app", arg[th]) /\ Goto(th, "sent") /\ at[th] = "send"
        BY <1>6, <2>1 DEF Send, AtLabel
      <3>2. arg[th] \in Trans /\ status = "CONNECTED"
        BY <1>1, <3>1 DEF LM_trans_send, Basis, TypeOK, SoloLink
      <3>3. /\ SoloConn' /\ UNCHANGED <<alive, pc, status>>
            /\ arg[th] \in Users /\ tstatus'[arg[th]] = "PENDING"
        BY <1>1, <3>1, <3>2, SoloSends
      <3>4. SoloPlace(th)' /\ at'[th] = "sent" /\ UNCHANGED <<fn, arg>>
        BY <1>4, <3>1
      <3>5. SoloLink(th)'
        BY <1>1, <3>2, <3>3, <3>4 DEF SoloLink
      <3>6. SoloSend(th)'
        BY <3>3, <3>4 DEF SoloSend
      <3>7. QED BY <3>3, <3>4, <3>5, <3>6 DEF SoloThread
    <2>2. CASE ~(tstatus[arg[th]] = "NEW" /\ params[arg[th]])
      BY <1>3, <1>6, <2>2 DEF Send
    <2>3. QED BY <2>1, <2>2
  <1>7. ASSUME NEW to \in {"wait", "monitor"}, Goto(th, to), UNCHANGED vars,
               label \in {"sent", "wait"}, to = "monitor" => tstatus[arg[th]] # "DONE"
        PROVE  SoloConn' /\ SoloThread(th)'
    <2>1. SoloPlace(th)' /\ at'[th] = to /\ UNCHANGED <<fn, arg>>
      BY <1>4, <1>7
    <2>2. UNCHANGED <<tstatus, told>>
      BY <1>7 DEF vars, queueVars, histVars
    <2>3. SoloSend(th)'
      BY <1>1, <1>7, <2>1, <2>2 DEF SoloSend
    <2>4. QED BY <1>1, <1>2, <1>7, <2>1, <2>3, SoloStays
  <1>8. CASE Sent(th)
    <2>1. call["app"] # "connect" /\ at[th] = "sent"
      BY <1>8 DEF SoloConn, Threads, Sent, AtLabel
    <2>2. UNCHANGED vars /\ (Goto(th, "wait") \/ Return(th, 1))
      BY <1>8, <2>1 DEF Sent
    <2>3. QED BY <1>1, <1>3, <1>7, <2>1, <2>2
  <1>9. CASE Wait(th)
    <2>1. UNCHANGED vars /\ at[th] = "wait"
      BY <1>9 DEF Wait, AtLabel
    <2>2. QED BY <1>1, <1>3, <1>7, <1>9, <2>1 DEF Wait, WaitIsOver
  <1>10. QED BY <1>5, <1>6, <1>8, <1>9

-----------------------------------------------------------------------------
(* All steps of a program with one thread.                                  *)

(* Nothing changes.                                                         *)
LEMMA SoloKept ==
    ASSUME NEW th, SoloConn, SoloThread(th), UNCHANGED allVars
    PROVE  SoloConn' /\ SoloThread(th)'
  <1> USE DEF allVars, vars, legacyVars, threadVars, objVars, linkVars, confVars, queueVars,
              fieldVars, loopVars, histVars
  <1>1. SoloConn'
    BY DEF SoloConn, Unasked
  <1>2. SoloPlace(th)' = SoloPlace(th)
    BY DEF SoloPlace
  <1>3. (SoloLink(th) => SoloLink(th)') /\ (SoloSend(th) => SoloSend(th)')
    BY DEF SoloLink, SoloSend
  <1>4. QED BY <1>1, <1>2, <1>3 DEF SoloThread

(* No step breaks the two invariants when there is one thread.              *)
LEMMA SoloStep ==
    ASSUME NEW th, AppThreads = {th}
    PROVE  Basis /\ ToldInv /\ SoloConn /\ SoloThread(th) /\ [LegacyNext]_allVars
               => SoloConn' /\ SoloThread(th)'
  <1> SUFFICES ASSUME Basis, ToldInv, SoloConn, SoloThread(th), [LegacyNext]_allVars
               PROVE  SoloConn' /\ SoloThread(th)'
    OBVIOUS
  <1>0. th \in AppThreads /\ NoThread # th
    BY LegacyAssumption
  <1>1. CASE LegacyCall(th)
    <2>1. CASE \/ M_Connect(th) \/ M_Disconnect(th) \/ M_DestroyConn(th) \/ M_Monitor(th)
               \/ \E t \in Trans : M_TransSend(th, t)
      <3>1. PICK f, label, t :
                /\ Begin(th, f, t, label)
                /\ <<f, label>> \in {<<"M_Connect", "connect">>, <<"M_Disconnect", "disconnect">>,
                                     <<"M_DestroyConn", "disconnect">>, <<"M_Monitor", "monitor">>,
                                     <<"M_TransSend", "poll">>}
        BY <2>1 DEF M_Connect, M_Disconnect, M_DestroyConn, M_Monitor, M_TransSend
      <3>2. QED BY <1>0, <3>1, SoloBegin
    <2>2. CASE \/ M_SetBlocking(th) \/ M_VerifyConnection(th) \/ M_TransNew(th)
               \/ \E t \in Trans : M_TransKeyVal(th, t) \/ M_DeleteTrans(th, t)
      BY <1>0, <2>2, SoloWrapper
    <2>3. QED BY <1>1, <2>1, <2>2 DEF LegacyCall
  <1>2. CASE LegacyStep(th)
    BY <1>0, <1>2, SoloEnter, SoloLeave, SoloConnects, SoloDisconnects, SoloMonitors, SoloTransSend
       DEF LegacyStep
  <1>3. CASE LoopStep
    BY <1>0, <1>3, SoloInLoop
  <1>4. CASE LegacyGone \/ UNCHANGED allVars
    BY <1>4, SoloKept DEF LegacyGone
  <1>5. QED BY <1>1, <1>2, <1>3, <1>4 DEF LegacyNext

(* All of the application's calls come from the same thread.                *)
OneThread == \E th : AppThreads = {th}

SoloThreads == \A th \in AppThreads : SoloThread(th)

SoloInv == Basis /\ ToldInv /\ SoloConn /\ SoloThreads

(* SoloInv holds in every state a legacy program with one thread reaches.   *)
LEMMA SoloCorrect ==
    ASSUME OneThread
    PROVE  LegacySpec => []SoloInv
  <1> PICK solo : AppThreads = {solo}
    BY DEF OneThread
  <1>1. LegacyInit => SoloConn
    BY ConnAssumption DEF LegacyInit, Init, SoloConn, Unasked, Trans
  <1>2. LegacyInit => SoloThreads
    BY LegacyAssumption DEF LegacyInit, Init, SoloThreads, SoloThread, SoloPlace, SoloLink, SoloSend,
       Labels, LegacyFunctions, InLoop, InConnect, InDisconnect, BeforeLoop, InMonitor, InSend
  <1>3. SoloInv /\ [LegacyNext]_allVars => SoloConn' /\ SoloThreads'
    <2> SUFFICES ASSUME SoloInv, [LegacyNext]_allVars
                 PROVE  SoloConn' /\ SoloThreads'
      OBVIOUS
    <2>1. ASSUME NEW th \in AppThreads
          PROVE  SoloConn' /\ SoloThread(th)'
      <3>1. AppThreads = {th} /\ Basis /\ ToldInv /\ SoloConn /\ SoloThread(th)
        BY DEF SoloInv, SoloThreads
      <3>2. QED BY <3>1, SoloStep
    <2>2. solo \in AppThreads
      OBVIOUS
    <2>3. QED BY <2>1, <2>2 DEF SoloThreads
  <1>4. QED BY <1>1, <1>2, <1>3, LegacyBasis, PTL DEF LegacySpec, SoloInv

(* A program with one thread never relies on the implicit connection:       *)
(* M_TransSend connects before it sends, so nothing ever waits to be sent   *)
(* and neither a thread nor the event handler reconnects on its own.        *)
THEOREM NeverImplicitCorrect ==
    ASSUME OneThread
    PROVE  LegacySpec => []NeverImplicit
  <1>1. SoloInv => NeverImplicit
    BY DEF SoloInv, SoloConn, NeverImplicit, Threads
  <1>2. QED BY <1>1, SoloCorrect, PTL

(* Between two calls of a program with one thread the link is settled: no   *)
(* M_ function returns in the middle of connecting or disconnecting.        *)
THEOREM SettledCorrect ==
    ASSUME OneThread
    PROVE  LegacySpec => []SettledBetweenCalls
  <1>1. SoloInv => SettledBetweenCalls
    <2> SUFFICES ASSUME SoloInv, alive, \A th \in AppThreads : fn[th] = "none"
                 PROVE  status \in {"CONNECTED", "DISCONNECTED"}
      BY DEF SettledBetweenCalls
    <2>1. PICK th \in AppThreads : SoloThread(th) /\ fn[th] = "none"
      BY DEF OneThread, SoloInv, SoloThreads
    <2>2. at[th] = "out" /\ SoloLink(th)
      BY <2>1 DEF SoloThread, SoloPlace
    <2>3. status \notin {"CONNECTING", "DISCONNECTING", "IDLE_TIMEOUT"} /\ status \in ConnStatus
      BY <2>2 DEF SoloLink, SoloInv, SoloConn, Basis, TypeOK
    <2>4. QED BY <2>3 DEF ConnStatus
  <1>2. QED BY <1>1, SoloCorrect, PTL

(* A blocking M_TransSend of a program with one thread never waits in the   *)
(* event loop for an answer that is there already.                          *)
THEOREM WakeupCorrect ==
    ASSUME OneThread
    PROVE  LegacySpec => []NoLostWakeup
  <1>1. SoloInv => NoLostWakeup
    <2> SUFFICES ASSUME SoloInv, NEW th \in AppThreads, runner = th, fn[th] = "M_TransSend",
                        at[th] = "monitoring", pc = "idle", tstatus[arg[th]] = "DONE"
                 PROVE  returned
      BY DEF NoLostWakeup
    <2>1. alive /\ SoloSend(th)
      BY DEF SoloInv, SoloThreads, SoloThread, SoloPlace
    <2>2. arg[th] \in Users
      BY <2>1 DEF SoloSend, BeforeLoop, InMonitor
    <2>3. events = <<>>
      BY <2>1 DEF SoloInv, Basis, HandlerInv
    <2>4. arg[th] \in told
      BY <2>1, <2>2, <2>3 DEF SoloInv, Basis, HandlerInv, ToldInv, CompletionFine, OneFinal
    <2>5. QED BY <2>1, <2>4 DEF SoloSend
  <1>2. QED BY <1>1, SoloCorrect, PTL

(* What a step that ends a call of M_TransSend reports.                     *)
LEMMA SoloResult ==
    ASSUME NEW th, AppThreads = {th}, Basis, SoloConn, SoloThread(th), LegacyNext,
           fn[th] = "M_TransSend", fn'[th] = "none"
    PROVE  /\ ret'[th] = 1 <=> at[th] \notin {"connect", "connected", "send"}
           /\ ret'[th] = 1 /\ blocking => tstatus[arg[th]] = "DONE"
  <1>0. th \in AppThreads /\ SoloPlace(th)
    BY DEF SoloThread
  <1>1. ASSUME NEW r, Return(th, r)
        PROVE  ret'[th] = r
    BY <1>0, <1>1 DEF Return, SoloPlace
  <1>2. ASSUME NEW label, Goto(th, label)
        PROVE  FALSE
    BY <1>2 DEF Goto
  <1>3. ~(fn' = fn)
    OBVIOUS
  <1>4. ~LegacyCall(th) /\ ~LoopStep /\ ~LegacyGone
    <2>1. ~LegacyCall(th)
      BY <1>3 DEF LegacyCall, M_SetBlocking, M_VerifyConnection, M_TransNew, M_Connect, M_Disconnect,
         M_DestroyConn, M_Monitor, M_TransKeyVal, M_DeleteTrans, M_TransSend, Begin, Wrapper,
         threadVars
    <2>2. ~LoopStep /\ ~LegacyGone
      BY <1>3 DEF LoopStep, LegacyGone, allVars, legacyVars, threadVars
    <2>3. QED BY <2>1, <2>2
  <1>5. LegacyStep(th)
    BY <1>4 DEF LegacyNext
  <1>6. ~EventLoopEnter(th) /\ ~EventLoopReturn(th) /\ ~MonitorGate(th) /\ ~Polled(th)
    BY <1>2, <1>3 DEF EventLoopEnter, EventLoopReturn, MonitorGate, Polled, threadVars
  <1>7. ~DisconnectStarted(th) /\ ~DisconnectCalled(th) /\ ~DisconnectTest(th) /\ ~Destroyed(th)
    BY <1>0 DEF DisconnectStarted, DisconnectCalled, DisconnectTest, Destroyed, AtLabel, SoloPlace,
                InDisconnect
  <1>8. ASSUME MonitorReturns(th, 1)
        PROVE  FALSE
    BY <1>2, <1>8 DEF MonitorReturns
  <1>9. ASSUME MonitorReturns(th, 0), alive, status # "CONNECTING",
               at[th] \in {"monitor_again", "monitored_again"}
        PROVE  FALSE
    <2>1. tstatus[arg[th]] = "DONE"
      BY <1>0, <1>9, SoloOffline DEF SoloThread
    <2>2. QED BY <1>2, <1>9, <2>1 DEF MonitorReturns
  <1>10. /\ ~MonitorCount(th) /\ ~MonitorStatus(th) /\ ~MonitorStatusAgain(th)
         /\ ~MonitorEnded(th) /\ ~MonitorEndedAgain(th)
    BY <1>2, <1>8, <1>9 DEF MonitorCount, MonitorStatus, MonitorStatusAgain, MonitorEnded,
                            MonitorEndedAgain, AtLabel
  <1>11. CASE ConnectStarted(th) \/ ConnectEnded(th)
    <2>1. at[th] \in {"connect", "connected"} /\ Return(th, 0)
      BY <1>2, <1>11 DEF ConnectStarted, ConnectEnded, AtLabel
    <2>2. QED BY <1>1, <2>1
  <1>12. CASE Send(th)
    <2>1. at[th] = "send" /\ Return(th, 0)
      BY <1>2, <1>12 DEF Send, AtLabel
    <2>2. QED BY <1>1, <2>1
  <1>13. CASE Sent(th)
    <2>1. at[th] = "sent" /\ ~blocking /\ Return(th, 1)
      BY <1>2, <1>3, <1>13 DEF Sent, AtLabel, threadVars
    <2>2. QED BY <1>1, <2>1
  <1>14. CASE Wait(th)
    <2>1. at[th] = "wait" /\ tstatus[arg[th]] = "DONE" /\ Return(th, 1)
      BY <1>2, <1>14 DEF Wait, AtLabel, WaitIsOver
    <2>2. QED BY <1>1, <2>1
  <1>15. QED BY <1>5, <1>6, <1>7, <1>10, <1>11, <1>12, <1>13, <1>14 DEF LegacyStep

(* The result of M_TransSend can be relied on in a program with one thread: *)
(* 0 means that LM_trans_send was not reached or refused the transaction,   *)
(* 1 that the request was accepted and, in blocking mode, is decided.       *)
THEOREM ResultCorrect ==
    ASSUME OneThread
    PROVE  LegacySpec => SendResultHonest
  <1>1. SoloInv /\ [LegacyNext]_allVars =>
            [\A th \in AppThreads :
                fn[th] = "M_TransSend" /\ fn'[th] = "none" =>
                    /\ ret'[th] = 1 <=> at[th] \notin {"connect", "connected", "send"}
                    /\ ret'[th] = 1 /\ blocking => tstatus[arg[th]] = "DONE"]_allVars
    BY SoloResult DEF SoloInv, SoloThreads, OneThread
  <1>2. QED BY <1>1, SoloCorrect, PTL DEF LegacySpec, SendResultHonest
=============================================================================
