------------------------- MODULE MonetraConnSafety -------------------------
(***************************************************************************)
(* What MonetraConn promises, proved for any sets of transactions, any     *)
(* application and any faults, on top of the types and the queues.         *)
(***************************************************************************)
EXTENDS MonetraConnProofs, FiniteSetTheorems

-----------------------------------------------------------------------------
(* The handler.  It is marked in use from its lock to its release, collects *)
(* and delivers its events in between and leaves no delayed delete behind.  *)

HandlerInv ==
    /\ alive => (in_use <=> pc \notin {"idle", "dispatched", "leaving"})
    /\ events # <<>> => alive /\ pc \in {"reading", "ping", "callbacks", "callback"}
    /\ delay_rm # {} => alive /\ in_use
    /\ alive /\ destroy => pc \notin {"idle", "dispatched"}

(* No step of a thread or of the handler breaks this.                       *)
LEMMA HandlerStep == TypeOK /\ HandlerInv /\ [Next]_vars => HandlerInv'
  <1> SUFFICES ASSUME TypeOK, HandlerInv, [Next]_vars
               PROVE  HandlerInv'
    OBVIOUS
  <1> USE DEF HandlerInv, objVars, linkVars, queueVars, fieldVars, loopVars, histVars
  <1>1. ASSUME NEW a \in Threads, LM_conn_destroy(a)
        PROVE  HandlerInv'
    BY <1>1 DEF LM_conn_destroy, MayCall, Deferred, FreeConn
  <1>2. ASSUME NEW a \in Threads, NEW t \in Trans, LM_trans_delete(a, t)
        PROVE  HandlerInv'
    BY <1>2 DEF LM_trans_delete, MayCall, Deferred
  <1>3. ASSUME NEW a \in Threads,
               \/ LM_trans_new(a) \/ LM_conn_connect(a) \/ LM_conn_disconnect(a)
               \/ LM_conn_disable_ping(a) \/ LM_conn_set_idle_timeout(a)
               \/ ImplicitConnect(a) \/ RegisterIo(a)
               \/ \E t \in Trans : \/ LM_trans_set_param(a, t) \/ LM_trans_set_timeout(a, t)
                                   \/ LM_trans_send(a, t)
        PROVE  HandlerInv'
    BY <1>3 DEF LM_trans_new, LM_conn_connect, LM_conn_disconnect, LM_conn_disable_ping,
                LM_conn_set_idle_timeout, ImplicitConnect, RegisterIo, LM_trans_set_param,
                LM_trans_set_timeout, LM_trans_send
  <1>4. CASE LoopDispatch
    BY <1>4 DEF LoopDispatch, DispatchConnected, DispatchClosed, DispatchRead, DispatchWrite,
                DispatchTrigger, DispatchTimer, DispatchTransTimer, Dispatch
  <1>5. CASE \/ HandleConnectedNoPing \/ HandleConnected \/ HandleRead \/ HandleWrite
             \/ HandleTransTimeout \/ HandlePingTimeout \/ HandleIdleTimeout
             \/ \E type \in {"DISCONNECTED", "ERROR"} : HandleClosed(type)
    BY <1>5 DEF HandleConnectedNoPing, HandleConnected, HandleRead, HandleWrite,
                HandleTransTimeout, HandlePingTimeout, HandleIdleTimeout, HandleClosed, Enter,
                CleanupPing
  <1>6. CASE \/ ParseWait \/ ParseError
             \/ \E t \in Trans : ParseResponse(t) \/ ParseOrphan(t)
    BY <1>6 DEF ParseWait, ParseError, ParseResponse, ParseOrphan, Parsing, CleanupPing
  <1>7. CASE SetConnected \/ PingLost
    BY <1>7 DEF SetConnected, PingLost, PingDeleted
  <1>8. CASE Deliver \/ CallbackReturns \/ AllDelivered
    BY <1>8 DEF Deliver, CallbackReturns, AllDelivered, DestroyIsSet
  <1>9. ASSUME NEW t \in Trans, Reap(t)
        PROVE  HandlerInv'
    BY <1>9 DEF Reap
  <1>10. CASE Release \/ Leave
    BY <1>10 DEF Release, Leave, Reaped, DestroyIsSet, FreeConn
  <1>11. CASE UNCHANGED vars
    BY <1>11 DEF vars
  <1>12. QED
    BY <1>1, <1>2, <1>3, <1>4, <1>5, <1>6, <1>7, <1>8, <1>9, <1>10, <1>11
       DEF Next, ApiCall, Handler, Gone

-----------------------------------------------------------------------------
(* The link.  The status of the connection and its io object move together, *)
(* one thread at a time is between creating the io object and registering   *)
(* it, and what the handler is about to handle fits the status.             *)

LinkInv ==
    alive =>
        /\ status = "DISCONNECTED" <=> io \in {"none", "created"}
        /\ status = "CONNECTING" => io \in {"connecting", "up"}
        /\ status = "CONNECTED" => io = "up"
        /\ status \in {"DISCONNECTING", "IDLE_TIMEOUT"} => io = "closing"
        /\ \A a, b \in Threads : call[a] = "register" =>
              io = "created" /\ (call[b] = "register" => a = b)
        /\ pc = "reading" \/ (pc = "dispatched" /\ ev.type = "READ") => io \in {"up", "closing"}
        /\ pc = "ping" => status = "CONNECTING" /\ (ev.type # "OTHER" => io = "up")
        /\ pc = "dispatched" /\ ev.type = "CONNECTED" => status = "CONNECTING" /\ io = "up"
        /\ pc = "dispatched" /\ ev.type \in {"DISCONNECTED", "ERROR"} =>
              status # "DISCONNECTED"
        /\ pingtxn # NoTrans => status \in {"CONNECTING", "DISCONNECTED"}

(* No step of a thread or of the handler breaks LinkInv.                    *)
LEMMA LinkStep == TypeOK /\ HandlerInv /\ LinkInv /\ [Next]_vars => LinkInv'
  <1> SUFFICES ASSUME TypeOK, HandlerInv, LinkInv, [Next]_vars, alive'
               PROVE  LinkInv'
    BY DEF LinkInv
  <1> USE DEF LinkInv, objVars, linkVars, queueVars, fieldVars, loopVars, histVars
  <1>0. call \in [Threads -> {"none", "connect", "register"}] /\ status \in ConnStatus
    BY DEF TypeOK
  <1>1. ASSUME NEW a \in Threads, LM_conn_connect(a) \/ ImplicitConnect(a)
        PROVE  LinkInv'
    <2>1. alive /\ ConnConnect(a) /\ UNCHANGED <<alive, pc, ev, pingtxn>>
      BY <1>1 DEF LM_conn_connect, ImplicitConnect, MayCall
    <2>2. CASE call' = [call EXCEPT ![a] = "none"] /\ UNCHANGED <<io, status>>
      BY <1>0, <2>1, <2>2
    <2>3. CASE /\ io = "none" /\ io' = "created"
               /\ call' = [call EXCEPT ![a] = "register"]
               /\ UNCHANGED status
      BY <1>0, <2>1, <2>3
    <2>4. CASE /\ io = "none" /\ io' = "connecting"
               /\ status' = "CONNECTING"
               /\ call' = [call EXCEPT ![a] = "none"]
      BY <1>0, <2>1, <2>4
    <2>5. QED BY <2>1, <2>2, <2>3, <2>4 DEF ConnConnect
  <1>2. ASSUME NEW a \in Threads, RegisterIo(a)
        PROVE  LinkInv'
    BY <1>0, <1>2 DEF RegisterIo
  <1>3. ASSUME NEW a \in Threads, LM_conn_disconnect(a)
        PROVE  LinkInv'
    BY <1>0, <1>3 DEF LM_conn_disconnect, DisconnectIo, MayCall
  <1>4. ASSUME NEW a \in Threads, NEW t \in Trans, LM_trans_send(a, t)
        PROVE  LinkInv'
    BY <1>0, <1>4 DEF LM_trans_send, MayCall
  <1>5. ASSUME NEW a \in Threads,
               \/ LM_trans_new(a) \/ LM_conn_disable_ping(a) \/ LM_conn_set_idle_timeout(a)
               \/ LM_conn_destroy(a)
               \/ \E t \in Trans : \/ LM_trans_set_param(a, t) \/ LM_trans_set_timeout(a, t)
                                   \/ LM_trans_delete(a, t)
        PROVE  LinkInv'
    BY <1>5, ZenonT(40) DEF LM_trans_new, LM_conn_disable_ping, LM_conn_set_idle_timeout, LM_conn_destroy,
                LM_trans_set_param, LM_trans_set_timeout, LM_trans_delete, FreeConn
  <1>6. CASE LoopDispatch
    <2>1. /\ UNCHANGED <<alive, status, call, pingtxn>>
          /\ alive /\ pc = "idle" /\ pc' = "dispatched"
      BY <1>6 DEF LoopDispatch, DispatchConnected, DispatchClosed, DispatchRead, DispatchWrite,
                  DispatchTrigger, DispatchTimer, DispatchTransTimer, Dispatch
    <2>2. CASE DispatchConnected
      BY <1>0, <2>1, <2>2 DEF DispatchConnected, Dispatch, UserEvent, ConnStatus
    <2>3. ASSUME NEW type \in {"DISCONNECTED", "ERROR"}, DispatchClosed(type)
          PROVE  LinkInv'
      BY <2>1, <2>3 DEF DispatchClosed, Dispatch, UserEvent
    <2>4. CASE DispatchRead
      BY <2>1, <2>4 DEF DispatchRead, Dispatch, UserEvent
    <2>5. ASSUME UNCHANGED io, NEW type \in {"WRITE", "OTHER"}, NEW t, Dispatch(type, t)
          PROVE  LinkInv'
      BY <2>1, <2>5 DEF Dispatch, UserEvent
    <2>6. QED BY <1>6, <2>2, <2>3, <2>4, <2>5
                 DEF LoopDispatch, DispatchWrite, DispatchTrigger, DispatchTimer, DispatchTransTimer
  <1>7. CASE \/ HandleConnectedNoPing \/ HandleConnected \/ HandleRead \/ HandleWrite
             \/ HandleTransTimeout \/ HandlePingTimeout
    BY <1>7 DEF HandleConnectedNoPing, HandleConnected, HandleRead, HandleWrite,
                HandleTransTimeout, HandlePingTimeout, Enter, CleanupPing
  <1>8. CASE HandleIdleTimeout
    BY <1>8 DEF HandleIdleTimeout, Enter, DisconnectIo
  <1>9. CASE \/ PingLost \/ ParseError
             \/ \E type \in {"DISCONNECTED", "ERROR"} : HandleClosed(type)
    BY <1>9 DEF HandleClosed, ParseError, PingLost, PingDeleted, Parsing, Enter, ConnError
  <1>10. CASE ParseWait \/ \E t \in Trans : ParseOrphan(t)
    BY <1>10 DEF ParseWait, ParseOrphan, Parsing
  <1>11. ASSUME NEW t \in Trans, ParseResponse(t)
         PROVE  LinkInv'
    <2>1. /\ alive /\ pc = "reading" /\ io \in {"up", "closing"}
          /\ UNCHANGED <<alive, status, io, ev, call, pingtxn>>
      BY <1>11 DEF ParseResponse, Parsing
    <2>2. CASE t = pingtxn
      <3>1. pc' = "ping"
        BY <1>11, <2>2 DEF ParseResponse, CleanupPing
      <3>2. status = "CONNECTING"
        BY <2>1, <2>2, ConnAssumption
      <3>3. QED BY <2>1, <3>1, <3>2
    <2>3. CASE t # pingtxn
      <3>1. UNCHANGED pc
        BY <1>11, <2>3 DEF ParseResponse
      <3>2. QED BY <2>1, <3>1
    <2>4. QED BY <2>2, <2>3
  <1>12. CASE SetConnected
    BY <1>0, <1>12 DEF SetConnected, PingDeleted
  <1>13. CASE Deliver \/ CallbackReturns \/ AllDelivered \/ Release \/ Leave
    BY <1>0, <1>13 DEF Deliver, CallbackReturns, AllDelivered, Release, Leave, DestroyIsSet, FreeConn
  <1>14. ASSUME NEW t \in Trans, Reap(t)
         PROVE  LinkInv'
    BY <1>14 DEF Reap
  <1>15. CASE UNCHANGED vars
    BY <1>15 DEF vars
  <1>16. QED
    BY <1>1, <1>2, <1>3, <1>4, <1>5, <1>6, <1>7, <1>8, <1>9, <1>10, <1>11, <1>12, <1>13,
       <1>14, <1>15 DEF Next, ApiCall, Handler, Gone

-----------------------------------------------------------------------------
(* Where transactions stand.  Nothing of the user's is outstanding unless   *)
(* the connection is or was up, nothing waits while it is up, and the ping  *)
(* never waits.                                                             *)

StandingInv ==
    alive =>
        /\ status \in {"CONNECTING", "DISCONNECTED"} => \A t \in Users : tstatus[t] # "PENDING"
        /\ status = "CONNECTED" => trans_ready = <<>>
        /\ \A p \in Pings : tstatus[p] \notin {"NEW", "READY"}

(* Steps after which no transaction is PENDING or READY that was not.       *)
LEMMA StandingKept ==
    ASSUME StandingInv, alive,
           \A t \in Trans : tstatus'[t] \in {"PENDING", "READY"} => tstatus'[t] = tstatus[t],
           \A p \in Pings : tstatus'[p] = "NEW" => tstatus'[p] = tstatus[p],
           \/ status' = status
           \/ status = "DISCONNECTED" /\ status' = "CONNECTING"
           \/ status' \in {"DISCONNECTING", "IDLE_TIMEOUT"},
           trans_ready = <<>> => trans_ready' = <<>>
    PROVE  StandingInv'
  BY DEF StandingInv, Trans

(* A lost connection leaves no transaction of the user's PENDING.           *)
LEMMA StandingLost ==
    ASSUME TypeOK, QueueInv, StandingInv, alive, NEW type, ConnError(type)
    PROVE  StandingInv'
  <1>1. \A u \in Trans :
            tstatus'[u] = IF u \in ToSet(trans_pending) THEN "DONE" ELSE tstatus[u]
    BY DEF ConnError, Abandoned
  <1>2. \A u \in Users : u \in Trans /\ u \notin Pings
    BY ConnAssumption DEF Trans
  <1>3. \A u \in Users : tstatus'[u] # "PENDING"
    BY <1>1, <1>2 DEF QueueInv
  <1>4. QED BY <1>1, <1>3 DEF StandingInv, ConnError, Trans

(* No step of a thread or of the handler breaks StandingInv.                *)
LEMMA StandingStep ==
    TypeOK /\ QueueInv /\ LinkInv /\ StandingInv /\ [Next]_vars => StandingInv'
  <1> SUFFICES ASSUME TypeOK, QueueInv, LinkInv, StandingInv, [Next]_vars, alive'
               PROVE  StandingInv'
    BY DEF StandingInv
  <1> USE DEF objVars, linkVars, queueVars, fieldVars, loopVars, histVars
  <1>0. tstatus \in [Trans -> TransStatus]
    BY DEF TypeOK
  <1>1. ASSUME alive, UNCHANGED queueVars,
               \/ status' = status
               \/ status = "DISCONNECTED" /\ status' = "CONNECTING"
               \/ status' \in {"DISCONNECTING", "IDLE_TIMEOUT"}
        PROVE  StandingInv'
    BY <1>1, StandingKept
  <1>2. ASSUME NEW t \in Trans, alive, UNCHANGED status, DeleteUnlocked(t)
        PROVE  StandingInv'
    <2>1. \A u \in Trans : tstatus'[u] = IF u = t THEN "FREE" ELSE tstatus[u]
      BY <1>0, <1>2 DEF DeleteUnlocked
    <2>2. trans_ready = <<>> => trans_ready' = <<>>
      BY <1>2, ToSetEmpty DEF DeleteUnlocked, QueueTake
    <2>3. QED BY <1>2, <2>1, <2>2, StandingKept DEF Trans
  <1>3. ASSUME NEW a \in Threads, LM_trans_new(a)
        PROVE  StandingInv'
    <2>1. PICK t \in Users : /\ tstatus' = [tstatus EXCEPT ![t] = "NEW"]
                             /\ alive /\ UNCHANGED <<status, trans_ready>>
      BY <1>3 DEF LM_trans_new, MayCall
    <2>2. \A u \in Trans : tstatus'[u] = IF u = t THEN "NEW" ELSE tstatus[u]
      BY <1>0, <2>1
    <2>3. \A p \in Pings : tstatus'[p] = tstatus[p]
      BY <2>2, ConnAssumption DEF Trans
    <2>4. QED BY <2>1, <2>2, <2>3, StandingKept
  <1>4. ASSUME NEW a \in Threads, NEW t \in Trans, LM_trans_send(a, t)
        PROVE  StandingInv'
    <2>1. alive /\ UNCHANGED status /\ tstatus[t] = "NEW"
      BY <1>4 DEF LM_trans_send, MayCall
    <2>2. t \in Users
      BY <2>1 DEF StandingInv, Trans
    <2>3. \A p \in Pings : p \in Trans /\ p # t
      BY <2>2, ConnAssumption DEF Trans
    <2>4. CASE CanSend
      <3>1. trans_ready = <<>>
        BY <2>1, <2>4 DEF CanSend, StandingInv
      <3> DEFINE ready == Append(trans_ready, t)
      <3>2. SendReady(ready)
        BY <1>4, <2>4 DEF LM_trans_send
      <3>3. ToSet(ready) = ToSet(trans_ready) \cup {t} /\ ToSet(trans_ready) = {}
        <4>1. trans_ready \in Seq(Trans) /\ ToSet(trans_ready) = {}
          BY <3>1, ToSetEmpty DEF TypeOK
        <4>2. ToSet(ready) = ToSet(trans_ready) \cup {t}
          BY <4>1, ToSetAppend
        <4>3. QED BY <4>1, <4>2
      <3> HIDE DEF ready
      <3>4. trans_ready' = <<>> /\ \A p \in Pings : tstatus'[p] = tstatus[p]
        BY <2>3, <3>2, <3>3 DEF SendReady
      <3>5. QED BY <2>1, <2>4, <3>4 DEF StandingInv, CanSend
    <2>5. CASE ~CanSend
      <3>1. tstatus' = [tstatus EXCEPT ![t] = "READY"]
        BY <1>4, <2>5 DEF LM_trans_send
      <3>2. \A u \in Trans : tstatus'[u] = IF u = t THEN "READY" ELSE tstatus[u]
        BY <1>0, <3>1
      <3>3. QED BY <2>1, <2>3, <2>5, <3>2 DEF StandingInv, CanSend, Trans
    <2>6. QED BY <2>4, <2>5
  <1>5. ASSUME NEW a \in Threads, NEW t \in Trans, LM_trans_delete(a, t)
        PROVE  StandingInv'
    BY <1>1, <1>2, <1>5 DEF LM_trans_delete, MayCall
  <1>6. ASSUME NEW a \in Threads,
               \/ LM_conn_connect(a) \/ ImplicitConnect(a) \/ RegisterIo(a)
        PROVE  StandingInv'
    <2>1. alive /\ UNCHANGED queueVars
      BY <1>6 DEF LM_conn_connect, ImplicitConnect, RegisterIo, MayCall
    <2>2. status' = status \/ (status = "DISCONNECTED" /\ status' = "CONNECTING")
      BY <1>6, <2>1 DEF LM_conn_connect, ImplicitConnect, RegisterIo, ConnConnect, LinkInv
    <2>3. QED BY <1>1, <2>1, <2>2
  <1>7. ASSUME NEW a \in Threads,
               \/ LM_conn_disable_ping(a) \/ LM_conn_set_idle_timeout(a)
               \/ LM_conn_disconnect(a) \/ LM_conn_destroy(a)
               \/ \E t \in Trans : LM_trans_set_param(a, t) \/ LM_trans_set_timeout(a, t)
        PROVE  StandingInv'
    BY <1>1, <1>7 DEF LM_conn_disable_ping, LM_conn_set_idle_timeout, LM_conn_disconnect,
          LM_conn_destroy, LM_trans_set_param, LM_trans_set_timeout, FreeConn, DisconnectIo, MayCall
  <1>8. CASE LoopDispatch
    BY <1>1, <1>8 DEF LoopDispatch, DispatchConnected, DispatchClosed, DispatchRead, DispatchWrite,
                DispatchTrigger, DispatchTimer, DispatchTransTimer, Dispatch
  <1>9. CASE HandleConnected
    <2>1. PICK p \in Pings : tstatus' = [tstatus EXCEPT ![p] = "PENDING"]
      BY <1>9 DEF HandleConnected
    <2>2. \A u \in Trans : tstatus'[u] = IF u = p THEN "PENDING" ELSE tstatus[u]
      BY <1>0, <2>1
    <2>3. \A t \in Users : t \in Trans /\ t # p
      BY ConnAssumption DEF Trans
    <2>4. alive /\ UNCHANGED <<status, trans_ready>>
      BY <1>9 DEF HandleConnected, Enter
    <2>5. QED BY <2>2, <2>3, <2>4 DEF StandingInv, Trans
  <1>10. CASE \/ HandleConnectedNoPing \/ HandleRead \/ HandleWrite \/ HandleTransTimeout
              \/ HandlePingTimeout \/ HandleIdleTimeout
    <2>1. alive /\ UNCHANGED <<tstatus, trans_ready>>
      BY <1>10 DEF HandleConnectedNoPing, HandleRead, HandleWrite, HandleTransTimeout,
                   HandlePingTimeout, HandleIdleTimeout, Enter
    <2>2. status' = status \/ status' \in {"DISCONNECTING", "IDLE_TIMEOUT"}
      BY <1>10 DEF HandleConnectedNoPing, HandleRead, HandleWrite, HandleTransTimeout,
                   HandlePingTimeout, HandleIdleTimeout, DisconnectIo
    <2>3. QED BY <2>1, <2>2, StandingKept
  <1>11. CASE \/ PingLost \/ ParseError
              \/ \E type \in {"DISCONNECTED", "ERROR"} : HandleClosed(type)
    BY <1>11, StandingLost DEF HandleClosed, ParseError, PingLost, PingDeleted, Parsing, Enter
  <1>12. ASSUME NEW t \in Trans, ParseResponse(t)
         PROVE  StandingInv'
    <2>1. /\ alive /\ UNCHANGED <<status, trans_ready>>
          /\ tstatus' = [tstatus EXCEPT ![t] = "DONE"]
      BY <1>12 DEF ParseResponse, Parsing
    <2>2. \A u \in Trans : tstatus'[u] = IF u = t THEN "DONE" ELSE tstatus[u]
      BY <1>0, <2>1
    <2>3. QED BY <2>1, <2>2, StandingKept DEF Trans
  <1>13. CASE SetConnected
    <2>1. /\ SendReady(trans_ready) /\ status' = "CONNECTED" /\ alive
      BY <1>13 DEF SetConnected, PingDeleted
    <2>2. \A p \in Pings : p \in Trans /\ tstatus[p] \notin {"NEW", "READY"}
      BY <2>1 DEF StandingInv, Trans
    <2>3. \A p \in Pings : tstatus'[p] \notin {"NEW", "READY"}
      BY <2>1, <2>2 DEF SendReady
    <2>4. QED BY <2>1, <2>3 DEF StandingInv, SendReady
  <1>14. CASE \/ ParseWait \/ Deliver \/ CallbackReturns \/ AllDelivered \/ Release \/ Leave
              \/ \E t \in Trans : ParseOrphan(t)
    BY <1>1, <1>14 DEF ParseWait, ParseOrphan, Parsing, Deliver, CallbackReturns, AllDelivered,
                       Release, Leave, FreeConn
  <1>15. ASSUME NEW t \in Trans, Reap(t)
         PROVE  StandingInv'
    BY <1>2, <1>15 DEF Reap
  <1>16. CASE UNCHANGED vars
    BY <1>1, <1>16 DEF vars
  <1>17. QED
    BY <1>3, <1>4, <1>5, <1>6, <1>7, <1>8, <1>9, <1>10, <1>11, <1>12, <1>13, <1>14,
       <1>15, <1>16 DEF Next, ApiCall, Handler, Gone

(* What all further proofs start from.                                      *)
Basis == TypeOK /\ QueueInv /\ HandlerInv /\ LinkInv /\ StandingInv

(* The types, the queues, the handler and the link, together.               *)
LEMMA BasisCorrect == Spec => []Basis
  <1>1. Init => HandlerInv /\ LinkInv /\ StandingInv
    <2> SUFFICES ASSUME Init PROVE HandlerInv /\ LinkInv /\ StandingInv
      OBVIOUS
    <2>1. \A t \in Trans : tstatus[t] = "FREE"
      BY DEF Init
    <2>2. \A a \in Threads : call[a] = "none"
      BY DEF Init
    <2>3. QED BY <2>1, <2>2 DEF Init, HandlerInv, LinkInv, StandingInv, UserEvent, Trans
  <1>2. TypeOK /\ QueueInv /\ HandlerInv /\ LinkInv /\ StandingInv /\ [Next]_vars
            => HandlerInv' /\ LinkInv' /\ StandingInv'
    BY HandlerStep, LinkStep, StandingStep
  <1>3. QED BY <1>1, <1>2, TypeCorrect, QueuesCorrect, PTL DEF Spec, Basis

-----------------------------------------------------------------------------
(* Completion.  CompletionInv is not inductive because it lets anything     *)
(* happen to a completed transaction once the connection is to be           *)
(* destroyed; in fact what is then on the list is still delivered in order  *)
(* or dropped as a whole, and only when the handler is past its callbacks.  *)

(* A list of events with no final event, or with exactly one, for t.        *)
NoFinal(q, t) == \A i \in DOMAIN q : ~IsFinal(q[i], t)
OneFinal(q, t) == \E i \in DOMAIN q : \A j \in DOMAIN q : IsFinal(q[j], t) <=> j = i

(* Final events are counted over joined lists.                              *)
LEMMA FinalConcat ==
    ASSUME NEW t, NEW q \in Seq(Event), NEW r \in Seq(Event), NoFinal(r, t) \/ NoFinal(q, t)
    PROVE  /\ NoFinal(q, t) /\ NoFinal(r, t) => NoFinal(q \o r, t)
           /\ OneFinal(q, t) \/ OneFinal(r, t) => OneFinal(q \o r, t)
  <1> DEFINE c == q \o r
  <1>1. /\ c \in Seq(Event) /\ Len(c) = Len(q) + Len(r)
        /\ \A i \in 1 .. Len(q) + Len(r) : c[i] = IF i <= Len(q) THEN q[i] ELSE r[i - Len(q)]
    BY ConcatProperties
  <1>2. /\ Len(q) \in Nat /\ Len(r) \in Nat
        /\ DOMAIN c = 1 .. Len(c) /\ DOMAIN q = 1 .. Len(q) /\ DOMAIN r = 1 .. Len(r)
    BY <1>1, LenProperties
  <1> HIDE DEF c
  <1>3. \A i \in 1 .. Len(q) : i \in DOMAIN c /\ c[i] = q[i]
    BY <1>1, <1>2
  <1>4. \A i \in 1 .. Len(r) : Len(q) + i \in DOMAIN c /\ c[Len(q) + i] = r[i]
    <2> SUFFICES ASSUME NEW i \in 1 .. Len(r)
                 PROVE  Len(q) + i \in DOMAIN c /\ c[Len(q) + i] = r[i]
      OBVIOUS
    <2>1. Len(q) + i \in 1 .. Len(c) /\ ~(Len(q) + i <= Len(q)) /\ (Len(q) + i) - Len(q) = i
      BY <1>1, <1>2
    <2>2. QED BY <1>1, <1>2, <2>1
  <1>5. \A j \in DOMAIN c : j \in 1 .. Len(q) \/ \E i \in 1 .. Len(r) : j = Len(q) + i
    <2> SUFFICES ASSUME NEW j \in DOMAIN c, j \notin 1 .. Len(q)
                 PROVE  \E i \in 1 .. Len(r) : j = Len(q) + i
      OBVIOUS
    <2>1. j - Len(q) \in 1 .. Len(r) /\ j = Len(q) + (j - Len(q))
      BY <1>1, <1>2
    <2>2. QED BY <2>1
  <1>6. NoFinal(q, t) /\ NoFinal(r, t) => NoFinal(c, t)
    BY <1>2, <1>3, <1>4, <1>5 DEF NoFinal
  <1>7. ASSUME OneFinal(q, t), NoFinal(r, t)
        PROVE  OneFinal(c, t)
    <2>1. PICK i \in DOMAIN q : \A j \in DOMAIN q : IsFinal(q[j], t) <=> j = i
      BY <1>7 DEF OneFinal
    <2>2. \A k \in 1 .. Len(r) : Len(q) + k # i
      BY <1>2
    <2>3. \A j \in DOMAIN c : IsFinal(c[j], t) <=> j = i
      BY <1>2, <1>3, <1>4, <1>5, <1>7, <2>1, <2>2 DEF NoFinal
    <2>4. QED BY <1>2, <1>3, <2>3 DEF OneFinal
  <1>8. ASSUME NoFinal(q, t), OneFinal(r, t)
        PROVE  OneFinal(c, t)
    <2>1. PICK i \in DOMAIN r : \A j \in DOMAIN r : IsFinal(r[j], t) <=> j = i
      BY <1>8 DEF OneFinal
    <2>2. \A k \in 1 .. Len(r) : Len(q) + k = Len(q) + i <=> k = i
      BY <1>2
    <2>3. \A k \in 1 .. Len(q) : k # Len(q) + i
      BY <1>2
    <2>4. \A j \in DOMAIN c : IsFinal(c[j], t) <=> j = Len(q) + i
      BY <1>2, <1>3, <1>4, <1>5, <1>8, <2>1, <2>2, <2>3, SMTT(30) DEF NoFinal
    <2>5. QED BY <1>2, <1>4, <2>4 DEF OneFinal
  <1>9. ~(NoFinal(q, t) /\ OneFinal(q, t)) /\ ~(NoFinal(r, t) /\ OneFinal(r, t))
    BY DEF NoFinal, OneFinal
  <1>10. QED BY <1>6, <1>7, <1>8, <1>9 DEF c

(* An event added to a list.                                                *)
LEMMA FinalAppend ==
    ASSUME NEW t, NEW q \in Seq(Event), NEW e \in Event
    PROVE  /\ ~IsFinal(e, t) => /\ NoFinal(q, t) => NoFinal(Append(q, e), t)
                                /\ OneFinal(q, t) => OneFinal(Append(q, e), t)
           /\ IsFinal(e, t) /\ NoFinal(q, t) => OneFinal(Append(q, e), t)
  <1> DEFINE r == <<e>>
  <1>1. r \in Seq(Event) /\ DOMAIN r = {1} /\ r[1] = e
    OBVIOUS
  <1>2. Append(q, e) = q \o r
    BY AppendIsConcat
  <1> HIDE DEF r
  <1>3. (~IsFinal(e, t) => NoFinal(r, t)) /\ (IsFinal(e, t) => OneFinal(r, t))
    BY <1>1 DEF NoFinal, OneFinal
  <1>4. QED BY <1>1, <1>2, <1>3, FinalConcat

(* An event taken from the head of a list.                                  *)
LEMMA FinalTail ==
    ASSUME NEW t, NEW q \in Seq(Event), q # <<>>
    PROVE  /\ NoFinal(q, t) => ~IsFinal(Head(q), t) /\ NoFinal(Tail(q), t)
           /\ OneFinal(q, t) => IF IsFinal(Head(q), t) THEN NoFinal(Tail(q), t)
                                ELSE OneFinal(Tail(q), t)
  <1> DEFINE r == Tail(q)
  <1>1. /\ Len(q) \in Nat \ {0} /\ r \in Seq(Event) /\ Len(r) = Len(q) - 1
        /\ \A i \in 1 .. Len(r) : r[i] = q[i + 1]
        /\ Head(q) = q[1]
    BY HeadTailProperties, EmptySeq
  <1>2. DOMAIN q = 1 .. Len(q) /\ DOMAIN r = 1 .. Len(r)
    BY <1>1, LenProperties
  <1> HIDE DEF r
  <1>3. \A i \in DOMAIN r : i \in Nat /\ i + 1 \in DOMAIN q /\ r[i] = q[i + 1] /\ i + 1 # 1
    BY <1>1, <1>2
  <1>4. 1 \in DOMAIN q
    BY <1>1, <1>2
  <1>5. NoFinal(q, t) => ~IsFinal(Head(q), t) /\ NoFinal(r, t)
    BY <1>1, <1>3, <1>4 DEF NoFinal
  <1>6. ASSUME OneFinal(q, t)
        PROVE  IF IsFinal(Head(q), t) THEN NoFinal(r, t) ELSE OneFinal(r, t)
    <2>1. PICK i \in DOMAIN q : \A j \in DOMAIN q : IsFinal(q[j], t) <=> j = i
      BY <1>6 DEF OneFinal
    <2>2. CASE i = 1
      BY <1>1, <1>3, <1>4, <2>1, <2>2 DEF NoFinal
    <2>3. CASE i # 1
      <3>1. i - 1 \in DOMAIN r /\ \A j \in DOMAIN r : j + 1 = i <=> j = i - 1
        BY <1>1, <1>2, <2>3
      <3>2. ~IsFinal(Head(q), t)
        BY <1>1, <1>4, <2>1, <2>3
      <3>3. \A j \in DOMAIN r : IsFinal(r[j], t) <=> j = i - 1
        BY <1>3, <2>1, <3>1
      <3>4. QED BY <3>1, <3>2, <3>3 DEF OneFinal
    <2>4. QED BY <2>2, <2>3
  <1>7. QED BY <1>5, <1>6 DEF r

(* A lost connection makes one final event for each PENDING transaction,    *)
(* and none for any other.                                                  *)
LEMMA FinalLoss ==
    ASSUME TypeOK, QueueInv, NEW type, NEW t
    PROVE  IF t \in ToSet(trans_pending) THEN OneFinal(LossEvents(type), t)
           ELSE NoFinal(LossEvents(type), t)
  <1> DEFINE errors == EventsFor("TRANS_ERROR", trans_pending)
             refused == EventsFor("TRANS_NOCONNECT", trans_ready)
  <1>1. trans_pending \in Seq(Trans) /\ trans_ready \in Seq(Trans) /\ NoDuplicates(trans_pending)
    BY DEF TypeOK, QueueInv
  <1>2. errors \in Seq(Event) /\ refused \in Seq(Event)
    BY <1>1, EventsForType DEF TransEvents
  <1>3. DOMAIN errors = DOMAIN trans_pending /\ DOMAIN refused = DOMAIN trans_ready
    BY DEF EventsFor
  <1>4. \A i \in DOMAIN errors : IsFinal(errors[i], t) <=> trans_pending[i] = t
    BY <1>3 DEF EventsFor, UserEvent, IsFinal
  <1>5. \A i \in DOMAIN refused : ~IsFinal(refused[i], t)
    BY <1>3 DEF EventsFor, UserEvent, IsFinal
  <1> HIDE DEF errors, refused
  <1>6. IF t \in ToSet(trans_pending) THEN OneFinal(errors, t) ELSE NoFinal(errors, t)
    <2>1. ToSet(trans_pending) = {trans_pending[i] : i \in DOMAIN trans_pending}
      BY <1>1, ToSetByIndex, LenProperties
    <2>2. CASE t \in ToSet(trans_pending)
      BY <1>1, <1>3, <1>4, <2>1, <2>2 DEF OneFinal, NoDuplicates
    <2>3. CASE t \notin ToSet(trans_pending)
      BY <1>3, <1>4, <2>1, <2>3 DEF NoFinal
    <2>4. QED BY <2>2, <2>3
  <1>7. Refused \in Seq(Event) /\ NoFinal(Refused, t)
    <2>1. NoFinal(<<>>, t) /\ NoFinal(refused, t)
      BY <1>5 DEF NoFinal
    <2>2. QED BY <1>2, <2>1 DEF Refused, refused
  <1>8. /\ Refused \o errors \in Seq(Event)
        /\ IF t \in ToSet(trans_pending) THEN OneFinal(Refused \o errors, t)
           ELSE NoFinal(Refused \o errors, t)
    BY <1>2, <1>6, <1>7, FinalConcat, ConcatProperties
  <1>9. CloseEvent(type) \in Event /\ ~IsFinal(CloseEvent(type), t)
    BY EventTypes DEF CloseEvent, ConnEvents, UserEvent, IsFinal
  <1>10. QED BY <1>8, <1>9, FinalAppend DEF LossEvents, errors

-----------------------------------------------------------------------------
(* Where the completion of one transaction stands.                          *)
CompletionFine(t) ==
    IF tstatus[t] # "DONE" THEN t \notin told /\ NoFinal(events, t)
    ELSE \/ t \in told /\ NoFinal(events, t)
         \/ t \notin told /\ OneFinal(events, t)
         \/ t \notin told /\ events = <<>> /\ destroy /\ pc \in {"reap", "leaving"}

ToldInv == \A t \in Users : CompletionFine(t)

(* What the run checks is part of the inductive invariant.                  *)
LEMMA ToldIsCompletion == ToldInv => CompletionInv
  <1> SUFFICES ASSUME ToldInv, NEW t \in Users
               PROVE  LET queued == {i \in DOMAIN events : IsFinal(events[i], t)}
                      IN  IF tstatus[t] # "DONE"
                          THEN t \notin told /\ queued = {}
                          ELSE \/ t \in told /\ queued = {}
                               \/ t \notin told /\ \E i \in DOMAIN events : queued = {i}
                               \/ destroy
    BY DEF CompletionInv
  <1>1. NoFinal(events, t) => {i \in DOMAIN events : IsFinal(events[i], t)} = {}
    BY DEF NoFinal
  <1>2. OneFinal(events, t) =>
            \E i \in DOMAIN events : {j \in DOMAIN events : IsFinal(events[j], t)} = {i}
    BY DEF OneFinal
  <1>3. QED BY <1>1, <1>2 DEF ToldInv, CompletionFine

(* Steps that neither complete a transaction nor touch the list.            *)
LEMMA CompletionKept ==
    ASSUME ToldInv, UNCHANGED <<events, told>>,
           \A t \in Users : tstatus'[t] = "DONE" <=> tstatus[t] = "DONE",
           destroy => destroy',
           destroy /\ pc \in {"reap", "leaving"} => pc' \in {"reap", "leaving"}
    PROVE  ToldInv'
  BY DEF ToldInv, CompletionFine

(* An event that is not final is added.                                     *)
LEMMA CompletionOther ==
    ASSUME TypeOK, ToldInv, NEW e \in Event, e.type \notin {"TRANS_DONE", "TRANS_ERROR"},
           events' = Append(events, e), UNCHANGED told, pc \notin {"reap", "leaving"},
           \A t \in Users : tstatus'[t] = "DONE" <=> tstatus[t] = "DONE"
    PROVE  ToldInv'
  <1>1. events \in Seq(Event) /\ \A t : ~IsFinal(e, t)
    BY DEF TypeOK, IsFinal
  <1>2. \A t \in Users : /\ NoFinal(events, t) => NoFinal(events', t)
                         /\ OneFinal(events, t) => OneFinal(events', t)
    BY <1>1, FinalAppend
  <1>3. QED BY <1>2 DEF ToldInv, CompletionFine

(* LM_trans_delete_unlocked runs only while no event is on the list.        *)
LEMMA CompletionDeleted ==
    ASSUME TypeOK, ToldInv, NEW t \in Trans, DeleteUnlocked(t), events = <<>>,
           UNCHANGED <<events, pc, destroy>>
    PROVE  ToldInv'
  <1>1. \A u \in Trans : tstatus'[u] = IF u = t THEN "FREE" ELSE tstatus[u]
    BY DEF DeleteUnlocked, TypeOK
  <1>2. told' = told \ {t}
    BY DEF DeleteUnlocked
  <1>3. \A u : NoFinal(events', u)
    BY DEF NoFinal
  <1>4. QED BY <1>1, <1>2, <1>3 DEF ToldInv, CompletionFine, Trans

(* A lost connection completes what was PENDING, with one event each.       *)
LEMMA CompletionLost ==
    ASSUME TypeOK, QueueInv, ToldInv, NEW type, ConnError(type), UNCHANGED told,
           pc \notin {"reap", "leaving"}
    PROVE  ToldInv'
  <1> SUFFICES ASSUME NEW t \in Users
               PROVE  CompletionFine(t)'
    BY DEF ToldInv
  <1>1. t \in Trans /\ tstatus'[t] = IF t \in ToSet(trans_pending) THEN "DONE" ELSE tstatus[t]
    BY DEF ConnError, Abandoned, Trans
  <1>2. /\ events \in Seq(Event) /\ LossEvents(type) \in Seq(Event)
        /\ events' = events \o LossEvents(type)
    BY LossEventsType DEF TypeOK, ConnError
  <1>3. CASE t \in ToSet(trans_pending)
    <2>1. tstatus[t] = "PENDING"
      BY <1>3 DEF QueueInv
    <2>2. t \notin told /\ NoFinal(events, t)
      BY <2>1 DEF ToldInv, CompletionFine
    <2>3. OneFinal(events', t)
      BY <1>2, <1>3, <2>2, FinalLoss, FinalConcat
    <2>4. QED BY <1>1, <1>3, <2>2, <2>3 DEF CompletionFine
  <1>4. CASE t \notin ToSet(trans_pending)
    <2>1. /\ NoFinal(events, t) => NoFinal(events', t)
          /\ OneFinal(events, t) => OneFinal(events', t)
      BY <1>2, <1>4, FinalLoss, FinalConcat
    <2>2. QED BY <1>1, <1>4, <2>1 DEF ToldInv, CompletionFine
  <1>5. QED BY <1>3, <1>4

(* A freed connection has nothing left to tell.                             *)
LEMMA CompletionFreed == ASSUME FreeConn, events = <<>> PROVE ToldInv'
  <1>1. \A t \in Users : tstatus'[t] = "FREE" /\ t \notin told'
    BY DEF FreeConn, Trans
  <1>2. events' = <<>>
    BY DEF FreeConn
  <1>3. QED BY <1>1, <1>2 DEF ToldInv, CompletionFine, NoFinal

(* No step of a thread or of the handler breaks ToldInv.                    *)
LEMMA CompletionStep == Basis /\ ToldInv /\ [Next]_vars => ToldInv'
  <1> SUFFICES ASSUME TypeOK, QueueInv, HandlerInv, ToldInv, [Next]_vars
               PROVE  ToldInv'
    BY DEF Basis
  <1> USE DEF objVars, linkVars, queueVars, fieldVars, loopVars, histVars
  <1>0. tstatus \in [Trans -> TransStatus] /\ events \in Seq(Event)
    BY DEF TypeOK
  <1>1. ASSUME UNCHANGED <<events, told, tstatus, destroy, pc>>
        PROVE  ToldInv'
    BY <1>1, CompletionKept
  <1>2. ASSUME NEW a \in Threads, LM_trans_new(a)
        PROVE  ToldInv'
    <2>1. PICK t \in Users : /\ tstatus' = [tstatus EXCEPT ![t] = "NEW"]
                             /\ tstatus[t] = "FREE"
      BY <1>2 DEF LM_trans_new, Unused
    <2>2. \A u \in Users : tstatus'[u] = IF u = t THEN "NEW" ELSE tstatus[u]
      BY <1>0, <2>1 DEF Trans
    <2>3. UNCHANGED <<events, told, destroy, pc>>
      BY <1>2 DEF LM_trans_new
    <2>4. QED BY <2>1, <2>2, <2>3, CompletionKept
  <1>3. ASSUME NEW a \in Threads, NEW t \in Trans, LM_trans_send(a, t)
        PROVE  ToldInv'
    <2>1. tstatus[t] = "NEW" /\ UNCHANGED <<events, told, destroy, pc>>
      BY <1>3 DEF LM_trans_send
    <2>2. \A u \in Trans : tstatus'[u] = "DONE" <=> tstatus[u] = "DONE"
      <3>1. CASE CanSend
        <4> DEFINE ready == Append(trans_ready, t)
        <4>1. SendReady(ready)
          BY <1>3, <3>1 DEF LM_trans_send
        <4>2. ToSet(ready) = ToSet(trans_ready) \cup {t}
          BY ToSetAppend DEF TypeOK
        <4> HIDE DEF ready
        <4>3. \A u \in ToSet(ready) : u \in Trans => tstatus[u] # "DONE"
          BY <2>1, <4>2 DEF QueueInv
        <4>4. QED BY <4>1, <4>3 DEF SendReady
      <3>2. CASE ~CanSend
        BY <1>0, <1>3, <2>1, <3>2 DEF LM_trans_send
      <3>3. QED BY <3>1, <3>2
    <2>3. QED BY <2>1, <2>2, CompletionKept DEF Trans
  <1>4. ASSUME NEW a \in Threads, NEW t \in Trans, LM_trans_delete(a, t)
        PROVE  ToldInv'
    <2>1. CASE Deferred
      BY <1>1, <1>4, <2>1 DEF LM_trans_delete
    <2>2. CASE ~Deferred
      BY <1>4, <2>2, CompletionDeleted DEF LM_trans_delete, MayCall, Deferred, HandlerInv
    <2>3. QED BY <2>1, <2>2
  <1>5. ASSUME NEW a \in Threads, LM_conn_destroy(a)
        PROVE  ToldInv'
    <2>1. CASE Deferred
      BY <1>5, <2>1, CompletionKept DEF LM_conn_destroy
    <2>2. CASE ~Deferred
      BY <1>5, <2>2, CompletionFreed DEF LM_conn_destroy, MayCall, Deferred, HandlerInv
    <2>3. QED BY <2>1, <2>2
  <1>6. ASSUME NEW a \in Threads,
               \/ LM_conn_connect(a) \/ LM_conn_disconnect(a) \/ LM_conn_disable_ping(a)
               \/ LM_conn_set_idle_timeout(a) \/ ImplicitConnect(a) \/ RegisterIo(a)
               \/ \E t \in Trans : LM_trans_set_param(a, t) \/ LM_trans_set_timeout(a, t)
        PROVE  ToldInv'
    BY <1>1, <1>6 DEF LM_conn_connect, LM_conn_disconnect, LM_conn_disable_ping,
          LM_conn_set_idle_timeout, ImplicitConnect, RegisterIo, LM_trans_set_param,
          LM_trans_set_timeout
  <1>7. CASE LoopDispatch
    BY <1>7, CompletionKept DEF LoopDispatch, DispatchConnected, DispatchClosed, DispatchRead,
          DispatchWrite, DispatchTrigger, DispatchTimer, DispatchTransTimer, Dispatch
  <1>8. CASE HandleConnected
    <2>1. PICK p \in Pings : tstatus[p] = "FREE" /\ tstatus' = [tstatus EXCEPT ![p] = "PENDING"]
      BY <1>8 DEF HandleConnected, Unused
    <2>2. UNCHANGED <<events, told, destroy>> /\ pc = "dispatched"
      BY <1>8 DEF HandleConnected, Enter
    <2>3. \A u \in Trans : tstatus'[u] = IF u = p THEN "PENDING" ELSE tstatus[u]
      BY <1>0, <2>1
    <2>4. QED BY <2>1, <2>2, <2>3, CompletionKept DEF Trans
  <1>9. CASE HandleConnectedNoPing \/ HandleRead \/ HandleWrite \/ HandlePingTimeout \/ HandleIdleTimeout
    BY <1>9, CompletionKept DEF HandleConnectedNoPing, HandleRead, HandleWrite,
          HandlePingTimeout, HandleIdleTimeout, Enter
  <1>10. CASE HandleTransTimeout
    <2>1. /\ events' = Append(events, UserEvent("TRANS_TIMEOUT", ev.trans))
          /\ UNCHANGED <<told, tstatus>> /\ pc = "dispatched" /\ ev.trans # NoTrans
      BY <1>10 DEF HandleTransTimeout, Enter, IsTransTimer
    <2>2. UserEvent("TRANS_TIMEOUT", ev.trans) \in Event
      BY <2>1, EventTypes DEF TypeOK, TransEvents
    <2>3. QED BY <2>1, <2>2, CompletionOther DEF UserEvent
  <1>11. CASE \/ PingLost \/ ParseError
              \/ \E type \in {"DISCONNECTED", "ERROR"} : HandleClosed(type)
    BY <1>11, CompletionLost DEF HandleClosed, ParseError, PingLost, PingDeleted, Parsing, Enter
  <1>12. ASSUME NEW t \in Trans, ParseResponse(t)
         PROVE  ToldInv'
    <2>1. /\ pc = "reading" /\ UNCHANGED <<told, destroy>> /\ tstatus[t] = "PENDING"
          /\ tstatus' = [tstatus EXCEPT ![t] = "DONE"]
      BY <1>12 DEF ParseResponse, Parsing
    <2>2. \A u \in Trans : tstatus'[u] = IF u = t THEN "DONE" ELSE tstatus[u]
      BY <1>0, <2>1
    <2>3. CASE t = pingtxn
      <3>1. t \notin Users
        BY <2>3, ConnAssumption DEF TypeOK, Trans
      <3>2. UNCHANGED events
        BY <1>12, <2>3 DEF ParseResponse
      <3>3. QED BY <2>1, <2>2, <3>1, <3>2, CompletionKept DEF Trans
    <2>4. CASE t # pingtxn
      <3> DEFINE e == UserEvent("TRANS_DONE", t)
      <3>1. events' = Append(events, e) /\ e \in Event /\ \A u : IsFinal(e, u) <=> u = t
        BY <1>12, <2>4, EventTypes DEF ParseResponse, TransEvents, UserEvent, IsFinal
      <3> HIDE DEF e
      <3> SUFFICES ASSUME NEW u \in Users PROVE CompletionFine(u)'
        BY DEF ToldInv
      <3>2. CompletionFine(u) /\ u \in Trans
        BY DEF ToldInv, Trans
      <3>3. CASE u = t
        <4>1. u \notin told' /\ NoFinal(events, u)
          BY <2>1, <3>2, <3>3 DEF CompletionFine
        <4>2. OneFinal(events', u)
          BY <1>0, <3>1, <3>3, <4>1, FinalAppend
        <4>3. QED BY <2>2, <3>2, <3>3, <4>1, <4>2 DEF CompletionFine
      <3>4. CASE u # t
        <4>1. /\ NoFinal(events, u) => NoFinal(events', u)
              /\ OneFinal(events, u) => OneFinal(events', u)
          BY <1>0, <3>1, <3>4, FinalAppend
        <4>2. QED BY <2>1, <2>2, <3>2, <3>4, <4>1 DEF CompletionFine
      <3>5. QED BY <3>3, <3>4
    <2>5. QED BY <2>3, <2>4
  <1>13. CASE ParseWait \/ \E t \in Trans : ParseOrphan(t)
    BY <1>13, CompletionKept DEF ParseWait, ParseOrphan, Parsing
  <1>14. CASE SetConnected
    <2>1. /\ SendReady(trans_ready) /\ pc = "ping" /\ UNCHANGED told
          /\ events' = Append(events, UserEvent("CONN_CONNECTED", NoTrans))
      BY <1>14 DEF SetConnected, PingDeleted
    <2>2. \A u \in Trans : tstatus'[u] = "DONE" <=> tstatus[u] = "DONE"
      BY <2>1 DEF SendReady, QueueInv
    <2>3. UserEvent("CONN_CONNECTED", NoTrans) \in Event
      BY EventTypes DEF ConnEvents
    <2>4. QED BY <2>1, <2>2, <2>3, CompletionOther DEF UserEvent, Trans
  <1>15. CASE Deliver
    <2> DEFINE e == Head(events)
    <2>1. /\ pc = "callbacks" /\ events # <<>> /\ events' = Tail(events)
          /\ told' = IF e.type \in {"TRANS_DONE", "TRANS_ERROR"} THEN told \cup {e.trans} ELSE told
          /\ UNCHANGED tstatus
      BY <1>15 DEF Deliver
    <2> SUFFICES ASSUME NEW u \in Users PROVE CompletionFine(u)'
      BY DEF ToldInv
    <2>2. CompletionFine(u)
      BY DEF ToldInv
    <2>3. /\ NoFinal(events, u) => ~IsFinal(e, u) /\ NoFinal(events', u)
          /\ OneFinal(events, u) => IF IsFinal(e, u) THEN NoFinal(events', u)
                                    ELSE OneFinal(events', u)
      BY <1>0, <2>1, FinalTail
    <2> HIDE DEF e
    <2>4. u \in told' <=> u \in told \/ IsFinal(e, u)
      BY <2>1 DEF IsFinal
    <2>5. QED BY <2>1, <2>2, <2>3, <2>4 DEF CompletionFine
  <1>16. CASE CallbackReturns
    <2>1. CASE DestroyIsSet
      <3>1. /\ events' = <<>> /\ pc' = "reap" /\ destroy' /\ UNCHANGED <<told, tstatus>>
        BY <1>16, <2>1 DEF CallbackReturns, DestroyIsSet
      <3>2. \A u : NoFinal(events', u)
        BY <3>1 DEF NoFinal
      <3>3. QED BY <3>1, <3>2 DEF ToldInv, CompletionFine
    <2>2. CASE ~DestroyIsSet
      BY <1>16, <2>2, CompletionKept DEF CallbackReturns, DestroyIsSet
    <2>3. QED BY <2>1, <2>2
  <1>17. CASE AllDelivered \/ Release
    BY <1>17, CompletionKept DEF AllDelivered, Release
  <1>18. ASSUME NEW t \in Trans, Reap(t)
         PROVE  ToldInv'
    BY <1>18, CompletionDeleted DEF Reap, HandlerInv
  <1>19. CASE Leave
    <2>1. CASE DestroyIsSet
      BY <1>19, <2>1, CompletionFreed DEF Leave, HandlerInv
    <2>2. CASE ~DestroyIsSet
      BY <1>19, <2>2, CompletionKept DEF Leave, DestroyIsSet
    <2>3. QED BY <2>1, <2>2
  <1>20. CASE UNCHANGED vars
    BY <1>1, <1>20 DEF vars
  <1>21. QED
    BY <1>2, <1>3, <1>4, <1>5, <1>6, <1>7, <1>8, <1>9, <1>10, <1>11, <1>12, <1>13, <1>14,
       <1>15, <1>16, <1>17, <1>18, <1>19, <1>20 DEF Next, ApiCall, Handler, Gone

(* ToldInv holds in every state the library reaches.                        *)
LEMMA ToldCorrect == Spec => []ToldInv
  <1>1. Init => ToldInv
    BY DEF Init, ToldInv, CompletionFine, NoFinal, Trans
  <1>2. QED BY <1>1, BasisCorrect, CompletionStep, PTL DEF Spec

(* Every transaction of the user's gets exactly one final event: never      *)
(* lost, repeated or early, whatever threads, server and network do.        *)
THEOREM CompletionCorrect == Spec => []CompletionInv
  BY ToldCorrect, ToldIsCompletion, PTL

-----------------------------------------------------------------------------
(* The promise.  Each step of the code is a step of TransPromise or leaves  *)
(* PromisedLink and PromisedTxn alone.                                      *)

(* Where a transaction stands, and that nothing else decides it.            *)
LEMMA PromisedStanding ==
    /\ PromisedTxn = [u \in Users |-> PromisedTxn[u]]
    /\ \A u \in Users :
          /\ tstatus[u] = "FREE" => PromisedTxn[u] = "none"
          /\ tstatus[u] = "NEW" => PromisedTxn[u] = "new"
          /\ tstatus[u] = "READY" => PromisedTxn[u] = "ready"
          /\ tstatus[u] = "PENDING" => PromisedTxn[u] = "pending"
          /\ tstatus[u] = "DONE" => PromisedTxn[u] = IF u \in told THEN "reported" ELSE "done"
  BY DEF PromisedTxn

(* The abstract state of a transaction after a step, by its status.         *)
LEMMA PromisedStandingNext ==
    /\ PromisedTxn' = [u \in Users |-> PromisedTxn'[u]]
    /\ \A u \in Users :
          /\ tstatus'[u] = "FREE" => PromisedTxn'[u] = "none"
          /\ tstatus'[u] = "NEW" => PromisedTxn'[u] = "new"
          /\ tstatus'[u] = "READY" => PromisedTxn'[u] = "ready"
          /\ tstatus'[u] = "PENDING" => PromisedTxn'[u] = "pending"
          /\ tstatus'[u] = "DONE" => PromisedTxn'[u] = IF u \in told' THEN "reported" ELSE "done"
          /\ tstatus'[u] = tstatus[u] /\ (u \in told' <=> u \in told) => PromisedTxn'[u] = PromisedTxn[u]
  BY DEF PromisedTxn

(* Steps in which no transaction of the user's moves.                       *)
LEMMA PromisedSame ==
    ASSUME \A u \in Users : tstatus'[u] = tstatus[u] /\ (u \in told' <=> u \in told)
    PROVE  UNCHANGED PromisedTxn
  BY PromisedStanding, PromisedStandingNext

(* Steps in which one does.                                                 *)
LEMMA PromisedOne ==
    ASSUME NEW t \in Users,
           \A u \in Users \ {t} : tstatus'[u] = tstatus[u] /\ (u \in told' <=> u \in told)
    PROVE  PromisedTxn' = [PromisedTxn EXCEPT ![t] = PromisedTxn'[t]]
  BY PromisedStanding, PromisedStandingNext

(* LM_trans_delete_unlocked, of a transaction or of a ping.                 *)
LEMMA PromisedDelete ==
    ASSUME TypeOK, ToldInv, NEW t \in Trans, DeleteUnlocked(t), UNCHANGED <<alive, status>>
    PROVE  [Promise!Next]_Promise!vars
  <1>1. /\ \A u \in Trans : tstatus'[u] = IF u = t THEN "FREE" ELSE tstatus[u]
        /\ told' = told \ {t}
    BY DEF DeleteUnlocked, TypeOK
  <1>2. UNCHANGED PromisedLink
    BY DEF PromisedLink
  <1>3. CASE t \in Users /\ tstatus[t] # "FREE"
    <2>1. PromisedTxn' = [PromisedTxn EXCEPT ![t] = "none"]
      BY <1>1, <1>3, PromisedOne, PromisedStandingNext DEF Trans
    <2>2. PromisedTxn[t] # "none"
      BY <1>3, PromisedStanding DEF TypeOK, TransStatus, Trans
    <2>3. Promise!Delete(t)
      BY <1>2, <2>1, <2>2 DEF Promise!Delete
    <2>4. QED BY <1>3, <2>3 DEF Promise!Next
  <1>4. CASE ~(t \in Users /\ tstatus[t] # "FREE")
    <2>1. t \in Users => t \notin told
      BY <1>4 DEF ToldInv, CompletionFine
    <2>2. UNCHANGED PromisedTxn
      BY <1>1, <1>4, <2>1, PromisedSame DEF Trans
    <2>3. QED BY <1>2, <2>2 DEF Promise!vars
  <1>5. QED BY <1>3, <1>4

(* LM_conn_event_handle_conn_error.                                         *)
LEMMA PromisedLost ==
    ASSUME TypeOK, QueueInv, ToldInv, NEW type, ConnError(type), alive, status # "DISCONNECTED",
           UNCHANGED <<told, alive>>
    PROVE  Promise!Next
  <1>1. \A u \in Trans :
            tstatus'[u] = IF u \in ToSet(trans_pending) THEN "DONE" ELSE tstatus[u]
    BY DEF ConnError, Abandoned
  <1>2. \A u \in Users : u \in Trans /\ (u \in ToSet(trans_pending) <=> tstatus[u] = "PENDING")
    BY ConnAssumption DEF QueueInv, Trans
  <1>3. \A u \in Users : tstatus[u] # "DONE" => u \notin told
    BY DEF ToldInv, CompletionFine
  <1>4. \A u \in Users : PromisedTxn'[u] = IF PromisedTxn[u] = "pending" THEN "done" ELSE PromisedTxn[u]
    <2> SUFFICES ASSUME NEW u \in Users
                 PROVE  PromisedTxn'[u] = IF PromisedTxn[u] = "pending" THEN "done" ELSE PromisedTxn[u]
      OBVIOUS
    <2>1. CASE tstatus[u] = "PENDING"
      BY <1>1, <1>2, <1>3, <2>1, PromisedStanding, PromisedStandingNext
    <2>2. CASE tstatus[u] # "PENDING"
      <3>1. PromisedTxn'[u] = PromisedTxn[u]
        BY <1>1, <1>2, <2>2, PromisedStandingNext
      <3>2. tstatus[u] \in TransStatus
        BY <1>2 DEF TypeOK
      <3>3. PromisedTxn[u] # "pending"
        BY <2>2, <3>2, PromisedStanding DEF TransStatus
      <3>4. QED BY <3>1, <3>3
    <2>3. QED BY <2>1, <2>2
  <1>5. PromisedTxn' = [u \in Users |-> IF PromisedTxn[u] = "pending" THEN "done" ELSE PromisedTxn[u]]
    BY <1>4, PromisedStandingNext
  <1>6. PromisedLink # "down" /\ PromisedLink' = "down"
    BY DEF PromisedLink, ConnError
  <1>7. QED BY <1>5, <1>6 DEF Promise!Next, Promise!Lost

(* LM_conn_destroy.                                                         *)
LEMMA PromisedFreed == ASSUME FreeConn PROVE Promise!Next
  <1>1. \A u \in Users : tstatus'[u] = "FREE"
    BY DEF FreeConn, Trans
  <1>2. PromisedTxn' = [u \in Users |-> "none"]
    BY <1>1, PromisedStandingNext
  <1>3. PromisedLink' = "down"
    BY DEF PromisedLink, FreeConn
  <1>4. QED BY <1>2, <1>3 DEF Promise!Next, Promise!Shutdown

(* LM_conn_connect, asked for or not.                                       *)
LEMMA PromisedConnect ==
    ASSUME LinkInv, alive, UNCHANGED <<alive, tstatus, told>>,
           \/ UNCHANGED status
           \/ status = "DISCONNECTED" /\ status' = "CONNECTING"
    PROVE  [Promise!Next]_Promise!vars
  <1>1. UNCHANGED PromisedTxn
    BY PromisedSame
  <1>2. CASE UNCHANGED status
    BY <1>1, <1>2 DEF PromisedLink, Promise!vars
  <1>3. CASE status = "DISCONNECTED" /\ status' = "CONNECTING"
    BY <1>1, <1>3 DEF PromisedLink, Promise!Next, Promise!Open
  <1>4. QED BY <1>2, <1>3

(* Every step of the library is one of TransPromise's or a stutter.         *)
LEMMA PromiseStep == Basis /\ ToldInv /\ [Next]_vars => [Promise!Next]_Promise!vars
  <1> SUFFICES ASSUME TypeOK, QueueInv, HandlerInv, LinkInv, StandingInv, ToldInv, [Next]_vars
               PROVE  [Promise!Next]_Promise!vars
    BY DEF Basis
  <1> USE DEF objVars, linkVars, queueVars, fieldVars, loopVars, histVars
  <1>0. tstatus \in [Trans -> TransStatus]
    BY DEF TypeOK
  <1>1. ASSUME UNCHANGED <<alive, status, tstatus, told>>
        PROVE  [Promise!Next]_Promise!vars
    BY <1>1, PromisedSame DEF PromisedLink, Promise!vars
  <1>2. ASSUME NEW a \in Threads, LM_trans_new(a)
        PROVE  [Promise!Next]_Promise!vars
    <2>1. PICK t \in Users : /\ tstatus' = [tstatus EXCEPT ![t] = "NEW"]
                             /\ tstatus[t] = "FREE"
      BY <1>2 DEF LM_trans_new, Unused
    <2>2. UNCHANGED <<alive, status, told>>
      BY <1>2 DEF LM_trans_new
    <2>3. \A u \in Trans : tstatus'[u] = IF u = t THEN "NEW" ELSE tstatus[u]
      BY <1>0, <2>1
    <2>4. PromisedTxn[t] = "none" /\ PromisedTxn' = [PromisedTxn EXCEPT ![t] = "new"]
      BY <2>1, <2>2, <2>3, PromisedStanding, PromisedStandingNext, PromisedOne DEF Trans
    <2>5. UNCHANGED PromisedLink
      BY <2>2 DEF PromisedLink
    <2>6. Promise!Create(t)
      BY <2>4, <2>5 DEF Promise!Create
    <2>7. QED BY <2>6 DEF Promise!Next
  <1>3. ASSUME NEW a \in Threads, NEW t \in Trans, LM_trans_send(a, t)
        PROVE  [Promise!Next]_Promise!vars
    <2>1. alive /\ tstatus[t] = "NEW" /\ UNCHANGED <<alive, status, told>>
      BY <1>3 DEF LM_trans_send, MayCall
    <2>2. t \in Users
      BY <2>1 DEF StandingInv, Trans
    <2>3. \A u \in Trans : tstatus'[u] = IF u # t THEN tstatus[u]
                                         ELSE IF status = "CONNECTED" THEN "PENDING" ELSE "READY"
      <3>1. CASE CanSend
        <4> DEFINE ready == Append(trans_ready, t)
        <4>1. SendReady(ready)
          BY <1>3, <3>1 DEF LM_trans_send
        <4>2. ToSet(trans_ready) = {}
          BY <2>1, <3>1, ToSetEmpty DEF CanSend, StandingInv
        <4>3. ToSet(ready) = ToSet(trans_ready) \cup {t}
          BY ToSetAppend DEF TypeOK
        <4> HIDE DEF ready
        <4>4. QED BY <3>1, <4>1, <4>2, <4>3 DEF SendReady, CanSend
      <3>2. CASE ~CanSend
        BY <1>0, <1>3, <3>2 DEF LM_trans_send, CanSend
      <3>3. QED BY <3>1, <3>2
    <2>4. UNCHANGED PromisedLink /\ (PromisedLink = "open" <=> status = "CONNECTED")
      BY <2>1 DEF PromisedLink
    <2>5. PromisedTxn'[t] = IF PromisedLink = "open" THEN "pending" ELSE "ready"
      BY <2>2, <2>3, <2>4, PromisedStandingNext DEF Trans
    <2>6. PromisedTxn' = [PromisedTxn EXCEPT ![t] = PromisedTxn'[t]]
      BY <2>1, <2>2, <2>3, PromisedOne DEF Trans
    <2>7. Promise!Submit(t)
      BY <2>1, <2>2, <2>4, <2>5, <2>6, PromisedStanding DEF Promise!Submit
    <2>8. QED BY <2>2, <2>7 DEF Promise!Next
  <1>4. ASSUME NEW a \in Threads, NEW t \in Trans, LM_trans_delete(a, t)
        PROVE  [Promise!Next]_Promise!vars
    <2>1. CASE Deferred
      BY <1>1, <1>4, <2>1 DEF LM_trans_delete
    <2>2. CASE ~Deferred
      BY <1>4, <2>2, PromisedDelete DEF LM_trans_delete
    <2>3. QED BY <2>1, <2>2
  <1>5. ASSUME NEW a \in Threads,
               \/ LM_conn_connect(a) \/ ImplicitConnect(a) \/ RegisterIo(a)
        PROVE  [Promise!Next]_Promise!vars
    <2>1. alive /\ UNCHANGED <<alive, tstatus, told>>
      BY <1>5 DEF LM_conn_connect, ImplicitConnect, RegisterIo, MayCall
    <2>2. status' = status \/ (status = "DISCONNECTED" /\ status' = "CONNECTING")
      BY <1>5, <2>1 DEF LM_conn_connect, ImplicitConnect, RegisterIo, ConnConnect, LinkInv
    <2>3. QED BY <2>1, <2>2, PromisedConnect
  <1>6. ASSUME alive, UNCHANGED <<alive, tstatus, told>>,
               status = "CONNECTED", status' \in {"DISCONNECTING", "IDLE_TIMEOUT"}
        PROVE  [Promise!Next]_Promise!vars
    BY <1>6, PromisedSame DEF PromisedLink, Promise!Next, Promise!Close
  <1>7. ASSUME NEW a \in Threads, LM_conn_disconnect(a)
        PROVE  [Promise!Next]_Promise!vars
    BY <1>6, <1>7 DEF LM_conn_disconnect, DisconnectIo, MayCall
  <1>8. ASSUME NEW a \in Threads,
               \/ LM_conn_disable_ping(a) \/ LM_conn_set_idle_timeout(a)
               \/ \E t \in Trans : LM_trans_set_param(a, t) \/ LM_trans_set_timeout(a, t)
        PROVE  [Promise!Next]_Promise!vars
    BY <1>1, <1>8 DEF LM_conn_disable_ping, LM_conn_set_idle_timeout, LM_trans_set_param,
          LM_trans_set_timeout
  <1>9. ASSUME NEW a \in Threads, LM_conn_destroy(a)
        PROVE  [Promise!Next]_Promise!vars
    <2>1. CASE Deferred
      BY <1>1, <1>9, <2>1 DEF LM_conn_destroy
    <2>2. CASE ~Deferred
      BY <1>9, <2>2, PromisedFreed DEF LM_conn_destroy
    <2>3. QED BY <2>1, <2>2
  <1>10. CASE LoopDispatch
    BY <1>1, <1>10 DEF LoopDispatch, DispatchConnected, DispatchClosed, DispatchRead, DispatchWrite,
                DispatchTrigger, DispatchTimer, DispatchTransTimer, Dispatch
  <1>11. CASE HandleConnected
    <2>1. PICK p \in Pings : tstatus' = [tstatus EXCEPT ![p] = "PENDING"]
      BY <1>11 DEF HandleConnected
    <2>2. \A u \in Users : tstatus'[u] = tstatus[u]
      BY <1>0, <2>1, ConnAssumption DEF Trans
    <2>3. UNCHANGED <<alive, status, told>>
      BY <1>11 DEF HandleConnected, Enter
    <2>4. QED BY <2>2, <2>3, PromisedSame DEF PromisedLink, Promise!vars
  <1>12. CASE \/ HandleConnectedNoPing \/ HandleRead \/ HandleWrite \/ HandleTransTimeout
              \/ HandlePingTimeout
    BY <1>1, <1>12 DEF HandleConnectedNoPing, HandleRead, HandleWrite, HandleTransTimeout,
                HandlePingTimeout, Enter
  <1>13. CASE HandleIdleTimeout
    BY <1>1, <1>6, <1>13 DEF HandleIdleTimeout, Enter, DisconnectIo
  <1>14. ASSUME NEW type \in {"DISCONNECTED", "ERROR"}, HandleClosed(type)
         PROVE  [Promise!Next]_Promise!vars
    BY <1>14, PromisedLost DEF HandleClosed, Enter, LinkInv
  <1>15. CASE ParseError
    BY <1>15, PromisedLost DEF ParseError, Parsing, LinkInv
  <1>16. CASE PingLost
    BY <1>16, PromisedLost DEF PingLost, PingDeleted, LinkInv
  <1>17. ASSUME NEW t \in Trans, ParseResponse(t)
         PROVE  [Promise!Next]_Promise!vars
    <2>1. /\ alive /\ pc = "reading" /\ tstatus[t] = "PENDING"
          /\ UNCHANGED <<alive, status, told>>
          /\ tstatus' = [tstatus EXCEPT ![t] = "DONE"]
      BY <1>17 DEF ParseResponse, Parsing
    <2>2. \A u \in Trans : tstatus'[u] = IF u = t THEN "DONE" ELSE tstatus[u]
      BY <1>0, <2>1
    <2>3. UNCHANGED PromisedLink
      BY <2>1 DEF PromisedLink
    <2>4. CASE t \in Users
      <3>1. PromisedLink \in {"open", "closing"}
        BY <2>1, <2>4 DEF StandingInv, PromisedLink
      <3>2. t \notin told
        BY <2>1, <2>4 DEF ToldInv, CompletionFine
      <3>3. PromisedTxn[t] = "pending" /\ PromisedTxn'[t] = "done"
        BY <2>1, <2>2, <2>4, <3>2, PromisedStanding, PromisedStandingNext
      <3>4. PromisedTxn' = [PromisedTxn EXCEPT ![t] = "done"]
        BY <2>1, <2>2, <2>4, <3>3, PromisedOne DEF Trans
      <3>5. Promise!Answer(t)
        BY <2>3, <3>1, <3>3, <3>4 DEF Promise!Answer
      <3>6. QED BY <2>4, <3>5 DEF Promise!Next
    <2>5. CASE t \notin Users
      BY <2>1, <2>2, <2>3, <2>5, PromisedSame DEF Trans, Promise!vars
    <2>6. QED BY <2>4, <2>5
  <1>18. CASE SetConnected
    <2>1. /\ SendReady(trans_ready) /\ status' = "CONNECTED" /\ alive /\ pc = "ping"
          /\ UNCHANGED <<alive, told>>
      BY <1>18 DEF SetConnected, PingDeleted
    <2>2. PromisedLink = "opening" /\ PromisedLink' = "open"
      BY <2>1 DEF PromisedLink, LinkInv
    <2>3. \A u \in Users : u \in Trans /\ tstatus'[u] = IF tstatus[u] = "READY" THEN "PENDING" ELSE tstatus[u]
      BY <2>1 DEF SendReady, QueueInv, Trans
    <2>4. \A u \in Users : PromisedTxn'[u] = IF PromisedTxn[u] = "ready" THEN "pending" ELSE PromisedTxn[u]
      <3> SUFFICES ASSUME NEW u \in Users
                   PROVE  PromisedTxn'[u] = IF PromisedTxn[u] = "ready" THEN "pending" ELSE PromisedTxn[u]
        OBVIOUS
      <3>1. CASE tstatus[u] = "READY"
        BY <2>3, <3>1, PromisedStanding, PromisedStandingNext
      <3>2. CASE tstatus[u] # "READY"
        <4>1. PromisedTxn'[u] = PromisedTxn[u]
          BY <2>1, <2>3, <3>2, PromisedStandingNext
        <4>2. PromisedTxn[u] # "ready"
          BY <1>0, <2>3, <3>2, PromisedStanding DEF TransStatus
        <4>3. QED BY <4>1, <4>2
      <3>3. QED BY <3>1, <3>2
    <2>5. PromisedTxn' = [u \in Users |-> IF PromisedTxn[u] = "ready" THEN "pending" ELSE PromisedTxn[u]]
      BY <2>4, PromisedStandingNext
    <2>6. QED BY <2>2, <2>5 DEF Promise!Next, Promise!Opened
  <1>19. CASE ParseWait \/ \E t \in Trans : ParseOrphan(t)
    BY <1>1, <1>19 DEF ParseWait, ParseOrphan
  <1>20. CASE Deliver
    <2> DEFINE e == Head(events)
    <2>1. /\ pc = "callbacks" /\ events # <<>> /\ events' = Tail(events)
          /\ told' = IF e.type \in {"TRANS_DONE", "TRANS_ERROR"} THEN told \cup {e.trans} ELSE told
          /\ UNCHANGED <<alive, status, tstatus>>
      BY <1>20 DEF Deliver
    <2>2. UNCHANGED PromisedLink
      BY <2>1 DEF PromisedLink
    <2>3. CASE \E u \in Users : IsFinal(e, u)
      <3>1. PICK u \in Users : IsFinal(e, u)
        BY <2>3
      <3>2. ~NoFinal(events, u)
        BY <2>1, <3>1, FinalTail DEF TypeOK
      <3>3. tstatus[u] = "DONE" /\ u \notin told
        BY <2>1, <3>2 DEF ToldInv, CompletionFine
      <3>4. told' = told \cup {u}
        BY <2>1, <3>1 DEF IsFinal
      <3>5. PromisedTxn[u] = "done" /\ PromisedTxn' = [PromisedTxn EXCEPT ![u] = "reported"]
        BY <2>1, <3>3, <3>4, PromisedStanding, PromisedStandingNext, PromisedOne
      <3>6. QED BY <2>2, <3>5 DEF Promise!Next, Promise!Report
    <2>4. CASE ~ \E u \in Users : IsFinal(e, u)
      <3>1. \A u \in Users : u \in told' <=> u \in told
        BY <2>1, <2>4 DEF IsFinal
      <3>2. QED BY <2>1, <2>2, <3>1, PromisedSame DEF Promise!vars
    <2>5. QED BY <2>3, <2>4
  <1>21. CASE CallbackReturns \/ AllDelivered \/ Release
    BY <1>1, <1>21 DEF CallbackReturns, AllDelivered, Release
  <1>22. ASSUME NEW t \in Trans, Reap(t)
         PROVE  [Promise!Next]_Promise!vars
    BY <1>22, PromisedDelete DEF Reap
  <1>23. CASE Leave
    BY <1>1, <1>23, PromisedFreed DEF Leave
  <1>24. CASE UNCHANGED vars
    BY <1>1, <1>24 DEF vars
  <1>25. QED
    BY <1>2, <1>3, <1>4, <1>5, <1>7, <1>8, <1>9, <1>10, <1>11, <1>12, <1>13, <1>14, <1>15,
       <1>16, <1>17, <1>18, <1>19, <1>20, <1>21, <1>22, <1>23, <1>24
       DEF Next, ApiCall, Handler, Gone

(* The code keeps the promise of TransPromise: a transaction waits until    *)
(* the connection is up, is decided once, by an answer or with all others   *)
(* that are outstanding when the connection is lost, and is reported once.  *)
THEOREM PromiseKept == Spec => KeepsPromise
  <1>1. Init => Promise!Init
    <2> SUFFICES ASSUME Init PROVE Promise!Init
      OBVIOUS
    <2>1. \A u \in Users : PromisedTxn[u] = "none"
      BY PromisedStanding DEF Init, Trans
    <2>2. PromisedTxn = [u \in Users |-> "none"] /\ PromisedLink = "down"
      BY <2>1, PromisedStanding DEF Init, PromisedLink
    <2>3. QED BY <2>2 DEF Promise!Init
  <1>2. QED BY <1>1, BasisCorrect, ToldCorrect, PromiseStep, PTL DEF Spec, KeepsPromise, Promise!Spec

-----------------------------------------------------------------------------
(* The idle timer.  It is never armed while a transaction is outstanding.   *)

(* No step lets the idle timer run next to an outstanding transaction.      *)
LEMMA IdleStep == Basis /\ IdleTimerStopped /\ [Next]_vars => IdleTimerStopped'
  <1> SUFFICES ASSUME LinkInv, IdleTimerStopped, [Next]_vars
               PROVE  IdleTimerStopped'
    BY DEF Basis
  <1> USE DEF IdleTimerStopped, objVars, linkVars, queueVars, fieldVars, loopVars, histVars
  <1>1. ASSUME timer' = timer \/ timer' # "armed", UNCHANGED trans_pending,
               status = "CONNECTING" => status' = "CONNECTING"
        PROVE  IdleTimerStopped'
    BY <1>1
  <1>2. ASSUME timer' # "armed"
        PROVE  IdleTimerStopped'
    BY <1>2
  <1>3. ASSUME NEW t \in Trans, UNCHANGED status, DeleteUnlocked(t)
        PROVE  IdleTimerStopped'
    <2>1. trans_pending = <<>> => trans_pending' = <<>>
      BY <1>3, ToSetEmpty DEF DeleteUnlocked, QueueTake
    <2>2. QED BY <1>3, <2>1 DEF DeleteUnlocked
  <1>4. ASSUME NEW a \in Threads, NEW t \in Trans, LM_trans_send(a, t)
        PROVE  IdleTimerStopped'
    BY <1>1, <1>2, <1>4 DEF LM_trans_send, TimerStop
  <1>5. ASSUME NEW a \in Threads, NEW t \in Trans, LM_trans_delete(a, t)
        PROVE  IdleTimerStopped'
    BY <1>1, <1>3, <1>5 DEF LM_trans_delete
  <1>6. ASSUME NEW a \in Threads, LM_conn_set_idle_timeout(a)
        PROVE  IdleTimerStopped'
    BY <1>6 DEF LM_conn_set_idle_timeout
  <1>7. ASSUME NEW a \in Threads,
               \/ LM_conn_connect(a) \/ ImplicitConnect(a) \/ RegisterIo(a) \/ LM_conn_destroy(a)
               \/ LM_conn_disconnect(a) \/ LM_conn_disable_ping(a) \/ LM_trans_new(a)
               \/ \E t \in Trans : LM_trans_set_param(a, t) \/ LM_trans_set_timeout(a, t)
        PROVE  IdleTimerStopped'
    BY <1>1, <1>2, <1>7 DEF LM_conn_connect, ImplicitConnect, RegisterIo, ConnConnect,
          LM_conn_destroy, FreeConn, LM_conn_disconnect, DisconnectIo, LM_conn_disable_ping,
          LM_trans_new, LM_trans_set_param, LM_trans_set_timeout
  <1>8. CASE LoopDispatch
    BY <1>1, <1>8 DEF LoopDispatch, DispatchConnected, DispatchClosed, DispatchRead, DispatchWrite,
                DispatchTrigger, DispatchTimer, DispatchTransTimer, Dispatch
  <1>9. CASE HandleConnected
    BY <1>9 DEF HandleConnected, Enter, LinkInv
  <1>10. CASE \/ HandleConnectedNoPing \/ HandleIdleTimeout \/ HandlePingTimeout
              \/ ParseError \/ PingLost \/ SetConnected
              \/ \E type \in {"DISCONNECTED", "ERROR"} : HandleClosed(type)
    BY <1>2, <1>10 DEF HandleConnectedNoPing, HandleIdleTimeout, HandlePingTimeout, ParseError,
          PingLost, SetConnected, HandleClosed, CleanupPing, ConnError
  <1>11. CASE HandleRead \/ HandleWrite \/ HandleTransTimeout
    BY <1>1, <1>11 DEF HandleRead, HandleWrite, HandleTransTimeout
  <1>12. ASSUME NEW t \in Trans, ParseResponse(t)
         PROVE  IdleTimerStopped'
    <2>1. trans_pending = <<>> => QueueTake(trans_pending, t) = <<>>
      BY ToSetEmpty DEF QueueTake
    <2>2. QED BY <1>12, <2>1 DEF ParseResponse, CleanupPing
  <1>13. CASE ParseWait
    BY <1>13 DEF ParseWait
  <1>14. CASE \/ Deliver \/ CallbackReturns \/ AllDelivered \/ Release \/ Leave
              \/ \E t \in Trans : ParseOrphan(t)
    BY <1>1, <1>2, <1>14 DEF ParseOrphan, Deliver, CallbackReturns, AllDelivered, Release, Leave,
                       FreeConn
  <1>15. ASSUME NEW t \in Trans, Reap(t)
         PROVE  IdleTimerStopped'
    BY <1>3, <1>15 DEF Reap
  <1>16. CASE UNCHANGED vars
    BY <1>1, <1>16 DEF vars
  <1>17. QED
    BY <1>4, <1>5, <1>6, <1>7, <1>8, <1>9, <1>10, <1>11, <1>12, <1>13, <1>14, <1>15, <1>16
       DEF Next, ApiCall, Handler, Gone

(* An idle timeout never cuts off a transaction: with one outstanding, the  *)
(* timer is stopped.                                                        *)
THEOREM IdleTimerCorrect == Spec => []IdleTimerStopped
  <1>1. Init => IdleTimerStopped
    BY DEF Init, IdleTimerStopped
  <1>2. QED BY <1>1, BasisCorrect, IdleStep, PTL DEF Spec

-----------------------------------------------------------------------------
(* The end.  The thread that frees the object is the one that would run the *)
(* handler, if no other thread calls LM_conn_destroy.                       *)

(* Nothing happens any more once the object is freed.                       *)
LEMMA GoneForGood == ASSUME ~alive, [Next]_vars PROVE UNCHANGED vars
  <1>1. ASSUME NEW a \in Threads, ApiCall(a) \/ ImplicitConnect(a) \/ RegisterIo(a)
        PROVE  FALSE
    BY <1>1 DEF ApiCall, LM_trans_new, LM_conn_connect, LM_conn_disconnect, LM_conn_disable_ping,
          LM_conn_set_idle_timeout, LM_conn_destroy, LM_trans_set_param, LM_trans_set_timeout,
          LM_trans_send, LM_trans_delete, MayCall, ImplicitConnect, RegisterIo
  <1>2. CASE LoopDispatch
    BY <1>2 DEF LoopDispatch, DispatchConnected, DispatchClosed, DispatchRead, DispatchWrite,
          DispatchTrigger, DispatchTimer, DispatchTransTimer, Dispatch
  <1>3. CASE Handler
    BY <1>3 DEF Handler, HandleConnectedNoPing, HandleConnected, HandleClosed, HandleRead,
          HandleWrite, HandleTransTimeout, HandlePingTimeout, HandleIdleTimeout, Enter,
          ParseResponse, ParseOrphan, ParseWait, ParseError, Parsing, SetConnected, PingLost,
          PingDeleted, Deliver, CallbackReturns, AllDelivered, Reap, Release, Leave
  <1>4. QED BY <1>1, <1>2, <1>3 DEF Next, Gone

(* No step of the loop's thread frees a connection under its handler.       *)
LEMMA OutlivedStep ==
    ASSUME <<"app", "LM_conn_destroy">> \notin Calls
    PROVE  Basis /\ HandlerOutlived /\ [Next]_vars => HandlerOutlived'
  <1> SUFFICES ASSUME HandlerInv, HandlerOutlived, [Next]_vars, ~alive'
               PROVE  pc' = "idle"
    BY DEF Basis, HandlerOutlived
  <1> USE DEF objVars, linkVars, queueVars, fieldVars, loopVars, histVars
  <1>1. CASE ~alive
    BY <1>1, GoneForGood DEF HandlerOutlived, vars
  <1>2. CASE alive
    <2>1. ASSUME NEW a \in Threads, LM_conn_destroy(a)
          PROVE  pc' = "idle"
      <3>1. a = "loop" /\ ~in_use
        BY <1>2, <2>1 DEF LM_conn_destroy, MayCall, Threads, Deferred
      <3>2. QED BY <1>2, <2>1, <3>1 DEF LM_conn_destroy, MayCall, Deferred, HandlerInv
    <2>2. CASE Leave
      BY <2>2 DEF Leave
    <2>3. ASSUME UNCHANGED alive
          PROVE  FALSE
      BY <1>2, <2>3
    <2>4. QED
      BY <1>2, <2>1, <2>2, <2>3, ZenonT(40) DEF Next, ApiCall, Handler, Gone, vars, LoopDispatch,
            LM_trans_new, LM_conn_connect, LM_conn_disconnect, LM_conn_disable_ping,
            LM_conn_set_idle_timeout, LM_trans_set_param, LM_trans_set_timeout,
            LM_trans_send, LM_trans_delete, ImplicitConnect, RegisterIo,
            DispatchConnected, DispatchClosed, DispatchRead, DispatchWrite, DispatchTrigger,
            DispatchTimer, DispatchTransTimer, Dispatch,
            HandleConnectedNoPing, HandleConnected, HandleClosed, HandleRead, HandleWrite,
            HandleTransTimeout, HandlePingTimeout, HandleIdleTimeout, Enter, ParseResponse,
            ParseOrphan, ParseWait, ParseError, SetConnected, PingLost, PingDeleted,
            Deliver, CallbackReturns, AllDelivered, Reap, Release
  <1>3. QED BY <1>1, <1>2

(* No handler is running once the object is freed, unless a thread that     *)
(* does not run the event loop frees it.                                    *)
THEOREM OutlivedCorrect ==
    ASSUME <<"app", "LM_conn_destroy">> \notin Calls
    PROVE  Spec => []HandlerOutlived
  <1>1. Init => HandlerOutlived
    BY DEF Init, HandlerOutlived
  <1>2. QED BY <1>1, BasisCorrect, OutlivedStep, PTL DEF Spec

-----------------------------------------------------------------------------
(* Handles.  If only callbacks delete transactions, what the application    *)
(* may still delete and what a delayed delete, an event, the handler or a   *)
(* timer names are objects that exist.                                      *)

HeldInv ==
    /\ \A t \in Users : t \in held \cup delay_rm => tstatus[t] # "FREE"
    /\ held \cap delay_rm \cap Users = {}
    /\ pc \in {"idle", "dispatched", "reading", "ping", "leaving"} => delay_rm \cap Users = {}
    /\ EventTransValid
    /\ alive /\ pc = "dispatched" /\ ev.trans # NoTrans =>
          ev.trans \in Users /\ tstatus[ev.trans] # "FREE"
    /\ alive => \A t \in Trans : ttimer[t] # "none" =>
          t \in Users /\ tstatus[t] = "PENDING" /\ t \notin delay_rm

(* The event pointers are those of the entries of the list.                 *)
LEMMA ValidByEntry ==
    /\ EventTransValid <=> \A e \in ToSet(events) : e.trans # NoTrans => tstatus[e.trans] # "FREE"
    /\ EventTransValid' <=> \A e \in ToSet(events') : e.trans # NoTrans => tstatus'[e.trans] # "FREE"
  BY DEF EventTransValid, ToSet

(* The events of a queue name its entries, those of a lost connection what  *)
(* waits and what is pending.                                               *)
LEMMA EventsForEntries ==
    ASSUME NEW q \in Seq(Trans), NEW type
    PROVE  \A e \in ToSet(EventsFor(type, q)) : e.type = type /\ e.trans \in ToSet(q)
  BY DEF EventsFor, ToSet, UserEvent

(* A loss tells only of transactions that were in a queue, and it closes.   *)
LEMMA LossEntries ==
    ASSUME TypeOK, NEW type
    PROVE  \A e \in ToSet(LossEvents(type)) :
              \/ e.type = "TRANS_NOCONNECT" /\ e.trans \in ToSet(trans_ready)
              \/ e.type = "TRANS_ERROR" /\ e.trans \in ToSet(trans_pending)
              \/ e.type \in {"CONN_DISCONNECT", "CONN_ERROR"} /\ e.trans = NoTrans
  <1> DEFINE errors == EventsFor("TRANS_ERROR", trans_pending)
             refused == EventsFor("TRANS_NOCONNECT", trans_ready)
  <1>1. trans_pending \in Seq(Trans) /\ trans_ready \in Seq(Trans)
    BY DEF TypeOK
  <1>2. errors \in Seq(Event) /\ refused \in Seq(Event)
    BY <1>1, EventsForType DEF TransEvents
  <1>3. /\ \A e \in ToSet(errors) : e.type = "TRANS_ERROR" /\ e.trans \in ToSet(trans_pending)
        /\ \A e \in ToSet(refused) : e.type = "TRANS_NOCONNECT" /\ e.trans \in ToSet(trans_ready)
    BY <1>1, EventsForEntries
  <1> HIDE DEF errors, refused
  <1>4. /\ Refused \in Seq(Event)
        /\ \A e \in ToSet(Refused) : e.type = "TRANS_NOCONNECT" /\ e.trans \in ToSet(trans_ready)
    BY <1>2, <1>3, ToSetEmpty DEF Refused, refused
  <1> DEFINE c == Refused \o errors
             last == CloseEvent(type)
  <1>5. c \in Seq(Event) /\ ToSet(c) = ToSet(Refused) \cup ToSet(errors)
    BY <1>2, <1>4, ToSetConcat
  <1>6. last \in Event /\ last.trans = NoTrans /\ last.type \in {"CONN_DISCONNECT", "CONN_ERROR"}
    BY EventTypes DEF CloseEvent, ConnEvents, UserEvent
  <1>7. LossEvents(type) = Append(c, last)
    BY DEF LossEvents, errors
  <1> HIDE DEF c, last
  <1>8. ToSet(LossEvents(type)) = ToSet(c) \cup {last}
    BY <1>5, <1>6, <1>7, ToSetAppend
  <1>9. QED BY <1>3, <1>4, <1>5, <1>6, <1>8

(* The head of a list and what is behind it.                                *)
LEMMA HeadTailEntries ==
    ASSUME NEW S, NEW q \in Seq(S), q # <<>>
    PROVE  Head(q) \in ToSet(q) /\ ToSet(Tail(q)) \subseteq ToSet(q)
  <1>1. /\ Len(q) \in Nat \ {0} /\ Tail(q) \in Seq(S) /\ Len(Tail(q)) = Len(q) - 1
        /\ \A i \in 1 .. Len(Tail(q)) : Tail(q)[i] = q[i + 1]
        /\ Head(q) = q[1]
    BY HeadTailProperties, EmptySeq
  <1>2. /\ ToSet(q) = {q[i] : i \in 1 .. Len(q)}
        /\ ToSet(Tail(q)) = {Tail(q)[i] : i \in 1 .. Len(Tail(q))}
    BY <1>1, ToSetByIndex
  <1>3. \A i \in 1 .. Len(Tail(q)) : i + 1 \in 1 .. Len(q) /\ Tail(q)[i] = q[i + 1]
    BY <1>1
  <1>4. 1 \in 1 .. Len(q)
    BY <1>1
  <1>5. QED BY <1>1, <1>2, <1>3, <1>4

(* Steps that free nothing keep the pointers in the list valid.             *)
LEMMA ValidKept ==
    ASSUME TypeOK, EventTransValid, ToSet(events') \subseteq ToSet(events),
           \A t \in Trans : tstatus'[t] = "FREE" => tstatus[t] = "FREE"
    PROVE  EventTransValid'
  <1>1. \A e \in ToSet(events) : e.trans \in Trans \cup {NoTrans}
    BY ToSetByIndex, EventTypes DEF TypeOK
  <1>2. QED BY <1>1, ValidByEntry

(* Steps that concern none of this.                                         *)
LEMMA HeldKept ==
    ASSUME TypeOK, HeldInv, alive, UNCHANGED <<held, ttimer, events>>,
           \A t \in Users : /\ tstatus'[t] = tstatus[t]
                            /\ t \in delay_rm' => t \in delay_rm,
           \A t \in Trans : tstatus'[t] = "FREE" => tstatus[t] = "FREE",
           \/ pc' \notin {"idle", "dispatched", "reading", "ping", "leaving"}
           \/ pc \in {"idle", "dispatched", "reading", "ping", "leaving"}
           \/ delay_rm' = {},
           pc' = "dispatched" => pc = "dispatched" /\ UNCHANGED ev
    PROVE  HeldInv'
  <1>1. EventTransValid'
    BY ValidKept DEF HeldInv
  <1>2. QED BY <1>1 DEF HeldInv

(* LM_conn_destroy.                                                         *)
LEMMA HeldFreed == ASSUME FreeConn, events = <<>> PROVE HeldInv'
  BY DEF FreeConn, HeldInv, EventTransValid

(* LM_trans_delete_unlocked, of what the application cannot delete again.   *)
LEMMA HeldDeleted ==
    ASSUME TypeOK, HeldInv, NEW t \in Trans, DeleteUnlocked(t), events = <<>>,
           UNCHANGED <<events, pc, alive, ev>>, pc # "dispatched",
           held' \subseteq held, t \in Users => t \notin held', delay_rm' = delay_rm \ {t},
           \/ ttimer' = StopTimeout(t)
           \/ UNCHANGED ttimer /\ t \in delay_rm
    PROVE  HeldInv'
  <1>1. \A u \in Trans : tstatus'[u] = IF u = t THEN "FREE" ELSE tstatus[u]
    BY DEF DeleteUnlocked, TypeOK
  <1>2. \A u \in Trans : u # t => ttimer'[u] = ttimer[u]
    BY DEF StopTimeout, TypeOK
  <1>3. alive => ttimer'[t] = "none"
    BY DEF StopTimeout, TypeOK, HeldInv
  <1>4. EventTransValid'
    BY DEF EventTransValid
  <1>5. QED BY <1>1, <1>2, <1>3, <1>4 DEF HeldInv, Trans

(* LM_conn_event_handle_conn_error.                                         *)
LEMMA HeldLost ==
    ASSUME TypeOK, QueueInv, HeldInv, alive, NEW type, ConnError(type), UNCHANGED held,
           pc' = "callbacks",
           \A t \in Users : t \in delay_rm' => t \in delay_rm
    PROVE  HeldInv'
  <1>0. trans_pending \in Seq(Trans) /\ trans_ready \in Seq(Trans) /\ events \in Seq(Event)
    BY DEF TypeOK
  <1>1. \A u \in Trans :
            /\ tstatus'[u] = IF u \in ToSet(trans_pending) THEN "DONE" ELSE tstatus[u]
            /\ ttimer'[u] = IF u \in ToSet(trans_pending) THEN "none" ELSE ttimer[u]
    BY DEF ConnError, Abandoned
  <1>2. \A u \in ToSet(trans_pending) : u \in Trans /\ tstatus[u] = "PENDING"
    BY <1>0, ToSetByIndex DEF QueueInv
  <1>3. \A u \in ToSet(trans_ready) : u \in Trans /\ tstatus[u] = "READY"
    BY DEF QueueInv
  <1>4. \A u \in Users : u \in Trans /\ (tstatus[u] = "PENDING" => u \in ToSet(trans_pending))
    BY ConnAssumption DEF QueueInv, Trans
  <1>5. EventTransValid'
    <2>1. ToSet(events') = ToSet(events) \cup ToSet(LossEvents(type))
      BY <1>0, LossEventsType, ToSetConcat DEF ConnError
    <2>2. \A e \in ToSet(events) : e.trans \in Trans \cup {NoTrans}
      BY <1>0, ToSetByIndex, EventTypes
    <2>3. EventTransValid
      BY DEF HeldInv
    <2>4. \A e \in ToSet(events) : e.trans # NoTrans => tstatus'[e.trans] # "FREE"
      BY <1>1, <2>2, <2>3, ValidByEntry
    <2>5. \A e \in ToSet(LossEvents(type)) : e.trans # NoTrans => tstatus'[e.trans] # "FREE"
      BY <1>1, <1>2, <1>3, LossEntries
    <2>6. QED BY <2>1, <2>4, <2>5, ValidByEntry
  <1>6. QED BY <1>1, <1>4, <1>5 DEF HeldInv

(* No step breaks HeldInv when deletes come from the loop's thread.         *)
LEMMA HeldStep ==
    ASSUME <<"app", "LM_trans_delete">> \notin Calls
    PROVE  Basis /\ HeldInv /\ [Next]_vars => HeldInv'
  <1> SUFFICES ASSUME TypeOK, QueueInv, HandlerInv, StandingInv, HeldInv, [Next]_vars, alive
               PROVE  HeldInv'
    BY GoneForGood DEF Basis, vars, HeldInv, EventTransValid, objVars, linkVars, queueVars,
          fieldVars, loopVars, histVars
  <1> USE DEF objVars, linkVars, queueVars, fieldVars, loopVars, histVars
  <1>0. /\ tstatus \in [Trans -> TransStatus] /\ ttimer \in [Trans -> {"none", "armed", "fired"}]
        /\ events \in Seq(Event) /\ \A u \in Users : u \in Trans /\ u # NoTrans /\ u \notin Pings
    BY ConnAssumption DEF TypeOK, Trans
  <1>1. ASSUME NEW a \in Threads, LM_trans_new(a)
        PROVE  HeldInv'
    <2>1. PICK t \in Users : /\ tstatus' = [tstatus EXCEPT ![t] = "NEW"]
                             /\ Unused(t) /\ held' = held \cup {t}
      BY <1>1 DEF LM_trans_new
    <2>2. UNCHANGED <<alive, events, ttimer, pc, ev, delay_rm>>
      BY <1>1 DEF LM_trans_new
    <2>3. /\ \A u \in Trans : tstatus'[u] = IF u = t THEN "NEW" ELSE tstatus[u]
          /\ tstatus[t] = "FREE" /\ ttimer[t] = "none"
      BY <1>0, <2>1 DEF Unused
    <2>4. EventTransValid'
      BY <2>2, <2>3, ValidKept DEF HeldInv
    <2>5. t \notin delay_rm
      BY <2>3 DEF HeldInv
    <2>6. QED BY <1>0, <2>1, <2>2, <2>3, <2>4, <2>5 DEF HeldInv
  <1>2. ASSUME NEW a \in Threads, NEW t \in Trans, LM_trans_send(a, t)
        PROVE  HeldInv'
    <2>1. /\ t \in held /\ tstatus[t] = "NEW"
          /\ UNCHANGED <<alive, events, pc, ev, delay_rm, held>>
      BY <1>2 DEF LM_trans_send
    <2>2. t \in Users /\ t \notin delay_rm
      BY <2>1 DEF StandingInv, HeldInv, Trans
    <2>3. \A u \in Trans :
            /\ tstatus'[u] = IF u # t THEN tstatus[u] ELSE IF CanSend THEN "PENDING" ELSE "READY"
            /\ u # t \/ ~CanSend => ttimer'[u] = ttimer[u]
      <3>1. CASE CanSend
        <4> DEFINE ready == Append(trans_ready, t)
        <4>1. SendReady(ready)
          BY <1>2, <3>1 DEF LM_trans_send
        <4>2. ToSet(trans_ready) = {}
          BY <3>1, ToSetEmpty DEF CanSend, StandingInv
        <4>3. ToSet(ready) = ToSet(trans_ready) \cup {t}
          BY ToSetAppend DEF TypeOK
        <4> HIDE DEF ready
        <4>4. QED BY <3>1, <4>1, <4>2, <4>3 DEF SendReady
      <3>2. CASE ~CanSend
        <4>1. tstatus' = [tstatus EXCEPT ![t] = "READY"] /\ UNCHANGED ttimer
          BY <1>2, <3>2 DEF LM_trans_send
        <4>2. QED BY <1>0, <3>2, <4>1
      <3>3. QED BY <3>1, <3>2
    <2>4. EventTransValid'
      BY <2>1, <2>3, ValidKept DEF HeldInv
    <2>5. ~CanSend => ttimer'[t] = "none"
      BY <1>0, <2>1, <2>3 DEF HeldInv
    <2>6. QED BY <1>0, <2>1, <2>2, <2>3, <2>4, <2>5 DEF HeldInv
  <1>3. ASSUME NEW a \in Threads, NEW t \in Trans, LM_trans_delete(a, t)
        PROVE  HeldInv'
    <2>1. /\ pc \in {"idle", "callback"} /\ t \in held /\ held' = held \ {t}
          /\ ttimer' = StopTimeout(t) /\ UNCHANGED <<alive, events, pc, ev>>
      BY <1>3 DEF LM_trans_delete, MayCall, Threads
    <2>2. CASE Deferred
      <3>1. UNCHANGED tstatus /\ delay_rm' = delay_rm \cup {t} /\ pc = "callback"
        BY <1>3, <2>1, <2>2 DEF LM_trans_delete, HandlerInv, Deferred
      <3>2. \A u \in Trans : ttimer'[u] = IF u = t THEN "none" ELSE ttimer[u]
        BY <1>0, <2>1 DEF StopTimeout
      <3>3. EventTransValid'
        BY <2>1, <3>1, ValidKept DEF HeldInv
      <3>4. QED BY <2>1, <3>1, <3>2, <3>3 DEF HeldInv
    <2>3. CASE ~Deferred
      <3>1. delay_rm = {} /\ events = <<>> /\ DeleteUnlocked(t) /\ UNCHANGED delay_rm
        BY <1>3, <2>1, <2>3 DEF LM_trans_delete, HandlerInv, Deferred
      <3>2. QED BY <2>1, <3>1, HeldDeleted
    <2>4. QED BY <2>2, <2>3
  <1>4. ASSUME NEW a \in Threads, LM_conn_destroy(a)
        PROVE  HeldInv'
    <2>1. CASE Deferred
      BY <1>4, <2>1, HeldKept DEF LM_conn_destroy
    <2>2. CASE ~Deferred
      BY <1>4, <2>2, HeldFreed DEF LM_conn_destroy, MayCall, Deferred, HandlerInv
    <2>3. QED BY <2>1, <2>2
  <1>5. ASSUME NEW a \in Threads,
               \/ LM_conn_connect(a) \/ LM_conn_disconnect(a) \/ LM_conn_disable_ping(a)
               \/ LM_conn_set_idle_timeout(a) \/ ImplicitConnect(a) \/ RegisterIo(a)
               \/ \E t \in Trans : LM_trans_set_param(a, t) \/ LM_trans_set_timeout(a, t)
        PROVE  HeldInv'
    BY <1>5, HeldKept DEF LM_conn_connect, LM_conn_disconnect, LM_conn_disable_ping,
          LM_conn_set_idle_timeout, ImplicitConnect, RegisterIo, LM_trans_set_param,
          LM_trans_set_timeout
  <1>6. CASE LoopDispatch
    <2>1. /\ pc = "idle" /\ pc' = "dispatched"
          /\ UNCHANGED <<alive, events, tstatus, held, delay_rm>>
      BY <1>6 DEF LoopDispatch, DispatchConnected, DispatchClosed, DispatchRead, DispatchWrite,
                DispatchTrigger, DispatchTimer, DispatchTransTimer, Dispatch
    <2>2. EventTransValid'
      BY <2>1, ValidKept DEF HeldInv
    <2>3. ASSUME NEW t \in Trans, DispatchTransTimer(t)
          PROVE  HeldInv'
      <3>1. ev'.trans = t /\ ttimer[t] = "armed" /\ ttimer' = [ttimer EXCEPT ![t] = "fired"]
        BY <2>3 DEF DispatchTransTimer, Dispatch, UserEvent
      <3>2. \A u \in Trans : ttimer'[u] = IF u = t THEN "fired" ELSE ttimer[u]
        BY <1>0, <3>1
      <3>3. QED BY <2>1, <2>2, <3>1, <3>2 DEF HeldInv
    <2>4. ASSUME UNCHANGED ttimer, NEW type, Dispatch(type, NoTrans)
          PROVE  HeldInv'
      <3>1. ev'.trans = NoTrans
        BY <2>4 DEF Dispatch, UserEvent
      <3>2. QED BY <2>1, <2>2, <2>4, <3>1 DEF HeldInv
    <2>5. QED BY <1>6, <2>3, <2>4
                 DEF LoopDispatch, DispatchConnected, DispatchClosed, DispatchRead, DispatchWrite,
                     DispatchTrigger, DispatchTimer
  <1>7. CASE HandleConnected
    <2>1. PICK p \in Pings : tstatus' = [tstatus EXCEPT ![p] = "PENDING"]
      BY <1>7 DEF HandleConnected
    <2>2. \A u \in Trans : tstatus'[u] = IF u = p THEN "PENDING" ELSE tstatus[u]
      BY <1>0, <2>1
    <2>3. UNCHANGED <<events, ttimer, held, delay_rm>> /\ pc' = "callbacks"
      BY <1>7 DEF HandleConnected, Enter
    <2>4. QED BY <1>0, <2>2, <2>3, HeldKept
  <1>8. CASE HandleTransTimeout
    <2> DEFINE t == ev.trans
               e == UserEvent("TRANS_TIMEOUT", t)
    <2>1. /\ events' = Append(events, e) /\ ttimer' = StopTimeout(t)
          /\ pc' = "callbacks" /\ UNCHANGED <<alive, tstatus, held, delay_rm>>
      BY <1>8 DEF HandleTransTimeout, Enter
    <2>2. t \in Trans /\ tstatus[t] # "FREE"
      BY <1>0, <1>8 DEF HandleTransTimeout, Enter, IsTransTimer, HeldInv
    <2>3. e \in Event /\ e.trans = t
      BY <2>2, EventTypes DEF TransEvents, UserEvent
    <2> HIDE DEF e, t
    <2>4. ToSet(events') = ToSet(events) \cup {e}
      BY <1>0, <2>1, <2>3, ToSetAppend
    <2>5. EventTransValid'
      BY <2>1, <2>2, <2>3, <2>4, ValidByEntry DEF HeldInv
    <2>6. \A u \in Trans : ttimer'[u] = IF u = t THEN "none" ELSE ttimer[u]
      BY <1>0, <2>1 DEF StopTimeout
    <2>7. QED BY <2>1, <2>5, <2>6 DEF HeldInv
  <1>9. CASE \/ HandleConnectedNoPing \/ HandleRead \/ HandleWrite \/ HandlePingTimeout
             \/ HandleIdleTimeout \/ ParseWait \/ \E t \in Trans : ParseOrphan(t)
    BY <1>9, HeldKept DEF HandleConnectedNoPing, HandleRead, HandleWrite, HandlePingTimeout,
          HandleIdleTimeout, Enter, CleanupPing, ParseWait, ParseOrphan, Parsing
  <1>10. CASE ParseError \/ \E type \in {"DISCONNECTED", "ERROR"} : HandleClosed(type)
    BY <1>10, HeldLost DEF HandleClosed, ParseError, Enter
  <1>11. CASE PingLost
    <2>1. \A u \in Users : u \in delay_rm' => u \in delay_rm
      BY <1>0, <1>11 DEF PingLost, PingDeleted, TypeOK
    <2>2. QED BY <1>11, <2>1, HeldLost DEF PingLost, PingDeleted
  <1>12. ASSUME NEW t \in Trans, ParseResponse(t)
         PROVE  HeldInv'
    <2>1. /\ pc = "reading" /\ tstatus' = [tstatus EXCEPT ![t] = "DONE"]
          /\ UNCHANGED <<alive, held, delay_rm, ev>>
      BY <1>12 DEF ParseResponse, Parsing
    <2>2. \A u \in Trans : tstatus'[u] = IF u = t THEN "DONE" ELSE tstatus[u]
      BY <1>0, <2>1
    <2>3. CASE t = pingtxn
      <3>1. UNCHANGED <<events, ttimer>> /\ pc' = "ping" /\ t \notin Users
        BY <1>0, <1>12, <2>3 DEF ParseResponse, CleanupPing, TypeOK
      <3>2. EventTransValid'
        BY <2>2, <3>1, ValidKept DEF HeldInv
      <3>3. QED BY <2>1, <2>2, <3>1, <3>2 DEF HeldInv
    <2>4. CASE t # pingtxn
      <3> DEFINE e == UserEvent("TRANS_DONE", t)
      <3>1. events' = Append(events, e) /\ ttimer' = StopTimeout(t) /\ UNCHANGED pc
        BY <1>12, <2>4 DEF ParseResponse
      <3>2. e \in Event /\ e.trans = t
        BY EventTypes DEF TransEvents, UserEvent
      <3> HIDE DEF e
      <3>3. ToSet(events') = ToSet(events) \cup {e}
        BY <1>0, <3>1, <3>2, ToSetAppend
      <3>4. \A d \in ToSet(events) : d.trans \in Trans \cup {NoTrans}
        BY <1>0, ToSetByIndex, EventTypes
      <3>5. EventTransValid'
        BY <2>2, <3>2, <3>3, <3>4, ValidByEntry DEF HeldInv
      <3>6. \A u \in Trans : ttimer'[u] = IF u = t THEN "none" ELSE ttimer[u]
        BY <1>0, <3>1 DEF StopTimeout
      <3>7. QED BY <2>1, <2>2, <3>1, <3>5, <3>6 DEF HeldInv
    <2>5. QED BY <2>3, <2>4
  <1>13. CASE SetConnected
    <2> DEFINE e == UserEvent("CONN_CONNECTED", NoTrans)
    <2>1. /\ SendReady(trans_ready) /\ pc = "ping" /\ UNCHANGED <<alive, held, ev>>
          /\ events' = Append(events, e) /\ pc' \in {"callbacks", "reading"}
      BY <1>13 DEF SetConnected, PingDeleted
    <2>2. \A u \in Users : u \notin delay_rm /\ u \notin delay_rm'
      BY <1>0, <1>13, <2>1 DEF SetConnected, PingDeleted, TypeOK, HeldInv
    <2>3. \A u \in ToSet(trans_ready) : u \in Users
      BY DEF QueueInv, StandingInv, Trans
    <2>4. \A u \in Trans :
            /\ tstatus'[u] = IF u \in ToSet(trans_ready) THEN "PENDING" ELSE tstatus[u]
            /\ u \notin ToSet(trans_ready) => ttimer'[u] = ttimer[u]
      BY <2>1 DEF SendReady
    <2>5. e \in Event /\ e.trans = NoTrans
      BY EventTypes DEF ConnEvents, UserEvent
    <2> HIDE DEF e
    <2>6. ToSet(events') = ToSet(events) \cup {e}
      BY <1>0, <2>1, <2>5, ToSetAppend
    <2>7. \A d \in ToSet(events) : d.trans \in Trans \cup {NoTrans}
      BY <1>0, ToSetByIndex, EventTypes
    <2>8. EventTransValid'
      BY <2>4, <2>5, <2>6, <2>7, ValidByEntry DEF HeldInv
    <2>9. QED BY <1>0, <2>1, <2>2, <2>3, <2>4, <2>8 DEF HeldInv
  <1>14. CASE Deliver
    <2> DEFINE e == Head(events)
    <2>1. /\ events # <<>> /\ events' = Tail(events) /\ pc' = "callback"
          /\ held' = IF e.trans # NoTrans /\ e.trans \notin delay_rm THEN held \cup {e.trans} ELSE held
          /\ UNCHANGED <<alive, tstatus, ttimer, delay_rm>>
      BY <1>14 DEF Deliver
    <2>2. e \in ToSet(events) /\ ToSet(events') \subseteq ToSet(events)
      BY <1>0, <2>1, HeadTailEntries
    <2> HIDE DEF e
    <2>3. e.trans # NoTrans => tstatus[e.trans] # "FREE"
      BY <2>2, ValidByEntry DEF HeldInv
    <2>4. EventTransValid'
      BY <2>1, <2>2, ValidKept DEF HeldInv
    <2>5. QED BY <2>1, <2>3, <2>4 DEF HeldInv
  <1>15. CASE CallbackReturns
    <2>1. /\ pc' \in {"reap", "callbacks"} /\ events' \in {events, <<>>}
          /\ UNCHANGED <<alive, tstatus, ttimer, held, delay_rm>>
      BY <1>15 DEF CallbackReturns
    <2>2. ToSet(events') \subseteq ToSet(events)
      BY <2>1, ToSetEmpty
    <2>3. EventTransValid'
      BY <2>1, <2>2, ValidKept DEF HeldInv
    <2>4. QED BY <2>1, <2>3 DEF HeldInv
  <1>16. CASE AllDelivered \/ Release
    BY <1>16, HeldKept DEF AllDelivered, Release, Reaped
  <1>17. ASSUME NEW t \in Trans, Reap(t)
         PROVE  HeldInv'
    <2>1. /\ DeleteUnlocked(t) /\ t \in delay_rm /\ delay_rm' = delay_rm \ {t} /\ events = <<>>
          /\ pc = "reap" /\ UNCHANGED <<events, pc, alive, ev, held, ttimer>>
      BY <1>17 DEF Reap, HandlerInv
    <2>2. t \in Users => t \notin held
      BY <2>1 DEF HeldInv
    <2>3. QED BY <2>1, <2>2, HeldDeleted
  <1>18. CASE Leave
    <2>1. CASE DestroyIsSet
      BY <1>18, <2>1, HeldFreed DEF Leave, HandlerInv
    <2>2. CASE ~DestroyIsSet
      BY <1>18, <2>2, HeldKept DEF Leave
    <2>3. QED BY <2>1, <2>2
  <1>19. CASE UNCHANGED vars
    BY <1>19, HeldKept DEF vars
  <1>20. QED
    BY <1>1, <1>2, <1>3, <1>4, <1>5, <1>6, <1>7, <1>8, <1>9, <1>10, <1>11, <1>12, <1>13, <1>14,
       <1>15, <1>16, <1>17, <1>18, <1>19 DEF Next, ApiCall, Handler, Gone

(* HeldInv holds in every state the library reaches.                        *)
LEMMA HeldCorrect ==
    ASSUME <<"app", "LM_trans_delete">> \notin Calls
    PROVE  Spec => []HeldInv
  <1>1. Init => HeldInv
    BY DEF Init, HeldInv, EventTransValid
  <1>2. QED BY <1>1, BasisCorrect, HeldStep, PTL DEF Spec

(* The callback never gets a pointer to a freed transaction if only         *)
(* callbacks delete transactions.                                           *)
THEOREM PointersCorrect ==
    ASSUME <<"app", "LM_trans_delete">> \notin Calls
    PROVE  Spec => []EventTransValid
  <1>1. HeldInv => EventTransValid
    BY DEF HeldInv
  <1>2. QED BY <1>1, HeldCorrect, PTL

(* No timeout is left behind by a transaction that is decided or deleted,   *)
(* under the same condition.                                                *)
THEOREM TimeoutsCorrect ==
    ASSUME <<"app", "LM_trans_delete">> \notin Calls
    PROVE  Spec => []TimeoutOnlyPending
  <1>1. HeldInv => TimeoutOnlyPending
    BY DEF HeldInv, TimeoutOnlyPending
  <1>2. QED BY <1>1, HeldCorrect, PTL

-----------------------------------------------------------------------------
(* Waiting.                                                                 *)

(* How LM_trans_delete_unlocked changes the status of transactions.         *)
LEMMA DeleteStatus ==
    ASSUME TypeOK, NEW t \in Trans, DeleteUnlocked(t)
    PROVE  \A u \in Users : tstatus'[u] = IF u = t THEN "FREE" ELSE tstatus[u]
  BY DEF DeleteUnlocked, TypeOK, Trans

(* What one step may do to a transaction that waits.                        *)
LEMMA ReadyStep ==
    Basis /\ HeldInv /\ [Next]_vars =>
        \A t \in Users : tstatus[t] = "READY" /\ tstatus'[t] # "READY" =>
            \/ tstatus'[t] = "PENDING" /\ status' = "CONNECTED"
            \/ tstatus'[t] = "FREE" /\ (t \notin held' \/ ~alive')
  <1> SUFFICES ASSUME TypeOK, QueueInv, StandingInv, HeldInv, [Next]_vars, NEW t \in Users,
                      tstatus[t] = "READY", tstatus'[t] # "READY"
               PROVE  \/ tstatus'[t] = "PENDING" /\ status' = "CONNECTED"
                      \/ tstatus'[t] = "FREE" /\ (t \notin held' \/ ~alive')
    BY DEF Basis
  <1> DEFINE Served == tstatus'[t] = "PENDING" /\ status' = "CONNECTED"
             Freed  == tstatus'[t] = "FREE" /\ (t \notin held' \/ ~alive')
  <1> USE DEF objVars, linkVars, queueVars, fieldVars, loopVars, histVars
  <1>0. tstatus \in [Trans -> TransStatus] /\ t \in Trans /\ t \notin Pings
    BY ConnAssumption DEF TypeOK, Trans
  <1>1. ASSUME UNCHANGED vars PROVE FALSE
    BY <1>1 DEF vars
  <1>2. ASSUME NEW a \in Threads, LM_trans_new(a)
        PROVE  FALSE
    BY <1>0, <1>2 DEF LM_trans_new, Unused
  <1>3. ASSUME NEW a \in Threads, NEW u \in Trans, LM_trans_send(a, u)
        PROVE  FALSE
    <2>1. CASE CanSend
      <3>1. alive /\ trans_ready = <<>>
        BY <1>3, <2>1 DEF LM_trans_send, MayCall, StandingInv, CanSend
      <3>2. QED BY <1>0, <3>1, ToSetEmpty DEF QueueInv
    <2>2. CASE ~CanSend
      BY <1>0, <1>3, <2>2 DEF LM_trans_send
    <2>3. QED BY <2>1, <2>2
  <1>4. ASSUME NEW a \in Threads, NEW u \in Trans, LM_trans_delete(a, u)
        PROVE  Freed
    BY <1>4, DeleteStatus DEF LM_trans_delete
  <1>5. ASSUME NEW a \in Threads, LM_conn_destroy(a)
        PROVE  Freed
    BY <1>0, <1>5 DEF LM_conn_destroy, FreeConn
  <1>6. ASSUME NEW a \in Threads,
               \/ LM_conn_connect(a) \/ LM_conn_disconnect(a) \/ LM_conn_disable_ping(a)
               \/ LM_conn_set_idle_timeout(a) \/ ImplicitConnect(a) \/ RegisterIo(a)
               \/ \E u \in Trans : LM_trans_set_param(a, u) \/ LM_trans_set_timeout(a, u)
        PROVE  FALSE
    BY <1>6 DEF LM_conn_connect, LM_conn_disconnect, LM_conn_disable_ping,
          LM_conn_set_idle_timeout, ImplicitConnect, RegisterIo, LM_trans_set_param,
          LM_trans_set_timeout
  <1>7. CASE LoopDispatch
    BY <1>7 DEF LoopDispatch, DispatchConnected, DispatchClosed, DispatchRead, DispatchWrite,
                DispatchTrigger, DispatchTimer, DispatchTransTimer, Dispatch
  <1>8. CASE HandleConnected
    BY <1>0, <1>8 DEF HandleConnected
  <1>9. CASE \/ HandleConnectedNoPing \/ HandleRead \/ HandleWrite \/ HandleTransTimeout
             \/ HandlePingTimeout \/ HandleIdleTimeout \/ ParseWait
             \/ \E u \in Trans : ParseOrphan(u)
    BY <1>9 DEF HandleConnectedNoPing, HandleRead, HandleWrite, HandleTransTimeout,
                HandlePingTimeout, HandleIdleTimeout, ParseWait, ParseOrphan
  <1>10. CASE \/ PingLost \/ ParseError
              \/ \E type \in {"DISCONNECTED", "ERROR"} : HandleClosed(type)
    BY <1>0, <1>10 DEF HandleClosed, ParseError, PingLost, ConnError, Abandoned, QueueInv
  <1>11. ASSUME NEW u \in Trans, ParseResponse(u)
         PROVE  FALSE
    BY <1>0, <1>11 DEF ParseResponse
  <1>12. CASE SetConnected
    BY <1>0, <1>12 DEF SetConnected, SendReady, QueueInv
  <1>13. CASE Deliver \/ CallbackReturns \/ AllDelivered \/ Release
    BY <1>13 DEF Deliver, CallbackReturns, AllDelivered, Release
  <1>14. ASSUME NEW u \in Trans, Reap(u)
         PROVE  Freed
    <2>1. DeleteUnlocked(u) /\ u \in delay_rm /\ UNCHANGED held
      BY <1>14 DEF Reap
    <2>2. u = t /\ tstatus'[t] = "FREE"
      BY <2>1, DeleteStatus
    <2>3. QED BY <2>1, <2>2 DEF HeldInv
  <1>15. CASE Leave
    BY <1>0, <1>15 DEF Leave, FreeConn
  <1>16. QED
    BY <1>2, <1>3, <1>4, <1>5, <1>6, <1>7, <1>8, <1>9, <1>10, <1>11, <1>12, <1>13, <1>14,
       <1>15, <1>1 DEF Next, ApiCall, Handler, Gone

(* A waiting transaction leaves the queue for the wire of an established    *)
(* connection or because it is deleted; failures leave it where it is.      *)
THEOREM ReadyCorrect ==
    ASSUME <<"app", "LM_trans_delete">> \notin Calls
    PROVE  Spec => ReadySurvives
  BY BasisCorrect, HeldCorrect, ReadyStep, PTL DEF Spec, ReadySurvives

-----------------------------------------------------------------------------
(* What the handler was entered for.                                        *)

EntryInv ==
    alive =>
        /\ pc = "reading" => ev.type = "READ"
        /\ pc = "ping" /\ ev.type = "CONNECTED" => disable_ping

(* No step of a thread or of the handler breaks EntryInv.                   *)
LEMMA EntryStep == EntryInv /\ [Next]_vars => EntryInv'
  <1> SUFFICES ASSUME EntryInv, [Next]_vars, alive'
               PROVE  EntryInv'
    BY DEF EntryInv
  <1> USE DEF EntryInv, objVars, linkVars, confVars, queueVars, fieldVars, loopVars, histVars
  <1>1. ASSUME NEW a \in Threads, ApiCall(a) \/ ImplicitConnect(a) \/ RegisterIo(a)
        PROVE  EntryInv'
    <2>1. alive /\ UNCHANGED <<pc, ev>> /\ (disable_ping => disable_ping')
      BY <1>1 DEF ApiCall, LM_trans_new, LM_conn_connect, LM_conn_disconnect, LM_conn_disable_ping,
            LM_conn_set_idle_timeout, LM_conn_destroy, LM_trans_set_param, LM_trans_set_timeout,
            LM_trans_send, LM_trans_delete, MayCall, ImplicitConnect, RegisterIo, FreeConn
    <2>2. QED BY <2>1
  <1>2. CASE LoopDispatch
    BY <1>2 DEF LoopDispatch, DispatchConnected, DispatchClosed, DispatchRead, DispatchWrite,
                DispatchTrigger, DispatchTimer, DispatchTransTimer, Dispatch
  <1>3. CASE \/ HandleConnectedNoPing \/ HandleConnected \/ HandleRead \/ HandleWrite
             \/ HandleTransTimeout \/ HandlePingTimeout \/ HandleIdleTimeout
             \/ \E type \in {"DISCONNECTED", "ERROR"} : HandleClosed(type)
    BY <1>3 DEF HandleConnectedNoPing, HandleConnected, HandleRead, HandleWrite,
                HandleTransTimeout, HandlePingTimeout, HandleIdleTimeout, HandleClosed, Enter,
                CleanupPing
  <1>4. CASE ParseWait \/ ParseError \/ \E t \in Trans : ParseResponse(t) \/ ParseOrphan(t)
    BY <1>4 DEF ParseWait, ParseError, ParseResponse, ParseOrphan, Parsing, CleanupPing
  <1>5. CASE SetConnected \/ PingLost
    BY <1>5 DEF SetConnected, PingLost, PingDeleted
  <1>6. CASE \/ Deliver \/ CallbackReturns \/ AllDelivered \/ Release \/ Leave
             \/ \E t \in Trans : Reap(t)
    BY <1>6 DEF Deliver, CallbackReturns, AllDelivered, Release, Leave, Reap
  <1>7. CASE UNCHANGED vars
    BY <1>7 DEF vars
  <1>8. QED
    BY <1>1, <1>2, <1>3, <1>4, <1>5, <1>6, <1>7 DEF Next, Handler, Gone

(* EntryInv holds in every state the library reaches.                       *)
LEMMA EntryCorrect == Spec => []EntryInv
  <1>1. Init => EntryInv
    BY DEF Init, EntryInv
  <1>2. QED BY <1>1, EntryStep, PTL DEF Spec

-----------------------------------------------------------------------------
(* Output.  While the PING is on, there is a write trigger whenever a       *)
(* transaction can be sent, and nothing is in outbuf before the PING.       *)

OutputInv ==
    /\ ~disable_ping
    /\ alive =>
        /\ io \in {"none", "created", "connecting"} => outbuf = <<>>
        /\ pc = "dispatched" /\ ev.type = "CONNECTED" => outbuf = <<>>
        /\ io = "up" => write_trigger # "none" \/ (pc = "dispatched" /\ ev.type = "CONNECTED")
    /\ NoStrandedOutput

(* Writing leaves something behind only if the io object will say so.       *)
LEMMA WriteLeaves ==
    ASSUME NEW buf \in Seq(Trans), WriteFromBuf(buf)
    PROVE  outbuf' # <<>> => blocked'
  <1>1. PICK n \in 0 .. Len(buf) :
            /\ outbuf' = SubSeq(buf, n + 1, Len(buf))
            /\ blocked' = (n < Len(buf))
    BY DEF WriteFromBuf
  <1>2. Len(buf) \in Nat
    BY LenProperties
  <1>3. CASE n < Len(buf)
    BY <1>1, <1>3
  <1>4. CASE n = Len(buf)
    <2>1. SubSeq(buf, Len(buf) + 1, Len(buf)) = <<>>
      BY <1>2
    <2>2. QED BY <1>1, <1>4, <2>1
  <1>5. QED BY <1>2, <1>3, <1>4

(* Steps that write nothing, take no event and keep the trigger.            *)
LEMMA OutputKept ==
    ASSUME OutputInv, alive, UNCHANGED <<disable_ping, outbuf, write_trigger, blocked>>,
           \/ io' \in {io, "closing"}
           \/ io' \in {"none", "created", "connecting"} /\ outbuf = <<>>,
           UNCHANGED <<pc, ev>> \/ (pc # "dispatched" /\ pc' # "dispatched")
    PROVE  OutputInv'
  BY DEF OutputInv, NoStrandedOutput

(* A connection without an io object that is up owes nothing.               *)
LEMMA OutputDown ==
    ASSUME ~disable_ping', io' = "none", outbuf' = <<>>
    PROVE  OutputInv'
  BY DEF OutputInv, NoStrandedOutput

(* The queue is added to outbuf and the trigger signaled.                   *)
LEMMA OutputSent ==
    ASSUME TypeOK, OutputInv, alive, io = "up", UNCHANGED <<disable_ping, io, blocked>>,
           NEW ready \in Seq(Trans), outbuf' = outbuf \o ready, write_trigger' = Signalled(ready),
           pc # "dispatched" \/ ev.type # "CONNECTED",
           UNCHANGED <<pc, ev>> \/ (pc # "dispatched" /\ pc' # "dispatched")
    PROVE  OutputInv'
  <1>1. write_trigger # "none"
    BY DEF OutputInv
  <1>2. write_trigger' # "none"
    BY <1>1 DEF Signalled
  <1>3. outbuf = <<>> /\ ready = <<>> => outbuf' = <<>>
    OBVIOUS
  <1>4. outbuf' # <<>> => \/ write_trigger' = "signaled"
                          \/ outbuf # <<>> /\ write_trigger' = write_trigger
    BY <1>1, <1>3 DEF Signalled
  <1>5. QED BY <1>2, <1>4 DEF OutputInv, NoStrandedOutput

(* No step strands output while the PING is on.                             *)
LEMMA OutputStep ==
    ASSUME \A a \in Threads : <<a, "LM_conn_disable_ping">> \notin Calls
    PROVE  Basis /\ EntryInv /\ OutputInv /\ [Next]_vars => OutputInv'
  <1> SUFFICES ASSUME TypeOK, HandlerInv, LinkInv, StandingInv, EntryInv, OutputInv, [Next]_vars, alive
               PROVE  OutputInv'
    BY GoneForGood DEF Basis, vars, OutputInv, NoStrandedOutput, objVars, linkVars, confVars, loopVars
  <1> USE DEF objVars, linkVars, confVars, queueVars, fieldVars, loopVars, histVars
  <1>1. ASSUME NEW a \in Threads, NEW t \in Trans, LM_trans_send(a, t)
        PROVE  OutputInv'
    <2>1. UNCHANGED <<io, blocked, disable_ping, pc, ev>>
      BY <1>1 DEF LM_trans_send
    <2>2. CASE CanSend
      <3> DEFINE ready == Append(trans_ready, t)
      <3>1. outbuf' = outbuf \o ready /\ write_trigger' = Signalled(ready)
        BY <1>1, <2>2 DEF LM_trans_send, SendReady
      <3>2. ready \in Seq(Trans)
        BY ToSetAppend DEF TypeOK
      <3>3. io = "up" /\ (pc # "dispatched" \/ ev.type # "CONNECTED")
        BY <2>2 DEF CanSend, LinkInv
      <3> HIDE DEF ready
      <3>4. QED BY <2>1, <3>1, <3>2, <3>3, OutputSent
    <2>3. CASE ~CanSend
      BY <1>1, <2>1, <2>3, OutputKept DEF LM_trans_send
    <2>4. QED BY <2>2, <2>3
  <1>2. ASSUME NEW a \in Threads, \/ LM_conn_connect(a) \/ ImplicitConnect(a) \/ RegisterIo(a)
        PROVE  OutputInv'
    <2>1. /\ UNCHANGED <<disable_ping, outbuf, write_trigger, blocked, pc, ev>>
          /\ io' = io \/ (io \in {"none", "created"} /\ io' \in {"none", "created", "connecting"})
      BY <1>2 DEF LM_conn_connect, ImplicitConnect, RegisterIo, ConnConnect, LinkInv
    <2>2. io \in {"none", "created"} => outbuf = <<>>
      BY DEF OutputInv
    <2>3. QED BY <2>1, <2>2, OutputKept
  <1>3. ASSUME NEW a \in Threads, LM_conn_destroy(a)
        PROVE  OutputInv'
    <2>1. CASE Deferred
      BY <1>3, <2>1, OutputKept DEF LM_conn_destroy
    <2>2. CASE ~Deferred
      BY <1>3, <2>2, OutputDown DEF LM_conn_destroy, FreeConn, OutputInv
    <2>3. QED BY <2>1, <2>2
  <1>4. ASSUME NEW a \in Threads,
               \/ LM_conn_disconnect(a) \/ LM_conn_set_idle_timeout(a) \/ LM_trans_new(a)
               \/ \E t \in Trans : \/ LM_trans_set_param(a, t) \/ LM_trans_set_timeout(a, t)
                                   \/ LM_trans_delete(a, t)
        PROVE  OutputInv'
    BY <1>4, OutputKept DEF LM_conn_disconnect, DisconnectIo, LM_conn_set_idle_timeout,
          LM_trans_new, LM_trans_set_param, LM_trans_set_timeout, LM_trans_delete
  <1>5. ASSUME NEW a \in Threads, LM_conn_disable_ping(a)
        PROVE  FALSE
    BY <1>5 DEF LM_conn_disable_ping, MayCall
  <1>6. CASE LoopDispatch
    <2>1. /\ UNCHANGED <<alive, outbuf, disable_ping>>
          /\ pc = "idle" /\ pc' = "dispatched"
      BY <1>6 DEF LoopDispatch, DispatchConnected, DispatchClosed, DispatchRead, DispatchWrite,
                  DispatchTrigger, DispatchTimer, DispatchTransTimer, Dispatch
    <2>2. CASE DispatchConnected
      BY <2>1, <2>2 DEF DispatchConnected, Dispatch, UserEvent, OutputInv, NoStrandedOutput
    <2>3. CASE DispatchWrite \/ DispatchTrigger
      BY <2>1, <2>3 DEF DispatchWrite, DispatchTrigger, Dispatch, UserEvent, OutputInv, NoStrandedOutput
    <2>4. CASE \/ DispatchRead \/ DispatchTimer
               \/ \E t \in Trans : DispatchTransTimer(t)
               \/ \E type \in {"DISCONNECTED", "ERROR"} : DispatchClosed(type)
      BY <2>1, <2>4 DEF DispatchRead, DispatchTimer, DispatchTransTimer, DispatchClosed, Dispatch,
            UserEvent, OutputInv, NoStrandedOutput
    <2>5. QED BY <1>6, <2>2, <2>3, <2>4 DEF LoopDispatch
  <1>7. CASE HandleConnectedNoPing
    BY <1>7 DEF HandleConnectedNoPing, OutputInv
  <1>8. CASE HandleConnected
    <2>1. PICK p \in Pings : WriteFromBuf(Append(outbuf, p))
      BY <1>8 DEF HandleConnected
    <2>2. Append(outbuf, p) \in Seq(Trans)
      BY ToSetAppend DEF TypeOK, Trans
    <2>3. outbuf' # <<>> => blocked'
      BY <2>1, <2>2, WriteLeaves
    <2>4. /\ io = "up" /\ UNCHANGED <<io, disable_ping>> /\ write_trigger' = "idle"
          /\ pc' = "callbacks"
      BY <1>8 DEF HandleConnected, Enter, LinkInv
    <2>5. QED BY <2>3, <2>4 DEF OutputInv, NoStrandedOutput
  <1>9. CASE HandleWrite
    <2>1. /\ UNCHANGED <<alive, io, write_trigger, disable_ping>>
          /\ pc = "dispatched" /\ ev.type = "WRITE" /\ pc' = "callbacks"
      BY <1>9 DEF HandleWrite, Enter
    <2>2. CASE io = "up"
      <3>1. WriteFromBuf(outbuf) /\ outbuf \in Seq(Trans)
        BY <1>9, <2>2 DEF HandleWrite, TypeOK
      <3>2. outbuf' # <<>> => blocked'
        BY <3>1, WriteLeaves
      <3>3. QED BY <2>1, <2>2, <3>2 DEF OutputInv, NoStrandedOutput
    <2>3. CASE io # "up"
      BY <1>9, <2>1, <2>3 DEF HandleWrite, OutputInv, NoStrandedOutput
    <2>4. QED BY <2>2, <2>3
  <1>10. CASE HandleRead \/ HandleTransTimeout \/ HandlePingTimeout \/ HandleIdleTimeout
    <2>1. /\ UNCHANGED <<alive, outbuf, write_trigger, blocked, disable_ping>>
          /\ io' = io \/ io' = "closing"
          /\ pc = "dispatched" /\ ev.type \in {"READ", "OTHER"} /\ pc' # "dispatched"
      BY <1>10 DEF HandleRead, HandleTransTimeout, HandlePingTimeout, HandleIdleTimeout, Enter,
                   CleanupPing, DisconnectIo
    <2>2. QED BY <2>1 DEF OutputInv, NoStrandedOutput
  <1>11. CASE \/ PingLost \/ ParseError
              \/ \E type \in {"DISCONNECTED", "ERROR"} : HandleClosed(type)
    <2>1. UNCHANGED disable_ping /\ io' = "none" /\ outbuf' = <<>>
      BY <1>11 DEF HandleClosed, ParseError, PingLost, PingDeleted, Enter, ConnError
    <2>2. ~disable_ping
      BY DEF OutputInv
    <2>3. QED BY <2>1, <2>2, OutputDown
  <1>12. CASE SetConnected
    <2>1. /\ ev.type = "READ" /\ pc = "ping" /\ pc' = "reading" /\ io = "up"
      BY <1>12 DEF SetConnected, PingDeleted, EntryInv, OutputInv, LinkInv
    <2>2. /\ outbuf' = outbuf \o trans_ready /\ write_trigger' = Signalled(trans_ready)
          /\ UNCHANGED <<disable_ping, io, blocked>>
      BY <1>12, <2>1 DEF SetConnected, PingDeleted, SendReady
    <2>3. trans_ready \in Seq(Trans)
      BY DEF TypeOK
    <2>4. QED BY <2>1, <2>2, <2>3, OutputSent
  <1>13. CASE \/ ParseWait \/ Deliver \/ CallbackReturns \/ AllDelivered \/ Release
              \/ \E t \in Trans : ParseResponse(t) \/ ParseOrphan(t) \/ Reap(t)
    BY <1>13, OutputKept DEF ParseWait, ParseResponse, ParseOrphan, Parsing, CleanupPing, Deliver,
          CallbackReturns, AllDelivered, Release, Reap
  <1>14. CASE Leave
    <2>1. CASE DestroyIsSet
      BY <1>14, <2>1, OutputDown DEF Leave, FreeConn, OutputInv
    <2>2. CASE ~DestroyIsSet
      BY <1>14, <2>2, OutputKept DEF Leave
    <2>3. QED BY <2>1, <2>2
  <1>15. CASE UNCHANGED vars
    BY <1>15, OutputKept DEF vars
  <1>16. QED
    BY <1>1, <1>2, <1>3, <1>4, <1>5, <1>6, <1>7, <1>8, <1>9, <1>10, <1>11, <1>12, <1>13, <1>14,
       <1>15 DEF Next, ApiCall, Handler, Gone

(* While the PING is on, nothing structured is left without something that  *)
(* will write it: not even when a thread sends while the loop writes.       *)
THEOREM OutputCorrect ==
    ASSUME \A a \in Threads : <<a, "LM_conn_disable_ping">> \notin Calls
    PROVE  Spec => []NoStrandedOutput
  <1>1. Init => OutputInv
    BY DEF Init, OutputInv, NoStrandedOutput
  <1>2. OutputInv => NoStrandedOutput
    BY DEF OutputInv
  <1>3. QED BY <1>1, <1>2, BasisCorrect, EntryCorrect, OutputStep, PTL DEF Spec

-----------------------------------------------------------------------------
(* The idle timer runs.  In a single-threaded program with the PING on, an  *)
(* idle timeout has a timer from the moment the connection is up; while     *)
(* nothing is outstanding it is armed, except within the READ loop, which   *)
(* arms it at its end, and between its expiry and the handler of that.      *)

Expired == pc = "dispatched" /\ ev.type = "OTHER" /\ ev.trans = NoTrans

RunInv ==
    alive /\ status = "CONNECTED" /\ idle_timeout /\ ~disable_ping =>
        /\ timer # "none"
        /\ Expired => trans_pending = <<>>
        /\ trans_pending = <<>> /\ pc # "reading" /\ ~Expired => timer = "armed"

(* Steps that concern none of this.                                         *)
LEMMA RunKept ==
    ASSUME RunInv, alive, UNCHANGED <<idle_timeout, timer, trans_pending>>,
           disable_ping => disable_ping',
           status' = "CONNECTED" => status = "CONNECTED",
           \/ UNCHANGED <<pc, ev>>
           \/ /\ ~Expired /\ ~Expired'
              /\ pc = "reading" => pc' = "reading"
    PROVE  RunInv'
  BY DEF RunInv, Expired

(* LM_trans_delete_unlocked, outside the READ loop.                         *)
LEMMA RunDeleted ==
    ASSUME RunInv, alive, NEW t \in Trans, DeleteUnlocked(t),
           UNCHANGED <<status, idle_timeout, disable_ping, pc, ev>>,
           pc \notin {"dispatched", "reading"}
    PROVE  RunInv'
  BY DEF RunInv, Expired, DeleteUnlocked, TimerReset

(* No step of a single-threaded program stops the idle timer early.         *)
LEMMA RunStep ==
    ASSUME \A f : <<"app", f>> \notin Calls
    PROVE  Basis /\ EntryInv /\ IdleTimerStopped /\ RunInv /\ [Next]_vars => RunInv'
  <1> SUFFICES ASSUME TypeOK, LinkInv, EntryInv, IdleTimerStopped, RunInv, [Next]_vars,
                      alive, alive'
               PROVE  RunInv'
    BY GoneForGood DEF Basis, vars, RunInv, objVars
  <1> USE DEF objVars, linkVars, confVars, queueVars, fieldVars, loopVars, histVars
  <1>0. \A a \in Threads : \A f : MayCall(a, f) => pc \in {"idle", "callback"}
    BY DEF MayCall, Threads
  <1>1. ASSUME status' # "CONNECTED"
        PROVE  RunInv'
    BY <1>1 DEF RunInv
  <1>2. ASSUME NEW a \in Threads, NEW t \in Trans, LM_trans_send(a, t)
        PROVE  RunInv'
    <2>1. CASE CanSend
      <3> DEFINE ready == Append(trans_ready, t)
      <3>1. /\ trans_pending' = trans_pending \o ready /\ timer' = TimerStop(timer)
            /\ UNCHANGED <<status, idle_timeout, disable_ping, pc, ev>>
            /\ pc \in {"idle", "callback"}
        BY <1>0, <1>2, <2>1 DEF LM_trans_send, SendReady
      <3>2. trans_pending' # <<>>
        <4>1. trans_pending \in Seq(Trans) /\ ready \in Seq(Trans)
          BY ToSetAppend DEF TypeOK
        <4>2. t \in ToSet(ready)
          BY ToSetAppend DEF TypeOK
        <4> HIDE DEF ready
        <4>3. ToSet(trans_pending') = ToSet(trans_pending) \cup ToSet(ready)
          BY <3>1, <4>1, ToSetConcat
        <4>4. QED BY <4>2, <4>3, ToSetEmpty
      <3>3. QED BY <3>1, <3>2 DEF RunInv, Expired, TimerStop
    <2>2. CASE ~CanSend
      BY <1>1, <1>2, <2>2 DEF LM_trans_send, CanSend
    <2>3. QED BY <2>1, <2>2
  <1>3. ASSUME NEW a \in Threads, NEW t \in Trans, LM_trans_delete(a, t)
        PROVE  RunInv'
    BY <1>0, <1>3, RunKept, RunDeleted DEF LM_trans_delete
  <1>4. ASSUME NEW a \in Threads, LM_conn_set_idle_timeout(a)
        PROVE  RunInv'
    <2>1. pc \in {"idle", "callback"} /\ UNCHANGED <<status, trans_pending, pc, ev>>
      BY <1>0, <1>4 DEF LM_conn_set_idle_timeout
    <2>2. timer' = IF status # "CONNECTED" THEN timer
                   ELSE IF ~idle_timeout' THEN "none"
                   ELSE IF trans_pending = <<>> THEN "armed"
                   ELSE IF timer = "none" THEN "stopped" ELSE timer
      BY <1>4 DEF LM_conn_set_idle_timeout
    <2>3. QED BY <2>1, <2>2 DEF RunInv, Expired
  <1>5. ASSUME NEW a \in Threads,
               \/ LM_conn_connect(a) \/ ImplicitConnect(a) \/ RegisterIo(a)
        PROVE  RunInv'
    <2>1. /\ UNCHANGED <<idle_timeout, timer, trans_pending, disable_ping, pc, ev>>
          /\ status' = "CONNECTED" => status = "CONNECTED"
      BY <1>5 DEF LM_conn_connect, ImplicitConnect, RegisterIo, ConnConnect
    <2>2. QED BY <2>1, RunKept
  <1>6. ASSUME NEW a \in Threads,
               \/ LM_conn_disconnect(a) \/ LM_conn_disable_ping(a) \/ LM_trans_new(a)
               \/ LM_conn_destroy(a)
               \/ \E t \in Trans : LM_trans_set_param(a, t) \/ LM_trans_set_timeout(a, t)
        PROVE  RunInv'
    <2>1. /\ UNCHANGED <<idle_timeout, timer, trans_pending, pc, ev>>
          /\ disable_ping => disable_ping'
          /\ status' = "CONNECTED" => status = "CONNECTED"
      BY <1>6 DEF LM_conn_disconnect, DisconnectIo, LM_conn_disable_ping, LM_trans_new,
            LM_conn_destroy, FreeConn, LM_trans_set_param, LM_trans_set_timeout
    <2>2. QED BY <2>1, RunKept
  <1>7. CASE LoopDispatch
    <2>1. /\ UNCHANGED <<status, idle_timeout, disable_ping, trans_pending>>
          /\ pc = "idle" /\ pc' = "dispatched"
      BY <1>7 DEF LoopDispatch, DispatchConnected, DispatchClosed, DispatchRead, DispatchWrite,
                  DispatchTrigger, DispatchTimer, DispatchTransTimer, Dispatch
    <2>2. CASE DispatchTimer
      BY <2>1, <2>2 DEF DispatchTimer, Dispatch, UserEvent, IdleTimerStopped, RunInv, Expired
    <2>3. CASE ~Expired' /\ UNCHANGED timer
      BY <2>1, <2>3 DEF RunInv, Expired
    <2>4. ASSUME NEW t \in Trans, DispatchTransTimer(t)
          PROVE  ~Expired' /\ UNCHANGED timer
      BY <2>4, ConnAssumption DEF DispatchTransTimer, Dispatch, UserEvent, Expired
    <2>5. CASE \/ DispatchConnected \/ DispatchRead \/ DispatchWrite \/ DispatchTrigger
               \/ \E type \in {"DISCONNECTED", "ERROR"} : DispatchClosed(type)
      BY <2>3, <2>5 DEF DispatchConnected, DispatchRead, DispatchWrite, DispatchTrigger,
                        DispatchClosed, Dispatch, UserEvent, Expired
    <2>6. QED BY <1>7, <2>2, <2>3, <2>4, <2>5 DEF LoopDispatch
  <1>8. CASE \/ HandleConnectedNoPing \/ HandleConnected \/ HandlePingTimeout \/ PingLost \/ ParseError
             \/ \E type \in {"DISCONNECTED", "ERROR"} : HandleClosed(type)
    <2>1. status' # "CONNECTED"
      BY <1>8 DEF HandleConnectedNoPing, HandleConnected, HandlePingTimeout, PingLost, ParseError,
                  HandleClosed, Enter, ConnError, LinkInv
    <2>2. QED BY <1>1, <2>1
  <1>9. CASE HandleRead \/ HandleWrite \/ HandleTransTimeout
    <2>1. /\ UNCHANGED <<status, idle_timeout, disable_ping, timer, trans_pending>>
          /\ pc = "dispatched" /\ pc' # "dispatched" /\ ~Expired
      BY <1>9 DEF HandleRead, HandleWrite, HandleTransTimeout, Enter, IsTransTimer, Expired
    <2>2. QED BY <2>1, RunKept DEF Expired
  <1>10. CASE HandleIdleTimeout
    <2>1. /\ Expired
          /\ status = "CONNECTED" /\ trans_pending = <<>> => status' = "IDLE_TIMEOUT"
          /\ UNCHANGED <<idle_timeout, disable_ping>>
          /\ status' = "CONNECTED" => status = "CONNECTED"
      BY <1>10 DEF HandleIdleTimeout, Enter, IsTransTimer, DisconnectIo, Expired
    <2>2. QED BY <2>1 DEF RunInv
  <1>11. ASSUME NEW t \in Trans, ParseResponse(t)
         PROVE  RunInv'
    <2>1. pc = "reading" /\ UNCHANGED <<status, idle_timeout, disable_ping>>
      BY <1>11 DEF ParseResponse, Parsing
    <2>2. CASE status = "CONNECTED"
      <3>1. t # pingtxn
        BY <2>2, ConnAssumption DEF LinkInv
      <3>2. UNCHANGED <<timer, pc>>
        BY <1>11, <3>1 DEF ParseResponse
      <3>3. QED BY <2>1, <2>2, <3>2 DEF RunInv, Expired
    <2>3. CASE status # "CONNECTED"
      BY <1>1, <2>1, <2>3
    <2>4. QED BY <2>2, <2>3
  <1>12. CASE ParseWait
    BY <1>12 DEF ParseWait, Parsing, RunInv, Expired, TimerReset
  <1>13. CASE SetConnected
    <2>1. CASE ev.type = "CONNECTED"
      BY <1>13, <2>1 DEF SetConnected, PingDeleted, EntryInv, RunInv
    <2>2. CASE ev.type # "CONNECTED"
      BY <1>13, <2>2 DEF SetConnected, PingDeleted, RunInv, Expired
    <2>3. QED BY <2>1, <2>2
  <1>14. CASE \/ Deliver \/ CallbackReturns \/ AllDelivered \/ Release \/ Leave
              \/ \E t \in Trans : ParseOrphan(t)
    <2>1. /\ UNCHANGED <<status, idle_timeout, disable_ping, timer, trans_pending>>
          /\ pc # "dispatched" /\ pc' # "dispatched"
          /\ pc = "reading" => pc' = "reading"
      BY <1>14 DEF Deliver, CallbackReturns, AllDelivered, Release, Leave, FreeConn, ParseOrphan,
                   Parsing
    <2>2. QED BY <2>1, RunKept DEF Expired
  <1>15. ASSUME NEW t \in Trans, Reap(t)
         PROVE  RunInv'
    BY <1>15, RunDeleted DEF Reap
  <1>16. CASE UNCHANGED vars
    BY <1>16, RunKept DEF vars
  <1>17. QED
    BY <1>2, <1>3, <1>4, <1>5, <1>6, <1>7, <1>8, <1>9, <1>10, <1>11, <1>12, <1>13, <1>14,
       <1>15, <1>16 DEF Next, ApiCall, Handler, Gone

(* Connected, with an idle timeout and nothing outstanding, a               *)
(* single-threaded program never sits in the event loop without its timer.  *)
THEOREM IdleTimeoutHappens ==
    ASSUME \A f : <<"app", f>> \notin Calls
    PROVE  Spec => []IdleTimerRuns
  <1>1. Init => RunInv
    BY DEF Init, RunInv
  <1>2. RunInv => IdleTimerRuns
    BY DEF RunInv, IdleTimerRuns, Expired
  <1>3. QED BY <1>1, <1>2, BasisCorrect, EntryCorrect, IdleTimerCorrect, RunStep, PTL DEF Spec

-----------------------------------------------------------------------------
(* The callbacks of a single-threaded program.  First the lists of events:  *)
(* CONN_CONNECTED can only be their first, the closing event only their     *)
(* last, and TRANS_ERROR and TRANS_NOCONNECT come only with a closing one.  *)

Closings == {"CONN_DISCONNECT", "CONN_ERROR"}
Losses == {"TRANS_ERROR", "TRANS_NOCONNECT"}

Ordered(q) ==
    /\ \A i \in DOMAIN q : q[i].type = "CONN_CONNECTED" => i = 1
    /\ \A i \in DOMAIN q : q[i].type \in Closings => i = Len(q)
    /\ \A i \in DOMAIN q : q[i].type \in Losses => q[Len(q)].type \in Closings

Closes(q) == q # <<>> /\ q[Len(q)].type \in Closings
Tells(q, type) == \E i \in DOMAIN q : q[i].type = type

(* A queue of distinct entries is as long as its set of entries is large.   *)
LEMMA QueueLength ==
    ASSUME NEW S, NEW q \in Seq(S), NoDuplicates(q)
    PROVE  IsFiniteSet(ToSet(q)) /\ Cardinality(ToSet(q)) = Len(q)
  <1>1. Len(q) \in Nat /\ DOMAIN q = 1 .. Len(q) /\ q \in [1 .. Len(q) -> S]
    BY LenProperties
  <1>2. ToSet(q) = {q[i] : i \in 1 .. Len(q)}
    BY ToSetByIndex
  <1>3. q \in [1 .. Len(q) -> ToSet(q)]
    BY <1>1, <1>2
  <1>4. q \in Bijection(1 .. Len(q), ToSet(q))
    BY <1>1, <1>2, <1>3 DEF Bijection, Injection, Surjection, IsInjective, NoDuplicates
  <1>5. IsFiniteSet(1 .. Len(q)) /\ Cardinality(1 .. Len(q)) = Len(q)
    BY <1>1, FS_Interval
  <1>6. QED BY <1>4, <1>5, FS_Bijection DEF ExistsBijection

(* Any list has finitely many entries.                                      *)
LEMMA FinitelyMany ==
    ASSUME NEW S, NEW q \in Seq(S)
    PROVE  IsFiniteSet(ToSet(q))
  <1>1. Len(q) \in Nat /\ DOMAIN q = 1 .. Len(q) /\ q \in [1 .. Len(q) -> S]
    BY LenProperties
  <1>2. ToSet(q) = {q[i] : i \in 1 .. Len(q)}
    BY ToSetByIndex
  <1>3. q \in Surjection(1 .. Len(q), ToSet(q))
    BY <1>1, <1>2 DEF Surjection
  <1>4. IsFiniteSet(1 .. Len(q))
    BY <1>1, FS_Interval
  <1>5. QED BY <1>3, <1>4, FS_Surjection

(* What a list tells, by its entries.                                       *)
LEMMA TellsByEntry ==
    ASSUME NEW q, NEW type
    PROVE  Tells(q, type) <=> \E e \in ToSet(q) : e.type = type
  BY DEF Tells, ToSet

(* An ordered list without a closing event takes events that neither come   *)
(* first nor belong to a loss.                                              *)
LEMMA OrderedAppend ==
    ASSUME NEW q \in Seq(Event), Ordered(q), ~Closes(q), NEW e \in Event,
           \/ e.type \notin {"CONN_CONNECTED"} \cup Losses
           \/ q = <<>> /\ e.type = "CONN_CONNECTED"
    PROVE  /\ Ordered(Append(q, e))
           /\ Closes(Append(q, e)) <=> e.type \in Closings
           /\ \A type : Tells(Append(q, e), type) <=> Tells(q, type) \/ e.type = type
  <1> DEFINE c == Append(q, e)
  <1>1. /\ Len(q) \in Nat /\ DOMAIN q = 1 .. Len(q)
        /\ c \in Seq(Event) /\ Len(c) = Len(q) + 1 /\ DOMAIN c = 1 .. Len(q) + 1
        /\ c[Len(q) + 1] = e /\ \A i \in 1 .. Len(q) : c[i] = q[i]
    BY LenProperties, AppendProperties
  <1>2. q = <<>> <=> Len(q) = 0
    BY EmptySeq
  <1>3. c # <<>>
    BY <1>1, EmptySeq
  <1> HIDE DEF c
  <1>4. \A i \in DOMAIN q : q[i].type \notin Closings \cup Losses
    BY <1>1, <1>2 DEF Ordered, Closes, Closings
  <1>5. \A i \in DOMAIN c : i = Len(q) + 1 \/ (i \in DOMAIN q /\ c[i] = q[i])
    BY <1>1
  <1>6. Ordered(c)
    <2>1. \A i \in DOMAIN c : c[i].type = "CONN_CONNECTED" => i = 1
      BY <1>1, <1>2, <1>5 DEF Ordered
    <2>2. \A i \in DOMAIN c : c[i].type \in Closings => i = Len(c)
      BY <1>1, <1>4, <1>5
    <2>3. \A i \in DOMAIN c : c[i].type \notin Losses
      BY <1>1, <1>4, <1>5 DEF Losses
    <2>4. QED BY <2>1, <2>2, <2>3 DEF Ordered
  <1>7. Closes(c) <=> e.type \in Closings
    BY <1>1, <1>3 DEF Closes
  <1>8. \A type : Tells(c, type) <=> Tells(q, type) \/ e.type = type
    BY <1>1, <1>5 DEF Tells
  <1>9. QED BY <1>6, <1>7, <1>8 DEF c

(* The head of an ordered list, and what is behind it.                      *)
LEMMA OrderedTail ==
    ASSUME NEW q \in Seq(Event), Ordered(q), q # <<>>
    PROVE  /\ Ordered(Tail(q)) /\ ~Tells(Tail(q), "CONN_CONNECTED")
           /\ Head(q).type \in Closings => Tail(q) = <<>> /\ Closes(q)
           /\ Head(q).type \notin Closings => (Closes(Tail(q)) <=> Closes(q))
           /\ Head(q).type \in Losses => Closes(q)
           /\ Head(q).type # "CONN_CONNECTED" => ~Tells(q, "CONN_CONNECTED")
           /\ \A type : Tells(q, type) <=> Tells(Tail(q), type) \/ Head(q).type = type
  <1> DEFINE r == Tail(q)
  <1>1. /\ Len(q) \in Nat \ {0} /\ r \in Seq(Event) /\ Len(r) = Len(q) - 1
        /\ \A i \in 1 .. Len(r) : r[i] = q[i + 1]
        /\ Head(q) = q[1]
    BY HeadTailProperties, EmptySeq
  <1>2. DOMAIN q = 1 .. Len(q) /\ DOMAIN r = 1 .. Len(r) /\ (r = <<>> <=> Len(r) = 0)
    BY <1>1, LenProperties, EmptySeq
  <1> HIDE DEF r
  <1>3. \A i \in DOMAIN r : i \in Nat /\ i + 1 \in DOMAIN q /\ r[i] = q[i + 1] /\ i + 1 # 1
    BY <1>1, <1>2
  <1>4. \A i \in DOMAIN q : i = 1 \/ (i - 1 \in DOMAIN r /\ r[i - 1] = q[i])
    BY <1>1, <1>2
  <1>5. ~Tells(r, "CONN_CONNECTED")
    BY <1>3 DEF Ordered, Tells
  <1>6. ASSUME q[1].type \in Closings PROVE r = <<>> /\ Closes(q)
    BY <1>1, <1>2, <1>6 DEF Ordered, Closes
  <1>7. r # <<>> => r[Len(r)] = q[Len(q)]
    BY <1>1, <1>2
  <1>8. r = <<>> => Len(q) = 1
    BY <1>1, <1>2
  <1>9. q[1].type \notin Closings => (Closes(r) <=> Closes(q))
    BY <1>7, <1>8 DEF Closes
  <1>10. Ordered(r)
    <2>1. \A i \in DOMAIN r : r[i].type # "CONN_CONNECTED"
      BY <1>5 DEF Tells
    <2>2. \A i \in DOMAIN r : r[i].type \in Closings => i = Len(r)
      <3> SUFFICES ASSUME NEW i \in DOMAIN r, r[i].type \in Closings PROVE i = Len(r)
        OBVIOUS
      <3>1. i + 1 = Len(q)
        BY <1>3 DEF Ordered
      <3>2. QED BY <1>1, <1>3, <3>1
    <2>3. \A i \in DOMAIN r : r[i].type \in Losses => r[Len(r)].type \in Closings
      BY <1>2, <1>3, <1>7 DEF Ordered
    <2>4. QED BY <2>1, <2>2, <2>3 DEF Ordered
  <1>11. 1 \in DOMAIN q
    BY <1>1, <1>2
  <1>12. q[1].type \in Losses => Closes(q)
    BY <1>11 DEF Ordered, Closes
  <1>13. q[1].type # "CONN_CONNECTED" => ~Tells(q, "CONN_CONNECTED")
    BY DEF Ordered, Tells
  <1>14. \A type : Tells(q, type) <=> Tells(r, type) \/ q[1].type = type
    BY <1>3, <1>4, <1>11 DEF Tells
  <1>15. QED BY <1>1, <1>5, <1>6, <1>9, <1>10, <1>12, <1>13, <1>14 DEF r

(* A closing event is told by its last event, if at all.                    *)
LEMMA ClosesTells ==
    ASSUME NEW q \in Seq(Event), Ordered(q)
    PROVE  Closes(q) <=> \E type \in Closings : Tells(q, type)
  <1>1. DOMAIN q = 1 .. Len(q) /\ Len(q) \in Nat /\ (q = <<>> <=> Len(q) = 0)
    BY LenProperties, EmptySeq
  <1>2. Closes(q) => \E type \in Closings : Tells(q, type)
    BY <1>1 DEF Closes, Tells
  <1>3. (\E type \in Closings : Tells(q, type)) => Closes(q)
    BY <1>1 DEF Closes, Tells, Ordered
  <1>4. QED BY <1>2, <1>3

(* A lost connection closes its list: NOCONNECT and ERROR come before the   *)
(* one closing event.                                                       *)
LEMMA OrderedLoss ==
    ASSUME TypeOK, NEW q \in Seq(Event), Ordered(q), ~Closes(q), NEW type
    PROVE  /\ Ordered(q \o LossEvents(type)) /\ Closes(q \o LossEvents(type))
           /\ Tells(q \o LossEvents(type), "CONN_CONNECTED") <=> Tells(q, "CONN_CONNECTED")
           /\ \A t \in Closings : Tells(q \o LossEvents(type), t) <=> t = CloseEvent(type).type
  <1> DEFINE errors == EventsFor("TRANS_ERROR", trans_pending)
             refused == EventsFor("TRANS_NOCONNECT", trans_ready)
             m == Refused \o errors
             e == CloseEvent(type)
             r == LossEvents(type)
             c == q \o r
  <1>1. errors \in Seq(Event) /\ refused \in Seq(Event)
    BY EventsForType DEF TypeOK, TransEvents
  <1>2. \A x \in ToSet(errors) \cup ToSet(refused) : x.type \in {"TRANS_ERROR", "TRANS_NOCONNECT"}
    BY DEF EventsFor, UserEvent, ToSet
  <1>3. (Refused = <<>> \/ Refused = refused) /\ Refused \in Seq(Event)
    BY <1>1 DEF Refused
  <1> HIDE DEF errors, refused
  <1>4. m \in Seq(Event) /\ ToSet(m) = ToSet(Refused) \cup ToSet(errors)
    BY <1>1, <1>3, ToSetConcat
  <1>5. \A x \in ToSet(m) : x.type \in {"TRANS_ERROR", "TRANS_NOCONNECT"}
    BY <1>2, <1>3, <1>4, ToSetEmpty
  <1>6. e \in Event /\ e.type \in Closings
    BY EventTypes DEF CloseEvent, ConnEvents, UserEvent, Closings
  <1>7. r = Append(m, e)
    BY DEF LossEvents, errors
  <1> HIDE DEF m, e, r
  <1>8. /\ Len(m) \in Nat /\ DOMAIN m = 1 .. Len(m)
        /\ r \in Seq(Event) /\ Len(r) = Len(m) + 1 /\ DOMAIN r = 1 .. Len(m) + 1
        /\ r[Len(m) + 1] = e /\ \A i \in 1 .. Len(m) : r[i] = m[i] /\ m[i] \in ToSet(m)
    BY <1>4, <1>6, <1>7, LenProperties, AppendProperties, ToSetByIndex
  <1>9. /\ \A i \in 1 .. Len(r) : r[i].type \in Closings => i = Len(r) /\ r[i] = e
        /\ \A i \in 1 .. Len(r) : r[i].type # "CONN_CONNECTED"
        /\ r[Len(r)] = e
    BY <1>5, <1>6, <1>8 DEF Closings
  <1>10. Len(r) \in Nat /\ Len(r) >= 1 /\ Len(q) \in Nat /\ DOMAIN q = 1 .. Len(q)
    BY <1>8, LenProperties
  <1>11. /\ c \in Seq(Event) /\ Len(c) = Len(q) + Len(r) /\ DOMAIN c = 1 .. Len(q) + Len(r)
         /\ \A i \in 1 .. Len(q) + Len(r) : c[i] = IF i <= Len(q) THEN q[i] ELSE r[i - Len(q)]
    <2>1. /\ c \in Seq(Event) /\ Len(c) = Len(q) + Len(r)
          /\ \A i \in 1 .. Len(q) + Len(r) : c[i] = IF i <= Len(q) THEN q[i] ELSE r[i - Len(q)]
      BY <1>8, ConcatProperties
    <2> HIDE DEF c
    <2>2. QED BY <2>1, LenProperties
  <1> HIDE DEF c
  <1>12. Len(c) \in DOMAIN c /\ c[Len(c)] = e /\ c # <<>>
    <2>1. Len(c) \in 1 .. Len(q) + Len(r) /\ ~(Len(c) <= Len(q)) /\ Len(c) - Len(q) = Len(r)
      BY <1>10, <1>11
    <2>2. c[Len(c)] = r[Len(r)]
      BY <1>11, <2>1
    <2>3. c # <<>>
      BY <1>10, <1>11, EmptySeq
    <2>4. Len(c) \in DOMAIN c
      BY <1>11, <2>1
    <2>5. r[Len(r)] = e
      BY <1>9
    <2>6. QED BY <2>2, <2>3, <2>4, <2>5
  <1>13. /\ \A i \in DOMAIN q : i \in DOMAIN c /\ c[i] = q[i]
         /\ \A i \in DOMAIN c : \/ i \in DOMAIN q /\ c[i] = q[i]
                                \/ i - Len(q) \in 1 .. Len(r) /\ c[i] = r[i - Len(q)]
    BY <1>10, <1>11
  <1>14. \A i \in DOMAIN q : q[i].type \notin Closings
    BY <1>10, EmptySeq DEF Ordered, Closes
  <1>15. /\ \A i \in DOMAIN c : c[i].type = "CONN_CONNECTED" => i \in DOMAIN q /\ c[i] = q[i]
         /\ \A i \in DOMAIN c : c[i].type \in Closings => i = Len(c) /\ c[i] = e
    <2>1. ASSUME NEW i \in DOMAIN c, c[i].type = "CONN_CONNECTED"
          PROVE  i \in DOMAIN q /\ c[i] = q[i]
      BY <1>9, <1>13, <2>1
    <2>2. ASSUME NEW i \in DOMAIN c, c[i].type \in Closings
          PROVE  i = Len(c) /\ c[i] = e
      <3>1. i - Len(q) \in 1 .. Len(r) /\ c[i] = r[i - Len(q)]
        BY <1>13, <1>14, <2>2
      <3>2. i - Len(q) = Len(r) /\ c[i] = e
        BY <1>9, <2>2, <3>1
      <3>3. QED BY <1>10, <1>11, <3>2, SMTT(30)
    <2>3. QED BY <2>1, <2>2
  <1>16. Ordered(c) /\ Closes(c)
    BY <1>6, <1>12, <1>15 DEF Ordered, Closes
  <1>17. Tells(c, "CONN_CONNECTED") <=> Tells(q, "CONN_CONNECTED")
    BY <1>13, <1>15 DEF Tells
  <1>18. \A t \in Closings : Tells(c, t) <=> t = e.type
    BY <1>12, <1>15 DEF Tells
  <1>19. QED BY <1>16, <1>17, <1>18 DEF c, r, e

-----------------------------------------------------------------------------
(* What a program with one thread can see of the handler.  CONN_CONNECTED   *)
(* is told before anything else can happen; after a loss the list is closed *)
(* and told to its end; and the ping is answered before any transaction.    *)

(* The ping is PENDING only until the connection is up.                     *)
Asked(p) ==
    tstatus[p] = "PENDING" =>
        \/ p \in delay_rm
        \/ /\ p = pingtxn /\ status = "CONNECTING" /\ io = "up"
           /\ ~(pc \in {"dispatched", "ping"} /\ ev.type = "CONNECTED")

Completed(q) == Tells(q, "TRANS_DONE") \/ Tells(q, "TRANS_ERROR")

TellingInv ==
    /\ Closes(events) => pc \in {"callbacks", "callback"} /\ status \in {"DISCONNECTED", "CONNECTING"}
    /\ status \in {"DISCONNECTED", "CONNECTING"} /\ Completed(events) => Closes(events)
    /\ Tells(events, "CONN_CONNECTED") =>
          /\ pc \in {"reading", "callbacks"} /\ trans_ready = <<>>
          /\ status = "CONNECTED" \/ Closes(events)
    /\ pc = "ping" \/ (pc = "reading" /\ status = "CONNECTING") => events = <<>> /\ delay_rm = {}

SoloCalls == \A f : <<"app", f>> \notin Calls

ProgramInv ==
    /\ call["app"] = "none"
    /\ Ordered(events)
    /\ alive => TellingInv /\ \A p \in Pings : Asked(p)

(* Nothing is told by an empty list.                                        *)
LEMMA NothingTold == Ordered(<<>>) /\ ~Closes(<<>>) /\ \A type : ~Tells(<<>>, type)
  BY DEF Ordered, Closes, Tells

(* Steps that leave the list alone, outside the window around the ping.     *)
LEMMA TellingKept ==
    ASSUME TellingInv, UNCHANGED <<events, status>>,
           trans_ready' = trans_ready \/ ~Tells(events, "CONN_CONNECTED"),
           \/ pc' = pc /\ (delay_rm' = delay_rm \/ pc \notin {"ping", "reading"})
           \/ events = <<>> /\ pc' # "ping" /\ (pc' = "reading" => delay_rm' = {})
           \/ pc = "reading" /\ pc' = "callbacks"
           \/ pc = "callback" /\ pc' = "callbacks"
    PROVE  TellingInv'
  <1>1. events = <<>> => \A type : ~Tells(events, type) /\ ~Closes(events)
    BY NothingTold
  <1>2. /\ Closes(events') <=> Closes(events)
        /\ \A type : Tells(events', type) <=> Tells(events, type)
    OBVIOUS
  <1>3. QED BY <1>1, <1>2 DEF TellingInv, Completed

(* Steps that leave the ping where it is.                                   *)
LEMMA AskedKept ==
    ASSUME \A p \in Pings : Asked(p), UNCHANGED pingtxn,
           status = "CONNECTING" => status' = "CONNECTING",
           io = "up" /\ status = "CONNECTING" => io' = "up",
           \A p \in Pings : tstatus'[p] = "PENDING" =>
               tstatus[p] = "PENDING" /\ (p \in delay_rm => p \in delay_rm'),
           pc' \in {"dispatched", "ping"} /\ ev'.type = "CONNECTED" =>
               pc \in {"dispatched", "ping"} /\ ev.type = "CONNECTED"
    PROVE  \A p \in Pings : Asked(p)'
  BY DEF Asked

(* A lost connection closes the list, which is then told to its end.        *)
LEMMA ProgramLost ==
    ASSUME TypeOK, QueueInv, ProgramInv, alive, NEW type, ConnError(type),
           UNCHANGED <<call, ev>>, pc' = "callbacks",
           pc \in {"dispatched", "reading", "ping"},
           delay_rm \subseteq delay_rm',
           pc = "ping" /\ pingtxn \in Pings /\ tstatus[pingtxn] = "PENDING" => pingtxn \in delay_rm'
    PROVE  ProgramInv'
  <1>1. events \in Seq(Event) /\ Ordered(events) /\ TellingInv /\ ~Closes(events)
    BY DEF TypeOK, ProgramInv, TellingInv
  <1>2. events' = events \o LossEvents(type) /\ status' = "DISCONNECTED" /\ trans_ready' = trans_ready
    BY DEF ConnError
  <1>3. /\ Ordered(events') /\ Closes(events')
        /\ Tells(events', "CONN_CONNECTED") => Tells(events, "CONN_CONNECTED")
    BY <1>1, <1>2, OrderedLoss
  <1>4. TellingInv'
    BY <1>1, <1>2, <1>3 DEF TellingInv
  <1>5. \A p \in Pings : Asked(p)'
    <2> SUFFICES ASSUME NEW p \in Pings, tstatus'[p] = "PENDING"
                 PROVE  p \in delay_rm'
      BY DEF Asked
    <2>1. p \in Trans /\ p \notin ToSet(trans_pending) /\ tstatus[p] = "PENDING"
      BY DEF ConnError, Abandoned, Trans
    <2>2. p \in delay_rm \/ (pc = "ping" /\ p = pingtxn)
      BY <2>1 DEF QueueInv
    <2>3. QED BY <2>1, <2>2
  <1>6. QED BY <1>3, <1>4, <1>5 DEF ProgramInv

(* Only the loop thread does anything.                                      *)
LEMMA LoopOnly ==
    ASSUME SoloCalls, call["app"] = "none", NEW a \in Threads,
           ApiCall(a) \/ ImplicitConnect(a) \/ RegisterIo(a)
    PROVE  a = "loop"
  BY DEF SoloCalls, ApiCall, LM_trans_new, LM_conn_connect, LM_conn_disconnect,
        LM_conn_disable_ping, LM_conn_set_idle_timeout, LM_conn_destroy, LM_trans_set_param,
        LM_trans_set_timeout, LM_trans_send, LM_trans_delete, MayCall, ImplicitConnect,
        RegisterIo, Threads

(* What leaves the list, the link and the ping alone.                       *)
LEMMA ProgramKept ==
    ASSUME ProgramInv, UNCHANGED <<events, status, io, ev, pingtxn>>, alive,
           trans_ready' = trans_ready \/ ~Tells(events, "CONN_CONNECTED"),
           call'["app"] = "none",
           \A p \in Pings : tstatus'[p] = "PENDING" =>
               tstatus[p] = "PENDING" /\ (p \in delay_rm => p \in delay_rm'),
           \/ pc' = pc /\ (delay_rm' = delay_rm \/ pc \notin {"ping", "reading"})
           \/ events = <<>> /\ pc' \notin {"ping", "dispatched"} /\ (pc' = "reading" => delay_rm' = {})
           \/ pc = "reading" /\ pc' = "callbacks"
           \/ pc = "callback" /\ pc' = "callbacks"
    PROVE  ProgramInv'
  <1>1. TellingInv'
    BY TellingKept DEF ProgramInv
  <1>2. \A p \in Pings : Asked(p)'
    BY AskedKept DEF ProgramInv
  <1>3. QED BY <1>1, <1>2 DEF ProgramInv

(* The calls of the program.                                                *)
LEMMA ProgramCall ==
    ASSUME SoloCalls, TypeOK, QueueInv, HandlerInv, LinkInv, StandingInv, ProgramInv, alive,
           NEW a \in Threads, ApiCall(a) \/ ImplicitConnect(a) \/ RegisterIo(a)
    PROVE  ProgramInv'
  <1> USE DEF objVars, linkVars, queueVars, fieldVars, loopVars, histVars
  <1>0. /\ tstatus \in [Trans -> TransStatus] /\ call \in [Threads -> {"none", "connect", "register"}]
        /\ \A p \in Pings : p \in Trans /\ p \notin Users
    BY ConnAssumption DEF TypeOK, Trans
  <1>1. a = "loop" /\ call["app"] = "none"
    BY LoopOnly DEF ProgramInv
  <1>2. ASSUME UNCHANGED <<events, status, io, ev, pingtxn, trans_ready, call, pc, delay_rm>>,
               \A p \in Pings : tstatus'[p] = "PENDING" => tstatus[p] = "PENDING"
        PROVE  ProgramInv'
    BY <1>1, <1>2, ProgramKept
  <1>3. CASE LM_trans_new(a)
    <2>1. PICK t \in Users : tstatus' = [tstatus EXCEPT ![t] = "NEW"]
      BY <1>3 DEF LM_trans_new
    <2>2. \A p \in Pings : tstatus'[p] = tstatus[p]
      BY <1>0, <2>1
    <2>3. QED BY <1>2, <1>3, <2>2 DEF LM_trans_new
  <1>4. CASE \/ LM_conn_disable_ping(a) \/ LM_conn_set_idle_timeout(a)
             \/ \E t \in Trans : LM_trans_set_param(a, t) \/ LM_trans_set_timeout(a, t)
    BY <1>2, <1>4 DEF LM_conn_disable_ping, LM_conn_set_idle_timeout, LM_trans_set_param,
          LM_trans_set_timeout
  <1>5. ASSUME NEW t \in Trans, LM_trans_send(a, t)
        PROVE  ProgramInv'
    <2>1. pc \in {"idle", "callback"} /\ tstatus[t] = "NEW"
      BY <1>1, <1>5 DEF LM_trans_send, MayCall
    <2>2. ~Tells(events, "CONN_CONNECTED")
      BY <2>1 DEF ProgramInv, TellingInv
    <2>3. t \notin Pings
      BY <2>1 DEF StandingInv
    <2>4. \A p \in Pings : tstatus'[p] = tstatus[p]
      <3>1. CASE CanSend
        <4>1. \A p \in Pings : p \notin ToSet(trans_ready)
          BY DEF QueueInv, StandingInv
        <4>2. ToSet(Append(trans_ready, t)) = ToSet(trans_ready) \cup {t}
          BY ToSetAppend DEF TypeOK
        <4>3. SendReady(Append(trans_ready, t))
          BY <1>5, <3>1 DEF LM_trans_send
        <4>4. QED BY <1>0, <2>3, <4>1, <4>2, <4>3 DEF SendReady
      <3>2. CASE ~CanSend
        BY <1>0, <1>5, <2>3, <3>2 DEF LM_trans_send
      <3>3. QED BY <3>1, <3>2
    <2>5. call'["app"] = "none"
      BY <1>0, <1>1, <1>5 DEF LM_trans_send, Threads
    <2>6. UNCHANGED <<events, status, io, ev, pingtxn, pc, delay_rm>>
      BY <1>5 DEF LM_trans_send
    <2>7. QED BY <2>2, <2>4, <2>5, <2>6, ProgramKept
  <1>6. ASSUME NEW t \in Trans, LM_trans_delete(a, t)
        PROVE  ProgramInv'
    <2>1. /\ pc \in {"idle", "callback"} /\ (Deferred => pc = "callback")
          /\ UNCHANGED <<events, status, io, ev, pingtxn, pc, call>>
      BY <1>1, <1>6 DEF LM_trans_delete, MayCall, Deferred, HandlerInv
    <2>2. ~Tells(events, "CONN_CONNECTED")
      BY <2>1 DEF ProgramInv, TellingInv
    <2>3. \A p \in Pings : tstatus'[p] = "PENDING" => tstatus[p] = "PENDING"
      BY <1>0, <1>6 DEF LM_trans_delete, DeleteUnlocked
    <2>4. delay_rm \subseteq delay_rm'
      BY <1>6 DEF LM_trans_delete
    <2>5. QED BY <1>1, <2>1, <2>2, <2>3, <2>4, ProgramKept
  <1>7. CASE LM_conn_destroy(a)
    <2>1. CASE Deferred
      BY <1>2, <1>7, <2>1 DEF LM_conn_destroy
    <2>2. CASE ~Deferred
      BY <1>7, <2>2 DEF LM_conn_destroy, FreeConn, ProgramInv
    <2>3. QED BY <2>1, <2>2
  <1>8. CASE LM_conn_disconnect(a)
    <2>1. /\ pc \in {"idle", "callback"} /\ status = "CONNECTED" /\ status' = "DISCONNECTING"
          /\ UNCHANGED <<events, pc, ev, delay_rm, pingtxn, tstatus, trans_ready, call>>
      BY <1>1, <1>8 DEF LM_conn_disconnect, DisconnectIo, MayCall
    <2>2. TellingInv'
      BY <2>1 DEF ProgramInv, TellingInv
    <2>3. \A p \in Pings : Asked(p)'
      BY <2>1, AskedKept DEF ProgramInv
    <2>4. QED BY <2>1, <2>2, <2>3 DEF ProgramInv
  <1>9. CASE LM_conn_connect(a) \/ ImplicitConnect(a) \/ RegisterIo(a)
    <2>1. /\ pc \notin {"reading", "ping"} \/ status' = status
          /\ UNCHANGED <<events, pc, ev, delay_rm, pingtxn, tstatus, trans_ready>>
      BY <1>9 DEF LM_conn_connect, ImplicitConnect, RegisterIo, MayCall, LockFree, ConnConnect, LinkInv
    <2>2. status' = status \/ (status = "DISCONNECTED" /\ status' = "CONNECTING")
      BY <1>9 DEF LM_conn_connect, ImplicitConnect, RegisterIo, ConnConnect, LinkInv
    <2>3. io = "up" => io' = "up"
      BY <1>9 DEF LM_conn_connect, ImplicitConnect, RegisterIo, ConnConnect, LinkInv
    <2>4. call'["app"] = "none"
      BY <1>0, <1>1, <1>9 DEF LM_conn_connect, ImplicitConnect, RegisterIo, ConnConnect, Threads
    <2>5. TellingInv'
      BY <2>1, <2>2 DEF ProgramInv, TellingInv
    <2>6. \A p \in Pings : Asked(p)'
      BY <2>1, <2>2, <2>3, AskedKept DEF ProgramInv
    <2>7. QED BY <2>1, <2>4, <2>5, <2>6 DEF ProgramInv
  <1>10. QED BY <1>3, <1>4, <1>5, <1>6, <1>7, <1>8, <1>9 DEF ApiCall

(* What the handler does.                                                   *)
LEMMA ProgramStep ==
    ASSUME SoloCalls
    PROVE  Basis /\ ProgramInv /\ [Next]_vars => ProgramInv'
  <1> SUFFICES ASSUME TypeOK, QueueInv, HandlerInv, LinkInv, StandingInv, ProgramInv, [Next]_vars, alive
               PROVE  ProgramInv'
    BY GoneForGood DEF Basis, vars, ProgramInv, objVars, linkVars, queueVars, fieldVars,
          loopVars, histVars
  <1> USE DEF objVars, linkVars, queueVars, fieldVars, loopVars, histVars
  <1>0. /\ tstatus \in [Trans -> TransStatus] /\ call \in [Threads -> {"none", "connect", "register"}]
        /\ events \in Seq(Event) /\ \A p \in Pings : p \in Trans /\ p \notin Users
    BY ConnAssumption DEF TypeOK, Trans
  <1>1. call["app"] = "none" /\ Ordered(events) /\ TellingInv /\ \A p \in Pings : Asked(p)
    BY DEF ProgramInv
  <1>2. pc \in {"idle", "dispatched", "reap", "leaving"} => events = <<>>
    BY DEF HandlerInv
  <1>3. pc \in {"idle", "dispatched"} => delay_rm = {}
    BY DEF HandlerInv
  <1>4. ASSUME NEW a \in Threads, ApiCall(a) \/ ImplicitConnect(a) \/ RegisterIo(a)
        PROVE  ProgramInv'
    BY <1>4, ProgramCall
  <1>5. CASE LoopDispatch
    <2>1. /\ pc = "idle" /\ pc' = "dispatched"
          /\ UNCHANGED <<status, events, call, tstatus, pingtxn, delay_rm, trans_ready>>
      BY <1>5 DEF LoopDispatch, DispatchConnected, DispatchClosed, DispatchRead, DispatchWrite,
                  DispatchTrigger, DispatchTimer, DispatchTransTimer, Dispatch
    <2>2. TellingInv'
      BY <1>1, <1>2, <2>1, TellingKept
    <2>3. \A p \in Pings : Asked(p)'
      <3>1. CASE DispatchConnected
        BY <1>1, <1>3, <2>1, <3>1 DEF DispatchConnected, Asked
      <3>2. CASE ~DispatchConnected
        <4>1. /\ io' = io
              /\ \E type \in {"DISCONNECTED", "ERROR", "READ", "WRITE", "OTHER"} : \E t : ev' = UserEvent(type, t)
          BY <1>5, <3>2 DEF LoopDispatch, DispatchClosed, DispatchRead, DispatchWrite,
                DispatchTrigger, DispatchTimer, DispatchTransTimer, Dispatch
        <4>2. QED BY <1>1, <2>1, <4>1, AskedKept DEF UserEvent
      <3>3. QED BY <3>1, <3>2
    <2>4. QED BY <1>1, <2>1, <2>2, <2>3 DEF ProgramInv
  <1>6. ASSUME pc = "dispatched", UNCHANGED <<events, trans_ready, status, io, ev, pingtxn, call, tstatus, delay_rm>>,
               pc' = "ping", status = "CONNECTING"
        PROVE  ProgramInv'
    <2>1. TellingInv'
      BY <1>2, <1>3, <1>6, NothingTold DEF TellingInv, Completed
    <2>2. \A p \in Pings : Asked(p)'
      BY <1>1, <1>6, AskedKept
    <2>3. QED BY <1>1, <1>6, <2>1, <2>2 DEF ProgramInv
  <1>7. CASE HandleConnectedNoPing \/ HandlePingTimeout
    BY <1>6, <1>7 DEF HandleConnectedNoPing, HandlePingTimeout, Enter, CleanupPing, LinkInv
  <1>8. CASE HandleConnected
    <2>1. PICK p \in Pings : pingtxn' = p /\ tstatus' = [tstatus EXCEPT ![p] = "PENDING"]
      BY <1>8 DEF HandleConnected
    <2>2. /\ pc = "dispatched" /\ pc' = "callbacks" /\ status = "CONNECTING" /\ io = "up"
          /\ ev.type = "CONNECTED"
          /\ UNCHANGED <<events, trans_ready, status, io, ev, call, delay_rm>>
      BY <1>8 DEF HandleConnected, Enter, LinkInv
    <2>3. TellingInv'
      BY <1>1, <1>2, <1>3, <2>2, TellingKept
    <2>4. \A u \in Pings : tstatus[u] # "PENDING"
      BY <1>1, <1>3, <2>2 DEF Asked
    <2>5. \A u \in Pings : tstatus'[u] = "PENDING" => u = p
      BY <1>0, <2>1, <2>4
    <2>6. \A u \in Pings : Asked(u)'
      BY <2>1, <2>2, <2>5 DEF Asked
    <2>7. QED BY <1>1, <2>2, <2>3, <2>6 DEF ProgramInv
  <1>9. ASSUME NEW type, ConnError(type), UNCHANGED <<call, ev>>, pc' = "callbacks",
               \/ pc \in {"dispatched", "reading"} /\ UNCHANGED delay_rm
               \/ pc = "ping" /\ PingDeleted
        PROVE  ProgramInv'
    BY <1>0, <1>9, ConnAssumption, ProgramLost DEF PingDeleted, Trans
  <1>10. CASE \/ ParseError \/ PingLost
              \/ \E type \in {"DISCONNECTED", "ERROR"} : HandleClosed(type)
    BY <1>9, <1>10 DEF HandleClosed, ParseError, PingLost, PingDeleted, Parsing, Enter
  <1>11. CASE HandleRead \/ HandleWrite
    <2>1. /\ pc = "dispatched" /\ pc' \in {"reading", "callbacks"}
          /\ UNCHANGED <<events, status, io, ev, pingtxn, trans_ready, call, tstatus, delay_rm>>
      BY <1>11 DEF HandleRead, HandleWrite, Enter
    <2>2. QED BY <1>1, <1>2, <1>3, <2>1, ProgramKept
  <1>12. CASE HandleTransTimeout
    <2> DEFINE e == UserEvent("TRANS_TIMEOUT", ev.trans)
    <2>1. /\ pc = "dispatched" /\ pc' = "callbacks" /\ events' = Append(events, e)
          /\ ev.trans # NoTrans /\ ev \in IoEvent
          /\ UNCHANGED <<trans_ready, status, io, ev, pingtxn, call, tstatus, delay_rm>>
      BY <1>12 DEF HandleTransTimeout, Enter, IsTransTimer, TypeOK
    <2>2. e \in Event /\ e.type = "TRANS_TIMEOUT"
      BY <2>1, EventTypes DEF TransEvents, UserEvent
    <2> HIDE DEF e
    <2>3. ~Closes(events) /\ \A type : ~Tells(events, type)
      BY <1>2, <2>1, NothingTold
    <2>4. /\ Ordered(events') /\ ~Closes(events')
          /\ \A type : Tells(events', type) => type = "TRANS_TIMEOUT"
      BY <1>0, <1>1, <2>1, <2>2, <2>3, OrderedAppend DEF Closings, Losses
    <2>5. TellingInv'
      BY <2>1, <2>4 DEF TellingInv, Completed
    <2>6. \A p \in Pings : Asked(p)'
      BY <1>1, <2>1, AskedKept
    <2>7. QED BY <1>1, <2>1, <2>4, <2>5, <2>6 DEF ProgramInv
  <1>13. CASE HandleIdleTimeout
    <2>1. /\ pc = "dispatched" /\ pc' = "callbacks" /\ status # "CONNECTING"
          /\ UNCHANGED <<events, ev, pingtxn, trans_ready, call, tstatus, delay_rm>>
      BY <1>13 DEF HandleIdleTimeout, Enter
    <2>2. TellingInv'
      BY <1>2, <2>1, NothingTold DEF TellingInv, Completed
    <2>3. \A p \in Pings : Asked(p)'
      BY <1>1, <2>1, AskedKept
    <2>4. QED BY <1>1, <2>1, <2>2, <2>3 DEF ProgramInv
  <1>14. ASSUME NEW t \in Trans, ParseResponse(t)
         PROVE  ProgramInv'
    <2>1. /\ pc = "reading" /\ tstatus[t] = "PENDING" /\ io \in {"up", "closing"}
          /\ tstatus' = [tstatus EXCEPT ![t] = "DONE"]
          /\ UNCHANGED <<status, io, ev, call, pingtxn, delay_rm, trans_ready>>
      BY <1>14 DEF ParseResponse, Parsing, LinkInv
    <2>2. \A u \in Trans : tstatus'[u] = IF u = t THEN "DONE" ELSE tstatus[u]
      BY <1>0, <2>1
    <2>3. \A p \in Pings : tstatus'[p] = "PENDING" => tstatus[p] = "PENDING"
      BY <1>0, <2>2
    <2>4. status # "DISCONNECTED"
      BY <2>1 DEF LinkInv
    <2>5. CASE t = pingtxn
      <3>1. pc' = "ping" /\ UNCHANGED events
        BY <1>14, <2>5 DEF ParseResponse, CleanupPing
      <3>2. status = "CONNECTING"
        BY <2>4, <2>5, ConnAssumption DEF LinkInv
      <3>3. events = <<>> /\ delay_rm = {}
        BY <1>1, <2>1, <3>2 DEF TellingInv
      <3>4. TellingInv'
        BY <2>1, <3>1, <3>3, NothingTold DEF TellingInv, Completed
      <3>5. \A p \in Pings : Asked(p)'
        <4> SUFFICES ASSUME NEW p \in Pings, tstatus'[p] = "PENDING" PROVE FALSE
          BY DEF Asked
        <4>1. p # t /\ tstatus[p] = "PENDING"
          BY <1>0, <2>2
        <4>2. QED BY <1>1, <2>5, <3>3, <4>1 DEF Asked
      <3>6. QED BY <1>1, <2>1, <3>1, <3>4, <3>5 DEF ProgramInv
    <2>6. CASE t # pingtxn
      <3> DEFINE e == UserEvent("TRANS_DONE", t)
      <3>1. pc' = pc /\ events' = Append(events, e)
        BY <1>14, <2>6 DEF ParseResponse
      <3>2. e \in Event /\ e.type = "TRANS_DONE"
        BY EventTypes DEF TransEvents, UserEvent
      <3> HIDE DEF e
      <3>3. ~Closes(events)
        BY <1>1, <2>1 DEF TellingInv
      <3>4. /\ Ordered(events') /\ ~Closes(events')
            /\ Tells(events', "CONN_CONNECTED") <=> Tells(events, "CONN_CONNECTED")
        BY <1>0, <1>1, <3>1, <3>2, <3>3, OrderedAppend DEF Closings, Losses
      <3>5. status # "CONNECTING"
        <4> SUFFICES ASSUME status = "CONNECTING" PROVE FALSE
          OBVIOUS
        <4>1. t \in Pings /\ delay_rm = {}
          BY <1>1, <2>1 DEF StandingInv, TellingInv, Trans
        <4>2. QED BY <1>1, <2>1, <2>6, <4>1 DEF Asked
      <3>6. TellingInv'
        BY <1>1, <2>1, <2>4, <3>1, <3>3, <3>4, <3>5 DEF TellingInv
      <3>7. \A p \in Pings : Asked(p)'
        BY <1>1, <2>1, <2>3, <3>1, AskedKept
      <3>8. QED BY <1>1, <2>1, <3>4, <3>6, <3>7 DEF ProgramInv
    <2>7. QED BY <2>5, <2>6
  <1>15. CASE ParseWait \/ \E t \in Trans : ParseOrphan(t)
    <2>1. /\ pc = "reading" /\ pc' \in {pc, "callbacks"}
          /\ UNCHANGED <<events, status, io, ev, pingtxn, trans_ready, call, tstatus, delay_rm>>
      BY <1>15 DEF ParseWait, ParseOrphan, Parsing
    <2>2. QED BY <1>1, <2>1, ProgramKept
  <1>16. CASE SetConnected
    <2> DEFINE e == UserEvent("CONN_CONNECTED", NoTrans)
    <2>1. /\ pc = "ping" /\ status' = "CONNECTED" /\ events' = Append(events, e)
          /\ pc' \in {"callbacks", "reading"} /\ SendReady(trans_ready)
          /\ pingtxn' = NoTrans
          /\ delay_rm' = IF pingtxn # NoTrans /\ tstatus[pingtxn] # "FREE"
                         THEN delay_rm \cup {pingtxn} ELSE delay_rm
          /\ UNCHANGED <<io, ev, call>>
      BY <1>16 DEF SetConnected, PingDeleted
    <2>2. events = <<>> /\ delay_rm = {} /\ status = "CONNECTING"
      BY <1>1, <2>1 DEF TellingInv, LinkInv
    <2>3. e \in Event /\ e.type = "CONN_CONNECTED"
      BY EventTypes DEF ConnEvents, UserEvent
    <2> HIDE DEF e
    <2>4. Ordered(events') /\ ~Closes(events')
      BY <1>0, <1>1, <2>1, <2>2, <2>3, NothingTold, OrderedAppend DEF Closings, Losses
    <2>5. TellingInv'
      BY <2>1, <2>4 DEF TellingInv, SendReady
    <2>6. \A p \in Pings : Asked(p)'
      <3> SUFFICES ASSUME NEW p \in Pings, tstatus'[p] = "PENDING" PROVE p \in delay_rm'
        BY DEF Asked
      <3>1. tstatus[p] = "PENDING"
        BY <1>0, <2>1 DEF SendReady, QueueInv, StandingInv
      <3>2. p = pingtxn
        BY <1>1, <2>2, <3>1 DEF Asked
      <3>3. QED BY <1>0, <2>1, <3>1, <3>2, ConnAssumption
    <2>7. QED BY <1>1, <2>1, <2>4, <2>5, <2>6 DEF ProgramInv
  <1>17. CASE Deliver
    <2>1. /\ pc = "callbacks" /\ pc' = "callback" /\ events # <<>> /\ events' = Tail(events)
          /\ UNCHANGED <<status, io, ev, pingtxn, trans_ready, call, tstatus, delay_rm>>
      BY <1>17 DEF Deliver
    <2>2. /\ Ordered(events') /\ ~Tells(events', "CONN_CONNECTED")
          /\ Closes(events') => Closes(events)
          /\ Completed(events') => Completed(events)
          /\ Closes(events) => events' = <<>> \/ Closes(events')
      BY <1>0, <1>1, <2>1, OrderedTail, NothingTold DEF Completed
    <2>3. events' = <<>> => ~Completed(events')
      BY NothingTold DEF Completed
    <2>4. TellingInv'
      BY <1>1, <2>1, <2>2, <2>3 DEF TellingInv
    <2>5. \A p \in Pings : Asked(p)'
      BY <1>1, <2>1, AskedKept
    <2>6. QED BY <1>1, <2>1, <2>2, <2>4, <2>5 DEF ProgramInv
  <1>18. CASE CallbackReturns \/ AllDelivered
    <2>1. UNCHANGED <<status, io, ev, pingtxn, trans_ready, call, tstatus, delay_rm>>
      BY <1>18 DEF CallbackReturns, AllDelivered
    <2>2. CASE /\ UNCHANGED events
               /\ (pc = "callback" /\ pc' = "callbacks") \/ (events = <<>> /\ pc' = "reap")
      BY <1>1, <2>1, <2>2, ProgramKept
    <2>3. CASE events' = <<>> /\ pc' = "reap"
      <3>1. TellingInv'
        BY <2>3, NothingTold DEF TellingInv, Completed
      <3>2. \A p \in Pings : Asked(p)'
        BY <1>1, <2>1, <2>3, AskedKept
      <3>3. QED BY <1>1, <2>1, <2>3, <3>1, <3>2, NothingTold DEF ProgramInv
    <2>4. QED BY <1>18, <2>2, <2>3 DEF CallbackReturns, AllDelivered
  <1>19. ASSUME NEW t \in Trans, Reap(t)
         PROVE  ProgramInv'
    <2>1. /\ pc = "reap" /\ pc' = pc /\ delay_rm' = delay_rm \ {t}
          /\ tstatus' = [tstatus EXCEPT ![t] = "FREE"]
          /\ UNCHANGED <<events, status, io, ev, pingtxn, call>>
      BY <1>19 DEF Reap, DeleteUnlocked
    <2>2. \A p \in Pings : tstatus'[p] = "PENDING" => tstatus[p] = "PENDING" /\ p # t
      BY <1>0, <2>1
    <2>3. ~Tells(events, "CONN_CONNECTED")
      BY <1>2, <2>1, NothingTold
    <2>4. QED BY <1>1, <2>1, <2>2, <2>3, ProgramKept
  <1>20. CASE Release
    <2>1. /\ pc = "reap" /\ pc' = "leaving"
          /\ UNCHANGED <<events, status, io, ev, pingtxn, trans_ready, tstatus, delay_rm>>
      BY <1>20 DEF Release
    <2>2. call'["app"] = "none"
      BY <1>0, <1>1, <1>20 DEF Release, Threads
    <2>3. QED BY <1>2, <2>1, <2>2, ProgramKept
  <1>21. CASE Leave
    <2>1. CASE destroy
      BY <1>1, <1>21, <2>1 DEF Leave, DestroyIsSet, FreeConn, ProgramInv
    <2>2. CASE ~destroy
      <3>1. /\ pc = "leaving" /\ pc' = "idle"
            /\ UNCHANGED <<events, status, io, ev, pingtxn, trans_ready, call, tstatus, delay_rm>>
        BY <1>21, <2>2 DEF Leave, DestroyIsSet
      <3>2. QED BY <1>1, <1>2, <3>1, ProgramKept
    <2>3. QED BY <2>1, <2>2
  <1>22. CASE UNCHANGED vars
    BY <1>1, <1>22, ProgramKept DEF vars
  <1>23. QED
    BY <1>4, <1>5, <1>7, <1>8, <1>10, <1>11, <1>12, <1>13, <1>14, <1>15, <1>16, <1>17, <1>18,
       <1>19, <1>20, <1>21, <1>22 DEF Next, Handler, Gone

(* ProgramInv holds in every state a program with one thread reaches.       *)
LEMMA ProgramCorrect ==
    ASSUME SoloCalls
    PROVE  Spec => []ProgramInv
  <1>1. Init => ProgramInv
    <2> SUFFICES ASSUME Init PROVE ProgramInv
      OBVIOUS
    <2>1. call["app"] = "none" /\ events = <<>> /\ pc = "idle" /\ \A p \in Pings : tstatus[p] = "FREE"
      BY DEF Init, Threads, Trans
    <2>2. QED BY <2>1, NothingTold DEF ProgramInv, TellingInv, Completed, Asked
  <1>2. QED BY <1>1, BasisCorrect, ProgramStep, PTL DEF Spec

-----------------------------------------------------------------------------
(* The callback and the list it is fed from.                                *)

(* An event is being told exactly while the callback runs, and a destroy is *)
(* put off by the callback only.                                            *)
SilentInv ==
    alive => /\ telling = "none" <=> pc # "callback"
             /\ destroy => pc \in {"callback", "reap", "leaving"}

(* No step of a program with one thread breaks SilentInv.                   *)
LEMMA SilentStep ==
    ASSUME SoloCalls
    PROVE  TypeOK /\ HandlerInv /\ ProgramInv /\ SilentInv /\ [Next]_vars => SilentInv'
  <1> SUFFICES ASSUME TypeOK, HandlerInv, ProgramInv, SilentInv, [Next]_vars, alive'
               PROVE  SilentInv'
    BY DEF SilentInv
  <1> USE DEF SilentInv, objVars, linkVars, confVars, queueVars, fieldVars, loopVars, histVars
  <1>1. ASSUME NEW a \in Threads, ApiCall(a) \/ ImplicitConnect(a) \/ RegisterIo(a)
        PROVE  SilentInv'
    <2>1. a = "loop"
      BY <1>1, LoopOnly DEF ProgramInv
    <2>2. CASE LM_conn_destroy(a)
      BY <2>1, <2>2 DEF LM_conn_destroy, MayCall, Deferred, HandlerInv, FreeConn
    <2>3. CASE ~LM_conn_destroy(a)
      <3>1. alive /\ UNCHANGED <<pc, telling, destroy>>
        BY <1>1, <2>3 DEF ApiCall, LM_trans_new, LM_conn_connect, LM_conn_disconnect,
              LM_conn_disable_ping, LM_conn_set_idle_timeout, LM_trans_set_param,
              LM_trans_set_timeout, LM_trans_send, LM_trans_delete, MayCall, ImplicitConnect,
              RegisterIo
      <3>2. QED BY <3>1
    <2>4. QED BY <2>2, <2>3
  <1>2. CASE LoopDispatch
    BY <1>2 DEF LoopDispatch, DispatchConnected, DispatchClosed, DispatchRead, DispatchWrite,
                DispatchTrigger, DispatchTimer, DispatchTransTimer, Dispatch
  <1>3. CASE \/ HandleConnectedNoPing \/ HandleConnected \/ HandleRead \/ HandleWrite
             \/ HandleTransTimeout \/ HandlePingTimeout \/ HandleIdleTimeout
             \/ \E type \in {"DISCONNECTED", "ERROR"} : HandleClosed(type)
    BY <1>3 DEF HandleConnectedNoPing, HandleConnected, HandleRead, HandleWrite,
                HandleTransTimeout, HandlePingTimeout, HandleIdleTimeout, HandleClosed, Enter,
                CleanupPing
  <1>4. CASE ParseWait \/ ParseError \/ \E t \in Trans : ParseResponse(t) \/ ParseOrphan(t)
    BY <1>4 DEF ParseWait, ParseError, ParseResponse, ParseOrphan, Parsing, CleanupPing
  <1>5. CASE SetConnected \/ PingLost
    BY <1>5 DEF SetConnected, PingLost, PingDeleted
  <1>6. CASE Deliver
    <2>1. Head(events) \in Event
      BY <1>6, HeadTailProperties DEF Deliver, TypeOK
    <2>2. Head(events).type # "none"
      BY <2>1 DEF Event, ConnEvents, TransEvents
    <2>3. QED BY <1>6, <2>2 DEF Deliver
  <1>7. CASE \/ CallbackReturns \/ AllDelivered \/ Release \/ Leave
             \/ \E t \in Trans : Reap(t)
    BY <1>7 DEF CallbackReturns, AllDelivered, Release, Leave, Reap, DestroyIsSet, FreeConn
  <1>8. CASE UNCHANGED vars
    BY <1>8 DEF vars
  <1>9. QED
    BY <1>1, <1>2, <1>3, <1>4, <1>5, <1>6, <1>7, <1>8 DEF Next, Handler, Gone

(* An answer is told of the program's own transactions, a NOCONNECT of one  *)
(* that still waits and a timeout of one that is still outstanding.         *)
EntryFine(e) ==
    /\ e.type = "TRANS_DONE" => e.trans \in Users
    /\ e.type = "TRANS_NOCONNECT" => tstatus[e.trans] = "READY" /\ pc \in {"callbacks", "callback"}
    /\ e.type = "TRANS_TIMEOUT" =>
          e.trans \in Users /\ tstatus[e.trans] = "PENDING" /\ pc \in {"callbacks", "callback"}

(* Only one ping can be on a list, once, and then nothing was established.  *)
PingsTold(q) ==
    \A p \in Pings : ~NoFinal(q, p) =>
        /\ OneFinal(q, p) /\ ~Tells(q, "CONN_CONNECTED")
        /\ \A u \in Pings : u # p => NoFinal(q, u)

ListInv ==
    alive =>
        /\ \A e \in ToSet(events) : EntryFine(e)
        /\ PingsTold(events)
        /\ pc = "dispatched" /\ ev.trans # NoTrans => tstatus[ev.trans] = "PENDING"
        /\ pc = "ping" /\ ev.type = "READ" => pingtxn = NoTrans \/ tstatus[pingtxn] # "PENDING"
        /\ pc = "reading" => \A p \in Pings \cap delay_rm : tstatus[p] # "PENDING"

(* Steps that leave the list alone.                                         *)
LEMMA ListKept ==
    ASSUME ListInv, alive, UNCHANGED events,
           \A e \in ToSet(events) : e.type \in {"TRANS_NOCONNECT", "TRANS_TIMEOUT"} =>
               tstatus'[e.trans] = tstatus[e.trans] /\ pc' \in {pc, "callbacks", "callback"},
           \/ pc' \notin {"dispatched", "ping", "reading"}
           \/ UNCHANGED <<pc, ev, pingtxn, delay_rm, tstatus>>
           \/ pc' = "ping" /\ ev'.type # "READ"
           \/ pc' = "reading" /\ delay_rm' = {}
    PROVE  ListInv'
  <1>1. \A e \in ToSet(events') : EntryFine(e)'
    BY DEF ListInv, EntryFine
  <1>2. PingsTold(events')
    BY DEF ListInv
  <1>3. QED BY <1>1, <1>2 DEF ListInv

(* A lost connection tells of the ping only if it was not answered, so that *)
(* nothing else was told before.                                            *)
LEMMA ListLost ==
    ASSUME TypeOK, QueueInv, HandlerInv, ProgramInv, ListInv, alive, NEW type, ConnError(type),
           pc' = "callbacks", pc \in {"dispatched", "reading", "ping"}
    PROVE  /\ ListInv'
           /\ status # "CONNECTING" => \A p \in Pings : NoFinal(events', p)
  <1>1. Ordered(events) /\ events \in Seq(Event) /\ TellingInv /\ ~Closes(events)
    BY DEF ProgramInv, TypeOK, TellingInv
  <1>2. /\ events' = events \o LossEvents(type) /\ LossEvents(type) \in Seq(Event)
        /\ \A t \in Trans : t \notin ToSet(trans_pending) => tstatus'[t] = tstatus[t]
    BY LossEventsType DEF ConnError, Abandoned
  <1>3. ToSet(events') = ToSet(events) \cup ToSet(LossEvents(type))
    BY <1>1, <1>2, ToSetConcat
  <1>4. \A e \in ToSet(events) : e.type \notin Losses
    BY <1>1 DEF Ordered, Closes, ToSet
  <1>5. \A e \in ToSet(events') : EntryFine(e)'
    <2> SUFFICES ASSUME NEW e \in ToSet(events') PROVE EntryFine(e)'
      OBVIOUS
    <2>1. CASE e \in ToSet(events)
      BY <1>4, <2>1 DEF EntryFine, ListInv, Losses
    <2>2. CASE e \in ToSet(LossEvents(type))
      <3>1. e.type = "TRANS_NOCONNECT" => e.trans \in ToSet(trans_ready)
        BY <2>2, LossEntries
      <3>2. e.type = "TRANS_NOCONNECT" => e.trans \in Trans /\ tstatus[e.trans] = "READY"
        BY <3>1 DEF QueueInv
      <3>3. e.type = "TRANS_NOCONNECT" => tstatus'[e.trans] = "READY"
        BY <1>2, <3>2 DEF QueueInv
      <3>4. e.type \notin {"TRANS_DONE", "TRANS_TIMEOUT"}
        BY <2>2, LossEntries
      <3>5. QED BY <3>3, <3>4 DEF EntryFine
    <2>3. QED BY <1>3, <2>1, <2>2
  <1>6. \A p \in Pings : NoFinal(events, p)
    <2>1. \A e \in ToSet(events) : \A p \in Pings : ~IsFinal(e, p)
      BY <1>4, ConnAssumption DEF IsFinal, ListInv, EntryFine, Losses
    <2>2. QED BY <2>1 DEF NoFinal, ToSet
  <1>7. \A p \in Pings : p \in ToSet(trans_pending) => p = pingtxn /\ status = "CONNECTING"
    <2> SUFFICES ASSUME NEW p \in Pings, p \in ToSet(trans_pending)
                 PROVE  p = pingtxn /\ status = "CONNECTING"
      OBVIOUS
    <2>1. tstatus[p] = "PENDING" /\ Asked(p)
      BY DEF QueueInv, ProgramInv
    <2>2. p \notin delay_rm
      BY <1>1, <2>1 DEF HandlerInv, TellingInv, ListInv
    <2>3. QED BY <2>1, <2>2 DEF Asked
  <1>8. /\ \A p \in Pings : p \in ToSet(trans_pending) => OneFinal(events', p)
        /\ \A p \in Pings : p \notin ToSet(trans_pending) => NoFinal(events', p)
    BY <1>1, <1>2, <1>6, FinalLoss, FinalConcat
  <1>9. status = "CONNECTING" => ~Tells(events', "CONN_CONNECTED")
    <2>1. status = "CONNECTING" => ~Tells(events, "CONN_CONNECTED")
      BY <1>1 DEF TellingInv
    <2>2. QED BY <1>1, <1>2, <2>1, OrderedLoss
  <1>10. PingsTold(events')
    BY <1>7, <1>8, <1>9 DEF PingsTold
  <1>11. QED BY <1>5, <1>7, <1>8, <1>10 DEF ListInv

(* No step of a program with one thread breaks ListInv.                     *)
LEMMA ListStep ==
    ASSUME SoloCalls
    PROVE  Basis /\ HeldInv /\ EntryInv /\ ProgramInv /\ ListInv /\ [Next]_vars => ListInv'
  <1> SUFFICES ASSUME TypeOK, QueueInv, HandlerInv, LinkInv, StandingInv, HeldInv, EntryInv,
                      ProgramInv, ListInv, [Next]_vars, alive'
               PROVE  ListInv'
    BY DEF Basis, ListInv
  <1> USE DEF objVars, linkVars, confVars, queueVars, fieldVars, loopVars, histVars
  <1>0. /\ tstatus \in [Trans -> TransStatus] /\ events \in Seq(Event)
        /\ pingtxn \in Pings \cup {NoTrans} /\ \A p \in Pings : p \in Trans /\ p \notin Users
    BY ConnAssumption DEF TypeOK, Trans
  <1>1. pc \in {"idle", "dispatched", "reap", "leaving"} => ToSet(events) = {}
    BY ToSetEmpty DEF HandlerInv
  <1>2. alive => Ordered(events) /\ TellingInv
    BY DEF ProgramInv
  <1>3. ASSUME NEW a \in Threads, ApiCall(a) \/ ImplicitConnect(a) \/ RegisterIo(a)
        PROVE  ListInv'
    <2>1. a = "loop" /\ alive
      BY <1>3, LoopOnly DEF ProgramInv, ApiCall, LM_trans_new, LM_conn_connect, LM_conn_disconnect,
            LM_conn_disable_ping, LM_conn_set_idle_timeout, LM_conn_destroy, LM_trans_set_param,
            LM_trans_set_timeout, LM_trans_send, LM_trans_delete, MayCall, ImplicitConnect,
            RegisterIo
    <2>2. ASSUME UNCHANGED <<events, pc, ev, pingtxn, delay_rm, tstatus>>
          PROVE  ListInv'
      BY <2>1, <2>2, ListKept
    <2>3. CASE \/ LM_conn_connect(a) \/ LM_conn_disconnect(a) \/ LM_conn_disable_ping(a)
               \/ LM_conn_set_idle_timeout(a) \/ ImplicitConnect(a) \/ RegisterIo(a)
               \/ \E t \in Trans : LM_trans_set_param(a, t) \/ LM_trans_set_timeout(a, t)
      BY <2>2, <2>3 DEF LM_conn_connect, LM_conn_disconnect, LM_conn_disable_ping,
            LM_conn_set_idle_timeout, ImplicitConnect, RegisterIo, LM_trans_set_param,
            LM_trans_set_timeout
    <2>4. CASE LM_conn_destroy(a)
      BY <2>2, <2>4 DEF LM_conn_destroy, FreeConn
    <2>5. ASSUME pc \in {"idle", "callback"}, UNCHANGED <<events, pc>>,
                 \A e \in ToSet(events) : e.type \in {"TRANS_NOCONNECT", "TRANS_TIMEOUT"} =>
                     tstatus'[e.trans] = tstatus[e.trans]
          PROVE  ListInv'
      BY <2>1, <2>5, ListKept
    <2>6. \A e \in ToSet(events) : e.type \in {"TRANS_NOCONNECT", "TRANS_TIMEOUT"} =>
              e.trans \in Trans /\ tstatus[e.trans] \in {"READY", "PENDING"}
      <3>1. \A e \in ToSet(events) : e \in Event
        BY <1>0, ToSetByIndex, LenProperties
      <3>2. QED BY <2>1, <3>1 DEF Event, ConnEvents, ListInv, EntryFine
    <2>7. CASE LM_trans_new(a)
      <3>1. PICK t \in Users : tstatus' = [tstatus EXCEPT ![t] = "NEW"] /\ tstatus[t] = "FREE"
        BY <2>7 DEF LM_trans_new, Unused
      <3>2. pc \in {"idle", "callback"} /\ UNCHANGED <<events, pc>>
        BY <2>1, <2>7 DEF LM_trans_new, MayCall
      <3>3. \A e \in ToSet(events) : e.type \in {"TRANS_NOCONNECT", "TRANS_TIMEOUT"} =>
                tstatus'[e.trans] = tstatus[e.trans]
        BY <1>0, <2>6, <3>1
      <3>4. QED BY <2>5, <3>2, <3>3
    <2>8. ASSUME NEW t \in Trans, LM_trans_send(a, t)
          PROVE  ListInv'
      <3>1. pc \in {"idle", "callback"} /\ tstatus[t] = "NEW" /\ UNCHANGED <<events, pc>>
        BY <2>1, <2>8 DEF LM_trans_send, MayCall
      <3>2. CASE CanSend
        <4>1. ~Closes(events)
          BY <1>2, <2>1, <3>2 DEF CanSend, TellingInv
        <4>2. \A e \in ToSet(events) : e.type # "TRANS_NOCONNECT"
          BY <1>2, <2>1, <4>1 DEF Ordered, Closes, Losses, ToSet
        <4>3. \A e \in ToSet(events) : e.type = "TRANS_TIMEOUT" =>
                  e.trans \in Trans /\ tstatus[e.trans] = "PENDING"
          BY <2>1, <2>6 DEF ListInv, EntryFine
        <4>4. \A u \in ToSet(Append(trans_ready, t)) : tstatus[u] # "PENDING"
          <5>1. ToSet(Append(trans_ready, t)) = ToSet(trans_ready) \cup {t}
            BY ToSetAppend DEF TypeOK
          <5>2. QED BY <3>1, <5>1 DEF QueueInv
        <4>5. SendReady(Append(trans_ready, t))
          BY <2>8, <3>2 DEF LM_trans_send
        <4>6. \A u \in Trans : tstatus[u] = "PENDING" => tstatus'[u] = "PENDING"
          BY <4>5 DEF SendReady
        <4>7. QED BY <2>5, <3>1, <4>2, <4>3, <4>6
      <3>3. CASE ~CanSend
        <4>1. tstatus' = [tstatus EXCEPT ![t] = "READY"]
          BY <2>8, <3>3 DEF LM_trans_send
        <4>2. \A e \in ToSet(events) : e.type \in {"TRANS_NOCONNECT", "TRANS_TIMEOUT"} =>
                  tstatus'[e.trans] = tstatus[e.trans]
          BY <1>0, <2>6, <3>1, <4>1
        <4>3. QED BY <2>5, <3>1, <4>2
      <3>4. QED BY <3>2, <3>3
    <2>9. ASSUME NEW t \in Trans, LM_trans_delete(a, t)
          PROVE  ListInv'
      <3>1. pc \in {"idle", "callback"} /\ UNCHANGED <<events, pc>>
        BY <2>1, <2>9 DEF LM_trans_delete, MayCall
      <3>2. CASE Deferred
        BY <2>5, <2>9, <3>1, <3>2 DEF LM_trans_delete
      <3>3. CASE ~Deferred
        <4>1. ToSet(events) = {}
          BY <1>1, <2>1, <3>1, <3>3 DEF Deferred, HandlerInv
        <4>2. QED BY <2>5, <3>1, <4>1
      <3>4. QED BY <3>2, <3>3
    <2>10. QED BY <1>3, <2>3, <2>4, <2>7, <2>8, <2>9 DEF ApiCall
  <1>4. CASE LoopDispatch
    <2>1. alive /\ pc = "idle" /\ pc' = "dispatched" /\ UNCHANGED <<events, tstatus>>
      BY <1>4 DEF LoopDispatch, DispatchConnected, DispatchClosed, DispatchRead, DispatchWrite,
                  DispatchTrigger, DispatchTimer, DispatchTransTimer, Dispatch
    <2>2. ev'.trans # NoTrans => tstatus[ev'.trans] = "PENDING"
      <3>1. ASSUME NEW t \in Trans, DispatchTransTimer(t)
            PROVE  ev'.trans = t /\ tstatus[t] = "PENDING"
        BY <2>1, <3>1 DEF DispatchTransTimer, Dispatch, UserEvent, HeldInv
      <3>2. ASSUME NEW type, Dispatch(type, NoTrans)
            PROVE  ev'.trans = NoTrans
        BY <3>2 DEF Dispatch, UserEvent
      <3>3. QED BY <1>4, <3>1, <3>2 DEF LoopDispatch, DispatchConnected, DispatchClosed,
              DispatchRead, DispatchWrite, DispatchTrigger, DispatchTimer
    <2>3. ToSet(events') = {}
      BY <1>1, <2>1
    <2>4. PingsTold(events')
      BY <2>1 DEF ListInv
    <2>5. QED BY <2>1, <2>2, <2>3, <2>4 DEF ListInv
  <1>5. CASE \/ HandleConnectedNoPing \/ HandleConnected \/ HandleRead \/ HandleWrite
             \/ HandlePingTimeout \/ HandleIdleTimeout
    <2>1. /\ alive /\ pc = "dispatched" /\ UNCHANGED <<events, ev>> /\ delay_rm' = {}
          /\ \/ pc' \in {"callbacks", "reading"}
             \/ pc' = "ping" /\ ev.type # "READ"
      BY <1>5 DEF HandleConnectedNoPing, HandleConnected, HandleRead, HandleWrite,
            HandlePingTimeout, HandleIdleTimeout, Enter, CleanupPing, HandlerInv
    <2>2. QED BY <1>1, <2>1, ListKept
  <1>6. CASE HandleTransTimeout
    <2> DEFINE e == UserEvent("TRANS_TIMEOUT", ev.trans)
    <2>1. /\ alive /\ pc = "dispatched" /\ pc' = "callbacks" /\ events' = Append(events, e)
          /\ ev.trans # NoTrans /\ ev \in IoEvent /\ UNCHANGED tstatus
      BY <1>6 DEF HandleTransTimeout, Enter, IsTransTimer, TypeOK
    <2>2. /\ e \in Event /\ e.type = "TRANS_TIMEOUT" /\ e.trans \in Users
          /\ tstatus[e.trans] = "PENDING"
      BY <2>1, EventTypes DEF TransEvents, UserEvent, HeldInv, ListInv
    <2> HIDE DEF e
    <2>3. ToSet(events') = {e}
      BY <1>0, <1>1, <2>1, <2>2, ToSetAppend
    <2>4. \A p : NoFinal(events', p)
      BY <2>2, <2>3 DEF NoFinal, IsFinal, ToSet
    <2>5. \A x \in ToSet(events') : EntryFine(x)'
      BY <2>1, <2>2, <2>3 DEF EntryFine
    <2>6. QED BY <2>1, <2>4, <2>5 DEF ListInv, PingsTold
  <1>7. CASE \/ ParseError \/ PingLost
             \/ \E type \in {"DISCONNECTED", "ERROR"} : HandleClosed(type)
    BY <1>7, ListLost DEF HandleClosed, ParseError, PingLost, PingDeleted, Parsing, Enter
  <1>8. ASSUME NEW t \in Trans, ParseResponse(t)
        PROVE  ListInv'
    <2>1. /\ alive /\ pc = "reading" /\ tstatus[t] = "PENDING" /\ UNCHANGED <<ev, pingtxn, delay_rm>>
          /\ \A u \in Trans : tstatus'[u] = IF u = t THEN "DONE" ELSE tstatus[u]
      BY <1>0, <1>8 DEF ParseResponse, Parsing
    <2>2. \A e \in ToSet(events) : e.type \notin {"TRANS_NOCONNECT", "TRANS_TIMEOUT"} /\ EntryFine(e)'
      BY <2>1 DEF ListInv, EntryFine
    <2>3. CASE t = pingtxn
      <3>1. pc' = "ping" /\ UNCHANGED events
        BY <1>8, <2>3 DEF ParseResponse, CleanupPing
      <3>2. tstatus'[pingtxn'] # "PENDING"
        BY <2>1, <2>3
      <3>3. PingsTold(events')
        BY <2>1, <3>1 DEF ListInv
      <3>4. QED BY <2>2, <3>1, <3>2, <3>3 DEF ListInv
    <2>4. CASE t # pingtxn
      <3> DEFINE e == UserEvent("TRANS_DONE", t)
      <3>1. pc' = "reading" /\ events' = Append(events, e)
        BY <1>8, <2>1, <2>4 DEF ParseResponse
      <3>2. e \in Event /\ e.type = "TRANS_DONE" /\ e.trans = t
        BY EventTypes DEF TransEvents, UserEvent
      <3> HIDE DEF e
      <3>3. t \in Users
        <4>1. t \in Pings => Asked(t) /\ t \notin delay_rm
          BY <2>1 DEF ProgramInv, ListInv
        <4>2. QED BY <2>1, <2>4, <4>1 DEF Asked, Trans
      <3>4. ToSet(events') = ToSet(events) \cup {e}
        BY <1>0, <3>1, <3>2, ToSetAppend
      <3>5. \A x \in ToSet(events') : EntryFine(x)'
        BY <2>2, <3>2, <3>3, <3>4 DEF EntryFine
      <3>6. \A p \in Pings : ~IsFinal(e, p)
        BY <1>0, <3>2, <3>3 DEF IsFinal
      <3>7. \A p \in Pings : /\ NoFinal(events, p) => NoFinal(events', p)
                             /\ OneFinal(events, p) => OneFinal(events', p)
        BY <1>0, <3>1, <3>2, <3>6, FinalAppend
      <3>8. Tells(events', "CONN_CONNECTED") => Tells(events, "CONN_CONNECTED")
        BY <3>2, <3>4, TellsByEntry
      <3>9. PingsTold(events')
        BY <2>1, <3>7, <3>8 DEF ListInv, PingsTold
      <3>10. \A p \in Pings \cap delay_rm' : tstatus'[p] # "PENDING"
        BY <1>0, <2>1 DEF ListInv
      <3>11. QED BY <3>1, <3>5, <3>9, <3>10 DEF ListInv
    <2>5. QED BY <2>3, <2>4
  <1>9. CASE ParseWait \/ \E t \in Trans : ParseOrphan(t)
    <2>1. /\ alive /\ pc = "reading" /\ UNCHANGED <<events, tstatus>>
          /\ pc' = "callbacks" \/ UNCHANGED <<pc, ev, pingtxn, delay_rm>>
      BY <1>9 DEF ParseWait, ParseOrphan, Parsing
    <2>2. QED BY <2>1, ListKept
  <1>10. CASE SetConnected
    <2> DEFINE e == UserEvent("CONN_CONNECTED", NoTrans)
    <2>1. /\ alive /\ pc = "ping" /\ events' = Append(events, e)
          /\ pc' = IF ev.type = "CONNECTED" THEN "callbacks" ELSE "reading"
          /\ ev.type \in {"READ", "CONNECTED"} /\ SendReady(trans_ready)
          /\ delay_rm' = IF pingtxn # NoTrans /\ tstatus[pingtxn] # "FREE"
                         THEN delay_rm \cup {pingtxn} ELSE delay_rm
      BY <1>10 DEF SetConnected, PingDeleted
    <2>2. events = <<>> /\ delay_rm = {}
      BY <1>2, <2>1 DEF TellingInv
    <2>3. e \in Event /\ e.type = "CONN_CONNECTED"
      BY EventTypes DEF ConnEvents, UserEvent
    <2> HIDE DEF e
    <2>4. ToSet(events') = {e}
      <3>1. ToSet(events') = ToSet(events) \cup {e}
        BY <1>0, <2>1, <2>3, ToSetAppend
      <3>2. QED BY <2>2, <3>1, ToSetEmpty
    <2>5. \A p : NoFinal(events', p)
      BY <2>3, <2>4 DEF NoFinal, IsFinal, ToSet
    <2>6. \A x \in ToSet(events') : EntryFine(x)'
      BY <2>3, <2>4 DEF EntryFine
    <2>7. pc' = "reading" => \A p \in Pings \cap delay_rm' : tstatus'[p] # "PENDING"
      <3> SUFFICES ASSUME pc' = "reading", NEW p \in Pings, p \in delay_rm'
                   PROVE  tstatus'[p] # "PENDING"
        OBVIOUS
      <3>1. p = pingtxn /\ ev.type = "READ" /\ p # NoTrans
        BY <2>1, <2>2
      <3>2. tstatus[p] # "PENDING"
        BY <2>1, <3>1 DEF ListInv
      <3>3. p \notin ToSet(trans_ready)
        BY <2>1 DEF QueueInv, StandingInv
      <3>4. QED BY <1>0, <2>1, <3>2, <3>3 DEF SendReady
    <2>8. QED BY <2>1, <2>5, <2>6, <2>7 DEF ListInv, PingsTold
  <1>11. CASE Deliver
    <2>1. /\ alive /\ pc' = "callback" /\ pc = "callbacks" /\ events # <<>> /\ events' = Tail(events)
          /\ UNCHANGED tstatus
      BY <1>11 DEF Deliver
    <2>2. ToSet(events') \subseteq ToSet(events)
      BY <1>0, <2>1, HeadTailEntries
    <2>3. \A e \in ToSet(events') : EntryFine(e)'
      BY <2>1, <2>2 DEF ListInv, EntryFine
    <2>4. \A p \in Pings : /\ NoFinal(events, p) => NoFinal(events', p)
                           /\ OneFinal(events, p) => NoFinal(events', p) \/ OneFinal(events', p)
      BY <1>0, <2>1, FinalTail
    <2>5. ~Tells(events', "CONN_CONNECTED")
      BY <1>0, <1>2, <2>1, OrderedTail
    <2>6. PingsTold(events')
      BY <2>1, <2>4, <2>5 DEF ListInv, PingsTold
    <2>7. QED BY <2>1, <2>3, <2>6 DEF ListInv
  <1>12. CASE CallbackReturns
    <2>1. CASE destroy
      <3>1. events' = <<>> /\ pc' = "reap"
        BY <1>12, <2>1 DEF CallbackReturns, DestroyIsSet
      <3>2. QED BY <3>1, ToSetEmpty DEF ListInv, PingsTold, NoFinal
    <2>2. CASE ~destroy
      BY <1>12, <2>2, ListKept DEF CallbackReturns, DestroyIsSet
    <2>3. QED BY <2>1, <2>2
  <1>13. CASE \/ AllDelivered \/ Release \/ Leave \/ \E t \in Trans : Reap(t)
    <2>1. /\ alive /\ pc' \in {"idle", "reap", "leaving"} /\ UNCHANGED events
          /\ ToSet(events) = {}
      BY <1>1, <1>13, ToSetEmpty DEF AllDelivered, Release, Leave, Reap, FreeConn
    <2>2. QED BY <2>1, ListKept
  <1>14. CASE UNCHANGED vars
    BY <1>14, ListKept DEF vars
  <1>15. QED
    BY <1>3, <1>4, <1>5, <1>6, <1>7, <1>8, <1>9, <1>10, <1>11, <1>12, <1>13, <1>14
       DEF Next, Handler, Gone

(* Both hold in every state a program with one thread reaches.              *)
LEMMA ListCorrect ==
    ASSUME SoloCalls
    PROVE  Spec => [](SilentInv /\ ListInv)
  <1>1. Init => SilentInv /\ ListInv
    BY ToSetEmpty DEF Init, SilentInv, ListInv, PingsTold, NoFinal
  <1>2. <<"app", "LM_trans_delete">> \notin Calls
    BY DEF SoloCalls
  <1>3. Spec => []HeldInv
    BY <1>2, HeldCorrect
  <1>4. Basis => TypeOK /\ HandlerInv
    BY DEF Basis
  <1>5. QED BY <1>1, <1>3, <1>4, BasisCorrect, EntryCorrect, ProgramCorrect, SilentStep, ListStep, PTL
            DEF Spec

-----------------------------------------------------------------------------
(* What the program sees of a connection: the phase, two numbers and if the *)
(* ping is to be told of, which follow from the list of events, the status  *)
(* and the queues.                                                          *)

(* Due, by the list of the handler.                                         *)
LEMMA DueTells ==
    /\ \A type : Due(type) <=> Tells(events, type)
    /\ \A type : Due(type)' <=> Tells(events', type)
  BY DEF Due, Tells

(* What is unanswered, before and after a step.                             *)
LEMMA UnansweredByList ==
    /\ Unanswered = {t \in Users : tstatus[t] = "PENDING" \/ ~NoFinal(events, t)}
    /\ Unanswered' = {t \in Users : tstatus'[t] = "PENDING" \/ ~NoFinal(events', t)}
  BY DEF Unanswered, NoFinal

(* A final event for a transaction, by the entries of the list.             *)
LEMMA NoFinalByEntry ==
    ASSUME NEW q, NEW t
    PROVE  NoFinal(q, t) <=> \A e \in ToSet(q) : ~IsFinal(e, t)
  BY DEF NoFinal, ToSet

(* The promised phase, by what the list still has to tell.                  *)
LEMMA PhaseNow ==
    /\ ~alive \/ destroy => PromisedPhase = "gone"
    /\ alive /\ ~destroy /\ Tells(events, "CONN_CONNECTED") => PromisedPhase = "trying"
    /\ alive /\ ~destroy /\ ~Tells(events, "CONN_CONNECTED") =>
          PromisedPhase = IF Tells(events, "CONN_DISCONNECT") THEN "disconnected"
                          ELSE IF Tells(events, "CONN_ERROR") THEN "failed"
                          ELSE IF status = "DISCONNECTED" THEN "idle"
                          ELSE IF status = "CONNECTING" THEN "trying"
                          ELSE IF status = "CONNECTED" THEN "up" ELSE "leaving"
  BY DueTells DEF PromisedPhase

(* The same after a step.                                                   *)
LEMMA PhaseNext ==
    /\ ~alive' \/ destroy' => PromisedPhase' = "gone"
    /\ alive' /\ ~destroy' /\ Tells(events', "CONN_CONNECTED") => PromisedPhase' = "trying"
    /\ alive' /\ ~destroy' /\ ~Tells(events', "CONN_CONNECTED") =>
          PromisedPhase' = IF Tells(events', "CONN_DISCONNECT") THEN "disconnected"
                           ELSE IF Tells(events', "CONN_ERROR") THEN "failed"
                           ELSE IF status' = "DISCONNECTED" THEN "idle"
                           ELSE IF status' = "CONNECTING" THEN "trying"
                           ELSE IF status' = "CONNECTED" THEN "up" ELSE "leaving"
  BY DueTells DEF PromisedPhase

Owed == Cardinality(Unanswered)
View(phase, owed, late, ping) == [phase |-> phase, owed |-> owed, late |-> late, ping |-> ping]

(* A view with its phase changed.                                           *)
LEMMA ViewIn ==
    ASSUME NEW phase, NEW owed, NEW late, NEW ping, NEW c, c = View(phase, owed, late, ping)
    PROVE  \A p : [c EXCEPT !.phase = p] = View(p, owed, late, ping)
  BY DEF View

(* What CallbackPromise lets happen to a connection, in terms of its parts. *)
LEMMA ViewDeleted ==
    ASSUME NEW phase \in {"idle", "trying", "up", "leaving"}, NEW owed \in Nat, NEW late \in Nat,
           NEW ping, NEW c, c = View(phase, owed, late, ping)
    PROVE  /\ owed > 0 => View(phase, owed - 1, late, ping) \in Callbacks!Deleting(c)
           /\ late > 0 => View(phase, owed, late - 1, ping) \in Callbacks!Deleting(c)
  <1>1. /\ c.phase = phase /\ c.owed = owed /\ c.late = late
        /\ [c EXCEPT !.owed = @ - 1] = View(phase, owed - 1, late, ping)
        /\ [c EXCEPT !.late = @ - 1] = View(phase, owed, late - 1, ping)
    BY DEF View
  <1>2. \A o, l : View(phase, o, l, ping).owed = o /\ View(phase, o, l, ping).late = l
    BY DEF View
  <1>3. c.phase \notin Callbacks!Lost \cup {"gone"}
    BY <1>1 DEF Callbacks!Lost
  <1>4. ASSUME owed > 0 PROVE View(phase, owed - 1, late, ping) \in Callbacks!Deleting(c)
    <2>1. owed - 1 \in Nat
      BY <1>4
    <2>2. QED BY <1>1, <1>2, <1>3, <2>1 DEF Callbacks!Deleting
  <1>5. ASSUME late > 0 PROVE View(phase, owed, late - 1, ping) \in Callbacks!Deleting(c)
    <2>1. late - 1 \in Nat
      BY <1>5
    <2>2. QED BY <1>1, <1>2, <1>3, <2>1 DEF Callbacks!Deleting
  <1>6. QED BY <1>4, <1>5

(* A loss, with the ping on the way if the connection was not up yet.       *)
LEMMA ViewLost ==
    ASSUME NEW phase, NEW owed, NEW late, NEW ping, NEW c, c = View(phase, owed, late, ping),
           NEW lost \in {"disconnected", "failed"}
    PROVE  /\ phase = "trying" =>
                 /\ View(lost, owed, late, ping) \in Callbacks!Losing(c)
                 /\ View(lost, owed, late, TRUE) \in Callbacks!Losing(c)
           /\ phase = "up" => View(lost, owed, late, ping) \in Callbacks!Losing(c)
           /\ phase = "leaving" => View("disconnected", owed, late, ping) \in Callbacks!Losing(c)
  <1>1. c.phase = phase
    BY DEF View
  <1>2. \A p : [c EXCEPT !.phase = p] = View(p, owed, late, ping)
    BY ViewIn
  <1>3. [View(lost, owed, late, ping) EXCEPT !.ping = TRUE] = View(lost, owed, late, TRUE)
    <2> DEFINE yes == TRUE
    <2> HIDE DEF yes
    <2>1. [View(lost, owed, late, ping) EXCEPT !.ping = yes] = View(lost, owed, late, yes)
      BY DEF View
    <2>2. QED BY <2>1 DEF yes
  <1>4. View(lost, owed, late, ping) \in Callbacks!LostAs(c)
    BY <1>2 DEF Callbacks!LostAs, Callbacks!Lost
  <1>5. CASE phase = "trying"
    <2>1. Callbacks!Losing(c) = Callbacks!LostAs(c)
                                \cup {[n EXCEPT !.ping = TRUE] : n \in Callbacks!LostAs(c)}
      BY <1>1, <1>5 DEF Callbacks!Losing
    <2>2. QED BY <1>3, <1>4, <1>5, <2>1
  <1>6. CASE phase = "up"
    <2>1. Callbacks!Losing(c) = Callbacks!LostAs(c)
      BY <1>1, <1>6 DEF Callbacks!Losing
    <2>2. QED BY <1>4, <1>6, <2>1
  <1>7. CASE phase = "leaving"
    <2>1. Callbacks!Losing(c) = {[c EXCEPT !.phase = "disconnected"]}
      BY <1>1, <1>7 DEF Callbacks!Losing
    <2>2. QED BY <1>2, <1>7, <2>1
  <1>8. QED BY <1>5, <1>6, <1>7

(* The events that may be told.                                             *)
LEMMA ViewTold ==
    ASSUME NEW phase, NEW owed \in Nat, NEW late \in Nat, NEW ping \in BOOLEAN,
           NEW c, c = View(phase, owed, late, ping)
    PROVE  /\ phase = "trying" =>
                 \A next \in {"up", "disconnected", "failed"} :
                     Callbacks!Event("CONN_CONNECTED", View(next, owed + late, 0, FALSE)) \in Callbacks!Told(c)
           /\ owed > 0 /\ phase \in {"up", "leaving", "disconnected", "failed"} =>
                 Callbacks!Event("TRANS_DONE", View(phase, owed - 1, late, ping)) \in Callbacks!Told(c)
           /\ owed > 0 /\ phase \in {"disconnected", "failed"} =>
                 Callbacks!Event("TRANS_ERROR", View(phase, owed - 1, late, ping)) \in Callbacks!Told(c)
           /\ ping /\ phase \in {"disconnected", "failed"} =>
                 Callbacks!Event("TRANS_ERROR", View(phase, owed, late, FALSE)) \in Callbacks!Told(c)
           /\ late > 0 /\ phase \in {"disconnected", "failed"} =>
                 Callbacks!Event("TRANS_NOCONNECT", c) \in Callbacks!Told(c)
           /\ owed > 0 /\ phase \in {"up", "leaving"} =>
                 Callbacks!Event("TRANS_TIMEOUT", c) \in Callbacks!ToldTimeout(c)
           /\ owed = 0 /\ ~ping /\ phase \in {"disconnected", "failed"} =>
                 \A next \in {"idle", "trying"} :
                     Callbacks!Event(IF phase = "failed" THEN "CONN_ERROR" ELSE "CONN_DISCONNECT",
                                     View(next, owed, late, ping)) \in Callbacks!Told(c)
  <1>1. c.phase = phase /\ c.owed = owed /\ c.late = late /\ c.ping = ping
    BY DEF View
  <1>2. /\ [c EXCEPT !.owed = @ - 1] = View(phase, owed - 1, late, ping)
        /\ [c EXCEPT !.ping = FALSE] = View(phase, owed, late, FALSE)
        /\ \A p : [c EXCEPT !.phase = p] = View(p, owed, late, ping)
        /\ \A p, o : Callbacks!Conn(p, o, 0) = View(p, o, 0, FALSE)
    <2>1. [c EXCEPT !.owed = @ - 1] = View(phase, owed - 1, late, ping)
      BY DEF View
    <2>2. [c EXCEPT !.ping = FALSE] = View(phase, owed, late, FALSE)
      <3> DEFINE no == FALSE
      <3> HIDE DEF no
      <3>1. [c EXCEPT !.ping = no] = View(phase, owed, late, no)
        BY DEF View
      <3>2. QED BY <3>1 DEF no
    <2>5. \A p : [c EXCEPT !.phase = p] = View(p, owed, late, ping)
      BY ViewIn
    <2>3. \A p, o : Callbacks!Conn(p, o, 0) = View(p, o, 0, FALSE)
      BY Zenon DEF View, Callbacks!Conn
    <2>4. QED BY <2>1, <2>2, <2>3, <2>5
  <1>3. Callbacks!Lost = {"disconnected", "failed"}
    BY DEF Callbacks!Lost
  <1>4. CASE phase = "trying"
    <2>1. Callbacks!ToldConnected(c) \subseteq Callbacks!Told(c)
      BY <1>1, <1>4 DEF Callbacks!Told
    <2>2. \A next \in {"up", "disconnected", "failed"} :
              Callbacks!Event("CONN_CONNECTED", View(next, owed + late, 0, FALSE)) \in Callbacks!ToldConnected(c)
      <3>1. \A next : View(next, owed + late, 0, FALSE) = Callbacks!Conn(next, c.owed + c.late, 0)
        BY <1>1, <1>2
      <3>2. QED BY <1>3, <3>1 DEF Callbacks!ToldConnected
    <2>3. QED BY <1>4, <2>1, <2>2
  <1>5. owed > 0 /\ phase \in {"up", "leaving", "disconnected", "failed"} =>
            Callbacks!Event("TRANS_DONE", View(phase, owed - 1, late, ping)) \in Callbacks!Told(c)
    <2>1. Callbacks!ToldDone(c) = Callbacks!Event("TRANS_DONE", View(phase, owed - 1, late, ping))
      BY <1>2 DEF Callbacks!ToldDone
    <2>2. QED BY <1>1, <1>3, <2>1 DEF Callbacks!Told
  <1>6. owed > 0 /\ phase \in {"disconnected", "failed"} =>
            Callbacks!Event("TRANS_ERROR", View(phase, owed - 1, late, ping)) \in Callbacks!Told(c)
    <2>1. Callbacks!ToldError(c) = Callbacks!Event("TRANS_ERROR", View(phase, owed - 1, late, ping))
      BY <1>2 DEF Callbacks!ToldError
    <2>2. QED BY <1>1, <1>3, <2>1 DEF Callbacks!Told
  <1>7. ping /\ phase \in {"disconnected", "failed"} =>
            Callbacks!Event("TRANS_ERROR", View(phase, owed, late, FALSE)) \in Callbacks!Told(c)
    <2>1. Callbacks!ToldPing(c) = Callbacks!Event("TRANS_ERROR", View(phase, owed, late, FALSE))
      BY <1>2 DEF Callbacks!ToldPing
    <2>2. QED BY <1>1, <1>3, <2>1 DEF Callbacks!Told
  <1>8. late > 0 /\ phase \in {"disconnected", "failed"} =>
            Callbacks!Event("TRANS_NOCONNECT", c) \in Callbacks!Told(c)
    BY <1>1, <1>3 DEF Callbacks!Told, Callbacks!ToldNoConnect
  <1>9. owed > 0 /\ phase \in {"up", "leaving"} =>
            Callbacks!Event("TRANS_TIMEOUT", c) \in Callbacks!ToldTimeout(c)
    BY <1>1 DEF Callbacks!ToldTimeout
  <1>10. ASSUME owed = 0, ~ping, phase \in {"disconnected", "failed"}, NEW next \in {"idle", "trying"}
         PROVE  Callbacks!Event(IF phase = "failed" THEN "CONN_ERROR" ELSE "CONN_DISCONNECT",
                                View(next, owed, late, ping)) \in Callbacks!Told(c)
    <2>1. Callbacks!Event(IF phase = "failed" THEN "CONN_ERROR" ELSE "CONN_DISCONNECT",
                          View(next, owed, late, ping)) \in Callbacks!ToldClosed(c)
      BY <1>1, <1>2, <1>10 DEF Callbacks!ToldClosed
    <2>2. Callbacks!ToldClosed(c) \subseteq Callbacks!Told(c)
      BY <1>1, <1>3, <1>10 DEF Callbacks!Told
    <2>3. QED BY <2>1, <2>2
  <1>11. QED BY <1>4, <1>5, <1>6, <1>7, <1>8, <1>9, <1>10

(* The promised connection in terms of phase, debts and waiting queue.      *)
LEMMA ViewNow ==
    /\ PromisedConn.phase = PromisedPhase
    /\ PromisedPhase = "gone" => PromisedConn = View("gone", 0, 0, FALSE)
    /\ PromisedPhase = "trying" => PromisedConn = View("trying", 0, Owed + Len(trans_ready), FALSE)
    /\ PromisedPhase \notin {"gone", "trying"} =>
          PromisedConn = View(PromisedPhase, Owed, Len(trans_ready), PingDue)
  BY DEF PromisedConn, Owed, View, PingDue

(* The same after a step.                                                   *)
LEMMA ViewNext ==
    /\ PromisedPhase' = "gone" => PromisedConn' = View("gone", 0, 0, FALSE)
    /\ PromisedPhase' = "trying" => PromisedConn' = View("trying", 0, Owed' + Len(trans_ready'), FALSE)
    /\ PromisedPhase' \notin {"gone", "trying"} =>
          PromisedConn' = View(PromisedPhase', Owed', Len(trans_ready'), PingDue')
    /\ /\ UNCHANGED <<PromisedPhase, Unanswered>> /\ Len(trans_ready') = Len(trans_ready)
       /\ PingDue' = PingDue \/ PromisedPhase = "trying"
       => UNCHANGED PromisedConn
  BY DEF PromisedConn, Owed, View, PingDue

(* Only so many transactions are outstanding as are in the queue and on the *)
(* list.                                                                    *)
LEMMA OwedTypes ==
    ASSUME TypeOK, QueueInv
    PROVE  /\ IsFiniteSet(Unanswered) /\ Owed \in Nat /\ Len(trans_ready) \in Nat
           /\ Unanswered = {} <=> Owed = 0
  <1> DEFINE named == {events[i].trans : i \in DOMAIN events}
  <1>1. events \in Seq(Event) /\ trans_pending \in Seq(Trans) /\ trans_ready \in Seq(Trans)
    BY DEF TypeOK
  <1>2. IsFiniteSet(named)
    <2>1. DOMAIN events = 1 .. Len(events) /\ Len(events) \in Nat
      BY <1>1, LenProperties
    <2>2. IsFiniteSet(DOMAIN events)
      BY <2>1, FS_Interval
    <2>3. [i \in DOMAIN events |-> events[i].trans] \in Surjection(DOMAIN events, named)
      BY DEF Surjection
    <2>4. QED BY <2>2, <2>3, FS_Surjection
  <1>3. IsFiniteSet(ToSet(trans_pending))
    BY <1>1, FinitelyMany
  <1>4. IsFiniteSet(named \cup ToSet(trans_pending))
    BY <1>2, <1>3, FS_Union
  <1>5. Unanswered \subseteq named \cup ToSet(trans_pending)
    <2> SUFFICES ASSUME NEW t \in Unanswered PROVE t \in named \cup ToSet(trans_pending)
      OBVIOUS
    <2>1. t \in Trans /\ t \notin Pings
      BY ConnAssumption DEF Unanswered, Trans
    <2>2. CASE tstatus[t] = "PENDING"
      BY <2>1, <2>2 DEF QueueInv
    <2>3. CASE \E i \in DOMAIN events : IsFinal(events[i], t)
      BY <2>3 DEF IsFinal
    <2>4. QED BY <2>2, <2>3 DEF Unanswered
  <1>6. IsFiniteSet(Unanswered)
    BY <1>4, <1>5, FS_Subset
  <1>7. QED BY <1>1, <1>6, FS_CardinalityType, FS_EmptySet, LenProperties DEF Owed

(* Nothing is owed before the connection is up, nor once its list is told.  *)
LEMMA NothingOwed ==
    ASSUME StandingInv, TellingInv, alive, status \in {"DISCONNECTED", "CONNECTING"},
           ~Closes(events)
    PROVE  Unanswered = {}
  <1>1. \A t \in Users : tstatus[t] # "PENDING"
    BY DEF StandingInv
  <1>2. ~Completed(events)
    BY DEF TellingInv
  <1>3. \A t \in Users : NoFinal(events, t)
    BY <1>2 DEF NoFinal, IsFinal, Completed, Tells
  <1>4. QED BY <1>1, <1>3, UnansweredByList

(* Steps the program does not see.                                          *)
LEMMA SeenSame ==
    ASSUME UNCHANGED <<alive, destroy, status, events>>, Len(trans_ready') = Len(trans_ready),
           \A t \in Users : tstatus'[t] = "PENDING" <=> tstatus[t] = "PENDING"
    PROVE  UNCHANGED PromisedConn
  <1>1. UNCHANGED Unanswered
    BY UnansweredByList
  <1>2. UNCHANGED PromisedPhase
    BY DEF PromisedPhase, Due
  <1>3. UNCHANGED PingDue
    BY DEF PingDue
  <1>4. QED BY <1>1, <1>2, <1>3, ViewNext

(* Only a connection that was lost still has to tell of its ping.           *)
LEMMA NoPingDue ==
    /\ Ordered(events) /\ ~Closes(events) => ~PingDue
    /\ Ordered(events') /\ ~Closes(events') => ~PingDue'
  <1>1. Ordered(events) /\ ~Closes(events) => ~PingDue
    BY DEF Ordered, Closes, PingDue, Losses
  <1>2. Ordered(events') /\ ~Closes(events') => ~PingDue'
    BY DEF Ordered, Closes, PingDue, Losses
  <1>3. QED BY <1>1, <1>2

(* A ping is due if its final event is on the list.                         *)
LEMMA PingDueByList ==
    /\ ListInv /\ alive => (PingDue <=> \E p \in Pings : ~NoFinal(events, p))
    /\ ListInv' /\ alive' => (PingDue' <=> \E p \in Pings : ~NoFinal(events', p))
  <1>1. ASSUME ListInv, alive PROVE PingDue <=> \E p \in Pings : ~NoFinal(events, p)
    <2>1. \A i \in DOMAIN events : events[i].type = "TRANS_DONE" => events[i].trans \notin Pings
      BY <1>1, ConnAssumption DEF ListInv, EntryFine, ToSet
    <2>2. QED BY <2>1 DEF PingDue, NoFinal, IsFinal
  <1>2. ASSUME ListInv', alive' PROVE PingDue' <=> \E p \in Pings : ~NoFinal(events', p)
    <2>1. \A i \in DOMAIN events' : events'[i].type = "TRANS_DONE" => events'[i].trans \notin Pings
      BY <1>2, ConnAssumption DEF ListInv, EntryFine, ToSet
    <2>2. QED BY <2>1 DEF PingDue, NoFinal, IsFinal
  <1>3. QED BY <1>1, <1>2

(* A destroyed connection remains destroyed, and at most the callback that  *)
(* is running returns.                                                      *)
LEMMA SeenGone ==
    ASSUME ~alive \/ destroy, ~alive' \/ destroy',
           telling' = telling \/ (telling # "none" /\ telling' = "none")
    PROVE  [Callbacks!Next]_<<PromisedConn, telling>>
  <1>1. UNCHANGED PromisedConn
    BY PhaseNow, PhaseNext, ViewNow, ViewNext
  <1>2. QED BY <1>1 DEF Callbacks!Next, Callbacks!Returns

(* A destroy, at once or put off, silences the connection.                  *)
LEMMA SeenDestroy ==
    ASSUME alive, ~destroy, ~alive' \/ destroy', UNCHANGED telling
    PROVE  Callbacks!Next
  <1>1. PromisedConn.phase # "gone"
    <2>1. PromisedPhase # "gone"
      BY PhaseNow
    <2>2. QED BY <2>1, ViewNow
  <1>2. PromisedConn' = Callbacks!Gone
    BY PhaseNext, ViewNext DEF Callbacks!Gone, Callbacks!Conn, View
  <1>3. QED BY <1>1, <1>2 DEF Callbacks!Next, Callbacks!Called

(* A connection attempt that begins, or is found to be under way.           *)
LEMMA SeenConnect ==
    ASSUME TypeOK, QueueInv, StandingInv, ProgramInv, alive, ~destroy,
           UNCHANGED <<alive, destroy, events, tstatus, trans_ready, telling>>,
           status' = status \/ (status = "DISCONNECTED" /\ status' = "CONNECTING")
    PROVE  [Callbacks!Next]_<<PromisedConn, telling>>
  <1>1. CASE status' = status
    BY <1>1, SeenSame
  <1>2. UNCHANGED Unanswered
    BY UnansweredByList
  <1>3. CASE /\ status = "DISCONNECTED" /\ status' = "CONNECTING"
             /\ Tells(events, "CONN_CONNECTED") \/ Closes(events)
    <2>1. Ordered(events) /\ events \in Seq(Event)
      BY DEF ProgramInv, TypeOK
    <2>2. UNCHANGED PromisedPhase
      BY <1>3, <2>1, ClosesTells, PhaseNow, PhaseNext DEF Closings
    <2>3. UNCHANGED PingDue
      BY DEF PingDue
    <2>4. QED BY <1>2, <2>2, <2>3, ViewNext
  <1>4. CASE /\ status = "DISCONNECTED" /\ status' = "CONNECTING"
             /\ ~Tells(events, "CONN_CONNECTED") /\ ~Closes(events)
    <2>1. Ordered(events) /\ events \in Seq(Event) /\ TellingInv
      BY DEF ProgramInv, TypeOK
    <2>2. PromisedPhase = "idle" /\ PromisedPhase' = "trying"
      BY <1>4, <2>1, ClosesTells, PhaseNow, PhaseNext DEF Closings
    <2>3. Owed = 0 /\ Owed' = 0 /\ Len(trans_ready) \in Nat
      BY <1>2, <1>4, <2>1, NothingOwed, OwedTypes DEF Owed
    <2>4. PingDue = FALSE
      BY <1>4, <2>1, NoPingDue
    <2>5. /\ PromisedConn = View("idle", 0, Len(trans_ready), FALSE)
          /\ PromisedConn' = View("trying", 0, Len(trans_ready), FALSE)
      <3>1. Owed + Len(trans_ready) = Len(trans_ready) /\ Owed' + Len(trans_ready') = Len(trans_ready)
        BY <2>3
      <3>2. QED BY <2>2, <2>3, <2>4, <3>1, ViewNow, ViewNext
    <2>6. PromisedConn' = Callbacks!Connecting(PromisedConn)
      BY <2>5 DEF Callbacks!Connecting, View
    <2>7. QED BY <2>5, <2>6 DEF Callbacks!Next, Callbacks!Called, View
  <1>5. QED BY <1>1, <1>3, <1>4

(* A connection that is up is closed, by the program or the idle timer.     *)
LEMMA SeenLeaving ==
    ASSUME TypeOK, ProgramInv, alive, ~destroy,
           UNCHANGED <<alive, destroy, events, tstatus, trans_ready, telling>>,
           status = "CONNECTED", status' \in {"DISCONNECTING", "IDLE_TIMEOUT"},
           pc \in {"idle", "dispatched", "callback"}
    PROVE  Callbacks!Next
  <1>1. Ordered(events) /\ events \in Seq(Event)
    BY DEF ProgramInv, TypeOK
  <1>2. ~Closes(events) /\ ~Tells(events, "CONN_CONNECTED")
    BY DEF ProgramInv, TellingInv
  <1>3. PromisedPhase = "up" /\ PromisedPhase' = "leaving"
    BY <1>1, <1>2, ClosesTells, PhaseNow, PhaseNext DEF Closings
  <1>4. UNCHANGED Unanswered
    BY UnansweredByList
  <1>5. PingDue = FALSE /\ PingDue' = FALSE
    BY <1>1, <1>2, NoPingDue
  <1>6. /\ PromisedConn = View("up", Owed, Len(trans_ready), FALSE)
        /\ PromisedConn' = View("leaving", Owed, Len(trans_ready), FALSE)
    BY <1>3, <1>4, <1>5, ViewNow, ViewNext DEF Owed
  <1>7. PromisedConn' = Callbacks!Disconnecting(PromisedConn)
    BY <1>6 DEF Callbacks!Disconnecting, View
  <1>8. QED BY <1>6, <1>7 DEF Callbacks!Next, Callbacks!Called, View

(* LM_trans_send.                                                           *)
LEMMA SeenSent ==
    ASSUME TypeOK, QueueInv, StandingInv, ToldInv, ProgramInv, alive, ~destroy,
           NEW a \in Threads, NEW t \in Trans, LM_trans_send(a, t), pc \in {"idle", "callback"}
    PROVE  Callbacks!Next
  <1> USE DEF objVars, loopVars, histVars
  <1>1. /\ tstatus[t] = "NEW" /\ UNCHANGED <<alive, destroy, events, status, telling>>
        /\ tstatus \in [Trans -> TransStatus] /\ trans_ready \in Seq(Trans)
    BY DEF LM_trans_send, TypeOK
  <1>2. t \in Users
    BY <1>1 DEF StandingInv, Trans
  <1>3. ~Tells(events, "CONN_CONNECTED") /\ (status = "CONNECTED" => ~Closes(events))
    BY DEF ProgramInv, TellingInv
  <1>4. Ordered(events) /\ events \in Seq(Event)
    BY DEF ProgramInv, TypeOK
  <1>5. UNCHANGED PromisedPhase /\ PromisedPhase # "gone"
    BY <1>1, PhaseNow, PhaseNext
  <1>6. PromisedPhase = "up" <=> status = "CONNECTED"
    BY <1>3, <1>4, ClosesTells, PhaseNow DEF Closings
  <1>7. IsFiniteSet(Unanswered) /\ Owed \in Nat /\ Len(trans_ready) \in Nat
    BY OwedTypes
  <1>0. UNCHANGED PingDue
    BY <1>1 DEF PingDue
  <1>8. CASE status = "CONNECTED"
    <2> DEFINE ready == Append(trans_ready, t)
    <2>1. SendReady(ready)
      BY <1>8 DEF LM_trans_send, CanSend
    <2>2. trans_ready = <<>>
      BY <1>8 DEF StandingInv
    <2>3. ToSet(ready) = {t}
      <3>1. ToSet(ready) = ToSet(trans_ready) \cup {t}
        BY <1>1, ToSetAppend
      <3> HIDE DEF ready
      <3>2. QED BY <2>2, <3>1, ToSetEmpty
    <2> HIDE DEF ready
    <2>4. \A u \in Users : tstatus'[u] = IF u = t THEN "PENDING" ELSE tstatus[u]
      BY <2>1, <2>3 DEF SendReady, Trans
    <2>5. NoFinal(events, t)
      BY <1>1, <1>2 DEF ToldInv, CompletionFine
    <2>6. Unanswered' = Unanswered \cup {t} /\ t \notin Unanswered
      BY <1>1, <1>2, <2>4, <2>5, UnansweredByList
    <2>7. Owed' = Owed + 1
      BY <1>7, <2>6, FS_AddElement DEF Owed
    <2>8. trans_ready' = <<>>
      BY <2>1 DEF SendReady
    <2>9. PromisedConn = View("up", Owed, Len(trans_ready), PingDue)
      BY <1>6, <1>8, ViewNow
    <2>10. PromisedConn' = View("up", Owed + 1, Len(trans_ready), PingDue)
      BY <1>0, <1>5, <1>6, <1>8, <2>2, <2>7, <2>8, ViewNext
    <2>11. PromisedConn' = Callbacks!Sending(PromisedConn)
      BY <2>9, <2>10 DEF Callbacks!Sending, Callbacks!SendingAll, View
    <2>12. QED BY <1>1, <2>9, <2>11 DEF Callbacks!Next, Callbacks!Called, View
  <1>9. CASE status # "CONNECTED"
    <2>1. \A u \in Users : tstatus'[u] = IF u = t THEN "READY" ELSE tstatus[u]
      BY <1>1, <1>9 DEF LM_trans_send, CanSend, Trans
    <2>2. UNCHANGED Unanswered
      BY <1>1, <2>1, UnansweredByList
    <2>3. Len(trans_ready') = Len(trans_ready) + 1
      <3>1. trans_ready' = Append(trans_ready, t)
        BY <1>9 DEF LM_trans_send, CanSend
      <3>2. QED BY <1>1, <3>1, AppendProperties
    <2>4. Owed' = Owed
      BY <2>2 DEF Owed
    <2>5. CASE PromisedPhase = "trying"
      <3>1. /\ PromisedConn = View("trying", 0, Owed + Len(trans_ready), FALSE)
            /\ PromisedConn' = View("trying", 0, (Owed + Len(trans_ready)) + 1, FALSE)
        <4>1. Owed' + Len(trans_ready') = (Owed + Len(trans_ready)) + 1
          BY <1>7, <2>3, <2>4
        <4>2. QED BY <1>5, <2>5, <4>1, ViewNow, ViewNext
      <3>2. PromisedConn' = Callbacks!Sending(PromisedConn)
        BY <3>1 DEF Callbacks!Sending, Callbacks!SendingAll, View
      <3>3. QED BY <1>1, <3>1, <3>2 DEF Callbacks!Next, Callbacks!Called, View
    <2>6. CASE PromisedPhase # "trying"
      <3>1. /\ PromisedConn = View(PromisedPhase, Owed, Len(trans_ready), PingDue)
            /\ PromisedConn' = View(PromisedPhase, Owed, Len(trans_ready) + 1, PingDue)
        BY <1>0, <1>5, <2>3, <2>4, <2>6, ViewNow, ViewNext
      <3>2. PromisedConn' = Callbacks!Sending(PromisedConn)
        BY <1>6, <1>9, <3>1 DEF Callbacks!Sending, Callbacks!SendingAll, View
      <3>3. QED BY <1>1, <1>5, <3>1, <3>2 DEF Callbacks!Next, Callbacks!Called, View
    <2>7. QED BY <2>5, <2>6
  <1>10. QED BY <1>8, <1>9

(* LM_trans_delete_unlocked, which runs only while no event is on the list: *)
(* one outstanding transaction less if it had not completed.                *)
LEMMA SeenDeleted ==
    ASSUME TypeOK, QueueInv, StandingInv, ProgramInv, alive, ~destroy, events = <<>>,
           NEW t \in Trans, DeleteUnlocked(t), UNCHANGED <<alive, destroy, status, events, telling>>
    PROVE  [Callbacks!Next]_<<PromisedConn, telling>>
  <1>1. /\ tstatus \in [Trans -> TransStatus] /\ trans_ready \in Seq(Trans)
        /\ NoDuplicates(trans_ready) /\ ToSet(trans_ready) = {u \in Trans : tstatus[u] = "READY"}
    BY DEF TypeOK, QueueInv
  <1>2. \A u \in Trans : tstatus'[u] = IF u = t THEN "FREE" ELSE tstatus[u]
    BY <1>1 DEF DeleteUnlocked
  <1>3. trans_ready' = IF tstatus[t] = "READY" THEN QueueTake(trans_ready, t) ELSE trans_ready
    BY DEF DeleteUnlocked
  <1>4. UNCHANGED PromisedPhase /\ PromisedPhase \in {"idle", "trying", "up", "leaving"}
    <2>1. UNCHANGED PromisedPhase
      BY DEF PromisedPhase, Due
    <2>2. QED BY <2>1, PhaseNow, NothingTold
  <1>5. /\ IsFiniteSet(Unanswered) /\ Owed \in Nat /\ Len(trans_ready) \in Nat
        /\ Unanswered = {} <=> Owed = 0
    BY OwedTypes
  <1>6. \A u : NoFinal(events, u) /\ NoFinal(events', u)
    BY DEF NoFinal
  <1>7. \A u \in Users : u \in Trans
    BY DEF Trans
  <1>0. PingDue = FALSE /\ PingDue' = FALSE
    BY NothingTold, NoPingDue
  <1>8. CASE ~(t \in Users /\ tstatus[t] \in {"READY", "PENDING"})
    <2>1. tstatus[t] # "READY"
      BY <1>8 DEF StandingInv, Trans
    <2>2. QED BY <1>2, <1>3, <1>7, <1>8, <2>1, SeenSame
  <1>9. CASE t \in Users /\ tstatus[t] = "PENDING"
    <2>1. Unanswered' = Unanswered \ {t} /\ t \in Unanswered
      BY <1>2, <1>6, <1>7, <1>9, UnansweredByList
    <2>2. Owed' = Owed - 1 /\ Owed # 0
      BY <1>5, <2>1, FS_RemoveElement DEF Owed
    <2>3. status \notin {"DISCONNECTED", "CONNECTING"}
      BY <1>9 DEF StandingInv
    <2>4. PromisedPhase \in {"up", "leaving"}
      BY <2>3, PhaseNow, NothingTold
    <2>5. trans_ready' = trans_ready
      BY <1>3, <1>9
    <2>6. /\ PromisedConn = View(PromisedPhase, Owed, Len(trans_ready), FALSE)
          /\ PromisedConn' = View(PromisedPhase, Owed - 1, Len(trans_ready), FALSE)
      BY <1>0, <1>4, <2>2, <2>4, <2>5, ViewNow, ViewNext
    <2>7. Owed > 0
      BY <1>5, <2>2
    <2>8. PromisedConn' \in Callbacks!Deleting(PromisedConn)
      BY <1>4, <1>5, <2>6, <2>7, ViewDeleted
    <2>9. QED BY <1>4, <2>8, ViewNow DEF Callbacks!Next, Callbacks!Called
  <1>10. CASE t \in Users /\ tstatus[t] = "READY"
    <2>1. UNCHANGED Unanswered
      BY <1>2, <1>6, <1>7, <1>10, UnansweredByList
    <2>2. Owed' = Owed
      BY <2>1 DEF Owed
    <2>3. /\ trans_ready' \in Seq(Trans) /\ NoDuplicates(trans_ready')
          /\ ToSet(trans_ready') = ToSet(trans_ready) \ {t} /\ t \in ToSet(trans_ready)
      BY <1>1, <1>3, <1>10, QueueTakeEntries
    <2>4. Len(trans_ready') = Len(trans_ready) - 1 /\ Len(trans_ready') \in Nat
      <3>1. IsFiniteSet(ToSet(trans_ready)) /\ Cardinality(ToSet(trans_ready)) = Len(trans_ready)
        BY <1>1, QueueLength
      <3>2. Cardinality(ToSet(trans_ready')) = Len(trans_ready')
        BY <2>3, QueueLength
      <3>3. QED BY <2>3, <3>1, <3>2, FS_RemoveElement, LenProperties
    <2>5. PromisedConn' \in Callbacks!Deleting(PromisedConn)
      <3>1. CASE PromisedPhase = "trying"
        <4>1. /\ Owed + Len(trans_ready') = (Owed + Len(trans_ready)) - 1
              /\ Owed + Len(trans_ready) \in Nat /\ Owed + Len(trans_ready) > 0
          BY <1>5, <2>4
        <4>2. /\ PromisedConn = View("trying", 0, Owed + Len(trans_ready), FALSE)
              /\ PromisedConn' = View("trying", 0, (Owed + Len(trans_ready)) - 1, FALSE)
          BY <1>4, <2>2, <3>1, <4>1, ViewNow, ViewNext
        <4>3. QED BY <4>1, <4>2, ViewDeleted
      <3>2. CASE PromisedPhase # "trying"
        <4>1. /\ PromisedConn = View(PromisedPhase, Owed, Len(trans_ready), FALSE)
              /\ PromisedConn' = View(PromisedPhase, Owed, Len(trans_ready) - 1, FALSE)
          BY <1>0, <1>4, <2>2, <2>4, <3>2, ViewNow, ViewNext
        <4>2. Len(trans_ready) > 0
          BY <1>5, <2>4
        <4>3. QED BY <1>4, <1>5, <4>1, <4>2, ViewDeleted
      <3>3. QED BY <3>1, <3>2
    <2>6. QED BY <1>4, <2>5, ViewNow DEF Callbacks!Next, Callbacks!Called
  <1>11. QED BY <1>8, <1>9, <1>10

(* LM_conn_event_handle_conn_error: what is outstanding remains so until it *)
(* is told, and the loss has the reason that was asked for.                 *)
LEMMA SeenLost ==
    ASSUME TypeOK, QueueInv, HandlerInv, StandingInv, ProgramInv, ListInv, alive, ~destroy,
           NEW type, ConnError(type), UNCHANGED <<alive, destroy, telling>>, telling = "none",
           pc \in {"dispatched", "reading", "ping"}, pc' = "callbacks", status # "DISCONNECTED"
    PROVE  [Callbacks!Next]_<<PromisedConn, telling>>
  <1>1. Ordered(events) /\ events \in Seq(Event) /\ TellingInv /\ ~Closes(events)
    BY DEF ProgramInv, TypeOK, TellingInv
  <1>2. events' = events \o LossEvents(type) /\ trans_ready' = trans_ready
    BY DEF ConnError
  <1>3. /\ Tells(events', "CONN_CONNECTED") <=> Tells(events, "CONN_CONNECTED")
        /\ \A t \in Closings : Tells(events', t) <=> t = CloseEvent(type).type
    BY <1>1, <1>2, OrderedLoss
  <1>4. UNCHANGED Unanswered
    <2>1. \A t \in Users : t \in Trans /\ (t \in ToSet(trans_pending) <=> tstatus[t] = "PENDING")
      BY ConnAssumption DEF QueueInv, Trans
    <2>2. \A t \in Users : tstatus'[t] # "PENDING"
      BY <2>1 DEF ConnError, Abandoned
    <2>3. LossEvents(type) \in Seq(Event)
      BY LossEventsType
    <2>4. ToSet(events') = ToSet(events) \cup ToSet(LossEvents(type))
      BY <1>1, <1>2, <2>3, ToSetConcat
    <2>5. \A t \in Users : NoFinal(events', t) <=> NoFinal(events, t) /\ NoFinal(LossEvents(type), t)
      BY <2>4, NoFinalByEntry
    <2>6. \A t \in Users : NoFinal(LossEvents(type), t) <=> t \notin ToSet(trans_pending)
      BY FinalLoss DEF NoFinal, OneFinal
    <2>7. QED BY <2>1, <2>2, <2>5, <2>6, UnansweredByList
  <1>5. CASE Tells(events, "CONN_CONNECTED")
    <2>1. UNCHANGED PromisedPhase
      BY <1>3, <1>5, PhaseNow, PhaseNext
    <2>2. PromisedPhase = "trying"
      BY <1>5, PhaseNow
    <2>3. QED BY <1>2, <1>4, <2>1, <2>2, ViewNext
  <1>6. CASE ~Tells(events, "CONN_CONNECTED")
    <2>1. /\ PromisedPhase \in {"trying", "up", "leaving"}
          /\ PromisedPhase = "trying" <=> status = "CONNECTING"
          /\ PromisedPhase = "leaving" <=> status \in {"DISCONNECTING", "IDLE_TIMEOUT"}
      BY <1>1, <1>6, ClosesTells, PhaseNow DEF Closings, TypeOK, ConnStatus
    <2>2. /\ CloseEvent(type).type \in Closings
          /\ PromisedPhase = "leaving" => CloseEvent(type).type = "CONN_DISCONNECT"
      BY <2>1 DEF CloseEvent, UserEvent, Closings
    <2>3. /\ PromisedPhase' \in {"disconnected", "failed"}
          /\ PromisedPhase = "leaving" => PromisedPhase' = "disconnected"
      BY <1>3, <1>6, <2>2, PhaseNext DEF Closings
    <2>4. Owed' = Owed /\ Owed \in Nat /\ Len(trans_ready) \in Nat
      BY <1>4, OwedTypes DEF Owed
    <2>5. PromisedPhase = "trying" => Owed = 0
      BY <1>1, <2>1, NothingOwed, OwedTypes
    <2>6. PingDue = FALSE
      BY <1>1, NoPingDue
    <2>7. Owed + Len(trans_ready) = Len(trans_ready) \/ PromisedPhase # "trying"
      BY <2>4, <2>5
    <2>8. /\ PromisedConn = View(PromisedPhase, Owed, Len(trans_ready), FALSE)
          /\ PromisedConn' = View(PromisedPhase', Owed, Len(trans_ready), PingDue')
      BY <1>2, <2>1, <2>3, <2>4, <2>5, <2>6, <2>7, ViewNow, ViewNext
    <2>9. PingDue' \in {TRUE, FALSE} /\ (PromisedPhase # "trying" => PingDue' = FALSE)
      <3>1. ListInv' /\ (status # "CONNECTING" => \A p \in Pings : NoFinal(events', p))
        BY ListLost
      <3>2. PingDue' <=> \E p \in Pings : ~NoFinal(events', p)
        BY <3>1, PingDueByList
      <3>3. PingDue' \in {TRUE, FALSE}
        BY DEF PingDue
      <3>4. QED BY <2>1, <3>1, <3>2, <3>3
    <2>10. PromisedConn' \in Callbacks!Losing(PromisedConn)
      <3>1. CASE PingDue' = FALSE
        BY <2>1, <2>3, <2>8, <3>1, ViewLost
      <3>2. CASE PingDue' = TRUE
        BY <2>1, <2>3, <2>8, <2>9, <3>2, ViewLost
      <3>3. QED BY <2>9, <3>1, <3>2
    <2>11. QED BY <2>10 DEF Callbacks!Next, Callbacks!Loses
  <1>7. QED BY <1>5, <1>6

(* LM_conn_event_set_connected: the program is not told yet, and what was   *)
(* late and is now sent still counts as late.                               *)
LEMMA SeenOpened ==
    ASSUME TypeOK, QueueInv, LinkInv, StandingInv, ProgramInv, alive, ~destroy, SetConnected
    PROVE  UNCHANGED PromisedConn
  <1> USE DEF objVars
  <1> DEFINE e == UserEvent("CONN_CONNECTED", NoTrans)
  <1>1. /\ pc = "ping" /\ events' = Append(events, e) /\ SendReady(trans_ready)
        /\ UNCHANGED <<alive, destroy>>
    BY DEF SetConnected, PingDeleted
  <1>2. events = <<>> /\ status = "CONNECTING"
    BY <1>1 DEF ProgramInv, TellingInv, LinkInv
  <1>3. e \in Event /\ e.type = "CONN_CONNECTED"
    BY EventTypes DEF ConnEvents, UserEvent
  <1> HIDE DEF e
  <1>4. Tells(events', "CONN_CONNECTED")
    BY <1>1, <1>2, <1>3, NothingTold, OrderedAppend DEF TypeOK, Losses
  <1>5. PromisedPhase = "trying" /\ PromisedPhase' = "trying"
    BY <1>1, <1>2, <1>4, NothingTold, PhaseNow, PhaseNext
  <1>6. \A t : NoFinal(events', t)
    <2>1. ToSet(events') = {e}
      <3>1. ToSet(events') = ToSet(events) \cup {e}
        BY <1>1, <1>3, ToSetAppend DEF TypeOK
      <3>2. QED BY <1>2, <3>1, ToSetEmpty
    <2>2. QED BY <1>3, <2>1, NoFinalByEntry DEF IsFinal
  <1>7. Unanswered' = ToSet(trans_ready)
    <2>1. \A t \in Users : t \in Trans /\ tstatus[t] # "PENDING"
      BY <1>2 DEF StandingInv, Trans
    <2>2. \A t \in Users : tstatus'[t] = "PENDING" <=> t \in ToSet(trans_ready)
      BY <1>1, <2>1 DEF SendReady
    <2>3. ToSet(trans_ready) \subseteq Users
      BY DEF QueueInv, StandingInv, Trans
    <2>4. QED BY <1>6, <2>2, <2>3, UnansweredByList
  <1>8. Owed' = Len(trans_ready)
    BY <1>7, QueueLength DEF Owed, TypeOK, QueueInv
  <1>9. Owed = 0
    BY <1>2, NothingTold, NothingOwed, OwedTypes DEF ProgramInv
  <1>10. Len(trans_ready) \in Nat /\ Len(trans_ready') = 0
    BY <1>1, EmptySeq, LenProperties DEF SendReady, TypeOK
  <1>11. Owed + Len(trans_ready) = Owed' + Len(trans_ready')
    BY <1>8, <1>9, <1>10
  <1>12. QED BY <1>5, <1>11, ViewNow, ViewNext

(* The events left after one has been delivered.                            *)
LEMMA NoFinalTail ==
    ASSUME NEW q \in Seq(Event), q # <<>>, NEW t
    PROVE  NoFinal(q, t) <=> ~IsFinal(Head(q), t) /\ NoFinal(Tail(q), t)
  <1> DEFINE r == Tail(q)
  <1>1. /\ Len(q) \in Nat \ {0} /\ r \in Seq(Event) /\ Len(r) = Len(q) - 1
        /\ \A i \in 1 .. Len(r) : r[i] = q[i + 1]
        /\ Head(q) = q[1]
    BY HeadTailProperties, EmptySeq
  <1>2. DOMAIN q = 1 .. Len(q) /\ DOMAIN r = 1 .. Len(r)
    BY <1>1, LenProperties
  <1> HIDE DEF r
  <1>3. \A i \in DOMAIN q : i = 1 \/ (i - 1 \in DOMAIN r /\ r[i - 1] = q[i])
    BY <1>1, <1>2
  <1>4. ~IsFinal(Head(q), t) /\ NoFinal(r, t) => NoFinal(q, t)
    BY <1>1, <1>3 DEF NoFinal
  <1>5. QED BY <1>4, FinalTail DEF r

(* A ping is due as long as its event is on the list.                       *)
LEMMA PingDueTail ==
    ASSUME events \in Seq(Event), events # <<>>, events' = Tail(events)
    PROVE  PingDue <=> PingDue' \/ (Head(events).type = "TRANS_ERROR" /\ Head(events).trans \in Pings)
  <1> DEFINE q == events
             r == events'
  <1>1. /\ Len(q) \in Nat \ {0} /\ r \in Seq(Event) /\ Len(r) = Len(q) - 1
        /\ \A i \in 1 .. Len(r) : r[i] = q[i + 1]
        /\ Head(q) = q[1]
    BY HeadTailProperties, EmptySeq
  <1>2. DOMAIN q = 1 .. Len(q) /\ DOMAIN r = 1 .. Len(r)
    BY <1>1, LenProperties
  <1>3. /\ PingDue <=> \E i \in DOMAIN q : q[i].type = "TRANS_ERROR" /\ q[i].trans \in Pings
        /\ PingDue' <=> \E i \in DOMAIN r : r[i].type = "TRANS_ERROR" /\ r[i].trans \in Pings
    BY DEF PingDue
  <1> HIDE DEF q, r
  <1>4. /\ \A i \in DOMAIN q : i = 1 \/ (i - 1 \in DOMAIN r /\ r[i - 1] = q[i])
        /\ \A i \in DOMAIN r : i + 1 \in DOMAIN q /\ r[i] = q[i + 1]
        /\ 1 \in DOMAIN q
    BY <1>1, <1>2
  <1>5. QED BY <1>1, <1>3, <1>4 DEF q

(* The next event is given to the callback.                                 *)
LEMMA SeenTold ==
    ASSUME TypeOK, QueueInv, StandingInv, ToldInv, ProgramInv, SilentInv, ListInv, alive,
           ~destroy, Deliver
    PROVE  Callbacks!Next
  <1> USE DEF objVars, linkVars, queueVars
  <1> DEFINE e == Head(events)
  <1>1. /\ pc = "callbacks" /\ events # <<>> /\ events' = Tail(events)
        /\ telling = "none" /\ telling' = e.type
        /\ UNCHANGED <<alive, destroy, status, trans_ready, tstatus>>
    BY DEF Deliver, SilentInv
  <1>2. events \in Seq(Event) /\ Ordered(events) /\ TellingInv
    BY DEF TypeOK, ProgramInv
  <1>3. /\ Ordered(events') /\ ~Tells(events', "CONN_CONNECTED")
        /\ e.type \in Closings => events' = <<>> /\ Closes(events)
        /\ e.type \notin Closings => (Closes(events') <=> Closes(events))
        /\ e.type \in Losses => Closes(events)
        /\ e.type # "CONN_CONNECTED" => ~Tells(events, "CONN_CONNECTED")
        /\ \A type : Tells(events, type) <=> Tells(events', type) \/ e.type = type
    BY <1>1, <1>2, OrderedTail
  <1>4. \A t : NoFinal(events, t) <=> ~IsFinal(e, t) /\ NoFinal(events', t)
    BY <1>1, <1>2, NoFinalTail
  <1>5. IsFiniteSet(Unanswered) /\ Owed \in Nat /\ Len(trans_ready) \in Nat
    BY OwedTypes
  <1>6. e \in Event /\ events' \in Seq(Event)
    BY <1>1, <1>2, HeadTailProperties
  <1>7. ASSUME \/ Callbacks!Event(e.type, PromisedConn') \in Callbacks!Told(PromisedConn)
               \/ Callbacks!Event(e.type, PromisedConn') \in Callbacks!ToldTimeout(PromisedConn)
        PROVE  Callbacks!Next
    <2>1. /\ Callbacks!Event(e.type, PromisedConn').type = e.type
          /\ Callbacks!Event(e.type, PromisedConn').next = PromisedConn'
      BY DEF Callbacks!Event
    <2>2. QED BY <1>1, <1>7, <2>1 DEF Callbacks!Next, Callbacks!Callback
  <1>13. /\ PingDue \in BOOLEAN /\ PingDue' \in BOOLEAN
         /\ PingDue <=> \E p \in Pings : ~NoFinal(events, p)
         /\ (\A p \in Pings : ~IsFinal(e, p)) => (PingDue' <=> PingDue)
    <2>1. PingDue <=> PingDue' \/ (e.type = "TRANS_ERROR" /\ e.trans \in Pings)
      BY <1>1, <1>2, PingDueTail
    <2>2. PingDue <=> \E p \in Pings : ~NoFinal(events, p)
      BY PingDueByList
    <2>3. QED BY <2>1, <2>2 DEF IsFinal, PingDue
  <1> HIDE DEF e
  <1>8. CASE e.type = "CONN_CONNECTED"
    <2>1. /\ trans_ready = <<>> /\ Len(trans_ready) = 0
          /\ status = "CONNECTED" \/ Closes(events')
      BY <1>2, <1>3, <1>8, EmptySeq DEF TellingInv, Closings, TypeOK
    <2>2. PromisedPhase = "trying"
      BY <1>3, <1>8, PhaseNow
    <2>3. PromisedPhase' \in {"up", "disconnected", "failed"}
      BY <1>1, <1>3, <1>6, <2>1, ClosesTells, PhaseNext DEF Closings
    <2>4. UNCHANGED Unanswered
      BY <1>1, <1>4, <1>8, UnansweredByList DEF IsFinal
    <2>5. PingDue' = FALSE
      <3>1. \A p \in Pings : NoFinal(events, p)
        BY <1>3, <1>8 DEF ListInv, PingsTold
      <3>2. QED BY <1>8, <1>13, <3>1 DEF IsFinal
    <2>6. Owed + Len(trans_ready) = 0 + Owed /\ 0 + Owed = Owed
      BY <1>5, <2>1
    <2>7. /\ PromisedConn = View("trying", 0, Owed, FALSE)
          /\ PromisedConn' = View(PromisedPhase', 0 + Owed, 0, FALSE)
      BY <1>1, <2>1, <2>2, <2>3, <2>4, <2>5, <2>6, ViewNow, ViewNext DEF Owed
    <2>8. Callbacks!Event("CONN_CONNECTED", PromisedConn') \in Callbacks!Told(PromisedConn)
      BY <1>5, <2>3, <2>7, ViewTold
    <2>9. QED BY <1>7, <1>8, <2>8
  <1>9. ASSUME NEW u \in Users, IsFinal(e, u)
        PROVE  Callbacks!Next
    <2>1. e.type \in {"TRANS_DONE", "TRANS_ERROR"} /\ e.trans = u
      BY <1>9 DEF IsFinal
    <2>2. ~NoFinal(events, u)
      BY <1>4, <1>9
    <2>3. tstatus[u] = "DONE" /\ OneFinal(events, u)
      BY <2>2 DEF ToldInv, CompletionFine
    <2>4. NoFinal(events', u)
      BY <1>1, <1>2, <1>9, <2>3, FinalTail DEF e
    <2>5. \A t \in Users : t # u => ~IsFinal(e, t)
      BY <2>1 DEF IsFinal
    <2>6. Unanswered' = Unanswered \ {u} /\ u \in Unanswered
      BY <1>1, <1>4, <2>2, <2>3, <2>4, <2>5, UnansweredByList
    <2>7. Owed' = Owed - 1 /\ Owed > 0
      <3>1. Owed' = Owed - 1
        BY <1>5, <2>6, FS_RemoveElement DEF Owed
      <3>2. Unanswered # {} /\ Owed \in Nat /\ (Unanswered = {} <=> Owed = 0)
        BY <1>2, <2>6, OwedTypes
      <3>3. Owed > 0
        BY <3>2
      <3>4. QED BY <3>1, <3>3
    <2>8. /\ ~Tells(events, "CONN_CONNECTED")
          /\ \A type \in Closings : Tells(events', type) <=> Tells(events, type)
      BY <1>3, <2>1 DEF Closings
    <2>9. UNCHANGED PromisedPhase
      BY <1>1, <1>3, <2>8, PhaseNow, PhaseNext DEF Closings
    <2>10. status \in {"DISCONNECTED", "CONNECTING"} => Closes(events)
      BY <1>2, <1>3, <2>1 DEF TellingInv, Completed
    <2>11. /\ PromisedPhase \in {"up", "leaving"} \cup Callbacks!Lost
           /\ e.type = "TRANS_ERROR" => PromisedPhase \in Callbacks!Lost
      BY <1>2, <1>3, <2>8, <2>10, ClosesTells, PhaseNow
         DEF Closings, Losses, Callbacks!Lost, TypeOK, ConnStatus
    <2>12. PromisedPhase \notin {"gone", "trying"}
      BY <2>11 DEF Callbacks!Lost
    <2>13. PingDue' = PingDue
      BY <1>13, <2>1, ConnAssumption DEF IsFinal
    <2>14. /\ PromisedConn = View(PromisedPhase, Owed, Len(trans_ready), PingDue)
           /\ PromisedConn' = View(PromisedPhase, Owed - 1, Len(trans_ready), PingDue)
      BY <1>1, <2>7, <2>9, <2>12, <2>13, ViewNow, ViewNext
    <2>15. CASE e.type = "TRANS_DONE"
      <3>1. Callbacks!Event("TRANS_DONE", PromisedConn') \in Callbacks!Told(PromisedConn)
        BY <1>5, <1>13, <2>7, <2>11, <2>14, ViewTold DEF Callbacks!Lost
      <3>2. QED BY <1>7, <2>15, <3>1
    <2>16. CASE e.type = "TRANS_ERROR"
      <3>1. Callbacks!Event("TRANS_ERROR", PromisedConn') \in Callbacks!Told(PromisedConn)
        BY <1>5, <1>13, <2>7, <2>11, <2>14, <2>16, ViewTold DEF Callbacks!Lost
      <3>2. QED BY <1>7, <2>16, <3>1
    <2>17. QED BY <2>1, <2>15, <2>16
  <1>10. CASE e.type \in Closings
    <2>1. events' = <<>> /\ Closes(events)
      BY <1>3, <1>10
    <2>2. status \in {"DISCONNECTED", "CONNECTING"}
      BY <1>2, <2>1 DEF TellingInv
    <2>3. /\ PromisedPhase \in {"disconnected", "failed"}
          /\ e.type = IF PromisedPhase = "failed" THEN "CONN_ERROR" ELSE "CONN_DISCONNECT"
      BY <1>3, <1>10, <2>1, NothingTold, PhaseNow DEF Closings
    <2>4. PromisedPhase' \in {"idle", "trying"}
      BY <1>1, <2>1, <2>2, NothingTold, PhaseNext
    <2>5. \A t \in Users : tstatus[t] # "PENDING" /\ NoFinal(events', t) /\ ~IsFinal(e, t)
      BY <1>10, <2>1, <2>2 DEF StandingInv, NoFinal, IsFinal, Closings
    <2>6. Unanswered = {} /\ Unanswered' = {}
      BY <1>1, <1>4, <2>5, UnansweredByList
    <2>7. Owed = 0 /\ Owed' = 0
      BY <2>6, FS_EmptySet DEF Owed
    <2>8. PingDue = FALSE /\ PingDue' = FALSE
      <3>1. ~PingDue'
        BY <1>3, <2>1, NothingTold, NoPingDue
      <3>2. QED BY <1>10, <1>13, <3>1 DEF IsFinal, Closings
    <2>9. /\ PromisedConn = View(PromisedPhase, 0, Len(trans_ready), FALSE)
          /\ PromisedConn' = View(PromisedPhase', 0, Len(trans_ready), FALSE)
      <3>1. Owed' + Len(trans_ready') = Len(trans_ready)
        BY <1>1, <1>5, <2>7
      <3>2. QED BY <1>1, <1>5, <2>3, <2>4, <2>7, <2>8, <3>1, ViewNow, ViewNext
    <2>10. Callbacks!Event(e.type, PromisedConn') \in Callbacks!Told(PromisedConn)
      BY <1>5, <2>3, <2>4, <2>9, ViewTold
    <2>11. QED BY <1>7, <2>10
  <1>11. CASE e.type \notin Closings \cup {"CONN_CONNECTED"} /\ \A u \in Users : ~IsFinal(e, u)
    <2>1. UNCHANGED Unanswered
      BY <1>1, <1>4, <1>11, UnansweredByList
    <2>2. UNCHANGED PromisedPhase
      BY <1>1, <1>3, <1>11, PhaseNow, PhaseNext DEF Closings
    <2>3. EntryFine(e)
      BY <1>1, <1>2, HeadTailEntries DEF ListInv, e
    <2>4. /\ e.type \in Losses => PromisedPhase \in {"disconnected", "failed"}
          /\ ~Tells(events, "CONN_CONNECTED")
      BY <1>2, <1>3, <1>11, ClosesTells, PhaseNow DEF Closings
    <2>5. Owed' = Owed
      BY <2>1 DEF Owed
    <2>6. CASE e.type = "TRANS_NOCONNECT"
      <3>1. trans_ready # <<>>
        <4>1. e.trans \in Trans /\ tstatus[e.trans] = "READY"
          BY <1>6, <2>3, <2>6 DEF EntryFine, Event, ConnEvents
        <4>2. e.trans \in ToSet(trans_ready)
          BY <4>1 DEF QueueInv
        <4>3. QED BY <4>2, ToSetEmpty
      <3>2. Len(trans_ready) > 0
        BY <1>5, <3>1, EmptySeq DEF TypeOK
      <3>3. PromisedConn = View(PromisedPhase, Owed, Len(trans_ready), PingDue)
        BY <2>4, <2>6, ViewNow DEF Losses
      <3>4. PromisedConn' = PromisedConn
        BY <1>1, <1>13, <2>1, <2>2, <2>6, ViewNext DEF IsFinal
      <3>5. Callbacks!Event("TRANS_NOCONNECT", PromisedConn) \in Callbacks!Told(PromisedConn)
        BY <1>5, <1>13, <2>4, <2>6, <3>2, <3>3, ViewTold DEF Losses
      <3>6. QED BY <1>7, <2>6, <3>4, <3>5
    <2>7. CASE e.type = "TRANS_TIMEOUT"
      <3>1. e.trans \in Users /\ tstatus[e.trans] = "PENDING"
        BY <2>3, <2>7 DEF EntryFine
      <3>2. Unanswered # {} /\ status \notin {"DISCONNECTED", "CONNECTING"}
        BY <3>1, UnansweredByList DEF StandingInv
      <3>3. Owed > 0
        <4>1. Owed # 0
          BY <3>2, OwedTypes
        <4>2. QED BY <1>5, <4>1
      <3>4. ~Closes(events)
        BY <1>2, <3>2 DEF TellingInv
      <3>5. PromisedPhase \in {"up", "leaving"}
        BY <1>2, <2>4, <3>2, <3>4, ClosesTells, PhaseNow DEF Closings, TypeOK, ConnStatus
      <3>6. PromisedConn = View(PromisedPhase, Owed, Len(trans_ready), PingDue)
        BY <3>5, ViewNow
      <3>7. PromisedConn' = PromisedConn
        BY <1>1, <1>13, <2>1, <2>2, <2>7, ViewNext DEF IsFinal
      <3>8. Callbacks!Event("TRANS_TIMEOUT", PromisedConn) \in Callbacks!ToldTimeout(PromisedConn)
        BY <1>5, <1>13, <3>3, <3>5, <3>6, ViewTold
      <3>9. QED BY <1>7, <2>7, <3>7, <3>8
    <2>8. CASE e.type \in {"TRANS_DONE", "TRANS_ERROR"}
      <3>1. e.trans \in Trans
        BY <1>6, <2>8 DEF Event, ConnEvents
      <3>2. e.trans \in Pings /\ e.type = "TRANS_ERROR"
        BY <1>11, <2>3, <2>8, <3>1 DEF EntryFine, IsFinal, Trans
      <3> DEFINE p == e.trans
      <3>3. p \in Pings /\ IsFinal(e, p) /\ ~NoFinal(events, p)
        BY <1>4, <3>2 DEF IsFinal
      <3> HIDE DEF p
      <3>4. OneFinal(events, p) /\ \A u \in Pings : u # p => NoFinal(events, u)
        BY <3>3 DEF ListInv, PingsTold
      <3>5. NoFinal(events', p)
        BY <1>1, <1>2, <3>3, <3>4, FinalTail DEF e
      <3>6. \A u \in Pings : NoFinal(events', u)
        BY <1>4, <3>4, <3>5
      <3>7. ~PingDue'
        BY <3>6 DEF PingDue, NoFinal, IsFinal
      <3>8. PingDue
        BY <1>13, <3>3
      <3>9. /\ PromisedPhase \in {"disconnected", "failed"}
            /\ PromisedConn = View(PromisedPhase, Owed, Len(trans_ready), TRUE)
            /\ PromisedConn' = View(PromisedPhase, Owed, Len(trans_ready), FALSE)
        <4>1. PingDue = TRUE /\ PingDue' = FALSE
          BY <3>7, <3>8, <1>13
        <4>2. PromisedPhase \in {"disconnected", "failed"}
          BY <2>4, <3>2 DEF Losses
        <4>3. QED BY <1>1, <2>2, <2>5, <4>1, <4>2, ViewNow, ViewNext
      <3>10. Callbacks!Event("TRANS_ERROR", PromisedConn') \in Callbacks!Told(PromisedConn)
        BY <1>5, <3>9, ViewTold
      <3>11. QED BY <1>7, <3>2, <3>10
    <2>9. e.type \in {"TRANS_DONE", "TRANS_ERROR", "TRANS_NOCONNECT", "TRANS_TIMEOUT"}
      BY <1>6, <1>11 DEF Event, ConnEvents, TransEvents, Closings
    <2>10. QED BY <2>6, <2>7, <2>8, <2>9
  <1>12. QED BY <1>8, <1>9, <1>10, <1>11

(* A ping is due if the list has its TRANS_ERROR, before and after a step.  *)
LEMMA PingDueByEntry ==
    /\ PingDue <=> \E e \in ToSet(events) : e.type = "TRANS_ERROR" /\ e.trans \in Pings
    /\ PingDue' <=> \E e \in ToSet(events') : e.type = "TRANS_ERROR" /\ e.trans \in Pings
    /\ PingDue \in BOOLEAN /\ PingDue' \in BOOLEAN
  BY DEF PingDue, ToSet

(* Every step of the library is one of CallbackPromise's or a stutter.      *)
LEMMA CallbacksStep ==
    ASSUME SoloCalls
    PROVE  Basis /\ ToldInv /\ ProgramInv /\ SilentInv /\ ListInv /\ [Next]_vars
               => [Callbacks!Next]_<<PromisedConn, telling>>
  <1> SUFFICES ASSUME TypeOK, QueueInv, HandlerInv, LinkInv, StandingInv, ToldInv, ProgramInv,
                      SilentInv, ListInv, [Next]_vars
               PROVE  [Callbacks!Next]_<<PromisedConn, telling>>
    BY DEF Basis
  <1> USE DEF objVars, linkVars, queueVars, fieldVars, loopVars, histVars
  <1>0. tstatus \in [Trans -> TransStatus]
    BY DEF TypeOK
  <1>1. CASE ~alive
    BY <1>1, GoneForGood, SeenGone DEF vars
  <1>2. ASSUME alive, destroy
        PROVE  destroy'
    BY <1>2, ZenonT(40) DEF Next, ApiCall, Handler, Gone, vars, LoopDispatch,
          LM_trans_new, LM_conn_connect, LM_conn_disconnect, LM_conn_disable_ping,
          LM_conn_set_idle_timeout, LM_conn_destroy, LM_trans_set_param, LM_trans_set_timeout,
          LM_trans_send, LM_trans_delete, FreeConn, ImplicitConnect, RegisterIo,
          DispatchConnected, DispatchClosed, DispatchRead, DispatchWrite, DispatchTrigger,
          DispatchTimer, DispatchTransTimer, Dispatch,
          HandleConnectedNoPing, HandleConnected, HandleClosed, HandleRead, HandleWrite,
          HandleTransTimeout, HandlePingTimeout, HandleIdleTimeout, Enter, ParseResponse,
          ParseOrphan, ParseWait, ParseError, Parsing, SetConnected, PingLost, PingDeleted,
          Deliver, CallbackReturns, AllDelivered, Reap, Release, Leave
  <1>6. telling' = telling \/ Deliver \/ CallbackReturns
    BY ZenonT(40) DEF Next, ApiCall, Handler, Gone, vars, LoopDispatch,
          LM_trans_new, LM_conn_connect, LM_conn_disconnect, LM_conn_disable_ping,
          LM_conn_set_idle_timeout, LM_conn_destroy, LM_trans_set_param, LM_trans_set_timeout,
          LM_trans_send, LM_trans_delete, FreeConn, ImplicitConnect, RegisterIo,
          DispatchConnected, DispatchClosed, DispatchRead, DispatchWrite, DispatchTrigger,
          DispatchTimer, DispatchTransTimer, Dispatch,
          HandleConnectedNoPing, HandleConnected, HandleClosed, HandleRead, HandleWrite,
          HandleTransTimeout, HandlePingTimeout, HandleIdleTimeout, Enter, ParseResponse,
          ParseOrphan, ParseWait, ParseError, Parsing, SetConnected, PingLost, PingDeleted,
          AllDelivered, Reap, Release, Leave
  <1>7. CallbackReturns => telling # "none" /\ telling' = "none"
    BY DEF CallbackReturns, SilentInv
  <1>3. CASE alive /\ destroy
    <2>1. ~Deliver
      BY <1>3 DEF Deliver, SilentInv
    <2>2. QED BY <1>2, <1>3, <1>6, <1>7, <2>1, SeenGone
  <1>4. ASSUME alive, ~destroy
        PROVE  [Callbacks!Next]_<<PromisedConn, telling>>
    <2> USE <1>4
    <2>1. ASSUME UNCHANGED <<alive, destroy, status, events, tstatus, trans_ready, telling>>
          PROVE  [Callbacks!Next]_<<PromisedConn, telling>>
      BY <2>1, SeenSame
    <2>2. pc \in {"idle", "dispatched", "reap", "leaving"} => events = <<>>
      BY DEF HandlerInv
    <2>3. ASSUME NEW a \in Threads, ApiCall(a) \/ ImplicitConnect(a) \/ RegisterIo(a)
          PROVE  [Callbacks!Next]_<<PromisedConn, telling>>
      <3>1. a = "loop"
        BY <2>3, LoopOnly DEF ProgramInv
      <3>2. CASE LM_trans_new(a)
        <4>1. PICK t \in Users : tstatus' = [tstatus EXCEPT ![t] = "NEW"] /\ tstatus[t] = "FREE"
          BY <3>2 DEF LM_trans_new, Unused
        <4>2. \A u \in Users : tstatus'[u] = "PENDING" <=> tstatus[u] = "PENDING"
          BY <1>0, <4>1 DEF Trans
        <4>3. UNCHANGED <<alive, destroy, status, events, trans_ready, telling>>
          BY <3>2 DEF LM_trans_new
        <4>4. QED BY <4>2, <4>3, SeenSame
      <3>3. CASE \/ LM_conn_disable_ping(a) \/ LM_conn_set_idle_timeout(a)
                 \/ \E t \in Trans : LM_trans_set_param(a, t) \/ LM_trans_set_timeout(a, t)
        BY <2>1, <3>3 DEF LM_conn_disable_ping, LM_conn_set_idle_timeout, LM_trans_set_param,
              LM_trans_set_timeout
      <3>4. ASSUME NEW t \in Trans, LM_trans_send(a, t)
            PROVE  [Callbacks!Next]_<<PromisedConn, telling>>
        BY <3>1, <3>4, SeenSent DEF LM_trans_send, MayCall
      <3>5. ASSUME NEW t \in Trans, LM_trans_delete(a, t)
            PROVE  [Callbacks!Next]_<<PromisedConn, telling>>
        <4>1. CASE Deferred
          BY <2>1, <3>5, <4>1 DEF LM_trans_delete
        <4>2. CASE ~Deferred
          <5>1. events = <<>>
            BY <3>1, <3>5, <4>2 DEF LM_trans_delete, MayCall, Deferred, HandlerInv
          <5>2. QED BY <3>5, <4>2, <5>1, SeenDeleted DEF LM_trans_delete
        <4>3. QED BY <4>1, <4>2
      <3>6. CASE LM_conn_destroy(a)
        BY <3>6, SeenDestroy DEF LM_conn_destroy, FreeConn
      <3>7. CASE LM_conn_disconnect(a)
        BY <3>1, <3>7, SeenLeaving DEF LM_conn_disconnect, DisconnectIo, MayCall
      <3>8. CASE LM_conn_connect(a) \/ ImplicitConnect(a) \/ RegisterIo(a)
        <4>1. /\ UNCHANGED <<alive, destroy, events, tstatus, trans_ready, telling>>
              /\ status' = status \/ (status = "DISCONNECTED" /\ status' = "CONNECTING")
          BY <3>8 DEF LM_conn_connect, ImplicitConnect, RegisterIo, ConnConnect, LinkInv
        <4>2. QED BY <4>1, SeenConnect
      <3>9. QED BY <2>3, <3>2, <3>3, <3>4, <3>5, <3>6, <3>7, <3>8 DEF ApiCall
    <2>4. CASE LoopDispatch
      BY <2>1, <2>4 DEF LoopDispatch, DispatchConnected, DispatchClosed, DispatchRead, DispatchWrite,
                  DispatchTrigger, DispatchTimer, DispatchTransTimer, Dispatch
    <2>5. CASE HandleConnected
      <3>1. PICK p \in Pings : tstatus' = [tstatus EXCEPT ![p] = "PENDING"]
        BY <2>5 DEF HandleConnected
      <3>2. \A u \in Users : tstatus'[u] = tstatus[u]
        BY <1>0, <3>1, ConnAssumption DEF Trans
      <3>3. UNCHANGED <<alive, destroy, status, events, trans_ready, telling>>
        BY <2>5 DEF HandleConnected, Enter
      <3>4. QED BY <3>2, <3>3, SeenSame
    <2>6. CASE \/ HandleConnectedNoPing \/ HandleRead \/ HandleWrite \/ HandlePingTimeout
      BY <2>1, <2>6 DEF HandleConnectedNoPing, HandleRead, HandleWrite, HandlePingTimeout, Enter
    <2>7. CASE HandleTransTimeout
      <3> DEFINE e == UserEvent("TRANS_TIMEOUT", ev.trans)
      <3>1. /\ events = <<>> /\ events' = Append(events, e)
            /\ ev.trans # NoTrans /\ ev \in IoEvent
            /\ UNCHANGED <<alive, destroy, status, tstatus, trans_ready, telling>>
        BY <2>2, <2>7 DEF HandleTransTimeout, Enter, IsTransTimer, TypeOK
      <3>2. e \in Event /\ e.type = "TRANS_TIMEOUT"
        BY <3>1, EventTypes DEF TransEvents, UserEvent
      <3> HIDE DEF e
      <3>3. events \in Seq(Event) /\ ToSet(events') = ToSet(events) \cup {e}
        <4>1. events \in Seq(Event)
          BY DEF TypeOK
        <4>2. ToSet(Append(events, e)) = ToSet(events) \cup {e}
          BY <3>2, <4>1, ToSetAppend
        <4>3. events' = Append(events, e)
          BY <3>1
        <4>4. QED BY <4>1, <4>2, <4>3
      <3>4. \A type : type # "TRANS_TIMEOUT" => (Tells(events', type) <=> Tells(events, type))
        BY <3>2, <3>3, TellsByEntry
      <3>5. UNCHANGED PromisedPhase
        BY <3>1, <3>4, PhaseNow, PhaseNext
      <3>6. \A t : NoFinal(events', t) <=> NoFinal(events, t)
        BY <3>2, <3>3, NoFinalByEntry DEF IsFinal
      <3>7. UNCHANGED Unanswered
        BY <3>1, <3>6, UnansweredByList
      <3>9. PingDue' = PingDue
        BY <3>2, <3>3, PingDueByEntry
      <3>8. QED BY <3>1, <3>5, <3>7, <3>9, ViewNext
    <2>8. CASE HandleIdleTimeout
      <3>1. pc = "dispatched" /\ UNCHANGED <<alive, destroy, events, tstatus, trans_ready, telling>>
        BY <2>8 DEF HandleIdleTimeout, Enter
      <3>2. status' = status \/ (status = "CONNECTED" /\ status' = "IDLE_TIMEOUT")
        BY <2>8 DEF HandleIdleTimeout, DisconnectIo
      <3>3. QED BY <2>1, <3>1, <3>2, SeenLeaving
    <2>9. ASSUME NEW type \in {"DISCONNECTED", "ERROR"}, HandleClosed(type)
          PROVE  [Callbacks!Next]_<<PromisedConn, telling>>
      BY <2>9, SeenLost DEF HandleClosed, Enter, LinkInv, SilentInv
    <2>10. CASE ParseError
      BY <2>10, SeenLost DEF ParseError, Parsing, LinkInv, SilentInv
    <2>11. CASE PingLost
      BY <2>11, SeenLost DEF PingLost, PingDeleted, LinkInv, SilentInv
    <2>12. ASSUME NEW t \in Trans, ParseResponse(t)
           PROVE  [Callbacks!Next]_<<PromisedConn, telling>>
      <3>1. /\ tstatus[t] = "PENDING" /\ tstatus' = [tstatus EXCEPT ![t] = "DONE"]
            /\ UNCHANGED <<alive, destroy, status, trans_ready, telling>>
        BY <2>12 DEF ParseResponse
      <3>2. \A u \in Trans : tstatus'[u] = IF u = t THEN "DONE" ELSE tstatus[u]
        BY <1>0, <3>1
      <3>3. CASE t = pingtxn
        <4>1. \A u \in Users : tstatus'[u] = tstatus[u]
          BY <3>2, <3>3, ConnAssumption DEF TypeOK, Trans
        <4>2. UNCHANGED events
          BY <2>12, <3>3 DEF ParseResponse
        <4>3. QED BY <3>1, <4>1, <4>2, SeenSame
      <3>4. CASE t # pingtxn
        <4> DEFINE e == UserEvent("TRANS_DONE", t)
        <4>1. events' = Append(events, e)
          BY <2>12, <3>4 DEF ParseResponse
        <4>2. e \in Event /\ e.type = "TRANS_DONE" /\ e.trans = t
          BY EventTypes DEF TransEvents, UserEvent
        <4> HIDE DEF e
        <4>3. ToSet(events') = ToSet(events) \cup {e}
          BY <4>1, <4>2, ToSetAppend DEF TypeOK
        <4>4. \A type : type # "TRANS_DONE" => (Tells(events', type) <=> Tells(events, type))
          BY <4>2, <4>3, TellsByEntry
        <4>5. UNCHANGED PromisedPhase
          BY <3>1, <4>4, PhaseNow, PhaseNext
        <4>6. \A u : NoFinal(events', u) <=> NoFinal(events, u) /\ u # t
          BY <4>2, <4>3, NoFinalByEntry DEF IsFinal
        <4>7. UNCHANGED Unanswered
          BY <3>1, <3>2, <4>6, UnansweredByList DEF Trans
        <4>9. PingDue' = PingDue
          BY <4>2, <4>3, PingDueByEntry
        <4>8. QED BY <3>1, <4>5, <4>7, <4>9, ViewNext
      <3>5. QED BY <3>3, <3>4
    <2>13. CASE ParseWait \/ \E t \in Trans : ParseOrphan(t)
      BY <2>1, <2>13 DEF ParseWait, ParseOrphan
    <2>14. CASE SetConnected
      <3>1. UNCHANGED telling
        BY <2>14 DEF SetConnected, PingDeleted
      <3>2. QED BY <2>14, <3>1, SeenOpened
    <2>15. CASE Deliver
      BY <2>15, SeenTold
    <2>16. CASE AllDelivered \/ Release
      BY <2>1, <2>16 DEF AllDelivered, Release
    <2>21. CASE CallbackReturns
      <3>1. UNCHANGED <<alive, destroy, status, events, tstatus, trans_ready>>
        BY <2>21 DEF CallbackReturns, DestroyIsSet
      <3>2. UNCHANGED PromisedConn
        BY <3>1, SeenSame
      <3>3. QED BY <1>7, <2>21, <3>2 DEF Callbacks!Next, Callbacks!Returns
    <2>17. ASSUME NEW t \in Trans, Reap(t)
           PROVE  [Callbacks!Next]_<<PromisedConn, telling>>
      BY <2>2, <2>17, SeenDeleted DEF Reap
    <2>18. CASE Leave
      BY <2>1, <2>18 DEF Leave, DestroyIsSet
    <2>19. CASE UNCHANGED vars
      BY <2>1, <2>19 DEF vars
    <2>20. QED
      BY <2>3, <2>4, <2>5, <2>6, <2>7, <2>8, <2>9, <2>10, <2>11, <2>12, <2>13, <2>14, <2>15,
         <2>16, <2>17, <2>18, <2>19, <2>21 DEF Next, Handler, Gone
  <1>5. QED BY <1>1, <1>3, <1>4

(* A program with one thread gets its callbacks as CallbackPromise says,    *)
(* event by event, so what is shown of the three programs over ConnState    *)
(* holds over the library: the closing event comes once, last and after     *)
(* every transaction that was submitted while the connection was up, and    *)
(* the ping of a failed attempt, has been told about.                       *)
THEOREM CallbacksKept ==
    ASSUME SoloCalls
    PROVE  Spec => KeepsCallbackPromise
  <1>1. Init => Callbacks!Init
    <2> SUFFICES ASSUME Init PROVE Callbacks!Init
      OBVIOUS
    <2>1. /\ events = <<>> /\ trans_ready = <<>> /\ alive /\ ~destroy /\ status = "DISCONNECTED"
          /\ telling = "none"
      BY DEF Init
    <2>2. \A t \in Users : tstatus[t] # "PENDING" /\ NoFinal(events, t)
      BY <2>1 DEF Init, NoFinal, Trans
    <2>3. Unanswered = {}
      BY <2>2, UnansweredByList
    <2>4. Owed = 0
      BY <2>3, FS_EmptySet DEF Owed
    <2>5. PromisedPhase = "idle"
      BY <2>1, NothingTold, PhaseNow
    <2>6. PingDue = FALSE
      BY <2>1, ToSetEmpty, PingDueByEntry
    <2>7. PromisedConn = View("idle", 0, 0, FALSE)
      <3>1. Len(trans_ready) = 0
        BY <2>1
      <3>2. QED BY <2>4, <2>5, <2>6, <3>1, ViewNow
    <2>8. Callbacks!Fresh = View("idle", 0, 0, FALSE)
      BY DEF Callbacks!Fresh, Callbacks!Conn, View
    <2>9. QED BY <2>1, <2>7, <2>8 DEF Callbacks!Init
  <1>2. QED BY <1>1, BasisCorrect, ToldCorrect, ProgramCorrect, ListCorrect, CallbacksStep, PTL
            DEF Spec, KeepsCallbackPromise, Callbacks!Spec
=============================================================================
