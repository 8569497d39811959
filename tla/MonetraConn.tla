---------------------------- MODULE MonetraConn ----------------------------
(***************************************************************************)
(* One libmonetra connection object (LM_conn_t), the transaction objects   *)
(* it owns (LM_trans_t), and the event handler that moves both:            *)
(*                                                                         *)
(*   monetra_conn.c             connect, disconnect, idle timeout, destroy *)
(*   monetra_conn_event.c       the handler of io, timer and trigger events*)
(*   monetra_trans.c            the life of a transaction                  *)
(*   monetra_trans_structure.c  putting READY transactions on the wire     *)
(*   monetra_parse.c            matching a response to its transaction     *)
(*                                                                         *)
(* conn->lock is modelled by the grain of the actions: what the code does  *)
(* between a lock and the next unlock is one action, or a run of actions   *)
(* during which LockFree is FALSE.  Every place where the code gives the   *)
(* lock up (around LM_trans_delete of the ping, around the implicit        *)
(* LM_conn_connect, around iocreate_cb, around each user callback) ends an *)
(* action, so calls of another thread may come in between.                 *)
(*                                                                         *)
(* mstdlib (event loop, io object, timers, triggers) is outside the        *)
(* repository; it is modelled from how this code uses it.                  *)
(***************************************************************************)
EXTENDS Naturals, Sequences, SequencesExt, MQueue

CONSTANTS
    Users,       \* handles of transactions the application creates
    Pings,       \* handles of the library's own PING transactions
    NoTrans,     \* the NULL transaction pointer
    Calls,       \* pairs <<thread, function>>: the API calls the application makes
    IoCreateCb,  \* TRUE iff an iocreate callback is registered
    Faults       \* what may go wrong: "iofail", "garbage", "dup", "block"

Trans == Users \cup Pings

(***************************************************************************)
(* "loop" is the thread that runs the event loop and, inside it, the user's*)
(* callback; "app" is any other thread that calls the API.                 *)
(***************************************************************************)
Threads == {"loop", "app"}

ASSUME ConnAssumption ==
    /\ Users \cap Pings = {}
    /\ NoTrans \notin Trans
    /\ IoCreateCb \in BOOLEAN

ConnStatus  == {"CONNECTING", "CONNECTED", "DISCONNECTING", "IDLE_TIMEOUT", "DISCONNECTED"}
TransStatus == {"FREE", "NEW", "READY", "PENDING", "DONE"}
ConnEvents  == {"CONN_CONNECTED", "CONN_DISCONNECT", "CONN_ERROR"}
TransEvents == {"TRANS_DONE", "TRANS_ERROR", "TRANS_NOCONNECT", "TRANS_TIMEOUT"}
Event       == [type : ConnEvents, trans : {NoTrans}] \cup [type : TransEvents, trans : Trans]
IoEvent     == [type : {"CONNECTED", "DISCONNECTED", "ERROR", "READ", "WRITE", "OTHER"},
                trans : Trans \cup {NoTrans}]

VARIABLES
    \* LM_conn_t
    alive,          \* the object has not been freed
    in_use,         \* an event handler is processing events
    destroy,        \* a deferred LM_conn_destroy
    status,         \* LM_conn_status_t
    io,             \* the io object: none, created, connecting, up, closing
    timer,          \* conn->timer (ping, then idle): none, stopped, armed
    write_trigger,  \* none, idle, signaled
    outbuf,         \* requests structured but not yet accepted by the io object
    pingtxn,        \* conn->pingtxn
    disable_ping,
    idle_timeout,   \* an idle timeout is configured
    \* the queues and, per transaction, the fields of LM_trans_t
    trans_new, trans_ready, trans_pending, trans_done,
    delay_rm,       \* trans_delay_rm: deletes put off until the handler is done
    tstatus,        \* FREE: no such object; else trans->status
    params,         \* trans->request_params holds at least one key
    timeout_s,      \* trans->timeout_s is not zero
    ttimer,         \* trans->timeout_timer: none, armed, fired
    \* the loop thread and the calls in progress
    pc, ev,         \* where the event handler is, and the event it handles
    events,         \* user events collected by the handler
    call,           \* per thread: inside LM_conn_connect, and how far
    \* the environment
    wire,           \* requests the server has and may answer
    blocked,        \* a write was cut short: the io object owes a WRITE or ERROR event
    \* history, for the properties only
    held,           \* handles the application may still delete
    told,           \* transactions whose DONE or ERROR event was delivered
    telling         \* the event the running callback was given, or "none"

objVars   == <<alive, in_use, destroy>>
linkVars  == <<status, io, timer, write_trigger, outbuf, wire, blocked>>
confVars  == <<disable_ping, idle_timeout>>
queueVars == <<trans_new, trans_ready, trans_pending, trans_done, tstatus>>
fieldVars == <<params, timeout_s, ttimer>>
loopVars  == <<pc, ev, events, call>>
histVars  == <<held, told, telling>>
vars == <<objVars, linkVars, confVars, queueVars, fieldVars, loopVars, histVars,
          pingtxn, delay_rm>>

-----------------------------------------------------------------------------
(* mstdlib helpers.                                                        *)

(* M_event_timer_reset and M_event_timer_stop: no-ops on a NULL timer.      *)
TimerKept(tm)  == tm
TimerReset(tm) == IF tm = "none" THEN "none" ELSE "armed"
TimerStop(tm)  == IF tm = "none" THEN "none" ELSE "stopped"

(* M_io_write_from_buf(conn->io, buf): the io object accepts a prefix; when *)
(* it leaves something behind, a WRITE or ERROR event will follow.          *)
WriteFromBuf(buf) ==
    \E n \in 0 .. Len(buf) :
        /\ n < Len(buf) => "block" \in Faults
        /\ outbuf' = SubSeq(buf, n + 1, Len(buf))
        /\ wire' = wire \cup ToSet(SubSeq(buf, 1, n))
        /\ blocked' = (n < Len(buf))

(* The lock is held from one action to the next while messages are parsed   *)
(* and while delayed deletes are carried out.                               *)
LockFree == pc \notin {"reading", "reap"}

(* Thread a may enter the API and the application makes this call there.    *)
(* The loop thread does so between events and inside the user callback.     *)
MayCall(a, function) ==
    /\ <<a, function>> \in Calls
    /\ alive /\ ~destroy
    /\ call[a] = "none"
    /\ LockFree
    /\ a = "loop" => pc \in {"idle", "callback"}

UserEvent(type, t) == [type |-> type, trans |-> t]
EventsFor(type, q) == [i \in DOMAIN q |-> UserEvent(type, q[i])]

-----------------------------------------------------------------------------
(* Transaction objects: monetra_trans.c.                                   *)

(* LM_trans_new_internal draws a random 32-bit id until it is not that of a *)
(* live transaction.  A handle stands for the object and its id, so a       *)
(* handle is drawn again only when nothing that still names it is around.   *)
Unused(t) ==
    /\ tstatus[t] = "FREE"
    /\ t \notin wire \cup ToSet(outbuf)
    /\ ttimer[t] = "none"

LM_trans_new(a) ==
    \E t \in Users :
        /\ MayCall(a, "LM_trans_new")
        /\ Unused(t)
        /\ tstatus' = [tstatus EXCEPT ![t] = "NEW"]
        /\ trans_new' = trans_new \cup {t}
        /\ held' = held \cup {t}
        /\ UNCHANGED <<objVars, linkVars, confVars, trans_ready, trans_pending,
                       trans_done, fieldVars, loopVars, told, telling, pingtxn, delay_rm>>

(* LM_trans_set_param, LM_trans_set_param_binary: only in the NEW state.    *)
LM_trans_set_param(a, t) ==
    /\ MayCall(a, "LM_trans_set_param")
    /\ t \in held /\ tstatus[t] = "NEW" /\ ~params[t]
    /\ params' = [params EXCEPT ![t] = TRUE]
    /\ UNCHANGED <<objVars, linkVars, confVars, queueVars, timeout_s, ttimer,
                   loopVars, histVars, pingtxn, delay_rm>>

LM_trans_set_timeout(a, t) ==
    /\ MayCall(a, "LM_trans_set_timeout")
    /\ t \in held /\ tstatus[t] = "NEW"
    /\ timeout_s' = [timeout_s EXCEPT ![t] = ~@]
    /\ UNCHANGED <<objVars, linkVars, confVars, queueVars, params, ttimer,
                   loopVars, histVars, pingtxn, delay_rm>>

(* LM_trans_structure destroys the request parameters it has serialized.    *)
Wipe(ready) == [t \in Trans |-> params[t] /\ t \notin ToSet(ready)]

(* LM_trans_send_messages on a CONNECTED connection, ready being the queue  *)
(* it finds: all of it is structured into outbuf (which wipes the request   *)
(* parameters) and moved to trans_pending, and timeout timers start.        *)
SendReady(ready) ==
    /\ tstatus' = [t \in Trans |-> IF t \in ToSet(ready) THEN "PENDING" ELSE tstatus[t]]
    /\ params' = Wipe(ready)
    /\ ttimer' = [t \in Trans |-> IF t \in ToSet(ready) /\ timeout_s[t]
                                  THEN "armed" ELSE ttimer[t]]
    /\ trans_ready' = <<>>
    /\ trans_pending' = trans_pending \o ready
    /\ outbuf' = outbuf \o ready

(* LM_trans_send_messages signals the write trigger if outbuf was empty on  *)
(* entry.  Signalling a trigger that does not exist yet does nothing.       *)
SignalledIfBusy(ready) ==
    IF outbuf # <<>> /\ ready # <<>> /\ write_trigger # "none"
    THEN "signaled" ELSE write_trigger
Signalled(ready) ==
    IF outbuf = <<>> /\ ready # <<>> /\ write_trigger # "none"
    THEN "signaled" ELSE write_trigger

(* LM_trans_send_messages sends in no other state than CONNECTED.           *)
CanSendEarly == status # "DISCONNECTED"
CanSend == status = "CONNECTED"

(* LM_trans_send: NEW -> READY, then LM_trans_send_messages, which connects *)
(* (giving up the lock first) if disconnected, sends if connected, and      *)
(* leaves the transaction READY in every other state.                       *)
LM_trans_send(a, t) ==
    /\ MayCall(a, "LM_trans_send")
    /\ t \in held /\ tstatus[t] = "NEW" /\ params[t]
    /\ trans_new' = trans_new \ {t}
    /\ IF CanSend
       THEN /\ SendReady(Append(trans_ready, t))
            /\ write_trigger' = Signalled(Append(trans_ready, t))
            /\ timer' = TimerStop(timer)
       ELSE /\ tstatus' = [tstatus EXCEPT ![t] = "READY"]
            /\ trans_ready' = Append(trans_ready, t)
            /\ UNCHANGED <<trans_pending, params, ttimer, outbuf, write_trigger, timer>>
    /\ call' = [call EXCEPT ![a] = IF status = "DISCONNECTED" THEN "connect" ELSE @]
    /\ UNCHANGED <<objVars, status, io, wire, blocked, confVars, trans_done, timeout_s,
                   pc, ev, events, histVars, pingtxn, delay_rm>>

(* LM_trans_delete_unlocked: leave the queue the status names and the id    *)
(* map, restart the idle timer if nothing is pending, free the object.  It  *)
(* does not touch the object's own timeout timer.                           *)
DeleteUnlocked(t) ==
    /\ trans_new' = IF tstatus[t] = "NEW" THEN trans_new \ {t} ELSE trans_new
    /\ trans_ready' = IF tstatus[t] = "READY" THEN QueueTake(trans_ready, t) ELSE trans_ready
    /\ trans_pending' = IF tstatus[t] = "PENDING" THEN QueueTake(trans_pending, t)
                        ELSE trans_pending
    /\ trans_done' = IF tstatus[t] = "DONE" THEN trans_done \ {t} ELSE trans_done
    /\ timer' = IF status = "CONNECTED" /\ trans_pending' = <<>>
                THEN TimerReset(timer) ELSE timer
    /\ tstatus' = [tstatus EXCEPT ![t] = "FREE"]
    /\ params' = [params EXCEPT ![t] = FALSE]
    /\ timeout_s' = [timeout_s EXCEPT ![t] = FALSE]
    /\ told' = told \ {t}

(* Removing trans->timeout_timer: when the transaction is deleted, is done  *)
(* or has timed out.                                                        *)
TimeoutKept(t) == ttimer
StopTimeout(t) == [ttimer EXCEPT ![t] = "none"]

(* While a handler is processing events neither a transaction nor the       *)
(* connection may be freed.                                                 *)
DeferredNever == FALSE
Deferred == in_use

(* LM_trans_delete: stops the timeout timer; while a handler is processing  *)
(* events the object is only queued for deletion.                           *)
LM_trans_delete(a, t) ==
    /\ MayCall(a, "LM_trans_delete")
    /\ t \in held
    /\ held' = held \ {t}
    /\ ttimer' = StopTimeout(t)
    /\ IF Deferred
       THEN /\ delay_rm' = delay_rm \cup {t}
            /\ UNCHANGED <<queueVars, params, timeout_s, timer, told>>
       ELSE /\ DeleteUnlocked(t)
            /\ UNCHANGED delay_rm
    /\ UNCHANGED <<objVars, status, io, write_trigger, outbuf, wire, blocked, confVars,
                   loopVars, telling, pingtxn>>

-----------------------------------------------------------------------------
(* Connection objects: monetra_conn.c.                                     *)

(* LM_conn_connect up to its first unlock: nothing if there is an io object *)
(* already ("Already connected"); creating the io object or adding the TLS  *)
(* layer may fail; with an iocreate callback the lock is given up while     *)
(* conn->io is set and the status still DISCONNECTED.                       *)
ConnConnect(a) ==
    \/ /\ io # "none" \/ "iofail" \in Faults
       /\ call' = [call EXCEPT ![a] = "none"]
       /\ UNCHANGED <<io, status>>
    \/ /\ io = "none"
       /\ IF IoCreateCb
          THEN /\ io' = "created"
               /\ call' = [call EXCEPT ![a] = "register"]
               /\ UNCHANGED status
          ELSE /\ io' = "connecting"
               /\ status' = "CONNECTING"
               /\ call' = [call EXCEPT ![a] = "none"]

LM_conn_connect(a) ==
    /\ MayCall(a, "LM_conn_connect")
    /\ ConnConnect(a)
    /\ UNCHANGED <<objVars, timer, write_trigger, outbuf, wire, blocked, confVars, queueVars,
                   fieldVars, pc, ev, events, histVars, pingtxn, delay_rm>>

(* The connect that LM_trans_send and the end of the handler ask for: they  *)
(* call LM_conn_connect without the lock and ignore its result.             *)
ImplicitConnect(a) ==
    /\ alive /\ LockFree
    /\ call[a] = "connect"
    /\ ConnConnect(a)
    /\ UNCHANGED <<objVars, timer, write_trigger, outbuf, wire, blocked, confVars, queueVars,
                   fieldVars, pc, ev, events, histVars, pingtxn, delay_rm>>

(* LM_conn_connect after iocreate_cb has returned: M_event_add, which may   *)
(* fail, and the status change.                                             *)
RegisterIo(a) ==
    /\ alive /\ LockFree
    /\ call[a] = "register"
    /\ call' = [call EXCEPT ![a] = "none"]
    /\ \/ /\ io' = "connecting"
          /\ status' = "CONNECTING"
       \/ /\ "iofail" \in Faults
          /\ io' = "none"
          /\ UNCHANGED status
    /\ UNCHANGED <<objVars, timer, write_trigger, outbuf, wire, blocked, confVars, queueVars,
                   fieldVars, pc, ev, events, histVars, pingtxn, delay_rm>>

(* LM_conn_disconnect_connlocked: ask the io object for a graceful close;   *)
(* st is the status the caller leaves behind.                               *)
DisconnectForgotten(st) == status' = st /\ UNCHANGED io
DisconnectIo(st) == status' = st /\ io' = "closing"

(* LM_conn_disconnect: only a CONNECTED connection can be disconnected.     *)
LM_conn_disconnect(a) ==
    /\ MayCall(a, "LM_conn_disconnect")
    /\ status = "CONNECTED"
    /\ DisconnectIo("DISCONNECTING")
    /\ UNCHANGED <<objVars, timer, write_trigger, outbuf, wire, blocked, confVars, queueVars,
                   fieldVars, loopVars, histVars, pingtxn, delay_rm>>

LM_conn_disable_ping(a) ==
    /\ MayCall(a, "LM_conn_disable_ping")
    /\ ~disable_ping
    /\ disable_ping' = TRUE
    /\ UNCHANGED <<objVars, linkVars, idle_timeout, queueVars, fieldVars, loopVars,
                   histVars, pingtxn, delay_rm>>

(* LM_conn_set_idle_timeout: the timer object is only touched in CONNECTED, *)
(* where it is the idle timer.                                              *)
LM_conn_set_idle_timeout(a) ==
    /\ MayCall(a, "LM_conn_set_idle_timeout")
    /\ idle_timeout' = ~idle_timeout
    /\ timer' = IF status # "CONNECTED" THEN timer
                ELSE IF ~idle_timeout' THEN "none"
                ELSE IF trans_pending = <<>> THEN "armed"
                ELSE IF timer = "none" THEN "stopped" ELSE timer
    /\ UNCHANGED <<objVars, status, io, write_trigger, outbuf, wire, blocked, disable_ping,
                   queueVars, fieldVars, loopVars, histVars, pingtxn, delay_rm>>

(* The freeing half of LM_conn_destroy: the io object, conn->timer, the     *)
(* write trigger and every queue with its transactions go.  LM_trans_free   *)
(* leaves the timeout timers of the transactions in the event loop.         *)
FreeConn ==
    /\ alive' = FALSE
    /\ io' = "none" /\ timer' = "none" /\ write_trigger' = "none"
    /\ outbuf' = <<>> /\ wire' = {} /\ blocked' = FALSE
    /\ trans_new' = {} /\ trans_ready' = <<>> /\ trans_pending' = <<>> /\ trans_done' = {}
    /\ tstatus' = [t \in Trans |-> "FREE"]
    /\ delay_rm' = {} /\ held' = {} /\ told' = {}
    /\ UNCHANGED <<in_use, destroy, status, confVars, fieldVars, ev, events, call, telling, pingtxn>>

(* LM_conn_destroy: put off to the end of the handler while it is running.  *)
LM_conn_destroy(a) ==
    /\ MayCall(a, "LM_conn_destroy")
    /\ IF Deferred
       THEN /\ destroy' = TRUE
            /\ UNCHANGED <<alive, in_use, linkVars, confVars, queueVars, fieldVars, loopVars,
                           histVars, pingtxn, delay_rm>>
       ELSE FreeConn /\ UNCHANGED pc

ApiCall(a) ==
    \/ LM_trans_new(a)
    \/ LM_conn_connect(a)
    \/ LM_conn_disconnect(a)
    \/ LM_conn_disable_ping(a)
    \/ LM_conn_set_idle_timeout(a)
    \/ LM_conn_destroy(a)
    \/ \E t \in Trans : \/ LM_trans_set_param(a, t)
                        \/ LM_trans_set_timeout(a, t)
                        \/ LM_trans_send(a, t)
                        \/ LM_trans_delete(a, t)

-----------------------------------------------------------------------------
(* The event loop picks a ready source and enters the handler, which first  *)
(* has to get the lock: until then pc is "dispatched".                      *)

Dispatch(type, t) ==
    /\ alive /\ pc = "idle" /\ call["loop"] = "none"
    /\ pc' = "dispatched"
    /\ ev' = UserEvent(type, t)
    /\ UNCHANGED <<objVars, confVars, status, outbuf, wire, queueVars, params, timeout_s,
                   events, call, histVars, pingtxn, delay_rm>>

DispatchConnected ==
    /\ io = "connecting"
    /\ disable_ping \/ \E p \in Pings : Unused(p)
    /\ Dispatch("CONNECTED", NoTrans)
    /\ io' = "up"
    /\ UNCHANGED <<timer, write_trigger, blocked, ttimer>>

DispatchClosed(type) ==
    /\ io \in {"up", "closing"} \/ (io = "connecting" /\ type = "ERROR")
    /\ Dispatch(type, NoTrans)
    /\ UNCHANGED <<io, timer, write_trigger, blocked, ttimer>>

DispatchRead ==
    /\ io \in {"up", "closing"}
    /\ Dispatch("READ", NoTrans)
    /\ UNCHANGED <<io, timer, write_trigger, blocked, ttimer>>

DispatchWrite ==
    /\ io = "up"
    /\ Dispatch("WRITE", NoTrans)
    /\ blocked' = FALSE
    /\ UNCHANGED <<io, timer, write_trigger, ttimer>>

DispatchTrigger ==
    /\ write_trigger = "signaled"
    /\ Dispatch("WRITE", NoTrans)
    /\ write_trigger' = "idle"
    /\ UNCHANGED <<io, timer, blocked, ttimer>>

DispatchTimer ==
    /\ timer = "armed"
    /\ Dispatch("OTHER", NoTrans)
    /\ timer' = "stopped"
    /\ UNCHANGED <<io, write_trigger, blocked, ttimer>>

DispatchTransTimer(t) ==
    /\ ttimer[t] = "armed"
    /\ Dispatch("OTHER", t)
    /\ ttimer' = [ttimer EXCEPT ![t] = "fired"]
    /\ UNCHANGED <<io, timer, write_trigger, blocked>>

-----------------------------------------------------------------------------
(* LM_conntrans_event_handler: monetra_conn_event.c.                       *)

(* Lock, in_use = TRUE, and the switch on the event type.                   *)
Enter(type) ==
    /\ alive /\ pc = "dispatched" /\ ev.type = type
    /\ in_use' = TRUE
    /\ UNCHANGED <<alive, destroy, confVars, ev, call, histVars>>

(* The events LM_conn_event_handle_conn_error adds: READY transactions are  *)
(* told NOCONNECT unless the connection was idle, PENDING ones ERROR, and   *)
(* the connection's own event is last.  An error during a disconnect that   *)
(* was asked for counts as the disconnect.                                  *)
Refused == IF status = "IDLE_TIMEOUT" THEN <<>> ELSE EventsFor("TRANS_NOCONNECT", trans_ready)
CloseEvent(type) ==
    UserEvent(IF type = "DISCONNECTED" \/ status \in {"DISCONNECTING", "IDLE_TIMEOUT"}
              THEN "CONN_DISCONNECT" ELSE "CONN_ERROR", NoTrans)
LossEventsUntold(type) == Append(Refused, CloseEvent(type))
LossEventsCloseFirst(type) ==
    <<CloseEvent(type)>> \o Refused \o EventsFor("TRANS_ERROR", trans_pending)
LossEvents(type) ==
    Append(Refused \o EventsFor("TRANS_ERROR", trans_pending), CloseEvent(type))

(* The transactions a lost connection abandons.                             *)
AbandonedAll == ToSet(trans_pending) \cup ToSet(trans_ready)
Abandoned == ToSet(trans_pending)

(* LM_conn_event_handle_conn_error.                                         *)
ConnError(type) ==
    /\ io' = "none" /\ write_trigger' = "none" /\ timer' = "none"
    /\ status' = "DISCONNECTED"
    /\ outbuf' = <<>> /\ wire' = {} /\ blocked' = FALSE
    /\ trans_pending' = <<>>
    /\ trans_done' = trans_done \cup Abandoned
    /\ tstatus' = [t \in Trans |-> IF t \in Abandoned THEN "DONE" ELSE tstatus[t]]
    /\ ttimer' = [t \in Trans |-> IF t \in Abandoned THEN "none" ELSE ttimer[t]]
    /\ events' = events \o LossEvents(type)
    /\ UNCHANGED <<trans_new, trans_ready, params, timeout_s>>

(* LM_conn_cleanup_ping up to the unlock: remove the timer and take the     *)
(* ping out of the pending queue.                                           *)
CleanupPing(queue) ==
    /\ timer' = "none"
    /\ trans_pending' = QueueTake(queue, pingtxn)
    /\ pc' = "ping"

(* CONNECTED, ping disabled: on to LM_conn_event_set_connected.             *)
HandleConnectedNoPing ==
    /\ Enter("CONNECTED")
    /\ disable_ping
    /\ CleanupPing(trans_pending)
    /\ UNCHANGED <<status, io, write_trigger, outbuf, wire, blocked, trans_new, trans_ready,
                   trans_done, tstatus, fieldVars, events, pingtxn, delay_rm>>

(* The state of the five second timer once it has been created.             *)
PingTimerUnarmed == "stopped"
PingTimer == "armed"

(* CONNECTED: start the five second timer, force a PING transaction onto    *)
(* the pending queue and write it directly (LM_trans_ping_request), create  *)
(* the write trigger.                                                       *)
HandleConnected ==
    /\ Enter("CONNECTED")
    /\ ~disable_ping
    /\ \E p \in Pings :
        /\ Unused(p)
        /\ pingtxn' = p
        /\ tstatus' = [tstatus EXCEPT ![p] = "PENDING"]
        /\ trans_pending' = Append(trans_pending, p)
        /\ WriteFromBuf(Append(outbuf, p))
    /\ timer' = PingTimer
    /\ write_trigger' = "idle"
    /\ pc' = "callbacks"
    /\ UNCHANGED <<status, io, trans_new, trans_ready, trans_done, fieldVars, events, delay_rm>>

HandleClosed(type) ==
    /\ Enter(type)
    /\ ConnError(type)
    /\ pc' = "callbacks"
    /\ UNCHANGED <<pingtxn, delay_rm>>

(* READ: nothing to do if M_io_read_into_parser has nothing to give.        *)
HandleRead ==
    /\ Enter("READ")
    /\ pc' \in {"reading", "callbacks"}
    /\ UNCHANGED <<linkVars, queueVars, fieldVars, events, pingtxn, delay_rm>>

HandleWrite ==
    /\ Enter("WRITE")
    /\ pc' = "callbacks"
    /\ IF io = "up" THEN WriteFromBuf(outbuf) ELSE UNCHANGED <<outbuf, wire, blocked>>
    /\ UNCHANGED <<status, io, timer, write_trigger, queueVars, fieldVars, events, pingtxn,
                   delay_rm>>

(* An OTHER event is a transaction's timeout iff it came with one.          *)
IsTransTimerAny == TRUE
IsTransTimer == ev.trans # NoTrans

(* OTHER with a transaction: its timeout, a notification only.              *)
HandleTransTimeout ==
    /\ Enter("OTHER")
    /\ IsTransTimer
    /\ events' = Append(events, UserEvent("TRANS_TIMEOUT", ev.trans))
    /\ ttimer' = StopTimeout(ev.trans)
    /\ pc' = "callbacks"
    /\ UNCHANGED <<linkVars, queueVars, params, timeout_s, pingtxn, delay_rm>>

(* OTHER without one: no PING reply while CONNECTING, an idle timeout while *)
(* CONNECTED (unless something is pending after all), else nothing; in      *)
(* every case conn->timer is removed.                                       *)
HandlePingTimeout ==
    /\ Enter("OTHER")
    /\ ~IsTransTimer
    /\ status = "CONNECTING"
    /\ CleanupPing(trans_pending)
    /\ UNCHANGED <<status, io, write_trigger, outbuf, wire, blocked, trans_new, trans_ready,
                   trans_done, tstatus, fieldVars, events, pingtxn, delay_rm>>

HandleIdleTimeout ==
    /\ Enter("OTHER")
    /\ ~IsTransTimer
    /\ status # "CONNECTING"
    /\ IF status = "CONNECTED" /\ trans_pending = <<>>
       THEN DisconnectIo("IDLE_TIMEOUT")
       ELSE UNCHANGED <<io, status>>
    /\ timer' = "none"
    /\ pc' = "callbacks"
    /\ UNCHANGED <<write_trigger, outbuf, wire, blocked, queueVars, fieldVars, events, pingtxn,
                   delay_rm>>

-----------------------------------------------------------------------------
(* The READ loop over LM_conn_parse_trans_buffer.                          *)

Parsing == alive /\ pc = "reading"

(* A response to a PENDING transaction: DONE, and either the connection is  *)
(* now up (the ping) or a TRANS_DONE event is collected and the timeout     *)
(* timer removed.  A server that answers twice keeps the request on wire.   *)
ParseResponse(t) ==
    /\ Parsing
    /\ t \in wire /\ tstatus[t] = "PENDING"
    /\ tstatus' = [tstatus EXCEPT ![t] = "DONE"]
    /\ trans_done' = trans_done \cup {t}
    /\ wire' = wire \ {t} \/ ("dup" \in Faults /\ wire' = wire)
    /\ IF t = pingtxn
       THEN /\ CleanupPing(QueueTake(trans_pending, t))
            /\ UNCHANGED <<events, ttimer>>
       ELSE /\ trans_pending' = QueueTake(trans_pending, t)
            /\ events' = Append(events, UserEvent("TRANS_DONE", t))
            /\ ttimer' = StopTimeout(t)
            /\ UNCHANGED <<timer, pc>>
    /\ UNCHANGED <<objVars, status, io, write_trigger, outbuf, blocked, confVars, trans_new,
                   trans_ready, params, timeout_s, ev, call, histVars, pingtxn, delay_rm>>

(* An orphan (deleted since) or a duplicate is dropped and the loop goes on.*)
ParseOrphan(t) ==
    /\ Parsing
    /\ t \in wire /\ tstatus[t] # "PENDING"
    /\ wire' = wire \ {t}
    /\ UNCHANGED <<objVars, status, io, timer, write_trigger, outbuf, blocked, confVars,
                   queueVars, fieldVars, loopVars, histVars, pingtxn, delay_rm>>

(* No further complete message: restart the idle timer if nothing is        *)
(* pending.                                                                 *)
ParseWait ==
    /\ Parsing
    /\ timer' = IF trans_pending = <<>> THEN TimerReset(timer) ELSE timer
    /\ pc' = "callbacks"
    /\ UNCHANGED <<objVars, status, io, write_trigger, outbuf, wire, blocked, confVars,
                   queueVars, fieldVars, ev, events, call, histVars, pingtxn, delay_rm>>

(* Bytes that are no message: a connection error.                           *)
ParseError ==
    /\ Parsing
    /\ "garbage" \in Faults
    /\ ConnError("ERROR")
    /\ pc' = "callbacks"
    /\ UNCHANGED <<objVars, confVars, ev, call, histVars, pingtxn, delay_rm>>

-----------------------------------------------------------------------------
(* The second half of LM_conn_cleanup_ping: LM_trans_delete of the ping,    *)
(* which takes the lock and, in_use being set, only queues it.  The code    *)
(* unlocks once more before it relocks and clears pingtxn; no other thread  *)
(* can tell the two windows apart.  The code does not ask whether the ping  *)
(* is still there: an application that was told TRANS_ERROR for it may have *)
(* deleted it, and the pointer outlives the connection it was sent on.  What*)
(* the second delete, of freed memory, does is left out.                    *)
PingDeleted ==
    /\ alive /\ pc = "ping"
    /\ delay_rm' = IF pingtxn # NoTrans /\ tstatus[pingtxn] # "FREE"
                   THEN delay_rm \cup {pingtxn} ELSE delay_rm
    /\ pingtxn' = NoTrans
    /\ UNCHANGED <<objVars, confVars, ev, call, histVars>>

(* The rest of LM_conn_event_set_connected, back into the READ loop or, for *)
(* a CONNECTED event, on to creating the write trigger.                     *)
SetConnected ==
    /\ PingDeleted
    /\ ev.type \in {"READ", "CONNECTED"}
    /\ status' = "CONNECTED"
    /\ events' = Append(events, UserEvent("CONN_CONNECTED", NoTrans))
    /\ SendReady(trans_ready)
    /\ timer' = IF idle_timeout THEN "stopped" ELSE "none"
    /\ write_trigger' = IF ev.type = "CONNECTED" THEN "idle" ELSE Signalled(trans_ready)
    /\ pc' = IF ev.type = "CONNECTED" THEN "callbacks" ELSE "reading"
    /\ UNCHANGED <<io, wire, blocked, trans_new, trans_done, timeout_s>>

(* The rest of a PING timeout.                                              *)
PingLost ==
    /\ PingDeleted
    /\ ev.type = "OTHER"
    /\ ConnError("ERROR")
    /\ pc' = "callbacks"

-----------------------------------------------------------------------------
(* The tail of LM_conntrans_event_handler: user callbacks without the lock, *)
(* delayed deletes, reconnect, deferred destroy.                            *)

(* The next event goes to the user callback, in which pc is "callback".     *)
Deliver ==
    /\ alive /\ pc = "callbacks" /\ events # <<>>
    /\ pc' = "callback"
    /\ events' = Tail(events)
    /\ LET e == Head(events)
       IN  /\ held' = IF e.trans # NoTrans /\ e.trans \notin delay_rm
                      THEN held \cup {e.trans} ELSE held
           /\ told' = IF e.type \in {"TRANS_DONE", "TRANS_ERROR"}
                      THEN told \cup {e.trans} ELSE told
           /\ telling' = e.type
    /\ UNCHANGED <<objVars, linkVars, confVars, queueVars, fieldVars, ev, call, pingtxn, delay_rm>>

(* LM_conn_destroy_is_set.                                                  *)
DestroyMissed == FALSE
DestroyIsSet == destroy

(* The callback returns; after a destroy the remaining events are dropped.  *)
CallbackReturns ==
    /\ alive /\ pc = "callback" /\ call["loop"] = "none"
    /\ pc' = IF DestroyIsSet THEN "reap" ELSE "callbacks"
    /\ events' = IF DestroyIsSet THEN <<>> ELSE events
    /\ telling' = "none"
    /\ UNCHANGED <<objVars, linkVars, confVars, queueVars, fieldVars, ev, call, held, told,
                   pingtxn, delay_rm>>

AllDelivered ==
    /\ alive /\ pc = "callbacks" /\ events = <<>>
    /\ pc' = "reap"
    /\ UNCHANGED <<objVars, linkVars, confVars, queueVars, fieldVars, ev, events, call, histVars,
                   pingtxn, delay_rm>>

(* Lock, and carry out the delayed deletes one by one.                      *)
Reap(t) ==
    /\ alive /\ pc = "reap"
    /\ t \in delay_rm
    /\ delay_rm' = delay_rm \ {t}
    /\ DeleteUnlocked(t)
    /\ UNCHANGED <<objVars, status, io, write_trigger, outbuf, wire, blocked, confVars, ttimer,
                   loopVars, held, telling, pingtxn>>

(* The delayed deletes are done before in_use is cleared.                   *)
Reaped == delay_rm = {}

(* The connection went down with transactions waiting for it.               *)
NeedsReconnectNever == FALSE
NeedsReconnect == status = "DISCONNECTED" /\ trans_ready # <<>>

(* Then in_use = FALSE and, before the unlock, the decision to reconnect.   *)
Release ==
    /\ alive /\ pc = "reap" /\ Reaped
    /\ in_use' = FALSE
    /\ call' = [call EXCEPT !["loop"] = IF NeedsReconnect THEN "connect" ELSE "none"]
    /\ pc' = "leaving"
    /\ UNCHANGED <<alive, destroy, linkVars, confVars, queueVars, fieldVars, ev, events,
                   histVars, pingtxn, delay_rm>>

(* After the reconnect, if any: the deferred LM_conn_destroy, or return.    *)
Leave ==
    /\ alive /\ pc = "leaving" /\ call["loop"] = "none"
    /\ pc' = "idle"
    /\ IF DestroyIsSet
       THEN FreeConn
       ELSE UNCHANGED <<objVars, linkVars, confVars, queueVars, fieldVars, ev, events, call,
                        histVars, pingtxn, delay_rm>>

-----------------------------------------------------------------------------
(* The whole.                                                              *)

Init ==
    /\ alive = TRUE /\ in_use = FALSE /\ destroy = FALSE
    /\ status = "DISCONNECTED" /\ io = "none" /\ timer = "none"
    /\ write_trigger = "none" /\ outbuf = <<>> /\ wire = {} /\ blocked = FALSE
    /\ disable_ping = FALSE /\ idle_timeout = FALSE
    /\ trans_new = {} /\ trans_ready = <<>> /\ trans_pending = <<>> /\ trans_done = {}
    /\ tstatus = [t \in Trans |-> "FREE"]
    /\ params = [t \in Trans |-> FALSE]
    /\ timeout_s = [t \in Trans |-> FALSE]
    /\ ttimer = [t \in Trans |-> "none"]
    /\ pc = "idle" /\ ev = UserEvent("OTHER", NoTrans) /\ events = <<>>
    /\ call = [a \in Threads |-> "none"]
    /\ held = {} /\ told = {} /\ telling = "none"
    /\ pingtxn = NoTrans /\ delay_rm = {}

(* The event loop may pick any ready source.                                *)
LoopDispatch ==
    \/ DispatchConnected
    \/ \E type \in {"DISCONNECTED", "ERROR"} : DispatchClosed(type)
    \/ DispatchRead
    \/ DispatchWrite
    \/ DispatchTrigger
    \/ DispatchTimer
    \/ \E t \in Trans : DispatchTransTimer(t)

(* Everything the handler does once it has been entered.                    *)
Handler ==
    \/ HandleConnectedNoPing
    \/ HandleConnected
    \/ \E type \in {"DISCONNECTED", "ERROR"} : HandleClosed(type)
    \/ HandleRead
    \/ HandleWrite
    \/ HandleTransTimeout
    \/ HandlePingTimeout
    \/ HandleIdleTimeout
    \/ \E t \in Trans : ParseResponse(t) \/ ParseOrphan(t)
    \/ ParseWait
    \/ ParseError
    \/ SetConnected
    \/ PingLost
    \/ Deliver
    \/ CallbackReturns
    \/ AllDelivered
    \/ \E t \in Trans : Reap(t)
    \/ Release
    \/ Leave

(* The object is gone and nothing refers to it any more.                    *)
Gone == ~alive /\ UNCHANGED vars

Next ==
    \/ \E a \in Threads : ApiCall(a) \/ ImplicitConnect(a) \/ RegisterIo(a)
    \/ LoopDispatch
    \/ Handler
    \/ Gone

Spec == Init /\ [][Next]_vars

-----------------------------------------------------------------------------
(* Properties.                                                             *)

(* Every variable keeps to the values the C types and enumerations allow.   *)
TypeOK ==
    /\ alive \in BOOLEAN /\ in_use \in BOOLEAN /\ destroy \in BOOLEAN
    /\ status \in ConnStatus
    /\ io \in {"none", "created", "connecting", "up", "closing"}
    /\ timer \in {"none", "stopped", "armed"}
    /\ write_trigger \in {"none", "idle", "signaled"}
    /\ outbuf \in Seq(Trans) /\ wire \subseteq Trans /\ blocked \in BOOLEAN
    /\ disable_ping \in BOOLEAN /\ idle_timeout \in BOOLEAN
    /\ trans_new \subseteq Trans /\ trans_done \subseteq Trans /\ delay_rm \subseteq Trans
    /\ trans_ready \in Seq(Trans) /\ trans_pending \in Seq(Trans)
    /\ tstatus \in [Trans -> TransStatus]
    /\ params \in [Trans -> BOOLEAN] /\ timeout_s \in [Trans -> BOOLEAN]
    /\ ttimer \in [Trans -> {"none", "armed", "fired"}]
    /\ pc \in {"idle", "dispatched", "reading", "ping", "callbacks", "callback", "reap", "leaving"}
    /\ ev \in IoEvent /\ events \in Seq(Event)
    /\ call \in [Threads -> {"none", "connect", "register"}]
    /\ pingtxn \in Pings \cup {NoTrans}
    /\ held \subseteq Trans /\ told \subseteq Trans
    /\ telling \in ConnEvents \cup TransEvents \cup {"none"}

(* Each transaction is in exactly one queue, once, and it is the queue its  *)
(* status names (LM_trans_get_conn_queue relies on it).  The one exception  *)
(* is a ping that was not answered: LM_conn_cleanup_ping takes it out of    *)
(* the pending queue before it is deleted.                                  *)
QueueInv ==
    /\ trans_new = {t \in Trans : tstatus[t] = "NEW"}
    /\ trans_done = {t \in Trans : tstatus[t] = "DONE"}
    /\ ToSet(trans_ready) = {t \in Trans : tstatus[t] = "READY"}
    /\ \A t \in ToSet(trans_pending) : tstatus[t] = "PENDING"
    /\ \A t \in Trans : tstatus[t] = "PENDING" =>
          \/ t \in ToSet(trans_pending)
          \/ t \in Pings /\ (t \in delay_rm \/ (pc = "ping" /\ t = pingtxn))
    /\ NoDuplicates(trans_ready) /\ NoDuplicates(trans_pending)

IsFinal(e, t) == e.trans = t /\ e.type \in {"TRANS_DONE", "TRANS_ERROR"}

(* Exactly one final event per transaction, never lost, never repeated,     *)
(* never early: a user's transaction that is DONE has had its TRANS_DONE or *)
(* TRANS_ERROR delivered or has exactly one on the handler's list, not      *)
(* both; one that is not DONE has neither.  Only LM_conn_destroy in a       *)
(* callback, which drops the rest of the list, takes the promise back.      *)
CompletionInv ==
    \A t \in Users :
        LET queued == {i \in DOMAIN events : IsFinal(events[i], t)}
        IN  IF tstatus[t] # "DONE"
            THEN t \notin told /\ queued = {}
            ELSE \/ t \in told /\ queued = {}
                 \/ t \notin told /\ \E i \in DOMAIN events : queued = {i}
                 \/ destroy

(* The pointer in an event is valid when the callback gets it, even if the  *)
(* callback deleted that transaction a moment ago (monetra_api.h, event     *)
(* callback: "the passed in trans pointer will still be valid").            *)
EventTransValid ==
    \A i \in DOMAIN events :
        events[i].trans # NoTrans => tstatus[events[i].trans] # "FREE"

(* Nothing structured is ever left without something that will write it:    *)
(* with bytes in outbuf the write trigger is signaled, or the io object     *)
(* owes a WRITE event, or the handler of one is about to run.               *)
NoStrandedOutput ==
    io = "up" /\ outbuf # <<>> =>
        \/ blocked
        \/ write_trigger = "signaled"
        \/ pc = "dispatched" /\ ev.type = "WRITE"

(* The idle timer never runs while a transaction is outstanding, so an idle *)
(* timeout cannot cut one off.                                              *)
IdleTimerStopped ==
    timer = "armed" => status = "CONNECTING" \/ trans_pending = <<>>

(* The idle timer runs whenever it should: connected, a timeout configured, *)
(* nothing outstanding, and the event loop back in its wait.  With the PING *)
(* switched off it is created stopped, and first started by an answer.      *)
IdleTimerRuns ==
    /\ alive /\ pc = "idle" /\ status = "CONNECTED" /\ idle_timeout /\ trans_pending = <<>>
    /\ ~disable_ping
    => timer = "armed"

(* A transaction has a timeout timer only while it is PENDING: the timer is *)
(* gone when the transaction completes, fails or is deleted.                *)
TimeoutOnlyPending ==
    alive => \A t \in Trans : ttimer[t] # "none" => tstatus[t] = "PENDING" /\ t \notin delay_rm

(* Once the object is freed no handler is running that would touch it.      *)
HandlerOutlived == ~alive => pc = "idle"

(* A transaction keeps its place until it is served: a step that takes it   *)
(* out of READY puts it on the wire of an established connection or frees   *)
(* it on request; connection failures leave it READY.                       *)
ReadySurvives ==
    [][\A t \in Users : tstatus[t] = "READY" /\ tstatus'[t] # "READY" =>
          \/ tstatus'[t] = "PENDING" /\ status' = "CONNECTED"
          \/ tstatus'[t] = "FREE" /\ (t \notin held' \/ ~alive')]_vars

(* Destroying the connection destroys its transactions: none of their       *)
(* timers is left in the event loop to fire on freed memory.                *)
DestroyStopsTimers == ~alive => \A t \in Trans : ttimer[t] # "armed"

-----------------------------------------------------------------------------
(* What the application is promised: TransPromise, an abstract connection   *)
(* and per transaction where it stands for the application.                 *)

PromisedLink ==
    IF ~alive \/ status = "DISCONNECTED" THEN "down"
    ELSE IF status = "CONNECTING" THEN "opening"
    ELSE IF status = "CONNECTED" THEN "open" ELSE "closing"

PromisedTxn ==
    [t \in Users |-> IF tstatus[t] = "FREE" THEN "none"
                     ELSE IF tstatus[t] = "NEW" THEN "new"
                     ELSE IF tstatus[t] = "READY" THEN "ready"
                     ELSE IF tstatus[t] = "PENDING" THEN "pending"
                     ELSE IF t \in told THEN "reported" ELSE "done"]

Promise == INSTANCE TransPromise WITH link <- PromisedLink, txn <- PromisedTxn

(* The connection keeps the promise: every step of the code is a step of    *)
(* TransPromise or leaves the abstract state alone.                         *)
KeepsPromise == Promise!Spec

(* What a single-threaded program is promised about its callbacks:          *)
(* CallbackPromise, as the events that are still to be delivered show it.   *)
Due(type) == \E i \in DOMAIN events : events[i].type = type

PromisedPhase ==
    IF ~alive \/ destroy THEN "gone"
    ELSE IF Due("CONN_CONNECTED") THEN "trying"
    ELSE IF Due("CONN_DISCONNECT") THEN "disconnected"
    ELSE IF Due("CONN_ERROR") THEN "failed"
    ELSE IF status = "DISCONNECTED" THEN "idle"
    ELSE IF status = "CONNECTING" THEN "trying"
    ELSE IF status = "CONNECTED" THEN "up" ELSE "leaving"

Unanswered == {t \in Users : tstatus[t] = "PENDING" \/ \E i \in DOMAIN events : IsFinal(events[i], t)}

(* The PING was cut off and its TRANS_ERROR has not been delivered.         *)
PingDue == \E i \in DOMAIN events : events[i].type = "TRANS_ERROR" /\ events[i].trans \in Pings

PromisedConn ==
    LET waiting == Len(trans_ready)
        asked   == Cardinality(Unanswered)
        trying  == PromisedPhase = "trying"
        gone    == PromisedPhase = "gone"
    IN  [phase |-> PromisedPhase,
         owed  |-> IF trying \/ gone THEN 0 ELSE asked,
         late  |-> IF gone THEN 0 ELSE IF trying THEN asked + waiting ELSE waiting,
         ping  |-> ~trying /\ ~gone /\ PingDue]

Callbacks == INSTANCE CallbackPromise WITH conn <- PromisedConn, event <- telling

(* The callbacks come as promised, each with an event that is due: in       *)
(* particular the one that closes a connection comes once and after every   *)
(* transaction submitted while it was up has been told about, a TRANS_ERROR *)
(* that is for none of them is for the PING, and none comes after a         *)
(* destroy.                                                                 *)
KeepsCallbackPromise == Callbacks!Spec

(* Fairness.  A handler that has been entered runs to its end (user         *)
(* callbacks return), a call in progress goes on, and the event loop serves *)
(* each ready source again and again: trigger, timers, and an io object     *)
(* that is connecting, closing or owes a WRITE event ends up reporting      *)
(* something.  Nothing is assumed of the server.                            *)
Fairness ==
    /\ WF_vars(Handler)
    /\ \A a \in Threads : WF_vars(ImplicitConnect(a) \/ RegisterIo(a))
    /\ SF_vars(DispatchTrigger)
    /\ SF_vars(DispatchTimer)
    /\ SF_vars(io = "connecting" /\ (DispatchConnected \/ DispatchClosed("ERROR")))
    /\ SF_vars(io = "closing" /\ \E type \in {"DISCONNECTED", "ERROR"} : DispatchClosed(type))
    /\ SF_vars(blocked /\ (DispatchWrite \/ DispatchClosed("ERROR")))
    /\ SF_vars(HandleWrite /\ outbuf' # outbuf)

FairSpec == Spec /\ Fairness

(* A connection attempt always ends, also against a server that accepts the *)
(* connection and never answers the PING.                                   *)
ConnectEnds == (alive /\ status = "CONNECTING") ~> (~alive \/ status # "CONNECTING")

(* A disconnect that was asked for, by the user or by the idle timer, ends. *)
DisconnectEnds ==
    (alive /\ status \in {"DISCONNECTING", "IDLE_TIMEOUT"}) ~> (~alive \/ status = "DISCONNECTED")

(* A transaction handed to LM_trans_send is not forgotten: it goes on the   *)
(* wire or a NOCONNECT event is made for it, also when it was queued while  *)
(* an idle disconnect was in progress.                                      *)
ReadyServed ==
    \A t \in Users :
        tstatus[t] = "READY" ~> \/ tstatus[t] # "READY"
                               \/ \E i \in DOMAIN events :
                                     events[i] = UserEvent("TRANS_NOCONNECT", t)

(* Completion is reported to the user, unless the transaction is deleted or *)
(* the connection destroyed first.                                          *)
CompletionReported == \A t \in Users : tstatus[t] = "DONE" ~> (t \in told \/ tstatus[t] = "FREE")

(* A destroy that had to be deferred happens.                               *)
DestroyHappens == destroy ~> ~alive

============================================================================
