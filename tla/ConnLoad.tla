------------------------------ MODULE ConnLoad ------------------------------
(***************************************************************************)
(* The connection load generator, apps/monetra_connload: it keeps a number *)
(* of connections open, runs a few transactions on each, closes it and     *)
(* opens another in its place.  One event loop thread runs all callbacks;  *)
(* the connections behave as CallbackPromise says.                         *)
(***************************************************************************)
EXTENDS ConnState, FiniteSets

CONSTANTS
    MaxSlots,   \* bound on connection objects whose address is in use
    SizeLimit,  \* one more than the largest size_t
    Counts,     \* the values given to the integer options
    Default     \* the value an option has when it is not given: 100, 2 and 1000 in the program

ASSUME MaxSlotsAssumption == MaxSlots \in Nat \ {0}
ASSUME SizeLimitAssumption == SizeLimit \in Nat /\ SizeLimit > MaxSlots
ASSUME CountsAssumption == Counts \subseteq Nat /\ Default \in Nat

Slots == 1 .. MaxSlots

VARIABLES
    running,                 \* options, running, exited, or broken: freed memory was used
    config,                  \* config_num_conns, config_trans_per_conn, config_delay_per_trans_ms
    conn,                    \* each LM_conn_t
    track_conns,             \* the objects in the list of the same name
    num_txns,                \* conn_private_t: transactions enqueued on the connection
    track_num_connections,
    timers,                  \* one-shot timers running with the connection as their argument
    met, hungup, stray       \* history: connections told CONN_CONNECTED; connections closed
                             \* while up by the other side; was one closed before it was up

vars == <<running, config, conn, track_conns, num_txns, track_num_connections, timers,
          met, hungup, stray>>

-----------------------------------------------------------------------------
(* The command line: main, read_cmdline.                                   *)

(* cli_integer_cb: a value that is negative, or a port beyond 16 bits, is   *)
(* refused; zero is not.                                                    *)
Options == [name : {"c", "t", "d"}, value : Counts]

ReadOption(o) ==
    /\ running = "options"
    /\ config' = [config EXCEPT ![o.name] = o.value]
    /\ UNCHANGED <<running, conn, track_conns, num_txns, track_num_connections, timers,
                   met, hungup, stray>>

(* Any other argument ends the program with the usage text.                 *)
RefuseOption ==
    /\ running = "options"
    /\ running' = "exited"
    /\ UNCHANGED <<config, conn, track_conns, num_txns, track_num_connections, timers,
                   met, hungup, stray>>

-----------------------------------------------------------------------------
(* enqueue_tran, create_connection and destroy_connection, as the          *)
(* connections and counts they leave behind.                               *)

Free == {s \in Slots : s \notin track_conns /\ timers[s] = 0}
NewSlot == CHOOSE s \in Free : TRUE

(* enqueue_tran: a transaction is made and submitted, num_txns counts it    *)
(* (without a limit the count is bounded: no value of it is special).       *)
Enqueued(c) == Sending(c)
Counted(n) == IF config["t"] = 0 THEN 1 ELSE n + 1

(* create_connection, on a fresh object.  The result of LM_conn_connect is  *)
(* ignored: a connection that could not even be started is never told of.   *)
Created == {Connecting(Fresh), Fresh}

(* main: the first connection.  Every other one is created by a callback.   *)
(* With port 0 there is none (LM_conn_init returns NULL) and the program    *)
(* exits.                                                                   *)
Start ==
    /\ running = "options"
    /\ \/ /\ running' = "running"
          /\ \E c \in Created : conn' = [conn EXCEPT ![NewSlot] = c]
          /\ track_conns' = {NewSlot}
       \/ /\ running' = "exited"
          /\ UNCHANGED <<conn, track_conns>>
    /\ UNCHANGED <<config, num_txns, track_num_connections, timers, met, hungup, stray>>

-----------------------------------------------------------------------------
(* monetra_callback.                                                       *)

(* The event of that type is told for s; next is the connection after it.   *)
Callback(s, type, next) ==
    /\ running = "running" /\ s \in track_conns
    /\ Event(type, next) \in Told(conn[s])

WantsMore == Cardinality(track_conns) < config["c"]

OnConnected(s, next) ==
    /\ Callback(s, "CONN_CONNECTED", next)
    /\ track_num_connections' = (track_num_connections + 1) % SizeLimit
    /\ num_txns' = [num_txns EXCEPT ![s] = Counted(@)]
    /\ met' = met \cup {s}
    /\ IF WantsMore
       THEN /\ Free # {}
            /\ \E c \in Created : conn' = [conn EXCEPT ![s] = Enqueued(next), ![NewSlot] = c]
            /\ track_conns' = track_conns \cup {NewSlot}
            /\ hungup' = hungup \ {NewSlot}
       ELSE /\ conn' = [conn EXCEPT ![s] = Enqueued(next)]
            /\ UNCHANGED <<track_conns, hungup>>
    /\ UNCHANGED <<running, config, timers, stray>>

(* A size_t that is decremented.                                            *)
OneLessForgotten(n) == n
OneLess(n) == (n + SizeLimit - 1) % SizeLimit

(* The object is destroyed and, before its memory is given back, replaced.  *)
(* The one-shot timer of an unfinished delay keeps pointing to it.          *)
ReplacedNever(s) == track_conns \ {s}
Replaced(s) == (track_conns \ {s}) \cup {NewSlot}

OnDisconnect(s, next) ==
    /\ Callback(s, "CONN_DISCONNECT", next)
    /\ Free # {}
    /\ track_num_connections' = OneLess(track_num_connections)
    /\ \E c \in Created : conn' = [conn EXCEPT ![s] = Gone, ![NewSlot] = c]
    /\ track_conns' = Replaced(s)
    /\ num_txns' = [num_txns EXCEPT ![s] = 0]
    /\ stray' = (stray \/ s \notin met)
    /\ met' = met \ {s}
    /\ hungup' = hungup \ {NewSlot}
    /\ UNCHANGED <<running, config, timers>>

OnConnError(s, next) ==
    /\ Callback(s, "CONN_ERROR", next)
    /\ running' = "exited"
    /\ UNCHANGED <<config, conn, track_conns, num_txns, track_num_connections, timers,
                   met, hungup, stray>>

(* The last transaction of the connection starts the disconnect; any other  *)
(* is followed by the next one, at once or after the delay.                 *)
IsLastLate(s) == num_txns[s] > config["t"]
IsLast(s) == num_txns[s] = config["t"]
DelaysAlso(s) == config["d"] # 0
Delays(s) == ~IsLast(s) /\ config["d"] # 0

OnTransDone(s, next) ==
    /\ Callback(s, "TRANS_DONE", next)
    /\ conn' = [conn EXCEPT ![s] = IF IsLast(s) THEN Disconnecting(next)
                                  ELSE IF Delays(s) THEN next ELSE Enqueued(next)]
    /\ timers' = IF Delays(s) THEN [timers EXCEPT ![s] = @ + 1] ELSE timers
    /\ num_txns' = IF IsLast(s) \/ Delays(s) THEN num_txns
                   ELSE [num_txns EXCEPT ![s] = Counted(@)]
    /\ UNCHANGED <<running, config, track_conns, track_num_connections, met, hungup, stray>>

(* Left to the closing event that follows.                                  *)
OnTransLost(s, next) ==
    /\ \/ Callback(s, "TRANS_ERROR", next)
       \/ Callback(s, "TRANS_NOCONNECT", next)
    /\ conn' = [conn EXCEPT ![s] = next]
    /\ UNCHANGED <<running, config, track_conns, num_txns, track_num_connections, timers,
                   met, hungup, stray>>

-----------------------------------------------------------------------------
(* trans_delay_cb: the delay is over.  Nothing has stopped the timer if the *)
(* connection was destroyed meanwhile: enqueue_tran then works on freed     *)
(* memory, and what happens from there on is not defined.                   *)
DelayOver(s) ==
    /\ running = "running" /\ timers[s] > 0
    /\ IF s \in track_conns
       THEN /\ conn' = [conn EXCEPT ![s] = Enqueued(conn[s])]
            /\ timers' = [timers EXCEPT ![s] = @ - 1]
            /\ num_txns' = [num_txns EXCEPT ![s] = Counted(@)]
            /\ UNCHANGED running
       ELSE /\ running' = "broken"
            /\ UNCHANGED <<conn, timers, num_txns>>
    /\ UNCHANGED <<config, track_conns, track_num_connections, met, hungup, stray>>

(* The other side closes a connection, or it fails.                         *)
Loses(s) ==
    /\ running = "running" /\ s \in track_conns
    /\ \E next \in Losing(conn[s]) :
          /\ conn' = [conn EXCEPT ![s] = next]
          /\ hungup' = IF conn[s].phase = "up" THEN hungup \cup {s} ELSE hungup
    /\ UNCHANGED <<running, config, track_conns, num_txns, track_num_connections, timers,
                   met, stray>>

Ended == running \in {"exited", "broken"} /\ UNCHANGED vars

(* No connection of the pool was ever started: the event loop has nothing   *)
(* to wait for and never returns.                                           *)
WaitsForNothing ==
    /\ running = "running"
    /\ \A s \in Slots : timers[s] = 0 /\ (s \in track_conns => conn[s].phase = "idle")
    /\ UNCHANGED vars

-----------------------------------------------------------------------------
Init ==
    /\ running = "options"
    /\ config = [name \in {"c", "t", "d"} |-> Default]
    /\ conn = [s \in Slots |-> Gone]
    /\ track_conns = {}
    /\ num_txns = [s \in Slots |-> 0]
    /\ track_num_connections = 0
    /\ timers = [s \in Slots |-> 0]
    /\ met = {} /\ hungup = {} /\ stray = FALSE

TellsOf(s) ==
    \E e \in Told(conn[s]) :
        \/ OnConnected(s, e.next)
        \/ OnDisconnect(s, e.next)
        \/ OnConnError(s, e.next)
        \/ OnTransDone(s, e.next)
        \/ OnTransLost(s, e.next)

Next ==
    \/ \E o \in Options : ReadOption(o)
    \/ RefuseOption
    \/ Start
    \/ \E s \in Slots : TellsOf(s) \/ DelayOver(s) \/ Loses(s)
    \/ Ended \/ WaitsForNothing

Spec == Init /\ [][Next]_vars

-----------------------------------------------------------------------------
(* The pool never runs dry and never grows past config_num_conns: each      *)
(* connection that ends is replaced by one, whichever side closed it        *)
(* (-c 0 still opens the first connection of main).                         *)
PoolKept ==
    running = "running" =>
        Cardinality(track_conns) \in 1 .. (IF config["c"] = 0 THEN 1 ELSE config["c"])

(* A connection has one transaction on the way or one delay running, not    *)
(* both, and no more transactions than -t allows.                           *)
OneAtATime ==
    \A s \in track_conns :
        /\ conn[s].owed + conn[s].late + timers[s] <= 1
        /\ config["t"] > 0 => num_txns[s] <= config["t"]

(* A delay timer outlives its connection only if the other side closed it   *)
(* during the delay: the disconnect of the program itself starts when no    *)
(* delay runs.                                                              *)
OwnDisconnectIsClean ==
    \A s \in Slots : timers[s] > 0 /\ s \notin track_conns => s \in hungup

(* The number shown counts the established connections, unless one was      *)
(* closed by the other side before it was up, which takes one away that was *)
(* never added.                                                             *)
CountExact ==
    running = "running" /\ ~stray => track_num_connections = Cardinality(met \cap track_conns)
=============================================================================
