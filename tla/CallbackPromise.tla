-------------------------- MODULE CallbackPromise --------------------------
(***************************************************************************)
(* What libmonetra promises a single-threaded program about the callbacks  *)
(* of one connection, event by event:                                      *)
(*                                                                         *)
(* - nothing is told before a connection attempt and, once an attempt has  *)
(*   failed or a connection is lost, exactly one closing event is told;    *)
(* - that event is the last: every transaction submitted while the         *)
(*   connection was up has had its TRANS_DONE or TRANS_ERROR before it;    *)
(* - a TRANS_ERROR is for such a transaction or, once, for the PING of an  *)
(*   attempt that failed; a TRANS_NOCONNECT is for one that stays          *)
(*   submitted, a TRANS_TIMEOUT for one that still waits;                  *)
(* - a disconnect that was asked for ends in CONN_DISCONNECT;              *)
(* - what was submitted at any other time stays submitted and makes the    *)
(*   library connect by itself;                                            *)
(* - after LM_conn_destroy nothing is told.                                *)
(*                                                                         *)
(* This is what the code does.  monetra_api.h promises the program more:   *)
(* that no event follows a closing one unless it asks for the connection   *)
(* again (lines 148-153), where Reconnect does not wait to be asked, and   *)
(* that a TRANS_ERROR is followed by CONN_ERROR (line 157), where a loss   *)
(* may end in CONN_DISCONNECT.                                             *)
(***************************************************************************)
EXTENDS ConnState

VARIABLES
    conn,   \* the connection
    event   \* the event of the callback that is running, or "none"

Init == conn = Fresh /\ event = "none"

(* A call of the program, in or between callbacks.                          *)
Called ==
    /\ conn.phase # "gone"
    /\ conn' \in {Connecting(conn), Disconnecting(conn), Sending(conn), Gone} \cup Deleting(conn)
    /\ UNCHANGED event

(* The callbacks come one by one.                                           *)
Callback ==
    /\ event = "none"
    /\ \E e \in Told(conn) \cup ToldTimeout(conn) : conn' = e.next /\ event' = e.type

Returns == event # "none" /\ event' = "none" /\ UNCHANGED conn

(* Nothing is noticed of the connection while a callback runs.              *)
Loses == event = "none" /\ conn' \in Losing(conn) /\ UNCHANGED event

(* An idle connection is closed, and transactions that wait reopen it.      *)
IdleTimeout ==
    event = "none" /\ conn.phase = "up" /\ conn' = [conn EXCEPT !.phase = "leaving"] /\ UNCHANGED event
Reconnect ==
    conn.phase = "idle" /\ conn.late > 0 /\ conn' = [conn EXCEPT !.phase = "trying"] /\ UNCHANGED event

Next == Called \/ Callback \/ Returns \/ Loses \/ IdleTimeout \/ Reconnect

Spec == Init /\ [][Next]_<<conn, event>>
=============================================================================
