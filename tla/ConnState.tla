----------------------------- MODULE ConnState -----------------------------
(***************************************************************************)
(* One connection as a single-threaded program sees it: where it stands,   *)
(* how many of the transactions handed to LM_trans_send still wait for     *)
(* their event, and whether the library's own PING, which was cut off, is  *)
(* still to be told about.  A program that uses the library is modelled on *)
(* these operators; CallbackPromise makes a specification of them, which   *)
(* MonetraConn is shown to implement.                                      *)
(***************************************************************************)
EXTENDS Naturals

(* idle: no attempt; trying: CONN_CONNECTED is still to come; leaving: a    *)
(* disconnect is in progress; disconnected and failed: lost, the closing    *)
(* event is due; gone: destroyed.                                           *)
Phases == {"idle", "trying", "up", "leaving", "disconnected", "failed", "gone"}
Lost == {"disconnected", "failed"}

(* owed: submitted while up, so one of DONE and ERROR must follow; late:    *)
(* submitted at any other time, kept for the next connection.               *)
Conn(phase, owed, late) == [phase |-> phase, owed |-> owed, late |-> late, ping |-> FALSE]
Fresh == Conn("idle", 0, 0)
Gone  == Conn("gone", 0, 0)

-----------------------------------------------------------------------------
(* What the program does to a connection.                                  *)

Connecting(c) == IF c.phase = "idle" THEN [c EXCEPT !.phase = "trying"] ELSE c

Disconnecting(c) == IF c.phase = "up" THEN [c EXCEPT !.phase = "leaving"] ELSE c

SendingAll(c, n) == IF c.phase = "up" THEN [c EXCEPT !.owed = @ + n] ELSE [c EXCEPT !.late = @ + n]
Sending(c) == SendingAll(c, 1)

(* Deleting a transaction that still waits; not while its event is due.     *)
Deleting(c) ==
    {n \in {[c EXCEPT !.owed = @ - 1], [c EXCEPT !.late = @ - 1]} :
        /\ c.phase \notin Lost \cup {"gone"}
        /\ n.owed \in Nat /\ n.late \in Nat}

-----------------------------------------------------------------------------
(* What the library tells, as pairs of the event and the connection after  *)
(* it.                                                                     *)

Event(type, next) == [type |-> type, next |-> next]

(* The connection is up, or was: it may be lost before this is told.        *)
ToldConnected(c) ==
    {Event("CONN_CONNECTED", Conn(phase, c.owed + c.late, 0)) : phase \in {"up"} \cup Lost}

ToldDone(c)  == Event("TRANS_DONE", [c EXCEPT !.owed = @ - 1])
ToldError(c) == Event("TRANS_ERROR", [c EXCEPT !.owed = @ - 1])

(* The PING is on the pending queue like any transaction, so an attempt that*)
(* fails before its answer tells a TRANS_ERROR the program never asked for. *)
ToldPing(c) == Event("TRANS_ERROR", [c EXCEPT !.ping = FALSE])

(* The transaction remains submitted.                                       *)
ToldNoConnect(c) == Event("TRANS_NOCONNECT", c)

(* The closing event comes last; the library may already be reconnecting.   *)
ToldClosed(c) ==
    {Event(IF c.phase = "failed" THEN "CONN_ERROR" ELSE "CONN_DISCONNECT",
           [c EXCEPT !.phase = phase]) : phase \in {"idle", "trying"}}

Told(c) ==
    UNION {IF c.phase = "trying" THEN ToldConnected(c) ELSE {},
           IF c.owed > 0 /\ c.phase \in {"up", "leaving"} \cup Lost THEN {ToldDone(c)} ELSE {},
           IF c.owed > 0 /\ c.phase \in Lost THEN {ToldError(c)} ELSE {},
           IF c.ping /\ c.phase \in Lost THEN {ToldPing(c)} ELSE {},
           IF c.late > 0 /\ c.phase \in Lost THEN {ToldNoConnect(c)} ELSE {},
           IF c.owed = 0 /\ ~c.ping /\ c.phase \in Lost THEN ToldClosed(c) ELSE {}}

(* With a timeout set (LM_trans_set_timeout): the transaction stays owed.   *)
ToldTimeout(c) ==
    IF c.owed > 0 /\ c.phase \in {"up", "leaving"} THEN {Event("TRANS_TIMEOUT", c)} ELSE {}

(* What happens to a connection without being told at once: it is lost, for *)
(* a reason that depends on whether a disconnect was asked for.  While it   *)
(* is being established its PING may be on the way.                         *)
LostAs(c) == {[c EXCEPT !.phase = p] : p \in Lost}

Losing(c) ==
    CASE c.phase = "trying"  -> LostAs(c) \cup {[n EXCEPT !.ping = TRUE] : n \in LostAs(c)}
      [] c.phase = "up"      -> LostAs(c)
      [] c.phase = "leaving" -> {[c EXCEPT !.phase = "disconnected"]}
      [] OTHER               -> {}
=============================================================================
