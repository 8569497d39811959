--------------------------- MODULE ConnStateProofs ---------------------------
(***************************************************************************)
(* What the operators of ConnState return, for the proofs about the        *)
(* programs that are modelled on them.                                     *)
(***************************************************************************)
EXTENDS ConnState, TLAPS

ConnRecords == [phase : Phases, owed : Nat, late : Nat, ping : BOOLEAN]

-----------------------------------------------------------------------------
(* What an event says of the connection it is told for.                    *)

(* What each callback says about the connection it comes for.               *)
LEMMA ToldTypes ==
    ASSUME NEW c \in ConnRecords, NEW type, NEW next, Event(type, next) \in Told(c)
    PROVE  /\ next \in ConnRecords
           /\ type = "CONN_CONNECTED" =>
                 /\ c.phase = "trying"
                 /\ next.phase \in {"up"} \cup Lost /\ next.owed = c.owed + c.late /\ next.late = 0
           /\ type \in {"CONN_DISCONNECT", "CONN_ERROR"} => c.phase \in Lost /\ c.owed = 0
           /\ type \in {"TRANS_DONE", "TRANS_ERROR"} =>
                 /\ c.phase # "gone" /\ next.phase = c.phase /\ next.late = c.late
                 /\ \/ c.owed > 0 /\ next.owed = c.owed - 1 /\ next.ping = c.ping
                    \/ type = "TRANS_ERROR" /\ c.ping /\ ~next.ping /\ next.owed = c.owed
           /\ type = "TRANS_ERROR" => c.phase \in Lost
           /\ type = "TRANS_NOCONNECT" => next = c /\ c.late > 0 /\ c.phase \in Lost
<1>1. /\ c.phase \in Phases /\ c.owed \in Nat /\ c.late \in Nat /\ c.ping \in BOOLEAN
      /\ c = [phase |-> c.phase, owed |-> c.owed, late |-> c.late, ping |-> c.ping]
    BY DEF ConnRecords
<1>2. Event(type, next).type = type /\ Event(type, next).next = next
    BY DEF Event
<1>3. CASE c.phase = "trying" /\ Event(type, next) \in ToldConnected(c)
    <2>1. PICK phase \in {"up"} \cup Lost :
              Event(type, next) = Event("CONN_CONNECTED", Conn(phase, c.owed + c.late, 0))
        BY <1>3 DEF ToldConnected
    <2>2. type = "CONN_CONNECTED" /\ next = [phase |-> phase, owed |-> c.owed + c.late, late |-> 0, ping |-> FALSE]
        BY <2>1 DEF Event, Conn
    <2> QED BY <1>1, <1>3, <2>2 DEF ConnRecords, Phases, Lost
<1>4. CASE /\ c.owed > 0 /\ c.phase \in {"up", "leaving"} \cup Lost
               /\ \/ Event(type, next) = ToldDone(c)
                  \/ c.phase \in Lost /\ Event(type, next) = ToldError(c)
    <2>1. /\ type = "TRANS_DONE" \/ (type = "TRANS_ERROR" /\ c.phase \in Lost)
          /\ next = [c EXCEPT !.owed = @ - 1]
        BY <1>4 DEF Event, ToldDone, ToldError
    <2>2. next = [phase |-> c.phase, owed |-> c.owed - 1, late |-> c.late, ping |-> c.ping]
        BY <1>1, <2>1
    <2> QED BY <1>1, <1>4, <2>1, <2>2 DEF ConnRecords, Lost
<1>7. CASE c.ping /\ c.phase \in Lost /\ Event(type, next) = ToldPing(c)
    <2>1. type = "TRANS_ERROR" /\ next = [phase |-> c.phase, owed |-> c.owed, late |-> c.late, ping |-> FALSE]
        BY <1>1, <1>7 DEF Event, ToldPing
    <2> QED BY <1>1, <1>7, <2>1 DEF ConnRecords, Lost
<1>5. CASE c.late > 0 /\ c.phase \in Lost /\ Event(type, next) = ToldNoConnect(c)
    <2>1. type = "TRANS_NOCONNECT" /\ next = c
        BY <1>5 DEF Event, ToldNoConnect
    <2> QED BY <1>5, <2>1
<1>6. CASE c.owed = 0 /\ ~c.ping /\ c.phase \in Lost /\ Event(type, next) \in ToldClosed(c)
    <2>1. PICK phase \in {"idle", "trying"} :
              Event(type, next) = Event(IF c.phase = "failed" THEN "CONN_ERROR" ELSE "CONN_DISCONNECT",
                                        [c EXCEPT !.phase = phase])
        BY <1>6 DEF ToldClosed
    <2>2. /\ type \in {"CONN_DISCONNECT", "CONN_ERROR"}
          /\ next = [phase |-> phase, owed |-> c.owed, late |-> c.late, ping |-> c.ping]
        BY <1>1, <2>1 DEF Event
    <2> QED BY <1>1, <1>6, <2>2 DEF ConnRecords, Phases
<1> QED BY <1>3, <1>4, <1>5, <1>6, <1>7 DEF Told

(* Requests sent on a connection that is up are owed, others wait.          *)
LEMMA SendingAllTypes ==
    ASSUME NEW c \in ConnRecords, NEW n \in Nat
    PROVE  /\ SendingAll(c, n) \in ConnRecords
           /\ SendingAll(c, n).phase = c.phase
           /\ c.phase = "up" => SendingAll(c, n).owed = c.owed + n /\ SendingAll(c, n).late = c.late
           /\ c.phase # "up" => SendingAll(c, n).owed = c.owed /\ SendingAll(c, n).late = c.late + n
BY DEF SendingAll, ConnRecords

(* The same for one request.                                                *)
LEMMA SendingTypes ==
    ASSUME NEW c \in ConnRecords
    PROVE  /\ Sending(c) \in ConnRecords
           /\ Sending(c).phase = c.phase
           /\ c.phase = "up" => Sending(c).owed = c.owed + 1 /\ Sending(c).late = c.late
           /\ c.phase # "up" => Sending(c).owed = c.owed /\ Sending(c).late = c.late + 1
BY SendingAllTypes DEF Sending

(* A connection is lost from where it was; nothing is told by that.         *)
LEMMA LosingTypes ==
    ASSUME NEW c \in ConnRecords, NEW next \in Losing(c)
    PROVE  /\ next \in ConnRecords
           /\ c.phase \in {"trying", "up", "leaving"} /\ next.phase \in Lost
           /\ next.owed = c.owed /\ next.late = c.late
<1>1. c.ping \in BOOLEAN /\ c = [phase |-> c.phase, owed |-> c.owed, late |-> c.late, ping |-> c.ping]
    BY DEF ConnRecords
<1>2. c.phase \in {"trying", "up", "leaving"}
    BY DEF Losing
<1>3. \E phase \in Lost, b \in BOOLEAN :
          next = [phase |-> phase, owed |-> c.owed, late |-> c.late, ping |-> b]
    <2>1. CASE c.phase = "trying"
        <3>1. Losing(c) = LostAs(c) \cup {[n EXCEPT !.ping = TRUE] : n \in LostAs(c)}
            BY <2>1 DEF Losing
        <3>2. PICK n \in LostAs(c) : next = n \/ next = [n EXCEPT !.ping = TRUE]
            BY <3>1
        <3>3. PICK p \in Lost : n = [phase |-> p, owed |-> c.owed, late |-> c.late, ping |-> c.ping]
            BY <1>1 DEF LostAs
        <3> QED BY <1>1, <3>2, <3>3
    <2>2. CASE c.phase = "up"
        <3>1. Losing(c) = LostAs(c)
            BY <2>2 DEF Losing
        <3>2. PICK p \in Lost : next = [c EXCEPT !.phase = p]
            BY <3>1 DEF LostAs
        <3> QED BY <1>1, <3>2
    <2>3. CASE c.phase = "leaving"
        <3>1. Losing(c) = {[c EXCEPT !.phase = "disconnected"]}
            BY <2>3 DEF Losing
        <3>2. next = [c EXCEPT !.phase = "disconnected"] /\ "disconnected" \in Lost
            BY <3>1 DEF Lost
        <3> QED BY <1>1, <3>2
    <2> QED BY <1>2, <2>1, <2>2, <2>3
<1> QED BY <1>2, <1>3 DEF ConnRecords, Phases, Lost
=============================================================================
