--------------------------- MODULE ConnLoadProofs ---------------------------
(***************************************************************************)
(* The connection load generator, for any number of connections, any       *)
(* options and any order of events: one transaction at a time on each      *)
(* connection, no delay left behind by its own disconnects, and a pool     *)
(* that is kept.                                                           *)
(***************************************************************************)
EXTENDS ConnLoad, ConnStateProofs, FiniteSetTheorems, TLAPS

LoadTypeOK ==
    /\ config \in [{"c", "t", "d"} -> Nat]
    /\ conn \in [Slots -> ConnRecords]
    /\ track_conns \subseteq Slots /\ hungup \subseteq Slots
    /\ num_txns \in [Slots -> Nat]
    /\ timers \in [Slots -> Nat]

(* A connection c at s with n transactions counted and k delays running,    *)
(* where t transactions are allowed and the connections in H were closed by *)
(* the other side.  A delay is followed by a transaction, so one is still   *)
(* allowed; before the connection is up and once it is being closed there   *)
(* is neither.                                                              *)
Fine(s, H, c, n, k, t) ==
    /\ c.phase \in {"idle", "trying", "up", "leaving"} \cup Lost
    /\ c.owed + c.late + k <= 1
    /\ t > 0 => n <= t /\ (k > 0 => n < t)
    /\ c.phase \in {"idle", "trying"} => c.owed = 0 /\ c.late = 0 /\ k = 0 /\ n = 0
    /\ c.phase = "leaving" => c.owed = 0 /\ c.late = 0 /\ k = 0
    /\ c.phase \in Lost /\ (c.owed > 0 \/ k > 0) => s \in H

FineAt(s) == Fine(s, hungup, conn[s], num_txns[s], timers[s], config["t"])
UnusedAt(s) == num_txns[s] = 0 /\ (timers[s] > 0 => s \in hungup)

SlotInv == \A s \in Slots : IF s \in track_conns THEN FineAt(s) ELSE UnusedAt(s)

LoadInv ==
    /\ LoadTypeOK
    /\ running = "options" => track_conns = {} /\ \A s \in Slots : timers[s] = 0
    /\ SlotInv

-----------------------------------------------------------------------------
(* One connection, by what happens to it.                                  *)

(* CONN_CONNECTED, and the first transaction that goes out in its callback. *)
LEMMA FineConnected ==
    ASSUME NEW c \in ConnRecords, NEW n \in Nat, NEW k \in Nat, NEW s, NEW H,
           config \in [{"c", "t", "d"} -> Nat], Fine(s, H, c, n, k, config["t"]),
           NEW next, Event("CONN_CONNECTED", next) \in Told(c)
    PROVE  Fine(s, H, Sending(next), Counted(n), k, config["t"]) /\ Counted(n) \in Nat
<1>1. c.owed = 0 /\ c.late = 0 /\ k = 0 /\ n = 0
    BY ToldTypes DEF Fine
<1>2. /\ next \in ConnRecords /\ next.phase \in {"up"} \cup Lost
      /\ next.owed = 0 /\ next.late = 0
    BY <1>1, ToldTypes
<1>3. Sending(next).phase = next.phase /\ Sending(next).owed + Sending(next).late = 1
      /\ (next.phase # "up" => Sending(next).owed = 0)
    BY <1>2, SendingTypes
<1>4. config["t"] \in Nat /\ Counted(n) = 1
    BY <1>1 DEF Counted
<1> QED BY <1>1, <1>2, <1>3, <1>4 DEF Fine, Lost

(* A transaction is sent in place of one that is answered or of a delay     *)
(* that is over.                                                            *)
LEMMA FineEnqueued ==
    ASSUME NEW c \in ConnRecords, NEW n \in Nat, NEW k \in Nat, NEW s, NEW H,
           config \in [{"c", "t", "d"} -> Nat],
           c.phase \in {"up"} \cup Lost,
           c.owed = 0 /\ c.late = 0 /\ k = 0,
           config["t"] > 0 => n < config["t"]
    PROVE  Fine(s, H, Sending(c), Counted(n), k, config["t"]) /\ Counted(n) \in Nat
<1>1. Sending(c).phase = c.phase /\ Sending(c).owed + Sending(c).late = 1
      /\ (c.phase # "up" => Sending(c).owed = 0)
    BY SendingTypes
<1>2. config["t"] \in Nat /\ Counted(n) \in Nat /\ (config["t"] > 0 => Counted(n) <= config["t"])
    BY DEF Counted
<1> QED BY <1>1, <1>2 DEF Fine, Lost

(* A connection that is lost keeps what it owes; hungup records the cause.  *)
LEMMA FineLost ==
    ASSUME NEW c \in ConnRecords, NEW n \in Nat, NEW k \in Nat, NEW s, NEW H, NEW t \in Nat,
           Fine(s, H, c, n, k, t),
           NEW next \in Losing(c)
    PROVE  next \in ConnRecords /\ Fine(s, IF c.phase = "up" THEN H \cup {s} ELSE H, next, n, k, t)
<1>3. /\ next \in ConnRecords
      /\ c.phase \in {"trying", "up", "leaving"}
      /\ next.phase \in Lost /\ next.owed = c.owed /\ next.late = c.late
    BY LosingTypes
<1>4. c.owed + c.late + k <= 1 /\ (t > 0 => n <= t /\ (k > 0 => n < t))
    BY DEF Fine
<1>5. CASE c.phase = "up"
    BY <1>3, <1>4, <1>5 DEF Fine, Lost
<1>6. CASE c.phase \in {"trying", "leaving"}
    <2>1. c.owed = 0 /\ c.late = 0 /\ k = 0
        BY <1>6 DEF Fine
    <2> QED BY <1>3, <1>4, <2>1 DEF Fine, Lost
<1> QED BY <1>3, <1>5, <1>6

(* A connection that has just been made has nothing on the way.             *)
LEMMA FineCreated ==
    ASSUME NEW s, NEW H, NEW t \in Nat, NEW c \in Created
    PROVE  c \in ConnRecords /\ Fine(s, H, c, 0, 0, t)
<1>1. PICK phase \in {"idle", "trying"} : c = [phase |-> phase, owed |-> 0, late |-> 0, ping |-> FALSE]
    BY DEF Created, Connecting, Fresh, Conn
<1> QED BY <1>1 DEF Fine, ConnRecords, Phases, Lost

(* A new connection takes an address that no timer points to.               *)
LEMMA NewIsFree == ASSUME Free # {} PROVE NewSlot \in Slots /\ NewSlot \notin track_conns /\ timers[NewSlot] = 0
BY DEF Free, NewSlot

-----------------------------------------------------------------------------
(* The steps.                                                              *)

SlotFine(s) == IF s \in track_conns THEN FineAt(s) ELSE UnusedAt(s)

(* A slot that a step leaves alone.                                         *)
LEMMA Elsewhere ==
    ASSUME NEW r \in Slots, SlotInv,
           config' = config, conn'[r] = conn[r], num_txns'[r] = num_txns[r],
           timers'[r] = timers[r], r \in hungup' <=> r \in hungup,
           r \in track_conns' <=> r \in track_conns
    PROVE  SlotFine(r)'
<1>1. SlotFine(r)
    BY DEF SlotInv, SlotFine
<1>2. CASE r \in track_conns
    <2>1. Fine(r, hungup, conn[r], num_txns[r], timers[r], config["t"])
        BY <1>1, <1>2 DEF SlotFine, FineAt
    <2>2. Fine(r, hungup', conn'[r], num_txns'[r], timers'[r], config'["t"])
        BY <2>1 DEF Fine
    <2> QED BY <1>2, <2>2 DEF SlotFine, FineAt
<1>3. CASE r \notin track_conns
    BY <1>1, <1>3 DEF SlotFine, UnusedAt
<1> QED BY <1>2, <1>3

(* The invariant of the slots, slot by slot, after a step.                  *)
LEMMA AllSlots == SlotInv' <=> \A r \in Slots : SlotFine(r)'
BY DEF SlotInv, SlotFine

(* The callback for CONN_CONNECTED, which may also enlarge the pool.        *)
LEMMA StepConnected ==
    ASSUME LoadInv, NEW s \in Slots, NEW next, OnConnected(s, next)
    PROVE  LoadInv'
<1> DEFINE c == Sending(next)
           n == Counted(num_txns[s])
<1>1. /\ s \in track_conns /\ running = "running"
      /\ Event("CONN_CONNECTED", next) \in Told(conn[s])
      /\ conn[s] \in ConnRecords /\ num_txns[s] \in Nat /\ timers[s] \in Nat
      /\ config["t"] \in Nat
    BY DEF OnConnected, Callback, LoadInv, LoadTypeOK
<1>2. FineAt(s)
    BY <1>1 DEF LoadInv, SlotInv
<1>3. Fine(s, hungup, c, n, timers[s], config["t"]) /\ n \in Nat
    BY <1>1, <1>2, FineConnected DEF FineAt, LoadInv, LoadTypeOK
<1>4. c \in ConnRecords
    BY <1>1, ToldTypes, SendingTypes
<1>5. num_txns' = [num_txns EXCEPT ![s] = n] /\ UNCHANGED <<running, config, timers>>
    BY DEF OnConnected
<1>6. CASE WantsMore
    <2>0. PICK made \in Created : conn' = [conn EXCEPT ![s] = c, ![NewSlot] = made]
        BY <1>6 DEF OnConnected, Enqueued
    <2>1. /\ Free # {}
          /\ conn' = [conn EXCEPT ![s] = c, ![NewSlot] = made]
          /\ track_conns' = track_conns \cup {NewSlot}
          /\ hungup' = hungup \ {NewSlot}
        BY <1>6, <2>0 DEF OnConnected, Enqueued
    <2>2. PICK new \in Slots :
              new = NewSlot /\ new \notin track_conns /\ timers[new] = 0 /\ new # s
        BY <1>1, <2>1, NewIsFree
    <2>3. LoadTypeOK'
        BY <1>3, <1>4, <1>5, <2>1, <2>2, FineCreated, <1>1 DEF LoadInv, LoadTypeOK
    <2>4. SlotFine(s)'
        <3>1. conn'[s] = c /\ num_txns'[s] = n /\ timers'[s] = timers[s]
              /\ (s \in hungup' <=> s \in hungup) /\ s \in track_conns' /\ config' = config
            BY <1>1, <1>5, <2>1, <2>2 DEF LoadInv, LoadTypeOK
        <3>2. Fine(s, hungup', conn'[s], num_txns'[s], timers'[s], config'["t"])
            BY <1>3, <3>1 DEF Fine
        <3> QED BY <3>1, <3>2 DEF SlotFine, FineAt
    <2>5. SlotFine(new)'
        <3>1. /\ conn'[new] = made /\ num_txns'[new] = 0 /\ timers'[new] = 0
              /\ new \in track_conns' /\ config' = config
            BY <1>5, <2>1, <2>2 DEF LoadInv, LoadTypeOK, SlotInv, UnusedAt
        <3>2. Fine(new, hungup', conn'[new], num_txns'[new], timers'[new],
                   config'["t"])
            BY <1>1, <3>1, FineCreated
        <3> QED BY <3>1, <3>2 DEF SlotFine, FineAt
    <2>6. ASSUME NEW r \in Slots \ {s, new}
          PROVE  SlotFine(r)'
        BY <1>5, <2>1, <2>2, Elsewhere DEF LoadInv, LoadTypeOK
    <2> QED BY <1>1, <1>5, <2>3, <2>4, <2>5, <2>6, AllSlots DEF LoadInv
<1>7. CASE ~WantsMore
    <2>1. conn' = [conn EXCEPT ![s] = c] /\ UNCHANGED <<track_conns, hungup>>
        BY <1>7 DEF OnConnected, Enqueued
    <2>2. LoadTypeOK'
        BY <1>3, <1>4, <1>5, <2>1 DEF LoadInv, LoadTypeOK
    <2>3. SlotFine(s)'
        <3>1. conn'[s] = c /\ num_txns'[s] = n
            BY <1>5, <2>1 DEF LoadInv, LoadTypeOK
        <3> QED BY <1>1, <1>3, <1>5, <2>1, <3>1 DEF SlotFine, FineAt
    <2>4. ASSUME NEW r \in Slots \ {s}
          PROVE  SlotFine(r)'
        BY <1>5, <2>1, Elsewhere DEF LoadInv, LoadTypeOK
    <2> QED BY <1>1, <1>5, <2>2, <2>3, <2>4, AllSlots DEF LoadInv
<1> QED BY <1>6, <1>7

(* The callback for CONN_DISCONNECT replaces the connection by a new one.   *)
LEMMA StepDisconnect ==
    ASSUME LoadInv, NEW s \in Slots, NEW next, OnDisconnect(s, next)
    PROVE  LoadInv'
<1>0. PICK made \in Created : conn' = [conn EXCEPT ![s] = Gone, ![NewSlot] = made]
    BY DEF OnDisconnect
<1>1. /\ s \in track_conns /\ running = "running"
      /\ Event("CONN_DISCONNECT", next) \in Told(conn[s])
      /\ conn[s] \in ConnRecords /\ config["t"] \in Nat
      /\ Free # {}
      /\ conn' = [conn EXCEPT ![s] = Gone, ![NewSlot] = made]
      /\ track_conns' = (track_conns \ {s}) \cup {NewSlot}
      /\ num_txns' = [num_txns EXCEPT ![s] = 0]
      /\ hungup' = hungup \ {NewSlot}
      /\ UNCHANGED <<running, config, timers>>
    BY <1>0 DEF OnDisconnect, Callback, Replaced, LoadInv, LoadTypeOK
<1>2. PICK new \in Slots :
          new = NewSlot /\ new \notin track_conns /\ timers[new] = 0 /\ new # s
    BY <1>1, NewIsFree
<1>3. LoadTypeOK'
    <2>1. Gone \in ConnRecords
        BY DEF Gone, Conn, ConnRecords, Phases
    <2> QED BY <1>1, <1>2, <2>1, FineCreated DEF LoadInv, LoadTypeOK
<1>4. SlotFine(s)'
    <2>1. conn[s].phase \in Lost
        BY <1>1, ToldTypes
    <2>2. timers[s] > 0 => s \in hungup
        BY <1>1, <2>1 DEF LoadInv, SlotInv, FineAt, Fine
    <2> QED BY <1>1, <1>2, <2>2 DEF SlotFine, UnusedAt, LoadInv, LoadTypeOK
<1>5. SlotFine(new)'
    <2>1. /\ conn'[new] = made /\ num_txns'[new] = 0 /\ timers'[new] = 0
          /\ new \in track_conns' /\ config' = config
        BY <1>1, <1>2 DEF LoadInv, LoadTypeOK, SlotInv, UnusedAt
    <2>2. Fine(new, hungup', conn'[new], num_txns'[new], timers'[new],
                   config'["t"])
        BY <1>1, <2>1, FineCreated
    <2> QED BY <2>1, <2>2 DEF SlotFine, FineAt
<1>6. ASSUME NEW r \in Slots \ {s, new}
      PROVE  SlotFine(r)'
    BY <1>1, <1>2, Elsewhere DEF LoadInv, LoadTypeOK
<1> QED BY <1>1, <1>3, <1>4, <1>5, <1>6, AllSlots DEF LoadInv

(* An answer: the last one starts the disconnect, after any other one there *)
(* is a delay or the next transaction.                                      *)
LEMMA FineDone ==
    ASSUME LoadInv, NEW s \in Slots, NEW next, OnTransDone(s, next)
    PROVE  /\ conn'[s] \in ConnRecords /\ num_txns'[s] \in Nat /\ timers'[s] \in Nat
           /\ Fine(s, hungup, conn'[s], num_txns'[s], timers'[s], config["t"])
<1> DEFINE t == config["t"]
           n == num_txns[s]
<1>1. /\ s \in track_conns
      /\ Event("TRANS_DONE", next) \in Told(conn[s])
      /\ config \in [{"c", "t", "d"} -> Nat] /\ t \in Nat
      /\ conn[s] \in ConnRecords /\ n \in Nat /\ timers[s] \in Nat
    BY DEF OnTransDone, Callback, LoadInv, LoadTypeOK
<1>2. Fine(s, hungup, conn[s], n, timers[s], t)
    BY <1>1 DEF LoadInv, SlotInv, FineAt
<1>3. /\ next \in ConnRecords /\ next.phase = conn[s].phase
      /\ conn[s].owed > 0
      /\ next.owed = conn[s].owed - 1 /\ next.late = conn[s].late
    BY <1>1, ToldTypes
<1>4. /\ timers[s] = 0 /\ next.owed = 0 /\ next.late = 0
      /\ next.phase \in {"up"} \cup Lost
      /\ next.phase \in Lost => s \in hungup
      /\ t > 0 => n <= t
    BY <1>1, <1>2, <1>3 DEF Fine, ConnRecords
<1>5. CASE IsLast(s)
    <2>1. conn'[s] = Disconnecting(next) /\ num_txns'[s] = n /\ timers'[s] = timers[s]
        BY <1>5 DEF OnTransDone, Delays, LoadInv, LoadTypeOK
    <2>2. /\ Disconnecting(next) \in ConnRecords
          /\ Disconnecting(next).phase \in {"leaving"} \cup Lost
          /\ Disconnecting(next).owed = 0 /\ Disconnecting(next).late = 0
        BY <1>3, <1>4 DEF Disconnecting, ConnRecords, Phases, Lost
    <2> QED BY <1>1, <1>4, <2>1, <2>2 DEF Fine, Lost
<1>6. CASE Delays(s)
    <2>1. conn'[s] = next /\ num_txns'[s] = n /\ timers'[s] = timers[s] + 1 /\ n # t
        BY <1>6 DEF OnTransDone, Delays, IsLast, LoadInv, LoadTypeOK
    <2> QED BY <1>1, <1>3, <1>4, <2>1 DEF Fine, Lost
<1>7. CASE ~IsLast(s) /\ ~Delays(s)
    <2>1. conn'[s] = Sending(next) /\ num_txns'[s] = Counted(n) /\ timers'[s] = timers[s] /\ n # t
        BY <1>7 DEF OnTransDone, Enqueued, IsLast, LoadInv, LoadTypeOK
    <2>2. Fine(s, hungup, Sending(next), Counted(n), timers[s], t) /\ Counted(n) \in Nat
        BY <1>1, <1>3, <1>4, <2>1, FineEnqueued, SMTT(30)
    <2> QED BY <1>1, <1>3, <2>1, <2>2, SendingTypes
<1> QED BY <1>5, <1>6, <1>7

(* A step that touches one connection in use, and nothing else.             *)
LEMMA StepOne ==
    ASSUME LoadInv, NEW s \in Slots, s \in track_conns, running = "running",
           NEW k, NEW n, NEW c,
           conn' = [conn EXCEPT ![s] = c] \/ (conn' = conn /\ c = conn[s]),
           num_txns' = [num_txns EXCEPT ![s] = n] \/ (num_txns' = num_txns /\ n = num_txns[s]),
           timers' = [timers EXCEPT ![s] = k] \/ (timers' = timers /\ k = timers[s]),
           hungup' = hungup \/ hungup' = hungup \cup {s},
           c \in ConnRecords, n \in Nat, k \in Nat,
           Fine(s, hungup', c, n, k, config["t"]),
           UNCHANGED <<running, config, track_conns>>
    PROVE  LoadInv'
<1>1. LoadTypeOK'
    BY DEF LoadInv, LoadTypeOK
<1>2. SlotFine(s)'
    <2>1. conn'[s] = c /\ num_txns'[s] = n /\ timers'[s] = k
        BY DEF LoadInv, LoadTypeOK
    <2> QED BY <2>1 DEF SlotFine, FineAt
<1>3. ASSUME NEW r \in Slots \ {s}
      PROVE  SlotFine(r)'
    <2>1. conn'[r] = conn[r] /\ num_txns'[r] = num_txns[r] /\ timers'[r] = timers[r]
          /\ (r \in hungup' <=> r \in hungup)
        BY DEF LoadInv, LoadTypeOK
    <2> QED BY <2>1, Elsewhere DEF LoadInv
<1> QED BY <1>1, <1>2, <1>3, AllSlots DEF LoadInv

(* The callback for TRANS_DONE sends, delays or disconnects.                *)
LEMMA StepDone ==
    ASSUME LoadInv, NEW s \in Slots, NEW next, OnTransDone(s, next)
    PROVE  LoadInv'
<1>1. /\ s \in track_conns /\ running = "running"
      /\ \E c : conn' = [conn EXCEPT ![s] = c]
      /\ num_txns' = num_txns \/ \E n : num_txns' = [num_txns EXCEPT ![s] = n]
      /\ timers' = timers \/ \E k : timers' = [timers EXCEPT ![s] = k]
      /\ UNCHANGED <<running, config, track_conns, hungup>>
    BY DEF OnTransDone, Callback
<1>2. /\ conn' = [conn EXCEPT ![s] = conn'[s]]
      /\ num_txns' = [num_txns EXCEPT ![s] = num_txns'[s]]
      /\ timers' = [timers EXCEPT ![s] = timers'[s]]
    BY <1>1 DEF LoadInv, LoadTypeOK
<1>3. PICK c, n, k : c = conn'[s] /\ n = num_txns'[s] /\ k = timers'[s]
    OBVIOUS
<1>4. Fine(s, hungup', c, n, k, config["t"]) /\ c \in ConnRecords /\ n \in Nat /\ k \in Nat
    BY <1>1, <1>3, FineDone
<1> QED BY <1>1, <1>2, <1>3, <1>4, StepOne

(* TRANS_ERROR and TRANS_NOCONNECT.                                         *)
LEMMA StepTransLost ==
    ASSUME LoadInv, NEW s \in Slots, NEW next, OnTransLost(s, next)
    PROVE  LoadInv'
<1>1. /\ s \in track_conns /\ running = "running"
      /\ \/ Event("TRANS_ERROR", next) \in Told(conn[s])
         \/ Event("TRANS_NOCONNECT", next) \in Told(conn[s])
      /\ conn' = [conn EXCEPT ![s] = next]
      /\ UNCHANGED <<running, config, track_conns, num_txns, timers, hungup>>
    BY DEF OnTransLost, Callback
<1>2. /\ conn[s] \in ConnRecords /\ num_txns[s] \in Nat /\ timers[s] \in Nat
      /\ config["t"] \in Nat
    BY DEF LoadInv, LoadTypeOK
<1>3. Fine(s, hungup, conn[s], num_txns[s], timers[s], config["t"])
    BY <1>1 DEF LoadInv, SlotInv, FineAt
<1>4. next \in ConnRecords /\ next.phase = conn[s].phase
      /\ next.owed <= conn[s].owed /\ next.late = conn[s].late
    BY <1>1, <1>2, ToldTypes DEF ConnRecords
<1>5. Fine(s, hungup, next, num_txns[s], timers[s], config["t"])
    BY <1>2, <1>3, <1>4 DEF Fine, ConnRecords, Lost
<1> QED BY <1>1, <1>2, <1>4, <1>5, StepOne

(* trans_delay_cb sends the transaction that was put off.                   *)
LEMMA StepDelayOver ==
    ASSUME LoadInv, NEW s \in Slots, DelayOver(s)
    PROVE  LoadInv'
<1>1. timers[s] > 0 /\ running = "running"
      /\ UNCHANGED <<config, track_conns, hungup>>
    BY DEF DelayOver
<1>2. CASE s \in track_conns
    <2>1. /\ conn' = [conn EXCEPT ![s] = Sending(conn[s])]
          /\ timers' = [timers EXCEPT ![s] = timers[s] - 1]
          /\ num_txns' = [num_txns EXCEPT ![s] = Counted(num_txns[s])]
          /\ UNCHANGED running
        BY <1>2 DEF DelayOver, Enqueued
    <2>2. /\ conn[s] \in ConnRecords /\ num_txns[s] \in Nat /\ timers[s] \in Nat
          /\ config \in [{"c", "t", "d"} -> Nat] /\ config["t"] \in Nat
        BY DEF LoadInv, LoadTypeOK
    <2>3. Fine(s, hungup, conn[s], num_txns[s], timers[s], config["t"])
        BY <1>2 DEF LoadInv, SlotInv, FineAt
    <2>4. /\ conn[s].phase \in {"up"} \cup Lost /\ conn[s].owed = 0 /\ conn[s].late = 0
          /\ timers[s] - 1 = 0
          /\ config["t"] > 0 => num_txns[s] < config["t"]
        <3>1. /\ conn[s].phase \in {"idle", "trying", "up", "leaving"} \cup Lost
              /\ conn[s].phase \notin {"idle", "trying", "leaving"}
              /\ config["t"] > 0 => num_txns[s] < config["t"]
              /\ conn[s].owed + conn[s].late + timers[s] <= 1
            BY <1>1, <2>2, <2>3 DEF Fine
        <3>2. conn[s].owed \in Nat /\ conn[s].late \in Nat
            BY <2>2 DEF ConnRecords
        <3> QED BY <1>1, <2>2, <3>1, <3>2
    <2>5. /\ Fine(s, hungup, Sending(conn[s]), Counted(num_txns[s]), timers[s] - 1, config["t"])
          /\ Counted(num_txns[s]) \in Nat
        BY <2>2, <2>4, FineEnqueued
    <2>6. Sending(conn[s]) \in ConnRecords /\ timers[s] - 1 \in Nat
        BY <2>2, <2>4, SendingTypes
    <2> QED BY <1>1, <1>2, <2>1, <2>5, <2>6, StepOne
<1>3. CASE s \notin track_conns
    <2>1. running' = "broken" /\ UNCHANGED <<conn, timers, num_txns>>
        BY <1>3 DEF DelayOver
    <2> QED BY <1>1, <2>1 DEF LoadInv, LoadTypeOK, SlotInv, FineAt, UnusedAt
<1> QED BY <1>2, <1>3

(* A connection fails or the server closes it.                              *)
LEMMA StepLoses ==
    ASSUME LoadInv, NEW s \in Slots, Loses(s)
    PROVE  LoadInv'
<1>1. PICK next \in Losing(conn[s]) :
          /\ conn' = [conn EXCEPT ![s] = next]
          /\ hungup' = IF conn[s].phase = "up" THEN hungup \cup {s} ELSE hungup
    BY DEF Loses
<1>2. /\ s \in track_conns /\ running = "running"
      /\ UNCHANGED <<running, config, track_conns, num_txns, timers>>
    BY DEF Loses
<1>3. /\ conn[s] \in ConnRecords /\ num_txns[s] \in Nat /\ timers[s] \in Nat
      /\ config["t"] \in Nat
    BY DEF LoadInv, LoadTypeOK
<1>4. Fine(s, hungup, conn[s], num_txns[s], timers[s], config["t"])
    BY <1>2 DEF LoadInv, SlotInv, FineAt
<1>5. next \in ConnRecords /\ Fine(s, hungup', next, num_txns[s], timers[s], config["t"])
    BY <1>1, <1>3, <1>4, FineLost
<1> QED BY <1>1, <1>2, <1>3, <1>5, StepOne

(* main makes the first connection.                                         *)
LEMMA StepStart ==
    ASSUME LoadInv, Start
    PROVE  LoadInv'
<1>0. /\ track_conns = {} /\ running = "options"
      /\ UNCHANGED <<config, num_txns, timers, hungup>>
      /\ \/ running' = "exited" /\ UNCHANGED <<conn, track_conns>>
         \/ /\ running' = "running" /\ track_conns' = {NewSlot}
            /\ \E made \in Created : conn' = [conn EXCEPT ![NewSlot] = made]
    BY DEF Start, LoadInv
<1>4. CASE running' = "exited" /\ UNCHANGED <<conn, track_conns>>
    BY <1>0, <1>4 DEF LoadInv, LoadTypeOK, SlotInv, FineAt, UnusedAt
<1> SUFFICES ASSUME NEW made \in Created, conn' = [conn EXCEPT ![NewSlot] = made],
                    running' = "running", track_conns' = {NewSlot}
             PROVE  LoadInv'
    BY <1>0, <1>4
<1>1. /\ track_conns = {} /\ running' = "running"
      /\ conn' = [conn EXCEPT ![NewSlot] = made] /\ track_conns' = {NewSlot}
      /\ UNCHANGED <<config, num_txns, timers, hungup>>
    BY <1>0
<1>2. CASE Free # {}
    <2>1. PICK new \in Slots : new = NewSlot /\ timers[new] = 0
        BY <1>2, NewIsFree
    <2>2. LoadTypeOK'
        BY <1>1, <2>1, FineCreated DEF LoadInv, LoadTypeOK
    <2>3. num_txns[new] = 0 /\ config["t"] \in Nat
        BY <1>1 DEF LoadInv, SlotInv, UnusedAt, LoadTypeOK
    <2>4. Fine(new, hungup, made, 0, 0, config["t"])
        BY <2>3, FineCreated
    <2>5. SlotFine(new)'
        BY <1>1, <2>1, <2>3, <2>4 DEF SlotFine, FineAt, LoadInv, LoadTypeOK
    <2>6. ASSUME NEW r \in Slots \ {new}
          PROVE  SlotFine(r)'
        BY <1>1, <2>1, Elsewhere DEF LoadInv, LoadTypeOK
    <2> QED BY <1>1, <2>2, <2>5, <2>6, AllSlots DEF LoadInv
<1>3. 1 \in Free
    <2>1. 1 \in Slots
        BY MaxSlotsAssumption DEF Slots
    <2> QED BY <1>1, <2>1 DEF Start, LoadInv, Free
<1> QED BY <1>2, <1>3

-----------------------------------------------------------------------------
(* LoadInv holds before any option is read.                                 *)
LEMMA InitLoad == Init => LoadInv
<1> SUFFICES ASSUME Init
             PROVE  LoadInv
    OBVIOUS
<1>1. Gone \in ConnRecords
    BY DEF Gone, Conn, ConnRecords, Phases
<1>2. LoadTypeOK
    BY <1>1, CountsAssumption DEF Init, LoadTypeOK
<1> QED BY <1>2 DEF Init, LoadInv, SlotInv, UnusedAt

(* Every step of the program keeps LoadInv.                                 *)
LEMMA NextLoad == LoadInv /\ [Next]_vars => LoadInv'
<1> SUFFICES ASSUME LoadInv, [Next]_vars
             PROVE  LoadInv'
    OBVIOUS
<1>1. ASSUME UNCHANGED <<config, conn, track_conns, num_txns, timers, hungup>>,
             running' = "options" => running = "options"
      PROVE  LoadInv'
    BY <1>1 DEF LoadInv, LoadTypeOK, SlotInv, FineAt, UnusedAt
<1>2. ASSUME NEW o \in Options, ReadOption(o)
      PROVE  LoadInv'
    <2>1. /\ running = "options" /\ track_conns = {}
          /\ config' = [config EXCEPT ![o.name] = o.value]
          /\ UNCHANGED <<running, conn, track_conns, num_txns, timers, hungup>>
        BY <1>2 DEF ReadOption, LoadInv
    <2>2. o.name \in {"c", "t", "d"} /\ o.value \in Nat
        BY CountsAssumption DEF Options
    <2>3. LoadTypeOK'
        BY <2>1, <2>2 DEF LoadInv, LoadTypeOK
    <2> QED BY <2>1, <2>3 DEF LoadInv, SlotInv, UnusedAt
<1>3. CASE RefuseOption
    BY <1>1, <1>3 DEF RefuseOption
<1>4. CASE Start
    BY <1>4, StepStart
<1>5. ASSUME NEW s \in Slots, TellsOf(s)
      PROVE  LoadInv'
    <2>1. PICK next : \/ OnConnected(s, next) \/ OnDisconnect(s, next) \/ OnConnError(s, next)
                      \/ OnTransDone(s, next) \/ OnTransLost(s, next)
        BY <1>5 DEF TellsOf
    <2>2. CASE OnConnError(s, next)
        BY <1>1, <2>2 DEF OnConnError
    <2> QED BY <2>1, <2>2, StepConnected, StepDisconnect, StepDone, StepTransLost
<1>6. ASSUME NEW s \in Slots, DelayOver(s) \/ Loses(s)
      PROVE  LoadInv'
    BY <1>6, StepDelayOver, StepLoses
<1>7. CASE Ended \/ WaitsForNothing \/ UNCHANGED vars
    BY <1>1, <1>7 DEF Ended, WaitsForNothing, vars
<1> QED BY <1>2, <1>3, <1>4, <1>5, <1>6, <1>7 DEF Next

(* monetra_connload sends one transaction at a time on each connection, and *)
(* no more than -t allows.                                                  *)
THEOREM OneAtATimeCorrect == Spec => []OneAtATime
<1>1. LoadInv => OneAtATime
    BY DEF LoadInv, LoadTypeOK, SlotInv, FineAt, Fine, OneAtATime, ConnRecords
<1> QED BY <1>1, InitLoad, NextLoad, PTL DEF Spec

(* It never destroys a connection that it closed itself with a delay still  *)
(* running: a timer that is left behind is the other side's doing.          *)
THEOREM OwnDisconnectCorrect == Spec => []OwnDisconnectIsClean
<1>1. LoadInv => OwnDisconnectIsClean
    BY DEF LoadInv, SlotInv, UnusedAt, OwnDisconnectIsClean
<1> QED BY <1>1, InitLoad, NextLoad, PTL DEF Spec

-----------------------------------------------------------------------------
(* The pool: a step that starts or replaces connections keeps its size.     *)

(* The list of connections is finite: there are only so many addresses.     *)
LEMMA PoolFinite == ASSUME LoadInv PROVE IsFiniteSet(track_conns) /\ Cardinality(track_conns) \in Nat
<1>1. IsFiniteSet(Slots)
    BY MaxSlotsAssumption, FS_Interval DEF Slots
<1>2. track_conns \in SUBSET Slots
    BY DEF LoadInv, LoadTypeOK
<1> QED BY <1>1, <1>2, FS_Subset, FS_CardinalityType

(* The pool starts with one connection.                                     *)
LEMMA PoolStarts ==
    ASSUME LoadInv, Start
    PROVE  PoolKept'
<1> SUFFICES ASSUME running' = "running"
             PROVE  PoolKept'
    BY DEF PoolKept
<1>1. track_conns' = {NewSlot} /\ config' = config
    BY DEF Start
<1>2. Cardinality(track_conns') = 1
    BY <1>1, FS_Singleton
<1>3. config["c"] \in Nat
    BY DEF LoadInv, LoadTypeOK
<1> QED BY <1>1, <1>2, <1>3 DEF PoolKept

(* Only a CONN_CONNECTED callback enlarges the pool, and not beyond -c.     *)
LEMMA PoolGrows ==
    ASSUME LoadInv, PoolKept, NEW s \in Slots, NEW next, OnConnected(s, next)
    PROVE  PoolKept'
<1>1. running = "running" /\ config' = config /\ config["c"] \in Nat
    BY DEF OnConnected, Callback, LoadInv, LoadTypeOK
<1>2. CASE WantsMore
    <2>1. track_conns' = track_conns \cup {NewSlot} /\ NewSlot \notin track_conns
        BY <1>2, NewIsFree DEF OnConnected
    <2>2. Cardinality(track_conns') = Cardinality(track_conns) + 1
        BY <2>1, PoolFinite, FS_AddElement
    <2> QED BY <1>1, <1>2, <2>2, PoolFinite DEF PoolKept, WantsMore
<1>3. CASE ~WantsMore
    <2>1. UNCHANGED track_conns
        BY <1>3 DEF OnConnected
    <2> QED BY <1>1, <2>1 DEF PoolKept
<1> QED BY <1>2, <1>3

(* CONN_DISCONNECT takes one connection out and puts one in.                *)
LEMMA PoolReplaces ==
    ASSUME LoadInv, PoolKept, NEW s \in Slots, NEW next, OnDisconnect(s, next)
    PROVE  PoolKept'
<1>1. /\ running = "running" /\ config' = config /\ s \in track_conns
      /\ track_conns' = (track_conns \ {s}) \cup {NewSlot} /\ NewSlot \notin track_conns
    BY NewIsFree DEF OnDisconnect, Callback, Replaced
<1>2. /\ IsFiniteSet(track_conns \ {s})
      /\ Cardinality(track_conns \ {s}) = Cardinality(track_conns) - 1
    BY <1>1, PoolFinite, FS_RemoveElement
<1>3. Cardinality(track_conns') = Cardinality(track_conns \ {s}) + 1
    BY <1>1, <1>2, FS_AddElement
<1>4. Cardinality(track_conns') = Cardinality(track_conns)
    BY <1>2, <1>3, PoolFinite
<1> QED BY <1>1, <1>4 DEF PoolKept

(* Every step of the program keeps the pool within its bounds.              *)
LEMMA NextPool == LoadInv /\ PoolKept /\ [Next]_vars => PoolKept'
<1> SUFFICES ASSUME LoadInv, PoolKept, [Next]_vars
             PROVE  PoolKept'
    OBVIOUS
<1>1. ASSUME UNCHANGED <<config, track_conns>>, running' = "running" => running = "running"
      PROVE  PoolKept'
    BY <1>1 DEF PoolKept
<1>2. CASE \E o \in Options : ReadOption(o)
    BY <1>2 DEF ReadOption, PoolKept
<1>3. CASE RefuseOption \/ Ended \/ WaitsForNothing \/ UNCHANGED vars
    BY <1>1, <1>3 DEF RefuseOption, Ended, WaitsForNothing, vars
<1>4. CASE Start
    BY <1>4, PoolStarts
<1>5. ASSUME NEW s \in Slots, TellsOf(s)
      PROVE  PoolKept'
    <2>1. PICK next : \/ OnConnected(s, next) \/ OnDisconnect(s, next) \/ OnConnError(s, next)
                      \/ OnTransDone(s, next) \/ OnTransLost(s, next)
        BY <1>5 DEF TellsOf
    <2>2. CASE OnConnError(s, next) \/ OnTransDone(s, next) \/ OnTransLost(s, next)
        BY <1>1, <2>2 DEF OnConnError, OnTransDone, OnTransLost
    <2> QED BY <2>1, <2>2, PoolGrows, PoolReplaces
<1>6. CASE \E s \in Slots : DelayOver(s) \/ Loses(s)
    BY <1>1, <1>6 DEF DelayOver, Loses
<1> QED BY <1>2, <1>3, <1>4, <1>5, <1>6 DEF Next

(* monetra_connload never has more connections than -c asks for, and never  *)
(* none: each one that ends is replaced.                                    *)
THEOREM PoolCorrect == Spec => []PoolKept
<1>1. Init => PoolKept
    BY DEF Init, PoolKept
<1> QED BY <1>1, InitLoad, NextLoad, NextPool, PTL DEF Spec

-----------------------------------------------------------------------------
(* The number that is shown.  Only connections of the pool that have been   *)
(* up are in met, so that a connection told CONN_CONNECTED is new in it and *)
(* one that takes a slot is not in it.  Nothing is claimed once one was     *)
(* taken away that was never added (stray).                                 *)
CountInv ==
    /\ met \subseteq track_conns
    /\ \A s \in met : conn[s].phase # "trying"
    /\ running \in {"options", "running"} /\ ~stray =>
          track_num_connections = Cardinality(met)

(* The count of established connections does not wrap around.               *)
LEMMA MetFinite ==
    ASSUME LoadInv, CountInv
    PROVE  IsFiniteSet(met) /\ Cardinality(met) \in Nat /\ Cardinality(met) < SizeLimit
<1>1. IsFiniteSet(Slots) /\ Cardinality(Slots) = MaxSlots
    BY MaxSlotsAssumption, FS_Interval DEF Slots
<1>2. met \in SUBSET Slots
    BY DEF LoadInv, LoadTypeOK, CountInv
<1>3. IsFiniteSet(met) /\ Cardinality(met) <= MaxSlots
    BY <1>1, <1>2, FS_Subset
<1>4. Cardinality(met) \in Nat
    BY <1>3, FS_CardinalityType
<1> QED BY <1>3, <1>4, SizeLimitAssumption, MaxSlotsAssumption

(* A size_t that stays within its range.                                    *)
LEMMA SizeKept ==
    ASSUME NEW n \in Nat, n < SizeLimit
    PROVE  /\ n + 1 < SizeLimit => (n + 1) % SizeLimit = n + 1
           /\ n > 0 => OneLess(n) = n - 1
<1>1. SizeLimit \in Nat /\ SizeLimit > 0
    BY SizeLimitAssumption, MaxSlotsAssumption
<1>2. ASSUME n > 0 PROVE (n + SizeLimit - 1) % SizeLimit = n - 1
    BY <1>1, <1>2
<1>3. ASSUME n + 1 < SizeLimit PROVE (n + 1) % SizeLimit = n + 1
    BY <1>1, <1>3
<1> QED BY <1>2, <1>3 DEF OneLess

(* CONN_CONNECTED adds one to the count and to the set it counts.           *)
LEMMA CountConnected ==
    ASSUME LoadInv, LoadInv', CountInv, NEW s \in Slots, NEW next, OnConnected(s, next)
    PROVE  CountInv'
<1>1. /\ running = "running" /\ s \in track_conns /\ conn[s] \in ConnRecords
      /\ Event("CONN_CONNECTED", next) \in Told(conn[s])
    BY DEF OnConnected, Callback, LoadInv, LoadTypeOK
<1>2. conn[s].phase = "trying" /\ next \in ConnRecords /\ next.phase \in {"up"} \cup Lost
    BY <1>1, ToldTypes
<1>3. Sending(next) \in ConnRecords /\ Sending(next).phase # "trying"
    BY <1>2, SendingTypes DEF Lost
<1>4. s \notin met /\ met' = met \cup {s} /\ UNCHANGED <<running, stray>>
    BY <1>2 DEF CountInv, OnConnected
<1>5. track_conns \subseteq track_conns'
    BY DEF OnConnected
<1>6. \A r \in met : conn'[r] = conn[r]
    <2> SUFFICES ASSUME NEW r \in met
                 PROVE  conn'[r] = conn[r]
        OBVIOUS
    <2>1. r \in track_conns /\ r # s /\ r \in Slots
        BY <1>4 DEF CountInv, LoadInv, LoadTypeOK
    <2>2. CASE WantsMore
        <3>1. r # NewSlot
            BY <2>1, <2>2, NewIsFree DEF OnConnected
        <3> QED BY <2>1, <2>2, <3>1 DEF OnConnected, LoadInv, LoadTypeOK
    <2>3. CASE ~WantsMore
        BY <2>1, <2>3 DEF OnConnected, LoadInv, LoadTypeOK
    <2> QED BY <2>2, <2>3
<1>7. conn'[s] = Sending(next)
    <2>1. CASE WantsMore
        <3>1. s # NewSlot
            BY <1>1, <2>1, NewIsFree DEF OnConnected
        <3> QED BY <2>1, <3>1 DEF OnConnected, LoadInv, LoadTypeOK, Enqueued
    <2>2. CASE ~WantsMore
        BY <2>2 DEF OnConnected, LoadInv, LoadTypeOK, Enqueued
    <2> QED BY <2>1, <2>2
<1>8. met' \subseteq track_conns' /\ \A r \in met' : conn'[r].phase # "trying"
    BY <1>1, <1>3, <1>4, <1>5, <1>6, <1>7 DEF CountInv
<1>9. IsFiniteSet(met) /\ Cardinality(met) \in Nat /\ Cardinality(met') = Cardinality(met) + 1
    BY <1>4, MetFinite, FS_AddElement
<1>10. Cardinality(met') < SizeLimit
    <2>1. IsFiniteSet(Slots) /\ Cardinality(Slots) = MaxSlots
        BY MaxSlotsAssumption, FS_Interval DEF Slots
    <2>2. met' \in SUBSET Slots
        BY <1>8 DEF LoadInv, LoadTypeOK
    <2>3. Cardinality(met') <= MaxSlots
        BY <2>1, <2>2, FS_Subset
    <2> QED BY <1>9, <2>3, SizeLimitAssumption, MaxSlotsAssumption
<1>11. ASSUME ~stray PROVE track_num_connections' = Cardinality(met')
    <2>1. track_num_connections = Cardinality(met)
        BY <1>1, <1>11 DEF CountInv
    <2>2. track_num_connections' = (Cardinality(met) + 1) % SizeLimit
        BY <2>1 DEF OnConnected
    <2> QED BY <2>2, <1>9, <1>10, MetFinite, SizeKept
<1> QED BY <1>4, <1>8, <1>11 DEF CountInv

(* CONN_DISCONNECT takes one away from both, or leaves a stray.             *)
LEMMA CountDisconnect ==
    ASSUME LoadInv, CountInv, NEW s \in Slots, NEW next, OnDisconnect(s, next)
    PROVE  CountInv'
<1>0. PICK made \in Created : conn' = [conn EXCEPT ![s] = Gone, ![NewSlot] = made]
    BY DEF OnDisconnect
<1>1. /\ running = "running" /\ s \in track_conns /\ running' = running
      /\ NewSlot \in Slots /\ NewSlot \notin track_conns
      /\ met' = met \ {s} /\ track_conns' = (track_conns \ {s}) \cup {NewSlot}
      /\ conn' = [conn EXCEPT ![s] = Gone, ![NewSlot] = made]
      /\ stray' = (stray \/ s \notin met)
      /\ track_num_connections' = OneLess(track_num_connections)
    BY <1>0, NewIsFree DEF OnDisconnect, Callback, Replaced
<1>2. met' \subseteq track_conns'
    BY <1>1 DEF CountInv
<1>3. ASSUME NEW r \in met' PROVE conn'[r].phase # "trying"
    <2>1. r \in met /\ r # s /\ r # NewSlot /\ r \in Slots
        BY <1>1, <1>3 DEF CountInv, LoadInv, LoadTypeOK
    <2>2. conn'[r] = conn[r]
        BY <1>1, <2>1 DEF LoadInv, LoadTypeOK
    <2> QED BY <2>1, <2>2 DEF CountInv
<1>4. ASSUME ~stray' PROVE track_num_connections' = Cardinality(met')
    <2>1. s \in met /\ ~stray /\ (stray \/ s \notin met) = FALSE
        BY <1>1, <1>4
    <2>2. track_num_connections = Cardinality(met)
        BY <1>1, <2>1 DEF CountInv
    <2>3. Cardinality(met') = Cardinality(met) - 1 /\ Cardinality(met') \in Nat
        BY <1>1, <2>1, MetFinite, FS_RemoveElement, FS_CardinalityType
    <2> QED BY <1>1, <2>2, <2>3, MetFinite, SizeKept
<1> QED BY <1>2, <1>3, <1>4 DEF CountInv

(* Nothing else connects or disconnects.                                    *)
LEMMA CountElsewhere ==
    ASSUME LoadInv, CountInv, UNCHANGED <<met, track_conns, stray, track_num_connections>>,
           running' \in {"options", "running"} => running \in {"options", "running"},
           \A s \in track_conns : conn'[s].phase = "trying" => conn[s].phase = "trying"
    PROVE  CountInv'
BY DEF CountInv

(* Every step of the program keeps count and set together.                  *)
LEMMA NextCount == LoadInv /\ LoadInv' /\ CountInv /\ [Next]_vars => CountInv'
<1> SUFFICES ASSUME LoadInv, LoadInv', CountInv, [Next]_vars
             PROVE  CountInv'
    OBVIOUS
<1>1. CASE (\E o \in Options : ReadOption(o)) \/ RefuseOption \/ Ended \/ WaitsForNothing \/ UNCHANGED vars
    BY <1>1, CountElsewhere DEF ReadOption, RefuseOption, Ended, WaitsForNothing, vars
<1>2. CASE Start
    <2>1. /\ running = "options" /\ track_conns = {} /\ met = {}
          /\ UNCHANGED <<met, stray, track_num_connections>>
        BY <1>2 DEF Start, LoadInv, CountInv
    <2> QED BY <2>1 DEF CountInv
<1>3. ASSUME NEW s \in Slots, NEW next, OnConnError(s, next)
      PROVE  CountInv'
    BY <1>3, CountElsewhere DEF OnConnError
<1>4. ASSUME NEW s \in Slots, NEW next, OnTransDone(s, next) \/ OnTransLost(s, next)
      PROVE  CountInv'
    <2>1. PICK type \in {"TRANS_DONE", "TRANS_ERROR", "TRANS_NOCONNECT"} :
              /\ running = "running" /\ s \in track_conns
              /\ Event(type, next) \in Told(conn[s])
        BY <1>4 DEF OnTransDone, OnTransLost, Callback
    <2>2. conn[s] \in ConnRecords
        BY DEF LoadInv, LoadTypeOK
    <2>3. next \in ConnRecords /\ next.phase = conn[s].phase
        BY <2>1, <2>2, ToldTypes
    <2>4. Sending(next).phase = next.phase
        BY <2>3, SendingTypes
    <2>5. Disconnecting(next).phase = "trying" => next.phase = "trying"
        BY <2>3 DEF Disconnecting, ConnRecords
    <2>6. \/ conn' = [conn EXCEPT ![s] = next]
          \/ conn' = [conn EXCEPT ![s] = Sending(next)]
          \/ conn' = [conn EXCEPT ![s] = Disconnecting(next)]
        BY <1>4 DEF OnTransDone, OnTransLost, Enqueued
    <2>7. conn'[s].phase = "trying" => conn[s].phase = "trying"
        BY <2>3, <2>4, <2>5, <2>6 DEF LoadInv, LoadTypeOK
    <2>8. \A r \in Slots \ {s} : conn'[r] = conn[r]
        BY <2>6 DEF LoadInv, LoadTypeOK
    <2>9. \A r \in track_conns : conn'[r].phase = "trying" => conn[r].phase = "trying"
        BY <2>7, <2>8 DEF LoadInv, LoadTypeOK
    <2>10. UNCHANGED <<met, track_conns, stray, track_num_connections, running>>
        BY <1>4 DEF OnTransDone, OnTransLost
    <2> QED BY <2>9, <2>10, CountElsewhere
<1>5. ASSUME NEW s \in Slots, TellsOf(s)
      PROVE  CountInv'
    <2>1. PICK next : \/ OnConnected(s, next) \/ OnDisconnect(s, next) \/ OnConnError(s, next)
                      \/ OnTransDone(s, next) \/ OnTransLost(s, next)
        BY <1>5 DEF TellsOf
    <2> QED BY <2>1, <1>3, <1>4, CountConnected, CountDisconnect
<1>6. ASSUME NEW s \in Slots, DelayOver(s)
      PROVE  CountInv'
    <2>1. conn[s] \in ConnRecords /\ Sending(conn[s]).phase = conn[s].phase
        BY SendingTypes DEF LoadInv, LoadTypeOK
    <2>2. \A r \in track_conns : conn'[r].phase = "trying" => conn[r].phase = "trying"
        BY <1>6, <2>1 DEF DelayOver, Enqueued, LoadInv, LoadTypeOK
    <2>3. UNCHANGED <<met, track_conns, stray, track_num_connections>> /\ running = "running"
        BY <1>6 DEF DelayOver
    <2> QED BY <2>2, <2>3, CountElsewhere
<1>7. ASSUME NEW s \in Slots, Loses(s)
      PROVE  CountInv'
    <2>1. PICK next \in Losing(conn[s]) : conn' = [conn EXCEPT ![s] = next]
        BY <1>7 DEF Loses
    <2>2. conn[s] \in ConnRecords
        BY DEF LoadInv, LoadTypeOK
    <2>3. next.phase # "trying"
        BY <2>1, <2>2, LosingTypes DEF Lost
    <2>4. \A r \in track_conns : conn'[r].phase = "trying" => conn[r].phase = "trying"
        BY <2>1, <2>3 DEF LoadInv, LoadTypeOK
    <2>5. UNCHANGED <<met, track_conns, stray, track_num_connections, running>>
        BY <1>7 DEF Loses
    <2> QED BY <2>4, <2>5, CountElsewhere
<1> QED BY <1>1, <1>2, <1>5, <1>6, <1>7 DEF Next

(* monetra_connload shows the number of connections that are established,   *)
(* as long as none was closed before it was up; the counter, a size_t, then *)
(* never wraps.                                                             *)
THEOREM CountCorrect == Spec => []CountExact
<1>1. Init => CountInv
    BY FS_EmptySet DEF Init, CountInv
<1>2. CountInv => CountExact
    <2> SUFFICES ASSUME CountInv, running = "running", ~stray
                 PROVE  track_num_connections = Cardinality(met \cap track_conns)
        BY DEF CountExact
    <2>1. met \cap track_conns = met
        BY DEF CountInv
    <2> QED BY <2>1 DEF CountInv
<1>3. LoadInv /\ CountInv /\ [Next]_vars => CountInv'
    BY NextLoad, NextCount
<1> QED BY <1>1, <1>2, <1>3, InitLoad, NextLoad, PTL DEF Spec
=============================================================================
