------------------------- MODULE MonetraConnProofs -------------------------
(***************************************************************************)
(* Safety of MonetraConn for any sets of transactions, any application and *)
(* any faults.                                                             *)
(***************************************************************************)
EXTENDS MonetraConn, SequenceTheorems, TLAPS

-----------------------------------------------------------------------------
(* The queues: what each operation does to the set of entries and to their  *)
(* distinctness.                                                            *)

(* The entries of a sequence, by index.                                     *)
LEMMA ToSetByIndex ==
    ASSUME NEW S, NEW q \in Seq(S)
    PROVE  /\ ToSet(q) = {q[i] : i \in 1 .. Len(q)}
           /\ ToSet(q) \subseteq S
  <1>1. DOMAIN q = 1 .. Len(q)
    OBVIOUS
  <1>2. QED BY <1>1 DEF ToSet

(* The empty queue has no entries.                                          *)
LEMMA ToSetEmpty == ToSet(<<>>) = {} /\ NoDuplicates(<<>>)
  BY DEF ToSet, NoDuplicates

(* A queue without entries is empty.                                        *)
LEMMA EmptyIfNoEntries ==
    ASSUME NEW S, NEW q \in Seq(S), ToSet(q) = {}
    PROVE  q = <<>>
  <1>1. ToSet(q) = {q[i] : i \in 1 .. Len(q)}
    BY ToSetByIndex
  <1>2. \A i \in 1 .. Len(q) : q[i] \in ToSet(q)
    BY <1>1
  <1>3. Len(q) = 0
    BY <1>2, LenProperties
  <1>4. QED BY <1>3, EmptySeq

(* M_queue_insert of a whole queue at the end of another.                   *)
LEMMA ToSetConcat ==
    ASSUME NEW S, NEW q \in Seq(S), NEW r \in Seq(S)
    PROVE  /\ q \o r \in Seq(S)
           /\ ToSet(q \o r) = ToSet(q) \cup ToSet(r)
  <1> DEFINE c == q \o r
  <1>1. /\ c \in Seq(S) /\ Len(c) = Len(q) + Len(r)
        /\ \A i \in 1 .. Len(q) + Len(r) : c[i] = IF i <= Len(q) THEN q[i] ELSE r[i - Len(q)]
    BY ConcatProperties
  <1>2. Len(q) \in Nat /\ Len(r) \in Nat
    BY LenProperties
  <1>3. /\ ToSet(c) = {c[i] : i \in 1 .. Len(c)}
        /\ ToSet(q) = {q[i] : i \in 1 .. Len(q)}
        /\ ToSet(r) = {r[i] : i \in 1 .. Len(r)}
    BY <1>1, ToSetByIndex
  <1> HIDE DEF c
  <1>4. ASSUME NEW i \in 1 .. Len(c)
        PROVE  c[i] \in ToSet(q) \cup ToSet(r)
    <2>1. CASE i <= Len(q)
      <3>1. i \in 1 .. Len(q) /\ c[i] = q[i]
        BY <1>1, <1>2, <2>1
      <3>2. QED BY <1>3, <3>1
    <2>2. CASE ~(i <= Len(q))
      <3>1. i - Len(q) \in 1 .. Len(r) /\ c[i] = r[i - Len(q)]
        BY <1>1, <1>2, <2>2
      <3>2. QED BY <1>3, <3>1
    <2>3. QED BY <2>1, <2>2
  <1>5. ASSUME NEW i \in 1 .. Len(q)
        PROVE  q[i] \in ToSet(c)
    <2>1. i \in 1 .. Len(c) /\ c[i] = q[i]
      BY <1>1, <1>2
    <2>2. QED BY <1>3, <2>1
  <1>6. ASSUME NEW i \in 1 .. Len(r)
        PROVE  r[i] \in ToSet(c)
    <2>1. Len(q) + i \in 1 .. Len(c) /\ ~(Len(q) + i <= Len(q)) /\ (Len(q) + i) - Len(q) = i
      BY <1>1, <1>2
    <2>2. c[Len(q) + i] = r[i]
      BY <1>1, <1>2, <2>1
    <2>3. QED BY <1>3, <2>1, <2>2
  <1>7. ToSet(c) = ToSet(q) \cup ToSet(r)
    BY <1>3, <1>4, <1>5, <1>6
  <1>8. QED BY <1>1, <1>7 DEF c

(* Disjoint queues of distinct entries stay so when joined.                 *)
LEMMA NoDuplicatesConcat ==
    ASSUME NEW S, NEW q \in Seq(S), NEW r \in Seq(S),
           NoDuplicates(q), NoDuplicates(r), ToSet(q) \cap ToSet(r) = {}
    PROVE  NoDuplicates(q \o r)
  <1> DEFINE c == q \o r
  <1>1. /\ c \in Seq(S) /\ Len(c) = Len(q) + Len(r)
        /\ \A i \in 1 .. Len(q) + Len(r) : c[i] = IF i <= Len(q) THEN q[i] ELSE r[i - Len(q)]
    BY ConcatProperties
  <1>2. /\ Len(q) \in Nat /\ Len(r) \in Nat
        /\ DOMAIN c = 1 .. Len(c) /\ DOMAIN q = 1 .. Len(q) /\ DOMAIN r = 1 .. Len(r)
    BY <1>1, LenProperties
  <1>3. /\ \A i \in 1 .. Len(q) : q[i] \in ToSet(q)
        /\ \A i \in 1 .. Len(r) : r[i] \in ToSet(r)
    BY ToSetByIndex
  <1> HIDE DEF c
  <1>4. ASSUME NEW i \in 1 .. Len(c), NEW j \in 1 .. Len(c), c[i] = c[j]
        PROVE  i = j
    <2>1. CASE i <= Len(q) /\ j <= Len(q)
      <3>1. i \in 1 .. Len(q) /\ j \in 1 .. Len(q) /\ q[i] = q[j]
        BY <1>1, <1>2, <1>4, <2>1
      <3>2. QED BY <1>2, <3>1 DEF NoDuplicates
    <2>2. CASE ~(i <= Len(q)) /\ ~(j <= Len(q))
      <3>1. /\ i - Len(q) \in 1 .. Len(r) /\ j - Len(q) \in 1 .. Len(r)
            /\ r[i - Len(q)] = r[j - Len(q)]
        BY <1>1, <1>2, <1>4, <2>2
      <3>2. i - Len(q) = j - Len(q)
        BY <1>2, <3>1 DEF NoDuplicates
      <3>3. QED BY <1>1, <1>2, <3>2
    <2>3. CASE i <= Len(q) /\ ~(j <= Len(q))
      <3>1. i \in 1 .. Len(q) /\ j - Len(q) \in 1 .. Len(r) /\ q[i] = r[j - Len(q)]
        BY <1>1, <1>2, <1>4, <2>3
      <3>2. QED BY <1>3, <3>1
    <2>4. CASE ~(i <= Len(q)) /\ j <= Len(q)
      <3>1. j \in 1 .. Len(q) /\ i - Len(q) \in 1 .. Len(r) /\ q[j] = r[i - Len(q)]
        BY <1>1, <1>2, <1>4, <2>4
      <3>2. QED BY <1>3, <3>1
    <2>5. QED BY <2>1, <2>2, <2>3, <2>4
  <1>5. QED BY <1>2, <1>4 DEF NoDuplicates, c

(* M_queue_insert of one entry.                                             *)
LEMMA ToSetAppend ==
    ASSUME NEW S, NEW q \in Seq(S), NEW t \in S
    PROVE  /\ Append(q, t) \in Seq(S)
           /\ ToSet(Append(q, t)) = ToSet(q) \cup {t}
           /\ NoDuplicates(q) /\ t \notin ToSet(q) => NoDuplicates(Append(q, t))
  <1> DEFINE r == <<t>>
  <1>1. r \in Seq(S) /\ Len(r) = 1 /\ r[1] = t /\ DOMAIN r = 1 .. 1
    OBVIOUS
  <1>2. Append(q, t) = q \o r
    BY AppendIsConcat
  <1> HIDE DEF r
  <1>3. ToSet(r) = {t}
    <2>1. ToSet(r) = {r[i] : i \in 1 .. 1}
      BY <1>1, ToSetByIndex
    <2>2. QED BY <1>1, <2>1
  <1>4. NoDuplicates(r)
    BY <1>1 DEF NoDuplicates
  <1>5. /\ q \o r \in Seq(S)
        /\ ToSet(q \o r) = ToSet(q) \cup {t}
    BY <1>1, <1>3, ToSetConcat
  <1>6. ASSUME NoDuplicates(q), t \notin ToSet(q)
        PROVE  NoDuplicates(q \o r)
    BY <1>1, <1>3, <1>4, <1>6, NoDuplicatesConcat
  <1>7. QED BY <1>2, <1>5, <1>6

(* A slice of a queue holds entries of the queue at their old places.       *)
LEMMA SliceOfQueue ==
    ASSUME NEW S, NEW q \in Seq(S),
           NEW m \in Nat, NEW n \in Nat, m >= 1, n <= Len(q)
    PROVE  /\ SubSeq(q, m, n) \in Seq(S)
           /\ Len(SubSeq(q, m, n)) = IF m <= n THEN n - m + 1 ELSE 0
           /\ \A i \in 1 .. Len(SubSeq(q, m, n)) : SubSeq(q, m, n)[i] = q[m + i - 1]
  <1>1. Len(q) \in Nat
    BY LenProperties
  <1>2. \A i \in m .. n : q[i] \in S
    BY <1>1, ElementOfSeq
  <1>3. QED BY <1>1, <1>2, SubSeqProperties

(* Whatever it is asked to remove, M_queue_take leaves a queue of the same  *)
(* kind.                                                                    *)
LEMMA QueueTakeType ==
    ASSUME NEW S, NEW q \in Seq(S), NEW t
    PROVE  QueueTake(q, t) \in Seq(S)
  <1>1. DOMAIN q = 1 .. Len(q) /\ Len(q) \in Nat
    BY LenProperties
  <1>2. CASE t \notin ToSet(q)
    BY <1>2 DEF QueueTake
  <1>3. CASE t \in ToSet(q)
    <2> DEFINE k == CHOOSE i \in DOMAIN q : q[i] = t
    <2>1. k \in 1 .. Len(q)
      <3>1. \E i \in DOMAIN q : q[i] = t
        BY <1>3 DEF ToSet
      <3>2. QED BY <1>1, <3>1
    <2>2. QueueTake(q, t) = SubSeq(q, 1, k - 1) \o SubSeq(q, k + 1, Len(q))
      BY <1>3 DEF QueueTake, RemoveAt
    <2> HIDE DEF k
    <2>3. SubSeq(q, 1, k - 1) \in Seq(S)
      BY <1>1, <2>1, SliceOfQueue
    <2>4. SubSeq(q, k + 1, Len(q)) \in Seq(S)
      BY <1>1, <2>1, SliceOfQueue
    <2>5. QED BY <2>2, <2>3, <2>4, ConcatProperties
  <1>4. QED BY <1>2, <1>3

(* M_queue_take removes exactly the entry it is given.                      *)
LEMMA QueueTakeEntries ==
    ASSUME NEW S, NEW q \in Seq(S), NEW t, NoDuplicates(q)
    PROVE  /\ QueueTake(q, t) \in Seq(S)
           /\ ToSet(QueueTake(q, t)) = ToSet(q) \ {t}
           /\ NoDuplicates(QueueTake(q, t))
  <1>1. /\ DOMAIN q = 1 .. Len(q) /\ Len(q) \in Nat
        /\ ToSet(q) = {q[i] : i \in 1 .. Len(q)}
    BY LenProperties, ToSetByIndex
  <1>2. CASE t \notin ToSet(q)
    BY <1>2 DEF QueueTake
  <1>3. CASE t \in ToSet(q)
    <2> DEFINE k == CHOOSE i \in DOMAIN q : q[i] = t
               l == SubSeq(q, 1, k - 1)
               r == SubSeq(q, k + 1, Len(q))
    <2>1. k \in 1 .. Len(q) /\ q[k] = t
      <3>1. \E i \in DOMAIN q : q[i] = t
        BY <1>1, <1>3
      <3>2. QED BY <1>1, <3>1
    <2>2. QueueTake(q, t) = l \o r
      BY <1>3 DEF QueueTake, RemoveAt
    <2> HIDE DEF k
    <2>3. /\ l \in Seq(S) /\ Len(l) = k - 1
          /\ \A i \in 1 .. Len(l) : l[i] = q[i]
      <3>1. k - 1 \in Nat /\ k - 1 <= Len(q) /\ 1 \in Nat
        BY <1>1, <2>1
      <3>2. /\ l \in Seq(S) /\ Len(l) = IF 1 <= k - 1 THEN (k - 1) - 1 + 1 ELSE 0
            /\ \A i \in 1 .. Len(l) : l[i] = q[1 + i - 1]
        BY <3>1, SliceOfQueue
      <3>3. QED BY <1>1, <2>1, <3>2
    <2>4. /\ r \in Seq(S) /\ Len(r) = Len(q) - k
          /\ \A i \in 1 .. Len(r) : r[i] = q[k + i]
      <3>1. k + 1 \in Nat /\ k + 1 >= 1 /\ Len(q) <= Len(q)
        BY <1>1, <2>1
      <3>2. /\ r \in Seq(S) /\ Len(r) = IF k + 1 <= Len(q) THEN Len(q) - (k + 1) + 1 ELSE 0
            /\ \A i \in 1 .. Len(r) : r[i] = q[(k + 1) + i - 1]
        BY <1>1, <3>1, SliceOfQueue
      <3> HIDE DEF l, r
      <3>3. Len(r) = Len(q) - k
        <4>1. k \in Nat /\ Len(q) \in Nat /\ k <= Len(q)
          BY <1>1, <2>1
        <4>2. Len(r) = IF k + 1 <= Len(q) THEN Len(q) - (k + 1) + 1 ELSE 0
          BY <3>2
        <4>3. QED BY <4>1, <4>2
      <3>4. ASSUME NEW i \in 1 .. Len(r) PROVE r[i] = q[k + i]
        <4>1. (k + 1) + i - 1 = k + i
          BY <1>1, <2>1, <3>3
        <4>2. QED BY <3>2, <4>1
      <3>5. QED BY <3>2, <3>3, <3>4
    <2> HIDE DEF l, r
    <2>5. /\ DOMAIN l = 1 .. Len(l) /\ DOMAIN r = 1 .. Len(r)
          /\ ToSet(l) = {l[i] : i \in 1 .. Len(l)}
          /\ ToSet(r) = {r[i] : i \in 1 .. Len(r)}
      BY <2>3, <2>4, LenProperties, ToSetByIndex
    <2>6. \A i, j \in 1 .. Len(q) : q[i] = q[j] => i = j
      BY <1>1 DEF NoDuplicates
    <2>7. NoDuplicates(l)
      BY <1>1, <2>1, <2>3, <2>5, <2>6 DEF NoDuplicates
    <2>8. NoDuplicates(r)
      <3>1. ASSUME NEW i \in 1 .. Len(r), NEW j \in 1 .. Len(r), r[i] = r[j]
            PROVE  i = j
        <4>1. k + i \in 1 .. Len(q) /\ k + j \in 1 .. Len(q)
          BY <1>1, <2>1, <2>4
        <4>2. k + i = k + j
          BY <2>4, <2>6, <3>1, <4>1
        <4>3. QED BY <1>1, <2>1, <2>4, <4>2
      <3>2. QED BY <2>5, <3>1 DEF NoDuplicates
    <2>9. ToSet(l) \cap ToSet(r) = {}
      <3>1. ASSUME NEW i \in 1 .. Len(l), NEW j \in 1 .. Len(r), l[i] = r[j]
            PROVE  FALSE
        BY <1>1, <2>1, <2>3, <2>4, <2>6, <3>1
      <3>2. QED BY <2>5, <3>1
    <2>10. ToSet(l) \cup ToSet(r) = ToSet(q) \ {t}
      <3>1. ASSUME NEW i \in 1 .. Len(l) PROVE l[i] \in ToSet(q) \ {t}
        BY <1>1, <2>1, <2>3, <2>6
      <3>2. ASSUME NEW i \in 1 .. Len(r) PROVE r[i] \in ToSet(q) \ {t}
        <4>1. k + i \in 1 .. Len(q) /\ k + i # k /\ r[i] = q[k + i]
          BY <1>1, <2>1, <2>4
        <4>2. QED BY <1>1, <2>1, <2>6, <4>1
      <3>3. ASSUME NEW i \in 1 .. Len(q), q[i] # t
            PROVE  q[i] \in ToSet(l) \cup ToSet(r)
        <4>1. CASE i < k
          <5>1. i \in 1 .. Len(l) /\ l[i] = q[i]
            BY <1>1, <2>1, <2>3, <4>1
          <5>2. QED BY <2>5, <5>1
        <4>2. CASE i > k
          <5>1. i - k \in 1 .. Len(r) /\ k + (i - k) = i
            BY <1>1, <2>1, <2>4, <4>2
          <5>2. r[i - k] = q[i]
            BY <2>4, <5>1
          <5>3. QED BY <2>5, <5>1, <5>2
        <4>3. QED BY <1>1, <2>1, <3>3, <4>1, <4>2
      <3>4. QED BY <1>1, <2>5, <3>1, <3>2, <3>3
    <2>11. QED
      BY <2>2, <2>3, <2>4, <2>7, <2>8, <2>9, <2>10, ToSetConcat, NoDuplicatesConcat
  <1>4. QED BY <1>2, <1>3

-----------------------------------------------------------------------------
(* The connection.                                                          *)

(* The user events the handler collects are well formed.                    *)
LEMMA EventTypes ==
    /\ \A type \in ConnEvents : UserEvent(type, NoTrans) \in Event
    /\ \A type \in TransEvents, t \in Trans : UserEvent(type, t) \in Event
    /\ \A e \in Event : e.trans \in Trans \cup {NoTrans}
    /\ \A type \in {"CONNECTED", "DISCONNECTED", "ERROR", "READ", "WRITE", "OTHER"},
          t \in Trans \cup {NoTrans} : UserEvent(type, t) \in IoEvent
    /\ \A e \in IoEvent : e.trans \in Trans \cup {NoTrans}
  BY DEF Event, IoEvent, UserEvent

(* One event for each transaction of a queue.                               *)
LEMMA EventsForType ==
    ASSUME NEW q \in Seq(Trans), NEW type \in TransEvents
    PROVE  EventsFor(type, q) \in Seq(Event)
  <1>1. DOMAIN q = 1 .. Len(q) /\ Len(q) \in Nat /\ \A i \in 1 .. Len(q) : q[i] \in Trans
    BY LenProperties, ElementOfSeq
  <1>2. \A i \in 1 .. Len(q) : UserEvent(type, q[i]) \in Event
    BY <1>1, EventTypes
  <1>3. [i \in 1 .. Len(q) |-> UserEvent(type, q[i])] \in Seq(Event)
    BY <1>1, <1>2, SeqDef
  <1>4. QED BY <1>1, <1>3 DEF EventsFor

(* The events of a lost connection are well formed.                         *)
LEMMA LossEventsType ==
    ASSUME TypeOK, NEW type
    PROVE  LossEvents(type) \in Seq(Event)
  <1>1. trans_ready \in Seq(Trans) /\ trans_pending \in Seq(Trans)
    BY DEF TypeOK
  <1>2. EventsFor("TRANS_NOCONNECT", trans_ready) \in Seq(Event)
    BY <1>1, EventsForType DEF TransEvents
  <1>3. EventsFor("TRANS_ERROR", trans_pending) \in Seq(Event)
    BY <1>1, EventsForType DEF TransEvents
  <1>4. CloseEvent(type) \in Event
    BY EventTypes DEF CloseEvent, ConnEvents
  <1>5. Refused \in Seq(Event)
    BY <1>2 DEF Refused
  <1>6. QED BY <1>3, <1>4, <1>5 DEF LossEvents

(* M_io_write_from_buf splits a buffer into what is sent and what is left.  *)
LEMMA WriteFromBufType ==
    ASSUME TypeOK, NEW buf \in Seq(Trans), WriteFromBuf(buf)
    PROVE  outbuf' \in Seq(Trans) /\ wire' \subseteq Trans /\ blocked' \in BOOLEAN
  <1>1. PICK n \in 0 .. Len(buf) :
            /\ outbuf' = SubSeq(buf, n + 1, Len(buf))
            /\ wire' = wire \cup ToSet(SubSeq(buf, 1, n))
            /\ blocked' = (n < Len(buf))
    BY DEF WriteFromBuf
  <1>2. Len(buf) \in Nat /\ n \in Nat /\ n <= Len(buf)
    BY LenProperties
  <1>3. SubSeq(buf, n + 1, Len(buf)) \in Seq(Trans) /\ SubSeq(buf, 1, n) \in Seq(Trans)
    BY <1>2, SliceOfQueue
  <1>4. ToSet(SubSeq(buf, 1, n)) \subseteq Trans
    BY <1>3, ToSetByIndex
  <1>5. QED BY <1>1, <1>3, <1>4 DEF TypeOK

(* LM_conn_connect ends in a legal connection state.                        *)
LEMMA ConnConnectType ==
    ASSUME TypeOK, NEW a \in Threads, ConnConnect(a)
    PROVE  /\ io' \in {"none", "created", "connecting", "up", "closing"}
           /\ status' \in ConnStatus
           /\ call' \in [Threads -> {"none", "connect", "register"}]
  <1>1. CASE /\ call' = [call EXCEPT ![a] = "none"]
             /\ UNCHANGED <<io, status>>
    BY <1>1 DEF TypeOK
  <1>2. CASE /\ io' = "created"
             /\ call' = [call EXCEPT ![a] = "register"]
             /\ UNCHANGED status
    BY <1>2 DEF TypeOK
  <1>3. CASE /\ io' = "connecting"
             /\ status' = "CONNECTING"
             /\ call' = [call EXCEPT ![a] = "none"]
    BY <1>3 DEF TypeOK, ConnStatus
  <1>4. QED BY <1>1, <1>2, <1>3 DEF ConnConnect

(* Sending keeps the types.                                                 *)
LEMMA SendReadyType ==
    ASSUME TypeOK, NEW ready \in Seq(Trans), SendReady(ready)
    PROVE  /\ tstatus' \in [Trans -> TransStatus]
           /\ params' \in [Trans -> BOOLEAN]
           /\ ttimer' \in [Trans -> {"none", "armed", "fired"}]
           /\ trans_ready' \in Seq(Trans) /\ trans_pending' \in Seq(Trans)
           /\ outbuf' \in Seq(Trans)
           /\ Signalled(ready) \in {"none", "idle", "signaled"}
  <1>1. tstatus' \in [Trans -> TransStatus]
    BY DEF SendReady, TypeOK, TransStatus
  <1>2. params' \in [Trans -> BOOLEAN]
    BY DEF SendReady, Wipe, TypeOK
  <1>3. ttimer' \in [Trans -> {"none", "armed", "fired"}]
    BY DEF SendReady, TypeOK
  <1>4. trans_ready' \in Seq(Trans)
    BY DEF SendReady
  <1>5. trans_pending' \in Seq(Trans) /\ outbuf' \in Seq(Trans)
    BY ToSetConcat DEF SendReady, TypeOK
  <1>6. Signalled(ready) \in {"none", "idle", "signaled"}
    BY DEF Signalled, TypeOK
  <1>7. QED BY <1>1, <1>2, <1>3, <1>4, <1>5, <1>6

(* Deleting a transaction keeps the types.                                  *)
LEMMA DeleteType ==
    ASSUME TypeOK, NEW t \in Trans, DeleteUnlocked(t)
    PROVE  /\ trans_new' \subseteq Trans /\ trans_done' \subseteq Trans
           /\ trans_ready' \in Seq(Trans) /\ trans_pending' \in Seq(Trans)
           /\ timer' \in {"none", "stopped", "armed"}
           /\ tstatus' \in [Trans -> TransStatus]
           /\ params' \in [Trans -> BOOLEAN] /\ timeout_s' \in [Trans -> BOOLEAN]
           /\ told' \subseteq Trans
  <1>1. /\ QueueTake(trans_ready, t) \in Seq(Trans)
        /\ QueueTake(trans_pending, t) \in Seq(Trans)
    BY QueueTakeType DEF TypeOK
  <1>2. trans_ready' \in Seq(Trans) /\ trans_pending' \in Seq(Trans)
    BY <1>1 DEF DeleteUnlocked, TypeOK
  <1>3. tstatus' \in [Trans -> TransStatus]
    BY DEF DeleteUnlocked, TypeOK, TransStatus
  <1>4. params' \in [Trans -> BOOLEAN] /\ timeout_s' \in [Trans -> BOOLEAN]
    BY DEF DeleteUnlocked, TypeOK
  <1>5. timer' \in {"none", "stopped", "armed"}
    BY DEF DeleteUnlocked, TypeOK, TimerReset
  <1>6. QED BY <1>2, <1>3, <1>4, <1>5 DEF DeleteUnlocked, TypeOK

(* A lost connection keeps the types.                                       *)
LEMMA ConnErrorType ==
    ASSUME TypeOK, NEW type, ConnError(type)
    PROVE  /\ status' \in ConnStatus
           /\ outbuf' \in Seq(Trans) /\ trans_pending' \in Seq(Trans)
           /\ trans_done' \subseteq Trans
           /\ tstatus' \in [Trans -> TransStatus]
           /\ ttimer' \in [Trans -> {"none", "armed", "fired"}]
           /\ events' \in Seq(Event)
  <1>1. Abandoned \subseteq Trans
    BY ToSetByIndex DEF TypeOK, Abandoned
  <1>2. events' \in Seq(Event)
    <2>1. events \in Seq(Event) /\ LossEvents(type) \in Seq(Event)
      BY LossEventsType DEF TypeOK
    <2>2. QED BY <2>1, ConcatProperties DEF ConnError
  <1>3. outbuf' \in Seq(Trans) /\ trans_pending' \in Seq(Trans)
    BY DEF ConnError
  <1>4. tstatus' \in [Trans -> TransStatus]
    BY DEF ConnError, TypeOK, TransStatus
  <1>5. ttimer' \in [Trans -> {"none", "armed", "fired"}]
    BY DEF ConnError, TypeOK
  <1>6. QED BY <1>1, <1>2, <1>3, <1>4, <1>5 DEF ConnError, TypeOK, ConnStatus

(* Freeing the connection keeps the types.                                  *)
LEMMA FreeConnType ==
    ASSUME TypeOK, FreeConn, pc' \in {pc, "idle"}
    PROVE  TypeOK'
  <1>1. /\ outbuf' \in Seq(Trans) /\ trans_ready' \in Seq(Trans)
        /\ trans_pending' \in Seq(Trans)
    BY DEF FreeConn
  <1>2. tstatus' \in [Trans -> TransStatus]
    BY DEF FreeConn, TransStatus
  <1>3. /\ UNCHANGED <<params, timeout_s, ttimer, disable_ping, idle_timeout, in_use, destroy,
                       status, ev, events, call, telling, pingtxn>>
        /\ alive' = FALSE /\ io' = "none" /\ timer' = "none" /\ write_trigger' = "none"
        /\ wire' = {} /\ blocked' = FALSE /\ trans_new' = {} /\ trans_done' = {}
        /\ delay_rm' = {} /\ held' = {} /\ told' = {}
    BY DEF FreeConn, confVars, fieldVars
  <1>4. QED BY <1>1, <1>2, <1>3 DEF TypeOK

(* No step leaves the types.                                                *)
LEMMA TypeStep == TypeOK /\ [Next]_vars => TypeOK'
  <1> SUFFICES ASSUME TypeOK, [Next]_vars
               PROVE  TypeOK'
    OBVIOUS
  <1> USE DEF TypeOK, objVars, linkVars, confVars, queueVars, fieldVars, loopVars, histVars
  <1>1. ASSUME NEW a \in Threads, LM_trans_new(a)
        PROVE  TypeOK'
    BY <1>1 DEF LM_trans_new, TransStatus, Trans
  <1>2. ASSUME NEW a \in Threads, NEW t \in Trans, LM_trans_set_param(a, t)
        PROVE  TypeOK'
    BY <1>2 DEF LM_trans_set_param
  <1>3. ASSUME NEW a \in Threads, NEW t \in Trans, LM_trans_set_timeout(a, t)
        PROVE  TypeOK'
    BY <1>3 DEF LM_trans_set_timeout
  <1>4. ASSUME NEW a \in Threads, NEW t \in Trans, LM_trans_send(a, t)
        PROVE  TypeOK'
    <2> DEFINE ready == Append(trans_ready, t)
    <2>1. ready \in Seq(Trans)
      BY ToSetAppend
    <2>2. /\ UNCHANGED <<alive, in_use, destroy, status, io, wire, blocked, disable_ping,
                         idle_timeout, trans_done, timeout_s, pc, ev, events, held, told,
                         telling, pingtxn, delay_rm>>
          /\ trans_new' \subseteq Trans
      BY <1>4 DEF LM_trans_send
    <2>3. call' \in [Threads -> {"none", "connect", "register"}]
      BY <1>4 DEF LM_trans_send
    <2>4. CASE CanSend
      <3>1. /\ SendReady(ready)
            /\ write_trigger' = Signalled(ready)
            /\ timer' = TimerStop(timer)
        BY <1>4, <2>4 DEF LM_trans_send
      <3> HIDE DEF ready
      <3>2. timer' \in {"none", "stopped", "armed"}
        BY <3>1 DEF TimerStop
      <3>3. /\ tstatus' \in [Trans -> TransStatus]
            /\ params' \in [Trans -> BOOLEAN]
            /\ ttimer' \in [Trans -> {"none", "armed", "fired"}]
            /\ trans_ready' \in Seq(Trans) /\ trans_pending' \in Seq(Trans)
            /\ outbuf' \in Seq(Trans)
            /\ write_trigger' \in {"none", "idle", "signaled"}
        BY <2>1, <3>1, SendReadyType
      <3>4. QED BY <2>2, <2>3, <3>2, <3>3
    <2>5. CASE ~CanSend
      <3>1. /\ tstatus' = [tstatus EXCEPT ![t] = "READY"]
            /\ trans_ready' = ready
            /\ UNCHANGED <<trans_pending, params, ttimer, outbuf, write_trigger, timer>>
        BY <1>4, <2>5 DEF LM_trans_send
      <3> HIDE DEF ready
      <3>2. tstatus' \in [Trans -> TransStatus]
        BY <3>1 DEF TransStatus
      <3>3. QED BY <2>1, <2>2, <2>3, <3>1, <3>2
    <2>6. QED BY <2>4, <2>5
  <1>5. ASSUME NEW a \in Threads, NEW t \in Trans, LM_trans_delete(a, t)
        PROVE  TypeOK'
    <2>1. ttimer' \in [Trans -> {"none", "armed", "fired"}] /\ held' \subseteq Trans
      BY <1>5 DEF LM_trans_delete, StopTimeout
    <2>2. CASE Deferred
      BY <1>5, <2>1, <2>2 DEF LM_trans_delete
    <2>3. CASE ~Deferred
      BY <1>5, <2>1, <2>3, DeleteType DEF LM_trans_delete
    <2>4. QED BY <2>2, <2>3
  <1>6. ASSUME NEW a \in Threads, LM_conn_connect(a)
        PROVE  TypeOK'
    <2>1. ConnConnect(a)
      BY <1>6 DEF LM_conn_connect
    <2>2. UNCHANGED <<objVars, timer, write_trigger, outbuf, wire, blocked, confVars, queueVars,
                      fieldVars, pc, ev, events, histVars, pingtxn, delay_rm>>
      BY <1>6 DEF LM_conn_connect
    <2>3. QED BY <2>1, <2>2, ConnConnectType
  <1>7. ASSUME NEW a \in Threads, ImplicitConnect(a)
        PROVE  TypeOK'
    BY <1>7, ConnConnectType DEF ImplicitConnect
  <1>8. ASSUME NEW a \in Threads, RegisterIo(a)
        PROVE  TypeOK'
    BY <1>8 DEF RegisterIo, ConnStatus
  <1>9. ASSUME NEW a \in Threads, LM_conn_disconnect(a)
        PROVE  TypeOK'
    BY <1>9 DEF LM_conn_disconnect, DisconnectIo, ConnStatus
  <1>10. ASSUME NEW a \in Threads, LM_conn_disable_ping(a)
        PROVE  TypeOK'
    BY <1>10 DEF LM_conn_disable_ping
  <1>11. ASSUME NEW a \in Threads, LM_conn_set_idle_timeout(a)
        PROVE  TypeOK'
    BY <1>11 DEF LM_conn_set_idle_timeout
  <1>12. ASSUME NEW a \in Threads, LM_conn_destroy(a)
        PROVE  TypeOK'
    <2>1. CASE Deferred
      BY <1>12, <2>1 DEF LM_conn_destroy
    <2>2. CASE ~Deferred
      BY <1>12, <2>2, FreeConnType DEF LM_conn_destroy
    <2>3. QED BY <2>1, <2>2
  <1>13. ASSUME LoopDispatch
        PROVE  TypeOK'
    <2>1. ASSUME NEW type \in {"CONNECTED", "DISCONNECTED", "ERROR", "READ", "WRITE", "OTHER"},
                 NEW t \in Trans \cup {NoTrans}, Dispatch(type, t),
                 io' \in {"up", io}, timer' \in {"stopped", timer},
                 write_trigger' \in {"idle", write_trigger}, blocked' \in BOOLEAN,
                 ttimer' \in [Trans -> {"none", "armed", "fired"}]
          PROVE  TypeOK'
      <3>1. ev' \in IoEvent
        BY <2>1, EventTypes DEF Dispatch
      <3>2. QED BY <2>1, <3>1 DEF Dispatch
    <2>2. CASE DispatchConnected
      BY <2>1, <2>2 DEF DispatchConnected
    <2>3. ASSUME NEW type \in {"DISCONNECTED", "ERROR"}, DispatchClosed(type)
          PROVE  TypeOK'
      BY <2>1, <2>3 DEF DispatchClosed
    <2>4. CASE DispatchRead
      BY <2>1, <2>4 DEF DispatchRead
    <2>5. CASE DispatchWrite
      BY <2>1, <2>5 DEF DispatchWrite
    <2>6. CASE DispatchTrigger
      BY <2>1, <2>6 DEF DispatchTrigger
    <2>7. CASE DispatchTimer
      BY <2>1, <2>7 DEF DispatchTimer
    <2>8. ASSUME NEW t \in Trans, DispatchTransTimer(t)
          PROVE  TypeOK'
      <3>1. ttimer' \in [Trans -> {"none", "armed", "fired"}]
        BY <2>8 DEF DispatchTransTimer
      <3>2. QED BY <2>1, <2>8, <3>1 DEF DispatchTransTimer
    <2>9. QED
      BY <1>13, <2>2, <2>3, <2>4, <2>5, <2>6, <2>7, <2>8 DEF LoopDispatch
  <1>14. CASE HandleConnectedNoPing
    BY <1>14, QueueTakeType DEF HandleConnectedNoPing, Enter, CleanupPing
  <1>15. CASE HandleConnected
    <2>1. PICK p \in Pings : /\ pingtxn' = p
                             /\ tstatus' = [tstatus EXCEPT ![p] = "PENDING"]
                             /\ trans_pending' = Append(trans_pending, p)
                             /\ WriteFromBuf(Append(outbuf, p))
      BY <1>15 DEF HandleConnected
    <2>2. outbuf' \in Seq(Trans) /\ wire' \subseteq Trans /\ blocked' \in BOOLEAN
      <3>1. p \in Trans /\ Append(outbuf, p) \in Seq(Trans)
        BY ToSetAppend DEF Trans
      <3>2. QED BY <2>1, <3>1, WriteFromBufType
    <2>3. QED BY <1>15, <2>1, <2>2 DEF HandleConnected, Enter, PingTimer, TransStatus, Trans
  <1>16. ASSUME NEW type \in {"DISCONNECTED", "ERROR"}, HandleClosed(type)
        PROVE  TypeOK'
    <2>1. ConnError(type)
      BY <1>16 DEF HandleClosed
    <2>2. QED BY <1>16, <2>1, ConnErrorType DEF HandleClosed, Enter, ConnError
  <1>17. CASE HandleRead
    BY <1>17 DEF HandleRead, Enter
  <1>18. CASE HandleWrite
    BY <1>18, WriteFromBufType DEF HandleWrite, Enter
  <1>19. CASE HandleTransTimeout
    BY <1>19, EventTypes DEF HandleTransTimeout, Enter, IsTransTimer, StopTimeout, TransEvents
  <1>20. CASE HandlePingTimeout
    BY <1>20, QueueTakeType DEF HandlePingTimeout, Enter, CleanupPing
  <1>21. CASE HandleIdleTimeout
    BY <1>21 DEF HandleIdleTimeout, Enter, DisconnectIo, ConnStatus
  <1>22. ASSUME NEW t \in Trans, ParseResponse(t)
        PROVE  TypeOK'
    <2>1. /\ QueueTake(trans_pending, t) \in Seq(Trans)
          /\ QueueTake(QueueTake(trans_pending, t), pingtxn) \in Seq(Trans)
      BY QueueTakeType
    <2>2. tstatus' \in [Trans -> TransStatus]
      BY <1>22 DEF ParseResponse, TransStatus
    <2>3. wire' \subseteq Trans /\ trans_done' \subseteq Trans
      BY <1>22 DEF ParseResponse
    <2>4. CASE t = pingtxn
      BY <1>22, <2>1, <2>2, <2>3, <2>4 DEF ParseResponse, CleanupPing
    <2>5. CASE t # pingtxn
      <3>1. ttimer' \in [Trans -> {"none", "armed", "fired"}]
        BY <1>22, <2>5 DEF ParseResponse, StopTimeout
      <3>2. events' \in Seq(Event)
        <4>1. UserEvent("TRANS_DONE", t) \in Event
          BY EventTypes DEF TransEvents
        <4>2. events' = Append(events, UserEvent("TRANS_DONE", t))
          BY <1>22, <2>5 DEF ParseResponse
        <4>3. QED BY <4>1, <4>2
      <3>3. QED BY <1>22, <2>1, <2>2, <2>3, <2>5, <3>1, <3>2 DEF ParseResponse
    <2>6. QED BY <2>4, <2>5
  <1>23. ASSUME NEW t \in Trans, ParseOrphan(t)
        PROVE  TypeOK'
    BY <1>23 DEF ParseOrphan
  <1>24. CASE ParseWait
    BY <1>24 DEF ParseWait, TimerReset
  <1>25. CASE ParseError
    <2>1. ConnError("ERROR")
      BY <1>25 DEF ParseError
    <2>2. QED BY <1>25, <2>1, ConnErrorType DEF ParseError, ConnError
  <1>26. CASE SetConnected
    <2>1. SendReady(trans_ready)
      BY <1>26 DEF SetConnected
    <2>2. /\ tstatus' \in [Trans -> TransStatus]
          /\ params' \in [Trans -> BOOLEAN]
          /\ ttimer' \in [Trans -> {"none", "armed", "fired"}]
          /\ trans_ready' \in Seq(Trans) /\ trans_pending' \in Seq(Trans)
          /\ outbuf' \in Seq(Trans)
          /\ Signalled(trans_ready) \in {"none", "idle", "signaled"}
      BY <2>1, SendReadyType DEF Signalled
    <2>3. events' \in Seq(Event)
      <3>1. UserEvent("CONN_CONNECTED", NoTrans) \in Event
        BY EventTypes DEF ConnEvents
      <3>2. events' = Append(events, UserEvent("CONN_CONNECTED", NoTrans))
        BY <1>26 DEF SetConnected
      <3>3. QED BY <3>1, <3>2
    <2>4. delay_rm' \subseteq Trans /\ pingtxn' = NoTrans
      BY <1>26 DEF SetConnected, PingDeleted, Trans
    <2>5. /\ status' \in ConnStatus
          /\ timer' \in {"none", "stopped", "armed"}
          /\ write_trigger' \in {"none", "idle", "signaled"}
          /\ pc' \in {"callbacks", "reading"}
      BY <1>26, <2>2 DEF SetConnected, ConnStatus
    <2>6. UNCHANGED <<objVars, confVars, ev, call, histVars, io, wire, blocked, trans_new,
                      trans_done, timeout_s>>
      BY <1>26 DEF SetConnected, PingDeleted
    <2>7. QED BY <2>2, <2>3, <2>4, <2>5, <2>6
  <1>27. CASE PingLost
    <2>1. ConnError("ERROR")
      BY <1>27 DEF PingLost
    <2>2. delay_rm' \subseteq Trans
      BY <1>27 DEF PingLost, PingDeleted, Trans
    <2>3. QED BY <1>27, <2>1, <2>2, ConnErrorType DEF PingLost, PingDeleted, ConnError
  <1>28. CASE Deliver
    <2>1. events \in Seq(Event) /\ events # <<>>
      BY <1>28 DEF Deliver
    <2>2. Head(events) \in Event /\ Tail(events) \in Seq(Event)
      BY <2>1, HeadTailProperties
    <2>3. held' \subseteq Trans
      <3>1. Head(events).trans \in Trans \cup {NoTrans}
        BY <2>2, EventTypes
      <3>2. QED BY <1>28, <3>1 DEF Deliver
    <2>4. told' \subseteq Trans
      <3>1. Head(events).type \in {"TRANS_DONE", "TRANS_ERROR"} => Head(events).trans \in Trans
        BY <2>2 DEF Event, ConnEvents
      <3>2. QED BY <1>28, <3>1 DEF Deliver
    <2>5. telling' \in ConnEvents \cup TransEvents \cup {"none"}
      <3>1. Head(events).type \in ConnEvents \cup TransEvents
        BY <2>2 DEF Event
      <3>2. QED BY <1>28, <3>1 DEF Deliver
    <2>6. QED BY <1>28, <2>2, <2>3, <2>4, <2>5 DEF Deliver
  <1>29. CASE CallbackReturns
    BY <1>29 DEF CallbackReturns
  <1>30. CASE AllDelivered
    BY <1>30 DEF AllDelivered
  <1>31. ASSUME NEW t \in Trans, Reap(t)
        PROVE  TypeOK'
    BY <1>31, QueueTakeType DEF Reap, DeleteUnlocked, TimerReset, TransStatus
  <1>32. CASE Release
    <2>1. call' \in [Threads -> {"none", "connect", "register"}]
      BY <1>32 DEF Release
    <2>2. in_use' \in BOOLEAN /\ pc' = "leaving"
      BY <1>32 DEF Release
    <2>3. UNCHANGED <<alive, destroy, linkVars, confVars, queueVars, fieldVars, ev, events,
                      histVars, pingtxn, delay_rm>>
      BY <1>32 DEF Release
    <2>4. QED BY <2>1, <2>2, <2>3
  <1>33. CASE Leave
    <2>1. CASE DestroyIsSet
      BY <1>33, <2>1, FreeConnType DEF Leave
    <2>2. CASE ~DestroyIsSet
      BY <1>33, <2>2 DEF Leave
    <2>3. QED BY <2>1, <2>2
  <1>34. CASE UNCHANGED vars
    BY <1>34 DEF vars
  <1>35. QED
    BY <1>1, <1>2, <1>3, <1>4, <1>5, <1>6, <1>7, <1>8, <1>9, <1>10, <1>11, <1>12, <1>13,
       <1>14, <1>15, <1>16, <1>17, <1>18, <1>19, <1>20, <1>21, <1>22, <1>23, <1>24, <1>25,
       <1>26, <1>27, <1>28, <1>29, <1>30, <1>31, <1>32, <1>33, <1>34
       DEF Next, ApiCall, Handler, Gone

(* A new connection.                                                        *)
LEMMA InitTypes == Init => TypeOK
  <1> SUFFICES ASSUME Init PROVE TypeOK
    OBVIOUS
  <1>1. /\ ev \in IoEvent
        /\ events \in Seq(Event) /\ outbuf \in Seq(Trans)
        /\ trans_ready \in Seq(Trans) /\ trans_pending \in Seq(Trans)
    BY EventTypes DEF Init
  <1>2. /\ tstatus \in [Trans -> TransStatus]
        /\ params \in [Trans -> BOOLEAN] /\ timeout_s \in [Trans -> BOOLEAN]
        /\ ttimer \in [Trans -> {"none", "armed", "fired"}]
        /\ call \in [Threads -> {"none", "connect", "register"}]
    BY DEF Init, TransStatus
  <1>3. QED BY <1>1, <1>2 DEF Init, TypeOK, ConnStatus

(* Type correctness, for any sets of transactions, any application and any  *)
(* faults.                                                                  *)
THEOREM TypeCorrect == Spec => []TypeOK
  BY InitTypes, TypeStep, PTL DEF Spec

-----------------------------------------------------------------------------
(* The queues.  With the types, QueueInv is inductive as it stands: its     *)
(* exception for the ping is what makes it so, because between the two      *)
(* halves of LM_conn_cleanup_ping, and again until the delayed delete is    *)
(* carried out, an unanswered ping is PENDING in no queue.                  *)

(* Steps that leave queues and statuses alone.                              *)
LEMMA QueuesUntouched ==
    ASSUME QueueInv, UNCHANGED queueVars, delay_rm \subseteq delay_rm',
           pc = "ping" => pc' = "ping" /\ pingtxn' = pingtxn
    PROVE  QueueInv'
  BY DEF QueueInv, queueVars

(* LM_trans_delete_unlocked takes the transaction out of its queue.         *)
LEMMA DeleteQueues ==
    ASSUME TypeOK, QueueInv, NEW t \in Trans, DeleteUnlocked(t),
           delay_rm \ {t} \subseteq delay_rm', UNCHANGED <<pc, pingtxn>>
    PROVE  QueueInv'
  <1>1. tstatus' = [tstatus EXCEPT ![t] = "FREE"] /\ tstatus \in [Trans -> TransStatus]
    BY DEF DeleteUnlocked, TypeOK
  <1>2. \A u \in Trans : tstatus'[u] = IF u = t THEN "FREE" ELSE tstatus[u]
    BY <1>1
  <1>3. trans_new' = {u \in Trans : tstatus'[u] = "NEW"}
    BY <1>2 DEF QueueInv, DeleteUnlocked
  <1>4. trans_done' = {u \in Trans : tstatus'[u] = "DONE"}
    BY <1>2 DEF QueueInv, DeleteUnlocked
  <1>5. /\ ToSet(trans_ready') = {u \in Trans : tstatus'[u] = "READY"}
        /\ NoDuplicates(trans_ready')
    <2>1. CASE tstatus[t] = "READY"
      <3>1. trans_ready' = QueueTake(trans_ready, t)
        BY <2>1 DEF DeleteUnlocked
      <3>2. /\ ToSet(QueueTake(trans_ready, t)) = ToSet(trans_ready) \ {t}
            /\ NoDuplicates(QueueTake(trans_ready, t))
        BY QueueTakeEntries DEF TypeOK, QueueInv
      <3>3. QED BY <1>2, <3>1, <3>2 DEF QueueInv
    <2>2. CASE tstatus[t] # "READY"
      BY <1>2, <2>2 DEF QueueInv, DeleteUnlocked
    <2>3. QED BY <2>1, <2>2
  <1>6. /\ ToSet(trans_pending') = ToSet(trans_pending) \ {t}
        /\ NoDuplicates(trans_pending')
    <2>1. CASE tstatus[t] = "PENDING"
      <3>1. trans_pending' = QueueTake(trans_pending, t)
        BY <2>1 DEF DeleteUnlocked
      <3>2. QED BY <3>1, QueueTakeEntries DEF TypeOK, QueueInv
    <2>2. CASE tstatus[t] # "PENDING"
      BY <2>2 DEF QueueInv, DeleteUnlocked
    <2>3. QED BY <2>1, <2>2
  <1>7. ToSet(trans_pending) \subseteq Trans
    BY ToSetByIndex DEF TypeOK
  <1>8. \A u \in ToSet(trans_pending') : tstatus'[u] = "PENDING"
    BY <1>2, <1>6, <1>7 DEF QueueInv
  <1>9. \A u \in Trans : tstatus'[u] = "PENDING" =>
            \/ u \in ToSet(trans_pending')
            \/ u \in Pings /\ (u \in delay_rm' \/ (pc' = "ping" /\ u = pingtxn'))
    BY <1>2, <1>6 DEF QueueInv
  <1>10. QED BY <1>3, <1>4, <1>5, <1>6, <1>8, <1>9 DEF QueueInv

(* LM_trans_send_messages moves the READY queue, and the transaction being  *)
(* sent, if any, to the end of the pending queue.                           *)
LEMMA SendQueues ==
    ASSUME TypeOK, QueueInv, NEW ready \in Seq(Trans), SendReady(ready),
           NEW sent, sent \subseteq trans_new, trans_new' = trans_new \ sent,
           NoDuplicates(ready), ToSet(ready) = ToSet(trans_ready) \cup sent,
           UNCHANGED trans_done, delay_rm \subseteq delay_rm',
           pc = "ping" => \/ pc' = "ping" /\ pingtxn' = pingtxn
                          \/ pingtxn \in Trans /\ tstatus[pingtxn] # "FREE"
                                => pingtxn \in delay_rm'
    PROVE  QueueInv'
  <1>1. \A u \in Trans : tstatus'[u] = IF u \in ToSet(ready) THEN "PENDING" ELSE tstatus[u]
    BY DEF SendReady
  <1>2. \A u \in ToSet(ready) : u \in Trans /\ tstatus[u] \in {"READY", "NEW"}
    BY ToSetByIndex DEF QueueInv
  <1>3. trans_new' = {u \in Trans : tstatus'[u] = "NEW"}
    BY <1>1 DEF QueueInv
  <1>4. trans_done' = {u \in Trans : tstatus'[u] = "DONE"}
    BY <1>1, <1>2 DEF QueueInv
  <1>5. trans_ready' = <<>> /\ \A u \in Trans : tstatus'[u] # "READY"
    BY <1>1 DEF QueueInv, SendReady
  <1>6. ToSet(trans_ready') = {} /\ NoDuplicates(trans_ready')
    BY <1>5, ToSetEmpty
  <1>7. ToSet(trans_pending) \cap ToSet(ready) = {}
    BY <1>2 DEF QueueInv
  <1>8. /\ ToSet(trans_pending') = ToSet(trans_pending) \cup ToSet(ready)
        /\ NoDuplicates(trans_pending')
    <2>1. trans_pending \in Seq(Trans) /\ NoDuplicates(trans_pending)
      BY DEF TypeOK, QueueInv
    <2>2. trans_pending' = trans_pending \o ready
      BY DEF SendReady
    <2>3. QED BY <1>7, <2>1, <2>2, ToSetConcat, NoDuplicatesConcat
  <1>9. ToSet(trans_pending) \subseteq Trans
    BY ToSetByIndex DEF TypeOK
  <1>10. \A u \in ToSet(trans_pending') : tstatus'[u] = "PENDING"
    BY <1>1, <1>2, <1>8, <1>9 DEF QueueInv
  <1>11. \A u \in Trans : tstatus'[u] = "PENDING" =>
            \/ u \in ToSet(trans_pending')
            \/ u \in Pings /\ (u \in delay_rm' \/ (pc' = "ping" /\ u = pingtxn'))
    BY <1>1, <1>8 DEF QueueInv
  <1>12. QED BY <1>3, <1>4, <1>5, <1>6, <1>8, <1>10, <1>11 DEF QueueInv

(* A lost connection moves the pending queue to the done queue.             *)
LEMMA ErrorQueues ==
    ASSUME TypeOK, QueueInv, NEW type, ConnError(type), delay_rm \subseteq delay_rm',
           pc = "ping" => (pingtxn \in Trans /\ tstatus[pingtxn] # "FREE"
                              => pingtxn \in delay_rm')
    PROVE  QueueInv'
  <1>1. \A u \in Trans :
            tstatus'[u] = IF u \in ToSet(trans_pending) THEN "DONE" ELSE tstatus[u]
    BY DEF ConnError, Abandoned
  <1>2. ToSet(trans_pending) \subseteq Trans
    BY ToSetByIndex DEF TypeOK
  <1>3. trans_new' = {u \in Trans : tstatus'[u] = "NEW"}
    BY <1>1 DEF QueueInv, ConnError
  <1>4. trans_done' = {u \in Trans : tstatus'[u] = "DONE"}
    BY <1>1, <1>2 DEF QueueInv, ConnError, Abandoned
  <1>5. /\ ToSet(trans_ready') = {u \in Trans : tstatus'[u] = "READY"}
        /\ NoDuplicates(trans_ready')
    BY <1>1 DEF QueueInv, ConnError
  <1>6. ToSet(trans_pending') = {} /\ NoDuplicates(trans_pending')
    BY ToSetEmpty DEF ConnError
  <1>7. \A u \in Trans : tstatus'[u] = "PENDING" =>
            \/ u \in ToSet(trans_pending')
            \/ u \in Pings /\ (u \in delay_rm' \/ (pc' = "ping" /\ u = pingtxn'))
    BY <1>1 DEF QueueInv
  <1>8. QED BY <1>3, <1>4, <1>5, <1>6, <1>7 DEF QueueInv

(* A freed connection has empty queues.                                     *)
LEMMA FreeQueues ==
    ASSUME FreeConn
    PROVE  QueueInv'
  <1>1. \A u \in Trans : tstatus'[u] = "FREE"
    BY DEF FreeConn
  <1>2. /\ ToSet(trans_ready') = {} /\ NoDuplicates(trans_ready')
        /\ ToSet(trans_pending') = {} /\ NoDuplicates(trans_pending')
    BY ToSetEmpty DEF FreeConn
  <1>3. trans_new' = {} /\ trans_done' = {}
    BY DEF FreeConn
  <1>4. QED BY <1>1, <1>2, <1>3 DEF QueueInv

(* LM_conn_cleanup_ping takes the ping out of the pending queue.            *)
LEMMA CleanupQueues ==
    ASSUME TypeOK, QueueInv, pc # "ping", CleanupPing(trans_pending),
           UNCHANGED <<trans_new, trans_ready, trans_done, tstatus, pingtxn, delay_rm>>
    PROVE  QueueInv'
  <1>1. /\ ToSet(trans_pending') = ToSet(trans_pending) \ {pingtxn}
        /\ NoDuplicates(trans_pending')
    BY QueueTakeEntries DEF TypeOK, QueueInv, CleanupPing
  <1>2. pc' = "ping" /\ pingtxn \in Pings \cup {NoTrans}
    BY DEF CleanupPing, TypeOK
  <1>3. \A u \in Trans : u = pingtxn => u \in Pings
    BY <1>2, ConnAssumption
  <1>4. \A u \in Trans : tstatus'[u] = "PENDING" =>
            \/ u \in ToSet(trans_pending')
            \/ u \in Pings /\ (u \in delay_rm' \/ (pc' = "ping" /\ u = pingtxn'))
    BY <1>1, <1>2, <1>3 DEF QueueInv
  <1>5. QED BY <1>1, <1>4 DEF QueueInv

(* No step breaks the queues.                                               *)
LEMMA QueueStep == TypeOK /\ QueueInv /\ [Next]_vars => QueueInv'
  <1> SUFFICES ASSUME TypeOK, QueueInv, [Next]_vars
               PROVE  QueueInv'
    OBVIOUS
  <1>1. ASSUME NEW a \in Threads, LM_trans_new(a)
        PROVE  QueueInv'
    <2>1. PICK t \in Users : /\ tstatus[t] = "FREE"
                             /\ tstatus' = [tstatus EXCEPT ![t] = "NEW"]
                             /\ trans_new' = trans_new \cup {t}
                             /\ UNCHANGED <<trans_ready, trans_pending, trans_done, pc, pingtxn,
                                            delay_rm>>
      BY <1>1 DEF LM_trans_new, Unused, loopVars
    <2>2. t \in Trans /\ \A u \in Trans : tstatus'[u] = IF u = t THEN "NEW" ELSE tstatus[u]
      BY <2>1 DEF TypeOK, Trans
    <2>3. ToSet(trans_pending) \subseteq Trans
      BY ToSetByIndex DEF TypeOK
    <2>4. trans_new' = {u \in Trans : tstatus'[u] = "NEW"}
      BY <2>1, <2>2 DEF QueueInv
    <2>5. QED BY <2>1, <2>2, <2>3, <2>4 DEF QueueInv
  <1>2. ASSUME NEW a \in Threads, NEW t \in Trans, LM_trans_send(a, t)
        PROVE  QueueInv'
    <2> DEFINE ready == Append(trans_ready, t)
    <2>1. /\ tstatus[t] = "NEW" /\ trans_new' = trans_new \ {t}
          /\ UNCHANGED <<trans_done, pc, pingtxn, delay_rm>>
      BY <1>2 DEF LM_trans_send
    <2>2. t \in trans_new /\ t \notin ToSet(trans_ready)
      BY <2>1 DEF QueueInv
    <2>3. ready \in Seq(Trans) /\ ToSet(ready) = ToSet(trans_ready) \cup {t} /\ NoDuplicates(ready)
      BY <2>2, ToSetAppend DEF TypeOK, QueueInv
    <2>4. CASE CanSend
      <3>1. SendReady(ready)
        BY <1>2, <2>4 DEF LM_trans_send
      <3> HIDE DEF ready
      <3>2. QED BY <2>1, <2>2, <2>3, <3>1, SendQueues
    <2>5. CASE ~CanSend
      <3>1. /\ tstatus' = [tstatus EXCEPT ![t] = "READY"]
            /\ trans_ready' = ready
            /\ UNCHANGED trans_pending
        BY <1>2, <2>5 DEF LM_trans_send
      <3> HIDE DEF ready
      <3>2. \A u \in Trans : tstatus'[u] = IF u = t THEN "READY" ELSE tstatus[u]
        BY <3>1 DEF TypeOK
      <3>3. ToSet(trans_pending) \subseteq Trans
        BY ToSetByIndex DEF TypeOK
      <3>4. trans_new' = {u \in Trans : tstatus'[u] = "NEW"}
        BY <2>1, <3>2 DEF QueueInv
      <3>5. ToSet(trans_ready') = {u \in Trans : tstatus'[u] = "READY"}
        BY <2>3, <3>1, <3>2 DEF QueueInv
      <3>6. QED BY <2>1, <2>3, <3>1, <3>2, <3>3, <3>4, <3>5 DEF QueueInv
    <2>6. QED BY <2>4, <2>5
  <1>3. ASSUME NEW a \in Threads, NEW t \in Trans, LM_trans_delete(a, t)
        PROVE  QueueInv'
    <2>1. CASE Deferred
      BY <1>3, <2>1, QueuesUntouched DEF LM_trans_delete, loopVars
    <2>2. CASE ~Deferred
      <3>1. DeleteUnlocked(t) /\ UNCHANGED <<delay_rm, pc, pingtxn>>
        BY <1>3, <2>2 DEF LM_trans_delete, loopVars
      <3>2. QED BY <3>1, DeleteQueues
    <2>3. QED BY <2>1, <2>2
  <1>4. ASSUME NEW a \in Threads, LM_conn_destroy(a)
        PROVE  QueueInv'
    <2>1. CASE Deferred
      BY <1>4, <2>1, QueuesUntouched DEF LM_conn_destroy, loopVars
    <2>2. CASE ~Deferred
      BY <1>4, <2>2, FreeQueues DEF LM_conn_destroy
    <2>3. QED BY <2>1, <2>2
  <1>5. ASSUME NEW a \in Threads,
               \/ \E t \in Trans : LM_trans_set_param(a, t) \/ LM_trans_set_timeout(a, t)
               \/ LM_conn_connect(a) \/ LM_conn_disconnect(a) \/ LM_conn_disable_ping(a)
               \/ LM_conn_set_idle_timeout(a) \/ ImplicitConnect(a) \/ RegisterIo(a)
        PROVE  QueueInv'
    <2>1. UNCHANGED <<queueVars, pc, pingtxn, delay_rm>>
      BY <1>5 DEF LM_trans_set_param, LM_trans_set_timeout, LM_conn_connect, LM_conn_disconnect,
                  LM_conn_disable_ping, LM_conn_set_idle_timeout, ImplicitConnect, RegisterIo,
                  loopVars
    <2>2. QED BY <2>1, QueuesUntouched
  <1>6. CASE LoopDispatch
    <2>1. UNCHANGED <<queueVars, pingtxn, delay_rm>> /\ pc = "idle"
      BY <1>6 DEF LoopDispatch, DispatchConnected, DispatchClosed, DispatchRead, DispatchWrite,
                  DispatchTrigger, DispatchTimer, DispatchTransTimer, Dispatch
    <2>2. QED BY <2>1, QueuesUntouched
  <1>7. CASE HandleConnectedNoPing
    <2>1. /\ pc # "ping" /\ CleanupPing(trans_pending)
          /\ UNCHANGED <<trans_new, trans_ready, trans_done, tstatus, pingtxn, delay_rm>>
      BY <1>7 DEF HandleConnectedNoPing, Enter
    <2>2. QED BY <2>1, CleanupQueues
  <1>8. CASE HandleConnected
    <2>1. PICK p \in Pings : /\ tstatus[p] = "FREE"
                             /\ tstatus' = [tstatus EXCEPT ![p] = "PENDING"]
                             /\ trans_pending' = Append(trans_pending, p)
      BY <1>8 DEF HandleConnected, Unused
    <2>2. pc = "dispatched" /\ UNCHANGED <<trans_new, trans_ready, trans_done, delay_rm>>
      BY <1>8 DEF HandleConnected, Enter
    <2>3. p \in Trans /\ \A u \in Trans : tstatus'[u] = IF u = p THEN "PENDING" ELSE tstatus[u]
      BY <2>1 DEF TypeOK, Trans
    <2>4. p \notin ToSet(trans_pending) /\ ToSet(trans_pending) \subseteq Trans
      BY <2>1, ToSetByIndex DEF TypeOK, QueueInv
    <2>5. ToSet(trans_pending') = ToSet(trans_pending) \cup {p} /\ NoDuplicates(trans_pending')
      BY <2>1, <2>3, <2>4, ToSetAppend DEF TypeOK, QueueInv
    <2>6. \A u \in Trans : tstatus'[u] = "PENDING" =>
              u \in ToSet(trans_pending') \/ (u \in Pings /\ u \in delay_rm')
      BY <2>2, <2>3, <2>5 DEF QueueInv
    <2>7. QED BY <2>1, <2>2, <2>3, <2>4, <2>5, <2>6 DEF QueueInv
  <1>9. ASSUME NEW type \in {"DISCONNECTED", "ERROR"}, HandleClosed(type)
        PROVE  QueueInv'
    <2>1. ConnError(type) /\ pc = "dispatched" /\ UNCHANGED delay_rm
      BY <1>9 DEF HandleClosed, Enter
    <2>2. QED BY <2>1, ErrorQueues
  <1>10. CASE HandleRead \/ HandleWrite \/ HandleTransTimeout \/ HandleIdleTimeout
    <2>1. UNCHANGED <<queueVars, pingtxn, delay_rm>> /\ pc = "dispatched"
      BY <1>10 DEF HandleRead, HandleWrite, HandleTransTimeout, HandleIdleTimeout, Enter
    <2>2. QED BY <2>1, QueuesUntouched
  <1>11. CASE HandlePingTimeout
    <2>1. /\ pc # "ping" /\ CleanupPing(trans_pending)
          /\ UNCHANGED <<trans_new, trans_ready, trans_done, tstatus, pingtxn, delay_rm>>
      BY <1>11 DEF HandlePingTimeout, Enter
    <2>2. QED BY <2>1, CleanupQueues
  <1>12. ASSUME NEW t \in Trans, ParseResponse(t)
        PROVE  QueueInv'
    <2> DEFINE taken == QueueTake(trans_pending, t)
    <2>1. /\ pc = "reading" /\ tstatus[t] = "PENDING"
          /\ tstatus' = [tstatus EXCEPT ![t] = "DONE"]
          /\ trans_done' = trans_done \cup {t}
          /\ UNCHANGED <<trans_new, trans_ready, pingtxn, delay_rm>>
      BY <1>12 DEF ParseResponse, Parsing
    <2>2. \A u \in Trans : tstatus'[u] = IF u = t THEN "DONE" ELSE tstatus[u]
      BY <2>1 DEF TypeOK
    <2>3. taken \in Seq(Trans) /\ ToSet(taken) = ToSet(trans_pending) \ {t} /\ NoDuplicates(taken)
      BY QueueTakeEntries DEF TypeOK, QueueInv
    <2>4. trans_pending' = taken \/ (t = pingtxn /\ trans_pending' = QueueTake(taken, t))
      BY <1>12 DEF ParseResponse, CleanupPing
    <2> HIDE DEF taken
    <2>5. ToSet(trans_pending') = ToSet(trans_pending) \ {t} /\ NoDuplicates(trans_pending')
      BY <2>3, <2>4, QueueTakeEntries
    <2>6. ToSet(trans_pending) \subseteq Trans
      BY ToSetByIndex DEF TypeOK
    <2>7. trans_done' = {u \in Trans : tstatus'[u] = "DONE"}
      BY <2>1, <2>2 DEF QueueInv
    <2>8. \A u \in Trans : tstatus'[u] = "PENDING" =>
              u \in ToSet(trans_pending') \/ (u \in Pings /\ u \in delay_rm')
      BY <2>1, <2>2, <2>5 DEF QueueInv
    <2>9. QED BY <2>1, <2>2, <2>5, <2>6, <2>7, <2>8 DEF QueueInv
  <1>13. CASE ParseWait \/ \E t \in Trans : ParseOrphan(t)
    <2>1. UNCHANGED <<queueVars, delay_rm>> /\ pc = "reading"
      BY <1>13 DEF ParseWait, ParseOrphan, Parsing
    <2>2. QED BY <2>1, QueuesUntouched
  <1>14. CASE ParseError
    <2>1. ConnError("ERROR") /\ pc = "reading" /\ UNCHANGED delay_rm
      BY <1>14 DEF ParseError, Parsing
    <2>2. QED BY <2>1, ErrorQueues
  <1>15. ASSUME PingDeleted
         PROVE  /\ delay_rm \subseteq delay_rm'
                /\ pingtxn \in Trans /\ tstatus[pingtxn] # "FREE" => pingtxn \in delay_rm'
    BY <1>15, ConnAssumption DEF PingDeleted
  <1>16. CASE SetConnected
    <2>1. /\ PingDeleted /\ SendReady(trans_ready)
          /\ UNCHANGED <<trans_new, trans_done>>
      BY <1>16 DEF SetConnected
    <2>2. trans_ready \in Seq(Trans) /\ NoDuplicates(trans_ready)
      BY DEF TypeOK, QueueInv
    <2>3. QED BY <1>15, <2>1, <2>2, SendQueues
  <1>17. CASE PingLost
    <2>1. PingDeleted /\ ConnError("ERROR")
      BY <1>17 DEF PingLost
    <2>2. QED BY <1>15, <2>1, ErrorQueues
  <1>18. CASE Deliver \/ CallbackReturns \/ AllDelivered \/ Release
    <2>1. UNCHANGED <<queueVars, delay_rm>> /\ pc # "ping"
      BY <1>18 DEF Deliver, CallbackReturns, AllDelivered, Release
    <2>2. QED BY <2>1, QueuesUntouched
  <1>19. ASSUME NEW t \in Trans, Reap(t)
        PROVE  QueueInv'
    <2>1. DeleteUnlocked(t) /\ delay_rm' = delay_rm \ {t} /\ UNCHANGED <<pc, pingtxn>>
      BY <1>19 DEF Reap, loopVars
    <2>2. QED BY <2>1, DeleteQueues
  <1>20. CASE Leave
    <2>1. CASE DestroyIsSet
      BY <1>20, <2>1, FreeQueues DEF Leave
    <2>2. CASE ~DestroyIsSet
      <3>1. UNCHANGED <<queueVars, delay_rm>> /\ pc # "ping"
        BY <1>20, <2>2 DEF Leave
      <3>2. QED BY <3>1, QueuesUntouched
    <2>3. QED BY <2>1, <2>2
  <1>21. CASE UNCHANGED vars
    BY <1>21, QueuesUntouched DEF vars, queueVars, loopVars
  <1>22. QED
    BY <1>1, <1>2, <1>3, <1>4, <1>5, <1>6, <1>7, <1>8, <1>9, <1>10, <1>11, <1>12, <1>13,
       <1>14, <1>16, <1>17, <1>18, <1>19, <1>20, <1>21
       DEF Next, ApiCall, Handler, Gone

(* Every transaction is in exactly the queue its status names, once, after  *)
(* any sequence of API calls, events, deferred deletes and failures, from   *)
(* any number of transactions.                                              *)
THEOREM QueuesCorrect == Spec => []QueueInv
  <1>1. Init => QueueInv
    <2> SUFFICES ASSUME Init PROVE QueueInv
      OBVIOUS
    <2>1. \A u \in Trans : tstatus[u] = "FREE"
      BY DEF Init
    <2>2. QED BY <2>1, ToSetEmpty DEF Init, QueueInv
  <1>2. QED BY <1>1, TypeCorrect, QueueStep, PTL DEF Spec

=============================================================================
