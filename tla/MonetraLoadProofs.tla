------------------------- MODULE MonetraLoadProofs -------------------------
(***************************************************************************)
(* The load generator, for any number of connections and transactions, any *)
(* options and any order of events: it numbers the transactions of a load  *)
(* so that no number is used twice, it ends no job while an answer may     *)
(* still come, and it loses no transaction object.                         *)
(***************************************************************************)
EXTENDS MonetraLoad, ConnStateProofs, FiniteSetTheorems, TLAPS

OptionsOK ==
    opt \in [num_trans : Nat, num_conns : Nat, user_count : Nat, port : Nat, admin_port : Nat,
            user_create : BOOLEAN, user_cleanup : BOOLEAN, user_settle : BOOLEAN]

-----------------------------------------------------------------------------
(* A number of the form c * m + q with q < m determines c and q.            *)

(* Numbers of different blocks of m do not meet.                            *)
LEMMA BlocksApart ==
    ASSUME NEW m \in Nat, NEW c \in Nat, NEW d \in Nat, NEW q \in Nat, NEW r \in Nat,
           q < m, r < m, c < d
    PROVE  c * m + q < d * m + r
<1>1. d = c + 1 + (d - c - 1) /\ d - c - 1 \in Nat
    OBVIOUS
<1>2. PICK k \in Nat : d = c + 1 + k
    BY <1>1
<1>3. d * m = c * m + m + k * m
    BY <1>2
<1>4. k * m \in Nat /\ c * m \in Nat
    OBVIOUS
<1> QED BY <1>3, <1>4

(* A number determines its block and its place in the block.                *)
LEMMA BlockAndPlace ==
    ASSUME NEW m \in Nat, NEW c \in Nat, NEW d \in Nat, NEW q \in Nat, NEW r \in Nat,
           q < m, r < m, c * m + q = d * m + r
    PROVE  c = d /\ q = r
<1>1. c * m \in Nat /\ d * m \in Nat
    OBVIOUS
<1>2. ~(c < d)
    BY <1>1, BlocksApart
<1>3. ~(d < c)
    BY <1>1, BlocksApart
<1> QED BY <1>1, <1>2, <1>3

(* The connection and the place on it determine the transaction.            *)
LEMMA Division ==
    ASSUME NEW i \in Nat, NEW n \in Nat, n > 0
    PROVE  i = n * (i \div n) + (i % n) /\ i \div n \in Nat /\ i % n \in Nat
BY SMT

(* Within the stride, no two requests get the same number.                  *)
LEMMA NumberedOnce ==
    ASSUME OptionsOK, opt.num_conns > 0, NEW i \in Nat, NEW j \in Nat,
           i \div opt.num_conns < Stride, j \div opt.num_conns < Stride,
           Ptrannum(i) = Ptrannum(j)
    PROVE  i = j
<1> DEFINE n == opt.num_conns
<1>1. n \in Nat /\ n > 0 /\ Stride \in Nat
    BY BoundsAssumption DEF OptionsOK
<1> HIDE DEF n
<1>2. /\ i = n * (i \div n) + (i % n) /\ i \div n \in Nat /\ i % n \in Nat
      /\ j = n * (j \div n) + (j % n) /\ j \div n \in Nat /\ j % n \in Nat
    BY <1>1, Division
<1>3. (i % n) * Stride + (i \div n) = (j % n) * Stride + (j \div n)
    BY DEF Ptrannum, ConnOf, n
<1>4. i \div n < Stride /\ j \div n < Stride
    BY DEF n
<1>5. i % n = j % n /\ i \div n = j \div n
    BY <1>1, <1>2, <1>3, <1>4, BlockAndPlace
<1> QED BY <1>2, <1>5

-----------------------------------------------------------------------------
(* The defaults have the types of options.                                  *)
LEMMA InitOptions == Init => OptionsOK
BY CountsAssumption DEF Init, OptionsOK, DefaultOptions

(* Reading options keeps their types.                                       *)
LEMMA NextOptions == OptionsOK /\ [Next]_vars => OptionsOK'
<1> SUFFICES ASSUME OptionsOK, [Next]_vars
             PROVE  OptionsOK'
    OBVIOUS
<1>1. CASE UNCHANGED opt
    BY <1>1 DEF OptionsOK
<1>2. CASE ReadOption
    <2>1. ASSUME NEW name \in Numbers, NEW value \in Counts, ReadNumber(name, value)
          PROVE  OptionsOK'
        BY <2>1, CountsAssumption DEF ReadNumber, OptionsOK, Numbers, Switches
    <2>2. ASSUME NEW name \in Switches, ReadSwitch(name)
          PROVE  OptionsOK'
        BY <2>2 DEF ReadSwitch, OptionsOK, Numbers, Switches, DefaultOptions
    <2>3. ASSUME NEW name \in Ports, ReadNumber(name, 0)
          PROVE  OptionsOK'
        BY <2>3 DEF ReadNumber, OptionsOK, Ports
    <2> QED BY <1>2, <2>1, <2>2, <2>3 DEF ReadOption
<1>3. CASE RefuseOption \/ Status \/ WaitsForNothing \/ Ended \/ UNCHANGED vars
    BY <1>1, <1>3 DEF RefuseOption, Status, WaitsForNothing, Ended, vars
<1>4. CASE Main
    BY <1>1, <1>4 DEF Main, Start, Send, LoopReturns
<1>5. CASE \E c \in Conns : Tells(c) \/ Loses(c)
    BY <1>1, <1>5 DEF Tells, OnConnected, OnClosed, OnTransDone, OnTransLost, Loses
<1> QED BY <1>2, <1>3, <1>4, <1>5 DEF Next

(* monetra_load uses no ptrannum twice in a load, unless a connection gets  *)
(* more transactions than numbers are set aside for it.                     *)
THEOREM PtrannumCorrect == Spec => []PtrannumUnique
<1>1. OptionsOK => PtrannumUnique
    <2> SUFFICES ASSUME OptionsOK, opt.num_conns > 0,
                        NEW i \in 0 .. opt.num_trans - 1, NEW j \in 0 .. opt.num_trans - 1,
                        i \div opt.num_conns < Stride, j \div opt.num_conns < Stride,
                        Ptrannum(i) = Ptrannum(j)
                 PROVE  i = j
        BY DEF PtrannumUnique
    <2>1. i \in Nat /\ j \in Nat
        BY DEF OptionsOK
    <2> QED BY <2>1, NumberedOnce
<1> QED BY <1>1, InitOptions, NextOptions, PTL DEF Spec

-----------------------------------------------------------------------------
(* The jobs: every answer is counted before the next one starts.            *)

(* The connections of the job, those that are not up and have not been,     *)
(* and that no transaction waits anywhere.                                  *)
ToOpen == {c \in Conns : c <= expected_connections}
Trying == {c \in Conns : conn[c].phase \in {"idle", "trying"}}
Quiet == \A c \in Conns : conn[c].owed = 0 /\ conn[c].late = 0

(* The transactions that wait for their event, by their place on their      *)
(* connection.                                                              *)
Waiting == {w \in Conns \X (1 .. expected_trans) : w[2] <= conn[w[1]].owed + conn[w[1]].late}

LoadTypeOK ==
    /\ OptionsOK
    /\ conn \in [Conns -> ConnRecords]
    /\ loop_done \in BOOLEAN
    /\ expected_connections \in Nat /\ connections_established \in Nat
    /\ expected_trans \in Nat /\ transactions_done \in Nat
    /\ handles \in Nat /\ batches \in Nat
    /\ at \in {"options", "connecting", "ready", "waiting", "done", "refused"}
    /\ at \in {"connecting", "ready", "waiting"} => job \in Jobs

ConnectingOK ==
    at = "connecting" =>
        /\ Quiet /\ handles = 0
        /\ \A c \in Conns : conn[c].phase \in {"idle", "trying", "up", "disconnected", "failed", "gone"}
        /\ connections_established + Cardinality(Trying) <= Cardinality(ToOpen)
        /\ loop_done => connections_established = expected_connections /\ expected_connections > 0

Standing ==
    at \in {"ready", "waiting"} =>
        /\ expected_connections \in 1 .. MaxConns
        /\ \A c \in Conns : conn[c].phase \in {"up", "disconnected", "failed", "gone"}

ReadyOK ==
    /\ at = "ready" => Quiet
    /\ at \in {"options", "ready"} => handles = 0

WaitingOK ==
    at = "waiting" =>
        /\ delete_txn_handle = (job # "totals")
        /\ \A c \in Conns : conn[c].owed + conn[c].late <= expected_trans
        /\ Cardinality(Waiting) + transactions_done <= expected_trans
        /\ loop_done => transactions_done = expected_trans
        /\ handles = IF job = "totals" THEN expected_trans ELSE expected_trans - transactions_done

(* A job is over when the counters say so, and they are right: a connection *)
(* that is up, or was, is counted once and there are no more connections    *)
(* than expected; and the answers counted with those still to come are never*)
(* more than the transactions sent, though some are lost without being      *)
(* counted.  Between two jobs nothing waits on any connection.              *)
JobInv == LoadTypeOK /\ ConnectingOK /\ Standing /\ ReadyOK /\ WaitingOK



-----------------------------------------------------------------------------
(* What the helpers return.                                                 *)

(* The numbers of requests and connections of a job are numbers.            *)
LEMMA HowMany ==
    ASSUME OptionsOK, batches \in Nat, NEW j \in Jobs
    PROVE  Requests(j) \in Nat /\ ConnsFor(j) \in Nat /\ JobAfter(j) \in Jobs \cup {"none"}
<1>1. /\ opt.num_trans \in Nat /\ opt.num_conns \in Nat /\ opt.user_count \in Nat
      /\ opt.user_cleanup \in BOOLEAN /\ opt.user_settle \in BOOLEAN
    BY DEF OptionsOK
<1>2. ConnsFor(j) \in Nat
    <2>1. (opt.user_count \div UsersPerConn) + 1 \in Nat
        BY <1>1, BoundsAssumption
    <2> QED BY <1>1, <2>1 DEF ConnsFor
<1>3. AfterLoad \in Jobs \cup {"none"}
    BY DEF AfterLoad, Jobs
<1>4. (IF opt.user_count = 0 THEN 1 ELSE opt.user_count) \in Nat
    BY <1>1
<1>5. j \in {"clear", "add", "load", "totals", "settle", "cleanup"}
    BY DEF Jobs
<1>6. Requests(j) \in Nat
    <2>1. CASE j \in AdminJobs
        BY <1>1, <2>1, Zenon DEF Requests, AdminJobs
    <2>2. CASE j = "load"
        BY <1>1, <2>2, Zenon DEF Requests, AdminJobs
    <2>3. CASE j = "totals"
        BY <1>4, <2>3, Zenon DEF Requests, AdminJobs
    <2>4. CASE j = "settle"
        BY <2>4, Zenon DEF Requests, AdminJobs
    <2> QED BY <1>5, <2>1, <2>2, <2>3, <2>4 DEF AdminJobs
<1>7. JobAfter(j) \in Jobs \cup {"none"}
    <2>1. CASE j = "clear"
        BY <2>1, Zenon DEF JobAfter, Jobs
    <2>2. CASE j = "add"
        BY <2>2, Zenon DEF JobAfter, Jobs
    <2>3. CASE j = "load"
        <3>1. (IF opt.user_settle THEN "totals" ELSE AfterLoad) \in Jobs \cup {"none"}
            BY <1>3 DEF Jobs
        <3> QED BY <2>3, <3>1, Zenon DEF JobAfter
    <2>4. CASE j = "totals"
        BY <2>4, Zenon DEF JobAfter, Jobs
    <2>5. CASE j = "settle"
        BY <1>3, <2>5, Zenon DEF JobAfter
    <2>6. CASE j = "cleanup"
        BY <2>6, Zenon DEF JobAfter, Jobs
    <2> QED BY <1>5, <2>1, <2>2, <2>3, <2>4, <2>5, <2>6
<1> QED BY <1>2, <1>6, <1>7

(* Multiplication is monotonic.                                             *)
LEMMA FactorKept ==
    ASSUME NEW m \in Nat, NEW k \in Nat, NEW q \in Nat, k <= q
    PROVE  k * m <= q * m
<1>1. PICK d \in Nat : q = k + d
    <2>1. q - k \in Nat /\ q = k + (q - k)
        OBVIOUS
    <2> QED BY <2>1
<1>2. q * m = k * m + d * m
    BY <1>1
<1>3. k * m \in Nat /\ d * m \in Nat
    OBVIOUS
<1> QED BY <1>2, <1>3

(* The k-th transaction of connection c is one of the n.                    *)
LEMMA ShareCounts ==
    ASSUME NEW n \in Nat, NEW m \in Nat \ {0}, NEW c \in Nat \ {0}
    PROVE  /\ Share(c, n, m) \in Nat
           /\ \A k \in Nat \ {0} : k <= Share(c, n, m) => c <= m /\ (k - 1) * m + c \in 1 .. n
<1>1. CASE c > m
    BY <1>1 DEF Share
<1>2. CASE c <= m
    <2> DEFINE i == n + m - c
               q == i \div m
    <2>1. i \in Nat /\ Share(c, n, m) = q
        BY <1>2 DEF Share
    <2>2. i = m * q + (i % m) /\ q \in Nat /\ i % m \in Nat
        BY <2>1, Division
    <2>3. q * m <= i
        <3> HIDE DEF i, q
        <3>1. q * m = m * q /\ m * q \in Nat
            BY <2>2
        <3> QED BY <2>1, <2>2, <3>1
    <2>4. ASSUME NEW k \in Nat \ {0}, k <= q
          PROVE  (k - 1) * m + c \in 1 .. n
        <3> HIDE DEF q
        <3>1. k * m <= q * m
            BY <2>2, <2>4, FactorKept
        <3>2. (k - 1) * m = k * m - m /\ (k - 1) * m \in Nat /\ k * m \in Nat /\ q * m \in Nat
            BY <2>2
        <3>3. k * m <= n + m - c
            BY <2>2, <2>3, <3>1, <3>2
        <3> HIDE DEF i
        <3> QED BY <3>2, <3>3
    <2> QED BY <1>2, <2>1, <2>2, <2>4
<1> QED BY <1>1, <1>2

(* No connection gets more requests than there are.                         *)
LEMMA ShareBounded ==
    ASSUME NEW n \in Nat, NEW m \in Nat \ {0}, NEW c \in Nat \ {0}
    PROVE  Share(c, n, m) <= n
<1>1. PICK k \in Nat : k = Share(c, n, m)
    BY ShareCounts
<1>2. CASE k = 0
    BY <1>1, <1>2
<1>3. CASE k # 0
    <2>1. (k - 1) * m + c \in 1 .. n
        <3>1. k \in Nat \ {0} /\ k <= k
            BY <1>3
        <3> QED BY <1>1, <3>1, ShareCounts
    <2>2. PICK j \in Nat : j = k - 1
        BY <1>3
    <2>3. PICK i \in Nat : m = 1 + i
        <3>1. m - 1 \in Nat /\ m = 1 + (m - 1)
            OBVIOUS
        <3> QED BY <3>1
    <2>4. j * m = j + j * i /\ j * i \in Nat
        BY <2>2, <2>3
    <2>5. j * m + c <= n
        BY <2>1, <2>2
    <2>6. k <= n
        BY <2>2, <2>4, <2>5
    <2> QED BY <1>1, <2>6
<1> QED BY <1>2, <1>3

(* A connection and a place on it make a number that no other has.          *)
LEMMA PlaceApart ==
    ASSUME NEW m \in Nat, NEW c \in 1 .. m, NEW d \in 1 .. m,
           NEW k \in Nat \ {0}, NEW l \in Nat \ {0},
           (k - 1) * m + c = (l - 1) * m + d
    PROVE  c = d /\ k = l
<1> DEFINE x == k - 1
           y == l - 1
<1>1. x \in Nat /\ y \in Nat /\ c - 1 \in Nat /\ d - 1 \in Nat /\ c - 1 < m /\ d - 1 < m
      /\ k = x + 1 /\ l = y + 1
    OBVIOUS
<1>2. x * m + (c - 1) = y * m + (d - 1)
    <2> HIDE DEF x, y
    <2>1. x * m \in Nat /\ y * m \in Nat
        BY <1>1
    <2>2. x * m + c = y * m + d
        BY DEF x, y
    <2> QED BY <1>1, <2>1, <2>2
<1>3. x = y /\ c - 1 = d - 1
    BY <1>1, <1>2, BlockAndPlace
<1> QED BY <1>1, <1>3

(* All that is counted is finite.                                           *)
LEMMA PartsFinite ==
    ASSUME NEW n \in Nat
    PROVE  /\ \A S \in SUBSET Conns : IsFiniteSet(S) /\ Cardinality(S) \in Nat
           /\ \A S \in SUBSET (Conns \X (1 .. n)) : IsFiniteSet(S) /\ Cardinality(S) \in Nat
<1>1. IsFiniteSet(Conns)
    BY BoundsAssumption, FS_Interval DEF Conns
<1>2. IsFiniteSet(1 .. n)
    BY FS_Interval
<1>3. IsFiniteSet(Conns \X (1 .. n))
    BY <1>1, <1>2, FS_Product
<1> QED BY <1>1, <1>3, FS_Subset, FS_CardinalityType

-----------------------------------------------------------------------------
(* The steps.                                                               *)

(* start_connections begins a job with nothing on the way.                  *)
LEMMA JobStarts ==
    ASSUME LoadTypeOK, NEW j \in Jobs, StartConnections(j), handles' = 0,
           UNCHANGED <<opt, expected_trans, transactions_done, batches>>
    PROVE  JobInv'
<1>1. ConnsFor(j) \in Nat
    BY HowMany DEF LoadTypeOK
<1> DEFINE Empty(phase) == [phase |-> phase, owed |-> 0, late |-> 0, ping |-> FALSE]
<1>2. Begun(j) \subseteq {Empty("idle"), Empty("trying"), Empty("gone")} /\ Gone = Empty("gone")
    BY DEF Begun, Connecting, Fresh, Gone, Conn
<1>0. PICK begun \in [Conns -> Begun(j)] :
          conn' = [c \in Conns |-> IF c <= ConnsFor(j) THEN begun[c] ELSE Gone]
    BY DEF StartConnections
<1>3. /\ at' = "connecting" /\ job' = j /\ loop_done' = FALSE
      /\ expected_connections' = ConnsFor(j) /\ connections_established' = 0
      /\ conn' \in [Conns -> {Empty("idle"), Empty("trying"), Empty("gone")}]
      /\ \A c \in Conns : ~(c <= ConnsFor(j)) => conn'[c] = Empty("gone")
    BY <1>0, <1>2 DEF StartConnections, Opened
<1>4. conn' \in [Conns -> ConnRecords]
    <2>1. \A phase \in Phases : Empty(phase) \in ConnRecords
        BY DEF ConnRecords
    <2>2. {Empty("idle"), Empty("trying"), Empty("gone")} \subseteq ConnRecords
        BY <2>1 DEF Phases
    <2> QED BY <1>3, <2>2
<1>5. OptionsOK'
    BY DEF LoadTypeOK, OptionsOK
<1>6. LoadTypeOK'
    BY <1>1, <1>3, <1>4, <1>5 DEF LoadTypeOK
<1>8. Trying' \in SUBSET ToOpen'
    BY <1>3 DEF Trying, ToOpen
<1>9. connections_established' + Cardinality(Trying') <= Cardinality(ToOpen')
    <2>1. IsFiniteSet(ToOpen') /\ Cardinality(ToOpen') \in Nat /\ Cardinality(Trying') \in Nat
        <3>1. ToOpen' \in SUBSET Conns /\ Trying' \in SUBSET Conns
            BY DEF ToOpen, Trying
        <3> QED BY <3>1, PartsFinite
    <2>2. Cardinality(Trying') <= Cardinality(ToOpen')
        BY <1>8, <2>1, FS_Subset
    <2> QED BY <1>3, <2>1, <2>2
<1>10. /\ Quiet'
       /\ \A c \in Conns : conn'[c].phase \in {"idle", "trying", "up", "disconnected", "failed", "gone"}
    BY <1>3 DEF Quiet
<1>12. ConnectingOK'
    BY <1>3, <1>9, <1>10 DEF ConnectingOK
<1> QED BY <1>3, <1>6, <1>12 DEF JobInv, Standing, ReadyOK, WaitingOK

(* The next job begins, or the program ends, once all is quiet.             *)
LEMMA JobProceeds ==
    ASSUME LoadTypeOK, Standing, at \in {"ready", "waiting"}, Quiet, NEW left, left = 0,
           Proceed(left),
           UNCHANGED <<opt, expected_trans, transactions_done, batches>>
    PROVE  JobInv'
<1> DEFINE next == JobAfter(job)
<1>1. job \in Jobs /\ next \in Jobs \cup {"none"}
    BY HowMany DEF LoadTypeOK
<1>2. OptionsOK'
    BY DEF LoadTypeOK, OptionsOK
<1>3. CASE SameConns(job, next)
    <2>1. next \in {"add", "totals", "settle"}
        BY <1>3 DEF SameConns
    <2>2. /\ at' = "ready" /\ job' = next /\ handles' = 0
          /\ UNCHANGED <<conn, loop_done, expected_connections, connections_established>>
        BY <1>3 DEF Proceed
    <2>3. LoadTypeOK'
        BY <1>1, <1>2, <2>1, <2>2 DEF LoadTypeOK, Jobs
    <2> QED BY <2>2, <2>3 DEF JobInv, ConnectingOK, Standing, ReadyOK, WaitingOK, Quiet
<1>4. CASE ~SameConns(job, next) /\ next # "none"
    BY <1>1, <1>4, JobStarts DEF Proceed
<1>5. CASE ~SameConns(job, next) /\ next = "none"
    <2>1. /\ at' = "done" /\ handles' = 0 /\ conn' = [c \in Conns |-> Gone]
          /\ UNCHANGED <<job, loop_done, expected_connections, connections_established>>
        BY <1>5 DEF Proceed
    <2>2. Gone \in ConnRecords
        BY DEF Gone, Conn, ConnRecords, Phases
    <2>3. LoadTypeOK'
        BY <1>2, <2>1, <2>2 DEF LoadTypeOK
    <2> QED BY <2>1, <2>3 DEF JobInv, ConnectingOK, Standing, ReadyOK, WaitingOK
<1> QED BY <1>3, <1>4, <1>5

(* What a quiet connection is given is all it has on the way.               *)
LEMMA SentOnQuiet ==
    ASSUME NEW c \in ConnRecords, c.owed = 0, c.late = 0, NEW n \in Nat
    PROVE  SendingAll(c, n).owed + SendingAll(c, n).late = n
<1>1. CASE c.phase = "up"
    <2>1. SendingAll(c, n).owed = n /\ SendingAll(c, n).late = 0
        BY <1>1, SendingAllTypes
    <2> QED BY <2>1
<1>2. CASE c.phase # "up"
    <2>1. SendingAll(c, n).owed = 0 /\ SendingAll(c, n).late = n
        BY <1>2, SendingAllTypes
    <2> QED BY <2>1
<1> QED BY <1>1, <1>2

(* The transactions of a job, spread over its connections, are as many as   *)
(* the answers it waits for.                                                *)
LEMMA SentWaiting ==
    ASSUME LoadTypeOK, Quiet, NEW n \in Nat, NEW m \in 1 .. MaxConns,
           conn' = [c \in Conns |-> SendingAll(conn[c], Share(c, n, m))],
           expected_trans' = n
    PROVE  /\ conn' \in [Conns -> ConnRecords]
           /\ \A c \in Conns : /\ conn'[c].phase = conn[c].phase
                               /\ conn'[c].owed + conn'[c].late <= n
           /\ IsFiniteSet(Waiting') => Cardinality(Waiting') <= n
<1>1. ASSUME NEW c \in Conns
      PROVE  /\ conn'[c] \in ConnRecords /\ conn'[c].phase = conn[c].phase
             /\ conn'[c].owed + conn'[c].late = Share(c, n, m)
    <2>1. c \in Nat \ {0} /\ m \in Nat \ {0}
        BY BoundsAssumption DEF Conns
    <2>4. Share(c, n, m) \in Nat
        BY <2>1, ShareCounts
    <2>2. conn[c] \in ConnRecords /\ conn[c].owed = 0 /\ conn[c].late = 0
        BY DEF LoadTypeOK, Quiet
    <2>3. conn'[c] = SendingAll(conn[c], Share(c, n, m))
        OBVIOUS
    <2>5. SendingAll(conn[c], Share(c, n, m)) \in ConnRecords
        BY <2>2, <2>4, SendingAllTypes
    <2>6. SendingAll(conn[c], Share(c, n, m)).phase = conn[c].phase
        BY <2>2, <2>4, SendingAllTypes
    <2>7. SendingAll(conn[c], Share(c, n, m)).owed + SendingAll(conn[c], Share(c, n, m)).late
              = Share(c, n, m)
        BY <2>2, <2>4, SentOnQuiet
    <2> QED BY <2>3, <2>5, <2>6, <2>7
<1>2. \A c \in Conns : Share(c, n, m) <= n
    <2>1. \A c \in Conns : c \in Nat \ {0}
        BY DEF Conns
    <2> QED BY <2>1, ShareBounded, BoundsAssumption
<1>3. conn' \in [Conns -> ConnRecords]
    BY <1>1
<1>4. ASSUME IsFiniteSet(Waiting')
      PROVE  Cardinality(Waiting') <= n
    <2> DEFINE f == [w \in Waiting' |-> (w[2] - 1) * m + w[1]]
    <2>1. ASSUME NEW w \in Waiting'
          PROVE  /\ w[1] \in 1 .. m /\ w[2] \in Nat \ {0} /\ w = <<w[1], w[2]>>
                 /\ (w[2] - 1) * m + w[1] \in 1 .. n
        <3>1. /\ w \in Conns \X (1 .. expected_trans')
              /\ w[2] <= conn'[w[1]].owed + conn'[w[1]].late
            BY DEF Waiting
        <3>2. w[1] \in Conns /\ w[2] \in 1 .. n /\ w = <<w[1], w[2]>>
            BY <3>1
        <3>3. w[2] <= Share(w[1], n, m)
            BY <1>1, <3>1, <3>2
        <3>4. w[1] \in Nat \ {0} /\ w[2] \in Nat \ {0} /\ m \in Nat \ {0}
            BY <3>2, BoundsAssumption DEF Conns
        <3>5. w[1] <= m /\ (w[2] - 1) * m + w[1] \in 1 .. n
            BY <3>3, <3>4, ShareCounts
        <3>6. w[1] \in 1 .. m
            BY <3>4, <3>5
        <3> QED BY <3>2, <3>4, <3>5, <3>6
    <2>2. f \in [Waiting' -> 1 .. n]
        BY <2>1
    <2>3. ASSUME NEW v \in Waiting', NEW w \in Waiting', f[v] = f[w]
          PROVE  v = w
        <3>1. (v[2] - 1) * m + v[1] = (w[2] - 1) * m + w[1]
            BY <2>3
        <3>2. m \in Nat
            BY BoundsAssumption
        <3>3. v[1] = w[1] /\ v[2] = w[2]
            BY <2>1, <3>1, <3>2, PlaceApart
        <3> QED BY <2>1, <3>3
    <2>4. f \in Injection(Waiting', 1 .. n)
        BY <2>2, <2>3 DEF Injection, IsInjective
    <2>5. IsFiniteSet(1 .. n) /\ Cardinality(1 .. n) = n
        BY FS_Interval
    <2>6. Cardinality(Waiting') <= Cardinality(1 .. n)
        BY <2>4, <2>5, FS_Injection
    <2> QED BY <2>5, <2>6
<1>5. \A c \in Conns : conn'[c].owed + conn'[c].late <= n
    BY <1>1, <1>2
<1> QED BY <1>1, <1>3, <1>4, <1>5

(* send_requests spreads the requests over the connections.                 *)
LEMMA StepSend ==
    ASSUME JobInv, Send
    PROVE  JobInv'
<1> DEFINE n == Requests(job)
<1>1. /\ at = "ready" /\ Quiet /\ handles = 0 /\ job \in Jobs /\ n \in Nat
      /\ expected_connections \in 1 .. MaxConns
    BY HowMany DEF Send, JobInv, LoadTypeOK, ReadyOK, Standing
<1>2. OptionsOK' /\ UNCHANGED opt
    BY DEF Send, JobInv, LoadTypeOK, OptionsOK
<1>3. CASE n = 0
    BY <1>1, <1>3, JobProceeds DEF Send, JobInv
<1>4. CASE n # 0
    <2>1. /\ at' = "waiting" /\ loop_done' = FALSE
          /\ conn' = [c \in Conns |-> SendingAll(conn[c], Share(c, n, expected_connections))]
          /\ handles' = n /\ expected_trans' = n /\ transactions_done' = 0
          /\ delete_txn_handle' = ~(job = "totals")
          /\ batches' \in Nat
          /\ UNCHANGED <<job, expected_connections, connections_established>>
        BY <1>1, <1>4 DEF Send, DoneReset, KeepsHandles, JobInv, LoadTypeOK
    <2> HIDE DEF n
    <2>2. /\ conn' \in [Conns -> ConnRecords]
          /\ \A c \in Conns : /\ conn'[c].phase = conn[c].phase
                              /\ conn'[c].owed + conn'[c].late <= n
          /\ IsFiniteSet(Waiting') => Cardinality(Waiting') <= n
        BY <1>1, <2>1, SentWaiting DEF JobInv
    <2>3. LoadTypeOK'
        BY <1>1, <1>2, <2>1, <2>2 DEF JobInv, LoadTypeOK
    <2>4. IsFiniteSet(Waiting') /\ Cardinality(Waiting') \in Nat
        <3>1. Waiting' \in SUBSET (Conns \X (1 .. n))
            BY <2>1 DEF Waiting
        <3> QED BY <1>1, <3>1, PartsFinite DEF n
    <2>5. WaitingOK'
        BY <1>1, <2>1, <2>2, <2>4 DEF WaitingOK
    <2>6. Standing'
        BY <1>1, <2>1, <2>2 DEF JobInv, Standing
    <2> QED BY <2>1, <2>3, <2>5, <2>6 DEF JobInv, ConnectingOK, ReadyOK
<1> QED BY <1>3, <1>4

(* Once the counter says so, nothing waits.                                 *)
LEMMA AllSettled ==
    ASSUME LoadTypeOK, WaitingOK, at = "waiting", loop_done
    PROVE  Quiet
<1>1. /\ Cardinality(Waiting) + transactions_done <= expected_trans
      /\ transactions_done = expected_trans /\ expected_trans \in Nat
      /\ \A c \in Conns : conn[c].owed + conn[c].late <= expected_trans
    BY DEF WaitingOK, LoadTypeOK
<1>2. IsFiniteSet(Waiting) /\ Cardinality(Waiting) \in Nat
    <2>1. Waiting \in SUBSET (Conns \X (1 .. expected_trans))
        BY DEF Waiting
    <2> QED BY <1>1, <2>1, PartsFinite
<1>3. Waiting = {}
    BY <1>1, <1>2, FS_EmptySet
<1> SUFFICES ASSUME NEW c \in Conns, conn[c].owed + conn[c].late # 0
             PROVE  FALSE
    BY DEF Quiet, LoadTypeOK, ConnRecords
<1>4. conn[c].owed \in Nat /\ conn[c].late \in Nat
    BY DEF LoadTypeOK, ConnRecords
<1>5. 1 \in 1 .. expected_trans /\ 1 <= conn[c].owed + conn[c].late
    BY <1>1, <1>4
<1>6. <<c, 1>> \in Waiting
    BY <1>5 DEF Waiting
<1> QED BY <1>3, <1>6

(* All connections are up, or were: none is still trying, and the job has   *)
(* at least one.                                                            *)
LEMMA StepReturns ==
    ASSUME JobInv, LoopReturns
    PROVE  JobInv'
<1>1. OptionsOK' /\ UNCHANGED <<opt, expected_trans, transactions_done, batches>> /\ loop_done
    BY DEF LoopReturns, JobInv, LoadTypeOK, OptionsOK
<1>2. CASE at = "connecting"
    <2>1. /\ at' = "ready"
          /\ UNCHANGED <<job, conn, loop_done, expected_connections, connections_established, handles>>
        BY <1>2 DEF LoopReturns
    <2>2. /\ connections_established = expected_connections /\ expected_connections > 0
          /\ expected_connections + Cardinality(Trying) <= Cardinality(ToOpen)
          /\ \A c \in Conns : conn[c].phase \in {"idle", "trying", "up", "disconnected", "failed", "gone"}
          /\ Quiet /\ handles = 0 /\ expected_connections \in Nat
        BY <1>1, <1>2 DEF JobInv, LoadTypeOK, ConnectingOK
    <2>3. /\ IsFiniteSet(Trying) /\ Cardinality(Trying) \in Nat
          /\ IsFiniteSet(ToOpen) /\ Cardinality(ToOpen) \in Nat
        <3>1. Trying \in SUBSET Conns /\ ToOpen \in SUBSET Conns
            BY DEF Trying, ToOpen
        <3> QED BY <3>1, PartsFinite
    <2>4. /\ IsFiniteSet(1 .. expected_connections)
          /\ Cardinality(1 .. expected_connections) = expected_connections
        BY <2>2, FS_Interval
    <2>5. ToOpen \in SUBSET (1 .. expected_connections)
        BY <2>2 DEF ToOpen, Conns
    <2>6. /\ Cardinality(ToOpen) <= expected_connections
          /\ Cardinality(ToOpen) = expected_connections => ToOpen = 1 .. expected_connections
        BY <2>4, <2>5, FS_Subset
    <2>7. Cardinality(Trying) = 0 /\ ToOpen = 1 .. expected_connections
        BY <2>2, <2>3, <2>6
    <2>8. Trying = {}
        BY <2>3, <2>7, FS_EmptySet
    <2>9. expected_connections \in 1 .. MaxConns
        BY <2>2, <2>7 DEF ToOpen, Conns
    <2>10. \A c \in Conns : conn[c].phase \in {"up", "disconnected", "failed", "gone"}
        BY <2>2, <2>8 DEF Trying
    <2>11. LoadTypeOK'
        BY <1>1, <1>2, <2>1 DEF JobInv, LoadTypeOK
    <2>12. Quiet'
        BY <2>1, <2>2 DEF Quiet
    <2> QED BY <2>1, <2>2, <2>9, <2>10, <2>11, <2>12 DEF JobInv, ConnectingOK, Standing, ReadyOK, WaitingOK
<1>3. CASE at = "waiting"
    <2>1. Proceed(IF job = "totals" THEN handles - expected_trans ELSE handles)
        BY <1>3 DEF LoopReturns
    <2>2. (IF job = "totals" THEN handles - expected_trans ELSE handles) = 0
        BY <1>1, <1>3 DEF JobInv, LoadTypeOK, WaitingOK
    <2>3. Quiet
        BY <1>1, <1>3, AllSettled DEF JobInv
    <2> QED BY <1>1, <1>3, <2>1, <2>2, <2>3, JobProceeds DEF JobInv
<1> QED BY <1>2, <1>3 DEF LoopReturns

(* The callback for CONN_CONNECTED counts the connection.                   *)
LEMMA StepConnected ==
    ASSUME JobInv, NEW c \in Conns, NEW next, OnConnected(c, next)
    PROVE  JobInv'
<1>1. /\ Looping /\ Event("CONN_CONNECTED", next) \in Told(conn[c])
      /\ conn' = [conn EXCEPT ![c] = next] /\ conn[c] \in ConnRecords
      /\ connections_established' = connections_established + 1
      /\ loop_done' = (loop_done \/ connections_established' = expected_connections)
      /\ UNCHANGED <<at, job, opt, expected_connections, expected_trans, transactions_done,
                     handles, batches>>
    BY DEF OnConnected, Delivered, JobInv, LoadTypeOK
<1>2. /\ conn[c].phase = "trying" /\ next \in ConnRecords
      /\ next.phase \in {"up", "disconnected", "failed"}
      /\ next.owed = conn[c].owed + conn[c].late /\ next.late = 0
    BY <1>1, ToldTypes DEF Lost
<1>3. at = "connecting"
    BY <1>1, <1>2 DEF Looping, JobInv, Standing
<1>4. /\ Quiet /\ handles = 0
      /\ connections_established + Cardinality(Trying) <= Cardinality(ToOpen)
      /\ \A d \in Conns : conn[d].phase \in {"idle", "trying", "up", "disconnected", "failed", "gone"}
      /\ connections_established \in Nat /\ expected_connections \in Nat
      /\ (loop_done => connections_established = expected_connections)
    BY <1>3 DEF JobInv, ConnectingOK, LoadTypeOK
<1>6. LoadTypeOK'
    <2>1. conn' \in [Conns -> ConnRecords]
        BY <1>1, <1>2 DEF JobInv, LoadTypeOK
    <2>2. loop_done' \in BOOLEAN
        BY <1>1 DEF JobInv, LoadTypeOK
    <2>3. OptionsOK'
        BY <1>1 DEF JobInv, LoadTypeOK, OptionsOK
    <2> QED BY <1>1, <2>1, <2>2, <2>3 DEF JobInv, LoadTypeOK
<1>7. /\ conn'[c] = next
      /\ \A d \in Conns \ {c} : conn'[d] = conn[d]
    BY <1>1 DEF JobInv, LoadTypeOK
<1>8. Trying' = Trying \ {c} /\ c \in Trying /\ ToOpen' = ToOpen
    BY <1>1, <1>2, <1>7 DEF Trying, ToOpen
<1>9. /\ IsFiniteSet(Trying) /\ Cardinality(Trying) \in Nat
      /\ IsFiniteSet(ToOpen) /\ Cardinality(ToOpen) \in Nat
    <2>1. Trying \in SUBSET Conns /\ ToOpen \in SUBSET Conns
        BY DEF Trying, ToOpen
    <2> QED BY <2>1, PartsFinite
<1>10. Cardinality(Trying') = Cardinality(Trying) - 1
    BY <1>8, <1>9, FS_RemoveElement
<1>11. connections_established' + Cardinality(Trying') <= Cardinality(ToOpen')
    BY <1>1, <1>4, <1>8, <1>9, <1>10
<1>12. Quiet'
    BY <1>2, <1>4, <1>7 DEF Quiet
<1>13. \A d \in Conns : conn'[d].phase \in {"idle", "trying", "up", "disconnected", "failed", "gone"}
    BY <1>2, <1>4, <1>7
<1>15. ~loop_done
    <2>1. IsFiniteSet(1 .. expected_connections)
          /\ Cardinality(1 .. expected_connections) = expected_connections
        BY <1>4, FS_Interval
    <2>2. ToOpen \in SUBSET (1 .. expected_connections)
        BY <1>4 DEF ToOpen, Conns
    <2>3. Cardinality(ToOpen) <= expected_connections
        BY <2>1, <2>2, FS_Subset
    <2>4. Cardinality(Trying) # 0
        BY <1>8, <1>9, FS_EmptySet
    <2> QED BY <1>4, <1>9, <2>3, <2>4
<1>16. loop_done' => connections_established' = expected_connections' /\ expected_connections' > 0
    <2>1. loop_done' => connections_established' = expected_connections
        BY <1>1, <1>15, Zenon
    <2>2. connections_established' > 0 /\ expected_connections' = expected_connections
        BY <1>1, <1>4
    <2> QED BY <2>1, <2>2
<1>17. ConnectingOK'
    BY <1>1, <1>4, <1>11, <1>12, <1>13, <1>16 DEF ConnectingOK
<1> QED BY <1>1, <1>3, <1>6, <1>17 DEF JobInv, Standing, ReadyOK, WaitingOK

(* An answer or a loss takes one transaction off those that wait.           *)
LEMMA OneLessWaiting ==
    ASSUME LoadTypeOK, NEW c \in Conns, NEW next \in ConnRecords,
           conn[c].owed > 0, conn[c].owed + conn[c].late <= expected_trans,
           next.owed = conn[c].owed - 1, next.late = conn[c].late,
           conn' = [conn EXCEPT ![c] = next], expected_trans' = expected_trans
    PROVE  /\ Cardinality(Waiting') = Cardinality(Waiting) - 1
           /\ Cardinality(Waiting) \in Nat /\ Cardinality(Waiting') \in Nat
<1>1. /\ expected_trans \in Nat /\ conn[c].owed \in Nat /\ conn[c].late \in Nat
      /\ conn'[c] = next /\ \A d \in Conns \ {c} : conn'[d] = conn[d]
    BY DEF LoadTypeOK, ConnRecords
<1>2. PICK k \in 1 .. expected_trans : k = conn[c].owed + conn[c].late
    BY <1>1
<1>3. next.owed + next.late = k - 1
    BY <1>1, <1>2
<1>4. <<c, k>> \in Waiting
    BY <1>2 DEF Waiting
<1>5. Waiting' = Waiting \ {<<c, k>>}
    <2>1. ASSUME NEW w \in Conns \X (1 .. expected_trans)
          PROVE  w \in Waiting' <=> w \in Waiting /\ w # <<c, k>>
        <3>1. w = <<w[1], w[2]>> /\ w[1] \in Conns /\ w[2] \in 1 .. expected_trans
            OBVIOUS
        <3>2. w \in Waiting' <=> w[2] <= conn'[w[1]].owed + conn'[w[1]].late
            BY DEF Waiting
        <3>3. w \in Waiting <=> w[2] <= conn[w[1]].owed + conn[w[1]].late
            BY DEF Waiting
        <3>4. CASE w[1] = c
            <4>1. w # <<c, k>> <=> w[2] # k
                BY <3>1, <3>4
            <4>2. w[2] <= k - 1 <=> w[2] <= k /\ w[2] # k
                BY <3>1
            <4> QED BY <1>1, <1>2, <1>3, <3>2, <3>3, <3>4, <4>1, <4>2
        <3>5. CASE w[1] # c
            BY <1>1, <3>1, <3>2, <3>3, <3>5
        <3> QED BY <3>4, <3>5
    <2>2. Waiting \subseteq Conns \X (1 .. expected_trans)
          /\ Waiting' \subseteq Conns \X (1 .. expected_trans)
        BY DEF Waiting
    <2> QED BY <2>1, <2>2
<1>6. IsFiniteSet(Waiting) /\ Cardinality(Waiting) \in Nat
    <2>1. Waiting \in SUBSET (Conns \X (1 .. expected_trans))
        BY DEF Waiting
    <2> QED BY <1>1, <2>1, PartsFinite
<1>7. Cardinality(Waiting') = Cardinality(Waiting) - 1
    BY <1>4, <1>5, <1>6, FS_RemoveElement
<1>8. Cardinality(Waiting) # 0
    BY <1>4, <1>6, FS_EmptySet
<1> QED BY <1>6, <1>7, <1>8

(* Steps that touch neither connections nor counters.                       *)
LEMMA NothingMoves ==
    ASSUME JobInv,
           UNCHANGED <<at, job, opt, conn, loop_done, expected_connections,
                       connections_established, expected_trans, transactions_done,
                       delete_txn_handle, handles, batches>>
    PROVE  JobInv'
<1>1. LoadTypeOK'
    BY DEF JobInv, LoadTypeOK, OptionsOK
<1>2. Trying' = Trying /\ ToOpen' = ToOpen /\ Waiting' = Waiting /\ (Quiet' <=> Quiet)
    BY DEF Trying, ToOpen, Waiting, Quiet
<1>3. ConnectingOK'
    BY <1>2 DEF JobInv, ConnectingOK
<1>4. WaitingOK'
    BY <1>2 DEF JobInv, WaitingOK
<1> QED BY <1>1, <1>2, <1>3, <1>4 DEF JobInv, Standing, ReadyOK

(* The callback for TRANS_DONE counts the answer.                           *)
LEMMA StepDone ==
    ASSUME JobInv, NEW c \in Conns, NEW next, OnTransDone(c, next)
    PROVE  JobInv'
<1>1. /\ Looping /\ Event("TRANS_DONE", next) \in Told(conn[c])
      /\ conn' = [conn EXCEPT ![c] = next] /\ conn[c] \in ConnRecords
      /\ transactions_done' = transactions_done + 1
      /\ UNCHANGED <<job, opt, expected_connections, connections_established, expected_trans,
                     delete_txn_handle>>
    BY DEF OnTransDone, Delivered, JobInv, LoadTypeOK, flags
<1>2. /\ conn[c].owed > 0 /\ next \in ConnRecords
      /\ next.phase = conn[c].phase /\ next.owed = conn[c].owed - 1 /\ next.late = conn[c].late
    BY <1>1, ToldTypes
<1>3. at = "waiting" /\ conn[c].owed \in Nat
    BY <1>1, <1>2 DEF Looping, JobInv, ConnectingOK, Quiet, ConnRecords
<1>4. /\ conn[c].owed + conn[c].late <= expected_trans
      /\ Cardinality(Waiting) + transactions_done <= expected_trans
      /\ delete_txn_handle = (job # "totals")
      /\ \A d \in Conns : conn[d].owed + conn[d].late <= expected_trans
      /\ expected_trans \in Nat /\ transactions_done \in Nat
      /\ handles = IF job = "totals" THEN expected_trans ELSE expected_trans - transactions_done
    BY <1>3 DEF JobInv, WaitingOK, LoadTypeOK
<1>5. /\ Cardinality(Waiting') = Cardinality(Waiting) - 1
      /\ Cardinality(Waiting) \in Nat /\ Cardinality(Waiting') \in Nat
    BY <1>1, <1>2, <1>4, OneLessWaiting DEF JobInv
<1>6. Cardinality(Waiting') + transactions_done' <= expected_trans'
    BY <1>1, <1>4, <1>5
<1>7. /\ conn'[c] = next
      /\ \A d \in Conns \ {c} : conn'[d] = conn[d]
      /\ conn' \in [Conns -> ConnRecords]
    BY <1>1, <1>2 DEF JobInv, LoadTypeOK
<1>8. \A d \in Conns : conn'[d].owed + conn'[d].late <= expected_trans'
    <2>1. next.owed + next.late <= expected_trans
        BY <1>1, <1>2, <1>4 DEF ConnRecords
    <2> QED BY <1>1, <1>4, <1>7, <2>1
<1>9. OptionsOK'
    BY <1>1 DEF JobInv, LoadTypeOK, OptionsOK
<1>10. CASE at' = "refused" /\ UNCHANGED <<loop_done, handles, batches>>
    <2>1. LoadTypeOK'
        BY <1>1, <1>7, <1>9, <1>10 DEF JobInv, LoadTypeOK
    <2> QED BY <1>10, <2>1 DEF JobInv, ConnectingOK, Standing, ReadyOK, WaitingOK
<1>11. CASE /\ loop_done' = (loop_done \/ AllAnswered)
            /\ handles' = IF delete_txn_handle THEN handles - 1 ELSE handles
            /\ batches' \in IF job = "totals" THEN batches .. batches + MaxBatches ELSE {batches}
            /\ UNCHANGED at
    <2>1. handles' = IF job' = "totals" THEN expected_trans' ELSE expected_trans' - transactions_done'
        <3>1. CASE job = "totals"
            <4>1. ~delete_txn_handle
                BY <1>4, <3>1
            <4> QED BY <1>1, <1>4, <1>11, <3>1, <4>1
        <3>2. CASE job # "totals"
            <4>1. delete_txn_handle
                BY <1>4, <3>2
            <4>2. handles' = handles - 1 /\ handles = expected_trans - transactions_done
                BY <1>4, <1>11, <3>2, <4>1
            <4> QED BY <1>1, <1>4, <3>2, <4>2
        <3> QED BY <3>1, <3>2
    <2>2. handles' \in Nat
        BY <1>1, <1>4, <1>5, <1>6, <2>1
    <2>3. batches' \in Nat
        <3>1. batches \in Nat /\ MaxBatches \in Nat
            BY BoundsAssumption DEF JobInv, LoadTypeOK
        <3>2. CASE job = "totals"
            BY <1>11, <3>1, <3>2
        <3>3. CASE job # "totals"
            BY <1>11, <3>1, <3>3
        <3> QED BY <3>2, <3>3
    <2>4. loop_done' \in BOOLEAN
        BY <1>11 DEF AllAnswered, JobInv, LoadTypeOK
    <2>5. loop_done' => transactions_done' = expected_trans'
        <3>1. ~loop_done
            BY <1>3, <1>4, <1>5 DEF JobInv, WaitingOK
        <3> QED BY <1>1, <1>11, <3>1, Zenon DEF AllAnswered
    <2>6. LoadTypeOK'
        <3>1. /\ expected_connections' \in Nat /\ connections_established' \in Nat
              /\ expected_trans' \in Nat /\ transactions_done' \in Nat
            BY <1>1, <1>4 DEF JobInv, LoadTypeOK
        <3>2. at' = "waiting" /\ job' \in Jobs
            BY <1>1, <1>3, <1>11 DEF JobInv, LoadTypeOK
        <3> QED BY <1>7, <1>9, <2>2, <2>3, <2>4, <3>1, <3>2 DEF LoadTypeOK
    <2>7. delete_txn_handle' = (job' # "totals")
        BY <1>1, <1>4
    <2>8. WaitingOK'
        BY <1>6, <1>8, <2>1, <2>5, <2>7 DEF WaitingOK
    <2>9. Standing'
        <3>1. /\ expected_connections \in 1 .. MaxConns
              /\ \A d \in Conns : conn[d].phase \in {"up", "disconnected", "failed", "gone"}
            BY <1>3 DEF JobInv, Standing
        <3>2. \A d \in Conns : conn'[d].phase \in {"up", "disconnected", "failed", "gone"}
            BY <1>2, <1>7, <3>1
        <3> QED BY <1>1, <3>1, <3>2 DEF Standing
    <2> QED BY <1>3, <1>11, <2>6, <2>8, <2>9 DEF JobInv, ConnectingOK, ReadyOK
<1> QED BY <1>10, <1>11 DEF OnTransDone

(* The callbacks for TRANS_ERROR and TRANS_NOCONNECT count nothing.         *)
LEMMA StepTransLost ==
    ASSUME JobInv, NEW c \in Conns, NEW next, OnTransLost(c, next)
    PROVE  JobInv'
<1>1. PICK type \in {"TRANS_ERROR", "TRANS_NOCONNECT"} :
          /\ Looping /\ Event(type, next) \in Told(conn[c])
          /\ conn' = [conn EXCEPT ![c] = next] /\ conn[c] \in ConnRecords
    BY DEF OnTransLost, Delivered, JobInv, LoadTypeOK
<1>2. UNCHANGED <<at, job, opt, loop_done, counters, flags, handles, batches>>
    BY DEF OnTransLost
<1>3. CASE type = "TRANS_NOCONNECT"
    <2>1. next = conn[c]
        BY <1>1, <1>3, ToldTypes
    <2>2. UNCHANGED conn
        BY <1>1, <2>1 DEF JobInv, LoadTypeOK
    <2> QED BY <1>2, <2>2, NothingMoves DEF counters, flags
<1>5. CASE type = "TRANS_ERROR" /\ next.owed = conn[c].owed
    <2>1. /\ next \in ConnRecords /\ next.phase = conn[c].phase
          /\ next.owed = conn[c].owed /\ next.late = conn[c].late
        BY <1>1, <1>5, ToldTypes
    <2>2. /\ conn'[c] = next
          /\ \A d \in Conns \ {c} : conn'[d] = conn[d]
          /\ conn' \in [Conns -> ConnRecords]
        BY <1>1, <2>1 DEF JobInv, LoadTypeOK
    <2>3. \A d \in Conns : /\ conn'[d].phase = conn[d].phase
                           /\ conn'[d].owed = conn[d].owed /\ conn'[d].late = conn[d].late
        BY <2>1, <2>2
    <2>4. Trying' = Trying /\ ToOpen' = ToOpen /\ Waiting' = Waiting /\ (Quiet' <=> Quiet)
        BY <1>2, <2>3 DEF Trying, ToOpen, Waiting, Quiet, counters
    <2>5. LoadTypeOK'
        BY <1>2, <2>2 DEF JobInv, LoadTypeOK, OptionsOK, counters
    <2>6. ConnectingOK' /\ Standing'
        BY <1>2, <2>3, <2>4 DEF JobInv, ConnectingOK, Standing, counters
    <2>7. WaitingOK'
        BY <1>2, <2>3, <2>4 DEF JobInv, WaitingOK, counters, flags
    <2> QED BY <1>2, <2>4, <2>5, <2>6, <2>7 DEF JobInv, ReadyOK
<1>4. CASE type = "TRANS_ERROR" /\ next.owed # conn[c].owed
    <2>1. /\ conn[c].owed > 0 /\ next \in ConnRecords
          /\ next.phase = conn[c].phase /\ next.owed = conn[c].owed - 1 /\ next.late = conn[c].late
        BY <1>1, <1>4, ToldTypes
    <2>2. at = "waiting" /\ conn[c].owed \in Nat
        BY <1>1, <2>1 DEF Looping, JobInv, ConnectingOK, Quiet, ConnRecords
    <2>3. /\ conn[c].owed + conn[c].late <= expected_trans
          /\ Cardinality(Waiting) + transactions_done <= expected_trans
          /\ \A d \in Conns : conn[d].owed + conn[d].late <= expected_trans
          /\ expected_trans \in Nat /\ transactions_done \in Nat
        BY <2>2 DEF JobInv, WaitingOK, LoadTypeOK
    <2>4. /\ Cardinality(Waiting') = Cardinality(Waiting) - 1
          /\ Cardinality(Waiting) \in Nat /\ Cardinality(Waiting') \in Nat
        BY <1>1, <1>2, <2>1, <2>3, OneLessWaiting DEF JobInv, counters
    <2>5. Cardinality(Waiting') + transactions_done' <= expected_trans'
        BY <1>2, <2>3, <2>4 DEF counters
    <2>6. /\ conn'[c] = next
          /\ \A d \in Conns \ {c} : conn'[d] = conn[d]
          /\ conn' \in [Conns -> ConnRecords]
        BY <1>1, <2>1 DEF JobInv, LoadTypeOK
    <2>7. \A d \in Conns : conn'[d].owed + conn'[d].late <= expected_trans'
        <3>1. next.owed + next.late <= expected_trans
            BY <1>1, <2>1, <2>3 DEF ConnRecords
        <3> QED BY <1>2, <2>3, <2>6, <3>1 DEF counters
    <2>8. LoadTypeOK'
        BY <1>2, <2>6 DEF JobInv, LoadTypeOK, OptionsOK, counters
    <2>9. WaitingOK'
        BY <1>2, <2>2, <2>5, <2>7 DEF JobInv, WaitingOK, counters, flags
    <2>10. Standing'
        <3>1. \A d \in Conns : conn'[d].phase = conn[d].phase
            BY <2>1, <2>6
        <3> QED BY <1>2, <3>1 DEF JobInv, Standing, counters
    <2> QED BY <1>2, <2>2, <2>8, <2>9, <2>10 DEF JobInv, ConnectingOK, ReadyOK
<1> QED BY <1>1, <1>3, <1>4, <1>5

(* A connection fails or the server closes it.                              *)
LEMMA StepLoses ==
    ASSUME JobInv, NEW c \in Conns, Loses(c)
    PROVE  JobInv'
<1>1. PICK next \in Losing(conn[c]) : conn' = [conn EXCEPT ![c] = next]
    BY DEF Loses
<1>2. UNCHANGED <<at, job, opt, loop_done, counters, flags, handles, batches>>
    BY DEF Loses
<1>3. conn[c] \in ConnRecords
    BY DEF JobInv, LoadTypeOK
<1>4. /\ next \in ConnRecords
      /\ conn[c].phase \in {"trying", "up", "leaving"} /\ next.phase \in {"disconnected", "failed"}
      /\ next.owed = conn[c].owed /\ next.late = conn[c].late
    BY <1>1, <1>3, LosingTypes DEF Lost
<1>5. /\ conn'[c] = next
      /\ \A d \in Conns \ {c} : conn'[d] = conn[d]
      /\ conn' \in [Conns -> ConnRecords]
    BY <1>1, <1>4 DEF JobInv, LoadTypeOK
<1>6. \A d \in Conns : conn'[d].owed = conn[d].owed /\ conn'[d].late = conn[d].late
    BY <1>4, <1>5
<1>7. Waiting' = Waiting
    BY <1>2, <1>6 DEF Waiting, counters
<1>8. LoadTypeOK'
    BY <1>2, <1>5 DEF JobInv, LoadTypeOK, OptionsOK, counters
<1>9. Quiet' <=> Quiet
    BY <1>6 DEF Quiet
<1>10. ConnectingOK'
    <2> SUFFICES ASSUME at = "connecting"
                 PROVE  ConnectingOK'
        BY <1>2 DEF ConnectingOK
    <2>1. /\ Trying \in SUBSET Conns /\ ToOpen \in SUBSET Conns
          /\ Trying' \in SUBSET Trying /\ ToOpen' = ToOpen
        BY <1>2, <1>4, <1>5 DEF Trying, ToOpen, counters
    <2>2. /\ IsFiniteSet(Trying) /\ Cardinality(Trying) \in Nat /\ Cardinality(ToOpen) \in Nat
          /\ Cardinality(Trying') \in Nat
        BY <2>1, PartsFinite
    <2>3. Cardinality(Trying') <= Cardinality(Trying)
        BY <2>1, <2>2, FS_Subset
    <2>4. /\ connections_established + Cardinality(Trying) <= Cardinality(ToOpen)
          /\ connections_established \in Nat
        BY DEF JobInv, ConnectingOK, LoadTypeOK
    <2>5. connections_established' + Cardinality(Trying') <= Cardinality(ToOpen')
        BY <1>2, <2>1, <2>2, <2>3, <2>4 DEF counters
    <2>6. \A d \in Conns : conn'[d].phase \in {"idle", "trying", "up", "disconnected", "failed", "gone"}
        BY <1>4, <1>5 DEF JobInv, ConnectingOK
    <2> QED BY <1>2, <1>9, <2>5, <2>6 DEF JobInv, ConnectingOK, counters
<1>11. Standing'
    <2>1. Standing
        BY DEF JobInv
    <2> QED BY <1>2, <1>4, <1>5, <2>1 DEF Standing, counters
<1>12. WaitingOK'
    BY <1>2, <1>6, <1>7 DEF JobInv, WaitingOK, counters, flags
<1> QED BY <1>2, <1>8, <1>9, <1>10, <1>11, <1>12 DEF JobInv, ReadyOK

-----------------------------------------------------------------------------
(* JobInv holds before any option is read.                                  *)
LEMMA InitJob == Init => JobInv
<1> SUFFICES ASSUME Init
             PROVE  JobInv
    OBVIOUS
<1>1. Gone \in ConnRecords
    BY DEF Gone, Conn, ConnRecords, Phases
<1>2. LoadTypeOK
    BY <1>1, InitOptions DEF Init, LoadTypeOK
<1> QED BY <1>2 DEF Init, JobInv, ConnectingOK, Standing, ReadyOK, WaitingOK

(* Every step of the program keeps JobInv.                                  *)
LEMMA NextJob == JobInv /\ [Next]_vars => JobInv'
<1> SUFFICES ASSUME JobInv, [Next]_vars
             PROVE  JobInv'
    OBVIOUS
<1>1. OptionsOK'
    BY NextOptions DEF JobInv, LoadTypeOK
<1>2. CASE ReadOption \/ RefuseOption
    <2>1. /\ at = "options" /\ at' \in {"options", "refused"}
          /\ UNCHANGED <<job, conn, loop_done, counters, flags, handles, batches>>
        BY <1>2 DEF ReadOption, RefuseOption
    <2>2. LoadTypeOK'
        BY <1>1, <2>1 DEF JobInv, LoadTypeOK, counters
    <2> QED BY <2>1, <2>2 DEF JobInv, ConnectingOK, Standing, ReadyOK, WaitingOK
<1>3. CASE Start
    <2>1. FirstJob \in Jobs
        BY DEF FirstJob, Jobs
    <2>2. handles = 0
        BY <1>3 DEF Start, JobInv, ReadyOK
    <2> QED BY <1>3, <2>1, <2>2, JobStarts DEF Start, JobInv
<1>4. CASE Send \/ LoopReturns
    BY <1>4, StepSend, StepReturns
<1>5. ASSUME NEW c \in Conns, Tells(c)
      PROVE  JobInv'
    <2>1. PICK next : \/ OnConnected(c, next) \/ OnClosed(c, next)
                      \/ OnTransDone(c, next) \/ OnTransLost(c, next)
        BY <1>5 DEF Tells
    <2>2. CASE OnClosed(c, next)
        <3>1. PICK type : Event(type, next) \in Told(conn[c]) /\ conn' = [conn EXCEPT ![c] = next]
            BY <2>2 DEF OnClosed, Delivered
        <3>2. conn[c] \in ConnRecords
            BY DEF JobInv, LoadTypeOK
        <3>3. next \in ConnRecords
            BY <3>1, <3>2, ToldTypes
        <3>4. at' = "refused" /\ UNCHANGED <<job, opt, loop_done, counters, flags, handles, batches>>
            BY <2>2 DEF OnClosed
        <3>5. LoadTypeOK'
            BY <1>1, <3>1, <3>3, <3>4 DEF JobInv, LoadTypeOK, counters
        <3> QED BY <3>4, <3>5 DEF JobInv, ConnectingOK, Standing, ReadyOK, WaitingOK
    <2> QED BY <2>1, <2>2, StepConnected, StepDone, StepTransLost
<1>6. ASSUME NEW c \in Conns, Loses(c)
      PROVE  JobInv'
    BY <1>6, StepLoses
<1>7. CASE Status
    BY <1>7, NothingMoves DEF Status, flags
<1>8. CASE WaitsForNothing \/ Ended \/ UNCHANGED vars
    BY <1>8, NothingMoves DEF WaitsForNothing, Ended, vars, counters, flags
<1> QED BY <1>2, <1>3, <1>4, <1>5, <1>6, <1>7, <1>8 DEF Next, Main

(* monetra_load never leaves the loop of send_requests while a transaction  *)
(* of the job still waits for its event, whatever was lost on the way.      *)
THEOREM JobAnsweredCorrect == Spec => []JobAnswered
<1>1. JobInv => JobAnswered
    BY AllSettled DEF JobInv, JobAnswered, Quiet
<1> QED BY <1>1, InitJob, NextJob, PTL DEF Spec

(* While it waits, there are as many transaction objects as there are       *)
(* answers to come or, for the totals, as were asked for.                   *)
THEOREM HandlesCorrect == Spec => []HandlesExact
<1>1. JobInv => HandlesExact
    BY DEF JobInv, WaitingOK, HandlesExact
<1> QED BY <1>1, InitJob, NextJob, PTL DEF Spec
=============================================================================
