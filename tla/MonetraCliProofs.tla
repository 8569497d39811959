-------------------------- MODULE MonetraCliProofs --------------------------
(***************************************************************************)
(* The command line client: the amounts it draws, for every amount given   *)
(* with -r and wherever the slow amounts lie; when it closes its           *)
(* connection, for any number of requests and whatever the connection      *)
(* does; and what its options make of a request.                           *)
(***************************************************************************)
EXTENDS MonetraCli, ConnStateProofs

(* With a single value (cli_parse_random_amount, one decimal) 1 is always   *)
(* among the amounts, because the slow ones start later.                    *)
LEMMA SingleAllowed ==
    ASSUME NEW max \in Nat
    PROVE  Allowed(OfSingle(max), Range(1, max))
<1> DEFINE r == OfSingle(max)
<1>1. r.min = 1 /\ r.max = max
    BY DEF OfSingle, Range
<1>2. ASSUME r.min < r.max
      PROVE  Kept(r) # {}
    <2>1. 1 \in Kept(r)
        BY <1>1, <1>2, SlowAssumption DEF Kept, Drawn, Slow
    <2> QED BY <2>1
<1>3. ASSUME r.min < r.max
      PROVE  Kept(r) \subseteq (1 .. max) \ Slow
    BY <1>1, <1>3 DEF Kept, Drawn
<1> QED BY <1>2, <1>3 DEF Allowed, Range

(* Of a pair that is not refused, the first amount that is left after the   *)
(* slow ones were avoided can be drawn.                                     *)
LEMMA PairAllowed ==
    ASSUME NEW min \in Nat, NEW max \in Nat,
           ~Refused(OfPair(min, max))
    PROVE  Allowed(Avoided(OfPair(min, max)), Range(min, max))
<1> DEFINE r == Avoided(OfPair(min, max))
           low == IF min \in Slow THEN SlowLast + 1 ELSE min
           high == IF max + 1 \in Slow THEN low + 1 ELSE max + 1
<1>1. r.min = low /\ r.max = high
    BY DEF Avoided, OfPair, Range
<1>2. min <= max + 1 /\ (min < SlowFirst \/ max + 1 > SlowLast)
    BY SlowAssumption DEF Refused, OfPair, Range
<1>3. low \in Nat /\ low \notin Slow /\ min <= low
    BY SlowAssumption DEF Slow
<1>4. ASSUME r.min < r.max
      PROVE  Kept(r) # {}
    <2>1. low \in Kept(r)
        BY <1>1, <1>3, <1>4 DEF Kept, Drawn, Slow
    <2> QED BY <2>1
<1>5. ASSUME r.min < r.max
      PROVE  \A n \in Kept(r) : n \in min .. max
    <2> SUFFICES ASSUME NEW n \in Int, low <= n, n < high
                 PROVE  n <= max
        BY <1>1, <1>3, <1>5 DEF Kept, Drawn
    <2>1. CASE max + 1 \in Slow
        <3>1. n = low /\ min \notin Slow /\ low = min
            BY <1>2, <1>3, <2>1, SlowAssumption DEF Slow
        <3> QED BY <1>2, <2>1, <3>1, SlowAssumption DEF Slow
    <2>2. CASE max + 1 \notin Slow
        BY <2>2
    <2> QED BY <2>1, <2>2
<1>6. Kept(r) \cap Slow = {}
    BY DEF Kept
<1>7. Range(min, max).min = min /\ Range(min, max).max = max
    BY DEF Range
<1> QED BY <1>4, <1>5, <1>6, <1>7 DEF Allowed

-----------------------------------------------------------------------------
(* The other options leave the range alone.                                *)
AmountInv == "amount" \in DOMAIN opts /\ AmountsAllowed

(* An option that was not given allows anything.                            *)
LEMMA UnusedAllowed == \A asked_ : Allowed(Range(0, 0), asked_)
BY DEF Allowed, InUse, Range

(* AmountInv holds before any option is read.                               *)
LEMMA InitAmount == Init => AmountInv
BY UnusedAllowed DEF Init, AmountInv, AmountsAllowed, DefaultOpts

(* Every step of the program keeps AmountInv.                               *)
LEMMA NextAmount == AmountInv /\ [Next]_vars => AmountInv'
<1> SUFFICES ASSUME AmountInv, [Next]_vars
             PROVE  AmountInv'
    OBVIOUS
<1>1. ASSUME UNCHANGED <<opts, asked>>
      PROVE  AmountInv'
    BY <1>1 DEF AmountInv, AmountsAllowed
<1>2. CASE ReadSetting
    <2>1. PICK name : /\ name # "amount"
                      /\ \E value : opts' = [opts EXCEPT ![name] = value]
                      /\ asked' = asked
        BY <1>2 DEF ReadSetting, Set, Read
    <2>2. "amount" \in DOMAIN opts' /\ opts'.amount = opts.amount
        BY <2>1 DEF AmountInv
    <2> QED BY <2>1, <2>2 DEF AmountInv, AmountsAllowed
<1>3. CASE ReadKvs \/ ReadRkeys
    <2>1. /\ "amount" \in DOMAIN opts' /\ opts'.amount = opts.amount
          /\ asked' = asked
        BY <1>3 DEF ReadKvs, ReadRkeys, Read, AmountInv
    <2> QED BY <2>1 DEF AmountInv, AmountsAllowed
<1>4. CASE ReadMaxAmount
    <2>1. PICK max \in 0 .. MaxAmount :
              opts' = [opts EXCEPT !.amount = OfSingle(max)] /\ asked' = Range(1, max)
        BY <1>4 DEF ReadMaxAmount, Read
    <2>2. Allowed(OfSingle(max), Range(1, max))
        BY SingleAllowed
    <2> QED BY <2>1, <2>2 DEF AmountInv, AmountsAllowed
<1>5. CASE ReadAmountRange
    <2>1. PICK min \in 0 .. MaxAmount, max \in 0 .. MaxAmount :
              /\ ~Refused(OfPair(min, max))
              /\ opts' = [opts EXCEPT !.amount = Avoided(OfPair(min, max))]
              /\ asked' = Range(min, max)
        BY <1>5 DEF ReadAmountRange, Read
    <2>2. Allowed(Avoided(OfPair(min, max)), Range(min, max))
        BY <2>1, PairAllowed
    <2> QED BY <2>1, <2>2 DEF AmountInv, AmountsAllowed
<1>6. CASE Connect
    BY <1>6, UnusedAllowed DEF Connect, AmountInv, AmountsAllowed, NoOpts, DefaultOpts
<1>7. CASE RefuseArgument \/ CreateTrans \/ SslFails \/ LoopReturns \/ Loses
    BY <1>1, <1>7 DEF RefuseArgument, CreateTrans, SslFails, LoopReturns, Loses
<1>8. CASE Tells
    BY <1>1, <1>8 DEF Tells, OnConnected, OnTransDone, OnTransError, OnTransNoConnect, OnClosed
<1>9. CASE WaitsForNothing \/ Ended \/ UNCHANGED vars
    BY <1>1, <1>9 DEF WaitsForNothing, NeverBegun, Ended, vars
<1> QED BY <1>2, <1>3, <1>4, <1>5, <1>6, <1>7, <1>8, <1>9 DEF Next, ReadOption

(* Every amount the client sends for -r is one that was asked for and not a *)
(* slow one, and drawing it ends, whatever the command line.                *)
THEOREM AmountsCorrect == Spec => []AmountsAllowed
<1>1. AmountInv => AmountsAllowed
    BY DEF AmountInv
<1> QED BY <1>1, InitAmount, NextAmount, PTL DEF Spec

-----------------------------------------------------------------------------
(* What is sent and answered.  Before the connection is up nothing is on    *)
(* the way; while it is up outstanding_cnt is exact, so that it is zero     *)
(* only when the list is empty too: every answer makes room for a request.  *)

Balance ==
    /\ conn.phase = "trying" => conn.owed = 0 /\ conn.late = 0 /\ outstanding_cnt = 0
    /\ conn.phase = "up" => conn.late = 0 /\ outstanding_cnt = conn.owed
    /\ conn.phase = "leaving" => list = 0 /\ conn.owed = 0 /\ conn.late = 0
    /\ send_serial => conn.owed + conn.late <= 1

OptsOK ==
    /\ {"dup", "serial", "port"} \subseteq DOMAIN opts
    /\ opts.dup \in Nat /\ opts.serial \in BOOLEAN /\ opts.port \in {"unset", "given", "zero"}

CliInv ==
    /\ OptsOK
    /\ list \in Nat /\ outstanding_cnt \in Int /\ send_serial \in BOOLEAN /\ conn \in ConnRecords
    /\ at \in {"options", "parsed"} => outstanding_cnt = 0
    /\ at = "looping" => Balance

(* The options that are not keys have their types from the start.           *)
LEMMA DefaultsOK ==
    /\ {"dup", "serial", "port"} \subseteq DOMAIN DefaultOpts
    /\ DefaultOpts.dup \in Nat /\ DefaultOpts.serial \in BOOLEAN /\ DefaultOpts.port = "unset"
BY DEF DefaultOpts

(* CliInv holds before any option is read.                                  *)
LEMMA CliInitial == Init => CliInv
<1> SUFFICES ASSUME Init
             PROVE  CliInv
    OBVIOUS
<1>1. OptsOK
    BY DefaultsOK DEF Init, OptsOK
<1>2. conn = [phase |-> "gone", owed |-> 0, late |-> 0, ping |-> FALSE]
    BY DEF Init, Gone, Conn
<1>3. conn \in ConnRecords
    BY <1>2 DEF ConnRecords, Phases
<1>4. list \in Nat /\ outstanding_cnt = 0 /\ send_serial \in BOOLEAN /\ at # "looping"
    BY DEF Init
<1> QED BY <1>1, <1>3, <1>4 DEF CliInv

(* An option changes one field, the number of requests to a number.         *)
LEMMA StepRead ==
    ASSUME CliInv, ReadOption
    PROVE  CliInv'
<1>1. OptsOK'
    <2>1. CASE \E dup \in 0 .. MaxDup : Set("dup", dup)
        <3>1. PICK dup \in 0 .. MaxDup : opts' = [opts EXCEPT !["dup"] = dup]
            BY <2>1 DEF Set, Read
        <3>2. dup \in Nat
            BY BoundsAssumption
        <3> QED BY <3>1, <3>2 DEF CliInv, OptsOK
    <2>5. CASE \E number \in {"given", "zero"} : Set("port", number)
        <3>1. PICK number \in {"given", "zero"} : opts' = [opts EXCEPT !["port"] = number]
            BY <2>5 DEF Set, Read
        <3> QED BY <3>1 DEF CliInv, OptsOK
    <2>2. CASE \/ \E user \in {"plain", "madmin", "none"} : Set("user", user)
               \/ \E action \in {"sale", "debit", "admin"} : Set("action", action)
        <3>1. PICK name \in {"user", "action"} : \E value : opts' = [opts EXCEPT ![name] = value]
            BY <2>2 DEF Set, Read
        <3> QED BY <3>1 DEF CliInv, OptsOK
    <2>3. CASE \E flag \in {"keyfile", "certfile", "card", "pinksn", "serial"} :
                   Set(flag, TRUE)
        <3>1. PICK flag \in {"keyfile", "certfile", "card", "pinksn", "serial"} :
                  opts' = [opts EXCEPT ![flag] = TRUE]
            BY <2>3 DEF Set, Read
        <3> QED BY <3>1 DEF CliInv, OptsOK
    <2>4. CASE ReadKvs \/ ReadRkeys \/ ReadMaxAmount \/ ReadAmountRange
        BY <2>4 DEF ReadKvs, ReadRkeys, ReadMaxAmount, ReadAmountRange, Read, CliInv, OptsOK
    <2> QED BY <2>1, <2>2, <2>3, <2>4, <2>5 DEF ReadOption, ReadSetting
<1>2. UNCHANGED <<at, list, send_serial, outstanding_cnt, conn>>
    BY DEF ReadOption, ReadSetting, ReadKvs, ReadRkeys, ReadMaxAmount, ReadAmountRange, Set, Read,
           transVars
<1> QED BY <1>1, <1>2 DEF CliInv, Balance

(* A callback leaves the options alone and stays in the loop.               *)
LEMMA BySteps ==
    ASSUME CliInv, UNCHANGED <<opts, at, send_serial>>, at = "looping",
           list' \in Nat, outstanding_cnt' \in Int, conn' \in ConnRecords, Balance'
    PROVE  CliInv'
BY DEF CliInv, OptsOK

(* No more requests are taken from the list than it has.                    *)
LEMMA QueuedTypes ==
    ASSUME list \in Nat, NEW n \in Nat
    PROVE  Queued(n) \in Nat /\ Queued(n) <= n /\ Queued(n) <= list /\ (n <= list => Queued(n) = n)
BY DEF Queued, Smaller

(* The callback for CONN_CONNECTED sends the first request or all.          *)
LEMMA StepConnected ==
    ASSUME CliInv, NEW next, OnConnected(next)
    PROVE  CliInv'
<1> DEFINE n == Queued(IF send_serial THEN 1 ELSE list)
<1>1. /\ at = "looping" /\ Event("CONN_CONNECTED", next) \in Told(conn)
      /\ conn' = SendingAll(next, n) /\ list' = list - n /\ outstanding_cnt' = outstanding_cnt + n
      /\ UNCHANGED <<opts, at, send_serial>>
    BY DEF OnConnected, Delivered
<1>2. list \in Nat /\ outstanding_cnt \in Int /\ send_serial \in BOOLEAN /\ conn \in ConnRecords
      /\ Balance
    BY <1>1 DEF CliInv
<1>3. /\ next \in ConnRecords /\ next.phase \in {"up"} \cup Lost
      /\ next.owed = 0 /\ next.late = 0 /\ outstanding_cnt = 0
    BY <1>1, <1>2, ToldTypes DEF Balance, ConnRecords
<1>4. n \in Nat /\ n <= list /\ (send_serial => n <= 1)
    BY <1>2, QueuedTypes
<1> HIDE DEF n
<1>5. /\ conn' \in ConnRecords /\ conn'.phase = next.phase
      /\ conn'.owed + conn'.late = n
      /\ conn'.phase = "up" => conn'.owed = n /\ conn'.late = 0
    <2>1. /\ SendingAll(next, n) \in ConnRecords /\ SendingAll(next, n).phase = next.phase
          /\ next.phase = "up" => SendingAll(next, n).owed = n /\ SendingAll(next, n).late = 0
          /\ next.phase # "up" => SendingAll(next, n).owed = 0 /\ SendingAll(next, n).late = n
        BY <1>3, <1>4, SendingAllTypes
    <2>2. conn' = SendingAll(next, n)
        BY <1>1
    <2> QED BY <1>4, <2>1, <2>2
<1>6. Balance'
    BY <1>1, <1>3, <1>4, <1>5 DEF Balance, Lost
<1>7. list' \in Nat /\ outstanding_cnt' \in Int
    BY <1>1, <1>2, <1>4
<1> QED BY <1>1, <1>5, <1>6, <1>7, BySteps

(* The callback for TRANS_DONE sends the next request or disconnects.       *)
LEMMA StepDone ==
    ASSUME CliInv, NEW next, OnTransDone(next)
    PROVE  CliInv'
<1> DEFINE n == Queued(1)
           sent == SendingAll(next, n)
<1>1. /\ at = "looping" /\ Event("TRANS_DONE", next) \in Told(conn)
      /\ conn' = (IF outstanding_cnt' = 0 THEN Disconnecting(sent) ELSE sent)
      /\ list' = list - n /\ outstanding_cnt' = outstanding_cnt - 1 + n
      /\ UNCHANGED <<opts, at, send_serial>>
    BY DEF OnTransDone, Delivered, OneAnswered, NoneLeft
<1>2. list \in Nat /\ outstanding_cnt \in Int /\ send_serial \in BOOLEAN /\ conn \in ConnRecords
      /\ Balance
    BY <1>1 DEF CliInv
<1>3. /\ next \in ConnRecords /\ next.phase = conn.phase /\ conn.owed > 0
      /\ next.owed = conn.owed - 1 /\ next.late = conn.late
    BY <1>1, <1>2, ToldTypes
<1>4. n \in Nat /\ n <= 1 /\ n <= list /\ (list > 0 => n = 1)
    BY <1>2, QueuedTypes
<1> HIDE DEF n
<1>5. /\ conn.phase \in Phases /\ conn.owed \in Nat /\ conn.late \in Nat
      /\ conn.phase \notin {"trying", "leaving"}
    BY <1>2, <1>3 DEF Balance, ConnRecords
<1>6. /\ sent \in ConnRecords /\ sent.phase = conn.phase
      /\ sent.owed + sent.late = conn.owed + conn.late - 1 + n
      /\ conn.phase = "up" => sent.owed = conn.owed - 1 + n /\ sent.late = conn.late
    <2> HIDE DEF sent
    <2>1. /\ sent \in ConnRecords /\ sent.phase = next.phase
          /\ next.phase = "up" => sent.owed = next.owed + n /\ sent.late = next.late
          /\ next.phase # "up" => sent.owed = next.owed /\ sent.late = next.late + n
        BY <1>3, <1>4, SendingAllTypes DEF sent
    <2> QED BY <1>3, <1>4, <1>5, <2>1
<1> HIDE DEF sent
<1>7. CASE outstanding_cnt' = 0 /\ conn.phase = "up"
    <2>1. conn' = [sent EXCEPT !.phase = "leaving"]
        BY <1>1, <1>6, <1>7 DEF Disconnecting
    <2>2. /\ conn' \in ConnRecords
          /\ conn'.phase = "leaving" /\ conn'.owed = sent.owed /\ conn'.late = sent.late
        BY <1>6, <2>1 DEF ConnRecords, Phases
    <2>3. n = 0 /\ sent.owed = 0 /\ sent.late = 0 /\ list = 0
        <3>1. outstanding_cnt = conn.owed /\ conn.late = 0 /\ outstanding_cnt - 1 + n = 0
            BY <1>1, <1>2, <1>7 DEF Balance
        <3>2. n = 0
            BY <1>3, <1>4, <1>5, <3>1
        <3>3. list = 0
            BY <1>2, <1>4, <3>2
        <3>4. sent.owed = conn.owed - 1 + n /\ sent.late = conn.late
            BY <1>6, <1>7
        <3>5. sent.owed = 0
            BY <1>5, <3>1, <3>2, <3>4
        <3> QED BY <3>1, <3>2, <3>3, <3>4, <3>5
    <2>4. Balance'
        BY <1>1, <2>2, <2>3 DEF Balance
    <2> QED BY <1>1, <1>2, <1>4, <2>2, <2>4, BySteps
<1>8. CASE ~(outstanding_cnt' = 0 /\ conn.phase = "up")
    <2>1. conn' = sent
        BY <1>1, <1>6, <1>8 DEF Disconnecting
    <2>2. conn.phase = "up" => conn'.late = 0 /\ outstanding_cnt' = conn'.owed
        <3>1. ASSUME conn.phase = "up"
              PROVE  conn.late = 0 /\ outstanding_cnt = conn.owed
            BY <1>2, <3>1 DEF Balance
        <3> QED BY <1>1, <1>4, <1>5, <1>6, <2>1, <3>1
    <2>3. send_serial => conn'.owed + conn'.late <= 1
        <3>1. send_serial => conn.owed + conn.late <= 1
            BY <1>2 DEF Balance
        <3> QED BY <1>4, <1>5, <1>6, <2>1, <3>1
    <2>4. conn'.phase = conn.phase /\ send_serial' = send_serial
        BY <1>1, <1>6, <2>1
    <2>5. Balance'
        BY <1>5, <2>2, <2>3, <2>4 DEF Balance
    <2> QED BY <1>1, <1>2, <1>4, <1>6, <2>1, <2>5, BySteps
<1> QED BY <1>7, <1>8

(* The other callbacks change no counter; a closing event ends the loop.    *)
LEMMA StepLost ==
    ASSUME CliInv, NEW next, OnTransError(next) \/ OnTransNoConnect(next) \/ OnClosed(next)
    PROVE  CliInv'
<1>1. at = "looping" /\ UNCHANGED <<opts, at, send_serial, list, outstanding_cnt>>
    BY DEF OnTransError, OnTransNoConnect, OnClosed, Delivered, transVars
<1>2. list \in Nat /\ outstanding_cnt \in Int /\ send_serial \in BOOLEAN /\ conn \in ConnRecords
      /\ Balance
    BY <1>1 DEF CliInv
<1>3. conn.phase \in Phases /\ conn.owed \in Nat /\ conn.late \in Nat
    BY <1>2 DEF ConnRecords
<1>4. CASE OnClosed(next)
    <2>1. conn' = [phase |-> "gone", owed |-> 0, late |-> 0, ping |-> FALSE]
        BY <1>4 DEF OnClosed, Gone, Conn
    <2>2. conn' \in ConnRecords /\ Balance'
        BY <2>1 DEF ConnRecords, Phases, Balance
    <2> QED BY <1>1, <1>2, <2>2, BySteps
<1>5. CASE OnTransNoConnect(next)
    <2>1. Event("TRANS_NOCONNECT", next) \in Told(conn) /\ conn' = [next EXCEPT !.late = @ - 1]
        BY <1>5 DEF OnTransNoConnect, Delivered
    <2>2. next = conn /\ conn.late > 0 /\ conn.phase \in Lost
        BY <1>2, <2>1, ToldTypes
    <2>3. /\ conn' \in ConnRecords
          /\ conn'.phase = conn.phase /\ conn'.owed = conn.owed /\ conn'.late = conn.late - 1
        BY <1>2, <1>3, <2>1, <2>2 DEF ConnRecords
    <2>4. Balance'
        BY <1>1, <1>2, <1>3, <2>2, <2>3 DEF Balance, Lost
    <2> QED BY <1>1, <1>2, <2>3, <2>4, BySteps
<1>6. CASE OnTransError(next)
    <2>1. Event("TRANS_ERROR", next) \in Told(conn) /\ conn' = next
        BY <1>6 DEF OnTransError, Delivered
    <2>2. /\ conn' \in ConnRecords /\ conn'.phase = conn.phase
          /\ conn'.owed <= conn.owed /\ conn'.late = conn.late /\ conn.phase \in Lost
        BY <1>2, <1>3, <2>1, ToldTypes
    <2>4. conn'.owed \in Nat
        BY <2>2 DEF ConnRecords
    <2>3. Balance'
        BY <1>1, <1>2, <1>3, <2>2, <2>4 DEF Balance, Lost
    <2> QED BY <1>1, <1>2, <2>2, <2>3, BySteps
<1> QED BY <1>4, <1>5, <1>6

(* The connection fails or the server closes it.                            *)
LEMMA StepLoses ==
    ASSUME CliInv, Loses
    PROVE  CliInv'
<1>1. /\ at = "looping" /\ conn' \in Losing(conn)
      /\ UNCHANGED <<opts, at, send_serial, list, outstanding_cnt>>
    BY DEF Loses, transVars
<1>2. list \in Nat /\ outstanding_cnt \in Int /\ conn \in ConnRecords /\ Balance
    BY <1>1 DEF CliInv
<1>3. /\ conn' \in ConnRecords /\ conn'.phase \in Lost
      /\ conn'.owed = conn.owed /\ conn'.late = conn.late
    BY <1>1, <1>2, LosingTypes
<1>4. Balance'
    BY <1>1, <1>2, <1>3 DEF Balance, Lost
<1> QED BY <1>1, <1>2, <1>3, <1>4, BySteps

(* main: the arguments, the connection, the end of the loop.                *)
LEMMA StepMain ==
    ASSUME CliInv, RefuseArgument \/ CreateTrans \/ SslFails \/ Connect \/ LoopReturns
    PROVE  CliInv'
<1>1. CASE RefuseArgument \/ SslFails \/ LoopReturns
    <2>1. at' \in {"refused", "done"} /\ UNCHANGED <<opts, list, send_serial, outstanding_cnt, conn>>
        BY <1>1 DEF RefuseArgument, SslFails, LoopReturns, transVars
    <2> QED BY <2>1 DEF CliInv, OptsOK
<1>2. CASE CreateTrans
    <2>1. /\ at = "options" /\ at' \in {"parsed", "refused"}
          /\ UNCHANGED <<opts, outstanding_cnt, conn>>
          /\ \/ list' = Requests(opts) /\ send_serial' = opts.serial
             \/ UNCHANGED <<list, send_serial>>
        BY <1>2 DEF CreateTrans, transVars
    <2>2. Requests(opts) \in Nat
        BY DEF Requests, CliInv, OptsOK
    <2> QED BY <2>1, <2>2 DEF CliInv, OptsOK
<1>3. CASE Connect
    <2>1. /\ at = "parsed" /\ at' = "looping" /\ opts' = NoOpts
          /\ conn' \in {Gone, Connecting(Fresh), Fresh}
          /\ UNCHANGED <<list, send_serial, outstanding_cnt>>
        BY <1>3 DEF Connect, transVars
    <2>2. PICK phase \in {"gone", "trying", "idle"} :
              conn' = [phase |-> phase, owed |-> 0, late |-> 0, ping |-> FALSE]
        BY <2>1 DEF Connecting, Fresh, Gone, Conn
    <2>3. conn' \in ConnRecords
        BY <2>2 DEF ConnRecords, Phases
    <2>4. OptsOK'
        BY <2>1, DefaultsOK DEF OptsOK, NoOpts
    <2> QED BY <2>1, <2>2, <2>3, <2>4 DEF CliInv, Balance
<1> QED BY <1>1, <1>2, <1>3

(* Every step of the program keeps CliInv.                                  *)
LEMMA CliStep == CliInv /\ [Next]_vars => CliInv'
<1> SUFFICES ASSUME CliInv, [Next]_vars
             PROVE  CliInv'
    OBVIOUS
<1>1. CASE Tells
    BY <1>1, StepConnected, StepDone, StepLost DEF Tells
<1>2. CASE WaitsForNothing \/ Ended \/ UNCHANGED vars
    BY <1>2 DEF WaitsForNothing, NeverBegun, Ended, vars, transVars, CliInv, OptsOK, Balance
<1> QED BY <1>1, <1>2, StepRead, StepMain, StepLoses DEF Next

(* The client closes its connection only when every request was sent and    *)
(* answered, outstanding_cnt is exact while the connection is up, and with  *)
(* -s one request at a time is on the way; for any number of requests.      *)
THEOREM AllAnsweredCorrect == Spec => []AllAnsweredFirst
<1>1. CliInv => AllAnsweredFirst
    <2> SUFFICES ASSUME CliInv, at = "looping"
                 PROVE  AllAnsweredFirst
        BY DEF AllAnsweredFirst
    <2>1. Balance /\ conn.owed \in Nat /\ conn.late \in Nat
        BY DEF CliInv, ConnRecords
    <2> QED BY <2>1 DEF Balance, AllAnsweredFirst
<1> QED BY <1>1, CliInitial, CliStep, PTL DEF Spec

-----------------------------------------------------------------------------
(* What a request is made of.                                               *)

(* The rules of precedence of cli_opts_merge_kvs and cli_trans_create, for  *)
(* any action, card and keys.                                               *)
LEMMA RequestRules ==
    ASSUME NEW o
    PROVE  /\ Request(o)["identifier"] = "internal"
           /\ InUse(o.amount) => Request(o)["amount"] = "random"
           /\ \A k \in Keys \ {"identifier"} :
                 ~(k = "amount" /\ InUse(o.amount)) =>
                    /\ k \in o.removed => Request(o)[k] = "unset"
                    /\ k \in o.manual \ o.removed => Request(o)[k] = "manual"
                    /\ k = "account" /\ o.card /\ k \notin o.removed =>
                          Request(o)[k] \in {"card", "manual"}
<1> DEFINE login  == PutIf(o.user # "none", NoKvs, {"username"}, "login")
           merged == [k \in Keys |-> IF Merged(o)[k] = "unset" THEN login[k] ELSE Merged(o)[k]]
           left   == Put(merged, o.removed, "unset")
           amount == PutIf(InUse(o.amount), left, {"amount"}, "random")
<1>1. Request(o) = Put(amount, {"identifier"}, "internal")
    BY DEF Request
<1>2. \A k \in Keys : k \in o.manual => Merged(o)[k] = "manual"
    BY DEF Merged, Put
<1>3. \A k \in Keys : k \in o.manual => merged[k] = "manual"
    BY <1>2
<1>4. o.card => merged["account"] \in {"card", "manual"}
    <2>1. o.card => Merged(o)["account"] \in {"card", "manual"}
        BY DEF Merged, Put, PutIf, Keys
    <2>2. "account" \in Keys
        BY DEF Keys
    <2> QED BY <2>1, <2>2
<1> HIDE DEF merged
<1>5. \A k \in Keys : left[k] = IF k \in o.removed THEN "unset" ELSE merged[k]
    BY DEF Put
<1> HIDE DEF left
<1>6. \A k \in Keys : amount[k] = IF k = "amount" /\ InUse(o.amount) THEN "random" ELSE left[k]
    BY DEF Put, PutIf
<1> HIDE DEF amount
<1>7. \A k \in Keys : Request(o)[k] = IF k = "identifier" THEN "internal" ELSE amount[k]
    BY <1>1 DEF Put
<1> QED BY <1>3, <1>4, <1>5, <1>6, <1>7 DEF Keys

(* Between cli_trans_create and the connection nothing of it changes.       *)
RequestInv ==
    at = "parsed" => request = Request(opts) /\ port = Port(opts) /\ list = Requests(opts)

(* Every step of the program keeps RequestInv.                              *)
LEMMA RequestStep == RequestInv /\ [Next]_vars => RequestInv'
<1> SUFFICES ASSUME RequestInv, [Next]_vars, at' = "parsed"
             PROVE  RequestInv'
    BY DEF RequestInv
<1>1. CASE CreateTrans
    BY <1>1 DEF CreateTrans, RequestInv
<1>2. CASE WaitsForNothing \/ Ended \/ UNCHANGED vars
    BY <1>2 DEF WaitsForNothing, NeverBegun, Ended, vars, transVars, RequestInv
<1>3. CASE ReadOption
    BY <1>3 DEF ReadOption, ReadSetting, ReadKvs, ReadRkeys, ReadMaxAmount, ReadAmountRange, Set, Read
<1>4. CASE RefuseArgument \/ SslFails \/ Connect \/ LoopReturns \/ Loses
    BY <1>4 DEF RefuseArgument, SslFails, Connect, LoopReturns, Loses
<1>5. CASE Tells
    BY <1>5 DEF Tells, OnConnected, OnTransDone, OnTransError, OnTransNoConnect, OnClosed, Delivered
<1> QED BY <1>1, <1>2, <1>3, <1>4, <1>5 DEF Next

(* A request is what the help text says of the options it was made from,    *)
(* for any sets of keys that -k gives and -l takes out.                     *)
THEOREM RequestCorrect == Spec => []RequestAsDocumented
<1>1. Init => RequestInv
    BY DEF Init, RequestInv
<1>2. CliInv /\ RequestInv => RequestAsDocumented
    <2> SUFFICES ASSUME CliInv, RequestInv, at = "parsed"
                 PROVE  RequestAsDocumented
        BY DEF RequestAsDocumented
    <2>1. request = Request(opts) /\ port = Port(opts) /\ list = Requests(opts)
        BY DEF RequestInv
    <2>2. list > 0
        BY <2>1 DEF Requests, CliInv, OptsOK
    <2>3. /\ port = "admin" <=> opts.user = "madmin" /\ opts.port = "unset"
          /\ opts.port # "unset" => port = opts.port
        BY <2>1 DEF Port, CliInv, OptsOK
    <2>4. /\ request["identifier"] = "internal"
          /\ InUse(opts.amount) => request["amount"] = "random"
          /\ \A k \in Keys \ {"identifier"} :
                ~(k = "amount" /\ InUse(opts.amount)) =>
                   /\ k \in opts.removed => request[k] = "unset"
                   /\ k \in opts.manual \ opts.removed => request[k] = "manual"
                   /\ k = "account" /\ opts.card /\ k \notin opts.removed =>
                         request[k] \in {"card", "manual"}
        BY <2>1, RequestRules
    <2> QED BY <2>2, <2>3, <2>4 DEF RequestAsDocumented
<1> QED BY <1>1, <1>2, RequestStep, CliInitial, CliStep, PTL DEF Spec
=============================================================================
