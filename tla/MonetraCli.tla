----------------------------- MODULE MonetraCli -----------------------------
(***************************************************************************)
(* The command line client, apps/monetra_cli.  The command line becomes a  *)
(* list of equal requests; the event loop then sends them over one         *)
(* connection, all together or one by one, and runs until the connection   *)
(* is closed: by the program once every answer has come, or earlier.       *)
(* There is one thread.  The connection behaves as CallbackPromise says.   *)
(***************************************************************************)
EXTENDS ConnState, RandomAmount

CONSTANTS
    MaxArgs,    \* bound on the options given
    MaxAmount,  \* bound on the amounts of -r
    MaxDup,     \* bound on -d
    ManualKeys, \* sets of keys that -k gives
    RemoveKeys  \* sets of keys that -l takes out

(* The keys of a request that the rules of precedence tell apart: account   *)
(* stands for all that a card gives, pin for the PIN with its KSN.          *)
Keys == {"action", "username", "account", "pin", "amount", "identifier"}

ASSUME KeysAssumption == ManualKeys \subseteq SUBSET Keys /\ RemoveKeys \subseteq SUBSET Keys
ASSUME BoundsAssumption == MaxArgs \in Nat /\ MaxAmount \in Nat /\ MaxDup \in Nat

VARIABLES
    at,         \* options, parsed, looping, done, or refused (exit with an error)
    args,       \* options read
    opts,       \* cli_opts_t
    asked,      \* history: the range -r asked for
    request,    \* where the value of each key of a request comes from
    port,       \* cli_trans_t: port
    list,       \* cli_trans_t: how many requests are still in kvs
    send_serial, outstanding_cnt,                       \* of cli_trans_t
    conn, loop_done                                     \* loop_done: M_event_done was called

transVars == <<request, port, list, send_serial>>
vars == <<at, args, opts, asked, transVars, outstanding_cnt, conn, loop_done>>

-----------------------------------------------------------------------------
(* cli_opts_create.                                                        *)

DefaultOpts ==
    [user |-> "plain", port |-> "unset", keyfile |-> FALSE, certfile |-> FALSE,
     action |-> "none", manual |-> {}, card |-> FALSE, pinksn |-> FALSE, removed |-> {},
     dup |-> 1, amount |-> Range(0, 0), serial |-> FALSE]

NoOpts == DefaultOpts

(* The options, as the callbacks of M_getopt_parse read them: most set a    *)
(* field, -k and -l add to what is there.  A port is cut to 16 bits, and    *)
(* may be zero.                                                             *)
Read(o) ==
    /\ at = "options" /\ args < MaxArgs
    /\ args' = args + 1
    /\ opts' = o
    /\ UNCHANGED <<at, transVars, outstanding_cnt, conn, loop_done>>

Set(name, value) == Read([opts EXCEPT ![name] = value]) /\ UNCHANGED asked

ReadSetting ==
    \/ \E user \in {"plain", "madmin", "none"} : Set("user", user)
    \/ \E action \in {"sale", "debit", "admin"} : Set("action", action)
    \/ \E dup \in 0 .. MaxDup : Set("dup", dup)
    \/ \E number \in {"given", "zero"} : Set("port", number)
    \/ \E flag \in {"keyfile", "certfile", "card", "pinksn", "serial"} : Set(flag, TRUE)

ReadKvs == \E ks \in ManualKeys : Read([opts EXCEPT !.manual = @ \cup ks]) /\ UNCHANGED asked
ReadRkeys == \E ks \in RemoveKeys : Read([opts EXCEPT !.removed = @ \cup ks]) /\ UNCHANGED asked

(* -r max: not checked.                                                     *)
ReadMaxAmount ==
    \E max \in 0 .. MaxAmount :
        /\ Read([opts EXCEPT !.amount = OfSingle(max)])
        /\ asked' = Range(1, max)

(* -r min:max.                                                              *)
ReadAmountRange ==
    \E min, max \in 0 .. MaxAmount :
        /\ ~Refused(OfPair(min, max))
        /\ Read([opts EXCEPT !.amount = Avoided(OfPair(min, max))])
        /\ asked' = Range(min, max)

(* -h, or an option or value that is refused: usage, and the end.           *)
RefuseArgument ==
    /\ at = "options"
    /\ at' = "refused"
    /\ UNCHANGED <<args, opts, asked, transVars, outstanding_cnt, conn, loop_done>>

-----------------------------------------------------------------------------
(* cli_opts_merge_kvs and cli_trans_create.                                *)

ActionKeys(action) ==
    CASE action = "sale"  -> {"action", "account", "amount"}
      [] action = "debit" -> {"action", "account", "amount", "pin"}
      [] action = "admin" -> {"action"}
      [] action = "none"  -> {}

NoKvs == [k \in Keys |-> "unset"]
Put(kvs, keys, source) == [k \in Keys |-> IF k \in keys THEN source ELSE kvs[k]]
PutIf(condition, kvs, keys, source) == IF condition THEN Put(kvs, keys, source) ELSE kvs

(* Later ones override: the action, --pin-ksn, the card, -k.  Without an    *)
(* action and -k nothing is taken over.                                     *)
ActionLast(o) ==
    LET pinksn == PutIf(o.pinksn, NoKvs, {"pin"}, "generic")
        card   == PutIf(o.card, pinksn, {"account"}, "card")
        manual == Put(card, o.manual, "manual")
    IN  Put(manual, ActionKeys(o.action), "action")
Merged(o) ==
    LET action == Put(NoKvs, ActionKeys(o.action), "action")
        pinksn == PutIf(o.pinksn, action, {"pin"}, "generic")
        card   == PutIf(o.card, pinksn, {"account"}, "card")
    IN  Put(card, o.manual, "manual")

SomethingToSend(o) == o.action # "none" \/ o.manual # {}

(* Each request: the login, all that was merged over it, less what -l takes *)
(* out; then a random amount and the identifier, whatever was there before. *)
Request(o) ==
    LET login  == PutIf(o.user # "none", NoKvs, {"username"}, "login")
        merged == [k \in Keys |-> IF Merged(o)[k] = "unset" THEN login[k] ELSE Merged(o)[k]]
        left   == Put(merged, o.removed, "unset")
        amount == PutIf(InUse(o.amount), left, {"amount"}, "random")
    IN  Put(amount, {"identifier"}, "internal")

Requests(o) == IF o.dup = 0 THEN 1 ELSE o.dup

Port(o) == IF o.port # "unset" THEN o.port ELSE IF o.user = "madmin" THEN "admin" ELSE "user"

Accepted(o) == SomethingToSend(o) /\ (o.keyfile <=> o.certfile)

CreateTrans ==
    /\ at = "options"
    /\ IF Accepted(opts)
       THEN /\ at' = "parsed"
            /\ request' = Request(opts) /\ port' = Port(opts)
            /\ list' = Requests(opts) /\ send_serial' = opts.serial
       ELSE /\ at' = "refused"
            /\ UNCHANGED transVars
    /\ UNCHANGED <<args, opts, asked, outstanding_cnt, conn, loop_done>>

-----------------------------------------------------------------------------
(* main: the TLS context, which may not load its files, then the           *)
(* connection.  The options have been destroyed by then.                   *)

SslFails ==
    /\ at = "parsed"
    /\ at' = "refused"
    /\ UNCHANGED <<args, opts, asked, transVars, outstanding_cnt, conn, loop_done>>

(* Nobody looks at what LM_conn_init and LM_conn_connect return: with port  *)
(* 0 there is no connection, and one that could not even be started stays   *)
(* as it was made.                                                          *)
Connect ==
    /\ at = "parsed"
    /\ at' = "looping"
    /\ conn' \in IF port = "zero" THEN {Gone} ELSE {Connecting(Fresh), Fresh}
    /\ args' = 0 /\ opts' = NoOpts /\ asked' = Range(0, 0)
    /\ UNCHANGED <<transVars, outstanding_cnt, loop_done>>

(* The event loop returns, and the program ends with exit code 0.           *)
LoopReturns ==
    /\ at = "looping" /\ loop_done
    /\ at' = "done"
    /\ UNCHANGED <<args, opts, asked, transVars, outstanding_cnt, conn, loop_done>>

-----------------------------------------------------------------------------
(* trans_callback.                                                         *)

Delivered(type, next) == at = "looping" /\ Event(type, next) \in Told(conn)

Smaller(m, n) == IF m < n THEN m ELSE n

(* queue_lm_trans n times, or until the list is empty.                      *)
Queued(n) == Smaller(n, list)

OnConnected(next) ==
    LET n == Queued(IF send_serial THEN 1 ELSE list)
    IN  /\ Delivered("CONN_CONNECTED", next)
        /\ conn' = SendingAll(next, n)
        /\ list' = list - n
        /\ outstanding_cnt' = outstanding_cnt + n
        /\ UNCHANGED <<at, args, opts, asked, request, port, send_serial, loop_done>>

(* The answer is printed and its transaction deleted; the next request, if  *)
(* there is one, takes its place, and the last answer ends it all.          *)
UncountedAnswer(n) == n
OneAnswered(n) == n - 1
NoneLeftEarly == outstanding_cnt = 1
NoneLeft == outstanding_cnt' = 0

OnTransDone(next) ==
    /\ Delivered("TRANS_DONE", next)
    /\ list' = list - Queued(1)
    /\ outstanding_cnt' = OneAnswered(outstanding_cnt) + Queued(1)
    /\ conn' = IF NoneLeft THEN Disconnecting(SendingAll(next, Queued(1)))
               ELSE SendingAll(next, Queued(1))
    /\ UNCHANGED <<at, args, opts, asked, request, port, send_serial, loop_done>>

(* Printed and deleted, but not counted: the connection is lost.            *)
OnTransError(next) ==
    /\ Delivered("TRANS_ERROR", next)
    /\ conn' = next
    /\ UNCHANGED <<at, args, opts, asked, transVars, outstanding_cnt, loop_done>>

OnTransNoConnect(next) ==
    /\ Delivered("TRANS_NOCONNECT", next)
    /\ conn' = [next EXCEPT !.late = @ - 1]
    /\ UNCHANGED <<at, args, opts, asked, transVars, outstanding_cnt, loop_done>>

(* Either way the connection is destroyed and the event loop told to end.   *)
OnClosed(next) ==
    /\ Delivered("CONN_DISCONNECT", next) \/ Delivered("CONN_ERROR", next)
    /\ conn' = Gone
    /\ loop_done' = TRUE
    /\ UNCHANGED <<at, args, opts, asked, transVars, outstanding_cnt>>

(* The event loop has no connection to wait for, and never returns.         *)
NeverBegun == at = "looping" /\ ~loop_done /\ conn.phase \in {"idle", "gone"}

WaitsForNothing == NeverBegun /\ UNCHANGED vars

(* The other side closes the connection, or it fails.  There is no PING     *)
(* (LM_conn_disable_ping).                                                  *)
Loses ==
    /\ at = "looping"
    /\ conn' \in Losing(conn) /\ ~conn'.ping
    /\ UNCHANGED <<at, args, opts, asked, transVars, outstanding_cnt, loop_done>>

Ended == at \in {"done", "refused"} /\ UNCHANGED vars

-----------------------------------------------------------------------------
Init ==
    /\ at = "options" /\ args = 0
    /\ opts = DefaultOpts /\ asked = Range(0, 0)
    /\ request = NoKvs /\ port = "user" /\ list = 0 /\ send_serial = FALSE
    /\ outstanding_cnt = 0
    /\ conn = Gone /\ loop_done = FALSE

ReadOption == ReadSetting \/ ReadKvs \/ ReadRkeys \/ ReadMaxAmount \/ ReadAmountRange

Tells ==
    \E e \in Told(conn) :
        \/ OnConnected(e.next)
        \/ OnTransDone(e.next)
        \/ OnTransError(e.next)
        \/ OnTransNoConnect(e.next)
        \/ OnClosed(e.next)

Next ==
    \/ ReadOption \/ RefuseArgument
    \/ CreateTrans
    \/ SslFails \/ Connect \/ LoopReturns
    \/ Tells \/ Loses
    \/ WaitsForNothing \/ Ended

Spec == Init /\ [][Next]_vars

-----------------------------------------------------------------------------
(* What the program says of a request.  A key given with -k has that value  *)
(* and not the one of the action; a test card overrides the action too.     *)
(* (Which of -k and the card wins is left out: the header says the card,    *)
(* the code merges -k last.)  A random amount overrides one given with -k;  *)
(* a key of -l is not sent, unless -r puts the amount back; the port is the *)
(* one given or else follows the user name; and nothing of the command line *)
(* passes for the identifier by which answers are matched.                  *)
RequestAsDocumented ==
    at = "parsed" =>
        /\ request["identifier"] = "internal"
        /\ InUse(opts.amount) => request["amount"] = "random"
        /\ \A k \in Keys \ {"identifier"} :
              ~(k = "amount" /\ InUse(opts.amount)) =>
                 /\ k \in opts.removed => request[k] = "unset"
                 /\ k \in opts.manual \ opts.removed /\ ~(k = "account" /\ opts.card) =>
                       request[k] = "manual"
                 /\ k = "account" /\ opts.card /\ k \notin opts.removed =>
                       request[k] \in {"card", "manual"}
        /\ port = "admin" <=> opts.user = "madmin" /\ opts.port = "unset"
        /\ opts.port # "unset" => port = opts.port
        /\ list > 0

(* A range of -r that is accepted and not empty leaves an amount to draw,   *)
(* so that the loop in cli_trans_create ends, and every amount sent is one  *)
(* that was asked for and not a slow one.  A range may be empty without     *)
(* being refused; then nothing is said.                                     *)
AmountsAllowed == Allowed(opts.amount, asked)

(* The program closes the connection only when every request has been sent  *)
(* and answered, and with -s never has two of them on the way.              *)
AllAnsweredFirst ==
    at = "looping" =>
        /\ conn.phase = "leaving" => list = 0 /\ conn.owed = 0 /\ conn.late = 0
        /\ conn.phase = "up" => outstanding_cnt = conn.owed + conn.late
        /\ send_serial => conn.owed + conn.late <= 1

-----------------------------------------------------------------------------
(* Fairness.  The program goes on, the connection tells what it has to, and *)
(* a disconnect that was asked for ends.  Of the server it is assumed that  *)
(* it answers or closes the connection: the program has no time limit and   *)
(* sends no PING.                                                           *)
Fairness ==
    /\ WF_vars(LoopReturns)
    /\ WF_vars(Tells)
    /\ WF_vars(conn.phase = "leaving" /\ Loses)

FairSpec == Spec /\ Fairness

(* The event loop of main ends, whatever becomes of the connection and of   *)
(* the requests, or it waits for a connection that was never begun: with    *)
(* -t 0, or if LM_conn_connect failed at once.  (monetra_cli.c says that it *)
(* always ends, by an error or with everything processed.)                  *)
CliEnds == at = "looping" ~> at = "done" \/ NeverBegun
=============================================================================
