---------------------------- MODULE MonetraLoad ----------------------------
(***************************************************************************)
(* The load generator, apps/monetra_load.  main runs up to six jobs, each  *)
(* on connections that are all up before it starts: it spreads the job's   *)
(* transactions over them, then runs the event loop until monetra_callback *)
(* has counted an answer to every one.  There is one thread: callbacks run *)
(* only while the loop does.  The connections behave as CallbackPromise    *)
(* says.                                                                   *)
(***************************************************************************)
EXTENDS ConnState, FiniteSets

CONSTANTS
    MaxConns,       \* bound on the connections asked for
    Counts,         \* values of -t (transactions), -u (users) and -x (connections)
    DefaultTrans, DefaultConns, \* 100 and 10 in the program
    MaxBatches,     \* open batches one answer to BT may list
    UsersPerConn,   \* users an admin connection is opened for: 10 in the program
    Stride          \* ptrannum numbers set aside for a connection: 1000000 in the program

ASSUME BoundsAssumption ==
    /\ MaxConns \in Nat \ {0} /\ UsersPerConn \in Nat \ {0} /\ Stride \in Nat \ {0}
    /\ MaxBatches \in Nat
ASSUME CountsAssumption == Counts \subseteq Nat /\ {DefaultTrans, DefaultConns} \subseteq Nat

VARIABLES
    at,     \* main: options, connecting, ready (to send), waiting (for the answers), done,
            \* or refused (exit with an error)
    job,    \* what it is doing
    opt,    \* cli_options_t
    conn,   \* the connections of this job
    loop_done,                                          \* M_event_done was called
    expected_connections, connections_established,
    expected_trans, transactions_done, last_transactions_done,
    delete_txn_handle, expect_approved,
    handles,    \* transaction objects that exist
    batches     \* open batches the answers to BT list

counters == <<expected_connections, connections_established, expected_trans,
              transactions_done, last_transactions_done>>
flags == <<delete_txn_handle, expect_approved>>
vars == <<at, job, opt, conn, loop_done, counters, flags, handles, batches>>

Conns == 1 .. MaxConns

-----------------------------------------------------------------------------
(* The command line: cli_options_create, cli_integer_cb, cli_bool_cb.      *)

Numbers == {"num_trans", "num_conns", "user_count"}
Ports == {"port", "admin_port"}
Switches == {"user_create", "user_cleanup", "user_settle"}

DefaultOptions ==
    [num_trans |-> DefaultTrans, num_conns |-> DefaultConns, user_count |-> 0,
     port |-> 1, admin_port |-> 1,
     user_create |-> TRUE, user_cleanup |-> TRUE, user_settle |-> FALSE]

(* -t, -x, -u and -p, -a: a port of 0 is accepted, 1 stands for any other.  *)
ReadNumber(name, value) == opt' = [opt EXCEPT ![name] = value]

(* -n, -N, -S: each can only be changed from its default.                   *)
ReadSwitch(name) == opt' = [opt EXCEPT ![name] = ~DefaultOptions[name]]

ReadOption ==
    /\ at = "options"
    /\ \/ \E name \in Numbers, value \in Counts :
             (name = "num_conns" => value <= MaxConns) /\ ReadNumber(name, value)
       \/ \E name \in Ports : ReadNumber(name, 0)
       \/ \E name \in Switches : ReadSwitch(name)
    /\ UNCHANGED <<at, job, conn, loop_done, counters, flags, handles, batches>>

(* A refused argument or -h: usage, and the end.                            *)
RefuseOption ==
    /\ at = "options"
    /\ at' = "refused"
    /\ UNCHANGED <<job, opt, conn, loop_done, counters, flags, handles, batches>>

-----------------------------------------------------------------------------
(* What the jobs are: create_users, main, settle_batches, cleanup_users.   *)

Jobs == {"clear", "add", "load", "totals", "settle", "cleanup"}
AdminJobs == {"clear", "add", "cleanup"}

(* How many connections a job opens: fewer than -x if there are few users.  *)
ConnsFor(j) ==
    LET enough == (opt.user_count \div UsersPerConn) + 1
    IN  IF j \in AdminJobs /\ opt.num_conns > enough THEN enough ELSE opt.num_conns

(* How many transactions it sends.                                          *)
Requests(j) ==
    CASE j \in AdminJobs -> opt.user_count
      [] j = "load"      -> opt.num_trans
      [] j = "totals"    -> IF opt.user_count = 0 THEN 1 ELSE opt.user_count
      [] j = "settle"    -> batches

(* REQUEST_FLAG_TXN_NO_DELETE and REQUEST_FLAG_REQ_APPROVALS.               *)
KeepsHandlesNever(j) == FALSE
KeepsHandles(j) == j = "totals"
NeedsApproval(j) == j \notin {"clear", "load"}

FirstJob == IF opt.user_count > 0 /\ opt.user_create THEN "clear" ELSE "load"
AfterLoad == IF opt.user_count > 0 /\ opt.user_cleanup THEN "cleanup" ELSE "none"
JobAfter(j) ==
    CASE j = "clear"   -> "add"
      [] j = "add"     -> "load"
      [] j = "load"    -> IF opt.user_settle THEN "totals" ELSE AfterLoad
      [] j = "totals"  -> "settle"
      [] j = "settle"  -> AfterLoad
      [] j = "cleanup" -> "none"

SameConns(j, k) == <<j, k>> \in {<<"clear", "add">>, <<"load", "totals">>, <<"totals", "settle">>}

(* The connection the i-th transaction goes to, i from 0, and the number    *)
(* that the load job gives it: enqueue_transactions.                        *)
ConnOf(i) == i % opt.num_conns
PtrannumSum(i) == ConnOf(i) + (i \div opt.num_conns)
Ptrannum(i) == ConnOf(i) * Stride + (i \div opt.num_conns)

(* How many of the n transactions spread over m connections go to c.        *)
Share(c, n, m) == IF c > m THEN 0 ELSE (n + m - c) \div m

-----------------------------------------------------------------------------
(* start_connections up to the event loop.                                 *)
OpenedStale == connections_established
Opened == 0

(* The connections as LM_conn_init and LM_conn_connect leave them, whose    *)
(* results are ignored: with port 0 there are none, and one that could not  *)
(* be started stays as it was made.                                         *)
Begun(j) ==
    IF opt[IF j \in AdminJobs THEN "admin_port" ELSE "port"] = 0 THEN {Gone}
    ELSE {Connecting(Fresh), Fresh}

StartConnections(j) ==
    /\ at' = "connecting" /\ job' = j /\ loop_done' = FALSE
    /\ expected_connections' = ConnsFor(j)
    /\ connections_established' = Opened
    /\ \E begun \in [Conns -> Begun(j)] :
          conn' = [c \in Conns |-> IF c <= ConnsFor(j) THEN begun[c] ELSE Gone]

Start ==
    /\ at = "options"
    /\ StartConnections(FirstJob)
    /\ UNCHANGED <<opt, expected_trans, transactions_done, last_transactions_done, flags,
                   handles, batches>>

(* No CONN_CONNECTED will make the count complete: there is no connection,  *)
(* or one of them was never started.  Nothing then ends the event loop,     *)
(* unless one of the others is lost.                                        *)
NeverComplete ==
    /\ at = "connecting"
    /\ \/ expected_connections = 0
       \/ \E c \in Conns : c <= expected_connections /\ conn[c].phase \in {"idle", "gone"}

WaitsForNothing == NeverComplete /\ UNCHANGED vars

(* The end of a job, with these many transaction objects left: the next one *)
(* runs on the same connections, or they are destroyed with everything that *)
(* belongs to them (destroy_connections) and new ones are opened, or the    *)
(* program is over.                                                         *)
Proceed(left) ==
    LET next == JobAfter(job)
    IN  IF SameConns(job, next)
        THEN /\ at' = "ready" /\ job' = next
             /\ handles' = left
             /\ UNCHANGED <<conn, loop_done, expected_connections, connections_established>>
        ELSE /\ handles' = 0
             /\ IF next # "none"
                THEN StartConnections(next)
                ELSE /\ at' = "done"
                     /\ conn' = [c \in Conns |-> Gone]
                     /\ UNCHANGED <<job, loop_done, expected_connections,
                                    connections_established>>

(* The enqueue_... function of the job, then send_requests up to the event  *)
(* loop, which is not run when there is nothing to send.  The counters are  *)
(* reset after the transactions have been submitted, but no callback can    *)
(* have run in between.                                                     *)
DoneKept == transactions_done
DoneReset == 0

Send ==
    /\ at = "ready"
    /\ LET n == Requests(job)
       IN  IF n = 0
           THEN /\ Proceed(handles)
                /\ UNCHANGED <<expected_trans, transactions_done, last_transactions_done, flags,
                               batches>>
           ELSE /\ at' = "waiting" /\ loop_done' = FALSE
                /\ conn' = [c \in Conns |-> SendingAll(conn[c], Share(c, n, expected_connections))]
                /\ handles' = handles + n
                /\ expected_trans' = n
                /\ transactions_done' = DoneReset
                /\ last_transactions_done' = 0
                /\ delete_txn_handle' = ~KeepsHandles(job)
                /\ expect_approved' = NeedsApproval(job)
                /\ batches' = IF job = "totals" THEN 0 ELSE batches
                /\ UNCHANGED <<job, expected_connections, connections_established>>
    /\ UNCHANGED opt

(* The event loop returns.  After the totals every answer is read, and its  *)
(* transaction deleted.                                                     *)
LoopReturns ==
    /\ loop_done
    /\ \/ /\ at = "connecting"
          /\ at' = "ready"
          /\ UNCHANGED <<job, conn, loop_done, expected_connections, connections_established,
                         handles, last_transactions_done>>
       \/ /\ at = "waiting"
          /\ Proceed(IF job = "totals" THEN handles - expected_trans ELSE handles)
          /\ last_transactions_done' = transactions_done
    /\ UNCHANGED <<opt, expected_trans, transactions_done, flags, batches>>

-----------------------------------------------------------------------------
(* monetra_callback.                                                       *)

Looping == at \in {"connecting", "waiting"}

Delivered(c, type, next) ==
    /\ Looping
    /\ Event(type, next) \in Told(conn[c])
    /\ conn' = [conn EXCEPT ![c] = next]

OnConnected(c, next) ==
    /\ Delivered(c, "CONN_CONNECTED", next)
    /\ connections_established' = connections_established + 1
    /\ loop_done' = (loop_done \/ connections_established' = expected_connections)
    /\ UNCHANGED <<at, job, opt, expected_connections, expected_trans, transactions_done,
                   last_transactions_done, flags, handles, batches>>

(* Any lost connection is the end.                                          *)
OnClosed(c, next) ==
    /\ Delivered(c, "CONN_DISCONNECT", next) \/ Delivered(c, "CONN_ERROR", next)
    /\ at' = "refused"
    /\ UNCHANGED <<job, opt, loop_done, counters, flags, handles, batches>>

(* An answer, which is an approval or not and, if it is one to BT, may list *)
(* open batches.                                                            *)
AllAnsweredOne == TRUE
AllAnswered == transactions_done' = expected_trans

OnTransDone(c, next) ==
    /\ Delivered(c, "TRANS_DONE", next)
    /\ transactions_done' = transactions_done + 1
    /\ \/ /\ expect_approved
          /\ at' = "refused"
          /\ UNCHANGED <<loop_done, handles, batches>>
       \/ /\ loop_done' = (loop_done \/ AllAnswered)
          /\ handles' = IF delete_txn_handle THEN handles - 1 ELSE handles
          /\ batches' \in IF job = "totals" THEN batches .. batches + MaxBatches ELSE {batches}
          /\ UNCHANGED at
    /\ UNCHANGED <<job, opt, expected_connections, connections_established, expected_trans,
                   last_transactions_done, flags>>

OnTransLost(c, next) ==
    /\ Delivered(c, "TRANS_ERROR", next) \/ Delivered(c, "TRANS_NOCONNECT", next)
    /\ UNCHANGED <<at, job, opt, loop_done, counters, flags, handles, batches>>

(* status_callback, every second while the program waits for answers.       *)
Status ==
    /\ at = "waiting"
    /\ last_transactions_done' = transactions_done
    /\ UNCHANGED <<at, job, opt, conn, loop_done, expected_connections, connections_established,
                   expected_trans, transactions_done, flags, handles, batches>>

(* The other side closes a connection, or it fails.                         *)
Loses(c) ==
    /\ at \in {"connecting", "ready", "waiting"}
    /\ \E next \in Losing(conn[c]) : conn' = [conn EXCEPT ![c] = next]
    /\ UNCHANGED <<at, job, opt, loop_done, counters, flags, handles, batches>>

Ended == at \in {"done", "refused"} /\ UNCHANGED vars

-----------------------------------------------------------------------------
Init ==
    /\ at = "options" /\ job = "none"
    /\ opt = DefaultOptions
    /\ conn = [c \in Conns |-> Gone]
    /\ loop_done = FALSE
    /\ expected_connections = 0 /\ connections_established = 0
    /\ expected_trans = 0 /\ transactions_done = 0 /\ last_transactions_done = 0
    /\ delete_txn_handle = FALSE /\ expect_approved = FALSE
    /\ handles = 0 /\ batches = 0

Main == Start \/ Send \/ LoopReturns

Tells(c) ==
    \E e \in Told(conn[c]) :
        \/ OnConnected(c, e.next)
        \/ OnClosed(c, e.next)
        \/ OnTransDone(c, e.next)
        \/ OnTransLost(c, e.next)

Next ==
    \/ ReadOption \/ RefuseOption
    \/ Main
    \/ \E c \in Conns : Tells(c) \/ Loses(c)
    \/ Status
    \/ WaitsForNothing
    \/ Ended

Spec == Init /\ [][Next]_vars

-----------------------------------------------------------------------------
(* When the loop of send_requests ends, no transaction of the job still     *)
(* waits for its answer, so that the connections can be used for the next   *)
(* job, or destroyed, without losing one.                                   *)
JobAnswered ==
    at = "waiting" /\ loop_done => \A c \in Conns : conn[c].owed = 0 /\ conn[c].late = 0

(* Transaction objects are deleted as they are answered, except those that  *)
(* settle_batches reads afterwards: these are all there when it does.       *)
HandlesExact ==
    at = "waiting" =>
        handles = IF job = "totals" THEN expected_trans ELSE expected_trans - transactions_done

(* No ptrannum is used twice in a load, as long as a connection has no more *)
(* transactions than numbers are set aside for it.                          *)
PtrannumUnique ==
    opt.num_conns > 0 =>
        \A i, j \in 0 .. opt.num_trans - 1 :
            /\ i \div opt.num_conns < Stride
            /\ j \div opt.num_conns < Stride
            /\ Ptrannum(i) = Ptrannum(j)
            => i = j

-----------------------------------------------------------------------------
(* Fairness.  The program goes on when it can (without -y, before it sends  *)
(* the load, when Enter is pressed), and the event loop gives each          *)
(* connection its turn; of the server it is assumed that it answers or      *)
(* closes the connection, because the program itself has no time limit.     *)
Fairness ==
    /\ WF_vars(Main)
    /\ \A c \in Conns : WF_vars(Tells(c))

FairSpec == Spec /\ Fairness

(* The program ends, or it waits in start_connections for a connection that *)
(* was never begun: with -x 0, with a port of 0, or if LM_conn_connect      *)
(* failed at once, which nobody looks at.  Whatever happens to connections  *)
(* that were started ends it.                                               *)
LoadEnds == at = "connecting" ~> at \in {"done", "refused"} \/ NeverComplete
=============================================================================
