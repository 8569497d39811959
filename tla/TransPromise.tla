---------------------------- MODULE TransPromise ----------------------------
(***************************************************************************)
(* What libmonetra promises about the transactions of one connection,      *)
(* without queues, buffers, timers, locks or events: a link that is down,  *)
(* opening, open or closing, and each transaction's standing.              *)
(*                                                                         *)
(* - A submitted transaction waits while the link is not open and goes out *)
(*   with all others that wait when the link opens.                        *)
(* - It is decided exactly once: by an answer on a link that is still      *)
(*   there, or by the loss of the link, which decides all pending ones     *)
(*   together and none of the waiting ones.                                *)
(* - It is reported at most once and only after it is decided.             *)
(***************************************************************************)
CONSTANT Users

VARIABLES
    link,   \* down, opening, open, closing
    txn     \* none, new, ready, pending, done (decided), reported

vars == <<link, txn>>

Standing == {"none", "new", "ready", "pending", "done", "reported"}

Init == link = "down" /\ txn = [t \in Users |-> "none"]

Create(t) ==
    /\ txn[t] = "none"
    /\ txn' = [txn EXCEPT ![t] = "new"]
    /\ UNCHANGED link

Submit(t) ==
    /\ txn[t] = "new"
    /\ txn' = [txn EXCEPT ![t] = IF link = "open" THEN "pending" ELSE "ready"]
    /\ UNCHANGED link

Answer(t) ==
    /\ txn[t] = "pending" /\ link \in {"open", "closing"}
    /\ txn' = [txn EXCEPT ![t] = "done"]
    /\ UNCHANGED link

Report(t) ==
    /\ txn[t] = "done"
    /\ txn' = [txn EXCEPT ![t] = "reported"]
    /\ UNCHANGED link

Delete(t) ==
    /\ txn[t] # "none"
    /\ txn' = [txn EXCEPT ![t] = "none"]
    /\ UNCHANGED link

Open == link = "down" /\ link' = "opening" /\ UNCHANGED txn

Opened ==
    /\ link = "opening" /\ link' = "open"
    /\ txn' = [t \in Users |-> IF txn[t] = "ready" THEN "pending" ELSE txn[t]]

Close == link = "open" /\ link' = "closing" /\ UNCHANGED txn

Lost ==
    /\ link # "down" /\ link' = "down"
    /\ txn' = [t \in Users |-> IF txn[t] = "pending" THEN "done" ELSE txn[t]]

Shutdown == link' = "down" /\ txn' = [t \in Users |-> "none"]

Next ==
    \/ Open \/ Opened \/ Close \/ Lost \/ Shutdown
    \/ \E t \in Users : Create(t) \/ Submit(t) \/ Answer(t) \/ Report(t) \/ Delete(t)

Spec == Init /\ [][Next]_vars

=============================================================================
