--------------------------- MODULE MCMonetraConn ---------------------------
(***************************************************************************)
(* Instances of MonetraConn for TLC: which API calls the application makes *)
(* and from which thread.                                                  *)
(***************************************************************************)
EXTENDS MonetraConn, TLC

Transaction == {"LM_trans_new", "LM_trans_set_param", "LM_trans_set_timeout",
                "LM_trans_send", "LM_trans_delete"}
Connection  == {"LM_conn_connect", "LM_conn_disconnect", "LM_conn_set_idle_timeout"}

(* A single-threaded program: every call is made in or between callbacks.   *)
LoopCalls == {"loop"} \X (Transaction \cup Connection \cup {"LM_conn_destroy"})

(* The same program, which may switch the PING off at any time.             *)
NoPingCalls == LoopCalls \cup {<<"loop", "LM_conn_disable_ping">>}

(* A second thread queues transactions and connects and disconnects while   *)
(* callbacks on the loop thread delete what is finished.                    *)
ThreadCalls == ({"app"} \X ((Transaction \cup Connection) \ {"LM_trans_delete"}))
               \cup {<<"loop", "LM_trans_delete">>, <<"loop", "LM_trans_send">>}

Symmetry == Permutations(Users)
============================================================================
