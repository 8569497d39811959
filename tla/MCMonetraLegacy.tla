-------------------------- MODULE MCMonetraLegacy --------------------------
(***************************************************************************)
(* Instances of MonetraLegacy for TLC: which calls of the connection API   *)
(* the legacy layer makes.                                                 *)
(***************************************************************************)
EXTENDS MonetraLegacy

LegacyCalls ==
    {"app"} \X {"LM_trans_new", "LM_trans_set_param", "LM_trans_send", "LM_trans_delete",
                "LM_conn_connect", "LM_conn_disconnect", "LM_conn_disable_ping",
                "LM_conn_destroy"}

Symmetry == Permutations(Users)
============================================================================
