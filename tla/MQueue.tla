------------------------------- MODULE MQueue -------------------------------
(***************************************************************************)
(* mstdlib's M_queue as this library uses it: an insertion-ordered queue   *)
(* of distinct pointers with removal of a given one.  External code.       *)
(***************************************************************************)
EXTENDS Sequences, Naturals, SequencesExt

(* M_queue_take: remove the given entry, wherever it is; nothing if absent. *)
QueueTakeFirst(q, t) == IF q = <<>> THEN q ELSE Tail(q)
QueueTake(q, t) ==
    IF t \in ToSet(q) THEN RemoveAt(q, CHOOSE i \in DOMAIN q : q[i] = t) ELSE q

NoDuplicates(q) == \A i, j \in DOMAIN q : q[i] = q[j] => i = j
=============================================================================
