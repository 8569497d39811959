---------------------------- MODULE RandomAmount ----------------------------
(***************************************************************************)
(* The amounts, in cents, that the command line client draws for           *)
(* -r [min:]max.  Amounts from SlowFirst to SlowLast make the server delay *)
(* its answer; the client is not to send them.                             *)
(***************************************************************************)
EXTENDS Integers

CONSTANTS SlowFirst, SlowLast   \* 800 and 899 in the program

ASSUME SlowAssumption == SlowFirst \in Nat /\ SlowLast \in Nat /\ 1 < SlowFirst /\ SlowFirst <= SlowLast

Slow == SlowFirst .. SlowLast

Range(min, max) == [min |-> min, max |-> max]

-----------------------------------------------------------------------------
(* cli_parse_random_amount.  max is the first amount that is not drawn:     *)
(* with a single value that value itself, otherwise the one after it.       *)

OfSingle(max) == Range(1, max)
OfPair(min, max) == Range(min, max + 1)

Refused(r) == r.min > r.max \/ (r.min >= SlowFirst /\ r.max <= SlowLast)

AvoidedMaxOnly(r) == Range(r.min, IF r.max \in Slow THEN r.min + 1 ELSE r.max)
Avoided(r) ==
    LET min == IF r.min \in Slow THEN SlowLast + 1 ELSE r.min
    IN  Range(min, IF r.max \in Slow THEN min + 1 ELSE r.max)

-----------------------------------------------------------------------------
(* cli_trans_create: is a random amount used, what M_rand_range may return  *)
(* (of an empty range, which is not refused, nothing is known), and the     *)
(* amounts that end the loop that draws it.                                 *)

InUse(r) == r.min # 0 /\ r.max # 0

Drawn(r) == IF r.min < r.max THEN r.min .. r.max - 1 ELSE Nat
Kept(r) == {n \in Drawn(r) : n \notin Slow}

-----------------------------------------------------------------------------
(* What a range may be used for when another was asked for: unless it is    *)
(* empty it leaves an amount to draw, so that the loop ends, and whatever   *)
(* is drawn was asked for and is not slow.                                  *)
Allowed(r, asked) ==
    InUse(r) /\ r.min < r.max =>
        /\ Kept(r) # {}
        /\ Kept(r) \subseteq (asked.min .. asked.max) \ Slow
=============================================================================
