--------------------------- MODULE MCMonetraParse ---------------------------
(***************************************************************************)
(* MonetraParse for TLC: two transactions whose ids are a prefix of one    *)
(* another, and bodies at the edges of the type scan and of quoting.       *)
(***************************************************************************)
EXTENDS MonetraParse

SomeIds == {<<"1">>, <<"1", "2">>}

Pair(k, v) == [key |-> k, value |-> v]
Pairs(list) == [kind |-> "pairs", data |-> list]

(* Values that need quoting, an empty one, a key too long for the scan, a   *)
(* repeated key.                                                            *)
SomePairs ==
    {Pairs(<<Pair(<<"a">>, v)>>) :
        v \in {<<>>, <<"a">>, <<"quote">>, <<"a", "quote", "quote">>, <<"newline", "=">>}}
    \cup {Pairs(<<Pair(<<"a", "a">>, <<"a">>)>>), Pairs(<<Pair(<<"a", "a", "a">>, <<"a">>)>>),
          Pairs(<<Pair(<<"a">>, <<"quote", "newline">>), Pair(<<"a">>, <<"a">>)>>),
          [kind |-> "badpairs", data |-> <<"a", "=", "newline", "a">>]}

(* The scan: bytes that end it at the first, second and last position, and  *)
(* past its limit.                                                          *)
SomeData ==
    {[kind |-> "data", data |-> d] :
        d \in {<<>>, <<"a">>, <<",">>, <<"=">>, <<"newline">>, <<"other">>, <<"FS">>,
               <<"a", ",">>, <<"a", "newline">>, <<"a", "other", "=">>, <<"=", ",">>, <<",", "=">>,
               <<"a", "FS", ",">>, <<"1", "STX", "=">>, <<"other", ",">>,
               <<"a", "a", ",">>, <<"a", "a", "a", ",">>, <<"a", "quote", "newline">>}}

SomeBodies == SomePairs \cup SomeData
=============================================================================
