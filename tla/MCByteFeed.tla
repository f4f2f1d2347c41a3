----------------------------- MODULE MCByteFeed -----------------------------
(* Every byte string the parser does not give up on, up to MaxBytes bytes, *)
(* and every one it gives up on at its last byte.                          *)
EXTENDS RequestGrammar

MCByte == {"c", "k", ":", ",", " ", "CR", "LF", "CTL"}

MCMethods   == [s \in {<<"c">>} |-> "GET"]
MCVersions  == [s \in {<<"k">>, <<"c", "c">>, <<"k", "k">>} |->
                  CASE s = <<"k">>      -> <<1, 1>>
                    [] s = <<"c", "c">> -> <<1, 0>>
                    [] s = <<"k", "k">> -> <<2, 0>>]
MCClose     == {<<"c">>}
MCKeepAlive == {<<"k">>}
=============================================================================
