---------------------------- MODULE MCConnection ----------------------------
(* Connection with a limit of 3 bytes and a buffer of 2, so that every line *)
(* but the shortest comes in pieces: lines at the limit, over it by one    *)
(* and by more, a blank one, and one whose character of two bytes may be   *)
(* cut.                                                                    *)
EXTENDS Connection, TLC

MCLines == {<<>>, <<"a">>, <<"a", "a", "a">>, <<"a", "u", "v">>, <<"a", "a", "a", "a">>}

MCParses ==
    <<"a">>           :> [type |-> "Fetch"]
    @@ <<"a", "a", "a">> :> [type |-> "Search"]
    @@ <<"a", "u", "v">> :> [type |-> "Health"]

(* A name whose lookups find different addresses, one of them restricted.  *)
Site(lookups) == [scheme |-> "https", host |-> "domain", lookups |-> lookups]

MCUrls == {Site({{"public"}, {"public", "restricted"}})}

Page(length, redirect, short) ==
    [status |-> IF redirect THEN 302 ELSE 200, redirect |-> redirect,
     length |-> length, declared |-> FALSE, utf8 |-> TRUE,
     text_is_short |-> short, semantic_elements |-> TRUE, spa_root |-> FALSE]

MCPages == {Page(1, FALSE, FALSE), Page(2, FALSE, TRUE), Page(0, TRUE, TRUE)}
=============================================================================
