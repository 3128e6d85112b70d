-------------------------- MODULE MCSearchDispatch --------------------------
(* Instances of SearchDispatch: two requests, two providers. *)
EXTENDS SearchDispatch, TLC

CONSTANTS r1, r2, ddg, brave

(* "bars" is the text q|brave: with ddg alone its key is that of "q" with  *)
(* both. *)
MCWords  == {"q", "s", "day", ddg, brave}
MCSorted == {} :> <<>> @@ {brave} :> <<brave>> @@ {ddg} :> <<ddg>>
            @@ {brave, ddg} :> <<brave, ddg>>

Query(text) == [text |-> text, freshness |-> <<>>]
Bars        == Query(<<"q", brave>>)
Today       == [text |-> <<"q">>, freshness |-> <<"day">>]

Offer(query, providers, mode, limit, language) ==
    [query |-> query, providers |-> providers, mode |-> mode, limit |-> limit,
     language |-> language]
(* Auto asks the whole catalog, Only names one provider. *)
Auto(query)    == Offer(query, {}, "concurrent", 2, "en")
Only(query, p) == Offer(query, {p}, "concurrent", 2, "en")

MCOne        == {Auto(Query(<<"q">>))}
MCTiered     == {Offer(Query(<<"q">>), {}, "tiered", 1, "en"),
                 Offer(Query(<<"q">>), {}, "concurrent", 1, "en"),
                 Offer(Today, {}, "tiered", 1, "en")}
MCBars       == {Auto(Query(<<"q">>)), Only(Bars, ddg)}

MCNoTiers    == ddg :> 0 @@ brave :> 0
MCTwoTiers   == ddg :> 0 @@ brave :> 4

MCSymmetry   == Permutations(Requests)
=============================================================================
