------------------------------ MODULE MCRanking ------------------------------
(* Up to three results of two providers, one that scores by position and   *)
(* one with scores of its own; five URLs of two pages, one of them with a  *)
(* hidden tracker.  Scores are in twelfths.                                *)
EXTENDS Ranking, TLC

MCUrl(page, slash, params) ==
    [page |-> page, capitals |-> FALSE, fragment |-> FALSE, slash |-> slash, params |-> params]
MCParam(name, bare, slash) == [name |-> name, bare |-> bare, slash |-> slash]

MCUrls == {MCUrl("a", FALSE, <<>>),
           MCUrl("a", TRUE, <<MCParam("ref", FALSE, FALSE)>>),
           MCUrl("a", TRUE, <<MCParam("ref", FALSE, FALSE), MCParam("id", FALSE, TRUE)>>),
           MCUrl("a", FALSE, <<MCParam("ref", TRUE, TRUE)>>),
           MCUrl("b", FALSE, <<>>)}

MCResult(url, provider, score, date) ==
    [url |-> url, provider |-> provider, score |-> score, native |-> score, date |-> date]

MCWorth == 0 :> 12 @@ 1 :> 6 @@ 2 :> 4 @@ 3 :> 3

MCResults ==
    {MCResult(u, "brave", MCWorth[n], "none") : u \in MCUrls, n \in 0..2}
    \cup {MCResult(u, "searxng", 8, date) : u \in MCUrls, date \in {"none", "recent"}}
    \cup {MCResult(u, "searxng", 20, "none") : u \in MCUrls}

(* Brave's scores are those of the positions. *)
MCInputs ==
    {s \in UNION {[1..n -> MCResults] : n \in 0..3} :
        \A i \in DOMAIN s :
            s[i].provider = "brave" =>
                s[i].score = MCWorth[Cardinality({j \in 1..i - 1 : s[j].provider = "brave"})]}

(* A row of the cache meets one result of the other provider, or none.     *)
MCOthers ==
    {<<>>} \cup {<<MCResult(u, p, 12, "none")>> : u \in {MCUrl("a", FALSE, <<>>)},
                                              p \in {"brave", "searxng"}}

MCDimension(on, weight) == [enabled |-> on, weight |-> weight]
MCConfigs ==
    {[reputation |-> MCDimension(FALSE, 1), position |-> MCDimension(TRUE, 1),
      freshness |-> MCDimension(FALSE, 0)],
     [reputation |-> MCDimension(TRUE, 1), position |-> MCDimension(TRUE, 1),
      freshness |-> MCDimension(TRUE, 2)],
     [reputation |-> MCDimension(FALSE, 1), position |-> MCDimension(TRUE, -1),
      freshness |-> MCDimension(FALSE, 0)]}

(* Reputation, position and freshness together. *)
MCFreshness == {c \in MCConfigs : c.freshness.enabled}

MCWeights == "brave" :> 1 @@ "searxng" :> 2
=============================================================================
