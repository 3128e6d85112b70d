------------------------------ MODULE MCStartup ------------------------------
(* A table with two keys, one with one, and a table in a table whose own   *)
(* default is not the one of the configuration; variables that set a known *)
(* key or a whole table, give a key the wrong type, stand in the way of a  *)
(* table, reach below a value, or build a table nobody knows.  Two         *)
(* provider entries, perhaps of the same name.                             *)
EXTENDS Startup, FiniteSets, TLC

MCNumber(v) == [type |-> "number", value |-> v]
MCText(v)   == [type |-> "text", value |-> v]

MCDefault ==
    (<<"cache">> :> Table) @@ (<<"cache", "ttl">> :> MCNumber("3600"))
    @@ (<<"cache", "path">> :> MCText("cache.db"))
    @@ (<<"dispatch">> :> Table) @@ (<<"dispatch", "mode">> :> MCText("concurrent"))
    @@ (<<"ranking">> :> Table) @@ (<<"ranking", "position">> :> Table)
    @@ (<<"ranking", "position", "weight">> :> MCNumber("1"))
MCTableDefault ==
    (<<"ranking", "position", "weight">> :> MCNumber("0")) @@ MCDefault

MCVar(path, sets) == [path |-> path, sets |-> sets]
MCSet(path, v)    == MCVar(path, path :> v)
MCOverrides ==
    {MCSet(<<"cache", "ttl">>, MCNumber("60")), MCSet(<<"cache", "ttl">>, MCNumber("90")),
     MCSet(<<"cache", "path">>, MCText("here.db")),
     MCVar(<<"cache">>, (<<"cache">> :> Table) @@ (<<"cache", "ttl">> :> MCNumber("5"))),
     MCVar(<<"cache", "ttl">>,
           (<<"cache", "ttl">> :> Table) @@ (<<"cache", "ttl", "secs">> :> MCNumber("1"))),
     MCSet(<<"cache", "ttl", "secs">>, MCNumber("1")),
     MCSet(<<"dispatch">>, MCText("tiered")), MCSet(<<"home">>, MCText("here")),
     MCSet(<<"home", "dir">>, MCText("there")), MCSet(<<"ranking">>, Table),
     MCSet(<<"ranking", "position", "weight">>, MCNumber("2")),
     MCSet(<<"ranking", "position", "enabled">>, MCText("true"))}

MCEntry(name, enabled, key, key_env) ==
    [name |-> name, enabled |-> enabled, key |-> key, key_env |-> key_env, url |-> None]
MCEntries ==
    {MCEntry("jina", TRUE, None, "KEY"), MCEntry("jina", TRUE, "secret", None),
     MCEntry("other", TRUE, None, None)}

MCFile ==
    (<<"cache">> :> Table) @@ (<<"cache", "ttl">> :> MCNumber("10"))
    @@ (<<"cache", "path">> :> MCText("file.db"))
    @@ (<<"ranking">> :> Table) @@ (<<"ranking", "position">> :> Table)
MCContents ==
    {[state |-> "invalid", values |-> <<>>, providers |-> <<>>],
     [state |-> "good", values |-> <<"cache">> :> MCNumber("10"), providers |-> <<>>]}
    \cup {[state |-> "good", values |-> v, providers |-> <<e, f>>] :
            v \in {<<>>, MCFile}, e, f \in MCEntries}

MCFileSystems ==
    [{"default file"} -> {Missing, [state |-> "good", values |-> <<>>, providers |-> <<>>]}]
MCBothFiles ==
    {f @@ ("b.toml" :> c) : f \in MCFileSystems, c \in MCContents \cup {Missing}}

MCEnvironments == {e \in SUBSET MCOverrides : Cardinality(e) <= 3}
MCKeyRings == [{"KEY"} -> {None, "", "secret"}]

MCCommandLines ==
    {<<>>, <<"--daemon">>, <<"--daemon", "--config", "b.toml">>, <<"--daemon", "-c", "b.toml">>,
     <<"search", "word", "-c", "b.toml">>, <<"--daemon", "-c">>}
=============================================================================
