------------------------------- MODULE Startup -------------------------------
(***************************************************************************)
(* From the command line to a daemon that can answer: main (src/main.rs),  *)
(* Config::load (src/config.rs) and Manager::new (daemon/manager.rs).      *)
(*                                                                         *)
(* A document is a function from the paths of its keys and tables to typed *)
(* values, a table to Table.  A variable may hold an inline table, and     *)
(* then sets a document of its own at its path.  The variables come in no  *)
(* particular order.  Lists are left out but for that of the providers,    *)
(* which is kept beside the document and which no variable sets.           *)
(***************************************************************************)
EXTENDS Naturals, Sequences, SequencesExt

CONSTANTS
    CommandLines,   \* arguments the program may be started with
    FileSystems,    \* file name -> its content, or Missing
    Environments,   \* sets of SKIPJACKD_ variables: [path, sets], sets a
                    \* document whose paths all start with path
    KeyRings,       \* variable -> the API key it holds, or None
    Default,        \* Config::default(), a document
    TableDefault    \* the same paths in the default of the type of their table

None      == "none"
Missing   == [state |-> "missing"]
Usual     == "default file"
Known     == {"duckduckgo", "brave", "jina", "searxng"}
NoCatalog == <<>>
Table     == [type |-> "table", value |-> None]

Keys        == {p \in DOMAIN Default : Default[p].type # "table"}
Above(path) == {SubSeq(path, 1, n) : n \in 1..Len(path) - 1}

ASSUME StartupConstants ==
    /\ \A f \in FileSystems : Usual \in DOMAIN f
    /\ DOMAIN TableDefault = DOMAIN Default
    /\ DOMAIN Default \subseteq Seq(STRING)
    /\ \A p \in Keys : Above(p) \subseteq DOMAIN Default \ Keys
    /\ \A e \in Environments : \A o \in e :
          /\ o.path \in Seq(STRING) \ {<<>>} /\ o.path \in DOMAIN o.sets
          /\ \A p \in DOMAIN o.sets : p \in Seq(STRING) /\ IsPrefix(o.path, p)

VARIABLES
    args,           \* the command line
    files, env, keys,
    phase,          \* how far the start has come
    root,           \* the TOML table under construction
    pending,        \* variables not yet applied
    config,         \* the frozen configuration: path -> value
    entries,        \* its list of providers
    next,           \* the entry to register next
    catalog         \* name -> the registered provider

vars == <<args, files, env, keys, phase, root, pending, config, entries, next, catalog>>

Init ==
    /\ args \in CommandLines
    /\ files \in FileSystems /\ env \in Environments /\ keys \in KeyRings
    /\ phase = "start" /\ root = Default /\ pending = {} /\ config = <<>>
    /\ entries = <<>> /\ next = 1 /\ catalog = NoCatalog

-----------------------------------------------------------------------------
(* main: no argument is the MCP server, "--daemon" in first place the      *)
(* daemon, anything else the command line client.                          *)
Mode ==
    IF args = <<>> THEN "mcp" ELSE IF args[1] = "--daemon" THEN "daemon" ELSE "cli"

(* extract_config_arg: the word after the first flag that has one. *)
extract_config_arg ==
    LET at == {i \in 1..Len(args) - 1 : args[i] \in {"--config", "-c"}}
    IN  IF at = {} THEN Usual ELSE args[(CHOOSE i \in at : \A j \in at : i <= j) + 1]

(* toml::from_str.  The document is one of the schema: tables where that   *)
(* has tables, values of the right type where it has values; unknown keys  *)
(* are ignored.                                                            *)
Fits(doc) == \A p \in DOMAIN Default \cap DOMAIN doc : doc[p].type = Default[p].type

(* #[serde(default)] on every table: a table that is left out is the one   *)
(* of Config::default(), but in a table that is there the missing keys     *)
(* come from the default of the table's own type.                          *)
Parsed(doc) ==
    [p \in DOMAIN Default |->
        IF p \in DOMAIN doc THEN doc[p]
        ELSE IF Front(p) \in DOMAIN doc THEN TableDefault[p]
        ELSE Default[p]]

(* The three modes load the same configuration; clap reads the flag for    *)
(* the client, and the MCP server has none.                                *)
Load ==
    LET content == files[extract_config_arg] IN
    /\ phase = "start"
    /\ pending' = env
    /\ IF content = Missing
         THEN root' = Default /\ entries' = <<>> /\ phase' = "overriding"
       ELSE IF content.state = "invalid" \/ ~Fits(content.values)
         THEN UNCHANGED <<root, entries>> /\ phase' = "failed"
       ELSE /\ root' = Parsed(content.values)
            /\ entries' = content.providers
            /\ phase' = "overriding"
    /\ UNCHANGED <<args, files, env, keys, config, next, catalog>>

-----------------------------------------------------------------------------
(* apply_env_overrides.  A value on the way to the key is an error, a      *)
(* missing table is made, and what was at the path goes with all below it. *)
(* Fault: what is there stays.                                             *)
Blocked(path) == \E p \in DOMAIN root : IsStrictPrefix(p, path) /\ root[p].type # "table"

InsertNew(o) ==
    [p \in DOMAIN root \cup DOMAIN o.sets \cup Above(o.path) |->
        IF p \in DOMAIN root THEN root[p] ELSE IF p \in DOMAIN o.sets THEN o.sets[p] ELSE Table]

Insert(o) ==
    LET kept == {p \in DOMAIN root : ~IsPrefix(o.path, p)} IN
    [p \in kept \cup DOMAIN o.sets \cup Above(o.path) |->
        IF p \in DOMAIN o.sets THEN o.sets[p] ELSE IF p \in kept THEN root[p] ELSE Table]

Override(o) ==
    /\ phase = "overriding"
    /\ pending' = pending \ {o}
    /\ IF Blocked(o.path) THEN phase' = "failed" /\ UNCHANGED root
       ELSE root' = Insert(o) /\ UNCHANGED phase
    /\ UNCHANGED <<args, files, env, keys, config, entries, next, catalog>>

(* validate_providers: a key in the file wins over the variable; a         *)
(* variable that is not set disables the provider.                         *)
Valid(e) ==
    IF e.key # None \/ e.key_env = None THEN e
    ELSE IF keys[e.key_env] # None THEN [e EXCEPT !.key = keys[e.key_env]]
    ELSE [e EXCEPT !.enabled = FALSE]

(* The document becomes a Config again.  Only the daemon goes on to build  *)
(* a Manager.                                                              *)
Freeze ==
    /\ phase = "overriding" /\ pending = {}
    /\ IF Fits(root)
         THEN /\ config' = [p \in Keys |-> Parsed(root)[p].value]
              /\ entries' = [i \in DOMAIN entries |-> Valid(entries[i])]
              /\ phase' = IF Mode = "daemon" THEN "opening" ELSE "client"
         ELSE phase' = "failed" /\ UNCHANGED <<config, entries>>
    /\ UNCHANGED <<args, files, env, keys, root, pending, next, catalog>>

-----------------------------------------------------------------------------
(* The constructors: who is available.  An empty key is a key to Brave. *)
NewProvider(e, available) == [available |-> available, key |-> e.key]

NewDuckDuckGo(e) == NewProvider(e, TRUE)
NewBrave(e)      == NewProvider(e, e.key # None)
NewJina(e)       == NewProvider(e, e.key \notin {None, ""})
NewSearxng(e)    == NewProvider(e, e.url # None)

create_provider(e) ==
    CASE e.name = "duckduckgo" -> NewDuckDuckGo(e)
      [] e.name = "brave"      -> NewBrave(e)
      [] e.name = "jina"       -> NewJina(e)
      [] e.name = "searxng"    -> NewSearxng(e)

(* HashMap::insert *)
Put(map, key, v) == [k \in DOMAIN map \cup {key} |-> IF k = key THEN v ELSE map[k]]

(* ProviderCatalog::register: the last entry of a name replaces the others. *)
Registered(e) == Put(catalog, e.name, create_provider(e))

(* Manager::new, before its loop: a cache that cannot be opened ends it. *)
OpenCache ==
    /\ phase = "opening"
    /\ phase' \in {"registering", "failed"}
    /\ UNCHANGED <<args, files, env, keys, root, pending, config, entries, next, catalog>>

(* The loop.  A provider whose HTTP client cannot be built, or whose name  *)
(* is unknown, ends it with an error.                                      *)
Register ==
    /\ phase = "registering" /\ next <= Len(entries)
    /\ LET e == entries[next] IN
       \/ ~e.enabled /\ UNCHANGED <<phase, catalog>>
       \/ /\ e.enabled /\ e.name \in Known
          /\ catalog' = Registered(e)
          /\ UNCHANGED phase
       \/ e.enabled /\ phase' = "failed" /\ UNCHANGED catalog
    /\ next' = next + 1
    /\ UNCHANGED <<args, files, env, keys, root, pending, config, entries>>

Serve ==
    /\ phase = "registering" /\ next > Len(entries)
    /\ phase' = "serving"
    /\ UNCHANGED <<args, files, env, keys, root, pending, config, entries, next, catalog>>

Next ==
    \/ Load \/ Freeze \/ OpenCache \/ Register \/ Serve
    \/ \E o \in pending : Override(o)

Spec == Init /\ [][Next]_vars

-----------------------------------------------------------------------------
(* The file the command line names, as it is read. *)
Named == files[extract_config_arg]

InFile(p) ==
    IF Named = Missing THEN Default[p].value ELSE Parsed(Named.values)[p].value

(* Whatever the order in which the variables come and however their paths  *)
(* meet, either the program stops or every key has the value it should     *)
(* have: the file's, if no variable sets the key or a table it is in, and  *)
(* otherwise what one of those that do makes of it.  A table without the   *)
(* key takes the file's value away, and leaves a default.                  *)
Concerns(o, p) ==
    IsPrefix(o.path, p) /\ (o.path = p \/ o.sets[o.path].type = "table")

MadeBy(o, p) ==
    IF p \in DOMAIN o.sets THEN {o.sets[p].value}
                           ELSE {Default[p].value, TableDefault[p].value}

Rightly(p, v, applied) ==
    IF \E o \in applied : Concerns(o, p)
      THEN \E o \in applied : Concerns(o, p) /\ v \in MadeBy(o, p)
      ELSE v = InFile(p)

ConfigIsOverlay == config # <<>> => \A p \in Keys : Rightly(p, config[p], env)

(* "Environment variables with the SKIPJACKD_ prefix override config keys": *)
(* the keys they name and no others.  An inline table takes away the       *)
(* file's other keys in the table, and what came before it.                *)
OverridesNamedKeys ==
    config # <<>> =>
        \A p \in Keys :
            LET named == {o \in env : p \in DOMAIN o.sets} IN
            IF named = {} THEN config[p] = InFile(p)
                          ELSE \E o \in named : config[p] = o.sets[p].value

(* "It will still be registered in the catalog so users can see it in      *)
(* list_providers output" (jina.rs): refuted for a key variable that is    *)
(* not set, which disables the entry before it gets there.                 *)
AlwaysListed ==
    phase = "serving" =>
        \A i \in DOMAIN entries :
            Named # Missing /\ Named.providers[i].enabled =>
                entries[i].name \in DOMAIN catalog

-----------------------------------------------------------------------------
(* Why ConfigIsOverlay holds.  While variables are applied, a key has the  *)
(* value it should have by now, or is gone with its table, or something    *)
(* stands at the key or on the way to it that makes the document unfit:    *)
(* that goes only when another variable sets the key or a table above it.  *)
InTheWay(p) ==
    \E q \in DOMAIN Default \cap DOMAIN root : IsPrefix(q, p) /\ root[q].type # Default[q].type

Layers ==
    \A p \in Keys :
        \/ p \in DOMAIN root /\ Rightly(p, root[p].value, env \ pending)
        \/ /\ p \notin DOMAIN root
           /\ \E o \in env \ pending : Concerns(o, p) /\ p \notin DOMAIN o.sets
        \/ InTheWay(p)

OverlayInv ==
    /\ env \in Environments
    /\ phase = "start" => config = <<>>
    /\ phase = "overriding" =>
          /\ config = <<>>
          /\ pending \subseteq env
          /\ DOMAIN root \subseteq Seq(STRING)
          /\ Layers
    /\ ConfigIsOverlay
=============================================================================
