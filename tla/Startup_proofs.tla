--------------------------- MODULE Startup_proofs ---------------------------
(***************************************************************************)
(* The start of the program, for every command line, file, environment,    *)
(* schema and list of providers.  OverlayInv says how far a configuration  *)
(* has come while variables are applied: a key has the value it should     *)
(* have by now, or is gone with its table, or something stands in its way. *)
(***************************************************************************)
EXTENDS Startup, SequenceTheorems, TLAPS

LEMMA PrefixTransitive ==
    ASSUME NEW r \in Seq(STRING), NEW s \in Seq(STRING), NEW t \in Seq(STRING),
           IsPrefix(r, s), IsPrefix(s, t)
    PROVE  IsPrefix(r, t)
<1>1. /\ Len(r) \in Nat /\ Len(s) \in Nat /\ Len(t) \in Nat
      /\ Len(r) <= Len(s) /\ Len(s) <= Len(t)
    BY DEF IsPrefix
<1>2. /\ SubSeq(r, 1, Len(r)) = SubSeq(s, 1, Len(r))
      /\ SubSeq(s, 1, Len(s)) = SubSeq(t, 1, Len(s))
    BY DEF IsPrefix
<1>3. ASSUME NEW i \in 1..Len(r) PROVE s[i] = t[i]
    <2>1. i \in 1..Len(s) /\ i \in 1..Len(t)
        BY <1>1
    <2>2. SubSeq(s, 1, Len(s))[i] = s[i] /\ SubSeq(t, 1, Len(s))[i] = t[i]
        BY <1>1, <2>1
    <2> QED BY <1>2, <2>2
<1>4. SubSeq(s, 1, Len(r)) = SubSeq(t, 1, Len(r))
    <2>1. /\ SubSeq(s, 1, Len(r)) \in Seq(STRING) /\ SubSeq(t, 1, Len(r)) \in Seq(STRING)
          /\ Len(SubSeq(s, 1, Len(r))) = Len(r) /\ Len(SubSeq(t, 1, Len(r))) = Len(r)
        BY <1>1
    <2>2. \A i \in 1..Len(r) : SubSeq(s, 1, Len(r))[i] = SubSeq(t, 1, Len(r))[i]
        BY <1>1, <1>3
    <2> QED BY <2>1, <2>2, SeqEqual
<1> QED BY <1>1, <1>2, <1>4 DEF IsPrefix

(* A path that starts a key's leads to a table of the schema. *)
LEMMA PrefixesAreTables ==
    ASSUME NEW q \in Seq(STRING) \ {<<>>}, NEW p \in Keys, IsStrictPrefix(q, p)
    PROVE  q \in DOMAIN Default /\ Default[q].type = "table"
<1>1. p \in Seq(STRING)
    BY StartupConstants DEF Keys
<1>2. IsPrefix(q, p) /\ q # p /\ Len(q) \in Nat \ {0} /\ Len(p) \in Nat
    BY <1>1 DEF IsStrictPrefix
<1>3. q = SubSeq(p, 1, Len(q))
    <2>1. SubSeq(q, 1, Len(q)) = q
        OBVIOUS
    <2> QED BY <1>2, <2>1 DEF IsPrefix
<1>4. Len(q) # Len(p)
    <2>1. SubSeq(p, 1, Len(p)) = p
        BY <1>1
    <2> QED BY <1>2, <1>3, <2>1
<1>5. Len(q) \in 1..Len(p) - 1
    BY <1>2, <1>4 DEF IsPrefix
<1>6. q \in Above(p)
    BY <1>3, <1>5 DEF Above
<1> QED BY <1>6, StartupConstants DEF Keys

(* What stands above a path does not start with it. *)
LEMMA AboveIsAbove ==
    ASSUME NEW s \in Seq(STRING), NEW q \in Above(s)
    PROVE  q \in Seq(STRING) /\ ~IsPrefix(s, q)
<1>1. PICK n \in 1..Len(s) - 1 : q = SubSeq(s, 1, n)
    BY DEF Above
<1>2. q \in Seq(STRING) /\ Len(q) = n /\ n < Len(s) /\ Len(s) \in Nat
    BY <1>1
<1> QED BY <1>2 DEF IsPrefix

LEMMA LoadStep ==
    ASSUME OverlayInv, Load
    PROVE  OverlayInv'
<1>1. /\ phase = "start" /\ config = <<>> /\ config' = <<>>
      /\ pending' = env /\ env \in Environments
      /\ UNCHANGED <<args, files, env>>
    BY DEF OverlayInv, Load
<1>2. ConfigIsOverlay'
    BY <1>1 DEF ConfigIsOverlay
<1>3. CASE phase' = "failed"
    BY <1>1, <1>2, <1>3 DEF OverlayInv
<1>4. CASE phase' = "overriding"
    <2>1. /\ DOMAIN root' = DOMAIN Default
          /\ \A p \in DOMAIN Default : root'[p].value = InFile(p)
        <3>1. CASE Named = Missing
            BY <1>4, <3>1 DEF Load, Named, InFile
        <3>2. CASE Named # Missing
            <4>1. root' = Parsed(Named.values)
                BY <1>4, <3>2 DEF Load, Named
            <4> QED BY <3>2, <4>1 DEF InFile, Parsed
        <3> QED BY <3>1, <3>2
    <2>2. \A p : InFile(p)' = InFile(p)
        BY <1>1 DEF InFile, Named, extract_config_arg, Parsed
    <2>3. env' \ pending' = {}
        BY <1>1
    <2>4. Layers'
        BY <2>1, <2>2, <2>3 DEF Layers, Rightly, Keys
    <2>5. DOMAIN root' \subseteq Seq(STRING)
        BY <2>1, StartupConstants
    <2> QED BY <1>1, <1>2, <1>4, <2>4, <2>5 DEF OverlayInv
<1> QED BY <1>3, <1>4 DEF Load

(* A variable is applied. *)
LEMMA OverrideStep ==
    ASSUME OverlayInv, NEW o \in pending, Override(o)
    PROVE  OverlayInv'
<1>1. /\ phase = "overriding" /\ config = <<>> /\ pending \subseteq env /\ env \in Environments
      /\ DOMAIN root \subseteq Seq(STRING) /\ Layers
      /\ pending' = pending \ {o} /\ UNCHANGED <<args, files, env, config>>
    BY DEF OverlayInv, Override
<1>2. ConfigIsOverlay'
    BY <1>1 DEF ConfigIsOverlay
<1>3. CASE phase' = "failed"
    BY <1>1, <1>2, <1>3 DEF OverlayInv
<1>4. CASE phase' # "failed"
    <2> DEFINE kept == {p \in DOMAIN root : ~IsPrefix(o.path, p)}
    <2>1. phase' = "overriding" /\ root' = Insert(o) /\ ~Blocked(o.path)
        BY <1>1, <1>4 DEF Override
    <2>2. /\ o \in env /\ o.path \in Seq(STRING) \ {<<>>} /\ o.path \in DOMAIN o.sets
          /\ \A p \in DOMAIN o.sets : p \in Seq(STRING) /\ IsPrefix(o.path, p)
        BY <1>1, StartupConstants
    <2>3. DOMAIN root' = kept \cup DOMAIN o.sets \cup Above(o.path)
        BY <2>1 DEF Insert
    <2>4. \A p \in DOMAIN root' :
             root'[p] = IF p \in DOMAIN o.sets THEN o.sets[p]
                        ELSE IF p \in kept THEN root[p] ELSE Table
        BY <2>1 DEF Insert
    <2>5. env' \ pending' = (env \ pending) \cup {o}
        BY <1>1, <2>2
    <2>6. \A p : InFile(p)' = InFile(p)
        BY <1>1 DEF InFile, Named, extract_config_arg, Parsed
    <2>7. ASSUME NEW p \in Keys
          PROVE  \/ p \in DOMAIN root' /\ Rightly(p, root[p].value, env \ pending)'
                 \/ /\ p \notin DOMAIN root'
                    /\ \E u \in env' \ pending' : Concerns(u, p) /\ p \notin DOMAIN u.sets
                 \/ InTheWay(p)'
        <3>1. p \in DOMAIN Default /\ p \in Seq(STRING) /\ Default[p].type # "table"
            BY StartupConstants DEF Keys
        (* The variable sets this key or a table above it. *)
        <3>2. CASE Concerns(o, p)
            <4>1. CASE p \in DOMAIN o.sets
                <5>1. p \in DOMAIN root' /\ root'[p].value \in MadeBy(o, p)
                    BY <2>3, <2>4, <4>1 DEF MadeBy
                <5> QED BY <2>5, <3>2, <5>1 DEF Rightly
            <4>2. CASE p \notin DOMAIN o.sets
                <5>1. IsPrefix(o.path, p)
                    BY <3>2 DEF Concerns
                <5>2. p \notin DOMAIN root'
                    BY <2>2, <2>3, <4>2, <5>1, AboveIsAbove
                <5> QED BY <2>5, <3>2, <4>2, <5>2
            <4> QED BY <4>1, <4>2
        (* It puts a value in the way. *)
        <3>3. CASE IsPrefix(o.path, p) /\ ~Concerns(o, p)
            <4>1. IsStrictPrefix(o.path, p) /\ o.sets[o.path].type # "table"
                BY <3>3 DEF Concerns, IsStrictPrefix
            <4>2. o.path \in DOMAIN Default /\ Default[o.path].type = "table"
                BY <2>2, <4>1, PrefixesAreTables
            <4>3. o.path \in DOMAIN root' /\ root'[o.path] = o.sets[o.path]
                BY <2>2, <2>3, <2>4
            <4> QED BY <3>3, <4>1, <4>2, <4>3 DEF InTheWay
        (* It sets something else. *)
        <3>4. CASE ~IsPrefix(o.path, p)
            <4>1. \A u \in env' \ pending' : Concerns(u, p) <=> u \in env \ pending /\ Concerns(u, p)
                BY <2>5, <3>4 DEF Concerns
            <4>2. p \notin DOMAIN o.sets
                BY <2>2, <3>4
            <4>3. CASE p \in DOMAIN root /\ Rightly(p, root[p].value, env \ pending)
                <5>1. p \in DOMAIN root' /\ root'[p] = root[p]
                    BY <2>3, <2>4, <3>4, <4>2, <4>3
                <5>2. Rightly(p, root'[p].value, env' \ pending')
                    BY <2>5, <4>1, <4>3, <5>1 DEF Rightly
                <5>3. Rightly(p, root[p].value, env \ pending)'
                    BY <2>6, <5>2 DEF Rightly
                <5> QED BY <5>1, <5>3
            <4>4. CASE /\ p \notin DOMAIN root
                       /\ \E u \in env \ pending : Concerns(u, p) /\ p \notin DOMAIN u.sets
                <5>1. CASE p \notin Above(o.path)
                    <6>1. p \notin DOMAIN root'
                        BY <2>3, <4>2, <4>4, <5>1
                    <6> QED BY <2>5, <4>4, <6>1
                <5>2. CASE p \in Above(o.path)
                    <6>1. p \in DOMAIN root' /\ root'[p] = Table
                        BY <2>3, <2>4, <4>2, <4>4, <5>2
                    <6>2. IsPrefix(p, p)
                        BY <3>1 DEF IsPrefix
                    <6> QED BY <3>1, <6>1, <6>2 DEF InTheWay, Table
                <5> QED BY <5>1, <5>2
            <4>5. CASE InTheWay(p)
                <5>1. PICK q \in DOMAIN Default \cap DOMAIN root :
                         IsPrefix(q, p) /\ root[q].type # Default[q].type
                    BY <4>5 DEF InTheWay
                <5>2. q \in Seq(STRING)
                    BY <1>1, <5>1
                <5>3. ~IsPrefix(o.path, q)
                    BY <2>2, <3>1, <3>4, <5>1, <5>2, PrefixTransitive
                <5>4. q \in DOMAIN root' /\ root'[q] = root[q]
                    BY <2>2, <2>3, <2>4, <5>1, <5>3
                <5> QED BY <5>1, <5>4 DEF InTheWay
            <4> QED BY <1>1, <4>3, <4>4, <4>5 DEF Layers
        <3> QED BY <3>2, <3>3, <3>4
    <2>8. Layers'
        BY <2>7 DEF Layers
    <2>9. DOMAIN root' \subseteq Seq(STRING)
        BY <1>1, <2>2, <2>3, AboveIsAbove
    <2> QED BY <1>1, <1>2, <2>1, <2>8, <2>9 DEF OverlayInv
<1> QED BY <1>3, <1>4

(* In a document that fits nothing stands in the way of a key. *)
LEMMA FreezeStep ==
    ASSUME OverlayInv, Freeze
    PROVE  OverlayInv'
<1>1. /\ phase = "overriding" /\ config = <<>> /\ pending = {} /\ env \in Environments
      /\ Layers /\ UNCHANGED <<args, files, env>>
      /\ phase' \in {"opening", "client", "failed"}
    BY DEF OverlayInv, Freeze
<1>2. \A p : InFile(p)' = InFile(p)
    BY <1>1 DEF InFile, Named, extract_config_arg, Parsed
<1>3. CASE config' = <<>>
    BY <1>1, <1>3 DEF OverlayInv, ConfigIsOverlay
<1>4. CASE config' # <<>>
    <2>1. Fits(root) /\ config' = [p \in Keys |-> Parsed(root)[p].value]
        BY <1>1, <1>4 DEF Freeze
    <2>2. ASSUME NEW p \in Keys
          PROVE  Rightly(p, config[p], env)'
        <3>1. /\ p \in DOMAIN Default
              /\ config'[p] = IF p \in DOMAIN root THEN root[p].value
                              ELSE IF Front(p) \in DOMAIN root THEN TableDefault[p].value
                              ELSE Default[p].value
            BY <2>1 DEF Parsed, Keys
        <3>2. ~InTheWay(p)
            BY <2>1 DEF Fits, InTheWay
        <3>3. CASE p \in DOMAIN root /\ Rightly(p, root[p].value, env)
            BY <1>1, <1>2, <3>1, <3>3 DEF Rightly
        <3>4. CASE /\ p \notin DOMAIN root
                   /\ \E o \in env : Concerns(o, p) /\ p \notin DOMAIN o.sets
            BY <1>1, <3>1, <3>4 DEF Rightly, MadeBy
        <3>5. env \ pending = env
            BY <1>1
        <3> QED BY <1>1, <3>2, <3>3, <3>4, <3>5 DEF Layers
    <2>3. ConfigIsOverlay'
        BY <2>2 DEF ConfigIsOverlay
    <2> QED BY <1>1, <2>3 DEF OverlayInv
<1> QED BY <1>3, <1>4

(* Nothing the configuration depends on changes any more. *)
LEMMA OverlayStays ==
    ASSUME OverlayInv, UNCHANGED <<args, files, env, root, pending, config>>,
           phase' = phase \/ phase' \in {"registering", "failed", "serving"}
    PROVE  OverlayInv'
<1>1. \A p : InFile(p)' = InFile(p)
    BY DEF InFile, Named, extract_config_arg, Parsed
<1>2. ConfigIsOverlay'
    BY <1>1 DEF OverlayInv, ConfigIsOverlay, Rightly
<1>3. Layers => Layers'
    BY <1>1 DEF Layers, InTheWay, Rightly
<1> QED BY <1>2, <1>3 DEF OverlayInv

LEMMA OverlayStep ==
    ASSUME OverlayInv, [Next]_vars
    PROVE  OverlayInv'
<1>1. CASE Load
    BY <1>1, LoadStep
<1>2. ASSUME NEW o \in pending, Override(o) PROVE OverlayInv'
    BY <1>2, OverrideStep
<1>3. CASE Freeze
    BY <1>3, FreezeStep
<1>4. CASE OpenCache \/ Register \/ Serve
    BY <1>4, OverlayStays DEF OpenCache, Register, Serve
<1>5. CASE UNCHANGED vars
    BY <1>5, OverlayStays DEF vars
<1> QED BY <1>1, <1>2, <1>3, <1>4, <1>5 DEF Next

(* In whatever order the variables come and whatever tables they hold, the *)
(* program stops or every key has a value that the file or a variable that *)
(* concerns it gives it.                                                   *)
THEOREM OverlayHolds == Spec => []ConfigIsOverlay
<1>1. Init => OverlayInv
    BY DEF Init, OverlayInv, ConfigIsOverlay
<1>2. OverlayInv => ConfigIsOverlay
    BY DEF OverlayInv
<1> QED BY <1>1, <1>2, OverlayStep, PTL DEF Spec
=============================================================================
