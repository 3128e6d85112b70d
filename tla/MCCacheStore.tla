---------------------------- MODULE MCCacheStore ----------------------------
(* CacheStore with two threads, so that two sets of one key may overlap,   *)
(* and two keys: a provider's own rows and those of it and another.        *)
EXTENDS CacheStore, TLC

CONSTANTS t1, t2, p, q

MCKeys == "own" :> {p} @@ "both" :> {p, q}

MCSymmetry == Permutations(Threads)
=============================================================================
