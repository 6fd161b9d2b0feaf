-------------------------- MODULE MCCacheDirectory --------------------------
(***************************************************************************)
(* Two keys that share their first digits, with entries of two schema      *)
(* versions.                                                               *)
(***************************************************************************)
EXTENDS CacheDirectory

TwoKeys == {<<1, 1, 1>>, <<1, 1, 2>>}
KindOfKey == [k \in Keys |-> IF k[3] = 2 THEN "run" ELSE "scoped"]

\* Issuers, and advancers, differ in nothing but their names.
Symmetry == Permutations(Issuers) \union Permutations(Advancers)
=============================================================================
