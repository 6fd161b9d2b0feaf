------------------------------ MODULE CacheId ------------------------------
(***************************************************************************)
(* Cache identifiers.  A cache file is named after a key, a digest of what *)
(* the entry is for; users name an entry by a prefix of its key, at least  *)
(* MinId digits long, that `ghst status` prints and `ghst revoke` takes.   *)
(***************************************************************************)
EXTENDS SequencesExt

CONSTANTS
    Keys,   \* the keys that may be in use: digests, sequences of digits of one length
    MinId   \* MIN_CACHE_ID_LENGTH

ASSUME KeysAssumption ==
    \A k, other \in Keys: k \in Seq(Nat) /\ MinId <= Len(k) /\ Len(other) = Len(k)
ASSUME MinIdAssumption == MinId \in Nat

Ids(k) == {id \in Prefixes(k): MinId <= Len(id)}

\* valid_id: what a revoke accepts before it touches the cache.
ValidIds == UNION {Ids(k): k \in Keys}

\* Mutant: every identifier is MinId digits long.
AbbreviateShortest(k, keys) == SubSeq(k, 1, MinId)

\* The shortest identifier of k that no other key in use has, or all of k.
Abbreviate(k, keys) ==
    LET Telling == {id \in Ids(k): id = k \/ \A other \in keys \ {k}: ~IsPrefix(id, other)}
    IN  CHOOSE id \in Telling: \A longer \in Telling: Len(id) <= Len(longer)

\* What a revoke by identifier selects among the keys in use.
Matching(id, keys) == {k \in keys: IsPrefix(id, k)}

\* What status prints for a key selects that key alone.
IdSelects(k, keys) == Matching(Abbreviate(k, keys), keys) = {k}
=============================================================================
