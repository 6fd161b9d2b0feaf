------------------------------- MODULE Prune -------------------------------
(***************************************************************************)
(* `ghst prune`: delete expired records, and finish the cleanup of runs    *)
(* whose processes are gone.                                               *)
(*                                                                         *)
(* A prune reads the clock once, inspects the whole cache under the lock,  *)
(* and then works through that snapshot without the lock, while wrappers,  *)
(* other prunes and revokes go on changing the cache.                      *)
(***************************************************************************)
EXTENDS CacheStore

CONSTANT Pruners   \* processes running `ghst prune`, each as often as it likes

VARIABLES
    ppc,     \* pruner -> the call it makes next
    pnow,    \* pruner -> the time it read when it started
    psnap,   \* pruner -> run -> the record it inspected or claimed
    ptodo,   \* pruner -> runs of the snapshot still to process
    pcur,    \* pruner -> the runs it is cleaning up now: at most one
    pclean   \* pruner -> whether its report has no failure so far

pruneVars == <<ppc, pnow, psnap, ptodo, pcur, pclean>>

PruneTypeOK ==
    /\ ppc \in [Pruners -> {"idle", "scan", "revoke", "delete"}]
    /\ pnow \in [Pruners -> Nat]
    /\ psnap \in [Pruners -> [Runs -> Slot]]
    /\ ptodo \in [Pruners -> SUBSET Runs]
    /\ pcur \in [Pruners -> SUBSET Runs]
    /\ pclean \in [Pruners -> BOOLEAN]

PruneInit ==
    /\ ppc = [p \in Pruners |-> "idle"]
    /\ pnow = [p \in Pruners |-> 0]
    /\ psnap = [p \in Pruners |-> [r \in Runs |-> NoRecord]]
    /\ ptodo = [p \in Pruners |-> {}]
    /\ pcur = [p \in Pruners |-> {}]
    /\ pclean = [p \in Pruners |-> TRUE]

\* inspect_records, with a clock that was read at some moment before it.
PruneInspect(p) ==
    /\ ppc[p] = "idle"
    /\ \E now \in 0..clock: pnow' = [pnow EXCEPT ![p] = now]
    /\ psnap' = [psnap EXCEPT ![p] = cache]
    /\ ptodo' = [ptodo EXCEPT ![p] = {r \in Runs: Present(cache[r])}]
    /\ pclean' = [pclean EXCEPT ![p] = TRUE]
    /\ ppc' = [ppc EXCEPT ![p] = "scan"]
    /\ UNCHANGED <<sharedVars, pcur>>

\* Done with run r: its result is clean or a failure.
Processed(p, r, clean) ==
    /\ ptodo' = [ptodo EXCEPT ![p] = @ \ {r}]
    /\ pclean' = [pclean EXCEPT ![p] = @ /\ clean]

\* delete_expired_entry.
PruneExpired(p, r) ==
    /\ ppc[p] = "scan" /\ r \in ptodo[p]
    /\ Expired(r, pnow[p])
    /\ \E result \in {"Deleted", "Missing", "Changed", "SyncFailed", "Error"}:
          /\ DeleteExact(r, psnap[p][r], result)
          /\ Processed(p, r, result = "Deleted")
    /\ UNCHANGED <<epoch, baseGen, baseCached, worldVars, localOnly, ppc, pnow, psnap, pcur>>

\* An active run is skipped: the wrapper is not known to be dead, or the
\* child recorded in the snapshot is not.
PruneSkip(p, r) ==
    /\ ppc[p] = "scan" /\ r \in ptodo[p]
    /\ ~Expired(r, pnow[p])
    /\ psnap[p][r].state \in {"Pending", "Running"}
    /\ \/ ReportedAlive(wrapper[r])
       \/ psnap[p][r].child_pid = "Some" /\ ReportedAlive(child[r])
    /\ Processed(p, r, TRUE)
    /\ UNCHANGED <<sharedVars, ppc, pnow, psnap, pcur>>

\* claim_abandoned: the processes recorded in the snapshot are dead, and the
\* record is still the one inspected.
LooksAbandoned(p, r) ==
    /\ ReportedDead(wrapper[r])
    /\ psnap[p][r].child_pid = "Some" => ReportedDead(child[r])

\* Go on to revoke the token of run r, under the current authority; without a
\* matching authority that has a secret the record is retained.
StartCleanup(p, r) ==
    \/ /\ pcur' = [pcur EXCEPT ![p] = {r}]
       /\ ppc' = [ppc EXCEPT ![p] = "revoke"]
       /\ UNCHANGED <<ptodo, pclean>>
    \/ Processed(p, r, FALSE) /\ UNCHANGED <<pcur, ppc>>

PruneClaim(p, r) ==
    /\ ppc[p] = "scan" /\ r \in ptodo[p]
    /\ ~Expired(r, pnow[p])
    /\ psnap[p][r].state \in {"Pending", "Running"}
    /\ LooksAbandoned(p, r)
    /\ \E ok \in BOOLEAN:
          /\ UpdateRun(r, CanClaim(cache[r], psnap[p][r]), Claimed(cache[r]), ok)
          /\ \/ ok /\ psnap' = [psnap EXCEPT ![p][r] = cache'[r]] /\ StartCleanup(p, r)
             \/ ~ok /\ Processed(p, r, FALSE) /\ UNCHANGED <<psnap, pcur, ppc>>
    /\ UNCHANGED <<epoch, baseGen, baseCached, worldVars, localOnly, pnow>>

\* A record that is marked already is cleaned up whatever its processes do.
PruneMarked(p, r) ==
    /\ ppc[p] = "scan" /\ r \in ptodo[p]
    /\ ~Expired(r, pnow[p])
    /\ psnap[p][r].state = "CleanupPending"
    /\ StartCleanup(p, r)
    /\ UNCHANGED <<sharedVars, pnow, psnap>>

\* cleanup_marked_entry.
PruneRevoke(p, r) ==
    /\ ppc[p] = "revoke" /\ r \in pcur[p]
    /\ \/ /\ \E answer \in {"Ok", "NotFound"}: DeleteToken(r, answer)
          /\ ppc' = [ppc EXCEPT ![p] = "delete"]
          /\ UNCHANGED <<ptodo, pcur, pclean>>
       \/ /\ DeleteToken(r, "Error")
          /\ Processed(p, r, FALSE)
          /\ pcur' = [pcur EXCEPT ![p] = {}]
          /\ ppc' = [ppc EXCEPT ![p] = "scan"]
    /\ UNCHANGED <<storeVars, clock, expires, wrapper, child, localOnly, pnow, psnap>>

\* Mutant: a failed deletion counts as clean.
PruneDeleteUnchecked(p, r) ==
    /\ ppc[p] = "delete" /\ r \in pcur[p]
    /\ \E ok \in BOOLEAN: DeleteCleanupPending(r, psnap[p][r], ok)
    /\ Processed(p, r, TRUE)
    /\ pcur' = [pcur EXCEPT ![p] = {}]
    /\ ppc' = [ppc EXCEPT ![p] = "scan"]
    /\ UNCHANGED <<epoch, baseGen, baseCached, worldVars, localOnly, pnow, psnap>>

PruneDelete(p, r) ==
    /\ ppc[p] = "delete" /\ r \in pcur[p]
    /\ \E ok \in BOOLEAN:
          /\ DeleteCleanupPending(r, psnap[p][r], ok)
          /\ Processed(p, r, ok)
    /\ pcur' = [pcur EXCEPT ![p] = {}]
    /\ ppc' = [ppc EXCEPT ![p] = "scan"]
    /\ UNCHANGED <<epoch, baseGen, baseCached, worldVars, localOnly, pnow, psnap>>

\* The snapshot is worked through, or the prune is killed part-way.
PruneEnd(p) ==
    /\ ppc[p] # "idle"
    /\ ppc' = [ppc EXCEPT ![p] = "idle"]
    /\ pnow' = [pnow EXCEPT ![p] = 0]
    /\ psnap' = [psnap EXCEPT ![p] = [r \in Runs |-> NoRecord]]
    /\ ptodo' = [ptodo EXCEPT ![p] = {}]
    /\ pcur' = [pcur EXCEPT ![p] = {}]
    /\ pclean' = [pclean EXCEPT ![p] = TRUE]
    /\ UNCHANGED sharedVars

PruneStep(p, r) ==
    \/ PruneExpired(p, r) \/ PruneSkip(p, r) \/ PruneClaim(p, r)
    \/ PruneMarked(p, r) \/ PruneRevoke(p, r) \/ PruneDelete(p, r)

PruneNext ==
    \E p \in Pruners:
        \/ PruneInspect(p)
        \/ \E r \in Runs: PruneStep(p, r)
        \/ PruneEnd(p)
=============================================================================
