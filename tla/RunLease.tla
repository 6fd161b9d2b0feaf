------------------------------ MODULE RunLease ------------------------------
(***************************************************************************)
(* Run tokens under the commands that handle them: the wrapper that issues *)
(* and uses a token, prunes that recover what dead wrappers left behind,   *)
(* and revokes that take every token back.  Steps of the commands          *)
(* interleave freely; only a storage operation is atomic.                  *)
(***************************************************************************)
EXTENDS RunWorkflow, Prune, Revoke

vars == <<sharedVars, runVars, pruneVars, revokeVars>>

Init == StoreInit /\ RunInit /\ PruneInit /\ RevokeInit

\* A step of one command leaves the local state of the others alone.
ByEnv == UNCHANGED <<runVars, pruneVars, revokeVars>>
ByRun == UNCHANGED <<pruneVars, revokeVars>>
ByPrune == UNCHANGED <<runVars, revokeVars>>
ByRevoke == UNCHANGED <<runVars, pruneVars>>

Next ==
    \/ EnvNext /\ ByEnv
    \/ RunNext /\ ByRun
    \/ PruneNext /\ ByPrune
    \/ RevokeNext /\ ByRevoke

Spec == Init /\ [][Next]_vars

\* Types of every variable.
TypeOK == StoreTypeOK /\ RunTypeOK /\ PruneTypeOK /\ RevokeTypeOK

-----------------------------------------------------------------------------
(***************************************************************************)
(* Safety.                                                                 *)
(***************************************************************************)

\* A token that a command has seen and that still works can be recovered: its
\* record is on disk, unless a revoke told its user that it deleted the record
\* locally only.  This is what writing the record before the spawn, and
\* deleting it only after GitHub's confirmation or its expiry, are for.
ExposedTokensRecoverable ==
    \A r \in Runs:
        child[r] # "none" /\ Active(r) => Present(cache[r]) \/ r \in localOnly

\* A wrapper that reports a complete cleanup has left neither a working token
\* nor a record behind, whatever prunes and revokes did to the record meanwhile
\* (the report of cleanup_marked_run_with_app being complete).
CompleteMeansReleased ==
    \A r \in Runs: outcome[r] = "complete" => ~Active(r) /\ ~Present(cache[r])

\* A run that fails before its record is committed leaves no working token
\* unless it says so: a plain error (no RevocationFailed) means that the token
\* it received was revoked or has expired.
FailureReportsLeak ==
    \A r \in Runs: outcome[r] = "failed" => ~Active(r)

\* No issuance that took its guard before a `revoke --all` advanced the epoch
\* gets its record in after the snapshot: a record of such a run in the cache
\* was in the snapshot of that revoke.
RevokeCoversEarlierIssuance ==
    \A v \in Revokers, r \in Runs:
        Present(cache[r]) /\ guard[r] < vepoch[v] => r \in vcovered[v]

\* A `revoke --all` that reports no failure has taken every run token issued
\* under an older epoch out of use: a command that holds one holds a dead or
\* expired token, or one that was deleted locally only near its expiry.
CleanRevokeEndsExposure ==
    \A v \in Revokers, r \in Runs:
        vpc[v] = "done" /\ vclean[v] /\ guard[r] < vepoch[v] /\ child[r] # "none"
            => ~Active(r) \/ r \in localOnly

\* A prune that has worked through its snapshot and reports no failure left
\* nothing recoverable behind (exit status 0 in docs/src/commands/prune.md):
\* every record that it found expired, or marked or claimed for cleanup, is
\* gone, and no such token still works.
PruneSuccessReclaims ==
    \A p \in Pruners, r \in Runs:
        /\ ppc[p] = "scan" /\ ptodo[p] = {} /\ pclean[p]
        /\ Present(psnap[p][r])
        /\ psnap[p][r].state = "CleanupPending" \/ Expired(r, pnow[p])
        => ~Present(cache[r]) /\ ~Active(r)

-----------------------------------------------------------------------------
(***************************************************************************)
(* Why the safety properties hold: an inductive invariant.                 *)
(***************************************************************************)

\* A run whose record may not have been written yet is unknown to everybody.
Fresh == {"readBase", "guard", "mint", "commit"}

FreshUnknown ==
    \A r \in Runs: pc[r] \in Fresh =>
        /\ ~Present(cache[r]) /\ child[r] = "none" /\ r \notin localOnly
        /\ \A p \in Pruners: r \notin ptodo[p] \union pcur[p] /\ ~Present(psnap[p][r])
        /\ \A v \in Revokers: r \notin vtodo[v] \union vcur[v]

\* No token before the mint; no outcome before the return.
NotYet ==
    \A r \in Runs:
        /\ pc[r] \in {"readBase", "guard", "mint"} => remote[r] = "none"
        /\ pc[r] # "gone" => outcome[r] = "none"

\* A run past its mint has a token; one that discards it has started no command.
Underway ==
    \A r \in Runs:
        /\ pc[r] \notin {"readBase", "guard", "mint", "gone"} => remote[r] # "none"
        /\ pc[r] = "discard" => child[r] = "none"

\* A prune cleans up one run at a time; a revoke reports when its list is empty.
OneAtATime ==
    /\ \A p \in Pruners: \A q, r \in pcur[p]: q = r
    /\ \A v \in Revokers: vpc[v] = "done" => vtodo[v] = {}

\* A command's clock is never ahead.
ClocksBehind ==
    /\ \A p \in Pruners: pnow[p] <= clock
    /\ \A v \in Revokers: vnow[v] <= clock

\* Who is about to delete a record because its token is inactive is right.
DeletersKnow ==
    \A r \in Runs:
        /\ pc[r] = "delete" => ~Active(r)
        /\ \A p \in Pruners: ppc[p] = "delete" /\ r \in pcur[p] => ~Active(r)
        /\ \A v \in Revokers:
              vpc[v] = "delete" /\ r \in vcur[v] /\ vintent[v] = "RemotelyInactive"
                  => ~Active(r)

\* From its commit on, a run's working token can be recovered.
Committed(r) == child[r] # "none" \/ pc[r] \notin Fresh \union {"discard", "gone"}
Recoverable(r) == Active(r) => Present(cache[r]) \/ r \in localOnly
CommittedRecoverable == \A r \in Runs: Committed(r) => Recoverable(r)

\* The epoch of a revoke is not ahead, and what a clean `revoke --all` has not
\* dealt with is still on its list.
RevokeEpochs == \A v \in Revokers: vepoch[v] <= epoch

CleanRevokeProgress ==
    \A v \in Revokers, r \in Runs:
        vpc[v] # "idle" /\ vclean[v] /\ guard[r] < vepoch[v] /\ Committed(r)
            => ~Active(r) \/ r \in localOnly \/ r \in vtodo[v]

\* What a clean prune has not reclaimed is still on its list.
PruneProgressing ==
    \A p \in Pruners, r \in Runs:
        /\ pclean[p] /\ Present(psnap[p][r])
        /\ psnap[p][r].state = "CleanupPending" \/ Expired(r, pnow[p])
        => r \in ptodo[p] \/ (~Present(cache[r]) /\ ~Active(r))

LeaseInv ==
    /\ TypeOK
    /\ FreshUnknown
    /\ NotYet
    /\ Underway
    /\ OneAtATime
    /\ ClocksBehind
    /\ DeletersKnow
    /\ CommittedRecoverable
    /\ RevokeEpochs
    /\ RevokeCoversEarlierIssuance
    /\ CleanRevokeProgress
    /\ PruneProgressing
    /\ CompleteMeansReleased
    /\ FailureReportsLeak

-----------------------------------------------------------------------------
(***************************************************************************)
(* Action properties.                                                      *)
(***************************************************************************)
Stage(slot) ==
    CASE slot.state = "Pending"        -> 1
      [] slot.state = "Running"        -> 2
      [] slot.state = "CleanupPending" -> 3
      [] slot.state = "Absent"         -> 4

\* The lifecycle of a record only moves forward, no deleted record comes back
\* and a recorded child pid is never forgotten: no wrapper, prune or revoke
\* acting on an older view of a record undoes what another one did.
LifecycleForward ==
    [][\A r \in Runs:
         cache'[r] # cache[r] =>
            \/ ~Present(cache[r]) /\ pc[r] = "commit" /\ pc'[r] # "commit"
            \/ /\ Stage(cache[r]) < Stage(cache'[r])
               /\ cache[r].child_pid = "Some" /\ Present(cache'[r])
                    => cache'[r].child_pid = "Some"]_vars

\* A record is taken over only from a dead wrapper, and never while the child
\* it names is alive: a prune that decides on an outdated snapshot (no child
\* recorded yet) must lose against the wrapper that activated the run since.
ClaimOnlyAbandoned ==
    [][\A r \in Runs:
         /\ cache[r].state \in {"Pending", "Running"}
         /\ cache'[r].state = "CleanupPending"
         /\ pc'[r] = pc[r]
         => /\ wrapper[r] = "dead"
            /\ cache[r].child_pid = "Some" => child[r] = "dead"]_vars

-----------------------------------------------------------------------------
(***************************************************************************)
(* The lives of the tokens are those that RunToken promises, whatever      *)
(* commands meet on their records.                                         *)
(***************************************************************************)
Promise == INSTANCE RunToken WITH
    issued <- {r \in Runs: remote[r] # "none"},
    works <- {r \in Runs: Active(r)},
    recorded <- {r \in Runs: Present(cache[r])},
    used <- {r \in Runs: child[r] # "none"},
    told <- localOnly,
    report <- outcome

\* Every step of a wrapper, a prune, a revoke or the rest of the machine is, for
\* each token, a step of the promised life or none.
ImplementsRunToken == Promise!Spec

-----------------------------------------------------------------------------
(***************************************************************************)
(* Liveness.  A wrapper that is not killed is scheduled.  The user runs    *)
(* `ghst prune` again and again; not every prune is killed part-way, and   *)
(* GitHub, the file system and the configuration do not fail forever.      *)
(***************************************************************************)
PruneProgress(p, r) ==
    /\ SF_vars(PruneExpired(p, r) /\ ~Present(cache'[r]) /\ ByPrune)
    /\ SF_vars(PruneClaim(p, r) /\ r \in pcur'[p] /\ ByPrune)
    /\ SF_vars(PruneMarked(p, r) /\ r \in pcur'[p] /\ ByPrune)
    /\ SF_vars(PruneRevoke(p, r) /\ ppc'[p] = "delete" /\ ByPrune)
    /\ SF_vars(PruneDelete(p, r) /\ ~Present(cache'[r]) /\ ByPrune)

\* A wrapper waits for its command as long as the command runs.
Waiting(r) == pc[r] = "wait" /\ child[r] = "alive"

Fairness ==
    /\ \A r \in Runs: WF_vars(WrapperStep(r) /\ ~Waiting(r) /\ ByRun)
    /\ \A p \in Pruners:
          /\ WF_vars(PruneInspect(p) /\ ByPrune)
          /\ WF_vars(PruneEnd(p) /\ ByPrune)
          /\ \A r \in Runs: PruneProgress(p, r)

FairSpec == Spec /\ Fairness

\* The record of a run whose command is not running does not stay forever,
\* wherever its wrapper was killed and whichever call failed: there is no
\* state of a record from which neither wrapper nor prune can delete it.
IdleRunReclaimed ==
    \A r \in Runs:
        Present(cache[r]) /\ child[r] # "alive"
            ~> ~Present(cache[r]) \/ child[r] = "alive"

-----------------------------------------------------------------------------
(***************************************************************************)
(* What the repository says of these commands and the code does not keep.  *)
(***************************************************************************)

\* "It will never interrupt running commands" (docs/src/commands/prune.md): a
\* prune never revokes the working token of a command that is still running.
PruneNeverInterrupts ==
    [][\A p \in Pruners, r \in Runs:
         PruneRevoke(p, r) /\ Active(r) /\ child[r] = "alive"
            => remote'[r] # "dead"]_vars

\* "Advancing the epoch invalidates any in-flight token issuance or renewal
\* that began before revocation started" (docs/src/commands/revoke.md): a run
\* that read its base token before the advance never commits a record.
AdvanceInvalidatesBegunIssuance ==
    [][\A r \in Runs:
         ~Present(cache[r]) /\ Present(cache'[r]) => epoch = began[r]]_vars
=============================================================================
