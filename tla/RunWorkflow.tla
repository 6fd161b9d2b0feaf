---------------------------- MODULE RunWorkflow ----------------------------
(***************************************************************************)
(* `ghst run`: mint a token for one command, make it recoverable on disk   *)
(* before the command sees it, run the command, and take the token back.   *)
(*                                                                         *)
(* One process per run, one action per call it makes that another process  *)
(* can observe.  pc names the call that comes next.  The process may be    *)
(* killed between any two of them.                                         *)
(***************************************************************************)
EXTENDS CacheStore

VARIABLES
    pc,        \* run -> the call its wrapper makes next
    began,     \* run -> the epoch when the wrapper read the base token
    guard,     \* run -> its issuance guard
    gen,       \* run -> generation of the base token it mints from
    abortPid,  \* run -> child pid the wrapper passes to abort
    entry,     \* run -> the marked record returned by abort or finish
    outcome    \* run -> what the wrapper reported when it returned

runVars == <<pc, began, guard, gen, abortPid, entry, outcome>>

PC == {"readBase", "guard", "mint", "commit", "discard", "spawn", "forward",
       "activate", "stop", "abort", "wait", "finish", "revoke", "delete", "gone"}

\* "failed" and "unrevoked" are the TokenErrors of a run that never committed
\* ("unrevoked" is RevocationFailed); the other two are CleanupStatus.
Outcome == {"none", "failed", "unrevoked", "complete", "incomplete"}

RunTypeOK ==
    /\ pc \in [Runs -> PC]
    /\ began \in [Runs -> Nat]
    /\ guard \in [Runs -> Nat]
    /\ gen \in [Runs -> Nat]
    /\ abortPid \in [Runs -> ChildPid]
    /\ entry \in [Runs -> Slot]
    /\ outcome \in [Runs -> Outcome]

RunInit ==
    /\ pc = [r \in Runs |-> "readBase"]
    /\ began = [r \in Runs |-> 0]
    /\ guard = [r \in Runs |-> 0]
    /\ gen = [r \in Runs |-> 0]
    /\ abortPid = [r \in Runs |-> "None"]
    /\ entry = [r \in Runs |-> NoRecord]
    /\ outcome = [r \in Runs |-> "none"]

Goto(r, next) ==
    /\ pc' = [pc EXCEPT ![r] = next]
    /\ UNCHANGED <<wrapper, outcome>>

\* The wrapper process returns, reporting result.
Return(r, result) ==
    /\ pc' = [pc EXCEPT ![r] = "gone"]
    /\ wrapper' = [wrapper EXCEPT ![r] = "dead"]
    /\ outcome' = [outcome EXCEPT ![r] = result]

\* Tokens GitHub issues live longer than Margin or are refused on receipt.
Usable(lifetime) == SafeToHandoff(clock + lifetime, clock)

-----------------------------------------------------------------------------
(***************************************************************************)
(* Issuing a fresh token.                                                  *)
(***************************************************************************)

\* prepare: no base token, or a read error, ends the run.
ReadBase(r) ==
    /\ pc[r] = "readBase"
    /\ \/ /\ baseCached
          /\ gen' = [gen EXCEPT ![r] = baseGen]
          /\ began' = [began EXCEPT ![r] = epoch]
          /\ Goto(r, "guard")
       \/ Return(r, "failed") /\ UNCHANGED <<gen, began>>
    /\ UNCHANGED <<storeVars, clock, remote, expires, child, localOnly, guard, abortPid, entry>>

\* issuance_guard: the epoch, read after the base token.
TakeGuard(r) ==
    /\ pc[r] = "guard"
    /\ \/ guard' = [guard EXCEPT ![r] = epoch] /\ Goto(r, "mint")
       \/ Return(r, "failed") /\ UNCHANGED guard
    /\ UNCHANGED <<storeVars, clock, remote, expires, child, localOnly, began, gen, abortPid, entry>>

\* create_scoped_token answered with a token; one whose lifetime is too short
\* is not kept.
Mint(r) ==
    /\ pc[r] = "mint"
    /\ \E lifetime \in Lifetimes:
          /\ expires' = [expires EXCEPT ![r] = clock + lifetime]
          /\ Goto(r, IF Usable(lifetime) THEN "commit" ELSE "discard")
    /\ remote' = [remote EXCEPT ![r] = "live"]
    /\ UNCHANGED <<storeVars, clock, child, localOnly, began, guard, gen, abortPid, entry>>

\* It failed: the base token is too close to its expiry, or GitHub refused it
\* for good (401, 404: the cached base token is evicted if it is the one that
\* was used), or any other error.
MintFails(r) ==
    /\ pc[r] = "mint"
    /\ Return(r, "failed")
    /\ baseCached' \in {baseCached, baseCached /\ baseGen # gen[r]}
    /\ UNCHANGED <<epoch, baseGen, cache, clock, remote, expires, child, localOnly>>
    /\ UNCHANGED <<began, guard, gen, abortPid, entry>>

\* The request took effect and its answer was lost: nobody holds the token.
MintAnswerLost(r) ==
    /\ pc[r] = "mint"
    /\ remote' = [remote EXCEPT ![r] = "stray"]
    /\ Return(r, "failed")
    /\ UNCHANGED <<storeVars, clock, expires, child, localOnly>>
    /\ UNCHANGED <<began, guard, gen, abortPid, entry>>

\* Mutant: the epoch is not compared.
BaseCurrent(r) == baseCached /\ baseGen = gen[r]

\* commit_pending: the record is written only under the epoch and the base
\* token the issuance started from.
IssuanceCurrent(r) ==
    /\ epoch = guard[r]
    /\ baseCached /\ baseGen = gen[r]

CommitPending(r) ==
    /\ pc[r] = "commit"
    /\ \E ok \in BOOLEAN:
          /\ \/ /\ IssuanceCurrent(r)
                /\ Publish(r, [state |-> "Pending", child_pid |-> "None"], ok)
             \/ ~ok /\ ~IssuanceCurrent(r) /\ UNCHANGED cache
          /\ Goto(r, IF ok THEN "spawn" ELSE "discard")
    /\ UNCHANGED <<epoch, baseGen, baseCached, clock, remote, expires, child, localOnly>>
    /\ UNCHANGED <<began, guard, gen, abortPid, entry>>

\* Mutant: a failed revocation goes unreported.
DiscardQuietly(r) ==
    /\ pc[r] = "discard"
    /\ \E answer \in {"Ok", "NotFound", "Error"}: DeleteToken(r, answer)
    /\ Return(r, "failed")
    /\ UNCHANGED <<storeVars, clock, expires, child, localOnly>>
    /\ UNCHANGED <<began, guard, gen, abortPid, entry>>

\* revoke_with_context: the unused token is revoked; any answer but success,
\* 404 included, is reported as a failed revocation.
Discard(r) ==
    /\ pc[r] = "discard"
    /\ \E answer \in {"Ok", "NotFound", "Error"}:
          /\ DeleteToken(r, answer)
          /\ Return(r, IF answer = "Ok" THEN "failed" ELSE "unrevoked")
    /\ UNCHANGED <<storeVars, clock, expires, child, localOnly>>
    /\ UNCHANGED <<began, guard, gen, abortPid, entry>>

-----------------------------------------------------------------------------
(***************************************************************************)
(* Running the command.                                                    *)
(***************************************************************************)

\* The command starts, with the token in its environment.
Spawn(r) ==
    /\ pc[r] = "spawn"
    /\ child' = [child EXCEPT ![r] = "alive"]
    /\ Goto(r, "forward")
    /\ UNCHANGED <<storeVars, clock, remote, expires, localOnly>>
    /\ UNCHANGED <<began, guard, gen, abortPid, entry>>

\* Signal handling could not be prepared, or the command could not be started.
SpawnFails(r) ==
    /\ pc[r] = "spawn"
    /\ Goto(r, "abort")
    /\ UNCHANGED <<storeVars, clock, remote, expires, child, localOnly>>
    /\ UNCHANGED <<began, guard, gen, abortPid, entry>>

StartForwarding(r) ==
    /\ pc[r] = "forward"
    /\ \E next \in {"activate", "stop"}: Goto(r, next)
    /\ UNCHANGED <<storeVars, clock, remote, expires, child, localOnly>>
    /\ UNCHANGED <<began, guard, gen, abortPid, entry>>

Activate(r) ==
    /\ pc[r] = "activate"
    /\ \E ok \in BOOLEAN:
          /\ UpdateRun(r, CanActivate(cache[r]), Activated, ok)
          /\ Goto(r, IF ok THEN "wait" ELSE "stop")
    /\ UNCHANGED <<epoch, baseGen, baseCached, clock, remote, expires, child, localOnly>>
    /\ UNCHANGED <<began, guard, gen, abortPid, entry>>

\* terminate_and_wait: kill, then wait for the command; errors are only
\* logged, so the command may survive.
TerminateAndWait(r) ==
    /\ pc[r] = "stop"
    /\ child' \in {child, [child EXCEPT ![r] = "dead"]}
    /\ abortPid' = [abortPid EXCEPT ![r] = "Some"]
    /\ Goto(r, "abort")
    /\ UNCHANGED <<storeVars, clock, remote, expires, localOnly>>
    /\ UNCHANGED <<began, guard, gen, entry>>

\* child.wait: the command exited, or waiting for it failed.
WaitChild(r) ==
    /\ pc[r] = "wait"
    /\ child[r] = "dead"
    /\ Goto(r, "finish")
    /\ UNCHANGED <<storeVars, clock, remote, expires, child, localOnly>>
    /\ UNCHANGED <<began, guard, gen, abortPid, entry>>

WaitFails(r) ==
    /\ pc[r] = "wait"
    /\ Goto(r, "finish")
    /\ UNCHANGED <<storeVars, clock, remote, expires, child, localOnly>>
    /\ UNCHANGED <<began, guard, gen, abortPid, entry>>

-----------------------------------------------------------------------------
(***************************************************************************)
(* Cleanup.                                                                *)
(***************************************************************************)

\* Marking the record returns it as it is on disk; without it there is no
\* cleanup.
Marked(r, ok) ==
    \/ ok /\ entry' = [entry EXCEPT ![r] = cache'[r]] /\ Goto(r, "revoke")
    \/ ~ok /\ Return(r, "incomplete") /\ UNCHANGED entry

Abort(r) ==
    /\ pc[r] = "abort"
    /\ \E ok \in BOOLEAN:
          /\ UpdateRun(r, CanAbort(cache[r]), Aborted(abortPid[r]), ok)
          /\ Marked(r, ok)
    /\ UNCHANGED <<epoch, baseGen, baseCached, clock, remote, expires, child, localOnly>>
    /\ UNCHANGED <<began, guard, gen, abortPid>>

Finish(r) ==
    /\ pc[r] = "finish"
    /\ \E ok \in BOOLEAN:
          /\ UpdateRun(r, CanFinish(cache[r]), Finished, ok)
          /\ Marked(r, ok)
    /\ UNCHANGED <<epoch, baseGen, baseCached, clock, remote, expires, child, localOnly>>
    /\ UNCHANGED <<began, guard, gen, abortPid>>

\* Mutant: the record is deleted whatever GitHub answers.
CleanupRevokeUnchecked(r) ==
    /\ pc[r] = "revoke"
    /\ \E answer \in {"Ok", "NotFound", "Error"}: DeleteToken(r, answer)
    /\ Goto(r, "delete")
    /\ UNCHANGED <<storeVars, clock, expires, child, localOnly>>
    /\ UNCHANGED <<began, guard, gen, abortPid, entry>>

\* cleanup_marked_run_with_app: revoke, and delete the record only after
\* GitHub confirmed that the token is inactive.
CleanupRevoke(r) ==
    /\ pc[r] = "revoke"
    /\ \/ \E answer \in {"Ok", "NotFound"}: DeleteToken(r, answer) /\ Goto(r, "delete")
       \/ DeleteToken(r, "Error") /\ Return(r, "incomplete")
    /\ UNCHANGED <<storeVars, clock, expires, child, localOnly>>
    /\ UNCHANGED <<began, guard, gen, abortPid, entry>>

\* Mutant: a failed deletion counts as complete.
CleanupDeleteUnchecked(r) ==
    /\ pc[r] = "delete"
    /\ \E ok \in BOOLEAN: DeleteCleanupPending(r, entry[r], ok)
    /\ Return(r, "complete")
    /\ UNCHANGED <<epoch, baseGen, baseCached, clock, remote, expires, child, localOnly>>
    /\ UNCHANGED <<began, guard, gen, abortPid, entry>>

CleanupDelete(r) ==
    /\ pc[r] = "delete"
    /\ \E ok \in BOOLEAN:
          /\ DeleteCleanupPending(r, entry[r], ok)
          /\ Return(r, IF ok THEN "complete" ELSE "incomplete")
    /\ UNCHANGED <<epoch, baseGen, baseCached, clock, remote, expires, child, localOnly>>
    /\ UNCHANGED <<began, guard, gen, abortPid, entry>>

\* The wrapper is killed; the command it started lives on.
Crash(r) ==
    /\ pc[r] # "gone"
    /\ pc' = [pc EXCEPT ![r] = "gone"]
    /\ wrapper' = [wrapper EXCEPT ![r] = "dead"]
    /\ UNCHANGED <<storeVars, clock, remote, expires, child, localOnly>>
    /\ UNCHANGED <<began, guard, gen, abortPid, entry, outcome>>

-----------------------------------------------------------------------------
Issue(r) == ReadBase(r) \/ TakeGuard(r) \/ Mint(r) \/ MintFails(r) \/ MintAnswerLost(r)
                \/ CommitPending(r) \/ Discard(r)
Execute(r) == Spawn(r) \/ SpawnFails(r) \/ StartForwarding(r) \/ Activate(r)
                  \/ TerminateAndWait(r) \/ WaitChild(r) \/ WaitFails(r)
Cleanup(r) == Abort(r) \/ Finish(r) \/ CleanupRevoke(r) \/ CleanupDelete(r)

\* What the wrapper itself does.
WrapperStep(r) == Issue(r) \/ Execute(r) \/ Cleanup(r)

RunNext == \E r \in Runs: WrapperStep(r) \/ Crash(r)
=============================================================================
