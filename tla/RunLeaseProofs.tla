--------------------------- MODULE RunLeaseProofs ---------------------------
(***************************************************************************)
(* Proofs about RunLease, for every number of runs, prunes and revokes and *)
(* every margin and lifetime.                                              *)
(***************************************************************************)
EXTENDS RunLease, TLAPS

USE MarginAssumption, LifetimesAssumption, BoundsAssumption, PidReuseAssumption

-----------------------------------------------------------------------------
(***************************************************************************)
(* Types.                                                                  *)
(***************************************************************************)

\* Every storage operation leaves a record or nothing in the slot.
LEMMA UpdateRunType ==
    ASSUME cache \in [Runs -> Slot], NEW r \in Runs, NEW allowed, NEW e \in Slot, NEW ok,
           UpdateRun(r, allowed, e, ok)
    PROVE  cache' \in [Runs -> Slot]
BY DEF UpdateRun, Publish

LEMMA DeleteCleanupPendingType ==
    ASSUME cache \in [Runs -> Slot], NEW r \in Runs, NEW expected, NEW ok,
           DeleteCleanupPending(r, expected, ok)
    PROVE  cache' \in [Runs -> Slot]
BY DEF DeleteCleanupPending, Slot

LEMMA DeleteExactType ==
    ASSUME cache \in [Runs -> Slot], NEW r \in Runs, NEW expected, NEW result,
           DeleteExact(r, expected, result)
    PROVE  cache' \in [Runs -> Slot]
BY DEF DeleteExact, Slot

LEMMA DeleteTokenType ==
    ASSUME remote \in [Runs -> {"none", "live", "dead", "stray"}], NEW r \in Runs,
           NEW answer, DeleteToken(r, answer)
    PROVE  remote' \in [Runs -> {"none", "live", "dead", "stray"}]
BY DEF DeleteToken

\* The records the transitions write are records.
LEMMA SlotFacts ==
    /\ NoRecord \in Slot
    /\ [state |-> "Pending", child_pid |-> "None"] \in Slot
    /\ Activated \in Slot
    /\ Finished \in Slot
    /\ \A pid \in ChildPid: Aborted(pid) \in Slot
    /\ \A e \in Slot: Claimed(e) \in Slot \/ e = NoRecord
BY DEF Slot, RunRecord, NoRecord, RunState, ChildPid, Activated, Finished, Aborted, Claimed

LEMMA InitType == Init => TypeOK
BY DEF Init, StoreInit, RunInit, PruneInit, RevokeInit, TypeOK, StoreTypeOK, RunTypeOK,
       PruneTypeOK, RevokeTypeOK, PC, Outcome, Slot, ChildPid

LEMMA EnvType == TypeOK /\ EnvNext /\ ByEnv => TypeOK'
<1> SUFFICES ASSUME TypeOK, EnvNext, ByEnv PROVE TypeOK'
    OBVIOUS
<1>1. RunTypeOK' /\ PruneTypeOK' /\ RevokeTypeOK'
  BY DEF ByEnv, runVars, pruneVars, revokeVars, TypeOK, RunTypeOK, PruneTypeOK, RevokeTypeOK
<1>2. StoreTypeOK'
  <2> USE DEF TypeOK, StoreTypeOK
  <2>1. CASE Tick BY <2>1 DEF Tick, storeVars
  <2>2. CASE CommitBase
    BY <2>2, baseGen + 1 \in Nat DEF CommitBase, worldVars
  <2>4. CASE RemoveBase BY <2>4 DEF RemoveBase, worldVars
  <2>3. ASSUME NEW r \in Runs, ChildExit(r) PROVE StoreTypeOK'
    BY <2>3 DEF ChildExit, storeVars
  <2> QED BY <2>1, <2>2, <2>3, <2>4 DEF EnvNext
<1> QED BY <1>1, <1>2 DEF TypeOK

LEMMA RunType == TypeOK /\ RunNext /\ ByRun => TypeOK'
<1> SUFFICES ASSUME TypeOK, ByRun, NEW r \in Runs, WrapperStep(r) \/ Crash(r) PROVE TypeOK'
    BY DEF RunNext
<1>1. PruneTypeOK' /\ RevokeTypeOK'
  BY DEF ByRun, pruneVars, revokeVars, TypeOK, PruneTypeOK, RevokeTypeOK
<1> USE DEF TypeOK, StoreTypeOK, RunTypeOK, storeVars, Goto, Return, PC, Outcome
<1>2. CASE ReadBase(r) BY <1>1, <1>2 DEF ReadBase
<1>3. CASE TakeGuard(r) BY <1>1, <1>3 DEF TakeGuard
<1>4. CASE Mint(r) BY <1>1, <1>4 DEF Mint
<1>5. CASE MintFails(r) BY <1>1, <1>5 DEF MintFails
<1>6. CASE MintAnswerLost(r) BY <1>1, <1>6 DEF MintAnswerLost
<1>7. CASE CommitPending(r)
  <2>1. cache' \in [Runs -> Slot] BY <1>7, SlotFacts DEF CommitPending, Publish
  <2> QED BY <1>1, <1>7, <2>1 DEF CommitPending
<1>8. CASE Discard(r)
  <2>1. remote' \in [Runs -> {"none", "live", "dead", "stray"}]
    BY <1>8, DeleteTokenType DEF Discard
  <2> QED BY <1>1, <1>8, <2>1 DEF Discard
<1>9. CASE Spawn(r) \/ SpawnFails(r) \/ StartForwarding(r)
  BY <1>1, <1>9 DEF Spawn, SpawnFails, StartForwarding
<1>10. CASE Activate(r)
  <2>1. cache' \in [Runs -> Slot] BY <1>10, SlotFacts, UpdateRunType DEF Activate
  <2> QED BY <1>1, <1>10, <2>1 DEF Activate
<1>11. CASE TerminateAndWait(r) BY <1>1, <1>11 DEF TerminateAndWait, ChildPid
<1>12. CASE WaitChild(r) \/ WaitFails(r) BY <1>1, <1>12 DEF WaitChild, WaitFails
<1>13. CASE Abort(r)
  <2>1. cache' \in [Runs -> Slot] BY <1>13, SlotFacts, UpdateRunType DEF Abort
  <2> QED BY <1>1, <1>13, <2>1 DEF Abort, Marked
<1>14. CASE Finish(r)
  <2>1. cache' \in [Runs -> Slot] BY <1>14, SlotFacts, UpdateRunType DEF Finish
  <2> QED BY <1>1, <1>14, <2>1 DEF Finish, Marked
<1>15. CASE CleanupRevoke(r)
  <2>1. remote' \in [Runs -> {"none", "live", "dead", "stray"}]
    BY <1>15, DeleteTokenType DEF CleanupRevoke
  <2> QED BY <1>1, <1>15, <2>1 DEF CleanupRevoke
<1>16. CASE CleanupDelete(r)
  <2>1. cache' \in [Runs -> Slot] BY <1>16, DeleteCleanupPendingType DEF CleanupDelete
  <2> QED BY <1>1, <1>16, <2>1 DEF CleanupDelete
<1>17. CASE Crash(r) BY <1>1, <1>17 DEF Crash
<1> QED BY <1>2, <1>3, <1>4, <1>5, <1>6, <1>7, <1>8, <1>9, <1>10, <1>11, <1>12, <1>13,
           <1>14, <1>15, <1>16, <1>17 DEF WrapperStep, Issue, Execute, Cleanup

\* What counts a result keeps its types.
LEMMA ProcessedType ==
    ASSUME PruneTypeOK, NEW p \in Pruners, NEW r \in Runs, NEW clean,
           Processed(p, r, clean)
    PROVE  ptodo' \in [Pruners -> SUBSET Runs] /\ pclean' \in [Pruners -> BOOLEAN]
<1>1. (pclean[p] /\ clean) \in BOOLEAN OBVIOUS
<1> QED BY <1>1 DEF PruneTypeOK, Processed

LEMMA StartCleanupType ==
    ASSUME PruneTypeOK, NEW p \in Pruners, NEW r \in Runs, StartCleanup(p, r)
    PROVE  /\ ptodo' \in [Pruners -> SUBSET Runs] /\ pclean' \in [Pruners -> BOOLEAN]
           /\ pcur' \in [Pruners -> SUBSET Runs]
           /\ ppc' \in [Pruners -> {"idle", "scan", "revoke", "delete"}]
<1>1. CASE Processed(p, r, FALSE) /\ UNCHANGED <<pcur, ppc>>
  <2>1. ptodo' \in [Pruners -> SUBSET Runs] /\ pclean' \in [Pruners -> BOOLEAN]
    BY <1>1, ProcessedType
  <2> QED BY <1>1, <2>1 DEF PruneTypeOK
<1>2. CASE /\ pcur' = [pcur EXCEPT ![p] = {r}]
           /\ ppc' = [ppc EXCEPT ![p] = "revoke"]
           /\ UNCHANGED <<ptodo, pclean>>
  BY <1>2 DEF PruneTypeOK
<1> QED BY <1>1, <1>2 DEF StartCleanup

LEMMA FinalizedType ==
    ASSUME RevokeTypeOK, NEW v \in Revokers, NEW r \in Runs, NEW clean,
           Finalized(v, r, clean)
    PROVE  vtodo' \in [Revokers -> SUBSET Runs] /\ vclean' \in [Revokers -> BOOLEAN]
<1>1. (vclean[v] /\ clean) \in BOOLEAN OBVIOUS
<1> QED BY <1>1 DEF RevokeTypeOK, Finalized

LEMMA PruneType == TypeOK /\ PruneNext /\ ByPrune => TypeOK'
<1> SUFFICES ASSUME TypeOK, PruneNext, ByPrune PROVE TypeOK'
    OBVIOUS
<1>1. RunTypeOK' /\ RevokeTypeOK'
  BY DEF ByPrune, runVars, revokeVars, TypeOK, RunTypeOK, RevokeTypeOK
<1> USE DEF TypeOK, StoreTypeOK, PruneTypeOK, sharedVars, storeVars, worldVars
<1>2. ASSUME NEW p \in Pruners, PruneInspect(p) PROVE TypeOK'
  BY <1>1, <1>2 DEF PruneInspect
<1>3. ASSUME NEW p \in Pruners, PruneEnd(p) PROVE TypeOK'
  BY <1>1, <1>3, SlotFacts DEF PruneEnd
<1>4. ASSUME NEW p \in Pruners, NEW r \in Runs, PruneStep(p, r) PROVE TypeOK'
  <2>1. CASE PruneExpired(p, r)
    <3>1. cache' \in [Runs -> Slot] BY <2>1, DeleteExactType DEF PruneExpired
    <3>2. PICK result \in {"Deleted", "Missing", "Changed", "SyncFailed", "Error"}:
             Processed(p, r, result = "Deleted")
      BY <2>1, Zenon DEF PruneExpired
    <3>3. ptodo' \in [Pruners -> SUBSET Runs] /\ pclean' \in [Pruners -> BOOLEAN]
      <4>1. (pclean[p] /\ result = "Deleted") \in BOOLEAN OBVIOUS
      <4> QED BY <3>2, <4>1 DEF Processed
    <3> QED BY <1>1, <2>1, <3>1, <3>3 DEF PruneExpired
  <2>2. CASE PruneSkip(p, r) BY <1>1, <2>2, ProcessedType DEF PruneSkip
  <2>3. CASE PruneClaim(p, r)
    <3>1. cache' \in [Runs -> Slot]
      <4>1. PICK ok \in BOOLEAN:
              UpdateRun(r, CanClaim(cache[r], psnap[p][r]), Claimed(cache[r]), ok)
        BY <2>3 DEF PruneClaim
      <4>2. CASE cache[r] = NoRecord
        BY <4>1, <4>2 DEF UpdateRun, CanClaim, NoRecord
      <4>3. CASE cache[r] # NoRecord
        BY <4>1, <4>3, SlotFacts, UpdateRunType
      <4> QED BY <4>2, <4>3
    <3>2. /\ ptodo' \in [Pruners -> SUBSET Runs] /\ pclean' \in [Pruners -> BOOLEAN]
          /\ pcur' \in [Pruners -> SUBSET Runs]
          /\ ppc' \in [Pruners -> {"idle", "scan", "revoke", "delete"}]
      BY <2>3, ProcessedType, StartCleanupType DEF PruneClaim
    <3>3. psnap' \in [Pruners -> [Runs -> Slot]]
      <4>1. CASE psnap' = [psnap EXCEPT ![p][r] = cache'[r]] BY <3>1, <4>1
      <4>2. CASE UNCHANGED psnap BY <4>2
      <4> QED BY <2>3, <4>1, <4>2, Zenon DEF PruneClaim
    <3> QED BY <1>1, <2>3, <3>1, <3>2, <3>3 DEF PruneClaim
  <2>4. CASE PruneMarked(p, r)
    <3>1. /\ ptodo' \in [Pruners -> SUBSET Runs] /\ pclean' \in [Pruners -> BOOLEAN]
          /\ pcur' \in [Pruners -> SUBSET Runs]
          /\ ppc' \in [Pruners -> {"idle", "scan", "revoke", "delete"}]
      BY <2>4, StartCleanupType DEF PruneMarked
    <3> QED BY <1>1, <2>4, <3>1 DEF PruneMarked
  <2>5. CASE PruneRevoke(p, r)
    <3>1. remote' \in [Runs -> {"none", "live", "dead", "stray"}]
      BY <2>5, DeleteTokenType DEF PruneRevoke
    <3> QED BY <1>1, <2>5, <3>1, ProcessedType DEF PruneRevoke
  <2>6. CASE PruneDelete(p, r)
    <3>1. cache' \in [Runs -> Slot] BY <2>6, DeleteCleanupPendingType DEF PruneDelete
    <3> QED BY <1>1, <2>6, <3>1, ProcessedType DEF PruneDelete
  <2> QED BY <1>4, <2>1, <2>2, <2>3, <2>4, <2>5, <2>6 DEF PruneStep
<1> QED BY <1>2, <1>3, <1>4 DEF PruneNext

LEMMA RevokeType == TypeOK /\ RevokeNext /\ ByRevoke => TypeOK'
<1> SUFFICES ASSUME TypeOK, RevokeNext, ByRevoke PROVE TypeOK'
    OBVIOUS
<1>1. RunTypeOK' /\ PruneTypeOK'
  BY DEF ByRevoke, runVars, pruneVars, TypeOK, RunTypeOK, PruneTypeOK
<1> USE DEF TypeOK, StoreTypeOK, RevokeTypeOK, sharedVars, storeVars, worldVars,
            AdvanceEpoch, StartDeletion
<1>2. ASSUME NEW v \in Revokers, NEW selected \in SUBSET Runs, AdvanceEpoch, Select(v, selected),
             vepoch' \in [Revokers -> Nat], vcovered' \in [Revokers -> SUBSET Runs]
      PROVE  TypeOK'
  <2>1. [r \in Runs |-> IF r \in selected THEN cache[r] ELSE NoRecord] \in [Runs -> Slot]
    BY SlotFacts
  <2> QED BY <1>1, <1>2, <2>1 DEF Select
<1>3. ASSUME NEW v \in Revokers, RevokeAll(v) PROVE TypeOK'
  <2> DEFINE all == {r \in Runs: Present(cache[r])}
  <2>1. AdvanceEpoch /\ Select(v, all) BY <1>3 DEF RevokeAll
  <2>2. vepoch' \in [Revokers -> Nat] BY <1>3 DEF RevokeAll
  <2>3. vcovered' \in [Revokers -> SUBSET Runs] BY <1>3 DEF RevokeAll
  <2> HIDE DEF all
  <2>4. all \in SUBSET Runs BY DEF all
  <2> QED BY <1>2, <2>1, <2>2, <2>3, <2>4
<1>4. ASSUME NEW v \in Revokers, NEW r \in Runs, RevokeOne(v, r) PROVE TypeOK'
  BY <1>2, <1>4 DEF RevokeOne
<1>5. ASSUME NEW v \in Revokers, RevokeNothing(v) PROVE TypeOK'
  BY <1>1, <1>5 DEF RevokeNothing, revokeVars
<1>6. ASSUME NEW v \in Revokers, RevokeReport(v) \/ RevokeCrash(v) PROVE TypeOK'
  <2>1. CASE RevokeReport(v) BY <1>1, <2>1, SlotFacts DEF RevokeReport
  <2>2. CASE RevokeCrash(v) BY <1>1, <2>2, SlotFacts DEF RevokeCrash
  <2> QED BY <1>6, <2>1, <2>2
<1>7. ASSUME NEW v \in Revokers, NEW r \in Runs, RevokeStep(v, r) PROVE TypeOK'
  <2>1. CASE RevokeNearExpiry(v, r) BY <1>1, <2>1 DEF RevokeNearExpiry
  <2>2. CASE RevokeWithoutAuthority(v, r) BY <1>1, <2>2 DEF RevokeWithoutAuthority
  <2>3. CASE RevokeRemotely(v, r)
    <3>1. remote' \in [Runs -> {"none", "live", "dead", "stray"}]
      BY <2>3, DeleteTokenType DEF RevokeRemotely
    <3>2. vtodo' \in [Revokers -> SUBSET Runs] /\ vclean' \in [Revokers -> BOOLEAN]
      BY <2>3, FinalizedType DEF RevokeRemotely
    <3>3. /\ vpc' \in [Revokers -> {"idle", "process", "delete", "done"}]
          /\ vcur' \in [Revokers -> SUBSET Runs]
          /\ vintent' \in [Revokers -> {"RemotelyInactive", "NearExpiry", "LocalOnly"}]
      <4>1. CASE StartDeletion(v, r, "RemotelyInactive") BY <4>1
      <4>2. CASE UNCHANGED <<vpc, vcur, vintent>> BY <4>2
      <4> QED BY <2>3, <4>1, <4>2, Zenon DEF RevokeRemotely
    <3> QED BY <1>1, <2>3, <3>1, <3>2, <3>3 DEF RevokeRemotely
  <2>4. CASE RevokeDelete(v, r)
    <3>1. cache' \in [Runs -> Slot] BY <2>4, DeleteExactType DEF RevokeDelete
    <3>2. vtodo' \in [Revokers -> SUBSET Runs] /\ vclean' \in [Revokers -> BOOLEAN]
      BY <2>4 DEF RevokeDelete, Finalized
    <3>3. localOnly' \subseteq Runs BY <2>4 DEF RevokeDelete
    <3> QED BY <1>1, <2>4, <3>1, <3>2, <3>3 DEF RevokeDelete
  <2> QED BY <1>7, <2>1, <2>2, <2>3, <2>4 DEF RevokeStep
<1> QED BY <1>3, <1>4, <1>5, <1>6, <1>7 DEF RevokeNext

LEMMA NextType == TypeOK /\ [Next]_vars => TypeOK'
<1>1. TypeOK /\ UNCHANGED vars => TypeOK'
  BY DEF vars, sharedVars, storeVars, worldVars, runVars, pruneVars, revokeVars, TypeOK,
         StoreTypeOK, RunTypeOK, PruneTypeOK, RevokeTypeOK
<1> QED BY <1>1, EnvType, RunType, PruneType, RevokeType DEF Next

\* Every variable has its type in every reachable state.
THEOREM TypeCorrect == Spec => []TypeOK
BY InitType, NextType, PTL DEF Spec

-----------------------------------------------------------------------------
(***************************************************************************)
(* What no step of any command does.                                       *)
(***************************************************************************)

\* The storage operations change the slot of their run only.  An update keeps a
\* record where it finds one, and nothing where it finds nothing.
LEMMA UpdateRunFrame ==
    ASSUME cache \in [Runs -> Slot], NEW r \in Runs, NEW allowed, NEW e, NEW ok,
           UpdateRun(r, allowed, e, ok), allowed => Present(cache[r]), Present(e)
    PROVE  /\ \A q \in Runs \ {r}: cache'[q] = cache[q]
           /\ cache'[r] \in {cache[r], e}
           /\ Present(cache'[r]) <=> Present(cache[r])
BY DEF UpdateRun, Publish, Present

LEMMA DeleteCleanupPendingFrame ==
    ASSUME cache \in [Runs -> Slot], NEW r \in Runs, NEW expected, NEW ok,
           DeleteCleanupPending(r, expected, ok)
    PROVE  /\ \A q \in Runs \ {r}: cache'[q] = cache[q]
           /\ cache'[r] \in {cache[r], NoRecord}
           /\ ok => ~Present(cache'[r])
BY DEF DeleteCleanupPending, Present, NoRecord

LEMMA DeleteExactFrame ==
    ASSUME cache \in [Runs -> Slot], NEW r \in Runs, NEW expected, NEW result,
           DeleteExact(r, expected, result)
    PROVE  /\ \A q \in Runs \ {r}: cache'[q] = cache[q]
           /\ cache'[r] \in {cache[r], NoRecord}
           /\ result = "Deleted" => ~Present(cache'[r])
           /\ result \notin {"Deleted", "SyncFailed"} => cache' = cache
BY DEF DeleteExact, Present, NoRecord

LEMMA DeleteTokenFrame ==
    ASSUME remote \in [Runs -> {"none", "live", "dead", "stray"}], NEW r \in Runs,
           NEW answer, DeleteToken(r, answer)
    PROVE  /\ \A q \in Runs: remote'[q] \in {remote[q], "dead"}
           /\ answer # "Error" => remote'[r] = "dead" \/ (~Active(r) /\ remote' = remote)
BY DEF DeleteToken

\* The transitions are allowed for a record only.
LEMMA TransitionFacts ==
    /\ \A e \in Slot: CanActivate(e) \/ CanAbort(e) \/ CanFinish(e) => Present(e)
    /\ \A e, x \in Slot: CanClaim(e, x) => Present(e)
    /\ Present(Activated) /\ Present(Finished) /\ \A pid \in ChildPid: Present(Aborted(pid))
    /\ \A e \in Slot: Present(e) => Claimed(e) = [state |-> "CleanupPending",
                                                 child_pid |-> e.child_pid]
BY DEF CanActivate, CanAbort, CanFinish, CanClaim, Present, Activated, Finished, Aborted,
       Claimed, Slot, RunRecord, NoRecord

\* Time and epochs do not go back; a token comes from its mint only, a record
\* from its commit only; a committed run stays committed.
Monotone(r) ==
    /\ clock' >= clock
    /\ epoch' >= epoch
    /\ localOnly \subseteq localOnly'
    /\ pc[r] # "mint" => expires'[r] = expires[r] /\ (remote'[r] = "live" => remote[r] = "live")
    /\ pc[r] # "commit" /\ Present(cache'[r]) => Present(cache[r])
    /\ guard'[r] = guard[r] \/ (pc[r] = "guard" /\ guard'[r] = epoch)
    /\ pc'[r] \in Fresh => pc[r] \in Fresh
    /\ child[r] # "none" => child'[r] # "none"

LEMMA EnvMonotone == ASSUME TypeOK, EnvNext, ByEnv, NEW q \in Runs PROVE Monotone(q)
<1> USE DEF Monotone, ByEnv, runVars, storeVars, worldVars, TypeOK, StoreTypeOK
<1>1. CASE Tick BY <1>1 DEF Tick
<1>2. CASE CommitBase \/ RemoveBase BY <1>2 DEF CommitBase, RemoveBase
<1>3. ASSUME NEW r \in Runs, ChildExit(r) PROVE Monotone(q) BY <1>3 DEF ChildExit
<1> QED BY <1>1, <1>2, <1>3 DEF EnvNext

LEMMA RunMonotone ==
    ASSUME TypeOK, NEW r \in Runs, WrapperStep(r) \/ Crash(r), NEW q \in Runs
    PROVE  Monotone(q)
<1> USE DEF Monotone, Fresh, storeVars, TypeOK, StoreTypeOK, RunTypeOK, Goto, Return
<1>1. CASE ReadBase(r) BY <1>1 DEF ReadBase
<1>2. CASE TakeGuard(r) BY <1>2 DEF TakeGuard
<1>3. CASE Mint(r) BY <1>3 DEF Mint
<1>4. CASE MintFails(r) BY <1>4 DEF MintFails
<1>5. CASE MintAnswerLost(r) BY <1>5 DEF MintAnswerLost
<1>6. CASE CommitPending(r) BY <1>6 DEF CommitPending, Publish
<1>7. CASE Discard(r)
  <2>1. remote'[q] \in {remote[q], "dead"} BY <1>7, DeleteTokenFrame DEF Discard
  <2> QED BY <1>7, <2>1 DEF Discard
<1>8. CASE Spawn(r) \/ SpawnFails(r) \/ StartForwarding(r)
  BY <1>8 DEF Spawn, SpawnFails, StartForwarding
<1>9. CASE Activate(r)
  <2>1. Present(cache'[q]) => Present(cache[q])
    BY <1>9, UpdateRunFrame, TransitionFacts DEF Activate
  <2> QED BY <1>9, <2>1 DEF Activate
<1>10. CASE TerminateAndWait(r) BY <1>10 DEF TerminateAndWait
<1>11. CASE WaitChild(r) \/ WaitFails(r) BY <1>11 DEF WaitChild, WaitFails
<1>12. CASE Abort(r)
  <2>1. Present(cache'[q]) => Present(cache[q])
    BY <1>12, UpdateRunFrame, TransitionFacts DEF Abort
  <2> QED BY <1>12, <2>1 DEF Abort, Marked
<1>13. CASE Finish(r)
  <2>1. Present(cache'[q]) => Present(cache[q])
    BY <1>13, UpdateRunFrame, TransitionFacts DEF Finish
  <2> QED BY <1>13, <2>1 DEF Finish, Marked
<1>14. CASE CleanupRevoke(r)
  <2>1. remote'[q] \in {remote[q], "dead"} BY <1>14, DeleteTokenFrame DEF CleanupRevoke
  <2> QED BY <1>14, <2>1 DEF CleanupRevoke
<1>15. CASE CleanupDelete(r)
  <2>1. PICK ok \in BOOLEAN: DeleteCleanupPending(r, entry[r], ok)
    BY <1>15, Zenon DEF CleanupDelete
  <2>2. Present(cache'[q]) => Present(cache[q])
    BY <2>1, DeleteCleanupPendingFrame DEF Present, NoRecord
  <2> QED BY <1>15, <2>2 DEF CleanupDelete
<1>16. CASE Crash(r) BY <1>16 DEF Crash
<1> QED BY <1>1, <1>2, <1>3, <1>4, <1>5, <1>6, <1>7, <1>8, <1>9, <1>10, <1>11, <1>12, <1>13,
           <1>14, <1>15, <1>16 DEF WrapperStep, Issue, Execute, Cleanup

LEMMA PruneMonotone ==
    ASSUME TypeOK, PruneNext, ByPrune, NEW q \in Runs PROVE Monotone(q)
<1> USE DEF Monotone, ByPrune, runVars, sharedVars, storeVars, worldVars, TypeOK, StoreTypeOK,
            PruneTypeOK
<1>1. ASSUME NEW p \in Pruners, PruneInspect(p) \/ PruneEnd(p) PROVE Monotone(q)
  BY <1>1 DEF PruneInspect, PruneEnd
<1>2. ASSUME NEW p \in Pruners, NEW r \in Runs, PruneStep(p, r) PROVE Monotone(q)
  <2>1. CASE PruneExpired(p, r)
    <3>1. PICK result \in {"Deleted", "Missing", "Changed", "SyncFailed", "Error"}:
            DeleteExact(r, psnap[p][r], result)
      BY <2>1 DEF PruneExpired
    <3>2. Present(cache'[q]) => Present(cache[q])
      BY <3>1, DeleteExactFrame DEF Present, NoRecord
    <3>3. UNCHANGED <<epoch, baseGen, baseCached, worldVars, localOnly>>
      BY <2>1 DEF PruneExpired
    <3> QED BY <3>2, <3>3
  <2>2. CASE PruneSkip(p, r) \/ PruneMarked(p, r)
    <3>1. UNCHANGED sharedVars BY <2>2, Zenon DEF PruneSkip, PruneMarked
    <3> QED BY <3>1
  <2>3. CASE PruneClaim(p, r)
    <3>1. PICK ok \in BOOLEAN:
            UpdateRun(r, CanClaim(cache[r], psnap[p][r]), Claimed(cache[r]), ok)
      BY <2>3 DEF PruneClaim
    <3>2. CanClaim(cache[r], psnap[p][r]) => Present(cache[r])
      BY DEF CanClaim, Present
    <3>3. Present(cache'[q]) => Present(cache[q])
      BY <3>1, <3>2 DEF UpdateRun, Publish
    <3>4. UNCHANGED <<epoch, baseGen, baseCached, worldVars, localOnly>>
      BY <2>3 DEF PruneClaim
    <3> QED BY <3>3, <3>4
  <2>4. CASE PruneRevoke(p, r)
    <3>1. remote'[q] \in {remote[q], "dead"} BY <2>4, DeleteTokenFrame DEF PruneRevoke
    <3> QED BY <2>4, <3>1 DEF PruneRevoke
  <2>5. CASE PruneDelete(p, r)
    <3>1. PICK ok \in BOOLEAN: DeleteCleanupPending(r, psnap[p][r], ok)
      BY <2>5, Zenon DEF PruneDelete
    <3>2. cache \in [Runs -> Slot] BY DEF TypeOK, StoreTypeOK
    <3>3. cache'[r] \in {cache[r], NoRecord} /\ \A x \in Runs \ {r}: cache'[x] = cache[x]
      BY <3>1, <3>2, DeleteCleanupPendingFrame, Zenon
    <3>4. Present(cache'[q]) => Present(cache[q])
      BY <3>3 DEF Present, NoRecord
    <3>5. UNCHANGED <<epoch, baseGen, baseCached, worldVars, localOnly>>
      BY <2>5, Zenon DEF PruneDelete
    <3> QED BY <3>4, <3>5
  <2> QED BY <1>2, <2>1, <2>2, <2>3, <2>4, <2>5 DEF PruneStep
<1> QED BY <1>1, <1>2 DEF PruneNext

LEMMA RevokeMonotone ==
    ASSUME TypeOK, RevokeNext, ByRevoke, NEW q \in Runs PROVE Monotone(q)
<1> USE DEF Monotone, ByRevoke, runVars, sharedVars, storeVars, worldVars, TypeOK, StoreTypeOK
<1>1. CASE AdvanceEpoch BY <1>1 DEF AdvanceEpoch
<1>2. ASSUME NEW v \in Revokers, RevokeReport(v) \/ RevokeCrash(v) PROVE Monotone(q)
  BY <1>2 DEF RevokeReport, RevokeCrash
<1>3. ASSUME NEW v \in Revokers, NEW r \in Runs, RevokeStep(v, r) PROVE Monotone(q)
  <2>1. CASE RevokeNearExpiry(v, r) \/ RevokeWithoutAuthority(v, r)
    BY <2>1 DEF RevokeNearExpiry, RevokeWithoutAuthority
  <2>2. CASE RevokeRemotely(v, r)
    <3>1. remote'[q] \in {remote[q], "dead"} BY <2>2, DeleteTokenFrame DEF RevokeRemotely
    <3> QED BY <2>2, <3>1 DEF RevokeRemotely
  <2>3. CASE RevokeDelete(v, r)
    <3>0. PICK result \in {"Deleted", "Missing", "Changed", "SyncFailed", "Error"}:
            DeleteExact(r, vsnap[v][r], result)
      BY <2>3, Zenon DEF RevokeDelete
    <3>1. Present(cache'[q]) => Present(cache[q])
      BY <3>0, DeleteExactFrame DEF Present, NoRecord
    <3>2. localOnly \subseteq localOnly' BY <2>3 DEF RevokeDelete
    <3> QED BY <2>3, <3>1, <3>2 DEF RevokeDelete
  <2> QED BY <1>3, <2>1, <2>2, <2>3 DEF RevokeStep
<1> QED BY <1>1, <1>2, <1>3 DEF RevokeNext, RevokeAll, RevokeOne, RevokeNothing

LEMMA StepMonotone == ASSUME TypeOK, [Next]_vars, NEW q \in Runs PROVE Monotone(q)
<1>1. CASE UNCHANGED vars
  BY <1>1 DEF vars, sharedVars, storeVars, worldVars, runVars, Monotone, TypeOK, StoreTypeOK
<1> QED BY <1>1, EnvMonotone, RunMonotone, PruneMonotone, RevokeMonotone DEF Next, RunNext

\* So a token that no longer works never works again.
LEMMA InactiveStays ==
    ASSUME TypeOK, [Next]_vars, NEW q \in Runs, pc[q] # "mint", ~Active(q) PROVE ~Active(q)'
BY StepMonotone, NextType DEF Monotone, Active, Expired, TypeOK, StoreTypeOK

\* Time and epochs do not go back, whether or not there is a run.
LEMMA TimePasses == ASSUME TypeOK, [Next]_vars PROVE clock' >= clock /\ epoch' >= epoch
<1>1. CASE \E q \in Runs: TRUE BY <1>1, StepMonotone DEF Monotone
<1>2. CASE ~\E q \in Runs: TRUE
  <2> USE DEF TypeOK, StoreTypeOK, sharedVars, storeVars, worldVars
  <2>1. CASE EnvNext BY <1>2, <2>1 DEF EnvNext, Tick, CommitBase, RemoveBase
  <2>2. CASE PruneNext BY <1>2, <2>2 DEF PruneNext, PruneInspect, PruneEnd
  <2>3. CASE RevokeNext
    BY <1>2, <2>3 DEF RevokeNext, RevokeAll, RevokeNothing, AdvanceEpoch, RevokeReport,
                      RevokeCrash
  <2>4. CASE UNCHANGED vars BY <2>4 DEF vars
  <2> QED BY <1>2, <2>1, <2>2, <2>3, <2>4 DEF Next, RunNext
<1> QED BY <1>1, <1>2

-----------------------------------------------------------------------------
(***************************************************************************)
(* A revoke covers what was issued before it.                              *)
(***************************************************************************)

\* A record appears only in a commit, and only under the current epoch.
LEMMA RecordAppears ==
    ASSUME TypeOK, [Next]_vars, NEW r \in Runs, ~Present(cache[r]), Present(cache'[r])
    PROVE  /\ pc[r] = "commit" /\ pc'[r] \in {"spawn", "discard"}
           /\ guard[r] = epoch /\ UNCHANGED guard /\ UNCHANGED revokeVars
<1>1. pc[r] = "commit" BY StepMonotone DEF Monotone
<1>2. cache' # cache OBVIOUS
<1> USE DEF TypeOK, StoreTypeOK, RunTypeOK, storeVars, worldVars, sharedVars
<1>3. ~EnvNext BY <1>2 DEF EnvNext, Tick, CommitBase, RemoveBase, ChildExit
<1>4. ~PruneNext
  <2>1. ASSUME NEW p \in Pruners, PruneInspect(p) \/ PruneEnd(p) PROVE FALSE
    BY <1>2, <2>1 DEF PruneInspect, PruneEnd
  <2>2. ASSUME NEW p \in Pruners, NEW q \in Runs, PruneStep(p, q) PROVE FALSE
    <3>1. CASE PruneExpired(p, q)
      <4>1. PICK result: DeleteExact(q, psnap[p][q], result) BY <3>1 DEF PruneExpired
      <4> QED BY <4>1, DeleteExactFrame DEF Present, NoRecord
    <3>2. CASE PruneSkip(p, q) \/ PruneMarked(p, q)
      BY <1>2, <3>2, Zenon DEF PruneSkip, PruneMarked
    <3>3. CASE PruneClaim(p, q)
      <4>1. PICK ok: UpdateRun(q, CanClaim(cache[q], psnap[p][q]), Claimed(cache[q]), ok)
        BY <3>3 DEF PruneClaim
      <4> QED BY <4>1 DEF UpdateRun, Publish, CanClaim, Present
    <3>4. CASE PruneRevoke(p, q) BY <1>2, <3>4 DEF PruneRevoke
    <3>5. CASE PruneDelete(p, q)
      BY <3>5, DeleteCleanupPendingFrame DEF PruneDelete, Present, NoRecord
    <3> QED BY <2>2, <3>1, <3>2, <3>3, <3>4, <3>5 DEF PruneStep
  <2> QED BY <2>1, <2>2 DEF PruneNext
<1>5. ~RevokeNext
  <2>1. ASSUME NEW v \in Revokers, NEW q \in Runs, RevokeStep(v, q) PROVE FALSE
    <3>1. CASE RevokeDelete(v, q)
      <4>1. PICK result: DeleteExact(q, vsnap[v][q], result) BY <3>1 DEF RevokeDelete
      <4> QED BY <4>1, DeleteExactFrame DEF Present, NoRecord
    <3>2. CASE ~RevokeDelete(v, q)
      BY <1>2, <2>1, <3>2 DEF RevokeStep, RevokeNearExpiry, RevokeWithoutAuthority,
                              RevokeRemotely
    <3> QED BY <3>1, <3>2
  <2>2. ASSUME NEW v \in Revokers, RevokeReport(v) \/ RevokeCrash(v) PROVE FALSE
    BY <1>2, <2>2 DEF RevokeReport, RevokeCrash
  <2>3. ~AdvanceEpoch BY <1>2 DEF AdvanceEpoch
  <2> QED BY <2>1, <2>2, <2>3 DEF RevokeNext, RevokeAll, RevokeOne, RevokeNothing
<1>6. PICK q \in Runs: (WrapperStep(q) \/ Crash(q)) /\ ByRun
  BY <1>2, <1>3, <1>4, <1>5 DEF Next, RunNext, vars
<1>7. CommitPending(r)
  <2>1. CASE CommitPending(q) BY <2>1, <1>1 DEF CommitPending, Publish, IssuanceCurrent
  <2>2. CASE Activate(q)
    BY <2>2, UpdateRunFrame, TransitionFacts DEF Activate
  <2>3. CASE Abort(q)
    BY <2>3, UpdateRunFrame, TransitionFacts DEF Abort
  <2>4. CASE Finish(q)
    BY <2>4, UpdateRunFrame, TransitionFacts DEF Finish
  <2>5. CASE CleanupDelete(q)
    BY <2>5, DeleteCleanupPendingFrame DEF CleanupDelete, Present, NoRecord
  <2>6. CASE Issue(q) /\ ~CommitPending(q)
    BY <1>2, <2>6 DEF Issue, ReadBase, TakeGuard, Mint, MintFails, MintAnswerLost, Discard
  <2>7. CASE Execute(q) /\ ~Activate(q)
    BY <1>2, <2>7 DEF Execute, Spawn, SpawnFails, StartForwarding, TerminateAndWait, WaitChild,
                      WaitFails
  <2>8. CASE CleanupRevoke(q) \/ Crash(q) BY <1>2, <2>8 DEF CleanupRevoke, Crash
  <2> QED BY <1>6, <2>1, <2>2, <2>3, <2>4, <2>5, <2>6, <2>7, <2>8 DEF WrapperStep, Cleanup
<1> QED BY <1>1, <1>2, <1>6, <1>7
           DEF CommitPending, IssuanceCurrent, Publish, Goto, ByRun, revokeVars

\* The bookkeeping of revocations changes only when one begins.
LEMMA RevokeVarsFrame ==
    ASSUME [Next]_vars
    PROVE  \/ \E v \in Revokers: RevokeAll(v) /\ ByRevoke
           \/ \E v \in Revokers, q \in Runs: RevokeOne(v, q) /\ ByRevoke
           \/ UNCHANGED <<vepoch, vcovered>>
<1>1. CASE RevokeNext /\ ByRevoke
  <2>1. ASSUME NEW v \in Revokers, NEW q \in Runs, RevokeStep(v, q)
        PROVE  UNCHANGED <<vepoch, vcovered>>
    BY <2>1 DEF RevokeStep, RevokeNearExpiry, RevokeWithoutAuthority, RevokeRemotely, RevokeDelete
  <2> QED BY <1>1, <2>1 DEF RevokeNext, RevokeNothing, RevokeReport, RevokeCrash, revokeVars
<1>2. CASE ~(RevokeNext /\ ByRevoke)
  BY <1>2 DEF Next, ByEnv, ByRun, ByPrune, revokeVars, vars
<1> QED BY <1>1, <1>2

LEMMA RevokeCoversStep ==
    ASSUME TypeOK, RevokeEpochs, RevokeCoversEarlierIssuance, [Next]_vars
    PROVE  RevokeEpochs' /\ RevokeCoversEarlierIssuance'
<1> USE NextType
        DEF TypeOK, StoreTypeOK, RunTypeOK, RevokeTypeOK, RevokeEpochs,
            RevokeCoversEarlierIssuance
<1>1. ASSUME NEW v \in Revokers, RevokeAll(v), ByRevoke
      PROVE  RevokeEpochs' /\ RevokeCoversEarlierIssuance'
  <2>1. UNCHANGED <<cache, guard>> BY <1>1 DEF RevokeAll, AdvanceEpoch, ByRevoke, runVars
  <2>2. vepoch' = [vepoch EXCEPT ![v] = epoch + 1] /\ epoch' = epoch + 1
    BY <1>1 DEF RevokeAll, AdvanceEpoch
  <2>3. vcovered' = [vcovered EXCEPT ![v] = {r \in Runs: Present(cache[r])}]
    BY <1>1 DEF RevokeAll
  <2>4. RevokeEpochs' BY <2>2
  <2>5. ASSUME NEW w \in Revokers, NEW r \in Runs, Present(cache'[r]), guard'[r] < vepoch'[w]
        PROVE  r \in vcovered'[w]
    BY <2>1, <2>2, <2>3, <2>5
  <2> QED BY <2>4, <2>5
<1>2. ASSUME NEW v \in Revokers, NEW q \in Runs, RevokeOne(v, q), ByRevoke
      PROVE  RevokeEpochs' /\ RevokeCoversEarlierIssuance'
  <2>1. UNCHANGED <<cache, guard>> BY <1>2 DEF RevokeOne, AdvanceEpoch, ByRevoke, runVars
  <2>2. vepoch' = [vepoch EXCEPT ![v] = 0] /\ epoch' = epoch + 1
    BY <1>2 DEF RevokeOne, AdvanceEpoch
  <2>3. vcovered' = [vcovered EXCEPT ![v] = {}] BY <1>2 DEF RevokeOne
  <2>4. RevokeEpochs' BY <2>2
  <2>5. ASSUME NEW w \in Revokers, NEW r \in Runs, Present(cache'[r]), guard'[r] < vepoch'[w]
        PROVE  r \in vcovered'[w]
    BY <2>1, <2>2, <2>3, <2>5
  <2> QED BY <2>4, <2>5
<1>3. CASE UNCHANGED <<vepoch, vcovered>>
  <2>1. RevokeEpochs' BY <1>3, TimePasses
  <2>2. ASSUME NEW v \in Revokers, NEW r \in Runs, Present(cache'[r]), guard'[r] < vepoch'[v]
        PROVE  r \in vcovered'[v]
    <3>1. guard'[r] = guard[r] BY <1>3, <2>2, StepMonotone DEF Monotone
    <3>2. Present(cache[r]) BY <1>3, <2>2, <3>1, RecordAppears
    <3> QED BY <1>3, <2>2, <3>1, <3>2
  <2> QED BY <2>1, <2>2
<1> QED BY <1>1, <1>2, <1>3, RevokeVarsFrame

\* No issuance that took its guard before a `revoke --all` gets its record past
\* the snapshot of that revoke (commit_pending against begin_revocation).
THEOREM RevokeCovers == Spec => []RevokeCoversEarlierIssuance
<1> DEFINE Inv == TypeOK /\ RevokeEpochs /\ RevokeCoversEarlierIssuance
<1>1. Init => Inv
  BY InitType DEF Init, RevokeInit, StoreInit, RunInit, RevokeEpochs, RevokeCoversEarlierIssuance
<1>2. Inv /\ [Next]_vars => Inv' BY NextType, RevokeCoversStep
<1> QED BY <1>1, <1>2, PTL DEF Spec
=============================================================================
