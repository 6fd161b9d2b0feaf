------------------------ MODULE LeaseInvariantProofs -------------------------
(***************************************************************************)
(* LeaseInv holds in every reachable state of RunLease, for every number   *)
(* of runs, prunes and revokes, and the safety properties follow from it.  *)
(*                                                                         *)
(* Each command sees only its own local state, so the proof first says     *)
(* what a step may change of the state of one run, one prune and one       *)
(* revoke.  Then every conjunct of the invariant is shown to survive.      *)
(***************************************************************************)
EXTENDS RunLeaseProofs

USE MarginAssumption, LifetimesAssumption, BoundsAssumption, PidReuseAssumption

-----------------------------------------------------------------------------
(***************************************************************************)
(* A step changes the local state of the command that takes it.            *)
(***************************************************************************)

\* A prune changes records and tokens, a revoke also the epoch and what it
\* tells; neither touches processes or the time.
LEMMA PruneFrame ==
    ASSUME PruneNext
    PROVE  UNCHANGED <<clock, epoch, expires, wrapper, child, localOnly>>
<1> USE DEF sharedVars, storeVars, worldVars
<1>1. ASSUME NEW p \in Pruners, PruneInspect(p) \/ PruneEnd(p)
      PROVE  UNCHANGED <<clock, epoch, expires, wrapper, child, localOnly>>
  BY <1>1 DEF PruneInspect, PruneEnd
<1>2. ASSUME NEW p \in Pruners, NEW q \in Runs, PruneStep(p, q)
      PROVE  UNCHANGED <<clock, epoch, expires, wrapper, child, localOnly>>
  BY <1>2, Zenon DEF PruneStep, PruneExpired, PruneSkip, PruneClaim, PruneMarked, PruneRevoke,
                     PruneDelete
<1> QED BY <1>1, <1>2 DEF PruneNext

LEMMA RevokeFrame ==
    ASSUME RevokeNext
    PROVE  UNCHANGED <<clock, expires, wrapper, child>>
<1> USE DEF sharedVars, storeVars, worldVars
<1>1. ASSUME NEW v \in Revokers, NEW q \in Runs, RevokeStep(v, q)
      PROVE  UNCHANGED <<clock, expires, wrapper, child>>
  BY <1>1, Zenon DEF RevokeStep, RevokeNearExpiry, RevokeWithoutAuthority, RevokeRemotely,
                     RevokeDelete
<1>2. ASSUME NEW v \in Revokers, RevokeReport(v) \/ RevokeCrash(v)
      PROVE  UNCHANGED <<clock, expires, wrapper, child>>
  BY <1>2 DEF RevokeReport, RevokeCrash
<1>3. AdvanceEpoch => UNCHANGED <<clock, expires, wrapper, child>> BY DEF AdvanceEpoch
<1> QED BY <1>1, <1>2, <1>3 DEF RevokeNext, RevokeAll, RevokeOne, RevokeNothing

\* What the wrapper of run r knows, and its process.
WrapperLocal(r) ==
    <<pc[r], guard[r], began[r], gen[r], abortPid[r], entry[r], outcome[r], wrapper[r]>>

\* A step leaves the wrapper of run r alone, or is a step of it.
LEMMA WrapperMoves ==
    ASSUME TypeOK, [Next]_vars, NEW r \in Runs
    PROVE  \/ UNCHANGED WrapperLocal(r)
           \/ (WrapperStep(r) \/ Crash(r)) /\ ByRun
<1> USE DEF WrapperLocal, TypeOK, StoreTypeOK, RunTypeOK, sharedVars, storeVars, worldVars,
            runVars, ByEnv, ByPrune, ByRevoke
<1>1. CASE UNCHANGED vars BY <1>1 DEF vars
<1>2. CASE EnvNext /\ ByEnv
  BY <1>2 DEF EnvNext, Tick, CommitBase, RemoveBase, ChildExit
<1>3. CASE PruneNext /\ ByPrune BY <1>3, PruneFrame
<1>4. CASE RevokeNext /\ ByRevoke BY <1>4, RevokeFrame
<1>5. ASSUME NEW q \in Runs, WrapperStep(q) \/ Crash(q), q # r
      PROVE  UNCHANGED WrapperLocal(r)
  <2> USE <1>5 DEF Goto, Return
  <2>1. CASE Issue(q)
    BY <2>1 DEF Issue, ReadBase, TakeGuard, Mint, MintFails, MintAnswerLost, CommitPending,
                Discard
  <2>2. CASE Execute(q)
    BY <2>2 DEF Execute, Spawn, SpawnFails, StartForwarding, Activate, TerminateAndWait,
                WaitChild, WaitFails
  <2>3. CASE Cleanup(q)
    BY <2>3 DEF Cleanup, Abort, Finish, Marked, CleanupRevoke, CleanupDelete
  <2>4. CASE Crash(q) BY <2>4 DEF Crash
  <2> QED BY <2>1, <2>2, <2>3, <2>4 DEF WrapperStep
<1> QED BY <1>1, <1>2, <1>3, <1>4, <1>5 DEF Next, RunNext

\* What prune p knows.
PruneLocal(p) == <<ppc[p], pnow[p], psnap[p], ptodo[p], pcur[p], pclean[p]>>

LEMMA PruneMoves ==
    ASSUME TypeOK, [Next]_vars, NEW p \in Pruners
    PROVE  \/ UNCHANGED PruneLocal(p)
           \/ (PruneInspect(p) \/ PruneEnd(p) \/ \E q \in Runs: PruneStep(p, q)) /\ ByPrune
<1> USE DEF PruneLocal, TypeOK, PruneTypeOK, pruneVars
<1>1. CASE ~(PruneNext /\ ByPrune) BY <1>1 DEF Next, ByEnv, ByRun, ByRevoke, vars
<1>2. ASSUME NEW o \in Pruners, PruneInspect(o) \/ PruneEnd(o), o # p
      PROVE  UNCHANGED PruneLocal(p)
  BY <1>2 DEF PruneInspect, PruneEnd
<1>3. ASSUME NEW o \in Pruners, NEW q \in Runs, PruneStep(o, q), o # p
      PROVE  UNCHANGED PruneLocal(p)
  <2> USE <1>3 DEF Processed, StartCleanup
  <2>1. CASE PruneExpired(o, q) BY <2>1 DEF PruneExpired
  <2>2. CASE PruneSkip(o, q) BY <2>2 DEF PruneSkip
  <2>3. CASE PruneClaim(o, q) BY <2>3 DEF PruneClaim
  <2>4. CASE PruneMarked(o, q) BY <2>4 DEF PruneMarked
  <2>5. CASE PruneRevoke(o, q) BY <2>5 DEF PruneRevoke
  <2>6. CASE PruneDelete(o, q) BY <2>6 DEF PruneDelete
  <2> QED BY <2>1, <2>2, <2>3, <2>4, <2>5, <2>6 DEF PruneStep
<1> QED BY <1>1, <1>2, <1>3 DEF PruneNext

\* What revoke v knows.
RevokeLocal(v) ==
    <<vpc[v], vnow[v], vsnap[v], vtodo[v], vcur[v], vintent[v], vepoch[v], vcovered[v], vclean[v]>>

LEMMA RevokeMoves ==
    ASSUME TypeOK, [Next]_vars, NEW v \in Revokers
    PROVE  \/ UNCHANGED RevokeLocal(v)
           \/ /\ \/ RevokeAll(v) \/ RevokeReport(v) \/ RevokeCrash(v)
                 \/ \E q \in Runs: RevokeOne(v, q) \/ RevokeStep(v, q)
              /\ ByRevoke
<1> USE DEF RevokeLocal, TypeOK, RevokeTypeOK, revokeVars
<1>1. CASE ~(RevokeNext /\ ByRevoke) BY <1>1 DEF Next, ByEnv, ByRun, ByPrune, vars
<1>2. ASSUME NEW o \in Revokers, RevokeAll(o) \/ RevokeReport(o) \/ RevokeCrash(o), o # v
      PROVE  UNCHANGED RevokeLocal(v)
  BY <1>2 DEF RevokeAll, RevokeReport, RevokeCrash, Select
<1>3. ASSUME NEW o \in Revokers, RevokeNothing(o) PROVE UNCHANGED RevokeLocal(v)
  BY <1>3 DEF RevokeNothing
<1>4. ASSUME NEW o \in Revokers, NEW q \in Runs, RevokeOne(o, q), o # v
      PROVE  UNCHANGED RevokeLocal(v)
  BY <1>4 DEF RevokeOne, Select
<1>5. ASSUME NEW o \in Revokers, NEW q \in Runs, RevokeStep(o, q), o # v
      PROVE  UNCHANGED RevokeLocal(v)
  <2> USE <1>5 DEF Finalized, StartDeletion
  <2>1. CASE RevokeNearExpiry(o, q) BY <2>1 DEF RevokeNearExpiry
  <2>2. CASE RevokeWithoutAuthority(o, q) BY <2>2 DEF RevokeWithoutAuthority
  <2>3. CASE RevokeRemotely(o, q) BY <2>3 DEF RevokeRemotely
  <2>4. CASE RevokeDelete(o, q) BY <2>4 DEF RevokeDelete
  <2> QED BY <2>1, <2>2, <2>3, <2>4 DEF RevokeStep
<1> QED BY <1>1, <1>2, <1>3, <1>4, <1>5 DEF RevokeNext

-----------------------------------------------------------------------------
(***************************************************************************)
(* What a command knows of a run comes from a record of it.                *)
(***************************************************************************)

\* A run gets on a prune's lists when the prune finds its record, and is
\* cleaned up when it is on the list.
LEMMA PruneLists ==
    ASSUME TypeOK, [Next]_vars, NEW p \in Pruners, NEW r \in Runs
    PROVE  /\ r \in ptodo'[p] => r \in ptodo[p] \/ Present(cache[r])
           /\ r \in pcur'[p] => r \in ptodo[p] \union pcur[p]
           /\ Present(psnap'[p][r]) => \/ Present(psnap[p][r]) \/ Present(cache[r])
                                       \/ r \in ptodo[p]
<1> USE DEF TypeOK, PruneTypeOK
<1>1. CASE UNCHANGED PruneLocal(p) BY <1>1 DEF PruneLocal
<1>2. CASE PruneInspect(p) BY <1>2 DEF PruneInspect
<1>3. CASE PruneEnd(p) BY <1>3 DEF PruneEnd, Present, NoRecord
<1>4. ASSUME NEW q \in Runs, PruneStep(p, q)
      PROVE  /\ r \in ptodo'[p] => r \in ptodo[p]
             /\ r \in pcur'[p] => r \in ptodo[p] \union pcur[p]
             /\ psnap'[p][r] # psnap[p][r] => r \in ptodo[p]
  <2> USE <1>4 DEF Processed, StartCleanup
  <2>1. CASE PruneExpired(p, q) BY <2>1 DEF PruneExpired
  <2>2. CASE PruneSkip(p, q) BY <2>2 DEF PruneSkip
  <2>3. CASE PruneClaim(p, q) BY <2>3 DEF PruneClaim
  <2>4. CASE PruneMarked(p, q) BY <2>4 DEF PruneMarked
  <2>5. CASE PruneRevoke(p, q) BY <2>5 DEF PruneRevoke
  <2>6. CASE PruneDelete(p, q) BY <2>6 DEF PruneDelete
  <2> QED BY <2>1, <2>2, <2>3, <2>4, <2>5, <2>6 DEF PruneStep
<1> QED BY <1>1, <1>2, <1>3, <1>4, PruneMoves

LEMMA RevokeLists ==
    ASSUME TypeOK, [Next]_vars, NEW v \in Revokers, NEW r \in Runs
    PROVE  /\ r \in vtodo'[v] => r \in vtodo[v] \/ Present(cache[r])
           /\ r \in vcur'[v] => r \in vtodo[v] \union vcur[v]
<1> USE DEF TypeOK, RevokeTypeOK
<1>1. CASE UNCHANGED RevokeLocal(v) BY <1>1 DEF RevokeLocal
<1>2. CASE RevokeAll(v) BY <1>2 DEF RevokeAll, Select
<1>3. CASE RevokeReport(v) \/ RevokeCrash(v) BY <1>3 DEF RevokeReport, RevokeCrash
<1>4. ASSUME NEW q \in Runs, RevokeOne(v, q)
      PROVE  /\ r \in vtodo'[v] => Present(cache[r])
             /\ vcur' = vcur
  BY <1>4 DEF RevokeOne, Select
<1>5. ASSUME NEW q \in Runs, RevokeStep(v, q)
      PROVE  /\ r \in vtodo'[v] => r \in vtodo[v]
             /\ r \in vcur'[v] => r \in vtodo[v] \union vcur[v]
  BY <1>5 DEF RevokeStep, RevokeNearExpiry, RevokeWithoutAuthority, RevokeRemotely,
              RevokeDelete, StartDeletion, Finalized
<1> QED BY <1>1, <1>2, <1>3, <1>4, <1>5, RevokeMoves

\* Only a revoke that works on the record of a run tells that it was deleted
\* locally.
LEMMA LocalOnlyGrows ==
    ASSUME TypeOK, [Next]_vars, NEW r \in Runs, r \in localOnly', r \notin localOnly
    PROVE  /\ \E v \in Revokers: r \in vcur[v]
           /\ Present(cache[r]) /\ ~Present(cache'[r])
<1> USE DEF TypeOK, StoreTypeOK, sharedVars, storeVars, worldVars
<1>1. ~EnvNext BY DEF EnvNext, Tick, CommitBase, RemoveBase, ChildExit
<1>2. ASSUME NEW q \in Runs, WrapperStep(q) \/ Crash(q) PROVE FALSE
  <2>1. CASE Issue(q)
    BY <2>1 DEF Issue, ReadBase, TakeGuard, Mint, MintFails, MintAnswerLost, CommitPending,
                Discard
  <2>2. CASE Execute(q)
    BY <2>2 DEF Execute, Spawn, SpawnFails, StartForwarding, Activate, TerminateAndWait,
                WaitChild, WaitFails
  <2>3. CASE Cleanup(q) BY <2>3 DEF Cleanup, Abort, Finish, CleanupRevoke, CleanupDelete
  <2> QED BY <1>2, <2>1, <2>2, <2>3 DEF WrapperStep, Crash
<1>3. ~PruneNext BY PruneFrame
<1>4. RevokeNext BY <1>1, <1>2, <1>3 DEF Next, vars, RunNext
<1>5. ASSUME NEW v \in Revokers, RevokeReport(v) \/ RevokeCrash(v) PROVE FALSE
  BY <1>5 DEF RevokeReport, RevokeCrash
<1>6. ~AdvanceEpoch BY DEF AdvanceEpoch
<1>7. PICK v \in Revokers: \E q \in Runs: RevokeStep(v, q)
  BY <1>4, <1>5, <1>6 DEF RevokeNext, RevokeAll, RevokeOne, RevokeNothing
<1>8. PICK q \in Runs: RevokeStep(v, q) BY <1>7
<1>9. RevokeDelete(v, q)
  BY <1>8, Zenon DEF RevokeStep, RevokeNearExpiry, RevokeWithoutAuthority, RevokeRemotely
<1>10. PICK result \in {"Deleted", "Missing", "Changed", "SyncFailed", "Error"}:
          /\ DeleteExact(q, vsnap[v][q], result)
          /\ localOnly' = IF result \in {"Deleted", "SyncFailed"}
                             /\ vintent[v] # "RemotelyInactive"
                          THEN localOnly \union {q}
                          ELSE localOnly
  BY <1>9, Zenon DEF RevokeDelete
<1>11. r = q /\ result \in {"Deleted", "SyncFailed"} BY <1>10
<1>12. q \in vcur[v] BY <1>9 DEF RevokeDelete
<1>13. Present(cache[q]) /\ cache' = [cache EXCEPT ![q] = NoRecord]
  BY <1>10, <1>11 DEF DeleteExact
<1> QED BY <1>11, <1>12, <1>13 DEF Present, NoRecord

\* Only a wrapper that has committed its record changes its command from none.
LEMMA ChildAppears ==
    ASSUME TypeOK, [Next]_vars, NEW r \in Runs, child[r] = "none", child'[r] # "none"
    PROVE  pc[r] \in {"spawn", "stop"} /\ pc'[r] # pc[r]
<1> USE DEF TypeOK, StoreTypeOK, RunTypeOK, sharedVars, storeVars, worldVars
<1>1. ~EnvNext BY DEF EnvNext, Tick, CommitBase, RemoveBase, ChildExit
<1>2. ~PruneNext BY PruneFrame
<1>3. ~RevokeNext BY RevokeFrame
<1>4. PICK q \in Runs: WrapperStep(q) \/ Crash(q)
  BY <1>1, <1>2, <1>3 DEF Next, RunNext, vars
<1>5. CASE Issue(q)
  BY <1>5 DEF Issue, ReadBase, TakeGuard, Mint, MintFails, MintAnswerLost, CommitPending,
              Discard
<1>6. CASE Execute(q)
  BY <1>6 DEF Execute, Spawn, SpawnFails, StartForwarding, Activate, TerminateAndWait,
              WaitChild, WaitFails, Goto
<1>7. CASE Cleanup(q) BY <1>7 DEF Cleanup, Abort, Finish, CleanupRevoke, CleanupDelete
<1> QED BY <1>4, <1>5, <1>6, <1>7 DEF WrapperStep, Crash

-----------------------------------------------------------------------------
(***************************************************************************)
(* Each conjunct of the invariant survives a step.                         *)
(***************************************************************************)
LEMMA FreshUnknownStep == ASSUME LeaseInv, [Next]_vars PROVE FreshUnknown'
<1> USE DEF LeaseInv
<1> SUFFICES ASSUME NEW r \in Runs, pc'[r] \in Fresh
             PROVE  /\ ~Present(cache'[r]) /\ child'[r] = "none" /\ r \notin localOnly'
                    /\ \A p \in Pruners:
                          r \notin ptodo'[p] \union pcur'[p] /\ ~Present(psnap'[p][r])
                    /\ \A v \in Revokers: r \notin vtodo'[v] \union vcur'[v]
    BY DEF FreshUnknown
<1>1. pc[r] \in Fresh BY StepMonotone DEF Monotone
<1>2. /\ ~Present(cache[r]) /\ child[r] = "none" /\ r \notin localOnly
      /\ \A p \in Pruners: r \notin ptodo[p] \union pcur[p] /\ ~Present(psnap[p][r])
      /\ \A v \in Revokers: r \notin vtodo[v] \union vcur[v]
  BY <1>1 DEF FreshUnknown
<1>3. ~Present(cache'[r]) BY <1>2, RecordAppears DEF Fresh
<1>4. child'[r] = "none" BY <1>1, <1>2, ChildAppears DEF Fresh
<1>5. r \notin localOnly' BY <1>2, LocalOnlyGrows
<1>6. ASSUME NEW p \in Pruners
      PROVE  r \notin ptodo'[p] \union pcur'[p] /\ ~Present(psnap'[p][r])
  BY <1>2, PruneLists
<1>7. ASSUME NEW v \in Revokers PROVE r \notin vtodo'[v] \union vcur'[v]
  BY <1>2, RevokeLists
<1> QED BY <1>3, <1>4, <1>5, <1>6, <1>7

\* A token that was not minted yet is minted by its own wrapper.
LEMMA TokenAppears ==
    ASSUME TypeOK, [Next]_vars, NEW r \in Runs, remote[r] = "none", remote'[r] # "none"
    PROVE  pc[r] = "mint" /\ pc'[r] \in {"commit", "discard", "gone"}
<1> USE DEF TypeOK, StoreTypeOK, RunTypeOK, sharedVars, storeVars, worldVars, DeleteToken, Active
<1>1. ~EnvNext BY DEF EnvNext, Tick, CommitBase, RemoveBase, ChildExit
<1>2. ~PruneNext
  <2>1. ASSUME NEW p \in Pruners, PruneInspect(p) \/ PruneEnd(p) PROVE FALSE
    BY <2>1 DEF PruneInspect, PruneEnd
  <2>2. ASSUME NEW p \in Pruners, NEW q \in Runs, PruneStep(p, q) PROVE FALSE
    <3>1. CASE PruneRevoke(p, q) BY <3>1 DEF PruneRevoke
    <3>2. CASE ~PruneRevoke(p, q)
      <4>1. UNCHANGED remote
        BY <2>2, <3>2, Zenon DEF PruneStep, PruneExpired, PruneSkip, PruneClaim, PruneMarked,
                                 PruneDelete
      <4> QED BY <4>1
    <3> QED BY <3>1, <3>2
  <2> QED BY <2>1, <2>2 DEF PruneNext
<1>3. ~RevokeNext
  <2>1. ASSUME NEW v \in Revokers, NEW q \in Runs, RevokeStep(v, q) PROVE FALSE
    <3>1. CASE RevokeRemotely(v, q) BY <3>1 DEF RevokeRemotely
    <3>2. CASE ~RevokeRemotely(v, q)
      <4>1. UNCHANGED remote
        BY <2>1, <3>2, Zenon DEF RevokeStep, RevokeNearExpiry, RevokeWithoutAuthority,
                                 RevokeDelete
      <4> QED BY <4>1
    <3> QED BY <3>1, <3>2
  <2>2. ASSUME NEW v \in Revokers, RevokeReport(v) \/ RevokeCrash(v) PROVE FALSE
    BY <2>2 DEF RevokeReport, RevokeCrash
  <2>3. ~AdvanceEpoch BY DEF AdvanceEpoch
  <2> QED BY <2>1, <2>2, <2>3 DEF RevokeNext, RevokeAll, RevokeOne, RevokeNothing
<1>4. PICK q \in Runs: WrapperStep(q) \/ Crash(q)
  BY <1>1, <1>2, <1>3 DEF Next, RunNext, vars
<1>5. CASE Issue(q)
  <2>1. CASE Mint(q) BY <2>1 DEF Mint, Goto
  <2>2. CASE MintAnswerLost(q) BY <2>2 DEF MintAnswerLost, Return
  <2>3. CASE Discard(q) BY <2>3 DEF Discard
  <2>4. CASE ReadBase(q) \/ TakeGuard(q) \/ MintFails(q) \/ CommitPending(q)
    BY <2>4 DEF ReadBase, TakeGuard, MintFails, CommitPending
  <2> QED BY <1>5, <2>1, <2>2, <2>3, <2>4 DEF Issue
<1>6. CASE Execute(q)
  BY <1>6 DEF Execute, Spawn, SpawnFails, StartForwarding, Activate, TerminateAndWait,
              WaitChild, WaitFails
<1>7. CASE Cleanup(q) BY <1>7 DEF Cleanup, Abort, Finish, CleanupRevoke, CleanupDelete
<1>8. CASE Crash(q) BY <1>8 DEF Crash
<1> QED BY <1>4, <1>5, <1>6, <1>7, <1>8 DEF WrapperStep

\* A wrapper's next call, and its report, which comes with its last one.
LEMMA WrapperFlow ==
    ASSUME TypeOK, NEW r \in Runs, WrapperStep(r) \/ Crash(r)
    PROVE  /\ pc[r] # "gone"
           /\ outcome'[r] = outcome[r] \/ pc'[r] = "gone"
           /\ pc'[r] \in {"readBase", "guard"} => pc[r] = "readBase"
           /\ pc'[r] = "mint" => pc[r] = "guard"
           /\ pc'[r] = "commit" => pc[r] = "mint"
           /\ pc'[r] = "discard" => pc[r] \in {"mint", "commit"}
           /\ pc[r] \in {"readBase", "guard"} => pc'[r] \in {"guard", "mint", "gone"}
<1> USE DEF TypeOK, RunTypeOK, Goto, Return
<1>1. CASE Issue(r)
  BY <1>1 DEF Issue, ReadBase, TakeGuard, Mint, MintFails, MintAnswerLost, CommitPending,
              Discard
<1>2. CASE Execute(r)
  BY <1>2 DEF Execute, Spawn, SpawnFails, StartForwarding, Activate, TerminateAndWait,
              WaitChild, WaitFails
<1>3. CASE Cleanup(r) BY <1>3 DEF Cleanup, Abort, Finish, Marked, CleanupRevoke, CleanupDelete
<1>4. CASE Crash(r) BY <1>4 DEF Crash
<1> QED BY <1>1, <1>2, <1>3, <1>4 DEF WrapperStep

LEMMA NotYetStep == ASSUME LeaseInv, [Next]_vars PROVE NotYet'
<1> USE DEF LeaseInv, NotYet
<1> SUFFICES ASSUME NEW r \in Runs
             PROVE  /\ pc'[r] \in {"readBase", "guard", "mint"} => remote'[r] = "none"
                    /\ pc'[r] # "gone" => outcome'[r] = "none"
    OBVIOUS
<1>1. CASE UNCHANGED WrapperLocal(r) BY <1>1, TokenAppears DEF WrapperLocal
<1>2. CASE WrapperStep(r) \/ Crash(r) BY <1>2, TokenAppears, WrapperFlow
<1> QED BY <1>1, <1>2, WrapperMoves

\* GitHub does not forget a token.
LEMMA TokenStays ==
    ASSUME TypeOK, [Next]_vars, NEW r \in Runs, remote'[r] = "none" PROVE remote[r] = "none"
<1> USE DEF TypeOK, StoreTypeOK, sharedVars, storeVars, worldVars, DeleteToken
<1>1. CASE EnvNext BY <1>1 DEF EnvNext, Tick, CommitBase, RemoveBase, ChildExit
<1>2. ASSUME NEW q \in Runs, WrapperStep(q) \/ Crash(q) PROVE remote[r] = "none"
  <2>1. CASE Issue(q)
    BY <2>1 DEF Issue, ReadBase, TakeGuard, Mint, MintFails, MintAnswerLost, CommitPending,
                Discard
  <2>2. CASE Execute(q)
    BY <2>2 DEF Execute, Spawn, SpawnFails, StartForwarding, Activate, TerminateAndWait,
                WaitChild, WaitFails
  <2>3. CASE Cleanup(q) BY <2>3 DEF Cleanup, Abort, Finish, CleanupRevoke, CleanupDelete
  <2> QED BY <1>2, <2>1, <2>2, <2>3 DEF WrapperStep, Crash
<1>3. ASSUME NEW p \in Pruners, NEW q \in Runs, PruneStep(p, q) PROVE remote[r] = "none"
  <2>1. CASE PruneRevoke(p, q) BY <2>1 DEF PruneRevoke
  <2>2. CASE ~PruneRevoke(p, q)
    <3>1. UNCHANGED remote
      BY <1>3, <2>2, Zenon DEF PruneStep, PruneExpired, PruneSkip, PruneClaim, PruneMarked,
                               PruneDelete
    <3> QED BY <3>1
  <2> QED BY <2>1, <2>2
<1>4. ASSUME NEW v \in Revokers, NEW q \in Runs, RevokeStep(v, q) PROVE remote[r] = "none"
  <2>1. CASE RevokeRemotely(v, q) BY <2>1 DEF RevokeRemotely
  <2>2. CASE ~RevokeRemotely(v, q)
    <3>1. UNCHANGED remote
      BY <1>4, <2>2, Zenon DEF RevokeStep, RevokeNearExpiry, RevokeWithoutAuthority,
                               RevokeDelete
    <3> QED BY <3>1
  <2> QED BY <2>1, <2>2
<1>5. PruneNext => remote[r] = "none" BY <1>3 DEF PruneNext, PruneInspect, PruneEnd
<1>6. RevokeNext => remote[r] = "none"
  BY <1>4 DEF RevokeNext, RevokeAll, RevokeOne, RevokeNothing, RevokeReport, RevokeCrash,
              AdvanceEpoch
<1> QED BY <1>1, <1>2, <1>5, <1>6 DEF Next, RunNext, vars

LEMMA UnderwayStep == ASSUME LeaseInv, [Next]_vars PROVE Underway'
<1> USE DEF LeaseInv, Underway
<1>1. ASSUME NEW r \in Runs, pc'[r] \notin {"readBase", "guard", "mint", "gone"},
             remote'[r] = "none"
      PROVE  FALSE
  <2>1. remote[r] = "none" BY <1>1, TokenStays
  <2>2. pc[r] \in {"readBase", "guard", "mint", "gone"} BY <2>1
  <2>3. ~UNCHANGED WrapperLocal(r) BY <1>1, <2>2 DEF WrapperLocal
  <2>4. WrapperStep(r) \/ Crash(r) BY <2>3, WrapperMoves
  <2>5. pc[r] = "mint" BY <1>1, <2>2, <2>4, WrapperFlow
  <2>6. Mint(r) \/ MintFails(r) \/ MintAnswerLost(r) \/ Crash(r)
    BY <2>4, <2>5 DEF WrapperStep, Issue, Execute, Cleanup, ReadBase, TakeGuard, CommitPending,
       Discard, Spawn, SpawnFails, StartForwarding, Activate, TerminateAndWait, WaitChild,
       WaitFails, Abort, Finish, CleanupRevoke, CleanupDelete
  <2> QED BY <1>1, <2>6 DEF Mint, MintFails, MintAnswerLost, Crash, Return, TypeOK, StoreTypeOK,
                            RunTypeOK
<1>2. ASSUME NEW r \in Runs, pc'[r] = "discard" PROVE child'[r] = "none"
  <2>1. pc[r] \in {"mint", "commit", "discard"}
    <3>1. CASE UNCHANGED WrapperLocal(r) BY <1>2, <3>1 DEF WrapperLocal
    <3>2. CASE WrapperStep(r) \/ Crash(r) BY <1>2, <3>2, WrapperFlow
    <3> QED BY <3>1, <3>2, WrapperMoves
  <2>2. child[r] = "none" BY <2>1 DEF FreshUnknown, Fresh
  <2> QED BY <2>1, <2>2, ChildAppears
<1> QED BY <1>1, <1>2

LEMMA OneAtATimeStep == ASSUME LeaseInv, [Next]_vars PROVE OneAtATime'
<1> USE DEF LeaseInv, OneAtATime, TypeOK
<1>1. ASSUME NEW p \in Pruners PROVE \A q, r \in pcur'[p]: q = r
  <2>1. pcur'[p] = pcur[p] \/ \E q \in Runs: pcur'[p] \subseteq {q}
    <3> USE DEF PruneTypeOK
    <3>1. CASE UNCHANGED PruneLocal(p) BY <3>1 DEF PruneLocal
    <3>2. CASE PruneInspect(p) BY <3>2 DEF PruneInspect
    <3>3. CASE PruneEnd(p)
      <4>1. pcur'[p] = {} BY <3>3 DEF PruneEnd
      <4> QED BY <4>1
    <3>4. ASSUME NEW q \in Runs, PruneStep(p, q)
          PROVE  pcur'[p] = pcur[p] \/ pcur'[p] \subseteq {q}
      <4> USE <3>4 DEF StartCleanup
      <4>1. CASE PruneExpired(p, q) \/ PruneSkip(p, q) BY <4>1 DEF PruneExpired, PruneSkip
      <4>2. CASE PruneClaim(p, q) BY <4>2 DEF PruneClaim
      <4>3. CASE PruneMarked(p, q) BY <4>3 DEF PruneMarked
      <4>4. CASE PruneRevoke(p, q) BY <4>4 DEF PruneRevoke
      <4>5. CASE PruneDelete(p, q) BY <4>5 DEF PruneDelete
      <4> QED BY <4>1, <4>2, <4>3, <4>4, <4>5 DEF PruneStep
    <3> QED BY <3>1, <3>2, <3>3, <3>4, PruneMoves
  <2> QED BY <2>1
<1>2. ASSUME NEW v \in Revokers, vpc'[v] = "done" PROVE vtodo'[v] = {}
  <2> USE <1>2 DEF RevokeTypeOK
  <2>1. CASE UNCHANGED RevokeLocal(v) BY <2>1 DEF RevokeLocal
  <2>2. CASE RevokeAll(v) BY <2>2 DEF RevokeAll, Select
  <2>3. CASE RevokeReport(v) \/ RevokeCrash(v) BY <2>3 DEF RevokeReport, RevokeCrash
  <2>4. ASSUME NEW q \in Runs, RevokeOne(v, q) PROVE FALSE BY <2>4 DEF RevokeOne, Select
  <2>5. ASSUME NEW q \in Runs, RevokeStep(v, q) PROVE FALSE
    BY <2>5 DEF RevokeStep, RevokeNearExpiry, RevokeWithoutAuthority, RevokeRemotely,
                RevokeDelete, StartDeletion
  <2> QED BY <2>1, <2>2, <2>3, <2>4, <2>5, RevokeMoves
<1> QED BY <1>1, <1>2

LEMMA ClocksBehindStep == ASSUME LeaseInv, [Next]_vars PROVE ClocksBehind'
<1> USE NextType DEF LeaseInv, ClocksBehind, TypeOK, StoreTypeOK
<1>1. clock' >= clock BY TimePasses
<1>2. ASSUME NEW p \in Pruners PROVE pnow'[p] <= clock'
  <2> USE DEF PruneTypeOK
  <2>1. CASE UNCHANGED PruneLocal(p) BY <1>1, <2>1 DEF PruneLocal
  <2>2. CASE PruneInspect(p) BY <1>1, <2>2 DEF PruneInspect
  <2>3. CASE PruneEnd(p) BY <2>3 DEF PruneEnd
  <2>4. ASSUME NEW q \in Runs, PruneStep(p, q) PROVE pnow' = pnow
    BY <2>4, Zenon DEF PruneStep, PruneExpired, PruneSkip, PruneClaim, PruneMarked,
                       PruneRevoke, PruneDelete
  <2> QED BY <1>1, <2>1, <2>2, <2>3, <2>4, PruneMoves
<1>3. ASSUME NEW v \in Revokers PROVE vnow'[v] <= clock'
  <2> USE DEF RevokeTypeOK
  <2>1. CASE UNCHANGED RevokeLocal(v) BY <1>1, <2>1 DEF RevokeLocal
  <2>2. CASE RevokeAll(v) BY <1>1, <2>2 DEF RevokeAll, Select
  <2>3. CASE RevokeReport(v) \/ RevokeCrash(v) BY <2>3 DEF RevokeReport, RevokeCrash
  <2>4. ASSUME NEW q \in Runs, RevokeOne(v, q) PROVE vnow'[v] <= clock'
    BY <1>1, <2>4 DEF RevokeOne, Select
  <2>5. ASSUME NEW q \in Runs, RevokeStep(v, q) PROVE vnow' = vnow
    BY <2>5, Zenon DEF RevokeStep, RevokeNearExpiry, RevokeWithoutAuthority, RevokeRemotely,
                       RevokeDelete
  <2> QED BY <1>1, <2>1, <2>2, <2>3, <2>4, <2>5, RevokeMoves
<1> QED BY <1>2, <1>3

\* A token that GitHub confirmed to be inactive does not work.
LEMMA ConfirmedInactive ==
    ASSUME TypeOK, NEW r \in Runs, NEW answer \in {"Ok", "NotFound"}, DeleteToken(r, answer),
           UNCHANGED <<clock, expires>>
    PROVE  ~Active(r)'
BY DeleteTokenFrame DEF TypeOK, StoreTypeOK, Active, Expired

LEMMA DeletersKnowStep == ASSUME LeaseInv, [Next]_vars PROVE DeletersKnow'
<1> USE DEF LeaseInv, DeletersKnow
<1>1. ASSUME NEW r \in Runs, pc'[r] = "delete" PROVE ~Active(r)'
  <2> USE <1>1
  <2>1. CASE UNCHANGED WrapperLocal(r) BY <2>1, InactiveStays DEF WrapperLocal
  <2>2. CASE CleanupRevoke(r)
    <3>1. CASE DeleteToken(r, "Error") /\ Return(r, "incomplete")
      BY <3>1 DEF Return, TypeOK, RunTypeOK
    <3>2. CASE \E answer \in {"Ok", "NotFound"}: DeleteToken(r, answer)
      BY <2>2, <3>2, ConfirmedInactive DEF CleanupRevoke
    <3> QED BY <2>2, <3>1, <3>2 DEF CleanupRevoke
  <2>3. CASE (WrapperStep(r) \/ Crash(r)) /\ ~CleanupRevoke(r)
    <3> USE DEF TypeOK, RunTypeOK, Goto, Return
    <3>1. CASE Issue(r)
      BY <3>1 DEF Issue, ReadBase, TakeGuard, Mint, MintFails, MintAnswerLost, CommitPending,
                  Discard
    <3>2. CASE Execute(r)
      BY <3>2 DEF Execute, Spawn, SpawnFails, StartForwarding, Activate, TerminateAndWait,
                  WaitChild, WaitFails
    <3>3. CASE Cleanup(r) BY <2>3, <3>3 DEF Cleanup, Abort, Finish, Marked, CleanupDelete
    <3>4. CASE Crash(r) BY <3>4 DEF Crash
    <3> QED BY <2>3, <3>1, <3>2, <3>3, <3>4 DEF WrapperStep
  <2> QED BY <2>1, <2>2, <2>3, WrapperMoves
<1>2. ASSUME NEW p \in Pruners, NEW r \in Runs, ppc'[p] = "delete", r \in pcur'[p]
      PROVE  ~Active(r)'
  <2> USE <1>2 DEF TypeOK, PruneTypeOK
  <2>1. CASE UNCHANGED PruneLocal(p)
    BY <2>1, InactiveStays DEF PruneLocal, FreshUnknown, Fresh
  <2>2. CASE PruneInspect(p) \/ PruneEnd(p) BY <2>2 DEF PruneInspect, PruneEnd
  <2>3. ASSUME NEW q \in Runs, PruneStep(p, q) PROVE ~Active(r)'
    <3>1. CASE PruneRevoke(p, q)
      <4>1. PICK answer \in {"Ok", "NotFound"}: DeleteToken(q, answer) /\ UNCHANGED pcur
        BY <3>1 DEF PruneRevoke
      <4>2. r = q BY <3>1, <4>1 DEF PruneRevoke, OneAtATime
      <4> QED BY <3>1, <4>1, <4>2, ConfirmedInactive DEF PruneRevoke
    <3>2. CASE ~PruneRevoke(p, q)
      BY <2>3, <3>2 DEF PruneStep, PruneExpired, PruneSkip, PruneClaim, PruneMarked,
                        PruneDelete, StartCleanup
    <3> QED BY <3>1, <3>2
  <2> QED BY <2>1, <2>2, <2>3, PruneMoves
<1>3. ASSUME NEW v \in Revokers, NEW r \in Runs, vpc'[v] = "delete", r \in vcur'[v],
             vintent'[v] = "RemotelyInactive"
      PROVE  ~Active(r)'
  <2> USE <1>3 DEF TypeOK, RevokeTypeOK
  <2>1. CASE UNCHANGED RevokeLocal(v)
    BY <2>1, InactiveStays DEF RevokeLocal, FreshUnknown, Fresh
  <2>2. CASE RevokeAll(v) \/ RevokeReport(v) \/ RevokeCrash(v)
    BY <2>2 DEF RevokeAll, Select, RevokeReport, RevokeCrash
  <2>3. ASSUME NEW q \in Runs, RevokeOne(v, q) PROVE FALSE BY <2>3 DEF RevokeOne, Select
  <2>4. ASSUME NEW q \in Runs, RevokeStep(v, q) PROVE ~Active(r)'
    <3>1. CASE RevokeRemotely(v, q)
      <4>1. PICK answer \in {"Ok", "NotFound"}:
              DeleteToken(q, answer) /\ StartDeletion(v, q, "RemotelyInactive")
        BY <3>1 DEF RevokeRemotely
      <4>2. r = q BY <4>1 DEF StartDeletion
      <4> QED BY <3>1, <4>1, <4>2, ConfirmedInactive DEF RevokeRemotely
    <3>2. CASE ~RevokeRemotely(v, q)
      BY <2>4, <3>2 DEF RevokeStep, RevokeNearExpiry, RevokeWithoutAuthority, RevokeDelete,
                        StartDeletion
    <3> QED BY <3>1, <3>2
  <2> QED BY <2>1, <2>2, <2>3, <2>4, RevokeMoves
<1> QED BY <1>1, <1>2, <1>3

\* A record is deleted only when its token does not work any more, or by a
\* revoke that tells so.
LEMMA DeletionSafe ==
    ASSUME LeaseInv, [Next]_vars, NEW r \in Runs, Present(cache[r]), ~Present(cache'[r])
    PROVE  ~Active(r)' \/ r \in localOnly'
<1> USE DEF LeaseInv, TypeOK, StoreTypeOK, RunTypeOK, sharedVars, storeVars, worldVars
<1>1. cache' # cache OBVIOUS
<1>2. pc[r] # "mint" BY DEF FreshUnknown, Fresh
<1>3. ~EnvNext BY <1>1 DEF EnvNext, Tick, CommitBase, RemoveBase, ChildExit
<1>4. ASSUME NEW q \in Runs, WrapperStep(q) \/ Crash(q) PROVE ~Active(r)'
  <2>1. CASE CommitPending(q) BY <2>1 DEF CommitPending, Publish, Present
  <2>2. CASE Activate(q) BY <2>2, UpdateRunFrame, TransitionFacts DEF Activate
  <2>3. CASE Abort(q) BY <2>3, UpdateRunFrame, TransitionFacts DEF Abort
  <2>4. CASE Finish(q) BY <2>4, UpdateRunFrame, TransitionFacts DEF Finish
  <2>5. CASE CleanupDelete(q)
    <3>1. r = q BY <2>5, DeleteCleanupPendingFrame DEF CleanupDelete
    <3> QED BY <1>2, <2>5, <3>1, InactiveStays DEF CleanupDelete, DeletersKnow
  <2>6. CASE Issue(q) /\ ~CommitPending(q)
    BY <1>1, <2>6 DEF Issue, ReadBase, TakeGuard, Mint, MintFails, MintAnswerLost, Discard
  <2>7. CASE Execute(q) /\ ~Activate(q)
    BY <1>1, <2>7 DEF Execute, Spawn, SpawnFails, StartForwarding, TerminateAndWait, WaitChild,
                      WaitFails
  <2>8. CASE CleanupRevoke(q) \/ Crash(q) BY <1>1, <2>8 DEF CleanupRevoke, Crash
  <2> QED BY <1>4, <2>1, <2>2, <2>3, <2>4, <2>5, <2>6, <2>7, <2>8 DEF WrapperStep, Cleanup
<1>5. ASSUME NEW p \in Pruners, PruneInspect(p) \/ PruneEnd(p) PROVE FALSE
  BY <1>1, <1>5 DEF PruneInspect, PruneEnd
<1>6. ASSUME NEW p \in Pruners, NEW q \in Runs, PruneStep(p, q) PROVE ~Active(r)'
  <2> USE DEF PruneTypeOK
  <2>1. CASE PruneExpired(p, q)
    <3>1. PICK result: DeleteExact(q, psnap[p][q], result) BY <2>1 DEF PruneExpired
    <3>2. r = q BY <3>1, DeleteExactFrame
    <3>3. ~Active(r) BY <2>1, <3>2 DEF PruneExpired, ClocksBehind, Active, Expired
    <3> QED BY <1>2, <3>3, InactiveStays
  <2>2. CASE PruneSkip(p, q) \/ PruneMarked(p, q) \/ PruneRevoke(p, q)
    BY <1>1, <2>2, Zenon DEF PruneSkip, PruneMarked, PruneRevoke
  <2>3. CASE PruneClaim(p, q)
    <3>1. PICK ok: UpdateRun(q, CanClaim(cache[q], psnap[p][q]), Claimed(cache[q]), ok)
      BY <2>3 DEF PruneClaim
    <3>2. CASE cache' = [cache EXCEPT ![q] = Claimed(cache[q])]
      <4>1. r = q BY <3>2
      <4>2. Present(Claimed(cache[r])) BY TransitionFacts DEF Present
      <4> QED BY <3>2, <4>1, <4>2
    <3>3. CASE UNCHANGED cache BY <1>1, <3>3
    <3> QED BY <3>1, <3>2, <3>3 DEF UpdateRun, Publish
  <2>4. CASE PruneDelete(p, q)
    <3>1. r = q BY <2>4, DeleteCleanupPendingFrame DEF PruneDelete
    <3>2. ~Active(r) BY <2>4, <3>1 DEF PruneDelete, DeletersKnow
    <3> QED BY <1>2, <3>2, InactiveStays
  <2> QED BY <1>6, <2>1, <2>2, <2>3, <2>4 DEF PruneStep
<1>7. ASSUME NEW v \in Revokers, NEW q \in Runs, RevokeStep(v, q)
      PROVE  ~Active(r)' \/ r \in localOnly'
  <2> USE DEF RevokeTypeOK
  <2>1. CASE RevokeDelete(v, q)
    <3>1. PICK result \in {"Deleted", "Missing", "Changed", "SyncFailed", "Error"}:
            /\ DeleteExact(q, vsnap[v][q], result)
            /\ localOnly' = IF result \in {"Deleted", "SyncFailed"}
                               /\ vintent[v] # "RemotelyInactive"
                            THEN localOnly \union {q}
                            ELSE localOnly
      BY <2>1, Zenon DEF RevokeDelete
    <3>2. r = q BY <3>1, DeleteExactFrame
    <3>3. result \in {"Deleted", "SyncFailed"} BY <1>1, <3>1, DeleteExactFrame
    <3>4. CASE vintent[v] = "RemotelyInactive"
      <4>1. ~Active(r) BY <2>1, <3>2, <3>4 DEF RevokeDelete, DeletersKnow
      <4> QED BY <1>2, <4>1, InactiveStays
    <3>5. CASE vintent[v] # "RemotelyInactive" BY <3>1, <3>2, <3>3, <3>5
    <3> QED BY <3>4, <3>5
  <2>2. CASE ~RevokeDelete(v, q)
    BY <1>1, <1>7, <2>2, Zenon DEF RevokeStep, RevokeNearExpiry, RevokeWithoutAuthority,
                                   RevokeRemotely
  <2> QED BY <2>1, <2>2
<1>8. ASSUME NEW v \in Revokers, RevokeReport(v) \/ RevokeCrash(v) PROVE FALSE
  BY <1>1, <1>8 DEF RevokeReport, RevokeCrash
<1>9. ~AdvanceEpoch BY <1>1 DEF AdvanceEpoch
<1> QED BY <1>1, <1>3, <1>4, <1>5, <1>6, <1>7, <1>8, <1>9
           DEF Next, vars, RunNext, PruneNext, RevokeNext, RevokeAll, RevokeOne, RevokeNothing

\* A run is committed by its commit only, which leaves its record.
LEMMA CommitStep ==
    ASSUME LeaseInv, [Next]_vars, NEW r \in Runs, Committed(r)', ~Committed(r)
    PROVE  /\ pc[r] = "commit" /\ guard[r] = epoch
           /\ Present(cache'[r]) /\ UNCHANGED <<guard, revokeVars>>
<1> USE DEF LeaseInv, TypeOK, StoreTypeOK, RunTypeOK, Committed
<1>1. child'[r] = "none" BY ChildAppears DEF Fresh
<1>2. pc'[r] \notin Fresh \union {"discard", "gone"} BY <1>1
<1>3. ~UNCHANGED WrapperLocal(r) BY <1>2 DEF WrapperLocal
<1>4. (WrapperStep(r) \/ Crash(r)) /\ ByRun BY <1>3, WrapperMoves
<1>5. CommitPending(r)
  BY <1>2, <1>4 DEF WrapperStep, Issue, Execute, Cleanup, Crash, Fresh, Goto, Return, ReadBase,
     TakeGuard, Mint, MintFails, MintAnswerLost, Discard, Spawn, SpawnFails, StartForwarding,
     Activate, TerminateAndWait, WaitChild, WaitFails, Abort, Finish, CleanupRevoke,
     CleanupDelete
<1>6. pc'[r] = "spawn" => IssuanceCurrent(r) /\ Present(cache'[r])
  BY <1>5 DEF CommitPending, Goto, Publish, Present
<1>7. pc'[r] \in {"spawn", "discard"} BY <1>5 DEF CommitPending, Goto
<1> QED BY <1>2, <1>4, <1>5, <1>6, <1>7 DEF CommitPending, IssuanceCurrent, ByRun, revokeVars

-----------------------------------------------------------------------------
LEMMA CommittedRecoverableStep == ASSUME LeaseInv, [Next]_vars PROVE CommittedRecoverable'
<1> USE DEF LeaseInv
<1> SUFFICES ASSUME NEW r \in Runs, Committed(r)', Active(r)'
             PROVE  Present(cache'[r]) \/ r \in localOnly'
    BY DEF CommittedRecoverable, Recoverable
<1>1. CASE ~Committed(r) BY <1>1, CommitStep
<1>2. CASE Committed(r)
  <2>1. pc[r] # "mint" BY <1>2 DEF Committed, FreshUnknown, Fresh
  <2>2. Active(r) BY <2>1, InactiveStays
  <2>3. Present(cache[r]) \/ r \in localOnly
    BY <1>2, <2>2 DEF CommittedRecoverable, Recoverable
  <2>4. CASE r \in localOnly BY <2>4, StepMonotone DEF Monotone
  <2>5. CASE Present(cache[r]) BY <2>5, DeletionSafe
  <2> QED BY <2>3, <2>4, <2>5
<1> QED BY <1>1, <1>2

\* What does not work, or was told to be deleted locally, stays so.
LEMMA DealtWithStays ==
    ASSUME LeaseInv, [Next]_vars, NEW r \in Runs, Committed(r), ~Active(r) \/ r \in localOnly
    PROVE  ~Active(r)' \/ r \in localOnly'
<1> USE DEF LeaseInv
<1>1. pc[r] # "mint" BY DEF Committed, FreshUnknown, Fresh
<1> QED BY <1>1, InactiveStays, StepMonotone DEF Monotone

LEMMA CleanRevokeProgressStep == ASSUME LeaseInv, [Next]_vars PROVE CleanRevokeProgress'
<1> USE DEF LeaseInv, TypeOK, StoreTypeOK, RunTypeOK, RevokeTypeOK
<1> SUFFICES ASSUME NEW v \in Revokers, NEW r \in Runs, vpc'[v] # "idle", vclean'[v],
                    guard'[r] < vepoch'[v], Committed(r)'
             PROVE  ~Active(r)' \/ r \in localOnly' \/ r \in vtodo'[v]
    BY DEF CleanRevokeProgress
<1>1. CASE ~Committed(r)
  <2>1. guard[r] = epoch /\ UNCHANGED <<guard, vepoch>> BY <1>1, CommitStep DEF revokeVars
  <2> QED BY <2>1 DEF RevokeEpochs
<1>2. CASE Committed(r)
  <2>1. pc[r] # "mint" /\ pc[r] # "guard" BY <1>2 DEF Committed, FreshUnknown, Fresh
  <2>2. guard'[r] = guard[r] BY <2>1, StepMonotone DEF Monotone
  <2>3. CASE vpc[v] # "idle" /\ vclean[v] /\ guard[r] < vepoch[v] /\ vtodo'[v] = vtodo[v]
    <3>1. ~Active(r) \/ r \in localOnly \/ r \in vtodo[v]
      BY <1>2, <2>3 DEF CleanRevokeProgress
    <3> QED BY <1>2, <2>3, <3>1, DealtWithStays
  <2>4. CASE UNCHANGED RevokeLocal(v) BY <2>2, <2>3, <2>4 DEF RevokeLocal
  <2>5. CASE RevokeAll(v)
    <3>1. vtodo'[v] = {q \in Runs: Present(cache[q])} BY <2>5 DEF RevokeAll, Select
    <3>2. ~Active(r) \/ r \in localOnly \/ Present(cache[r])
      BY <1>2 DEF CommittedRecoverable, Recoverable
    <3> QED BY <1>2, <3>1, <3>2, DealtWithStays
  <2>6. CASE RevokeReport(v) BY <2>2, <2>3, <2>6 DEF RevokeReport
  <2>7. CASE RevokeCrash(v) BY <2>7 DEF RevokeCrash
  <2>8. ASSUME NEW q \in Runs, RevokeOne(v, q) PROVE FALSE BY <2>2, <2>8 DEF RevokeOne
  <2>9. ASSUME NEW q \in Runs, RevokeStep(v, q)
        PROVE  ~Active(r)' \/ r \in localOnly' \/ r \in vtodo'[v]
    <3>1. CASE RevokeNearExpiry(v, q) \/ RevokeWithoutAuthority(v, q)
      BY <2>2, <2>3, <3>1 DEF RevokeNearExpiry, RevokeWithoutAuthority, StartDeletion
    <3>2. CASE RevokeRemotely(v, q)
      <4>1. CASE StartDeletion(v, q, "RemotelyInactive")
        BY <2>2, <2>3, <3>2, <4>1 DEF RevokeRemotely, StartDeletion
      <4>2. CASE Finalized(v, q, FALSE) BY <4>2 DEF Finalized
      <4> QED BY <3>2, <4>1, <4>2 DEF RevokeRemotely
    <3>3. CASE RevokeDelete(v, q)
      <4>1. PICK result \in {"Deleted", "Missing", "Changed", "SyncFailed", "Error"}:
              /\ Finalized(v, q, result = "Deleted" /\ vintent[v] # "LocalOnly")
              /\ localOnly' = IF result \in {"Deleted", "SyncFailed"}
                                 /\ vintent[v] # "RemotelyInactive"
                              THEN localOnly \union {q}
                              ELSE localOnly
        BY <3>3, Zenon DEF RevokeDelete
      <4>2. vpc[v] = "delete" /\ q \in vcur[v] /\ UNCHANGED vepoch BY <3>3 DEF RevokeDelete
      <4>3. vclean[v] /\ result = "Deleted" /\ vtodo'[v] = vtodo[v] \ {q}
        BY <4>1 DEF Finalized
      <4>4. ~Active(r) \/ r \in localOnly \/ r \in vtodo[v]
        BY <1>2, <2>2, <4>2, <4>3 DEF CleanRevokeProgress
      <4>5. CASE r # q BY <1>2, <4>3, <4>4, <4>5, DealtWithStays
      <4>6. CASE r = q /\ vintent[v] = "RemotelyInactive"
        <5>1. ~Active(r) BY <4>2, <4>6 DEF DeletersKnow
        <5> QED BY <1>2, <5>1, DealtWithStays
      <4>7. CASE r = q /\ vintent[v] # "RemotelyInactive" BY <4>1, <4>3, <4>7
      <4> QED BY <4>5, <4>6, <4>7
    <3> QED BY <2>9, <3>1, <3>2, <3>3 DEF RevokeStep
  <2> QED BY <2>4, <2>5, <2>6, <2>7, <2>8, <2>9, RevokeMoves
<1> QED BY <1>1, <1>2

\* A record that is gone does not come back, unless the run is committing.
LEMMA GoneStays ==
    ASSUME LeaseInv, [Next]_vars, NEW r \in Runs, pc[r] \notin {"mint", "commit"},
           ~Present(cache[r]) /\ ~Active(r)
    PROVE  ~Present(cache'[r]) /\ ~Active(r)'
BY InactiveStays, StepMonotone DEF LeaseInv, Monotone

LEMMA PruneProgressingStep == ASSUME LeaseInv, [Next]_vars PROVE PruneProgressing'
<1> USE DEF LeaseInv, TypeOK, StoreTypeOK, PruneTypeOK
<1> SUFFICES ASSUME NEW p \in Pruners, NEW r \in Runs, pclean'[p], Present(psnap'[p][r]),
                    psnap'[p][r].state = "CleanupPending" \/ expires'[r] <= pnow'[p]
             PROVE  r \in ptodo'[p] \/ (~Present(cache'[r]) /\ ~Active(r)')
    BY DEF PruneProgressing, Expired
<1>1. ASSUME pc[r] \in Fresh PROVE FALSE BY <1>1, PruneLists DEF FreshUnknown
<1>2. expires'[r] = expires[r] BY <1>1, StepMonotone DEF Monotone, Fresh
<1>3. ASSUME pclean[p], psnap'[p][r] = psnap[p][r], pnow'[p] = pnow[p]
      PROVE  r \in ptodo[p] \/ (~Present(cache'[r]) /\ ~Active(r)')
  <2>1. r \in ptodo[p] \/ (~Present(cache[r]) /\ ~Active(r))
    BY <1>2, <1>3 DEF PruneProgressing, Expired
  <2> QED BY <1>1, <2>1, GoneStays DEF Fresh
<1>4. CASE UNCHANGED PruneLocal(p) BY <1>3, <1>4 DEF PruneLocal
<1>5. CASE PruneInspect(p) BY <1>5 DEF PruneInspect
<1>6. CASE PruneEnd(p) BY <1>6 DEF PruneEnd, Present, NoRecord
<1>7. ASSUME NEW q \in Runs, PruneStep(p, q)
      PROVE  r \in ptodo'[p] \/ (~Present(cache'[r]) /\ ~Active(r)')
  <2>1. CASE PruneExpired(p, q)
    <3>1. PICK result: DeleteExact(q, psnap[p][q], result) /\ Processed(p, q, result = "Deleted")
      BY <2>1 DEF PruneExpired
    <3>2. /\ UNCHANGED <<clock, psnap, pnow, ppc>> /\ expires[q] <= pnow[p]
          /\ cache \in [Runs -> Slot]
      BY <2>1 DEF PruneExpired, worldVars, Expired
    <3>3. pclean[p] /\ result = "Deleted" /\ ptodo'[p] = ptodo[p] \ {q}
      BY <3>1 DEF Processed
    <3>4. CASE r # q BY <1>3, <3>2, <3>3, <3>4
    <3>5. CASE r = q
      <4>1. ~Present(cache'[r]) BY <3>1, <3>2, <3>3, <3>5, DeleteExactFrame
      <4>2. ~Active(r)'
        BY <1>2, <3>2, <3>5 DEF ClocksBehind, Active, Expired
      <4> QED BY <4>1, <4>2
    <3> QED BY <3>4, <3>5
  <2>2. CASE PruneSkip(p, q)
    <3>1. /\ UNCHANGED <<psnap, pnow>> /\ ~Expired(q, pnow[p])
          /\ psnap[p][q].state \in {"Pending", "Running"}
      BY <2>2, Zenon DEF PruneSkip
    <3>2. pclean[p] /\ ptodo'[p] = ptodo[p] \ {q} BY <2>2 DEF PruneSkip, Processed
    <3>3. r # q BY <1>2, <3>1 DEF Expired
    <3> QED BY <1>3, <3>1, <3>2, <3>3
  <2>3. CASE PruneClaim(p, q)
    <3>1. ASSUME r # q PROVE psnap'[p][r] = psnap[p][r]
      <4>1. CASE psnap' = [psnap EXCEPT ![p][q] = cache'[q]] BY <3>1, <4>1
      <4>2. CASE UNCHANGED psnap BY <4>2
      <4> QED BY <2>3, <4>1, <4>2, Zenon DEF PruneClaim
    <3>2. pnow' = pnow /\ q \in ptodo[p] BY <2>3 DEF PruneClaim
    <3>3. pclean[p] /\ ptodo' = ptodo BY <2>3 DEF PruneClaim, StartCleanup, Processed
    <3> QED BY <1>3, <3>1, <3>2, <3>3
  <2>4. CASE PruneMarked(p, q)
    <3>1. UNCHANGED <<psnap, pnow>> BY <2>4 DEF PruneMarked
    <3>2. pclean[p] /\ ptodo' = ptodo BY <2>4 DEF PruneMarked, StartCleanup, Processed
    <3> QED BY <1>3, <3>1, <3>2
  <2>5. CASE PruneRevoke(p, q)
    <3>1. UNCHANGED <<psnap, pnow>> BY <2>5 DEF PruneRevoke
    <3>2. pclean[p] /\ ptodo' = ptodo BY <2>5 DEF PruneRevoke, Processed
    <3> QED BY <1>3, <3>1, <3>2
  <2>6. CASE PruneDelete(p, q)
    <3>1. PICK ok \in BOOLEAN: DeleteCleanupPending(q, psnap[p][q], ok) /\ Processed(p, q, ok)
      BY <2>6, Zenon DEF PruneDelete
    <3>2. UNCHANGED <<psnap, pnow>> /\ ppc[p] = "delete" /\ q \in pcur[p]
      BY <2>6 DEF PruneDelete
    <3>3. pclean[p] /\ ok /\ ptodo'[p] = ptodo[p] \ {q} BY <3>1 DEF Processed
    <3>4. CASE r # q BY <1>3, <3>2, <3>3, <3>4
    <3>5. CASE r = q
      <4>1. ~Present(cache'[r]) BY <3>1, <3>3, <3>5, DeleteCleanupPendingFrame
      <4>2. ~Active(r) BY <3>2, <3>5 DEF DeletersKnow
      <4> QED BY <1>1, <4>1, <4>2, InactiveStays DEF Fresh
    <3> QED BY <3>4, <3>5
  <2> QED BY <1>7, <2>1, <2>2, <2>3, <2>4, <2>5, <2>6 DEF PruneStep
<1> QED BY <1>4, <1>5, <1>6, <1>7, PruneMoves

\* What a wrapper's report says of its token and its record.
ReportTrue(r) ==
    /\ outcome[r] = "complete" => ~Active(r) /\ ~Present(cache[r])
    /\ outcome[r] = "failed" => ~Active(r)

LEMMA ReportsStep ==
    ASSUME LeaseInv, [Next]_vars, NEW r \in Runs PROVE ReportTrue(r)'
<1> USE DEF LeaseInv, TypeOK, StoreTypeOK, RunTypeOK
<1>1. ReportTrue(r) BY DEF CompleteMeansReleased, FailureReportsLeak, ReportTrue
<1>2. CASE outcome[r] # "none" /\ outcome'[r] = outcome[r]
  <2>1. pc[r] = "gone" BY <1>2 DEF NotYet
  <2>2. ~Active(r) => ~Active(r)' BY <2>1, InactiveStays
  <2>3. ~Present(cache[r]) => ~Present(cache'[r]) BY <2>1, StepMonotone DEF Monotone
  <2> QED BY <1>1, <1>2, <2>2, <2>3 DEF ReportTrue
<1>3. CASE UNCHANGED WrapperLocal(r)
  <2>1. outcome'[r] = outcome[r] BY <1>3 DEF WrapperLocal
  <2>2. CASE outcome[r] = "none" BY <2>1, <2>2 DEF ReportTrue
  <2> QED BY <1>2, <2>1, <2>2
<1>4. ASSUME WrapperStep(r) \/ Crash(r) PROVE ReportTrue(r)'
  <2> USE DEF Goto, Return
  <2>0. outcome[r] = "none" BY <1>4, WrapperFlow DEF NotYet
  <2>1. CASE outcome'[r] \notin {"complete", "failed"} BY <2>1 DEF ReportTrue
  <2>2. CASE ReadBase(r) \/ TakeGuard(r) \/ MintFails(r)
    <3>1. remote'[r] = "none"
      BY <2>2 DEF ReadBase, TakeGuard, MintFails, NotYet
    <3>2. outcome'[r] \in {"none", "failed"}
      BY <2>0, <2>2 DEF ReadBase, TakeGuard, MintFails
    <3> QED BY <3>1, <3>2 DEF ReportTrue, Active
  <2>3. CASE MintAnswerLost(r)
    <3>1. remote'[r] = "stray" /\ outcome'[r] = "failed" BY <2>3 DEF MintAnswerLost
    <3> QED BY <3>1 DEF ReportTrue, Active
  <2>4. CASE Mint(r) \/ CommitPending(r)
    BY <2>0, <2>1, <2>4 DEF Mint, CommitPending
  <2>5. CASE Discard(r)
    <3>1. PICK answer \in {"Ok", "NotFound", "Error"}:
            /\ DeleteToken(r, answer)
            /\ Return(r, IF answer = "Ok" THEN "failed" ELSE "unrevoked")
      BY <2>5, Zenon DEF Discard
    <3>2. CASE answer = "Ok"
      <4>1. outcome'[r] = "failed" BY <3>1, <3>2
      <4>2. remote'[r] = "dead" BY <3>1, <3>2 DEF DeleteToken
      <4> QED BY <4>1, <4>2 DEF ReportTrue, Active
    <3>3. CASE answer # "Ok" BY <2>1, <3>1, <3>3
    <3> QED BY <3>2, <3>3
  <2>6. CASE Execute(r)
    <3>1. outcome' = outcome
      BY <2>6 DEF Execute, Spawn, SpawnFails, StartForwarding, Activate, TerminateAndWait,
                  WaitChild, WaitFails
    <3> QED BY <2>0, <2>1, <3>1
  <2>7. CASE Abort(r) \/ Finish(r) \/ CleanupRevoke(r)
    BY <2>0, <2>1, <2>7 DEF Abort, Finish, Marked, CleanupRevoke
  <2>8. CASE CleanupDelete(r)
    <3>1. PICK ok \in BOOLEAN:
            /\ DeleteCleanupPending(r, entry[r], ok)
            /\ Return(r, IF ok THEN "complete" ELSE "incomplete")
      BY <2>8, Zenon DEF CleanupDelete
    <3>2. ~Active(r)'
      BY <2>8, InactiveStays DEF CleanupDelete, DeletersKnow
    <3>3. CASE ok BY <3>1, <3>2, <3>3, DeleteCleanupPendingFrame DEF ReportTrue
    <3>4. CASE ~ok BY <2>1, <3>1, <3>4
    <3> QED BY <3>3, <3>4
  <2>9. CASE Crash(r) BY <2>0, <2>1, <2>9 DEF Crash
  <2> QED BY <1>4, <2>2, <2>3, <2>4, <2>5, <2>6, <2>7, <2>8, <2>9
             DEF WrapperStep, Issue, Cleanup
<1> QED BY <1>3, <1>4, WrapperMoves

-----------------------------------------------------------------------------
(***************************************************************************)
(* The invariant, and what follows from it.                                *)
(***************************************************************************)
LEMMA InitLease == Init => LeaseInv
<1> SUFFICES ASSUME Init PROVE LeaseInv OBVIOUS
<1>1. TypeOK BY InitType
<1> USE DEF Init, StoreInit, RunInit, PruneInit, RevokeInit, Present, NoRecord, Active
<1>2. FreshUnknown /\ NotYet /\ Underway BY DEF FreshUnknown, NotYet, Underway, Fresh
<1>3. OneAtATime /\ ClocksBehind /\ DeletersKnow BY DEF OneAtATime, ClocksBehind, DeletersKnow
<1>4. CommittedRecoverable /\ CleanRevokeProgress
  BY DEF CommittedRecoverable, Recoverable, CleanRevokeProgress
<1>5. RevokeEpochs /\ RevokeCoversEarlierIssuance BY DEF RevokeEpochs, RevokeCoversEarlierIssuance
<1>6. PruneProgressing BY DEF PruneProgressing
<1>7. CompleteMeansReleased /\ FailureReportsLeak BY DEF CompleteMeansReleased, FailureReportsLeak
<1> QED BY <1>1, <1>2, <1>3, <1>4, <1>5, <1>6, <1>7 DEF LeaseInv

LEMMA NextLease == LeaseInv /\ [Next]_vars => LeaseInv'
<1> SUFFICES ASSUME LeaseInv, [Next]_vars PROVE LeaseInv' OBVIOUS
<1>1. TypeOK' BY NextType DEF LeaseInv
<1>2. RevokeEpochs' /\ RevokeCoversEarlierIssuance' BY RevokeCoversStep DEF LeaseInv
<1>3. CompleteMeansReleased' /\ FailureReportsLeak'
  BY ReportsStep DEF ReportTrue, CompleteMeansReleased, FailureReportsLeak
<1> QED BY <1>1, <1>2, <1>3, FreshUnknownStep, NotYetStep, UnderwayStep, OneAtATimeStep, ClocksBehindStep,
           DeletersKnowStep, CommittedRecoverableStep, CleanRevokeProgressStep,
           PruneProgressingStep DEF LeaseInv

\* The inductive invariant of the commands that handle run tokens.
THEOREM LeaseInvariant == Spec => []LeaseInv
BY InitLease, NextLease, PTL DEF Spec

\* A token that a command has seen and that still works has its record, unless
\* a revoke told that it deleted the record locally only.
THEOREM ExposedRecoverable == Spec => []ExposedTokensRecoverable
<1>1. LeaseInv => ExposedTokensRecoverable
  BY DEF LeaseInv, CommittedRecoverable, Committed, Recoverable, ExposedTokensRecoverable
<1> QED BY <1>1, LeaseInvariant, PTL

\* A wrapper that reports a complete cleanup has left neither a working token
\* nor a record (cleanup_marked_run_with_app).
THEOREM CompleteReleases == Spec => []CompleteMeansReleased
<1>1. LeaseInv => CompleteMeansReleased BY DEF LeaseInv
<1> QED BY <1>1, LeaseInvariant, PTL

\* A run that fails without telling of a failed revocation leaves no working
\* token that anybody holds (prepare, mint and commit of the run workflow).
THEOREM FailureLeaksNothing == Spec => []FailureReportsLeak
<1>1. LeaseInv => FailureReportsLeak BY DEF LeaseInv
<1> QED BY <1>1, LeaseInvariant, PTL

\* A `revoke --all` without failures ends the use of every token issued under an
\* older epoch that a command holds (process_snapshot, finalize_deletion).
THEOREM CleanRevokeEnds == Spec => []CleanRevokeEndsExposure
<1>1. LeaseInv => CleanRevokeEndsExposure
  <2> SUFFICES ASSUME LeaseInv, NEW v \in Revokers, NEW r \in Runs, vpc[v] = "done", vclean[v],
                      guard[r] < vepoch[v], child[r] # "none"
               PROVE  ~Active(r) \/ r \in localOnly
      BY DEF CleanRevokeEndsExposure
  <2>1. ~Active(r) \/ r \in localOnly \/ r \in vtodo[v]
    BY DEF LeaseInv, CleanRevokeProgress, Committed
  <2> QED BY <2>1 DEF LeaseInv, OneAtATime
<1> QED BY <1>1, LeaseInvariant, PTL

\* A prune that reports no failure has reclaimed every record it found expired
\* or marked, and none of these tokens works (exit status 0 of `ghst prune`).
THEOREM CleanPruneReclaims == Spec => []PruneSuccessReclaims
<1>1. LeaseInv => PruneSuccessReclaims BY DEF LeaseInv, PruneProgressing, PruneSuccessReclaims
<1> QED BY <1>1, LeaseInvariant, PTL

-----------------------------------------------------------------------------
(***************************************************************************)
(* What may happen to a record.                                            *)
(***************************************************************************)

\* Its wrapper creates it; its wrapper activates or marks it; a prune that finds
\* its processes dead claims it; somebody deletes it.
Created(r) == pc[r] = "commit" /\ pc'[r] # "commit"

Advanced(r) ==
    /\ pc'[r] # pc[r]
    /\ \/ CanActivate(cache[r]) /\ cache'[r] = Activated
       \/ CanAbort(cache[r]) /\ \E pid \in ChildPid: cache'[r] = Aborted(pid)
       \/ CanFinish(cache[r]) /\ cache'[r] = Finished

ClaimedByPrune(r) ==
    /\ cache[r].state \in {"Pending", "Running"}
    /\ wrapper[r] = "dead"
    /\ cache[r].child_pid = "Some" => child[r] = "dead"
    /\ cache'[r] = [state |-> "CleanupPending", child_pid |-> cache[r].child_pid]

Deleted(r) == Present(cache[r]) /\ cache'[r] = NoRecord

LEMMA RecordChanges ==
    ASSUME TypeOK, [Next]_vars, NEW r \in Runs, cache'[r] # cache[r]
    PROVE  Created(r) \/ Advanced(r) \/ ClaimedByPrune(r) \/ Deleted(r)
<1> USE DEF TypeOK, StoreTypeOK, RunTypeOK, sharedVars, storeVars, worldVars
<1>1. cache' # cache OBVIOUS
<1>2. ~EnvNext BY <1>1 DEF EnvNext, Tick, CommitBase, RemoveBase, ChildExit
<1>3. cache[r].state # "Absent" <=> Present(cache[r]) BY DEF Present
<1>4. cache[r] # NoRecord => Present(cache[r])
  BY DEF Present, Slot, RunRecord, RunState, NoRecord
<1>5. ASSUME NEW q \in Runs, WrapperStep(q) \/ Crash(q)
      PROVE  Created(r) \/ Advanced(r) \/ Deleted(r)
  <2> USE DEF UpdateRun, Publish, Goto, Return, Marked
  <2>1. CASE CommitPending(q)
    <3>1. q = r BY <2>1 DEF CommitPending
    <3> QED BY <2>1, <3>1 DEF CommitPending, Created
  <2>2. CASE Activate(q)
    <3>1. q = r /\ CanActivate(cache[r]) /\ cache'[r] = Activated BY <2>2 DEF Activate
    <3>2. pc'[r] # pc[r] BY <2>2, <3>1 DEF Activate
    <3> QED BY <3>1, <3>2 DEF Advanced
  <2>3. CASE Abort(q)
    <3>1. q = r /\ CanAbort(cache[r]) /\ cache'[r] = Aborted(abortPid[r]) BY <2>3 DEF Abort
    <3>2. pc'[r] # pc[r] BY <2>3, <3>1 DEF Abort
    <3> QED BY <3>1, <3>2 DEF Advanced
  <2>4. CASE Finish(q)
    <3>1. q = r /\ CanFinish(cache[r]) /\ cache'[r] = Finished BY <2>4 DEF Finish
    <3>2. pc'[r] # pc[r] BY <2>4, <3>1 DEF Finish
    <3> QED BY <3>1, <3>2 DEF Advanced
  <2>5. CASE CleanupDelete(q)
    BY <1>4, <2>5, DeleteCleanupPendingFrame DEF CleanupDelete, Deleted
  <2>6. CASE Issue(q) /\ ~CommitPending(q)
    BY <1>1, <2>6 DEF Issue, ReadBase, TakeGuard, Mint, MintFails, MintAnswerLost, Discard
  <2>7. CASE Execute(q) /\ ~Activate(q)
    BY <1>1, <2>7 DEF Execute, Spawn, SpawnFails, StartForwarding, TerminateAndWait, WaitChild,
                      WaitFails
  <2>8. CASE CleanupRevoke(q) \/ Crash(q) BY <1>1, <2>8 DEF CleanupRevoke, Crash
  <2> QED BY <1>5, <2>1, <2>2, <2>3, <2>4, <2>5, <2>6, <2>7, <2>8 DEF WrapperStep, Cleanup
<1>6. ASSUME NEW p \in Pruners, PruneInspect(p) \/ PruneEnd(p) PROVE FALSE
  BY <1>1, <1>6 DEF PruneInspect, PruneEnd
<1>7. ASSUME NEW p \in Pruners, NEW q \in Runs, PruneStep(p, q)
      PROVE  ClaimedByPrune(r) \/ Deleted(r)
  <2>1. CASE PruneExpired(p, q)
    <3>1. PICK result: DeleteExact(q, psnap[p][q], result) BY <2>1 DEF PruneExpired
    <3> QED BY <1>4, <3>1, DeleteExactFrame DEF Deleted
  <2>2. CASE PruneSkip(p, q) \/ PruneMarked(p, q) \/ PruneRevoke(p, q)
    BY <1>1, <2>2, Zenon DEF PruneSkip, PruneMarked, PruneRevoke
  <2>3. CASE PruneClaim(p, q)
    <3>1. PICK ok: UpdateRun(q, CanClaim(cache[q], psnap[p][q]), Claimed(cache[q]), ok)
      BY <2>3 DEF PruneClaim
    <3>2. /\ CanClaim(cache[q], psnap[p][q])
          /\ cache' = [cache EXCEPT ![q] = Claimed(cache[q])]
      BY <1>1, <3>1 DEF UpdateRun, Publish
    <3>3. q = r BY <3>2
    <3>4. cache[r] = psnap[p][r] /\ cache[r].state \in {"Pending", "Running"}
      BY <3>2, <3>3 DEF CanClaim
    <3>5. wrapper[r] = "dead" /\ (psnap[p][r].child_pid = "Some" => child[r] = "dead")
      BY <2>3, <3>3 DEF PruneClaim, LooksAbandoned, ReportedDead
    <3>6. cache'[r] = [state |-> "CleanupPending", child_pid |-> cache[r].child_pid]
      BY <3>2, <3>3, <3>4, TransitionFacts DEF Present
    <3> QED BY <3>4, <3>5, <3>6 DEF ClaimedByPrune
  <2>4. CASE PruneDelete(p, q)
    BY <1>4, <2>4, DeleteCleanupPendingFrame DEF PruneDelete, Deleted
  <2> QED BY <1>7, <2>1, <2>2, <2>3, <2>4 DEF PruneStep
<1>8. ASSUME NEW v \in Revokers, NEW q \in Runs, RevokeStep(v, q) PROVE Deleted(r)
  <2>1. CASE RevokeDelete(v, q)
    <3>1. PICK result: DeleteExact(q, vsnap[v][q], result) BY <2>1 DEF RevokeDelete
    <3> QED BY <1>4, <3>1, DeleteExactFrame DEF Deleted
  <2>2. CASE ~RevokeDelete(v, q)
    BY <1>1, <1>8, <2>2, Zenon DEF RevokeStep, RevokeNearExpiry, RevokeWithoutAuthority,
                                   RevokeRemotely
  <2> QED BY <2>1, <2>2
<1>9. ASSUME NEW v \in Revokers, RevokeReport(v) \/ RevokeCrash(v) PROVE FALSE
  BY <1>1, <1>9 DEF RevokeReport, RevokeCrash
<1>10. ~AdvanceEpoch BY <1>1 DEF AdvanceEpoch
<1> QED BY <1>1, <1>2, <1>5, <1>6, <1>7, <1>8, <1>9, <1>10
           DEF Next, vars, RunNext, PruneNext, RevokeNext, RevokeAll, RevokeOne, RevokeNothing

Forward(r) ==
    cache'[r] # cache[r] =>
        \/ ~Present(cache[r]) /\ pc[r] = "commit" /\ pc'[r] # "commit"
        \/ /\ Stage(cache[r]) < Stage(cache'[r])
           /\ cache[r].child_pid = "Some" /\ Present(cache'[r])
                => cache'[r].child_pid = "Some"

\* The stages of the records that the transitions know.
LEMMA Stages ==
    /\ Stage(Activated) = 2 /\ Stage(Finished) = 3 /\ \A pid: Stage(Aborted(pid)) = 3
    /\ \A pid: Stage([state |-> "CleanupPending", child_pid |-> pid]) = 3
    /\ Stage(NoRecord) = 4
    /\ \A e \in Slot: e.state \in {"Pending", "Running"} => Stage(e) \in {1, 2}
    /\ \A e \in Slot: Present(e) => Stage(e) \in {1, 2, 3}
    /\ \A e \in Slot: CanActivate(e) \/ CanAbort(e) => Stage(e) = 1
    /\ \A e \in Slot: CanFinish(e) => Stage(e) = 2
BY DEF Stage, Activated, Finished, Aborted, NoRecord, Slot, RunRecord, RunState, Present,
       CanActivate, CanAbort, CanFinish

\* The lifecycle of a record only moves forward, no deleted record comes back,
\* and a recorded child is never forgotten.
THEOREM LifecycleMovesForward == Spec => LifecycleForward
<1>1. ASSUME LeaseInv, [Next]_vars, NEW r \in Runs PROVE Forward(r)
  <2> SUFFICES ASSUME cache'[r] # cache[r]
               PROVE  \/ ~Present(cache[r]) /\ pc[r] = "commit" /\ pc'[r] # "commit"
                      \/ /\ Stage(cache[r]) < Stage(cache'[r])
                         /\ cache[r].child_pid = "Some" /\ Present(cache'[r])
                              => cache'[r].child_pid = "Some"
      BY DEF Forward
  <2> USE <1>1 DEF LeaseInv, TypeOK, StoreTypeOK
  <2>1. CASE Created(r) BY <2>1 DEF Created, FreshUnknown, Fresh
  <2>2. CASE Advanced(r)
    <3>1. cache[r] \in Slot OBVIOUS
    <3>2. CASE CanActivate(cache[r]) /\ cache'[r] = Activated
      BY <3>1, <3>2, Stages DEF Activated
    <3>3. CASE CanFinish(cache[r]) /\ cache'[r] = Finished BY <3>1, <3>3, Stages DEF Finished
    <3>4. ASSUME CanAbort(cache[r]), NEW pid \in ChildPid, cache'[r] = Aborted(pid)
          PROVE  Stage(cache[r]) < Stage(cache'[r]) /\ cache[r].child_pid # "Some"
      BY <3>1, <3>4, Stages DEF CanAbort
    <3> QED BY <2>2, <3>2, <3>3, <3>4 DEF Advanced
  <2>3. CASE ClaimedByPrune(r)
    <3>1. Stage(cache'[r]) = 3 /\ cache'[r].child_pid = cache[r].child_pid
      BY <2>3, Stages DEF ClaimedByPrune
    <3>2. Stage(cache[r]) \in {1, 2} BY <2>3, Stages DEF ClaimedByPrune
    <3> QED BY <3>1, <3>2
  <2>4. CASE Deleted(r) BY <2>4, Stages DEF Deleted, Present, NoRecord
  <2> QED BY <2>1, <2>2, <2>3, <2>4, RecordChanges
<1>2. LeaseInv /\ [Next]_vars => [\A r \in Runs: Forward(r)]_vars BY <1>1
<1> QED BY <1>2, LeaseInvariant, PTL DEF Spec, LifecycleForward, Forward

TakeoverJustified(r) ==
    /\ cache[r].state \in {"Pending", "Running"}
    /\ cache'[r].state = "CleanupPending"
    /\ pc'[r] = pc[r]
    => /\ wrapper[r] = "dead"
       /\ cache[r].child_pid = "Some" => child[r] = "dead"

\* A record is taken over only from a dead wrapper, and never while the child it
\* names is alive, however old the snapshot of the prune is.
THEOREM ClaimsOnlyAbandoned == Spec => ClaimOnlyAbandoned
<1>1. ASSUME TypeOK, [Next]_vars, NEW r \in Runs PROVE TakeoverJustified(r)
  <2> SUFFICES ASSUME cache[r].state \in {"Pending", "Running"},
                      cache'[r].state = "CleanupPending", pc'[r] = pc[r]
               PROVE  /\ wrapper[r] = "dead"
                      /\ cache[r].child_pid = "Some" => child[r] = "dead"
      BY DEF TakeoverJustified
  <2>1. cache'[r] # cache[r] OBVIOUS
  <2>2. ~Created(r) /\ ~Advanced(r) BY DEF Created, Advanced
  <2>3. ~Deleted(r) BY DEF Deleted, NoRecord
  <2>4. ClaimedByPrune(r) BY <1>1, <2>1, <2>2, <2>3, RecordChanges
  <2> QED BY <2>4 DEF ClaimedByPrune
<1>2. TypeOK /\ [Next]_vars => [\A r \in Runs: TakeoverJustified(r)]_vars BY <1>1
<1> QED BY <1>2, TypeCorrect, PTL DEF Spec, ClaimOnlyAbandoned, TakeoverJustified
=============================================================================
