-------------------------- MODULE RunTokenProofs ---------------------------
(***************************************************************************)
(* Wrappers, prunes and revokes together give every run token the life     *)
(* that RunToken promises: RunLease implements RunToken, for any number of *)
(* runs and commands, any lifetimes and margins.                           *)
(*                                                                         *)
(* A step is looked at from one token at a time.  Only its own wrapper has *)
(* it minted, recorded or handed out, by the action that is meant to; all  *)
(* else that may happen to it is a release.  And the promise is worth      *)
(* having: what it implies for a token by itself is shown at the end.      *)
(***************************************************************************)
EXTENDS LeaseInvariantProofs

\* The step that mints a token, and nothing else of it.
LEMMA IssueStep ==
    ASSUME LeaseInv, [Next]_vars, NEW r \in Runs, remote[r] = "none", remote'[r] # "none"
    PROVE  /\ pc[r] = "mint" /\ UNCHANGED <<cache, child, localOnly>>
<1> USE DEF LeaseInv, TypeOK, StoreTypeOK
<1>1. pc[r] = "mint" /\ pc'[r] # "mint" BY TokenAppears
<1>2. ~UNCHANGED WrapperLocal(r) BY <1>1 DEF WrapperLocal
<1>3. WrapperStep(r) \/ Crash(r) BY <1>2, WrapperMoves
<1>4. Mint(r) \/ MintFails(r) \/ MintAnswerLost(r) \/ Crash(r)
  BY <1>1, <1>3 DEF WrapperStep, Issue, Execute, Cleanup, ReadBase, TakeGuard, CommitPending,
     Discard, Spawn, SpawnFails, StartForwarding, Activate, TerminateAndWait, WaitChild,
     WaitFails, Abort, Finish, CleanupRevoke, CleanupDelete
<1> QED BY <1>1, <1>4 DEF Mint, MintFails, MintAnswerLost, Crash, storeVars

\* The step that writes a record.
LEMMA RecordStep ==
    ASSUME LeaseInv, [Next]_vars, NEW r \in Runs, ~Present(cache[r]), Present(cache'[r])
    PROVE  /\ pc[r] = "commit"
           /\ UNCHANGED <<clock, remote, expires, child, localOnly, outcome>>
<1> USE DEF LeaseInv
<1>1. pc[r] = "commit" /\ pc'[r] # "commit" BY RecordAppears
<1>2. ~UNCHANGED WrapperLocal(r) BY <1>1 DEF WrapperLocal
<1>3. WrapperStep(r) \/ Crash(r) BY <1>2, WrapperMoves
<1>4. CommitPending(r) \/ Crash(r)
  BY <1>1, <1>3 DEF WrapperStep, Issue, Execute, Cleanup, ReadBase, TakeGuard, Mint, MintFails,
     MintAnswerLost, Discard, Spawn, SpawnFails, StartForwarding, Activate, TerminateAndWait,
     WaitChild, WaitFails, Abort, Finish, CleanupRevoke, CleanupDelete
<1>5. ~Crash(r) BY DEF Crash, storeVars
<1> QED BY <1>1, <1>4, <1>5 DEF CommitPending, Goto

\* The step that starts the command.
LEMMA HandOutStep ==
    ASSUME LeaseInv, [Next]_vars, NEW r \in Runs, child[r] = "none", child'[r] # "none"
    PROVE  /\ pc[r] \in {"spawn", "stop"}
           /\ UNCHANGED <<clock, remote, expires, cache, localOnly, outcome>>
<1> USE DEF LeaseInv
<1>1. pc[r] \in {"spawn", "stop"} /\ pc'[r] # pc[r] BY ChildAppears
<1>2. ~UNCHANGED WrapperLocal(r) BY <1>1 DEF WrapperLocal
<1>3. WrapperStep(r) \/ Crash(r) BY <1>2, WrapperMoves
<1>4. Spawn(r) \/ SpawnFails(r) \/ TerminateAndWait(r) \/ Crash(r)
  BY <1>1, <1>3 DEF WrapperStep, Issue, Execute, Cleanup, ReadBase, TakeGuard, Mint, MintFails,
     MintAnswerLost, CommitPending, Discard, StartForwarding, Activate, WaitChild, WaitFails,
     Abort, Finish, CleanupRevoke, CleanupDelete
<1> QED BY <1>1, <1>4 DEF Spawn, SpawnFails, TerminateAndWait, Crash, Goto, storeVars

\* A wrapper that ends without a cleanup report has started no command.
LEMMA FailureUnused ==
    ASSUME LeaseInv, [Next]_vars, NEW r \in Runs, outcome'[r] # outcome[r],
           outcome'[r] \in {"failed", "unrevoked"}
    PROVE  child'[r] = "none"
<1> USE DEF LeaseInv, TypeOK, RunTypeOK
<1>1. WrapperStep(r) \/ Crash(r) BY WrapperMoves DEF WrapperLocal
<1> USE DEF Goto, Return, Marked
<1>2. ~Execute(r)
  BY DEF Execute, Spawn, SpawnFails, StartForwarding, Activate, TerminateAndWait, WaitChild,
         WaitFails
<1>3. ~Cleanup(r) BY DEF Cleanup, Abort, Finish, CleanupRevoke, CleanupDelete
<1>4. ~Crash(r) BY DEF Crash
<1>5. pc[r] \in Fresh \union {"discard"}
  BY <1>1, <1>2, <1>3, <1>4 DEF WrapperStep, Issue, ReadBase, TakeGuard, Mint, MintFails,
     MintAnswerLost, CommitPending, Discard, Fresh
<1>6. child[r] = "none" BY <1>5 DEF FreshUnknown, Underway
<1> QED BY <1>5, <1>6, ChildAppears DEF Fresh

\* A report is made once and is true.
LEMMA MayEndStep ==
    ASSUME LeaseInv, [Next]_vars, NEW r \in Runs PROVE Promise!MayEnd(r)
<1> USE DEF LeaseInv
<1>1. CASE outcome'[r] = outcome[r] BY <1>1 DEF Promise!MayEnd
<1>2. CASE outcome'[r] # outcome[r]
  <2>1. WrapperStep(r) \/ Crash(r) BY <1>2, WrapperMoves DEF WrapperLocal
  <2>2. outcome[r] = "none" BY <2>1, WrapperFlow DEF NotYet
  <2>3. outcome'[r] \in Outcome BY NextType DEF TypeOK, RunTypeOK
  <2>4. /\ outcome'[r] = "complete" => ~Active(r)' /\ ~Present(cache'[r])
        /\ outcome'[r] = "failed" => ~Active(r)'
    BY ReportsStep DEF ReportTrue
  <2>5. outcome'[r] \in {"failed", "unrevoked"} => child'[r] = "none" BY <1>2, FailureUnused
  <2>6. Promise!TrueReport(r)
    BY <1>2, <2>2, <2>3, <2>4, <2>5 DEF Outcome, Promise!TrueReport
  <2> QED BY <2>2, <2>6 DEF Promise!MayEnd
<1> QED BY <1>1, <1>2

\* What else may happen to a token.
LEMMA ReleaseStep ==
    ASSUME LeaseInv, [Next]_vars, NEW r \in Runs,
           remote[r] = "none" => remote'[r] = "none",
           Present(cache'[r]) => Present(cache[r]),
           child[r] = "none" => child'[r] = "none"
    PROVE  Promise!Release(r)
<1> USE DEF LeaseInv, TypeOK, StoreTypeOK
<1>1. remote'[r] = "none" <=> remote[r] = "none" BY TokenStays
<1>2. child'[r] = "none" <=> child[r] = "none" BY StepMonotone DEF Monotone
<1>3. Active(r)' => Active(r)
  <2>1. CASE pc[r] = "mint" BY <1>1, <2>1 DEF NotYet, Active
  <2>2. CASE pc[r] # "mint" BY <2>2, InactiveStays
  <2> QED BY <2>1, <2>2
<1>4. Present(cache[r]) /\ ~Present(cache'[r]) => r \in localOnly' \/ ~Active(r)'
  BY DeletionSafe
<1>5. r \in localOnly => r \in localOnly' BY StepMonotone DEF Monotone
<1>6. r \in localOnly' /\ r \notin localOnly => Present(cache[r]) /\ ~Present(cache'[r])
  BY LocalOnlyGrows
<1> QED BY <1>1, <1>2, <1>3, <1>4, <1>5, <1>6, MayEndStep DEF Promise!Release, Promise!Kept

\* Every step is a step of the promised life of each token.
LEMMA StepPromised ==
    ASSUME LeaseInv, [Next]_vars, NEW r \in Runs PROVE Promise!Live(r)
<1> USE DEF LeaseInv
<1>1. CASE remote[r] = "none" /\ remote'[r] # "none"
  <2>1. pc[r] = "mint" /\ UNCHANGED <<cache, child, localOnly>> BY <1>1, IssueStep
  <2>2. ~Present(cache[r]) /\ child[r] = "none" BY <2>1 DEF FreshUnknown, Fresh
  <2>3. outcome[r] = "none" BY <2>1 DEF NotYet
  <2>4. Promise!Issue(r)
    BY <1>1, <2>1, <2>2, <2>3, MayEndStep DEF Promise!Issue, Promise!Kept
  <2> QED BY <2>4 DEF Promise!Live
<1>2. CASE ~Present(cache[r]) /\ Present(cache'[r])
  <2>1. pc[r] = "commit" /\ UNCHANGED <<clock, remote, expires, child, localOnly, outcome>>
    BY <1>2, RecordStep
  <2>2. remote[r] # "none" BY <2>1 DEF Underway
  <2>3. child[r] = "none" BY <2>1 DEF FreshUnknown, Fresh
  <2>4. outcome[r] = "none" BY <2>1 DEF NotYet
  <2>5. Active(r)' <=> Active(r) BY <2>1 DEF Active, Expired
  <2>6. Promise!Record(r)
    BY <1>2, <2>1, <2>2, <2>3, <2>4, <2>5 DEF Promise!Record, Promise!Kept
  <2> QED BY <2>6 DEF Promise!Live
<1>3. CASE child[r] = "none" /\ child'[r] # "none"
  <2>1. /\ pc[r] \in {"spawn", "stop"}
        /\ UNCHANGED <<clock, remote, expires, cache, localOnly, outcome>>
    BY <1>3, HandOutStep
  <2>2. remote[r] # "none" BY <2>1 DEF Underway
  <2>3. outcome[r] = "none" BY <2>1 DEF NotYet
  <2>4. Committed(r) BY <2>1 DEF Committed, Fresh
  <2>5. Active(r) => Present(cache[r]) \/ r \in localOnly
    BY <2>4 DEF CommittedRecoverable, Recoverable
  <2>6. Active(r)' <=> Active(r) BY <2>1 DEF Active, Expired
  <2>7. Promise!HandOut(r)
    BY <1>3, <2>1, <2>2, <2>3, <2>5, <2>6 DEF Promise!HandOut, Promise!Kept
  <2> QED BY <2>7 DEF Promise!Live
<1>4. CASE /\ remote[r] = "none" => remote'[r] = "none"
           /\ Present(cache'[r]) => Present(cache[r])
           /\ child[r] = "none" => child'[r] = "none"
  BY <1>4, ReleaseStep DEF Promise!Live
<1> QED BY <1>1, <1>2, <1>3, <1>4

-----------------------------------------------------------------------------
\* Wrappers, prunes and revokes implement the promised life of every token.
THEOREM LeaseImplementsPromise == Spec => ImplementsRunToken
<1>1. Init => Promise!Init
  BY DEF Init, StoreInit, RunInit, Promise!Init, Active, Present, NoRecord
<1>2. LeaseInv /\ [Next]_vars => [Promise!Next]_(Promise!vars)
  BY StepPromised DEF Promise!Next
<1> QED BY <1>1, <1>2, LeaseInvariant, PTL DEF Spec, ImplementsRunToken, Promise!Spec

-----------------------------------------------------------------------------
(***************************************************************************)
(* What the promise is worth: whoever keeps it, by whatever steps, has the *)
(* safety properties of RunLease that are about one token.                 *)
(***************************************************************************)
Safe(r) ==
    /\ child[r] # "none" /\ Active(r) => Present(cache[r]) \/ r \in localOnly
    /\ outcome[r] = "complete" => ~Active(r) /\ ~Present(cache[r])
    /\ outcome[r] = "failed" => ~Active(r)

\* No step of the promised life takes a safe token out of safety.
LEMMA LiveStaysSafe ==
    ASSUME NEW r \in Runs, Safe(r), Promise!Live(r)
    PROVE  Safe(r)'
<1> USE DEF Safe
<1>1. ASSUME Promise!MayEnd(r)
      PROVE  \/ outcome'[r] = outcome[r]
             \/ /\ outcome'[r] = "complete" => ~Active(r)' /\ ~Present(cache'[r])
                /\ outcome'[r] = "failed" => ~Active(r)'
  BY <1>1 DEF Promise!MayEnd, Promise!TrueReport
<1>2. CASE Promise!Issue(r)
  BY <1>1, <1>2 DEF Promise!Issue, Promise!Kept
<1>3. CASE Promise!Record(r)
  BY <1>3 DEF Promise!Record, Promise!Kept
<1>4. CASE Promise!HandOut(r)
  BY <1>4 DEF Promise!HandOut, Promise!Kept
<1>5. CASE Promise!Release(r)
  BY <1>1, <1>5 DEF Promise!Release, Promise!Kept
<1> QED BY <1>2, <1>3, <1>4, <1>5 DEF Promise!Live

\* The promise alone implies that exposed tokens are recoverable and that reports
\* are true, for good.
THEOREM PromiseSuffices ==
    Promise!Spec => [](ExposedTokensRecoverable /\ CompleteMeansReleased /\ FailureReportsLeak)
<1> DEFINE AllSafe == \A r \in Runs: Safe(r)
<1>1. Promise!Init => AllSafe BY DEF Promise!Init, Safe
<1>2. AllSafe /\ [Promise!Next]_(Promise!vars) => AllSafe'
  <2> SUFFICES ASSUME AllSafe, [Promise!Next]_(Promise!vars), NEW r \in Runs
               PROVE  Safe(r)'
    OBVIOUS
  <2>1. CASE Promise!Next BY <2>1, LiveStaysSafe DEF Promise!Next
  <2>2. CASE UNCHANGED Promise!vars BY <2>2 DEF Promise!vars, Safe
  <2> QED BY <2>1, <2>2
<1>3. AllSafe => ExposedTokensRecoverable /\ CompleteMeansReleased /\ FailureReportsLeak
  BY DEF Safe, ExposedTokensRecoverable, CompleteMeansReleased, FailureReportsLeak
<1> HIDE DEF AllSafe
<1> QED BY <1>1, <1>2, <1>3, PTL DEF Promise!Spec
=============================================================================
