--------------------------- MODULE EpochFileProofs ---------------------------
(***************************************************************************)
(* As long as no rewrite of the epoch file is torn, comparing epochs is as *)
(* good as knowing that no revocation began: EpochFile implements          *)
(* IssuanceEpoch, for every number of issuers and advancers and every      *)
(* width of the epoch.                                                     *)
(***************************************************************************)
EXTENDS EpochFile, TLAPS

USE MaxEpochAssumption, EmptyAssumption, TornWriteAssumption

\* The epoch that is read is a number, whatever the file holds.
LEMMA EpochIsNat == TypeOK => Epoch \in Nat
BY DEF TypeOK, Epoch

\* Initially nobody rewrites the file and nobody holds a guard.
LEMMA InitEstablishesInv == Init => EpochFileInv
BY DEF Init, EpochFileInv, TypeOK, OneAdvance, AdvanceConsistent, GuardsBehind, Written, Epoch

\* Every step of a revocation that is not torn, and every step of an issuer,
\* keeps the invariant.
LEMMA StepPreservesInv ==
    ASSUME ~TornWrite, EpochFileInv, [Next]_vars PROVE EpochFileInv'
<1> USE EpochIsNat DEF EpochFileInv
<1>1. ASSUME NEW a \in Advancers, BeginAdvance(a) PROVE EpochFileInv'
  <2>1. TypeOK' BY <1>1 DEF BeginAdvance, Goto, TypeOK
  <2>2. OneAdvance' BY <1>1 DEF BeginAdvance, Goto, TypeOK, OneAdvance, Unlocked
  <2>3. AdvanceConsistent'
    BY <1>1 DEF BeginAdvance, Goto, TypeOK, AdvanceConsistent, Unlocked, Epoch
  <2>4. GuardsBehind'
    BY <1>1 DEF BeginAdvance, Goto, TypeOK, GuardsBehind, Written, Unlocked, Epoch
  <2> QED BY <2>1, <2>2, <2>3, <2>4
<1>2. ASSUME NEW a \in Advancers, Truncate(a) PROVE EpochFileInv'
  <2>1. TypeOK' BY <1>2 DEF Truncate, Goto, TypeOK
  <2>2. OneAdvance' BY <1>2 DEF Truncate, Goto, TypeOK, OneAdvance
  <2>3. AdvanceConsistent'
    BY <1>2 DEF Truncate, Goto, TypeOK, OneAdvance, AdvanceConsistent, Epoch
  <2>4. GuardsBehind'
    BY <1>2 DEF Truncate, Goto, TypeOK, OneAdvance, AdvanceConsistent, GuardsBehind, Written, Epoch
  <2> QED BY <2>1, <2>2, <2>3, <2>4
<1>3. ASSUME NEW a \in Advancers, Write(a) PROVE EpochFileInv'
  <2>1. TypeOK' BY <1>3 DEF Write, Goto, TypeOK
  <2>2. OneAdvance' BY <1>3 DEF Write, Goto, TypeOK, OneAdvance
  <2>3. AdvanceConsistent'
    BY <1>3 DEF Write, Goto, TypeOK, OneAdvance, AdvanceConsistent, Epoch
  <2>4. GuardsBehind'
    BY <1>3 DEF Write, Goto, TypeOK, OneAdvance, GuardsBehind, Written, Epoch
  <2> QED BY <2>1, <2>2, <2>3, <2>4
<1>4. ASSUME NEW a \in Advancers, Sync(a) \/ Stop(a) PROVE EpochFileInv'
  <2>1. TypeOK' BY <1>4 DEF Sync, Stop, Goto, TypeOK
  <2>2. OneAdvance' BY <1>4 DEF Sync, Stop, Goto, TypeOK, OneAdvance
  <2>3. AdvanceConsistent'
    BY <1>4 DEF Sync, Stop, Goto, TypeOK, OneAdvance, AdvanceConsistent, Epoch
  <2>4. GuardsBehind'
    BY <1>4 DEF Sync, Stop, Goto, TypeOK, OneAdvance, GuardsBehind, Written, Epoch
  <2> QED BY <2>1, <2>2, <2>3, <2>4
<1>5. ASSUME NEW i \in Issuers, TakeGuard(i) PROVE EpochFileInv'
  <2>1. TypeOK' BY <1>5 DEF TakeGuard, TypeOK
  <2>2. OneAdvance' /\ AdvanceConsistent'
    BY <1>5 DEF TakeGuard, OneAdvance, AdvanceConsistent, Epoch
  <2>3. GuardsBehind'
    BY <1>5 DEF TakeGuard, TypeOK, GuardsBehind, Written, Unlocked, Epoch
  <2> QED BY <2>1, <2>2, <2>3
<1>6. ASSUME NEW i \in Issuers, Commit(i) \/ GiveUp(i) PROVE EpochFileInv'
  <2>1. TypeOK' BY <1>6 DEF Commit, GiveUp, TypeOK
  <2>2. OneAdvance' /\ AdvanceConsistent'
    BY <1>6 DEF Commit, GiveUp, OneAdvance, AdvanceConsistent, Epoch
  <2>3. GuardsBehind'
    BY <1>6 DEF Commit, GiveUp, TypeOK, GuardsBehind, Written, Epoch
  <2> QED BY <2>1, <2>2, <2>3
<1>7. ASSUME Restart PROVE EpochFileInv'
  <2>1. TypeOK' BY <1>7 DEF Restart, Left, TypeOK
  <2>2. OneAdvance' /\ AdvanceConsistent' /\ GuardsBehind'
    BY <1>7 DEF Restart, OneAdvance, AdvanceConsistent, GuardsBehind
  <2> QED BY <2>1, <2>2
<1>8. CASE UNCHANGED vars
  BY <1>8 DEF vars, TypeOK, OneAdvance, AdvanceConsistent, GuardsBehind, Written, Epoch
<1> QED BY <1>1, <1>2, <1>3, <1>4, <1>5, <1>6, <1>7, <1>8 DEF Next, AdvanceStep, IssueStep

\* The advance under way agrees with the file, and no guard is ahead of the
\* epoch (increment_epoch and the comparisons in CacheStore).
THEOREM EpochFileInvariant == ASSUME ~TornWrite PROVE Spec => []EpochFileInv
<1>1. EpochFileInv /\ [Next]_vars => EpochFileInv' BY StepPreservesInv
<1> QED BY <1>1, InitEstablishesInv, PTL DEF Spec

\* Every step of the file is a step of the promise, or no step of it.
LEMMA StepImplements ==
    ASSUME ~TornWrite, EpochFileInv, [Next]_vars PROVE [Abstract!Next]_(Abstract!vars)
<1> DEFINE Valid == {i \in Issuers: phase[i] = "guarded" /\ i \notin stale}
<1> USE EpochIsNat DEF EpochFileInv
<1>1. ASSUME NEW a \in Advancers, Write(a) PROVE Abstract!Next
  <2>1. Valid' = {} /\ UNCHANGED phase BY <1>1 DEF Write
  <2> QED BY <2>1 DEF Abstract!Next, Abstract!Advance
<1>2. ASSUME NEW a \in Advancers, BeginAdvance(a) \/ Truncate(a) \/ Sync(a) \/ Stop(a)
      PROVE UNCHANGED Abstract!vars
  BY <1>2 DEF BeginAdvance, Truncate, Sync, Stop, Abstract!vars
<1>3. ASSUME NEW i \in Issuers, TakeGuard(i) PROVE Abstract!Next
  <2>1. Valid' = Valid \union {i} BY <1>3 DEF TakeGuard, TypeOK
  <2>2. Abstract!TakeGuard(i) BY <1>3, <2>1 DEF TakeGuard, Abstract!TakeGuard
  <2> QED BY <2>2 DEF Abstract!Next
<1>4. ASSUME NEW i \in Issuers, Commit(i) PROVE Abstract!Next
  <2>1. i \in Valid
    BY <1>4 DEF Commit, TypeOK, GuardsBehind, Written, Unlocked
  <2>2. Valid' = Valid \ {i} BY <1>4 DEF Commit, TypeOK
  <2>3. Abstract!Commit(i) BY <1>4, <2>1, <2>2 DEF Commit, Abstract!Commit
  <2> QED BY <2>3 DEF Abstract!Next
<1>5. ASSUME NEW i \in Issuers, GiveUp(i) PROVE Abstract!Next
  <2>1. Valid' = Valid \ {i} BY <1>5 DEF GiveUp, TypeOK
  <2>2. Abstract!GiveUp(i) BY <1>5, <2>1 DEF GiveUp, Abstract!GiveUp
  <2> QED BY <2>2 DEF Abstract!Next
<1>6. ASSUME Restart PROVE Abstract!Next
  <2>1. Valid' = {} BY <1>6 DEF Restart
  <2>2. Abstract!Restart BY <1>6, <2>1 DEF Restart, Abstract!Restart
  <2> QED BY <2>2 DEF Abstract!Next
<1>7. CASE UNCHANGED vars BY <1>7 DEF vars, Abstract!vars
<1> QED BY <1>1, <1>2, <1>3, <1>4, <1>5, <1>6, <1>7 DEF Next, AdvanceStep, IssueStep

\* A commit happens only if no revocation began since its guard was taken.
THEOREM EpochFileImplementsPromise ==
    ASSUME ~TornWrite PROVE Spec => ImplementsIssuanceEpoch
<1>1. Init => Abstract!Init BY DEF Init, Abstract!Init
<1>2. EpochFileInv /\ [Next]_vars => [Abstract!Next]_(Abstract!vars) BY StepImplements
<1> QED BY <1>1, <1>2, EpochFileInvariant, PTL DEF Spec, ImplementsIssuanceEpoch, Abstract!Spec
=============================================================================
