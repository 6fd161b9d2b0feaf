------------------------------ MODULE EpochFile ------------------------------
(***************************************************************************)
(* The issuance epoch as it is kept: a number in decimal in .cache.lock,   *)
(* the very file whose lock serialises the storage operations.             *)
(*                                                                         *)
(* A revocation rewrites the file in place under the exclusive lock: read, *)
(* truncate, write, sync.  An empty file reads as epoch 0.  A guard is a   *)
(* read under the shared lock; a commit compares and publishes under the   *)
(* exclusive lock.  The lock is the operating system's: a process that     *)
(* dies releases it, whatever it left in the file.  A power loss may set   *)
(* the file back, but no guard outlives it.                                *)
(***************************************************************************)
EXTENDS Naturals

CONSTANTS
    Issuers,    \* commands that mint or renew a token
    Advancers,  \* commands that begin a revocation
    MaxEpoch,   \* the largest epoch (u64::MAX)
    Empty,      \* the content of a file of length zero
    TornWrite   \* whether a rewrite may stop after the truncation

ASSUME MaxEpochAssumption  == MaxEpoch \in Nat
ASSUME EmptyAssumption     == Empty \notin Nat
ASSUME TornWriteAssumption == TornWrite \in BOOLEAN

VARIABLES
    file,    \* content of .cache.lock
    apc,     \* advancer -> its next file operation
    next,    \* advancer -> the epoch it is about to write
    phase,   \* issuer -> where its issuance stands
    guard,   \* issuer -> the epoch it read
    stale    \* history: issuers whose guard is older than some advance

vars == <<file, apc, next, phase, guard, stale>>

TypeOK ==
    /\ file \in Nat \union {Empty}
    /\ apc \in [Advancers -> {"idle", "truncate", "write", "sync"}]
    /\ next \in [Advancers -> Nat]
    /\ phase \in [Issuers -> {"idle", "guarded", "committed"}]
    /\ guard \in [Issuers -> Nat]
    /\ stale \subseteq Issuers

Init ==
    /\ file = Empty
    /\ apc = [a \in Advancers |-> "idle"]
    /\ next = [a \in Advancers |-> 0]
    /\ phase = [i \in Issuers |-> "idle"]
    /\ guard = [i \in Issuers |-> 0]
    /\ stale = {}

\* read_epoch
Epoch == IF file = Empty THEN 0 ELSE file

\* No process holds the lock.  Everything but an advance takes it, works and
\* releases it within one step.
Unlocked == \A a \in Advancers: apc[a] = "idle"

Goto(a, step) == apc' = [apc EXCEPT ![a] = step]

-----------------------------------------------------------------------------
\* increment_epoch: the epoch is read and checked_add(1) does not overflow.
BeginAdvance(a) ==
    /\ Unlocked
    /\ Epoch < MaxEpoch
    /\ next' = [next EXCEPT ![a] = Epoch + 1]
    /\ Goto(a, "truncate")
    /\ UNCHANGED <<file, phase, guard, stale>>

Truncate(a) ==
    /\ apc[a] = "truncate"
    /\ file' = Empty
    /\ Goto(a, "write")
    /\ UNCHANGED <<next, phase, guard, stale>>

\* From here on the revocation has begun for every guard taken so far.
Write(a) ==
    /\ apc[a] = "write"
    /\ file' = next[a]
    /\ stale' = {i \in Issuers: phase[i] = "guarded"}
    /\ Goto(a, "sync")
    /\ UNCHANGED <<next, phase, guard>>

\* The file is synced, or that fails: the lock is released.
Sync(a) ==
    /\ apc[a] = "sync"
    /\ Goto(a, "idle")
    /\ next' = [next EXCEPT ![a] = 0]
    /\ UNCHANGED <<file, phase, guard, stale>>

\* set_len or the write fails, or the process is killed there.
Stop(a) ==
    /\ \/ apc[a] = "truncate"
       \/ apc[a] = "write" /\ TornWrite
    /\ Goto(a, "idle")
    /\ next' = [next EXCEPT ![a] = 0]
    /\ UNCHANGED <<file, phase, guard, stale>>

-----------------------------------------------------------------------------
\* issuance_guard
TakeGuard(i) ==
    /\ Unlocked
    /\ phase[i] = "idle"
    /\ guard' = [guard EXCEPT ![i] = Epoch]
    /\ phase' = [phase EXCEPT ![i] = "guarded"]
    /\ stale' = stale \ {i}
    /\ UNCHANGED <<file, apc, next>>

\* commit_base, commit_scoped, renew_scoped, commit_pending: the record is
\* published only if the epoch is still the guard's.
Commit(i) ==
    /\ Unlocked
    /\ phase[i] = "guarded"
    /\ Epoch = guard[i]
    /\ phase' = [phase EXCEPT ![i] = "committed"]
    /\ UNCHANGED <<file, apc, next, guard, stale>>

\* The epoch changed, or the command fails for another reason or is done.
GiveUp(i) ==
    /\ phase[i] # "idle"
    /\ phase' = [phase EXCEPT ![i] = "idle"]
    /\ guard' = [guard EXCEPT ![i] = 0]
    /\ stale' = stale \ {i}
    /\ UNCHANGED <<file, apc, next>>

\* What a power loss leaves of the file: nothing, or a content no later than
\* any written so far.
Left ==
    {file, Empty} \union
    {e \in 0..MaxEpoch: e <= Epoch \/ \E a \in Advancers: apc[a] = "write" /\ e < next[a]}

\* The machine loses power and restarts: every command is gone, and with it
\* the lock and all guards.
Restart ==
    /\ file' \in Left
    /\ apc' = [a \in Advancers |-> "idle"]
    /\ phase' = [i \in Issuers |-> "idle"]
    /\ next' = [a \in Advancers |-> 0]
    /\ guard' = [i \in Issuers |-> 0]
    /\ stale' = {}

AdvanceStep(a) == BeginAdvance(a) \/ Truncate(a) \/ Write(a) \/ Sync(a) \/ Stop(a)
IssueStep(i) == TakeGuard(i) \/ Commit(i) \/ GiveUp(i)

Next ==
    \/ \E a \in Advancers: AdvanceStep(a)
    \/ \E i \in Issuers: IssueStep(i)
    \/ Restart

Spec == Init /\ [][Next]_vars

-----------------------------------------------------------------------------
\* Why a comparison of epochs is enough.  One advance is under way at a time;
\* what it left in the file agrees with where it stands; and no guard is ahead
\* of the epoch, a stale one is strictly behind it.
OneAdvance == \A a, b \in Advancers: apc[a] # "idle" /\ apc[b] # "idle" => a = b

AdvanceConsistent ==
    \A a \in Advancers:
        /\ apc[a] = "truncate" => next[a] = Epoch + 1
        /\ apc[a] = "sync" => file = next[a]

Written == \A a \in Advancers: apc[a] # "write"

GuardsBehind ==
    \A i \in Issuers: phase[i] = "guarded" =>
        /\ Written => guard[i] <= Epoch /\ (i \in stale => guard[i] < Epoch)
        /\ \A a \in Advancers: apc[a] = "write" => guard[i] < next[a]

EpochFileInv == TypeOK /\ OneAdvance /\ AdvanceConsistent /\ GuardsBehind

\* A guard is valid until the first advance after it.
Abstract == INSTANCE IssuanceEpoch WITH
                valid <- {i \in Issuers: phase[i] = "guarded" /\ i \notin stale}

\* The file implements the promise of the epoch: an issuance commits only if no
\* revocation began since it took its guard (read_epoch and increment_epoch as
\* commit_pending and its siblings use them).
ImplementsIssuanceEpoch == Abstract!Spec

\* "Advancing the epoch invalidates any in-flight token issuance or renewal
\* that began before revocation started" (docs/src/commands/revoke.md): no
\* issuance with a stale guard commits.
StaleGuardNeverCommits ==
    [][\A i \in Issuers:
         phase[i] = "guarded" /\ phase'[i] = "committed" => i \notin stale]_vars
=============================================================================
