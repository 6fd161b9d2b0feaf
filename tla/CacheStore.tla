----------------------------- MODULE CacheStore -----------------------------
(***************************************************************************)
(* The state that ghst commands share, and the storage operations they all *)
(* go through.                                                             *)
(*                                                                         *)
(* Every command is a process of its own.  They share the cache directory  *)
(* (one file per run token, the base token of the source profile, the      *)
(* issuance epoch), the operating system's process table and GitHub.  Each *)
(* storage operation runs under the exclusive cache lock, so it is one     *)
(* atomic step here; nothing else is atomic with it.                       *)
(*                                                                         *)
(* A storage operation can fail.  publish_replacement (src/src/fs.rs) may  *)
(* report an error before its rename or after it, and a deletion may be    *)
(* reported as failed although the file is gone.  A lifecycle operation is *)
(* written as a relation between cache, cache' and the result `ok` that    *)
(* its caller sees.                                                        *)
(***************************************************************************)
EXTENDS Naturals

CONSTANTS
    Runs,       \* foreground invocations; each has its own random run id
    Margin,     \* the handoff safety margin (30 seconds)
    Lifetimes,  \* token lifetimes that GitHub may answer with
    MaxClock,   \* bound on the clock
    MaxEpoch,   \* bound on the issuance epoch
    MaxGen,     \* bound on the number of base tokens ever cached
    PidReuse    \* whether a dead process may look alive (its pid was reused)

ASSUME MarginAssumption    == Margin \in Nat
ASSUME LifetimesAssumption == Lifetimes \subseteq Nat
ASSUME BoundsAssumption    == MaxClock \in Nat /\ MaxEpoch \in Nat /\ MaxGen \in Nat
ASSUME PidReuseAssumption  == PidReuse \in BOOLEAN

VARIABLES
    clock,      \* wall clock, read by every process and by GitHub
    epoch,      \* issuance epoch kept in .cache.lock
    baseGen,    \* generation of the last base token cached for the source
    baseCached, \* whether that base token is (still) in the cache
    cache,      \* run -> its recovery record, or NoRecord
    remote,     \* run -> what GitHub knows of its token
    expires,    \* run -> expiry of its token
    wrapper,    \* run -> its `ghst run` process
    child,      \* run -> the command it spawned
    localOnly   \* runs whose record a revoke deleted without a remote revocation

storeVars == <<epoch, baseGen, baseCached, cache>>
worldVars == <<clock, remote, expires, wrapper, child>>
sharedVars == <<storeVars, worldVars, localOnly>>

-----------------------------------------------------------------------------
(***************************************************************************)
(* Records.  The run id, the wrapper pid and the token of a record never   *)
(* change and are given by its slot; what changes is the lifecycle state   *)
(* and whether the child's pid is recorded.                                *)
(***************************************************************************)
RunState == {"Pending", "Running", "CleanupPending"}
ChildPid == {"None", "Some"}
RunRecord == [state: RunState, child_pid: ChildPid]
NoRecord == [state |-> "Absent", child_pid |-> "None"]
Slot == RunRecord \union {NoRecord}

Present(entry) == entry.state # "Absent"

\* TokenExpiry: elapsed, and usable with at least the margin left.
Expired(r, now) == expires[r] <= now
SafeToHandoff(expiry, now) == expiry > now + Margin

\* A token that works at GitHub now.
Active(r) == remote[r] = "live" /\ ~Expired(r, clock)

StoreTypeOK ==
    /\ clock \in Nat
    /\ epoch \in Nat
    /\ baseGen \in Nat
    /\ baseCached \in BOOLEAN
    /\ cache \in [Runs -> Slot]
    /\ remote \in [Runs -> {"none", "live", "dead", "stray"}]
    /\ expires \in [Runs -> Nat]
    /\ wrapper \in [Runs -> {"alive", "dead"}]
    /\ child \in [Runs -> {"none", "alive", "dead"}]
    /\ localOnly \subseteq Runs

\* A cache that holds one base token, and no run yet.
StoreInit ==
    /\ clock = 0
    /\ epoch = 0
    /\ baseGen = 1
    /\ baseCached = TRUE
    /\ cache = [r \in Runs |-> NoRecord]
    /\ remote = [r \in Runs |-> "none"]
    /\ expires = [r \in Runs |-> 0]
    /\ wrapper = [r \in Runs |-> "alive"]
    /\ child = [r \in Runs |-> "none"]
    /\ localOnly = {}

-----------------------------------------------------------------------------
(***************************************************************************)
(* Lifecycle transitions of one record: the guard of each method of        *)
(* RunRecord, and the record it leaves.                                    *)
(***************************************************************************)
CanActivate(entry) == entry = [state |-> "Pending", child_pid |-> "None"]
Activated == [state |-> "Running", child_pid |-> "Some"]

CanAbort(entry) == entry = [state |-> "Pending", child_pid |-> "None"]
Aborted(pid) == [state |-> "CleanupPending", child_pid |-> pid]

CanFinish(entry) == entry = [state |-> "Running", child_pid |-> "Some"]
Finished == [state |-> "CleanupPending", child_pid |-> "Some"]

\* Mutants: the record is not compared with the one inspected; a run that was
\* never activated is not reclaimed.
CanClaimUnchecked(entry, expected) == entry.state \in {"Pending", "Running"}
CanClaimOnlyRunning(entry, expected) == entry = expected /\ entry.state = "Running"

CanClaim(entry, expected) ==
    entry = expected /\ entry.state \in {"Pending", "Running"}

\* Mutant: a claim writes a state of its own.
ClaimedAsAbandoned(entry) == [entry EXCEPT !.state = "Abandoned"]

Claimed(entry) == [entry EXCEPT !.state = "CleanupPending"]

CanDeleteAfterCleanup(entry, expected) ==
    entry = expected /\ entry.state = "CleanupPending"

-----------------------------------------------------------------------------
(***************************************************************************)
(* Storage operations.                                                     *)
(***************************************************************************)

\* publish_replacement: reported success means the file is replaced; an error
\* may come before the rename or after it.
Publish(r, entry, ok) ==
    \/ cache' = [cache EXCEPT ![r] = entry]
    \/ ~ok /\ UNCHANGED cache

\* Mutant: a missing record is written anew.
UpsertRun(r, allowed, entry, ok) ==
    \/ (allowed \/ ~Present(cache[r])) /\ Publish(r, entry, ok)
    \/ ~allowed /\ ~ok /\ UNCHANGED cache

\* update_run: a missing record or a refused transition is an error that
\* changes nothing; otherwise the record is published and read back.
UpdateRun(r, allowed, entry, ok) ==
    \/ allowed /\ Publish(r, entry, ok)
    \/ ~allowed /\ ~ok /\ UNCHANGED cache

\* delete_cleanup_pending: a missing record counts as done; a mismatch or an
\* I/O error is reported; the directory sync may fail after the removal.
DeleteCleanupPending(r, expected, ok) ==
    \/ ~Present(cache[r]) /\ UNCHANGED cache
    \/ CanDeleteAfterCleanup(cache[r], expected) /\ cache' = [cache EXCEPT ![r] = NoRecord]
    \/ ~ok /\ UNCHANGED cache

\* delete_exact_record: removes the record only if it equals the inspected one.
DeleteExact(r, expected, outcome) ==
    \/ outcome = "Missing" /\ ~Present(cache[r]) /\ UNCHANGED cache
    \/ outcome = "Changed" /\ Present(cache[r]) /\ cache[r] # expected /\ UNCHANGED cache
    \/ outcome \in {"Deleted", "SyncFailed"} /\ Present(cache[r]) /\ cache[r] = expected
          /\ cache' = [cache EXCEPT ![r] = NoRecord]
    \/ outcome = "Error" /\ UNCHANGED cache

\* The client's DELETE of a run token.  GitHub answers 404 for a token that is
\* no longer active; a failed call may have taken effect.
DeleteToken(r, answer) ==
    \/ answer = "Ok" /\ Active(r) /\ remote' = [remote EXCEPT ![r] = "dead"]
    \/ answer = "NotFound" /\ ~Active(r) /\ UNCHANGED remote
    \/ answer = "Error" /\ \/ UNCHANGED remote
                           \/ Active(r) /\ remote' = [remote EXCEPT ![r] = "dead"]

-----------------------------------------------------------------------------
(***************************************************************************)
(* What the rest of the machine does.                                      *)
(***************************************************************************)

Tick ==
    /\ clock < MaxClock
    /\ clock' = clock + 1
    /\ UNCHANGED <<storeVars, remote, expires, wrapper, child, localOnly>>

\* `ghst login` caches another base token, at an epoch that did not change
\* since it took its guard.
CommitBase ==
    /\ baseGen < MaxGen
    /\ baseGen' = baseGen + 1
    /\ baseCached' = TRUE
    /\ UNCHANGED <<epoch, cache, worldVars, localOnly>>

\* Another command removes the base token: an eviction after GitHub rejected
\* it, a revocation, or a prune of an expired one.
RemoveBase ==
    /\ baseCached
    /\ baseCached' = FALSE
    /\ UNCHANGED <<epoch, baseGen, cache, worldVars, localOnly>>

\* The command exits, by itself or by a signal, forwarded or not.
ChildExit(r) ==
    /\ child[r] = "alive"
    /\ child' = [child EXCEPT ![r] = "dead"]
    /\ UNCHANGED <<storeVars, clock, remote, expires, wrapper, localOnly>>

\* check_liveness: only a process that is gone is ever reported dead.
ReportedDead(process) == process = "dead"
ReportedAlive(process) == process = "alive" \/ PidReuse

EnvNext ==
    \/ Tick
    \/ CommitBase
    \/ RemoveBase
    \/ \E r \in Runs: ChildExit(r)
=============================================================================
