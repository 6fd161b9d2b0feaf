# A TLA+ model of ghst

`ghst` hands short-lived GitHub tokens to commands. It mints a scoped token
from a cached base token, keeps what it must be able to take back in a cache
directory, and takes tokens back when a command ends (`ghst run`), when a
wrapper died (`ghst prune`) or when the user asks (`ghst revoke`). There is no
daemon: every command is a process of its own, and all they share is the cache
directory, the process table and GitHub. What is hard about it is therefore
what this project models: processes that interleave and die at any point, calls
to GitHub and to the file system that fail before or after they took effect,
and decisions taken on a view of the cache that is out of date.

Paths below are relative to `src/src/` unless they start with `docs/`.

## Inventory

| Component (files) | State | Operations | What makes it correct | Model |
|---|---|---|---|---|
| Run workflow (`run.rs`, `run/workflow.rs`, `run/store.rs`, `cmd/run.rs`) | run record: Pending, Running, CleanupPending | issue, commit, spawn, activate, wait, abort, finish, clean up | the record is written before the command sees the token and deleted only after the token is dead | `RunWorkflow` |
| Cleanup and prune (`run/cleanup.rs`, `run/recovery.rs`, `cmd/prune.rs`) | a snapshot of the cache, a report | delete expired, skip active, claim abandoned, revoke, delete | takes over from dead processes only; a clean report is true; nothing is left for ever | `Prune` |
| Revoke (`token/revoke.rs`, `token/store.rs`, `cmd/revoke.rs`) | a snapshot, a report | advance the epoch, select, revoke, delete exactly | no token issued before it survives a clean report | `Revoke` (runs), `RevokeCredentials` (base and scoped) |
| Cache store (`cache/store.rs`, `cache/storage.rs`, `cache/run_storage.rs`) | one file per token | compare-and-write, compare-and-delete under the exclusive lock | each operation is atomic and checks what it replaces; what is reported as done survives a power loss | `CacheStore`, `CredentialStore`, `Acquire`, `Login`; file by file in `CacheDirectory` |
| Issuance epoch and lock (`cache/lock.rs`, `credential/store.rs`) | a number in `.cache.lock` | read under the shared lock, advance under the exclusive lock | an issuance with a guard from before a revocation does not commit | `EpochFile`, `IssuanceEpoch`, `CacheDirectory` |
| Scoped issuance (`token/scoped.rs`, `token/validation.rs`, `token.rs`) | base token, guard, candidate | prepare, guard, mint, validate, evict the base token, revoke the candidate | a token that is not kept is revoked, or its loss is reported | `RunWorkflow`, `Acquire` |
| Acquisition and renewal (`token/acquire.rs`, `token/provenance.rs`, `cmd/token.rs`) | reusable scoped record | reuse, renew early, issue | a token handed out was issued for the caller's authority and policy from the base token it read; the first to persist wins; a displaced token is revoked | `Acquire`, `Issuance`, `CredentialStore` |
| Login (`token/login.rs`, `token/device_flow.rs`, `token/base.rs`, `cmd/login.rs`) | base record, polling interval | device code, poll, persist | polls keep the pace GitHub asks for; the flow ends, with what the user decided or an error; a lost race revokes the loser's token | `DeviceFlow`, `Authorization`; `Login`, `Issuance` |
| File publication (`fs.rs`) | temporary and published file, directory | write, sync, rename, sync; create if absent; repair a mode | a reader sees the old or the new content, whole, also after a power loss; nothing is overwritten by a template | `CacheDirectory`, `ConfigFile`, `ConfigEdit` |
| Processes and signals (`run/process.rs`) | child process, signal thread | spawn, forward, wait, terminate, liveness | only a process that is gone is reported dead | outcomes in `RunWorkflow`, `CacheStore` |
| GitHub client (`github/client.rs`, `github/types.rs`) | none | create, delete, device code, poll | answers are classified: what may have happened is not retried, an unknown answer is no decision | outcomes in `CacheStore`, `RunWorkflow`, `DeviceFlow` |
| Credentials (`credential.rs`) | none | expiry, margins, fingerprints | boundaries of the margin and of the renewal window; what may be handed out in place of what | `CredentialStore`, `CacheStore` |
| Cache identifiers (`cache/key.rs`, `cache/digest.rs`) | none | hash, abbreviate, match | what status prints selects that record | `CacheId` |
| Cache entry formats (`cache/types.rs`) | none | write, read back, refuse another schema | an entry that cannot be read is neither deleted nor overwritten | kinds and versions in `CacheDirectory` |
| Configuration and profiles (`config*`, `profile.rs`, `cmd.rs`) | `profiles.toml` | load, validate, resolve a profile, build the request | what passes validation suffices for every request | `ConfigRules`, `ConfigFile`, `Configuration` |
| `ghst edit` (`cmd/edit.rs`) | the file in the hands of an editor | create, repair the mode, run the editor, repair, load | the file is private and usable afterwards, also if the editor failed | `ConfigEdit`, `ConfigFile`, `Configuration` |
| Repository selection (`repository.rs`, `git.rs`) | none | parse, resolve, canonical form | one cache key per set of repositories; no other owner's repository | `RepositorySelection` |
| Status and reports, errors, browser, argument parsing | none | read-only output | - | the identifiers of status only |

### How they interact

A wrapper (`ghst run`), a prune and a revoke never talk to each other. They meet
in the run record, whose state only the holder of the exclusive file lock
changes; in the issuance epoch, which lets a revoke stop issuances it cannot
see; in the base token, whose generation a commit compares; and at GitHub, where
any of them may have made the token inactive already. The lock is never held
across a network call, a spawn or a wait.

`ghst token`, `ghst login`, `ghst revoke` and `ghst prune` meet in the two slots
of the reusable tokens in the same way: a command reads a slot, releases the lock,
talks to GitHub, and the operation that persists its result compares the epoch,
the base token and the slot with what it had read.

All of them change the cache directory through the same few file operations, one
storage operation at a time (`CacheDirectory`). A login waits for a user in the
device flow (`DeviceFlow`) and knows only its outcome. The configuration is
written by the user's editor, not by `ghst`; a command reads it once, through a
descriptor, and every request it makes follows from what it read then
(`Configuration`).

### Behaviours that are hard

`PROJECT.json` lists the hazards with their lines. The main ones are: prune and
revoke work through a snapshot taken earlier; the wrapper can be killed
between any two calls, in particular between the spawn and recording the child;
a call to GitHub may take effect although its answer is lost; a file operation
may be reported as failed although the file was replaced or removed; an epoch
advance falls between any two steps of an issuance; and the epoch file itself is
rewritten in place. Below that, a storage operation is several file operations
that each may fail or be undone by a power loss; the device flow meets slow
answers, lost answers and a user who never decides; and `ghst edit` gives a file
away to a program that may truncate it, replace it or fail.

## Modules

| Module | Stands for |
|---|---|
| `CacheStore` | The shared state (cache, epoch, base token, process table, GitHub, clock), the transition guards of `run.rs`, and the storage operations. |
| `RunWorkflow` | One wrapper per run; one action per call that another process can observe; `pc` names the next call. |
| `Prune`, `Revoke` | One process per pruner or revoker, each repeating its command. |
| `RunLease` | The composition, its properties and its fairness; shown to implement `RunToken`. |
| `RunToken` | Abstract: what `ghst run` promises of each token. |
| `MCRunLease` | Instances of `RunLease` for TLC. |
| `CredentialStore` | The two slots of the reusable tokens, GitHub's view of every token, expiry, renewal window, compatibility, prune. |
| `Issuance` | What `ghst token` and `ghst login` share: the guard, the candidate, its revocation, the death of the process. |
| `Acquire`, `Login`, `RevokeCredentials` | One process each per command: reuse, renew or mint; log in; revoke base and scoped tokens. |
| `CredentialCache`, `MCCredentialCache` | Their composition with its properties, and its instances for TLC. |
| `IssuanceEpoch` | Abstract: what the issuance epoch promises. |
| `EpochFile` | Detailed: the epoch file under its lock, shown to implement `IssuanceEpoch`. |
| `CacheId` | Cache identifiers: abbreviation and matching. |
| `CacheDirectory`, `MCCacheDirectory` | Extends `EpochFile`: entry files, temporary files, syncs and power loss; publications and revocations one file operation at a time. Shown to implement `EpochFile`. |
| `Authorization` | Abstract: what a device flow promises the login. |
| `DeviceFlow` | Detailed: client, network, GitHub and user, with the time between polls. Shown to implement `Authorization`. |
| `RepositorySelection`, `ConfigRules` | Pure: from repository words to a canonical selection; validation, resolution and the request. |
| `ConfigFile`, `ConfigEdit` | The configuration file and `ghst edit`, one file operation at a time, with the editors. |
| `Configuration`, `MCConfiguration` | The composition of editors and commands over one file, and the properties of the rules. |
| `RunLeaseProofs`, `LeaseInvariantProofs`, `RunTokenProofs` | Theorems about `RunLease`: types and the revoke; the inductive invariant and what follows; the implementation of `RunToken`. |
| `CredentialCacheProofs`, `EpochFileProofs`, `CacheDirectoryProofs`, `DeviceFlowProofs`, `ConfigurationProofs` | Theorems about the module of that name. |

### State and code

* `cache[r]` is the file `<sha256 of the run id>.json`: `NoRecord` if there is no
  file, else lifecycle state and whether the child's pid is recorded. Run id,
  wrapper pid, token and expiry never change in a record, so the slot gives them.
* `epoch`, `baseGen` and `baseCached` are the number in `.cache.lock`, the
  generation fingerprint of the cached base token, and whether it is cached.
* `remote[r]`, `expires[r]` are GitHub's view of the token: none yet, live, dead,
  or stray (minted, but the answer was lost, so no command holds it).
* `wrapper[r]`, `child[r]` are the two processes. A command that `terminate_and_wait`
  failed to stop stays alive.
* `clock` is one wall clock for all processes and GitHub. `cmd/prune.rs` and
  `cmd/revoke.rs` read it once, before they inspect the cache: `pnow` and `vnow`
  are any time up to the clock of the inspection.
* `localOnly` collects the runs whose record a revoke deleted without taking the
  token back (near expiry, or no usable authority), as its report says.
* `began[r]` (the epoch when the base token was read) and `vepoch`, `vcovered`,
  `vclean` (what the last revoke saw and reported) are history.

In `CredentialStore` and the modules above it:

* A token is the number of its minting. The generation fingerprint of a base
  token is a hash of its access token, so the number is the generation, and
  `token[t].parent` is the generation that a scoped token records. `cached[s]` is
  the token in the file of slot `s`, or 0.
* The configuration may be edited between two commands: every invocation picks
  the authority and the policy it works with, and `token[t]` remembers them, as
  the provenance in the record does.
* `fate[t]` tells who had a token revoked; `untracked[t]` tells why no command and
  no file keeps track of one that works (a lost answer, a killed process, an
  incompatible record that was overwritten, a failure the user was told of, or a
  renewal whose publication failed after the rename). `doubtful` collects the
  tokens whose publication was reported as failed. These, `token[t].guard` (the
  guard of its issuance) and `epoch`, `covered`, `clean` in `rev` are history.
* `proc[p]` is the local state of one `ghst token` or `ghst login`: `pc` names its
  next call, `base` and `old` are the tokens it read, `guard` its issuance guard,
  `held` the candidate, `result` what it will print. It is reset when the command
  returns, and the process is then invoked again.
* `at` is a time that the code reads before it needs it; a decision uses any time
  from `at` to the clock.

A storage operation is one step: the code runs it under the exclusive lock. Its
failures are part of it. `Publish` leaves the old or the new record when it
reports an error, because `publish_replacement` may fail after its rename;
`DeleteCleanupPending` and `DeleteExact` may report an error after the removal.
`DeleteToken` answers 404 for a token that is inactive, as the code assumes, and
an error may hide a revocation that took effect.

`EpochFile` opens the one operation that is not atomic by itself, the rewrite of
the epoch file, into read, truncate, write and sync, with the file lock held by
whoever is under way. A process that dies releases the lock. A power loss
(`Restart`) kills every command, so no guard survives it; that the epoch may then
be set back to any earlier value is harmless.

In `CacheDirectory`:

* `files[k]` is what a process finds under the key `k`; `disk[k]` is the set of
  entries that a power loss may leave there: a rename or removal adds to the set,
  a sync of the directory reduces it to `files[k]`. A file whose bytes were not
  synced could be left `Torn`. The directory is synced as a whole, so an operation
  also makes durable what an earlier one, whose sync failed, left behind.
* `step[p]` is the next file operation of the storage operation that process `p`
  is in, which is also what holds the lock; `slot[p]` is its entry.
* `revocation[a]` is the snapshot of a `ghst revoke` and what it has left to do.
  Between two deletions it holds no lock. `Keep` stands for every reason why an
  entry is not deleted, in the report a failure.
* An entry is its kind, schema version and token. Deletions by a prune, by the
  eviction of a base token and by the cleanup of a run are the same two file
  operations as `Unlink` and `Deleted`, with guards that `CacheStore` and
  `CredentialStore` have; a run's later states keep kind, version and token.
* `settled` (entries unchanged since a success was reported for them) and `gone`
  (tokens that a revocation without failures deleted) are history.

A command may be given a token whose publication then failed to sync: the reader
cannot know, and a power loss may take the entry back. The promise is to who was
told of a success. The temporary file of a killed command stays, under a name
(`.ghst-*.tmp`) that no reader looks for.

In `DeviceFlow`, a unit of time is the 5 seconds of a `slow_down`. `wire` is the
one HTTP call under way, with the answer that comes back; `Break` replaces a call
or its answer by a failure. `pace` is what GitHub asks for and `since` the time
since the last request that it saw; `interval` and `left` are what the client
knows of it. An answer that carries the token uses the code up, whether it arrives
or not.

In `Configuration`, `inodes` are the files that had the name one after another
and `path` the one that has it; a process that opened a file keeps it in `fd`.
Mode, owner, link count and type are two facts, `private` (0600) and `own` (a
regular file of the user with one link); the directory is open or private, and
checked only where it is the default one (`managed`). The editor is external:
it may save in place, replace the file by one of any mode, or remove it, any
number of times (`Save`); another `ghst edit` may do so between any two
operations of this one. `asked[c]` is what a command is called with and the
origin remote of the directory it runs in, `loaded[c]` the configuration it read;
its request follows from the two. Names and accounts are numbers.

## Runs

| Run | Instance | Shows |
|---|---|---|
| `commands` | 1 run, 1 prune, 1 revoke; clock to 1 | A token that a command has seen is recoverable until it is dead (`ExposedTokensRecoverable`); no record of an older epoch escapes the snapshot of `revoke --all` (`RevokeCoversEarlierIssuance`) and a clean report ends the exposure (`CleanRevokeEndsExposure`); every step is one of the life that `RunToken` promises (`ImplementsRunToken`); the inductive invariant `LeaseInv`; types. |
| `recovery` | 1 run, 2 prunes (symmetric), 2 base tokens, pid reuse; clock to 2 | Reports are true (`CompleteMeansReleased`, `FailureReportsLeak`, `PruneSuccessReclaims`), records only move forward (`LifecycleForward`), and only abandoned runs are claimed (`ClaimOnlyAbandoned`). |
| `reclaim` | 1 run, 1 prune repeated for ever; clock to 2 | `IdleRunReclaimed`, under fairness. |
| `cache_directory` | 2 issuances, 2 revocations, 2 keys that share their first digits; epoch to 2, 2 tokens | `CacheDirectory => EpochFile` (`ImplementsEpochFile`) and `=> IssuanceEpoch` while no rewrite is torn; entries are whole (`OnlyWholeEntries`), successes and clean revocations survive a power loss (`SuccessIsDurable`, `CleanRevocationIsDurable`), foreign files stay (`InvalidFilesRetained`), identifiers select (`StatusIdSelects`); the inductive invariant `DirectoryInv`. |
| `configuration` | 2 `ghst edit` and a command, 2 files that have the name one after another; or a command and every configuration with up to 2 profiles; or two commands and lists of repositories | A finished edit leaves a usable file (`EditLeavesUsableFile`), a template never replaces a file (`TemplateNeverReplaces`); what is validated suffices (`RequestsAreComplete`), and a list of words means one scope and one key (`ScopesAreAsMeant`, `OneKeyPerScope`); the inductive invariant `ConfigInv`. |
| `device_flow` | 1 login; intervals of 0 to 3 units, a code valid for 8, a pace of up to 5 | `PollsRespectPace`, `NoPollAfterToken`, `DeviceFlow => Authorization`, and under fairness the flow ends (`FlowEnds`). |
| `renewal` | 2 `ghst token`, 1 base token and up to 3 scoped ones; clock to 2 | Reuse, renewal and issuance race for one slot: every working token is accounted for (`WorkingTokensAccounted`), nobody revokes the token in the cache (`CachedTokensWork`), the first to persist wins (`OnlyRenewalDisplaces`). |
| `contention` | 2 `ghst token` with 2 policies, or one of them and a login, or 2 logins; 3 tokens; clock to 1 | A command never returns a token of another configuration or base token (`ReturnedTokenFits`); the winner's token is kept (`OnlyRenewalDisplaces`) and no token is lost without a reason (`WorkingTokensAccounted`). |
| `credential_revocation` | 1 `ghst revoke` with a `ghst token` or a `ghst login`; 3 tokens; clock to 1 | No older issuance, renewal or login commits behind a revoke (`RevokeCoversEarlierIssuance`), a clean report is true (`CleanRevokeEndsTokens`), and only what was inspected is removed, a base token that GitHub rejected among it (`OnlyInspectedRemoved`); the inductive invariant `CacheInv`. |
| `interrupted`, `in_flight`, `torn_epoch` | as small as the disagreement allows | Three sentences of the repository that the code does not keep; see below. |

### Bounds

Runs do not share anything but the epoch, the base token and the clock, and a
command treats the records of its snapshot one by one and independently, so one
run with all the commands that touch it covers the interleavings; the theorems
hold for any number. Two prunes are needed for a prune that acts on another
one's leftovers. `MaxClock` and `Lifetimes` let a token be refused on receipt
(lifetime not above `Margin`), used within the margin, and expire at every
point of the other commands. `MaxEpoch` 1 is one revoke; a second one starts
from a cache that the first left behind. `MaxGen` 2 lets a login replace the base
token during an issuance. `EpochFile` needs three epochs so that a restarted count
can meet an older guard. `PidReuse = TRUE` lets a dead process look alive, never
the reverse. `CHECK_DEADLOCK FALSE` stands where no prune repeats: every command
returns and nothing is left to do.

The reusable tokens are one source profile and one scoped profile, hence two
slots: two pairs of slots have no state in common, and two scoped profiles share
only the base token, which `ghst login` replaces under a running command in
`contention` already. `Meetings` says which commands run at the same time in one
behaviour; each process is invoked again and again. Two processes suffice,
because a command can only lose to what the file holds, which one other command
can have written. In `contention` and `credential_revocation`, `Margin` 1 and
`Window` 2 with lifetime 2 make a token renewable at once and unsafe but working
a step later; in `renewal`, `Margin` 0 and `Window` 1 with lifetime 2 take it
through fresh, renewable and expired, so that `ghst prune` has work. `MaxTokens` 4
is what a renewal race needs: the base token, the token to renew, and a
candidate for each command; the other runs need 3. The two policies of
`contention` stand for everything that an edit of the configuration can change:
authority, policy and generation are compared alike, as one tuple (`Provenance`).
`MaxEpoch` 0 leaves the revokes out.

In `cache_directory` an operation changes one entry and a sync concerns all of
them, so two keys show what one operation does to the entry of another; one is
a run's, which a publication must not find, and they share their first two digits.
The second revocation competes with the first for the lock or starts from what it
left; two tokens let a key be deleted and published again. `TornWrite` is FALSE: the exception is
what `torn_epoch` is about. File systems that undo a synced rename or tear
a synced file are not considered. In `device_flow`, 0 is an interval of less than a unit and the code
lives long enough for two `slow_down`s and a poll at the slower pace;
`DeviceFlowProofs` holds for every interval and lifetime. 

`MCConfiguration` has three meetings. In the first, two editors and a command
share a file; two files let it be replaced while another process has the first
one open, and what is saved is valid or not. In the second nobody edits, and a
command with any of 36 ways to call it and 6 remotes meets every configuration of
up to two profiles; two names allow every relation between a profile and its source (itself, another, a
missing one). In the third, one command has every list of up to three of seven words, and two
commands every pair of lists of up to two words in two directories: a key is shared
or not by two, and three words have two spellings of one repository and another.
The origin of one of the directories is spelled with capitals, so that `auto` and a
word for the same repository have to meet in one key.

### Fairness

`FairSpec` assumes that a wrapper that is not killed is scheduled, except that it
waits for its command as long as the command runs (`Waiting`); that the user runs
`ghst prune` again and again and not every prune is killed part-way; and that
GitHub, the file system and the configuration do not fail every time
(`PruneProgress`: strong fairness of each step of a prune with the outcome that
makes progress, because such a step is enabled and disabled by other commands).
Nothing is assumed of the command itself, of the clock, or of crashes. Liveness
is checked without pid reuse: a process id that stays taken makes a run look
active until its token expires.

`FlowEnds` assumes that time passes, that the client is scheduled, and that every
HTTP call comes to an end, by an answer or a broken connection: `ureq` sets no
timeout for it, so a connection that hangs for ever would keep a login waiting.
Nobody has to decide: GitHub's answer that the code expired ends the flow. GitHub
does not raise the pace for ever (`MaxPace`), and no fairness is asked of a
particular answer.

The other runs state safety properties only and assume no fairness.

## What the repository says and the code does not keep

* `interrupted`: `docs/src/commands/prune.md:42` promises that a prune never
  interrupts running commands. A wrapper that is killed between the spawn and the
  activation leaves a record without a child pid; `run/recovery.rs:150` then takes
  the run for abandoned and its token is revoked under the running command.
* `in_flight`: `docs/src/commands/revoke.md:47` says that an advance invalidates
  issuances that began before it. The guard is taken after the base token is read
  (`token/scoped.rs:93`): a revoke between the two is not noticed by the epoch.
  `RevokeCoversEarlierIssuance` states what does hold: it is the guard that counts.
* `torn_epoch`: `increment_epoch` truncates the file before it writes. Stopped in
  between, it leaves an empty file, which reads as epoch 0, and later advances
  repeat numbers that old guards still carry.

Two smaller remarks, which no run is about. The warning that "recovery state was
retained" (`cmd/run.rs:57`) is also printed when the record is gone
(`delete_run_after_cleanup` fails after the removal if the directory sync fails).
And when `renew_scoped` reports an error after its rename took effect, the code
revokes the candidate that is now in the cache and leaves the displaced token
without a record until it expires; `WorkingTokensAccounted` names this case.

## Proofs

Every safety property, action property and refinement that a passing run checks is
also a theorem, for every number of runs, prunes, revokes, commands and editors
and for every value of the bounds, times, lists and configurations. What a
theorem assumes is the named `ASSUME`s on the constants, no more:

| Module | Assumption | Why |
|---|---|---|
| `CacheStore`, `CredentialStore` | margins, lifetimes and bounds are natural numbers, `Margin <= Window`; `MaxTokens` at least 1; "base" is no policy | times are seconds; the renewal window starts before the handoff margin (`credential.rs`); with no token at all there is nothing to say |
| `Issuance`, `EpochFile`, `CacheDirectory`, `ConfigFile` | the processes of two kinds differ (`IssuersAssumption`, `ProcsAssumption`) | a process runs one command |
| `CacheId` | keys are sequences of digits, at least `MinId` long, all of one length (`KeysAssumption`) | `cache/key.rs` names a file by a SHA-256 in hexadecimal and accepts no other length |
| `CacheDirectory` | `NoFile`, `Torn` and entries differ | they stand for what a read can tell apart |
| `EpochFileProofs` | `TornWrite = FALSE` in the theorems that say the promise is kept | the exception is what `torn_epoch` is about |
| `DeviceFlow` | intervals of at most `MaxPace`; `Step` and `Lifetime` above 0 | GitHub's `slow_down` adds 5 seconds |
| `ConfigFile`, `Configuration` | what a file holds, what a command is called with and the origin remote have the form of one (`ContentsAssumption`, `ConfigsAssumption`, `ArgumentsAssumption`, `RemotesAssumption`); one file at least (`MaxFilesAssumption`) | serde and clap refuse the rest. Validity is not assumed: any mixture of profiles, sources, secrets and lists may be in the file |

### Runs, prunes and revokes

* `TypeCorrect`, `RevokeCovers` (`RunLeaseProofs`). `RevokeCoversEarlierIssuance`
  is inductive together with `RevokeEpochs` and types: a record appears only in
  `CommitPending`, whose comparison puts its guard at the current epoch, which no
  `vepoch` exceeds; a guard is taken only while there is no record; and
  `revoke --all` covers every record there is.
* `LeaseInvariant` (`LeaseInvariantProofs`): `Spec => []LeaseInv`. Reports alone are
  not inductive: that a deleted record's token is dead must be known before the
  deletion (`DeletersKnow`), and the token of a run must be recoverable from its
  commit on, before its command sees it (`CommittedRecoverable`); what a clean
  prune or revoke has not dealt with is still on its list (`PruneProgressing`,
  `CleanRevokeProgress`). A run that is not committed is unknown to everybody
  (`FreshUnknown`), so that its record cannot disappear under it; a prune cleans up
  one run at a time and a finished revoke has an empty list (`OneAtATime`), and
  from its mint to its end a run has a token, and one that discards it has no
  command (`Underway`): without these two an unreachable state would break the
  others. The proof first says what a step may change of one run, one prune and
  one revoke, then takes one conjunct after the other.
* `ExposedRecoverable`, `CompleteReleases`, `FailureLeaksNothing`, `CleanRevokeEnds`,
  `CleanPruneReclaims` follow from it; `LifecycleMovesForward` and
  `ClaimsOnlyAbandoned` by a case analysis of the steps with it.
* `LeaseImplementsPromise` (`RunTokenProofs`): `RunLease` implements `RunToken`,
  mapped by what is minted (`remote`), active, in the cache, was given to a child,
  is in `localOnly`, and the wrapper's outcome. A step is seen from one token at a
  time: `Mint` is `Issue`, `CommitPending` is `Record`, `Spawn` is `HandOut`, and all
  else that any command, the clock or a crash does to a token is a `Release` or
  leaves it alone. `PromiseSuffices` says what that is worth: `RunToken` alone, by
  an induction on its own four steps, implies `ExposedTokensRecoverable`,
  `CompleteMeansReleased` and `FailureReportsLeak`.

### Reusable tokens

* `CacheInvariant` (`CredentialCacheProofs`): `Spec => []CacheInv`. A candidate that
  is to be persisted is in no file and in nobody else's hands (`OwnCandidate`), or
  its revocation after a lost race could hit a token that another command keeps;
  a command's tokens are of its own configuration (`CommandsConsistent`), or what
  it returns would depend on who wrote last; the base slot holds base tokens
  (`BaseSlot`); and a revoke knows what its report has to answer for
  (`DeletersKnow`, `CleanRevokeProgress`). Steps are grouped by their effect (a token
  is minted, published, revoked, deleted, or only a process moves on), and each
  effect is shown to keep the conjuncts it could disturb.
* `TokensAccounted`, `CachedTokensSpared`, `ReturnsFit`, `RevokeCovers` and
  `CleanRevokeEnds` follow; `RenewalDisplaces` and `InspectedRemoved` are action
  properties, by the steps that write a file.

### The cache directory

* `DirectoryInvariant`: `DirSpec => []DirectoryInv`. The conjuncts need each
  other. `OneOperation` and `OperationsFit` say who is in which step under the
  lock, so that an epoch or an entry that was compared is still the same at the
  rename. `DiskFits` bounds what a power loss may leave: always what processes
  find, nothing else for a settled entry, and never a torn one. `TokensUnique`
  says that a token has one place over all that may be left; without it a deleted
  entry could come back under another key. `SelectionFits` says of a revocation
  without failures so far that what it has dealt with is nowhere, and
  `GoneForGood` keeps that after its report.
* `EntriesWhole`, `CleanRevocationDurable` follow from it, `SuccessDurable` and
  `InvalidFilesStay` by a case analysis of the steps with it.
* `StatusIdsSelect`: among the identifiers of a key that tell it from the other keys
  in use there is a shortest (its whole key is one, as no key is a prefix of
  another of the same length), so `Abbreviate` prints one that selects this key
  alone.
* `DirectoryImplementsEpochFile`: `Rename` is the `Commit` of `EpochFile`, the steps
  of an advance are its own, and every other step stutters. Together with
  `EpochFileImplementsPromise` it gives `DirectoryImplementsPromise`, under
  `TornWrite = FALSE`.
* `EpochFileInvariant`, `EpochFileImplementsPromise`: without a torn rewrite, at
  most one advance is under way, the file agrees with where it stands, and no
  guard is ahead of the epoch, a stale one strictly behind; so a commit maps to
  `Commit` of `IssuanceEpoch`, `Write` maps to `Advance`, and the other steps map
  to their namesakes or stutter.

### The device flow

* `FlowInvariant`: `Spec => []FlowInv`. A poll keeps the pace
  because at every point of a sleep what is left and what has passed suffice
  (`Paced`), which in turn needs that the pace the client knows lags behind by at
  most the `slow_down` under way; `AnswersTell` relates an answer to what became of
  the code since. `PaceRespected` and `TokenEndsPolling` follow.
* `FlowImplementsPromise`: sends, sleeps and answers that decide nothing stutter;
  the last answer is the grant, the refusal or the failure of `Authorization`.

### The configuration

* `ConfigInvariant` (`ConfigurationProofs`): `Spec => []ConfigInv`. After an editor
  exited, and while nobody saves, its `ghst edit` holds the file that has the name
  when it comes to the second repair, and from that repair on the file is private
  and the user's own until it ends (`RepairHolds`), which is what
  `EditLeavesUsableFile` needs; an editor is under way only where there is a
  directory (`EditorsUnderWay`); and an answer is one to the valid configuration
  that was read, so that it does not matter what becomes of the file
  (`AnswersFit`). Steps that save nothing keep a usable file usable (`UsableStays`,
  `OthersStay`); one that saves puts every editor into `touched`.
* `FinishedEditUsable` is a conjunct of it. `TemplateTakesFreeName` is an action
  property, by the one step that publishes.
* `RequestsComplete`: a valid configuration has no wrong profile (the least of them
  would be its error), hence each case of `Request` either fails by what the user
  asked or has an app with all that it needs. `ScopesMeant`: the first wrong word of a
  list exists exactly when some word cannot be meant.
* `KeysAreScopes`: a finite set of repositories can be put in order, by a smallest
  counterexample: its first repository before the others in order. So the
  canonical form tells the set, a set tells the scope that was meant, because a
  repository without its case is its owner and name, and as all have the same
  owner, the names alone are as many.

### What is only model-checked

* Liveness under fairness (`IdleRunReclaimed`, `FlowEnds`) and ENABLED are outside
  what the prover can do.
* The three sentences that the code does not keep are refuted by a run, and not
  theorems.
* `FlowInv` and `EpochFileInv` are proved and not checked by a run: `PollsRespectPace`,
  a conjunct of the one, and the refinement that the other is for are. `LeaseInv`,
  `CacheInv`, `DirectoryInv` and `ConfigInv` are both.
* The theorems say what the models do. That `CacheStore` and `CredentialStore` may
  take a storage operation for one step is shown by `CacheDirectory` as far as the
  epoch and a publication go (`DirectoryImplementsEpochFile`); it is not stated as
  one refinement of the composed systems.

## Not modelled

* Run records and reusable tokens together: `RunLease` sees the base token
  disappear or be replaced at any time (`RemoveBase`, `CommitBase`), and
  `CredentialCache` has no runs. A revoke of everything is their sum: it works
  through its list one record after the other.
* That an incompatible scoped token which a commit overwrites keeps working until
  it expires: the code intends this, the model names it (`Lose`, reason "lost").
* Files that cannot be read as records are in `CacheDirectory` only; in the other
  modules they would stay as they are.
* A profile that changes from an app to a scoped one with the scope "all" keeps its
  cache key, and commits fail (`UnexpectedKind`) until the old entry is revoked: an
  entry keeps its kind in the models.
* Run id collisions (32 random bytes), the empty client secret in a wrapper's own
  cleanup (its configuration has one), and a 404 for a token that works.
* Loss of data at power failure in `RunLease` and `CredentialCache`, which have
  process crashes only; `CacheDirectory` shows that what a command was told to be
  stored or deleted is not undone.
* How `ghst edit` finds its editor and splits its command line, the grammar of
  remote URLs and repository names, TOML, JSON, HTTP, and all texts and formats:
  data, or one step that may fail.
* Signals: a wrapper forwards them, which the model sees as the exit of the child.
* `ghst status` and `ghst profiles` change nothing and are not actions.
* The browser: `ghst login` starts it and goes on, whatever comes of it.

## Plan

An abstract specification of the slot of a reusable token, as `RunToken` is one of
a run's token, implemented by `CredentialCache`.
