--------------------------- MODULE CacheDirectory ---------------------------
(***************************************************************************)
(* The cache directory, one file operation at a time.                      *)
(*                                                                         *)
(* A storage operation holds the exclusive lock on .cache.lock and changes *)
(* at most one entry file: it writes and syncs a temporary file, renames   *)
(* it over the entry and syncs the directory, or it removes the entry and  *)
(* syncs the directory.  Any of these may fail, the process may be killed  *)
(* between them, and the machine may lose power, which undoes what was     *)
(* not synced.  The epoch in .cache.lock is module EpochFile's; a commit   *)
(* compares it once and then works for several steps.                      *)
(***************************************************************************)
EXTENDS EpochFile, CacheId

CONSTANTS
    KindOf,     \* key -> kind of its entry
    MaxTokens,  \* bound on the tokens ever published
    NoFile,     \* no file
    Torn        \* a file with part of its bytes

VARIABLES
    files,      \* key -> the entry file that a process finds
    disk,       \* key -> the entry files that a power loss may leave
    step,       \* process -> the next file operation of its storage operation
    slot,       \* process -> the entry that this operation changes
    revocation, \* advancer -> what its revocation selected and has left to do
    minted,     \* tokens published so far
    settled,    \* history: entries unchanged since a success was reported for them
    gone        \* history: tokens that a revocation without failures deleted

fileVars == <<files, disk, settled>>
entryVars == <<fileVars, step, slot, revocation, minted, gone>>
dirVars == <<vars, entryVars>>

Procs == Issuers \union Advancers
Kinds == {"base", "scoped", "run"}

\* CACHE_SCHEMA_VERSION and RUN_CACHE_SCHEMA_VERSION.
SchemaVersion == [base |-> 5, scoped |-> 5, run |-> 3]

\* A complete entry, and the one that an earlier release left.
Entry == [kind: Kinds, version: Nat, token: Nat]
Earlier(k) == [kind |-> KindOf[k], version |-> SchemaVersion[KindOf[k]] - 1, token |-> 0]

ASSUME KindOfAssumption    == KindOf \in [Keys -> Kinds]
ASSUME MaxTokensAssumption == MaxTokens \in Nat
ASSUME ProcsAssumption     == Issuers \intersect Advancers = {}
ASSUME FilesAssumption     == NoFile # Torn /\ NoFile \notin Entry /\ Torn \notin Entry

\* read_cache_entry finds an entry of the version its kind has now.
Readable(f) == f \notin {NoFile, Torn} /\ f.version = SchemaVersion[f.kind]

NoKey == <<>>
NoRevocation == [selected |-> {}, left |-> {}, clean |-> TRUE, active |-> FALSE]

DirTypeOK ==
    /\ files \in [Keys -> Entry \union {NoFile, Torn}]
    /\ disk \in [Keys -> SUBSET (Entry \union {NoFile, Torn})]
    /\ settled \subseteq Keys
    /\ step \in [Procs -> {"idle", "write", "rename", "sync", "validate", "removed"}]
    /\ slot \in [Procs -> Keys \union {NoKey}]
    /\ revocation \in [Advancers -> [selected: SUBSET (Keys \X Entry),
                                     left: SUBSET (Keys \X Entry),
                                     clean: BOOLEAN, active: BOOLEAN]]
    /\ minted \in Nat
    /\ gone \subseteq Nat

\* A cache directory that is empty or holds files of an earlier release.
DirInit ==
    /\ Init
    /\ \E old \in SUBSET Keys:
         files = [k \in Keys |-> IF k \in old THEN Earlier(k) ELSE NoFile]
    /\ disk = [k \in Keys |-> {files[k]}]
    /\ settled = Keys
    /\ step = [p \in Procs |-> "idle"]
    /\ slot = [p \in Procs |-> NoKey]
    /\ revocation = [a \in Advancers |-> NoRevocation]
    /\ minted = 0
    /\ gone = {}

InUse == {k \in Keys: files[k] # NoFile}

\* The lock on .cache.lock: held by an advance, or by a storage operation.
LockFree == Unlocked /\ \A p \in Procs: step[p] = "idle"

-----------------------------------------------------------------------------
(***************************************************************************)
(* File operations.                                                        *)
(***************************************************************************)
Proceed(p, operation) ==
    /\ step' = [step EXCEPT ![p] = operation]
    /\ UNCHANGED slot

Release(p) ==
    /\ step' = [step EXCEPT ![p] = "idle"]
    /\ slot' = [slot EXCEPT ![p] = NoKey]

\* A change of the directory shows at once; until the directory is synced, a
\* power loss may leave the entry as it was or as any of `bytes`.
Link(k, f, bytes) ==
    /\ files' = [files EXCEPT ![k] = f]
    /\ disk' = [disk EXCEPT ![k] = @ \union bytes]
    /\ settled' = settled \ {k}

\* sync_private_dir: every entry is on disk as it is.
DirectorySynced == disk' = [k \in Keys |-> {files[k]}]

\* The bytes of the entry that an issuer publishes.
NewEntry(k) ==
    [kind |-> KindOf[k], version |-> SchemaVersion[KindOf[k]], token |-> minted + 1]

\* An entry that is to be replaced can be read, and a run finds none: a later
\* state of its lease (module CacheStore) keeps kind, version and token.
Replaceable(k) == files[k] = NoFile \/ (Readable(files[k]) /\ KindOf[k] # "run")

-----------------------------------------------------------------------------
(***************************************************************************)
(* An issuance: a guard, and the publication of one entry.                 *)
(***************************************************************************)
Guard(i) ==
    /\ LockFree
    /\ TakeGuard(i)
    /\ UNCHANGED entryVars

\* Mutant: an entry that cannot be read is taken for a missing one.
BeginPublishOver(i) ==
    /\ LockFree
    /\ phase[i] = "guarded" /\ Epoch = guard[i]
    /\ minted < MaxTokens
    /\ \E k \in Keys: slot' = [slot EXCEPT ![i] = k]
    /\ step' = [step EXCEPT ![i] = "write"]
    /\ UNCHANGED <<vars, fileVars, revocation, minted, gone>>

\* Mutant: the epoch is not compared.
BeginPublishAtAnyEpoch(i) ==
    /\ LockFree
    /\ phase[i] = "guarded"
    /\ minted < MaxTokens
    /\ \E k \in Keys:
         /\ Replaceable(k)
         /\ slot' = [slot EXCEPT ![i] = k]
    /\ step' = [step EXCEPT ![i] = "write"]
    /\ UNCHANGED <<vars, fileVars, revocation, minted, gone>>

\* commit_base, commit_scoped, renew_scoped, commit_pending: the epoch is the
\* guard's, and no entry is in the way.
BeginPublish(i) ==
    /\ LockFree
    /\ phase[i] = "guarded" /\ Epoch = guard[i]
    /\ minted < MaxTokens
    /\ \E k \in Keys:
         /\ Replaceable(k)
         /\ slot' = [slot EXCEPT ![i] = k]
    /\ step' = [step EXCEPT ![i] = "write"]
    /\ UNCHANGED <<vars, fileVars, revocation, minted, gone>>

\* create_private_tempfile, write_all, sync_all: the temporary file has a name
\* that no entry has.
WriteTemporary(i) ==
    /\ step[i] = "write"
    /\ Proceed(i, "rename")
    /\ UNCHANGED <<vars, fileVars, revocation, minted, gone>>

\* Mutant: the temporary file is not synced.
RenameUnsynced(i) ==
    /\ step[i] = "rename"
    /\ Link(slot[i], NewEntry(slot[i]), {NewEntry(slot[i]), Torn})
    /\ minted' = minted + 1
    /\ phase' = [phase EXCEPT ![i] = "committed"]
    /\ Proceed(i, "sync")
    /\ UNCHANGED <<file, apc, next, guard, stale, revocation, gone>>

\* persist: from here on every process finds the new entry.
Rename(i) ==
    /\ step[i] = "rename"
    /\ Link(slot[i], NewEntry(slot[i]), {NewEntry(slot[i])})
    /\ minted' = minted + 1
    /\ phase' = [phase EXCEPT ![i] = "committed"]
    /\ Proceed(i, "sync")
    /\ UNCHANGED <<file, apc, next, guard, stale, revocation, gone>>

\* Mutant: the directory is not synced.
SyncPublishedNot(i) ==
    /\ step[i] = "sync"
    /\ Proceed(i, "validate")
    /\ UNCHANGED <<vars, fileVars, revocation, minted, gone>>

SyncPublished(i) ==
    /\ step[i] = "sync"
    /\ DirectorySynced
    /\ Proceed(i, "validate")
    /\ UNCHANGED <<vars, files, settled, revocation, minted, gone>>

\* The published file opens as a private file: success is reported.
Published(i) ==
    /\ step[i] = "validate"
    /\ settled' = settled \union {slot[i]}
    /\ Release(i)
    /\ UNCHANGED <<vars, files, disk, revocation, minted, gone>>

\* An operation fails, or the command is killed: an entry that was renamed
\* stays.  The lock is released.
PublishFails(i) ==
    /\ step[i] # "idle"
    /\ GiveUp(i)
    /\ Release(i)
    /\ UNCHANGED <<fileVars, revocation, minted, gone>>

\* The command is done, or does not commit.
Leave(i) ==
    /\ step[i] = "idle"
    /\ GiveUp(i)
    /\ UNCHANGED entryVars

IssuerStep(i) ==
    \/ Guard(i) \/ Leave(i)
    \/ BeginPublish(i) \/ WriteTemporary(i) \/ Rename(i)
    \/ SyncPublished(i) \/ Published(i) \/ PublishFails(i)

-----------------------------------------------------------------------------
(***************************************************************************)
(* A revocation: an advance of the epoch, a selection under the same lock, *)
(* and one deletion after another.                                         *)
(***************************************************************************)
RevocationIs(a, state) == revocation' = [revocation EXCEPT ![a] = state]

\* Mutant: only other advances are excluded.
BeginRevocationUnlocked(a) ==
    /\ ~revocation[a].active
    /\ BeginAdvance(a)
    /\ UNCHANGED entryVars

BeginRevocation(a) ==
    /\ LockFree
    /\ ~revocation[a].active
    /\ BeginAdvance(a)
    /\ UNCHANGED entryVars

\* The steps of increment_epoch up to its sync, and its failures.
AdvanceFile(a) ==
    /\ Truncate(a) \/ Write(a) \/ Stop(a)
    /\ UNCHANGED entryVars

\* sync_all fails, or the process is killed there: nothing is selected.
AdvanceFails(a) ==
    /\ Sync(a)
    /\ UNCHANGED entryVars

Selecting(a, keys) ==
    LET readable == {k \in keys: Readable(files[k])}
        snapshot == {<<k, files[k]>>: k \in readable}
    IN  RevocationIs(a, [selected |-> snapshot, left |-> snapshot,
                         clean |-> readable = keys, active |-> TRUE])

\* The whole cache is selected, or the one entry that the identifier matches;
\* a file that cannot be read is reported as a failure and kept.
Select(a) ==
    /\ Sync(a)
    /\ \/ Selecting(a, InUse)
       \/ \E id \in ValidIds, k \in Keys:
            /\ Matching(id, InUse) = {k}
            /\ Selecting(a, {k})
    /\ UNCHANGED <<fileVars, step, slot, minted, gone>>

\* No entry, or several, match the identifier: the revocation fails.
SelectNothing(a) ==
    /\ Sync(a)
    /\ \E id \in ValidIds: \A k \in Keys: Matching(id, InUse) # {k}
    /\ UNCHANGED entryVars

Without(a, item) == [revocation[a] EXCEPT !.left = @ \ {item}]

\* delete_exact_record: the entry is still the selected one and is removed.
Unlink(a) ==
    /\ LockFree
    /\ \E item \in revocation[a].left:
         /\ files[item[1]] = item[2]
         /\ Link(item[1], NoFile, {NoFile})
         /\ slot' = [slot EXCEPT ![a] = item[1]]
    /\ step' = [step EXCEPT ![a] = "removed"]
    /\ UNCHANGED <<vars, revocation, minted, gone>>

\* The entry is missing, changed or unreadable, its removal fails, or GitHub
\* did not revoke it: a failure, and nothing is changed.
Keep(a) ==
    /\ LockFree
    /\ \E item \in revocation[a].left:
         RevocationIs(a, [Without(a, item) EXCEPT !.clean = FALSE])
    /\ UNCHANGED <<vars, fileVars, step, slot, minted, gone>>

Deleted(a) ==
    /\ step[a] = "removed"
    /\ DirectorySynced
    /\ settled' = settled \union {slot[a]}
    /\ \E item \in revocation[a].left:
         /\ item[1] = slot[a]
         /\ RevocationIs(a, Without(a, item))
    /\ Release(a)
    /\ UNCHANGED <<vars, files, minted, gone>>

\* Mutant: a failed sync of the directory counts as a deletion.
UnlinkedSyncIgnored(a) ==
    /\ step[a] = "removed"
    /\ \E item \in revocation[a].left:
         /\ item[1] = slot[a]
         /\ RevocationIs(a, Without(a, item))
    /\ Release(a)
    /\ UNCHANGED <<vars, fileVars, minted, gone>>

\* UnlinkedSyncFailed: the entry is gone, but the directory was not synced.
UnlinkedSyncFailed(a) ==
    /\ step[a] = "removed"
    /\ \E item \in revocation[a].left:
         /\ item[1] = slot[a]
         /\ RevocationIs(a, [Without(a, item) EXCEPT !.clean = FALSE])
    /\ Release(a)
    /\ UNCHANGED <<vars, fileVars, minted, gone>>

\* The report: without failures, every selected token is deleted.
Report(a) ==
    /\ revocation[a].active /\ revocation[a].left = {}
    /\ gone' = IF revocation[a].clean
               THEN gone \union {item[2].token: item \in revocation[a].selected}
               ELSE gone
    /\ RevocationIs(a, NoRevocation)
    /\ UNCHANGED <<vars, fileVars, step, slot, minted>>

RevocationKilled(a) ==
    /\ revocation[a].active
    /\ RevocationIs(a, NoRevocation)
    /\ Release(a)
    /\ UNCHANGED <<vars, fileVars, minted, gone>>

RevokerStep(a) ==
    \/ BeginRevocation(a) \/ AdvanceFile(a) \/ AdvanceFails(a)
    \/ Select(a) \/ SelectNothing(a)
    \/ Unlink(a) \/ Keep(a) \/ Deleted(a) \/ UnlinkedSyncFailed(a)
    \/ Report(a) \/ RevocationKilled(a)

-----------------------------------------------------------------------------
\* Every process is gone, and every entry is one that its disk may hold.
PowerLoss ==
    /\ Restart
    /\ \E left \in [Keys -> UNION {disk[k]: k \in Keys}]:
         /\ \A k \in Keys: left[k] \in disk[k]
         /\ files' = left
         /\ disk' = [k \in Keys |-> {left[k]}]
    /\ step' = [p \in Procs |-> "idle"]
    /\ slot' = [p \in Procs |-> NoKey]
    /\ revocation' = [a \in Advancers |-> NoRevocation]
    /\ UNCHANGED <<minted, settled, gone>>

DirNext ==
    \/ \E i \in Issuers: IssuerStep(i)
    \/ \E a \in Advancers: RevokerStep(a)
    \/ PowerLoss

DirSpec == DirInit /\ [][DirNext]_dirVars

-----------------------------------------------------------------------------
(***************************************************************************)
(* Why the directory keeps its promises.                                   *)
(***************************************************************************)
\* One storage operation at a time, and none during an advance.
OneOperation ==
    \A p \in Procs: step[p] # "idle" => Unlocked /\ \A q \in Procs \ {p}: step[q] = "idle"

\* Issuers publish and revocations delete; the epoch that a publication compared
\* cannot change before its rename, nor can the entry become unreadable.
OperationsFit ==
    /\ \A i \in Issuers: step[i] \in {"idle", "write", "rename", "sync", "validate"}
    /\ \A a \in Advancers: step[a] \in {"idle", "removed"}
    /\ \A p \in Procs: step[p] # "idle" => slot[p] \in Keys
    /\ \A i \in Issuers: step[i] \in {"write", "rename"} =>
         /\ phase[i] = "guarded" /\ guard[i] = Epoch
         /\ files[slot[i]] = NoFile \/ Readable(files[slot[i]])
    /\ \A i \in Issuers: step[i] = "validate" => disk[slot[i]] = {files[slot[i]]}
    /\ \A a \in Advancers: step[a] = "removed" => files[slot[a]] = NoFile

\* What a power loss may leave of an entry.
DiskFits ==
    \A k \in Keys:
        /\ files[k] \in disk[k]
        /\ k \in settled => disk[k] = {files[k]}
        /\ \A f \in disk[k]: f = NoFile \/ f = Earlier(k) \/ Readable(f)
        /\ Earlier(k) \in disk[k] => disk[k] = {Earlier(k)}

\* A token has one place.
TokensUnique ==
    \A k \in Keys: \A f \in disk[k]: Readable(f) =>
        /\ f.token <= minted
        /\ \A l \in Keys: \A g \in disk[l]: Readable(g) /\ g.token = f.token => l = k

\* Where else a token may be, and that it is nowhere.
OnlyAt(t, k) == \A l \in Keys: \A f \in disk[l]: Readable(f) /\ f.token = t => l = k
Absent(t) == \A l \in Keys: \A f \in disk[l]: Readable(f) => f.token # t

\* A revocation that is clean so far has left of its selection only what it has
\* yet to delete.
SelectionFits ==
    \A a \in Advancers:
        /\ \A item \in revocation[a].selected \union revocation[a].left:
             Readable(item[2]) /\ item[2].token <= minted /\ OnlyAt(item[2].token, item[1])
        /\ revocation[a].clean =>
             \A item \in revocation[a].selected \ revocation[a].left: Absent(item[2].token)

GoneForGood == \A t \in gone: t <= minted /\ Absent(t)

DirectoryInv ==
    /\ TypeOK /\ DirTypeOK
    /\ OneOperation /\ OperationsFit /\ DiskFits
    /\ TokensUnique /\ SelectionFits /\ GoneForGood

-----------------------------------------------------------------------------
\* The lock that several steps hold excludes as a step of its own would: the
\* epoch, as the commits and revocations of the directory use it, behaves as
\* the epoch file whose commits are atomic.
ImplementsEpochFile == Spec

\* "Cache replacements write to temporary files before atomic rename, preventing
\* torn reads under concurrency" (docs/src/security/local-boundaries.md): what a
\* process finds, now and after a power loss, is a
\* complete entry that ghst reads back, or a file that ghst never wrote.
OnlyWholeEntries ==
    \A k \in Keys: \A f \in disk[k] \union {files[k]}:
        f = NoFile \/ f = Earlier(k) \/ Readable(f)

\* A publication or deletion that was reported as successful stands until an
\* operation changes the entry again: no power loss undoes it.
SuccessIsDurable ==
    [][\A k \in settled \intersect settled': files'[k] = files[k]]_dirVars

\* What a revocation without failures deleted does not come back, whatever
\* other commands had published or removed without a sync.
CleanRevocationIsDurable ==
    \A k \in Keys: \A f \in disk[k]: Readable(f) => f.token \notin gone

\* "Malformed JSON, inconsistent metadata, or unsupported schema files are never
\* silently deleted during revocation" (docs/src/commands/revoke.md), nor
\* does it overwrite them.
InvalidFilesRetained ==
    [][\A k \in Keys: files[k] = Earlier(k) => files'[k] = files[k]]_dirVars

\* An identifier that status prints selects the entry it is printed for, and
\* no other, whatever the cache holds.
StatusIdSelects == \A k \in InUse: IdSelects(k, InUse)
=============================================================================
