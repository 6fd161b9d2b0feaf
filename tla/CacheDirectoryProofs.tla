------------------------- MODULE CacheDirectoryProofs -------------------------
(***************************************************************************)
(* For every number of commands, keys and tokens: one storage operation at *)
(* a time, what a power loss may leave of an entry, and where a token may  *)
(* be.  From these the directory's promises follow, and that the epoch the *)
(* directory uses is the epoch file of EpochFile.  And the identifier that *)
(* status prints for an entry selects it.                                  *)
(***************************************************************************)
EXTENDS CacheDirectory, EpochFileProofs, WellFoundedInduction

USE KindOfAssumption, MaxTokensAssumption, ProcsAssumption, FilesAssumption

-----------------------------------------------------------------------------
(***************************************************************************)
(* Entries and tokens.                                                     *)
(***************************************************************************)
\* Every kind of entry has a version, and a release before it.
LEMMA Versions ==
    ASSUME NEW kind \in Kinds
    PROVE  SchemaVersion[kind] \in Nat /\ SchemaVersion[kind] - 1 \in Nat
BY DEF Kinds, SchemaVersion

\* No file, and a file of an earlier release, cannot be read (read_cache_entry).
LEMMA Unreadable ==
    ASSUME NEW k \in Keys
    PROVE  /\ Earlier(k) \in Entry /\ ~Readable(Earlier(k))
           /\ ~Readable(NoFile)
<1>1. KindOf[k] \in Kinds OBVIOUS
<1>2. Earlier(k) \in Entry BY <1>1, Versions DEF Earlier, Entry
<1>3. ~Readable(Earlier(k)) BY <1>1, Versions DEF Earlier, Readable
<1> QED BY <1>2, <1>3 DEF Readable

\* An issuer publishes an entry that ghst reads back, with a token of its own.
LEMMA NewEntryReadable ==
    ASSUME NEW k \in Keys, minted \in Nat
    PROVE  /\ NewEntry(k) \in Entry /\ Readable(NewEntry(k))
           /\ NewEntry(k).token = minted + 1
<1>1. KindOf[k] \in Kinds OBVIOUS
<1>2. NewEntry(k) \in Entry BY <1>1, Versions DEF NewEntry, Entry
<1>3. Readable(NewEntry(k)) BY <1>2 DEF NewEntry, Readable
<1> QED BY <1>2, <1>3 DEF NewEntry

\* A step that puts no token where it was not keeps every token in its place.
LEMMA NoNewToken ==
    ASSUME TokensUnique, minted' = minted,
           \A k \in Keys: \A f \in disk'[k]: Readable(f) => f \in disk[k]
    PROVE  /\ TokensUnique'
           /\ \A t, k: OnlyAt(t, k) => OnlyAt(t, k)'
           /\ \A t: Absent(t) => Absent(t)'
<1>1. TokensUnique' BY DEF TokensUnique, Readable
<1>2. ASSUME NEW t, NEW k, OnlyAt(t, k) PROVE OnlyAt(t, k)' BY <1>2 DEF OnlyAt, Readable
<1>3. ASSUME NEW t, Absent(t) PROVE Absent(t)' BY <1>3 DEF Absent, Readable
<1> QED BY <1>1, <1>2, <1>3

\* What revocations selected and deleted is not disturbed by such a step.
LEMMA SelectionsKept ==
    ASSUME TokensUnique, SelectionFits, GoneForGood,
           UNCHANGED <<minted, revocation, gone>>,
           \A k \in Keys: \A f \in disk'[k]: Readable(f) => f \in disk[k]
    PROVE  TokensUnique' /\ SelectionFits' /\ GoneForGood'
<1>1. TokensUnique' BY NoNewToken
<1>2. SelectionFits' BY NoNewToken DEF SelectionFits, Readable
<1>3. GoneForGood' BY NoNewToken DEF GoneForGood
<1> QED BY <1>1, <1>2, <1>3

-----------------------------------------------------------------------------
(***************************************************************************)
(* The epoch.                                                              *)
(***************************************************************************)
\* The directory starts with an epoch file that nobody has written.
LEMMA DirInitEstablishesInv == DirInit => DirectoryInv
<1> SUFFICES ASSUME DirInit PROVE DirectoryInv OBVIOUS
<1>1. TypeOK BY InitEstablishesInv DEF DirInit, EpochFileInv
<1>2. PICK old \in SUBSET Keys:
        files = [k \in Keys |-> IF k \in old THEN Earlier(k) ELSE NoFile]
  BY Zenon DEF DirInit
<1>3. \A k \in Keys: disk[k] = {files[k]} /\ files[k] \in {NoFile, Earlier(k)}
  BY <1>2 DEF DirInit
<1>4. DirTypeOK
  BY <1>3, <1>2, Unreadable DEF DirInit, DirTypeOK, NoRevocation
<1>5. OneOperation /\ OperationsFit BY DEF DirInit, OneOperation, OperationsFit, Procs
<1>6. DiskFits /\ TokensUnique BY <1>3, Unreadable DEF DiskFits, TokensUnique
<1>7. SelectionFits /\ GoneForGood BY DEF DirInit, SelectionFits, GoneForGood, NoRevocation
<1> QED BY <1>1, <1>4, <1>5, <1>6, <1>7 DEF DirectoryInv

\* A step of the directory is a step of the epoch file, or none of its: the
\* epoch that a publication compared is still the epoch when it renames.
LEMMA StepIsEpochStep ==
    ASSUME DirectoryInv, [DirNext]_dirVars PROVE [Next]_vars
<1>1. ASSUME NEW i \in Issuers, Rename(i) PROVE Next
  <2>1. i \in Procs /\ step[i] = "rename" BY <1>1 DEF Rename, Procs
  <2>2. Unlocked BY <2>1 DEF DirectoryInv, OneOperation
  <2>3. phase[i] = "guarded" /\ Epoch = guard[i]
    BY <2>1 DEF DirectoryInv, OperationsFit
  <2>4. Commit(i) BY <1>1, <2>2, <2>3, Zenon DEF Rename, Commit
  <2> QED BY <2>4 DEF Next, IssueStep
<1>2. ASSUME NEW i \in Issuers, IssuerStep(i), ~Rename(i) PROVE [Next]_vars
  BY <1>2 DEF IssuerStep, Guard, Leave, BeginPublish, WriteTemporary, SyncPublished,
              Published, PublishFails, Next, IssueStep
<1>3. ASSUME NEW a \in Advancers, RevokerStep(a) PROVE [Next]_vars
  BY <1>3 DEF RevokerStep, BeginRevocation, AdvanceFile, AdvanceFails, Select, SelectNothing,
              Unlink, Keep, Deleted, UnlinkedSyncFailed, Report, RevocationKilled,
              Next, AdvanceStep
<1>4. CASE PowerLoss BY <1>4 DEF PowerLoss, Next
<1>5. CASE UNCHANGED dirVars BY <1>5 DEF dirVars
<1> QED BY <1>1, <1>2, <1>3, <1>4, <1>5 DEF DirNext

\* The variables of the epoch keep their types, torn writes or not.
LEMMA EpochTypes == ASSUME TypeOK, [Next]_vars PROVE TypeOK'
<1> USE EpochIsNat DEF TypeOK
<1>1. ASSUME NEW a \in Advancers, BeginAdvance(a) PROVE TypeOK' BY <1>1 DEF BeginAdvance, Goto
<1>2. ASSUME NEW a \in Advancers, Truncate(a) \/ Write(a) PROVE TypeOK'
  BY <1>2 DEF Truncate, Write, Goto
<1>3. ASSUME NEW a \in Advancers, Sync(a) \/ Stop(a) PROVE TypeOK' BY <1>3 DEF Sync, Stop, Goto
<1>4. ASSUME NEW i \in Issuers, IssueStep(i) PROVE TypeOK'
  BY <1>4 DEF IssueStep, TakeGuard, Commit, GiveUp
<1>5. CASE Restart BY <1>5 DEF Restart, Left
<1>6. CASE UNCHANGED vars BY <1>6 DEF vars
<1> QED BY <1>1, <1>2, <1>3, <1>4, <1>5, <1>6 DEF Next, AdvanceStep

-----------------------------------------------------------------------------
(***************************************************************************)
(* Each kind of step keeps the invariant.                                  *)
(***************************************************************************)
\* Guards, and the advance of the epoch, leave the entries alone; an advance
\* starts only when no operation is under way.
LEMMA EpochStepKeepsInv ==
    ASSUME DirectoryInv, TypeOK', UNCHANGED entryVars,
           \/ \E i \in Issuers: Guard(i) \/ Leave(i)
           \/ \E a \in Advancers: BeginRevocation(a) \/ AdvanceFile(a) \/ AdvanceFails(a)
                                    \/ SelectNothing(a)
    PROVE  DirectoryInv'
<1> USE DEF DirectoryInv
<1>1. DirTypeOK' BY DEF DirTypeOK, entryVars, fileVars
<1>2. OneOperation' /\ OperationsFit'
  <2>1. ASSUME NEW i \in Issuers, Guard(i) PROVE OneOperation' /\ OperationsFit'
    BY <2>1 DEF Guard, TakeGuard, LockFree, OneOperation, OperationsFit, entryVars, fileVars,
                Unlocked, Procs
  <2>2. ASSUME NEW i \in Issuers, Leave(i) PROVE OneOperation' /\ OperationsFit'
    BY <2>2 DEF Leave, GiveUp, OneOperation, OperationsFit, entryVars, fileVars, Unlocked,
                Procs, Epoch, Readable, TypeOK
  <2>3. ASSUME NEW a \in Advancers, BeginRevocation(a) PROVE OneOperation' /\ OperationsFit'
    BY <2>3 DEF BeginRevocation, LockFree, OneOperation, OperationsFit, entryVars, fileVars, Procs
  <2>4. ASSUME NEW a \in Advancers, AdvanceFile(a) \/ AdvanceFails(a) \/ SelectNothing(a)
        PROVE OneOperation' /\ OperationsFit'
    <3>1. apc[a] # "idle" BY <2>4 DEF AdvanceFile, AdvanceFails, SelectNothing,
                                      Truncate, Write, Sync, Stop
    <3>2. \A p \in Procs: step[p] = "idle" BY <3>1 DEF OneOperation, Unlocked
    <3> QED BY <3>2 DEF OneOperation, OperationsFit, entryVars, Procs
  <2> QED BY <2>1, <2>2, <2>3, <2>4
<1>3. DiskFits' BY DEF DiskFits, entryVars, fileVars, Readable
<1>4. TokensUnique' /\ SelectionFits' /\ GoneForGood'
  BY SelectionsKept DEF entryVars, fileVars
<1> QED BY <1>1, <1>2, <1>3, <1>4

\* Before its rename, and after its success or failure, a publication leaves
\* the entries alone; it compares the epoch and the entry under the lock.
LEMMA PublicationKeepsInv ==
    ASSUME DirectoryInv, TypeOK', NEW i \in Issuers,
           BeginPublish(i) \/ WriteTemporary(i) \/ Published(i) \/ PublishFails(i)
    PROVE  DirectoryInv'
<1> USE DEF DirectoryInv
<1>1. i \in Procs BY DEF Procs
<1>2. UNCHANGED <<files, disk, revocation, minted, gone>>
  BY DEF BeginPublish, WriteTemporary, Published, PublishFails, fileVars
<1>3. CASE BeginPublish(i)
  <2>1. PICK k \in Keys: /\ files[k] = NoFile \/ Readable(files[k])
                         /\ slot' = [slot EXCEPT ![i] = k]
    BY <1>3, Zenon DEF BeginPublish, Replaceable
  <2>2. DirTypeOK' BY <1>1, <1>2, <1>3, <2>1 DEF DirTypeOK, BeginPublish, fileVars
  <2>3. OneOperation' BY <1>1, <1>3 DEF BeginPublish, LockFree, OneOperation, DirTypeOK, vars,
                                        Unlocked
  <2>4. OperationsFit'
    BY <1>1, <1>2, <1>3, <2>1 DEF BeginPublish, LockFree, OperationsFit, DirTypeOK, vars, Epoch,
                                  Readable, Procs
  <2>5. DiskFits' BY <1>2, <1>3 DEF DiskFits, BeginPublish, fileVars, Readable
  <2> QED BY <1>2, <2>2, <2>3, <2>4, <2>5, SelectionsKept
<1>4. CASE WriteTemporary(i)
  <2>1. DirTypeOK' BY <1>1, <1>2, <1>4 DEF DirTypeOK, WriteTemporary, Proceed, fileVars
  <2>2. OneOperation' BY <1>1, <1>4 DEF WriteTemporary, Proceed, OneOperation, DirTypeOK, vars,
                                        Unlocked
  <2>3. OperationsFit'
    BY <1>1, <1>2, <1>4 DEF WriteTemporary, Proceed, OperationsFit, DirTypeOK, vars, Epoch,
                            Readable, Procs
  <2>4. DiskFits' BY <1>2, <1>4 DEF DiskFits, WriteTemporary, fileVars, Readable
  <2> QED BY <1>2, <2>1, <2>2, <2>3, <2>4, SelectionsKept
<1>5. CASE Published(i) \/ PublishFails(i)
  <2>1. DirTypeOK'
    BY <1>1, <1>2, <1>5 DEF DirTypeOK, Published, PublishFails, Release, fileVars, OperationsFit
  <2>2. OneOperation'
    BY <1>1, <1>5 DEF Published, PublishFails, GiveUp, Release, OneOperation, DirTypeOK, vars,
                      Unlocked
  <2>3. OperationsFit'
    BY <1>1, <1>2, <1>5 DEF Published, PublishFails, GiveUp, Release, OneOperation, OperationsFit,
                            DirTypeOK, TypeOK, vars, Epoch, Readable, Procs
  <2>4. DiskFits'
    BY <1>1, <1>2, <1>5 DEF DiskFits, Published, PublishFails, fileVars, OperationsFit, Readable
  <2> QED BY <1>2, <2>1, <2>2, <2>3, <2>4, SelectionsKept
<1> QED BY <1>3, <1>4, <1>5

\* A published entry is readable, replaces one that is readable, and holds a
\* token that is nowhere else (persist in publish_replacement).
LEMMA RenameKeepsInv ==
    ASSUME DirectoryInv, TypeOK', NEW i \in Issuers, Rename(i)
    PROVE  DirectoryInv'
<1> USE DEF DirectoryInv
<1> DEFINE k == slot[i]
           new == NewEntry(k)
<1>1. i \in Procs /\ step[i] = "rename" BY DEF Procs, Rename
<1>2. k \in Keys /\ (files[k] = NoFile \/ Readable(files[k]))
  BY <1>1 DEF OperationsFit
<1>3. new \in Entry /\ Readable(new) /\ new.token = minted + 1
  BY <1>2, NewEntryReadable DEF DirTypeOK
<1> HIDE DEF new
<1>4. /\ files' = [files EXCEPT ![k] = new]
      /\ disk' = [disk EXCEPT ![k] = @ \union {new}]
      /\ settled' = settled \ {k}
      /\ minted' = minted + 1
      /\ step' = [step EXCEPT ![i] = "sync"]
      /\ UNCHANGED <<slot, revocation, gone>>
  BY DEF Rename, Link, Proceed, new
<1>5. DirTypeOK' BY <1>1, <1>2, <1>3, <1>4 DEF DirTypeOK
<1>6. OneOperation' /\ OperationsFit'
  <2>1. Unlocked /\ \A q \in Procs \ {i}: step[q] = "idle" BY <1>1 DEF OneOperation
  <2>2. UNCHANGED apc BY DEF Rename
  <2>3. OneOperation' BY <1>1, <1>4, <2>1, <2>2 DEF OneOperation, DirTypeOK, Unlocked
  <2>4. OperationsFit' BY <1>1, <1>4, <2>1 DEF OperationsFit, DirTypeOK, Procs
  <2> QED BY <2>3, <2>4
<1>7. DiskFits'
  <2>1. Earlier(k) \notin disk[k]
    BY <1>2, Unreadable DEF DiskFits
  <2>2. ASSUME NEW l \in Keys, l # k PROVE files'[l] = files[l] /\ disk'[l] = disk[l]
    BY <1>4, <2>2 DEF DirTypeOK
  <2>3. files'[k] = new /\ disk'[k] = disk[k] \union {new} BY <1>2, <1>4 DEF DirTypeOK
  <2>4. new # Earlier(k) BY <1>2, <1>3, Unreadable
  <2> QED BY <1>2, <1>3, <1>4, <2>1, <2>2, <2>3, <2>4 DEF DiskFits, Readable
<1>8. \A l \in Keys: \A f \in disk'[l]: f \in disk[l] \/ (l = k /\ f = new)
  BY <1>2, <1>4 DEF DirTypeOK
<1>9. TokensUnique'
  BY <1>3, <1>4, <1>8 DEF TokensUnique, Readable, DirTypeOK, Entry
<1>10. SelectionFits'
  BY <1>3, <1>4, <1>8 DEF SelectionFits, OnlyAt, Absent, Readable, DirTypeOK, Entry
<1>11. GoneForGood'
  BY <1>3, <1>4, <1>8 DEF GoneForGood, Absent, Readable, DirTypeOK, Entry
<1> QED BY <1>5, <1>6, <1>7, <1>9, <1>10, <1>11

\* A removed entry could be read and was the selected one (delete_exact_record).
LEMMA UnlinkKeepsInv ==
    ASSUME DirectoryInv, TypeOK', NEW a \in Advancers, Unlink(a)
    PROVE  DirectoryInv'
<1> USE DEF DirectoryInv
<1>1. a \in Procs BY DEF Procs
<1>2. PICK item \in revocation[a].left:
        /\ files[item[1]] = item[2]
        /\ Link(item[1], NoFile, {NoFile})
        /\ slot' = [slot EXCEPT ![a] = item[1]]
  BY Zenon DEF Unlink
<1> DEFINE k == item[1]
<1>3. k \in Keys /\ Readable(files[k])
  BY <1>2 DEF DirTypeOK, SelectionFits
<1>4. /\ files' = [files EXCEPT ![k] = NoFile]
      /\ disk' = [disk EXCEPT ![k] = @ \union {NoFile}]
      /\ settled' = settled \ {k}
      /\ step' = [step EXCEPT ![a] = "removed"]
      /\ slot' = [slot EXCEPT ![a] = k]
      /\ UNCHANGED <<vars, revocation, minted, gone>>
  BY <1>2 DEF Unlink, Link
<1> HIDE DEF k
<1>5. DirTypeOK' BY <1>1, <1>3, <1>4 DEF DirTypeOK
<1>6. OneOperation' /\ OperationsFit'
  <2>1. Unlocked /\ \A q \in Procs: step[q] = "idle" BY DEF Unlink, LockFree
  <2>2. OneOperation' BY <1>1, <1>4, <2>1 DEF OneOperation, DirTypeOK, Unlocked, vars
  <2>3. OperationsFit' BY <1>1, <1>3, <1>4, <2>1 DEF OperationsFit, DirTypeOK, Procs
  <2> QED BY <2>2, <2>3
<1>7. DiskFits'
  <2>1. Earlier(k) \notin disk[k]
    BY <1>3, Unreadable DEF DiskFits
  <2>2. ASSUME NEW l \in Keys, l # k PROVE files'[l] = files[l] /\ disk'[l] = disk[l]
    BY <1>4, <2>2 DEF DirTypeOK
  <2>3. files'[k] = NoFile /\ disk'[k] = disk[k] \union {NoFile} BY <1>3, <1>4 DEF DirTypeOK
  <2>4. NoFile # Earlier(k) BY <1>3, Unreadable
  <2> QED BY <1>3, <1>4, <2>1, <2>2, <2>3, <2>4 DEF DiskFits, Readable
<1>8. \A l \in Keys: \A f \in disk'[l]: Readable(f) => f \in disk[l]
  BY <1>3, <1>4 DEF DirTypeOK, Readable
<1> QED BY <1>4, <1>5, <1>6, <1>7, <1>8, SelectionsKept

\* Once the directory is synced, a power loss leaves what processes find.
LEMMA SyncKeepsInv ==
    ASSUME DirectoryInv, TypeOK', NEW i \in Issuers, SyncPublished(i)
    PROVE  DirectoryInv'
<1> USE DEF DirectoryInv
<1>1. i \in Procs /\ step[i] = "sync" BY DEF Procs, SyncPublished
<1>2. /\ disk' = [k \in Keys |-> {files[k]}]
      /\ step' = [step EXCEPT ![i] = "validate"]
      /\ UNCHANGED <<vars, files, slot, settled, revocation, minted, gone>>
  BY DEF SyncPublished, DirectorySynced, Proceed
<1>3. DirTypeOK' BY <1>1, <1>2 DEF DirTypeOK
<1>4. OneOperation' /\ OperationsFit'
  <2>1. Unlocked /\ \A q \in Procs \ {i}: step[q] = "idle" BY <1>1 DEF OneOperation
  <2>2. OneOperation' BY <1>1, <1>2, <2>1 DEF OneOperation, DirTypeOK, Unlocked, vars
  <2>3. OperationsFit' BY <1>1, <1>2, <2>1 DEF OperationsFit, DirTypeOK, Procs
  <2> QED BY <2>2, <2>3
<1>5. DiskFits' BY <1>2 DEF DiskFits, Readable
<1>6. \A l \in Keys: \A f \in disk'[l]: Readable(f) => f \in disk[l] BY <1>2 DEF DiskFits
<1> QED BY <1>2, <1>3, <1>4, <1>5, <1>6, SelectionsKept

\* A synced deletion leaves the token nowhere.
LEMMA DeletedKeepsInv ==
    ASSUME DirectoryInv, TypeOK', NEW a \in Advancers, Deleted(a)
    PROVE  DirectoryInv'
<1> USE DEF DirectoryInv
<1>1. a \in Procs /\ step[a] = "removed" BY DEF Procs, Deleted
<1>2. PICK item \in revocation[a].left:
        item[1] = slot[a] /\ revocation' = [revocation EXCEPT ![a] = Without(a, item)]
  BY Zenon DEF Deleted, RevocationIs
<1> DEFINE r == revocation[a]
           k == slot[a]
<1>3. k \in Keys /\ files[k] = NoFile BY <1>1 DEF OperationsFit
<1>4. /\ disk' = [l \in Keys |-> {files[l]}]
      /\ settled' = settled \union {k}
      /\ step' = [step EXCEPT ![a] = "idle"]
      /\ slot' = [slot EXCEPT ![a] = NoKey]
      /\ UNCHANGED <<vars, files, minted, gone>>
  BY DEF Deleted, DirectorySynced, Release
<1>5. r \in [selected: SUBSET (Keys \X Entry), left: SUBSET (Keys \X Entry),
             clean: BOOLEAN, active: BOOLEAN]
  BY DEF DirTypeOK
<1>6. /\ revocation'[a] = [r EXCEPT !.left = @ \ {item}]
      /\ \A b \in Advancers \ {a}: revocation'[b] = revocation[b]
  BY <1>2 DEF Without, DirTypeOK
<1> HIDE DEF k
<1>7. DirTypeOK'
  <2>1. revocation' \in [Advancers -> [selected: SUBSET (Keys \X Entry),
                                       left: SUBSET (Keys \X Entry),
                                       clean: BOOLEAN, active: BOOLEAN]]
    BY <1>2, <1>5 DEF Without, DirTypeOK
  <2> QED BY <1>1, <1>3, <1>4, <2>1 DEF DirTypeOK
<1>8. OneOperation' /\ OperationsFit'
  <2>1. Unlocked /\ \A q \in Procs \ {a}: step[q] = "idle" BY <1>1 DEF OneOperation
  <2>2. OneOperation' BY <1>1, <1>4, <2>1 DEF OneOperation, DirTypeOK, Unlocked, vars
  <2>3. OperationsFit' BY <1>1, <1>4, <2>1 DEF OperationsFit, DirTypeOK, Procs
  <2> QED BY <2>2, <2>3
<1>9. DiskFits' BY <1>4 DEF DiskFits, Readable
<1>10. \A l \in Keys: \A f \in disk'[l]: Readable(f) => f \in disk[l] BY <1>4 DEF DiskFits
<1>11. /\ TokensUnique'
       /\ \A t, l: OnlyAt(t, l) => OnlyAt(t, l)'
       /\ \A t: Absent(t) => Absent(t)'
  BY <1>4, <1>10, NoNewToken
<1>12. Absent(item[2].token)'
  <2>1. item[1] = k BY <1>2 DEF k
  <2>2. OnlyAt(item[2].token, item[1])' BY <1>11 DEF SelectionFits
  <2>3. disk'[k] = {NoFile} /\ ~Readable(NoFile) BY <1>3, <1>4 DEF Readable
  <2> QED BY <1>3, <2>1, <2>2, <2>3 DEF OnlyAt, Absent, Readable
<1>13. SelectionFits'
  <2>1. revocation'[a].selected = r.selected /\ revocation'[a].clean = r.clean
        /\ revocation'[a].left = r.left \ {item}
    BY <1>5, <1>6
  <2>2. ASSUME NEW b \in Advancers PROVE
          /\ \A it \in revocation'[b].selected \union revocation'[b].left:
               it \in revocation[b].selected \union revocation[b].left
          /\ revocation'[b].clean => revocation[b].clean
          /\ \A it \in revocation'[b].selected \ revocation'[b].left:
               it \in revocation[b].selected \ revocation[b].left \/ (b = a /\ it = item)
    BY <1>6, <2>1
  <2>3. ASSUME NEW b \in Advancers,
               NEW it \in revocation'[b].selected \union revocation'[b].left
        PROVE  (Readable(it[2]) /\ it[2].token <= minted /\ OnlyAt(it[2].token, it[1]))'
    BY <1>4, <1>11, <2>2 DEF SelectionFits, Readable
  <2>4. ASSUME NEW b \in Advancers, revocation'[b].clean,
               NEW it \in revocation'[b].selected \ revocation'[b].left
        PROVE  Absent(it[2].token)'
    BY <1>11, <1>12, <2>2, <2>4 DEF SelectionFits
  <2> QED BY <2>3, <2>4 DEF SelectionFits
<1>14. GoneForGood' BY <1>4, <1>11 DEF GoneForGood
<1> QED BY <1>7, <1>8, <1>9, <1>11, <1>13, <1>14

\* A revocation selects entries that can be read, each with the one token that
\* is under its key (token_cache_entries, select_cache_entry).
LEMMA SelectKeepsInv ==
    ASSUME DirectoryInv, TypeOK', NEW a \in Advancers, Select(a)
    PROVE  DirectoryInv'
<1> USE DEF DirectoryInv
<1>1. apc[a] # "idle" /\ UNCHANGED <<fileVars, step, slot, minted, gone>>
  BY DEF Select, Sync
<1>2. PICK keys \in SUBSET Keys: Selecting(a, keys)
  <2>1. CASE Selecting(a, InUse) BY <2>1 DEF InUse
  <2>2. ASSUME NEW k \in Keys, Selecting(a, {k}) PROVE \E keys \in SUBSET Keys: Selecting(a, keys)
    BY <2>2
  <2> QED BY <2>1, <2>2, Zenon DEF Select
<1> DEFINE readable == {k \in keys: Readable(files[k])}
           snapshot == {<<k, files[k]>>: k \in readable}
           r == [selected |-> snapshot, left |-> snapshot,
                 clean |-> readable = keys, active |-> TRUE]
<1>3. revocation' = [revocation EXCEPT ![a] = r] BY <1>2 DEF Selecting, RevocationIs
<1>4. \A item \in snapshot: /\ item \in Keys \X Entry /\ Readable(item[2])
                            /\ item[2] \in disk[item[1]]
  BY DEF DirTypeOK, DiskFits, Readable
<1>5. r.selected = snapshot /\ r.left = snapshot /\ r.clean \in BOOLEAN /\ r.active \in BOOLEAN
  OBVIOUS
<1>6. r \in [selected: SUBSET (Keys \X Entry), left: SUBSET (Keys \X Entry),
             clean: BOOLEAN, active: BOOLEAN]
  BY <1>4
<1> HIDE DEF r, snapshot
<1>7. DirTypeOK'
  <2>1. revocation' \in [Advancers -> [selected: SUBSET (Keys \X Entry),
                                       left: SUBSET (Keys \X Entry),
                                       clean: BOOLEAN, active: BOOLEAN]]
    BY <1>3, <1>6 DEF DirTypeOK
  <2> QED BY <1>1, <2>1 DEF DirTypeOK, fileVars
<1>8. OneOperation' /\ OperationsFit'
  <2>1. \A p \in Procs: step[p] = "idle" BY <1>1 DEF OneOperation, Unlocked
  <2> QED BY <1>1, <2>1 DEF OneOperation, OperationsFit, Procs
<1>9. DiskFits' BY <1>1 DEF DiskFits, Readable, fileVars
<1>10. UNCHANGED <<disk, minted, gone>> BY <1>1 DEF fileVars
<1>11. /\ TokensUnique'
       /\ \A t, l: OnlyAt(t, l) => OnlyAt(t, l)'
       /\ \A t: Absent(t) => Absent(t)'
  BY <1>10, NoNewToken
<1>12. SelectionFits'
  <2>1. revocation'[a] = r /\ \A b \in Advancers \ {a}: revocation'[b] = revocation[b]
    BY <1>3 DEF DirTypeOK
  <2>2. \A item \in snapshot: item[2].token <= minted /\ OnlyAt(item[2].token, item[1])
    BY <1>4 DEF TokensUnique, OnlyAt
  <2>3. ASSUME NEW b \in Advancers,
               NEW it \in revocation'[b].selected \union revocation'[b].left
        PROVE  (Readable(it[2]) /\ it[2].token <= minted /\ OnlyAt(it[2].token, it[1]))'
    <3>1. CASE b = a BY <1>4, <1>5, <1>10, <1>11, <2>1, <2>2, <3>1 DEF Readable
    <3>2. CASE b # a BY <1>10, <1>11, <2>1, <3>2 DEF SelectionFits, Readable
    <3> QED BY <3>1, <3>2
  <2>4. ASSUME NEW b \in Advancers, revocation'[b].clean,
               NEW it \in revocation'[b].selected \ revocation'[b].left
        PROVE  Absent(it[2].token)'
    <3>1. b # a BY <1>5, <2>1, <2>4
    <3> QED BY <1>11, <2>1, <2>4, <3>1 DEF SelectionFits
  <2> QED BY <2>3, <2>4 DEF SelectionFits
<1>13. GoneForGood' BY <1>10, <1>11 DEF GoneForGood
<1> QED BY <1>7, <1>8, <1>9, <1>11, <1>12, <1>13

\* A failure to delete makes the revocation unclean, so it promises nothing of
\* the entry it drops; nor does a revocation that is killed.
LEMMA FailureKeepsInv ==
    ASSUME DirectoryInv, TypeOK', NEW a \in Advancers,
           Keep(a) \/ UnlinkedSyncFailed(a) \/ RevocationKilled(a)
    PROVE  DirectoryInv'
<1> USE DEF DirectoryInv
<1> DEFINE Revocation == [selected: SUBSET (Keys \X Entry), left: SUBSET (Keys \X Entry),
                          clean: BOOLEAN, active: BOOLEAN]
<1>1. a \in Procs BY DEF Procs
<1>2. UNCHANGED <<vars, files, disk, settled, minted, gone>>
  BY DEF Keep, UnlinkedSyncFailed, RevocationKilled, fileVars
<1>3. PICK r \in Revocation:
        /\ revocation' = [revocation EXCEPT ![a] = r]
        /\ r.selected \subseteq revocation[a].selected /\ r.left \subseteq revocation[a].left
        /\ r.selected = {} \/ ~r.clean
  <2>1. CASE RevocationKilled(a)
    <3>1. NoRevocation \in Revocation /\ NoRevocation.selected = {} /\ NoRevocation.left = {}
      BY DEF NoRevocation
    <3> QED BY <2>1, <3>1 DEF RevocationKilled, RevocationIs
  <2>2. CASE Keep(a) \/ UnlinkedSyncFailed(a)
    <3>1. PICK item \in revocation[a].left:
            revocation' = [revocation EXCEPT ![a] = [Without(a, item) EXCEPT !.clean = FALSE]]
      BY <2>2, Zenon DEF Keep, UnlinkedSyncFailed, RevocationIs
    <3> DEFINE r == [Without(a, item) EXCEPT !.clean = FALSE]
    <3>2. revocation[a] \in Revocation BY DEF DirTypeOK
    <3>3. /\ r \in Revocation /\ r.selected = revocation[a].selected
          /\ r.left = revocation[a].left \ {item} /\ ~r.clean
      BY <3>2 DEF Without
    <3> QED BY <3>1, <3>3
  <2> QED BY <2>1, <2>2
<1>4. DirTypeOK'
  <2>1. revocation' \in [Advancers -> Revocation] BY <1>3 DEF DirTypeOK
  <2> QED BY <1>1, <1>2, <2>1 DEF DirTypeOK, Keep, UnlinkedSyncFailed, RevocationKilled, Release
<1>5. OneOperation' /\ OperationsFit'
  <2>1. CASE UNCHANGED <<step, slot>>
    BY <1>2, <2>1 DEF OneOperation, OperationsFit, Unlocked, vars, Epoch, Readable
  <2>2. CASE Release(a)
    BY <1>1, <1>2, <2>2 DEF Release, OneOperation, OperationsFit, DirTypeOK, Unlocked, vars,
                            Epoch, Readable, Procs
  <2> QED BY <2>1, <2>2 DEF Keep, UnlinkedSyncFailed, RevocationKilled
<1>6. DiskFits' BY <1>2 DEF DiskFits, Readable
<1>7. /\ TokensUnique'
      /\ \A t, l: OnlyAt(t, l) => OnlyAt(t, l)'
      /\ \A t: Absent(t) => Absent(t)'
  BY <1>2, NoNewToken
<1>8. SelectionFits'
  <2>1. revocation'[a] = r /\ \A b \in Advancers \ {a}: revocation'[b] = revocation[b]
    BY <1>3 DEF DirTypeOK
  <2>2. ASSUME NEW b \in Advancers,
               NEW it \in revocation'[b].selected \union revocation'[b].left
        PROVE  (Readable(it[2]) /\ it[2].token <= minted /\ OnlyAt(it[2].token, it[1]))'
    <3>1. it \in revocation[b].selected \union revocation[b].left BY <1>3, <2>1
    <3> QED BY <1>2, <1>7, <3>1 DEF SelectionFits, Readable
  <2>3. ASSUME NEW b \in Advancers, revocation'[b].clean,
               NEW it \in revocation'[b].selected \ revocation'[b].left
        PROVE  Absent(it[2].token)'
    <3>1. b # a BY <1>3, <2>1, <2>3
    <3> QED BY <1>7, <2>1, <2>3, <3>1 DEF SelectionFits
  <2> QED BY <2>2, <2>3 DEF SelectionFits
<1>9. GoneForGood' BY <1>2, <1>7 DEF GoneForGood
<1> QED BY <1>4, <1>5, <1>6, <1>7, <1>8, <1>9

\* A report of a revocation without failures says only what is so.
LEMMA ReportKeepsInv ==
    ASSUME DirectoryInv, TypeOK', NEW a \in Advancers, Report(a)
    PROVE  DirectoryInv'
<1> USE DEF DirectoryInv
<1> DEFINE r == revocation[a]
<1>1. /\ r.left = {}
      /\ gone' = IF r.clean THEN gone \union {item[2].token: item \in r.selected} ELSE gone
      /\ revocation' = [revocation EXCEPT ![a] = NoRevocation]
      /\ UNCHANGED <<vars, files, disk, settled, step, slot, minted>>
  BY DEF Report, RevocationIs, fileVars
<1>2. \A item \in r.selected: item[2].token \in Nat /\ item[2].token <= minted
  BY DEF SelectionFits, DirTypeOK, Entry
<1>3. revocation'[a] = NoRevocation /\ \A b \in Advancers \ {a}: revocation'[b] = revocation[b]
  BY <1>1 DEF DirTypeOK
<1>4. DirTypeOK'
  <2>1. revocation' \in [Advancers -> [selected: SUBSET (Keys \X Entry),
                                       left: SUBSET (Keys \X Entry),
                                       clean: BOOLEAN, active: BOOLEAN]]
    BY <1>1 DEF NoRevocation, DirTypeOK
  <2>2. gone' \subseteq Nat
    <3>1. gone \subseteq Nat BY DEF DirTypeOK
    <3>2. \A t \in gone': t \in gone \/ \E item \in r.selected: t = item[2].token
      BY <1>1
    <3> QED BY <1>2, <3>1, <3>2
  <2> QED BY <1>1, <2>1, <2>2 DEF DirTypeOK
<1>5. OneOperation' /\ OperationsFit'
  BY <1>1 DEF OneOperation, OperationsFit, Unlocked, vars, Epoch, Readable
<1>6. DiskFits' BY <1>1 DEF DiskFits, Readable
<1>7. /\ TokensUnique'
      /\ \A t, l: OnlyAt(t, l) => OnlyAt(t, l)'
      /\ \A t: Absent(t) => Absent(t)'
  BY <1>1, NoNewToken
<1>8. SelectionFits'
  BY <1>1, <1>3, <1>7 DEF SelectionFits, Readable, NoRevocation
<1>9. GoneForGood'
  <2>1. ASSUME NEW t \in gone' PROVE t <= minted /\ Absent(t)
    BY <1>1, <1>2, <2>1 DEF GoneForGood, SelectionFits
  <2> QED BY <1>1, <1>7, <2>1 DEF GoneForGood
<1> QED BY <1>4, <1>5, <1>6, <1>7, <1>8, <1>9

\* A power loss leaves of every entry something that its disk may hold.
LEMMA PowerLossKeepsInv ==
    ASSUME DirectoryInv, TypeOK', PowerLoss
    PROVE  DirectoryInv'
<1> USE DEF DirectoryInv
<1>1. PICK left \in [Keys -> UNION {disk[k]: k \in Keys}]:
        /\ \A k \in Keys: left[k] \in disk[k]
        /\ files' = left
        /\ disk' = [k \in Keys |-> {left[k]}]
  BY Zenon DEF PowerLoss
<1>2. /\ step' = [p \in Procs |-> "idle"]
      /\ slot' = [p \in Procs |-> NoKey]
      /\ revocation' = [a \in Advancers |-> NoRevocation]
      /\ UNCHANGED <<minted, settled, gone>>
  BY DEF PowerLoss
<1>3. \A k \in Keys: files'[k] \in disk[k] /\ disk'[k] = {files'[k]} BY <1>1
<1>4. DirTypeOK' BY <1>1, <1>2 DEF DirTypeOK, NoRevocation
<1>5. OneOperation' /\ OperationsFit' BY <1>2 DEF OneOperation, OperationsFit, Procs
<1>6. DiskFits' BY <1>2, <1>3 DEF DiskFits, Readable
<1>7. /\ TokensUnique'
      /\ \A t, l: OnlyAt(t, l) => OnlyAt(t, l)'
      /\ \A t: Absent(t) => Absent(t)'
  BY <1>2, <1>3, NoNewToken
<1>8. SelectionFits' BY <1>2 DEF SelectionFits, NoRevocation
<1>9. GoneForGood' BY <1>2, <1>7 DEF GoneForGood
<1> QED BY <1>4, <1>5, <1>6, <1>7, <1>8, <1>9

LEMMA DirStepPreservesInv ==
    ASSUME DirectoryInv, [DirNext]_dirVars PROVE DirectoryInv'
<1>1. TypeOK' BY StepIsEpochStep, EpochTypes DEF DirectoryInv
<1>2. ASSUME NEW i \in Issuers, IssuerStep(i) PROVE DirectoryInv'
  <2>1. CASE Guard(i) \/ Leave(i)
    <3>1. UNCHANGED entryVars BY <2>1 DEF Guard, Leave
    <3> QED BY <1>1, <2>1, <3>1, EpochStepKeepsInv
  <2>2. CASE BeginPublish(i) \/ WriteTemporary(i) \/ Published(i) \/ PublishFails(i)
    BY <1>1, <2>2, PublicationKeepsInv
  <2>3. CASE Rename(i) BY <1>1, <2>3, RenameKeepsInv
  <2>4. CASE SyncPublished(i) BY <1>1, <2>4, SyncKeepsInv
  <2> QED BY <1>2, <2>1, <2>2, <2>3, <2>4 DEF IssuerStep
<1>3. ASSUME NEW a \in Advancers, RevokerStep(a) PROVE DirectoryInv'
  <2>1. CASE BeginRevocation(a) \/ AdvanceFile(a) \/ AdvanceFails(a) \/ SelectNothing(a)
    <3>1. UNCHANGED entryVars
      BY <2>1 DEF BeginRevocation, AdvanceFile, AdvanceFails, SelectNothing
    <3> QED BY <1>1, <2>1, <3>1, EpochStepKeepsInv
  <2>2. CASE Select(a) BY <1>1, <2>2, SelectKeepsInv
  <2>3. CASE Unlink(a) BY <1>1, <2>3, UnlinkKeepsInv
  <2>4. CASE Deleted(a) BY <1>1, <2>4, DeletedKeepsInv
  <2>5. CASE Keep(a) \/ UnlinkedSyncFailed(a) \/ RevocationKilled(a)
    BY <1>1, <2>5, FailureKeepsInv
  <2>6. CASE Report(a) BY <1>1, <2>6, ReportKeepsInv
  <2> QED BY <1>3, <2>1, <2>2, <2>3, <2>4, <2>5, <2>6 DEF RevokerStep
<1>4. CASE PowerLoss BY <1>1, <1>4, PowerLossKeepsInv
<1>5. CASE UNCHANGED dirVars
  <2>1. UNCHANGED <<vars, files, disk, settled, step, slot, revocation, minted, gone>>
    BY <1>5 DEF dirVars, entryVars, fileVars
  <2> USE DEF DirectoryInv
  <2>2. DirTypeOK' BY <2>1 DEF DirTypeOK
  <2>3. OneOperation' /\ OperationsFit'
    BY <2>1 DEF OneOperation, OperationsFit, Unlocked, vars, Epoch, Readable
  <2>4. DiskFits' BY <2>1 DEF DiskFits, Readable
  <2>5. TokensUnique' /\ SelectionFits' /\ GoneForGood' BY <2>1, SelectionsKept
  <2> QED BY <1>1, <2>2, <2>3, <2>4, <2>5
<1> QED BY <1>2, <1>3, <1>4, <1>5 DEF DirNext

-----------------------------------------------------------------------------
(***************************************************************************)
(* The directory's promises.                                               *)
(***************************************************************************)
\* One operation at a time, and every entry and token in its place (the lock
\* on .cache.lock, publish_replacement and delete_exact_record).
THEOREM DirectoryInvariant == DirSpec => []DirectoryInv
<1>1. DirectoryInv /\ [DirNext]_dirVars => DirectoryInv' BY DirStepPreservesInv
<1> QED BY <1>1, DirInitEstablishesInv, PTL DEF DirSpec

\* The epoch that the directory's operations use is the epoch file, although
\* the lock is held for several steps.
THEOREM DirectoryImplementsEpochFile == DirSpec => ImplementsEpochFile
<1>1. DirInit => Init BY DEF DirInit
<1>2. DirectoryInv /\ [DirNext]_dirVars => [Next]_vars BY StepIsEpochStep
<1> QED BY <1>1, <1>2, DirectoryInvariant, PTL DEF DirSpec, ImplementsEpochFile, Spec

\* So is its promise, as long as no rewrite of the epoch is torn: nothing is
\* published once a revocation began after the issuance took its guard.
THEOREM DirectoryImplementsPromise ==
    ASSUME ~TornWrite PROVE DirSpec => ImplementsIssuanceEpoch
<1>1. DirSpec => Spec BY DirectoryImplementsEpochFile DEF ImplementsEpochFile
<1>2. Spec => ImplementsIssuanceEpoch BY EpochFileImplementsPromise
<1> QED BY <1>1, <1>2

\* What a process finds, before and after a power loss, was written whole
\* (publish_replacement renames a synced file).
THEOREM EntriesWhole == DirSpec => []OnlyWholeEntries
<1>1. DirectoryInv => OnlyWholeEntries BY DEF DirectoryInv, DiskFits, OnlyWholeEntries
<1> QED BY <1>1, DirectoryInvariant, PTL

\* A power loss does not undo a success (sync_private_dir before the report).
THEOREM SuccessDurable == DirSpec => SuccessIsDurable
<1>1. DirectoryInv /\ [DirNext]_dirVars
        => [\A k \in settled \intersect settled': files'[k] = files[k]]_dirVars
  <2> SUFFICES ASSUME DirectoryInv, DirNext, NEW k \in settled, k \in settled'
               PROVE  files'[k] = files[k]
    OBVIOUS
  <2>1. k \in Keys BY DEF DirectoryInv, DirTypeOK
  <2>2. ASSUME NEW l \in Keys, NEW f, NEW bytes, Link(l, f, bytes) PROVE files'[k] = files[k]
    BY <2>1, <2>2 DEF Link, DirectoryInv, DirTypeOK
  <2>3. ASSUME NEW i \in Issuers, Rename(i) PROVE files'[k] = files[k]
    <3>1. slot[i] \in Keys BY <2>3 DEF Rename, DirectoryInv, OperationsFit, Procs
    <3> QED BY <2>2, <2>3, <3>1, Zenon DEF Rename
  <2>4. ASSUME NEW i \in Issuers, IssuerStep(i), ~Rename(i) PROVE files'[k] = files[k]
    BY <2>4 DEF IssuerStep, Guard, Leave, BeginPublish, WriteTemporary, SyncPublished, Published,
                PublishFails, entryVars, fileVars
  <2>5. ASSUME NEW a \in Advancers, Unlink(a) PROVE files'[k] = files[k]
    <3>1. PICK item \in revocation[a].left: Link(item[1], NoFile, {NoFile})
      BY <2>5, Zenon DEF Unlink
    <3>2. item[1] \in Keys BY DEF DirectoryInv, DirTypeOK
    <3> QED BY <2>2, <3>1, <3>2
  <2>6. ASSUME NEW a \in Advancers, RevokerStep(a), ~Unlink(a) PROVE files'[k] = files[k]
    BY <2>6 DEF RevokerStep, BeginRevocation, AdvanceFile, AdvanceFails, Select, SelectNothing,
                Keep, Deleted, UnlinkedSyncFailed, Report, RevocationKilled, entryVars, fileVars
  <2>7. CASE PowerLoss
    <3>1. disk[k] = {files[k]} BY <2>1 DEF DirectoryInv, DiskFits
    <3> QED BY <2>1, <2>7, <3>1 DEF PowerLoss
  <2> QED BY <2>3, <2>4, <2>5, <2>6, <2>7 DEF DirNext
<1> QED BY <1>1, DirectoryInvariant, PTL DEF DirSpec, SuccessIsDurable

\* What a revocation without failures deleted stays deleted (delete_exact_record
\* syncs the directory before it reports a deletion).
THEOREM CleanRevocationDurable == DirSpec => []CleanRevocationIsDurable
<1>1. DirectoryInv => CleanRevocationIsDurable
  BY DEF DirectoryInv, GoneForGood, Absent, CleanRevocationIsDurable
<1> QED BY <1>1, DirectoryInvariant, PTL

\* A file of an earlier release is neither deleted nor overwritten
\* (read_cache_entry precedes every publication and deletion).
THEOREM InvalidFilesStay == DirSpec => InvalidFilesRetained
<1>1. DirectoryInv /\ [DirNext]_dirVars
        => [\A k \in Keys: files[k] = Earlier(k) => files'[k] = files[k]]_dirVars
  <2> SUFFICES ASSUME DirectoryInv, DirNext, NEW k \in Keys, files[k] = Earlier(k)
               PROVE  files'[k] = files[k]
    OBVIOUS
  <2>1. files[k] # NoFile /\ ~Readable(files[k]) BY Unreadable
  <2>2. ASSUME NEW l \in Keys, NEW f, NEW bytes, Link(l, f, bytes), l # k
        PROVE  files'[k] = files[k]
    BY <2>2 DEF Link, DirectoryInv, DirTypeOK
  <2>3. ASSUME NEW i \in Issuers, Rename(i) PROVE files'[k] = files[k]
    <3>1. slot[i] \in Keys /\ (files[slot[i]] = NoFile \/ Readable(files[slot[i]]))
      BY <2>3 DEF Rename, DirectoryInv, OperationsFit, Procs
    <3>2. slot[i] # k BY <2>1, <3>1
    <3> QED BY <2>2, <2>3, <3>1, <3>2, Zenon DEF Rename
  <2>4. ASSUME NEW i \in Issuers, IssuerStep(i), ~Rename(i) PROVE files'[k] = files[k]
    BY <2>4 DEF IssuerStep, Guard, Leave, BeginPublish, WriteTemporary, SyncPublished, Published,
                PublishFails, entryVars, fileVars
  <2>5. ASSUME NEW a \in Advancers, Unlink(a) PROVE files'[k] = files[k]
    <3>1. PICK item \in revocation[a].left: /\ files[item[1]] = item[2]
                                            /\ Link(item[1], NoFile, {NoFile})
      BY <2>5, Zenon DEF Unlink
    <3>2. item[1] \in Keys /\ Readable(item[2]) BY DEF DirectoryInv, DirTypeOK, SelectionFits
    <3>3. item[1] # k BY <2>1, <3>1, <3>2
    <3> QED BY <2>2, <3>1, <3>2, <3>3
  <2>6. ASSUME NEW a \in Advancers, RevokerStep(a), ~Unlink(a) PROVE files'[k] = files[k]
    BY <2>6 DEF RevokerStep, BeginRevocation, AdvanceFile, AdvanceFails, Select, SelectNothing,
                Keep, Deleted, UnlinkedSyncFailed, Report, RevocationKilled, entryVars, fileVars
  <2>7. CASE PowerLoss
    <3>1. disk[k] = {Earlier(k)} BY DEF DirectoryInv, DiskFits
    <3> QED BY <2>7, <3>1 DEF PowerLoss
  <2> QED BY <2>3, <2>4, <2>5, <2>6, <2>7 DEF DirNext
<1> QED BY <1>1, DirectoryInvariant, PTL DEF DirSpec, InvalidFilesRetained

-----------------------------------------------------------------------------
(***************************************************************************)
(* Identifiers.                                                            *)
(***************************************************************************)
\* Some member of a nonempty set of identifiers is at most as long as any other.
LEMMA Shortest ==
    ASSUME NEW S, S # {}, \A id \in S: Len(id) \in Nat
    PROVE  \E id \in S: \A longer \in S: Len(id) <= Len(longer)
<1> DEFINE Lengths == {Len(id): id \in S}
<1>1. Lengths \subseteq Nat /\ Lengths # {} OBVIOUS
<1>2. PICK m \in Lengths: \A n \in Lengths: <<n, m>> \notin OpToRel(<, Nat)
      <2> HIDE DEF Lengths
      <2> QED BY <1>1, NatLessThanWellFounded, WFMin
<1>3. \A n \in Lengths: m <= n
      <2> SUFFICES ASSUME NEW n \in Lengths, n < m PROVE FALSE BY <1>1
      <2> <<n, m>> \in OpToRel(<, Nat) BY <1>1 DEF OpToRel
      <2> QED BY <1>2
<1> QED BY <1>3

\* What status prints for a key in use selects that key and no other: the
\* identifier is a prefix of its own key, and of no other unless it is the whole
\* key, which as long as the others would be equal to one it began.
LEMMA PrintedIdSelects ==
    ASSUME NEW keys \in SUBSET Keys, NEW k \in keys
    PROVE  IdSelects(k, keys)
<1> DEFINE Telling == {id \in Ids(k): id = k \/ \A other \in keys \ {k}: ~IsPrefix(id, other)}
<1>1. k \in Seq(Nat) /\ MinId <= Len(k) /\ Len(k) \in Nat
      BY KeysAssumption
<1>2. k \in Telling
      <2>1. k = SubSeq(k, 1, Len(k)) BY <1>1
      <2>2. Len(k) \in 0..Len(k) BY <1>1
      <2>3. SubSeq(k, 1, Len(k)) \in Prefixes(k) BY <2>2, Zenon DEF Prefixes
      <2> QED BY <1>1, <2>1, <2>3 DEF Ids
<1>3. ASSUME NEW id \in Prefixes(k)
      PROVE  Len(id) \in Nat /\ IsPrefix(id, k)
      <2>1. PICK l \in 0..Len(k): id = SubSeq(k, 1, l) BY <1>3 DEF Prefixes
      <2>2. Len(id) = l /\ \A i \in 1..l: id[i] = k[i] BY <1>1, <2>1
      <2>3. SubSeq(id, 1, Len(id)) = SubSeq(k, 1, Len(id)) BY <1>1, <2>1, <2>2
      <2> QED BY <1>1, <2>2, <2>3 DEF IsPrefix
<1>4. ASSUME NEW other \in keys, IsPrefix(k, other)
      PROVE  other = k
      <2>1. other \in Seq(Nat) /\ Len(other) = Len(k) BY KeysAssumption
      <2>2. SubSeq(k, 1, Len(k)) = SubSeq(other, 1, Len(k)) BY <1>4 DEF IsPrefix
      <2> QED BY <1>1, <2>1, <2>2
<1>5. \E id \in Telling: \A longer \in Telling: Len(id) <= Len(longer)
      <2>1. \A id \in Telling: Len(id) \in Nat BY <1>3 DEF Ids
      <2> HIDE DEF Telling
      <2> QED BY <1>2, <2>1, Shortest
<1>6. Abbreviate(k, keys) \in Telling
      BY <1>5 DEF Abbreviate
<1>7. IsPrefix(Abbreviate(k, keys), k)
      BY <1>3, <1>6 DEF Ids
<1>8. ASSUME NEW other \in keys, IsPrefix(Abbreviate(k, keys), other)
      PROVE  other = k
      BY <1>4, <1>6, <1>8
<1> QED BY <1>7, <1>8 DEF IdSelects, Matching

\* The identifiers that `ghst status` prints select the entries they are printed
\* for, in every state of the cache (abbreviate_cache_key).
THEOREM StatusIdsSelect == DirSpec => []StatusIdSelects
<1>1. StatusIdSelects BY PrintedIdSelects DEF StatusIdSelects, InUse
<1> QED BY <1>1, PTL
=============================================================================
