------------------------------ MODULE Revoke -------------------------------
(***************************************************************************)
(* `ghst revoke`: invalidate every issuance in flight by advancing the     *)
(* epoch, then revoke the selected records, unconditionally.               *)
(*                                                                         *)
(* The epoch advance and the inspection are one step under the lock.  The  *)
(* snapshot is then worked through without the lock; each record is        *)
(* deleted only if it is still the one inspected.                          *)
(***************************************************************************)
EXTENDS CacheStore

CONSTANT Revokers   \* processes running `ghst revoke`

VARIABLES
    vpc,      \* revoker -> the call it makes next
    vnow,     \* revoker -> the time it read when it started
    vsnap,    \* revoker -> run -> the record it inspected
    vtodo,    \* revoker -> runs of the snapshot still to process
    vcur,     \* revoker -> the runs whose token it has dealt with: at most one
    vintent,  \* revoker -> why it may delete that record (DeletionIntent)
    vepoch,   \* revoker -> the epoch of its last `revoke --all`, 0 for none
    vcovered, \* revoker -> runs in the snapshot of that `revoke --all`
    vclean    \* revoker -> whether its report has no failure so far

revokeVars == <<vpc, vnow, vsnap, vtodo, vcur, vintent, vepoch, vcovered, vclean>>

RevokeTypeOK ==
    /\ vpc \in [Revokers -> {"idle", "process", "delete", "done"}]
    /\ vnow \in [Revokers -> Nat]
    /\ vsnap \in [Revokers -> [Runs -> Slot]]
    /\ vtodo \in [Revokers -> SUBSET Runs]
    /\ vcur \in [Revokers -> SUBSET Runs]
    /\ vintent \in [Revokers -> {"RemotelyInactive", "NearExpiry", "LocalOnly"}]
    /\ vepoch \in [Revokers -> Nat]
    /\ vcovered \in [Revokers -> SUBSET Runs]
    /\ vclean \in [Revokers -> BOOLEAN]

RevokeInit ==
    /\ vpc = [v \in Revokers |-> "idle"]
    /\ vnow = [v \in Revokers |-> 0]
    /\ vsnap = [v \in Revokers |-> [r \in Runs |-> NoRecord]]
    /\ vtodo = [v \in Revokers |-> {}]
    /\ vcur = [v \in Revokers |-> {}]
    /\ vintent = [v \in Revokers |-> "RemotelyInactive"]
    /\ vepoch = [v \in Revokers |-> 0]
    /\ vcovered = [v \in Revokers |-> {}]
    /\ vclean = [v \in Revokers |-> TRUE]

\* begin_revocation advances the epoch and inspects the cache.
AdvanceEpoch ==
    /\ epoch < MaxEpoch
    /\ epoch' = epoch + 1
    /\ UNCHANGED <<baseGen, baseCached, cache, worldVars, localOnly>>

Select(v, selected) ==
    /\ \E now \in 0..clock: vnow' = [vnow EXCEPT ![v] = now]
    /\ vsnap' = [vsnap EXCEPT ![v] = [r \in Runs |-> IF r \in selected THEN cache[r]
                                                                      ELSE NoRecord]]
    /\ vtodo' = [vtodo EXCEPT ![v] = selected]
    /\ vclean' = [vclean EXCEPT ![v] = TRUE]
    /\ vpc' = [vpc EXCEPT ![v] = "process"]
    /\ UNCHANGED <<vcur, vintent>>

\* `revoke --all`
RevokeAll(v) ==
    /\ vpc[v] \in {"idle", "done"}
    /\ AdvanceEpoch
    /\ LET all == {r \in Runs: Present(cache[r])} IN
          /\ Select(v, all)
          /\ vcovered' = [vcovered EXCEPT ![v] = all]
    /\ vepoch' = [vepoch EXCEPT ![v] = epoch']

\* `revoke <id>`: exactly one record matches the prefix.
RevokeOne(v, r) ==
    /\ vpc[v] \in {"idle", "done"}
    /\ AdvanceEpoch
    /\ Present(cache[r])
    /\ Select(v, {r})
    /\ vcovered' = [vcovered EXCEPT ![v] = {}]
    /\ vepoch' = [vepoch EXCEPT ![v] = 0]

\* No record or several match, or the inspection fails: the epoch has advanced
\* all the same.
RevokeNothing(v) ==
    /\ vpc[v] \in {"idle", "done"}
    /\ AdvanceEpoch
    /\ UNCHANGED revokeVars

\* Go on to delete the record of run r, for the given reason.
StartDeletion(v, r, intent) ==
    /\ vintent' = [vintent EXCEPT ![v] = intent]
    /\ vcur' = [vcur EXCEPT ![v] = {r}]
    /\ vpc' = [vpc EXCEPT ![v] = "delete"]
    /\ UNCHANGED <<vtodo, vclean>>

Finalized(v, r, clean) ==
    /\ vtodo' = [vtodo EXCEPT ![v] = @ \ {r}]
    /\ vclean' = [vclean EXCEPT ![v] = @ /\ clean]

\* process_snapshot, a token expired or near its expiry.
RevokeNearExpiry(v, r) ==
    /\ vpc[v] = "process" /\ r \in vtodo[v]
    /\ ~SafeToHandoff(expires[r], vnow[v])
    /\ StartDeletion(v, r, "NearExpiry")
    /\ UNCHANGED <<sharedVars, vnow, vsnap, vepoch, vcovered>>

\* process_snapshot, no configured authority or no secret to revoke with.
RevokeWithoutAuthority(v, r) ==
    /\ vpc[v] = "process" /\ r \in vtodo[v]
    /\ SafeToHandoff(expires[r], vnow[v])
    /\ StartDeletion(v, r, "LocalOnly")
    /\ UNCHANGED <<sharedVars, vnow, vsnap, vepoch, vcovered>>

\* Mutant: a failed revocation is not reported as a failure.
RevokeRemotelyUnchecked(v, r) ==
    /\ vpc[v] = "process" /\ r \in vtodo[v]
    /\ SafeToHandoff(expires[r], vnow[v])
    /\ \/ /\ \E answer \in {"Ok", "NotFound"}: DeleteToken(r, answer)
          /\ StartDeletion(v, r, "RemotelyInactive")
       \/ /\ DeleteToken(r, "Error")
          /\ Finalized(v, r, TRUE)
          /\ UNCHANGED <<vpc, vcur, vintent>>
    /\ UNCHANGED <<storeVars, clock, expires, wrapper, child, localOnly>>
    /\ UNCHANGED <<vnow, vsnap, vepoch, vcovered>>

\* revoke_matching_authority: anything but success or 404 retains the record.
RevokeRemotely(v, r) ==
    /\ vpc[v] = "process" /\ r \in vtodo[v]
    /\ SafeToHandoff(expires[r], vnow[v])
    /\ \/ /\ \E answer \in {"Ok", "NotFound"}: DeleteToken(r, answer)
          /\ StartDeletion(v, r, "RemotelyInactive")
       \/ /\ DeleteToken(r, "Error")
          /\ Finalized(v, r, FALSE)
          /\ UNCHANGED <<vpc, vcur, vintent>>
    /\ UNCHANGED <<storeVars, clock, expires, wrapper, child, localOnly>>
    /\ UNCHANGED <<vnow, vsnap, vepoch, vcovered>>

\* finalize_deletion.
RevokeDelete(v, r) ==
    /\ vpc[v] = "delete" /\ r \in vcur[v]
    /\ \E result \in {"Deleted", "Missing", "Changed", "SyncFailed", "Error"}:
          /\ DeleteExact(r, vsnap[v][r], result)
          /\ Finalized(v, r, result = "Deleted" /\ vintent[v] # "LocalOnly")
          /\ localOnly' = IF result \in {"Deleted", "SyncFailed"}
                             /\ vintent[v] # "RemotelyInactive"
                          THEN localOnly \union {r}
                          ELSE localOnly
    /\ vcur' = [vcur EXCEPT ![v] = {}]
    /\ vpc' = [vpc EXCEPT ![v] = "process"]
    /\ UNCHANGED <<epoch, baseGen, baseCached, worldVars>>
    /\ UNCHANGED <<vnow, vsnap, vintent, vepoch, vcovered>>

\* The report is complete; what it says of vepoch and vclean is kept.
RevokeReport(v) ==
    /\ vpc[v] = "process" /\ vtodo[v] = {}
    /\ vpc' = [vpc EXCEPT ![v] = "done"]
    /\ vnow' = [vnow EXCEPT ![v] = 0]
    /\ vsnap' = [vsnap EXCEPT ![v] = [r \in Runs |-> NoRecord]]
    /\ UNCHANGED <<sharedVars, vtodo, vcur, vintent, vepoch, vcovered, vclean>>

\* The revoke is killed part-way: it reports nothing.
RevokeCrash(v) ==
    /\ vpc[v] \in {"process", "delete"}
    /\ vpc' = [vpc EXCEPT ![v] = "idle"]
    /\ vnow' = [vnow EXCEPT ![v] = 0]
    /\ vsnap' = [vsnap EXCEPT ![v] = [r \in Runs |-> NoRecord]]
    /\ vtodo' = [vtodo EXCEPT ![v] = {}]
    /\ vcur' = [vcur EXCEPT ![v] = {}]
    /\ UNCHANGED <<sharedVars, vintent, vepoch, vcovered, vclean>>

RevokeStep(v, r) ==
    \/ RevokeNearExpiry(v, r) \/ RevokeWithoutAuthority(v, r)
    \/ RevokeRemotely(v, r) \/ RevokeDelete(v, r)

RevokeNext ==
    \E v \in Revokers:
        \/ RevokeAll(v) \/ RevokeNothing(v)
        \/ \E r \in Runs: RevokeOne(v, r) \/ RevokeStep(v, r)
        \/ RevokeReport(v) \/ RevokeCrash(v)
=============================================================================
