------------------------- MODULE MCCredentialCache --------------------------
(***************************************************************************)
(* Instances of CredentialCache for TLC.  A behaviour of the instance has  *)
(* one meeting: the commands that run at the same time in it.  All steps   *)
(* of a meeting interleave; the other commands stay idle.                  *)
(***************************************************************************)
EXTENDS CredentialCache, TLC

CONSTANT Meetings   \* sets of processes

ASSUME MeetingAssumption == Meetings \subseteq SUBSET (Issuers \union Revokers)

VARIABLE meeting

MCInit == Init /\ meeting \in Meetings

MCNext ==
    \/ ByEnv /\ UNCHANGED meeting
    \/ \E p \in Acquirers \intersect meeting: ByAcquire(p) /\ UNCHANGED meeting
    \/ \E p \in Logins \intersect meeting: ByLogin(p) /\ UNCHANGED meeting
    \/ \E v \in Revokers \intersect meeting: ByRevoke(v) /\ UNCHANGED meeting

MCSpec == MCInit /\ [][MCNext]_<<vars, meeting>>

\* Commands of a kind are interchangeable.
IssuerSymmetry == Permutations(Acquirers) \union Permutations(Logins)
=============================================================================
