------------------------- MODULE RevokeCredentials --------------------------
(***************************************************************************)
(* `ghst revoke` over the reusable tokens.  The epoch advance and the      *)
(* inspection are one step under the lock; the snapshot is worked through  *)
(* without it.  Revoke is the same command over the records of runs.       *)
(***************************************************************************)
EXTENDS CredentialStore

CONSTANT Revokers   \* processes running `ghst revoke`

VARIABLE rev        \* revoker -> its local state and its last report

(***************************************************************************)
(* now is the time it read when it started; snap the tokens it inspected;  *)
(* todo the slots to process; cur the slot it is about to delete and       *)
(* intent why.  epoch, covered and clean are what its last `revoke --all`  *)
(* saw and reported: the epoch it started (0 for none), the tokens in its  *)
(* snapshot, and whether it had no failure.                                *)
(***************************************************************************)
Revocation == [pc: {"idle", "process", "delete", "done"}, now: Nat,
               snap: [Slots -> {0} \union Tokens], todo: SUBSET Slots,
               cur: SUBSET Slots, intent: {"RemotelyInactive", "NearExpiry", "LocalOnly"},
               epoch: Nat, covered: SUBSET Tokens, clean: BOOLEAN]

NoSnapshot == [s \in Slots |-> 0]

RevokeTypeOK == rev \in [Revokers -> Revocation]

RevokeInit ==
    rev = [v \in Revokers |->
            [pc |-> "idle", now |-> 0, snap |-> NoSnapshot, todo |-> {}, cur |-> {},
             intent |-> "RemotelyInactive", epoch |-> 0, covered |-> {}, clean |-> TRUE]]

RevokeBecomes(v, state) == rev' = [rev EXCEPT ![v] = state]

\* begin_revocation: All, or One slot whose identifier matches.
Begin(v, selected, all) ==
    /\ rev[v].pc \in {"idle", "done"}
    /\ epoch < MaxEpoch
    /\ epoch' = epoch + 1
    /\ \E now \in 0..clock:
          RevokeBecomes(v,
              [rev[v] EXCEPT
                  !.pc = "process", !.now = now, !.todo = selected, !.clean = TRUE,
                  !.snap = [s \in Slots |-> IF s \in selected THEN cached[s] ELSE 0],
                  !.epoch = IF all THEN epoch' ELSE 0,
                  !.covered = IF all THEN {cached[s]: s \in selected} ELSE {}])
    /\ UNCHANGED <<clock, cached, githubVars, untracked, doubtful>>

Occupied == {s \in Slots: cached[s] # 0}
RevokeAll(v) == Begin(v, Occupied, TRUE)
RevokeOne(v) == \E s \in Occupied: Begin(v, {s}, FALSE)

\* Go on to delete the record in slot s, for the given reason.
Intend(v, s, intent) ==
    RevokeBecomes(v, [rev[v] EXCEPT !.pc = "delete", !.cur = {s}, !.intent = intent])

Processing(v, s) == rev[v].pc = "process" /\ s \in rev[v].todo

\* process_snapshot: too close to its expiry, or nothing to revoke it with.
RevokeLocally(v, s) ==
    /\ Processing(v, s)
    /\ Intend(v, s, IF SafeToHandoff(rev[v].snap[s], rev[v].now) THEN "LocalOnly"
                                                               ELSE "NearExpiry")
    /\ UNCHANGED storeVars

\* Mutant: a record that cannot be revoked remotely counts as dealt with.
RevokeRemotelyUnchecked(v, s) ==
    /\ Processing(v, s) /\ SafeToHandoff(rev[v].snap[s], rev[v].now)
    /\ \E answer \in {"Ok", "NotFound", "Error"}:
          DeleteToken(rev[v].snap[s], answer, "revoked")
    /\ Intend(v, s, "RemotelyInactive")
    /\ UNCHANGED <<clock, epoch, cached, untracked, doubtful>>

\* revoke_matching_authority: anything but success or 404 retains the record.
RevokeRemotely(v, s) ==
    /\ Processing(v, s) /\ SafeToHandoff(rev[v].snap[s], rev[v].now)
    /\ \/ /\ \E answer \in {"Ok", "NotFound"}: DeleteToken(rev[v].snap[s], answer, "revoked")
          /\ Intend(v, s, "RemotelyInactive")
       \/ /\ DeleteToken(rev[v].snap[s], "Error", "revoked")
          /\ RevokeBecomes(v, [rev[v] EXCEPT !.todo = @ \ {s}, !.clean = FALSE])
    /\ UNCHANGED <<clock, epoch, cached, untracked, doubtful>>

\* Mutant: the slot is emptied whatever token is in it by now.
RevokeDeleteInexact(v, s) ==
    /\ rev[v].pc = "delete" /\ s \in rev[v].cur
    /\ Forget(s)
    /\ Lose(IF rev[v].intent = "RemotelyInactive" THEN {} ELSE {rev[v].snap[s]}, "reported")
    /\ RevokeBecomes(v, [rev[v] EXCEPT !.pc = "process", !.cur = {}, !.todo = @ \ {s},
                                       !.clean = @ /\ rev[v].intent # "LocalOnly"])
    /\ UNCHANGED <<clock, epoch, githubVars, doubtful>>

\* finalize_deletion: delete_exact_record, and what it adds to the report.  An
\* error may be reported after the removal (the directory sync failed).
RevokeDelete(v, s) ==
    /\ rev[v].pc = "delete" /\ s \in rev[v].cur
    /\ \E deleted, removed \in BOOLEAN:
          /\ deleted => removed
          /\ removed => cached[s] = rev[v].snap[s]
          /\ IF removed
             THEN /\ Forget(s)
                  /\ Lose(IF rev[v].intent = "RemotelyInactive" THEN {}
                          ELSE {rev[v].snap[s]}, "reported")
             ELSE UNCHANGED <<cached, untracked>>
          /\ RevokeBecomes(v,
                 [rev[v] EXCEPT
                     !.pc = "process", !.cur = {}, !.todo = @ \ {s},
                     !.clean = @ /\ deleted /\ rev[v].intent # "LocalOnly"])
    /\ UNCHANGED <<clock, epoch, githubVars, doubtful>>

RevokeReport(v) ==
    /\ rev[v].pc = "process" /\ rev[v].todo = {}
    /\ RevokeBecomes(v, [rev[v] EXCEPT !.pc = "done", !.now = 0, !.snap = NoSnapshot,
                                       !.intent = "RemotelyInactive"])
    /\ UNCHANGED storeVars

RevokeKilled(v) ==
    /\ rev[v].pc \in {"process", "delete"}
    /\ RevokeBecomes(v, [rev[v] EXCEPT !.pc = "idle", !.now = 0, !.snap = NoSnapshot,
                                       !.todo = {}, !.cur = {},
                                       !.intent = "RemotelyInactive"])
    /\ UNCHANGED storeVars

RevokeStep(v) ==
    \/ RevokeAll(v) \/ RevokeOne(v)
    \/ \E s \in Slots: RevokeLocally(v, s) \/ RevokeRemotely(v, s) \/ RevokeDelete(v, s)
    \/ RevokeReport(v) \/ RevokeKilled(v)
=============================================================================
