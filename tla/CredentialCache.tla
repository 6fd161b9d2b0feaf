-------------------------- MODULE CredentialCache ---------------------------
(***************************************************************************)
(* Reusable tokens as a whole: `ghst token`, `ghst login`, `ghst revoke`   *)
(* and `ghst prune` run as separate processes on the same two slots.  They *)
(* share the cache and GitHub, and every storage operation is atomic.      *)
(***************************************************************************)
EXTENDS Acquire, Login, RevokeCredentials

vars == <<storeVars, proc, rev>>

Init == StoreInit /\ IssuanceInit /\ RevokeInit

ByEnv == (Tick \/ \E s \in Slots: PruneExpired(s)) /\ UNCHANGED <<proc, rev>>
ByAcquire(p) == AcquireStep(p) /\ UNCHANGED rev
ByLogin(p) == LoginStep(p) /\ UNCHANGED rev
ByRevoke(v) == RevokeStep(v) /\ UNCHANGED proc

Next ==
    \/ ByEnv
    \/ \E p \in Acquirers: ByAcquire(p)
    \/ \E p \in Logins: ByLogin(p)
    \/ \E v \in Revokers: ByRevoke(v)

Spec == Init /\ [][Next]_vars

-----------------------------------------------------------------------------
\* Every variable has its type.
TypeOK == StoreTypeOK /\ IssuanceTypeOK /\ RevokeTypeOK

\* A token that works and that nobody was told about is in its file or in the
\* hands of a command that is still to revoke it.  The ways to lose one are
\* those listed as reasons: an answer that never came, a killed command, an
\* incompatible record that a new one overwrites, a base token that GitHub
\* rejected, a renewal whose publication failed after the rename, and a failure
\* that was reported.  (acquire.rs, base.rs: every other path revokes.)
WorkingTokensAccounted ==
    \A t \in 1..minted:
        Works(t) /\ untracked[t] = "no" =>
            \/ \E s \in Slots: cached[s] = t
            \/ \E p \in Issuers: t \in Holding(p)

\* The commands that give up a candidate or a displaced token never take the
\* one that is left in the cache: a cached token was revoked by `ghst revoke`
\* only, unless its own publication was reported as failed.
CachedTokensWork ==
    \A s \in Slots:
        cached[s] # 0 =>
            \/ fate[cached[s]] \in {"working", "revoked"}
            \/ cached[s] \in doubtful

\* The token a command returns was issued for the authority and the permissions
\* of its own configuration, from the base token it read, however many commands
\* with other configurations wrote the slot in between.
ReturnedTokenFits ==
    \A p \in Issuers:
        proc[p].pc = "return" =>
            LET t == token[proc[p].result] IN
                /\ t.authority = proc[p].authority
                /\ t.policy = proc[p].policy
                /\ t.parent = proc[p].base

\* A record that may still be handed out in place of the new one gives way to
\* nothing but the renewal of exactly that token (commit_base, commit_scoped,
\* renew_scoped): of concurrent commands, the first to persist wins.
OnlyRenewalDisplaces ==
    [][\A s \in Slots:
          (cached[s] # 0 /\ cached'[s] \notin {0, cached[s]}) =>
              \/ ~Compatible(cached[s], cached'[s], clock)
              \/ \E p \in Acquirers: proc[p].old = cached[s] /\ proc[p].held = cached'[s]
      ]_vars

\* A record disappears only because its token expired, because GitHub rejected
\* this very token, or because a `ghst revoke` inspected this very token: a login
\* that replaced it in the meantime is not undone.
OnlyInspectedRemoved ==
    [][\A s \in Slots:
          (cached[s] # 0 /\ cached'[s] = 0) =>
              \/ Expired(cached[s], clock)
              \/ \E p \in Acquirers: proc[p].pc = "evict" /\ proc[p].base = cached[s]
              \/ \E v \in Revokers: rev[v].snap[s] = cached[s]
      ]_vars

\* After `revoke --all` advanced the epoch, no login, issuance or renewal that
\* took its guard before gets a token into the cache behind the snapshot.
RevokeCoversEarlierIssuance ==
    \A v \in Revokers, s \in Slots:
        cached[s] # 0 /\ token[cached[s]].guard < rev[v].epoch =>
            cached[s] \in rev[v].covered

\* A `revoke --all` that reports no failure leaves none of the tokens it
\* inspected at work, except those it reports as deleted locally.
CleanRevokeEndsTokens ==
    \A v \in Revokers:
        rev[v].pc = "done" /\ rev[v].clean =>
            \A t \in rev[v].covered: ~Works(t) \/ untracked[t] # "no"

-----------------------------------------------------------------------------
(***************************************************************************)
(* Why the safety properties hold: an inductive invariant.                 *)
(***************************************************************************)

\* What files and revokes name has been minted.
NamesMinted ==
    /\ \A s \in Slots: cached[s] <= minted
    /\ \A v \in Revokers:
          /\ rev[v].covered \subseteq 1..minted
          /\ \A s \in Slots: rev[v].snap[s] <= minted

\* Each command works with tokens of its own configuration and of the base token
\* it read; the candidate carries the guard it was requested under.
Busy(p) == proc[p].pc # "idle"
HasCandidate(p) == proc[p].pc \in {"persist", "discard", "displace"}
Refers(p, t) == t \in 1..minted /\ Expected(p, t)

Consistent(p) ==
    /\ Busy(p) => proc[p].authority \in Authorities
    /\ Busy(p) /\ p \in Logins =>
          /\ proc[p].policy = "base" /\ proc[p].base = 0 /\ proc[p].old = 0
          /\ proc[p].pc \notin {"classify", "evict", "displace"}
    /\ Busy(p) /\ p \in Acquirers /\ proc[p].pc # "return" =>
          proc[p].policy \in Policies /\ proc[p].base \in 1..minted
    /\ proc[p].old # 0 => Refers(p, proc[p].old)
    /\ proc[p].result # 0 => Refers(p, proc[p].result)
    /\ proc[p].pc = "return" => proc[p].result # 0
    /\ proc[p].pc = "displace" => proc[p].old # 0 /\ proc[p].result # 0
    /\ HasCandidate(p) => /\ Refers(p, proc[p].held)
                          /\ token[proc[p].held].guard = proc[p].guard

CommandsConsistent == \A p \in Issuers: Consistent(p)

\* Base tokens are the ones in the slot for them.
BaseSlot ==
    cached["base"] # 0 =>
        token[cached["base"]].policy = "base" /\ token[cached["base"]].parent = 0

\* A candidate that is still to be persisted is nobody else's and in no file.  A
\* token that is about to be revoked is in no file either, unless its own
\* publication was reported as failed.
Cached(t) == \E s \in Slots: cached[s] = t

OwnCandidate ==
    \A p \in Issuers:
        /\ proc[p].pc = "persist" =>
              /\ fate[proc[p].held] \in {"working", "revoked"}
              /\ ~Cached(proc[p].held)
              /\ \A q \in Issuers: q # p => proc[p].held \notin Holding(q)
        /\ proc[p].pc = "discard" => ~Cached(proc[p].held) \/ proc[p].held \in doubtful
        /\ proc[p].pc = "displace" => ~Cached(proc[p].old)

\* A revoke that deletes a record because its token is inactive is right; its
\* epoch is not ahead, and what a clean one has not ended is still on its list.
DeletersKnow ==
    \A v \in Revokers, s \in Slots:
        rev[v].pc = "delete" /\ s \in rev[v].cur /\ rev[v].intent = "RemotelyInactive"
            => ~Works(rev[v].snap[s])

RevokeEpochs == \A v \in Revokers: rev[v].epoch <= epoch

CleanRevokeProgress ==
    \A v \in Revokers:
        /\ rev[v].pc = "done" => rev[v].todo = {}
        /\ rev[v].pc # "idle" /\ rev[v].clean =>
              \A t \in rev[v].covered:
                  \/ ~Works(t) \/ untracked[t] # "no"
                  \/ \E s \in rev[v].todo: rev[v].snap[s] = t

CacheInv ==
    /\ TypeOK
    /\ NamesMinted
    /\ CommandsConsistent
    /\ BaseSlot
    /\ OwnCandidate
    /\ CachedTokensWork
    /\ WorkingTokensAccounted
    /\ DeletersKnow
    /\ RevokeEpochs
    /\ RevokeCoversEarlierIssuance
    /\ CleanRevokeProgress
=============================================================================
