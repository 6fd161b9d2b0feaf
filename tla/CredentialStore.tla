-------------------------- MODULE CredentialStore --------------------------
(***************************************************************************)
(* The reusable tokens of one source profile and one scoped profile, the   *)
(* two cache slots that hold them, and the storage operations on them.     *)
(*                                                                         *)
(* A token is a number, given out in the order GitHub mints them; 0 stands *)
(* for no token.  The generation of a base token is the fingerprint of its *)
(* access token, so the number is the generation.  The configuration may   *)
(* be edited between two commands: each command brings its own authority   *)
(* and policy.                                                             *)
(***************************************************************************)
EXTENDS Naturals

CONSTANTS
    Authorities,  \* client id and account, as configured at some time
    Policies,     \* permissions of the scoped profile, as configured
    Margin,       \* the handoff safety margin (30 seconds)
    Window,       \* the renewal window (10 minutes)
    Lifetimes,    \* token lifetimes that GitHub may answer with
    MaxTokens,    \* bound on the tokens minted
    MaxClock,     \* bound on the clock
    MaxEpoch      \* bound on the issuance epoch

ASSUME PolicyAssumption == "base" \notin Policies
ASSUME MarginAssumption == Margin \in Nat /\ Window \in Nat /\ Margin <= Window
ASSUME LifetimeAssumption == Lifetimes \subseteq Nat
ASSUME BoundAssumption == MaxTokens \in Nat \ {0} /\ MaxClock \in Nat /\ MaxEpoch \in Nat

VARIABLES
    clock,      \* wall clock, read by every process and by GitHub
    epoch,      \* issuance epoch kept in .cache.lock
    cached,     \* slot -> token in the file, or 0
    minted,     \* how many tokens GitHub has minted
    token,      \* token -> what is recorded with it, fixed when it is minted
    fate,       \* token -> what GitHub knows of it, and who had it revoked
    untracked,  \* token -> why ghst no longer keeps track of it, or "no"
    doubtful    \* tokens whose publication was reported as failed

githubVars == <<minted, token, fate>>
storeVars == <<clock, epoch, cached, githubVars, untracked, doubtful>>

-----------------------------------------------------------------------------
Tokens == 1..MaxTokens
Slots == {"base", "scoped"}

Token == [authority: Authorities, policy: Policies \union {"base"},
          parent: {0} \union Tokens, expires: Nat, guard: Nat]

\* "discarded" by the command that had it minted or renewed it, "revoked" by
\* `ghst revoke`.
Fate == {"none", "working", "revoked", "discarded"}

\* "lost": the answer that carried it never came, the command was killed, an
\* incompatible record overwrote it, or GitHub rejected it.
Reason == {"no", "lost", "failed renewal", "reported"}

StoreTypeOK ==
    /\ clock \in Nat
    /\ epoch \in Nat
    /\ cached \in [Slots -> {0} \union Tokens]
    /\ minted \in {0} \union Tokens
    /\ token \in [1..minted -> Token]
    /\ fate \in [Tokens -> Fate]
    /\ untracked \in [Tokens -> Reason]
    /\ doubtful \subseteq Tokens

\* TokenExpiry: elapsed, usable with the margin left, due for renewal.
Expired(t, now) == token[t].expires <= now
SafeToHandoff(t, now) == token[t].expires > now + Margin
DueForRenewal(t, now) == token[t].expires <= now + Window

Works(t) == t \in 1..minted /\ fate[t] = "working" /\ ~Expired(t, clock)

\* check_provenance: profile and repository scope are fixed by the slot.
Provenance(t) == <<token[t].authority, token[t].policy, token[t].parent>>

\* Mutant: the permissions are not compared.
CompatibleForAnyPolicy(existing, t, now) ==
    /\ SafeToHandoff(existing, now)
    /\ token[existing].parent = token[t].parent

\* compatible_with: a record in the cache may be handed out in place of t.
Compatible(existing, t, now) ==
    /\ SafeToHandoff(existing, now)
    /\ Provenance(existing) = Provenance(t)

\* The record that a commit of t has to leave in place.
Winner(s, t, now) == cached[s] # 0 /\ Compatible(cached[s], t, now)

\* What a fresh cache holds: nothing, or the base token of a previous login.
BaseToken(authority, lifetime) ==
    [authority |-> authority, policy |-> "base", parent |-> 0,
     expires |-> lifetime, guard |-> 0]

StoreInit ==
    /\ clock = 0 /\ epoch = 0
    /\ untracked = [t \in Tokens |-> "no"]
    /\ doubtful = {}
    /\ \/ /\ cached = [s \in Slots |-> 0]
          /\ minted = 0 /\ token = <<>>
          /\ fate = [t \in Tokens |-> "none"]
       \/ /\ cached = [s \in Slots |-> IF s = "base" THEN 1 ELSE 0]
          /\ minted = 1
          /\ \E a \in Authorities, l \in Lifetimes: l > Margin /\ token = <<BaseToken(a, l)>>
          /\ fate = [t \in Tokens |-> IF t = 1 THEN "working" ELSE "none"]

-----------------------------------------------------------------------------
(***************************************************************************)
(* GitHub.                                                                 *)
(***************************************************************************)
Mint(authority, policy, parent, guard, lifetime) ==
    /\ minted < MaxTokens
    /\ minted' = minted + 1
    /\ token' = [t \in 1..minted' |->
                    IF t \in 1..minted THEN token[t]
                    ELSE [authority |-> authority, policy |-> policy, parent |-> parent,
                          expires |-> clock + lifetime, guard |-> guard]]
    /\ fate' = [fate EXCEPT ![minted'] = "working"]

\* DELETE of a token.  Success means it is revoked; the answer is 404 for one
\* that does not work; any other error may hide a revocation that took effect.
DeleteToken(t, answer, by) ==
    /\ \/ /\ answer = "Ok" /\ Works(t)
          /\ fate' = [fate EXCEPT ![t] = by]
       \/ /\ answer = "NotFound" /\ ~Works(t)
          /\ UNCHANGED fate
       \/ /\ answer = "Error"
          /\ fate' \in {fate, [fate EXCEPT ![t] = IF @ = "working" THEN by ELSE @]}
    /\ UNCHANGED <<minted, token>>

(***************************************************************************)
(* Storage: one step each, under the exclusive lock.                       *)
(***************************************************************************)

\* publish_replacement may report an error before its rename or after it.
Publish(s, t, ok) ==
    /\ \/ cached' = [cached EXCEPT ![s] = t] /\ ok \in BOOLEAN
       \/ UNCHANGED cached /\ ok = FALSE
    /\ doubtful' = IF ok THEN doubtful ELSE doubtful \union {t}

\* Tokens that lose their record for the given reason; a token that GitHub no
\* longer accepts needs none, and the first reason stays.
Lose(tokens, reason) ==
    untracked' = [t \in Tokens |->
                    IF t \in tokens /\ fate[t] = "working" /\ untracked[t] = "no"
                    THEN reason ELSE untracked[t]]

Forget(s) == cached' = [cached EXCEPT ![s] = 0]

\* `ghst prune` of a base or scoped record; both inspection and deletion see
\* the same expired record, so the two steps amount to one.
PruneExpired(s) ==
    /\ cached[s] # 0 /\ Expired(cached[s], clock)
    /\ Forget(s)
    /\ UNCHANGED <<clock, epoch, githubVars, untracked, doubtful>>

Tick ==
    /\ clock < MaxClock
    /\ clock' = clock + 1
    /\ UNCHANGED <<epoch, cached, githubVars, untracked, doubtful>>
=============================================================================
