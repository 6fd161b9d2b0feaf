------------------------------ MODULE Acquire -------------------------------
(***************************************************************************)
(* `ghst token`: hand out the cached token, renew it shortly before it     *)
(* expires, or mint a new one.  The base token and the scoped token are    *)
(* read without a lock held afterwards; the persisting operation compares  *)
(* the epoch, the base token and the scoped token again.                   *)
(***************************************************************************)
EXTENDS Issuance

\* load_current_base_entry: a base token of another authority is no token.
CurrentBase(authority) ==
    cached["base"] # 0 /\ token[cached["base"]].authority = authority

\* prepare: without a base token the command fails and changes nothing.
Prepare(p) ==
    /\ proc[p].pc = "idle"
    /\ \E a \in Authorities, policy \in Policies:
          /\ CurrentBase(a)
          /\ Becomes(p, [Idle EXCEPT !.pc = "classify", !.authority = a, !.policy = policy,
                                     !.base = cached["base"], !.at = clock])
    /\ UNCHANGED storeVars

\* acquire_base: `ghst token` of an app profile.  It reads the time first.
AcquireBase(p) ==
    /\ proc[p].pc = "idle"
    /\ \E a \in Authorities:
          /\ CurrentBase(a)
          /\ \E now \in 0..clock: SafeToHandoff(cached["base"], now)
          /\ Becomes(p, [Idle EXCEPT !.pc = "return", !.authority = a, !.policy = "base",
                                     !.result = cached["base"]])
    /\ UNCHANGED storeVars

\* The scoped record fits the configuration and the base token read.
Expected(p, t) == Provenance(t) = <<proc[p].authority, proc[p].policy, proc[p].base>>

\* classify_scoped_entry: Fresh, Renewable, or MissingOrUnsafe.
Classify(p) ==
    /\ proc[p].pc = "classify"
    /\ LET t == cached["scoped"]
           reusable(now) == t # 0 /\ Expected(p, t) /\ SafeToHandoff(t, now)
       IN  \E now \in proc[p].at..clock:
              Becomes(p,
                  IF reusable(now) /\ ~DueForRenewal(t, now)
                  THEN [proc[p] EXCEPT !.pc = "return", !.result = t, !.at = 0]
                  ELSE [proc[p] EXCEPT !.pc = "guard", !.at = 0,
                                       !.old = IF reusable(now) THEN t ELSE 0])
    /\ UNCHANGED storeVars

\* mint_and_persist, a base token too close to its expiry: the old token may
\* still do.
BaseUnsafe(p) ==
    /\ proc[p].pc = "request" /\ p \in Acquirers
    /\ ~SafeToHandoff(proc[p].base, clock)
    /\ Becomes(p, IF proc[p].old # 0 /\ SafeToHandoff(proc[p].old, clock)
                  THEN [proc[p] EXCEPT !.pc = "return", !.result = proc[p].old]
                  ELSE Idle)
    /\ UNCHANGED storeVars

\* issue: GitHub mints a token from a base token that works.
Issue(p) ==
    /\ proc[p].pc = "request" /\ p \in Acquirers
    /\ SafeToHandoff(proc[p].base, clock) /\ Works(proc[p].base)
    /\ \E l \in Lifetimes:
          /\ Mint(proc[p].authority, proc[p].policy, proc[p].base, proc[p].guard, l)
          /\ \/ Receive(p, l, TRUE) /\ UNCHANGED untracked
             \/ /\ Becomes(p, Idle)   \* the answer is lost
                /\ untracked' = [untracked EXCEPT ![minted'] = "lost"]
    /\ UNCHANGED <<clock, epoch, cached, doubtful>>

\* issue: 401 and 404 condemn the base token, other errors end the command.
IssueFails(p) ==
    /\ proc[p].pc = "request" /\ p \in Acquirers
    /\ SafeToHandoff(proc[p].base, clock)
    /\ \/ Becomes(p, [proc[p] EXCEPT !.pc = "evict"])
       \/ Becomes(p, Idle)
    /\ UNCHANGED storeVars

\* Mutant: the base token is removed whatever generation it is.
EvictUnchecked(p) ==
    /\ proc[p].pc = "evict"
    /\ Forget("base")
    /\ Becomes(p, Idle)
    /\ UNCHANGED <<clock, epoch, githubVars, doubtful, untracked>>

\* permanent_rejection_error, delete_base_if_generation: Missing and Changed
\* change nothing; an error may be reported after the removal.
Evict(p) ==
    /\ proc[p].pc = "evict"
    /\ \/ /\ cached["base"] = proc[p].base
          /\ Forget("base")
          /\ Lose({proc[p].base}, "lost")
       \/ UNCHANGED <<cached, untracked>>
    /\ Becomes(p, Idle)
    /\ UNCHANGED <<clock, epoch, githubVars, doubtful>>

-----------------------------------------------------------------------------
\* Mutant: the epoch is not compared.
BaseCurrent(p) == cached["base"] = proc[p].base

\* Both operations: the epoch and the base token are still those of the
\* issuance.
IssuanceCurrent(p) == epoch = proc[p].guard /\ cached["base"] = proc[p].base

\* commit_scoped or renew_scoped is refused or fails; nothing was written.
PersistFails(p) ==
    /\ proc[p].pc = "persist" /\ p \in Acquirers
    /\ GiveUp(p)
    /\ UNCHANGED storeVars

\* commit_scoped, no compatible record: publish the candidate.
CommitScoped(p) ==
    /\ proc[p].pc = "persist" /\ p \in Acquirers /\ proc[p].old = 0
    /\ IssuanceCurrent(p)
    /\ LET current == cached["scoped"] IN
          \/ /\ Winner("scoped", proc[p].held, clock)
             /\ Retain(p, current)
             /\ UNCHANGED storeVars
          \/ /\ ~Winner("scoped", proc[p].held, clock)
             /\ \E ok \in BOOLEAN:
                   /\ Publish("scoped", proc[p].held, ok)
                   /\ IF ok THEN Becomes(p, [proc[p] EXCEPT !.pc = "return", !.held = 0,
                                                            !.result = proc[p].held])
                            ELSE GiveUp(p)
             /\ Lose({current} \ {cached'["scoped"]}, "lost")
             /\ UNCHANGED <<clock, epoch, githubVars>>

\* Publish the renewed token; only success leads to the displaced one.
Replace(p, current) ==
    /\ \E ok \in BOOLEAN:
          /\ Publish("scoped", proc[p].held, ok)
          /\ IF ok THEN /\ Becomes(p, [proc[p] EXCEPT !.pc = "displace", !.old = current,
                                                      !.result = proc[p].held])
                        /\ UNCHANGED untracked
                   ELSE /\ GiveUp(p)
                        /\ Lose({current} \ {cached'["scoped"]}, "failed renewal")
    /\ UNCHANGED <<clock, epoch, githubVars>>

\* Mutant: whatever token is there is replaced.
RenewWithoutComparison(p) ==
    /\ proc[p].pc = "persist" /\ p \in Acquirers /\ proc[p].old # 0
    /\ IssuanceCurrent(p)
    /\ cached["scoped"] # 0
    /\ Replace(p, cached["scoped"])

\* renew_scoped: replaces exactly the token it renews; a compatible other one
\* is kept, by the time the answer was received.  Otherwise PersistFails.
RenewScoped(p) ==
    /\ proc[p].pc = "persist" /\ p \in Acquirers /\ proc[p].old # 0
    /\ IssuanceCurrent(p)
    /\ LET current == cached["scoped"] IN
          /\ current # 0
          /\ \/ current = proc[p].old /\ Replace(p, current)
             \/ /\ current # proc[p].old
                /\ Compatible(current, proc[p].held, proc[p].at)
                /\ Retain(p, current)
                /\ UNCHANGED storeVars

\* The displaced token is revoked; a failure is reported.
Displace(p) ==
    /\ proc[p].pc = "displace"
    /\ \/ /\ DeleteToken(proc[p].old, "Ok", "discarded")
          /\ Becomes(p, [proc[p] EXCEPT !.pc = "return", !.held = 0])
          /\ UNCHANGED untracked
       \/ /\ \E answer \in {"NotFound", "Error"}: DeleteToken(proc[p].old, answer, "discarded")
          /\ Lose({proc[p].old}, "reported")
          /\ Becomes(p, Idle)
    /\ UNCHANGED <<clock, epoch, cached, doubtful>>

AcquireStep(p) ==
    \/ Prepare(p) \/ AcquireBase(p) \/ Classify(p) \/ TakeGuard(p)
    \/ BaseUnsafe(p) \/ Issue(p) \/ IssueFails(p) \/ Evict(p)
    \/ CommitScoped(p) \/ RenewScoped(p) \/ PersistFails(p)
    \/ Discard(p) \/ Displace(p) \/ Return(p) \/ Killed(p)
=============================================================================
