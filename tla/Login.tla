------------------------------- MODULE Login --------------------------------
(***************************************************************************)
(* `ghst login`: obtain a base token through the device flow and cache it, *)
(* unless a usable one is cached by then.  The flow itself, which takes    *)
(* minutes and ends with a token or without one, is one step here.         *)
(***************************************************************************)
EXTENDS Issuance

\* load_valid_base_status: the token in the cache will do, or there is none.
\* The time is read before the cache.
StartLogin(p) ==
    /\ proc[p].pc = "idle"
    /\ \E a \in Authorities, now \in 0..clock:
          LET t == cached["base"]
              usable == t # 0 /\ token[t].authority = a /\ SafeToHandoff(t, now)
          IN  /\ ~usable
              /\ Becomes(p, [Idle EXCEPT !.pc = "guard", !.authority = a, !.policy = "base"])
    /\ UNCHANGED storeVars

\* poll_authorization yields a token; validate_base_expiry and get_user may
\* refuse it.
Authorize(p) ==
    /\ proc[p].pc = "request" /\ p \in Logins
    /\ \E l \in Lifetimes, usable \in BOOLEAN:
          /\ Mint(proc[p].authority, "base", 0, proc[p].guard, l)
          /\ \/ Receive(p, l, usable) /\ UNCHANGED untracked
             \/ /\ Becomes(p, Idle)   \* the answer is lost
                /\ untracked' = [untracked EXCEPT ![minted'] = "lost"]
    /\ UNCHANGED <<clock, epoch, cached, doubtful>>

\* Denied, expired, or an error.
AuthorizationFails(p) ==
    /\ proc[p].pc = "request" /\ p \in Logins
    /\ Becomes(p, Idle)
    /\ UNCHANGED storeVars

\* commit_base is refused because the epoch changed, or fails.
LoginPersistFails(p) ==
    /\ proc[p].pc = "persist" /\ p \in Logins
    /\ GiveUp(p)
    /\ UNCHANGED storeVars

\* Mutant: an error of the publication ends the command.
PublishBaseUnchecked(p, current) ==
    /\ \E ok \in BOOLEAN: Publish("base", proc[p].held, ok)
    /\ Becomes(p, Idle)
    /\ Lose({current} \ {cached'["base"]}, "lost")
    /\ UNCHANGED <<clock, epoch, githubVars>>

\* Publish the base token; a token it takes the place of has no record then.
PublishBase(p, current) ==
    /\ \E ok \in BOOLEAN:
          /\ Publish("base", proc[p].held, ok)
          /\ IF ok THEN Becomes(p, Idle) ELSE GiveUp(p)
    /\ Lose({current} \ {cached'["base"]}, "lost")
    /\ UNCHANGED <<clock, epoch, githubVars>>

\* Mutant: the token in the cache is replaced even if it is compatible.
CommitBaseAlways(p) ==
    /\ proc[p].pc = "persist" /\ p \in Logins
    /\ epoch = proc[p].guard
    /\ PublishBase(p, cached["base"])

\* Mutant: the epoch is not compared.
CommitBaseUnguarded(p) ==
    /\ proc[p].pc = "persist" /\ p \in Logins
    /\ LET current == cached["base"] IN
          \/ /\ Winner("base", proc[p].held, clock)
             /\ Retain(p, current)
             /\ UNCHANGED storeVars
          \/ /\ ~Winner("base", proc[p].held, clock)
             /\ PublishBase(p, current)

\* commit_base and handle_save_outcome.
CommitBase(p) ==
    /\ proc[p].pc = "persist" /\ p \in Logins
    /\ epoch = proc[p].guard
    /\ LET current == cached["base"] IN
          \/ /\ Winner("base", proc[p].held, clock)
             /\ Retain(p, current)
             /\ UNCHANGED storeVars
          \/ /\ ~Winner("base", proc[p].held, clock)
             /\ PublishBase(p, current)

LoginStep(p) ==
    \/ StartLogin(p) \/ TakeGuard(p) \/ Authorize(p) \/ AuthorizationFails(p)
    \/ CommitBase(p) \/ LoginPersistFails(p)
    \/ Discard(p) \/ Return(p) \/ Killed(p)
=============================================================================
