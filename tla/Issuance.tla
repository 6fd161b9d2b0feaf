------------------------------ MODULE Issuance ------------------------------
(***************************************************************************)
(* What `ghst token` and `ghst login` have in common: both capture the     *)
(* issuance epoch, call GitHub, try to persist what they got, and must     *)
(* revoke it when they may not keep it.  A command is a process that is    *)
(* invoked again after it returned; it can be killed between any two       *)
(* calls.                                                                  *)
(***************************************************************************)
EXTENDS CredentialStore

CONSTANTS
    Acquirers,  \* processes running `ghst token`
    Logins      \* processes running `ghst login`

ASSUME IssuersAssumption == Acquirers \intersect Logins = {}

Issuers == Acquirers \union Logins

VARIABLE proc   \* issuer -> its local state

(***************************************************************************)
(* pc names the call the process makes next.  authority and policy are     *)
(* those of its configuration; base and old are the base token and the     *)
(* renewable scoped token it read; guard is its IssuanceGuard; held is the *)
(* candidate it received; result is the token it is going to return; at is *)
(* a time it has read.                                                     *)
(***************************************************************************)
PC == {"idle", "classify", "guard", "request", "evict", "persist", "discard",
       "displace", "return"}

Process == [pc: PC, authority: Authorities \union {"none"},
            policy: Policies \union {"base", "none"},
            base: {0} \union Tokens, old: {0} \union Tokens,
            held: {0} \union Tokens, result: {0} \union Tokens,
            guard: Nat, at: Nat]

Idle == [pc |-> "idle", authority |-> "none", policy |-> "none", base |-> 0,
         old |-> 0, held |-> 0, result |-> 0, guard |-> 0, at |-> 0]

IssuanceTypeOK == proc \in [Issuers -> Process]

IssuanceInit == proc = [p \in Issuers |-> Idle]

Becomes(p, state) == proc' = [proc EXCEPT ![p] = state]

\* Tokens that a process is responsible for and that no file may name.
Holding(p) ==
    CASE proc[p].pc \in {"persist", "discard"} -> {proc[p].held}
      [] proc[p].pc = "displace" -> {proc[p].old}
      [] OTHER -> {}

-----------------------------------------------------------------------------
\* Mutant: the epoch before the current one is captured.
TakeEarlierGuard(p) ==
    /\ proc[p].pc = "guard"
    /\ Becomes(p, [proc[p] EXCEPT !.pc = "request", !.guard = epoch - 1])
    /\ UNCHANGED storeVars

\* issuance_guard, or an error that ends the command.
TakeGuard(p) ==
    /\ proc[p].pc = "guard"
    /\ \/ Becomes(p, [proc[p] EXCEPT !.pc = "request", !.guard = epoch])
       \/ Becomes(p, Idle)
    /\ UNCHANGED storeVars

\* A token that is received with its lifetime not beyond the margin, or that
\* cannot be identified, must not be kept.
Receive(p, lifetime, usable) ==
    Becomes(p, [proc[p] EXCEPT !.pc = IF usable /\ lifetime > Margin THEN "persist"
                                                                      ELSE "discard",
                               !.held = minted',
                               !.at = IF proc[p].old = 0 THEN 0 ELSE clock])

\* The record of the token may not be, or was not certainly, written.
GiveUp(p) == Becomes(p, [proc[p] EXCEPT !.pc = "discard", !.result = 0])

\* Mutant: the token in the cache is revoked, and the candidate returned.
RetainSwapped(p, t) == Becomes(p, [proc[p] EXCEPT !.pc = "discard", !.held = t,
                                                  !.result = proc[p].held])

\* A compatible record is kept in its place.
Retain(p, t) == Becomes(p, [proc[p] EXCEPT !.pc = "discard", !.result = t])

\* Mutant: a failure to revoke is only logged.
DiscardQuietly(p) ==
    /\ proc[p].pc = "discard"
    /\ \E answer \in {"Ok", "NotFound", "Error"}:
          DeleteToken(proc[p].held, answer, "discarded")
    /\ Becomes(p, IF proc[p].result = 0 THEN Idle
                  ELSE [proc[p] EXCEPT !.pc = "return", !.held = 0])
    /\ UNCHANGED <<clock, epoch, cached, doubtful, untracked>>

\* revoke_with_context, revoke_candidate: a failure is reported to the user.
\* A login may lack the client secret; it can only warn then.
Discard(p) ==
    /\ proc[p].pc = "discard"
    /\ \/ /\ DeleteToken(proc[p].held, "Ok", "discarded")
          /\ Becomes(p, IF proc[p].result = 0 THEN Idle
                        ELSE [proc[p] EXCEPT !.pc = "return", !.held = 0])
          /\ UNCHANGED untracked
       \/ /\ \E answer \in {"NotFound", "Error"}:
                DeleteToken(proc[p].held, answer, "discarded")
          /\ Lose({proc[p].held}, "reported")
          /\ Becomes(p, Idle)
       \/ /\ p \in Logins
          /\ Lose({proc[p].held}, "reported")
          /\ Becomes(p, Idle)
          /\ UNCHANGED githubVars
    /\ UNCHANGED <<clock, epoch, cached, doubtful>>

\* The token is written to standard output, or the login is confirmed.
Return(p) ==
    /\ proc[p].pc = "return"
    /\ Becomes(p, Idle)
    /\ UNCHANGED storeVars

\* The process is killed; what it held is lost unless a file names it.
Killed(p) ==
    /\ proc[p].pc # "idle"
    /\ Lose(Holding(p) \ {cached[s]: s \in Slots}, "lost")
    /\ Becomes(p, Idle)
    /\ UNCHANGED <<clock, epoch, cached, githubVars, doubtful>>
=============================================================================
