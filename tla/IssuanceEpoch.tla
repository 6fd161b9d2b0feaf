---------------------------- MODULE IssuanceEpoch ----------------------------
(***************************************************************************)
(* What the issuance epoch promises: an issuance that took its guard may   *)
(* commit its token as long as no revocation began since.                  *)
(***************************************************************************)
CONSTANT Issuers   \* commands that mint or renew a token

VARIABLES
    phase,  \* issuer -> where its issuance stands
    valid   \* issuers whose guard still permits a commit

vars == <<phase, valid>>

Init ==
    /\ phase = [i \in Issuers |-> "idle"]
    /\ valid = {}

TakeGuard(i) ==
    /\ phase[i] = "idle"
    /\ phase' = [phase EXCEPT ![i] = "guarded"]
    /\ valid' = valid \union {i}

Commit(i) ==
    /\ i \in valid
    /\ phase' = [phase EXCEPT ![i] = "committed"]
    /\ valid' = valid \ {i}

\* A command may give up at any time, and starts again afterwards.
GiveUp(i) ==
    /\ phase' = [phase EXCEPT ![i] = "idle"]
    /\ valid' = valid \ {i}

\* A revocation begins.
Advance ==
    /\ valid' = {}
    /\ UNCHANGED phase

\* The machine restarts: no command survives, and no guard.
Restart ==
    /\ phase' = [i \in Issuers |-> "idle"]
    /\ valid' = {}

Next == Advance \/ Restart \/ \E i \in Issuers: TakeGuard(i) \/ Commit(i) \/ GiveUp(i)

Spec == Init /\ [][Next]_vars
=============================================================================
