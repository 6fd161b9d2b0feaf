---------------------------- MODULE Authorization ----------------------------
(***************************************************************************)
(* What a device flow promises the login that runs it: a user decides, or  *)
(* the code expires, and the flow ends with a token, with the reason why   *)
(* there is none, or with an error.  Only an error may leave a token at    *)
(* GitHub that nobody holds.                                               *)
(***************************************************************************)
VARIABLES
    decision,  \* "none", "approved", "denied" or "expired"
    outcome,   \* how the flow ended
    token      \* "none", "held" by the login, or "lost"

vars == <<decision, outcome, token>>

Init == decision = "none" /\ outcome = "waiting" /\ token = "none"

Decide ==
    /\ \/ decision = "none" /\ decision' \in {"approved", "denied", "expired"}
       \/ decision = "approved" /\ decision' = "expired"
    /\ UNCHANGED <<outcome, token>>

Grant ==
    /\ outcome = "waiting" /\ decision = "approved"
    /\ outcome' = "authorized" /\ token' = "held"
    /\ UNCHANGED decision

Refuse ==
    /\ outcome = "waiting" /\ decision \in {"denied", "expired"}
    /\ outcome' = decision
    /\ UNCHANGED <<decision, token>>

Fail ==
    /\ outcome = "waiting"
    /\ outcome' = "remote_error"
    /\ token' \in IF decision = "approved" THEN {"none", "lost"} ELSE {"none"}
    /\ UNCHANGED decision

Next == Decide \/ Grant \/ Refuse \/ Fail

Spec == Init /\ [][Next]_vars
=============================================================================
