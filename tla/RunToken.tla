------------------------------ MODULE RunToken ------------------------------
(***************************************************************************)
(* What `ghst run` promises about the tokens of its commands: each is      *)
(* written down before its command gets it, stays written down as long as  *)
(* it works unless the user is told otherwise, and what its wrapper        *)
(* reports is true, for good.  The life of each token goes its own way.    *)
(***************************************************************************)
CONSTANT Runs

VARIABLES
    issued,    \* runs whose token GitHub has minted
    works,     \* runs whose token GitHub accepts
    recorded,  \* runs whose record is in the cache
    used,      \* runs whose command was started with the token
    told,      \* runs whose record a revoke told that it deleted locally only
    report     \* run -> what its wrapper reported, or "none"

vars == <<issued, works, recorded, used, told, report>>

Init ==
    /\ issued = {} /\ works = {} /\ recorded = {} /\ used = {} /\ told = {}
    /\ report = [r \in Runs |-> "none"]

Kept(r, old, new) == r \in old <=> r \in new

\* The wrapper ends with a report that is true of the state it leaves.
TrueReport(r) ==
    \/ report'[r] = "complete" /\ r \notin works' \union recorded'
    \/ report'[r] = "failed" /\ r \notin works' \union used'
    \/ report'[r] = "unrevoked" /\ r \notin used'
    \/ report'[r] = "incomplete"

MayEnd(r) == report'[r] = report[r] \/ (report[r] = "none" /\ TrueReport(r))

\* GitHub mints the token, once.  It works, unless its answer is lost.
Issue(r) ==
    /\ r \notin issued \union recorded \union used /\ report[r] = "none"
    /\ r \in issued'
    /\ Kept(r, recorded, recorded') /\ Kept(r, used, used') /\ Kept(r, told, told')
    /\ MayEnd(r)

\* The record is written, before anybody uses the token.
Record(r) ==
    /\ r \in issued \ (recorded \union used) /\ report[r] = "none"
    /\ r \in recorded'
    /\ Kept(r, issued, issued') /\ Kept(r, works, works')
    /\ Kept(r, used, used') /\ Kept(r, told, told')
    /\ report'[r] = report[r]

\* The command gets a token that can be recovered, if it works at all.
HandOut(r) ==
    /\ r \in issued \ used /\ report[r] = "none"
    /\ r \in works => r \in recorded \union told
    /\ r \in used'
    /\ Kept(r, issued, issued') /\ Kept(r, works, works')
    /\ Kept(r, recorded, recorded') /\ Kept(r, told, told')
    /\ report'[r] = report[r]

\* The token is revoked or expires, and never works again; or its record is
\* deleted, without notice only if it does not work; or its wrapper ends.
Release(r) ==
    /\ r \in works' => r \in works
    /\ r \in recorded' => r \in recorded
    /\ r \in recorded \ recorded' => r \in told' \/ r \notin works'
    /\ r \in told => r \in told'
    /\ r \in told' \ told => r \in recorded \ recorded'
    /\ Kept(r, issued, issued') /\ Kept(r, used, used')
    /\ MayEnd(r)

Live(r) == Issue(r) \/ Record(r) \/ HandOut(r) \/ Release(r)

Next == \A r \in Runs: Live(r)

Spec == Init /\ [][Next]_vars
=============================================================================
