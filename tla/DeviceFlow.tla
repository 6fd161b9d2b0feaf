----------------------------- MODULE DeviceFlow -----------------------------
(***************************************************************************)
(* The OAuth device flow of `ghst login`: it asks GitHub for a code, shows *)
(* it to the user, and polls until GitHub hands out a token or says why    *)
(* not.  GitHub sets the pace: the interval it announced, more after every *)
(* slow_down.  One request is under way at a time, for as long as it       *)
(* takes, and its answer may not come.                                     *)
(***************************************************************************)
EXTENDS Naturals

CONSTANTS
    Intervals,  \* intervals that GitHub may announce, or 5 s if it names none
    Step,       \* what a slow_down adds, 5 s
    Lifetime,   \* how long a code is valid
    MaxPace     \* bound on the pace

ASSUME IntervalsAssumption == Intervals \subseteq 0..MaxPace
ASSUME StepAssumption      == Step \in Nat /\ Step > 0
ASSUME LifetimeAssumption  == Lifetime \in Nat /\ Lifetime > 0
ASSUME MaxPaceAssumption   == MaxPace \in Nat

VARIABLES
    pc,        \* the client's next operation
    interval,  \* time it sleeps before a poll
    left,      \* rest of its sleep
    outcome,   \* how the flow ended
    wire,      \* the request, or the answer, under way
    code,      \* what GitHub knows of the code
    life,      \* time until the code expires
    pace,      \* time GitHub wants between two polls
    since      \* time since GitHub saw the last poll, or issued the code

clientVars == <<pc, interval, left, outcome>>
githubVars == <<code, life, pace, since>>
vars == <<clientVars, wire, githubVars>>

\* The bodies and failures that a poll may be answered with; a failure covers an
\* HTTP status and a connection that breaks.
Answers == {"access_token", "authorization_pending", "slow_down", "expired_token",
            "access_denied", "other_error", "malformed", "failure"}

Message(type, announced) == [type |-> type, interval |-> announced]
Silence == Message("none", 0)

TypeOK ==
    /\ pc \in {"start", "request", "sleep", "poll", "done"}
    /\ interval \in Nat /\ left \in Nat
    /\ outcome \in {"waiting", "authorized", "denied", "expired", "remote_error"}
    /\ wire \in [type: {"none", "request", "code", "poll"} \union Answers, interval: Nat]
    /\ code \in {"none", "pending", "approved", "denied", "expired", "used"}
    /\ life \in Nat /\ pace \in 0..MaxPace /\ since \in 0..MaxPace

Init ==
    /\ pc = "start" /\ interval = 0 /\ left = 0 /\ outcome = "waiting"
    /\ wire = Silence
    /\ code = "none" /\ life = 0 /\ pace = 0 /\ since = 0

-----------------------------------------------------------------------------
(***************************************************************************)
(* The client.                                                             *)
(***************************************************************************)
Send(type) == wire' = Message(type, 0)

Sleep(time) ==
    /\ pc' = "sleep"
    /\ interval' = time /\ left' = time
    /\ wire' = Silence
    /\ UNCHANGED <<outcome, githubVars>>

End(result) ==
    /\ pc' = "done" /\ outcome' = result
    /\ wire' = Silence
    /\ UNCHANGED <<interval, left, githubVars>>

\* request_authorization
RequestCode ==
    /\ pc = "start"
    /\ pc' = "request"
    /\ Send("request")
    /\ UNCHANGED <<interval, left, outcome, githubVars>>

\* The user is shown the code, and polling begins with a sleep.
ReceiveCode ==
    /\ pc = "request" /\ wire.type = "code"
    /\ Sleep(wire.interval)

NoCode ==
    /\ pc = "request" /\ wire.type = "failure"
    /\ End("remote_error")

\* The sleep may last longer than it was asked for.
Poll ==
    /\ pc = "sleep" /\ left = 0
    /\ pc' = "poll"
    /\ Send("poll")
    /\ UNCHANGED <<interval, left, outcome, githubVars>>

\* The answers that are understood.
Understood ==
    [access_token          |-> "Authorized",
     authorization_pending |-> "Pending",
     slow_down             |-> "SlowDown",
     expired_token         |-> "Expired",
     access_denied         |-> "AccessDenied"]

\* Mutants: a failure is polled over; an unknown error counts as a denial; an
\* expired code counts as a pending one.
ClassifyFailurePending(answer) ==
    IF answer \in DOMAIN Understood THEN Understood[answer]
    ELSE IF answer = "failure" THEN "Pending" ELSE "Error"

ClassifyUnknownDenied(answer) ==
    IF answer \in DOMAIN Understood THEN Understood[answer]
    ELSE IF answer = "other_error" THEN "AccessDenied" ELSE "Error"

ClassifyExpiredPending(answer) ==
    IF answer = "expired_token" THEN "Pending"
    ELSE IF answer \in DOMAIN Understood THEN Understood[answer] ELSE "Error"

\* poll_access_token_response, oauth_poll_from_value: any other error, a body that
\* is no token, and a failed call are errors.
Classify(answer) == IF answer \in DOMAIN Understood THEN Understood[answer] ELSE "Error"

\* Mutant: a slow_down is taken as pending.
ReceiveAnswerAtOnePace ==
    /\ pc = "poll" /\ wire.type \in Answers
    /\ LET poll == Classify(wire.type) IN
          \/ poll \in {"Pending", "SlowDown"} /\ Sleep(interval)
          \/ poll = "Authorized" /\ End("authorized")
          \/ poll = "Expired" /\ End("expired")
          \/ poll = "AccessDenied" /\ End("denied")
          \/ poll = "Error" /\ End("remote_error")

\* poll_authorization, after each poll.
ReceiveAnswer ==
    /\ pc = "poll" /\ wire.type \in Answers
    /\ LET poll == Classify(wire.type) IN
          \/ poll = "Pending" /\ Sleep(interval)
          \/ poll = "SlowDown" /\ Sleep(interval + Step)
          \/ poll = "Authorized" /\ End("authorized")
          \/ poll = "Expired" /\ End("expired")
          \/ poll = "AccessDenied" /\ End("denied")
          \/ poll = "Error" /\ End("remote_error")

ClientStep == RequestCode \/ ReceiveCode \/ NoCode \/ Poll \/ ReceiveAnswer

-----------------------------------------------------------------------------
(***************************************************************************)
(* GitHub and the network.                                                 *)
(***************************************************************************)
Reply(type) == wire' = Message(type, 0)

IssueCode ==
    /\ wire.type = "request"
    /\ \E announced \in Intervals:
         /\ wire' = Message("code", announced)
         /\ pace' = announced
    /\ code' = "pending" /\ life' = Lifetime /\ since' = 0
    /\ UNCHANGED clientVars

\* A poll is answered by what became of the code; a code that is used up, or
\* that GitHub does not like, is another error.
AnswerPoll ==
    /\ wire.type = "poll"
    /\ since' = 0
    /\ \/ code = "pending" /\ Reply("authorization_pending") /\ UNCHANGED <<code, pace>>
       \/ /\ pace + Step <= MaxPace
          /\ pace' = pace + Step /\ Reply("slow_down")
          /\ UNCHANGED code
       \/ /\ code = "approved" /\ code' = "used"
          /\ \E body \in {"access_token", "malformed"}: Reply(body)
          /\ UNCHANGED pace
       \/ code = "denied" /\ Reply("access_denied") /\ UNCHANGED <<code, pace>>
       \/ code = "expired" /\ Reply("expired_token") /\ UNCHANGED <<code, pace>>
       \/ Reply("other_error") /\ UNCHANGED <<code, pace>>
    /\ UNCHANGED <<clientVars, life>>

\* The call fails: GitHub never sees it, or its answer is lost.
Break ==
    /\ wire.type \notin {"none", "failure"}
    /\ Reply("failure")
    /\ UNCHANGED <<clientVars, githubVars>>

Decide ==
    /\ code = "pending"
    /\ code' \in {"approved", "denied"}
    /\ UNCHANGED <<clientVars, wire, life, pace, since>>

Tick ==
    /\ left' = IF left > 0 THEN left - 1 ELSE 0
    /\ since' = IF since < MaxPace THEN since + 1 ELSE since
    /\ life' = IF life > 0 THEN life - 1 ELSE 0
    /\ code' = IF life = 1 /\ code \in {"pending", "approved"} THEN "expired" ELSE code
    /\ UNCHANGED <<pc, interval, outcome, wire, pace>>

GitHubStep == IssueCode \/ AnswerPoll \/ Break

Ended == pc = "done" /\ UNCHANGED vars

Next == ClientStep \/ GitHubStep \/ Decide \/ Tick \/ Ended

\* Time passes, the client runs, and every call comes to an end: GitHub answers
\* it or the connection breaks, the client itself sets no timeout.  Nobody has to
\* decide.
Fairness == WF_vars(Tick) /\ WF_vars(ClientStep) /\ WF_vars(GitHubStep)

Spec == Init /\ [][Next]_vars /\ Fairness

-----------------------------------------------------------------------------
\* One call at a time, and an answer that tells what became of the code.
OneCall ==
    /\ pc = "request" => wire.type \in {"request", "code", "failure"}
    /\ pc \in {"start", "sleep", "done"} => wire.type = "none"
    /\ pc = "poll" => wire.type \in {"poll"} \union Answers
    /\ outcome = "waiting" <=> pc # "done"

AnswersTell ==
    /\ wire.type = "request" \/ pc = "start" => code = "none"
    /\ wire.type = "access_token" => code = "used"
    /\ wire.type = "access_denied" => code = "denied"
    /\ wire.type = "expired_token" => code = "expired"
    /\ code = "used" => /\ pc \in {"poll", "done"}
                        /\ wire.type \in {"none", "access_token", "malformed", "failure"}

\* The client knows the pace, up to a slow_down that is under way, and what is
\* left of its sleep is enough to keep it.
Paced ==
    /\ wire.type = "code" => wire.interval = pace
    /\ pc = "sleep" => pace <= interval /\ pace <= since + left
    /\ pc = "poll" /\ wire.type \notin {"slow_down", "failure"} => pace <= interval
    /\ wire.type = "slow_down" => pace <= interval + Step

\* GitHub never sees two polls closer than the pace it set, nor a first poll
\* closer to the code, however long requests and answers take (poll_authorization
\* sleeps before every poll and adds 5 s for every slow_down).
PollsRespectPace == wire.type = "poll" => pace <= since

FlowInv == TypeOK /\ OneCall /\ AnswersTell /\ Paced /\ PollsRespectPace

\* Once a token is handed out for the code, the client polls no more, whether it
\* got the token or not: it does not retry what may already have happened.
NoPollAfterToken == code = "used" => wire.type # "poll" /\ pc # "sleep"

\* The flow keeps the promise a login relies on.
Decision ==
    IF code \in {"none", "pending"} THEN "none"
    ELSE IF code = "used" THEN "approved" ELSE code

Token ==
    IF outcome = "authorized" THEN "held"
    ELSE IF outcome = "remote_error" /\ code = "used" THEN "lost" ELSE "none"

Promise == INSTANCE Authorization WITH decision <- Decision, token <- Token

ImplementsAuthorization == Promise!Spec

\* A login does not wait for ever, whatever the user does: GitHub tells the client
\* that the code has expired, and the client does not look at its own clock.
FlowEnds == <>(pc = "done")
=============================================================================
