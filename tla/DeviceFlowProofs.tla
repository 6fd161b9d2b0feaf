-------------------------- MODULE DeviceFlowProofs --------------------------
(***************************************************************************)
(* The device flow keeps GitHub's pace and the promise that a login relies *)
(* on, for every interval that GitHub announces, every lifetime of a code  *)
(* and every bound on the pace.                                            *)
(***************************************************************************)
EXTENDS DeviceFlow, TLAPS

USE IntervalsAssumption, StepAssumption, LifetimeAssumption, MaxPaceAssumption

\* How each answer is understood.
LEMMA Classification ==
    ASSUME NEW answer
    PROVE  /\ Classify(answer) = "Pending" => answer = "authorization_pending"
           /\ Classify(answer) = "SlowDown" => answer = "slow_down"
           /\ Classify(answer) = "Authorized" => answer = "access_token"
           /\ Classify(answer) = "Expired" => answer = "expired_token"
           /\ Classify(answer) = "AccessDenied" => answer = "access_denied"
BY DEF Classify, Understood

LEMMA InitEstablishesFlowInv == Init => FlowInv
BY DEF Init, FlowInv, TypeOK, OneCall, AnswersTell, Paced, PollsRespectPace, Silence, Message,
       Answers

\* A step of the client: it sends from silence, and takes the answer it waits for.
LEMMA ClientKeepsFlowInv == ASSUME FlowInv, ClientStep PROVE FlowInv'
<1> USE DEF FlowInv, TypeOK, OneCall, AnswersTell, Paced, PollsRespectPace, Silence, Message,
            Answers, Send, githubVars
<1>1. CASE RequestCode BY <1>1 DEF RequestCode
<1>2. CASE ReceiveCode BY <1>2 DEF ReceiveCode, Sleep
<1>3. CASE NoCode BY <1>3 DEF NoCode, End
<1>4. CASE Poll BY <1>4 DEF Poll
<1>5. CASE ReceiveAnswer
  <2>1. CASE Classify(wire.type) = "Pending"
    <3>1. wire.type = "authorization_pending" BY <2>1, Classification
    <3> QED BY <1>5, <2>1, <3>1 DEF ReceiveAnswer, Sleep
  <2>2. CASE Classify(wire.type) = "SlowDown"
    <3>1. wire.type = "slow_down" BY <2>2, Classification
    <3> QED BY <1>5, <2>2, <3>1 DEF ReceiveAnswer, Sleep
  <2>3. CASE Classify(wire.type) \notin {"Pending", "SlowDown"}
    BY <1>5, <2>3 DEF ReceiveAnswer, End
  <2> QED BY <2>1, <2>2, <2>3
<1> QED BY <1>1, <1>2, <1>3, <1>4, <1>5 DEF ClientStep

\* A step of GitHub or of the network.
LEMMA GitHubKeepsFlowInv == ASSUME FlowInv, GitHubStep \/ Decide PROVE FlowInv'
<1> USE DEF FlowInv, TypeOK, OneCall, AnswersTell, Paced, PollsRespectPace, Silence, Message,
            Answers, Reply, clientVars, githubVars
<1>1. CASE IssueCode BY <1>1 DEF IssueCode
<1>2. CASE AnswerPoll BY <1>2 DEF AnswerPoll
<1>3. CASE Break BY <1>3 DEF Break
<1>4. CASE Decide BY <1>4 DEF Decide
<1> QED BY <1>1, <1>2, <1>3, <1>4 DEF GitHubStep

\* Time brings the sleep to its end no faster than the poll comes due.
LEMMA TickKeepsFlowInv == ASSUME FlowInv, Tick PROVE FlowInv'
BY DEF Tick, FlowInv, TypeOK, OneCall, AnswersTell, Paced, PollsRespectPace, Answers

LEMMA StepKeepsFlowInv == ASSUME FlowInv, [Next]_vars PROVE FlowInv'
<1>1. CASE ClientStep BY <1>1, ClientKeepsFlowInv
<1>2. CASE GitHubStep \/ Decide BY <1>2, GitHubKeepsFlowInv
<1>3. CASE Tick BY <1>3, TickKeepsFlowInv
<1>4. CASE UNCHANGED vars
  BY <1>4 DEF vars, clientVars, githubVars, FlowInv, TypeOK, OneCall, AnswersTell, Paced,
              PollsRespectPace
<1> QED BY <1>1, <1>2, <1>3, <1>4 DEF Next, Ended

THEOREM FlowInvariant == Spec => []FlowInv
<1>1. FlowInv /\ [Next]_vars => FlowInv' BY StepKeepsFlowInv
<1> QED BY <1>1, InitEstablishesFlowInv, PTL DEF Spec

\* Polls keep the pace, whatever the delays and however often it is slowed down.
THEOREM PaceRespected == Spec => []PollsRespectPace
<1>1. FlowInv => PollsRespectPace BY DEF FlowInv
<1> QED BY <1>1, FlowInvariant, PTL

\* No poll follows the one that was answered with a token.
THEOREM TokenEndsPolling == Spec => []NoPollAfterToken
<1>1. FlowInv => NoPollAfterToken BY DEF FlowInv, AnswersTell, NoPollAfterToken
<1> QED BY <1>1, FlowInvariant, PTL

-----------------------------------------------------------------------------
\* The end of the flow is a grant, a refusal or a failure.
LEMMA EndImplements ==
    ASSUME FlowInv, NEW result \in {"authorized", "denied", "expired", "remote_error"},
           pc # "done", End(result),
           result = "authorized" => code = "used",
           result \in {"denied", "expired"} => code = result
    PROVE  Promise!Next
<1> USE DEF FlowInv, TypeOK, OneCall, End, githubVars
<1>1. outcome = "waiting" /\ outcome' = result /\ code' = code OBVIOUS
<1>2. UNCHANGED Decision BY <1>1 DEF Decision
<1>3. CASE result = "authorized"
  BY <1>1, <1>2, <1>3 DEF Decision, Token, Promise!Next, Promise!Grant
<1>4. CASE result \in {"denied", "expired"}
  BY <1>1, <1>2, <1>4 DEF Decision, Token, Promise!Next, Promise!Refuse
<1>5. CASE result = "remote_error"
  BY <1>1, <1>2, <1>5 DEF Decision, Token, Promise!Next, Promise!Fail
<1> QED BY <1>3, <1>4, <1>5

\* Every step of the flow is a step of the promise, or no step of it.
LEMMA StepImplements ==
    ASSUME FlowInv, [Next]_vars PROVE [Promise!Next]_(Promise!vars)
<1> USE DEF FlowInv, OneCall, AnswersTell
<1>1. CASE RequestCode \/ ReceiveCode \/ Poll \/ Break
  BY <1>1 DEF RequestCode, ReceiveCode, Poll, Break, Sleep, clientVars, githubVars, Decision,
              Token, Promise!vars
<1>2. CASE NoCode
  BY <1>2, EndImplements DEF NoCode
<1>3. CASE ReceiveAnswer
  <2>1. CASE Classify(wire.type) \in {"Pending", "SlowDown"}
    BY <1>3, <2>1 DEF ReceiveAnswer, Sleep, githubVars, Decision, Token, Promise!vars
  <2>2. CASE Classify(wire.type) = "Authorized"
    <3>1. wire.type = "access_token" BY <2>2, Classification
    <3> QED BY <1>3, <2>2, <3>1, EndImplements DEF ReceiveAnswer
  <2>3. CASE Classify(wire.type) = "Expired"
    <3>1. wire.type = "expired_token" BY <2>3, Classification
    <3> QED BY <1>3, <2>3, <3>1, EndImplements DEF ReceiveAnswer
  <2>4. CASE Classify(wire.type) = "AccessDenied"
    <3>1. wire.type = "access_denied" BY <2>4, Classification
    <3> QED BY <1>3, <2>4, <3>1, EndImplements DEF ReceiveAnswer
  <2>5. CASE Classify(wire.type) = "Error"
    BY <1>3, <2>5, EndImplements DEF ReceiveAnswer
  <2> QED BY <1>3, <2>1, <2>2, <2>3, <2>4, <2>5 DEF ReceiveAnswer
<1>4. CASE IssueCode
  BY <1>4 DEF IssueCode, clientVars, Decision, Token, Promise!vars
<1>5. CASE AnswerPoll
  <2>1. outcome = "waiting" /\ UNCHANGED outcome BY <1>5 DEF AnswerPoll, clientVars
  <2>2. UNCHANGED Decision BY <1>5 DEF AnswerPoll, Decision
  <2> QED BY <2>1, <2>2 DEF Token, Promise!vars
<1>6. CASE Decide
  BY <1>6 DEF Decide, clientVars, Decision, Token, Promise!Next, Promise!Decide
<1>7. CASE Tick
  BY <1>7 DEF Tick, Decision, Token, Promise!Next, Promise!Decide, Promise!vars
<1>8. CASE UNCHANGED vars
  BY <1>8 DEF vars, clientVars, githubVars, Decision, Token, Promise!vars
<1> QED BY <1>1, <1>2, <1>3, <1>4, <1>5, <1>6, <1>7, <1>8
        DEF Next, ClientStep, GitHubStep, Ended

\* A login that relies on Authorization may rely on the device flow.
THEOREM FlowImplementsPromise == Spec => ImplementsAuthorization
<1>1. Init => Promise!Init BY DEF Init, Decision, Token, Promise!Init
<1>2. FlowInv /\ [Next]_vars => [Promise!Next]_(Promise!vars) BY StepImplements
<1> QED BY <1>1, <1>2, FlowInvariant, PTL DEF Spec, ImplementsAuthorization, Promise!Spec
=============================================================================
