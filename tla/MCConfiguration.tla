--------------------------- MODULE MCConfiguration ---------------------------
(***************************************************************************)
(* Three meetings for TLC: editors and a command on one file; a command    *)
(* with every configuration of up to two profiles; and two commands with   *)
(* lists of repositories on one configuration.                             *)
(***************************************************************************)
EXTENDS Configuration

CONSTANTS c1, c2

\* The origin of one directory is spelled in lower case, that of another is not.
Here == Remote("url", TRUE, <<1, 1>>, FALSE)
There == Remote("url", TRUE, <<1, 2>>, TRUE)

MCRemotes ==
    {Here, There, Remote("url", TRUE, <<2, 1>>, FALSE), Remote("url", TRUE, <<1>>, FALSE),
     Remote("url", FALSE, <<1, 1>>, FALSE), Remote("NotFound", FALSE, <<>>, FALSE)}

MCWords ==
    {All, AutoWord, Word("empty"), Repository(1, 1, FALSE), Repository(1, 1, TRUE),
     Repository(1, 2, FALSE), Repository(2, 1, FALSE)}

Lists(longest) == UNION {[1..n -> MCWords]: n \in 0..longest}

Call(command, profile, env, repo) ==
    [command |-> command, profile |-> profile, env |-> env, repo |-> repo]

Calls ==
    {Call(command, profile, env, repo):
        command \in {"login", "token", "run"}, profile \in 0..2, env \in 0..1,
        repo \in {<<>>, <<Repository(1, 2, FALSE), AutoWord>>}}

TokenCalls(longest) == {Call("token", 0, 0, repo): repo \in Lists(longest)}

MCArguments == Calls \union TokenCalls(3)

Profiles ==
    {App(account, client_id, secret):
        account \in 0..1, client_id \in {"blank", "set"}, secret \in {"unset", "blank", "set"}}
      \union {Scoped(source, repo, permissions):
        source \in 1..3, repo \in {<<>>, <<AutoWord>>}, permissions \in {{}, {"read"}}}

\* A token of profile 2, scoped to an app of one of two accounts.
ScopedTo(account) == [Template EXCEPT !.profile[1].account = account]

MCConfigs ==
    {ScopedTo(account): account \in 1..2} \union
    {[version |-> version, default |-> default, profile |-> profile]:
        version \in 1..2, default \in 0..2,
        profile \in UNION {[names -> Profiles]: names \in SUBSET (1..2)}}

AValidFile ==
    [version |-> 1, default |-> Unset, profile |-> (1 :> App(1, "set", "unset"))]

MCContents == {AValidFile, [AValidFile EXCEPT !.version = 2]}

-----------------------------------------------------------------------------
GoodFile(content) ==
    /\ managed = FALSE /\ directory = "open"
    /\ inodes = <<Inode(content, TRUE, TRUE)>> /\ path = 1

Plain == [arguments |-> Call("token", 1, 0, <<>>), remote |-> Here]

\* The questions of c1, while c2 does not run.
Alone(calls, remotes) ==
    {[c \in Commands |-> IF c = c1 THEN question ELSE Plain]:
        question \in [arguments: calls, remote: remotes]}

Editing == AnyFile(MCContents) /\ Starting(Editors \union {c1}, {[c \in Commands |-> Plain]})

\* Arguments matter only if the configuration is valid.
Judging ==
    \E config \in MCConfigs:
        /\ GoodFile(config)
        /\ Starting({c1}, IF Valid(config) THEN Alone(Calls, MCRemotes)
                         ELSE {[c \in Commands |-> Plain]})

Selecting ==
    \/ \E account \in 1..2:
         GoodFile(ScopedTo(account)) /\ Starting({c1}, Alone(TokenCalls(3), MCRemotes))
    \/ /\ GoodFile(ScopedTo(1))
       /\ Starting(Commands, [Commands -> [arguments: TokenCalls(2), remote: {Here, There}]])

MCInit == Editing \/ Judging \/ Selecting

MCSpec == MCInit /\ [][Next]_allVars
=============================================================================
