---------------------------- MODULE Configuration ----------------------------
(***************************************************************************)
(* The configuration between the commands that edit it and those that use  *)
(* it: a command opens the file, reads what it holds at that moment, and   *)
(* makes its request from that.                                            *)
(***************************************************************************)
EXTENDS ConfigEdit

CONSTANTS
    Configs,    \* what the file may hold before it is edited
    Arguments,  \* what commands are called with
    Remotes     \* origin remotes

ASSUME ConfigsAssumption   == \A config \in Configs: IsConfig(config)
ASSUME ArgumentsAssumption == Arguments \subseteq AnyArguments
ASSUME RemotesAssumption   == Remotes \subseteq AnyRemote

VARIABLES
    asked,   \* command -> its arguments and the remote of the directory it runs in
    loaded   \* command -> the configuration it read, or NoConfig

allVars == <<vars, asked, loaded>>

NoConfig == <<>>
Question == [arguments: Arguments, remote: Remotes]

\* The location, and a file of any content and mode, or none.
AnyFile(contents) ==
    /\ managed \in BOOLEAN
    /\ directory \in {"missing", "open", "private"}
    /\ \/ inodes = <<>> /\ path = NoFile
       \/ /\ directory # "missing"
          /\ \E content \in contents, private, own \in BOOLEAN:
               inodes = <<Inode(content, private, own)>>
          /\ path = 1

\* Some of the processes run, the others never come.
Starting(running, questions) ==
    /\ fd = [p \in Procs |-> NoFile]
    /\ pc = [p \in Procs |-> IF p \notin running THEN "done"
                             ELSE IF p \in Editors THEN "start" ELSE "load"]
    /\ exit = [e \in Editors |-> FALSE]
    /\ outcome = [p \in Procs |-> "none"]
    /\ touched = {}
    /\ asked \in questions
    /\ loaded = [c \in Commands |-> NoConfig]

Init ==
    /\ AnyFile(Configs)
    /\ \E running \in SUBSET Procs: Starting(running, [Commands -> Question])

FilesOK ==
    /\ managed \in BOOLEAN
    /\ directory \in {"missing", "open", "private"}
    /\ inodes \in Seq(Range(inodes)) /\ Len(inodes) <= MaxFiles
    /\ \A f \in DOMAIN inodes: IsInode(inodes[f])
    /\ path \in 0..Len(inodes)

ProcessesOK ==
    /\ fd \in [Procs -> 0..Len(inodes)]
    /\ \A p \in Procs: pc[p] \in {"repair", "repair_again", "read"} => fd[p] # NoFile
    /\ pc \in [Procs -> {"start", "publish", "enforce", "repair", "edit", "editing",
                         "enforce_again", "repair_again", "load", "read", "done"}]
    /\ exit \in [Editors -> BOOLEAN]
    /\ outcome \in [Procs -> {"none", "failed", "editor_failed", "valid", "config_error",
                              "refused", "requested"}]
    /\ touched \subseteq Editors
    /\ asked \in [Commands -> [arguments: AnyArguments, remote: AnyRemote]]
    /\ loaded = [c \in Commands |-> loaded[c]]

TypeOK == FilesOK /\ ProcessesOK

Answer(config, question) == Request(config, question.arguments, question.remote)

\* The command reads the file it opened and asks for what its arguments say.
ReadConfig(c) ==
    /\ pc[c] = "read"
    /\ LET config == inodes[fd[c]].content
       IN  /\ loaded' = [loaded EXCEPT ![c] = config]
           /\ End(c, IF ~Valid(config) THEN "config_error"
                     ELSE IF Answer(config, asked[c]).error # "none" THEN "refused"
                     ELSE "requested")
    /\ UNCHANGED <<fileVars, exit, touched, asked>>

CommandStep(c) == ReadConfig(c) \/ (OpenConfig(c) /\ UNCHANGED <<asked, loaded>>)

Done == \A p \in Procs: pc[p] = "done"

Next ==
    \/ \E e \in Editors: EditStep(e) /\ UNCHANGED <<asked, loaded>>
    \/ \E c \in Commands: CommandStep(c)
    \/ Done /\ UNCHANGED allVars

Spec == Init /\ [][Next]_allVars

-----------------------------------------------------------------------------
\* Once `ghst edit` has ended, with success or because the editor failed, and
\* nobody has saved since, the configuration is private and can be opened: the
\* mode is repaired again after the editor, which may have replaced the file, and
\* before its exit status is looked at (edit.rs:80).  After a success its content
\* is valid, although it is read through a descriptor.
EditLeavesUsableFile ==
    \A e \in Editors \ touched:
      /\ outcome[e] \in {"valid", "editor_failed"} => Openable
      /\ outcome[e] = "valid" => Valid(inodes[path].content)

\* The starter template never takes the name from another file, whoever created
\* it since `ghst edit --init` looked (docs edit.md:20).
TemplateNeverReplaces ==
    [][\A e \in Editors: pc[e] = "publish" /\ pc'[e] # "publish" /\ path' # path
         => path = NoFile /\ inodes'[path'] = Inode(Template, TRUE, TRUE)]_vars

-----------------------------------------------------------------------------
(***************************************************************************)
(* What these properties rest on.                                          *)
(***************************************************************************)
\* How a process ended is known when it has ended, and no editor is under way in
\* a directory that is missing.
EditorsUnderWay ==
    /\ \A p \in Procs: pc[p] # "done" => outcome[p] = "none"
    /\ directory = "missing" => ~Exists /\ \A e \in Editors: pc[e] \in {"start", "done"}

\* While nobody saves after an editor exited, the file it opens for its second
\* repair keeps the name, and it is usable from that repair on.
RepairHolds ==
    \A e \in Editors \ touched:
      /\ pc[e] = "repair_again" => DirectoryUsable /\ Exists /\ fd[e] = path /\ Own(path)
      /\ pc[e] \in {"load", "read"} => Openable
      /\ pc[e] = "read" => fd[e] = path

Answered(c) == outcome[c] \in {"requested", "refused"}

\* An answer is that to a valid configuration.
AnswersFit ==
    \A c \in Commands: Answered(c) =>
      /\ IsConfig(loaded[c]) /\ Valid(loaded[c])
      /\ outcome[c] = "requested" <=> Answer(loaded[c], asked[c]).error = "none"

\* The inductive invariant.
ConfigInv ==
    /\ TypeOK
    /\ EditorsUnderWay
    /\ RepairHolds /\ EditLeavesUsableFile
    /\ AnswersFit

-----------------------------------------------------------------------------
UserErrors ==
    {"ProfileRequired", "ProfileNotFound", "AppScopeRejected", "RunRequiresScoped",
     "ScopedLoginNotAllowed", "NotFound", "OriginNotFound", "MissingOriginUrl",
     "UnsupportedRemote", "InvalidOriginUrl", "InvalidScope", "OwnerMismatch"}

\* With a configuration that was valid when the command read it, whatever becomes
\* of the file, the command is refused for what the user asked alone,
\* never for what validation had to rule out; and a request names an app with an
\* account, and, if it is for a scoped token, a secret, permissions and
\* repositories of that account.
RequestsAreComplete ==
    \A c \in Commands: Answered(c) =>
      LET request == Answer(loaded[c], asked[c])
          command == asked[c].arguments.command
          profile == loaded[c].profile[request.profile]
          app == loaded[c].profile[request.source]
      IN  IF outcome[c] = "refused" THEN request.error \in UserErrors
          ELSE /\ app.kind = "app" /\ app.account # Unset /\ app.client_id # "blank"
               /\ command = "run" => profile.kind = "scoped"
               /\ command = "login" => profile.kind = "app"
               /\ profile.kind = "scoped" =>
                    /\ app.secret = "set" /\ profile.permissions # {}
                    /\ \A r \in request.selection.repositories: r.owner = app.account

\* What a command with a scoped profile is asked for.
AskedWords(c) ==
    LET name == ResolveProfileName(asked[c].arguments.profile, asked[c].arguments.env, loaded[c])
    IN  Words(asked[c].arguments.repo, loaded[c].profile[name].repo)

\* A list of repositories is accepted when every word of it can be meant, whatever
\* the order, the case and the repetitions of its words.
ScopesAreAsMeant ==
    \A c \in Commands: Answered(c) =>
      LET request == Answer(loaded[c], asked[c])
          account == loaded[c].profile[request.source].account
          scoped == request.profile # Unset /\ loaded[c].profile[request.profile].kind = "scoped"
      IN  scoped => (request.error = "none" <=> Acceptable(AskedWords(c), account, asked[c].remote))

\* The repositories that a token is for; those of an app are all.
ScopeOf(c) ==
    IF loaded[c].profile[Answer(loaded[c], asked[c]).profile].kind = "app" THEN AllScope
    ELSE Scope(AskedWords(c), asked[c].remote)

\* Two `ghst token` share one cached token exactly when they use the same profile
\* for the same repositories, in whatever words and from whatever directories
\* they ask; and the names that GitHub is sent, without their owner, are as many
\* as the repositories.
OneKeyPerScope ==
    LET Cached == {c \in Commands: outcome[c] = "requested"
                                     /\ asked[c].arguments.command = "token"}
    IN  \A c, d \in Cached:
          LET mine == Answer(loaded[c], asked[c])
              theirs == Answer(loaded[d], asked[d])
          IN  /\ CacheKey(mine) = CacheKey(theirs)
                   <=> mine.profile = theirs.profile /\ ScopeOf(c) = ScopeOf(d)
              /\ Cardinality(RepositoryNames(mine.selection))
                   = Cardinality(mine.selection.repositories)
=============================================================================
