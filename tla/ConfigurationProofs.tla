------------------------- MODULE ConfigurationProofs -------------------------
(***************************************************************************)
(* For any number of editors and commands, any configurations and any      *)
(* lists of repositories: a finished edit leaves a usable file, a template *)
(* takes a free name, what validation lets through suffices for every      *)
(* request, and lists share a cache key when they mean the same.           *)
(***************************************************************************)
EXTENDS Configuration, FiniteSetTheorems, TLAPS

USE ProcsAssumption, MaxFilesAssumption

-----------------------------------------------------------------------------
(***************************************************************************)
(* Configurations and files.                                               *)
(***************************************************************************)
\* The starter template is a configuration.
LEMMA TemplateIsConfig == IsConfig(Template)
<1> DEFINE profile == <<App(1, "set", "set"), Scoped(1, <<AutoWord>>, {"write"})>>
<1>1. Template = [version |-> 1, default |-> 2, profile |-> profile] BY DEF Template
<1>2. AutoWord \in AnyWord BY DEF AnyWord
<1>3. App(1, "set", "set") \in AnyProfile BY DEF App, AnyProfile, Unset
<1>4. Scoped(1, <<AutoWord>>, {"write"}) \in AnyProfile
  <2>1. <<AutoWord>> \in Seq(AnyWord) BY <1>2
  <2>2. 1 \in Nat \ {Unset} BY DEF Unset
  <2>3. {"write"} \in SUBSET {"read", "write"} OBVIOUS
  <2> HIDE DEF AutoWord
  <2> QED BY <2>1, <2>2, <2>3 DEF Scoped, AnyProfile
<1>5. DOMAIN profile = {1, 2} OBVIOUS
<1>6. \A n \in DOMAIN profile: profile[n] \in AnyProfile BY <1>3, <1>4
<1> HIDE DEF profile
<1> QED BY <1>1, <1>5, <1>6 DEF IsConfig, Names, Unset

\* A file of the user's, or not, with a configuration in it.
LEMMA InodeFields ==
    ASSUME NEW content, NEW private \in BOOLEAN, NEW own \in BOOLEAN, IsConfig(content)
    PROVE  IsInode(Inode(content, private, own))
BY DEF IsInode, Inode

\* A file keeps its being, and what is not changed of it, when its mode is
\* repaired (repair_file_permissions_descriptor).
LEMMA RepairedInode ==
    ASSUME NEW inode, IsInode(inode)
    PROVE  LET repaired == [inode EXCEPT !.private = TRUE]
           IN  /\ IsInode(repaired) /\ repaired.private = TRUE
               /\ repaired.content = inode.content /\ repaired.own = inode.own
<1>1. PICK content, private, own: /\ inode = Inode(content, private, own)
                                  /\ IsConfig(content) /\ own \in BOOLEAN
  BY DEF IsInode
<1>2. \A mode: [Inode(content, private, own) EXCEPT !.private = mode] = Inode(content, mode, own)
  BY DEF Inode
<1>3. inode.content = content /\ inode.own = own BY <1>1 DEF Inode
<1> QED BY <1>1, <1>2, <1>3 DEF IsInode, Inode

\* The same when its content is rewritten.
LEMMA RewrittenInode ==
    ASSUME NEW inode, IsInode(inode), NEW content, IsConfig(content)
    PROVE  IsInode([inode EXCEPT !.content = content])
<1>1. PICK old, private, own: /\ inode = Inode(old, private, own)
                              /\ private \in BOOLEAN /\ own \in BOOLEAN
  BY DEF IsInode
<1>2. [Inode(old, private, own) EXCEPT !.content = content] = Inode(content, private, own)
  BY DEF Inode
<1> QED BY <1>1, <1>2, InodeFields

-----------------------------------------------------------------------------
(***************************************************************************)
(* Types.                                                                  *)
(***************************************************************************)
LEMMA IsSequence ==
    ASSUME NEW s, NEW n \in Nat, s = [i \in 1..n |-> s[i]]
    PROVE  s \in Seq(Range(s)) /\ Len(s) = n
<1>1. s \in [1..n -> Range(s)] BY DEF Range
<1> QED BY <1>1

\* A new file takes the name (publish_if_absent).
LEMMA CreateKeepsFiles ==
    ASSUME FilesOK, NEW inode, IsInode(inode), Create(inode)
    PROVE  /\ inodes' \in Seq(Range(inodes')) /\ Len(inodes') <= MaxFiles
           /\ \A f \in DOMAIN inodes': IsInode(inodes'[f])
           /\ path' \in 1..Len(inodes') /\ inodes'[path'] = inode
           /\ Len(inodes') = Len(inodes) + 1
<1> DEFINE n == Len(inodes) + 1
<1>1. Len(inodes) \in Nat /\ DOMAIN inodes = 1..Len(inodes) BY DEF FilesOK
<1>2. inodes' = Append(inodes, inode) /\ path' = n BY DEF Create
<1>3. /\ DOMAIN inodes' = 1..n /\ Len(inodes') = n /\ inodes'[n] = inode
      /\ \A f \in DOMAIN inodes: inodes'[f] = inodes[f]
  BY <1>1, <1>2 DEF FilesOK
<1>4. inodes' = [f \in 1..n |-> inodes'[f]]
  <2>1. inodes' \in Seq(Range(inodes) \union {inode}) BY <1>1, <1>2 DEF FilesOK
  <2>2. inodes' \in [1..n -> Range(inodes) \union {inode}] BY <2>1, <1>3
  <2> QED BY <2>2
<1>5. inodes' \in Seq(Range(inodes'))
  <2>1. n \in Nat BY <1>1
  <2> HIDE DEF n
  <2> QED BY <1>4, <2>1, IsSequence
<1>6. \A f \in DOMAIN inodes': IsInode(inodes'[f]) BY <1>1, <1>3 DEF FilesOK
<1>7. n <= MaxFiles BY <1>1 DEF Create
<1> QED BY <1>1, <1>2, <1>3, <1>5, <1>6, <1>7

\* A file is changed in place.
LEMMA ChangeKeepsFiles ==
    ASSUME FilesOK, NEW f \in DOMAIN inodes, NEW inode, IsInode(inode),
           inodes' = [inodes EXCEPT ![f] = inode]
    PROVE  /\ inodes' \in Seq(Range(inodes')) /\ Len(inodes') = Len(inodes)
           /\ \A g \in DOMAIN inodes': IsInode(inodes'[g])
           /\ inodes'[f] = inode /\ \A g \in DOMAIN inodes \ {f}: inodes'[g] = inodes[g]
<1>1. Len(inodes) \in Nat /\ DOMAIN inodes = 1..Len(inodes) BY DEF FilesOK
<1>2. DOMAIN inodes' = 1..Len(inodes) BY <1>1
<1>3. inodes' = [g \in 1..Len(inodes) |-> inodes'[g]] BY <1>1
<1>4. inodes' \in Seq(Range(inodes')) /\ Len(inodes') = Len(inodes) BY <1>1, <1>3, IsSequence
<1>5. \A g \in DOMAIN inodes': IsInode(inodes'[g]) BY <1>2, <1>1 DEF FilesOK
<1> QED BY <1>1, <1>4, <1>5

\* Every step leaves the location and the files of their types.
LEMMA FilesStayOK ==
    ASSUME TypeOK, [Next]_allVars
    PROVE  FilesOK' /\ Len(inodes') >= Len(inodes)
<1> USE DEF TypeOK
<1>0. Len(inodes) \in Nat /\ DOMAIN inodes = 1..Len(inodes) BY DEF FilesOK
<1>1. ASSUME UNCHANGED <<managed, inodes, path>>, directory' \in {directory, "private"}
      PROVE  FilesOK' /\ Len(inodes') >= Len(inodes)
  BY <1>0, <1>1 DEF FilesOK
<1>2. ASSUME NEW inode, IsInode(inode), Create(inode), UNCHANGED <<managed, directory>>
      PROVE  FilesOK' /\ Len(inodes') >= Len(inodes)
  <2>1. /\ inodes' \in Seq(Range(inodes')) /\ Len(inodes') <= MaxFiles
        /\ \A f \in DOMAIN inodes': IsInode(inodes'[f])
        /\ path' \in 1..Len(inodes') /\ Len(inodes') = Len(inodes) + 1
    BY <1>2, CreateKeepsFiles
  <2> QED BY <1>0, <1>2, <2>1 DEF FilesOK
<1>3. ASSUME NEW f \in DOMAIN inodes, NEW inode, IsInode(inode),
             inodes' = [inodes EXCEPT ![f] = inode], UNCHANGED <<managed, directory, path>>
      PROVE  FilesOK' /\ Len(inodes') >= Len(inodes)
  <2>1. /\ inodes' \in Seq(Range(inodes')) /\ Len(inodes') = Len(inodes)
        /\ \A g \in DOMAIN inodes': IsInode(inodes'[g])
    BY <1>3, ChangeKeepsFiles
  <2> QED BY <1>0, <1>3, <2>1 DEF FilesOK
<1>4. ASSUME NEW e \in Editors, Publish(e) PROVE FilesOK' /\ Len(inodes') >= Len(inodes)
  <2>1. CASE Exists BY <1>1, <1>4, <2>1 DEF Publish
  <2>2. CASE ~Exists
    <3>1. IsInode(Inode(Template, TRUE, TRUE)) BY TemplateIsConfig, InodeFields
    <3>2. Create(Inode(Template, TRUE, TRUE)) /\ UNCHANGED <<managed, directory>>
      BY <1>4, <2>2 DEF Publish
    <3> QED BY <1>2, <3>1, <3>2
  <2> QED BY <2>1, <2>2
<1>5. ASSUME NEW e \in Editors, Repair(e) PROVE FilesOK' /\ Len(inodes') >= Len(inodes)
  <2>1. fd[e] \in DOMAIN inodes
    BY <1>0, <1>5 DEF Repair, ProcessesOK, Procs, NoFile
  <2>2. inodes' = [inodes EXCEPT ![fd[e]] = [inodes[fd[e]] EXCEPT !.private = TRUE]]
    BY <1>5, <2>1 DEF Repair
  <2>3. IsInode([inodes[fd[e]] EXCEPT !.private = TRUE])
    BY <2>1, RepairedInode DEF FilesOK
  <2> QED BY <1>3, <1>5, <2>1, <2>2, <2>3 DEF Repair
<1>6. ASSUME NEW e \in Editors, Save(e) PROVE FilesOK' /\ Len(inodes') >= Len(inodes)
  <2>1. CASE Exists /\ path' = NoFile /\ UNCHANGED inodes
    BY <1>0, <1>6, <2>1 DEF Save, FilesOK, NoFile
  <2>2. ASSUME NEW content \in Contents, NEW private \in BOOLEAN, NEW own \in BOOLEAN,
               Create(Inode(content, private, own))
        PROVE  FilesOK' /\ Len(inodes') >= Len(inodes)
    <3>1. IsInode(Inode(content, private, own)) BY ContentsAssumption, InodeFields
    <3> QED BY <1>2, <1>6, <2>2, <3>1 DEF Save
  <2>3. ASSUME NEW content \in Contents, Exists, UNCHANGED path,
               inodes' = [inodes EXCEPT ![path].content = content]
        PROVE  FilesOK' /\ Len(inodes') >= Len(inodes)
    <3>1. path \in DOMAIN inodes BY <1>0, <2>3 DEF Exists, FilesOK, NoFile
    <3>2. inodes' = [inodes EXCEPT ![path] = [inodes[path] EXCEPT !.content = content]]
      BY <2>3, <3>1
    <3>3. IsInode([inodes[path] EXCEPT !.content = content])
      BY <3>1, ContentsAssumption, RewrittenInode DEF FilesOK
    <3> QED BY <1>3, <1>6, <2>3, <3>1, <3>2, <3>3 DEF Save
  <2> QED BY <1>6, <2>1, <2>2, <2>3 DEF Save
<1>7. ASSUME NEW e \in Editors, EditStep(e), ~Publish(e), ~Repair(e), ~Save(e)
      PROVE  /\ UNCHANGED <<managed, inodes, path>>
             /\ directory' \in {directory, "private"}
  BY <1>7 DEF EditStep, StartEdit, StartInit, OpenForRepair, LaunchEditor, EditorExits,
              OpenConfig, ReadEdited, Fails, fileVars
<1>8. ASSUME NEW c \in Commands, CommandStep(c)
      PROVE  UNCHANGED fileVars
  BY <1>8 DEF CommandStep, ReadConfig, OpenConfig
<1> QED BY <1>1, <1>4, <1>5, <1>6, <1>7, <1>8 DEF Next, allVars, vars, fileVars

\* Every step leaves the processes of their types, and a process that works on an
\* open file has one open.
LEMMA ProcessesStayOK ==
    ASSUME TypeOK, [Next]_allVars
    PROVE  ProcessesOK'
<1> USE DEF TypeOK
<1> DEFINE Operations == {"start", "publish", "enforce", "repair", "edit", "editing",
                          "enforce_again", "repair_again", "load", "read", "done"}
           Results == {"none", "failed", "editor_failed", "valid", "config_error", "refused",
                       "requested"}
           OnFile == {"repair", "repair_again", "read"}
           Quiet == touched' \subseteq Editors /\ UNCHANGED <<asked, loaded>>
<1>1. /\ Len(inodes) \in Nat /\ Len(inodes') \in Nat /\ Len(inodes') >= Len(inodes)
      /\ path \in 0..Len(inodes)
  BY FilesStayOK DEF FilesOK
<1>2. fd \in [Procs -> 0..Len(inodes')] BY <1>1 DEF ProcessesOK
<1>3. ASSUME NEW p \in Procs, NEW operation \in Operations \ OnFile, Continue(p, operation),
             UNCHANGED <<fd, outcome>>, exit' \in [Editors -> BOOLEAN], Quiet
      PROVE  ProcessesOK'
  BY <1>2, <1>3 DEF ProcessesOK, Continue
<1>4. ASSUME NEW p \in Procs, NEW result \in Results, End(p, result), UNCHANGED exit,
             touched' \subseteq Editors, UNCHANGED asked, loaded' = [c \in Commands |-> loaded'[c]]
      PROVE  ProcessesOK'
  BY <1>1, <1>2, <1>4 DEF ProcessesOK, Continue, End, NoFile
<1>5. ASSUME NEW p \in Procs, NEW operation \in OnFile, Exists, fd' = [fd EXCEPT ![p] = path],
             Continue(p, operation), UNCHANGED <<outcome, exit>>, Quiet
      PROVE  ProcessesOK'
  BY <1>1, <1>2, <1>5 DEF ProcessesOK, Continue, Exists, NoFile
<1>6. ASSUME NEW e \in Editors, EditStep(e), Quiet PROVE ProcessesOK'
  <2>0. e \in Procs BY DEF Procs
  <2>1. CASE StartEdit(e) BY <1>3, <1>4, <1>6, <2>0, <2>1 DEF StartEdit, ProcessesOK
  <2>2. CASE StartInit(e) BY <1>3, <1>6, <2>0, <2>2 DEF StartInit, ProcessesOK
  <2>3. CASE Publish(e) BY <1>3, <1>4, <1>6, <2>0, <2>3 DEF Publish, ProcessesOK
  <2>4. CASE OpenForRepair(e)
    BY <1>4, <1>5, <1>6, <2>0, <2>4 DEF OpenForRepair, ProcessesOK
  <2>5. CASE Repair(e) BY <1>3, <1>4, <1>6, <2>0, <2>5 DEF Repair, ProcessesOK
  <2>6. CASE LaunchEditor(e) BY <1>3, <1>6, <2>0, <2>6 DEF LaunchEditor, ProcessesOK
  <2>7. CASE Save(e) BY <1>2, <1>6, <2>7 DEF Save, ProcessesOK
  <2>8. CASE EditorExits(e)
    <3>1. exit' \in [Editors -> BOOLEAN] BY <2>8 DEF EditorExits, ProcessesOK
    <3> QED BY <1>3, <1>6, <2>0, <2>8, <3>1 DEF EditorExits
  <2>9. CASE OpenConfig(e)
    BY <1>4, <1>5, <1>6, <2>0, <2>9 DEF OpenConfig, Openable, ProcessesOK
  <2>10. CASE ReadEdited(e) BY <1>4, <1>6, <2>0, <2>10 DEF ReadEdited, ProcessesOK
  <2>11. CASE Fails(e) BY <1>4, <1>6, <2>0, <2>11 DEF Fails, ProcessesOK
  <2> QED BY <1>6, <2>1, <2>2, <2>3, <2>4, <2>5, <2>6, <2>7, <2>8, <2>9, <2>10, <2>11
          DEF EditStep
<1>7. ASSUME NEW e \in Editors, EditStep(e), UNCHANGED <<asked, loaded>> PROVE Quiet
  BY <1>7 DEF EditStep, StartEdit, StartInit, Publish, OpenForRepair, Repair, LaunchEditor, Save,
              EditorExits, OpenConfig, ReadEdited, Fails, ProcessesOK
<1>8. ASSUME NEW c \in Commands, CommandStep(c) PROVE ProcessesOK'
  <2>0. c \in Procs BY DEF Procs
  <2>1. CASE OpenConfig(c) /\ UNCHANGED <<asked, loaded>>
    BY <1>4, <1>5, <2>0, <2>1 DEF OpenConfig, Openable, ProcessesOK
  <2>2. CASE ReadConfig(c)
    <3>1. loaded' = [d \in Commands |-> loaded'[d]] BY <2>2 DEF ReadConfig, ProcessesOK
    <3>2. PICK result \in Results: End(c, result) BY <2>2 DEF ReadConfig
    <3> QED BY <1>4, <2>0, <2>2, <3>1, <3>2 DEF ReadConfig, ProcessesOK
  <2> QED BY <1>8, <2>1, <2>2 DEF CommandStep
<1>9. CASE UNCHANGED allVars BY <1>9 DEF allVars, vars, fileVars, ProcessesOK
<1> QED BY <1>6, <1>7, <1>8, <1>9 DEF Next

-----------------------------------------------------------------------------
(***************************************************************************)
(* Editing.                                                                *)
(***************************************************************************)
\* How the processes get on (EditorsUnderWay): the first operation of an editor
\* that goes on makes the directory, or finds a file in it, and no directory is
\* ever removed.
LEMMA EditorsStayUnderWay ==
    ASSUME TypeOK, EditorsUnderWay, [Next]_allVars
    PROVE  EditorsUnderWay'
<1> USE DEF TypeOK, EditorsUnderWay
<1>1. ASSUME NEW e \in Editors, EditStep(e) PROVE EditorsUnderWay'
  <2>0. e \in Procs BY DEF Procs
  <2>1. CASE StartEdit(e)
    BY <2>0, <2>1 DEF StartEdit, Continue, End, Exists, fileVars, ProcessesOK, Procs
  <2>2. CASE StartInit(e)
    <3>1. directory' # "missing" BY <2>2 DEF StartInit
    <3> QED BY <2>0, <2>2, <3>1 DEF StartInit, Continue, ProcessesOK, Procs
  <2>3. CASE Publish(e)
    <3>1. directory' # "missing" BY <2>3 DEF Publish
    <3> QED BY <2>0, <2>3, <3>1 DEF Publish, Continue, End, ProcessesOK, Procs
  <2>4. CASE OpenForRepair(e)
    <3>1. directory' # "missing" BY <2>4 DEF OpenForRepair
    <3> QED BY <2>0, <2>4, <3>1 DEF OpenForRepair, Continue, End, ProcessesOK, Procs
  <2>5. CASE Repair(e)
    <3>1. directory' # "missing" BY <2>5 DEF Repair
    <3> QED BY <2>0, <2>5, <3>1 DEF Repair, Continue, End, ProcessesOK, Procs
  <2>6. CASE LaunchEditor(e)
    <3>1. directory' # "missing" BY <2>6 DEF LaunchEditor, fileVars
    <3> QED BY <2>0, <2>6, <3>1 DEF LaunchEditor, Continue, ProcessesOK, Procs
  <2>7. CASE Save(e)
    <3>1. directory' # "missing" BY <2>7 DEF Save
    <3> QED BY <2>7, <3>1 DEF Save
  <2>8. CASE EditorExits(e)
    <3>1. directory' # "missing" BY <2>8 DEF EditorExits, fileVars
    <3> QED BY <2>0, <2>8, <3>1 DEF EditorExits, Continue, ProcessesOK, Procs
  <2>9. CASE OpenConfig(e)
    <3>1. directory' # "missing" BY <2>9 DEF OpenConfig, fileVars
    <3> QED BY <2>0, <2>9, <3>1 DEF OpenConfig, Continue, End, ProcessesOK, Procs
  <2>10. CASE ReadEdited(e)
    <3>1. directory' # "missing" BY <2>10 DEF ReadEdited, fileVars
    <3> QED BY <2>0, <2>10, <3>1 DEF ReadEdited, Continue, End, ProcessesOK, Procs
  <2>11. CASE Fails(e)
    BY <2>0, <2>11 DEF Fails, Continue, End, Exists, fileVars, ProcessesOK, Procs
  <2> QED BY <1>1, <2>1, <2>2, <2>3, <2>4, <2>5, <2>6, <2>7, <2>8, <2>9, <2>10, <2>11
          DEF EditStep
<1>2. ASSUME NEW c \in Commands, CommandStep(c) PROVE EditorsUnderWay'
  <2>1. c \in Procs /\ c \notin Editors BY DEF Procs
  <2>2. /\ UNCHANGED fileVars
        /\ \E operation \in {"read", "done"}: Continue(c, operation)
        /\ outcome' = outcome \/ (\E result: End(c, result))
        /\ outcome' = outcome \/ pc'[c] = "done"
    BY <1>2, <2>1 DEF CommandStep, OpenConfig, ReadConfig, End, Continue, ProcessesOK
  <2>3. pc[c] # "done" BY <1>2 DEF CommandStep, OpenConfig, ReadConfig
  <2> QED BY <2>1, <2>2, <2>3 DEF Continue, End, Exists, fileVars, ProcessesOK, Procs
<1>3. CASE UNCHANGED allVars BY <1>3 DEF allVars, vars, fileVars, Exists
<1> QED BY <1>1, <1>2, <1>3 DEF Next

\* Whatever is done but saving leaves the file its name, its content and its
\* mode, or repairs the mode.
LEMMA UsableStays ==
    ASSUME TypeOK, [Next]_allVars, \A e \in Editors: ~Save(e), Exists
    PROVE  /\ path' = path /\ Exists' /\ inodes'[path].content = inodes[path].content
           /\ DirectoryUsable => DirectoryUsable'
           /\ inodes'[path].own = inodes[path].own
           /\ inodes[path].private => inodes'[path].private
<1> USE DEF TypeOK
<1>0. path \in DOMAIN inodes BY DEF FilesOK, Exists, NoFile
<1>1. ASSUME UNCHANGED <<managed, inodes, path>>, directory' \in {directory, "private"}
      PROVE  /\ path' = path /\ Exists' /\ inodes'[path].content = inodes[path].content
             /\ DirectoryUsable => DirectoryUsable'
             /\ inodes'[path].own = inodes[path].own
             /\ inodes[path].private => inodes'[path].private
  BY <1>1 DEF Exists, DirectoryUsable
<1>2. ASSUME NEW e \in Editors, Repair(e)
      PROVE  /\ path' = path /\ Exists' /\ inodes'[path].content = inodes[path].content
             /\ DirectoryUsable => DirectoryUsable'
             /\ inodes'[path].own = inodes[path].own
             /\ inodes[path].private => inodes'[path].private
  <2>1. inodes' = [inodes EXCEPT ![fd[e]] = [inodes[fd[e]] EXCEPT !.private = TRUE]]
    <3>1. fd[e] \in 1..Len(inodes) /\ DOMAIN inodes = 1..Len(inodes)
      BY <1>2 DEF Repair, ProcessesOK, FilesOK, Procs, NoFile
    <3> QED BY <1>2, <3>1 DEF Repair
  <2>2. CASE fd[e] = path
    <3>1. inodes'[path] = [inodes[path] EXCEPT !.private = TRUE] BY <1>0, <2>1, <2>2
    <3>2. IsInode(inodes[path]) BY <1>0 DEF FilesOK
    <3> QED BY <1>2, <3>1, <3>2, RepairedInode DEF Repair, Exists, DirectoryUsable
  <2>3. CASE fd[e] # path
    <3>1. inodes'[path] = inodes[path] BY <1>0, <2>1, <2>3
    <3> QED BY <1>2, <3>1 DEF Repair, Exists, DirectoryUsable
  <2> QED BY <2>2, <2>3
<1>3. ASSUME NEW e \in Editors, EditStep(e), ~Repair(e)
      PROVE  UNCHANGED <<managed, inodes, path>> /\ directory' \in {directory, "private"}
  BY <1>3 DEF EditStep, StartEdit, StartInit, Publish, OpenForRepair, LaunchEditor, EditorExits,
              OpenConfig, ReadEdited, Fails, fileVars
<1>4. ASSUME NEW c \in Commands, CommandStep(c) PROVE UNCHANGED fileVars
  BY <1>4 DEF CommandStep, ReadConfig, OpenConfig
<1> QED BY <1>1, <1>2, <1>3, <1>4 DEF Next, allVars, vars, fileVars

\* A step of another process is none of this editor's.
LEMMA OthersStay ==
    ASSUME TypeOK, NEW e \in Editors, [Next]_allVars, ~EditStep(e)
    PROVE  /\ pc'[e] = pc[e] /\ fd'[e] = fd[e] /\ outcome'[e] = outcome[e]
           /\ e \notin touched' => e \notin touched
<1> USE DEF TypeOK
<1>0. e \in Procs /\ e \notin Commands BY DEF Procs
<1>1. ASSUME NEW d \in Editors, EditStep(d)
      PROVE  /\ pc'[e] = pc[e] /\ fd'[e] = fd[e] /\ outcome'[e] = outcome[e]
             /\ e \notin touched' => e \notin touched
  <2>1. d # e /\ d \in Procs BY <1>1 DEF Procs
  <2> QED BY <1>0, <1>1, <2>1
          DEF EditStep, StartEdit, StartInit, Publish, OpenForRepair, Repair, LaunchEditor, Save,
              EditorExits, OpenConfig, ReadEdited, Fails, Continue, End, ProcessesOK
<1>2. ASSUME NEW c \in Commands, CommandStep(c)
      PROVE  /\ pc'[e] = pc[e] /\ fd'[e] = fd[e] /\ outcome'[e] = outcome[e]
             /\ touched' = touched
  <2>1. c # e /\ c \in Procs BY <1>0 DEF Procs
  <2> QED BY <1>0, <1>2, <2>1
          DEF CommandStep, OpenConfig, ReadConfig, Continue, End, ProcessesOK
<1> QED BY <1>1, <1>2 DEF Next, allVars, vars

\* What holds of an editor after which nobody has saved.
Repaired(e) ==
    /\ pc[e] = "repair_again" => DirectoryUsable /\ Exists /\ fd[e] = path /\ Own(path)
    /\ pc[e] \in {"load", "read"} => Openable
    /\ pc[e] = "read" => fd[e] = path
    /\ outcome[e] \in {"valid", "editor_failed"} => Openable
    /\ outcome[e] = "valid" => Valid(inodes[path].content)

\* The second repair of an editor, and what it loads, survive every step that is
\* not a save (edit_configuration, run_edit).
LEMMA RepairedStays ==
    ASSUME TypeOK, EditorsUnderWay, [Next]_allVars, NEW e \in Editors, e \notin touched',
           e \notin touched => Repaired(e)
    PROVE  Repaired(e)'
<1> USE DEF TypeOK
<1>0. e \in Procs /\ e \notin Commands BY DEF Procs
<1>1. \A d \in Editors: ~Save(d) BY DEF Save
<1>2. Exists => /\ path' = path /\ Exists' /\ inodes'[path].content = inodes[path].content
                /\ DirectoryUsable => DirectoryUsable'
                /\ inodes'[path].own = inodes[path].own
                /\ inodes[path].private => inodes'[path].private
  BY <1>1, UsableStays
<1>3. CASE ~EditStep(e)
  <2>1. /\ pc'[e] = pc[e] /\ fd'[e] = fd[e] /\ outcome'[e] = outcome[e] /\ e \notin touched
    BY <1>3, OthersStay
  <2>2. Repaired(e) BY <2>1
  <2>3. Openable => Openable' BY <1>2 DEF Openable, Private
  <2>4. Exists /\ Own(path) => Own(path)' BY <1>2 DEF Own
  <2> QED BY <1>2, <2>1, <2>2, <2>3, <2>4 DEF Repaired, Openable
<1>4. ASSUME NEW operation \in {"publish", "enforce", "edit", "editing", "enforce_again", "repair"},
             Continue(e, operation), outcome' = outcome, pc[e] # "done"
      PROVE  Repaired(e)'
  BY <1>0, <1>4 DEF Repaired, Continue, EditorsUnderWay, ProcessesOK
<1>5. ASSUME End(e, "failed") PROVE Repaired(e)'
  BY <1>0, <1>5 DEF Repaired, End, Continue, ProcessesOK
<1>6. CASE StartEdit(e) BY <1>4, <1>5, <1>6 DEF StartEdit
<1>7. CASE StartInit(e) BY <1>4, <1>7 DEF StartInit
<1>8. CASE Publish(e) BY <1>4, <1>5, <1>8 DEF Publish
<1>9. CASE OpenForRepair(e)
  <2>1. CASE Exists /\ Own(path) /\ pc[e] = "enforce_again"
    <3>1. DirectoryUsable' BY <1>9, <2>1 DEF OpenForRepair, EditorsUnderWay, DirectoryUsable
    <3>2. Exists' /\ Own(path)' BY <1>9, <2>1 DEF OpenForRepair, Exists, Own
    <3>3. pc'[e] = "repair_again" /\ fd'[e] = path' /\ outcome'[e] = "none"
      BY <1>0, <1>9, <2>1 DEF OpenForRepair, Continue, EditorsUnderWay, ProcessesOK
    <3> QED BY <3>1, <3>2, <3>3 DEF Repaired
  <2>2. CASE Exists /\ Own(path) /\ pc[e] = "enforce" BY <1>4, <1>9, <2>2 DEF OpenForRepair
  <2>3. CASE ~(Exists /\ Own(path)) BY <1>5, <1>9, <2>3 DEF OpenForRepair
  <2> QED BY <1>9, <2>1, <2>2, <2>3 DEF OpenForRepair
<1>10. CASE Repair(e)
  <2>1. CASE pc[e] = "repair" BY <1>4, <1>10, <2>1 DEF Repair
  <2>2. CASE pc[e] = "repair_again"
    <3>1. DirectoryUsable /\ Exists /\ fd[e] = path /\ Own(path)
      BY <1>10, <2>2 DEF Repair, Repaired
    <3>2. path \in DOMAIN inodes BY <3>1 DEF FilesOK, Exists, NoFile
    <3>3. inodes'[path] = [inodes[path] EXCEPT !.private = TRUE] BY <1>10, <3>1, <3>2 DEF Repair
    <3>4. Private(path)'
      <4>1. IsInode(inodes[path]) BY <3>2 DEF FilesOK
      <4>2. inodes'[path].private = TRUE /\ inodes'[path].own = inodes[path].own
        BY <3>3, <4>1, RepairedInode
      <4>3. path' = path BY <1>10 DEF Repair
      <4> QED BY <3>1, <4>2, <4>3 DEF Private, Own
    <3>5. Openable' BY <1>2, <3>1, <3>4 DEF Openable
    <3>6. pc'[e] \in {"load", "done"} /\ outcome'[e] # "valid"
      BY <1>0, <1>10, <2>2 DEF Repair, Continue, End, EditorsUnderWay, ProcessesOK
    <3> QED BY <3>5, <3>6 DEF Repaired
  <2> QED BY <1>10, <2>1, <2>2 DEF Repair
<1>11. CASE LaunchEditor(e) BY <1>4, <1>11 DEF LaunchEditor
<1>12. CASE EditorExits(e) BY <1>4, <1>12 DEF EditorExits
<1>13. CASE OpenConfig(e)
  <2>1. CASE Openable
    <3>1. Openable' BY <1>2, <2>1 DEF Openable, Private
    <3>2. pc'[e] = "read" /\ fd'[e] = path' /\ outcome'[e] = "none"
      BY <1>0, <1>2, <1>13, <2>1 DEF OpenConfig, Openable, Continue, EditorsUnderWay, ProcessesOK
    <3> QED BY <3>1, <3>2 DEF Repaired
  <2>2. CASE ~Openable BY <1>5, <1>13, <2>2 DEF OpenConfig
  <2> QED BY <2>1, <2>2
<1>14. CASE ReadEdited(e)
  <2>1. Openable /\ fd[e] = path BY <1>14 DEF ReadEdited, Repaired
  <2>2. Openable' BY <1>2, <2>1 DEF Openable, Private
  <2>3. pc'[e] = "done" /\ (outcome'[e] = "valid" => Valid(inodes[path].content))
    BY <1>0, <1>14, <2>1 DEF ReadEdited, End, Continue, ProcessesOK
  <2>4. inodes'[path'].content = inodes[path].content BY <1>2, <2>1 DEF Openable
  <2> QED BY <2>2, <2>3, <2>4 DEF Repaired
<1>15. CASE Fails(e) BY <1>5, <1>15 DEF Fails
<1> QED BY <1>1, <1>3, <1>6, <1>7, <1>8, <1>9, <1>10, <1>11, <1>12, <1>13, <1>14, <1>15
        DEF EditStep

\* A command answers for the file that it opened, and keeps what it read.
LEMMA AnswersStayFit ==
    ASSUME TypeOK, EditorsUnderWay, AnswersFit, [Next]_allVars
    PROVE  AnswersFit'
<1> USE DEF TypeOK
<1> SUFFICES ASSUME NEW c \in Commands, Answered(c)'
             PROVE  /\ IsConfig(loaded'[c]) /\ Valid(loaded'[c])
                    /\ outcome'[c] = "requested" <=> Answer(loaded'[c], asked'[c]).error = "none"
  BY DEF AnswersFit
<1>0. c \in Procs /\ c \notin Editors BY DEF Procs
<1>1. CASE ReadConfig(c)
  <2>1. fd[c] \in DOMAIN inodes
    BY <1>0, <1>1 DEF ReadConfig, ProcessesOK, FilesOK, NoFile
  <2>2. IsConfig(inodes[fd[c]].content) BY <2>1 DEF FilesOK, IsInode
  <2>3. loaded'[c] = inodes[fd[c]].content /\ asked' = asked
    BY <1>1 DEF ReadConfig, ProcessesOK
  <2>4. outcome'[c] = IF ~Valid(loaded'[c]) THEN "config_error"
                      ELSE IF Answer(loaded'[c], asked[c]).error # "none" THEN "refused"
                      ELSE "requested"
    BY <1>0, <1>1, <2>3 DEF ReadConfig, End, ProcessesOK
  <2> QED BY <2>2, <2>3, <2>4 DEF Answered
<1>2. CASE loaded'[c] = loaded[c] /\ asked' = asked /\ outcome'[c] = outcome[c]
  BY <1>2 DEF AnswersFit, Answered
<1>3. CASE OpenConfig(c)
  BY <1>0, <1>3 DEF OpenConfig, End, EditorsUnderWay, Answered, ProcessesOK
<1>4. ASSUME NEW e \in Editors, EditStep(e), UNCHANGED <<asked, loaded>>
      PROVE  loaded'[c] = loaded[c] /\ asked' = asked /\ outcome'[c] = outcome[c]
  <2>1. e # c BY <1>0
  <2> QED BY <1>0, <1>4, <2>1
          DEF EditStep, StartEdit, StartInit, Publish, OpenForRepair, Repair, LaunchEditor, Save,
              EditorExits, OpenConfig, ReadEdited, Fails, End, ProcessesOK
<1>5. ASSUME NEW d \in Commands, d # c, CommandStep(d)
      PROVE  loaded'[c] = loaded[c] /\ asked' = asked /\ outcome'[c] = outcome[c]
  BY <1>0, <1>5 DEF CommandStep, ReadConfig, OpenConfig, End, ProcessesOK, Procs
<1>6. CASE UNCHANGED allVars BY <1>2, <1>6 DEF allVars, vars
<1> QED BY <1>1, <1>2, <1>3, <1>4, <1>5, <1>6 DEF Next, CommandStep

LEMMA InitEstablishesInv == Init => ConfigInv
<1> SUFFICES ASSUME Init PROVE ConfigInv OBVIOUS
<1> USE DEF Init, AnyFile, NoFile
<1>1. PICK running \in SUBSET Procs: Starting(running, [Commands -> Question]) OBVIOUS
<1>2. FilesOK
  <2>1. CASE inodes = <<>> /\ path = NoFile BY <2>1 DEF FilesOK, Range
  <2>2. ASSUME NEW content \in Configs, NEW private \in BOOLEAN, NEW own \in BOOLEAN,
               inodes = <<Inode(content, private, own)>>, path = 1
        PROVE  FilesOK
    <3>1. IsInode(Inode(content, private, own)) BY ConfigsAssumption, InodeFields
    <3>2. inodes = [f \in 1..1 |-> inodes[f]] /\ DOMAIN inodes = 1..1 /\ Len(inodes) = 1
      BY <2>2
    <3>3. inodes[1] = Inode(content, private, own) BY <2>2
    <3>4. inodes \in Seq(Range(inodes)) BY <3>2, IsSequence
    <3> QED BY <2>2, <3>1, <3>2, <3>3, <3>4 DEF FilesOK
  <2> QED BY <2>1, <2>2
<1>3. Len(inodes) \in Nat BY <1>2 DEF FilesOK
<1>4. ProcessesOK
  <2>1. asked \in [Commands -> [arguments: AnyArguments, remote: AnyRemote]]
    BY <1>1, ArgumentsAssumption, RemotesAssumption DEF Starting, Question
  <2> QED BY <1>1, <1>3, <2>1 DEF Starting, ProcessesOK
<1>5. EditorsUnderWay
  BY <1>1 DEF Starting, EditorsUnderWay, Exists, Procs
<1>6. RepairHolds /\ EditLeavesUsableFile /\ AnswersFit
  BY <1>1 DEF Starting, RepairHolds, EditLeavesUsableFile, AnswersFit, Answered, Procs
<1> QED BY <1>2, <1>4, <1>5, <1>6 DEF ConfigInv, TypeOK

\* The inductive invariant of the configuration, for any number of processes.
THEOREM ConfigInvariant == Spec => []ConfigInv
<1>1. Init => ConfigInv BY InitEstablishesInv
<1>2. ConfigInv /\ [Next]_allVars => ConfigInv'
  <2> SUFFICES ASSUME ConfigInv, [Next]_allVars PROVE ConfigInv' OBVIOUS
  <2>1. TypeOK' BY FilesStayOK, ProcessesStayOK DEF ConfigInv, TypeOK
  <2>2. EditorsUnderWay' BY EditorsStayUnderWay DEF ConfigInv
  <2>3. ASSUME NEW e \in Editors, e \notin touched' PROVE Repaired(e)'
    <3>1. e \notin touched => Repaired(e)
      BY DEF ConfigInv, RepairHolds, EditLeavesUsableFile, Repaired
    <3> QED BY <2>3, <3>1, RepairedStays DEF ConfigInv
  <2>4. RepairHolds' /\ EditLeavesUsableFile'
    BY <2>3 DEF RepairHolds, EditLeavesUsableFile, Repaired
  <2>5. AnswersFit' BY AnswersStayFit DEF ConfigInv
  <2> QED BY <2>1, <2>2, <2>4, <2>5 DEF ConfigInv
<1> QED BY <1>1, <1>2, PTL DEF Spec

\* A finished edit leaves a usable file (edit_configuration).
THEOREM FinishedEditUsable == Spec => []EditLeavesUsableFile
<1>1. ConfigInv => EditLeavesUsableFile BY DEF ConfigInv
<1> QED BY <1>1, ConfigInvariant, PTL

\* The template takes a free name, whoever else creates files (publish_if_absent).
THEOREM TemplateTakesFreeName == Spec => TemplateNeverReplaces
<1>1. ASSUME ConfigInv, [Next]_allVars, NEW e \in Editors, pc[e] = "publish",
             pc'[e] # "publish", path' # path
      PROVE  path = NoFile /\ inodes'[path'] = Inode(Template, TRUE, TRUE)
  <2>1. EditStep(e) BY <1>1, OthersStay DEF ConfigInv
  <2>2. Publish(e)
    BY <1>1, <2>1 DEF EditStep, StartEdit, StartInit, OpenForRepair, Repair, LaunchEditor, Save,
                      EditorExits, OpenConfig, ReadEdited, Fails, fileVars
  <2>3. ~Exists /\ Create(Inode(Template, TRUE, TRUE)) BY <1>1, <2>2 DEF Publish
  <2>4. IsInode(Inode(Template, TRUE, TRUE)) BY TemplateIsConfig, InodeFields
  <2> QED BY <1>1, <2>3, <2>4, CreateKeepsFiles DEF ConfigInv, TypeOK, Exists
<1>2. ConfigInv /\ [Next]_allVars =>
        [\A e \in Editors: pc[e] = "publish" /\ pc'[e] # "publish" /\ path' # path
           => path = NoFile /\ inodes'[path'] = Inode(Template, TRUE, TRUE)]_vars
  BY <1>1
<1> QED BY <1>2, ConfigInvariant, PTL DEF Spec, TemplateNeverReplaces

-----------------------------------------------------------------------------
(***************************************************************************)
(* Requests.                                                               *)
(***************************************************************************)
\* A set of numbers has a first.
LEMMA FirstIsLeast ==
    ASSUME NEW S \in SUBSET Nat, S # {}
    PROVE  Min(S) \in S /\ \A n \in S: Min(S) <= n
<1>1. PICK m \in S: \A n \in S: <<n, m>> \notin OpToRel(<, Nat)
  BY NatLessThanWellFounded, WFMin
<1>2. \A n \in S: m <= n
  <2> SUFFICES ASSUME NEW n \in S, n < m PROVE FALSE OBVIOUS
  <2> <<n, m>> \in OpToRel(<, Nat) BY DEF OpToRel
  <2> QED BY <1>1
<1> QED BY <1>2 DEF Min

\* What validate_config rules out of a configuration.
LEMMA ValidProfiles ==
    ASSUME NEW config, IsConfig(config), Valid(config), NEW n \in Names(config)
    PROVE  LET profile == config.profile[n]
               source == config.profile[profile.source]
           IN  /\ profile \in AnyProfile
               /\ profile.kind = "app" => ~InvalidApp(profile)
               /\ profile.kind # "app" => /\ profile.permissions # {}
                                          /\ profile.source \in Names(config)
                                          /\ source.kind = "app" /\ source.secret # "unset"
<1> DEFINE wrong == {m \in Names(config): ProfileError(config, m) # "none"}
<1>1. wrong = {}
  <2>1. wrong # {} => Min(wrong) \in wrong
    <3>1. wrong \in SUBSET Nat BY DEF IsConfig
    <3> HIDE DEF wrong
    <3> QED BY <3>1, FirstIsLeast
  <2>2. wrong # {} => ProfileError(config, Min(wrong)) # "none" BY <2>1
  <2> QED BY <2>2 DEF Valid, Validate
<1>2. ProfileError(config, n) = "none" BY <1>1
<1> QED BY <1>2 DEF ProfileError, IsConfig

\* The repository that a word stands for.
Standing(w, remote) == IF w = AutoWord THEN ResolveOrigin(remote).word ELSE w

\* What is wrong with a word of a list.
LEMMA WordErrors ==
    ASSUME NEW w \in AnyWord, NEW account \in Nat, NEW remote \in AnyRemote
    PROVE  LET origin == ResolveOrigin(remote)
               error == WordError(account, origin, w)
           IN  /\ error \in UserErrors \union {"none"}
               /\ error = "none" <=> /\ w.kind \in {"auto", "repository"}
                                     /\ w = AutoWord => OriginKnown(remote)
                                     /\ Standing(w, remote).owner = account
               /\ OriginKnown(remote) => origin.word = Repository(remote.path[1], remote.path[2], remote.capitals)
<1> DEFINE origin == ResolveOrigin(remote)
<1>1. /\ origin.error \in UserErrors \union {"none"}
      /\ origin.error = "none" <=> OriginKnown(remote)
      /\ OriginKnown(remote) => origin.word = Repository(remote.path[1], remote.path[2], remote.capitals)
  BY DEF ResolveOrigin, AnyRemote, OriginKnown, UserErrors
<1>2. w.kind = "auto" <=> w = AutoWord BY DEF AnyWord, AutoWord, All, Word
<1> HIDE DEF origin
<1>3. "OwnerMismatch" \in UserErrors /\ "InvalidScope" \in UserErrors /\ "none" \notin UserErrors
  BY DEF UserErrors
<1> QED BY <1>1, <1>2, <1>3 DEF WordError, Standing, origin

\* A list is refused for what the user asked, or each of its repositories belongs
\* to the account; it is accepted exactly when it is acceptable
\* (RepositorySelection::resolve).
LEMMA SelectionFits ==
    ASSUME NEW words \in Seq(AnyWord), NEW account \in Nat, NEW remote \in AnyRemote
    PROVE  LET selection == Resolve(words, account, remote)
           IN  /\ selection.error \in UserErrors \union {"none"}
               /\ \A r \in selection.repositories: r.owner = account
               /\ selection.error = "none" <=> Acceptable(words, account, remote)
<1> DEFINE origin == ResolveOrigin(remote)
           selection == Resolve(words, account, remote)
           wrong == {i \in DOMAIN words: WordError(account, origin, words[i]) # "none"}
<1>0. "InvalidScope" \in UserErrors /\ "none" \notin UserErrors BY DEF UserErrors
<1>1. ToSet(words) \subseteq AnyWord /\ DOMAIN words \subseteq Nat
      /\ \A w: w \in ToSet(words) <=> \E i \in DOMAIN words: words[i] = w
  BY DEF ToSet
<1>2. \A w \in ToSet(words):
        /\ WordError(account, origin, w) \in UserErrors \union {"none"}
        /\ WordError(account, origin, w) = "none"
             <=> /\ w.kind \in {"auto", "repository"}
                 /\ w = AutoWord => OriginKnown(remote)
                 /\ Standing(w, remote).owner = account
  <2> TAKE w \in ToSet(words)
  <2>1. w \in AnyWord BY <1>1
  <2>2. WordError(account, origin, w) \in UserErrors \union {"none"} BY <2>1, WordErrors
  <2>3. WordError(account, origin, w) = "none"
          <=> /\ w.kind \in {"auto", "repository"}
              /\ w = AutoWord => OriginKnown(remote)
              /\ Standing(w, remote).owner = account
    BY <2>1, WordErrors
  <2> QED BY <2>2, <2>3
<1>3. OriginKnown(remote) => origin.word = Repository(remote.path[1], remote.path[2], remote.capitals)
  <2>1. AutoWord \in AnyWord BY DEF AnyWord
  <2> QED BY <2>1, WordErrors
<1>4. wrong # {} => \E w \in ToSet(words): WordError(account, origin, words[Min(wrong)])
                                             = WordError(account, origin, w)
  <2>1. wrong # {} => Min(wrong) \in wrong
    <3>1. wrong \in SUBSET Nat BY <1>1
    <3> HIDE DEF wrong
    <3> QED BY <3>1, FirstIsLeast
  <2> QED BY <1>1, <2>1
<1>5. wrong # {} => WordError(account, origin, words[Min(wrong)]) # "none"
  <2>1. wrong # {} => Min(wrong) \in wrong
    <3>1. wrong \in SUBSET Nat BY <1>1
    <3> HIDE DEF wrong
    <3> QED BY <3>1, FirstIsLeast
  <2> QED BY <2>1
<1>6. wrong = {} <=> \A w \in ToSet(words): WordError(account, origin, w) = "none"
  BY <1>1
<1>7. All.kind = "all" BY DEF All, Word
<1>8. Acceptable(words, account, remote)
        <=> /\ words # <<>>
            /\ \/ ToSet(words) = {All}
               \/ wrong = {}
  <2>1. ASSUME OriginKnown(remote) \/ AutoWord \notin ToSet(words)
        PROVE  (\A meant \in Meant(words, remote): meant[1] = account)
                 <=> \A w \in ToSet(words): Standing(w, remote).owner = account
    <3>1. \A w \in ToSet(words):
            (IF w = AutoWord THEN <<remote.path[1], remote.path[2]>> ELSE <<w.owner, w.name>>)[1]
              = Standing(w, remote).owner
      BY <1>3, <2>1 DEF Repository, Standing
    <3> QED BY <3>1 DEF Meant
  <2> HIDE DEF wrong, origin
  <2> QED BY <1>2, <1>6, <2>1 DEF Acceptable
<1> HIDE DEF origin
<1>9. CASE words = <<>>
  <2>1. selection = [Unselected EXCEPT !.error = "InvalidScope"] BY <1>9 DEF Resolve, ToSet
  <2> QED BY <1>0, <1>8, <1>9, <2>1 DEF Unselected
<1>10. CASE words # <<>> /\ ToSet(words) = {All}
  <2>1. selection = [Unselected EXCEPT !.all = TRUE] BY <1>10 DEF Resolve
  <2> QED BY <1>8, <1>10, <2>1 DEF Unselected
<1>11. CASE words # <<>> /\ ToSet(words) # {All} /\ wrong # {}
  <2>1. \E error \in UserErrors: selection = [Unselected EXCEPT !.error = error]
    BY <1>0, <1>2, <1>4, <1>5, <1>11 DEF Resolve, origin
  <2> QED BY <1>0, <1>8, <1>11, <2>1 DEF Unselected
<1>12. CASE words # <<>> /\ ToSet(words) # {All} /\ wrong = {}
  <2>1. All \notin ToSet(words) BY <1>2, <1>6, <1>7, <1>12
  <2>2. selection = [Unselected EXCEPT !.repositories = {Parse(Standing(w, remote)): w \in ToSet(words)}]
    BY <1>12, <2>1 DEF Resolve, Standing, origin
  <2>3. \A w \in ToSet(words): Parse(Standing(w, remote)).owner = account
    <3> SUFFICES ASSUME NEW w \in ToSet(words) PROVE Parse(Standing(w, remote)).owner = account OBVIOUS
    <3>1. Standing(w, remote).owner = account /\ (w = AutoWord => OriginKnown(remote)) BY <1>2, <1>6, <1>12
    <3>2. \E kind, owner, name, capitals:
            Standing(w, remote) = [kind |-> kind, owner |-> owner, name |-> name, capitals |-> capitals]
      <4>1. CASE w = AutoWord BY <1>3, <3>1, <4>1 DEF Repository, Standing, origin
      <4>2. CASE w # AutoWord /\ w \in {All, Word("empty")} BY <4>2 DEF All, Word, Standing
      <4>3. CASE w # AutoWord /\ w \notin {All, Word("empty")}
        <5>1. w \in [kind: {"repository"}, owner: Nat, name: Nat, capitals: BOOLEAN]
          BY <1>1, <4>3 DEF AnyWord
        <5>2. w = [kind |-> w.kind, owner |-> w.owner, name |-> w.name, capitals |-> w.capitals]
          BY <5>1
        <5> QED BY <4>3, <5>2 DEF Standing
      <4> QED BY <4>1, <4>2, <4>3
    <3> QED BY <3>1, <3>2 DEF Parse
  <2> QED BY <1>8, <1>12, <2>2, <2>3 DEF Unselected
<1> QED BY <1>9, <1>10, <1>11, <1>12

\* With a valid configuration a command is refused for what its user asked, or its
\* request is of its profile, of the app behind that, and of a selection without
\* error (prepare_acquire_request, prepare_run_parameters, run_login).
LEMMA RequestFits ==
    ASSUME NEW config, IsConfig(config), Valid(config),
           NEW arguments \in AnyArguments, NEW remote \in AnyRemote
    PROVE  LET request == Request(config, arguments, remote)
               name == ResolveProfileName(arguments.profile, arguments.env, config)
               profile == config.profile[name]
               source == IF profile.kind = "app" THEN name ELSE profile.source
               app == config.profile[source]
               words == Words(arguments.repo, profile.repo)
               selection == Resolve(words, app.account, remote)
           IN  \/ /\ request = Refusal(request.error) /\ request.error \in UserErrors
               \/ /\ name \in Names(config) /\ name # Unset
                  /\ app \in AnyProfile /\ app.kind = "app" /\ ~InvalidApp(app)
                  /\ profile.kind = "scoped" => app.secret # "unset"
                  /\ profile.kind = "app" => arguments.command # "run"
                  /\ profile.kind = "scoped" => arguments.command # "login"
                  /\ profile \in AnyProfile /\ words \in Seq(AnyWord)
                  /\ profile.kind = "scoped" => profile.permissions # {}
                  /\ request.profile = name /\ request.source = source
                  /\ request.error = request.selection.error
                  /\ request.selection = IF profile.kind = "app" THEN [Unselected EXCEPT !.all = TRUE]
                                         ELSE selection
<1> DEFINE request == Request(config, arguments, remote)
           name == ResolveProfileName(arguments.profile, arguments.env, config)
           profile == config.profile[name]
           source == IF profile.kind = "app" THEN name ELSE profile.source
           app == config.profile[source]
           words == Words(arguments.repo, profile.repo)
           resolved == ResolveTokenProfile(config, name)
           misused == Misused(arguments.command, profile.kind, arguments.repo)
           selection == IF profile.kind = "app" THEN [Unselected EXCEPT !.all = TRUE]
                        ELSE Resolve(words, app.account, remote)
<1>0. /\ "ProfileRequired" \in UserErrors /\ "ProfileNotFound" \in UserErrors
      /\ {"ScopedLoginNotAllowed", "RunRequiresScoped", "AppScopeRejected"} \subseteq UserErrors
      /\ \A error: Refusal(error).error = error
  BY DEF UserErrors, Refusal
<1>1. CASE name = Unset \/ name \notin Names(config)
  <2>1. name \notin Names(config) BY <1>1 DEF IsConfig
  <2>2. resolved.error = "ProfileNotFound" BY <2>1 DEF ResolveTokenProfile
  <2>3. misused \in UserErrors \union {"none"} BY <1>0 DEF Misused
  <2>4. \E error \in UserErrors: request = Refusal(error)
    <3> HIDE DEF name, misused, resolved
    <3> QED BY <1>0, <1>1, <2>2, <2>3 DEF Request, name, misused, resolved
  <2> QED BY <1>0, <2>4
<1>2. CASE name # Unset /\ name \in Names(config)
  <2>1. /\ profile \in AnyProfile /\ profile.kind \in {"app", "scoped"}
        /\ profile.kind = "app" => ~InvalidApp(profile)
        /\ profile.kind # "app" => /\ profile.permissions # {} /\ profile.source \in Names(config)
                                   /\ app.kind = "app" /\ app.secret # "unset"
    <3>1. profile \in AnyProfile BY <1>2 DEF IsConfig
    <3>2. profile.kind \in {"app", "scoped"} BY <3>1 DEF AnyProfile
    <3> QED BY <1>2, <3>1, <3>2, ValidProfiles
  <2>2. app \in AnyProfile /\ app.kind = "app" /\ ~InvalidApp(app)
    <3>1. source \in Names(config) BY <1>2, <2>1
    <3>2. app.kind = "app" BY <2>1
    <3> HIDE DEF app, source
    <3> QED BY <3>1, <3>2, ValidProfiles DEF app
  <2>3. words \in Seq(AnyWord)
    <3>1. profile.repo \in Seq(AnyWord)
      <4>1. <<>> \in Seq(AnyWord) OBVIOUS
      <4> HIDE DEF profile
      <4> QED BY <2>1, <4>1 DEF AnyProfile
    <3>2. arguments.repo \in Seq(AnyWord) BY DEF AnyArguments
    <3> QED BY <3>1, <3>2 DEF Words
  <2>4. resolved = [error |-> "none", source |-> source]
    BY <1>2, <2>1 DEF ResolveTokenProfile
  <2>5. misused \in UserErrors \union {"none"} BY <1>0 DEF Misused
  <2>6. misused = "none" => /\ profile.kind = "app" => arguments.command # "run"
                            /\ profile.kind = "scoped" => arguments.command # "login"
    BY DEF Misused
  <2>7. request = IF misused # "none" THEN Refusal(misused)
                  ELSE [error |-> selection.error, profile |-> name, source |-> source,
                        selection |-> selection]
    <3>1. resolved.error = "none" /\ resolved.source = source BY <2>4
    <3> HIDE DEF name, misused, resolved
    <3> QED BY <1>2, <3>1 DEF Request, name, misused, resolved
  <2>8. CASE misused # "none" BY <1>0, <2>5, <2>7, <2>8
  <2>9. CASE misused = "none"
    <3>1. /\ request.error = selection.error /\ request.profile = name
          /\ request.source = source /\ request.selection = selection
      BY <2>7, <2>9
    <3>2. /\ name \in Names(config) /\ name # Unset
          /\ app \in AnyProfile /\ app.kind = "app" /\ ~InvalidApp(app)
          /\ profile.kind = "scoped" => app.secret # "unset"
          /\ profile.kind = "app" => arguments.command # "run"
          /\ profile.kind = "scoped" => arguments.command # "login"
          /\ profile \in AnyProfile /\ words \in Seq(AnyWord)
          /\ profile.kind = "scoped" => profile.permissions # {}
          /\ request.profile = name /\ request.source = source
          /\ request.error = request.selection.error
          /\ request.selection = selection
      <4> HIDE DEF request, name, profile, source, app, words, misused, resolved, selection
      <4> QED BY <1>2, <2>1, <2>2, <2>3, <2>6, <2>9, <3>1
    <3> QED BY <3>2
  <2> QED BY <2>8, <2>9
<1> QED BY <1>1, <1>2

\* What a command is refused for, and what it may request.
Complete(config, arguments, remote) ==
    LET request == Request(config, arguments, remote)
        profile == config.profile[request.profile]
        app == config.profile[request.source]
        name == ResolveProfileName(arguments.profile, arguments.env, config)
        words == Words(arguments.repo, config.profile[name].repo)
    IN  /\ request.error # "none" => request.error \in UserErrors
        /\ request.error = "none" =>
             /\ app.kind = "app" /\ app.account # Unset /\ app.client_id # "blank"
             /\ arguments.command = "run" => profile.kind = "scoped"
             /\ arguments.command = "login" => profile.kind = "app"
             /\ profile.kind = "scoped" =>
                  /\ app.secret = "set" /\ profile.permissions # {}
                  /\ \A r \in request.selection.repositories: r.owner = app.account
        /\ request.profile # Unset /\ profile.kind = "scoped" =>
             (request.error = "none" <=> Acceptable(words, app.account, remote))

\* So it is with every valid configuration.
LEMMA RequestComplete ==
    ASSUME NEW config, IsConfig(config), Valid(config),
           NEW arguments \in AnyArguments, NEW remote \in AnyRemote
    PROVE  Complete(config, arguments, remote)
<1> DEFINE request == Request(config, arguments, remote)
           name == ResolveProfileName(arguments.profile, arguments.env, config)
           profile == config.profile[name]
           source == IF profile.kind = "app" THEN name ELSE profile.source
           app == config.profile[source]
           words == Words(arguments.repo, profile.repo)
           selection == Resolve(words, app.account, remote)
<1>0. "none" \notin UserErrors BY DEF UserErrors
<1>1. CASE request = Refusal(request.error) /\ request.error \in UserErrors
  <2>1. request.profile = Unset BY <1>1 DEF Refusal
  <2> HIDE DEF request
  <2> QED BY <1>0, <1>1, <2>1 DEF request, Complete
<1>2. CASE ~(request = Refusal(request.error) /\ request.error \in UserErrors)
  <2>1. /\ name \in Names(config) /\ name # Unset
        /\ app \in AnyProfile /\ app.kind = "app" /\ ~InvalidApp(app)
        /\ profile.kind = "scoped" => app.secret # "unset"
        /\ profile.kind = "app" => arguments.command # "run"
        /\ profile.kind = "scoped" => arguments.command # "login"
        /\ profile \in AnyProfile /\ words \in Seq(AnyWord)
        /\ profile.kind = "scoped" => profile.permissions # {}
        /\ request.profile = name /\ request.source = source
        /\ request.error = request.selection.error
        /\ request.selection = IF profile.kind = "app" THEN [Unselected EXCEPT !.all = TRUE]
                               ELSE selection
    BY <1>2, RequestFits
  <2>2. /\ app.account \in Nat /\ app.account # Unset /\ app.client_id # "blank"
        /\ profile.kind = "scoped" => app.secret = "set"
        /\ profile.kind \in {"app", "scoped"}
    <3> HIDE DEF app, profile
    <3> QED BY <2>1 DEF AnyProfile, InvalidApp
  <2>3. /\ selection.error \in UserErrors \union {"none"}
        /\ \A r \in selection.repositories: r.owner = app.account
        /\ selection.error = "none" <=> Acceptable(words, app.account, remote)
    <3> HIDE DEF words, app
    <3> QED BY <2>1, <2>2, SelectionFits DEF selection
  <2>4. profile.kind = "app" => request.error = "none"
    <3> HIDE DEF request, profile
    <3> QED BY <2>1 DEF Unselected
  <2>5. config.profile[request.profile] = profile /\ config.profile[request.source] = app
    <3> HIDE DEF request, name
    <3> QED BY <2>1 DEF profile, app
  <2>6. /\ request.error # "none" => request.error \in UserErrors
        /\ request.error = "none" =>
             /\ app.kind = "app" /\ app.account # Unset /\ app.client_id # "blank"
             /\ arguments.command = "run" => profile.kind = "scoped"
             /\ arguments.command = "login" => profile.kind = "app"
             /\ profile.kind = "scoped" =>
                  /\ app.secret = "set" /\ profile.permissions # {}
                  /\ \A r \in request.selection.repositories: r.owner = app.account
        /\ request.profile # Unset /\ profile.kind = "scoped" =>
             (request.error = "none" <=> Acceptable(words, app.account, remote))
    <3> HIDE DEF request, name, profile, source, app, words, selection
    <3> QED BY <2>1, <2>2, <2>3, <2>4
  <2> HIDE DEF request
  <2> QED BY <2>5, <2>6 DEF request, Complete
<1> QED BY <1>1, <1>2

\* And so it is with every answer.
LEMMA AnswerComplete ==
    ASSUME ConfigInv, NEW c \in Commands, Answered(c)
    PROVE  /\ IsConfig(loaded[c]) /\ Valid(loaded[c])
           /\ Complete(loaded[c], asked[c].arguments, asked[c].remote)
           /\ outcome[c] = "requested" <=> Answer(loaded[c], asked[c]).error = "none"
<1>1. /\ IsConfig(loaded[c]) /\ Valid(loaded[c])
      /\ outcome[c] = "requested" <=> Answer(loaded[c], asked[c]).error = "none"
  BY DEF ConfigInv, AnswersFit
<1>2. asked[c].arguments \in AnyArguments /\ asked[c].remote \in AnyRemote
  BY DEF ConfigInv, TypeOK, ProcessesOK
<1> QED BY <1>1, <1>2, RequestComplete

\* With a configuration that was valid when it was read, a command is refused for
\* what its user asked, and a request is complete (validate_config).
THEOREM RequestsComplete == Spec => []RequestsAreComplete
<1>1. ASSUME ConfigInv PROVE RequestsAreComplete
  <2> SUFFICES ASSUME NEW c \in Commands, Answered(c)
               PROVE  LET request == Answer(loaded[c], asked[c])
                          command == asked[c].arguments.command
                          profile == loaded[c].profile[request.profile]
                          app == loaded[c].profile[request.source]
                      IN  IF outcome[c] = "refused" THEN request.error \in UserErrors
                          ELSE /\ app.kind = "app" /\ app.account # Unset /\ app.client_id # "blank"
                               /\ command = "run" => profile.kind = "scoped"
                               /\ command = "login" => profile.kind = "app"
                               /\ profile.kind = "scoped" =>
                                    /\ app.secret = "set" /\ profile.permissions # {}
                                    /\ \A r \in request.selection.repositories: r.owner = app.account
    BY DEF RequestsAreComplete
  <2>1. outcome[c] = "refused" <=> Answer(loaded[c], asked[c]).error # "none"
    BY <1>1, AnswerComplete DEF Answered
  <2> DEFINE request == Answer(loaded[c], asked[c])
             command == asked[c].arguments.command
             profile == loaded[c].profile[request.profile]
             app == loaded[c].profile[request.source]
  <2>2. /\ request.error # "none" => request.error \in UserErrors
        /\ request.error = "none" =>
             /\ app.kind = "app" /\ app.account # Unset /\ app.client_id # "blank"
             /\ command = "run" => profile.kind = "scoped"
             /\ command = "login" => profile.kind = "app"
             /\ profile.kind = "scoped" =>
                  /\ app.secret = "set" /\ profile.permissions # {}
                  /\ \A r \in request.selection.repositories: r.owner = app.account
    BY <1>1, AnswerComplete DEF Answer, Complete
  <2> HIDE DEF request, command, profile, app
  <2>3. IF outcome[c] = "refused" THEN request.error \in UserErrors
        ELSE /\ app.kind = "app" /\ app.account # Unset /\ app.client_id # "blank"
             /\ command = "run" => profile.kind = "scoped"
             /\ command = "login" => profile.kind = "app"
             /\ profile.kind = "scoped" =>
                  /\ app.secret = "set" /\ profile.permissions # {}
                  /\ \A r \in request.selection.repositories: r.owner = app.account
    BY <2>1, <2>2 DEF request
  <2> QED BY <2>3 DEF request, command, profile, app
<1> QED BY <1>1, ConfigInvariant, PTL

\* A list of repositories is accepted exactly when each of its words can be meant
\* (RepositorySelection::resolve).
THEOREM ScopesMeant == Spec => []ScopesAreAsMeant
<1>1. ASSUME ConfigInv PROVE ScopesAreAsMeant
  <2> SUFFICES ASSUME NEW c \in Commands, Answered(c)
               PROVE  LET request == Answer(loaded[c], asked[c])
                          account == loaded[c].profile[request.source].account
                          scoped == /\ request.profile # Unset
                                    /\ loaded[c].profile[request.profile].kind = "scoped"
                      IN  scoped => (request.error = "none"
                                       <=> Acceptable(AskedWords(c), account, asked[c].remote))
    BY DEF ScopesAreAsMeant
  <2> QED BY <1>1, AnswerComplete DEF Answer, AskedWords, Complete
<1> QED BY <1>1, ConfigInvariant, PTL

-----------------------------------------------------------------------------
(***************************************************************************)
(* Cache keys.                                                             *)
(***************************************************************************)
Repositories == [kind: {"repository"}, owner: Nat, name: Nat, capitals: BOOLEAN]

\* The names of a set of repositories, in order.
Orders(R) == {names \in [1..Cardinality(R) -> R]:
                /\ Range(names) = R
                /\ \A i, j \in DOMAIN names: i < j => ~Before(names[j], names[i])}

\* A set of repositories has a first.
LEMMA FirstRepository ==
    ASSUME NEW R \in SUBSET Repositories, R # {}
    PROVE  \E first \in R: \A r \in R: ~Before(r, first)
<1> DEFINE owners == {r.owner: r \in R}
           owner == Min(owners)
           names == {r.name: r \in {r \in R: r.owner = owner}}
           name == Min(names)
<1>1. \A r \in R: r.owner \in Nat /\ r.name \in Nat BY DEF Repositories
<1>2. owner \in owners /\ \A o \in owners: owner <= o
  <2>1. owners \in SUBSET Nat /\ owners # {} BY <1>1
  <2> HIDE DEF owners
  <2> QED BY <2>1, FirstIsLeast
<1>3. name \in names /\ \A n \in names: name <= n
  <2>1. names \in SUBSET Nat /\ names # {} BY <1>1, <1>2
  <2> HIDE DEF names
  <2> QED BY <2>1, FirstIsLeast
<1> HIDE DEF owner, name
<1>4. PICK first \in R: first.owner = owner /\ first.name = name BY <1>3
<1>5. ASSUME NEW r \in R PROVE ~Before(r, first)
  <2>1. owner <= r.owner BY <1>2
  <2>2. r.owner = owner => name <= r.name BY <1>3
  <2> QED BY <1>1, <1>4, <2>1, <2>2 DEF Before
<1> QED BY <1>5

\* A finite set of repositories can be put in order: otherwise the smallest set
\* that cannot be would be, with its first repository before the rest in order.
LEMMA OrderExists ==
    ASSUME NEW R \in SUBSET Repositories, IsFiniteSet(R)
    PROVE  Orders(R) # {}
<1> DEFINE Unordered == {S \in SUBSET Repositories: IsFiniteSet(S) /\ Orders(S) = {}}
           sizes == {Cardinality(S): S \in Unordered}
<1> SUFFICES ASSUME Unordered # {} PROVE FALSE OBVIOUS
<1>1. Min(sizes) \in sizes /\ \A n \in sizes: Min(sizes) <= n
  <2>1. sizes \in SUBSET Nat /\ sizes # {} BY FS_CardinalityType
  <2> HIDE DEF sizes
  <2> QED BY <2>1, FirstIsLeast
<1>2. PICK S \in Unordered: Cardinality(S) = Min(sizes) BY <1>1
<1>3. \A U \in Unordered: Cardinality(S) <= Cardinality(U) BY <1>1, <1>2
<1> DEFINE n == Cardinality(S)
<1>4. n \in Nat /\ IsFiniteSet(S) BY FS_CardinalityType
<1>5. CASE S = {}
  <2>1. n = 0 BY <1>5, FS_EmptySet
  <2>2. <<>> \in Orders(S) BY <1>5, <2>1 DEF Orders, Range
  <2> QED BY <2>2
<1>6. CASE S # {}
  <2>1. PICK first \in S: \A r \in S: ~Before(r, first) BY <1>6, FirstRepository
  <2> DEFINE rest == S \ {first}
  <2>2. IsFiniteSet(rest) /\ Cardinality(rest) = n - 1 BY <1>4, FS_RemoveElement
  <2>3. PICK later \in Orders(rest): TRUE
    <3>1. rest \notin Unordered
      <4> HIDE DEF rest, Unordered
      <4> QED BY <1>3, <1>4, <2>2
    <3> QED BY <2>2, <3>1
  <2>4. /\ later \in [1..(n - 1) -> rest] /\ Range(later) = rest
        /\ \A i, j \in 1..(n - 1): i < j => ~Before(later[j], later[i])
    BY <2>2 DEF Orders
  <2> DEFINE all == [i \in 1..n |-> IF i = 1 THEN first ELSE later[i - 1]]
  <2> HIDE DEF n
  <2>5. n # 0 BY <1>4, <1>6, FS_EmptySet DEF n
  <2>6. all \in [1..n -> S] BY <1>4, <2>4
  <2>7. Range(all) = S
    <3>1. Range(all) \subseteq S BY <2>6 DEF Range
    <3>2. first \in Range(all) BY <1>4, <2>5 DEF Range
    <3>3. ASSUME NEW r \in rest PROVE r \in Range(all)
      <4>1. PICK i \in 1..(n - 1): later[i] = r BY <2>4 DEF Range
      <4>2. i + 1 \in 1..n /\ all[i + 1] = r BY <1>4, <4>1
      <4> QED BY <4>2 DEF Range
    <3> QED BY <3>1, <3>2, <3>3
  <2>8. ASSUME NEW i \in 1..n, NEW j \in 1..n, i < j PROVE ~Before(all[j], all[i])
    <3>1. CASE i = 1 BY <2>1, <2>6, <3>1
    <3>2. CASE i # 1
      <4>1. i - 1 \in 1..(n - 1) /\ j - 1 \in 1..(n - 1) /\ i - 1 < j - 1 BY <1>4, <2>8, <3>2
      <4>2. all[i] = later[i - 1] /\ all[j] = later[j - 1] BY <1>4, <2>8, <3>2
      <4> QED BY <2>4, <4>1, <4>2
    <3> QED BY <3>1, <3>2
  <2>9. all \in Orders(S) BY <2>6, <2>7, <2>8 DEF Orders, n
  <2> QED BY <2>9
<1> QED BY <1>5, <1>6

\* The list in order of a set of repositories tells the set.
LEMMA InOrderTells ==
    ASSUME NEW R \in SUBSET Repositories, IsFiniteSet(R)
    PROVE  Range(InOrder(R)) = R
<1>1. PICK names \in Orders(R): TRUE BY OrderExists
<1> QED BY <1>1 DEF InOrder, Orders

\* A selection tells what scope it is for: all, or these repositories, of one
\* owner.
Tells(selection, scope) ==
    \/ selection.all /\ selection.repositories = {} /\ scope = AllScope
    \/ /\ ~selection.all
       /\ selection.repositories \in SUBSET Repositories /\ IsFiniteSet(selection.repositories)
       /\ \A r, s \in selection.repositories: r.owner = s.owner /\ ~r.capitals
       /\ scope = [all |-> FALSE, repositories |-> {<<r.owner, r.name>>: r \in selection.repositories}]

\* An accepted list is resolved to a selection of what its words mean, in whatever
\* case they are spelled.
LEMMA ResolutionTells ==
    ASSUME NEW words \in Seq(AnyWord), NEW account \in Nat, NEW remote \in AnyRemote,
           Resolve(words, account, remote).error = "none"
    PROVE  Tells(Resolve(words, account, remote), Scope(words, remote))
<1> DEFINE origin == ResolveOrigin(remote)
           selection == Resolve(words, account, remote)
           wrong == {i \in DOMAIN words: WordError(account, origin, words[i]) # "none"}
           chosen == {Parse(Standing(w, remote)): w \in ToSet(words)}
<1>1. Acceptable(words, account, remote) BY SelectionFits
<1>2. CASE ToSet(words) = {All}
  <2>1. words # <<>> BY <1>1 DEF Acceptable
  <2>2. selection = [Unselected EXCEPT !.all = TRUE] BY <1>2, <2>1 DEF Resolve
  <2>3. Scope(words, remote) = AllScope BY <1>2 DEF Scope
  <2>4. selection.all /\ selection.repositories = {} BY <2>2 DEF Unselected
  <2> QED BY <2>3, <2>4 DEF Tells
<1>3. CASE ToSet(words) # {All}
  <2>1. /\ words # <<>> /\ \A w \in ToSet(words): w.kind \in {"auto", "repository"}
        /\ AutoWord \in ToSet(words) => OriginKnown(remote)
        /\ \A meant \in Meant(words, remote): meant[1] = account
    BY <1>1, <1>3 DEF Acceptable
  <2>2. All \notin ToSet(words) BY <2>1 DEF All, Word
  <2>3. ToSet(words) \subseteq AnyWord BY DEF ToSet
  <2> DEFINE MeantBy(w) == IF w = AutoWord THEN <<remote.path[1], remote.path[2]>>
                           ELSE <<w.owner, w.name>>
  <2>4. ASSUME NEW w \in ToSet(words)
        PROVE  \E owner, name: /\ owner \in Nat /\ name \in Nat /\ MeantBy(w) = <<owner, name>>
                              /\ Parse(Standing(w, remote)) = Repository(owner, name, FALSE)
    <3>0. \A owner, name, capitals:
            Parse(Repository(owner, name, capitals)) = Repository(owner, name, FALSE)
      <4>1. \A owner, name, capitals, spelling:
              [Repository(owner, name, capitals) EXCEPT !.capitals = spelling]
                = Repository(owner, name, spelling)
        BY DEF Repository
      <4> QED BY <4>1 DEF Parse
    <3>1. CASE w = AutoWord
      <4>1. ResolveOrigin(remote).word = Repository(remote.path[1], remote.path[2], remote.capitals)
        BY <2>1, <2>3, <3>1, WordErrors
      <4>2. remote.path[1] \in Nat /\ remote.path[2] \in Nat
        BY <2>1, <3>1 DEF OriginKnown, AnyRemote
      <4>3. Standing(w, remote) = Repository(remote.path[1], remote.path[2], remote.capitals)
        BY <3>1, <4>1 DEF Standing
      <4>4. MeantBy(w) = <<remote.path[1], remote.path[2]>> BY <3>1
      <4> HIDE DEF MeantBy
      <4>5. Parse(Standing(w, remote)) = Repository(remote.path[1], remote.path[2], FALSE)
        BY <3>0, <4>3
      <4> QED BY <4>2, <4>4, <4>5
    <3>2. CASE w # AutoWord
      <4>1. w \in [kind: {"repository"}, owner: Nat, name: Nat, capitals: BOOLEAN]
        BY <2>1, <2>3, <3>2 DEF AnyWord, All, Word
      <4>2. w = Repository(w.owner, w.name, w.capitals) /\ w.owner \in Nat /\ w.name \in Nat
        BY <4>1 DEF Repository
      <4>3. Parse(w) = Repository(w.owner, w.name, FALSE) BY <3>0, <4>2
      <4>4. Standing(w, remote) = w /\ MeantBy(w) = <<w.owner, w.name>> BY <3>2 DEF Standing
      <4> QED BY <4>2, <4>3, <4>4
    <3> QED BY <3>1, <3>2
  <2>5. Meant(words, remote) = {MeantBy(w): w \in ToSet(words)} BY DEF Meant
  <2> HIDE DEF MeantBy
  <2>6. /\ \A r \in chosen: \E owner, name: /\ owner \in Nat /\ name \in Nat
                                           /\ r = Repository(owner, name, FALSE)
                                           /\ <<owner, name>> \in Meant(words, remote)
        /\ \A meant \in Meant(words, remote): \E owner, name: /\ meant = <<owner, name>>
                                                            /\ Repository(owner, name, FALSE) \in chosen
    <3>1. ASSUME NEW r \in chosen
          PROVE  \E owner, name: /\ owner \in Nat /\ name \in Nat
                                /\ r = Repository(owner, name, FALSE)
                                /\ <<owner, name>> \in Meant(words, remote)
      <4>1. PICK w \in ToSet(words): r = Parse(Standing(w, remote)) OBVIOUS
      <4>2. PICK owner, name: /\ owner \in Nat /\ name \in Nat /\ MeantBy(w) = <<owner, name>>
                              /\ Parse(Standing(w, remote)) = Repository(owner, name, FALSE)
        BY <2>4
      <4> QED BY <2>5, <4>1, <4>2
    <3>2. ASSUME NEW meant \in Meant(words, remote)
          PROVE  \E owner, name: meant = <<owner, name>> /\ Repository(owner, name, FALSE) \in chosen
      <4>1. PICK w \in ToSet(words): meant = MeantBy(w) BY <2>5
      <4>2. PICK owner, name: /\ MeantBy(w) = <<owner, name>>
                              /\ Parse(Standing(w, remote)) = Repository(owner, name, FALSE)
        BY <2>4
      <4> QED BY <4>1, <4>2
    <3> QED BY <3>1, <3>2
  <2> HIDE DEF chosen
  <2>7. chosen \in SUBSET Repositories
    <3>1. \A owner \in Nat, name \in Nat: Repository(owner, name, FALSE) \in Repositories
      BY DEF Repository, Repositories
    <3> QED BY <2>6, <3>1
  <2>8. \A r \in chosen: r.owner = account /\ ~r.capitals /\ <<r.owner, r.name>> \in Meant(words, remote)
    <3> TAKE r \in chosen
    <3>1. PICK owner, name: r = Repository(owner, name, FALSE) /\ <<owner, name>> \in Meant(words, remote)
      BY <2>6
    <3>2. r.owner = owner /\ r.name = name /\ r.capitals = FALSE BY <3>1 DEF Repository
    <3>3. <<owner, name>>[1] = account BY <2>1, <3>1
    <3> QED BY <3>1, <3>2, <3>3
  <2>9. {<<r.owner, r.name>>: r \in chosen} = Meant(words, remote)
    <3>1. ASSUME NEW meant \in Meant(words, remote)
          PROVE  \E r \in chosen: meant = <<r.owner, r.name>>
      <4>1. PICK owner, name: meant = <<owner, name>> /\ Repository(owner, name, FALSE) \in chosen
        BY <2>6
      <4>2. Repository(owner, name, FALSE).owner = owner /\ Repository(owner, name, FALSE).name = name
        BY DEF Repository
      <4> QED BY <4>1, <4>2
    <3> QED BY <2>8, <3>1
  <2>10. IsFiniteSet(chosen)
    <3> DEFINE f == [i \in DOMAIN words |-> Parse(Standing(words[i], remote))]
    <3>1. f \in Surjection(DOMAIN words, chosen) BY DEF Surjection, ToSet, chosen
    <3>2. IsFiniteSet(DOMAIN words) BY FS_Interval
    <3> HIDE DEF f, chosen
    <3> QED BY <3>1, <3>2, FS_Surjection
  <2>11. wrong = {}
    <3>1. wrong # {} => selection = [Unselected EXCEPT !.error = WordError(account, origin, words[Min(wrong)])]
      BY <1>3, <2>1, <2>2 DEF Resolve
    <3>2. wrong # {} => Min(wrong) \in wrong
      <4>1. wrong \in SUBSET Nat OBVIOUS
      <4> HIDE DEF wrong
      <4> QED BY <4>1, FirstIsLeast
    <3>3. wrong # {} => selection.error # "none" BY <3>1, <3>2 DEF Unselected
    <3> QED BY <3>3
  <2>12. selection = [Unselected EXCEPT !.repositories = chosen]
    BY <1>3, <2>1, <2>2, <2>11 DEF Resolve, Standing, chosen
  <2>13. ~selection.all /\ selection.repositories = chosen
    <3> HIDE DEF chosen
    <3> QED BY <2>12 DEF Unselected
  <2>14. Scope(words, remote) = [all |-> FALSE, repositories |-> Meant(words, remote)]
    BY <1>3 DEF Scope
  <2> HIDE DEF chosen, selection
  <2> QED BY <2>7, <2>8, <2>9, <2>10, <2>13, <2>14 DEF Tells, selection
<1> QED BY <1>2, <1>3

\* A repository is told by its owner and name, once its case is gone.
LEMMA SameRepository ==
    ASSUME NEW r \in Repositories, NEW s \in Repositories,
           ~r.capitals, ~s.capitals, r.owner = s.owner, r.name = s.name
    PROVE  r = s
<1>1. \A q \in Repositories: q = Repository(q.owner, q.name, q.capitals) /\ q.capitals \in BOOLEAN
  BY DEF Repositories, Repository
<1>2. r.capitals = s.capitals BY <1>1
<1>3. r = Repository(r.owner, r.name, r.capitals) /\ s = Repository(s.owner, s.name, s.capitals)
  BY <1>1
<1> HIDE DEF Repositories
<1> QED BY <1>2, <1>3

\* Selections have one canonical form exactly when they are for one scope.
LEMMA KeysTell ==
    ASSUME NEW one, NEW other, NEW x, NEW y, Tells(one, x), Tells(other, y)
    PROVE  Canonical(one) = Canonical(other) <=> x = y
<1>1. ASSUME NEW s, NEW t, NEW z, Tells(t, z), ~t.all
      PROVE  z.all = FALSE /\ (s.all => Canonical(s) # Canonical(t))
  <2>1. /\ t.repositories \in SUBSET Repositories /\ IsFiniteSet(t.repositories)
        /\ z = [all |-> FALSE, repositories |-> {<<r.owner, r.name>>: r \in t.repositories}]
    BY <1>1 DEF Tells
  <2>2. z.all = FALSE BY <2>1
  <2>3. Range(InOrder(t.repositories)) = t.repositories BY <2>1, InOrderTells
  <2>4. All \in Range(<<All>>)
    <3>1. <<All>>[1] = All /\ 1 \in DOMAIN <<All>> OBVIOUS
    <3> HIDE DEF All
    <3> QED BY <3>1 DEF Range
  <2>5. All \notin Repositories BY DEF All, Word, Repositories
  <2> QED BY <1>1, <2>1, <2>2, <2>3, <2>4, <2>5 DEF Canonical
<1>2. ASSUME NEW s, NEW t, NEW w, NEW z, Tells(s, w), Tells(t, z), ~s.all, ~t.all, w = z,
             NEW r \in s.repositories
      PROVE  r \in t.repositories
  <2>1. /\ s.repositories \in SUBSET Repositories
        /\ \A q \in s.repositories: ~q.capitals
        /\ w.repositories = {<<q.owner, q.name>>: q \in s.repositories}
    BY <1>2 DEF Tells
  <2>2. /\ t.repositories \in SUBSET Repositories
        /\ \A q \in t.repositories: ~q.capitals
        /\ z.repositories = {<<q.owner, q.name>>: q \in t.repositories}
    BY <1>2 DEF Tells
  <2>3. PICK q \in t.repositories: <<r.owner, r.name>> = <<q.owner, q.name>>
    <3>1. <<r.owner, r.name>> \in w.repositories BY <1>2, <2>1
    <3>2. <<r.owner, r.name>> \in z.repositories BY <1>2, <3>1
    <3> QED BY <2>2, <3>2
  <2>4. r.owner = q.owner /\ r.name = q.name BY <2>3
  <2> QED BY <1>2, <2>1, <2>2, <2>4, SameRepository
<1>3. CASE one.all /\ other.all
  <2>1. x = AllScope /\ y = AllScope BY <1>3 DEF Tells
  <2> QED BY <1>3, <2>1 DEF Canonical
<1>4. CASE one.all /\ ~other.all
  <2>1. x.all = TRUE BY <1>4 DEF Tells, AllScope
  <2>2. y.all = FALSE /\ Canonical(one) # Canonical(other) BY <1>1, <1>4
  <2> QED BY <2>1, <2>2
<1>5. CASE ~one.all /\ other.all
  <2>1. y.all = TRUE BY <1>5 DEF Tells, AllScope
  <2>2. x.all = FALSE /\ Canonical(other) # Canonical(one) BY <1>1, <1>5
  <2> QED BY <2>1, <2>2
<1>6. CASE ~one.all /\ ~other.all
  <2>1. /\ one.repositories \in SUBSET Repositories /\ IsFiniteSet(one.repositories)
        /\ x = [all |-> FALSE, repositories |-> {<<r.owner, r.name>>: r \in one.repositories}]
        /\ other.repositories \in SUBSET Repositories /\ IsFiniteSet(other.repositories)
        /\ y = [all |-> FALSE, repositories |-> {<<r.owner, r.name>>: r \in other.repositories}]
    BY <1>6 DEF Tells
  <2>2. x = y => one.repositories = other.repositories
    <3>1. x = y => one.repositories \subseteq other.repositories BY <1>2, <1>6
    <3>2. x = y => other.repositories \subseteq one.repositories BY <1>2, <1>6
    <3> QED BY <3>1, <3>2
  <2>3. InOrder(one.repositories) = InOrder(other.repositories)
          <=> one.repositories = other.repositories
    BY <2>1, InOrderTells
  <2> QED BY <1>6, <2>1, <2>2, <2>3 DEF Canonical
<1> QED BY <1>3, <1>4, <1>5, <1>6

\* GitHub is sent as many names as there are repositories: they are of one owner.
LEMMA NamesCount ==
    ASSUME NEW selection, NEW scope, Tells(selection, scope)
    PROVE  Cardinality(RepositoryNames(selection)) = Cardinality(selection.repositories)
<1> DEFINE R == selection.repositories
           f == [r \in R |-> r.name]
<1>1. IsFiniteSet(R) /\ R \in SUBSET Repositories BY FS_EmptySet DEF Tells
<1>2. \A r, s \in R: r.name = s.name => r = s
  <2> SUFFICES ASSUME NEW r \in R, NEW s \in R, r.name = s.name PROVE r = s OBVIOUS
  <2>1. r.owner = s.owner /\ ~r.capitals /\ ~s.capitals BY DEF Tells
  <2> QED BY <1>1, <2>1, SameRepository
<1>3. f \in Bijection(R, RepositoryNames(selection))
  <2>1. f \in [R -> RepositoryNames(selection)] BY DEF RepositoryNames
  <2>2. IsInjective(f) BY <1>2 DEF IsInjective
  <2>3. \A n \in RepositoryNames(selection): \E r \in R: f[r] = n BY DEF RepositoryNames
  <2> HIDE DEF f, R
  <2> QED BY <2>1, <2>2, <2>3 DEF Bijection, Injection, Surjection
<1> HIDE DEF f, R
<1>4. ExistsBijection(R, RepositoryNames(selection)) BY <1>3 DEF ExistsBijection
<1>5. Cardinality(RepositoryNames(selection)) = Cardinality(R) BY <1>1, <1>4, FS_Bijection
<1> QED BY <1>5 DEF R

\* What is asked for with these arguments: all that an app has, or the scope of a
\* list.
AskedScope(config, arguments, remote) ==
    LET name == ResolveProfileName(arguments.profile, arguments.env, config)
    IN  IF config.profile[name].kind = "app" THEN AllScope
        ELSE Scope(Words(arguments.repo, config.profile[name].repo), remote)

\* A request that is not refused is for the profile it names, and its selection
\* tells what was asked for.
LEMMA RequestTells ==
    ASSUME NEW config, IsConfig(config), Valid(config),
           NEW arguments \in AnyArguments, NEW remote \in AnyRemote,
           Request(config, arguments, remote).error = "none"
    PROVE  LET request == Request(config, arguments, remote)
           IN  /\ request.profile = ResolveProfileName(arguments.profile, arguments.env, config)
               /\ Tells(request.selection, AskedScope(config, arguments, remote))
<1> DEFINE request == Request(config, arguments, remote)
           name == ResolveProfileName(arguments.profile, arguments.env, config)
           profile == config.profile[name]
           source == IF profile.kind = "app" THEN name ELSE profile.source
           app == config.profile[source]
           words == Words(arguments.repo, profile.repo)
           selection == Resolve(words, app.account, remote)
<1>1. /\ app \in AnyProfile /\ app.kind = "app"
      /\ words \in Seq(AnyWord)
      /\ request.profile = name
      /\ request.error = request.selection.error
      /\ request.selection = IF profile.kind = "app" THEN [Unselected EXCEPT !.all = TRUE]
                             ELSE selection
  <2>1. request.error \notin UserErrors BY DEF UserErrors
  <2> QED BY <2>1, RequestFits
<1>2. app.account \in Nat
  <2> HIDE DEF app
  <2> QED BY <1>1 DEF AnyProfile
<1>3. AskedScope(config, arguments, remote)
        = IF profile.kind = "app" THEN AllScope ELSE Scope(words, remote)
  BY DEF AskedScope
<1>4. CASE profile.kind = "app"
  <2>1. request.selection.all /\ request.selection.repositories = {}
    <3> HIDE DEF request, profile
    <3> QED BY <1>1, <1>4 DEF Unselected
  <2> HIDE DEF request, profile, words, name
  <2> QED BY <1>1, <1>3, <1>4, <2>1 DEF Tells, request, name
<1>5. CASE profile.kind # "app"
  <2>1. request.selection = selection BY <1>1, <1>5
  <2>2. selection.error = "none" BY <1>1, <2>1
  <2>3. Tells(selection, Scope(words, remote))
    <3> HIDE DEF words, app
    <3> QED BY <1>1, <1>2, <2>2, ResolutionTells DEF selection
  <2> HIDE DEF selection, profile, words, app
  <2> QED BY <1>1, <1>3, <1>5, <2>1, <2>3
<1> QED BY <1>4, <1>5

\* Two `ghst token` share a cached token exactly when they are for one profile and
\* one scope, and GitHub is sent as many names as there are repositories
\* (compute_cache_key, canonical, repository_names).
THEOREM KeysAreScopes == Spec => []OneKeyPerScope
<1>1. ASSUME ConfigInv PROVE OneKeyPerScope
  <2>1. ASSUME NEW c \in Commands, outcome[c] = "requested"
        PROVE  Tells(Answer(loaded[c], asked[c]).selection, ScopeOf(c))
    <3>1. /\ IsConfig(loaded[c]) /\ Valid(loaded[c])
          /\ Answer(loaded[c], asked[c]).error = "none"
      BY <1>1, <2>1 DEF ConfigInv, AnswersFit, Answered
    <3>2. asked[c].arguments \in AnyArguments /\ asked[c].remote \in AnyRemote
      BY <1>1 DEF ConfigInv, TypeOK, ProcessesOK
    <3>3. /\ Answer(loaded[c], asked[c]).profile
               = ResolveProfileName(asked[c].arguments.profile, asked[c].arguments.env, loaded[c])
          /\ Tells(Answer(loaded[c], asked[c]).selection,
                   AskedScope(loaded[c], asked[c].arguments, asked[c].remote))
      BY <3>1, <3>2, RequestTells DEF Answer
    <3>4. ScopeOf(c) = AskedScope(loaded[c], asked[c].arguments, asked[c].remote)
      BY <3>3 DEF ScopeOf, AskedScope, AskedWords
    <3> QED BY <3>3, <3>4
  <2>2. ASSUME NEW c \in Commands, outcome[c] = "requested",
               NEW d \in Commands, outcome[d] = "requested"
        PROVE  LET mine == Answer(loaded[c], asked[c])
                   theirs == Answer(loaded[d], asked[d])
               IN  /\ CacheKey(mine) = CacheKey(theirs)
                        <=> mine.profile = theirs.profile /\ ScopeOf(c) = ScopeOf(d)
                   /\ Cardinality(RepositoryNames(mine.selection))
                        = Cardinality(mine.selection.repositories)
    <3> DEFINE mine == Answer(loaded[c], asked[c])
               theirs == Answer(loaded[d], asked[d])
    <3>1. Tells(mine.selection, ScopeOf(c)) /\ Tells(theirs.selection, ScopeOf(d)) BY <2>1, <2>2
    <3> HIDE DEF mine, theirs
    <3>2. Canonical(mine.selection) = Canonical(theirs.selection) <=> ScopeOf(c) = ScopeOf(d)
      BY <3>1, KeysTell
    <3>3. CacheKey(mine) = CacheKey(theirs)
            <=> /\ mine.profile = theirs.profile
                /\ Canonical(mine.selection) = Canonical(theirs.selection)
      BY DEF CacheKey
    <3>4. Cardinality(RepositoryNames(mine.selection)) = Cardinality(mine.selection.repositories)
      BY <3>1, NamesCount
    <3> QED BY <3>2, <3>3, <3>4 DEF mine, theirs
  <2> QED BY <2>2 DEF OneKeyPerScope
<1> QED BY <1>1, ConfigInvariant, PTL
=============================================================================
