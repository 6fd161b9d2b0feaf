------------------------------ MODULE ConfigFile ------------------------------
(***************************************************************************)
(* profiles.toml as a file: a name in a directory, and the files that have *)
(* that name one after another.  A process that opened the file keeps it,  *)
(* whatever becomes of the name.                                           *)
(***************************************************************************)
EXTENDS ConfigRules

CONSTANTS
    Editors,   \* `ghst edit` processes
    Commands,  \* commands that load the configuration
    Contents,  \* configurations that a user may save
    MaxFiles   \* bound on the files that ever had the name

ASSUME ProcsAssumption    == Editors \intersect Commands = {}
ASSUME ContentsAssumption == \A content \in Contents: IsConfig(content)
ASSUME MaxFilesAssumption == MaxFiles \in Nat \ {0}

Procs == Editors \union Commands

VARIABLES
    managed,    \* whether the location is the default one, in a directory of ghst's
    directory,  \* "missing", "open" or "private"
    inodes,     \* the files, in order of creation
    path,       \* the file that has the name, or NoFile
    fd,         \* process -> the file it has open
    pc,         \* process -> its next operation
    exit,       \* editor -> whether the user's editor succeeded
    outcome,    \* process -> how it ended
    touched     \* history: editors whose file was saved over since their editor exited

fileVars == <<managed, directory, inodes, path>>
vars == <<fileVars, fd, pc, exit, outcome, touched>>

NoFile == 0

\* What a file holds, whether its mode is 0600, and whether it is a regular file
\* of the user with one link.
Inode(content, private, own) == [content |-> content, private |-> private, own |-> own]

IsInode(inode) ==
    /\ inode = Inode(inode.content, inode.private, inode.own)
    /\ IsConfig(inode.content) /\ inode.private \in BOOLEAN /\ inode.own \in BOOLEAN

\* STARTER_TEMPLATE: an app profile 1, and profile 2 scoped to it by default.
Template ==
    [version |-> 1, default |-> 2,
     profile |-> <<App(1, "set", "set"), Scoped(1, <<AutoWord>>, {"write"})>>]

\* symlink_exists
Exists == path # NoFile

\* validate_file_identity, validate_file_metadata
Own(f) == inodes[f].own
Private(f) == inodes[f].own /\ inodes[f].private

\* validate_dir_metadata, for a directory of ghst's.
DirectoryUsable == managed => directory = "private"

\* open_private_dir, open_private_child, open_private_file: the file that has
\* the name is open and was private when it was opened.
Openable == DirectoryUsable /\ Exists /\ Private(path)

\* A new file takes the name.
Create(inode) ==
    /\ Len(inodes) < MaxFiles
    /\ inodes' = Append(inodes, inode)
    /\ path' = Len(inodes) + 1
=============================================================================
