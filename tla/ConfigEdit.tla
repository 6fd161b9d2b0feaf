------------------------------ MODULE ConfigEdit ------------------------------
(***************************************************************************)
(* `ghst edit`: it creates the configuration or finds it, repairs its mode *)
(* through a descriptor, runs the user's editor, repairs the mode again,   *)
(* and loads what is there.  Meanwhile other editors, started by other     *)
(* `ghst edit` processes, save the same file, in place or by replacing it. *)
(***************************************************************************)
EXTENDS ConfigFile

Continue(p, operation) == pc' = [pc EXCEPT ![p] = operation]

End(p, result) ==
    /\ Continue(p, "done")
    /\ outcome' = [outcome EXCEPT ![p] = result]
    /\ fd' = [fd EXCEPT ![p] = NoFile]

\* The path cannot be resolved, a file operation fails, or no editor is found or
\* launched.
Fails(p) ==
    /\ pc[p] \notin {"editing", "done"}
    /\ End(p, "failed")
    /\ UNCHANGED <<fileVars, exit, touched>>

-----------------------------------------------------------------------------
\* run_edit without --init: the configuration must exist.
StartEdit(e) ==
    /\ pc[e] = "start"
    /\ IF Exists THEN Continue(e, "enforce") /\ UNCHANGED <<outcome, fd>>
       ELSE End(e, "failed")
    /\ UNCHANGED <<fileVars, exit, touched>>

\* initialize: ensure_config_parent, and a look for the configuration.
StartInit(e) ==
    /\ pc[e] = "start"
    /\ directory' = IF managed \/ directory = "missing" THEN "private" ELSE directory
    /\ Continue(e, IF Exists THEN "enforce" ELSE "publish")
    /\ UNCHANGED <<managed, inodes, path, fd, exit, outcome, touched>>

\* Mutant: the template is renamed over whatever has the name by now.
PublishReplacing(e) ==
    /\ pc[e] = "publish"
    /\ Create(Inode(Template, TRUE, TRUE))
    /\ \/ Continue(e, "enforce") /\ UNCHANGED <<outcome, fd>>
       \/ End(e, "failed")
    /\ UNCHANGED <<managed, directory, exit, touched>>

\* publish_if_absent: the template takes the name if it is free, and the sync
\* of the directory may fail after that; if it is taken, nothing changes.
Publish(e) ==
    /\ pc[e] = "publish"
    /\ IF Exists THEN Continue(e, "enforce") /\ UNCHANGED <<inodes, path, outcome, fd>>
       ELSE /\ Create(Inode(Template, TRUE, TRUE))
            /\ \/ Continue(e, "enforce") /\ UNCHANGED <<outcome, fd>>
               \/ End(e, "failed")
    /\ UNCHANGED <<managed, directory, exit, touched>>

\* Mutant: nothing is repaired, and nothing refused, where no file has the name.
OpenForRepairIfAny(e) ==
    /\ pc[e] \in {"enforce", "enforce_again"}
    /\ directory' = IF managed /\ directory # "missing" THEN "private" ELSE directory
    /\ IF Exists => Own(path)
       THEN /\ fd' = [fd EXCEPT ![e] = path]
            /\ Continue(e, IF pc[e] = "enforce" THEN "repair" ELSE "repair_again")
            /\ UNCHANGED outcome
       ELSE End(e, "failed")
    /\ UNCHANGED <<managed, inodes, path, exit, touched>>

\* enforce_permissions: the directory first, if it is ghst's, then the file
\* that has the name now; what is not the user's own file is refused.
OpenForRepair(e) ==
    /\ pc[e] \in {"enforce", "enforce_again"}
    /\ directory' = IF managed /\ directory # "missing" THEN "private" ELSE directory
    /\ IF Exists /\ Own(path)
       THEN /\ fd' = [fd EXCEPT ![e] = path]
            /\ Continue(e, IF pc[e] = "enforce" THEN "repair" ELSE "repair_again")
            /\ UNCHANGED outcome
       ELSE End(e, "failed")
    /\ UNCHANGED <<managed, inodes, path, exit, touched>>

\* Mutant: a failed editor ends the command before the mode is repaired.
RepairUnlessFailed(e) ==
    /\ pc[e] \in {"repair", "repair_again"}
    /\ inodes' = IF pc[e] = "repair_again" /\ ~exit[e] THEN inodes
                 ELSE [inodes EXCEPT ![fd[e]].private = TRUE]
    /\ IF pc[e] = "repair" THEN Continue(e, "edit") /\ UNCHANGED <<outcome, fd>>
       ELSE IF exit[e] THEN Continue(e, "load") /\ UNCHANGED <<outcome, fd>>
       ELSE End(e, "editor_failed")
    /\ UNCHANGED <<managed, directory, path, exit, touched>>

\* repair_file_permissions_descriptor: the open file becomes 0600.  After the
\* editor, its exit status is looked at only now.
Repair(e) ==
    /\ pc[e] \in {"repair", "repair_again"}
    /\ inodes' = [inodes EXCEPT ![fd[e]].private = TRUE]
    /\ IF pc[e] = "repair" THEN Continue(e, "edit") /\ UNCHANGED <<outcome, fd>>
       ELSE IF exit[e] THEN Continue(e, "load") /\ UNCHANGED <<outcome, fd>>
       ELSE End(e, "editor_failed")
    /\ UNCHANGED <<managed, directory, path, exit, touched>>

-----------------------------------------------------------------------------
(***************************************************************************)
(* The user's editor: it truncates and rewrites the file, part by part, or *)
(* replaces it by another, with the mode of its umask, perhaps a link.     *)
(***************************************************************************)
LaunchEditor(e) ==
    /\ pc[e] = "edit"
    /\ Continue(e, "editing")
    /\ UNCHANGED <<fileVars, fd, exit, outcome, touched>>

Save(e) ==
    /\ pc[e] = "editing"
    /\ \/ /\ Exists
          /\ \E content \in Contents: inodes' = [inodes EXCEPT ![path].content = content]
          /\ UNCHANGED path
       \/ \E content \in Contents, private, own \in BOOLEAN: Create(Inode(content, private, own))
       \/ Exists /\ path' = NoFile /\ UNCHANGED inodes
    /\ touched' = Editors
    /\ UNCHANGED <<managed, directory, fd, pc, exit, outcome>>

EditorExits(e) ==
    /\ pc[e] = "editing"
    /\ \E ok \in BOOLEAN: exit' = [exit EXCEPT ![e] = ok]
    /\ touched' = touched \ {e}
    /\ Continue(e, "enforce_again")
    /\ UNCHANGED <<fileVars, fd, outcome>>

-----------------------------------------------------------------------------
\* load: the file is opened and checked.
OpenConfig(p) ==
    /\ pc[p] = "load"
    /\ IF Openable
       THEN fd' = [fd EXCEPT ![p] = path] /\ Continue(p, "read") /\ UNCHANGED outcome
       ELSE End(p, "failed")
    /\ UNCHANGED <<fileVars, exit, touched>>

\* "Configuration is valid."
ReadEdited(e) ==
    /\ pc[e] = "read"
    /\ End(e, IF Valid(inodes[fd[e]].content) THEN "valid" ELSE "failed")
    /\ UNCHANGED <<fileVars, exit, touched>>

EditStep(e) ==
    \/ StartEdit(e) \/ StartInit(e) \/ Publish(e)
    \/ OpenForRepair(e) \/ Repair(e)
    \/ LaunchEditor(e) \/ Save(e) \/ EditorExits(e)
    \/ OpenConfig(e) \/ ReadEdited(e) \/ Fails(e)
=============================================================================
