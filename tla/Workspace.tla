----------------------------- MODULE Workspace -----------------------------
(***************************************************************************)
(* read_file and write_file (tools/builtins/file_tools.py) on the shared   *)
(* workspace, with the read marks of tools/read_before_write.py.  Marks    *)
(* live in the memory of a process and are shared by all its runs.         *)
(*                                                                         *)
(* A write is three steps: it hashes what is there and checks the mark, it *)
(* opens the file, which empties it, and it writes.  Between them other    *)
(* processes and the user's editor go on; a process may die or the disk    *)
(* may be full, which leaves the file torn.  A content is its own hash.    *)
(***************************************************************************)
EXTENDS ToolRegistry

CONSTANTS
    Files,
    Texts,      \* what a file can hold
    Long,       \* those above MAX_BYTES
    Unsafe      \* paths that lead out of the workspace

Absent == "absent"
Torn == "torn"          \* emptied or half written
Binary == "binary"      \* holds a NUL byte
Folder == "folder"
NoMark == "unread"
NoWrite == [at |-> "none"]

Contents == Texts \cup {Absent, Torn, Binary, Folder}

ASSUME WorkspaceAssumption ==
    /\ Files \cap Unsafe = {} /\ Long \subseteq Texts
    /\ Texts \cap {Absent, Torn, Binary, Folder} = {}

VARIABLES
    files,      \* path -> content
    marks,      \* process -> path -> hash of what its last read_file found
    writing     \* process -> the write_file it is in

workspaceVars == <<files, marks, writing>>

WorkspaceTypeOK ==
    /\ files \in [Files -> Contents]
    /\ marks \in [Processes -> [Files -> Texts \cup {Torn, NoMark}]]
    /\ \A p \in Processes :
        writing[p] # NoWrite => /\ ~Idle(p)
                                /\ writing[p] \in [at : {"checked", "emptied"}, file : Files,
                                                   text : Texts \ Long]

Exists(f) == files[f] # Absent

\* The workspace policy raises, and _path_error_result says to stop.
Escapes(f) == f \in Unsafe

\* The mark policy of a process that starts.
NoMarks == [f \in Files |-> NoMark]

----------------------------------------------------------------------------
(* ReadFileTool.execute *)

\* The mark is the hash of the whole file, also when the text that is returned was
\* cut at MAX_BYTES (file_tools.py:135-151): the caller may not have seen it all.
Stamp(p, f) == marks' = [marks EXCEPT ![p][f] = files[f]]

ReadFile(p, f) ==
    /\ Idle(p)
    /\ UNCHANGED <<files, writing>>
    /\ \/ Escapes(f) /\ Returns(p, "stop") /\ UNCHANGED marks
       \/ /\ f \in Files /\ files[f] \in {Absent, Folder}
          /\ Returns(p, "retry") /\ UNCHANGED marks
       \/ /\ f \in Files /\ files[f] = Binary
          /\ Returns(p, "stop") /\ UNCHANGED marks
       \/ /\ f \in Files /\ files[f] \in Texts \cup {Torn}
          /\ \/ Stamp(p, f) /\ Returns(p, "success")
             \/ Returns(p, "manual_review") /\ UNCHANGED marks    \* OSError

----------------------------------------------------------------------------
(* WriteFileTool *)

\* plan_side_effects raises on what execute would refuse anyway.
WriteIntents(f, text) ==
    IF Escapes(f) \/ text \in Long THEN {NoPlan}
    ELSE IF files[f] = Folder THEN {NoPlan} ELSE {f}

\* ReadBeforeWritePolicy.check_write
MayWrite(p, f) == Exists(f) => marks[p][f] = files[f]

\* execute_with_context and execute up to the write.
WriteFile(p, f, text) ==
    /\ Idle(p)
    /\ UNCHANGED <<files, marks>>
    /\ \/ /\ files[f] = text                \* an idempotent replay
          /\ Returns(p, "success") /\ UNCHANGED writing
       \/ /\ files[f] \notin {text, Folder} /\ ~MayWrite(p, f)
          /\ Returns(p, "read_before_write") /\ UNCHANGED writing
       \/ /\ files[f] \notin {text, Folder} /\ MayWrite(p, f)
          /\ CallBegins(p)
          /\ writing' = [writing EXCEPT ![p] =
                [at |-> "checked", file |-> f, text |-> text]]

\* write_bytes opens the file, whatever it holds by now...
WriteEmpties(p) ==
    /\ writing[p].at = "checked"
    /\ files' = [files EXCEPT ![writing[p].file] = Torn]
    /\ writing' = [writing EXCEPT ![p].at = "emptied"]
    /\ UNCHANGED <<outcome, marks>>

\* ...and fills it.  The mark is not moved: a second write must read first.
WriteFills(p) ==
    /\ writing[p].at = "emptied"
    /\ files' = [files EXCEPT ![writing[p].file] = writing[p].text]
    /\ writing' = [writing EXCEPT ![p] = NoWrite]
    /\ Returns(p, "success")
    /\ UNCHANGED marks

\* OSError from mkdir, open or write.
WriteFails(p) ==
    /\ writing[p] # NoWrite
    /\ writing' = [writing EXCEPT ![p] = NoWrite]
    /\ Returns(p, "manual_review")
    /\ UNCHANGED <<files, marks>>

----------------------------------------------------------------------------
\* The user saves the file in an editor, or deletes it.
EditFile(f, text) ==
    /\ files[f] \notin {text, Binary, Folder}
    /\ files' = [files EXCEPT ![f] = text]
    /\ UNCHANGED <<marks, writing, outcome>>

WorkspaceRestarts(p) ==
    /\ marks' = [marks EXCEPT ![p] = NoMarks]
    /\ writing' = [writing EXCEPT ![p] = NoWrite]
    /\ UNCHANGED files
=============================================================================
