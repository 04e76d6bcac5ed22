------------------------------ MODULE ToolFiles ------------------------------
(***************************************************************************)
(* The files of run_tool (_execute_with_timeout in runner/service.py): the *)
(* tool works in a temporary directory that has the .scad files of the     *)
(* workspace, and what it made or changed is copied back.  The calls of    *)
(* one job follow each other, with WRITE_FILE actions in between.          *)
(*                                                                         *)
(* The content of a file, and with it its size and mtime, is the number of *)
(* the write it comes from; 0 means that there is no such file.            *)
(***************************************************************************)
EXTENDS Integers

CONSTANTS
  Paths,                \* relative paths
  Scad,                 \* those that end in .scad
  NoPath,               \* there is no -o
  MaxWrites             \* bound on writes

ASSUME FilesAssumption ==
  /\ Scad \subseteq Paths
  /\ NoPath \notin Paths
  /\ MaxWrites \in Nat

VARIABLES
  workspace,
  tmp,                  \* the temporary directory
  before,               \* before_snapshot
  output_file,          \* output_file_path
  todo,                 \* results that are still to be copied
  stage,                \* where the call is
  ending,               \* what it returned or raised
  start,                \* the workspace when the call began
  writes

fileVars == <<workspace, tmp, before, output_file, todo, stage, ending, start, writes>>

Empty == [p \in Paths |-> 0]

FilesInit ==
  /\ workspace = Empty
  /\ tmp = Empty /\ before = Empty /\ start = Empty
  /\ output_file = NoPath
  /\ todo = {}
  /\ stage = "idle"
  /\ ending = "none"
  /\ writes = 0

\* A write of something new.
Write == /\ writes < MaxWrites
         /\ writes' = writes + 1

\* WRITE_FILE, an action between two calls.
WriteFile(p) ==
  /\ stage = "idle"
  /\ Write
  /\ workspace' = [workspace EXCEPT ![p] = writes']
  /\ UNCHANGED <<tmp, before, output_file, todo, stage, ending, start>>

-----------------------------------------------------------------------------
\* The call is over, and the temporary directory is gone.
Return(res) ==
  /\ stage' = "returned"
  /\ ending' = res

\* Up to the launch: the .scad files are copied, the parent of the path after
\* the first -o is made, and the snapshot is taken.  A path that is absolute or
\* goes up, and an error of the file system, end the call here.
Prepare ==
  /\ stage = "idle"
  /\ start' = workspace
  /\ \/ /\ \E o \in Paths \cup {NoPath} : output_file' = o
        /\ tmp' = [p \in Paths |-> IF p \in Scad THEN workspace[p] ELSE 0]
        /\ before' = tmp'
        /\ stage' = "tool"
        /\ UNCHANGED ending
     \/ /\ output_file' = NoPath
        /\ \E res \in {"argument", "other"} : Return(res)
        /\ UNCHANGED <<tmp, before>>
  /\ UNCHANGED <<workspace, todo, writes>>

\* The tool makes, changes or removes any file of its directory.
ToolWrites(p) ==
  /\ stage = "tool"
  /\ \/ Write /\ tmp' = [tmp EXCEPT ![p] = writes']
     \/ tmp[p] # 0 /\ tmp' = [tmp EXCEPT ![p] = 0] /\ UNCHANGED writes
  /\ UNCHANGED <<workspace, before, output_file, todo, stage, ending, start>>

\* Seeded fault: only files that are new count as results.
Results_New == {p \in Paths : tmp[p] # 0 /\ before[p] = 0}

\* is_new_or_modified, of the files that are there.
Results == {p \in Paths : tmp[p] # 0 /\ tmp[p] # before[p]}

\* The tool fails, or runs into the deadline, or exits with zero.
ToolEnds ==
  /\ stage = "tool"
  /\ \/ Return("failed") /\ UNCHANGED todo
     \/ stage' = "copy" /\ todo' = Results /\ UNCHANGED ending
  /\ UNCHANGED <<workspace, tmp, before, output_file, start, writes>>

\* Seeded fault: the snapshot, which has .scad files only, is asked what exists.
Denied_Snapshot(p) == before[p] # 0 /\ p # output_file

\* The file exists in the workspace and is not the output that was asked for.
Denied(p) == workspace[p] # 0 /\ p # output_file

\* One result, in the order of glob.  A copy that breaks off leaves something in
\* the target.
CopyBack(p) ==
  /\ stage = "copy" /\ p \in todo
  /\ \/ /\ Denied(p)
        /\ Return("denied")
        /\ UNCHANGED <<workspace, todo, writes>>
     \/ /\ ~ Denied(p)
        /\ workspace' = [workspace EXCEPT ![p] = tmp[p]]
        /\ todo' = todo \ {p}
        /\ UNCHANGED <<stage, ending, writes>>
     \/ /\ ~ Denied(p)
        /\ Write
        /\ workspace' = [workspace EXCEPT ![p] = writes']
        /\ Return("other")
        /\ UNCHANGED todo
  /\ UNCHANGED <<tmp, before, output_file, start>>

CopiedBack ==
  /\ stage = "copy" /\ todo = {}
  /\ Return("ok")
  /\ UNCHANGED <<workspace, tmp, before, output_file, todo, start, writes>>

\* The executor goes on with the next action of the plan.
NextAction ==
  /\ stage = "returned" /\ ending = "ok"
  /\ stage' = "idle"
  /\ ending' = "none"
  /\ UNCHANGED <<workspace, tmp, before, output_file, todo, start, writes>>

FilesNext ==
  \/ Prepare \/ ToolEnds \/ CopiedBack \/ NextAction
  \/ \E p \in Paths : WriteFile(p) \/ ToolWrites(p) \/ CopyBack(p)

FilesSpec == FilesInit /\ [][FilesNext]_fileVars

-----------------------------------------------------------------------------
(* Properties.                                                             *)

Contents == [Paths -> 0 .. MaxWrites]

\* Directories hold contents that were written, and results are files that exist.
FilesTypeOK ==
  /\ workspace \in Contents /\ tmp \in Contents /\ before \in Contents /\ start \in Contents
  /\ output_file \in Paths \cup {NoPath}
  /\ todo \in SUBSET {p \in Paths : tmp[p] # 0}
  /\ stage \in {"idle", "tool", "copy", "returned"}
  /\ ending \in {"none", "ok", "argument", "failed", "denied", "other"}
  /\ writes \in 0 .. MaxWrites

\* A call changes no file that was in the workspace before, apart from the output
\* it was asked for: not when the tool writes all over its directory, not when
\* the copying is refused or breaks off after some files.
OtherFilesKept ==
  stage # "idle" => \A p \in Paths : start[p] # 0 /\ p # output_file => workspace[p] = start[p]

\* A call that succeeds has brought back all that the tool made or changed, and
\* every other file of the workspace is as it was.
SuccessBringsAll ==
  stage = "returned" /\ ending = "ok" =>
    \A p \in Paths : workspace[p] = IF tmp[p] # 0 /\ tmp[p] # before[p] THEN tmp[p] ELSE start[p]
=============================================================================
