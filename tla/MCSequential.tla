---------------------------- MODULE MCSequential ----------------------------
(***************************************************************************)
(* The four sequential parts of an attempt in one model: what the next     *)
(* attempt is told, the scan of a .scad file, the files of a tool, and the *)
(* drain of a pipe.  They share no variables; a behaviour explores one of  *)
(* them from all its initial states, with the others at rest.              *)
(***************************************************************************)
EXTENDS RetryFeedback, ScadMask, ToolFiles, LineDrain

VARIABLE part

\* All texts of up to five characters.
ShortTexts == UNION {[1 .. n -> Chars] : n \in 0 .. 5}

PartsInit ==
  /\ part \in {"feedback", "scan", "files", "drain"}
  /\ Init
  /\ FilesInit
  /\ IF part = "scan" THEN ScanInit
     ELSE content = <<>> /\ mask_strings = FALSE /\ i = 1 /\ state = "normal" /\ result = <<>>
  /\ IF part = "drain" THEN DrainInit
     ELSE stream = <<>> /\ read = 0 /\ buffer = <<>> /\ rows = <<>> /\ tail = <<>> /\ done = FALSE

PartsNext ==
  \/ part = "feedback" /\ Next /\ UNCHANGED <<part, scanVars, fileVars, drainVars>>
  \/ part = "scan" /\ ScanNext /\ UNCHANGED <<part, vars, fileVars, drainVars>>
  \/ part = "files" /\ FilesNext /\ UNCHANGED <<part, vars, scanVars, drainVars>>
  \/ part = "drain" /\ DrainNext /\ UNCHANGED <<part, vars, scanVars, fileVars>>

PartsSpec == PartsInit /\ [][PartsNext]_<<part, vars, scanVars, fileVars, drainVars>>
=============================================================================
