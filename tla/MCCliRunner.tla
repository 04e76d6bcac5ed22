---------------------------- MODULE MCCliRunner -----------------------------
(* CliRunner for TLC.  Calls and streams are not declared symmetric, since *)
(* liveness is checked.                                                    *)
EXTENDS CliRunner
=============================================================================
