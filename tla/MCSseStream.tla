---------------------------- MODULE MCSseStream -----------------------------
(* SseStream for TLC.  Clients are not declared symmetric, since liveness  *)
(* is checked.                                                             *)
EXTENDS SseStream
=============================================================================
