------------------------------ MODULE MCWebRuns ------------------------------
(***************************************************************************)
(* One run and three streams over two threads: two take events from each   *)
(* other, and one has to wait for a thread and may be alone later.  One    *)
(* row of the command line, and one restart.                               *)
(***************************************************************************)
EXTENDS WebRuns
==============================================================================
