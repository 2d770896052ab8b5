--------------------------- MODULE MCTaskRealtime ---------------------------
(***************************************************************************)
(* TLC instances of TaskRealtime: the loop and one user's fetches.         *)
(***************************************************************************)
EXTENDS TaskRealtime

MCWorkers == {"loop", "fetch"}
=============================================================================
