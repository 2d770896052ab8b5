---------------------------- MODULE MCTaskReplay ----------------------------
(***************************************************************************)
(* TLC instance of TaskReplay: one polling loop, one task.                 *)
(***************************************************************************)
EXTENDS TaskReplay

MCWorkers == {"loop"}
=============================================================================
