--------------------------- MODULE MCTaskDispatch ---------------------------
(***************************************************************************)
(* TLC instances of TaskDispatch: the loop, one submitter, one cleanup.    *)
(***************************************************************************)
EXTENDS TaskDispatch

MCWorkers == {"loop"} \cup Submitters
=============================================================================
