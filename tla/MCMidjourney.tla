---------------------------- MODULE MCMidjourney ----------------------------
(***************************************************************************)
(* Instances of Midjourney for TLC.  The polling loops are alike.          *)
(***************************************************************************)
EXTENDS Midjourney

CONSTANTS p1, p2   \* two processes that poll

OnePoller == {p1}
TwoPollers == {p1, p2}

=============================================================================
