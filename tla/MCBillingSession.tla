-------------------------- MODULE MCBillingSession --------------------------
(***************************************************************************)
(* Instances of BillingSession for TLC.                                    *)
(***************************************************************************)
EXTENDS BillingSession
=============================================================================
