---------------------------- MODULE Reservation ----------------------------
(***************************************************************************)
(* What a billing session promises, without its flags and retries: a       *)
(* reservation with a funding side and a token side that is opened,        *)
(* adjusted while the request runs, and ends either charged or given back. *)
(* BillingSession implements it.                                           *)
(***************************************************************************)
EXTENDS Integers

VARIABLES phase, fundingHeld, tokenHeld

resVars == <<phase, fundingHeld, tokenHeld>>

ResInit == phase = "opening" /\ fundingHeld = 0 /\ tokenHeld = 0

\* Before the session exists only the token side can be held; a refused
\* request is closed with nothing held.
Reserve ==
  /\ phase = "opening" /\ phase' = "opening"
  /\ fundingHeld' = 0 /\ tokenHeld' \in Nat

Refuse ==
  /\ phase = "opening" /\ phase' = "closed"
  /\ fundingHeld' = 0 /\ tokenHeld' = 0

Open ==
  /\ phase = "opening" /\ phase' = "active"
  /\ fundingHeld' \in Nat /\ UNCHANGED tokenHeld

\* While the request runs the two sides may differ.
Adjust ==
  /\ phase = "active" /\ phase' = "active"
  /\ fundingHeld' \in Nat /\ tokenHeld' \in Nat

\* A charge is the same on both sides, or spares the token.
Charge ==
  /\ phase = "active" /\ phase' = "charged"
  /\ fundingHeld' \in Nat /\ tokenHeld' \in {0, fundingHeld'}

BeginReturn ==
  /\ phase = "active" /\ phase' = "returning"
  /\ UNCHANGED <<fundingHeld, tokenHeld>>

\* A side is given back whole, and never taken again.
ReturnFunding ==
  /\ phase \in {"charged", "returning"}
  /\ fundingHeld' = 0 /\ UNCHANGED <<phase, tokenHeld>>

ReturnToken ==
  /\ phase \in {"charged", "returning"}
  /\ tokenHeld' = 0 /\ UNCHANGED <<phase, fundingHeld>>

Close ==
  /\ phase \in {"charged", "returning"} /\ phase' = "closed"
  /\ fundingHeld = 0 /\ tokenHeld = 0
  /\ UNCHANGED <<fundingHeld, tokenHeld>>

ResNext ==
  \/ Reserve \/ Refuse \/ Open \/ Adjust \/ Charge
  \/ BeginReturn \/ ReturnFunding \/ ReturnToken \/ Close

ResSpec == ResInit /\ [][ResNext]_resVars
=============================================================================
