---------------------------- MODULE MCRelayRetry ----------------------------
(***************************************************************************)
(* Instances of RelayRetry for TLC.                                        *)
(***************************************************************************)
EXTENDS RelayRetry

CONSTANTS a1, a2, b1, b2

AB == <<"A", "B">>

\* Two groups of two priorities that share the lower channel.
Trio == {a1, a2, b1}
TrioGroups == [c \in Trio |-> IF c = a1 THEN {"A"} ELSE IF c = b1 THEN {"B"} ELSE {"A", "B"}]
TrioPriority == [c \in Trio |-> IF c = a2 THEN 1 ELSE 2]
TrioWeight == [c \in Trio |-> 0]

\* Two groups of two priorities each, as in the comment's example.
Four == {a1, a2, b1, b2}
FourGroups == [c \in Four |-> IF c \in {a1, a2} THEN {"A"} ELSE {"B"}]
FourPriority == [c \in Four |-> IF c \in {a1, b1} THEN 2 ELSE 1]
NoWeight == [c \in Four |-> 0]

=============================================================================
