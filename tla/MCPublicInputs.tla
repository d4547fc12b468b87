--------------------------- MODULE MCPublicInputs ---------------------------
(* Sessions and commitments for PublicInputs. *)
EXTENDS PublicInputs

\* Two sessions that differ in idi and r2 alone, which change places.
MCSession ==
  {[r1 |-> 1, c1b |-> 0, c2a |-> 1, auth2 |-> 6, idi |-> 0, r2 |-> 1],
   [r1 |-> 1, c1b |-> 0, c2a |-> 1, auth2 |-> 6, idi |-> 1, r2 |-> 0]}

\* Zero, two that are canonical, and zero and one with the order added.
MCCm == {0, 1, 4, 5, 6}
=============================================================================
