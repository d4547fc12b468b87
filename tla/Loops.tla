------------------------------- MODULE Loops --------------------------------
(***************************************************************************)
(* The loops of the source over blocks, rounds, bits, bytes and            *)
(* coefficients: each of them turns one value n times.                     *)
(***************************************************************************)
EXTENDS Integers

\* What n turns make of a member of S: step[1] of it, step[2] of that, and so on.
Iterate(step, n, S) ==
  [x \in S |-> LET turn[i \in 0 .. n] == IF i = 0 THEN x ELSE step[i][turn[i - 1]]
               IN turn[n]]
=============================================================================
