--------------------------- MODULE SboxPolynomial ---------------------------
(***************************************************************************)
(* How the circuit gets the polynomial of an S-box: interpolate of         *)
(* prover/src/circuit.rs solves a Vandermonde system by Gauss-Jordan       *)
(* elimination in the scalar field, a column at a time, and sbox_gadget    *)
(* holds an output to the polynomial's value.  The field is that of the    *)
(* integers modulo a prime, a parameter: the 64 points must differ in it.  *)
(***************************************************************************)
EXTENDS Des

CONSTANTS
  Order,  \* of the field
  Boxes   \* the S-boxes, of 1 .. 8

ASSUME OrderIsPrime ==
  Order \in Nat /\ Order > 64 /\ \A d \in 2 .. Order - 1 : Order % d # 0
ASSUME BoxesType == Boxes \subseteq 1 .. 8

Field == 0 .. Order - 1
Points == 0 .. 63

VARIABLES
  box,
  mat,  \* the system: a row for each point, the last column its value
  col,  \* the column that is next
  step  \* "pivot", then "eliminate", and "done"

sboxVars == <<box, mat, col, step>>

\* Faulty: the table in the order of its rows, as the source prints it.
mapped_table_flat(b) == [v \in Points |-> SBOX[b][v + 1]]

\* The table by the value of its input bits, of which the first weighs most.
mapped_table(b) == [v \in Points |-> sbox_lookup(b, bits_of(v, 6))]

Power(x, n) == Iterate([i \in 1 .. n |-> [pow \in Field |-> (pow * x) % Order]], n, Field)[1]

inverse(x) == CHOOSE y \in 1 .. Order - 1 : (x * y) % Order = 1

SboxInit ==
  /\ box \in Boxes
  /\ mat = [i \in Points |-> [j \in 0 .. 64 |->
              IF j = 64 THEN mapped_table(box)[i] ELSE Power(i, j)]]
  /\ col = 0 /\ step = "pivot"

NonZeroFrom(c) == {i \in c .. 63 : mat[i][c] # 0}

\* The first row whose entry is not zero comes up and is scaled to one.
Pivot ==
  /\ step = "pivot" /\ col < 64 /\ NonZeroFrom(col) # {}
  /\ LET pivot == CHOOSE i \in NonZeroFrom(col) : \A k \in NonZeroFrom(col) : i <= k
         inv == inverse(mat[pivot][col])
         swapped == [mat EXCEPT ![col] = mat[pivot], ![pivot] = mat[col]]
     IN mat' = [swapped EXCEPT ![col] = [j \in 0 .. 64 |->
                  IF j < col THEN swapped[col][j] ELSE (swapped[col][j] * inv) % Order]]
  /\ step' = "eliminate"
  /\ UNCHANGED <<box, col>>

\* It is subtracted from every other row; what is left of it is zero already.
Eliminate ==
  /\ step = "eliminate"
  /\ mat' = [i \in Points |->
       IF i = col THEN mat[i]
       ELSE [j \in 0 .. 64 |->
              IF j < col THEN mat[i][j]
              ELSE (mat[i][j] - mat[col][j] * mat[i][col]) % Order]]
  /\ col' = col + 1
  /\ step' = IF col = 63 THEN "done" ELSE "pivot"
  /\ UNCHANGED box

SboxNext == Pivot \/ Eliminate

SboxSpec == SboxInit /\ [][SboxNext]_sboxVars

-----------------------------------------------------------------------------
\* Horner from the top; the solution is the last column.
eval_poly(x) ==
  Iterate([i \in 1 .. 63 |-> [acc \in Field |-> (acc * x + mat[63 - i][64]) % Order]],
          63, Field)[mat[63][64]]

\* The outputs that sbox_gadget lets a prover put on the wires.
Allowed(v) == {out \in 0 .. 15 : eval_poly(v) = out % Order}

\* "vandermonde invertible": the elimination finds a pivot in every column, and in
\* the end the gadget of a box allows one output for each input, the one the table
\* has for it (circuit.rs interpolate, sbox_gadget).
GadgetIsTable ==
  /\ step = "pivot" => NonZeroFrom(col) # {}
  /\ step = "done" => \A v \in Points : Allowed(v) = {sbox_lookup(box, bits_of(v, 6))}
=============================================================================
