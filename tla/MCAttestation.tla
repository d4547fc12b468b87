--------------------------- MODULE MCAttestation ---------------------------
(* Values for the constants of Attestation.                                *)
EXTENDS Attestation, TLC

CONSTANTS cardA, cardB, r1a, r1b, r2a, r2b, tidX, tidY, tidZ, s1, s2, s3, b1, h1, h2

oneCard == {cardA}
twoCards == {cardA, cardB}
cardIDi == [i \in IDm |-> i]

\* The IDms differ in the lowest bit of a byte only.
keyBitsShared == [i \in IDm |-> cardA]

\* r1a and r1b differ in their first two bytes only, so they share a TID.
tailsShared == (r1a :> tidX) @@ (r1b :> tidX) @@ (r2a :> tidZ) @@ (r2b :> tidZ)
tailsDistinct == (r1a :> tidX) @@ (r1b :> tidY) @@ (r2a :> tidZ) @@ (r2b :> tidZ)

\* Three services for SlotLimit 2: the third is configured but unaddressable.
onePath == {<<s1, s2, s3>>}
\* The Secrets disagree about the slot of s1, and one adds an unaddressable s3.
twoPaths == {<<s1, s2>>, <<s2, s1, s3>>}

\* Each list has keys of its own.
listKeys == [p \in NodePaths |-> p]

spec2 == {[service |-> s1, block |-> b1], [service |-> s2, block |-> b1]}
specEnds == {[service |-> s1, block |-> b1], [service |-> s3, block |-> b1]}

\* With tailsShared holders, the R1 and the R2 are alike.
alike == Permutations(Holder) \cup Permutations(R1) \cup Permutations(R2)
=============================================================================
