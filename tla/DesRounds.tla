----------------------------- MODULE DesRounds ------------------------------
(***************************************************************************)
(* tdes_encrypt and then tdes_decrypt of prover/src/des.rs, round by       *)
(* round: the loop of des_block as the steps of a state machine, over any  *)
(* data and any two keys.  prove decrypts C1B and C2A with the one and     *)
(* encrypts the result again with the other.                               *)
(***************************************************************************)
EXTENDS Des

CONSTANTS
  Data,  \* 64-bit blocks
  Keys   \* 64-bit keys, parity bits included

ASSUME InputType == Data \subseteq Bits64 /\ Keys \subseteq Bits64

VARIABLES
  data, k1, k2,  \* the arguments
  pass,          \* which of the six calls of des_block is running
  n,             \* rounds it has done
  h,             \* its two halves
  block,         \* what the call before it returned
  trail          \* halves after each round of the first three calls

vars == <<data, k1, k2, pass, n, h, block, trail>>

\* The calls of tdes_encrypt, then those of tdes_decrypt.
Encrypts(p) == p \in {1, 3, 5}
KeyOf(p) == IF p \in {2, 5} THEN k2 ELSE k1

Init ==
  /\ data \in Data /\ k1 \in Keys /\ k2 \in Keys
  /\ pass = 1 /\ n = 0
  /\ h = Halves(data)
  /\ block = data
  /\ trail = [p \in 1 .. 3 |-> [i \in 0 .. 16 |-> h]]

Note(p, i, halves) == trail' = IF p <= 3 THEN [trail EXCEPT ![p][i] = halves] ELSE trail

DoRound ==
  /\ pass <= 6 /\ n < 16
  /\ n' = n + 1
  /\ h' = Round(h, KeyOrder(round_keys(KeyOf(pass)), Encrypts(pass))[n + 1])
  /\ Note(pass, n + 1, h')
  /\ UNCHANGED <<data, k1, k2, pass, block>>

Return ==
  /\ pass <= 6 /\ n = 16
  /\ block' = Output(h)
  /\ pass' = pass + 1 /\ n' = 0
  /\ h' = Halves(block')
  /\ Note(pass + 1, 0, h')
  /\ UNCHANGED <<data, k1, k2>>

Next == DoRound \/ Return

Spec == Init /\ [][Next]_vars

-----------------------------------------------------------------------------
TypeOK ==
  /\ data \in Data /\ k1 \in Keys /\ k2 \in Keys
  /\ pass \in 1 .. 7 /\ n \in 0 .. 16
  /\ h \in HalvesType
  /\ block \in Bits64
  /\ trail \in [1 .. 3 -> [0 .. 16 -> HalvesType]]

\* tdes_decrypt undoes tdes_encrypt, whatever the keys (des.rs; lib.rs calls the
\* re-encryption checks of prove "tautological natively").
DecryptInverts == pass = 7 => block = data

\* docs/spec.md 7.1 and des.rs: key 133457799bbcdff1 takes 0123456789abcdef to
\* 85e813540f0ab405, through des_encrypt alone and through tdes_encrypt with the
\* key used twice.
SpecVector ==
  (/\ data = bytes_to_des_bits(<<1, 35, 69, 103, 137, 171, 205, 239>>)
   /\ k1 = bytes_to_des_bits(<<19, 52, 87, 121, 155, 188, 223, 241>>)
   /\ k2 = k1 /\ pass \in {2, 4})
    => block = bytes_to_des_bits(<<133, 232, 19, 84, 15, 10, 180, 5>>)

\* The last bit of each key byte makes no difference to any round (des.rs
\* parity_bits_are_ignored): what Schedule states as KeyBitsOf.
ParityIgnored ==
  LET order(key) == KeyOrder(round_keys(key), Encrypts(pass))
  IN order(KeyOf(pass)) = order(KeyOf(pass) \cup Parity)
=============================================================================
