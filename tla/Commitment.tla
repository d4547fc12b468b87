----------------------------- MODULE Commitment -----------------------------
(***************************************************************************)
(* prover/src/commit.rs: the presentation commitment, the sponge's digest  *)
(* of the command's frame, the response's frame and the randomness, cut    *)
(* into limbs the field has room for.                                      *)
(*                                                                         *)
(* The sizes are parameters: the source has bytes of base 256, limbs of 31 *)
(* of them, frames of 26 and 42 and randomness of 32, 100 bytes or three   *)
(* limbs and a quarter.  The permutation is arkworks' and external: a      *)
(* sponge is what was added to the rate between one call of it and the     *)
(* next, and two digests are the same when that is.                        *)
(***************************************************************************)
EXTENDS Loops, Sequences

CONSTANTS
  Radix,    \* values of a byte
  Modulus,  \* the order of the scalar field
  LIMB_LEN,
  EcmdLen, ResponseLen, RandomnessLen

ASSUME SizesType ==
  /\ Radix \in Nat \ {0} /\ Modulus \in Nat \ {0} /\ LIMB_LEN \in Nat \ {0}
  /\ EcmdLen \in Nat /\ ResponseLen \in Nat /\ RandomnessLen \in Nat

Bytes(n) == [1 .. n -> 0 .. Radix - 1]
Total == EcmdLen + ResponseLen + RandomnessLen

\* What bytes make as a number, the first one weighing least.
from_le_bytes(bytes) ==
  LET n == Len(bytes)
  IN Iterate([i \in 1 .. n |-> [acc \in Nat |-> bytes[n + 1 - i] + Radix * acc]], n, Nat)[0]

\* "r > 2^253, so 248-bit chunks never wrap": a limb of the greatest bytes has room.
ASSUME LimbsFit == from_le_bytes([i \in 1 .. LIMB_LEN |-> Radix - 1]) < Modulus

Rate == 2

VARIABLES
  ecmd, response, randomness,
  limbs,   \* what is still to be absorbed
  sponge,  \* what the rate was given before each permutation, the next one last
  digest

commitVars == <<ecmd, response, randomness, limbs, sponge, digest>>

\* Faulty: as many bytes as an element is written with.
chunks_full(bytes) ==
  [i \in 1 .. (Len(bytes) + LIMB_LEN) \div (LIMB_LEN + 1) |->
    SubSeq(bytes, (i - 1) * (LIMB_LEN + 1) + 1,
           IF i * (LIMB_LEN + 1) > Len(bytes) THEN Len(bytes) ELSE i * (LIMB_LEN + 1))]

\* The last one may be shorter.
chunks(bytes) ==
  [i \in 1 .. (Len(bytes) + LIMB_LEN - 1) \div LIMB_LEN |->
    SubSeq(bytes, (i - 1) * LIMB_LEN + 1,
           IF i * LIMB_LEN > Len(bytes) THEN Len(bytes) ELSE i * LIMB_LEN)]

\* The zeros that pad a short one have no weight.
limb_of(chunk) == from_le_bytes(chunk) % Modulus

to_limbs(preimage) == [i \in DOMAIN chunks(preimage) |-> limb_of(chunks(preimage)[i])]

Fresh == <<[i \in 1 .. Rate |-> 0]>>

CommitInit ==
  /\ ecmd \in Bytes(EcmdLen) /\ response \in Bytes(ResponseLen)
  /\ randomness \in Bytes(RandomnessLen)
  /\ limbs = to_limbs(ecmd \o response \o randomness)
  /\ sponge = [rate |-> Fresh, at |-> 0] /\ digest = <<>>

\* sponge.absorb: a limb is added where the last one stopped, after a permutation when
\* the rate is full.
Absorb ==
  /\ limbs # <<>>
  /\ sponge' =
       IF sponge.at = Rate
       THEN [rate |-> Append(sponge.rate, [Fresh[1] EXCEPT ![1] = Head(limbs)]), at |-> 1]
       ELSE [rate |-> [sponge.rate EXCEPT ![Len(sponge.rate)][sponge.at + 1] = Head(limbs)],
             at |-> sponge.at + 1]
  /\ limbs' = Tail(limbs)
  /\ UNCHANGED <<ecmd, response, randomness, digest>>

\* squeeze_field_elements(1), one permutation further.
Squeeze ==
  /\ limbs = <<>> /\ digest = <<>>
  /\ digest' = sponge.rate
  /\ UNCHANGED <<ecmd, response, randomness, limbs, sponge>>

CommitNext == Absorb \/ Squeeze

CommitSpec == CommitInit /\ [][CommitNext]_commitVars

-----------------------------------------------------------------------------
\* The bytes an opening must have had, read off what the permutations were given.
absorbed(rate, i) == rate[(i \div Rate) + 1][(i % Rate) + 1]

byte_of(limb, k) ==
  Iterate([i \in 1 .. k |-> [v \in Nat |-> v \div Radix]], k, Nat)[limb] % Radix

opened_at(d, i) == byte_of(absorbed(d, i \div LIMB_LEN), i % LIMB_LEN)

\* A commitment has one opening: every byte of the command, of the response and of the
\* randomness went into it, in its place and unreduced, so that no other command or
\* response of the layout has the same digest (commit.rs, "so no framing ambiguity").
OneOpening ==
  digest # <<>> =>
    /\ Len(digest) * Rate * LIMB_LEN >= Total
    /\ ecmd \o response \o randomness = [i \in 1 .. Total |-> opened_at(digest, i - 1)]
=============================================================================
