------------------------------ MODULE MCBytes -------------------------------
(***************************************************************************)
(* The computations on bits and bytes, in one instance: 3DES round by      *)
(* round, a session judged three times, frames of every length, the        *)
(* S-boxes' polynomials and the commitment.  They share no variable: a     *)
(* behaviour is that of one of them, and what the others keep stays idle.  *)
(***************************************************************************)
EXTENDS DesRounds, SessionBytes, FrameLengths, SboxPolynomial, Commitment

VARIABLE part

-----------------------------------------------------------------------------
(* 3DES *)

Bits(b) == bytes_to_des_bits(b)

\* The block of the test vector, a challenge of the tests, and all ones.
MCData == {Bits(<<1, 35, 69, 103, 137, 171, 205, 239>>),
           Bits(<<0, 17, 34, 51, 68, 85, 102, 119>>),
           0 .. 63}

\* The key of the test vector, one with the same bits and other parity, and zero.
MCKeys == {Bits(<<19, 52, 87, 121, 155, 188, 223, 241>>),
           Bits(<<18, 53, 86, 121, 154, 189, 222, 240>>),
           {}}

(* Sessions *)

MCKGroup == <<1, 35, 69, 103, 137, 171, 205, 239>>
MCKUser == <<254, 220, 186, 152, 118, 84, 50, 16>>

\* A card of the tests whose session is fresh, and one that reports another TN.
MCFreshCard ==
  [idm |-> <<1, 46, 76, 217, 18, 52, 86, 120>>, idi |-> <<1, 2, 3, 4, 5, 6, 7, 8>>,
   pmi |-> <<0, 241, 0, 0, 0, 1, 67, 0>>, r1 |-> <<17, 34, 51, 68, 85, 102, 119, 136>>,
   r2 |-> <<160, 177, 194, 211, 228, 245, 6, 23>>, tn |-> 0]
MCCard ==
  {MCFreshCard,
   [idm |-> <<0, 0, 0, 0, 0, 0, 0, 0>>, idi |-> <<255, 255, 255, 255, 255, 255, 255, 255>>,
    pmi |-> <<0, 0, 0, 0, 0, 0, 0, 0>>, r1 |-> <<0, 0, 0, 0, 0, 0, 0, 0>>,
    r2 |-> <<255, 254, 1, 128, 127, 0, 0, 1>>, tn |-> 7]}

MCElement == {<<0, 0>>}
MCBlockData == [i \in 1 .. 16 |-> 15 * (i - 1)]

\* The parity bit of a byte, and its first bit.
MCMasks == {{7}, {0}}

MCHitsOn == [idm |-> {1, 8}, c1b |-> {1, 5}, c2a |-> {8}, auth2 |-> {1, 12, 20, 32},
             ecmd |-> {1, 24}, resp |-> {1, 30}]

(* Frames: lengths from nothing and around 256 *)

MCKey == <<160, 177, 194, 211, 228, 245, 6, 23>>
MCCodes == {READ_COMMAND_CODE, READ_RESPONSE_CODE}

-----------------------------------------------------------------------------
IdleDes == Init /\ data = 0 .. 63 /\ k1 = {} /\ k2 = {}
IdleSession == SessionInit /\ card = MCFreshCard
IdleFrame == FrameInit /\ shortest = 0 /\ code = READ_COMMAND_CODE
IdleSbox == box = 1 /\ mat = <<>> /\ col = 0 /\ step = "idle"
IdleCommit ==
  /\ ecmd = <<>> /\ response = <<>> /\ randomness = <<>>
  /\ limbs = <<>> /\ sponge = <<>> /\ digest = <<>>

BytesInit ==
  \/ part = "des" /\ Init /\ IdleSession /\ IdleFrame /\ IdleSbox /\ IdleCommit
  \/ part = "session" /\ IdleDes /\ SessionInit /\ IdleFrame /\ IdleSbox /\ IdleCommit
  \/ part = "frame" /\ IdleDes /\ IdleSession /\ FrameInit /\ IdleSbox /\ IdleCommit
  \/ part = "sbox" /\ IdleDes /\ IdleSession /\ IdleFrame /\ SboxInit /\ IdleCommit
  \/ part = "commit" /\ IdleDes /\ IdleSession /\ IdleFrame /\ IdleSbox /\ CommitInit

RunDes ==
  /\ part = "des" /\ Next
  /\ UNCHANGED <<part, sessionVars, frameVars, sboxVars, commitVars>>
RunSession ==
  /\ part = "session" /\ SessionNext
  /\ UNCHANGED <<part, vars, frameVars, sboxVars, commitVars>>
RunFrame ==
  /\ part = "frame" /\ FrameNext
  /\ UNCHANGED <<part, vars, sessionVars, sboxVars, commitVars>>
RunSbox ==
  /\ part = "sbox" /\ SboxNext
  /\ UNCHANGED <<part, vars, sessionVars, frameVars, commitVars>>
RunCommit ==
  /\ part = "commit" /\ CommitNext
  /\ UNCHANGED <<part, vars, sessionVars, frameVars, sboxVars>>

BytesNext == RunDes \/ RunSession \/ RunFrame \/ RunSbox \/ RunCommit

BytesSpec ==
  BytesInit /\ [][BytesNext]_<<part, vars, sessionVars, frameVars, sboxVars, commitVars>>
=============================================================================
