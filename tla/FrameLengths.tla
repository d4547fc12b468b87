---------------------------- MODULE FrameLengths ----------------------------
(***************************************************************************)
(* Secure frames of every length: encrypt_command folds the length of the  *)
(* frame into the first block of its MAC, in one byte, and check_mac must  *)
(* arrive at the same byte from the length of what it decrypts             *)
(* (server/src/oracle/schedule.rs).                                        *)
(***************************************************************************)
EXTENDS Frames

CONSTANTS
  Key,      \* the session key
  Codes,    \* opcodes
  Shortest, \* lengths a payload starts from
  Growth    \* bytes it grows by, at most: bounds the lengths

ASSUME FrameType == Codes \subseteq Byte /\ Shortest \subseteq Nat

VARIABLES payload, shortest, code, sealed, opened

frameVars == <<payload, shortest, code, sealed, opened>>

Unopened == [ok |-> FALSE]

ByteAt(i) == (37 * i) % 256

FrameInit ==
  /\ shortest \in Shortest
  /\ payload = [i \in 1 .. shortest |-> ByteAt(i)]
  /\ code \in Codes
  /\ sealed = <<>> /\ opened = Unopened

Grow ==
  /\ sealed = <<>> /\ Len(payload) < shortest + Growth
  /\ payload' = Append(payload, ByteAt(Len(payload) + 1))
  /\ UNCHANGED <<shortest, code, sealed, opened>>

Seal ==
  /\ sealed = <<>>
  /\ sealed' = encrypt_command(code, Key, payload)
  /\ UNCHANGED <<payload, shortest, code, opened>>

\* What the receiver makes of the frame when it expects opcode c.
Open(c) ==
  /\ sealed # <<>> /\ opened = Unopened
  /\ LET data == cbc_decrypt(sealed, Key)
     IN opened' = [code |-> c, ok |-> check_mac(data, c), data |-> data]
  /\ UNCHANGED <<payload, shortest, code, sealed>>

FrameNext == Grow \/ Seal \/ \E c \in Codes : Open(c)

FrameSpec == FrameInit /\ [][FrameNext]_frameVars

-----------------------------------------------------------------------------
\* A frame opens under its own opcode and no other, for every length of its
\* payload but zero, and gives back the payload it was sealed with (schedule.rs
\* check_mac, "the decrypted packet must end in a MAC that unfolds").
OpensUnderItsCode ==
  opened # Unopened =>
    /\ opened.ok <=> opened.code = code /\ payload # <<>>
    /\ SubSeq(opened.data, 1, Len(payload)) = payload

\* The frame is a whole number of blocks, the MAC one of them, and the length
\* check_mac expects never leaves its byte: past 255 a debug build panics.
LengthsFit ==
  sealed # <<>> =>
    /\ Len(sealed) % 8 = 0 /\ Len(sealed) - 8 - Len(payload) \in 0 .. 7
    /\ expected_len(sealed) <= 255
=============================================================================
