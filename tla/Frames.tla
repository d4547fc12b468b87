------------------------------- MODULE Frames -------------------------------
(***************************************************************************)
(* server/src/oracle/schedule.rs and the verification of mod.rs on real    *)
(* bytes: the key schedule, the framing, the MAC that is folded one way    *)
(* and unfolded the other.  Schedule states what these achieve for perfect *)
(* ciphers; here they are computed.                                        *)
(***************************************************************************)
EXTENDS Des

\* IntermediateKeys of the card whose lower key is l.
WithAlpha(l) == [alpha \in BlockType |-> [l |-> l, alpha |-> alpha, beta |-> des_encrypt(l, alpha)]]
Derived(l, k_user) == WithAlpha(l)[des_encrypt(k_user, l)]

derive(k_group, k_user, idm) == Derived(xor_bytes(k_group, idm), k_user)

READ_COMMAND_CODE == 20
READ_RESPONSE_CODE == 21
AUTH2_CODE == 19

\* Faulty: data that is a whole number of blocks is padded too.
pad_des_always(data) ==
  LET rem == Len(data) % 8 IN data \o [i \in 1 .. 8 - rem |-> 8 - rem]

\* PKCS#7, only when the data is no whole number of blocks.
pad_des(data) ==
  LET rem == Len(data) % 8
  IN IF rem = 0 THEN data ELSE data \o [i \in 1 .. 8 - rem |-> 8 - rem]

\* Under a zero IV.
cbc_encrypt(data, key) ==
  LET cipher(i, out) ==
        des_encrypt(xor_bytes(Block(data, i), IF i = 1 THEN ZeroBlock ELSE Block(out, i - 1)),
                    key)
      n == Len(data) \div 8
  IN Iterate([i \in 1 .. n |-> [out \in Seq(Byte) |-> out \o cipher(i, out)]],
             n, Seq(Byte))[<<>>]

\* `data.len() as u8 + 2` before it is stored: past 255 it panics in a debug build.
expected_len(data) == (Len(data) % 256) + 2

\* The block that the MAC at the end of data unfolds to, the last block of the
\* payload first.
unfolded(data) ==
  LET n == Len(data) \div 8 - 1
  IN Iterate([i \in 1 .. n |->
                [current \in BlockType |-> des_decrypt(current, Block(data, n + 1 - i))]],
             n, BlockType)[Block(data, n + 1)]

\* Faulty: the length expected is that of the data, without the frame's header.
check_mac_bare(data, code) ==
  /\ Len(data) % 8 = 0 /\ Len(data) >= 16
  /\ unfolded(data) = [ZeroBlock EXCEPT ![1] = Len(data) % 256, ![2] = code]

check_mac(data, code) ==
  /\ Len(data) % 8 = 0 /\ Len(data) >= 16
  /\ unfolded(data) = [ZeroBlock EXCEPT ![1] = expected_len(data) % 256, ![2] = code]

Sealed(code, key, padded) == cbc_encrypt(padded \o command_mac(code, padded), key)

encrypt_command(code, key, payload) == Sealed(code, key, pad_des(payload))

\* Access mode 0 and the position of the service in the list of Authentication1.
read_block_payload(service_index, block) == <<1, 128 + (service_index % 16), block>>

ECMD_TN == <<1, 0>>
EXPECTED_READ_RESPONSE_TN == <<2, 0>>

build_cmd_payload(tid, inner) == ECMD_TN \o tid \o inner

\* Faulty: the answer is expected under the TN of the command.
ReadBlock_same_tn(expected_tid, data) ==
  IF ~check_mac(data, READ_RESPONSE_CODE) THEN [err |-> "MacMismatch"]
  ELSE IF SubSeq(data, 1, 2) # ECMD_TN THEN [err |-> "TnMismatch"]
  ELSE [err |-> "none", data |-> SubSeq(data, 12, 27)]

ReadBlock(expected_tid, data) ==
  IF ~check_mac(data, READ_RESPONSE_CODE) THEN [err |-> "MacMismatch"]
  ELSE IF SubSeq(data, 1, 2) # EXPECTED_READ_RESPONSE_TN THEN [err |-> "TnMismatch"]
  ELSE IF SubSeq(data, 3, 8) # expected_tid THEN [err |-> "TidMismatch"]
  ELSE [err |-> "none", data |-> SubSeq(data, 12, 27)]

decrypt_read_response(r2, expected_tid, ct) ==
  IF Len(ct) # 40 THEN [err |-> "Malformed"]
  ELSE ReadBlock(expected_tid, cbc_decrypt(ct, r2))

\* The 32 bytes are framed again as [34, 0x13] and opened by felica-rs, which
\* unfolds the MAC.
OpenedAuth2(data) ==
  IF check_mac(data, AUTH2_CODE)
  THEN [err |-> "none", tid |-> SubSeq(data, 3, 8), idi |-> SubSeq(data, 9, 16)]
  ELSE [err |-> "MacMismatch"]

verify_auth2(r2, auth2) == OpenedAuth2(cbc_decrypt(auth2, r2))

SameSession(r1, r2, auth) ==
  IF auth.err # "none" THEN auth
  ELSE IF auth.tid # SubSeq(r1, 3, 8) THEN [err |-> "TidMismatch"]
  ELSE [err |-> "none", r1 |-> r1, r2 |-> r2, idi |-> auth.idi]

Judged(r1, r2, auth2) == SameSession(r1, r2, verify_auth2(r2, auth2))

Challenges(keys, wire) ==
  <<tdes_decrypt(wire.c1b, keys.l, keys.beta), tdes_decrypt(wire.c2a, keys.l, keys.beta)>>

JudgedFor(challenges, wire) == Judged(challenges[1], challenges[2], wire.auth2)

\* What attest establishes before it proves.
verify_session(k_group, k_user, wire) ==
  JudgedFor(Challenges(derive(k_group, k_user, wire.idm), wire), wire)
=============================================================================
