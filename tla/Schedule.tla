------------------------------ MODULE Schedule ------------------------------
(***************************************************************************)
(* The cryptographic vocabulary of the oracle: the challenge schedule and  *)
(* the DES secure messaging of server/src/oracle/schedule.rs, and the      *)
(* AUTH2 verification of server/src/oracle/mod.rs.                         *)
(*                                                                         *)
(* Ciphers are perfect: a ciphertext is a record of the key it was made    *)
(* under and of its plaintext, and decrypting it under any other key gives *)
(* a junk block, which no party ever drew.  3DES stays the bijection it    *)
(* is: encrypting that junk again under the same key gives the ciphertext  *)
(* back.  Byte layouts, padding and the MAC chain are abstracted to what   *)
(* they achieve: a sealed frame opens only under its own session key and   *)
(* its own opcode.                                                         *)
(***************************************************************************)
EXTENDS Integers

CONSTANTS
  Keys,       \* GSK and USK pairs (k_group, k_user) a deployment may hold
  IDm,        \* manufacturer identifiers of the cards
  R1,         \* 8-byte challenges drawn by holder devices
  R2,         \* 8-byte challenges drawn by cards, used as session keys
  Tid,        \* 6-byte transaction identifiers
  IDi,        \* card identifiers
  KeyBitsOf,  \* DES ignores parity bits: IDms that differ in them alone share one
  TailOf,     \* bytes 2..8 of a block: two challenges may share them
  IDiOf       \* the IDi a card answers with in AUTH2

Nonce == R1 \cup R2

ASSUME ChallengesDisjoint == R1 \cap R2 = {}
ASSUME TailType == TailOf \in [Nonce -> Tid]
ASSUME KeyBitsType == KeyBitsOf \in [IDm -> IDm]
ASSUME IDiType == IDiOf \in [IDm -> IDi]

\* r1[2..8], the transaction identifier of a session opened with block b.
tail(b) == IF b \in Nonce THEN TailOf[b] ELSE b

-----------------------------------------------------------------------------
(* The key schedule.  L = K_group xor IDm, alpha = DES_L(K_user) and       *)
(* beta = DES_alpha(L) are used only as the 3DES key pairs (alpha, L) and  *)
(* (L, beta), and other service keys give other pairs.  IDms that differ   *)
(* in parity bits alone agree on the key L and on alpha, not on the block  *)
(* L nor, therefore, on beta.                                              *)

KeyPair == {"alpha_L", "L_beta"} \X Keys \X IDm

derive(keys, idm) == [alphaL |-> <<"alpha_L", keys, KeyBitsOf[idm]>>,
                      Lbeta |-> <<"L_beta", keys, idm>>]

\* What decrypting ct under k, a key it was not made with, leaves.
junk(ct, k) == [ct |-> ct, under |-> k]

tdes_encrypt(data, k) ==
  IF data \notin Nonce /\ data.under = k THEN data.ct
  ELSE [key |-> k, data |-> data]

tdes_decrypt(ct, k) == IF ct.key = k THEN ct.data ELSE junk(ct, k)

\* The blocks honest parties make, and what comes of decrypting them.
Cipher == [key : KeyPair, data : Nonce]
Junk == [ct : Cipher, under : KeyPair]

\* Not even junk enciphered once more, as settle does, decrypts to a block drawn.
JunkOfJunk == [ct : [key : KeyPair, data : Nonce \cup Junk], under : KeyPair]

ASSUME JunkIsForeign == Nonce \cap (Junk \cup JunkOfJunk) = {}

c1a(keys, idm, r1) == tdes_encrypt(r1, derive(keys, idm).alphaL)

c1b_expected(keys, idm, r1) == tdes_encrypt(r1, derive(keys, idm).Lbeta)

c2b(keys, idm, r2) == tdes_encrypt(r2, derive(keys, idm).alphaL)

r1_from_c1b(keys, idm, b) == tdes_decrypt(b, derive(keys, idm).Lbeta)

r2_from_c2a(keys, idm, a) == tdes_decrypt(a, derive(keys, idm).Lbeta)

-----------------------------------------------------------------------------
(* Secure messaging under the session key R2.                              *)

READ_COMMAND_CODE == 20    \* 0x14
READ_RESPONSE_CODE == 21   \* 0x15
AUTH2_CODE == 19           \* 0x13

ECMD_TN == 1
EXPECTED_READ_RESPONSE_TN == 2

\* DES-CBC under key of the payload and its MAC over code.
encrypt_command(code, key, payload) ==
  [code |-> code, key |-> key, payload |-> payload]

\* Faulty: the MAC is not taken under the session key.
check_mac_unkeyed(ct, code, key) == ct.code = code

\* DES-CBC decryption under key, then the reverse-MAC check for code.
check_mac(ct, code, key) == ct.key = key /\ ct.code = code

\* Faulty: the Read goes on from the TN of AUTH2 instead of following it.
read_ecmd_at_zero(r2, tid, index, block) ==
  encrypt_command(READ_COMMAND_CODE, r2,
    [tn |-> ECMD_TN - 1, tid |-> tid, index |-> index, block |-> block])

\* Faulty: a TN of its own for each slot instead of the constant.
read_ecmd_by_slot(r2, tid, index, block) ==
  encrypt_command(READ_COMMAND_CODE, r2,
    [tn |-> ECMD_TN + 2 * index, tid |-> tid, index |-> index, block |-> block])

\* The TN of a Read is the protocol constant, never observed state.
read_ecmd(r2, tid, index, block) ==
  encrypt_command(READ_COMMAND_CODE, r2,
    [tn |-> ECMD_TN, tid |-> tid, index |-> index, block |-> block])

\* The opcode of a frame fixes its ciphertext length (24, 32 or 40 bytes), so
\* a frame of another kind is the wrong length here.
decrypt_read_response(r2, expected_tid, ct) ==
  IF ct.code # READ_RESPONSE_CODE THEN [err |-> "Malformed"]
  ELSE IF ~check_mac(ct, READ_RESPONSE_CODE, r2) THEN [err |-> "MacMismatch"]
  ELSE IF ct.payload.tn # EXPECTED_READ_RESPONSE_TN THEN [err |-> "TnMismatch"]
  ELSE IF ct.payload.tid # expected_tid THEN [err |-> "TidMismatch"]
  ELSE [err |-> "none", data |-> ct.payload.data]

\* Faulty: AUTH2 is taken to be the first frame ever under its TID.
verify_auth2_at_zero(r2, ct) ==
  IF check_mac(ct, AUTH2_CODE, r2) /\ ct.payload.tn = 0
  THEN [err |-> "none", tn |-> ct.payload.tn, tid |-> ct.payload.tid,
        idi |-> ct.payload.idi]
  ELSE [err |-> "MacMismatch"]

\* The header is rebuilt around the 32 submitted bytes, so a frame of another
\* opcode fails the MAC.  TN is returned and never compared.
verify_auth2(r2, ct) ==
  IF check_mac(ct, AUTH2_CODE, r2)
  THEN [err |-> "none", tn |-> ct.payload.tn, tid |-> ct.payload.tid,
        idi |-> ct.payload.idi]
  ELSE [err |-> "MacMismatch"]
=============================================================================
