------------------------ MODULE OracleServiceProofs ------------------------
(***************************************************************************)
(* What the ciphers of Schedule give, and what a successful reply of       *)
(* settle and attest says, for any cards, challenges and service lists:    *)
(* the facts the proofs about the protocol cite instead of definitions.    *)
(***************************************************************************)
EXTENDS OracleService, TLAPS, WellFoundedInduction

\* The encryption of a challenge names its key and the challenge.
LEMMA EncryptNonce ==
  ASSUME NEW b \in Nonce, NEW k
  PROVE  tdes_encrypt(b, k) = [key |-> k, data |-> b]
BY DEF tdes_encrypt

\* The two key pairs of a card differ, no other card has its (L, beta), and under
\* other service keys both pairs are others.
LEMMA KeysDiffer ==
  ASSUME NEW g \in Keys, NEW k \in Keys, NEW i \in IDm, NEW j \in IDm
  PROVE  /\ derive(g, i).alphaL \in KeyPair /\ derive(g, i).Lbeta \in KeyPair
         /\ derive(g, i).alphaL # derive(k, j).Lbeta
         /\ derive(g, i).Lbeta = derive(k, j).Lbeta => g = k /\ i = j
         /\ derive(g, i).alphaL = derive(k, j).alphaL => g = k
BY KeyBitsType DEF derive, KeyPair

\* Decrypting a block of another key leaves junk, which nobody drew.
LEMMA DecryptType ==
  ASSUME NEW ct \in Cipher, NEW k \in KeyPair
  PROVE  /\ ct.key = k => tdes_decrypt(ct, k) = ct.data
         /\ ct.key # k => tdes_decrypt(ct, k) \in Junk \ Nonce
         /\ tdes_decrypt(ct, k) \in Nonce => ct.key = k
BY JunkIsForeign DEF tdes_decrypt, junk, Junk, Cipher

\* The keys of a node path are keys.
LEMMA KeysOfPath == ASSUME NEW p \in NodePaths PROVE KeysOf[p] \in Keys
BY KeysType

\* What a card enciphers under (L, beta) opens under the same service keys and the
\* same card's IDm only.
LEMMA OpensForOneCard ==
  ASSUME NEW g \in Keys, NEW h \in Keys, NEW i \in IDm, NEW j \in IDm, NEW k \in R2,
         NEW ct \in Cipher, ct = [key |-> derive(h, j).Lbeta, data |-> k]
  PROVE  /\ g = h /\ i = j => r2_from_c2a(g, i, ct) = k
         /\ g # h \/ i # j => r2_from_c2a(g, i, ct) \in Junk \ Nonce
BY KeysDiffer, DecryptType DEF r2_from_c2a

\* The C2B of settle, decrypted by the card, is the R2 settle had decrypted, and
\* decrypted under other service keys is nothing a card has drawn.
LEMMA AnswerOpens ==
  ASSUME NEW g \in Keys, NEW h \in Keys, NEW i \in IDm, NEW ct \in Cipher, ct.data \in R2
  PROVE  LET r2 == r2_from_c2a(g, i, ct) IN
         /\ c2b(g, i, r2) \in [key : KeyPair, data : R2 \cup Junk]
         /\ tdes_decrypt(c2b(g, i, r2), derive(g, i).alphaL) = r2
         /\ g # h => tdes_decrypt(c2b(g, i, r2), derive(h, i).alphaL) \notin Nonce
<1> DEFINE A == derive(g, i).alphaL
           B == derive(g, i).Lbeta
           r2 == r2_from_c2a(g, i, ct)
<1>1. /\ A \in KeyPair /\ B \in KeyPair /\ A # B
      /\ g # h => derive(h, i).alphaL # A
  BY KeysDiffer
<1>2. r2 \in R2 \cup Junk /\ c2b(g, i, r2) = [key |-> A, data |-> r2]
  <2>1. CASE ct.key = B
    <3>1. r2 = ct.data
      BY <1>1, <2>1, DecryptType DEF r2_from_c2a
    <3>2. c2b(g, i, r2) = [key |-> A, data |-> ct.data]
      BY <3>1, EncryptNonce DEF c2b, Nonce
    <3>3. QED
      BY <3>1, <3>2
  <2>2. CASE ct.key # B
    <3>1. r2 = junk(ct, B) /\ r2 \in Junk \ Nonce
      BY <1>1, <2>2, DecryptType DEF r2_from_c2a, tdes_decrypt
    <3>2. r2.under = B
      BY <3>1 DEF junk
    <3>3. c2b(g, i, r2) = [key |-> A, data |-> r2]
      BY <1>1, <3>1, <3>2 DEF c2b, tdes_encrypt
    <3>4. QED
      BY <3>1, <3>3
  <2>3. QED
    BY <2>1, <2>2
<1>3. ASSUME g # h
      PROVE  tdes_decrypt(c2b(g, i, r2), derive(h, i).alphaL) \notin Nonce
  <2>1. tdes_decrypt(c2b(g, i, r2), derive(h, i).alphaL)
          = junk(c2b(g, i, r2), derive(h, i).alphaL)
    BY <1>1, <1>2, <1>3 DEF tdes_decrypt
  <2>2. c2b(g, i, r2) \in [key : KeyPair, data : Nonce \cup Junk]
    BY <1>1, <1>2 DEF Nonce
  <2>3. derive(h, i).alphaL \in KeyPair
    BY KeysDiffer
  <2>4. junk(c2b(g, i, r2), derive(h, i).alphaL) \in JunkOfJunk
    BY <2>2, <2>3 DEF JunkOfJunk, junk
  <2>5. QED
    BY <2>1, <2>4, JunkIsForeign
<1>4. QED
  BY <1>1, <1>2, <1>3 DEF tdes_decrypt

\* iter().position() of a listed service is one of its slots.
LEMMA PositionIsSlot ==
  ASSUME NEW services, NEW service, Len(services) \in Nat,
         slots(services, service) # {}
  PROVE  /\ position(services, service) \in slots(services, service)
         /\ position(services, service) \in 0 .. Len(services) - 1
<1> DEFINE T == slots(services, service)
<1>1. T \subseteq Nat /\ T \subseteq 0 .. Len(services) - 1
  BY DEF slots
<1>2. PICK i \in T : \A j \in T : <<j, i>> \notin OpToRel(<, Nat)
  BY <1>1, NatLessThanWellFounded, WFMin
<1>3. \A j \in T : ~(j < i)
  BY <1>1, <1>2, Zenon DEF OpToRel
<1>4. \A j \in T : i <= j
  BY <1>1, <1>3
<1>5. QED
  BY <1>1, <1>4 DEF position
-----------------------------------------------------------------------------
(* A successful reply *)

\* settle answers OK only to the C1B of its own R1, and with a Read command
\* only for a slot the service list has.
LEMMA SettleOK ==
  ASSUME NEW cfg, NEW idm, NEW r1, NEW c1b, NEW c2a, NEW rs,
         Len(cfg.services) \in Nat,
         settle(cfg, idm, r1, c1b, c2a, rs).code = OK
  PROVE  LET reply == settle(cfg, idm, r1, c1b, c2a, rs)
             r2 == r2_from_c2a(cfg.keys, idm, c2a)
         IN /\ c1b_expected(cfg.keys, idm, r1) = c1b
            /\ reply.c2b = c2b(cfg.keys, idm, r2)
            /\ reply.ecmd # Absent =>
                 \E index \in 0 .. Len(cfg.services) - 1 :
                   /\ rs # Absent
                   /\ reply.ecmd = read_ecmd(r2, tail(r1), index, rs.block)
                   /\ cfg.services[index + 1] = rs.service
<1> USE DEF OK, INVALID_PARAMS, C1B_MISMATCH, Error
<1>1. CASE rs = Absent
  BY <1>1 DEF settle
<1>2. CASE rs # Absent
  <2> DEFINE pos == position(cfg.services, rs.service)
  <2>1. /\ slots(cfg.services, rs.service) # {} /\ pos < SlotLimit
        /\ settle(cfg, idm, r1, c1b, c2a, rs).ecmd
             = ecmd(cfg.services, tail(r1), r2_from_c2a(cfg.keys, idm, c2a), rs)
        /\ settle(cfg, idm, r1, c1b, c2a, rs).c2b
             = c2b(cfg.keys, idm, r2_from_c2a(cfg.keys, idm, c2a))
        /\ c1b_expected(cfg.keys, idm, r1) = c1b
    BY <1>2 DEF settle, addressable
  <2>2. pos \in 0 .. Len(cfg.services) - 1 /\ cfg.services[pos + 1] = rs.service
    BY <2>1, PositionIsSlot DEF slots
  <2>3. pos % SlotLimit = pos
    <3>1. pos \in Nat /\ pos < SlotLimit
      BY <2>1, <2>2
    <3> HIDE DEF pos
    <3>2. QED
      BY <3>1, SlotLimitType
  <2>4. QED
    BY <1>2, <2>1, <2>2, <2>3 DEF ecmd
<1>3. QED
  BY <1>1, <1>2

\* attest answers OK only when the AUTH2 opens under the decrypted R2 and
\* carries the TID of the decrypted R1, and certifies exactly those values.
LEMMA AttestOK ==
  ASSUME NEW cfg, NEW idm, NEW c1b, NEW c2a, NEW x, NEW cm,
         attest(cfg, "loaded", idm, c1b, c2a, x, cm).code = OK
  PROVE  LET r1 == r1_from_c1b(cfg.keys, idm, c1b)
             r2 == r2_from_c2a(cfg.keys, idm, c2a)
             cm_out == IF cm = Absent THEN ZeroCm ELSE cm
         IN /\ x.key = r2 /\ x.payload.tid = tail(r1)
            /\ attest(cfg, "loaded", idm, c1b, c2a, x, cm) =
                 [code |-> OK, idi |-> x.payload.idi, r2 |-> r2, cm_out |-> cm_out,
                  proof |-> [r1 |-> r1, c1b |-> c1b, c2a |-> c2a, auth2 |-> x,
                             cm |-> cm_out, idi |-> x.payload.idi, r2 |-> r2]]
<1> USE DEF OK, INVALID_PARAMS, C1B_MISMATCH, MAC_MISMATCH, TID_MISMATCH,
            PROVE_FAILED, Error
<1> DEFINE cm_out == IF cm = Absent THEN ZeroCm ELSE cm
           reply == attest(cfg, "loaded", idm, c1b, c2a, x, cm)
<1>1. reply = prove(cfg.keys, idm, c1b, c2a, x, cm_out)
  BY DEF attest
<1>2. prove(cfg.keys, idm, c1b, c2a, x, cm_out).code = OK
  BY <1>1
<1>3. /\ check_mac(x, AUTH2_CODE, r2_from_c2a(cfg.keys, idm, c2a))
      /\ x.payload.tid = tail(r1_from_c1b(cfg.keys, idm, c1b))
      /\ prove(cfg.keys, idm, c1b, c2a, x, cm_out) =
           [code |-> OK, idi |-> x.payload.idi, r2 |-> r2_from_c2a(cfg.keys, idm, c2a),
            cm_out |-> cm_out,
            proof |-> [r1 |-> r1_from_c1b(cfg.keys, idm, c1b), c1b |-> c1b, c2a |-> c2a,
                       auth2 |-> x, cm |-> cm_out, idi |-> x.payload.idi,
                       r2 |-> r2_from_c2a(cfg.keys, idm, c2a)]]
  BY <1>2 DEF prove, public_inputs, r1_from_c1b, r2_from_c2a
<1>4. QED
  BY <1>1, <1>3 DEF check_mac
=============================================================================
