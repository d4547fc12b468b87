---------------------------- MODULE BytesProofs -----------------------------
(***************************************************************************)
(* What Des, Frames and Circuit do in a session, for every key, block,     *)
(* card and payload.  First the six calls of DesRounds, then the frames of *)
(* FrameLengths, then SessionBytes: the two verifiers and the circuit on   *)
(* any bytes, and at the end the sessions nothing happens to.              *)
(*                                                                         *)
(* IInv, FrameInv, SessionInv and HonestInv are the inductive invariants;  *)
(* what the operators compute is shown in CipherProofs.                    *)
(***************************************************************************)
EXTENDS DesRounds, SessionBytes, FrameLengths, CipherProofs

\* The round key a call uses in its i-th round.
key(p, i) == KeyOrder(round_keys(KeyOf(p)), Encrypts(p))[i]

-----------------------------------------------------------------------------
(* The calls: the last three walk back through the halves of the first three,
   which trail keeps *)

\* The call that undoes call p uses the same keys, the last one first.
LEMMA KeysReversed ==
  ASSUME NEW p \in 4 .. 6, NEW i \in 1 .. 16 PROVE key(p, i) = key(7 - p, 17 - i)
BY DEF key, KeyOrder, KeyOf, Encrypts
-----------------------------------------------------------------------------
(* The invariant *)

\* The types hold at first.
LEMMA TypeInit == ASSUME Init PROVE TypeOK
<1>1. h \in HalvesType
  BY HalvesAreHalves DEF Init
<1> QED BY <1>1, InputType DEF Init, TypeOK

\* Every step keeps the types.
LEMMA TypeNext == ASSUME TypeOK, [Next]_vars PROVE TypeOK'
<1>1. ASSUME DoRound PROVE TypeOK'
  <2>1. h' \in HalvesType
    BY <1>1, RoundType DEF DoRound, TypeOK
  <2>2. trail' \in [1 .. 3 -> [0 .. 16 -> HalvesType]]
    BY <1>1, <2>1 DEF DoRound, TypeOK, Note
  <2> QED BY <1>1, <2>1, <2>2 DEF DoRound, TypeOK
<1>2. ASSUME Return PROVE TypeOK'
  <2>1. h' \in HalvesType /\ block' \in Bits64
    BY <1>2, HalvesAreHalves, OutputType DEF Return
  <2>2. trail' \in [1 .. 3 -> [0 .. 16 -> HalvesType]]
    BY <1>2, <2>1 DEF Return, TypeOK, Note
  <2> QED BY <1>2, <2>1, <2>2 DEF Return, TypeOK
<1>3. ASSUME UNCHANGED vars PROVE TypeOK'
  BY <1>3 DEF vars, TypeOK
<1> QED BY <1>1, <1>2, <1>3 DEF Next

\* Whether the trail holds the i-th halves of call p.
Walked(p, i) == p < pass \/ (p = pass /\ i <= n)

\* The trail is the walk of the first three calls, and the other three are on
\* their way back along it.
Trailed ==
  /\ trail[1][0] = Halves(data)
  /\ \A p \in 1 .. 3, i \in 1 .. 16 :
       Walked(p, i) => trail[p][i] = Round(trail[p][i - 1], key(p, i))
  /\ \A p \in 2 .. 3 : p <= pass => trail[p][0] = Halves(Output(trail[p - 1][16]))

\* The halves of the calls so far are those of the trail, and the last call ends with the
\* block that the first began with.
Retraced ==
  /\ pass \in 1 .. 3 => h = trail[pass][n]
  /\ pass \in 4 .. 6 => h = exchanged(trail[7 - pass][16 - n])
  /\ pass = 7 => block = data

\* The inductive invariant: six calls of sixteen rounds end where they began.
IInv == TypeOK /\ Trailed /\ Retraced

\* The invariant of the rounds holds at first.
LEMMA InvInit == ASSUME Init PROVE IInv
<1>1. TypeOK
  BY TypeInit
<1>2. Trailed
  BY DEF Init, Trailed, Walked
<1>3. Retraced
  BY DEF Init, Retraced
<1> QED BY <1>1, <1>2, <1>3 DEF IInv

\* The round keys of a walk stay what they are.
LEMMA KeyUnchanged ==
  ASSUME UNCHANGED <<k1, k2>>, NEW p, NEW i PROVE key(p, i)' = key(p, i)
BY DEF key, KeyOf

\* A round of the first three calls extends the trail.
LEMMA RoundOut ==
  ASSUME IInv, DoRound, pass \in 1 .. 3 PROVE (Trailed /\ Retraced)'
<1>1. trail' = [trail EXCEPT ![pass][n + 1] = h']
  BY DEF DoRound, Note
<1>2. h' = Round(trail[pass][n], key(pass, n + 1))
  BY DEF DoRound, IInv, Retraced, key
<1>3. /\ n \in 0 .. 15 /\ n' = n + 1 /\ pass' = pass /\ data' = data
      /\ trail \in [1 .. 3 -> [0 .. 16 -> HalvesType]]
  BY DEF DoRound, IInv, TypeOK
<1>4. \A p \in 1 .. 3, i \in 0 .. 16 :
        trail'[p][i] = IF p = pass /\ i = n + 1 THEN h' ELSE trail[p][i]
  BY <1>1, <1>3
<1>5. Trailed'
  <2>1. trail'[1][0] = Halves(data')
    BY <1>3, <1>4 DEF IInv, Trailed
  <2>2. ASSUME NEW p \in 1 .. 3, NEW i \in 1 .. 16, Walked(p, i)'
        PROVE  trail'[p][i] = Round(trail'[p][i - 1], key(p, i)')
    <3>1. key(p, i)' = key(p, i)
      BY KeyUnchanged DEF DoRound
    <3>2. CASE p = pass /\ i = n + 1
      <4>1. trail'[p][i] = h' /\ trail'[p][i - 1] = trail[pass][n]
        BY <1>3, <1>4, <3>2
      <4> QED BY <1>2, <3>1, <3>2, <4>1
    <3>3. CASE ~(p = pass /\ i = n + 1)
      <4>1. Walked(p, i) /\ ~(p = pass /\ i - 1 = n + 1)
        BY <1>3, <2>2, <3>3 DEF Walked, IInv, TypeOK
      <4>2. trail'[p][i] = trail[p][i] /\ trail'[p][i - 1] = trail[p][i - 1]
        BY <1>4, <3>3, <4>1
      <4> QED BY <3>1, <4>1, <4>2 DEF IInv, Trailed
    <3> QED BY <3>2, <3>3
  <2>3. ASSUME NEW p \in 2 .. 3, p <= pass'
        PROVE  trail'[p][0] = Halves(Output(trail'[p - 1][16]))
    <3>1. trail'[p][0] = trail[p][0] /\ trail'[p - 1][16] = trail[p - 1][16]
      BY <1>3, <1>4, <2>3
    <3> QED BY <1>3, <2>3, <3>1 DEF IInv, Trailed
  <2> QED BY <2>1, <2>2, <2>3 DEF Trailed
<1>6. Retraced'
  BY <1>3, <1>4 DEF Retraced
<1> QED BY <1>5, <1>6

\* Trailed speaks of the calls that the trail has room for only.
LEMMA TrailKept ==
  ASSUME Trailed, TypeOK, UNCHANGED <<data, k1, k2, trail>>, pass \in 3 .. 6,
         pass = 3 => n = 16, pass' \in 3 .. 7
  PROVE  Trailed'
<1>1. ASSUME NEW p \in 1 .. 3, NEW i \in 1 .. 16
      PROVE  Walked(p, i) /\ key(p, i)' = key(p, i)
  BY KeyUnchanged DEF Walked, TypeOK
<1> QED BY <1>1 DEF Trailed

\* A round of the other three goes one step back along it.
LEMMA RoundBack ==
  ASSUME IInv, DoRound, pass \in 4 .. 6 PROVE (Trailed /\ Retraced)'
<1> DEFINE p == 7 - pass
           i == 16 - n
<1>1. n \in 0 .. 15 /\ p \in 1 .. 3 /\ i \in 1 .. 16
  BY DEF DoRound, IInv, TypeOK
<1>2. trail' = trail /\ pass' = pass /\ n' = n + 1
  BY DEF DoRound, Note
<1>3. trail[p][i] = Round(trail[p][i - 1], key(p, i)) /\ trail[p][i - 1] \in HalvesType
  BY <1>1 DEF IInv, Trailed, Walked, TypeOK
<1>4. h = exchanged(trail[p][i])
  BY DEF IInv, Retraced
<1>5. h' = Round(h, key(pass, n + 1))
  BY DEF DoRound, key
<1>6. key(pass, n + 1) = key(p, i)
  <2>1. n + 1 \in 1 .. 16 /\ i = 17 - (n + 1)
    BY <1>1
  <2> HIDE DEF i
  <2> QED BY <2>1, KeysReversed
<1>7. h' = exchanged(trail[p][i - 1])
  BY <1>3, <1>4, <1>5, <1>6, RoundUndone
<1>8. Retraced'
  <2>1. i - 1 = 16 - n'
    BY <1>1, <1>2
  <2> QED BY <1>2, <1>7, <2>1 DEF Retraced
<1>9. Trailed'
  BY <1>2, TrailKept DEF IInv, DoRound
<1> QED BY <1>8, <1>9

\* Another call begins where the one before it ended.
LEMMA ReturnStep == ASSUME IInv, Return PROVE (Trailed /\ Retraced)'
<1>1. n = 16 /\ n' = 0 /\ pass' = pass + 1 /\ pass \in 1 .. 6 /\ data' = data
  BY DEF Return, IInv, TypeOK
<1>2. h' = Halves(Output(h)) /\ block' = Output(h)
  BY DEF Return
<1>3. CASE pass \in 1 .. 2
  <2>1. trail' = [trail EXCEPT ![pass + 1][0] = h']
    BY <1>1, <1>3 DEF Return, Note
  <2>2. trail \in [1 .. 3 -> [0 .. 16 -> HalvesType]]
    BY DEF IInv, TypeOK
  <2>3. \A p \in 1 .. 3, i \in 0 .. 16 :
          trail'[p][i] = IF p = pass + 1 /\ i = 0 THEN h' ELSE trail[p][i]
    BY <1>3, <2>1, <2>2
  <2>4. trail'[pass + 1][0] = Halves(Output(trail[pass][16])) /\ h' = trail'[pass + 1][0]
    BY <1>1, <1>2, <1>3, <2>3 DEF IInv, Retraced
  <2>5. Retraced'
    BY <1>1, <1>3, <2>4 DEF Retraced
  <2>6. trail'[1][0] = Halves(data')
    BY <1>1, <1>3, <2>3 DEF IInv, Trailed
  <2>7. ASSUME NEW p \in 1 .. 3, NEW i \in 1 .. 16, Walked(p, i)'
        PROVE  trail'[p][i] = Round(trail'[p][i - 1], key(p, i)')
    <3>1. key(p, i)' = key(p, i)
      BY KeyUnchanged DEF Return
    <3>2. Walked(p, i) /\ p <= pass
      BY <1>1, <1>3, <2>7 DEF Walked
    <3>3. trail'[p][i] = trail[p][i] /\ trail'[p][i - 1] = trail[p][i - 1]
      BY <1>3, <2>3, <3>2
    <3> QED BY <3>1, <3>2, <3>3 DEF IInv, Trailed
  <2>8. ASSUME NEW p \in 2 .. 3, p <= pass'
        PROVE  trail'[p][0] = Halves(Output(trail'[p - 1][16]))
    <3>1. trail'[p - 1][16] = trail[p - 1][16]
      BY <2>3
    <3>2. CASE p = pass + 1
      <4>1. p - 1 = pass
        BY <1>3, <3>2
      <4> QED BY <2>4, <3>1, <3>2, <4>1
    <3>3. CASE p <= pass
      <4>1. trail'[p][0] = trail[p][0]
        BY <1>3, <2>3, <3>3
      <4> QED BY <3>1, <3>3, <4>1 DEF IInv, Trailed
    <3> QED BY <1>1, <1>3, <2>8, <3>2, <3>3
  <2> QED BY <2>5, <2>6, <2>7, <2>8 DEF Trailed
<1>4. CASE pass \in 3 .. 6
  <2>1. trail' = trail /\ Trailed'
    <3>1. trail' = trail
      BY <1>4 DEF Return, Note
    <3> QED BY <1>1, <1>4, <3>1, TrailKept DEF IInv, Return
  <2>2. CASE pass = 3
    <3>1. h = trail[3][16] /\ h \in HalvesType
      BY <1>1, <2>2 DEF IInv, Retraced, TypeOK
    <3>2. h' = exchanged(trail[3][16])
      BY <1>2, <3>1, HalvesOfOutput
    <3>3. pass' = 4
      BY <1>1, <2>2
    <3> QED BY <1>1, <2>1, <3>2, <3>3 DEF Retraced
  <2>3. CASE pass \in 4 .. 5
    <3> DEFINE p == 7 - pass
    <3>1. p \in 2 .. 3 /\ 7 - pass' = p - 1
      BY <1>1, <2>3
    <3>2. h = exchanged(trail[p][0])
      BY <1>1, <2>3 DEF IInv, Retraced
    <3>3. trail[p][0] = Halves(Output(trail[p - 1][16]))
      BY <2>3, <3>1 DEF IInv, Trailed
    <3>4. Output(h) = Output(trail[p - 1][16])
      BY <3>2, <3>3, OutputType, OutputOfHalves
    <3>5. trail[p - 1][16] \in HalvesType
      BY <3>1 DEF IInv, TypeOK
    <3>6. h' = exchanged(trail[p - 1][16])
      BY <1>2, <3>4, <3>5, HalvesOfOutput
    <3>7. pass' \in 5 .. 6
      BY <1>1, <2>3
    <3> QED BY <1>1, <2>1, <3>1, <3>6, <3>7 DEF Retraced
  <2>4. CASE pass = 6
    <3>1. h = exchanged(Halves(data))
      BY <1>1, <2>4 DEF IInv, Retraced, Trailed
    <3>2. data \in Bits64
      BY InputType DEF IInv, TypeOK
    <3>3. block' = data'
      BY <1>1, <1>2, <3>1, <3>2, OutputOfHalves
    <3>4. pass' = 7
      BY <1>1, <2>4
    <3> QED BY <2>1, <3>3, <3>4 DEF Retraced
  <2> QED BY <1>4, <2>2, <2>3, <2>4
<1> QED BY <1>1, <1>3, <1>4

\* Every round and every return keeps the invariant of the rounds.
LEMMA InvNext == ASSUME IInv, [Next]_vars PROVE IInv'
<1>1. TypeOK'
  BY TypeNext DEF IInv
<1>2. CASE DoRound
  <2>1. pass \in 1 .. 6
    BY <1>2 DEF DoRound, IInv, TypeOK
  <2> QED BY <1>1, <1>2, <2>1, RoundOut, RoundBack DEF IInv
<1>3. CASE Return
  BY <1>1, <1>3, ReturnStep DEF IInv
<1>4. CASE UNCHANGED vars
  <2>1. \A p, i : key(p, i)' = key(p, i)
    BY <1>4, KeyUnchanged DEF vars
  <2>2. Trailed'
    BY <1>4, <2>1 DEF IInv, Trailed, Walked, vars
  <2>3. Retraced'
    BY <1>4 DEF IInv, Retraced, vars
  <2> QED BY <1>1, <2>2, <2>3 DEF IInv
<1> QED BY <1>2, <1>3, <1>4 DEF Next

\* The walk out and the walk back keep to the trail, for every block and every two keys
\* (des.rs des_block, tdes_encrypt, tdes_decrypt).
THEOREM Invariance == Spec => []IInv
<1>1. Init => IInv
  BY InvInit
<1>2. IInv /\ [Next]_vars => IInv'
  BY InvNext
<1> QED BY <1>1, <1>2, PTL DEF Spec

\* The state variables keep their types, for every set of blocks and keys.
THEOREM TypeCorrect == Spec => []TypeOK
<1>1. IInv => TypeOK
  BY DEF IInv
<1> QED BY <1>1, Invariance, PTL

\* tdes_decrypt undoes tdes_encrypt (des.rs), for every block and every two keys.
THEOREM DecryptionInverts == Spec => []DecryptInverts
<1>1. IInv => DecryptInverts
  BY DEF IInv, Retraced, DecryptInverts
<1> QED BY <1>1, Invariance, PTL

-----------------------------------------------------------------------------
(* Parity bits *)

\* The last bit of a key byte reaches no round key (des.rs PC1).
LEMMA RoundKeysIgnoreParity ==
  ASSUME NEW k PROVE round_keys(k) = round_keys(k \cup Parity)
<1>1. permute(k, PC1) = permute(k \cup Parity, PC1)
  <2>1. \A i \in 0 .. Len(PC1) - 1 : i + 1 \in DOMAIN PC1
    BY DEF PC1
  <2>2. \A i \in 0 .. Len(PC1) - 1 : PC1[i + 1] \notin Parity
    BY <2>1, PC1SkipsParity
  <2> QED BY <2>2 DEF permute
<1> QED BY <1>1 DEF round_keys

\* A key and the same key with its parity bits set yield the same rounds, for
\* every key.
THEOREM ParityIsIgnored == Spec => []ParityIgnored
<1>1. ParityIgnored
  BY RoundKeysIgnoreParity DEF ParityIgnored
<1> QED BY <1>1, PTL

-----------------------------------------------------------------------------
(* Frames of every length *)

\* What is sealed is the frame of the payload, and what is opened is made of it.
FrameInv ==
  /\ payload \in Seq(Byte) /\ code \in Codes
  /\ sealed # <<>> => sealed = encrypt_command(code, Key, payload)
  /\ sealed = <<>> => opened = Unopened
  /\ opened # Unopened =>
       \E c \in Codes :
         opened = [code |-> c, ok |-> check_mac(cbc_decrypt(sealed, Key), c),
                   data |-> cbc_decrypt(sealed, Key)]

\* The invariant of the frames holds before anything is sealed.
LEMMA FrameInvInit == ASSUME FrameInit PROVE FrameInv
<1>1. payload \in Seq(Byte)
  <2>1. shortest \in Nat /\ payload = [i \in 1 .. shortest |-> ByteAt(i)]
    BY FrameType DEF FrameInit
  <2>2. \A i \in 1 .. shortest : ByteAt(i) \in Byte
    BY <2>1 DEF ByteAt, Byte
  <2>3. payload \in [1 .. shortest -> Byte]
    BY <2>1, <2>2
  <2> QED BY <2>1, <2>3, SeqDef
<1> QED BY <1>1 DEF FrameInit, FrameInv

\* Choosing, sealing and opening keep the invariant of the frames.
LEMMA FrameInvNext == ASSUME FrameInv, [FrameNext]_frameVars PROVE FrameInv'
<1>1. CASE Grow
  <2>1. ByteAt(Len(payload) + 1) \in Byte
    <3> DEFINE len == 37 * (Len(payload) + 1)
    <3>1. len \in Nat
      BY LenProperties DEF FrameInv
    <3> HIDE DEF len
    <3>2. len % 256 \in Byte
      BY <3>1 DEF Byte
    <3> QED BY <3>2 DEF ByteAt, len
  <2>2. payload' \in Seq(Byte)
    BY <1>1, <2>1, AppendProperties DEF FrameInv, Grow
  <2> QED BY <1>1, <2>2 DEF FrameInv, Grow
<1>2. CASE Seal
  BY <1>2 DEF FrameInv, Seal
<1>3. ASSUME NEW c \in Codes, Open(c) PROVE FrameInv'
  BY <1>3 DEF FrameInv, Open
<1>4. CASE UNCHANGED frameVars
  BY <1>4 DEF FrameInv, frameVars
<1> QED BY <1>1, <1>2, <1>3, <1>4 DEF FrameNext

\* What is sealed and opened is always a frame of the payload, of any length and under any
\* key and code (schedule.rs encrypt_command, check_mac).
THEOREM FrameInvariance == FrameSpec => []FrameInv
<1>1. FrameInit => FrameInv
  BY FrameInvInit
<1>2. FrameInv /\ [FrameNext]_frameVars => FrameInv'
  BY FrameInvNext
<1> QED BY <1>1, <1>2, PTL DEF FrameSpec

\* A frame of any payload opens under its own opcode and no other, and gives the
\* payload back (schedule.rs check_mac, encrypt_command).
THEOREM FramesOpen == FrameSpec => []OpensUnderItsCode
<1>1. ASSUME FrameInv PROVE OpensUnderItsCode
  <2> SUFFICES ASSUME opened # Unopened
      PROVE  /\ opened.ok <=> opened.code = code /\ payload # <<>>
             /\ SubSeq(opened.data, 1, Len(payload)) = payload
    BY DEF OpensUnderItsCode
  <2> DEFINE d == cbc_decrypt(encrypt_command(code, Key, payload), Key)
  <2>1. PICK c \in Codes : opened = [code |-> c, ok |-> check_mac(d, c), data |-> d]
    BY <1>1 DEF FrameInv
  <2>2. payload \in Seq(Byte) /\ code \in Byte /\ c \in Byte
    BY <1>1, FrameType DEF FrameInv
  <2>3. /\ check_mac(d, c) <=> c = code /\ payload # <<>>
        /\ SubSeq(d, 1, Len(payload)) = payload
    BY <2>2, FrameOpens
  <2> HIDE DEF d
  <2>4. opened.code = c /\ opened.ok = check_mac(d, c) /\ opened.data = d
    BY <2>1
  <2> QED BY <2>3, <2>4, Zenon
<1> QED BY <1>1, FrameInvariance, PTL

\* The padding and the MAC of a frame of any length, and the byte its length is
\* folded into: no length makes check_mac panic (schedule.rs check_mac).
THEOREM LengthsAlwaysFit == FrameSpec => []LengthsFit
<1>1. ASSUME FrameInv PROVE LengthsFit
  <2> SUFFICES ASSUME sealed # <<>>
      PROVE  /\ Len(sealed) % 8 = 0 /\ Len(sealed) - 8 - Len(payload) \in 0 .. 7
             /\ expected_len(sealed) <= 255
    BY DEF LengthsFit
  <2>1. payload \in Seq(Byte) /\ code \in Byte /\ sealed = encrypt_command(code, Key, payload)
    BY <1>1, FrameType DEF FrameInv
  <2>2. PICK m \in Nat : 8 * m - Len(payload) \in 0 .. 7 /\ sealed \in Blocks(m + 1)
    BY <2>1, FrameOpens
  <2>3. Len(payload) \in Nat /\ Len(sealed) = 8 * (m + 1)
    BY <2>1, <2>2, LenProperties DEF Blocks
  <2> DEFINE len == 8 * (m + 1)
  <2>4. len \in Nat /\ len % 8 = 0 /\ (len % 256) + 2 <= 255
    OBVIOUS
  <2>5. len - 8 - Len(payload) \in 0 .. 7
    BY <2>2, <2>3
  <2> QED BY <2>3, <2>4, <2>5, Zenon DEF expected_len
<1> QED BY <1>1, FrameInvariance, PTL

-----------------------------------------------------------------------------
(* Sessions *)

\* Two strings of bytes one after the other.
LEMMA Joined ==
  ASSUME NEW a \in Seq(Byte), NEW b \in Seq(Byte)
  PROVE  a \o b \in Seq(Byte) /\ Len(a \o b) = Len(a) + Len(b)
BY ConcatProperties

\* The TID is six bytes of a challenge.
LEMMA TailOfBlock ==
  ASSUME NEW b \in BlockType
  PROVE  SubSeq(b, 3, 8) \in Seq(Byte) /\ Len(SubSeq(b, 3, 8)) = 6
<1> DEFINE first == 3
           last == 8
<1>1. first \in Int /\ last \in Int /\ \A i \in first .. last : b[i] \in Byte
  BY DEF BlockType
<1>2. (IF first <= last THEN last - first + 1 ELSE 0) = 6
  OBVIOUS
<1> HIDE DEF first, last
<1>3. /\ SubSeq(b, first, last) \in Seq(Byte)
      /\ Len(SubSeq(b, first, last)) = (IF first <= last THEN last - first + 1 ELSE 0)
  BY <1>1, SubSeqProperties
<1> QED BY <1>2, <1>3 DEF first, last

\* AUTH2 is a frame of four blocks (schedule.rs encrypt_command, mod.rs).
LEMMA Auth2Type ==
  ASSUME NEW c \in CardType, NEW r \in BlockType
  PROVE  CardAuth2(c, tail(r)) \in Blocks(4)
<1> DEFINE tn == <<c.tn, 0>>
<1>1. tn \in Seq(Byte) /\ Len(tn) = 2
  BY DEF CardType, Byte
<1>2. tail(r) \in Seq(Byte) /\ Len(tail(r)) = 6
  BY TailOfBlock DEF tail
<1>3. /\ c.idi \in Seq(Byte) /\ Len(c.idi) = 8 /\ c.pmi \in Seq(Byte) /\ Len(c.pmi) = 8
      /\ c.r2 \in BlockType
  BY BlockLength DEF CardType
<1> HIDE DEF tn
<1> DEFINE half == tn \o tail(r)
           most == half \o c.idi
           all == most \o c.pmi
<1>4. half \in Seq(Byte) /\ Len(half) = Len(tn) + Len(tail(r))
  BY <1>1, <1>2, Joined
<1> HIDE DEF half
<1>5. most \in Seq(Byte) /\ Len(most) = Len(half) + Len(c.idi)
  BY <1>3, <1>4, Joined
<1> HIDE DEF most
<1>6. all \in Seq(Byte) /\ Len(all) = Len(most) + Len(c.pmi)
  BY <1>3, <1>5, Joined
<1> HIDE DEF all
<1>7. Len(all) = 24
  BY <1>1, <1>2, <1>3, <1>4, <1>5, <1>6
<1>8. AUTH2_CODE \in Byte
  BY DEF AUTH2_CODE, Byte
<1>9. PICK m \in Nat : /\ 8 * m - Len(all) \in 0 .. 7
                       /\ encrypt_command(AUTH2_CODE, c.r2, all) \in Blocks(m + 1)
  <2> DEFINE opcode == AUTH2_CODE
             r2 == c.r2
             seq == all
  <2>1. opcode \in Byte /\ seq \in Seq(Byte)
    BY <1>6, <1>8
  <2> HIDE DEF opcode, r2, seq
  <2>2. \E m \in Nat : /\ 8 * m - Len(seq) \in 0 .. 7
                       /\ encrypt_command(opcode, r2, seq) \in Blocks(m + 1)
    BY <2>1, FrameOpens
  <2> QED BY <2>2 DEF opcode, r2, seq
<1>10. m = 3
  BY <1>7, <1>9
<1>11. encrypt_command(AUTH2_CODE, c.r2, all) \in Blocks(4)
  BY <1>9, <1>10
<1> QED BY <1>11, Zenon DEF CardAuth2, all, most, half, tn

\* A flipped byte leaves a string of bytes of the same length.
LEMMA FlippedType ==
  ASSUME NEW b \in Seq(Byte), NEW i \in DOMAIN b, NEW mask
  PROVE  FlipByte(b, i, mask) \in Seq(Byte) /\ Len(FlipByte(b, i, mask)) = Len(b)
<1> DEFINE e == ValueOf(xor(bits_of(b[i], 8), mask), 8)
<1>1. FlipByte(b, i, mask) = [b EXCEPT ![i] = e]
  BY DEF FlipByte
<1>2. e \in Byte
  BY ByteOfBits
<1> HIDE DEF e
<1>3. i \in 1 .. Len(b)
  BY LenProperties
<1> QED BY <1>1, <1>2, <1>3, ExceptSeq

\* A flipped byte leaves a block a block.
LEMMA FlippedBlock ==
  ASSUME NEW b \in BlockType, NEW i \in 1 .. 8, NEW mask
  PROVE  FlipByte(b, i, mask) \in BlockType
<1> DEFINE e == ValueOf(xor(bits_of(b[i], 8), mask), 8)
<1>1. FlipByte(b, i, mask) = [b EXCEPT ![i] = e]
  BY DEF FlipByte
<1>2. e \in Byte
  BY ByteOfBits
<1> HIDE DEF e
<1> QED BY <1>1, <1>2 DEF BlockType

\* The intermediate keys of a card (schedule.rs IntermediateKeys::derive).
LEMMA DerivedKeys ==
  ASSUME NEW g, NEW u, NEW idm
  PROVE  derive(g, u, idm) =
           [l |-> xor_bytes(g, idm), alpha |-> des_encrypt(u, xor_bytes(g, idm)),
            beta |-> des_encrypt(xor_bytes(g, idm), des_encrypt(u, xor_bytes(g, idm)))]
<1> DEFINE l == xor_bytes(g, idm)
           alpha == des_encrypt(u, l)
<1>1. derive(g, u, idm) = WithAlpha(l)[alpha]
  BY Zenon DEF derive, Derived
<1>2. alpha \in BlockType
  BY BlocksComputed, Zenon DEF des_encrypt
<1> HIDE DEF alpha
<1>3. WithAlpha(l)[alpha] = [l |-> l, alpha |-> alpha, beta |-> des_encrypt(l, alpha)]
  BY <1>2, Zenon DEF WithAlpha
<1> QED BY <1>1, <1>3 DEF alpha

\* The keys, challenges and plaintext that both verifiers recover of a session.
KeysFor(g, u, w) == derive(g, u, w.idm)
R1For(g, u, w) == tdes_decrypt(w.c1b, KeysFor(g, u, w).l, KeysFor(g, u, w).beta)
R2For(g, u, w) == tdes_decrypt(w.c2a, KeysFor(g, u, w).l, KeysFor(g, u, w).beta)
PlainFor(g, u, w) == cbc_decrypt(w.auth2, R2For(g, u, w))

\* What they make of them (mod.rs verify_session, lib.rs prove).
LEMMA VerdictOfServer ==
  ASSUME NEW g, NEW u, NEW w
  PROVE  verify_session(g, u, w) =
           IF ~check_mac(PlainFor(g, u, w), 19) THEN [err |-> "MacMismatch"]
           ELSE IF SubSeq(PlainFor(g, u, w), 3, 8) # SubSeq(R1For(g, u, w), 3, 8)
           THEN [err |-> "TidMismatch"]
           ELSE [err |-> "none", r1 |-> R1For(g, u, w), r2 |-> R2For(g, u, w),
                 idi |-> SubSeq(PlainFor(g, u, w), 9, 16)]
<1> DEFINE r1 == R1For(g, u, w)
           r2 == R2For(g, u, w)
           pt == PlainFor(g, u, w)
<1>0. verify_session(g, u, w) = SameSession(r1, r2, OpenedAuth2(pt))
  BY DEF verify_session, JudgedFor, Challenges, Judged, verify_auth2, R1For, R2For, PlainFor,
         KeysFor
<1> HIDE DEF r1, r2, pt
<1>2. OpenedAuth2(pt) =
        IF check_mac(pt, 19)
        THEN [err |-> "none", tid |-> SubSeq(pt, 3, 8), idi |-> SubSeq(pt, 9, 16)]
        ELSE [err |-> "MacMismatch"]
  BY Zenon DEF OpenedAuth2, AUTH2_CODE
<1> DEFINE wanted == IF ~check_mac(pt, 19) THEN [err |-> "MacMismatch"]
                     ELSE IF SubSeq(pt, 3, 8) # SubSeq(r1, 3, 8) THEN [err |-> "TidMismatch"]
                     ELSE [err |-> "none", r1 |-> r1, r2 |-> r2, idi |-> SubSeq(pt, 9, 16)]
<1>3. ASSUME check_mac(pt, 19) PROVE verify_session(g, u, w) = wanted
  <2> DEFINE tid == SubSeq(pt, 3, 8)
             idi == SubSeq(pt, 9, 16)
             auth == OpenedAuth2(pt)
  <2>1. auth = [err |-> "none", tid |-> tid, idi |-> idi]
    BY <1>2, <1>3, Zenon
  <2> HIDE DEF auth, tid, idi
  <2>2. auth.err = "none" /\ auth.tid = tid /\ auth.idi = idi
    BY <2>1
  <2>3. SameSession(r1, r2, auth) =
          IF tid # SubSeq(r1, 3, 8) THEN [err |-> "TidMismatch"]
          ELSE [err |-> "none", r1 |-> r1, r2 |-> r2, idi |-> idi]
    BY <2>2, Zenon DEF SameSession
  <2> QED BY <1>0, <1>3, <2>3, Zenon DEF auth, tid, idi
<1>4. ASSUME ~check_mac(pt, 19) PROVE verify_session(g, u, w) = wanted
  <2> DEFINE auth == OpenedAuth2(pt)
  <2>1. auth = [err |-> "MacMismatch"]
    BY <1>2, <1>4, Zenon
  <2> HIDE DEF auth
  <2>2. auth.err # "none"
    BY <2>1
  <2> QED BY <1>0, <1>4, <2>1, <2>2, Zenon DEF SameSession, auth
<1>5. verify_session(g, u, w) = wanted
  BY <1>3, <1>4
<1> QED BY <1>5, Zenon DEF wanted, r1, r2, pt

\* The prover's verdict: re-encrypting what was decrypted never fails it, so that the MAC and
\* the TID are all it can refuse a session for (lib.rs prove).
LEMMA VerdictOfProver ==
  ASSUME NEW g, NEW u, NEW w, w.c1b \in BlockType, w.c2a \in BlockType
  PROVE  /\ Recovered(LBeta(xor_bytes(g, w.idm), u), w)
              = [l |-> KeysFor(g, u, w).l, beta |-> KeysFor(g, u, w).beta,
                 r1 |-> R1For(g, u, w), r2 |-> R2For(g, u, w)]
         /\ precheck(g, u, w) =
              IF command_mac(19, SubSeq(PlainFor(g, u, w), 1, 24))
                   # SubSeq(PlainFor(g, u, w), 25, 32)
              THEN [err |-> "MacMismatch"]
              ELSE IF SubSeq(PlainFor(g, u, w), 3, 8) # SubSeq(R1For(g, u, w), 3, 8)
              THEN [err |-> "TidMismatch"]
              ELSE [err |-> "none", l |-> KeysFor(g, u, w).l, beta |-> KeysFor(g, u, w).beta,
                    r1 |-> R1For(g, u, w), r2 |-> R2For(g, u, w),
                    idi |-> SubSeq(PlainFor(g, u, w), 9, 16)]
<1> DEFINE keys == KeysFor(g, u, w)
           r1 == R1For(g, u, w)
           r2 == R2For(g, u, w)
           pt == PlainFor(g, u, w)
<1>0. /\ keys = derive(g, u, w.idm) /\ pt = cbc_decrypt(w.auth2, r2)
      /\ r1 = tdes_decrypt(w.c1b, keys.l, keys.beta)
      /\ r2 = tdes_decrypt(w.c2a, keys.l, keys.beta)
  BY Zenon DEF KeysFor, R1For, R2For, PlainFor
<1> HIDE DEF keys, r1, r2, pt
<1> DEFINE l == xor_bytes(g, w.idm)
           lb == LBeta(l, u)
           s == [l |-> keys.l, beta |-> keys.beta, r1 |-> r1, r2 |-> r2]
<1>1. /\ keys = [l |-> l, alpha |-> des_encrypt(u, l), beta |-> des_encrypt(l, des_encrypt(u, l))]
      /\ lb = [l |-> l, beta |-> des_encrypt(l, des_encrypt(u, l))]
  BY <1>0, DerivedKeys, Zenon DEF LBeta
<1>2. keys.l = l /\ keys.beta = des_encrypt(l, des_encrypt(u, l)) /\ lb.l = l
      /\ lb.beta = keys.beta /\ keys.alpha = des_encrypt(u, l)
  BY <1>1
<1> HIDE DEF lb
<1>3. Recovered(lb, w) = s
  BY <1>0, <1>2, Zenon DEF Recovered
<1>4. s.l = keys.l /\ s.beta = keys.beta /\ s.r1 = r1 /\ s.r2 = r2
  OBVIOUS
<1> HIDE DEF s
<1>5. ~(\E c \in {<<s.r1, w.c1b>>, <<s.r2, w.c2a>>} : ~Reencrypts(c[1], s, c[2]))
  <2>1. tdes_encrypt(r1, keys.l, keys.beta) = w.c1b /\ tdes_encrypt(r2, keys.l, keys.beta) = w.c2a
    BY <1>0, TdesInverts
  <2>2. Reencrypts(r1, s, w.c1b) /\ Reencrypts(r2, s, w.c2a)
    BY <1>4, <2>1, Zenon DEF Reencrypts
  <2> QED BY <1>4, <2>2
<1>6. Checked(w, s, pt) =
        IF command_mac(19, SubSeq(pt, 1, 24)) # SubSeq(pt, 25, 32)
        THEN [err |-> "MacMismatch"]
        ELSE IF SubSeq(pt, 3, 8) # SubSeq(s.r1, 3, 8) THEN [err |-> "TidMismatch"]
        ELSE [err |-> "none", l |-> s.l, beta |-> s.beta, r1 |-> s.r1, r2 |-> s.r2,
              idi |-> SubSeq(pt, 9, 16)]
  BY <1>5, Zenon DEF Checked
<1>7. precheck(g, u, w) = Checked(w, s, pt)
  BY <1>0, <1>3, <1>4, Zenon DEF precheck, CheckedFor, lb, l
<1> QED BY <1>3, <1>4, <1>6, <1>7, Zenon DEF lb, l, s, keys, r1, r2, pt

\* Unfolding the MAC in the last block and folding it anew find the same frames good
\* (schedule.rs check_mac, des.rs command_mac).
LEMMA LastBlock ==
  ASSUME NEW pt \in Blocks(4)
  PROVE  check_mac(pt, 19) <=> command_mac(19, SubSeq(pt, 1, 24)) = SubSeq(pt, 25, 32)
<1> DEFINE m == 3
           c == 19
<1>1. m \in Nat \ {0} /\ c \in Byte /\ pt \in Blocks(m + 1)
  BY DEF Byte
<1>2. 8 * m = 24 /\ 8 * (m + 1) - 7 = 25 /\ 8 * (m + 1) = 32
  OBVIOUS
<1> HIDE DEF m, c
<1>3. check_mac(pt, c) <=> command_mac(c, SubSeq(pt, 1, 8 * m)) = Block(pt, m + 1)
  BY <1>1, MacAgrees
<1> QED BY <1>2, <1>3, Zenon DEF Block, c

\* The two verifiers agree on every session, whatever bytes it is made of.
LEMMA VerifiersMatch ==
  ASSUME NEW g, NEW u, NEW w,
         w.c1b \in BlockType, w.c2a \in BlockType, w.auth2 \in Blocks(4),
         NEW o, o = verify_session(g, u, w), NEW p, p = precheck(g, u, w)
  PROVE  /\ o.err = p.err
         /\ Accepted(o) => o.r1 = p.r1 /\ o.r2 = p.r2 /\ o.idi = p.idi
<1> DEFINE r1 == R1For(g, u, w)
           r2 == R2For(g, u, w)
           pt == PlainFor(g, u, w)
           idi == SubSeq(pt, 9, 16)
           l == KeysFor(g, u, w).l
           beta == KeysFor(g, u, w).beta
           mac == check_mac(pt, 19)
           tid == SubSeq(pt, 3, 8) = SubSeq(r1, 3, 8)
<1>1. pt \in Blocks(4)
  <2> DEFINE len == 4
  <2>1. len \in Nat /\ w.auth2 \in Blocks(len)
    OBVIOUS
  <2> HIDE DEF len
  <2>2. pt \in Blocks(len)
    BY <2>1, CbcDecrypts DEF PlainFor
  <2> QED BY <2>2 DEF len
<1>2. mac <=> command_mac(19, SubSeq(pt, 1, 24)) = SubSeq(pt, 25, 32)
  BY <1>1, LastBlock
<1>4. o = IF ~mac THEN [err |-> "MacMismatch"]
          ELSE IF ~tid THEN [err |-> "TidMismatch"]
          ELSE [err |-> "none", r1 |-> r1, r2 |-> r2, idi |-> idi]
  BY VerdictOfServer, Zenon
<1>5. p = IF command_mac(19, SubSeq(pt, 1, 24)) # SubSeq(pt, 25, 32)
          THEN [err |-> "MacMismatch"]
          ELSE IF ~tid THEN [err |-> "TidMismatch"]
          ELSE [err |-> "none", l |-> l, beta |-> beta, r1 |-> r1, r2 |-> r2, idi |-> idi]
  BY VerdictOfProver, Zenon
<1>6. p = IF ~mac THEN [err |-> "MacMismatch"]
          ELSE IF ~tid THEN [err |-> "TidMismatch"]
          ELSE [err |-> "none", l |-> l, beta |-> beta, r1 |-> r1, r2 |-> r2, idi |-> idi]
  BY <1>2, <1>5, Zenon
<1> HIDE DEF mac, tid, l, beta, idi, r1, r2, pt
<1>7. CASE ~mac
  BY <1>4, <1>6, <1>7 DEF Accepted
<1>8. CASE mac /\ ~tid
  BY <1>4, <1>6, <1>8 DEF Accepted
<1>9. CASE mac /\ tid
  BY <1>4, <1>6, <1>9 DEF Accepted
<1> QED BY <1>7, <1>8, <1>9

\* The parts of the wire the verifiers read, once the card has answered.
WireTyped(w) ==
  /\ DOMAIN w = {"idm", "c1b", "c2a", "auth2", "ecmd", "resp"}
  /\ w["idm"] \in BlockType /\ w["c1b"] \in BlockType /\ w["c2a"] \in BlockType
  /\ w["auth2"] \in Blocks(4)

\* The answers of a card are of the types the verifiers expect.
LEMMA AnswersTyped ==
  ASSUME NEW c \in CardType, NEW keys, NEW r \in BlockType PROVE WireTyped(Answers(c, keys, r))
<1> DEFINE c1b == tdes_encrypt(r, keys.l, keys.beta)
           c2a == tdes_encrypt(c.r2, keys.l, keys.beta)
           auth2 == CardAuth2(c, tail(r))
           idm == c.idm
<1>1. c1b \in BlockType /\ c2a \in BlockType /\ auth2 \in Blocks(4) /\ idm \in BlockType
  BY TdesInverts, Auth2Type DEF CardType
<1>2. Answers(c, keys, r) = [idm |-> idm, c1b |-> c1b, c2a |-> c2a, auth2 |-> auth2,
                             ecmd |-> <<>>, resp |-> <<>>]
  BY Zenon DEF Answers
<1> HIDE DEF c1b, c2a, auth2, idm
<1> QED BY <1>1, <1>2 DEF WireTyped

\* A flipped byte of the answers leaves them of those types.
LEMMA HitKeepsTypes ==
  ASSUME NEW w, WireTyped(w), NEW f \in DOMAIN w, NEW i \in DOMAIN w[f], NEW mask
  PROVE  WireTyped([w EXCEPT ![f] = FlipByte(@, i, mask)])
<1> DEFINE part == FlipByte(w[f], i, mask)
           hurt == [w EXCEPT ![f] = FlipByte(@, i, mask)]
<1>1. /\ DOMAIN hurt = DOMAIN w /\ hurt[f] = part
      /\ \A g \in DOMAIN w : g # f => hurt[g] = w[g]
  OBVIOUS
<1>2. f \in {"idm", "c1b", "c2a"} => part \in BlockType
  <2> SUFFICES ASSUME f \in {"idm", "c1b", "c2a"} PROVE part \in BlockType
    OBVIOUS
  <2>1. w[f] \in BlockType
    BY DEF WireTyped
  <2>2. DOMAIN w[f] = 1 .. 8
    BY <2>1 DEF BlockType
  <2> QED BY <2>1, <2>2, FlippedBlock
<1>3. f = "auth2" => part \in Blocks(4)
  <2> SUFFICES ASSUME f = "auth2" PROVE part \in Blocks(4)
    OBVIOUS
  <2>1. w[f] \in Seq(Byte) /\ Len(w[f]) = 8 * 4
    BY DEF WireTyped, Blocks
  <2>2. part \in Seq(Byte) /\ Len(part) = Len(w[f])
    BY <2>1, FlippedType
  <2> QED BY <2>1, <2>2 DEF Blocks
<1> HIDE DEF part, hurt
<1>4. WireTyped(hurt)
  BY <1>1, <1>2, <1>3 DEF WireTyped
<1> QED BY <1>4 DEF hurt

\* What is known of a session from its stage and its verdicts: each verdict is that
\* of the wire as it is now, since nothing changes it once the oracle has judged.
SessionInv ==
  /\ card \in Card
  /\ oracle # Pending => stage = "judged"
  /\ stage # "auth2" => WireTyped(wire)
  /\ oracle # Pending => oracle = verify_session(KGroup, KUser, wire)
  /\ prover # Pending => oracle # Pending /\ prover = precheck(KGroup, KUser, wire)
  /\ circuit # Pending =>
       prover # Pending /\ circuit = generate_constraints(Altered(Witness, forged))
  /\ forged \in {Sound} \cup Forgeries

\* The invariant of the sessions holds before the card has answered.
LEMMA SessionInvInit == ASSUME SessionInit PROVE SessionInv
BY DEF SessionInit, SessionInv

\* Every step of a session, a flipped byte among them, keeps its invariant.
LEMMA SessionInvNext == ASSUME SessionInv, [SessionNext]_sessionVars PROVE SessionInv'
<1> USE DEF SessionInv
<1>1. CASE Authenticate
  <2>1. PICK keys : wire' = Answers(card, keys, CardR1(c1a(card, keys), keys))
    BY <1>1, Zenon DEF Authenticate
  <2>2. CardR1(c1a(card, keys), keys) \in BlockType /\ card \in CardType
    BY SessionType, TdesInverts DEF CardR1, c1a, CardType
  <2>3. WireTyped(wire')
    BY <2>1, <2>2, AnswersTyped
  <2>4. oracle = Pending /\ prover = Pending /\ circuit = Pending
    BY <1>1 DEF Authenticate
  <2> QED BY <1>1, <2>3, <2>4 DEF Authenticate, verdicts
<1>2. CASE Settle
  <2>1. oracle = Pending /\ prover = Pending /\ circuit = Pending /\ WireTyped(wire)
    BY <1>2 DEF Settle
  <2>2. WireTyped(wire')
    BY <1>2, <2>1 DEF Settle, WireTyped
  <2> QED BY <1>2, <2>1, <2>2 DEF Settle, verdicts
<1>3. CASE Respond
  <2>1. oracle = Pending /\ prover = Pending /\ circuit = Pending /\ WireTyped(wire)
    BY <1>3 DEF Respond
  <2>2. WireTyped(wire')
    BY <1>3, <2>1 DEF Respond, WireTyped
  <2> QED BY <1>3, <2>1, <2>2 DEF Respond, verdicts
<1>4. ASSUME NEW f \in DOMAIN HitsOn, NEW mask \in Masks, NEW i \in HitsOn[f], Hit(f, i, mask)
      PROVE  SessionInv'
  <2>1. oracle = Pending /\ prover = Pending /\ circuit = Pending /\ stage # "auth2"
    BY <1>4 DEF Hit
  <2>2. f \in {"idm", "c1b", "c2a", "auth2", "ecmd", "resp"}
    BY <1>4 DEF Hit
  <2>3. WireTyped(wire) /\ f \in DOMAIN wire /\ i \in DOMAIN wire[f]
    BY <1>4, <2>1, <2>2 DEF Hit, WireTyped
  <2>4. WireTyped(wire')
    <3>1. wire' = [wire EXCEPT ![f] = FlipByte(@, i, mask)]
      BY <1>4 DEF Hit
    <3> QED BY <2>3, <3>1, HitKeepsTypes, Zenon
  <2> QED BY <1>4, <2>1, <2>4 DEF Hit, verdicts
<1>5. CASE VerifySession
  <2>1. prover = Pending /\ circuit = Pending
    BY <1>5 DEF VerifySession
  <2> QED BY <1>5, <2>1 DEF VerifySession
<1>6. CASE Precheck
  <2>1. circuit = Pending
    BY <1>6 DEF Precheck
  <2> QED BY <1>6, <2>1 DEF Precheck
<1>7. ASSUME NEW wrong \in {Sound} \cup Forgeries, CheckSatisfiable(wrong)
      PROVE  SessionInv'
  <2>1. UNCHANGED <<card, stage, wire, oracle, prover>> /\ prover # Pending
    BY <1>7 DEF CheckSatisfiable
  <2>2. Witness' = Witness
    BY <2>1, Zenon DEF Witness, WitnessOf
  <2>3. circuit' = generate_constraints(Altered(Witness', forged'))
    BY <1>7, <2>2, Zenon DEF CheckSatisfiable
  <2>4. forged' = wrong
    BY <1>7 DEF CheckSatisfiable
  <2> QED BY <2>1, <2>3, <2>4
<1>8. ASSUME UNCHANGED <<card, stage, wire, oracle, prover, circuit, forged>> PROVE SessionInv'
  <2>1. Witness' = Witness
    BY <1>8, Zenon DEF Witness, WitnessOf
  <2>2. (circuit = generate_constraints(Altered(Witness, forged)))
          = (circuit' = generate_constraints(Altered(Witness', forged')))
    BY <1>8, <2>1, Zenon
  <2> QED BY <1>8, <2>2
<1>9. CASE ReadResponse
  BY <1>8, <1>9 DEF ReadResponse
<1>10. CASE UNCHANGED sessionVars
  BY <1>8, <1>10 DEF sessionVars, verdicts
<1> QED BY <1>1, <1>2, <1>3, <1>4, <1>5, <1>6, <1>7, <1>9, <1>10 DEF SessionNext

\* Every verdict is that of the wire as it is, for any card and keys and whichever byte is
\* flipped on the way or in the witness (mod.rs verify_session, lib.rs prove).
THEOREM SessionInvariance == SessionSpec => []SessionInv
<1>1. SessionInit => SessionInv
  BY SessionInvInit
<1>2. SessionInv /\ [SessionNext]_sessionVars => SessionInv'
  BY SessionInvNext
<1> QED BY <1>1, <1>2, PTL DEF SessionSpec

\* verify_session and prove accept the same sessions for the same reasons, for every
\* card, key and damage on the wire (mod.rs verify_session, lib.rs prove).
THEOREM TheVerifiersAgree == SessionSpec => []VerifiersAgree
<1>1. ASSUME SessionInv PROVE VerifiersAgree
  <2> SUFFICES ASSUME oracle # Pending, prover # Pending
      PROVE  /\ oracle.err = prover.err
             /\ Accepted(oracle) => /\ oracle.r1 = prover.r1 /\ oracle.r2 = prover.r2
                                    /\ oracle.idi = prover.idi
    BY DEF VerifiersAgree
  <2>1. /\ oracle = verify_session(KGroup, KUser, wire)
        /\ prover = precheck(KGroup, KUser, wire)
        /\ WireTyped(wire)
    BY <1>1 DEF SessionInv
  <2>2. wire.c1b \in BlockType /\ wire.c2a \in BlockType /\ wire.auth2 \in Blocks(4)
    BY <2>1 DEF WireTyped
  <2> QED BY <2>1, <2>2, VerifiersMatch
<1> QED BY <1>1, SessionInvariance, PTL

-----------------------------------------------------------------------------
(* The circuit on the witness of a session *)

\* The second block of four, where the plaintext of AUTH2 holds the IDi.
LEMMA IdiType ==
  ASSUME NEW c \in Blocks(4), NEW k PROVE SubSeq(cbc_decrypt(c, k), 9, 16) \in BlockType
<1> DEFINE four == 4
           two == 2
           p == cbc_decrypt(c, k)
<1>1. four \in Nat /\ c \in Blocks(four) /\ two \in Nat \ {0} /\ 8 * two <= 8 * four
      /\ 8 * two - 7 = 9 /\ 8 * two = 16
  OBVIOUS
<1> HIDE DEF four, two
<1>2. p \in Blocks(four)
  BY <1>1, CbcDecrypts
<1> HIDE DEF p
<1>3. p \in Seq(Byte) /\ 8 * two <= Len(p)
  BY <1>1, <1>2 DEF Blocks
<1>4. Block(p, two) \in BlockType
  BY <1>1, <1>3, BlockOf
<1> QED BY <1>1, <1>4, Zenon DEF Block, p

\* The witness prove builds of a session (lib.rs prove).
LEMMA WitnessIs ==
  ASSUME WireTyped(wire), NEW w, w = Witness
  PROVE  /\ WitnessTyped(w) /\ DOMAIN w = {"c1b", "c2a", "auth2", "l", "beta", "r1", "r2", "idi"}
         /\ w.c1b = wire.c1b /\ w.c2a = wire.c2a /\ w.auth2 = wire.auth2
         /\ w.r1 = R1For(KGroup, KUser, wire) /\ w.r2 = R2For(KGroup, KUser, wire)
         /\ w.idi = SubSeq(PlainFor(KGroup, KUser, wire), 9, 16)
         /\ tdes_encrypt(w.r1, w.l, w.beta) = w.c1b /\ tdes_encrypt(w.r2, w.l, w.beta) = w.c2a
<1> DEFINE l == KeysFor(KGroup, KUser, wire).l
           beta == KeysFor(KGroup, KUser, wire).beta
           r1 == R1For(KGroup, KUser, wire)
           r2 == R2For(KGroup, KUser, wire)
           idi == SubSeq(cbc_decrypt(wire.auth2, r2), 9, 16)
           s == Recovered(LBeta(xor_bytes(KGroup, wire.idm), KUser), wire)
<1>1. wire.c1b \in BlockType /\ wire.c2a \in BlockType /\ wire.auth2 \in Blocks(4)
  BY DEF WireTyped
<1>2. s = [l |-> l, beta |-> beta, r1 |-> r1, r2 |-> r2]
  BY <1>1, VerdictOfProver
<1>3. l \in BlockType /\ beta \in BlockType
  <2> DEFINE x == xor_bytes(KGroup, wire.idm)
             alpha == des_encrypt(KUser, x)
             b == des_encrypt(x, alpha)
  <2>1. KeysFor(KGroup, KUser, wire) = [l |-> x, alpha |-> alpha, beta |-> b]
    BY DerivedKeys, Zenon DEF KeysFor
  <2>2. x \in BlockType /\ b \in BlockType
    BY BlocksComputed DEF des_encrypt
  <2> HIDE DEF x, alpha, b
  <2> QED BY <2>1, <2>2
<1>4. /\ r1 \in BlockType /\ r2 \in BlockType /\ idi \in BlockType
      /\ tdes_encrypt(r1, l, beta) = wire.c1b /\ tdes_encrypt(r2, l, beta) = wire.c2a
  BY <1>1, TdesInverts, IdiType DEF R1For, R2For
<1>5. PlainFor(KGroup, KUser, wire) = cbc_decrypt(wire.auth2, r2)
  BY DEF PlainFor
<1>6. w = WitnessOf(s)
  BY Zenon DEF Witness
<1> HIDE DEF l, beta, r1, r2, s
<1>7. s.l = l /\ s.beta = beta /\ s.r1 = r1 /\ s.r2 = r2
  BY <1>2
<1>8. w = [c1b |-> wire.c1b, c2a |-> wire.c2a, auth2 |-> wire.auth2,
           l |-> l, beta |-> beta, r1 |-> r1, r2 |-> r2, idi |-> idi]
  BY <1>6, <1>7, Zenon DEF WitnessOf
<1> HIDE DEF idi
<1>9. /\ DOMAIN w = {"c1b", "c2a", "auth2", "l", "beta", "r1", "r2", "idi"}
      /\ w.c1b = wire.c1b /\ w.c2a = wire.c2a /\ w.auth2 = wire.auth2
      /\ w.l = l /\ w.beta = beta /\ w.r1 = r1 /\ w.r2 = r2 /\ w.idi = idi
  BY <1>8
<1>10. WitnessTyped(w)
  BY <1>1, <1>3, <1>4, <1>9, Zenon DEF WitnessTyped
<1> QED BY <1>4, <1>5, <1>9, <1>10, Zenon DEF idi, r1, r2

\* A wrong byte leaves the witness one of blocks.
LEMMA AlteredTyped ==
  ASSUME NEW w, WitnessTyped(w),
         DOMAIN w = {"c1b", "c2a", "auth2", "l", "beta", "r1", "r2", "idi"},
         NEW f \in Private \cup Published, NEW i \in 1 .. 8, NEW mask
  PROVE  WitnessTyped([w EXCEPT ![f] = FlipByte(@, i, mask)])
<1> DEFINE part == FlipByte(w[f], i, mask)
           wrong == [w EXCEPT ![f] = FlipByte(@, i, mask)]
<1>1. f \in {"l", "beta", "r1", "r2", "idi"} /\ w[f] \in BlockType
  BY DEF Private, Published, WitnessTyped
<1>2. part \in BlockType
  BY <1>1, FlippedBlock
<1>3. /\ DOMAIN wrong = DOMAIN w /\ wrong[f] = part
      /\ \A g \in DOMAIN w : g # f => wrong[g] = w[g]
  BY <1>1
<1> HIDE DEF part, wrong
<1>4. WitnessTyped(wrong)
  BY <1>1, <1>2, <1>3 DEF WitnessTyped
<1> QED BY <1>4 DEF wrong

\* The circuit's witness is made of blocks, whichever byte of it is wrong.
LEMMA WitnessAlwaysTyped ==
  ASSUME SessionInv, circuit # Pending PROVE WitnessTyped(Altered(Witness, forged))
<1>1. WireTyped(wire)
  BY DEF SessionInv
<1> DEFINE w == Witness
<1>2. WitnessTyped(w) /\ DOMAIN w = {"c1b", "c2a", "auth2", "l", "beta", "r1", "r2", "idi"}
  BY <1>1, WitnessIs
<1> HIDE DEF w
<1>3. CASE forged = Sound
  BY <1>2, <1>3, Zenon DEF Altered, w
<1>4. CASE forged # Sound
  <2>1. forged[1] \in Private \cup Published /\ forged[2] \in 1 .. 8
    BY <1>4 DEF SessionInv, Forgeries
  <2>2. WitnessTyped([w EXCEPT ![forged[1]] = FlipByte(@, forged[2], forged[3])])
    BY <1>2, <2>1, AlteredTyped
  <2> QED BY <1>4, <2>2, Zenon DEF Altered, w
<1> QED BY <1>3, <1>4

\* For every session and every witness of it, right or wrong in a byte, the native
\* values beside the wires of the gadgets follow the wires (circuit.rs des_gadget).
THEOREM HintsAlwaysFollow == SessionSpec => []HintsFollowWires
<1>1. ASSUME SessionInv PROVE HintsFollowWires
  <2> SUFFICES ASSUME circuit # Pending PROVE circuit.hints
    BY DEF HintsFollowWires
  <2> DEFINE w == Altered(Witness, forged)
  <2>1. WitnessTyped(w) /\ circuit = generate_constraints(w)
    BY <1>1, WitnessAlwaysTyped DEF SessionInv
  <2> HIDE DEF w
  <2> QED BY <2>1, ConstraintsAreChecks
<1> QED BY <1>1, SessionInvariance, PTL

\* The circuit accepts the witness of a session exactly when prove does, for every
\* card, key and damage on the wire (lib.rs prove, circuit.rs generate_constraints).
THEOREM TheCircuitMirrors == SessionSpec => []CircuitMirrorsChecks
<1>1. ASSUME SessionInv PROVE CircuitMirrorsChecks
  <2> SUFFICES ASSUME circuit # Pending, forged = Sound
      PROVE  is_satisfied(circuit) <=> Accepted(prover)
    BY DEF CircuitMirrorsChecks
  <2> DEFINE w == Witness
             p == PlainFor(KGroup, KUser, wire)
             r1 == R1For(KGroup, KUser, wire)
             mac == command_mac(19, SubSeq(p, 1, 24)) = SubSeq(p, 25, 32)
             tid == SubSeq(p, 3, 8) = SubSeq(r1, 3, 8)
  <2>1. WireTyped(wire) /\ prover = precheck(KGroup, KUser, wire)
    BY <1>1 DEF SessionInv
  <2>2. circuit = generate_constraints(w)
    BY <1>1, Zenon DEF SessionInv, Altered
  <2>3. /\ WitnessTyped(w) /\ w.auth2 = wire.auth2 /\ w.r1 = r1
        /\ w.r2 = R2For(KGroup, KUser, wire) /\ w.idi = SubSeq(p, 9, 16)
        /\ tdes_encrypt(w.r1, w.l, w.beta) = w.c1b /\ tdes_encrypt(w.r2, w.l, w.beta) = w.c2a
    BY <2>1, WitnessIs
  <2> HIDE DEF w
  <2>4. p = cbc_decrypt(w.auth2, w.r2)
    BY <2>3, Zenon DEF PlainFor
  <2> HIDE DEF p, r1
  <2>5. /\ DOMAIN circuit = {"hints", "c1b", "c2a", "mac", "tid", "idi"}
        /\ circuit.hints /\ circuit.c1b /\ circuit.c2a /\ circuit.idi
        /\ circuit.mac <=> mac
        /\ circuit.tid <=> tid
    BY <2>2, <2>3, <2>4, ConstraintsAreChecks
  <2>6. is_satisfied(circuit) <=> mac /\ tid
    <3> HIDE DEF mac, tid
    <3> QED BY <2>5 DEF is_satisfied
  <2>7. wire.c1b \in BlockType /\ wire.c2a \in BlockType
    BY <2>1 DEF WireTyped
  <2> DEFINE l == KeysFor(KGroup, KUser, wire).l
             beta == KeysFor(KGroup, KUser, wire).beta
             r2 == R2For(KGroup, KUser, wire)
             idi == SubSeq(p, 9, 16)
  <2>8. prover = IF ~mac THEN [err |-> "MacMismatch"]
                 ELSE IF ~tid THEN [err |-> "TidMismatch"]
                 ELSE [err |-> "none", l |-> l, beta |-> beta, r1 |-> r1, r2 |-> r2, idi |-> idi]
    BY <2>1, <2>7, VerdictOfProver, Zenon DEF p, r1
  <2> HIDE DEF mac, tid, l, beta, r2, idi
  <2>9. Accepted(prover) <=> mac /\ tid
    BY <2>8 DEF Accepted
  <2> QED BY <2>6, <2>9
<1> QED BY <1>1, SessionInvariance, PTL

-----------------------------------------------------------------------------
(* What a satisfied circuit binds *)

\* Whoever finds a witness that satisfies the circuit has r1, r2 and IDi in it that its
\* session and keys decrypt to: there are no others (circuit.rs generate_constraints).
THEOREM SatisfiedBinds ==
  ASSUME NEW u, WitnessTyped(u), is_satisfied(generate_constraints(u))
  PROVE  /\ u.r1 = tdes_decrypt(u.c1b, u.l, u.beta) /\ u.r2 = tdes_decrypt(u.c2a, u.l, u.beta)
         /\ u.idi = SubSeq(cbc_decrypt(u.auth2, u.r2), 9, 16)
<1> DEFINE system == generate_constraints(u)
           p == cbc_decrypt(u.auth2, u.r2)
<1>1. DOMAIN system = {"hints", "c1b", "c2a", "mac", "tid", "idi"}
  BY ConstraintsAreChecks
<1>2. /\ system.c1b <=> tdes_encrypt(u.r1, u.l, u.beta) = u.c1b
      /\ system.c2a <=> tdes_encrypt(u.r2, u.l, u.beta) = u.c2a
      /\ system.idi <=> SubSeq(p, 9, 16) = u.idi
  BY ConstraintsAreChecks
<1>3. \A c \in DOMAIN system : system[c]
  BY Zenon DEF is_satisfied
<1> HIDE DEF system, p
<1>4. system.c1b /\ system.c2a /\ system.idi
  BY <1>1, <1>3
<1>5. u.r1 \in BlockType /\ u.r2 \in BlockType
  BY DEF WitnessTyped
<1> QED BY <1>2, <1>4, <1>5, TdesInverts DEF p

-----------------------------------------------------------------------------
(* The parity bits of the keys *)

\* Two keys that differ in parity bits only, of whichever bytes.
SameKey(j, k) == bytes_to_des_bits(j) \cup Parity = bytes_to_des_bits(k) \cup Parity

\* Such keys have the same round keys, and encipher the same (des.rs PC1, des_block).
LEMMA SameRounds ==
  ASSUME NEW j, NEW k, SameKey(j, k) PROVE \A x, e : des_block(x, j, e) = des_block(x, k, e)
<1> DEFINE jb == bytes_to_des_bits(j)
           kb == bytes_to_des_bits(k)
<1>1. jb \cup Parity = kb \cup Parity
  BY DEF SameKey
<1> HIDE DEF jb, kb
<1>2. round_keys(jb) = round_keys(jb \cup Parity) /\ round_keys(kb) = round_keys(kb \cup Parity)
  BY RoundKeysIgnoreParity
<1>3. round_keys(jb) = round_keys(kb)
  BY <1>1, <1>2
<1> QED BY <1>3, Zenon DEF des_block, des_bits, jb, kb

\* Triple DES does not tell such keys apart.
LEMMA SameCipher ==
  ASSUME NEW a, NEW b, NEW c, NEW d, SameKey(a, c), SameKey(b, d)
  PROVE  \A x : tdes_encrypt(x, a, b) = tdes_encrypt(x, c, d)
<1> TAKE x
<1>1. \A y, e : des_block(y, a, e) = des_block(y, c, e)
  BY SameRounds
<1>2. \A y, e : des_block(y, b, e) = des_block(y, d, e)
  BY SameRounds
<1>3. \A j, k : tdes_encrypt(x, j, k) =
                 des_block(des_block(des_block(x, j, TRUE), k, FALSE), j, TRUE)
  BY Zenon DEF tdes_encrypt, des_encrypt, des_decrypt
<1> DEFINE one == des_block(x, c, TRUE)
           two == des_block(one, d, FALSE)
<1>4. des_block(x, a, TRUE) = one /\ des_block(one, b, FALSE) = two
  BY <1>1, <1>2
<1>5. tdes_encrypt(x, a, b) = des_block(two, a, TRUE)
  BY <1>3, <1>4, Zenon
<1>6. des_block(two, a, TRUE) = des_block(two, c, TRUE)
  BY <1>1
<1> QED BY <1>3, <1>5, <1>6, Zenon

\* The witnesses of this session: its ciphertexts, and the keys prove derived up to
\* their parity bits; whatever is to be published with them is open.
OfTheSession(u) ==
  /\ WitnessTyped(u)
  /\ u.c1b = Witness.c1b /\ u.c2a = Witness.c2a /\ u.auth2 = Witness.auth2
  /\ SameKey(u.l, Witness.l) /\ SameKey(u.beta, Witness.beta)

\* One of them, with r1, r2 and IDi as prove recovered them.
WithThePublished(u) ==
  OfTheSession(u) /\ u.r1 = Witness.r1 /\ u.r2 = Witness.r2 /\ u.idi = Witness.idi

\* Under such keys, what is recovered enciphers to what came over the wire.
LEMMA Enciphers ==
  ASSUME WireTyped(wire), NEW u, OfTheSession(u), NEW v, v = Witness
  PROVE  \A r : tdes_encrypt(r, u.l, u.beta) = tdes_encrypt(r, v.l, v.beta)
<1>1. SameKey(u.l, v.l) /\ SameKey(u.beta, v.beta)
  BY DEF OfTheSession
<1> QED BY <1>1, SameCipher

\* Of all the witnesses of a session, those that satisfy the circuit publish r1, r2 and
\* IDi as prove recovers them, and no other values.
PublishedIsBound ==
  stage = "judged" =>
    \A u : OfTheSession(u) /\ is_satisfied(generate_constraints(u)) => WithThePublished(u)

\* The part of OnlyTheGenuine that holds whatever the bytes are: no proof of a session
\* publishes other values than the recovered ones (circuit.rs generate_constraints).
THEOREM ThePublishedIsBound == SessionSpec => []PublishedIsBound
<1>1. ASSUME SessionInv PROVE PublishedIsBound
  <2> SUFFICES ASSUME stage = "judged", NEW u, OfTheSession(u),
                      is_satisfied(generate_constraints(u))
      PROVE  WithThePublished(u)
    BY DEF PublishedIsBound
  <2> DEFINE v == Witness
  <2>1. WireTyped(wire)
    BY <1>1 DEF SessionInv
  <2>2. /\ WitnessTyped(v) /\ v.auth2 = wire.auth2
        /\ v.r2 = R2For(KGroup, KUser, wire)
        /\ v.idi = SubSeq(PlainFor(KGroup, KUser, wire), 9, 16)
        /\ tdes_encrypt(v.r1, v.l, v.beta) = v.c1b /\ tdes_encrypt(v.r2, v.l, v.beta) = v.c2a
    BY <2>1, WitnessIs
  <2>3. \A r : tdes_encrypt(r, u.l, u.beta) = tdes_encrypt(r, v.l, v.beta)
    BY <2>1, Enciphers
  <2>4. u.c1b = v.c1b /\ u.c2a = v.c2a /\ u.auth2 = v.auth2
    BY DEF OfTheSession
  <2> HIDE DEF v
  <2>5. WitnessTyped(u)
    BY DEF OfTheSession
  <2>6. /\ u.r1 = tdes_decrypt(u.c1b, u.l, u.beta) /\ u.r2 = tdes_decrypt(u.c2a, u.l, u.beta)
        /\ u.idi = SubSeq(cbc_decrypt(u.auth2, u.r2), 9, 16)
    BY <2>5, SatisfiedBinds
  <2>7. u.c1b \in BlockType /\ u.c2a \in BlockType /\ u.r1 \in BlockType /\ u.r2 \in BlockType
        /\ v.r1 \in BlockType /\ v.r2 \in BlockType
    BY <2>2, <2>5 DEF WitnessTyped
  <2>8. tdes_encrypt(u.r1, u.l, u.beta) = u.c1b /\ tdes_encrypt(u.r2, u.l, u.beta) = u.c2a
    BY <2>6, <2>7, TdesInverts
  <2>9. /\ tdes_encrypt(u.r1, v.l, v.beta) = tdes_encrypt(v.r1, v.l, v.beta)
        /\ tdes_encrypt(u.r2, v.l, v.beta) = tdes_encrypt(v.r2, v.l, v.beta)
    BY <2>2, <2>3, <2>4, <2>8, Zenon
  <2>10. \A r \in BlockType : tdes_decrypt(tdes_encrypt(r, v.l, v.beta), v.l, v.beta) = r
    BY TdesInverts
  <2>11. u.r1 = v.r1 /\ u.r2 = v.r2
    BY <2>7, <2>9, <2>10, Zenon
  <2>12. u.idi = v.idi
    BY <2>2, <2>4, <2>6, <2>11, Zenon DEF PlainFor
  <2> QED BY <2>11, <2>12 DEF WithThePublished, v
<1> QED BY <1>1, SessionInvariance, PTL

\* The circuit does not see the parity bits of l and beta: whichever of them are changed,
\* the witness satisfies it exactly when prove's own does.
ParityIsUnbound ==
  prover # Pending =>
    \A u : WithThePublished(u) => (is_satisfied(generate_constraints(u)) <=> Accepted(prover))

\* The other part of OnlyTheGenuine that holds for every key: what a satisfied circuit says
\* of l and beta it says up to their parity bits (circuit.rs round_key_vars, des.rs PC1).
THEOREM ParityStaysUnbound == SessionSpec => []ParityIsUnbound
<1>1. ASSUME SessionInv PROVE ParityIsUnbound
  <2> SUFFICES ASSUME prover # Pending, NEW u, WithThePublished(u)
      PROVE  is_satisfied(generate_constraints(u)) <=> Accepted(prover)
    BY DEF ParityIsUnbound
  <2> DEFINE v == Witness
             system == generate_constraints(u)
             p == PlainFor(KGroup, KUser, wire)
             mac == command_mac(19, SubSeq(p, 1, 24)) = SubSeq(p, 25, 32)
             tid == SubSeq(p, 3, 8) = SubSeq(u.r1, 3, 8)
  <2>1. WireTyped(wire) /\ prover = precheck(KGroup, KUser, wire)
    BY <1>1 DEF SessionInv
  <2>2. WitnessTyped(u)
    BY DEF WithThePublished, OfTheSession
  <2>3. /\ v.auth2 = wire.auth2 /\ v.r1 = R1For(KGroup, KUser, wire)
        /\ v.r2 = R2For(KGroup, KUser, wire) /\ v.idi = SubSeq(p, 9, 16)
        /\ tdes_encrypt(v.r1, v.l, v.beta) = v.c1b /\ tdes_encrypt(v.r2, v.l, v.beta) = v.c2a
    BY <2>1, WitnessIs
  <2>4. \A r : tdes_encrypt(r, u.l, u.beta) = tdes_encrypt(r, v.l, v.beta)
    BY <2>1, Enciphers DEF WithThePublished
  <2>5. /\ u.c1b = v.c1b /\ u.c2a = v.c2a /\ u.auth2 = v.auth2
        /\ u.r1 = v.r1 /\ u.r2 = v.r2 /\ u.idi = v.idi
    BY DEF WithThePublished, OfTheSession
  <2> HIDE DEF v
  <2>6. /\ tdes_encrypt(u.r1, u.l, u.beta) = u.c1b /\ tdes_encrypt(u.r2, u.l, u.beta) = u.c2a
    BY <2>3, <2>4, <2>5, Zenon
  <2>7. p = cbc_decrypt(u.auth2, u.r2) /\ u.idi = SubSeq(p, 9, 16)
    BY <2>3, <2>5, Zenon DEF PlainFor
  <2> HIDE DEF p
  <2>8. /\ DOMAIN system = {"hints", "c1b", "c2a", "mac", "tid", "idi"}
        /\ system.hints /\ system.c1b /\ system.c2a /\ system.idi
        /\ system.mac <=> mac
        /\ system.tid <=> tid
    BY <2>2, <2>6, <2>7, ConstraintsAreChecks
  <2>9. is_satisfied(system) <=> mac /\ tid
    <3> HIDE DEF mac, tid, system
    <3> QED BY <2>8 DEF is_satisfied
  <2>10. wire.c1b \in BlockType /\ wire.c2a \in BlockType
    BY <2>1 DEF WireTyped
  <2> DEFINE r1 == R1For(KGroup, KUser, wire)
             r2 == R2For(KGroup, KUser, wire)
             l == KeysFor(KGroup, KUser, wire).l
             beta == KeysFor(KGroup, KUser, wire).beta
             idi == SubSeq(p, 9, 16)
             same == SubSeq(p, 3, 8) = SubSeq(r1, 3, 8)
  <2>11. prover = IF ~mac THEN [err |-> "MacMismatch"]
                  ELSE IF ~same THEN [err |-> "TidMismatch"]
                  ELSE [err |-> "none", l |-> l, beta |-> beta, r1 |-> r1, r2 |-> r2, idi |-> idi]
    BY <2>1, <2>10, VerdictOfProver, Zenon DEF p
  <2>12. tid <=> same
    BY <2>3, <2>5, Zenon
  <2> HIDE DEF mac, tid, same, l, beta, r1, r2, idi
  <2>13. Accepted(prover) <=> mac /\ same
    BY <2>11 DEF Accepted
  <2> QED BY <2>9, <2>12, <2>13
<1> QED BY <1>1, SessionInvariance, PTL

-----------------------------------------------------------------------------
(* Sessions nothing happens to *)

\* A stretch of a message is the sequence whose bytes are found there.
LEMMA FieldOf ==
  ASSUME NEW d, NEW t \in Seq(Byte), NEW f \in Nat, NEW l \in Nat, l = f + Len(t) - 1,
         \A i \in 1 .. Len(t) : d[f + i - 1] = t[i]
  PROVE  SubSeq(d, f, l) = t
<1> DEFINE len == Len(t)
           s == SubSeq(d, f, l)
<1>1. len \in Nat /\ l = f + len - 1 /\ \A i \in 1 .. len : t[i] \in Byte
  BY LenProperties, ElementOfSeq
<1>2. \A i \in f .. l : d[i] \in Byte
  <2> SUFFICES ASSUME NEW i \in f .. l PROVE d[i] \in Byte
    OBVIOUS
  <2> DEFINE j == i - f + 1
  <2>1. j \in 1 .. len /\ f + j - 1 = i
    BY <1>1
  <2> HIDE DEF j
  <2>2. d[f + j - 1] = t[j]
    BY <2>1
  <2> QED BY <1>1, <2>1, <2>2
<1>3. /\ s \in Seq(Byte) /\ Len(s) = (IF f <= l THEN l - f + 1 ELSE 0)
      /\ \A i \in 1 .. l - f + 1 : s[i] = d[f + i - 1]
  BY <1>2, SubSeqProperties
<1>4. l - f + 1 = len
  BY <1>1
<1>5. (IF f <= l THEN l - f + 1 ELSE 0) = len
  BY <1>1
<1> HIDE DEF s, len
<1>6. Len(s) = len /\ \A i \in 1 .. len : s[i] = t[i]
  BY <1>3, <1>4, <1>5, Zenon DEF len
<1> QED BY <1>3, <1>6, SeqEqual DEF s, len

\* What a frame of a known payload opens to (schedule.rs encrypt_command, check_mac).
LEMMA Opens ==
  ASSUME NEW text \in Seq(Byte), text # <<>>, NEW k, NEW c \in Byte, NEW d,
         d = cbc_decrypt(encrypt_command(c, k, text), k)
  PROVE  /\ check_mac(d, c)
         /\ \A i \in 1 .. Len(text) : d[i] = text[i]
         /\ \E m \in Nat : 8 * m - Len(text) \in 0 .. 7
                           /\ encrypt_command(c, k, text) \in Blocks(m + 1)
<1> DEFINE frame == encrypt_command(c, k, text)
           len == Len(text)
<1>1. PICK m \in Nat : /\ 8 * m - len \in 0 .. 7 /\ frame \in Blocks(m + 1)
                       /\ \A e \in Byte : check_mac(d, e) <=> e = c /\ text # <<>>
                       /\ SubSeq(d, 1, len) = text
  BY FrameOpens
<1>2. d \in Blocks(m + 1)
  <2> DEFINE whole == m + 1
  <2>1. whole \in Nat
    OBVIOUS
  <2> HIDE DEF whole, frame
  <2>2. cbc_decrypt(frame, k) \in Blocks(whole)
    BY <1>1, <2>1, CbcDecrypts DEF whole
  <2> QED BY <2>2 DEF whole, frame
<1> HIDE DEF frame
<1>3. len \in Nat /\ d \in Seq(Byte) /\ Len(d) = 8 * (m + 1)
  BY <1>2, LenProperties DEF Blocks
<1>4. \A i \in 1 .. len : d[i] \in Byte
  <2> DEFINE long == Len(d)
  <2>1. \A i \in 1 .. long : d[i] \in Byte
    BY <1>3, ElementOfSeq
  <2>2. long = 8 * (m + 1) /\ 8 * m - len \in 0 .. 7 /\ len \in Nat
    BY <1>1, <1>3
  <2> HIDE DEF len, long
  <2>3. long \in Nat
    BY <1>3 DEF long
  <2>4. len <= long
    BY <2>2
  <2> QED BY <2>1, <2>2, <2>3, <2>4
<1>5. \A i \in 1 .. len : SubSeq(d, 1, len)[i] = d[i]
  <2> DEFINE one == 1
  <2>1. one \in Int /\ len \in Int /\ \A i \in one .. len : d[i] \in Byte
    BY <1>3, <1>4
  <2>2. \A i \in 1 .. len : i \in 1 .. len - one + 1 /\ one + i - 1 = i
    BY <1>3
  <2> HIDE DEF one, len
  <2>3. \A i \in 1 .. len - one + 1 : SubSeq(d, one, len)[i] = d[one + i - 1]
    BY <2>1, SubSeqProperties
  <2>4. \A i \in 1 .. len : SubSeq(d, one, len)[i] = d[i]
    BY <2>2, <2>3, Zenon
  <2> QED BY <2>4 DEF one
<1> QED BY <1>1, <1>5 DEF frame

\* A message: its TN, its TID and two fields.
Message(tn, tid, a, b) == tn \o tid \o a \o b

\* What a frame of q bytes takes on the wire.
Takes(s, q) == \E m \in Nat : 8 * m - q \in 0 .. 7 /\ s \in Blocks(m + 1)

\* Its fields a and b lie at 9 .. p and o .. q.
Spans(a, b, p, o, q) ==
  /\ p \in Nat /\ o \in Nat /\ q \in Nat
  /\ p = 8 + Len(a) /\ o = p + 1 /\ q = p + Len(b)

\* Every message of a session is a TN, a TID and two fields (schedule.rs
\* build_cmd_payload, decrypt_read_response, mod.rs verify_auth2).
LEMMA MessageOpens ==
  ASSUME NEW tn \in Seq(Byte), Len(tn) = 2, NEW tid \in Seq(Byte), Len(tid) = 6,
         NEW a \in Seq(Byte), NEW b \in Seq(Byte), NEW k, NEW c \in Byte, NEW d,
         d = cbc_decrypt(encrypt_command(c, k, Message(tn, tid, a, b)), k),
         NEW p, NEW o, NEW q, Spans(a, b, p, o, q)
  PROVE  /\ check_mac(d, c) /\ d[1] = tn[1] /\ SubSeq(d, 1, 2) = tn /\ SubSeq(d, 3, 8) = tid
         /\ SubSeq(d, 9, p) = a /\ SubSeq(d, o, q) = b
         /\ Takes(encrypt_command(c, k, Message(tn, tid, a, b)), q)
<1> DEFINE head == tn \o tid
           most == head \o a
           all == most \o b
           la == Len(a)
           lb == Len(b)
<1>1. /\ head \in Seq(Byte) /\ Len(head) = 8
      /\ \A i \in 1 .. 8 : head[i] = IF i <= 2 THEN tn[i] ELSE tid[i - 2]
  <2> DEFINE l1 == Len(tn)
             l2 == Len(tid)
  <2>1. l1 = 2 /\ l2 = 6
    OBVIOUS
  <2> HIDE DEF l1, l2
  <2>2. /\ head \in Seq(Byte) /\ Len(head) = l1 + l2
        /\ \A i \in 1 .. l1 + l2 : head[i] = IF i <= l1 THEN tn[i] ELSE tid[i - l1]
    BY ConcatProperties DEF l1, l2
  <2> HIDE DEF head
  <2> QED BY <2>1, <2>2
<1>2. /\ la \in Nat /\ lb \in Nat /\ p = 8 + la /\ o = 9 + la /\ q = 8 + la + lb
      /\ p \in Nat /\ o \in Nat /\ q \in Nat
  <2>1. la \in Nat /\ lb \in Nat
    BY LenProperties
  <2>2. /\ p = 8 + la /\ o = p + 1 /\ q = p + lb /\ p \in Nat /\ o \in Nat /\ q \in Nat
    BY Zenon DEF Spans
  <2> HIDE DEF la, lb
  <2> QED BY <2>1, <2>2
<1> HIDE DEF head, la, lb
<1>3. /\ most \in Seq(Byte) /\ Len(most) = Len(head) + la
      /\ \A i \in 1 .. Len(head) + la :
           most[i] = IF i <= Len(head) THEN head[i] ELSE a[i - Len(head)]
  BY <1>1, ConcatProperties DEF la
<1> HIDE DEF most
<1>4. /\ all \in Seq(Byte) /\ Len(all) = Len(most) + lb
      /\ \A i \in 1 .. Len(most) + lb :
           all[i] = IF i <= Len(most) THEN most[i] ELSE b[i - Len(most)]
  <2>1. most \in Seq(Byte)
    BY <1>3
  <2> QED BY <2>1, ConcatProperties DEF lb
<1> HIDE DEF all
<1>5. Len(all) = 8 + la + lb /\ all # <<>>
  BY <1>1, <1>2, <1>3, <1>4, LenProperties
<1>6. d = cbc_decrypt(encrypt_command(c, k, all), k)
  BY DEF all, most, head, Message
<1>7. /\ check_mac(d, c) /\ \A i \in 1 .. Len(all) : d[i] = all[i]
      /\ \E m \in Nat : 8 * m - Len(all) \in 0 .. 7 /\ encrypt_command(c, k, all) \in Blocks(m + 1)
  <2>1. all \in Seq(Byte) /\ all # <<>>
    BY <1>4, <1>5
  <2> QED BY <2>1, <1>6, Opens
<1>8. \A i \in 1 .. 8 : d[i] = IF i <= 2 THEN tn[i] ELSE tid[i - 2]
  <2>1. \A i \in 1 .. 8 : i \in 1 .. Len(all) /\ i \in 1 .. Len(most) + lb
                          /\ i \in 1 .. Len(head) + la /\ i <= Len(most) /\ i <= Len(head)
    BY <1>1, <1>2, <1>3, <1>5
  <2>2. \A i \in 1 .. 8 : d[i] = head[i]
    BY <1>3, <1>4, <1>7, <2>1
  <2> QED BY <1>1, <2>2
<1>9. \A i \in 1 .. la : d[8 + i] = a[i]
  <2> SUFFICES ASSUME NEW i \in 1 .. la PROVE d[8 + i] = a[i]
    OBVIOUS
  <2> DEFINE j == 8 + i
  <2>1. /\ j \in 1 .. Len(all) /\ j \in 1 .. Len(most) + lb /\ j <= Len(most)
        /\ j \in 1 .. Len(head) + la /\ ~(j <= Len(head)) /\ j - Len(head) = i
    BY <1>1, <1>2, <1>3, <1>5
  <2> HIDE DEF j
  <2>2. d[j] = all[j] /\ all[j] = most[j] /\ most[j] = a[j - Len(head)]
    BY <1>3, <1>4, <1>7, <2>1
  <2> QED BY <2>1, <2>2 DEF j
<1>10. \A i \in 1 .. lb : d[8 + la + i] = b[i]
  <2> SUFFICES ASSUME NEW i \in 1 .. lb PROVE d[8 + la + i] = b[i]
    OBVIOUS
  <2> DEFINE j == 8 + la + i
  <2>1. /\ j \in 1 .. Len(all) /\ j \in 1 .. Len(most) + lb /\ ~(j <= Len(most))
        /\ j - Len(most) = i
    BY <1>1, <1>2, <1>3, <1>5
  <2> HIDE DEF j
  <2>2. d[j] = all[j] /\ all[j] = b[j - Len(most)]
    BY <1>4, <1>7, <2>1
  <2> QED BY <2>1, <2>2 DEF j
<1>11. ASSUME NEW t \in Seq(Byte), NEW f \in Nat, NEW l \in Nat, l = f + Len(t) - 1,
              \A i \in 1 .. Len(t) : d[f + i - 1] = t[i]
       PROVE  SubSeq(d, f, l) = t
  BY <1>11, FieldOf
<1>12. d[1] = tn[1] /\ SubSeq(d, 1, 2) = tn
  <2>1. \A i \in 1 .. Len(tn) : d[1 + i - 1] = tn[i]
    BY <1>8
  <2>2. d[1] = tn[1]
    BY <1>8
  <2> DEFINE f == 1
             l == 2
  <2>3. /\ f \in Nat /\ l \in Nat /\ l = f + Len(tn) - 1
        /\ \A i \in 1 .. Len(tn) : d[f + i - 1] = tn[i]
    BY <2>1
  <2> HIDE DEF f, l
  <2>4. SubSeq(d, f, l) = tn
    BY <2>3, <1>11
  <2> QED BY <2>2, <2>4 DEF f, l
<1>13. SubSeq(d, 3, 8) = tid
  <2> DEFINE f == 3
             l == 8
  <2>1. \A i \in 1 .. 6 : f + i - 1 \in 1 .. 8 /\ ~(f + i - 1 <= 2) /\ (f + i - 1) - 2 = i
    OBVIOUS
  <2>2. \A i \in 1 .. 6 : d[f + i - 1] = tid[i]
    BY <1>8, <2>1
  <2>3. /\ f \in Nat /\ l \in Nat /\ l = f + Len(tid) - 1
        /\ \A i \in 1 .. Len(tid) : d[f + i - 1] = tid[i]
    BY <2>2
  <2> HIDE DEF f, l
  <2>4. SubSeq(d, f, l) = tid
    BY <2>3, <1>11
  <2> QED BY <2>4 DEF f, l
<1>14. SubSeq(d, 9, p) = a
  <2> DEFINE f == 9
             l == p
  <2>1. \A i \in 1 .. la : f + i - 1 = 8 + i
    BY <1>2
  <2>2. f \in Nat /\ l \in Nat /\ l = f + la - 1
    BY <1>2
  <2> HIDE DEF f, l
  <2>3. \A i \in 1 .. la : d[f + i - 1] = a[i]
    BY <1>9, <2>1
  <2>4. SubSeq(d, f, l) = a
    BY <2>2, <2>3, <1>11 DEF la
  <2> QED BY <2>4 DEF f, l
<1>15. SubSeq(d, o, q) = b
  <2> DEFINE f == o
             l == q
  <2>1. \A i \in 1 .. lb : f + i - 1 = 8 + la + i
    BY <1>2
  <2>2. f \in Nat /\ l \in Nat /\ l = f + lb - 1
    BY <1>2
  <2> HIDE DEF f, l
  <2>3. \A i \in 1 .. lb : d[f + i - 1] = b[i]
    BY <1>10, <2>1
  <2>4. SubSeq(d, f, l) = b
    BY <2>2, <2>3, <1>11 DEF lb
  <2> QED BY <2>4 DEF f, l
<1>16. Takes(encrypt_command(c, k, all), q)
  BY <1>2, <1>5, <1>7 DEF Takes
<1>17. all = Message(tn, tid, a, b)
  BY DEF all, most, head, Message
<1> QED BY <1>7, <1>12, <1>13, <1>14, <1>15, <1>16, <1>17 DEF la, lb

\* What the card answers Authentication1 and 2 with (SessionBytes Authenticate).
FromCard(c, w) ==
  /\ w["idm"] = c.idm
  /\ w["c1b"] = tdes_encrypt(c.r1, KeysOf(c).l, KeysOf(c).beta)
  /\ w["c2a"] = tdes_encrypt(c.r2, KeysOf(c).l, KeysOf(c).beta)
  /\ w["auth2"] = CardAuth2(c, tail(c.r1))

\* The Read the oracle seals for the session (service.rs settle).
EcmdOf(c, e) ==
  encrypt_command(READ_COMMAND_CODE, c.r2,
    build_cmd_payload(tail(c.r1), read_block_payload(e[1], e[2])))

\* The card reads in c1a the r1 that was drawn (schedule.rs c1a).
LEMMA CardReadsR1 ==
  ASSUME NEW c \in CardType, NEW keys PROVE CardR1(c1a(c, keys), keys) = c.r1
<1>1. c.r1 \in BlockType
  BY DEF CardType
<1> QED BY <1>1, TdesInverts, Zenon DEF CardR1, c1a

\* The verifier and settle find the card's challenges in what the card sent.
LEMMA ChallengesFound ==
  ASSUME NEW c \in CardType, NEW w, FromCard(c, w)
  PROVE  /\ R1For(KGroup, KUser, w) = c.r1 /\ R2For(KGroup, KUser, w) = c.r2
         /\ PlainFor(KGroup, KUser, w) = cbc_decrypt(CardAuth2(c, tail(c.r1)), c.r2)
<1> DEFINE keys == KeysOf(c)
           l == keys.l
           beta == keys.beta
<1>1. c.r1 \in BlockType /\ c.r2 \in BlockType
  BY DEF CardType
<1>2. w.idm = c.idm /\ w.auth2 = CardAuth2(c, tail(c.r1))
      /\ w.c1b = tdes_encrypt(c.r1, l, beta) /\ w.c2a = tdes_encrypt(c.r2, l, beta)
  BY DEF FromCard
<1>3. KeysFor(KGroup, KUser, w) = keys
  BY <1>2, Zenon DEF KeysFor, KeysOf
<1> HIDE DEF keys
<1>4. R1For(KGroup, KUser, w) = tdes_decrypt(w.c1b, l, beta)
      /\ R2For(KGroup, KUser, w) = tdes_decrypt(w.c2a, l, beta)
  BY <1>3, Zenon DEF R1For, R2For
<1> HIDE DEF l, beta
<1>5. R1For(KGroup, KUser, w) = c.r1 /\ R2For(KGroup, KUser, w) = c.r2
  BY <1>1, <1>2, <1>4, TdesInverts
<1> QED BY <1>2, <1>5, Zenon DEF PlainFor

\* The oracle seals the Read that was asked for under the card's R2 (mod.rs settle).
LEMMA SettleIs ==
  ASSUME NEW c \in CardType, NEW e, NEW w, FromCard(c, w) PROVE settle(c, e, w) = EcmdOf(c, e)
<1> DEFINE keys == KeysOf(c)
<1>1. derive(KGroup, KUser, w.idm) = keys /\ c.r2 \in BlockType
  BY DEF FromCard, KeysOf, CardType
<1>2. settle(c, e, w) = SettleUnder(keys, c, e, w)
  BY <1>1, Zenon DEF settle
<1> HIDE DEF keys
<1>3. tdes_encrypt(c.r1, keys.l, keys.beta) = w.c1b
      /\ w.c2a = tdes_encrypt(c.r2, keys.l, keys.beta)
  BY DEF FromCard, keys
<1>4. tdes_decrypt(w.c2a, keys.l, keys.beta) = c.r2
  BY <1>1, <1>3, TdesInverts
<1> QED BY <1>2, <1>3, <1>4, Zenon DEF SettleUnder, EcmdOf

\* A session that was not hit is accepted with the card's values (mod.rs verify_session).
LEMMA HonestAccepted ==
  ASSUME NEW c \in CardType, NEW w, FromCard(c, w)
  PROVE  verify_session(KGroup, KUser, w)
           = [err |-> "none", r1 |-> c.r1, r2 |-> c.r2, idi |-> c.idi]
<1> DEFINE tn == <<c.tn, 0>>
           tid == tail(c.r1)
           pt == cbc_decrypt(CardAuth2(c, tid), c.r2)
           op == AUTH2_CODE
           idi == c.idi
           pmi == c.pmi
           r2 == c.r2
           p == 16
           o == 17
           q == 24
<1>1. tn \in Seq(Byte) /\ Len(tn) = 2
  BY DEF CardType, Byte
<1>2. tid \in Seq(Byte) /\ Len(tid) = 6
  BY TailOfBlock DEF tail, CardType
<1>3. /\ idi \in Seq(Byte) /\ Len(idi) = 8 /\ pmi \in Seq(Byte) /\ Len(pmi) = 8
  BY BlockLength DEF CardType
<1>4. op \in Byte /\ op = 19
  BY DEF AUTH2_CODE, Byte
<1>5. pt = cbc_decrypt(encrypt_command(op, r2, Message(tn, tid, idi, pmi)), r2)
  BY DEF CardAuth2, Message
<1> HIDE DEF tn, tid, pt, op, idi, pmi, r2, p, o, q
<1>6. /\ check_mac(pt, op) /\ SubSeq(pt, 3, 8) = tid
      /\ SubSeq(pt, 9, p) = idi
  <2>1. \A v : v = cbc_decrypt(encrypt_command(op, r2, Message(tn, tid, idi, pmi)), r2) =>
               /\ check_mac(v, op) /\ SubSeq(v, 3, 8) = tid
               /\ SubSeq(v, 9, p) = idi
    <3>1. /\ op \in Byte /\ idi \in Seq(Byte) /\ pmi \in Seq(Byte)
          /\ Spans(idi, pmi, p, o, q)
      BY <1>3, <1>4 DEF Spans, p, o, q
    <3> QED BY <1>1, <1>2, <3>1, MessageOpens
  <2> QED BY <1>5, <2>1, Zenon
<1>7. check_mac(pt, 19) /\ SubSeq(pt, 9, 16) = c.idi
  BY <1>3, <1>4, <1>6 DEF idi, p
<1>8. /\ R1For(KGroup, KUser, w) = c.r1 /\ R2For(KGroup, KUser, w) = c.r2
      /\ PlainFor(KGroup, KUser, w) = pt
  BY ChallengesFound DEF pt, tid, r2
<1>9. SubSeq(c.r1, 3, 8) = tid
  BY DEF tid, tail
<1> QED BY <1>6, <1>7, <1>8, <1>9, VerdictOfServer

\* The card executes the Read of its session when its TN is the next, and says
\* nothing otherwise (schedule.rs ECMD_TN).
LEMMA CardReadIs ==
  ASSUME NEW c \in CardType, NEW e \in Byte \X Byte
  PROVE  CardRead(c, tail(c.r1), EcmdOf(c, e)) =
           IF c.tn = 0
           THEN encrypt_command(READ_RESPONSE_CODE, c.r2,
                                Message(<<2, 0>>, tail(c.r1), <<0, 0, 1>>, BlockData))
           ELSE <<>>
<1> DEFINE tn == ECMD_TN
           tid == tail(c.r1)
           inner == read_block_payload(e[1], e[2])
           none == <<>>
           r2 == c.r2
           op == READ_COMMAND_CODE
           d == cbc_decrypt(EcmdOf(c, e), r2)
           p == 11
           o == 12
           q == 11
<1>1. tn \in Seq(Byte) /\ Len(tn) = 2 /\ tn[1] = 1
  BY DEF ECMD_TN, Byte
<1>2. tid \in Seq(Byte) /\ Len(tid) = 6
  BY TailOfBlock DEF tail, CardType
<1>3. inner \in Seq(Byte) /\ Len(inner) = 3
  <2> DEFINE slot == e[1]
             blk == e[2]
  <2>1. slot \in Byte /\ blk \in Byte
    OBVIOUS
  <2> HIDE DEF slot, blk
  <2>2. slot % 16 \in 0 .. 15
    BY <2>1 DEF Byte
  <2> DEFINE rest == slot % 16
  <2> HIDE DEF rest
  <2>3. 1 \in Byte /\ 128 + rest \in Byte
    BY <2>2 DEF rest, Byte
  <2>4. inner = <<1, 128 + rest, blk>>
    BY DEF read_block_payload, slot, blk, rest
  <2> HIDE DEF inner
  <2> QED BY <2>1, <2>3, <2>4
<1>4. none \in Seq(Byte) /\ Len(none) = 0 /\ op \in Byte /\ op = 20
  BY DEF READ_COMMAND_CODE, Byte
<1>5. Spans(inner, none, p, o, q)
  <2> HIDE DEF inner, none
  <2> QED BY <1>3, <1>4 DEF Spans
<1>6. EcmdOf(c, e) = encrypt_command(op, r2, Message(tn, tid, inner, none))
  <2> DEFINE most == tn \o tid \o inner
  <2>1. most \in Seq(Byte)
    <3>1. tn \o tid \in Seq(Byte)
      BY <1>1, <1>2, Joined
    <3> HIDE DEF tn, tid, inner
    <3> QED BY <1>3, <3>1, Joined
  <2>2. EcmdOf(c, e) = encrypt_command(op, r2, most)
    BY DEF EcmdOf, build_cmd_payload
  <2>3. Message(tn, tid, inner, none) = most \o none
    BY DEF Message
  <2> HIDE DEF most
  <2>4. most \o none = most
    BY <2>1, ConcatEmptySeq
  <2> QED BY <2>2, <2>3, <2>4
<1> HIDE DEF tn, tid, inner, none, op, d, p, o, q, r2
<1>7. check_mac(d, op) /\ d[1] = tn[1] /\ SubSeq(d, 3, 8) = tid
  <2>1. \A v : v = cbc_decrypt(encrypt_command(op, r2, Message(tn, tid, inner, none)), r2) =>
               check_mac(v, op) /\ v[1] = tn[1] /\ SubSeq(v, 3, 8) = tid
    <3>1. op \in Byte /\ inner \in Seq(Byte) /\ none \in Seq(Byte)
      BY <1>3, <1>4
    <3> QED BY <1>1, <1>2, <1>5, <3>1, MessageOpens
  <2>2. d = cbc_decrypt(encrypt_command(op, r2, Message(tn, tid, inner, none)), r2)
    BY <1>6 DEF d
  <2> QED BY <2>1, <2>2, Zenon
<1>8. d[1] = 1
  BY <1>1, <1>7
<1>9. Executes(c, tid, d) <=> c.tn = 0
  <2>1. check_mac(d, READ_COMMAND_CODE)
    BY <1>7 DEF op
  <2>2. c.tn \in Nat
    BY DEF CardType, Byte
  <2>3. d[1] > c.tn <=> c.tn = 0
    BY <1>8, <2>2
  <2> QED BY <1>7, <2>1, <2>3, Zenon DEF Executes
<1>10. CardRead(c, tid, EcmdOf(c, e)) = CardAnswer(c, tid, d)
  BY DEF CardRead, d, r2
<1>11. CASE c.tn = 0
  <2>1. CardAnswer(c, tid, d) =
          encrypt_command(READ_RESPONSE_CODE, c.r2,
            <<d[1] + 1, 0>> \o tid \o <<0, 0, 1>> \o BlockData)
    BY <1>9, <1>11, Zenon DEF CardAnswer
  <2>2. <<d[1] + 1, 0>> = <<2, 0>>
    BY <1>8
  <2>3. CardAnswer(c, tid, d) =
          encrypt_command(READ_RESPONSE_CODE, c.r2, Message(<<2, 0>>, tid, <<0, 0, 1>>, BlockData))
    BY <2>1, <2>2, Zenon DEF Message
  <2> QED BY <1>10, <1>11, <2>3, Zenon DEF tid
<1>12. CASE c.tn # 0
  <2>1. CardAnswer(c, tid, d) = <<>>
    BY <1>9, <1>12, Zenon DEF CardAnswer
  <2> QED BY <1>10, <1>12, <2>1, Zenon DEF tid
<1> QED BY <1>11, <1>12

\* The holder reads the block back from the answer (schedule.rs decrypt_read_response).
LEMMA AnswerRead ==
  ASSUME NEW c \in CardType, NEW e \in Byte \X Byte
  PROVE  decrypt_read_response(c.r2, tail(c.r1), CardRead(c, tail(c.r1), EcmdOf(c, e)))
           = IF c.tn > 0 THEN [err |-> "Malformed"] ELSE [err |-> "none", data |-> BlockData]
<1> DEFINE tn == <<2, 0>>
           tid == tail(c.r1)
           head == <<0, 0, 1>>
           blk == BlockData
           r2 == c.r2
           op == READ_RESPONSE_CODE
           sent == encrypt_command(op, r2, Message(tn, tid, head, blk))
           d == cbc_decrypt(sent, r2)
           p == 11
           o == 12
           q == 27
           answer == CardRead(c, tid, EcmdOf(c, e))
<1>0. c.tn \in Nat
  BY DEF CardType, Byte
<1>1. tn \in Seq(Byte) /\ Len(tn) = 2 /\ head \in Seq(Byte) /\ Len(head) = 3
  BY DEF Byte
<1>2. tid \in Seq(Byte) /\ Len(tid) = 6
  BY TailOfBlock DEF tail, CardType
<1>3. blk \in Seq(Byte) /\ Len(blk) = 16
  <2> DEFINE len == 16
  <2>1. len \in Nat /\ blk \in [1 .. len -> Byte]
    BY SessionType
  <2> HIDE DEF len, blk
  <2>2. blk \in Seq(Byte) /\ Len(blk) = len
    BY <2>1, IsASeq, LenProperties
  <2> QED BY <2>2 DEF len
<1>4. op \in Byte /\ op = READ_RESPONSE_CODE
  BY DEF READ_RESPONSE_CODE, Byte
<1>5. Spans(head, blk, p, o, q)
  <2> HIDE DEF head, blk
  <2> QED BY <1>1, <1>3 DEF Spans
<1>6. tn = EXPECTED_READ_RESPONSE_TN
  BY DEF EXPECTED_READ_RESPONSE_TN
<1>7. answer = IF c.tn = 0 THEN sent ELSE <<>>
  BY CardReadIs
<1> HIDE DEF tn, tid, head, blk, op, sent, d, p, o, q, r2, answer
<1>8. /\ check_mac(d, op) /\ SubSeq(d, 1, 2) = tn /\ SubSeq(d, 3, 8) = tid
      /\ SubSeq(d, o, q) = blk
      /\ \E m \in Nat : 8 * m - q \in 0 .. 7 /\ sent \in Blocks(m + 1)
  <2>1. /\ op \in Byte /\ head \in Seq(Byte) /\ blk \in Seq(Byte) /\ tn \in Seq(Byte)
        /\ Len(tn) = 2
    BY <1>1, <1>3, <1>4
  <2> DEFINE is(v) == v = cbc_decrypt(encrypt_command(op, r2, Message(tn, tid, head, blk)), r2)
  <2>2. is(d)
    BY Zenon DEF d, sent
  <2>3. \A v : is(v) => check_mac(v, op) /\ SubSeq(v, 3, 8) = tid
    BY <1>2, <1>5, <2>1, MessageOpens
  <2>6. \A v : is(v) => SubSeq(v, 1, 2) = tn
    BY <1>2, <1>5, <2>1, MessageOpens
  <2>4. \A v : is(v) => SubSeq(v, o, q) = blk
    BY <1>2, <1>5, <2>1, MessageOpens
  <2>5. \A v : is(v) => Takes(encrypt_command(op, r2, Message(tn, tid, head, blk)), q)
    BY <1>2, <1>5, <2>1, MessageOpens
  <2> HIDE DEF is
  <2> QED BY <2>2, <2>3, <2>4, <2>5, <2>6, Zenon DEF sent, Takes
<1>9. Len(sent) = 40
  <2>1. PICK m \in Nat : 8 * m - q \in 0 .. 7 /\ sent \in Blocks(m + 1)
    BY <1>8
  <2>2. m = 4
    BY <2>1 DEF q
  <2> QED BY <2>1, <2>2 DEF Blocks
<1>10. CASE c.tn = 0
  <2>1. decrypt_read_response(r2, tid, answer) = ReadBlock(tid, d)
    BY <1>7, <1>9, <1>10, Zenon DEF decrypt_read_response, d
  <2>2. ReadBlock(tid, d) = [err |-> "none", data |-> SubSeq(d, 12, 27)]
    BY <1>4, <1>6, <1>8, Zenon DEF ReadBlock
  <2>3. SubSeq(d, 12, 27) = BlockData
    BY <1>8 DEF o, q, blk
  <2>4. ~(c.tn > 0)
    BY <1>10
  <2> QED BY <2>1, <2>2, <2>3, <2>4, Zenon DEF r2, tid, answer
<1>11. CASE c.tn # 0
  <2>1. answer = <<>> /\ Len(answer) # 40
    BY <1>7, <1>11
  <2>2. decrypt_read_response(r2, tid, answer) = [err |-> "Malformed"]
    BY <2>1, Zenon DEF decrypt_read_response
  <2>3. c.tn > 0
    BY <1>0, <1>11
  <2> QED BY <2>2, <2>3, Zenon DEF r2, tid, answer
<1> QED BY <1>10, <1>11

\* What is on the wire as long as nothing was hit on the way to the step before, and
\* what the holder has read.
HonestInv ==
  /\ stage # "auth2" /\ hit \notin OnTheWay => FromCard(card, wire)
  /\ stage \in {"resp", "judged"} /\ hit = "nothing" => wire["ecmd"] = EcmdOf(card, element)
  /\ stage = "judged" /\ hit = "nothing" =>
       wire["resp"] = CardRead(card, tail(card.r1), wire["ecmd"])
  /\ read # Pending => /\ circuit # Pending /\ prover.err = "none"
                       /\ read = decrypt_read_response(prover.r2, tail(prover.r1), wire["resp"])
  /\ element \in Element

\* The invariant of the honest sessions holds before the card has answered.
LEMMA HonestInvInit == ASSUME SessionInit PROVE HonestInv
BY DEF SessionInit, HonestInv, Pending

\* Every step of a session keeps the invariant of the honest ones.
LEMMA HonestInvNext ==
  ASSUME SessionInv, HonestInv, [SessionNext]_sessionVars PROVE HonestInv'
<1>0. /\ card \in CardType /\ element \in Element
      /\ oracle # Pending => stage = "judged"
      /\ circuit # Pending => prover # Pending
      /\ prover # Pending => oracle # Pending
      /\ stage # "auth2" => DOMAIN wire = {"idm", "c1b", "c2a", "auth2", "ecmd", "resp"}
  BY SessionType DEF SessionInv, HonestInv, WireTyped
<1>1. CASE Authenticate
  <2>1. PICK keys \in {KeysOf(card)} : wire' = Answers(card, keys, CardR1(c1a(card, keys), keys))
    BY <1>1, Zenon DEF Authenticate
  <2>2. wire' = Answers(card, KeysOf(card), card.r1)
    BY <1>0, <2>1, CardReadsR1
  <2>3. FromCard(card, wire')
    BY <2>2, Zenon DEF FromCard, Answers
  <2>4. read = Pending
    BY <1>0, <1>1 DEF HonestInv, Authenticate
  <2> QED BY <1>0, <1>1, <2>3, <2>4 DEF HonestInv, Authenticate, verdicts
<1>2. CASE Settle
  <2>1. /\ stage = "ecmd" /\ stage' = "resp" /\ UNCHANGED <<card, element, hit, read>>
        /\ wire' = [wire EXCEPT !.ecmd = settle(card, element, wire)]
    BY <1>2 DEF Settle, verdicts
  <2>2. read = Pending
    BY <1>0, <2>1 DEF HonestInv
  <2>3. FromCard(card, wire) => FromCard(card, wire')
    BY <1>0, <2>1 DEF FromCard
  <2>4. FromCard(card, wire) => wire'["ecmd"] = EcmdOf(card, element)
    BY <1>0, <2>1, SettleIs
  <2> QED BY <1>0, <2>1, <2>2, <2>3, <2>4 DEF HonestInv, OnTheWay
<1>3. CASE Respond
  <2>1. /\ stage = "resp" /\ stage' = "judged" /\ UNCHANGED <<card, element, hit, read>>
        /\ wire' = [wire EXCEPT !.resp = CardRead(card, tail(card.r1), wire.ecmd)]
    BY <1>3 DEF Respond, verdicts
  <2>2. read = Pending
    BY <1>0, <2>1 DEF HonestInv
  <2>3. FromCard(card, wire) => FromCard(card, wire')
    BY <1>0, <2>1 DEF FromCard
  <2>4. wire'["ecmd"] = wire["ecmd"] /\ wire'["resp"] = CardRead(card, tail(card.r1), wire["ecmd"])
    BY <1>0, <2>1
  <2> QED BY <1>0, <2>1, <2>2, <2>3, <2>4 DEF HonestInv
<1>4. ASSUME NEW f \in DOMAIN HitsOn, NEW mask \in Masks, NEW i \in HitsOn[f], Hit(f, i, mask)
      PROVE  HonestInv'
  <2>1. /\ oracle = Pending /\ hit' = f /\ hit = "nothing"
        /\ stage # "auth2" /\ f \in {"idm", "c1b", "c2a", "auth2", "ecmd", "resp"}
        /\ wire' = [wire EXCEPT ![f] = FlipByte(@, i, mask)]
        /\ UNCHANGED <<card, element, stage, read>>
    BY <1>4 DEF Hit, verdicts
  <2>2. read = Pending
    BY <1>0, <2>1 DEF HonestInv
  <2>3. f \notin OnTheWay => (FromCard(card, wire) => FromCard(card, wire'))
    BY <1>0, <2>1 DEF FromCard, OnTheWay
  <2>4. hit \notin OnTheWay /\ hit' # "nothing"
    BY <2>1 DEF OnTheWay
  <2> QED BY <1>0, <2>1, <2>2, <2>3, <2>4 DEF HonestInv
<1>5. CASE VerifySession
  <2>1. read = Pending
    BY <1>0, <1>5 DEF HonestInv, VerifySession
  <2> QED BY <1>5, <2>1 DEF HonestInv, VerifySession
<1>6. CASE Precheck
  <2>1. read = Pending
    BY <1>0, <1>6 DEF HonestInv, Precheck
  <2> QED BY <1>6, <2>1 DEF HonestInv, Precheck
<1>7. ASSUME NEW wrong, CheckSatisfiable(wrong) PROVE HonestInv'
  <2>1. read = Pending
    BY <1>7 DEF HonestInv, CheckSatisfiable
  <2> QED BY <1>7, <2>1 DEF HonestInv, CheckSatisfiable
<1>8. CASE ReadResponse
  BY <1>8 DEF HonestInv, ReadResponse
<1>9. CASE UNCHANGED sessionVars
  BY <1>9 DEF HonestInv, sessionVars, verdicts
<1> QED BY <1>1, <1>2, <1>3, <1>4, <1>5, <1>6, <1>7, <1>8, <1>9 DEF SessionNext

\* While no byte the verifiers read is flipped, the wire is what the card and the oracle made
\* it, for any card and keys (schedule.rs, mod.rs settle).
THEOREM HonestInvariance == SessionSpec => [](SessionInv /\ HonestInv)
<1>1. SessionInit => SessionInv /\ HonestInv
  BY SessionInvInit, HonestInvInit
<1>2. SessionInv /\ HonestInv /\ [SessionNext]_sessionVars => (SessionInv /\ HonestInv)'
  BY SessionInvNext, HonestInvNext
<1> QED BY <1>1, <1>2, PTL DEF SessionSpec

\* A session between an honest card and the oracle is accepted with the card's values,
\* whatever they are, and its block is read back when the card's TN was zero
\* (mod.rs verify_session, schedule.rs ECMD_TN, decrypt_read_response).
THEOREM GenuineSessionsGoThrough == SessionSpec => []GenuineGoesThrough
<1>1. ASSUME SessionInv, HonestInv PROVE GenuineGoesThrough
  <2>0. card \in CardType /\ element \in Byte \X Byte
    BY <1>1, SessionType DEF SessionInv, HonestInv
  <2>1. ASSUME oracle # Pending, hit \notin OnTheWay
        PROVE  /\ FromCard(card, wire)
               /\ oracle = [err |-> "none", r1 |-> card.r1, r2 |-> card.r2, idi |-> card.idi]
    <3>1. FromCard(card, wire) /\ oracle = verify_session(KGroup, KUser, wire)
      BY <1>1, <2>1 DEF SessionInv, HonestInv
    <3> QED BY <2>0, <3>1, HonestAccepted
  <2>2. ASSUME read # Pending, hit = "nothing"
        PROVE  read = IF card.tn > 0 THEN [err |-> "Malformed"]
                      ELSE [err |-> "none", data |-> BlockData]
    <3>1. /\ oracle # Pending /\ prover # Pending /\ stage = "judged" /\ prover.err = "none"
          /\ read = decrypt_read_response(prover.r2, tail(prover.r1), wire["resp"])
          /\ wire["resp"] = CardRead(card, tail(card.r1), EcmdOf(card, element))
          /\ prover = precheck(KGroup, KUser, wire) /\ WireTyped(wire)
      BY <1>1, <2>2 DEF SessionInv, HonestInv
    <3>2. FromCard(card, wire)
      BY <1>1, <2>2, <3>1 DEF HonestInv, OnTheWay
    <3>3. /\ R1For(KGroup, KUser, wire) = card.r1 /\ R2For(KGroup, KUser, wire) = card.r2
      BY <2>0, <3>2, ChallengesFound
    <3>4. prover.r1 = card.r1 /\ prover.r2 = card.r2
      <4> DEFINE mac == command_mac(19, SubSeq(PlainFor(KGroup, KUser, wire), 1, 24))
                          # SubSeq(PlainFor(KGroup, KUser, wire), 25, 32)
                 other == SubSeq(PlainFor(KGroup, KUser, wire), 3, 8)
                            # SubSeq(R1For(KGroup, KUser, wire), 3, 8)
                 l == KeysFor(KGroup, KUser, wire).l
                 beta == KeysFor(KGroup, KUser, wire).beta
                 idi == SubSeq(PlainFor(KGroup, KUser, wire), 9, 16)
      <4>1. prover = IF mac THEN [err |-> "MacMismatch"]
                     ELSE IF other THEN [err |-> "TidMismatch"]
                     ELSE [err |-> "none", l |-> l, beta |-> beta,
                           r1 |-> R1For(KGroup, KUser, wire), r2 |-> R2For(KGroup, KUser, wire),
                           idi |-> idi]
        <5>1. wire.c1b \in BlockType /\ wire.c2a \in BlockType
          BY <3>1 DEF WireTyped
        <5>2. prover = precheck(KGroup, KUser, wire)
          BY <3>1
        <5> QED BY <5>1, <5>2, VerdictOfProver, Zenon
      <4> HIDE DEF mac, other, l, beta, idi
      <4>2. prover.err = "none"
        BY <3>1
      <4>3. ~mac /\ ~other
        BY <4>1, <4>2
      <4> QED BY <3>3, <4>1, <4>3
    <3>5. read = decrypt_read_response(card.r2, tail(card.r1),
                   CardRead(card, tail(card.r1), EcmdOf(card, element)))
      BY <3>1, <3>4
    <3> QED BY <2>0, <3>5, AnswerRead
  <2> QED BY <2>1, <2>2 DEF GenuineGoesThrough
<1> QED BY <1>1, HonestInvariance, PTL
=============================================================================
