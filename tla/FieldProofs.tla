---------------------------- MODULE FieldProofs -----------------------------
(***************************************************************************)
(* What the prover puts into field elements and takes out of them, for     *)
(* every order of the field: the public inputs of PublicInputs (what       *)
(* verifies was proved), the preimage of Commitment (a digest opens to one *)
(* Read), and the systems of SboxPolynomial (elimination finds every pivot *)
(* and its polynomial is the table).                                       *)
(*                                                                         *)
(* Lemmas on numbers modulo the order and on polynomials stand before the  *)
(* invariant that uses them.                                               *)
(***************************************************************************)
EXTENDS PublicInputs, SboxPolynomial, Commitment, CipherProofs

\* The public inputs a prover may be given.
Wire == {wire_of(s, cm, t) : s \in Session, cm \in Cm, t \in Time}

\* Quotient and remainder.
LEMMA Division ==
  ASSUME NEW a \in Nat, NEW b \in Nat \ {0}
  PROVE  /\ a = b * (a \div b) + (a % b)
         /\ a % b \in 0 .. b - 1
         /\ a \div b \in Nat
  OBVIOUS

\* A quotient is smaller than the number of times the divisor fits.
LEMMA Quotient ==
  ASSUME NEW a \in Nat, NEW b \in Nat \ {0}, NEW c \in Nat, a < b * c
  PROVE  a \div b < c
<1> DEFINE q == a \div b
<1>1. q \in Nat /\ b * q <= a
  BY Division
<1> HIDE DEF q
<1>2. ASSUME q >= c PROVE FALSE
  <2>1. PICK d \in Nat : q = c + d
    BY <1>1, <1>2
  <2>2. b * q = b * c + b * d /\ b * d \in Nat
    BY <2>1
  <2> QED BY <1>1, <2>2
<1> QED BY <1>1, <1>2 DEF q

\* The two digits of a number.
LEMMA TwoDigits ==
  ASSUME NEW b \in Nat \ {0}, NEW lo \in 0 .. b - 1, NEW hi \in Nat
  PROVE  (lo + b * hi) % b = lo /\ (lo + b * hi) \div b = hi
<1> DEFINE n == lo + b * hi
           q == n \div b
           r == n % b
<1>1. b * hi \in Nat /\ n \in Nat
  OBVIOUS
<1>2. n = b * q + r /\ r \in 0 .. b - 1 /\ q \in Nat
  BY <1>1, Division
<1>3. lo + b * hi = b * q + r
  BY <1>2
<1> HIDE DEF n, q, r
<1>4. ASSUME q < hi PROVE FALSE
  <2>1. PICK d \in Nat : hi = q + 1 + d
    BY <1>2, <1>4
  <2>2. b * hi = b * q + b + b * d /\ b * d \in Nat /\ b * q \in Nat
    BY <2>1, <1>2
  <2> QED BY <1>2, <1>3, <2>2
<1>5. ASSUME hi < q PROVE FALSE
  <2>1. PICK d \in Nat : q = hi + 1 + d
    BY <1>2, <1>5
  <2>2. b * q = b * hi + b + b * d /\ b * d \in Nat /\ b * hi \in Nat
    BY <2>1, <1>2
  <2> QED BY <1>2, <1>3, <2>2
<1>6. q = hi
  BY <1>2, <1>4, <1>5
<1>7. r = lo
  BY <1>1, <1>2, <1>3, <1>6
<1> QED BY <1>6, <1>7 DEF n, q, r

\* A field element of no more than two digits is the number they make (circuit.rs fr_from_le).
LEMMA Small == ASSUME NEW n \in Nat, n < Base * Base PROVE fr_from_le(n) = n
<1>1. Base * Base \in Nat /\ Base * Base <= Prime /\ Prime \in Nat
  BY WidthsType
<1>2. n < Prime
  BY <1>1
<1> QED BY <1>1, <1>2 DEF fr_from_le

\* What is packed can be read back: all but the commitment is below the order.
LEMMA PackingInverts ==
  ASSUME NEW w \in Wire
  PROVE  unpack(public_inputs_fr(w)) = [w EXCEPT !.cm = fr_from_le(@)]
<1> DEFINE W == Base * Base
<1>1. PICK s \in Session, cm \in Cm, t \in Time : w = wire_of(s, cm, t)
  BY DEF Wire
<1>2. /\ Base \in Nat \ {0} /\ W \in Nat \ {0}
      /\ \A n \in 0 .. Base - 1 : n < W
  <2>1. Base \in Nat /\ Base >= 1
    BY WidthsType
  <2>2. PICK d \in Nat : Base = 1 + d
    BY <2>1
  <2>3. W = Base + Base * d /\ Base * d \in Nat
    BY <2>1, <2>2
  <2> QED BY <2>1, <2>3
<1>3. /\ s.r1 \in 0 .. Base - 1 /\ s.c1b \in 0 .. Base - 1 /\ s.c2a \in 0 .. Base - 1
      /\ s.idi \in 0 .. Base - 1 /\ s.r2 \in 0 .. Base - 1
      /\ s.auth2 \in Nat /\ s.auth2 < W * W
  <2>1. Base * Base * Base * Base = W * W
    BY <1>2
  <2>2. /\ s.r1 \in 0 .. Base - 1 /\ s.c1b \in 0 .. Base - 1 /\ s.c2a \in 0 .. Base - 1
        /\ s.idi \in 0 .. Base - 1 /\ s.r2 \in 0 .. Base - 1
        /\ s.auth2 \in 0 .. Base * Base * Base * Base - 1
    BY SessionType
  <2>3. W * W \in Nat
    BY <1>2
  <2> HIDE DEF W
  <2> QED BY <2>1, <2>2, <2>3
<1> DEFINE lo == s.auth2 % W
           hi == s.auth2 \div W
           pair == s.idi + Base * s.r2
<1>4. lo \in Nat /\ lo < W /\ hi \in Nat /\ hi < W /\ s.auth2 = lo + W * hi
  <2> HIDE DEF W
  <2>1. /\ s.auth2 = W * hi + lo /\ lo \in 0 .. W - 1 /\ hi \in Nat
    BY <1>2, <1>3, Division
  <2>2. hi < W
    BY <1>2, <1>3, Quotient
  <2>3. W * hi \in Nat
    BY <1>2, <2>1
  <2> HIDE DEF lo, hi
  <2> QED BY <1>2, <2>1, <2>2, <2>3
<1>5. pair \in Nat /\ pair < W
  <2>1. Base \in Nat /\ s.r2 \in Nat /\ s.r2 <= Base - 1 /\ s.idi \in Nat /\ s.idi <= Base - 1
    BY <1>2, <1>3
  <2> DEFINE d == Base - 1 - s.r2
  <2>2. d \in Nat /\ Base = s.r2 + 1 + d
    BY <2>1
  <2> HIDE DEF d
  <2>3. W = Base * s.r2 + Base + Base * d /\ Base * d \in Nat /\ Base * s.r2 \in Nat
    BY <2>1, <2>2
  <2> HIDE DEF W
  <2> QED BY <2>1, <2>3
<1>6. pair % Base = s.idi /\ pair \div Base = s.r2
  BY <1>2, <1>3, TwoDigits
<1>7. /\ fr_from_le(s.r1) = s.r1 /\ fr_from_le(s.c1b) = s.c1b
      /\ fr_from_le(s.c2a) = s.c2a
  BY <1>2, <1>3, Small
<1>8. fr_from_le(lo) = lo /\ fr_from_le(hi) = hi /\ fr_from_le(pair) = pair
  <2> HIDE DEF lo, hi, pair
  <2> QED BY <1>4, <1>5, Small
<1>9. public_inputs_fr(w) = <<s.r1, s.c1b, s.c2a, lo, hi, fr_from_le(cm), pair, t>>
  BY <1>1, <1>7, <1>8 DEF public_inputs_fr, wire_of
<1>10. unpack(public_inputs_fr(w)) =
         [r1 |-> s.r1, c1b |-> s.c1b, c2a |-> s.c2a, auth2 |-> lo + W * hi,
          cm |-> fr_from_le(cm), idi |-> pair % Base, r2 |-> pair \div Base,
          attested_at |-> t]
  <2> HIDE DEF lo, hi, pair
  <2> QED BY <1>9 DEF unpack
<1>11. [w EXCEPT !.cm = fr_from_le(@)] =
         [r1 |-> s.r1, c1b |-> s.c1b, c2a |-> s.c2a, auth2 |-> s.auth2,
          cm |-> fr_from_le(cm), idi |-> s.idi, r2 |-> s.r2, attested_at |-> t]
  BY <1>1 DEF wire_of
<1> HIDE DEF lo, hi, pair, W
<1> QED BY <1>4, <1>6, <1>10, <1>11

-----------------------------------------------------------------------------
(* Nothing but prove makes points, and no verdict outlives what it is about. *)

\* Every attestation was proved of public inputs, under some key.
Proved == \A a \in issued : a.key \in Key /\ a.wire \in Wire /\ a.att = prove(a.key, a.wire)

\* The points in hand were made by the prover, unless they are garbage.
PointsOfIssued ==
  held # None => /\ "points" \in DOMAIN held
                 /\ held.points = Garbage \/ \E a \in issued : held.points = a.att.points

\* A verdict is that of the attestation in hand.
VerdictOfHeld ==
  verdict # None =>
    held # None /\ verdict.accepted = verify_attestation(verdict.vk, held)

\* The inductive invariant.
IInv == Proved /\ PointsOfIssued /\ VerdictOfHeld

\* The points of a proof name its key and its packed inputs.
LEMMA ProvedPoints ==
  ASSUME NEW k, NEW w
  PROVE  /\ "points" \in DOMAIN prove(k, w)
         /\ prove(k, w).points = [key |-> k, of |-> public_inputs_fr(w)]
  BY DEF prove

\* The invariant holds before anything is proved.
LEMMA InvInit == ASSUME Init PROVE IInv
  BY DEF Init, IInv, Proved, PointsOfIssued, VerdictOfHeld

\* Changing the attestation in hand keeps the invariant.
LEMMA ChangeStep ==
  ASSUME IInv, ChangeField \/ ChangeString \/ ChangePoints PROVE IInv'
<1>1. held # None /\ verdict = None /\ UNCHANGED <<issued, source, verdict>>
  BY DEF ChangeField, ChangeString, ChangePoints, Unchanged, Change
<1>2. "points" \in DOMAIN held
  BY <1>1 DEF IInv, PointsOfIssued
<1>3. /\ "points" \in DOMAIN held'
      /\ \/ held'.points = held.points
         \/ held'.points = Garbage
         \/ \E a \in issued : held'.points = a.att.points
  <2>1. CASE ChangeField
    BY <1>2, <2>1 DEF ChangeField, Change
  <2>2. CASE ChangeString
    BY <1>2, <2>2 DEF ChangeString, Change
  <2>3. CASE ChangePoints
    BY <1>2, <2>3 DEF ChangePoints, Change
  <2> QED BY <2>1, <2>2, <2>3
<1>4. PointsOfIssued'
  BY <1>1, <1>3 DEF IInv, PointsOfIssued
<1>5. Proved' /\ VerdictOfHeld'
  BY <1>1 DEF IInv, Proved, VerdictOfHeld
<1> QED BY <1>4, <1>5 DEF IInv

\* So does every other step.
LEMMA InvNext == ASSUME IInv, [Next]_vars PROVE IInv'
<1> USE DEF IInv, Proved, PointsOfIssued, VerdictOfHeld
<1>1. ASSUME NEW key \in Key, NEW s \in Session, NEW cm \in Cm, NEW t \in Time,
             Prove(key, s, cm, t)
      PROVE  IInv'
  <2> DEFINE w == wire_of(s, cm, t)
             a == [key |-> key, wire |-> w, att |-> prove(key, w)]
  <2>1. w \in Wire
    BY DEF Wire
  <2>2. issued' = issued \cup {a} /\ UNCHANGED <<held, source, changed, verdict>>
    BY <1>1 DEF Prove
  <2>3. a.key = key /\ a.wire = w /\ a.att = prove(key, w)
    OBVIOUS
  <2> HIDE DEF a, w
  <2>4. Proved'
    BY <2>1, <2>2, <2>3
  <2> QED BY <2>2, <2>4
<1>2. ASSUME NEW a \in issued, NEW cm \in {0, a.wire.cm}, Receive(a, cm) PROVE IInv'
  <2>1. /\ held' = [a.att EXCEPT !.cm_out = cm] /\ held = None
        /\ UNCHANGED <<issued, verdict>>
    BY <1>2 DEF Receive, to_attestation
  <2>2. "points" \in DOMAIN a.att
    <3>1. a.att = prove(a.key, a.wire)
      OBVIOUS
    <3> QED BY <3>1, ProvedPoints, Zenon
  <2>3. "points" \in DOMAIN held' /\ held'.points = a.att.points
    BY <2>1, <2>2
  <2> QED BY <2>1, <2>3
<1>3. ASSUME ChangeField \/ ChangeString \/ ChangePoints PROVE IInv'
  BY <1>3, ChangeStep
<1>4. ASSUME NEW vk \in Key, Verify(vk) PROVE IInv'
  BY <1>4 DEF Verify
<1>5. ASSUME UNCHANGED vars PROVE IInv'
  BY <1>5 DEF vars
<1> QED BY <1>1, <1>2, <1>3, <1>4, <1>5 DEF Next

\* Every proof is of some session, and a verdict is that of what is in hand, however it was
\* changed (lib.rs prove, verify_attestation).
THEOREM Invariance == Spec => []IInv
<1>1. Init => IInv
  BY InvInit
<1>2. IInv /\ [Next]_vars => IInv'
  BY InvNext
<1> QED BY <1>1, <1>2, PTL DEF Spec

\* What verifies under a key is, read back from the strings, a session that was
\* proved under it, however the attestation was put together and whatever the
\* widths are: sixteen bytes need only fit below the order of the field.
THEOREM VerifiedSessionsWereProved == Spec => []VerifiedWasProved
<1>1. IInv => VerifiedWasProved
  <2> SUFFICES ASSUME IInv, Accepted
               PROVE  \E a \in issued :
                        /\ a.key = verdict.vk
                        /\ unpack(Values(held)) = [a.wire EXCEPT !.cm = fr_from_le(@)]
    BY DEF VerifiedWasProved
  <2>1. held # None /\ verify_attestation(verdict.vk, held)
    BY DEF Accepted, IInv, VerdictOfHeld
  <2>2. /\ held.points # Garbage
        /\ held.points = [key |-> verdict.vk, of |-> Values(held)]
    BY <2>1 DEF verify_attestation, Values
  <2>3. PICK a \in issued : held.points = a.att.points
    BY <2>1, <2>2 DEF IInv, PointsOfIssued
  <2>4. /\ a.wire \in Wire
        /\ held.points = [key |-> a.key, of |-> public_inputs_fr(a.wire)]
    BY <2>3, ProvedPoints DEF IInv, Proved
  <2>5. a.key = verdict.vk /\ public_inputs_fr(a.wire) = Values(held)
    BY <2>2, <2>4
  <2> QED BY <2>4, <2>5, PackingInverts
<1> QED BY <1>1, Invariance, PTL

-----------------------------------------------------------------------------
(* What was rebuilt, and what was changed of it since. *)

\* What is packed is below the order of the field.
LEMMA PackedRange ==
  ASSUME NEW w \in Wire, NEW i \in 1 .. 8
  PROVE  public_inputs_fr(w)[i] \in 0 .. Prime - 1
<1>1. PICK s \in Session, cm \in Cm, t \in Time : w = wire_of(s, cm, t)
  BY DEF Wire
<1> DEFINE W == Base * Base
<1>2. Base \in Nat \ {0} /\ W \in Nat \ {0} /\ Base <= W
  <2>1. PICK d \in Nat : Base = 1 + d
    BY WidthsType
  <2>2. W = Base + Base * d /\ Base * d \in Nat
    BY <2>1, WidthsType
  <2> QED BY <2>2, WidthsType
<1>3. Prime \in Nat \ {0} /\ Base <= Prime
  BY <1>2, WidthsType
<1>4. \A n \in Nat : fr_from_le(n) \in 0 .. Prime - 1
  BY <1>3, Division DEF fr_from_le
<1>5. t \in 0 .. Prime - 1
  BY <1>2, <1>3, TimeType
<1>6. /\ s.r1 \in Nat /\ s.c1b \in Nat /\ s.c2a \in Nat /\ cm \in Nat
      /\ s.idi \in Nat /\ s.r2 \in Nat /\ s.auth2 \in Nat
  <2>1. /\ s.r1 \in 0 .. Base - 1 /\ s.c1b \in 0 .. Base - 1 /\ s.c2a \in 0 .. Base - 1
        /\ s.auth2 \in 0 .. Base * Base * Base * Base - 1
        /\ s.idi \in 0 .. Base - 1 /\ s.r2 \in 0 .. Base - 1
    BY SessionType
  <2> QED BY <2>1, TimeType
<1>7. s.auth2 % W \in Nat /\ s.auth2 \div W \in Nat
  <2> HIDE DEF W
  <2> QED BY <1>2, <1>6, Division
<1>8. s.idi + Base * s.r2 \in Nat
  <2>1. Base * s.r2 \in Nat
    BY <1>2, <1>6
  <2> QED BY <1>6, <2>1
<1>9. public_inputs_fr(w) =
        <<fr_from_le(s.r1), fr_from_le(s.c1b), fr_from_le(s.c2a), fr_from_le(s.auth2 % W),
          fr_from_le(s.auth2 \div W), fr_from_le(cm), fr_from_le(s.idi + Base * s.r2), t>>
  BY <1>1 DEF public_inputs_fr, wire_of
<1> HIDE DEF W
<1> QED BY <1>4, <1>5, <1>6, <1>7, <1>8, <1>9

\* What a prove returns, as far as the verifier looks.
LEMMA ProvedStrings ==
  ASSUME NEW k, NEW w \in Wire
  PROVE  /\ {"points", "public_inputs"} \subseteq DOMAIN prove(k, w)
         /\ prove(k, w).points = [key |-> k, of |-> public_inputs_fr(w)]
         /\ prove(k, w).public_inputs \in Seq(Strings)
         /\ Len(prove(k, w).public_inputs) = 8
         /\ \A i \in 1 .. 8 :
              /\ prove(k, w).public_inputs[i].value = public_inputs_fr(w)[i]
              /\ prove(k, w).public_inputs[i].bytes = "exact"
<1> DEFINE strs == [i \in 1 .. 8 |-> fr_to_hex(public_inputs_fr(w)[i])]
<1>1. /\ {"points", "public_inputs"} \subseteq DOMAIN prove(k, w)
      /\ prove(k, w).points = [key |-> k, of |-> public_inputs_fr(w)]
      /\ prove(k, w).public_inputs = strs
  BY DEF prove
<1>2. Prime \in Nat
  BY WidthsType
<1>3. \A i \in 1 .. 8 : strs[i] \in Strings
  <2> TAKE i \in 1 .. 8
  <2>1. public_inputs_fr(w)[i] \in Nat
    BY <1>2, PackedRange
  <2> QED BY <2>1 DEF fr_to_hex, Strings
<1>4. strs \in Seq(Strings) /\ Len(strs) = 8
  BY <1>3
<1>5. \A i \in 1 .. 8 : /\ strs[i].value = public_inputs_fr(w)[i]
                        /\ strs[i].bytes = "exact"
  BY DEF fr_to_hex
<1> HIDE DEF strs
<1> QED BY <1>1, <1>4, <1>5

\* A list of eight strings, unaltered, reads as what was packed.
LEMMA UnalteredValues ==
  ASSUME NEW k, NEW w \in Wire
  PROVE  /\ \A i \in 1 .. 8 : parses(prove(k, w).public_inputs[i])
         /\ [i \in 1 .. 8 |-> parse_fr(prove(k, w).public_inputs[i])] = public_inputs_fr(w)
<1> DEFINE strs == prove(k, w).public_inputs
           F == public_inputs_fr(w)
<1>1. \A i \in 1 .. 8 : /\ strs[i].value = F[i] /\ strs[i].bytes = "exact"
                        /\ F[i] \in 0 .. Prime - 1
  BY ProvedStrings, PackedRange
<1>2. Prime \in Nat
  BY WidthsType
<1>3. F = [i \in 1 .. 8 |-> F[i]]
  BY DEF public_inputs_fr
<1> HIDE DEF strs, F
<1>4. \A i \in 1 .. 8 : parses(strs[i]) /\ parse_fr(strs[i]) = F[i]
  <2> TAKE i \in 1 .. 8
  <2>1. strs[i].value = F[i] /\ strs[i].bytes = "exact" /\ F[i] \in 0 .. Prime - 1
    BY <1>1
  <2>2. F[i] % Prime = F[i] /\ F[i] < Prime
    BY <1>2, <2>1
  <2> QED BY <2>1, <2>2 DEF parses, parse_fr, fr_from_le
<1>5. [i \in 1 .. 8 |-> parse_fr(strs[i])] = F
  BY <1>3, <1>4
<1> QED BY <1>4, <1>5 DEF strs, F

\* Public inputs that say something else.
Altered(p, q) == Len(p) # 8 \/ \E i \in 1 .. 8 : p[i].value # q[i].value

\* What is held against what it was rebuilt from.
HeldOfSource ==
  /\ None \notin issued
  /\ held = None => source = None /\ changed = "nothing"
  /\ held # None =>
       /\ source \in issued
       /\ {"points", "public_inputs"} \subseteq DOMAIN held
       /\ held.public_inputs \in Seq(Strings)
       /\ changed \in {"nothing", "field", "string", "length", "points"}
       /\ changed \in {"nothing", "field", "points"} =>
            held.public_inputs = source.att.public_inputs
       /\ changed = "string" => Altered(held.public_inputs, source.att.public_inputs)
       /\ changed # "points" => held.points = source.att.points
       /\ changed = "points" => held.points # source.att.points

\* An attestation, its key and its inputs.
LEMMA ProvedOf ==
  ASSUME Proved, NEW a \in issued
  PROVE  a.wire \in Wire /\ a.att = prove(a.key, a.wire) /\ a.key \in Key
  BY DEF Proved

\* A number written as a string, changed in its value or its length.
LEMMA StringChanged ==
  ASSUME NEW x \in Strings, NEW v \in Nat, NEW l \in {"short", "exact", "long"}
  PROVE  /\ [x EXCEPT !.value = v] \in Strings /\ [x EXCEPT !.value = v].value = v
         /\ [x EXCEPT !.bytes = l] \in Strings
  BY DEF Strings

\* One element of a sequence replaced.
LEMMA Replaced ==
  ASSUME NEW S, NEW p \in Seq(S), NEW i \in 1 .. Len(p), NEW x \in S
  PROVE  [p EXCEPT ![i] = x] \in Seq(S) /\ [p EXCEPT ![i] = x][i] = x
  BY ExceptSeq

\* The value of one of the strings changed.
LEMMA ValueChanged ==
  ASSUME NEW p \in Seq(Strings), NEW i \in 1 .. Len(p), NEW v \in Nat
  PROVE  /\ [p EXCEPT ![i].value = v] \in Seq(Strings)
         /\ [p EXCEPT ![i].value = v][i].value = v
<1> DEFINE x == [p[i] EXCEPT !.value = v]
<1>1. p[i] \in Strings
  OBVIOUS
<1>2. x \in Strings /\ x.value = v
  BY <1>1, StringChanged
<1>3. [p EXCEPT ![i].value = v] = [p EXCEPT ![i] = x]
  OBVIOUS
<1> HIDE DEF x
<1> QED BY <1>2, <1>3, Replaced

\* The length of one of the strings changed.
LEMMA BytesChanged ==
  ASSUME NEW p \in Seq(Strings), NEW i \in 1 .. Len(p), NEW l \in {"short", "exact", "long"}
  PROVE  [p EXCEPT ![i].bytes = l] \in Seq(Strings)
<1> DEFINE x == [p[i] EXCEPT !.bytes = l]
<1>1. p[i] \in Strings
  OBVIOUS
<1>2. x \in Strings
  BY <1>1, StringChanged
<1>3. [p EXCEPT ![i].bytes = l] = [p EXCEPT ![i] = x]
  OBVIOUS
<1> HIDE DEF x
<1> QED BY <1>2, <1>3, Replaced

\* One of the strings dropped or added.
LEMMA Resized ==
  ASSUME NEW S, NEW p \in Seq(S), Len(p) = 8, NEW x \in S
  PROVE  /\ SubSeq(p, 1, 7) \in Seq(S) /\ Len(SubSeq(p, 1, 7)) = 7
         /\ Append(p, x) \in Seq(S) /\ Len(Append(p, x)) = 9
<1>1. Append(p, x) \in Seq(S) /\ Len(Append(p, x)) = Len(p) + 1
  BY AppendProperties, Zenon
<1>2. \A i \in 1 .. 7 : p[i] \in S
  <2>1. \A i \in 1 .. Len(p) : p[i] \in S
    BY ElementOfSeq
  <2>2. \A i \in 1 .. 7 : i \in 1 .. Len(p)
    OBVIOUS
  <2> QED BY <2>1, <2>2
<1>3. /\ SubSeq(p, 1, 7) \in Seq(S)
      /\ Len(SubSeq(p, 1, 7)) = IF 1 <= 7 THEN 7 - 1 + 1 ELSE 0
  <2>1. 1 \in Int /\ 7 \in Int
    OBVIOUS
  <2> QED BY <1>2, <2>1, SubSeqProperties, SMT
<1>4. 8 + 1 = 9 /\ 1 <= 7 /\ 7 - 1 + 1 = 7
  OBVIOUS
<1> QED BY <1>1, <1>3, <1>4

\* That holds before anything is in hand.
LEMMA HeldInit == ASSUME Init PROVE HeldOfSource
  BY DEF Init, HeldOfSource

\* Changing what is in hand keeps it.
LEMMA HeldChange ==
  ASSUME Proved, HeldOfSource, ChangeField \/ ChangeString \/ ChangePoints
  PROVE  HeldOfSource'
<1> DEFINE strs == held.public_inputs
           Q == source.att.public_inputs
<1>1. /\ held # None /\ changed = "nothing" /\ UNCHANGED <<issued, source>>
      /\ source \in issued /\ source # None
      /\ {"points", "public_inputs"} \subseteq DOMAIN held
      /\ strs = Q /\ strs \in Seq(Strings) /\ held.points = source.att.points
  BY DEF ChangeField, ChangeString, ChangePoints, Unchanged, Change, HeldOfSource
<1>2. Len(strs) = 8
  <2>1. source.wire \in Wire /\ source.att = prove(source.key, source.wire)
    BY <1>1, ProvedOf
  <2>2. Len(prove(source.key, source.wire).public_inputs) = 8
    BY <2>1, ProvedStrings
  <2> QED BY <1>1, <2>1, <2>2
<1>3. ASSUME NEW what, NEW h, Change(what, h),
             {"points", "public_inputs"} \subseteq DOMAIN h,
             h.public_inputs \in Seq(Strings),
             \/ what = "field" /\ h.public_inputs = strs /\ h.points = held.points
             \/ what = "length" /\ h.points = held.points
             \/ what = "string" /\ Altered(h.public_inputs, strs) /\ h.points = held.points
             \/ what = "points" /\ h.public_inputs = strs /\ h.points # held.points
      PROVE  HeldOfSource'
  <2>1. held' = h /\ changed' = what
    BY <1>3 DEF Change
  <2>2. h # None
    BY <1>3 DEF None
  <2> QED BY <1>1, <1>3, <2>1, <2>2 DEF HeldOfSource
<1> HIDE DEF Q
<1>4. CASE ChangeField
  <2>1. \A x : LET h == [held EXCEPT !.idi = x]
               IN {"points", "public_inputs"} \subseteq DOMAIN h /\ h.public_inputs = strs
                  /\ h.points = held.points
    BY <1>1
  <2>2. \A x : LET h == [held EXCEPT !.r2 = x]
               IN {"points", "public_inputs"} \subseteq DOMAIN h /\ h.public_inputs = strs
                  /\ h.points = held.points
    BY <1>1
  <2>3. \A x : LET h == [held EXCEPT !.cm_out = x]
               IN {"points", "public_inputs"} \subseteq DOMAIN h /\ h.public_inputs = strs
                  /\ h.points = held.points
    BY <1>1
  <2>4. \A x : LET h == [held EXCEPT !.attested_at = x]
               IN {"points", "public_inputs"} \subseteq DOMAIN h /\ h.public_inputs = strs
                  /\ h.points = held.points
    BY <1>1
  <2>5. PICK h : /\ Change("field", h)
                 /\ {"points", "public_inputs"} \subseteq DOMAIN h /\ h.public_inputs = strs
                 /\ h.points = held.points
    <3> HIDE DEF strs
    <3> QED BY <1>4, <2>1, <2>2, <2>3, <2>4 DEF ChangeField
  <2> QED BY <1>1, <1>3, <2>5
<1>5. CASE ChangeString
  <2>1. ASSUME NEW i \in 1 .. 8, NEW v \in Value, v # strs[i].value,
               Change("string", [held EXCEPT !.public_inputs[i].value = v])
        PROVE  HeldOfSource'
    <3> DEFINE h == [held EXCEPT !.public_inputs[i].value = v]
    <3>1. v \in Nat
      BY ValueType
    <3>2. /\ h.points = held.points /\ {"points", "public_inputs"} \subseteq DOMAIN h
          /\ h.public_inputs = [strs EXCEPT ![i].value = v]
      BY <1>1
    <3> HIDE DEF strs
    <3>3. i \in 1 .. Len(strs)
      BY <1>1, <1>2
    <3>4. /\ [strs EXCEPT ![i].value = v] \in Seq(Strings)
          /\ [strs EXCEPT ![i].value = v][i].value = v
      BY <1>1, <3>1, <3>3, ValueChanged
    <3>5. Altered(h.public_inputs, strs)
      BY <2>1, <3>2, <3>4 DEF Altered
    <3> QED BY <1>3, <2>1, <3>2, <3>4, <3>5
  <2>2. ASSUME NEW i \in 1 .. 8, NEW l \in {"short", "long"},
               Change("length", [held EXCEPT !.public_inputs[i].bytes = l])
        PROVE  HeldOfSource'
    <3> DEFINE h == [held EXCEPT !.public_inputs[i].bytes = l]
    <3>1. /\ h.points = held.points /\ {"points", "public_inputs"} \subseteq DOMAIN h
          /\ h.public_inputs = [strs EXCEPT ![i].bytes = l]
      BY <1>1
    <3> HIDE DEF strs
    <3>2. i \in 1 .. Len(strs)
      BY <1>1, <1>2
    <3>3. [strs EXCEPT ![i].bytes = l] \in Seq(Strings)
      BY <1>1, <3>2, BytesChanged
    <3> QED BY <1>3, <2>2, <3>1, <3>3
  <2>3. ASSUME Change("string", [held EXCEPT !.public_inputs = SubSeq(@, 1, 7)])
        PROVE  HeldOfSource'
    <3> DEFINE h == [held EXCEPT !.public_inputs = SubSeq(strs, 1, 7)]
    <3>1. /\ h.points = held.points /\ {"points", "public_inputs"} \subseteq DOMAIN h
          /\ h.public_inputs = SubSeq(strs, 1, 7)
      BY <1>1
    <3>2. SubSeq(strs, 1, 7) \in Seq(Strings) /\ Altered(SubSeq(strs, 1, 7), strs)
      <4> HIDE DEF strs
      <4>1. fr_to_hex(0) \in Strings
        BY DEF fr_to_hex, Strings
      <4> QED BY <1>1, <1>2, <4>1, Resized DEF Altered
    <3>3. Change("string", h)
      BY <2>3
    <3> HIDE DEF strs
    <3> QED BY <1>3, <3>1, <3>2, <3>3
  <2>4. ASSUME Change("string", [held EXCEPT !.public_inputs = Append(@, fr_to_hex(0))])
        PROVE  HeldOfSource'
    <3> DEFINE h == [held EXCEPT !.public_inputs = Append(strs, fr_to_hex(0))]
    <3>1. /\ h.points = held.points /\ {"points", "public_inputs"} \subseteq DOMAIN h
          /\ h.public_inputs = Append(strs, fr_to_hex(0))
      BY <1>1
    <3>2. fr_to_hex(0) \in Strings
      BY DEF fr_to_hex, Strings
    <3>3. Append(strs, fr_to_hex(0)) \in Seq(Strings) /\ Altered(Append(strs, fr_to_hex(0)), strs)
      <4> HIDE DEF strs
      <4> QED BY <1>1, <1>2, <3>2, Resized DEF Altered
    <3>4. Change("string", h)
      BY <2>4
    <3> HIDE DEF strs
    <3> QED BY <1>3, <3>1, <3>3, <3>4
  <2> QED BY <1>5, <2>1, <2>2, <2>3, <2>4 DEF ChangeString
<1>6. CASE ChangePoints
  <2>1. PICK p : Change("points", [held EXCEPT !.points = p]) /\ p # held.points
    <3>1. held.points # Garbage
      <4>1. held.points = [key |-> source.key, of |-> public_inputs_fr(source.wire)]
        BY <1>1, ProvedOf, ProvedStrings
      <4> QED BY <4>1 DEF Garbage
    <3> QED BY <1>6, <3>1 DEF ChangePoints
  <2> DEFINE h == [held EXCEPT !.points = p]
  <2>2. /\ h.points = p /\ {"points", "public_inputs"} \subseteq DOMAIN h
        /\ h.public_inputs = strs
    BY <1>1
  <2> HIDE DEF strs
  <2> QED BY <1>1, <1>3, <2>1, <2>2
<1> QED BY <1>4, <1>5, <1>6

\* So does every other step.
LEMMA HeldNext == ASSUME Proved, HeldOfSource, [Next]_vars PROVE HeldOfSource'
<1>1. ASSUME NEW key \in Key, NEW s \in Session, NEW cm \in Cm, NEW t \in Time,
             Prove(key, s, cm, t)
      PROVE  HeldOfSource'
  <2> DEFINE a == [key |-> key, wire |-> wire_of(s, cm, t),
                   att |-> prove(key, wire_of(s, cm, t))]
  <2>1. issued' = issued \cup {a} /\ UNCHANGED <<held, source, changed>>
    BY <1>1 DEF Prove
  <2>2. a # None
    BY DEF None
  <2> HIDE DEF a
  <2> QED BY <2>1, <2>2 DEF HeldOfSource
<1>2. ASSUME NEW a \in issued, NEW cm \in {0, a.wire.cm}, Receive(a, cm)
      PROVE  HeldOfSource'
  <2>1. /\ held' = [a.att EXCEPT !.cm_out = cm] /\ held = None
        /\ source' = a /\ UNCHANGED <<issued, changed>>
    BY <1>2 DEF Receive, to_attestation
  <2>2. a.wire \in Wire /\ a.att = prove(a.key, a.wire)
    BY ProvedOf
  <2>3. /\ {"points", "public_inputs"} \subseteq DOMAIN a.att
        /\ a.att.public_inputs \in Seq(Strings)
    <3> DEFINE b == prove(a.key, a.wire)
    <3>1. {"points", "public_inputs"} \subseteq DOMAIN b /\ b.public_inputs \in Seq(Strings)
      BY <2>2, ProvedStrings
    <3> HIDE DEF b
    <3>2. a.att = b
      BY <2>2 DEF b
    <3> QED BY <3>1, <3>2
  <2>4. /\ {"points", "public_inputs"} \subseteq DOMAIN held'
        /\ held'.public_inputs = a.att.public_inputs /\ held'.points = a.att.points
    BY <2>1, <2>3
  <2>5. a # None
    BY DEF HeldOfSource
  <2>6. held' # None
    BY <2>4 DEF None
  <2> QED BY <2>1, <2>3, <2>4, <2>5, <2>6 DEF HeldOfSource
<1>3. ASSUME ChangeField \/ ChangeString \/ ChangePoints PROVE HeldOfSource'
  BY <1>3, HeldChange
<1>4. ASSUME NEW vk \in Key, Verify(vk) PROVE HeldOfSource'
  BY <1>4 DEF Verify, HeldOfSource
<1>5. ASSUME UNCHANGED vars PROVE HeldOfSource'
  BY <1>5 DEF vars, HeldOfSource
<1> QED BY <1>1, <1>2, <1>3, <1>4, <1>5 DEF Next

\* What is in hand is an attestation as it was issued, or differs from it as the record of
\* the changes says.
THEOREM HeldInvariance == Spec => [](IInv /\ HeldOfSource)
<1>1. Init => HeldOfSource
  BY HeldInit
<1>2. IInv /\ HeldOfSource /\ [Next]_vars => HeldOfSource'
  BY HeldNext DEF IInv
<1> QED BY <1>1, <1>2, Invariance, PTL DEF Spec

\* What the two theorems share: the points of the source, and what its strings read as.
LEMMA SourceFacts ==
  ASSUME IInv, HeldOfSource, verdict # None
  PROVE  /\ held # None /\ source.wire \in Wire
         /\ verdict.accepted = verify_attestation(verdict.vk, held)
         /\ source.att = prove(source.key, source.wire)
         /\ source.att.points = [key |-> source.key, of |-> public_inputs_fr(source.wire)]
<1>1. held # None /\ verdict.accepted = verify_attestation(verdict.vk, held)
  BY DEF IInv, VerdictOfHeld
<1>2. source \in issued
  BY <1>1 DEF HeldOfSource
<1>3. source.wire \in Wire /\ source.att = prove(source.key, source.wire)
  BY <1>2, ProvedOf DEF IInv
<1>4. prove(source.key, source.wire).points =
        [key |-> source.key, of |-> public_inputs_fr(source.wire)]
  BY <1>3, ProvedStrings
<1> QED BY <1>1, <1>3, <1>4

\* What was not changed since the client rebuilt it verifies under the key of its proof,
\* and under no other, whichever commitment was filled in: whatever the widths are.
THEOREM GenuineAttestationsVerify == Spec => []GenuineVerifies
<1>1. IInv /\ HeldOfSource => GenuineVerifies
  <2> SUFFICES ASSUME IInv, HeldOfSource, verdict # None, changed = "nothing"
               PROVE  verdict.accepted <=> verdict.vk = source.key
    BY DEF GenuineVerifies
  <2> DEFINE w == source.wire
             strs == prove(source.key, w).public_inputs
             F == public_inputs_fr(w)
  <2>1. /\ held # None /\ w \in Wire
        /\ verdict.accepted = verify_attestation(verdict.vk, held)
        /\ source.att = prove(source.key, w)
        /\ source.att.points = [key |-> source.key, of |-> F]
    BY SourceFacts
  <2>2. held.public_inputs = strs /\ held.points = [key |-> source.key, of |-> F]
    BY <2>1 DEF HeldOfSource
  <2>3. /\ Len(strs) = 8 /\ strs \in Seq(Strings)
        /\ \A i \in 1 .. 8 : parses(strs[i])
        /\ [i \in 1 .. 8 |-> parse_fr(strs[i])] = F
    BY <2>1, ProvedStrings, UnalteredValues
  <2> HIDE DEF strs, F, w
  <2>4. DOMAIN strs = 1 .. 8
    BY <2>3
  <2>5. held.points # Garbage
    BY <2>2 DEF Garbage
  <2>6. verify_attestation(verdict.vk, held) <=>
          [key |-> source.key, of |-> F] = [key |-> verdict.vk, of |-> F]
    BY <2>2, <2>3, <2>4, <2>5 DEF verify_attestation
  <2> QED BY <2>1, <2>6
<1> QED BY <1>1, HeldInvariance, PTL

\* No change of a string's number, of how many strings there are, or of the points
\* leaves an attestation that verifies under the key of its proof.
THEOREM TamperedAttestationsFail == Spec => []TamperingIsNoticed
<1>1. IInv /\ HeldOfSource => TamperingIsNoticed
  <2> SUFFICES ASSUME IInv, HeldOfSource, Accepted, verdict.vk = source.key,
                      changed \in {"string", "points"}
               PROVE  FALSE
    BY DEF TamperingIsNoticed
  <2> DEFINE w == source.wire
             Q == held.public_inputs
             strs == prove(source.key, w).public_inputs
             F == public_inputs_fr(w)
             V == [i \in 1 .. 8 |-> parse_fr(Q[i])]
  <2>1. /\ held # None /\ w \in Wire
        /\ verify_attestation(source.key, held)
        /\ source.att = prove(source.key, w)
        /\ source.att.points = [key |-> source.key, of |-> F]
    BY SourceFacts DEF Accepted
  <2>2. /\ Len(Q) = 8 /\ \A i \in DOMAIN Q : parses(Q[i])
        /\ held.points = [key |-> source.key, of |-> V]
    BY <2>1 DEF verify_attestation
  <2>3. \A i \in 1 .. 8 : strs[i].value = F[i]
    BY <2>1, ProvedStrings
  <2>4. Q \in Seq(Strings) /\ source.att.public_inputs = strs
    BY <2>1 DEF HeldOfSource
  <2>5. CASE changed = "string"
    <3>1. Altered(Q, strs) /\ held.points = source.att.points
      BY <2>1, <2>4, <2>5 DEF HeldOfSource
    <3> HIDE DEF strs, Q, F, w, V
    <3>2. PICK i \in 1 .. 8 : Q[i].value # strs[i].value
      BY <2>2, <3>1 DEF Altered
    <3>3. F = V
      BY <2>1, <2>2, <3>1
    <3>4. F[i] = parse_fr(Q[i])
      BY <3>3 DEF V
    <3>5. Q[i] \in Strings /\ parses(Q[i])
      <4>1. i \in 1 .. Len(Q) /\ i \in DOMAIN Q
        BY <2>2, <2>4
      <4> QED BY <2>2, <2>4, <4>1, ElementOfSeq, Zenon
    <3>6. parse_fr(Q[i]) = Q[i].value
      <4>1. Q[i].value \in Nat /\ Q[i].value < Prime /\ Prime \in Nat
        BY <3>5, WidthsType DEF Strings, parses
      <4> QED BY <4>1 DEF parse_fr, fr_from_le
    <3> QED BY <2>3, <3>2, <3>4, <3>6
  <2>6. CASE changed = "points"
    <3>1. Q = strs /\ held.points # source.att.points
      BY <2>1, <2>4, <2>6 DEF HeldOfSource
    <3>2. [i \in 1 .. 8 |-> parse_fr(strs[i])] = F
      BY <2>1, UnalteredValues
    <3> HIDE DEF strs, Q, F, w
    <3> QED BY <2>1, <2>2, <3>1, <3>2
  <2> QED BY <2>5, <2>6
<1> QED BY <1>1, HeldInvariance, PTL

-----------------------------------------------------------------------------
(* The commitment: bytes, limbs and the sponge *)

\* The values of a byte.
ByteValues == 0 .. Radix - 1

\* The numbers that the last bytes make, one after the other.
Numbers(c, t) ==
  /\ t \in [0 .. Len(c) -> Nat] /\ t[0] = 0
  /\ \A i \in 1 .. Len(c) : t[i] = c[Len(c) + 1 - i] + Radix * t[i - 1]

\* A byte more, and the number it and the others make.
LEMMA WithByte ==
  ASSUME NEW b \in ByteValues, NEW m \in Nat
  PROVE  /\ b \in Nat /\ b + Radix * m \in Nat /\ Radix \in Nat \ {0}
         /\ (b + Radix * m) % Radix = b /\ (b + Radix * m) \div Radix = m
<1>1. Radix \in Nat \ {0} /\ b \in 0 .. Radix - 1 /\ b \in Nat
  BY SizesType DEF ByteValues
<1>2. Radix * m \in Nat
  BY <1>1
<1> QED BY <1>1, <1>2, TwoDigits

\* from_le_bytes takes the bytes from the last to the first.
LEMMA NumberOf ==
  ASSUME NEW c \in Seq(ByteValues)
  PROVE  \E t : Numbers(c, t) /\ from_le_bytes(c) = t[Len(c)]
<1> DEFINE n == Len(c)
           turns == [i \in 1 .. n |-> [acc \in Nat |-> c[n + 1 - i] + Radix * acc]]
<1>1. n \in Nat
  OBVIOUS
<1>2. \A i \in 1 .. n : c[n + 1 - i] \in ByteValues
  OBVIOUS
<1>3. ASSUME NEW i \in 1 .. n PROVE [acc \in Nat |-> c[n + 1 - i] + Radix * acc] \in [Nat -> Nat]
  <2>1. \A acc \in Nat : c[n + 1 - i] + Radix * acc \in Nat
    BY <1>2, WithByte
  <2> QED BY <2>1
<1>4. turns \in [1 .. n -> [Nat -> Nat]]
  BY <1>3
<1>5. from_le_bytes(c) = Iterate(turns, n, Nat)[0]
  BY DEF from_le_bytes
<1>6. \A i \in 1 .. n : \A acc \in Nat : turns[i][acc] = c[n + 1 - i] + Radix * acc
  OBVIOUS
<1> HIDE DEF turns, n
<1>7. PICK t : Unrolls(t, 0, turns, n, Nat) /\ Iterate(turns, n, Nat)[0] = t[n]
  <2>1. 0 \in Nat
    OBVIOUS
  <2> QED BY <1>1, <1>4, <2>1, Iterates, Zenon
<1>8. t \in [0 .. n -> Nat] /\ t[0] = 0 /\ \A i \in 1 .. n : t[i] = turns[i][t[i - 1]]
  BY <1>7 DEF Unrolls
<1>9. ASSUME NEW i \in 1 .. n PROVE t[i] = c[n + 1 - i] + Radix * t[i - 1]
  <2>1. t[i - 1] \in Nat
    BY <1>1, <1>8
  <2> QED BY <1>6, <1>8, <2>1
<1>10. Numbers(c, t)
  BY <1>8, <1>9 DEF Numbers, n
<1> QED BY <1>5, <1>7, <1>10 DEF n

\* A product grows with its second factor.
LEMMA Grows ==
  ASSUME NEW a \in Nat, NEW x \in Nat, NEW y \in Nat, x <= y
  PROVE  a * x \in Nat /\ a * y \in Nat /\ a * x <= a * y
<1>1. PICK d \in Nat : y = x + d
  OBVIOUS
<1>2. a * y = a * x + a * d /\ a * d \in Nat /\ a * x \in Nat
  BY <1>1
<1> QED BY <1>2

\* No limb exceeds that of the greatest bytes, so none is reduced.
LEMMA NotReduced ==
  ASSUME NEW c \in Seq(ByteValues), Len(c) <= LIMB_LEN
  PROVE  limb_of(c) = from_le_bytes(c) /\ limb_of(c) \in Nat
<1> DEFINE top == [i \in 1 .. LIMB_LEN |-> Radix - 1]
           n == Len(c)
<1>1. LIMB_LEN \in Nat \ {0} /\ Radix \in Nat \ {0} /\ Modulus \in Nat \ {0} /\ n \in Nat
  BY SizesType
<1>2. top \in Seq(ByteValues) /\ Len(top) = LIMB_LEN
      /\ \A i \in 1 .. LIMB_LEN : top[LIMB_LEN + 1 - i] = Radix - 1
  BY <1>1 DEF ByteValues
<1>3. from_le_bytes(top) < Modulus
  BY LimbsFit
<1> HIDE DEF top
<1>4. PICK g : Numbers(top, g) /\ from_le_bytes(top) = g[LIMB_LEN]
  BY <1>2, NumberOf
<1>5. PICK t : Numbers(c, t) /\ from_le_bytes(c) = t[n]
  BY NumberOf
<1>6. /\ g \in [0 .. LIMB_LEN -> Nat] /\ g[0] = 0
      /\ \A i \in 1 .. LIMB_LEN : g[i] = Radix - 1 + Radix * g[i - 1]
  BY <1>2, <1>4 DEF Numbers
<1>7. /\ t \in [0 .. n -> Nat] /\ t[0] = 0
      /\ \A i \in 1 .. n : t[i] = c[n + 1 - i] + Radix * t[i - 1]
  BY <1>5 DEF Numbers
<1> HIDE DEF n
<1>8. 0 .. n \subseteq {i \in 0 .. n : t[i] <= g[i]}
  <2> DEFINE A == {i \in 0 .. n : t[i] <= g[i]}
  <2>1. 0 \in A
    BY <1>1, <1>6, <1>7
  <2>2. ASSUME NEW i \in 0 .. n - 1, i \in A PROVE i + 1 \in A
    <3>1. i + 1 \in 1 .. n /\ i + 1 \in 1 .. LIMB_LEN /\ (i + 1) - 1 = i /\ i \in Nat
      BY <1>1 DEF n
    <3>2. t[i] \in Nat /\ g[i] \in Nat /\ t[i] <= g[i]
      BY <1>1, <1>6, <1>7, <2>2, <3>1
    <3>4. Radix * t[i] \in Nat /\ Radix * g[i] \in Nat /\ Radix * t[i] <= Radix * g[i]
      BY <1>1, <3>2, Grows
    <3>5. c[n + 1 - (i + 1)] \in 0 .. Radix - 1
      <4>1. n + 1 - (i + 1) \in 1 .. Len(c)
        BY <1>1, <3>1 DEF n
      <4>2. c[n + 1 - (i + 1)] \in ByteValues
        BY <4>1
      <4> QED BY <4>2 DEF ByteValues
    <3>6. t[i + 1] = c[n + 1 - (i + 1)] + Radix * t[i] /\ g[i + 1] = Radix - 1 + Radix * g[i]
      BY <1>6, <1>7, <3>1
    <3> QED BY <1>1, <3>1, <3>4, <3>5, <3>6
  <2> HIDE DEF A
  <2> QED BY <1>1, <2>1, <2>2, InductiveTo DEF A
<1>9. 0 .. LIMB_LEN \subseteq {k \in 0 .. LIMB_LEN : g[LIMB_LEN - k] <= g[LIMB_LEN]}
  <2> DEFINE A == {k \in 0 .. LIMB_LEN : g[LIMB_LEN - k] <= g[LIMB_LEN]}
  <2>1. 0 \in A
    BY <1>1, <1>6
  <2>2. ASSUME NEW k \in 0 .. LIMB_LEN - 1, k \in A PROVE k + 1 \in A
    <3> DEFINE i == LIMB_LEN - k
    <3>1. i \in 1 .. LIMB_LEN /\ i - 1 = LIMB_LEN - (k + 1) /\ i - 1 \in 0 .. LIMB_LEN
          /\ g[i] <= g[LIMB_LEN] /\ k + 1 \in 0 .. LIMB_LEN
      BY <1>1, <2>2
    <3> HIDE DEF i
    <3>2. g[i - 1] \in Nat /\ g[i] \in Nat /\ g[i] = Radix - 1 + Radix * g[i - 1]
          /\ g[LIMB_LEN] \in Nat
      BY <1>1, <1>6, <3>1
    <3>3. g[i - 1] * 1 <= g[i - 1] * Radix
      BY <1>1, <3>2, Grows
    <3>4. g[i - 1] * 1 = g[i - 1] /\ g[i - 1] * Radix = Radix * g[i - 1]
      BY <1>1, <3>2
    <3>5. g[i - 1] <= g[LIMB_LEN]
      BY <1>1, <3>1, <3>2, <3>3, <3>4
    <3> QED BY <3>1, <3>5
  <2> HIDE DEF A
  <2> QED BY <1>1, <2>1, <2>2, InductiveTo DEF A
<1>10. LIMB_LEN - n \in 0 .. LIMB_LEN /\ LIMB_LEN - (LIMB_LEN - n) = n /\ n \in 0 .. LIMB_LEN
  BY <1>1 DEF n
<1>11. t[n] <= g[n] /\ g[n] <= g[LIMB_LEN] /\ t[n] \in Nat /\ g[n] \in Nat /\ g[LIMB_LEN] \in Nat
  <2>1. t[n] <= g[n]
    BY <1>1, <1>8
  <2>2. g[LIMB_LEN - (LIMB_LEN - n)] <= g[LIMB_LEN]
    BY <1>9, <1>10
  <2> QED BY <1>1, <1>6, <1>7, <1>10, <2>1, <2>2
<1>12. from_le_bytes(c) \in Nat /\ from_le_bytes(c) < Modulus
  BY <1>1, <1>3, <1>4, <1>5, <1>11
<1> HIDE DEF n
<1> QED BY <1>1, <1>12 DEF limb_of

\* Any byte of a limb can be read back.
LEMMA ByteOf ==
  ASSUME NEW c \in Seq(ByteValues), NEW k \in 0 .. Len(c) - 1
  PROVE  byte_of(from_le_bytes(c), k) = c[k + 1]
<1> DEFINE n == Len(c)
           turns == [i \in 1 .. k |-> [v \in Nat |-> v \div Radix]]
<1>1. PICK t : Numbers(c, t) /\ from_le_bytes(c) = t[n]
  BY NumberOf
<1>2. /\ t \in [0 .. n -> Nat] /\ t[0] = 0
      /\ \A i \in 1 .. n : t[i] = c[n + 1 - i] + Radix * t[i - 1]
  BY <1>1 DEF Numbers
<1>3. n \in Nat /\ k \in Nat /\ k < n /\ Radix \in Nat \ {0}
  BY SizesType
<1>4. \A v \in Nat : v \div Radix \in Nat
  BY <1>3, Division
<1>5. turns \in [1 .. k -> [Nat -> Nat]]
  BY <1>4
<1>6. ASSUME NEW i \in 0 .. n - 1
      PROVE  t[n - i] = c[i + 1] + Radix * t[n - i - 1] /\ c[i + 1] \in ByteValues
             /\ t[n - i - 1] \in Nat
  <2> DEFINE m == n - i
  <2>1. m \in 1 .. n /\ n + 1 - m = i + 1 /\ i + 1 \in 1 .. Len(c) /\ m - 1 \in 0 .. n
    BY <1>3
  <2> HIDE DEF m
  <2>2. t[m] = c[n + 1 - m] + Radix * t[m - 1] /\ t[m - 1] \in Nat
    BY <1>2, <2>1
  <2>3. c[i + 1] \in ByteValues
    BY <2>1
  <2>4. t[m] = c[i + 1] + Radix * t[m - 1] /\ t[m - 1] \in Nat
    BY <2>1, <2>2
  <2> QED BY <2>3, <2>4 DEF m
<1>7. ASSUME NEW i \in 0 .. n - 1
      PROVE  t[n - i] % Radix = c[i + 1] /\ t[n - i] \div Radix = t[n - i - 1]
  <2>1. t[n - i] = c[i + 1] + Radix * t[n - i - 1] /\ c[i + 1] \in ByteValues
        /\ t[n - i - 1] \in Nat
    BY <1>6
  <2> DEFINE x == c[i + 1]
             y == t[n - i - 1]
             z == t[n - i]
  <2> HIDE DEF x, y, z
  <2>2. z = x + Radix * y /\ x \in ByteValues /\ y \in Nat
    BY <2>1 DEF x, y, z
  <2>3. (x + Radix * y) % Radix = x /\ (x + Radix * y) \div Radix = y
    BY <2>2, WithByte
  <2>4. z % Radix = x /\ z \div Radix = y
    BY <2>2, <2>3, Zenon
  <2> QED BY <2>4 DEF x, y, z
<1> DEFINE u == [i \in 0 .. k |-> t[n - i]]
           x == t[n]
<1>8. Unrolls(u, x, turns, k, Nat)
  <2>0. \A i \in 0 .. k : n - i \in 0 .. n
    BY <1>3
  <2>1. u \in [0 .. k -> Nat] /\ u[0] = t[n]
    <3>1. n - 0 = n /\ 0 \in 0 .. k
      BY <1>3
    <3>2. \A i \in 0 .. k : t[n - i] \in Nat
      BY <1>2, <2>0
    <3> QED BY <3>1, <3>2
  <2>2. ASSUME NEW i \in 1 .. k PROVE u[i] = turns[i][u[i - 1]]
    <3>1. /\ i - 1 \in 0 .. n - 1 /\ i - 1 \in 0 .. k /\ n - (i - 1) - 1 = n - i
          /\ n - (i - 1) \in 0 .. n /\ i \in 0 .. k
      BY <1>3
    <3>2. t[n - (i - 1)] \div Radix = t[n - (i - 1) - 1]
      BY <1>7, <3>1
    <3>3. t[n - (i - 1)] \in Nat
      BY <1>2, <3>1
    <3> QED BY <3>1, <3>2, <3>3
  <2> QED BY <2>1, <2>2 DEF Unrolls
<1>9. x \in Nat /\ u[k] = t[n - k]
  BY <1>2, <1>3
<1>10. byte_of(from_le_bytes(c), k) = Iterate(turns, k, Nat)[x] % Radix
  BY <1>1 DEF byte_of
<1> HIDE DEF turns, u, x
<1>11. \A v : Unrolls(v, x, turns, k, Nat) => Iterate(turns, k, Nat)[x] = v[k]
  BY <1>3, <1>5, <1>9, IteratesTo, Zenon
<1>12. Iterate(turns, k, Nat)[x] = t[n - k]
  BY <1>8, <1>9, <1>11, Zenon
<1>13. t[n - k] % Radix = c[k + 1]
  BY <1>3, <1>7
<1> QED BY <1>10, <1>12, <1>13

\* Where a chunk ends.
End(b, j) == IF j * LIMB_LEN > Len(b) THEN Len(b) ELSE j * LIMB_LEN

\* A chunk is a string of bytes no longer than a limb.
LEMMA ChunkType ==
  ASSUME NEW b \in Seq(ByteValues)
  PROVE  /\ Len(chunks(b)) \in Nat /\ Len(b) <= LIMB_LEN * Len(chunks(b))
         /\ DOMAIN chunks(b) = 1 .. Len(chunks(b))
         /\ \A j \in 1 .. Len(chunks(b)) :
              chunks(b)[j] = SubSeq(b, (j - 1) * LIMB_LEN + 1, End(b, j))
         /\ \A j \in 1 .. Len(chunks(b)) :
              chunks(b)[j] \in Seq(ByteValues) /\ Len(chunks(b)[j]) <= LIMB_LEN
<1> DEFINE m == Len(b) + LIMB_LEN - 1
           n == m \div LIMB_LEN
<1>1. LIMB_LEN \in Nat \ {0} /\ Len(b) \in Nat /\ m \in Nat
  BY SizesType
<1>2. n \in Nat /\ m < LIMB_LEN * n + LIMB_LEN
  <2> HIDE DEF m
  <2>1. /\ m = LIMB_LEN * n + (m % LIMB_LEN)
        /\ m % LIMB_LEN \in 0 .. LIMB_LEN - 1 /\ n \in Nat
    BY <1>1, Division, Zenon
  <2> HIDE DEF n
  <2>2. LIMB_LEN * n \in Nat
    BY <1>1, <2>1
  <2> QED BY <1>1, <2>1, <2>2
<1>0. chunks(b) = [j \in 1 .. n |-> SubSeq(b, (j - 1) * LIMB_LEN + 1, End(b, j))]
  BY DEF chunks, End
<1> HIDE DEF n
<1>3. /\ Len(chunks(b)) = n /\ DOMAIN chunks(b) = 1 .. n
      /\ \A j \in 1 .. n : chunks(b)[j] = SubSeq(b, (j - 1) * LIMB_LEN + 1, End(b, j))
  <2> DEFINE c == chunks(b)
  <2> HIDE DEF c
  <2>1. c = [j \in 1 .. n |-> SubSeq(b, (j - 1) * LIMB_LEN + 1, End(b, j))]
    BY <1>0 DEF c
  <2>2. Len(c) = n
    BY <1>2, <2>1
  <2> QED BY <2>1, <2>2 DEF c
<1>4. Len(b) <= LIMB_LEN * n
  <2>1. LIMB_LEN * n \in Nat
    BY <1>1, <1>2
  <2> QED BY <1>1, <1>2, <2>1
<1>5. ASSUME NEW j \in 1 .. n
      PROVE  chunks(b)[j] \in Seq(ByteValues) /\ Len(chunks(b)[j]) <= LIMB_LEN
  <2> DEFINE p == (j - 1) * LIMB_LEN
  <2>1. j * LIMB_LEN = p + LIMB_LEN /\ p \in Nat
    BY <1>1, <1>2
  <2>2. chunks(b)[j] = SubSeq(b, p + 1, End(b, j))
    BY <1>3
  <2> HIDE DEF p
  <2>3. End(b, j) \in 0 .. Len(b) /\ End(b, j) <= p + LIMB_LEN
    BY <1>1, <2>1 DEF End
  <2>4. SubSeq(b, p + 1, End(b, j)) \in Seq(ByteValues)
        /\ Len(SubSeq(b, p + 1, End(b, j))) = IF p + 1 <= End(b, j) THEN End(b, j) - p ELSE 0
    <3>1. \A x \in p + 1 .. End(b, j) : x \in 1 .. Len(b)
      BY <1>1, <2>1, <2>3
    <3> QED BY <1>1, <2>1, <2>3, <3>1, SubSeqProperties
  <2> QED BY <1>1, <2>1, <2>2, <2>3, <2>4
<1> QED BY <1>2, <1>3, <1>4, <1>5

\* A limb and a place in it for every byte of the preimage.
LEMMA ChunkAt ==
  ASSUME NEW b \in Seq(ByteValues), NEW i \in 0 .. Len(b) - 1
  PROVE  LET j == (i \div LIMB_LEN) + 1
             k == i % LIMB_LEN
         IN /\ j \in 1 .. Len(chunks(b)) /\ k \in 0 .. Len(chunks(b)[j]) - 1
            /\ chunks(b)[j][k + 1] = b[i + 1]
<1> DEFINE q == i \div LIMB_LEN
           k == i % LIMB_LEN
           n == Len(chunks(b))
           e == End(b, q + 1)
<1>1. LIMB_LEN \in Nat \ {0} /\ i \in Nat /\ i < Len(b) /\ Len(b) \in Nat
  BY SizesType
<1>2. i = LIMB_LEN * q + k /\ k \in 0 .. LIMB_LEN - 1 /\ q \in Nat
  BY <1>1, Division
<1>3. n \in Nat /\ Len(b) <= LIMB_LEN * n
  BY ChunkType
<1>4. \A j \in 1 .. n : chunks(b)[j] = SubSeq(b, (j - 1) * LIMB_LEN + 1, End(b, j))
  BY ChunkType, Zenon
<1> HIDE DEF n, q, k
<1>5. LIMB_LEN * q \in Nat /\ LIMB_LEN * n \in Nat /\ (q + 1) * LIMB_LEN = LIMB_LEN * q + LIMB_LEN
      /\ (q + 1 - 1) * LIMB_LEN = LIMB_LEN * q
  BY <1>1, <1>2, <1>3
<1>6. q + 1 \in 1 .. n
  <2>1. SUFFICES ASSUME n <= q PROVE FALSE
    BY <1>2, <1>3
  <2>2. PICK d \in Nat : q = n + d
    BY <1>2, <1>3, <2>1
  <2>3. LIMB_LEN * q = LIMB_LEN * n + LIMB_LEN * d /\ LIMB_LEN * d \in Nat
    BY <1>1, <1>3, <2>2
  <2> QED BY <1>1, <1>2, <1>3, <1>5, <2>3
<1>7. e \in LIMB_LEN * q + k + 1 .. Len(b)
  BY <1>1, <1>2, <1>5 DEF End
<1>8. chunks(b)[q + 1] = SubSeq(b, LIMB_LEN * q + 1, e)
  <2> DEFINE j == q + 1
             p == (j - 1) * LIMB_LEN + 1
  <2>1. j \in 1 .. n /\ p = LIMB_LEN * q + 1
    BY <1>1, <1>2, <1>5, <1>6
  <2>2. e = End(b, j)
    OBVIOUS
  <2> HIDE DEF j, e
  <2>3. chunks(b)[j] = SubSeq(b, p, e)
    BY <1>4, <2>1, <2>2
  <2> HIDE DEF p
  <2>4. chunks(b)[j] = SubSeq(b, LIMB_LEN * q + 1, e)
    BY <2>1, <2>3
  <2> QED BY <2>4 DEF j
<1> HIDE DEF e
<1>9. Len(SubSeq(b, LIMB_LEN * q + 1, e)) = e - LIMB_LEN * q
  BY <1>1, <1>5, <1>7, <1>2
<1>10. SubSeq(b, LIMB_LEN * q + 1, e)[k + 1] = b[LIMB_LEN * q + k + 1]
  BY <1>1, <1>5, <1>7, <1>2
<1>11. k \in 0 .. (e - LIMB_LEN * q) - 1
  BY <1>1, <1>2, <1>5, <1>7
<1>12. chunks(b)[q + 1][k + 1] = b[i + 1]
  BY <1>2, <1>8, <1>10
<1> QED BY <1>6, <1>8, <1>9, <1>11, <1>12 DEF n, q, k

\* What is committed to.
preimage == ecmd \o response \o randomness

\* How many limbs the sponge has taken.
TakenBy(s) == Rate * (Len(s.rate) - 1) + s.at
Taken == TakenBy(sponge)

\* The sponge with one limb more.
AbsorbedBy(s, limb) ==
  IF s.at = Rate
  THEN [rate |-> Append(s.rate, [Fresh[1] EXCEPT ![1] = limb]), at |-> 1]
  ELSE [rate |-> [s.rate EXCEPT ![Len(s.rate)][s.at + 1] = limb], at |-> s.at + 1]

\* What a sponge is made of.
SpongeType == [rate : Seq([1 .. Rate -> Nat]), at : 0 .. Rate]

\* What the sponge has taken are the first limbs, in order, and the others are to come.
CommitInv ==
  /\ ecmd \in Bytes(EcmdLen) /\ response \in Bytes(ResponseLen)
  /\ randomness \in Bytes(RandomnessLen)
  /\ sponge \in SpongeType /\ Len(sponge.rate) >= 1
  /\ limbs \in Seq(Nat) /\ Len(to_limbs(preimage)) = Taken + Len(limbs)
  /\ \A i \in 1 .. Len(limbs) : limbs[i] = to_limbs(preimage)[Taken + i]
  /\ \A i \in 0 .. Taken - 1 : absorbed(sponge.rate, i) = to_limbs(preimage)[i + 1]
  /\ digest # <<>> => limbs = <<>> /\ digest = sponge.rate

\* A frame is a string of bytes.
LEMMA FrameType ==
  ASSUME NEW len \in Nat, NEW b \in Bytes(len)
  PROVE  b \in Seq(ByteValues) /\ Len(b) = len
<1>1. b = [i \in 1 .. len |-> b[i]] /\ \A i \in 1 .. len : b[i] \in ByteValues
  BY DEF Bytes, ByteValues
<1> QED BY <1>1

\* The preimage is a string of bytes of a length that never changes.
LEMMA PreimageType ==
  ASSUME ecmd \in Bytes(EcmdLen), response \in Bytes(ResponseLen),
         randomness \in Bytes(RandomnessLen)
  PROVE  preimage \in Seq(ByteValues) /\ Len(preimage) = Total /\ Total \in Nat
<1>1. EcmdLen \in Nat /\ ResponseLen \in Nat /\ RandomnessLen \in Nat
  BY SizesType
<1>2. /\ ecmd \in Seq(ByteValues) /\ Len(ecmd) = EcmdLen
      /\ response \in Seq(ByteValues) /\ Len(response) = ResponseLen
      /\ randomness \in Seq(ByteValues) /\ Len(randomness) = RandomnessLen
  BY <1>1, FrameType
<1> QED BY <1>1, <1>2 DEF preimage, Total

\* A limb for each chunk, none of them reduced.
LEMMA LimbsOf ==
  ASSUME NEW b \in Seq(ByteValues)
  PROVE  /\ to_limbs(b) \in Seq(Nat) /\ Len(to_limbs(b)) = Len(chunks(b))
         /\ \A j \in 1 .. Len(chunks(b)) : to_limbs(b)[j] = from_le_bytes(chunks(b)[j])
<1> DEFINE n == Len(chunks(b))
           c == chunks(b)
<1>1. n \in Nat /\ DOMAIN c = 1 .. n
  BY ChunkType
<1>2. \A j \in 1 .. n : limb_of(c[j]) \in Nat /\ limb_of(c[j]) = from_le_bytes(c[j])
  <2>1. \A j \in 1 .. n : c[j] \in Seq(ByteValues) /\ Len(c[j]) <= LIMB_LEN
    BY ChunkType
  <2> QED BY <2>1, NotReduced
<1>3. to_limbs(b) = [j \in 1 .. n |-> limb_of(c[j])]
  BY <1>1 DEF to_limbs
<1> HIDE DEF n, c
<1>4. to_limbs(b) \in Seq(Nat) /\ Len(to_limbs(b)) = n
      /\ \A j \in 1 .. n : to_limbs(b)[j] = limb_of(c[j])
  BY <1>1, <1>2, <1>3
<1> QED BY <1>2, <1>4 DEF n, c

\* It holds before the first limb.
LEMMA CommitInvInit == ASSUME CommitInit PROVE CommitInv
<1>1. /\ ecmd \in Bytes(EcmdLen) /\ response \in Bytes(ResponseLen)
      /\ randomness \in Bytes(RandomnessLen) /\ limbs = to_limbs(preimage)
      /\ sponge = [rate |-> Fresh, at |-> 0] /\ digest = <<>>
  BY DEF CommitInit, preimage
<1>2. limbs \in Seq(Nat)
  BY <1>1, PreimageType, LimbsOf
<1>3. Fresh \in Seq([1 .. Rate -> Nat]) /\ Len(Fresh) = 1 /\ Rate = 2
  BY DEF Fresh, Rate
<1>4. sponge \in SpongeType /\ Len(sponge.rate) = 1
  BY <1>1, <1>3 DEF SpongeType
<1>5. Taken = 0
  <2>1. sponge.at = 0 /\ Len(sponge.rate) = 1 /\ Rate = 2
    BY <1>1, <1>3, <1>4
  <2> QED BY <2>1 DEF Taken, TakenBy
<1>6. Len(limbs) \in Nat /\ \A i \in 1 .. Len(limbs) : Taken + i = i
  BY <1>2, <1>5
<1>7. /\ Len(to_limbs(preimage)) = Taken + Len(limbs)
      /\ \A i \in 1 .. Len(limbs) : limbs[i] = to_limbs(preimage)[Taken + i]
      /\ \A i \in 0 .. Taken - 1 : absorbed(sponge.rate, i) = to_limbs(preimage)[i + 1]
  BY <1>1, <1>5, <1>6
<1>8. Len(sponge.rate) >= 1 /\ (digest # <<>> => limbs = <<>> /\ digest = sponge.rate)
  <2>1. digest = <<>>
    BY <1>1
  <2>2. Len(sponge.rate) = 1
    BY <1>4
  <2> QED BY <2>1, <2>2
<1>9. /\ ecmd \in Bytes(EcmdLen) /\ response \in Bytes(ResponseLen)
      /\ randomness \in Bytes(RandomnessLen)
  BY <1>1
<1> QED BY <1>2, <1>4, <1>7, <1>8, <1>9, Zenon DEF CommitInv

\* Where the sponge keeps what it takes.
LEMMA Absorbing ==
  ASSUME NEW s \in SpongeType, Len(s.rate) >= 1, NEW limb \in Nat
  PROVE  /\ AbsorbedBy(s, limb) \in SpongeType
         /\ Len(AbsorbedBy(s, limb).rate) >= 1
         /\ TakenBy(s) \in Nat /\ TakenBy(AbsorbedBy(s, limb)) = TakenBy(s) + 1
         /\ \A i \in 0 .. TakenBy(s) - 1 :
              absorbed(AbsorbedBy(s, limb).rate, i) = absorbed(s.rate, i)
         /\ absorbed(AbsorbedBy(s, limb).rate, TakenBy(s)) = limb
<1> DEFINE m == Len(s.rate)
           n == TakenBy(s)
           rows == [1 .. Rate -> Nat]
<1>1. /\ Rate = 2 /\ m \in Nat /\ m >= 1 /\ s.rate \in Seq(rows) /\ s.at \in 0 .. 2
      /\ n = 2 * (m - 1) + s.at /\ n \in Nat
  BY DEF Rate, SpongeType, TakenBy
<1> HIDE DEF n
<1>2. CASE s.at = 2
  <2> DEFINE row == [Fresh[1] EXCEPT ![1] = limb]
             new == Append(s.rate, row)
  <2>1. row \in rows /\ row[1] = limb
    BY <1>1 DEF Fresh
  <2>2. AbsorbedBy(s, limb) = [rate |-> new, at |-> 1]
    BY <1>1, <1>2 DEF AbsorbedBy
  <2> HIDE DEF row, rows
  <2>3. /\ new \in Seq(rows) /\ Len(new) = m + 1
        /\ new[m + 1] = row /\ \A k \in 1 .. m : new[k] = s.rate[k]
    BY <1>1, <2>1
  <2> HIDE DEF new, m
  <2>4. \A i \in 0 .. n - 1 : (i \div 2) + 1 \in 1 .. m
    BY <1>1, <1>2
  <2>5. (n \div 2) + 1 = m + 1 /\ (n % 2) + 1 = 1
    BY <1>1, <1>2
  <2>6. \A i \in 0 .. n - 1 : absorbed(new, i) = absorbed(s.rate, i)
    BY <1>1, <2>3, <2>4 DEF absorbed
  <2>7. absorbed(new, n) = limb
    BY <1>1, <2>1, <2>3, <2>5 DEF absorbed
  <2>8. TakenBy([rate |-> new, at |-> 1]) = n + 1
    BY <1>1, <1>2, <2>3 DEF TakenBy
  <2>9. [rate |-> new, at |-> 1] \in SpongeType /\ Len(new) >= 1
    BY <1>1, <2>3 DEF SpongeType, rows
  <2> QED BY <1>1, <2>2, <2>6, <2>7, <2>8, <2>9 DEF n
<1>3. CASE s.at # 2
  <2> DEFINE row == [s.rate[m] EXCEPT ![s.at + 1] = limb]
             new == [s.rate EXCEPT ![m] = row]
             at == s.at + 1
  <2>1. m \in 1 .. m /\ at \in 1 .. 2 /\ s.rate[m] \in rows
    BY <1>1, <1>3
  <2>2. /\ row \in rows /\ row[at] = limb
        /\ \A j \in 1 .. 2 : j # at => row[j] = s.rate[m][j]
    BY <1>1, <2>1
  <2>3. AbsorbedBy(s, limb) = [rate |-> new, at |-> at]
    BY <1>1, <1>3 DEF AbsorbedBy
  <2> HIDE DEF row, rows
  <2>4. /\ new \in Seq(rows) /\ Len(new) = m
        /\ new[m] = row /\ \A k \in 1 .. m : k # m => new[k] = s.rate[k]
    BY <1>1, <2>1, <2>2
  <2> HIDE DEF new, m, at
  <2>5. \A i \in 0 .. n - 1 :
          /\ (i \div 2) + 1 \in 1 .. m /\ (i % 2) + 1 \in 1 .. 2
          /\ (i \div 2) + 1 # m \/ (i % 2) + 1 # at
    BY <1>1, <1>3 DEF at
  <2>6. (n \div 2) + 1 = m /\ (n % 2) + 1 = at
    <3>1. /\ m \in Nat /\ m >= 1
          /\ \/ n = 2 * (m - 1) /\ at = 1
             \/ n = 2 * (m - 1) + 1 /\ at = 2
      BY <1>1, <1>3 DEF at
    <3> QED BY <3>1
  <2>7. \A i \in 0 .. n - 1 : absorbed(new, i) = absorbed(s.rate, i)
    BY <1>1, <2>2, <2>4, <2>5 DEF absorbed
  <2>8. absorbed(new, n) = limb
    BY <1>1, <2>2, <2>4, <2>6 DEF absorbed
  <2>9. TakenBy([rate |-> new, at |-> at]) = n + 1
    BY <1>1, <1>3, <2>4 DEF TakenBy, at
  <2>10. [rate |-> new, at |-> at] \in SpongeType /\ Len(new) >= 1
    BY <1>1, <2>1, <2>4 DEF SpongeType, rows
  <2> QED BY <1>1, <2>3, <2>7, <2>8, <2>9, <2>10 DEF n
<1> QED BY <1>2, <1>3

\* Each limb goes where the next one belongs.
LEMMA CommitInvNext == ASSUME CommitInv, [CommitNext]_commitVars PROVE CommitInv'
<1> DEFINE all == to_limbs(preimage)
<1>1. CASE Absorb
  <2>1. /\ limbs # <<>> /\ limbs' = Tail(limbs)
        /\ UNCHANGED <<ecmd, response, randomness, digest>> /\ preimage' = preimage
    BY <1>1 DEF Absorb, preimage
  <2>2. /\ sponge \in SpongeType
        /\ Len(sponge.rate) >= 1
        /\ limbs \in Seq(Nat) /\ Len(all) = Taken + Len(limbs)
        /\ \A i \in 1 .. Len(limbs) : limbs[i] = all[Taken + i]
        /\ \A i \in 0 .. Taken - 1 : absorbed(sponge.rate, i) = all[i + 1]
        /\ digest = <<>>
    BY <2>1 DEF CommitInv
  <2>3. Len(limbs) \in Nat \ {0} /\ Head(limbs) \in Nat /\ Head(limbs) = limbs[1]
        /\ Tail(limbs) \in Seq(Nat) /\ Len(Tail(limbs)) = Len(limbs) - 1
        /\ \A i \in 1 .. Len(limbs) - 1 : Tail(limbs)[i] = limbs[i + 1]
    BY <2>1, <2>2
  <2>4. /\ sponge' \in SpongeType /\ Len(sponge'.rate) >= 1
        /\ Taken' = Taken + 1
        /\ \A i \in 0 .. Taken - 1 : absorbed(sponge'.rate, i) = absorbed(sponge.rate, i)
        /\ absorbed(sponge'.rate, Taken) = Head(limbs)
    <3>1. sponge' = AbsorbedBy(sponge, Head(limbs))
      BY <1>1 DEF Absorb, AbsorbedBy
    <3>2. Taken' = TakenBy(AbsorbedBy(sponge, Head(limbs)))
      BY <3>1 DEF Taken, TakenBy
    <3> QED BY <2>2, <2>3, <3>1, <3>2, Absorbing, Zenon DEF Taken
  <2>5. Taken \in Nat
    <3>1. sponge \in SpongeType /\ Len(sponge.rate) >= 1 /\ Head(limbs) \in Nat
      BY <2>2, <2>3
    <3>2. TakenBy(sponge) \in Nat
      BY <3>1, Absorbing
    <3> QED BY <3>2 DEF Taken
  <2> HIDE DEF all
  <2>6. limbs' \in Seq(Nat) /\ Len(all) = Taken' + Len(limbs')
    BY <2>1, <2>2, <2>3, <2>4, <2>5
  <2>7. \A i \in 1 .. Len(limbs') : limbs'[i] = all[Taken' + i]
    <3> TAKE i \in 1 .. Len(limbs')
    <3>1. i \in 1 .. Len(limbs) - 1 /\ i + 1 \in 1 .. Len(limbs) /\ Taken + (i + 1) = Taken' + i
      <4>1. Len(limbs') = Len(limbs) - 1 /\ Len(limbs) \in Nat
        BY <2>1, <2>3
      <4>2. Taken' = Taken + 1
        BY <2>4
      <4> QED BY <2>5, <4>1, <4>2
    <3> QED BY <2>1, <2>2, <2>3, <3>1
  <2>8. \A i \in 0 .. Taken' - 1 : absorbed(sponge'.rate, i) = all[i + 1]
    <3> TAKE i \in 0 .. Taken' - 1
    <3>1. i \in 0 .. Taken - 1 \/ i = Taken
      BY <2>4, <2>5
    <3>2. all[Taken + 1] = Head(limbs)
      BY <2>2, <2>3
    <3> QED BY <2>2, <2>4, <3>1, <3>2
  <2>9. all = to_limbs(preimage')
    BY <2>1 DEF all
  <2> QED BY <2>1, <2>2, <2>4, <2>6, <2>7, <2>8, <2>9 DEF CommitInv
<1>2. CASE Squeeze
  BY <1>2 DEF Squeeze, CommitInv, preimage, Taken, TakenBy
<1>3. CASE UNCHANGED commitVars
  BY <1>3 DEF commitVars, CommitInv, preimage, Taken, TakenBy
<1> QED BY <1>1, <1>2, <1>3 DEF CommitNext

\* The sponge takes the limbs of the preimage one after the other, in order, whatever the sizes
\* (commit.rs commit).
THEOREM CommitInvariance == CommitSpec => []CommitInv
<1>1. CommitInit => CommitInv
  BY CommitInvInit
<1>2. CommitInv /\ [CommitNext]_commitVars => CommitInv'
  BY CommitInvNext
<1> QED BY <1>1, <1>2, PTL DEF CommitSpec

\* A digest has one opening, for any sizes of the frames and of a limb, as long as a limb of the
\* greatest bytes is below the order of the field (commit.rs "248-bit chunks never wrap").
THEOREM DigestsOpenOnce == CommitSpec => []OneOpening
<1>1. CommitInv => OneOpening
  <2> SUFFICES ASSUME CommitInv, digest # <<>>
               PROVE  /\ Len(digest) * Rate * LIMB_LEN >= Total
                      /\ preimage = [i \in 1 .. Total |-> opened_at(digest, i - 1)]
    BY DEF OneOpening, preimage
  <2> DEFINE b == preimage
             n == Len(chunks(b))
  <2>1. b \in Seq(ByteValues) /\ Len(b) = Total /\ Total \in Nat /\ b = [i \in 1 .. Total |-> b[i]]
    BY PreimageType DEF CommitInv
  <2>2. /\ digest = sponge.rate /\ Len(digest) \in Nat /\ Len(digest) >= 1
        /\ sponge.at \in 0 .. Rate
        /\ Taken = Len(to_limbs(b))
        /\ \A i \in 0 .. Taken - 1 : absorbed(digest, i) = to_limbs(b)[i + 1]
    <3>1. /\ digest = sponge.rate /\ sponge \in SpongeType /\ Len(digest) >= 1 /\ limbs = <<>>
          /\ Len(to_limbs(b)) = Taken + Len(limbs)
          /\ \A i \in 0 .. Taken - 1 : absorbed(digest, i) = to_limbs(b)[i + 1]
      BY DEF CommitInv
    <3>2. Len(limbs) = 0
      BY <3>1
    <3>3. Len(digest) \in Nat /\ sponge.at \in 0 .. Rate /\ Taken \in Nat
      BY <3>1 DEF SpongeType, Taken, TakenBy, Rate
    <3> QED BY <3>1, <3>2, <3>3
  <2>3. Taken = n /\ n \in Nat /\ Total <= LIMB_LEN * n
        /\ \A j \in 1 .. n : to_limbs(b)[j] = from_le_bytes(chunks(b)[j])
    BY <2>1, <2>2, LimbsOf, ChunkType
  <2>4. Len(digest) * Rate * LIMB_LEN >= Total
    <3>1. n <= Len(digest) * Rate /\ Len(digest) * Rate \in Nat /\ LIMB_LEN \in Nat
      BY <2>2, <2>3, SizesType DEF Taken, TakenBy, Rate
    <3> DEFINE l == Len(digest) * Rate
    <3> HIDE DEF l, n
    <3>2. LIMB_LEN * n \in Nat /\ LIMB_LEN * l \in Nat /\ LIMB_LEN * n <= LIMB_LEN * l
      BY <2>3, <3>1, Grows DEF l
    <3>3. l * LIMB_LEN = LIMB_LEN * l
      BY <3>1 DEF l
    <3> QED BY <2>1, <2>3, <3>2, <3>3 DEF l
  <2>5. ASSUME NEW i \in 1 .. Total PROVE opened_at(digest, i - 1) = b[i]
    <3> DEFINE q == (i - 1) \div LIMB_LEN
               k == (i - 1) % LIMB_LEN
               c == chunks(b)[q + 1]
    <3>1. i - 1 \in 0 .. Len(b) - 1 /\ (i - 1) + 1 = i
      BY <2>1
    <3>2. q + 1 \in 1 .. n /\ k \in 0 .. Len(c) - 1 /\ c[k + 1] = b[i]
      BY <2>1, <3>1, ChunkAt
    <3>3. c \in Seq(ByteValues)
      BY <2>1, <3>2, ChunkType
    <3>4. q \in 0 .. Taken - 1
      <4>1. LIMB_LEN \in Nat \ {0} /\ i - 1 \in Nat
        BY SizesType
      <4>2. q \in Nat
        BY <4>1, Division
      <4> HIDE DEF q, n
      <4> QED BY <2>3, <3>2, <4>2
    <3>5. absorbed(digest, q) = from_le_bytes(c)
      BY <2>2, <2>3, <3>2, <3>4
    <3>6. byte_of(from_le_bytes(c), k) = c[k + 1]
      BY <3>2, <3>3, ByteOf
    <3> QED BY <3>2, <3>5, <3>6, Zenon DEF opened_at
  <2> QED BY <2>1, <2>4, <2>5
<1> QED BY <1>1, CommitInvariance, PTL

-----------------------------------------------------------------------------
(* Numbers modulo the order of the field *)

\* The same element of the field.
Congruent(a, b) == \E k \in Int : a = b + Order * k

\* The order is a prime beyond the points.
LEMMA OrderType == Order \in Nat \ {0} /\ Order > 64 /\ Order \in Int
  BY OrderIsPrime

\* Congruence is an equivalence.
LEMMA Reflexive == ASSUME NEW a \in Int PROVE Congruent(a, a)
<1>1. a = a + Order * 0 /\ 0 \in Int
  BY OrderType
<1> QED BY <1>1 DEF Congruent

\* Either way round.
LEMMA Symmetric == ASSUME NEW a \in Int, NEW b \in Int, Congruent(a, b) PROVE Congruent(b, a)
<1>1. PICK k \in Int : a = b + Order * k
  BY DEF Congruent
<1>2. -k \in Int /\ b = a + Order * (-k)
  BY <1>1, OrderType
<1> QED BY <1>2 DEF Congruent

\* And along a chain.
LEMMA Transitive ==
  ASSUME NEW a \in Int, NEW b \in Int, NEW c \in Int, Congruent(a, b), Congruent(b, c)
  PROVE  Congruent(a, c)
<1>1. PICK k \in Int : a = b + Order * k
  BY DEF Congruent
<1>2. PICK l \in Int : b = c + Order * l
  BY DEF Congruent
<1>3. k + l \in Int /\ a = c + Order * (k + l)
  BY <1>1, <1>2, OrderType
<1> QED BY <1>3 DEF Congruent

\* Sums of congruent numbers are congruent.
LEMMA Sums ==
  ASSUME NEW a \in Int, NEW b \in Int, NEW c \in Int, NEW d \in Int,
         Congruent(a, b), Congruent(c, d)
  PROVE  Congruent(a + c, b + d)
<1>1. PICK k \in Int : a = b + Order * k
  BY DEF Congruent
<1>2. PICK l \in Int : c = d + Order * l
  BY DEF Congruent
<1>3. k + l \in Int /\ a + c = (b + d) + Order * (k + l)
  BY <1>1, <1>2, OrderType
<1> QED BY <1>3 DEF Congruent

\* So are their products.
LEMMA Products ==
  ASSUME NEW a \in Int, NEW b \in Int, NEW c \in Int, NEW d \in Int,
         Congruent(a, b), Congruent(c, d)
  PROVE  Congruent(a * c, b * d)
<1>1. PICK k \in Int : a = b + Order * k
  BY DEF Congruent
<1>2. PICK l \in Int : c = d + Order * l
  BY DEF Congruent
<1> DEFINE m == b * l + k * d + Order * (k * l)
<1>3. m \in Int
  BY OrderType
<1>4. a * c = b * d + Order * m
  <2>1. a * c = (b + Order * k) * (d + Order * l)
    BY <1>1, <1>2
  <2>2. (b + Order * k) * (d + Order * l) = b * d + Order * m
    BY OrderType
  <2> QED BY <2>1, <2>2
<1> QED BY <1>3, <1>4 DEF Congruent

\* A number and its remainder are the same element.
LEMMA Remainder ==
  ASSUME NEW a \in Int PROVE a % Order \in Field /\ Congruent(a % Order, a)
<1> DEFINE q == a \div Order
           r == a % Order
<1>1. a = Order * q + r /\ r \in 0 .. Order - 1 /\ q \in Int
  BY OrderType
<1> HIDE DEF q, r
<1>2. -q \in Int /\ r = a + Order * (-q)
  BY <1>1, OrderType
<1> QED BY <1>1, <1>2 DEF Congruent, Field, r

\* Two remainders of one element are equal.
LEMMA SameElement == ASSUME NEW a \in Field, NEW b \in Field, Congruent(a, b) PROVE a = b
<1>1. PICK k \in Int : a = b + Order * k
  BY DEF Congruent
<1>2. a \in 0 .. Order - 1 /\ b \in 0 .. Order - 1
  BY DEF Field
<1>3. ASSUME k >= 1 PROVE FALSE
  <2>1. PICK d \in Nat : k = 1 + d
    BY <1>1, <1>3
  <2>2. Order * k = Order + Order * d /\ Order * d \in Nat
    BY <2>1, OrderType
  <2> QED BY <1>1, <1>2, <2>2, OrderType
<1>4. ASSUME k <= -1 PROVE FALSE
  <2>1. PICK d \in Nat : k = -1 - d
    <3> DEFINE d == -1 - k
    <3>1. d \in Nat /\ k = -1 - d
      BY <1>1, <1>4
    <3> QED BY <3>1
  <2>2. Order * k = -Order - Order * d /\ Order * d \in Nat
    BY <2>1, OrderType
  <2> QED BY <1>1, <1>2, <2>2, OrderType
<1>5. k = 0
  BY <1>1, <1>3, <1>4
<1>6. Order * k = 0
  BY <1>5, OrderType
<1> QED BY <1>1, <1>2, <1>6

\* A set of positive numbers that is not empty has a least one.
LEMMA Least ==
  ASSUME NEW A, A \subseteq Nat, A # {} PROVE \E m \in A : \A n \in A : m <= n
<1>1. PICK m \in A : \A n \in A : <<n, m>> \notin OpToRel(<, Nat)
  BY NatLessThanWellFounded, WFMin
<1>2. \A n \in A : ~(n < m)
  BY <1>1, Zenon DEF OpToRel
<1> QED BY <1>2

\* The remainder of a combination of two numbers by another is one.
LEMMA RemainderCombines ==
  ASSUME NEW x \in Int, NEW y \in Int, NEW i \in Int, NEW j \in Int, NEW k \in Int,
         NEW l \in Int, NEW q \in Int, NEW r \in Int,
         i * x + j * y = (k * x + l * y) * q + r
  PROVE  r = (i - k * q) * x + (j - l * q) * y
<1>1. (k * x + l * y) * q = (k * q) * x + (l * q) * y
  OBVIOUS
<1>2. (i - k * q) * x + (j - l * q) * y = (i * x + j * y) - ((k * q) * x + (l * q) * y)
  OBVIOUS
<1> DEFINE A == i * x + j * y
           B == (k * q) * x + (l * q) * y
           C == (i - k * q) * x + (j - l * q) * y
<1>3. A = B + r /\ C = A - B /\ A \in Int /\ B \in Int
  BY <1>1, <1>2
<1> HIDE DEF A, B, C
<1>4. r = C
  BY <1>3
<1> QED BY <1>4 DEF C

\* What Euclid's algorithm comes to: a number below the order that is not 0 has an inverse.
LEMMA Inverses ==
  ASSUME NEW x \in 1 .. Order - 1 PROVE \E y \in 1 .. Order - 1 : (x * y) % Order = 1
<1> DEFINE A == {m \in Nat \ {0} : \E k, l \in Int : m = k * x + l * Order}
<1>1. x \in A
  <2>1. x = 1 * x + 0 * Order /\ 1 \in Int /\ 0 \in Int /\ x \in Nat \ {0}
    BY OrderType
  <2> QED BY <2>1
<1>2. PICK m \in A : \A n \in A : m <= n
  <2>1. A \subseteq Nat /\ A # {}
    BY <1>1
  <2> HIDE DEF A
  <2> QED BY <2>1, Least
<1>3. PICK k \in Int, l \in Int : m = k * x + l * Order
  BY <1>2
<1>4. m \in Nat \ {0} /\ m <= x
  BY <1>1, <1>2
<1>5. ASSUME NEW n \in Nat, NEW i \in Int, NEW j \in Int, n = i * x + j * Order
      PROVE  n % m = 0
  <2> DEFINE q == n \div m
             r == n % m
  <2>1. n = m * q + r /\ r \in 0 .. m - 1 /\ q \in Nat
    BY <1>4, Division
  <2> HIDE DEF q, r
  <2>2. SUFFICES ASSUME r # 0 PROVE FALSE
    BY DEF r
  <2> DEFINE i1 == i - k * q
             j1 == j - l * q
  <2>3. i * x + j * Order = (k * x + l * Order) * q + r
    BY <1>3, <1>5, <2>1, Zenon
  <2>4. r = i1 * x + j1 * Order /\ i1 \in Int /\ j1 \in Int
    <3>1. x \in Int /\ Order \in Int /\ r \in Int
      BY <1>4, <2>1, OrderType
    <3>2. r = i1 * x + j1 * Order
      BY <2>1, <2>3, <3>1, RemainderCombines
    <3>3. i1 \in Int /\ j1 \in Int
      BY <2>1
    <3> HIDE DEF i1, j1
    <3> QED BY <3>2, <3>3
  <2> HIDE DEF i1, j1
  <2>5. r \in Nat \ {0}
    BY <1>4, <2>1, <2>2
  <2>6. r \in A
    BY <2>4, <2>5
  <2> HIDE DEF A
  <2>7. m <= r
    BY <1>2, <2>6
  <2> QED BY <1>4, <2>1, <2>7
<1>6. Order % m = 0
  <2>1. Order = 0 * x + 1 * Order /\ 0 \in Int /\ 1 \in Int /\ Order \in Nat
    BY OrderType
  <2> QED BY <1>5, <2>1
<1>7. m = 1
  BY <1>4, <1>6, OrderIsPrime
<1> DEFINE y == k % Order
<1>8. y \in Field /\ Congruent(y, k)
  BY Remainder
<1> HIDE DEF y
<1>9. y \in Int /\ Congruent(x * y, 1)
  <2>1. y \in Int
    BY <1>8, OrderType DEF Field
  <2>2. Congruent(x * y, x * k)
    BY <1>8, <2>1, Reflexive, Products
  <2>3. x * k = 1 + Order * (-l) /\ -l \in Int /\ x * k \in Int /\ x * y \in Int
    BY <1>3, <1>7, <2>1, OrderType
  <2>4. Congruent(x * k, 1)
    BY <2>3 DEF Congruent
  <2> QED BY <2>1, <2>2, <2>3, <2>4, Transitive
<1>10. (x * y) % Order = 1
  <2>1. x * y \in Int
    BY <1>9
  <2>2. (x * y) % Order \in Field /\ Congruent((x * y) % Order, x * y)
    BY <2>1, Remainder
  <2>3. (x * y) % Order \in Int /\ 1 \in Field /\ 1 \in Int
    BY <2>2, OrderType DEF Field
  <2>4. Congruent((x * y) % Order, 1)
    BY <1>9, <2>1, <2>2, <2>3, Transitive
  <2> QED BY <2>2, <2>3, <2>4, SameElement
<1>11. y # 0
  <2>1. SUFFICES ASSUME y = 0 PROVE FALSE
    OBVIOUS
  <2>2. x * y = 0 /\ 0 % Order = 0
    BY <2>1, OrderType
  <2> QED BY <1>10, <2>2
<1>12. y \in 1 .. Order - 1
  BY <1>8, <1>11, OrderType DEF Field
<1> QED BY <1>10, <1>12

\* The inverse of a pivot, as the elimination takes it.
LEMMA InverseOf ==
  ASSUME NEW x \in 1 .. Order - 1
  PROVE  inverse(x) \in 1 .. Order - 1 /\ (x * inverse(x)) % Order = 1
  BY Inverses DEF inverse

\* Any number that is not 0 in the field has an inverse there.
LEMMA Invertible ==
  ASSUME NEW a \in Int, ~Congruent(a, 0) PROVE \E u \in Int : Congruent(u * a, 1)
<1> DEFINE x == a % Order
<1>1. x \in Field /\ Congruent(x, a)
  BY Remainder
<1> HIDE DEF x
<1>2. x \in Int /\ Congruent(a, x)
  BY <1>1, Symmetric, OrderType DEF Field
<1>3. x \in 1 .. Order - 1
  <2>1. x # 0
    BY <1>2
  <2> QED BY <1>1, <2>1, OrderType DEF Field
<1>4. PICK y \in 1 .. Order - 1 : (x * y) % Order = 1
  BY <1>3, Inverses
<1>5. x * y \in Int /\ y \in Int /\ y * a \in Int
  BY <1>2, OrderType
<1>6. Congruent(1, x * y)
  BY <1>4, <1>5, Remainder
<1>7. Congruent(y * a, y * x)
  BY <1>2, <1>5, Reflexive, Products
<1>8. y * x = x * y
  BY <1>2, <1>5
<1>9. Congruent(x * y, 1)
  BY <1>5, <1>6, Symmetric
<1>10. Congruent(y * x, 1) /\ y * x \in Int
  BY <1>5, <1>8, <1>9
<1>11. Congruent(y * a, 1)
  BY <1>5, <1>7, <1>10, Transitive
<1> QED BY <1>5, <1>11

-----------------------------------------------------------------------------
(* Steps of a sum, of Horner's scheme and of a division *)

\* A sum that a combination of two rows makes, a step further.
LEMMA CombinedStep ==
  ASSUME NEW c \in Int, NEW a \in Int, NEW e \in Int, NEW e1 \in Int, NEW e2 \in Int,
         NEW x1 \in Int, NEW x2 \in Int, NEW y1 \in Int, NEW y2 \in Int,
         Congruent(y1, x1 + e1 * a), Congruent(y2, x2 + e2 * a), Congruent(e, e1 + c * e2)
  PROVE  Congruent(y1 + c * y2, (x1 + c * x2) + e * a)
<1>1. PICK k1 \in Int : y1 = (x1 + e1 * a) + Order * k1
  BY DEF Congruent
<1>2. PICK k2 \in Int : y2 = (x2 + e2 * a) + Order * k2
  BY DEF Congruent
<1>3. PICK k3 \in Int : e = (e1 + c * e2) + Order * k3
  BY DEF Congruent
<1> DEFINE k == k1 + c * k2 - k3 * a
<1>4. k \in Int
  OBVIOUS
<1>5. y1 + c * y2 = ((x1 + c * x2) + e * a) + Order * k
  <2>1. y1 + c * y2 = (x1 + e1 * a) + Order * k1 + c * ((x2 + e2 * a) + Order * k2)
    BY <1>1, <1>2
  <2>2. e * a = ((e1 + c * e2) + Order * k3) * a
    BY <1>3
  <2>3. (x1 + e1 * a) + Order * k1 + c * ((x2 + e2 * a) + Order * k2)
          = (x1 + c * x2) + ((e1 + c * e2) + Order * k3) * a + Order * k
    BY OrderType
  <2> QED BY <2>1, <2>2, <2>3
<1> QED BY <1>4, <1>5 DEF Congruent

\* A sum of powers and what Horner's scheme has for the rest, a step further.
LEMMA HornerStep ==
  ASSUME NEW a \in Int, NEW x \in Int, NEW z \in Int, NEW p \in Int, NEW q \in Int,
         NEW t \in Int, NEW u \in Int, NEW g \in Int, NEW h \in Int,
         Congruent(u, t + p * a), Congruent(q, p * x), Congruent(g, h * x + a),
         Congruent(t + p * g, z)
  PROVE  Congruent(u + q * h, z)
<1>1. PICK k1 \in Int : u = (t + p * a) + Order * k1
  BY DEF Congruent
<1>2. PICK k2 \in Int : q = p * x + Order * k2
  BY DEF Congruent
<1>3. PICK k3 \in Int : g = (h * x + a) + Order * k3
  BY DEF Congruent
<1>4. PICK k4 \in Int : t + p * g = z + Order * k4
  BY DEF Congruent
<1> DEFINE k == k1 + k2 * h - p * k3 + k4
<1>5. k \in Int
  OBVIOUS
<1>6. u + q * h = z + Order * k
  <2>1. u + q * h = (t + p * a) + Order * k1 + (p * x + Order * k2) * h
    BY <1>1, <1>2
  <2>2. t + p * ((h * x + a) + Order * k3) = z + Order * k4
    BY <1>3, <1>4
  <2>3. (t + p * a) + Order * k1 + (p * x + Order * k2) * h
          = t + p * ((h * x + a) + Order * k3) + Order * (k1 + k2 * h - p * k3)
    BY OrderType
  <2>4. Order * k4 + Order * (k1 + k2 * h - p * k3) = Order * k
    BY OrderType
  <2> QED BY <2>1, <2>2, <2>3, <2>4, OrderType
<1> QED BY <1>5, <1>6 DEF Congruent

\* The scheme at two places, a step further: the difference divided by that of the places is the
\* scheme of the quotient.
LEMMA QuotientStep ==
  ASSUME NEW a \in Int, NEW x \in Int, NEW r \in Int, NEW u \in Int,
         NEW g \in Int, NEW g1 \in Int, NEW h \in Int, NEW h1 \in Int,
         Congruent(g1, g * x + a), Congruent(h1, h * r + a), Congruent(u * (x - r), 1)
  PROVE  Congruent(u * (g1 - h1), (u * (g - h)) * x + h)
<1>1. PICK k1 \in Int : g1 = (g * x + a) + Order * k1
  BY DEF Congruent
<1>2. PICK k2 \in Int : h1 = (h * r + a) + Order * k2
  BY DEF Congruent
<1>3. PICK k3 \in Int : u * (x - r) = 1 + Order * k3
  BY DEF Congruent
<1> DEFINE k == u * (k1 - k2) + k3 * h
<1>4. k \in Int
  OBVIOUS
<1>5. u * (g1 - h1) = ((u * (g - h)) * x + h) + Order * k
  <2>1. u * (g1 - h1) = u * (((g * x + a) + Order * k1) - ((h * r + a) + Order * k2))
    BY <1>1, <1>2
  <2>2. u * (((g * x + a) + Order * k1) - ((h * r + a) + Order * k2))
          = (u * (g - h)) * x + (u * (x - r)) * h + Order * (u * (k1 - k2))
    BY OrderType
  <2>3. (u * (x - r)) * h = (1 + Order * k3) * h
    BY <1>3
  <2>4. (1 + Order * k3) * h + Order * (u * (k1 - k2)) = h + Order * k
    BY OrderType
  <2> QED BY <2>1, <2>2, <2>3, <2>4, OrderType
<1> QED BY <1>4, <1>5 DEF Congruent

-----------------------------------------------------------------------------
(* A polynomial with as many zeros as coefficients is zero *)

\* A turn of Horner's scheme at x: what it has from this coefficient on and from the next one on.
Turned(g, h, x, c) == Congruent(g, h * x + c)

\* The values of Horner's scheme at x for the coefficients 0 to n, in the field.
Scheme(a, n, x, h) ==
  /\ h \in [0 .. n -> Int] /\ Congruent(h[n], a[n])
  /\ \A j \in 0 .. n - 1 : Turned(h[j], h[j + 1], x, a[j])

\* The polynomial with the coefficients a is zero at x.
Root(a, n, x) == \E h : Scheme(a, n, x, h) /\ Congruent(h[0], 0)

\* The difference of two elements of the field is not zero.
LEMMA PointsDiffer ==
  ASSUME NEW x \in Field, NEW y \in Field, x # y PROVE ~Congruent(x - y, 0)
<1>1. x \in Int /\ y \in Int
  BY OrderType DEF Field
<1>2. SUFFICES ASSUME Congruent(x - y, 0) PROVE FALSE
  OBVIOUS
<1>3. PICK k \in Int : x - y = 0 + Order * k
  BY <1>2 DEF Congruent
<1>4. x = y + Order * k
  BY <1>1, <1>3, OrderType
<1>5. Congruent(x, y)
  BY <1>4 DEF Congruent
<1> QED BY <1>1, <1>5, SameElement

\* Dividing by the difference of two zeros: the quotient has the other zero too.
LEMMA QuotientRoot ==
  ASSUME NEW n \in Nat, NEW a \in [0 .. n + 1 -> Int], NEW r \in Field, NEW x \in Field,
         x # r, Root(a, n + 1, x), NEW h, Scheme(a, n + 1, r, h), Congruent(h[0], 0)
  PROVE  Root([j \in 0 .. n |-> h[j + 1]], n, x)
<1> DEFINE q == [j \in 0 .. n |-> h[j + 1]]
<1>0. x \in Int /\ r \in Int
  BY OrderType DEF Field
<1>1. PICK g : Scheme(a, n + 1, x, g) /\ Congruent(g[0], 0)
  BY DEF Root
<1>2. PICK u \in Int : Congruent(u * (x - r), 1)
  <2>1. ~Congruent(x - r, 0)
    BY PointsDiffer, Zenon
  <2>2. x - r \in Int
    BY <1>0
  <2> QED BY <2>1, <2>2, Invertible, Zenon
<1>3. /\ h \in [0 .. n + 1 -> Int] /\ g \in [0 .. n + 1 -> Int]
      /\ Congruent(h[n + 1], a[n + 1]) /\ Congruent(g[n + 1], a[n + 1])
      /\ \A j \in 0 .. n : Turned(h[j], h[j + 1], r, a[j])
      /\ \A j \in 0 .. n : Turned(g[j], g[j + 1], x, a[j])
  <2>1. n + 1 - 1 = n
    OBVIOUS
  <2> QED BY <1>1, <2>1 DEF Scheme
<1> DEFINE k == [j \in 0 .. n |-> u * (g[j] - h[j])]
<1>4. \A j \in 0 .. n + 1 : h[j] \in Int /\ g[j] \in Int /\ a[j] \in Int
  BY <1>3
<1>5. k \in [0 .. n -> Int]
  BY <1>4
<1>6. ASSUME NEW j \in 0 .. n
      PROVE  Congruent(u * (g[j] - h[j]), (u * (g[j + 1] - h[j + 1])) * x + h[j + 1])
  <2>1. /\ Turned(h[j], h[j + 1], r, a[j]) /\ Turned(g[j], g[j + 1], x, a[j])
        /\ j \in 0 .. n + 1 /\ j + 1 \in 0 .. n + 1
    BY <1>3
  <2>2. /\ h[j] \in Int /\ g[j] \in Int /\ a[j] \in Int /\ h[j + 1] \in Int /\ g[j + 1] \in Int
    BY <1>4, <2>1
  <2> QED BY <1>0, <1>2, <2>1, <2>2, QuotientStep DEF Turned
<1>7. Congruent(k[n], q[n])
  <2> DEFINE g1 == g[n + 1]
             h1 == h[n + 1]
             b == a[n + 1]
  <2>1. n \in 0 .. n /\ n + 1 \in 0 .. n + 1
    OBVIOUS
  <2>2. g1 \in Int /\ h1 \in Int /\ b \in Int /\ Congruent(g1, b) /\ Congruent(h1, b)
    BY <1>3, <1>4, <2>1
  <2>3. Congruent(u * (g[n] - h[n]), (u * (g1 - h1)) * x + h1)
    BY <1>6, <2>1
  <2>4. k[n] = u * (g[n] - h[n]) /\ q[n] = h1 /\ k[n] \in Int
    BY <1>5, <2>1
  <2> HIDE DEF g1, h1, b, k, q
  <2>5. PICK c \in Int : g1 = b + Order * c
    BY <2>2 DEF Congruent
  <2>6. PICK d \in Int : h1 = b + Order * d
    BY <2>2 DEF Congruent
  <2> DEFINE e == u * (c - d) * x
  <2>7. e \in Int /\ (u * (g1 - h1)) * x + h1 = h1 + Order * e /\ (u * (g1 - h1)) * x + h1 \in Int
    <3>1. (u * (g1 - h1)) * x = (u * ((b + Order * c) - (b + Order * d))) * x
      BY <2>5, <2>6
    <3>2. (u * ((b + Order * c) - (b + Order * d))) * x = Order * e
      BY <1>0, <2>2, OrderType
    <3>3. e \in Int
      BY <1>0
    <3> QED BY <2>2, <3>1, <3>2, <3>3, OrderType
  <2> HIDE DEF e
  <2>8. Congruent((u * (g1 - h1)) * x + h1, h1)
    BY <2>7 DEF Congruent
  <2> QED BY <2>2, <2>3, <2>4, <2>7, <2>8, Transitive
<1>8. ASSUME NEW j \in 0 .. n - 1 PROVE Turned(k[j], k[j + 1], x, q[j])
  <2>1. j \in 0 .. n /\ j + 1 \in 0 .. n
    OBVIOUS
  <2>2. k[j] = u * (g[j] - h[j]) /\ k[j + 1] = u * (g[j + 1] - h[j + 1]) /\ q[j] = h[j + 1]
    BY <2>1
  <2> HIDE DEF k, q
  <2> QED BY <1>6, <2>1, <2>2, Zenon DEF Turned
<1>9. Congruent(k[0], 0)
  <2>1. Congruent(g[0], 0) /\ Congruent(h[0], 0) /\ g[0] \in Int /\ h[0] \in Int
    BY <1>1, <1>4
  <2>2. PICK c \in Int : g[0] = 0 + Order * c
    BY <2>1 DEF Congruent
  <2>3. PICK d \in Int : h[0] = 0 + Order * d
    BY <2>1 DEF Congruent
  <2>4. u * (g[0] - h[0]) = 0 + Order * (u * (c - d)) /\ u * (c - d) \in Int
    <3>1. u * (g[0] - h[0]) = u * ((0 + Order * c) - (0 + Order * d))
      BY <2>2, <2>3
    <3>2. u * ((0 + Order * c) - (0 + Order * d)) = 0 + Order * (u * (c - d))
      BY OrderType
    <3> QED BY <3>1, <3>2
  <2>5. k[0] = u * (g[0] - h[0])
    OBVIOUS
  <2> QED BY <2>4, <2>5 DEF Congruent
<1> HIDE DEF k, q
<1>10. Scheme(q, n, x, k)
  BY <1>5, <1>7, <1>8 DEF Scheme
<1> QED BY <1>9, <1>10 DEF Root, q

\* A coefficient is what Horner's scheme has here less what it has from the next one on.
LEMMA ZeroStep ==
  ASSUME NEW a \in Int, NEW r \in Int, NEW g \in Int, NEW h \in Int,
         Congruent(g, h * r + a), Congruent(g, 0), Congruent(h, 0)
  PROVE  Congruent(a, 0)
<1>1. PICK k1 \in Int : g = (h * r + a) + Order * k1
  BY DEF Congruent
<1>2. PICK k2 \in Int : g = 0 + Order * k2
  BY DEF Congruent
<1>3. PICK k3 \in Int : h = 0 + Order * k3
  BY DEF Congruent
<1>4. h * r = Order * (k3 * r)
  BY <1>3, OrderType
<1>5. a = 0 + Order * (k2 - k1 - k3 * r) /\ k2 - k1 - k3 * r \in Int
  <2>1. a = g - h * r - Order * k1
    BY <1>1, OrderType
  <2>2. Order * (k2 - k1 - k3 * r) = Order * k2 - Order * k1 - Order * (k3 * r)
    BY OrderType
  <2>3. Order * k2 \in Int /\ Order * k1 \in Int /\ Order * (k3 * r) \in Int
    BY OrderType
  <2> DEFINE A == Order * k2
             B == Order * k1
             C == Order * (k3 * r)
             R == Order * (k2 - k1 - k3 * r)
  <2>4. a = A - C - B
    <3>1. g = A /\ h * r = C
      BY <1>2, <1>4, OrderType
    <3> HIDE DEF A, B, C, R
    <3> QED BY <2>1, <3>1 DEF B
  <2>8. R = A - B - C
    BY <2>2
  <2>5. A \in Int /\ B \in Int /\ C \in Int
    BY <2>3
  <2> HIDE DEF A, B, C, R
  <2>6. a = 0 + R
    BY <2>4, <2>5, <2>8
  <2>7. k2 - k1 - k3 * r \in Int
    OBVIOUS
  <2> QED BY <2>6, <2>7 DEF R
<1> QED BY <1>5 DEF Congruent

\* With the zeros 0 to n, the coefficients 0 to n are zero.
ZeroAfter(n) ==
  \A a \in [0 .. n -> Int] :
    (\A x \in 0 .. n : Root(a, n, x)) => \A j \in 0 .. n : Congruent(a[j], 0)

\* By induction on their number, dividing by one zero after the other.
LEMMA ManyRoots == ASSUME NEW m \in Nat, m < Order PROVE ZeroAfter(m)
<1> DEFINE A == {n \in 0 .. m : ZeroAfter(n)}
<1>1. 0 \in A
  <2>1. ASSUME NEW a \in [0 .. 0 -> Int], Root(a, 0, 0) PROVE Congruent(a[0], 0)
    <3>1. PICK h : h \in [0 .. 0 -> Int] /\ Congruent(h[0], a[0]) /\ Congruent(h[0], 0)
      BY <2>1 DEF Root, Scheme
    <3>2. h[0] \in Int /\ a[0] \in Int /\ 0 \in Int
      BY <3>1
    <3>3. Congruent(a[0], h[0])
      BY <3>1, <3>2, Symmetric
    <3> QED BY <3>1, <3>2, <3>3, Transitive
  <2>2. ZeroAfter(0)
    BY <2>1 DEF ZeroAfter
  <2> QED BY <2>2
<1>2. ASSUME NEW n \in 0 .. m - 1, n \in A PROVE n + 1 \in A
  <2>1. n \in Nat /\ ZeroAfter(n) /\ n + 1 \in 0 .. m
    BY <1>2
  <2> SUFFICES ASSUME NEW a \in [0 .. n + 1 -> Int], \A x \in 0 .. n + 1 : Root(a, n + 1, x),
                      NEW j \in 0 .. n + 1
               PROVE  Congruent(a[j], 0)
    BY <2>1 DEF ZeroAfter
  <2> DEFINE r == n + 1
  <2>2. PICK h : Scheme(a, n + 1, r, h) /\ Congruent(h[0], 0)
    BY <2>1 DEF Root
  <2>3. /\ h \in [0 .. n + 1 -> Int] /\ Congruent(h[n + 1], a[n + 1])
        /\ \A i \in 0 .. n : Turned(h[i], h[i + 1], r, a[i])
    <3>1. n + 1 - 1 = n
      BY <2>1
    <3> QED BY <2>2, <3>1 DEF Scheme
  <2> DEFINE q == [i \in 0 .. n |-> h[i + 1]]
  <2>4. q \in [0 .. n -> Int] /\ \A i \in 0 .. n : q[i] = h[i + 1]
    BY <2>1, <2>3
  <2>5. \A x \in 0 .. n : Root(q, n, x)
    <3> TAKE x \in 0 .. n
    <3>1. x \in Field /\ r \in Field /\ x # r /\ Root(a, n + 1, x)
      <4>1. x \in 0 .. n + 1 /\ x # r /\ x \in 0 .. Order - 1 /\ r \in 0 .. Order - 1
        BY <2>1, OrderType
      <4> QED BY <4>1 DEF Field
    <3> HIDE DEF r
    <3> QED BY <2>1, <2>2, <3>1, QuotientRoot
  <2> HIDE DEF q
  <2>6. \A i \in 0 .. n : Congruent(h[i + 1], 0)
    BY <2>1, <2>4, <2>5 DEF ZeroAfter
  <2>7. \A i \in 0 .. n + 1 : Congruent(h[i], 0) /\ h[i] \in Int /\ a[i] \in Int
    <3> TAKE i \in 0 .. n + 1
    <3>1. CASE i = 0
      BY <2>1, <2>2, <2>3, <3>1
    <3>2. CASE i # 0
      <4>1. i - 1 \in 0 .. n /\ (i - 1) + 1 = i
        BY <2>1, <3>2
      <4>2. Congruent(h[(i - 1) + 1], 0)
        BY <2>6, <4>1
      <4> QED BY <2>3, <4>1, <4>2
    <3> QED BY <3>1, <3>2
  <2>8. CASE j = n + 1
    <3>1. h[j] \in Int /\ a[j] \in Int /\ 0 \in Int /\ Congruent(h[j], a[j]) /\ Congruent(h[j], 0)
      BY <2>3, <2>7, <2>8
    <3>2. Congruent(a[j], h[j])
      BY <3>1, Symmetric
    <3> QED BY <3>1, <3>2, Transitive
  <2>9. CASE j # n + 1
    <3>1. j \in 0 .. n /\ j + 1 \in 0 .. n + 1 /\ r \in Int
      BY <2>1, <2>9
    <3>2. Turned(h[j], h[j + 1], r, a[j]) /\ Congruent(h[j], 0) /\ Congruent(h[j + 1], 0)
          /\ h[j] \in Int /\ h[j + 1] \in Int /\ a[j] \in Int
      BY <2>3, <2>7, <3>1
    <3> HIDE DEF r
    <3> QED BY <3>1, <3>2, ZeroStep DEF Turned
  <2> QED BY <2>8, <2>9
<1> HIDE DEF A
<1>3. 0 .. m \subseteq A
  BY <1>1, <1>2, InductiveTo
<1> QED BY <1>3 DEF A

-----------------------------------------------------------------------------
(* Horner's scheme and the sum it stands for *)

\* A loop from the top coefficient down.
Looped(t, a, n, x) ==
  Congruent(t[0], a[n]) /\ \A i \in 1 .. n : Turned(t[i], t[i - 1], x, a[n - i])

\* What a loop from the top coefficient down has is Horner's scheme.
LEMMA SchemeOf ==
  ASSUME NEW n \in Nat, NEW a \in [0 .. n -> Int], NEW x \in Int, NEW t \in [0 .. n -> Int],
         Looped(t, a, n, x), NEW h, h = [j \in 0 .. n |-> t[n - j]]
  PROVE  Scheme(a, n, x, h)
<1>1. h \in [0 .. n -> Int]
  OBVIOUS
<1>2. h[n] = t[0] /\ Congruent(t[0], a[n])
  <2>1. h[n] = t[0]
    OBVIOUS
  <2>2. Congruent(t[0], a[n])
    BY DEF Looped
  <2> QED BY <2>1, <2>2
<1>3. ASSUME NEW j \in 0 .. n - 1 PROVE Turned(h[j], h[j + 1], x, a[j])
  <2>1. n - j \in 1 .. n /\ (n - j) - 1 = n - (j + 1) /\ n - (n - j) = j
    OBVIOUS
  <2>2. h[j] = t[n - j] /\ h[j + 1] = t[n - (j + 1)]
    OBVIOUS
  <2>3. Turned(t[n - j], t[(n - j) - 1], x, a[n - (n - j)])
    BY <2>1, Zenon DEF Looped
  <2> QED BY <2>1, <2>2, <2>3, Zenon
<1> QED BY <1>1, <1>2, <1>3 DEF Scheme

\* Every polynomial has one at every place.
LEMMA HornerExists ==
  ASSUME NEW n \in Nat, NEW a \in [0 .. n -> Int], NEW x \in Int PROVE \E h : Scheme(a, n, x, h)
<1> DEFINE turns == [i \in 1 .. n |-> [acc \in Int |-> acc * x + a[n - i]]]
           z == a[n]
<1>1. ASSUME NEW i \in 1 .. n
      PROVE  turns[i] = [acc \in Int |-> acc * x + a[n - i]] /\ turns[i] \in [Int -> Int]
  <2>1. a[n - i] \in Int
    OBVIOUS
  <2>2. turns[i] = [acc \in Int |-> acc * x + a[n - i]]
    OBVIOUS
  <2>3. [acc \in Int |-> acc * x + a[n - i]] \in [Int -> Int]
    BY <2>1
  <2> QED BY <2>2, <2>3
<1>2. turns \in [1 .. n -> [Int -> Int]] /\ n \in Nat /\ z \in Int
  BY <1>1
<1> HIDE DEF turns, z
<1>3. PICK t : Unrolls(t, z, turns, n, Int)
  BY <1>2, Iterates, Zenon
<1>4. t \in [0 .. n -> Int] /\ t[0] = a[n] /\ \A i \in 1 .. n : t[i] = turns[i][t[i - 1]]
  BY <1>3 DEF Unrolls, z
<1>5. ASSUME NEW i \in 1 .. n PROVE Turned(t[i], t[i - 1], x, a[n - i])
  <2>1. t[i - 1] \in Int /\ a[n - i] \in Int
    BY <1>4
  <2>2. \A acc \in Int : turns[i][acc] = acc * x + a[n - i]
    BY <1>1
  <2>3. t[i] = t[i - 1] * x + a[n - i]
    BY <1>4, <2>1, <2>2, Zenon
  <2>4. t[i - 1] * x + a[n - i] \in Int
    BY <2>1
  <2> QED BY <2>3, <2>4, Reflexive, Zenon DEF Turned
<1>6. Congruent(t[0], a[n])
  <2>1. a[n] \in Int
    OBVIOUS
  <2> QED BY <1>4, <2>1, Reflexive
<1> DEFINE h == [j \in 0 .. n |-> t[n - j]]
<1>7. h = [j \in 0 .. n |-> t[n - j]]
  OBVIOUS
<1> HIDE DEF h
<1>8. Scheme(a, n, x, h)
  BY <1>4, <1>5, <1>6, <1>7, SchemeOf DEF Looped
<1> QED BY <1>8

\* A step of the sum of the products of two rows.
Added(t, u, e, b) == Congruent(u, t + e * b)

\* The sums of the products of a row of the system and the row a.
Partial(n, r, a, s) ==
  /\ s \in [0 .. n + 2 -> Int] /\ s[0] = 0
  /\ \A j \in 0 .. n + 1 : Added(s[j], s[j + 1], r[j], a[j])

\* The row is zero on a, in the field.
Vanishes(n, r, a) == \E s : Partial(n, r, a, s) /\ Congruent(s[n + 2], 0)

\* A row is a combination of two others.
Combined(n, e, p, r, c) == \A j \in 0 .. n + 1 : Congruent(e[j], p[j] + c * r[j])

\* What is zero on two rows is zero on their combinations.
LEMMA CombinedVanishes ==
  ASSUME NEW n \in Nat, NEW e \in [0 .. n + 1 -> Int], NEW p \in [0 .. n + 1 -> Int],
         NEW r \in [0 .. n + 1 -> Int], NEW c \in Int, NEW a \in [0 .. n + 1 -> Int],
         Combined(n, e, p, r, c), Vanishes(n, p, a), Vanishes(n, r, a)
  PROVE  Vanishes(n, e, a)
<1>1. PICK s : Partial(n, p, a, s) /\ Congruent(s[n + 2], 0)
  BY DEF Vanishes
<1>2. PICK t : Partial(n, r, a, t) /\ Congruent(t[n + 2], 0)
  BY DEF Vanishes
<1> DEFINE u == [j \in 0 .. n + 2 |-> s[j] + c * t[j]]
<1>3. \A j \in 0 .. n + 2 : s[j] \in Int /\ t[j] \in Int
  BY <1>1, <1>2 DEF Partial
<1>4. u \in [0 .. n + 2 -> Int]
  <2>1. ASSUME NEW j \in 0 .. n + 2 PROVE s[j] + c * t[j] \in Int
    <3> DEFINE x == s[j]
               y == t[j]
    <3>1. x \in Int /\ y \in Int
      BY <1>3
    <3> HIDE DEF x, y
    <3>2. x + c * y \in Int
      BY <3>1
    <3> QED BY <3>2 DEF x, y
  <2> QED BY <2>1
<1>5. u[0] = 0
  <2>1. s[0] = 0 /\ t[0] = 0
    BY <1>1, <1>2 DEF Partial
  <2>2. c * 0 = 0
    OBVIOUS
  <2> QED BY <2>1, <2>2
<1>6. ASSUME NEW j \in 0 .. n + 1 PROVE Added(u[j], u[j + 1], e[j], a[j])
  <2>1. j \in 0 .. n + 2 /\ j + 1 \in 0 .. n + 2
    OBVIOUS
  <2>2. /\ s[j] \in Int /\ t[j] \in Int /\ s[j + 1] \in Int /\ t[j + 1] \in Int
        /\ p[j] \in Int /\ r[j] \in Int /\ e[j] \in Int /\ a[j] \in Int
    BY <1>3, <2>1
  <2>3. Added(s[j], s[j + 1], p[j], a[j]) /\ Added(t[j], t[j + 1], r[j], a[j])
    BY <1>1, <1>2 DEF Partial
  <2>4. Congruent(e[j], p[j] + c * r[j])
    BY DEF Combined
  <2>5. u[j] = s[j] + c * t[j] /\ u[j + 1] = s[j + 1] + c * t[j + 1]
    BY <2>1
  <2> HIDE DEF u
  <2>6. Congruent(s[j + 1] + c * t[j + 1], (s[j] + c * t[j]) + e[j] * a[j])
    BY <2>2, <2>3, <2>4, CombinedStep DEF Added
  <2> QED BY <2>5, <2>6 DEF Added
<1>7. Congruent(u[n + 2], 0)
  <2>1. PICK k \in Int : s[n + 2] = 0 + Order * k
    BY <1>1 DEF Congruent
  <2>2. PICK l \in Int : t[n + 2] = 0 + Order * l
    BY <1>2 DEF Congruent
  <2>3. u[n + 2] = s[n + 2] + c * t[n + 2]
    OBVIOUS
  <2>4. k + c * l \in Int
    OBVIOUS
  <2>5. (0 + Order * k) + c * (0 + Order * l) = 0 + Order * (k + c * l)
    BY OrderType
  <2>6. u[n + 2] = 0 + Order * (k + c * l)
    BY <2>1, <2>2, <2>3, <2>5, Zenon
  <2> HIDE DEF u
  <2> QED BY <2>4, <2>6 DEF Congruent
<1> HIDE DEF u
<1> QED BY <1>4, <1>5, <1>6, <1>7 DEF Partial, Vanishes

\* A power of x and the next one.
Times(u, t, x) == Congruent(u, t * x)

\* The sum over the powers of x is Horner's scheme at x.
LEMMA SumIsHorner ==
  ASSUME NEW n \in Nat, NEW a \in [0 .. n + 1 -> Int], NEW r \in [0 .. n + 1 -> Int],
         NEW x \in Int, NEW s, NEW h,
         Partial(n, r, a, s), Scheme(a, n, x, h), r[0] = 1,
         \A j \in 0 .. n - 1 : Times(r[j + 1], r[j], x)
  PROVE  Congruent(s[n + 1], h[0])
<1> DEFINE I(j) == Congruent(s[j] + r[j] * h[j], h[0])
           A == {j \in 0 .. n : I(j)}
<1>1. /\ \A j \in 0 .. n + 2 : s[j] \in Int
      /\ \A j \in 0 .. n : h[j] \in Int
      /\ \A j \in 0 .. n + 1 : a[j] \in Int /\ r[j] \in Int
  BY DEF Partial, Scheme
<1>2. 0 \in A
  <2>0. s[0] = 0
    BY DEF Partial
  <2>1. s[0] = 0 /\ h[0] \in Int
    BY <1>1, <2>0
  <2>2. s[0] + r[0] * h[0] = h[0]
    BY <2>1
  <2>3. Congruent(s[0] + r[0] * h[0], h[0])
    BY <2>1, <2>2, Reflexive
  <2> QED BY <2>3
<1>3. ASSUME NEW j \in 0 .. n - 1, j \in A PROVE j + 1 \in A
  <2>1. /\ j \in 0 .. n /\ j \in 0 .. n + 1 /\ j \in 0 .. n + 2 /\ 0 \in 0 .. n
        /\ j + 1 \in 0 .. n /\ j + 1 \in 0 .. n + 1 /\ j + 1 \in 0 .. n + 2
    OBVIOUS
  <2>2. /\ s[j] \in Int /\ s[j + 1] \in Int /\ h[j] \in Int /\ h[j + 1] \in Int /\ a[j] \in Int
        /\ r[j] \in Int /\ r[j + 1] \in Int /\ h[0] \in Int
    BY <1>1, <2>1, Zenon
  <2>3. Added(s[j], s[j + 1], r[j], a[j]) /\ Turned(h[j], h[j + 1], x, a[j])
    BY <2>1 DEF Partial, Scheme
  <2>4. Times(r[j + 1], r[j], x)
    OBVIOUS
  <2>5. Congruent(s[j] + r[j] * h[j], h[0])
    BY <1>3
  <2> HIDE DEF A
  <2>6. Congruent(s[j + 1] + r[j + 1] * h[j + 1], h[0])
    <3> DEFINE b == a[j]
               p == r[j]
               q == r[j + 1]
               t == s[j]
               u == s[j + 1]
               g == h[j]
               k == h[j + 1]
               z == h[0]
    <3>1. /\ b \in Int /\ p \in Int /\ q \in Int /\ t \in Int /\ u \in Int /\ g \in Int
          /\ k \in Int /\ z \in Int
      BY <2>2
    <3>2. Congruent(u, t + p * b) /\ Congruent(q, p * x) /\ Congruent(g, k * x + b)
      BY <2>3, <2>4, Zenon DEF Added, Turned, Times
    <3>3. Congruent(t + p * g, z)
      BY <2>5
    <3> HIDE DEF b, p, q, t, u, g, k, z
    <3>4. Congruent(u + q * k, z)
      BY <3>1, <3>2, <3>3, HornerStep
    <3> QED BY <3>4 DEF u, q, k, z
  <2> QED BY <2>1, <2>6 DEF A
<1>4. n \in A
  <2>1. \A j \in 0 .. n - 1 : j \in A => j + 1 \in A
    BY <1>3
  <2> HIDE DEF A
  <2>2. 0 .. n \subseteq A
    BY <1>2, <2>1, InductiveTo
  <2> QED BY <2>2
<1>5. /\ s[n] \in Int /\ s[n + 1] \in Int /\ h[n] \in Int /\ a[n] \in Int /\ r[n] \in Int
      /\ h[0] \in Int
  BY <1>1
<1>6. Congruent(s[n] + r[n] * h[n], h[0])
  BY <1>4
<1>7. Congruent(s[n + 1], s[n] + r[n] * a[n]) /\ Congruent(h[n], a[n])
  <2>1. Added(s[n], s[n + 1], r[n], a[n])
    <3>1. n \in 0 .. n + 1
      OBVIOUS
    <3> QED BY <3>1, Zenon DEF Partial
  <2>3. Congruent(h[n], a[n])
    BY Zenon DEF Scheme
  <2>2. Congruent(s[n + 1], s[n] + r[n] * a[n])
    BY <2>1, Zenon DEF Added
  <2> QED BY <2>2, <2>3
<1>8. PICK k \in Int : s[n + 1] = (s[n] + r[n] * a[n]) + Order * k
  BY <1>7 DEF Congruent
<1>9. PICK l \in Int : h[n] = a[n] + Order * l
  BY <1>7 DEF Congruent
<1>10. PICK m \in Int : s[n] + r[n] * h[n] = h[0] + Order * m
  BY <1>6 DEF Congruent
<1> DEFINE b == a[n]
           e == r[n]
           g == h[n]
           y == h[0]
           v == s[n]
           w == s[n + 1]
<1>11. /\ w = (v + e * b) + Order * k /\ g = b + Order * l /\ v + e * g = y + Order * m
       /\ b \in Int /\ e \in Int /\ g \in Int /\ y \in Int /\ v \in Int /\ w \in Int
  BY <1>5, <1>8, <1>9, <1>10
<1> HIDE DEF b, e, g, y, v, w
<1>12. w = y + Order * (m + k - e * l) /\ m + k - e * l \in Int
  <2>1. v + e * (b + Order * l) = y + Order * m
    BY <1>11
  <2>2. v + e * (b + Order * l) = (v + e * b) + Order * (e * l)
    BY <1>11, OrderType
  <2>3. Order * (m + k - e * l) = Order * m + Order * k - Order * (e * l)
    BY <1>11, OrderType
  <2> DEFINE A1 == Order * m
             A2 == Order * k
             A3 == Order * (e * l)
             A4 == Order * (m + k - e * l)
             A5 == e * b
  <2>4. w = (v + A5) + A2 /\ (v + A5) + A3 = y + A1 /\ A4 = A1 + A2 - A3
    BY <1>11, <2>1, <2>2, <2>3, Zenon
  <2>5. A1 \in Int /\ A2 \in Int /\ A3 \in Int /\ A4 \in Int /\ A5 \in Int
    BY <1>11, OrderType
  <2> HIDE DEF A1, A2, A3, A4, A5
  <2>8. w \in Int /\ v \in Int /\ y \in Int
    BY <1>11
  <2>6. w = y + A4
    BY <2>4, <2>5, <2>8
  <2>7. m + k - e * l \in Int
    BY <1>11
  <2> QED BY <2>6, <2>7 DEF A4
<1>13. Congruent(w, y)
  BY <1>12 DEF Congruent
<1> QED BY <1>13 DEF w, y

-----------------------------------------------------------------------------
(* The system of a box *)

\* The powers of a point as the system has them, each the one before times the point.
LEMMA Powers ==
  ASSUME NEW n \in Nat, NEW x \in Points
  PROVE  \E w \in [0 .. n -> Field] :
           /\ w[0] = 1 /\ \A j \in 0 .. n - 1 : Times(w[j + 1], w[j], x)
           /\ \A j \in 0 .. n : Power(x, j) = w[j]
<1> DEFINE turns(m) == [i \in 1 .. m |-> [pow \in Field |-> (pow * x) % Order]]
           one == 1
<1>1. x \in Int /\ \A pow \in Field : pow \in Int /\ pow * x \in Int /\ (pow * x) % Order \in Field
  <2>1. x \in Int
    BY DEF Points
  <2>2. ASSUME NEW pow \in Field
        PROVE  pow \in Int /\ pow * x \in Int /\ (pow * x) % Order \in Field
    <3>1. pow \in Int /\ pow * x \in Int
      BY <2>1, <2>2, OrderType DEF Field
    <3> QED BY <3>1, Remainder
  <2> QED BY <2>1, <2>2
<1>2. \A m \in Nat : turns(m) \in [1 .. m -> [Field -> Field]]
  BY <1>1
<1>3. one \in Field
  BY OrderType DEF Field
<1>4. \A m \in Nat : Power(x, m) = Iterate(turns(m), m, Field)[one]
  BY DEF Power
<1>5. \A m \in Nat : \A i \in 1 .. m : \A pow \in Field : turns(m)[i][pow] = (pow * x) % Order
  OBVIOUS
<1> HIDE DEF turns, one
<1>6. PICK w : Unrolls(w, one, turns(n), n, Field)
  BY <1>2, <1>3, Iterates, Zenon
<1>7. /\ w \in [0 .. n -> Field] /\ w[0] = 1
      /\ \A i \in 1 .. n : w[i] = turns(n)[i][w[i - 1]]
  BY <1>6 DEF Unrolls, one
<1>8. ASSUME NEW i \in 1 .. n PROVE w[i] = (w[i - 1] * x) % Order /\ w[i - 1] \in Field
  <2>1. w[i - 1] \in Field
    BY <1>7
  <2> QED BY <1>5, <1>7, <2>1
<1>9. ASSUME NEW j \in 0 .. n - 1 PROVE Times(w[j + 1], w[j], x)
  <2>1. j + 1 \in 1 .. n /\ (j + 1) - 1 = j
    OBVIOUS
  <2>2. w[j + 1] = (w[j] * x) % Order /\ w[j] \in Field
    BY <1>8, <2>1
  <2>3. w[j] * x \in Int
    BY <1>1, <2>2
  <2>4. Congruent((w[j] * x) % Order, w[j] * x)
    <3> DEFINE a == w[j] * x
    <3>1. a \in Int
      BY <2>3
    <3> HIDE DEF a
    <3>2. Congruent(a % Order, a)
      BY <3>1, Remainder
    <3> QED BY <3>2 DEF a
  <2> QED BY <2>2, <2>4 DEF Times
<1>10. ASSUME NEW j \in 0 .. n PROVE Power(x, j) = w[j]
  <2> DEFINE v == [i \in 0 .. j |-> w[i]]
  <2>1. j \in Nat /\ v[0] = one /\ v[j] = w[j]
    BY <1>7 DEF one
  <2>2. v \in [0 .. j -> Field]
    <3>1. \A i \in 0 .. j : w[i] \in Field
      <4> TAKE i \in 0 .. j
      <4>1. i \in 0 .. n
        OBVIOUS
      <4> QED BY <1>7, <4>1, Zenon
    <3> QED BY <3>1, Zenon
  <2>3. ASSUME NEW i \in 1 .. j PROVE v[i] = turns(j)[i][v[i - 1]]
    <3>1. i \in 1 .. n /\ i - 1 \in 0 .. j /\ i \in 0 .. j
      OBVIOUS
    <3>2. v[i] = w[i] /\ v[i - 1] = w[i - 1]
      BY <3>1
    <3>3. w[i] = (w[i - 1] * x) % Order /\ w[i - 1] \in Field
      BY <1>8, <3>1
    <3>4. turns(j)[i][w[i - 1]] = (w[i - 1] * x) % Order
      BY <1>5, <2>1, <3>3
    <3> QED BY <3>2, <3>3, <3>4
  <2> HIDE DEF v
  <2>4. Unrolls(v, one, turns(j), j, Field)
    BY <2>1, <2>2, <2>3 DEF Unrolls
  <2>5. turns(j) \in [1 .. j -> [Field -> Field]]
    BY <1>2, <2>1, Zenon
  <2>6. Iterate(turns(j), j, Field)[one] = v[j]
    <3> DEFINE step_j == turns(j)
    <3>1. j \in Nat /\ one \in Field /\ step_j \in [1 .. j -> [Field -> Field]]
      BY <1>3, <2>1, <2>5
    <3>2. Unrolls(v, one, step_j, j, Field)
      BY <2>4
    <3> HIDE DEF step_j
    <3>3. \A u : Unrolls(u, one, step_j, j, Field) => Iterate(step_j, j, Field)[one] = u[j]
      BY <3>1, IteratesTo, Zenon
    <3>4. Iterate(step_j, j, Field)[one] = v[j]
      BY <3>2, <3>3, Zenon
    <3> QED BY <3>4 DEF step_j
  <2> QED BY <1>4, <2>1, <2>6, Zenon
<1> QED BY <1>7, <1>9, <1>10

\* The values of a box are four bits (circuit.rs interpolate, des.rs SBOX).
LEMMA BoxValues == \A b \in 1 .. 8 : \A k \in 1 .. 64 : SBOX[b][k] \in 0 .. 15
<1> DEFINE small(b) == \A k \in 1 .. 64 : SBOX[b][k] \in 0 .. 15
<1>1. small(1)
  BY SMTT(60) DEF SBOX
<1>2. small(2)
  BY SMTT(60) DEF SBOX
<1>3. small(3)
  BY SMTT(60) DEF SBOX
<1>4. small(4)
  BY SMTT(60) DEF SBOX
<1>5. small(5)
  BY SMTT(60) DEF SBOX
<1>6. small(6)
  BY SMTT(60) DEF SBOX
<1>7. small(7)
  BY SMTT(60) DEF SBOX
<1>8. small(8)
  BY SMTT(60) DEF SBOX
<1> HIDE DEF small
<1>9. \A b \in 1 .. 8 : small(b)
  <2> TAKE b \in 1 .. 8
  <2>1. b = 1 \/ b = 2 \/ b = 3 \/ b = 4 \/ b = 5 \/ b = 6 \/ b = 7 \/ b = 8
    OBVIOUS
  <2> QED BY <1>1, <1>2, <1>3, <1>4, <1>5, <1>6, <1>7, <1>8, <2>1, Zenon
<1> QED BY <1>9, Zenon DEF small

\* The value of a string of bits, as a loop has it.
LEMMA ValueOfTurns ==
  ASSUME NEW bits, NEW n \in Nat
  PROVE  \E turn : /\ turn[0] = 0 /\ ValueOf(bits, n) = turn[n] /\ turn \in [0 .. n -> Nat]
                   /\ \A i \in 1 .. n : turn[i] = 2 * turn[i - 1] + bit(bits, i - 1)
<1> DEFINE turns == [i \in 1 .. n |-> [v \in Nat |-> 2 * v + bit(bits, i - 1)]]
           zero == 0
<1>1. \A i \in 1 .. n : \A v \in Nat : turns[i][v] = 2 * v + bit(bits, i - 1)
  OBVIOUS
<1>2. turns \in [1 .. n -> [Nat -> Nat]]
  BY DEF bit
<1>3. ValueOf(bits, n) = Iterate(turns, n, Nat)[0]
  BY DEF ValueOf, bit
<1>4. zero \in Nat
  OBVIOUS
<1> HIDE DEF turns, zero
<1>5. PICK turn : Unrolls(turn, zero, turns, n, Nat) /\ Iterate(turns, n, Nat)[zero] = turn[n]
  BY <1>2, <1>4, Iterates, Zenon
<1>6. ASSUME NEW i \in 1 .. n PROVE turn[i] = 2 * turn[i - 1] + bit(bits, i - 1)
  <2>1. turn[i] = turns[i][turn[i - 1]] /\ turn[i - 1] \in Nat
    BY <1>5 DEF Unrolls
  <2> QED BY <1>1, <2>1
<1> QED BY <1>3, <1>5, <1>6 DEF Unrolls, zero

\* The output of a box is four bits, whatever goes in.
LEMMA LookupType ==
  ASSUME NEW b \in 1 .. 8, NEW bits PROVE sbox_lookup(b, bits) \in 0 .. 15
<1> DEFINE row == ValueOf({i \in {0, 1} : 5 * i \in bits}, 2)
           column == ValueOf(slice(bits, 1, 4), 4)
<1>1. row \in 0 .. 3
  <2> DEFINE z == {i \in {0, 1} : 5 * i \in bits}
             n == 2
  <2> HIDE DEF z
  <2>1. PICK t : /\ t[0] = 0 /\ ValueOf(z, n) = t[n] /\ t \in [0 .. n -> Nat]
                 /\ \A i \in 1 .. n : t[i] = 2 * t[i - 1] + bit(z, i - 1)
    <3>1. n \in Nat
      OBVIOUS
    <3> HIDE DEF n
    <3> QED BY <3>1, ValueOfTurns, Zenon
  <2>2. t[1] = 2 * t[0] + bit(z, 0) /\ t[2] = 2 * t[1] + bit(z, 1)
    <3>1. \A i \in 0 .. n - 1 : t[i + 1] = 2 * t[i] + bit(z, i)
      <4> TAKE i \in 0 .. n - 1
      <4>1. i + 1 \in 1 .. n /\ (i + 1) - 1 = i
        OBVIOUS
      <4> HIDE DEF n
      <4>2. t[i + 1] = 2 * t[(i + 1) - 1] + bit(z, (i + 1) - 1)
        BY <2>1, <4>1, Zenon
      <4> QED BY <4>1, <4>2, Zenon
    <3> QED BY <3>1
  <2>3. bit(z, 0) \in 0 .. 1 /\ bit(z, 1) \in 0 .. 1
    BY DEF bit
  <2>4. t[2] \in 0 .. 3
    BY <2>1, <2>2, <2>3
  <2> QED BY <2>1, <2>4 DEF z
<1>2. column \in 0 .. 15
  <2> DEFINE z == slice(bits, 1, 4)
             n == 4
  <2> HIDE DEF z
  <2>1. PICK t : /\ t[0] = 0 /\ ValueOf(z, n) = t[n] /\ t \in [0 .. n -> Nat]
                 /\ \A i \in 1 .. n : t[i] = 2 * t[i - 1] + bit(z, i - 1)
    <3>1. n \in Nat
      OBVIOUS
    <3> HIDE DEF n
    <3> QED BY <3>1, ValueOfTurns, Zenon
  <2>2. /\ t[1] = 2 * t[0] + bit(z, 0) /\ t[2] = 2 * t[1] + bit(z, 1)
        /\ t[3] = 2 * t[2] + bit(z, 2) /\ t[4] = 2 * t[3] + bit(z, 3)
    <3>1. \A i \in 0 .. n - 1 : t[i + 1] = 2 * t[i] + bit(z, i)
      <4> TAKE i \in 0 .. n - 1
      <4>1. i + 1 \in 1 .. n /\ (i + 1) - 1 = i
        OBVIOUS
      <4> HIDE DEF n
      <4>2. t[i + 1] = 2 * t[(i + 1) - 1] + bit(z, (i + 1) - 1)
        BY <2>1, <4>1, Zenon
      <4> QED BY <4>1, <4>2, Zenon
    <3> QED BY <3>1
  <2>3. bit(z, 0) \in 0 .. 1 /\ bit(z, 1) \in 0 .. 1 /\ bit(z, 2) \in 0 .. 1 /\ bit(z, 3) \in 0 .. 1
    BY DEF bit
  <2>4. t[4] \in 0 .. 15
    BY <2>1, <2>2, <2>3
  <2> QED BY <2>1, <2>4 DEF z
<1>3. sbox_lookup(b, bits) = SBOX[b][row * 16 + column + 1]
  BY DEF sbox_lookup
<1> HIDE DEF row, column
<1>4. row * 16 + column + 1 \in 1 .. 64
  BY <1>1, <1>2
<1> QED BY <1>3, <1>4, BoxValues

\* The degree of the polynomial of a box.
deg == 63

\* There is a point for each coefficient, and the points differ in the field.
LEMMA Degree == deg \in Nat /\ deg + 1 < Order /\ Points = 0 .. deg
  BY OrderType DEF deg, Points

\* The numbers that the source writes, by the degree.
LEMMA Literals == 63 = deg /\ 64 = deg + 1 /\ Points = 0 .. deg
  BY DEF deg, Points

\* The system of a box: the powers of every point, and the value of the table there.
System(b) == [i \in Points |-> [j \in 0 .. deg + 1 |->
                IF j = deg + 1 THEN mapped_table(b)[i] ELSE Power(i, j)]]

\* A row of it, and what it says.
LEMMA SystemRow ==
  ASSUME NEW b \in 1 .. 8, NEW x \in Points
  PROVE  /\ System(b)[x] \in [0 .. deg + 1 -> Field]
         /\ System(b)[x][0] = 1 /\ System(b)[x][deg + 1] = mapped_table(b)[x]
         /\ \A j \in 0 .. deg - 1 : Times(System(b)[x][j + 1], System(b)[x][j], x)
<1> DEFINE r == System(b)[x]
           y == mapped_table(b)[x]
<1>1. PICK w \in [0 .. deg -> Field] :
        /\ w[0] = 1 /\ \A j \in 0 .. deg - 1 : Times(w[j + 1], w[j], x)
        /\ \A j \in 0 .. deg : Power(x, j) = w[j]
  BY Powers, Degree
<1>2. y \in Field
  <2>1. y = sbox_lookup(b, bits_of(x, 6))
    BY DEF mapped_table
  <2>2. y \in 0 .. 15
    BY <2>1, LookupType
  <2> HIDE DEF y
  <2> QED BY <2>2, OrderType DEF Field
<1>3. r = [j \in 0 .. deg + 1 |-> IF j = deg + 1 THEN y ELSE Power(x, j)]
  BY DEF System
<1> HIDE DEF r, y
<1>4. r[deg + 1] = y /\ \A j \in 0 .. deg : r[j] = w[j]
  BY <1>1, <1>3, Degree
<1>5. r \in [0 .. deg + 1 -> Field]
  BY <1>1, <1>2, <1>3, Degree
<1>6. \A j \in 0 .. deg - 1 : Times(r[j + 1], r[j], x)
  <2> TAKE j \in 0 .. deg - 1
  <2>1. j \in 0 .. deg /\ j + 1 \in 0 .. deg
    BY Degree
  <2>2. r[j] = w[j] /\ r[j + 1] = w[j + 1] /\ Times(w[j + 1], w[j], x)
    BY <1>1, <1>4, <2>1
  <2> QED BY <2>2, Zenon
<1>7. r[0] = 1
  BY <1>1, <1>4, Degree
<1> QED BY <1>4, <1>5, <1>6, <1>7 DEF r, y

-----------------------------------------------------------------------------
(* What the elimination keeps, and what it comes to *)

\* The system as the elimination has it: a row for each point.
MatType == [Points -> [0 .. deg + 1 -> Field]]

\* The columns before c are those of the unit matrix.
Unit(m, c) == \A j \in 0 .. c - 1 : \A i \in Points : m[i][j] = IF i = j THEN 1 ELSE 0

\* All rows are zero on a.
AllVanish(m, a) == \A i \in Points : Vanishes(deg, m[i], a)

\* What all rows of m are zero on, the system of the box is zero on.
Solves(m, b) == \A a \in [0 .. deg + 1 -> Int] : AllVanish(m, a) => AllVanish(System(b), a)

\* The invariant of interpolate: the columns that are done are unit columns, the pivot that
\* was brought up is one, and no solution came in.
SboxInv ==
  /\ box \in Boxes /\ mat \in MatType /\ col \in 0 .. deg + 1
  /\ step \in {"pivot", "eliminate", "done"}
  /\ (step = "done") <=> (col = deg + 1)
  /\ Unit(mat, col)
  /\ step = "eliminate" => mat[col][col] = 1
  /\ Solves(mat, box)

\* A row on which the columns before c say what column c is.
Kernel(m, c) == [j \in 0 .. deg + 1 |-> IF j < c THEN m[j][c] ELSE IF j = c THEN -1 ELSE 0]

\* If column c has no pivot, all rows are zero on it.
LEMMA KernelVanishes ==
  ASSUME NEW m \in MatType, NEW c \in 0 .. deg + 1, Unit(m, c), \A i \in c .. deg : m[i][c] = 0
  PROVE  Kernel(m, c) \in [0 .. deg + 1 -> Int] /\ AllVanish(m, Kernel(m, c))
<1> DEFINE a == Kernel(m, c)
<1>1. \A i \in 0 .. deg : \A j \in 0 .. deg + 1 : m[i][j] \in Int
  <2> TAKE i \in 0 .. deg
  <2> TAKE j \in 0 .. deg + 1
  <2>1. m[i][j] \in Field
    BY Degree DEF MatType
  <2> QED BY <2>1, OrderType DEF Field
<1>2. \A j \in 0 .. deg + 1 : a[j] = IF j < c THEN m[j][c] ELSE IF j = c THEN -1 ELSE 0
  BY DEF Kernel
<1>3. a \in [0 .. deg + 1 -> Int]
  <2>1. \A j \in 0 .. deg + 1 : (IF j < c THEN m[j][c] ELSE IF j = c THEN -1 ELSE 0) \in Int
    <3> TAKE j \in 0 .. deg + 1
    <3>1. j < c => m[j][c] \in Int
      <4>1. SUFFICES ASSUME j < c PROVE m[j][c] \in Int
        OBVIOUS
      <4>2. j \in 0 .. deg /\ c \in 0 .. deg + 1
        BY <4>1, Degree
      <4> QED BY <1>1, <4>2, Zenon
    <3> QED BY <3>1
  <2> QED BY <2>1 DEF Kernel
<1> HIDE DEF a
<1>4. ASSUME NEW i \in 0 .. deg PROVE Vanishes(deg, m[i], a)
  <2> DEFINE s == [k \in 0 .. deg + 2 |-> IF i < c /\ i < k /\ k <= c THEN m[i][c] ELSE 0]
  <2>1. m[i][c] \in Int
    BY <1>1
  <2>2. s \in [0 .. deg + 2 -> Int] /\ s[0] = 0 /\ s[deg + 2] = 0
    BY <2>1, Degree
  <2>3. ASSUME NEW j \in 0 .. deg + 1 PROVE s[j + 1] = s[j] + m[i][j] * a[j] /\ s[j + 1] \in Int
    <3>1. s[j] = (IF i < c /\ i < j /\ j <= c THEN m[i][c] ELSE 0) /\ j + 1 \in 0 .. deg + 2
      BY Degree
    <3>2. s[j + 1] = IF i < c /\ i < j + 1 /\ j + 1 <= c THEN m[i][c] ELSE 0
      BY Degree
    <3>3. s[j + 1] \in Int /\ s[j] \in Int /\ a[j] \in Int /\ m[i][j] \in Int
      <4> HIDE DEF s
      <4>1. j \in 0 .. deg + 2 /\ j + 1 \in 0 .. deg + 2
        BY Degree
      <4>2. s[j] \in Int /\ s[j + 1] \in Int
        BY <2>2, <4>1, Zenon
      <4> QED BY <1>1, <1>3, <4>2
    <3> HIDE DEF s
    <3>4. CASE j < c
      <4>1. a[j] = m[j][c] /\ m[i][j] = IF i = j THEN 1 ELSE 0
        <5>1. j \in 0 .. c - 1 /\ i \in 0 .. deg
          BY <3>4
        <5>2. m[i][j] = IF i = j THEN 1 ELSE 0
          BY <5>1, Degree, Zenon DEF Unit
        <5> QED BY <1>2, <3>4, <5>2
      <4>2. CASE i = j
        <5>1. s[j] = 0 /\ s[j + 1] = m[i][c] /\ m[i][j] = 1 /\ a[j] = m[i][c]
          BY <3>1, <3>2, <3>4, <4>1, <4>2
        <5> QED BY <2>1, <3>3, <5>1
      <4>3. CASE i # j
        <5>1. s[j] = s[j + 1] /\ m[i][j] = 0
          BY <3>1, <3>2, <3>4, <4>1, <4>3
        <5> QED BY <3>3, <5>1
      <4> QED BY <4>2, <4>3
    <3>5. CASE j = c
      <4>1. a[j] = -1 /\ s[j + 1] = 0
        BY <1>2, <3>2, <3>5
      <4>2. CASE i < c
        <5>1. s[j] = m[i][j]
          BY <3>1, <3>5, <4>2
        <5> QED BY <3>3, <4>1, <5>1
      <4>3. CASE ~(i < c)
        <5>1. s[j] = 0 /\ m[i][j] = 0
          BY <3>1, <3>5, <4>3
        <5> QED BY <3>3, <4>1, <5>1
      <4> QED BY <4>2, <4>3
    <3>6. CASE j > c
      <4>1. a[j] = 0 /\ s[j + 1] = 0 /\ s[j] = 0
        BY <1>2, <3>1, <3>2, <3>6
      <4> QED BY <3>3, <4>1
    <3> QED BY <3>4, <3>5, <3>6
  <2> HIDE DEF s
  <2>4. \A j \in 0 .. deg + 1 : Added(s[j], s[j + 1], m[i][j], a[j])
    <3> TAKE j \in 0 .. deg + 1
    <3>1. Congruent(s[j + 1], s[j + 1])
      BY <2>3, Reflexive
    <3> QED BY <2>3, <3>1, Zenon DEF Added
  <2>5. Congruent(s[deg + 2], 0)
    <3>1. 0 \in Int
      OBVIOUS
    <3> QED BY <2>2, <3>1, Reflexive
  <2> QED BY <2>2, <2>4, <2>5 DEF Vanishes, Partial
<1>5. AllVanish(m, a)
  BY <1>4, Degree DEF AllVanish
<1> QED BY <1>3, <1>5 DEF a

\* The coefficients of a row that the system is zero on: the polynomial has the values of the
\* table at the points, times what stands against the last column.
LEMMA SystemSays ==
  ASSUME NEW b \in 1 .. 8, NEW a \in [0 .. deg + 1 -> Int], AllVanish(System(b), a),
         NEW x \in Points, NEW h, Scheme([j \in 0 .. deg |-> a[j]], deg, x, h)
  PROVE  Congruent(h[0] + mapped_table(b)[x] * a[deg + 1], 0)
<1> DEFINE r == System(b)[x]
           d == [j \in 0 .. deg |-> a[j]]
           y == mapped_table(b)[x]
<1>1. /\ r \in [0 .. deg + 1 -> Field] /\ r[0] = 1 /\ r[deg + 1] = y
      /\ \A j \in 0 .. deg - 1 : Times(r[j + 1], r[j], x)
  BY SystemRow, Degree
<1>2. PICK s : Partial(deg, r, a, s) /\ Congruent(s[deg + 2], 0)
  BY DEF AllVanish, Vanishes
<1>3. \A j \in 0 .. deg : d[j] = a[j]
  OBVIOUS
<1>4. Scheme(d, deg, x, h)
  OBVIOUS
<1> HIDE DEF r, d, y
<1>5. Scheme(a, deg, x, h)
  <2>1. \A j \in 0 .. deg - 1 : d[j] = a[j]
    BY <1>3, Degree
  <2>2. d[deg] = a[deg]
    BY <1>3, Degree
  <2> QED BY <1>4, <2>1, <2>2 DEF Scheme
<1>6. r \in [0 .. deg + 1 -> Int] /\ x \in Int
  BY <1>1, OrderType, Degree DEF Field
<1>7. Congruent(s[deg + 1], h[0])
  BY <1>1, <1>2, <1>5, <1>6, SumIsHorner, Degree
<1>8. Added(s[deg + 1], s[deg + 2], y, a[deg + 1]) /\ s[deg + 1] \in Int /\ s[deg + 2] \in Int
  <2>1. /\ deg + 1 \in 0 .. deg + 1 /\ deg + 1 + 1 = deg + 2
        /\ deg + 1 \in 0 .. deg + 2 /\ deg + 2 \in 0 .. deg + 2
    BY Degree
  <2>2. Added(s[deg + 1], s[deg + 1 + 1], r[deg + 1], a[deg + 1]) /\ s \in [0 .. deg + 2 -> Int]
    BY <1>2, <2>1, Zenon DEF Partial
  <2> QED BY <1>1, <2>1, <2>2
<1>9. h[0] \in Int /\ y \in Int /\ a[deg + 1] \in Int
  <2>1. h \in [0 .. deg -> Int]
    BY <1>5 DEF Scheme
  <2> QED BY <1>1, <1>6, <2>1, Degree
<1> DEFINE t == s[deg + 1]
           u == s[deg + 2]
           g == h[0]
           e == a[deg + 1]
<1>10. /\ Congruent(t, g) /\ Congruent(u, t + y * e) /\ Congruent(u, 0)
       /\ t \in Int /\ u \in Int /\ g \in Int /\ y \in Int /\ e \in Int
  BY <1>2, <1>7, <1>8, <1>9 DEF Added
<1> HIDE DEF t, u, g, e
<1>11. t + y * e \in Int /\ g + y * e \in Int /\ y * e \in Int
  BY <1>10
<1>12. Congruent(g, t) /\ Congruent(t + y * e, u)
  BY <1>10, <1>11, Symmetric
<1>13. Congruent(y * e, y * e)
  BY <1>11, Reflexive
<1>14. Congruent(g + y * e, t + y * e)
  BY <1>10, <1>11, <1>12, <1>13, Sums
<1>15. Congruent(g + y * e, u)
  BY <1>10, <1>11, <1>12, <1>14, Transitive
<1>16. Congruent(g + y * e, 0)
  <2>1. 0 \in Int
    OBVIOUS
  <2> QED BY <1>10, <1>11, <1>15, <2>1, Transitive
<1> QED BY <1>16 DEF g, y, e

\* One is not zero in the field.
LEMMA OneIsNotZero == ~Congruent(-1, 0)
<1>1. SUFFICES ASSUME Congruent(-1, 0) PROVE FALSE
  OBVIOUS
<1>2. PICK k \in Int : -1 = 0 + Order * k
  BY <1>1 DEF Congruent
<1>3. 1 = 0 + Order * (-k) /\ -k \in Int
  BY <1>2, OrderType
<1>4. Congruent(1, 0)
  BY <1>3 DEF Congruent
<1>5. 1 \in Field /\ 0 \in Field
  BY OrderType DEF Field
<1> QED BY <1>4, <1>5, SameElement

\* Every column has a pivot: else a polynomial of degree 63 had the 64 points as zeros.
LEMMA PivotExists ==
  ASSUME NEW m \in MatType, NEW c \in 0 .. deg, NEW b \in 1 .. 8, Unit(m, c), Solves(m, b)
  PROVE  \E i \in c .. deg : m[i][c] # 0
<1>1. SUFFICES ASSUME \A i \in c .. deg : m[i][c] = 0 PROVE FALSE
  OBVIOUS
<1> DEFINE a == Kernel(m, c)
           d == [j \in 0 .. deg |-> a[j]]
<1>2. a \in [0 .. deg + 1 -> Int] /\ AllVanish(m, a)
  <2>1. c \in 0 .. deg + 1
    BY Degree
  <2> QED BY <1>1, <2>1, KernelVanishes
<1>3. a[c] = -1 /\ a[deg + 1] = 0
  BY Degree DEF Kernel
<1> HIDE DEF a
<1>4. AllVanish(System(b), a)
  BY <1>2 DEF Solves
<1>5. d \in [0 .. deg -> Int] /\ d[c] = -1
  BY <1>2, <1>3, Degree
<1>6. ASSUME NEW x \in 0 .. deg PROVE Root(d, deg, x)
  <2>1. x \in Int /\ x \in Points
    BY Degree
  <2>2. PICK h : Scheme(d, deg, x, h)
    <3> HIDE DEF d
    <3> QED BY <1>5, <2>1, HornerExists, Degree
  <2>3. Congruent(h[0] + mapped_table(b)[x] * a[deg + 1], 0)
    BY <1>2, <1>4, <2>1, <2>2, SystemSays
  <2>4. mapped_table(b)[x] \in Int /\ h[0] \in Int
    <3>1. System(b)[x] \in [0 .. deg + 1 -> Field] /\ System(b)[x][deg + 1] = mapped_table(b)[x]
      BY <2>1, SystemRow
    <3>2. mapped_table(b)[x] \in Field
      BY <3>1, Degree
    <3> QED BY <2>2, <3>2, OrderType, Degree DEF Field, Scheme
  <2>5. h[0] + mapped_table(b)[x] * a[deg + 1] = h[0]
    BY <1>3, <2>4
  <2>6. Congruent(h[0], 0)
    BY <2>3, <2>5
  <2> HIDE DEF d
  <2> QED BY <2>2, <2>6 DEF Root
<1> HIDE DEF d
<1>7. Congruent(d[c], 0)
  <2>1. deg \in Nat /\ deg < Order
    BY Degree, OrderType
  <2>2. ZeroAfter(deg)
    BY <2>1, ManyRoots, Zenon
  <2> QED BY <1>5, <1>6, <2>2 DEF ZeroAfter
<1> QED BY <1>5, <1>7, OneIsNotZero

\* An entry of the system is an element of the field, and a number.
LEMMA EntryType ==
  ASSUME NEW m \in MatType, NEW i \in Points, NEW j \in 0 .. deg + 1
  PROVE  m[i][j] \in Field /\ m[i][j] \in Int
<1>1. m[i][j] \in Field
  BY DEF MatType
<1> QED BY <1>1, OrderType DEF Field

\* A row of it, as numbers.
LEMMA RowType ==
  ASSUME NEW m \in MatType, NEW i \in Points
  PROVE  m[i] \in [0 .. deg + 1 -> Field] /\ m[i] \in [0 .. deg + 1 -> Int]
<1>1. m[i] \in [0 .. deg + 1 -> Field]
  BY DEF MatType
<1>2. Field \subseteq Int
  BY OrderType DEF Field
<1> QED BY <1>1, <1>2

\* The system is there at first.
LEMMA SboxInvInit == SboxInit => SboxInv
<1> SUFFICES ASSUME SboxInit PROVE SboxInv
  OBVIOUS
<1>1. box \in Boxes /\ box \in 1 .. 8 /\ col = 0 /\ step = "pivot" /\ mat = System(box)
  <2>1. box \in Boxes /\ col = 0 /\ step = "pivot"
    BY DEF SboxInit
  <2>2. mat = [i \in Points |-> [j \in 0 .. 64 |->
                IF j = 64 THEN mapped_table(box)[i] ELSE Power(i, j)]]
    BY DEF SboxInit
  <2>3. mat = System(box)
    BY <2>2, Literals, Zenon DEF System
  <2>4. box \in 1 .. 8
    BY <2>1, BoxesType
  <2> QED BY <2>1, <2>3, <2>4
<1>2. System(box) \in MatType
  <2>1. \A i \in Points : System(box)[i] \in [0 .. deg + 1 -> Field]
    BY <1>1, SystemRow
  <2>2. System(box) = [i \in Points |-> System(box)[i]]
    BY DEF System
  <2> QED BY <2>1, <2>2 DEF MatType
<1>3. Unit(mat, col)
  BY <1>1 DEF Unit
<1>4. Solves(mat, box)
  BY <1>1 DEF Solves
<1> QED BY <1>1, <1>2, <1>3, <1>4, Degree DEF SboxInv

\* What bringing up a pivot and scaling it makes of the system.
Pivoted(m, c, p, inv, u) ==
  LET swapped == [m EXCEPT ![c] = m[p], ![p] = m[c]]
  IN u = [swapped EXCEPT ![c] = [j \in 0 .. deg + 1 |->
            IF j < c THEN swapped[c][j] ELSE (swapped[c][j] * inv) % Order]]

\* The same, row by row.
PivotedRow(m, c, p, inv) == [j \in 0 .. deg + 1 |->
                              IF j < c THEN m[p][j] ELSE (m[p][j] * inv) % Order]
ByRows(m, c, p, inv, u) ==
  /\ u[c] = PivotedRow(m, c, p, inv)
  /\ p # c => u[p] = m[c]
  /\ \A i \in Points \ {c, p} : u[i] = m[i]
  /\ u = [i \in Points |-> u[i]]

\* That it is the same.
LEMMA PivotedRows ==
  ASSUME NEW m \in MatType, NEW c \in Points, NEW p \in Points, NEW inv \in Int, NEW u,
         Pivoted(m, c, p, inv, u)
  PROVE  ByRows(m, c, p, inv, u)
<1> DEFINE swapped == [m EXCEPT ![c] = m[p], ![p] = m[c]]
<1>1. m = [i \in Points |-> m[i]]
  BY DEF MatType
<1>2. swapped = [i \in Points |-> IF i = p THEN m[c] ELSE IF i = c THEN m[p] ELSE m[i]]
  BY <1>1
<1>3. u = [swapped EXCEPT ![c] = [j \in 0 .. deg + 1 |->
             IF j < c THEN swapped[c][j] ELSE (swapped[c][j] * inv) % Order]]
  BY DEF Pivoted
<1> HIDE DEF swapped
<1>4. swapped[c] = m[p]
  BY <1>2
<1>5. u = [i \in Points |-> IF i = c
            THEN [j \in 0 .. deg + 1 |-> IF j < c THEN m[p][j] ELSE (m[p][j] * inv) % Order]
            ELSE IF i = p THEN m[c] ELSE m[i]]
  BY <1>2, <1>3, <1>4
<1> QED BY <1>5 DEF ByRows, PivotedRow

\* The rows are still rows, the columns that are done are as they were, the pivot is one.
LEMMA PivotedType ==
  ASSUME NEW m \in MatType, NEW c \in Points, NEW p \in c .. deg, NEW inv \in Int, NEW u,
         Pivoted(m, c, p, inv, u), (m[p][c] * inv) % Order = 1, Unit(m, c)
  PROVE  u \in MatType /\ u[c][c] = 1 /\ Unit(u, c)
<1>0. p \in Points /\ c \in 0 .. deg
  BY Degree
<1>1. /\ u[c] = [j \in 0 .. deg + 1 |-> IF j < c THEN m[p][j] ELSE (m[p][j] * inv) % Order]
      /\ p # c => u[p] = m[c]
      /\ \A i \in Points \ {c, p} : u[i] = m[i]
      /\ u = [i \in Points |-> u[i]]
  <2>1. ByRows(m, c, p, inv, u)
    BY <1>0, PivotedRows
  <2> QED BY <2>1 DEF ByRows, PivotedRow
<1>2. u[c] \in [0 .. deg + 1 -> Field]
  <2>1. \A j \in 0 .. deg + 1 :
          (IF j < c THEN m[p][j] ELSE (m[p][j] * inv) % Order) \in Field
    <3> TAKE j \in 0 .. deg + 1
    <3>1. m[p][j] \in Field /\ m[p][j] \in Int
      BY <1>0, EntryType
    <3>2. m[p][j] * inv \in Int
      BY <3>1
    <3>3. (m[p][j] * inv) % Order \in Field
      BY <3>2, Remainder
    <3> QED BY <3>1, <3>3
  <2> QED BY <1>1, <2>1
<1>3. \A i \in Points : u[i] \in [0 .. deg + 1 -> Field]
  <2> TAKE i \in Points
  <2>1. CASE i = c
    BY <1>2, <2>1
  <2>2. CASE i # c /\ i = p
    BY <1>1, <2>2, RowType
  <2>3. CASE i # c /\ i # p
    BY <1>1, <2>3, RowType
  <2> QED BY <2>1, <2>2, <2>3
<1>4. u \in MatType
  BY <1>1, <1>3 DEF MatType
<1>5. u[c][c] = 1
  <2>1. c \in 0 .. deg + 1 /\ ~(c < c)
    BY <1>0, Degree
  <2> QED BY <1>1, <2>1
<1>6. ASSUME NEW j \in 0 .. c - 1, NEW i \in Points PROVE u[i][j] = IF i = j THEN 1 ELSE 0
  <2>1. j < c /\ j \in 0 .. deg + 1 /\ j # c /\ j # p
    BY <1>0, Degree
  <2>2. /\ m[i][j] = IF i = j THEN 1 ELSE 0
        /\ m[p][j] = IF p = j THEN 1 ELSE 0
        /\ m[c][j] = IF c = j THEN 1 ELSE 0
    BY <1>0, Zenon DEF Unit
  <2>3. m[p][j] = 0 /\ m[c][j] = 0
    BY <2>1, <2>2
  <2>4. CASE i = c
    <3>1. u[c][j] = m[p][j]
      BY <1>1, <2>1
    <3> QED BY <2>1, <2>3, <2>4, <3>1
  <2>5. CASE i # c /\ i = p
    BY <1>1, <2>1, <2>3, <2>5
  <2>6. CASE i # c /\ i # p
    BY <1>1, <2>2, <2>6
  <2> QED BY <2>4, <2>5, <2>6
<1> QED BY <1>4, <1>5, <1>6 DEF Unit

\* And no solution comes in.
LEMMA PivotedVanishes ==
  ASSUME NEW m \in MatType, NEW c \in Points, NEW p \in c .. deg, NEW inv \in Int, NEW u,
         Pivoted(m, c, p, inv, u), (m[p][c] * inv) % Order = 1, Unit(m, c),
         NEW a \in [0 .. deg + 1 -> Int], AllVanish(u, a)
  PROVE  AllVanish(m, a)
<1>0. p \in Points /\ c \in 0 .. deg
  BY Degree
<1>1. /\ u[c] = [j \in 0 .. deg + 1 |-> IF j < c THEN m[p][j] ELSE (m[p][j] * inv) % Order]
      /\ p # c => u[p] = m[c]
      /\ \A i \in Points \ {c, p} : u[i] = m[i]
  <2>1. ByRows(m, c, p, inv, u)
    BY <1>0, PivotedRows
  <2> QED BY <2>1 DEF ByRows, PivotedRow
<1>2. u \in MatType
  BY PivotedType, Zenon
<1> DEFINE x == m[p][c]
           k == x - 1
<1>3. x \in Int /\ k \in Int /\ Congruent(x * inv, 1)
  <2>1. x \in Int /\ c \in 0 .. deg + 1
    BY <1>0, EntryType, Degree
  <2>2. x * inv \in Int /\ k \in Int
    BY <2>1
  <2>3. (x * inv) % Order = 1
    OBVIOUS
  <2> HIDE DEF x, k
  <2> DEFINE y == x * inv
  <2>4. y \in Int /\ y % Order = 1
    BY <2>2, <2>3
  <2> HIDE DEF y
  <2>5. Congruent(1, y) /\ 1 \in Int
    BY <2>4, Remainder
  <2>6. Congruent(y, 1)
    BY <2>4, <2>5, Symmetric
  <2> QED BY <2>1, <2>2, <2>6 DEF y
<1> HIDE DEF x
<1>4. ASSUME NEW j \in 0 .. deg + 1 PROVE Congruent(m[p][j], u[c][j] + k * u[c][j])
  <2> DEFINE e == m[p][j]
             f == u[c][j]
  <2>1. e \in Int /\ f \in Int
    BY <1>0, <1>2, EntryType
  <2>2. Congruent(e, x * f)
    <3>1. CASE j < c
      <4>1. j \in 0 .. c - 1 /\ p # j
        BY <1>0, <3>1
      <4>2. e = 0
        <5>1. m[p][j] = IF p = j THEN 1 ELSE 0
          BY <1>0, <4>1, Zenon DEF Unit
        <5> QED BY <4>1, <5>1
      <4>3. f = e
        BY <1>1, <3>1
      <4> HIDE DEF e, f
      <4>4. e = 0 /\ x * f = 0 /\ 0 \in Int
        BY <1>3, <4>2, <4>3
      <4> QED BY <4>4, Reflexive
    <3>2. CASE ~(j < c)
      <4>1. f = (e * inv) % Order
        BY <1>1, <3>2
      <4> HIDE DEF e, f
      <4> DEFINE y == e * inv
      <4>2. y \in Int
        BY <2>1
      <4>3. Congruent(f, y)
        <5>1. f = y % Order
          BY <4>1
        <5> HIDE DEF y
        <5> QED BY <4>2, <5>1, Remainder
      <4>4. x * f \in Int /\ x * y \in Int /\ (x * inv) * e \in Int /\ x * inv \in Int
        BY <1>3, <2>1, <4>2
      <4>5. Congruent(x * f, x * y)
        <5> HIDE DEF y
        <5>1. Congruent(x, x)
          BY <1>3, Reflexive
        <5> QED BY <1>3, <2>1, <4>2, <4>3, <5>1, Products
      <4>6. x * y = (x * inv) * e
        BY <1>3, <2>1
      <4>7. Congruent((x * inv) * e, 1 * e)
        <5> DEFINE z == x * inv
        <5>1. Congruent(e, e) /\ z \in Int /\ Congruent(z, 1) /\ 1 \in Int
          BY <1>3, <2>1, <4>4, Reflexive
        <5> HIDE DEF z
        <5>2. Congruent(z * e, 1 * e)
          BY <2>1, <5>1, Products
        <5> QED BY <5>2 DEF z
      <4>8. 1 * e = e
        BY <2>1
      <4>9. Congruent(x * y, e)
        BY <4>6, <4>7, <4>8
      <4> HIDE DEF y
      <4>10. Congruent(x * f, e)
        BY <2>1, <4>4, <4>5, <4>9, Transitive
      <4> QED BY <2>1, <4>4, <4>10, Symmetric
    <3> QED BY <3>1, <3>2
  <2> HIDE DEF e, f
  <2>3. f + k * f = x * f
    BY <1>3, <2>1
  <2>4. Congruent(e, f + k * f)
    BY <2>2, <2>3
  <2> QED BY <2>4 DEF e, f
<1> HIDE DEF k
<1>5. Vanishes(deg, m[p], a)
  <2>1. Vanishes(deg, u[c], a)
    BY DEF AllVanish
  <2>2. m[p] \in [0 .. deg + 1 -> Int] /\ u[c] \in [0 .. deg + 1 -> Int]
    BY <1>0, <1>2, RowType
  <2>3. Combined(deg, m[p], u[c], u[c], k)
    BY <1>4 DEF Combined
  <2> QED BY <1>3, <2>1, <2>2, <2>3, CombinedVanishes, Degree
<1>6. \A i \in Points : Vanishes(deg, m[i], a)
  <2> TAKE i \in Points
  <2>1. CASE i = p
    BY <1>5, <2>1
  <2>2. CASE i # p /\ i = c
    BY <1>0, <1>1, <2>2 DEF AllVanish
  <2>3. CASE i # p /\ i # c
    BY <1>1, <2>3 DEF AllVanish
  <2> QED BY <2>1, <2>2, <2>3
<1> QED BY <1>6 DEF AllVanish

\* What subtracting a pivot row from the others makes of the system.
Eliminated(m, c, u) ==
  u = [i \in Points |->
        IF i = c THEN m[i]
        ELSE [j \in 0 .. deg + 1 |->
               IF j < c THEN m[i][j] ELSE (m[i][j] - m[c][j] * m[i][c]) % Order]]

\* The rows are still rows, and one more column is done.
LEMMA EliminatedType ==
  ASSUME NEW m \in MatType, NEW c \in Points, NEW u, Eliminated(m, c, u), m[c][c] = 1, Unit(m, c)
  PROVE  u \in MatType /\ Unit(u, c + 1)
<1>0. c \in 0 .. deg /\ c \in 0 .. deg + 1
  BY Degree
<1>1. /\ u[c] = m[c]
      /\ \A i \in Points \ {c} : u[i] =
            [j \in 0 .. deg + 1 |->
              IF j < c THEN m[i][j] ELSE (m[i][j] - m[c][j] * m[i][c]) % Order]
      /\ u = [i \in Points |-> u[i]]
  BY DEF Eliminated
<1>2. ASSUME NEW i \in Points \ {c} PROVE u[i] \in [0 .. deg + 1 -> Field]
  <2>1. \A j \in 0 .. deg + 1 :
          (IF j < c THEN m[i][j] ELSE (m[i][j] - m[c][j] * m[i][c]) % Order) \in Field
    <3> TAKE j \in 0 .. deg + 1
    <3>1. m[i][j] \in Field /\ m[i][j] \in Int /\ m[c][j] \in Int /\ m[i][c] \in Int
      BY <1>0, EntryType
    <3> DEFINE d == m[i][j] - m[c][j] * m[i][c]
    <3>2. d \in Int
      BY <3>1
    <3> HIDE DEF d
    <3>3. d % Order \in Field
      BY <3>2, Remainder
    <3> QED BY <3>1, <3>3 DEF d
  <2> QED BY <1>1, <2>1
<1>3. \A i \in Points : u[i] \in [0 .. deg + 1 -> Field]
  <2> TAKE i \in Points
  <2>1. CASE i = c
    BY <1>1, <2>1, RowType
  <2> QED BY <1>2, <2>1
<1>4. u \in MatType
  BY <1>1, <1>3 DEF MatType
<1>5. ASSUME NEW j \in 0 .. c, NEW i \in Points PROVE u[i][j] = IF i = j THEN 1 ELSE 0
  <2>1. CASE j < c
    <3>1. j \in 0 .. c - 1 /\ j \in 0 .. deg + 1
      BY <1>0, <2>1, Degree
    <3>2. m[i][j] = IF i = j THEN 1 ELSE 0
      BY <3>1, Zenon DEF Unit
    <3>3. u[i][j] = m[i][j]
      BY <1>1, <2>1, <3>1
    <3> QED BY <3>2, <3>3
  <2>2. CASE j = c
    <3>1. CASE i = c
      BY <1>1, <2>2, <3>1
    <3>2. CASE i # c
      <4>1. u[i][c] = (m[i][c] - m[c][c] * m[i][c]) % Order
        BY <1>0, <1>1, <3>2, Degree
      <4>2. m[i][c] \in Int
        BY <1>0, EntryType
      <4>3. m[i][c] - m[c][c] * m[i][c] = 0
        BY <4>2
      <4>4. 0 % Order = 0
        BY OrderType
      <4> QED BY <2>2, <3>2, <4>1, <4>3, <4>4
    <3> QED BY <3>1, <3>2
  <2> QED BY <1>0, <2>1, <2>2
<1>6. Unit(u, c + 1)
  <2>1. (c + 1) - 1 = c
    BY <1>0
  <2> QED BY <1>5, <2>1 DEF Unit
<1> QED BY <1>4, <1>6

\* And no solution comes in.
LEMMA EliminatedVanishes ==
  ASSUME NEW m \in MatType, NEW c \in Points, NEW u, Eliminated(m, c, u), m[c][c] = 1, Unit(m, c),
         NEW a \in [0 .. deg + 1 -> Int], AllVanish(u, a)
  PROVE  AllVanish(m, a)
<1>0. c \in 0 .. deg /\ c \in 0 .. deg + 1 /\ u \in MatType
  <2>1. u \in MatType
    BY EliminatedType, Zenon
  <2> QED BY <2>1, Degree
<1>1. /\ u[c] = m[c]
      /\ \A i \in Points \ {c} : u[i] =
            [j \in 0 .. deg + 1 |->
              IF j < c THEN m[i][j] ELSE (m[i][j] - m[c][j] * m[i][c]) % Order]
  BY DEF Eliminated
<1>2. ASSUME NEW i \in Points, i # c PROVE Vanishes(deg, m[i], a)
  <2> DEFINE k == m[i][c]
  <2>1. k \in Int
    BY <1>0, EntryType
  <2>2. ASSUME NEW j \in 0 .. deg + 1 PROVE Congruent(m[i][j], u[i][j] + k * u[c][j])
    <3> DEFINE e == m[i][j]
               f == u[i][j]
               g == m[c][j]
    <3>1. e \in Int /\ f \in Int /\ g \in Int /\ u[c][j] = g
      BY <1>0, <1>1, EntryType
    <3>2. CASE j < c
      <4>1. j \in 0 .. c - 1 /\ c # j
        BY <1>0, <3>2
      <4>2. m[c][j] = IF c = j THEN 1 ELSE 0
        BY <4>1, Zenon DEF Unit
      <4>3. g = 0 /\ f = e
        BY <1>1, <1>2, <3>2, <4>1, <4>2
      <4> HIDE DEF e, f, g, k
      <4>4. f + k * g = e
        BY <2>1, <3>1, <4>3
      <4>5. Congruent(e, f + k * g)
        BY <3>1, <4>4, Reflexive
      <4> QED BY <3>1, <4>5 DEF e, f, k
    <3>3. CASE ~(j < c)
      <4> DEFINE d == e - g * k
      <4>1. f = d % Order
        BY <1>1, <1>2, <3>3
      <4>2. d \in Int
        BY <2>1, <3>1
      <4> HIDE DEF e, f, g, k, d
      <4>3. Congruent(f, d)
        BY <4>1, <4>2, Remainder
      <4>4. PICK l \in Int : f = d + Order * l
        BY <4>3 DEF Congruent
      <4>5. e = (f + k * g) + Order * (-l)
        <5> DEFINE A == Order * l
                   B == Order * (-l)
                   C == k * g
        <5>1. A \in Int /\ B = -A /\ C \in Int /\ g * k = C
          BY <2>1, <3>1, OrderType
        <5>2. f = d + A /\ d = e - C
          BY <4>4, <5>1 DEF d
        <5> HIDE DEF A, B, C
        <5>3. e = (f + C) + B
          BY <3>1, <4>2, <5>1, <5>2
        <5> QED BY <5>3 DEF B, C
      <4>6. -l \in Int
        OBVIOUS
      <4>7. Congruent(e, f + k * g)
        BY <4>5, <4>6 DEF Congruent
      <4> QED BY <3>1, <4>7 DEF e, f, k
    <3> QED BY <3>2, <3>3
  <2> HIDE DEF k
  <2>3. Combined(deg, m[i], u[i], u[c], k)
    BY <2>2 DEF Combined
  <2>4. Vanishes(deg, u[i], a) /\ Vanishes(deg, u[c], a)
    BY DEF AllVanish
  <2>5. /\ m[i] \in [0 .. deg + 1 -> Int] /\ u[i] \in [0 .. deg + 1 -> Int]
        /\ u[c] \in [0 .. deg + 1 -> Int]
    BY <1>0, RowType
  <2> QED BY <2>1, <2>3, <2>4, <2>5, CombinedVanishes, Degree
<1>3. Vanishes(deg, m[c], a)
  BY <1>1 DEF AllVanish
<1> QED BY <1>2, <1>3 DEF AllVanish

\* Bringing up a pivot keeps the invariant (circuit.rs interpolate).
LEMMA Pivoting == SboxInv /\ Pivot => SboxInv'
<1> SUFFICES ASSUME SboxInv, Pivot PROVE SboxInv'
  OBVIOUS
<1>1. /\ box \in Boxes /\ mat \in MatType /\ Unit(mat, col) /\ Solves(mat, box)
      /\ col \in Points /\ col \in 0 .. deg
  <2>1. col \in 0 .. deg + 1 /\ col < deg + 1
    BY Literals DEF SboxInv, Pivot
  <2> QED BY <2>1, Degree DEF SboxInv
<1> DEFINE p == CHOOSE i \in NonZeroFrom(col) : \A k \in NonZeroFrom(col) : i <= k
           inv == inverse(mat[p][col])
<1>2. Pivoted(mat, col, p, inv, mat')
  BY Literals DEF Pivot, Pivoted
<1>3. p \in NonZeroFrom(col)
  <2>1. NonZeroFrom(col) \subseteq Nat /\ NonZeroFrom(col) # {}
    <3>1. col \in 0 .. deg /\ NonZeroFrom(col) # {}
      BY <1>1 DEF Pivot
    <3>2. NonZeroFrom(col) \subseteq Nat
      BY <3>1 DEF NonZeroFrom
    <3> QED BY <3>1, <3>2
  <2>2. \E i \in NonZeroFrom(col) : \A k \in NonZeroFrom(col) : i <= k
    BY <2>1, Least
  <2> QED BY <2>2
<1> HIDE DEF p
<1>4. p \in col .. deg /\ mat[p][col] # 0 /\ p \in Points /\ col \in 0 .. deg + 1
  BY <1>1, <1>3, Degree, Literals DEF NonZeroFrom
<1>5. mat[p][col] \in 1 .. Order - 1
  <2>1. mat[p][col] \in Field
    BY <1>1, <1>4, EntryType
  <2> QED BY <1>4, <2>1, OrderType DEF Field
<1>6. inv \in Int /\ (mat[p][col] * inv) % Order = 1
  BY <1>5, InverseOf
<1> HIDE DEF inv
<1>7. mat' \in MatType /\ mat'[col][col] = 1 /\ Unit(mat', col)
  BY <1>1, <1>2, <1>4, <1>6, PivotedType
<1>8. Solves(mat', box)
  <2> SUFFICES ASSUME NEW a \in [0 .. deg + 1 -> Int], AllVanish(mat', a)
               PROVE  AllVanish(System(box), a)
    BY DEF Solves
  <2>1. AllVanish(mat, a)
    BY <1>1, <1>2, <1>4, <1>6, PivotedVanishes
  <2> QED BY <1>1, <2>1 DEF Solves
<1>9. box' = box /\ col' = col /\ step' = "eliminate"
  BY DEF Pivot
<1>10. Unit(mat', col') /\ Solves(mat', box') /\ mat'[col'][col'] = 1
  BY <1>7, <1>8, <1>9
<1>11. box' \in Boxes /\ col' \in 0 .. deg + 1 /\ col' # deg + 1
  BY <1>1, <1>9, Degree
<1>12. Unit(mat, col)' /\ Solves(mat, box)'
  BY <1>10 DEF Unit, Solves
<1> QED BY <1>7, <1>9, <1>10, <1>11, <1>12 DEF SboxInv

\* So does subtracting its row.
LEMMA Eliminating == SboxInv /\ Eliminate => SboxInv'
<1> SUFFICES ASSUME SboxInv, Eliminate PROVE SboxInv'
  OBVIOUS
<1>1. /\ box \in Boxes /\ mat \in MatType /\ Unit(mat, col) /\ Solves(mat, box)
      /\ col \in Points /\ col \in 0 .. deg /\ mat[col][col] = 1
  <2>1. col \in 0 .. deg + 1 /\ col # deg + 1 /\ step = "eliminate"
    BY DEF SboxInv, Eliminate
  <2> QED BY <2>1, Degree DEF SboxInv
<1>2. Eliminated(mat, col, mat')
  BY Literals DEF Eliminate, Eliminated
<1>3. mat' \in MatType /\ Unit(mat', col + 1)
  BY <1>1, <1>2, EliminatedType
<1>4. Solves(mat', box)
  <2> SUFFICES ASSUME NEW a \in [0 .. deg + 1 -> Int], AllVanish(mat', a)
               PROVE  AllVanish(System(box), a)
    BY DEF Solves
  <2>1. AllVanish(mat, a)
    BY <1>1, <1>2, EliminatedVanishes
  <2> QED BY <1>1, <2>1 DEF Solves
<1>5. box' = box /\ col' = col + 1 /\ step' = IF col = deg THEN "done" ELSE "pivot"
  BY Literals DEF Eliminate
<1>6. Unit(mat', col') /\ Solves(mat', box')
  BY <1>3, <1>4, <1>5
<1>7. /\ col' \in 0 .. deg + 1 /\ step' \in {"pivot", "eliminate", "done"} /\ step' # "eliminate"
      /\ (step' = "done") <=> (col' = deg + 1)
  <2>1. CASE col = deg
    BY <1>5, <2>1, Degree
  <2>2. CASE col # deg
    BY <1>1, <1>5, <2>2, Degree
  <2> QED BY <2>1, <2>2
<1>8. Unit(mat, col)' /\ Solves(mat, box)'
  BY <1>6 DEF Unit, Solves
<1>9. box' \in Boxes
  BY <1>1, <1>5
<1> QED BY <1>3, <1>7, <1>8, <1>9 DEF SboxInv

\* Elimination keeps its invariant: interpolate of circuit.rs.
THEOREM SboxInvariance == SboxSpec => []SboxInv
<1>1. SboxInv /\ [SboxNext]_sboxVars => SboxInv'
  <2> SUFFICES ASSUME SboxInv, [SboxNext]_sboxVars PROVE SboxInv'
    OBVIOUS
  <2>1. CASE Pivot
    BY <2>1, Pivoting
  <2>2. CASE Eliminate
    BY <2>2, Eliminating
  <2>3. CASE UNCHANGED sboxVars
    BY <2>3 DEF SboxInv, sboxVars, Unit, Solves
  <2> QED BY <2>1, <2>2, <2>3 DEF SboxNext
<1> QED BY <1>1, SboxInvInit, PTL DEF SboxSpec

\* What eval_poly goes through.
LEMMA EvalTurns ==
  ASSUME mat \in MatType, NEW x \in Points
  PROVE  \E t \in [0 .. deg -> Field] :
           /\ t[0] = mat[deg][deg + 1] /\ eval_poly(x) = t[deg]
           /\ \A i \in 1 .. deg : t[i] = (t[i - 1] * x + mat[deg - i][deg + 1]) % Order
<1> DEFINE turns == [i \in 1 .. deg |->
                      [acc \in Field |-> (acc * x + mat[deg - i][deg + 1]) % Order]]
           n == deg
           z == mat[deg][deg + 1]
<1>1. ASSUME NEW i \in 1 .. deg
      PROVE  /\ turns[i] = [acc \in Field |-> (acc * x + mat[deg - i][deg + 1]) % Order]
             /\ \A acc \in Field : (acc * x + mat[deg - i][deg + 1]) % Order \in Field
  <2>1. mat[deg - i][deg + 1] \in Int
    <3>1. deg - i \in Points /\ deg + 1 \in 0 .. deg + 1
      BY Degree
    <3> QED BY <3>1, EntryType
  <2>2. ASSUME NEW acc \in Field PROVE (acc * x + mat[deg - i][deg + 1]) % Order \in Field
    <3> DEFINE y == acc * x + mat[deg - i][deg + 1]
    <3>1. y \in Int
      BY <2>1, OrderType, Degree DEF Field
    <3> HIDE DEF y
    <3>2. y % Order \in Field
      BY <3>1, Remainder
    <3> QED BY <3>2 DEF y
  <2> QED BY <2>2
<1>2. turns \in [1 .. n -> [Field -> Field]] /\ n \in Nat
  BY <1>1, Degree
<1>3. z \in Field
  <2>1. deg \in Points /\ deg + 1 \in 0 .. deg + 1
    BY Degree
  <2> QED BY <2>1, EntryType
<1>4. eval_poly(x) = Iterate(turns, n, Field)[z]
  BY Literals DEF eval_poly
<1>5. \A i \in 1 .. deg : \A acc \in Field :
        turns[i][acc] = (acc * x + mat[deg - i][deg + 1]) % Order
  BY <1>1
<1> HIDE DEF turns, n, z
<1>6. PICK t : Unrolls(t, z, turns, n, Field) /\ Iterate(turns, n, Field)[z] = t[n]
  BY <1>2, <1>3, Iterates, Zenon
<1>7. /\ t \in [0 .. deg -> Field] /\ t[0] = z /\ eval_poly(x) = t[deg]
      /\ \A i \in 1 .. deg : t[i] = turns[i][t[i - 1]]
  BY <1>4, <1>6 DEF Unrolls, n
<1>8. ASSUME NEW i \in 1 .. deg PROVE t[i] = (t[i - 1] * x + mat[deg - i][deg + 1]) % Order
  <2>1. t[i - 1] \in Field
    BY <1>7, Degree
  <2>2. t[i] = turns[i][t[i - 1]]
    BY <1>7
  <2> QED BY <1>5, <2>1, <2>2, Zenon
<1> QED BY <1>7, <1>8 DEF z

\* At the end the polynomial has the values of the table (circuit.rs eval_poly, sbox_gadget).
LEMMA PolynomialIsTable ==
  ASSUME SboxInv, step = "done", NEW x \in Points
  PROVE  eval_poly(x) = mapped_table(box)[x]
<1>1. mat \in MatType /\ Unit(mat, deg + 1) /\ Solves(mat, box) /\ box \in 1 .. 8
  BY BoxesType DEF SboxInv
<1> DEFINE a == Kernel(mat, deg + 1)
           d == [j \in 0 .. deg |-> a[j]]
           y == mapped_table(box)[x]
<1>2. a \in [0 .. deg + 1 -> Int] /\ AllVanish(mat, a)
  <2>1. deg + 1 \in 0 .. deg + 1 /\ \A i \in deg + 1 .. deg : mat[i][deg + 1] = 0
    BY Degree
  <2> QED BY <1>1, <2>1, KernelVanishes
<1>3. a[deg + 1] = -1 /\ \A j \in 0 .. deg : a[j] = mat[j][deg + 1]
  BY Degree DEF Kernel
<1> HIDE DEF a
<1>4. AllVanish(System(box), a)
  BY <1>1, <1>2 DEF Solves
<1>5. d \in [0 .. deg -> Int] /\ \A j \in 0 .. deg : d[j] = mat[j][deg + 1]
  BY <1>2, <1>3, Degree
<1>6. PICK t \in [0 .. deg -> Field] :
        /\ t[0] = mat[deg][deg + 1] /\ eval_poly(x) = t[deg]
        /\ \A i \in 1 .. deg : t[i] = (t[i - 1] * x + mat[deg - i][deg + 1]) % Order
  BY <1>1, EvalTurns
<1>7. x \in Int /\ t \in [0 .. deg -> Int]
  <2>1. Field \subseteq Int
    BY OrderType DEF Field
  <2>2. x \in Int
    BY Degree
  <2>3. t \in [0 .. deg -> Int]
    BY <2>1
  <2> QED BY <2>2, <2>3
<1> DEFINE h == [j \in 0 .. deg |-> t[deg - j]]
<1>8. Scheme(d, deg, x, h)
  <2> HIDE DEF d
  <2>1. Congruent(t[0], d[deg])
    <3>1. t[0] = d[deg] /\ t[0] \in Int
      BY <1>5, <1>6, <1>7, Degree
    <3> QED BY <3>1, Reflexive
  <2>2. ASSUME NEW i \in 1 .. deg PROVE Turned(t[i], t[i - 1], x, d[deg - i])
    <3>1. t[i - 1] \in Int /\ d[deg - i] \in Int /\ d[deg - i] = mat[deg - i][deg + 1]
      BY <1>5, <1>7, Degree
    <3> DEFINE w == t[i - 1] * x + d[deg - i]
    <3>2. w \in Int
      BY <1>7, <3>1
    <3>3. t[i] = w % Order
      BY <1>6, <3>1
    <3> HIDE DEF w
    <3>4. Congruent(t[i], w)
      BY <3>2, <3>3, Remainder
    <3> QED BY <3>4 DEF Turned, w
  <2>3. h = [j \in 0 .. deg |-> t[deg - j]]
    OBVIOUS
  <2> HIDE DEF h
  <2> QED BY <1>5, <1>7, <2>1, <2>2, <2>3, SchemeOf, Degree DEF Looped
<1>9. h[0] = t[deg] /\ h[0] \in Field
  BY Degree
<1>10. Congruent(h[0] + y * a[deg + 1], 0)
  <2> HIDE DEF h
  <2> QED BY <1>1, <1>2, <1>4, <1>8, SystemSays
<1>11. y \in Field
  <2>1. System(box)[x] \in [0 .. deg + 1 -> Field] /\ System(box)[x][deg + 1] = y
    BY <1>1, SystemRow
  <2> HIDE DEF y
  <2> QED BY <2>1, Degree
<1> HIDE DEF h, d, y
<1> DEFINE g == h[0]
<1>12. g \in Field /\ g \in Int /\ y \in Int /\ eval_poly(x) = g
  BY <1>6, <1>9, <1>11, OrderType DEF Field
<1>13. g + y * a[deg + 1] = g - y /\ Congruent(g - y, 0)
  <2>1. g + y * a[deg + 1] = g - y
    BY <1>3, <1>12
  <2>2. Congruent(g + y * a[deg + 1], 0)
    BY <1>10
  <2> HIDE DEF g
  <2> QED BY <2>1, <2>2
<1> HIDE DEF g
<1>14. PICK k \in Int : g - y = 0 + Order * k
  BY <1>13 DEF Congruent
<1>15. g = y + Order * k
  BY <1>12, <1>14, OrderType
<1>16. Congruent(g, y)
  BY <1>15 DEF Congruent
<1>17. g = y
  BY <1>11, <1>12, <1>16, SameElement
<1> QED BY <1>12, <1>17 DEF y

\* For every prime order beyond the points, the elimination finds a pivot in every column,
\* and then the gadget of a box allows the output of its table and no other
\* ("vandermonde invertible"; circuit.rs interpolate, sbox_gadget).
THEOREM GadgetsAreTables == SboxSpec => []GadgetIsTable
<1>1. SboxInv => GadgetIsTable
  <2> SUFFICES ASSUME SboxInv PROVE GadgetIsTable
    OBVIOUS
  <2>1. ASSUME step = "pivot" PROVE NonZeroFrom(col) # {}
    <3>1. /\ mat \in MatType /\ Unit(mat, col) /\ Solves(mat, box) /\ box \in 1 .. 8
          /\ col \in 0 .. deg + 1 /\ col # deg + 1
      BY <2>1, BoxesType DEF SboxInv
    <3>2. col \in 0 .. deg
      BY <3>1, Degree
    <3>3. \E i \in col .. deg : mat[i][col] # 0
      BY <3>1, <3>2, PivotExists
    <3> QED BY <3>3, Literals DEF NonZeroFrom
  <2>2. ASSUME step = "done", NEW v \in Points PROVE Allowed(v) = {sbox_lookup(box, bits_of(v, 6))}
    <3> DEFINE y == sbox_lookup(box, bits_of(v, 6))
    <3>1. eval_poly(v) = y
      <4>1. mapped_table(box)[v] = y
        BY DEF mapped_table
      <4> HIDE DEF y
      <4> QED BY <2>2, <4>1, PolynomialIsTable
    <3>2. y \in 0 .. 15
      <4>1. box \in 1 .. 8
        BY BoxesType DEF SboxInv
      <4> QED BY <4>1, LookupType
    <3> HIDE DEF y
    <3>3. \A out \in 0 .. 15 : out % Order = out
      BY OrderType
    <3>4. Allowed(v) = {out \in 0 .. 15 : y = out}
      BY <3>1, <3>3 DEF Allowed
    <3>5. Allowed(v) = {y}
      BY <3>2, <3>4
    <3> QED BY <3>5 DEF y
  <2> QED BY <2>1, <2>2 DEF GadgetIsTable
<1> QED BY <1>1, SboxInvariance, PTL
=============================================================================
