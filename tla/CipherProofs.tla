---------------------------- MODULE CipherProofs ----------------------------
(***************************************************************************)
(* What the operators of Des, Frames and Circuit compute, for every block, *)
(* key and frame: that decryption and unfolding undo encryption and        *)
(* folding, and that the circuit's gadgets compute the native cipher.      *)
(*                                                                         *)
(* Every loop of the source is an Iterate: the lemma Iterates gives the    *)
(* sequence of its values, and an induction over that sequence the rest.   *)
(***************************************************************************)
EXTENDS Frames, Circuit, TLAPS, WellFoundedInduction, NaturalsInduction,
  SequenceTheorems

\* The halves exchanged.
exchanged(x) == [l |-> x.r, r |-> x.l]

\* The values of a loop: x at first, and what step[i] makes of the one before.
Unrolls(turn, x, step, n, S) ==
  /\ turn \in [0 .. n -> S]
  /\ turn[0] = x
  /\ \A i \in 1 .. n : turn[i] = step[i][turn[i - 1]]

\* A bit as a number.
bit(bits, i) == IF i \in bits THEN 1 ELSE 0

-----------------------------------------------------------------------------
(* Loops *)

\* A set of numbers that holds 0 and, with each number, the next holds them all.
LEMMA Inductive ==
  ASSUME NEW A, 0 \in A, \A i \in Nat : i \in A => i + 1 \in A PROVE Nat \subseteq A
<1> SUFFICES ASSUME Nat \ A # {} PROVE FALSE
  OBVIOUS
<1>1. PICK i \in Nat \ A : \A j \in Nat \ A : <<j, i>> \notin OpToRel(<, Nat)
  BY NatLessThanWellFounded, WFMin
<1>2. \A j \in Nat \ A : ~(j < i)
  BY <1>1, Zenon DEF OpToRel
<1>3. i # 0 /\ i - 1 \in Nat /\ i - 1 < i
  OBVIOUS
<1> QED BY <1>2, <1>3

\* The same up to n.
LEMMA InductiveTo ==
  ASSUME NEW n \in Nat, NEW A, 0 \in A, \A i \in 0 .. n - 1 : i \in A => i + 1 \in A
  PROVE  0 .. n \subseteq A
<1> DEFINE B == {i \in Nat : i <= n => i \in A}
<1>1. 0 \in B
  OBVIOUS
<1>2. \A i \in Nat : i \in B => i + 1 \in B
  OBVIOUS
<1> HIDE DEF B
<1>3. Nat \subseteq B
  BY <1>1, <1>2, Inductive
<1> QED BY <1>3 DEF B

\* A loop takes a sequence of values and yields the last of them: each turn of Iterate is a
\* turn of the loop, shown by induction on their number.
LEMMA Iterates ==
  ASSUME NEW n \in Nat, NEW S, NEW step \in [1 .. n -> [S -> S]], NEW x \in S
  PROVE  \E turn : Unrolls(turn, x, step, n, S) /\ Iterate(step, n, S)[x] = turn[n]
<1> DEFINE Turns(m, t) == t[0] = x /\ \A i \in 1 .. m : t[i] = step[i][t[i - 1]]
           A == {m \in Nat : m <= n => \E t \in [0 .. m -> S] : Turns(m, t)}
<1>1. 0 \in A
  <2> DEFINE t == [i \in 0 .. 0 |-> x]
  <2>1. t \in [0 .. 0 -> S] /\ Turns(0, t)
    OBVIOUS
  <2> QED BY <2>1
<1>2. ASSUME NEW m \in Nat, m \in A PROVE m + 1 \in A
  <2> SUFFICES ASSUME m + 1 <= n PROVE \E t \in [0 .. m + 1 -> S] : Turns(m + 1, t)
    OBVIOUS
  <2>1. PICK t \in [0 .. m -> S] : Turns(m, t)
    BY <1>2
  <2> DEFINE u == [i \in 0 .. m + 1 |-> IF i = m + 1 THEN step[m + 1][t[m]] ELSE t[i]]
  <2>2. u \in [0 .. m + 1 -> S]
    OBVIOUS
  <2>3. u[0] = x
    BY <2>1
  <2>4. \A i \in 1 .. m + 1 : u[i] = step[i][u[i - 1]]
    BY <2>1
  <2> QED BY <2>2, <2>3, <2>4
<1> HIDE DEF A
<1>3. Nat \subseteq A
  BY <1>1, <1>2, Inductive
<1>4. PICK t \in [0 .. n -> S] : Turns(n, t)
  BY <1>3 DEF A
<1> DEFINE Body(turn) == [i \in 0 .. n |-> IF i = 0 THEN x ELSE step[i][turn[i - 1]]]
           c == CHOOSE turn : turn = Body(turn)
<1>5. t = Body(t)
  BY <1>4
<1>6. c = Body(c)
  BY <1>5, Zenon
<1>7. Iterate(step, n, S)[x] = c[n]
  BY DEF Iterate
<1>8. Turns(n, c)
  <2> HIDE DEF c
  <2> QED BY <1>6
<1>9. 0 .. n \subseteq {i \in 0 .. n : c[i] = t[i]}
  <2> DEFINE C == {i \in 0 .. n : c[i] = t[i]}
  <2> HIDE DEF c
  <2>1. 0 \in C
    BY <1>4, <1>8
  <2>2. ASSUME NEW i \in 0 .. n - 1, i \in C PROVE i + 1 \in C
    <3>1. i + 1 \in 1 .. n /\ (i + 1) - 1 = i
      OBVIOUS
    <3>2. c[i + 1] = step[i + 1][c[i]] /\ t[i + 1] = step[i + 1][t[i]]
      BY <1>4, <1>8, <3>1
    <3> QED BY <2>2, <3>1, <3>2
  <2> HIDE DEF C
  <2>3. 0 .. n \subseteq C
    BY <2>1, <2>2, InductiveTo
  <2> QED BY <2>3 DEF C
<1>10. c[n] = t[n]
  BY <1>9
<1>11. Iterate(step, n, S)[x] = t[n]
  BY <1>7, <1>10
<1>12. Unrolls(t, x, step, n, S)
  BY <1>4 DEF Unrolls
<1> QED BY <1>11, <1>12

-----------------------------------------------------------------------------
(* Blocks and halves *)

\* xor with the same bits twice changes nothing (des.rs feistel, des_block).
LEMMA XorTwice == ASSUME NEW a, NEW b PROVE xor(xor(a, b), b) = a
BY DEF xor

\* The round function yields 32 bits.
LEMMA FeistelType == ASSUME NEW r, NEW k PROVE feistel(r, k) \in SUBSET (0 .. 31)
BY TableLengths DEF feistel, permute

\* A round takes halves to halves.
LEMMA RoundType ==
  ASSUME NEW x \in HalvesType, NEW k PROVE Round(x, k) \in HalvesType
BY FeistelType DEF HalvesType, Round, xor

\* The two halves of a block have 32 bits each.
LEMMA HalvesAreHalves == ASSUME NEW x PROVE Halves(x) \in HalvesType
BY DEF Halves, HalvesType, slice

\* A round undoes itself on the halves exchanged (des.rs des_block).
LEMMA RoundUndone ==
  ASSUME NEW x \in HalvesType, NEW k
  PROVE  Round(exchanged(Round(x, k)), k) = exchanged(x)
BY XorTwice DEF HalvesType, Round, exchanged

\* FP is the inverse of IP (des.rs FP).
LEMMA FPInverts ==
  /\ DOMAIN FP = 1 .. 64
  /\ Len(FP) = 64
  /\ \A i \in 0 .. 63 : FP[i + 1] \in 0 .. 63 /\ IP[FP[i + 1] + 1] = i
  /\ \A i \in 0 .. 63 : FP[IP[i + 1] + 1] = i
<1>1. DOMAIN FP = 1 .. 64
  BY DEF FP
<1>2. \A i \in 0 .. 63 : FP[i + 1] \in 0 .. 63 /\ IP[FP[i + 1] + 1] = i
  <2> SUFFICES ASSUME NEW i \in 0 .. 63
      PROVE  FP[i + 1] \in 0 .. 63 /\ IP[FP[i + 1] + 1] = i
    OBVIOUS
  <2> DEFINE j == CHOOSE k \in 1 .. 64 : IP[k] = i
  <2>1. j \in 1 .. 64 /\ IP[j] = i
    BY IPPermutes
  <2>2. FP[i + 1] = j - 1
    BY DEF FP
  <2> HIDE DEF j
  <2>3. FP[i + 1] + 1 = j
    BY <2>1, <2>2
  <2> QED BY <2>1, <2>2, <2>3
<1>3. \A i \in 0 .. 63 : FP[IP[i + 1] + 1] = i
  <2> SUFFICES ASSUME NEW i \in 0 .. 63 PROVE FP[IP[i + 1] + 1] = i
    OBVIOUS
  <2> DEFINE m == FP[IP[i + 1] + 1]
  <2>1. i + 1 \in 1 .. 64
    OBVIOUS
  <2>2. IP[i + 1] \in 0 .. 63
    BY <2>1, IPPermutes
  <2>3. m \in 0 .. 63 /\ IP[m + 1] = IP[i + 1]
    BY <1>2, <2>2
  <2> HIDE DEF m
  <2>4. m + 1 = i + 1
    <3>1. m + 1 \in 1 .. 64
      BY <2>3
    <3> QED BY <2>1, <2>3, <3>1, IPPermutes
  <2>5. m = i
    BY <2>3, <2>4
  <2> QED BY <2>5 DEF m
<1>4. Len(FP) = 64
  BY DEF FP
<1> QED BY <1>1, <1>2, <1>3, <1>4

\* Between two calls only the exchange of the halves is left.
LEMMA HalvesOfOutput ==
  ASSUME NEW x \in HalvesType PROVE Halves(Output(x)) = exchanged(x)
<1> DEFINE pre == x.r \cup after(32, x.l)
           ip == permute(permute(pre, FP), IP)
<1>1. ip = {i \in 0 .. 63 : i \in pre}
  <2>1. permute(pre, FP) = {j \in 0 .. 63 : FP[j + 1] \in pre}
    BY FPInverts DEF permute
  <2>2. ip = {i \in 0 .. 63 : IP[i + 1] \in permute(pre, FP)}
    BY TableLengths DEF permute
  <2>3. \A i \in 0 .. 63 : IP[i + 1] \in 0 .. 63
    <3>1. \A i \in 0 .. 63 : i + 1 \in 1 .. 64
      OBVIOUS
    <3> QED BY <3>1, IPPermutes
  <2>4. ASSUME NEW i \in 0 .. 63 PROVE IP[i + 1] \in permute(pre, FP) <=> i \in pre
    <3> HIDE DEF pre
    <3>1. IP[i + 1] \in 0 .. 63 /\ FP[IP[i + 1] + 1] = i
      BY <2>3, FPInverts
    <3> QED BY <2>1, <3>1
  <2> QED BY <2>2, <2>4
<1>2. slice(ip, 0, 32) = x.r
  BY <1>1 DEF slice, after, HalvesType
<1>3. slice(ip, 32, 32) = x.l
  BY <1>1 DEF slice, after, HalvesType
<1> QED BY <1>2, <1>3 DEF Halves, Output, exchanged

\* A call of no rounds, on the halves exchanged, would return its argument.
LEMMA OutputOfHalves ==
  ASSUME NEW x \in Bits64 PROVE Output(exchanged(Halves(x))) = x
<1> DEFINE ip == permute(x, IP)
           pre == slice(ip, 0, 32) \cup after(32, slice(ip, 32, 32))
<1>1. ip = {i \in 0 .. 63 : IP[i + 1] \in x}
  BY TableLengths DEF permute
<1>2. pre = ip
  <2> HIDE DEF ip
  <2>1. ip \subseteq 0 .. 63
    BY <1>1
  <2>2. ASSUME NEW i \in ip PROVE i \in pre
    <3>1. CASE i < 32
      BY <2>1, <2>2, <3>1 DEF slice
    <3>2. CASE i >= 32
      <4>1. i - 32 \in slice(ip, 32, 32) /\ i = 32 + (i - 32)
        BY <2>1, <2>2, <3>2 DEF slice
      <4> QED BY <4>1 DEF after
    <3> QED BY <2>1, <2>2, <3>1, <3>2
  <2>3. ASSUME NEW i \in pre PROVE i \in ip
    BY <2>1, <2>3 DEF slice, after
  <2> QED BY <2>2, <2>3
<1>3. permute(ip, FP) = x
  <2>1. permute(ip, FP) = {i \in 0 .. 63 : FP[i + 1] \in ip}
    BY FPInverts DEF permute
  <2>2. \A i \in 0 .. 63 : FP[i + 1] \in ip <=> i \in x
    BY <1>1, FPInverts
  <2> HIDE DEF ip
  <2> QED BY <2>1, <2>2 DEF Bits64
<1> DEFINE l == slice(ip, 0, 32)
           r == slice(ip, 32, 32)
<1>4. Halves(x) = [l |-> l, r |-> r]
  BY Zenon DEF Halves
<1>5. pre = l \cup after(32, r)
  OBVIOUS
<1> HIDE DEF ip, pre, l, r
<1>6. exchanged(Halves(x)) = [l |-> r, r |-> l]
  BY <1>4 DEF exchanged
<1>7. Output(exchanged(Halves(x))) = permute(pre, FP)
  BY <1>5, <1>6 DEF Output
<1> QED BY <1>2, <1>3, <1>7

\* Whatever a call returns is a block.
LEMMA OutputType == ASSUME NEW x PROVE Output(x) \in Bits64
BY FPInverts DEF Output, permute, Bits64

-----------------------------------------------------------------------------
(* Bits and bytes *)

\* The number that eight bits make, most significant first.
LEMMA ValueOfEight ==
  ASSUME NEW bits
  PROVE  ValueOf(bits, 8) =
           128 * bit(bits, 0) + 64 * bit(bits, 1) + 32 * bit(bits, 2) + 16 * bit(bits, 3)
             + 8 * bit(bits, 4) + 4 * bit(bits, 5) + 2 * bit(bits, 6) + bit(bits, 7)
<1> DEFINE step == [i \in 1 .. 8 |-> [v \in Nat |-> 2 * v + IF i - 1 \in bits THEN 1 ELSE 0]]
<1>1. ASSUME NEW i \in 1 .. 8, NEW v \in Nat
      PROVE  step[i][v] = 2 * v + bit(bits, i - 1) /\ step[i][v] \in Nat
  BY DEF bit
<1>2. step \in [1 .. 8 -> [Nat -> Nat]]
  OBVIOUS
<1>3. ValueOf(bits, 8) = Iterate(step, 8, Nat)[0]
  BY DEF ValueOf
<1> HIDE DEF step
<1>4. PICK turn : Unrolls(turn, 0, step, 8, Nat) /\ Iterate(step, 8, Nat)[0] = turn[8]
  <2> DEFINE len == 8
             zero == 0
  <2>1. len \in Nat /\ zero \in Nat /\ step \in [1 .. len -> [Nat -> Nat]]
    BY <1>2
  <2> HIDE DEF len, zero
  <2>2. \E turn : Unrolls(turn, zero, step, len, Nat) /\ Iterate(step, len, Nat)[zero] = turn[len]
    BY <2>1, Iterates, Zenon
  <2> QED BY <2>2 DEF len, zero
<1>5. ASSUME NEW i \in 0 .. 7 PROVE turn[i + 1] = 2 * turn[i] + bit(bits, i)
  <2>1. i + 1 \in 1 .. 8 /\ (i + 1) - 1 = i
    OBVIOUS
  <2> QED BY <1>1, <1>4, <2>1 DEF Unrolls
<1>6. \A i \in 0 .. 7 : bit(bits, i) \in 0 .. 1
  BY DEF bit
<1>7. /\ turn[1] = 2 * turn[0] + bit(bits, 0)
      /\ turn[2] = 2 * turn[1] + bit(bits, 1)
      /\ turn[3] = 2 * turn[2] + bit(bits, 2)
      /\ turn[4] = 2 * turn[3] + bit(bits, 3)
      /\ turn[5] = 2 * turn[4] + bit(bits, 4)
      /\ turn[6] = 2 * turn[5] + bit(bits, 5)
      /\ turn[7] = 2 * turn[6] + bit(bits, 6)
      /\ turn[8] = 2 * turn[7] + bit(bits, 7)
  BY <1>5
<1>9. turn[8] = 128 * bit(bits, 0) + 64 * bit(bits, 1) + 32 * bit(bits, 2)
                  + 16 * bit(bits, 3) + 8 * bit(bits, 4) + 4 * bit(bits, 5)
                  + 2 * bit(bits, 6) + bit(bits, 7)
  <2>1. turn[0] = 0
    BY <1>4 DEF Unrolls
  <2>2. turn[1] = bit(bits, 0)
    BY <1>6, <1>7, <2>1
  <2>3. turn[2] = 2 * bit(bits, 0) + bit(bits, 1)
    BY <1>6, <1>7, <2>2
  <2>4. turn[3] = 4 * bit(bits, 0) + 2 * bit(bits, 1) + bit(bits, 2)
    BY <1>6, <1>7, <2>3
  <2>5. turn[4] = 8 * bit(bits, 0) + 4 * bit(bits, 1) + 2 * bit(bits, 2) + bit(bits, 3)
    BY <1>6, <1>7, <2>4
  <2>6. turn[5] = 16 * bit(bits, 0) + 8 * bit(bits, 1) + 4 * bit(bits, 2)
                    + 2 * bit(bits, 3) + bit(bits, 4)
    BY <1>6, <1>7, <2>5
  <2>7. turn[6] = 32 * bit(bits, 0) + 16 * bit(bits, 1) + 8 * bit(bits, 2)
                    + 4 * bit(bits, 3) + 2 * bit(bits, 4) + bit(bits, 5)
    BY <1>6, <1>7, <2>6
  <2>8. turn[7] = 64 * bit(bits, 0) + 32 * bit(bits, 1) + 16 * bit(bits, 2)
                    + 8 * bit(bits, 3) + 4 * bit(bits, 4) + 2 * bit(bits, 5) + bit(bits, 6)
    BY <1>6, <1>7, <2>7
  <2> QED BY <1>6, <1>7, <2>8
<1> QED BY <1>3, <1>4, <1>9

\* A byte is the sum of its bits.
LEMMA SumOfBits ==
  ASSUME NEW v \in 0 .. 255
  PROVE  v = 128 * ((v \div 128) % 2) + 64 * ((v \div 64) % 2) + 32 * ((v \div 32) % 2)
               + 16 * ((v \div 16) % 2) + 8 * ((v \div 8) % 2) + 4 * ((v \div 4) % 2)
               + 2 * ((v \div 2) % 2) + ((v \div 1) % 2)
OBVIOUS
\* The i-th bit of a byte, the first one weighing most.
digit(v, i) == (v \div 2 ^ (7 - i)) % 2

\* The digits of a byte, one by one.
LEMMA Digits ==
  ASSUME NEW v
  PROVE  /\ digit(v, 0) = (v \div 128) % 2 /\ digit(v, 1) = (v \div 64) % 2
         /\ digit(v, 2) = (v \div 32) % 2 /\ digit(v, 3) = (v \div 16) % 2
         /\ digit(v, 4) = (v \div 8) % 2 /\ digit(v, 5) = (v \div 4) % 2
         /\ digit(v, 6) = (v \div 2) % 2 /\ digit(v, 7) = (v \div 1) % 2
<1>1. /\ 2 ^ 7 = 128 /\ 2 ^ 6 = 64 /\ 2 ^ 5 = 32 /\ 2 ^ 4 = 16
      /\ 2 ^ 3 = 8 /\ 2 ^ 2 = 4 /\ 2 ^ 1 = 2 /\ 2 ^ 0 = 1
  OBVIOUS
<1>2. /\ 7 - 0 = 7 /\ 7 - 1 = 6 /\ 7 - 2 = 5 /\ 7 - 3 = 4
      /\ 7 - 4 = 3 /\ 7 - 5 = 2 /\ 7 - 6 = 1 /\ 7 - 7 = 0
  OBVIOUS
<1> QED BY <1>1, <1>2, Zenon DEF digit

\* The number that eight bits make is a byte and has these bits for its digits.
LEMMA DigitsOfSum ==
  ASSUME NEW d \in [0 .. 7 -> 0 .. 1],
         NEW v, v = 128 * d[0] + 64 * d[1] + 32 * d[2] + 16 * d[3] + 8 * d[4] + 4 * d[5]
                      + 2 * d[6] + d[7]
  PROVE  v \in Byte /\ \A i \in 0 .. 7 : digit(v, i) = d[i]
<1>0. v \in Byte
  BY DEF Byte
<1>1. (v \div 128) % 2 = d[0]
  OBVIOUS
<1>2. (v \div 64) % 2 = d[1]
  OBVIOUS
<1>3. (v \div 32) % 2 = d[2]
  OBVIOUS
<1>4. (v \div 16) % 2 = d[3]
  OBVIOUS
<1>5. (v \div 8) % 2 = d[4]
  OBVIOUS
<1>6. (v \div 4) % 2 = d[5]
  OBVIOUS
<1>7. (v \div 2) % 2 = d[6]
  OBVIOUS
<1>8. (v \div 1) % 2 = d[7]
  OBVIOUS
<1>9. \A i \in 0 .. 7 : i = 0 \/ i = 1 \/ i = 2 \/ i = 3 \/ i = 4 \/ i = 5 \/ i = 6 \/ i = 7
  OBVIOUS
<1>10. \A i \in 0 .. 7 : digit(v, i) = d[i]
  BY <1>1, <1>2, <1>3, <1>4, <1>5, <1>6, <1>7, <1>8, <1>9, Digits
<1> QED BY <1>0, <1>10

\* A binary digit is 0 or 1.
LEMMA DigitType == ASSUME NEW v \in Byte, NEW i \in 0 .. 7 PROVE digit(v, i) \in 0 .. 1
<1>1. i = 0 \/ i = 1 \/ i = 2 \/ i = 3 \/ i = 4 \/ i = 5 \/ i = 6 \/ i = 7
  OBVIOUS
<1>2. /\ (v \div 128) % 2 \in 0 .. 1 /\ (v \div 64) % 2 \in 0 .. 1
      /\ (v \div 32) % 2 \in 0 .. 1 /\ (v \div 16) % 2 \in 0 .. 1
      /\ (v \div 8) % 2 \in 0 .. 1 /\ (v \div 4) % 2 \in 0 .. 1
      /\ (v \div 2) % 2 \in 0 .. 1 /\ (v \div 1) % 2 \in 0 .. 1
  BY DEF Byte
<1> QED BY <1>1, <1>2, Digits

\* The byte of a string of bits has these bits.
LEMMA ByteOfBits ==
  ASSUME NEW bits
  PROVE  /\ ValueOf(bits, 8) \in Byte
         /\ \A i \in 0 .. 7 : digit(ValueOf(bits, 8), i) = bit(bits, i)
<1> DEFINE d == [i \in 0 .. 7 |-> bit(bits, i)]
<1>1. d \in [0 .. 7 -> 0 .. 1]
  BY DEF bit
<1>2. ValueOf(bits, 8) = 128 * d[0] + 64 * d[1] + 32 * d[2] + 16 * d[3] + 8 * d[4]
                           + 4 * d[5] + 2 * d[6] + d[7]
  BY ValueOfEight
<1>3. \A i \in 0 .. 7 : d[i] = bit(bits, i)
  OBVIOUS
<1> HIDE DEF d
<1> QED BY <1>1, <1>2, <1>3, DigitsOfSum

\* A byte is that of its own bits.
LEMMA BitsOfByte ==
  ASSUME NEW v \in Byte, NEW bits, \A i \in 0 .. 7 : i \in bits <=> digit(v, i) = 1
  PROVE  ValueOf(bits, 8) = v
<1>1. \A i \in 0 .. 7 : bit(bits, i) = digit(v, i)
  BY DigitType DEF bit
<1>2. /\ 0 \in 0 .. 7 /\ 1 \in 0 .. 7 /\ 2 \in 0 .. 7 /\ 3 \in 0 .. 7
      /\ 4 \in 0 .. 7 /\ 5 \in 0 .. 7 /\ 6 \in 0 .. 7 /\ 7 \in 0 .. 7
  OBVIOUS
<1>3. /\ bit(bits, 0) = (v \div 128) % 2 /\ bit(bits, 1) = (v \div 64) % 2
      /\ bit(bits, 2) = (v \div 32) % 2 /\ bit(bits, 3) = (v \div 16) % 2
      /\ bit(bits, 4) = (v \div 8) % 2 /\ bit(bits, 5) = (v \div 4) % 2
      /\ bit(bits, 6) = (v \div 2) % 2 /\ bit(bits, 7) = (v \div 1) % 2
  BY <1>1, <1>2, Digits
<1>4. v = 128 * ((v \div 128) % 2) + 64 * ((v \div 64) % 2) + 32 * ((v \div 32) % 2)
            + 16 * ((v \div 16) % 2) + 8 * ((v \div 8) % 2) + 4 * ((v \div 4) % 2)
            + 2 * ((v \div 2) % 2) + ((v \div 1) % 2)
  BY SumOfBits DEF Byte
<1> QED BY <1>3, <1>4, ValueOfEight

\* A block is a string of eight bytes.
LEMMA BlockLength == ASSUME NEW b \in BlockType PROVE Len(b) = 8 /\ b \in Seq(Byte)
<1>1. 8 \in Nat /\ b \in [1 .. 8 -> Byte]
  BY DEF BlockType
<1>2. b \in Seq(Byte)
  BY <1>1, SeqDef
<1> QED BY <1>1, <1>2, LenProperties

\* The bits of a block are the digits of its bytes (des.rs bytes_to_des_bits).
LEMMA BitsOfBlock ==
  ASSUME NEW b \in BlockType
  PROVE  /\ bytes_to_des_bits(b) \in Bits64
         /\ \A k \in 0 .. 63 : k \in bytes_to_des_bits(b) <=> digit(b[k \div 8 + 1], k % 8) = 1
<1>1. bytes_to_des_bits(b) = {k \in 0 .. 8 * 8 - 1 : digit(b[k \div 8 + 1], k % 8) = 1}
  BY BlockLength, Zenon DEF bytes_to_des_bits, digit
<1> QED BY <1>1 DEF Bits64

\* The digits of the block of some bits are these bits (des.rs des_bits_to_bytes).
LEMMA BlockOfBits ==
  ASSUME NEW bits
  PROVE  /\ des_bits_to_bytes(bits) \in BlockType
         /\ \A k \in 0 .. 63 : digit(des_bits_to_bytes(bits)[k \div 8 + 1], k % 8) = 1
                                 <=> k \in bits
<1> DEFINE part(i) == slice(bits, 8 * (i - 1), 8)
           b == des_bits_to_bytes(bits)
<1>1. b = [i \in 1 .. 8 |-> ValueOf(part(i), 8)]
  BY DEF des_bits_to_bytes
<1>2. b \in BlockType
  <2> HIDE DEF part
  <2> QED BY <1>1, ByteOfBits DEF BlockType
<1>3. ASSUME NEW k \in 0 .. 63 PROVE digit(b[k \div 8 + 1], k % 8) = 1 <=> k \in bits
  <2> DEFINE i == k \div 8 + 1
             j == k % 8
  <2>1. i \in 1 .. 8 /\ j \in 0 .. 7 /\ k = 8 * (i - 1) + j
    OBVIOUS
  <2> HIDE DEF i, j, b
  <2>2. j \in part(i) <=> k \in bits
    BY <2>1 DEF slice
  <2> HIDE DEF part
  <2>3. digit(b[i], j) = bit(part(i), j)
    BY <1>1, <2>1, ByteOfBits
  <2>4. digit(b[i], j) = 1 <=> j \in part(i)
    BY <2>3 DEF bit
  <2> QED BY <2>2, <2>4 DEF i, j
<1> QED BY <1>2, <1>3 DEF b

\* Bits to bytes and back (des.rs bytes_to_des_bits, des_bits_to_bytes).
LEMMA BitsReturn ==
  ASSUME NEW bits \in Bits64 PROVE bytes_to_des_bits(des_bits_to_bytes(bits)) = bits
<1> DEFINE b == des_bits_to_bytes(bits)
<1>1. b \in BlockType /\ \A k \in 0 .. 63 : digit(b[k \div 8 + 1], k % 8) = 1 <=> k \in bits
  BY BlockOfBits
<1> HIDE DEF b
<1>2. /\ bytes_to_des_bits(b) \in Bits64
      /\ \A k \in 0 .. 63 : k \in bytes_to_des_bits(b) <=> k \in bits
  BY <1>1, BitsOfBlock
<1> QED BY <1>2 DEF Bits64, b

\* A block is that of its own bits.
LEMMA BytesReturn ==
  ASSUME NEW b \in BlockType PROVE des_bits_to_bytes(bytes_to_des_bits(b)) = b
<1> DEFINE bits == bytes_to_des_bits(b)
           part(i) == slice(bits, 8 * (i - 1), 8)
<1>1. \A k \in 0 .. 63 : k \in bits <=> digit(b[k \div 8 + 1], k % 8) = 1
  BY BitsOfBlock
<1> HIDE DEF bits
<1>2. ASSUME NEW i \in 1 .. 8 PROVE ValueOf(part(i), 8) = b[i]
  <2>1. ASSUME NEW j \in 0 .. 7 PROVE j \in part(i) <=> digit(b[i], j) = 1
    <3> DEFINE k == 8 * (i - 1) + j
    <3>1. k \in 0 .. 63 /\ k \div 8 + 1 = i /\ k % 8 = j
      OBVIOUS
    <3>2. j \in part(i) <=> k \in bits
      BY DEF slice
    <3> HIDE DEF k, part
    <3> QED BY <1>1, <3>1, <3>2
  <2>2. b[i] \in Byte
    BY DEF BlockType
  <2> HIDE DEF part
  <2> QED BY <2>1, <2>2, BitsOfByte
<1>3. des_bits_to_bytes(bits) = [i \in 1 .. 8 |-> ValueOf(part(i), 8)]
  BY DEF des_bits_to_bytes
<1> HIDE DEF part
<1> QED BY <1>2, <1>3 DEF BlockType, bits

-----------------------------------------------------------------------------
(* The cipher *)

\* The xor of blocks is that of their bits.
LEMMA XorType ==
  ASSUME NEW a \in BlockType, NEW b \in BlockType
  PROVE  /\ xor_bytes(a, b) \in BlockType
         /\ bytes_to_des_bits(xor_bytes(a, b)) = xor(bytes_to_des_bits(a), bytes_to_des_bits(b))
<1>1. xor(bytes_to_des_bits(a), bytes_to_des_bits(b)) \in Bits64
  BY BitsOfBlock DEF xor, Bits64
<1> QED BY <1>1, BlockOfBits, BitsReturn DEF xor_bytes

\* What was xored into a block is xored out of it again (des.rs, schedule.rs).
LEMMA XorBack ==
  ASSUME NEW a \in BlockType, NEW b \in BlockType
  PROVE  xor_bytes(xor_bytes(a, b), b) = a
BY XorType, XorTwice, BytesReturn DEF xor_bytes

\* A loop that takes these values ends with the last of them.
LEMMA IteratesTo ==
  ASSUME NEW n \in Nat, NEW S, NEW step \in [1 .. n -> [S -> S]], NEW x \in S,
         NEW t, Unrolls(t, x, step, n, S)
  PROVE  Iterate(step, n, S)[x] = t[n]
<1>1. PICK u : Unrolls(u, x, step, n, S) /\ Iterate(step, n, S)[x] = u[n]
  BY Iterates, Zenon
<1> DEFINE C == {i \in 0 .. n : u[i] = t[i]}
<1>2. 0 \in C
  BY <1>1 DEF Unrolls
<1>3. ASSUME NEW i \in 0 .. n - 1, i \in C PROVE i + 1 \in C
  <2>1. i + 1 \in 1 .. n /\ (i + 1) - 1 = i
    OBVIOUS
  <2>2. u[i + 1] = step[i + 1][u[i]] /\ t[i + 1] = step[i + 1][t[i]]
    BY <1>1, <2>1 DEF Unrolls
  <2> QED BY <1>3, <2>1, <2>2
<1> HIDE DEF C
<1>4. 0 .. n \subseteq C
  BY <1>2, <1>3, InductiveTo
<1> QED BY <1>1, <1>4 DEF C

-----------------------------------------------------------------------------
(* The rounds of a call *)

\* The halves after each round.
Walks(t, x, keys) ==
  /\ t \in [0 .. 16 -> HalvesType] /\ t[0] = x
  /\ \A i \in 1 .. 16 : t[i] = Round(t[i - 1], keys[i])

\* Sixteen rounds walk from halves to halves, in one way.
LEMMA WalkOfRounds ==
  ASSUME NEW x \in HalvesType, NEW keys
  PROVE  /\ \E t : Walks(t, x, keys) /\ Rounds(x, keys) = t[16]
         /\ \A t : Walks(t, x, keys) => Rounds(x, keys) = t[16]
<1> DEFINE step == [i \in 1 .. 16 |-> [s \in HalvesType |-> Round(s, keys[i])]]
           len == 16
<1>1. len \in Nat /\ step \in [1 .. len -> [HalvesType -> HalvesType]]
  BY RoundType
<1>2. Rounds(x, keys) = Iterate(step, len, HalvesType)[x]
  BY DEF Rounds
<1>3. \A t : Walks(t, x, keys) <=> Unrolls(t, x, step, len, HalvesType)
  BY DEF Walks, Unrolls
<1> HIDE DEF step, len
<1>4. \E t : Unrolls(t, x, step, len, HalvesType) /\ Iterate(step, len, HalvesType)[x] = t[len]
  BY <1>1, Iterates, Zenon
<1>5. \A t : Unrolls(t, x, step, len, HalvesType)
               => Iterate(step, len, HalvesType)[x] = t[len]
  BY <1>1, IteratesTo, Zenon
<1> QED BY <1>2, <1>3, <1>4, <1>5, Zenon DEF len

\* Sixteen rounds keep the halves halves.
LEMMA RoundsType ==
  ASSUME NEW x \in HalvesType, NEW keys PROVE Rounds(x, keys) \in HalvesType
<1>1. PICK t : Walks(t, x, keys) /\ Rounds(x, keys) = t[16]
  BY WalkOfRounds
<1> QED BY <1>1 DEF Walks

\* The rounds with the keys in the other order walk back (des.rs des_block).
LEMMA RoundsBack ==
  ASSUME NEW x \in HalvesType, NEW keys, NEW back, \A i \in 1 .. 16 : back[i] = keys[17 - i]
  PROVE  Rounds(exchanged(Rounds(x, keys)), back) = exchanged(x)
<1>1. PICK t : Walks(t, x, keys) /\ Rounds(x, keys) = t[16]
  BY WalkOfRounds
<1>2. \A y \in HalvesType : exchanged(y) \in HalvesType
  BY DEF HalvesType, exchanged
<1> DEFINE u == [i \in 0 .. 16 |-> exchanged(t[16 - i])]
<1>3. u \in [0 .. 16 -> HalvesType] /\ u[0] = exchanged(t[16]) /\ u[16] = exchanged(x)
  BY <1>1, <1>2 DEF Walks
<1>4. ASSUME NEW i \in 1 .. 16 PROVE u[i] = Round(u[i - 1], back[i])
  <2> DEFINE j == 17 - i
  <2>1. /\ j \in 1 .. 16 /\ j - 1 \in 0 .. 16
        /\ j - 1 = 16 - i /\ j = 16 - (i - 1) /\ i - 1 \in 0 .. 16
    OBVIOUS
  <2>2. t[j] = Round(t[j - 1], keys[j]) /\ t[j - 1] \in HalvesType
    BY <1>1, <2>1 DEF Walks
  <2>3. u[i] = exchanged(t[j - 1]) /\ u[i - 1] = exchanged(t[j])
    BY <2>1
  <2>4. back[i] = keys[j]
    OBVIOUS
  <2> HIDE DEF u, j
  <2> QED BY <2>2, <2>3, <2>4, RoundUndone
<1> HIDE DEF u
<1>5. Walks(u, exchanged(t[16]), back)
  BY <1>3, <1>4 DEF Walks
<1>6. exchanged(t[16]) \in HalvesType
  BY <1>1, <1>2 DEF Walks
<1> QED BY <1>1, <1>3, <1>5, <1>6, WalkOfRounds

\* The other direction takes the round keys in the other order (des.rs des_block).
LEMMA OrdersReversed ==
  ASSUME NEW keys, NEW e \in BOOLEAN, NEW i \in 1 .. 16
  PROVE  KeyOrder(keys, ~e)[i] = KeyOrder(keys, e)[17 - i]
BY DEF KeyOrder

\* The cipher on bits is its rounds under the schedule of the key (des.rs des_bits).
LEMMA BitsAreRounds ==
  ASSUME NEW x, NEW k, NEW e \in BOOLEAN
  PROVE  des_bits(x, k, e) = Output(Rounds(Halves(x), KeyOrder(round_keys(k), e)))
<1> DEFINE keys == KeyOrder(round_keys(k), e)
<1>1. ASSUME NEW v PROVE permute(v, PC2) \in SUBSET Nat
  <2> DEFINE n == Len(PC2)
  <2>1. n = 48 BY TableLengths
  <2> HIDE DEF n
  <2>2. permute(v, PC2) = {i \in 0 .. n - 1 : PC2[i + 1] \in v}
    BY Zenon DEF permute, n
  <2> QED BY <2>1, <2>2
<1>2. keys \in Schedules
  <2> DEFINE range == SUBSET Nat
             of(i) == round_keys(k)[i]
  <2>1. ASSUME NEW i \in 1 .. 16 PROVE of(i) \in range
    BY <1>1, Zenon DEF round_keys
  <2>2. \A i \in 1 .. 16 : (IF e THEN i ELSE 17 - i) \in 1 .. 16
    OBVIOUS
  <2>3. keys = [i \in 1 .. 16 |-> of(IF e THEN i ELSE 17 - i)]
    BY Zenon DEF KeyOrder
  <2> HIDE DEF keys, range, of
  <2>4. keys \in [1 .. 16 -> range]
    BY <2>1, <2>2, <2>3
  <2> QED BY <2>4, Zenon DEF Schedules, range
<1> HIDE DEF keys
<1>3. Under(Halves(x))[keys] = Rounds(Halves(x), keys)
  BY <1>2, Zenon DEF Under
<1> QED BY <1>3, Zenon DEF des_bits, keys

\* A call with the other direction takes back what a call did, on bits and on bytes.
LEMMA BitsBack ==
  ASSUME NEW x \in Bits64, NEW k, NEW e \in BOOLEAN
  PROVE  des_bits(x, k, e) \in Bits64 /\ des_bits(des_bits(x, k, e), k, ~e) = x
<1> DEFINE order(d) == KeyOrder(round_keys(k), d)
           done == Rounds(Halves(x), order(e))
<1>1. done \in HalvesType /\ Halves(x) \in HalvesType
  BY HalvesAreHalves, RoundsType
<1>2. Halves(Output(done)) = exchanged(done)
  BY <1>1, HalvesOfOutput
<1>3. Rounds(exchanged(done), order(~e)) = exchanged(Halves(x))
  <2>1. \A i \in 1 .. 16 : order(~e)[i] = order(e)[17 - i]
    BY OrdersReversed
  <2> HIDE DEF order
  <2> QED BY <1>1, <2>1, RoundsBack
<1>4. Output(exchanged(Halves(x))) = x
  BY OutputOfHalves
<1>5. des_bits(x, k, e) = Output(done) /\ des_bits(Output(done), k, ~e)
        = Output(Rounds(Halves(Output(done)), order(~e)))
  BY BitsAreRounds
<1> HIDE DEF done, order
<1> QED BY <1>2, <1>3, <1>4, <1>5, OutputType

\* A block is taken back to itself, and its bits are enciphered as bits.
LEMMA BlockBack ==
  ASSUME NEW x \in BlockType, NEW k, NEW e \in BOOLEAN
  PROVE  /\ des_block(x, k, e) \in BlockType
         /\ bytes_to_des_bits(des_block(x, k, e))
              = des_bits(bytes_to_des_bits(x), bytes_to_des_bits(k), e)
         /\ des_block(des_block(x, k, e), k, ~e) = x
<1> DEFINE bits == bytes_to_des_bits(x)
           kbits == bytes_to_des_bits(k)
           sent == des_bits(bits, kbits, e)
<1>1. bits \in Bits64
  BY BitsOfBlock
<1>2. sent \in Bits64 /\ des_bits(sent, kbits, ~e) = bits
  BY <1>1, BitsBack
<1>3. des_block(x, k, e) = des_bits_to_bytes(sent)
  BY DEF des_block
<1> HIDE DEF sent
<1>4. bytes_to_des_bits(des_block(x, k, e)) = sent /\ des_block(x, k, e) \in BlockType
  BY <1>2, <1>3, BitsReturn, BlockOfBits
<1>5. des_block(des_block(x, k, e), k, ~e) = x
  <2>1. des_block(des_block(x, k, e), k, ~e)
          = des_bits_to_bytes(des_bits(sent, kbits, ~e))
    BY <1>4 DEF des_block
  <2> QED BY <1>2, <2>1, BytesReturn
<1> QED BY <1>4, <1>5 DEF sent

\* Decryption undoes encryption and encryption decryption, for every block and key (des.rs
\* des_encrypt, des_decrypt).
LEMMA DesInverts ==
  ASSUME NEW x \in BlockType, NEW k
  PROVE  /\ des_encrypt(x, k) \in BlockType /\ des_decrypt(x, k) \in BlockType
         /\ des_decrypt(des_encrypt(x, k), k) = x /\ des_encrypt(des_decrypt(x, k), k) = x
<1>1. (~TRUE) = FALSE /\ (~FALSE) = TRUE /\ TRUE \in BOOLEAN /\ FALSE \in BOOLEAN
  OBVIOUS
<1> QED BY <1>1, BlockBack, Zenon DEF des_encrypt, des_decrypt

\* The triple ciphers undo each other, for every block and every two keys (des.rs
\* tdes_encrypt, tdes_decrypt).
LEMMA TdesInverts ==
  ASSUME NEW x \in BlockType, NEW k, NEW m
  PROVE  /\ tdes_encrypt(x, k, m) \in BlockType /\ tdes_decrypt(x, k, m) \in BlockType
         /\ tdes_decrypt(tdes_encrypt(x, k, m), k, m) = x
         /\ tdes_encrypt(tdes_decrypt(x, k, m), k, m) = x
BY DesInverts DEF tdes_encrypt, tdes_decrypt

-----------------------------------------------------------------------------
(* The command MAC *)

\* Folding with one key for each i, and unfolding with the same keys.
Folded(n, keys, x) ==
  Iterate([i \in 1 .. n |-> [m \in BlockType |-> des_encrypt(m, keys[i])]], n, BlockType)[x]

\* The calls the other way, with the keys in the other order.
Unfolding(n, keys, x) ==
  Iterate([i \in 1 .. n |-> [m \in BlockType |-> des_decrypt(m, keys[n + 1 - i])]],
          n, BlockType)[x]

\* The blocks on the way, one for each call.
FoldWalks(t, x, keys, n) ==
  /\ t \in [0 .. n -> BlockType] /\ t[0] = x
  /\ \A i \in 1 .. n : t[i] = des_encrypt(t[i - 1], keys[i])

\* The blocks on that way.
UnfoldWalks(t, x, keys, n) ==
  /\ t \in [0 .. n -> BlockType] /\ t[0] = x
  /\ \A i \in 1 .. n : t[i] = des_decrypt(t[i - 1], keys[n + 1 - i])

\* A fold takes such a way, and no other ends elsewhere.
LEMMA WalkOfFold ==
  ASSUME NEW n \in Nat, NEW keys, NEW x \in BlockType
  PROVE  /\ \E t : FoldWalks(t, x, keys, n) /\ Folded(n, keys, x) = t[n]
         /\ \A t : FoldWalks(t, x, keys, n) => Folded(n, keys, x) = t[n]
<1> DEFINE step == [i \in 1 .. n |-> [m \in BlockType |-> des_encrypt(m, keys[i])]]
<1>1. step \in [1 .. n -> [BlockType -> BlockType]]
  BY DesInverts
<1>2. Folded(n, keys, x) = Iterate(step, n, BlockType)[x]
  BY DEF Folded
<1>3. \A i \in 1 .. n : \A m \in BlockType : step[i][m] = des_encrypt(m, keys[i])
  OBVIOUS
<1> HIDE DEF step
<1>4. ASSUME NEW t \in [0 .. n -> BlockType], NEW i \in 1 .. n
      PROVE  step[i][t[i - 1]] = des_encrypt(t[i - 1], keys[i])
  <2>1. t[i - 1] \in BlockType
    OBVIOUS
  <2> QED BY <1>3, <2>1
<1>5. \A t : FoldWalks(t, x, keys, n) <=> Unrolls(t, x, step, n, BlockType)
  BY <1>4, Zenon DEF FoldWalks, Unrolls
<1>6. \E t : Unrolls(t, x, step, n, BlockType) /\ Iterate(step, n, BlockType)[x] = t[n]
  BY <1>1, Iterates, Zenon
<1>7. \A t : Unrolls(t, x, step, n, BlockType) => Iterate(step, n, BlockType)[x] = t[n]
  BY <1>1, IteratesTo, Zenon
<1> QED BY <1>2, <1>5, <1>6, <1>7, Zenon

\* So does an unfolding.
LEMMA WalkOfUnfold ==
  ASSUME NEW n \in Nat, NEW keys, NEW x \in BlockType
  PROVE  /\ \E t : UnfoldWalks(t, x, keys, n) /\ Unfolding(n, keys, x) = t[n]
         /\ \A t : UnfoldWalks(t, x, keys, n) => Unfolding(n, keys, x) = t[n]
<1> DEFINE step == [i \in 1 .. n |-> [m \in BlockType |-> des_decrypt(m, keys[n + 1 - i])]]
<1>1. step \in [1 .. n -> [BlockType -> BlockType]]
  BY DesInverts
<1>2. Unfolding(n, keys, x) = Iterate(step, n, BlockType)[x]
  BY DEF Unfolding
<1>3. \A i \in 1 .. n : \A m \in BlockType : step[i][m] = des_decrypt(m, keys[n + 1 - i])
  OBVIOUS
<1> HIDE DEF step
<1>4. ASSUME NEW t \in [0 .. n -> BlockType], NEW i \in 1 .. n
      PROVE  step[i][t[i - 1]] = des_decrypt(t[i - 1], keys[n + 1 - i])
  <2>1. t[i - 1] \in BlockType
    OBVIOUS
  <2> QED BY <1>3, <2>1
<1>5. \A t : UnfoldWalks(t, x, keys, n) <=> Unrolls(t, x, step, n, BlockType)
  BY <1>4, Zenon DEF UnfoldWalks, Unrolls
<1>6. \E t : Unrolls(t, x, step, n, BlockType) /\ Iterate(step, n, BlockType)[x] = t[n]
  BY <1>1, Iterates, Zenon
<1>7. \A t : Unrolls(t, x, step, n, BlockType) => Iterate(step, n, BlockType)[x] = t[n]
  BY <1>1, IteratesTo, Zenon
<1> QED BY <1>2, <1>5, <1>6, <1>7, Zenon

\* Unfolding takes a MAC back to the block it started from, and folding takes
\* that block to the MAC again.
LEMMA FoldUndone ==
  ASSUME NEW n \in Nat, NEW keys, NEW x \in BlockType
  PROVE  /\ Folded(n, keys, x) \in BlockType /\ Unfolding(n, keys, x) \in BlockType
         /\ Unfolding(n, keys, Folded(n, keys, x)) = x
         /\ Folded(n, keys, Unfolding(n, keys, x)) = x
<1>1. PICK t : FoldWalks(t, x, keys, n) /\ Folded(n, keys, x) = t[n]
  BY WalkOfFold
<1>2. PICK s : UnfoldWalks(s, x, keys, n) /\ Unfolding(n, keys, x) = s[n]
  BY WalkOfUnfold
<1>3. t[n] \in BlockType /\ s[n] \in BlockType
  BY <1>1, <1>2 DEF FoldWalks, UnfoldWalks
<1>4. Unfolding(n, keys, t[n]) = x
  <2> DEFINE u == [i \in 0 .. n |-> t[n - i]]
  <2>1. u \in [0 .. n -> BlockType] /\ u[0] = t[n] /\ u[n] = x
    BY <1>1 DEF FoldWalks
  <2>2. ASSUME NEW i \in 1 .. n PROVE u[i] = des_decrypt(u[i - 1], keys[n + 1 - i])
    <3> DEFINE j == n + 1 - i
    <3>1. j \in 1 .. n /\ j - 1 = n - i /\ j = n - (i - 1) /\ i - 1 \in 0 .. n /\ j - 1 \in 0 .. n
      OBVIOUS
    <3>2. t[j] = des_encrypt(t[j - 1], keys[j]) /\ t[j - 1] \in BlockType
      BY <1>1, <3>1 DEF FoldWalks
    <3>3. u[i] = t[j - 1] /\ u[i - 1] = t[j]
      BY <3>1
    <3> HIDE DEF u
    <3> QED BY <3>2, <3>3, DesInverts
  <2> HIDE DEF u
  <2>3. UnfoldWalks(u, t[n], keys, n)
    BY <2>1, <2>2 DEF UnfoldWalks
  <2> QED BY <1>3, <2>1, <2>3, WalkOfUnfold
<1>5. Folded(n, keys, s[n]) = x
  <2> DEFINE u == [i \in 0 .. n |-> s[n - i]]
  <2>1. u \in [0 .. n -> BlockType] /\ u[0] = s[n] /\ u[n] = x
    BY <1>2 DEF UnfoldWalks
  <2>2. ASSUME NEW i \in 1 .. n PROVE u[i] = des_encrypt(u[i - 1], keys[i])
    <3> DEFINE j == n + 1 - i
    <3>1. /\ j \in 1 .. n /\ j - 1 = n - i /\ j = n - (i - 1) /\ n + 1 - j = i
          /\ i - 1 \in 0 .. n /\ j - 1 \in 0 .. n
      OBVIOUS
    <3>2. s[j] = des_decrypt(s[j - 1], keys[i]) /\ s[j - 1] \in BlockType
      BY <1>2, <3>1 DEF UnfoldWalks
    <3>3. u[i] = s[j - 1] /\ u[i - 1] = s[j]
      BY <3>1
    <3> HIDE DEF u
    <3> QED BY <3>2, <3>3, DesInverts
  <2> HIDE DEF u
  <2>3. FoldWalks(u, s[n], keys, n)
    BY <2>1, <2>2 DEF FoldWalks
  <2> QED BY <1>3, <2>1, <2>3, WalkOfFold
<1> QED BY <1>1, <1>2, <1>3, <1>4, <1>5

-----------------------------------------------------------------------------
(* Data as blocks *)

\* Data of n whole blocks.
Blocks(n) == {d \in Seq(Byte) : Len(d) = 8 * n}

\* A block of a string of bytes.
LEMMA BlockOf ==
  ASSUME NEW d \in Seq(Byte), NEW i \in Nat \ {0}, 8 * i <= Len(d)
  PROVE  Block(d, i) \in BlockType /\ \A j \in 1 .. 8 : Block(d, i)[j] = d[8 * i - 8 + j]
<1> DEFINE a == 8 * i - 7
           b == 8 * i
<1>1. a \in Int /\ b \in Int /\ a <= b /\ b - a + 1 = 8
  OBVIOUS
<1>2. \A j \in a .. b : d[j] \in Byte
  BY LenProperties, ElementOfSeq
<1> HIDE DEF a, b
<1>3. /\ SubSeq(d, a, b) \in Seq(Byte) /\ Len(SubSeq(d, a, b)) = 8
      /\ \A j \in 1 .. 8 : SubSeq(d, a, b)[j] = d[a + j - 1]
  BY <1>1, <1>2, SubSeqProperties
<1>4. SubSeq(d, a, b) \in [1 .. 8 -> Byte]
  BY <1>3, LenProperties
<1>5. \A j \in 1 .. 8 : a + j - 1 = 8 * i - 8 + j
  BY DEF a
<1> QED BY <1>3, <1>4, <1>5 DEF Block, BlockType, a, b

\* Data is known by its blocks.
LEMMA SameBlocks ==
  ASSUME NEW n \in Nat, NEW c \in Blocks(n), NEW d \in Blocks(n),
         \A i \in 1 .. n : Block(c, i) = Block(d, i)
  PROVE  c = d
<1>1. c \in Seq(Byte) /\ d \in Seq(Byte) /\ Len(c) = 8 * n /\ Len(d) = 8 * n
  BY DEF Blocks
<1>2. ASSUME NEW k \in 1 .. 8 * n PROVE c[k] = d[k]
  <2> DEFINE i == ((k - 1) \div 8) + 1
             j == ((k - 1) % 8) + 1
  <2>1. /\ i \in Nat \ {0} /\ i \in 1 .. n /\ j \in 1 .. 8 /\ k = 8 * i - 8 + j /\ 8 * i <= 8 * n
    OBVIOUS
  <2> HIDE DEF i, j
  <2>2. Block(c, i)[j] = c[8 * i - 8 + j] /\ Block(d, i)[j] = d[8 * i - 8 + j]
    BY <1>1, <2>1, BlockOf
  <2> QED BY <2>1, <2>2
<1> QED BY <1>1, <1>2, SeqEqual

\* A block after n whole ones is the next, and the others stay where they were.
LEMMA BlockAfter ==
  ASSUME NEW n \in Nat, NEW d \in Blocks(n), NEW b \in BlockType
  PROVE  /\ d \o b \in Blocks(n + 1) /\ Block(d \o b, n + 1) = b
         /\ \A i \in 1 .. n : Block(d \o b, i) = Block(d, i)
<1>1. d \in Seq(Byte) /\ Len(d) = 8 * n /\ b \in Seq(Byte) /\ Len(b) = 8
  BY BlockLength DEF Blocks
<1> DEFINE c == d \o b
<1>2. /\ c \in Seq(Byte) /\ Len(c) = Len(d) + Len(b)
      /\ \A k \in 1 .. Len(d) + Len(b) : c[k] = IF k <= Len(d) THEN d[k] ELSE b[k - Len(d)]
  BY <1>1, ConcatProperties, Zenon
<1> HIDE DEF c
<1>3. c \in Seq(Byte) /\ Len(c) = 8 * (n + 1) /\ c \in Blocks(n + 1)
  BY <1>1, <1>2 DEF Blocks
<1>4. Block(c, n + 1) = b
  <2> DEFINE m == n + 1
  <2>1. m \in Nat \ {0} /\ 8 * m <= Len(c)
    BY <1>3
  <2> HIDE DEF m
  <2>2. Block(c, m) \in BlockType /\ \A j \in 1 .. 8 : Block(c, m)[j] = c[8 * m - 8 + j]
    BY <1>3, <2>1, BlockOf
  <2>3. ASSUME NEW j \in 1 .. 8 PROVE c[8 * m - 8 + j] = b[j]
    <3> DEFINE k == 8 * m - 8 + j
    <3>1. k \in 1 .. Len(d) + Len(b) /\ ~(k <= Len(d)) /\ k - Len(d) = j
      BY <1>1 DEF m
    <3> HIDE DEF k
    <3> QED BY <1>2, <3>1 DEF k
  <2> QED BY <2>2, <2>3 DEF BlockType, m
<1>5. ASSUME NEW i \in 1 .. n PROVE Block(c, i) = Block(d, i)
  <2>1. i \in Nat \ {0} /\ 8 * i <= Len(d) /\ 8 * i <= Len(c)
    BY <1>1, <1>3
  <2>2. Block(d, i) \in BlockType /\ \A j \in 1 .. 8 : Block(d, i)[j] = d[8 * i - 8 + j]
    BY <1>1, <2>1, BlockOf
  <2>3. Block(c, i) \in BlockType /\ \A j \in 1 .. 8 : Block(c, i)[j] = c[8 * i - 8 + j]
    BY <1>3, <2>1, BlockOf
  <2>4. \A j \in 1 .. 8 : c[8 * i - 8 + j] = d[8 * i - 8 + j]
    BY <1>1, <1>2
  <2> QED BY <2>2, <2>3, <2>4 DEF BlockType
<1> QED BY <1>3, <1>4, <1>5 DEF c

\* The first n of n + 1 blocks.
LEMMA BlocksBefore ==
  ASSUME NEW n \in Nat, NEW d \in Blocks(n + 1)
  PROVE  /\ SubSeq(d, 1, 8 * n) \in Blocks(n)
         /\ \A i \in 1 .. n : Block(SubSeq(d, 1, 8 * n), i) = Block(d, i)
<1>1. d \in Seq(Byte) /\ Len(d) = 8 * n + 8
  BY DEF Blocks
<1> DEFINE front == SubSeq(d, 1, 8 * n)
           m == 8 * n
<1>2. \A k \in 1 .. m : d[k] \in Byte
  BY <1>1, ElementOfSeq
<1>3. /\ front \in Seq(Byte) /\ Len(front) = 8 * n
      /\ \A k \in 1 .. 8 * n : front[k] = d[k]
  <2>1. 1 \in Int /\ m \in Int /\ m - 1 + 1 = m
    OBVIOUS
  <2>2. \A k \in 1 .. m : 1 + k - 1 = k
    OBVIOUS
  <2>3. /\ front \in Seq(Byte) /\ Len(front) = (IF 1 <= m THEN m - 1 + 1 ELSE 0)
        /\ \A k \in 1 .. m - 1 + 1 : front[k] = d[1 + k - 1]
    <3> DEFINE one == 1
    <3> HIDE DEF m, one
    <3>1. /\ SubSeq(d, one, m) \in Seq(Byte)
          /\ Len(SubSeq(d, one, m)) = (IF one <= m THEN m - one + 1 ELSE 0)
          /\ \A k \in 1 .. m - one + 1 : SubSeq(d, one, m)[k] = d[one + k - 1]
      BY <1>2, <2>1, SubSeqProperties DEF one
    <3> QED BY <3>1 DEF m, one
  <2> HIDE DEF front
  <2> QED BY <2>1, <2>2, <2>3
<1> HIDE DEF front, m
<1>4. ASSUME NEW i \in 1 .. n PROVE Block(front, i) = Block(d, i)
  <2>1. i \in Nat \ {0} /\ 8 * i <= 8 * n /\ 8 * i <= 8 * n + 8
    OBVIOUS
  <2>2. /\ Block(front, i) \in BlockType /\ Block(d, i) \in BlockType
        /\ \A j \in 1 .. 8 : Block(front, i)[j] = front[8 * i - 8 + j]
        /\ \A j \in 1 .. 8 : Block(d, i)[j] = d[8 * i - 8 + j]
    BY <1>1, <1>3, <2>1, BlockOf
  <2>3. \A j \in 1 .. 8 : front[8 * i - 8 + j] = d[8 * i - 8 + j]
    BY <1>3
  <2> QED BY <2>2, <2>3 DEF BlockType
<1> QED BY <1>3, <1>4 DEF Blocks, front

-----------------------------------------------------------------------------
(* Folding and unfolding a frame's MAC *)

\* The block a MAC over n blocks starts from.
First(n, c) == [ZeroBlock EXCEPT ![1] = (2 + 8 * n + 8) % 256, ![2] = c]

\* The blocks of a string of bytes, the first n of them.
BlocksOf(d, n) == [i \in 1 .. n |-> Block(d, i)]

\* The first block is a block, and names the code.
LEMMA FirstType ==
  ASSUME NEW n \in Nat, NEW c \in Byte
  PROVE  First(n, c) \in BlockType /\ First(n, c)[2] = c
BY DEF First, ZeroBlock, BlockType, Byte

\* command_mac folds the blocks of the payload into the first block (des.rs command_mac).
LEMMA MacIsFold ==
  ASSUME NEW n \in Nat, NEW d \in Blocks(n), NEW c
  PROVE  command_mac(c, d) = Folded(n, BlocksOf(d, n), First(n, c))
<1>1. Len(d) = 8 * n /\ Len(d) \div 8 = n
  BY DEF Blocks
<1>2. command_mac(c, d) =
        Iterate([i \in 1 .. n |-> [m \in BlockType |-> des_encrypt(m, Block(d, i))]], n, BlockType)
          [First(n, c)]
  BY <1>1, Zenon DEF command_mac, First
<1>3. [i \in 1 .. n |-> [m \in BlockType |-> des_encrypt(m, Block(d, i))]]
        = [i \in 1 .. n |-> [m \in BlockType |-> des_encrypt(m, BlocksOf(d, n)[i])]]
  BY DEF BlocksOf
<1> QED BY <1>2, <1>3, Zenon DEF Folded

\* check_mac unfolds them from the last block (schedule.rs check_mac).
LEMMA UnfoldedIs ==
  ASSUME NEW n \in Nat, NEW d \in Blocks(n + 1)
  PROVE  unfolded(d) = Unfolding(n, BlocksOf(d, n), Block(d, n + 1))
<1>1. Len(d) \div 8 - 1 = n
  BY DEF Blocks
<1>2. unfolded(d) =
        Iterate([i \in 1 .. n |-> [m \in BlockType |-> des_decrypt(m, Block(d, n + 1 - i))]],
                n, BlockType)[Block(d, n + 1)]
  BY <1>1, Zenon DEF unfolded
<1>3. ASSUME NEW i \in 1 .. n PROVE BlocksOf(d, n)[n + 1 - i] = Block(d, n + 1 - i)
  <2>1. n + 1 - i \in 1 .. n
    OBVIOUS
  <2> QED BY <2>1, Zenon DEF BlocksOf
<1>4. [i \in 1 .. n |-> [m \in BlockType |-> des_decrypt(m, Block(d, n + 1 - i))]]
        = [i \in 1 .. n |-> [m \in BlockType |-> des_decrypt(m, BlocksOf(d, n)[n + 1 - i])]]
  BY <1>3, Zenon
<1> QED BY <1>2, <1>4, Zenon DEF Unfolding

\* check_mac unfolds the MAC with the server's cipher, command_mac folds it with
\* the prover's: over any frame, they agree (schedule.rs check_mac, des.rs
\* command_mac).
LEMMA MacAgrees ==
  ASSUME NEW n \in Nat \ {0}, NEW d \in Blocks(n + 1), NEW c \in Byte
  PROVE  check_mac(d, c) <=> command_mac(c, SubSeq(d, 1, 8 * n)) = Block(d, n + 1)
<1> DEFINE keys == BlocksOf(d, n)
           front == SubSeq(d, 1, 8 * n)
           mac == Block(d, n + 1)
<1>1. d \in Seq(Byte) /\ Len(d) = 8 * (n + 1)
  BY DEF Blocks
<1>2. Len(d) % 8 = 0 /\ Len(d) >= 16
  BY <1>1
<1>3. expected_len(d) % 256 = (2 + 8 * n + 8) % 256
  BY <1>1 DEF expected_len
<1>4. check_mac(d, c) <=> unfolded(d) = First(n, c)
  BY <1>2, <1>3, Zenon DEF check_mac, First
<1>5. front \in Blocks(n) /\ BlocksOf(front, n) = keys
  BY BlocksBefore DEF BlocksOf
<1>6. command_mac(c, front) = Folded(n, keys, First(n, c))
  BY <1>5, MacIsFold
<1>7. unfolded(d) = Unfolding(n, keys, mac)
  BY UnfoldedIs
<1>8. mac \in BlockType
  <2> DEFINE m == n + 1
  <2>1. m \in Nat \ {0} /\ 8 * m <= Len(d)
    BY <1>1
  <2> HIDE DEF m
  <2>2. Block(d, m) \in BlockType
    BY <1>1, <2>1, BlockOf
  <2> QED BY <2>2 DEF m
<1> HIDE DEF keys, front, mac
<1>9. Unfolding(n, keys, mac) = First(n, c) <=> Folded(n, keys, First(n, c)) = mac
  BY <1>8, FirstType, FoldUndone
<1> QED BY <1>4, <1>6, <1>7, <1>9 DEF front, mac

-----------------------------------------------------------------------------
(* Cipher block chaining *)

\* Data that grows by a block in every turn of a loop.
LEMMA Chunks ==
  ASSUME NEW n \in Nat, NEW q \in [1 .. n -> BlockType], NEW t, t[0] = <<>>,
         \A i \in 1 .. n : t[i] = t[i - 1] \o q[i]
  PROVE  \A i \in 0 .. n : t[i] \in Blocks(i) /\ \A j \in 1 .. i : Block(t[i], j) = q[j]
<1> DEFINE C == {i \in 0 .. n : t[i] \in Blocks(i) /\ \A j \in 1 .. i : Block(t[i], j) = q[j]}
<1>1. 0 \in C
  <2>1. <<>> \in Seq(Byte) /\ Len(<<>>) = 0
    BY EmptySeq
  <2>2. t[0] \in Blocks(0)
    BY <2>1 DEF Blocks
  <2> QED BY <2>2
<1>2. ASSUME NEW i \in 0 .. n - 1, i \in C PROVE i + 1 \in C
  <2>1. i + 1 \in 1 .. n /\ i + 1 \in 0 .. n /\ (i + 1) - 1 = i /\ i \in Nat
    OBVIOUS
  <2>2. t[i + 1] = t[i] \o q[i + 1] /\ q[i + 1] \in BlockType
    BY <2>1
  <2>3. t[i] \in Blocks(i) /\ \A j \in 1 .. i : Block(t[i], j) = q[j]
    BY <1>2
  <2>4. /\ t[i] \o q[i + 1] \in Blocks(i + 1) /\ Block(t[i] \o q[i + 1], i + 1) = q[i + 1]
        /\ \A j \in 1 .. i : Block(t[i] \o q[i + 1], j) = Block(t[i], j)
    BY <2>1, <2>2, <2>3, BlockAfter, Zenon
  <2> DEFINE u == t[i + 1]
  <2>5. /\ u \in Blocks(i + 1) /\ Block(u, i + 1) = q[i + 1]
        /\ \A j \in 1 .. i : Block(u, j) = q[j]
    BY <2>2, <2>3, <2>4, Zenon
  <2> HIDE DEF u
  <2>6. \A j \in 1 .. i + 1 : Block(u, j) = q[j]
    BY <2>1, <2>5
  <2> QED BY <2>1, <2>5, <2>6 DEF u
<1> HIDE DEF C
<1>3. 0 .. n \subseteq C
  BY <1>1, <1>2, InductiveTo
<1> QED BY <1>3 DEF C

\* Whatever a call is given, it returns a block.
LEMMA BlocksComputed ==
  /\ \A x, k, e : des_block(x, k, e) \in BlockType
  /\ \A a, b : xor_bytes(a, b) \in BlockType
BY BlockOfBits DEF des_block, xor_bytes

\* The ciphertext block before the i-th.
Chained(c, i) == IF i = 1 THEN ZeroBlock ELSE Block(c, i - 1)

\* Each block of the plaintext, from its own and the last block of the ciphertext (des.rs
\* cbc_decrypt).
LEMMA CbcDecrypts ==
  ASSUME NEW n \in Nat, NEW c \in Blocks(n), NEW k
  PROVE  /\ cbc_decrypt(c, k) \in Blocks(n)
         /\ \A i \in 1 .. n : Block(cbc_decrypt(c, k), i)
                                = xor_bytes(des_decrypt(Block(c, i), k), Chained(c, i))
<1> DEFINE plain(i) == xor_bytes(des_decrypt(Block(c, i), k), Chained(c, i))
           step == [i \in 1 .. n |-> [out \in Seq(Byte) |-> out \o plain(i)]]
           q == [i \in 1 .. n |-> plain(i)]
           start == <<>>
<1>1. Len(c) \div 8 = n
  BY DEF Blocks
<1>2. cbc_decrypt(c, k) = Iterate(step, n, Seq(Byte))[start]
  BY <1>1, Zenon DEF cbc_decrypt, Chained
<1>3. \A i \in 1 .. n : q[i] = plain(i)
  OBVIOUS
<1>4. q \in [1 .. n -> BlockType]
  BY BlocksComputed
<1>5. \A i \in 1 .. n : \A out \in Seq(Byte) : step[i][out] = out \o plain(i)
  OBVIOUS
<1> HIDE DEF plain
<1>6. step \in [1 .. n -> [Seq(Byte) -> Seq(Byte)]]
  <2>1. ASSUME NEW i \in 1 .. n, NEW out \in Seq(Byte) PROVE out \o plain(i) \in Seq(Byte)
    <3>1. plain(i) \in Seq(Byte)
      BY <1>3, <1>4, BlockLength
    <3> QED BY <3>1, ConcatProperties
  <2> QED BY <2>1
<1> HIDE DEF step, q
<1>7. start \in Seq(Byte)
  BY EmptySeq
<1> HIDE DEF start
<1>8. PICK t : Unrolls(t, start, step, n, Seq(Byte)) /\ Iterate(step, n, Seq(Byte))[start] = t[n]
  BY <1>6, <1>7, Iterates, Zenon
<1>9. t[0] = <<>>
  BY <1>8 DEF Unrolls, start
<1>10. ASSUME NEW i \in 1 .. n PROVE t[i] = t[i - 1] \o q[i]
  <2>1. t[i - 1] \in Seq(Byte) /\ t[i] = step[i][t[i - 1]]
    BY <1>8 DEF Unrolls
  <2> QED BY <1>3, <1>5, <2>1, Zenon
<1>11. t[n] \in Blocks(n) /\ \A j \in 1 .. n : Block(t[n], j) = q[j]
  <2>1. n \in 0 .. n
    OBVIOUS
  <2> QED BY <1>4, <1>9, <1>10, <2>1, Chunks, Zenon
<1> QED BY <1>2, <1>3, <1>8, <1>11, Zenon DEF plain

\* Each block of the ciphertext, from its own of the plaintext and the last of the ciphertext
\* (schedule.rs cbc_encrypt).
LEMMA CbcEncrypts ==
  ASSUME NEW n \in Nat, NEW d \in Blocks(n), NEW k
  PROVE  /\ cbc_encrypt(d, k) \in Blocks(n)
         /\ \A i \in 1 .. n :
              Block(cbc_encrypt(d, k), i)
                = des_encrypt(xor_bytes(Block(d, i), Chained(cbc_encrypt(d, k), i)), k)
<1> DEFINE cipher(i, out) == des_encrypt(xor_bytes(Block(d, i), Chained(out, i)), k)
           step == [i \in 1 .. n |-> [out \in Seq(Byte) |-> out \o cipher(i, out)]]
           start == <<>>
<1>1. Len(d) \div 8 = n
  BY DEF Blocks
<1>2. cbc_encrypt(d, k) = Iterate(step, n, Seq(Byte))[start]
  BY <1>1, Zenon DEF cbc_encrypt, Chained
<1>3. \A i, out : cipher(i, out) \in BlockType
  BY BlocksComputed, Zenon DEF des_encrypt
<1>4. \A i \in 1 .. n : \A out \in Seq(Byte) : step[i][out] = out \o cipher(i, out)
  OBVIOUS
<1> HIDE DEF cipher
<1>5. step \in [1 .. n -> [Seq(Byte) -> Seq(Byte)]]
  <2>1. ASSUME NEW i \in 1 .. n, NEW out \in Seq(Byte) PROVE out \o cipher(i, out) \in Seq(Byte)
    <3>1. cipher(i, out) \in Seq(Byte)
      BY <1>3, BlockLength
    <3> QED BY <3>1, ConcatProperties
  <2> QED BY <2>1
<1> HIDE DEF step
<1>6. start \in Seq(Byte)
  BY EmptySeq
<1> HIDE DEF start
<1>7. PICK t : Unrolls(t, start, step, n, Seq(Byte)) /\ Iterate(step, n, Seq(Byte))[start] = t[n]
  BY <1>5, <1>6, Iterates, Zenon
<1> DEFINE q == [i \in 1 .. n |-> cipher(i, t[i - 1])]
<1>8. q \in [1 .. n -> BlockType] /\ \A i \in 1 .. n : q[i] = cipher(i, t[i - 1])
  BY <1>3
<1> HIDE DEF q
<1>9. t[0] = <<>>
  BY <1>7 DEF Unrolls, start
<1>10. ASSUME NEW i \in 1 .. n PROVE t[i] = t[i - 1] \o q[i]
  <2>1. t[i - 1] \in Seq(Byte) /\ t[i] = step[i][t[i - 1]]
    BY <1>7 DEF Unrolls
  <2> QED BY <1>4, <1>8, <2>1, Zenon
<1>11. \A i \in 0 .. n : t[i] \in Blocks(i) /\ \A j \in 1 .. i : Block(t[i], j) = q[j]
  BY <1>8, <1>9, <1>10, Chunks, Zenon
<1>12. ASSUME NEW i \in 1 .. n PROVE q[i] = cipher(i, t[n])
  <2>1. CASE i = 1
    BY <1>8, <2>1, Zenon DEF cipher, Chained
  <2>2. CASE i # 1
    <3>1. i - 1 \in 0 .. n /\ n \in 0 .. n /\ i - 1 \in 1 .. i - 1 /\ i - 1 \in 1 .. n
      BY <2>2
    <3>2. Block(t[i - 1], i - 1) = Block(t[n], i - 1)
      BY <1>11, <3>1, Zenon
    <3> QED BY <1>8, <2>2, <3>2, Zenon DEF cipher, Chained
  <2> QED BY <2>1, <2>2
<1>13. n \in 0 .. n
  OBVIOUS
<1> QED BY <1>2, <1>7, <1>11, <1>12, <1>13, Zenon DEF cipher

\* What was sealed is opened again (schedule.rs cbc_encrypt, cbc_decrypt).
LEMMA CbcInverts ==
  ASSUME NEW n \in Nat, NEW d \in Blocks(n), NEW k PROVE cbc_decrypt(cbc_encrypt(d, k), k) = d
<1> DEFINE c == cbc_encrypt(d, k)
           p == cbc_decrypt(c, k)
<1>1. /\ c \in Blocks(n)
      /\ \A i \in 1 .. n : Block(c, i) = des_encrypt(xor_bytes(Block(d, i), Chained(c, i)), k)
  BY CbcEncrypts
<1> HIDE DEF c
<1>2. /\ p \in Blocks(n)
      /\ \A i \in 1 .. n : Block(p, i) = xor_bytes(des_decrypt(Block(c, i), k), Chained(c, i))
  BY <1>1, CbcDecrypts
<1> HIDE DEF p
<1>3. ASSUME NEW i \in 1 .. n PROVE Block(p, i) = Block(d, i)
  <2>1. Block(d, i) \in BlockType
    BY BlockOf DEF Blocks
  <2>2. Chained(c, i) \in BlockType
    <3>1. ZeroBlock \in BlockType
      BY DEF ZeroBlock, BlockType, Byte
    <3>2. CASE i # 1
      <4> DEFINE j == i - 1
      <4>1. j \in Nat \ {0} /\ c \in Seq(Byte) /\ 8 * j <= Len(c)
        BY <1>1, <3>2 DEF Blocks
      <4> HIDE DEF j
      <4>2. Block(c, j) \in BlockType
        BY <4>1, BlockOf
      <4> QED BY <3>2, <4>2 DEF Chained, j
    <3> QED BY <3>1, <3>2 DEF Chained
  <2>3. des_decrypt(Block(c, i), k) = xor_bytes(Block(d, i), Chained(c, i))
    BY <1>1, DesInverts, BlocksComputed
  <2> QED BY <1>2, <2>1, <2>2, <2>3, XorBack
<1> QED BY <1>2, <1>3, SameBlocks DEF p, c

-----------------------------------------------------------------------------
(* Frames *)

\* Padding ends the data at a whole block, less than a block further on.
LEMMA Padded ==
  ASSUME NEW payload \in Seq(Byte)
  PROVE  \E n \in Nat :
           /\ pad_des(payload) \in Blocks(n) /\ 8 * n - Len(payload) \in 0 .. 7
           /\ \A i \in 1 .. Len(payload) : pad_des(payload)[i] = payload[i]
<1> DEFINE rem == Len(payload) % 8
           fill == [i \in 1 .. 8 - rem |-> 8 - rem]
<1>1. Len(payload) \in Nat /\ rem \in 0 .. 7 /\ 8 - rem \in Nat
  BY LenProperties
<1>2. CASE rem = 0
  <2> DEFINE n == Len(payload) \div 8
  <2>1. n \in Nat /\ 8 * n = Len(payload)
    BY <1>1, <1>2
  <2>2. pad_des(payload) = payload
    BY <1>2 DEF pad_des
  <2> HIDE DEF n
  <2> QED BY <2>1, <2>2 DEF Blocks
<1>3. CASE rem # 0
  <2> DEFINE n == Len(payload) \div 8 + 1
             len == 8 - rem
  <2>1. n \in Nat /\ Len(payload) + (8 - rem) = 8 * n /\ 8 * n - Len(payload) \in 0 .. 7
    BY <1>1, <1>3
  <2>2. fill \in Seq(Byte) /\ Len(fill) = 8 - rem
    <3>1. fill \in [1 .. len -> Byte] /\ len \in Nat
      <4> HIDE DEF rem
      <4>1. 8 - rem \in Byte
        BY <1>1 DEF Byte
      <4> QED BY <1>1, <4>1
    <3> HIDE DEF fill, len
    <3>2. fill \in Seq(Byte)
      BY <3>1, SeqDef
    <3> QED BY <3>1, <3>2, LenProperties DEF len
  <2>3. pad_des(payload) = payload \o fill
    BY <1>3 DEF pad_des
  <2> HIDE DEF n, fill
  <2> DEFINE both == payload \o fill
  <2>4. /\ both \in Seq(Byte) /\ Len(both) = Len(payload) + Len(fill)
        /\ \A i \in 1 .. Len(payload) + Len(fill) :
             both[i] = IF i <= Len(payload) THEN payload[i] ELSE fill[i - Len(payload)]
    BY <2>2, ConcatProperties, Zenon
  <2> HIDE DEF both, rem
  <2>5. ASSUME NEW i \in 1 .. Len(payload) PROVE both[i] = payload[i]
    <3>1. i \in 1 .. Len(payload) + Len(fill) /\ i <= Len(payload)
      BY <1>1, <2>2
    <3> QED BY <2>4, <3>1
  <2>6. both \in Blocks(n)
    BY <2>1, <2>2, <2>4 DEF Blocks
  <2> QED BY <2>1, <2>3, <2>5, <2>6, Zenon DEF both
<1> QED BY <1>2, <1>3

\* The MAC of a code is that of no other.
LEMMA MacsDiffer ==
  ASSUME NEW n \in Nat, NEW d \in Blocks(n), NEW c \in Byte, NEW e \in Byte,
         command_mac(c, d) = command_mac(e, d)
  PROVE  c = e
<1> DEFINE keys == BlocksOf(d, n)
<1> HIDE DEF keys
<1>1. Folded(n, keys, First(n, c)) = Folded(n, keys, First(n, e))
  BY MacIsFold DEF keys
<1>2. First(n, c) = First(n, e)
  BY <1>1, FirstType, FoldUndone
<1> QED BY <1>2, FirstType

\* A frame opens under its own code and no other, and holds what was sealed
\* (schedule.rs encrypt_command, check_mac).
LEMMA FrameOpens ==
  ASSUME NEW payload \in Seq(Byte), NEW k, NEW c \in Byte
  PROVE  \E n \in Nat :
           LET sealed == encrypt_command(c, k, payload)
               data == cbc_decrypt(sealed, k)
           IN /\ 8 * n - Len(payload) \in 0 .. 7 /\ sealed \in Blocks(n + 1)
              /\ \A e \in Byte : check_mac(data, e) <=> e = c /\ payload # <<>>
              /\ SubSeq(data, 1, Len(payload)) = payload
<1> DEFINE padded == pad_des(payload)
           mac == command_mac(c, padded)
           sealed == encrypt_command(c, k, payload)
           data == padded \o mac
<1>1. PICK n \in Nat : /\ padded \in Blocks(n) /\ 8 * n - Len(payload) \in 0 .. 7
                       /\ \A i \in 1 .. Len(payload) : padded[i] = payload[i]
  BY Padded
<1>2. sealed = cbc_encrypt(data, k)
  BY DEF encrypt_command, Sealed
<1> HIDE DEF padded
<1>3. mac \in BlockType
  BY <1>1, MacIsFold, FoldUndone, FirstType
<1> HIDE DEF mac
<1>4. /\ data \in Blocks(n + 1) /\ Block(data, n + 1) = mac
      /\ \A i \in 1 .. n : Block(data, i) = Block(padded, i)
  BY <1>1, <1>3, BlockAfter
<1>5. \A i \in 1 .. Len(padded) : data[i] = padded[i]
  <2>1. padded \in Seq(Byte) /\ mac \in Seq(Byte) /\ Len(mac) = 8 /\ Len(padded) \in Nat
    BY <1>1, <1>3, BlockLength DEF Blocks
  <2>2. \A i \in 1 .. Len(padded) + Len(mac) :
          data[i] = IF i <= Len(padded) THEN padded[i] ELSE mac[i - Len(padded)]
    BY <2>1, ConcatProperties, Zenon
  <2> HIDE DEF data
  <2> QED BY <2>1, <2>2
<1> HIDE DEF data, sealed
<1>6. n + 1 \in Nat
  OBVIOUS
<1>7. sealed \in Blocks(n + 1) /\ cbc_decrypt(sealed, k) = data
  BY <1>2, <1>4, <1>6, CbcEncrypts, CbcInverts, Zenon
<1>8. ASSUME NEW e \in Byte PROVE check_mac(data, e) <=> e = c /\ payload # <<>>
  <2>1. CASE n = 0
    <3>1. Len(data) = 8 /\ Len(payload) = 0
      <4>1. Len(payload) \in Nat
        BY LenProperties
      <4> QED BY <1>1, <1>4, <2>1, <4>1 DEF Blocks
    <3>2. ~(8 >= 16)
      OBVIOUS
    <3>3. ~check_mac(data, e)
      BY <3>1, <3>2, Zenon DEF check_mac
    <3>4. payload = <<>>
      BY <3>1, EmptySeq
    <3> QED BY <3>3, <3>4
  <2>2. CASE n # 0
    <3>1. payload # <<>>
      <4>1. Len(payload) # 0
        BY <1>1, <2>2
      <4> QED BY <4>1, EmptySeq
    <3> DEFINE front == SubSeq(data, 1, 8 * n)
    <3>2. front \in Blocks(n) /\ \A i \in 1 .. n : Block(front, i) = Block(data, i)
      BY <1>4, BlocksBefore
    <3> HIDE DEF front
    <3>3. front = padded
      <4>1. \A i \in 1 .. n : Block(front, i) = Block(padded, i)
        BY <1>4, <3>2
      <4> QED BY <1>1, <3>2, <4>1, SameBlocks
    <3>4. check_mac(data, e) <=> command_mac(e, front) = Block(data, n + 1)
      BY <1>4, <2>2, MacAgrees DEF front
    <3>5. check_mac(data, e) <=> command_mac(e, padded) = command_mac(c, padded)
      BY <1>4, <3>3, <3>4 DEF mac
    <3>6. command_mac(e, padded) = command_mac(c, padded) <=> e = c
      BY <1>1, MacsDiffer
    <3> QED BY <3>1, <3>5, <3>6
  <2> QED BY <2>1, <2>2
<1>9. SubSeq(data, 1, Len(payload)) = payload
  <2>1. Len(payload) \in Nat /\ Len(payload) <= Len(padded) /\ Len(padded) \in Nat
    BY <1>1, LenProperties DEF Blocks
  <2>2. \A i \in 1 .. Len(payload) : data[i] = payload[i] /\ payload[i] \in Byte
    <3>1. \A i \in 1 .. Len(payload) : payload[i] \in Byte
      BY ElementOfSeq
    <3> QED BY <1>1, <1>5, <2>1, <3>1
  <2> DEFINE len == Len(payload)
             one == 1
             head == SubSeq(data, one, len)
  <2>3. one \in Int /\ len \in Int /\ \A i \in one .. len : data[i] \in Byte
    BY <2>1, <2>2
  <2>4. \A i \in one .. len : one + i - 1 = i /\ i \in 1 .. len - one + 1 /\ data[i] = payload[i]
    BY <2>1, <2>2
  <2>5. (IF one <= len THEN len - one + 1 ELSE 0) = len /\ 1 .. len = one .. len
    BY <2>1
  <2> HIDE DEF one, len
  <2>6. /\ head \in Seq(Byte) /\ Len(head) = (IF one <= len THEN len - one + 1 ELSE 0)
        /\ \A i \in 1 .. len - one + 1 : head[i] = data[one + i - 1]
    BY <2>3, SubSeqProperties
  <2> HIDE DEF head
  <2>7. Len(head) = Len(payload) /\ \A i \in 1 .. Len(head) : head[i] = payload[i]
    BY <2>4, <2>5, <2>6 DEF len
  <2>8. head = payload
    BY <2>6, <2>7, SeqEqual
  <2> QED BY <2>8 DEF head, one, len
<1> QED BY <1>1, <1>7, <1>8, <1>9 DEF sealed

-----------------------------------------------------------------------------
(* The wires of the circuit *)

\* The wires of a string of bytes are their digits, least significant first (circuit.rs
\* alloc_le_bits).
LEMMA WiresOf ==
  ASSUME NEW n \in Nat, NEW d \in Blocks(n)
  PROVE  alloc_le_bits(d) = {p \in 0 .. 64 * n - 1 : digit(d[p \div 8 + 1], 7 - (p % 8)) = 1}
<1>1. Len(d) = 8 * n /\ 8 * (8 * n) - 1 = 64 * n - 1
  BY DEF Blocks
<1>2. \A p \in 0 .. 64 * n - 1 : 7 - (7 - (p % 8)) = p % 8
  OBVIOUS
<1>3. alloc_le_bits(d) = {p \in 0 .. 64 * n - 1 : (d[p \div 8 + 1] \div 2 ^ (p % 8)) % 2 = 1}
  BY <1>1, Zenon DEF alloc_le_bits
<1> QED BY <1>2, <1>3, Zenon DEF digit

\* The same of a single block.
LEMMA WiresOfBlock ==
  ASSUME NEW b \in BlockType
  PROVE  alloc_le_bits(b) = {p \in 0 .. 63 : digit(b[p \div 8 + 1], 7 - (p % 8)) = 1}
<1> DEFINE one == 1
<1>1. one \in Nat /\ b \in Blocks(one)
  BY BlockLength DEF Blocks
<1>2. 64 * one - 1 = 63
  OBVIOUS
<1> HIDE DEF one
<1>3. alloc_le_bits(b) = {p \in 0 .. 64 * one - 1 : digit(b[p \div 8 + 1], 7 - (p % 8)) = 1}
  BY <1>1, WiresOf
<1> QED BY <1>2, <1>3, Zenon

\* The i-th block on the wires is the wires of the i-th block.
LEMMA WiresOfBlocks ==
  ASSUME NEW n \in Nat, NEW d \in Blocks(n), NEW i \in 0 .. n - 1
  PROVE  slice(alloc_le_bits(d), 64 * i, 64) = alloc_le_bits(Block(d, i + 1))
<1> DEFINE m == i + 1
           b == Block(d, m)
<1>1. m \in Nat \ {0} /\ 8 * m <= Len(d) /\ d \in Seq(Byte) /\ 8 * m - 8 = 8 * i
  BY DEF Blocks
<1> HIDE DEF m
<1>2. b \in BlockType /\ \A j \in 1 .. 8 : b[j] = d[8 * i + j]
  BY <1>1, BlockOf
<1> HIDE DEF b
<1>3. alloc_le_bits(b) = {p \in 0 .. 63 : digit(b[p \div 8 + 1], 7 - (p % 8)) = 1}
  BY <1>2, WiresOfBlock
<1>4. ASSUME NEW p \in 0 .. 63
      PROVE  64 * i + p \in alloc_le_bits(d) <=> digit(b[p \div 8 + 1], 7 - (p % 8)) = 1
  <2> DEFINE q == 64 * i + p
             e == p \div 8 + 1
  <2>1. /\ q \in 0 .. 64 * n - 1 /\ q \div 8 + 1 = 8 * i + e /\ q % 8 = p % 8 /\ e \in 1 .. 8
    OBVIOUS
  <2> HIDE DEF q, e
  <2>2. q \in alloc_le_bits(d) <=> digit(d[q \div 8 + 1], 7 - (q % 8)) = 1
    BY <2>1, WiresOf
  <2>3. d[q \div 8 + 1] = b[e]
    BY <1>2, <2>1
  <2> QED BY <2>1, <2>2, <2>3, Zenon DEF q, e
<1>5. 64 - 1 = 63
  OBVIOUS
<1> QED BY <1>3, <1>4, <1>5, Zenon DEF slice, b, m

\* A block's wires, most significant bit first, are its bits, and the bits put back
\* in the order of the wires are the wires (circuit.rs le_to_des, des_to_le).
LEMMA WiresToBits ==
  ASSUME NEW b \in BlockType
  PROVE  /\ le_to_des(alloc_le_bits(b), 64) = bytes_to_des_bits(b)
         /\ des_to_le(bytes_to_des_bits(b)) = alloc_le_bits(b)
<1> DEFINE turned(k) == 8 * (k \div 8) + (7 - (k % 8))
           le == alloc_le_bits(b)
           bits == bytes_to_des_bits(b)
<1>1. \A k \in 0 .. 63 : /\ turned(k) \in 0 .. 63 /\ turned(k) \div 8 = k \div 8
                         /\ 7 - (turned(k) % 8) = k % 8 /\ turned(turned(k)) = k
  OBVIOUS
<1>2. le_to_des(le, 64) = {k \in 0 .. 63 : turned(k) \in le}
  <2>1. 64 - 1 = 63
    OBVIOUS
  <2> QED BY <2>1, Zenon DEF le_to_des
<1>3. des_to_le(bits) = {turned(k) : k \in bits}
  BY Zenon DEF des_to_le
<1> HIDE DEF turned
<1>4. le = {p \in 0 .. 63 : digit(b[p \div 8 + 1], 7 - (p % 8)) = 1}
  BY WiresOfBlock
<1>5. bits \in Bits64 /\ \A k \in 0 .. 63 : k \in bits <=> digit(b[k \div 8 + 1], k % 8) = 1
  BY BitsOfBlock
<1> HIDE DEF le, bits
<1>6. ASSUME NEW k \in 0 .. 63 PROVE turned(k) \in le <=> k \in bits
  BY <1>1, <1>4, <1>5, Zenon
<1>7. le_to_des(le, 64) = bits
  BY <1>2, <1>5, <1>6 DEF Bits64
<1>8. le \subseteq 0 .. 63 /\ bits \subseteq 0 .. 63
  BY <1>4, <1>5 DEF Bits64
<1>9. des_to_le(bits) = le
  <2>1. ASSUME NEW p \in le PROVE p \in des_to_le(bits)
    <3>1. turned(p) \in 0 .. 63 /\ turned(turned(p)) = p
      BY <1>1, <1>8
    <3>2. turned(p) \in bits
      BY <1>6, <3>1
    <3> QED BY <1>3, <3>1, <3>2
  <2>2. ASSUME NEW k \in bits PROVE turned(k) \in le
    BY <1>6, <1>8
  <2> QED BY <1>3, <2>1, <2>2
<1> QED BY <1>7, <1>9 DEF le, bits

\* A block of several on the wires, in the order of the gadgets, is its bits (circuit.rs
\* le_to_des).
LEMMA BlockOnWires ==
  ASSUME NEW n \in Nat, NEW d \in Blocks(n), NEW i \in 0 .. n - 1
  PROVE  BlockWires(alloc_le_bits(d), i) = bytes_to_des_bits(Block(d, i + 1))
<1>1. Block(d, i + 1) \in BlockType
  <2> DEFINE m == i + 1
  <2>1. m \in Nat \ {0} /\ 8 * m <= Len(d) /\ d \in Seq(Byte)
    BY DEF Blocks
  <2> HIDE DEF m
  <2>2. Block(d, m) \in BlockType
    BY <2>1, BlockOf
  <2> QED BY <2>2 DEF m
<1>2. slice(alloc_le_bits(d), 64 * i, 64) = alloc_le_bits(Block(d, i + 1))
  BY WiresOfBlocks
<1> QED BY <1>1, <1>2, WiresToBits, Zenon DEF BlockWires

\* The same of a single block.
LEMMA OneBlock ==
  ASSUME NEW b \in BlockType
  PROVE  BlockWires(alloc_le_bits(b), 0) = bytes_to_des_bits(b)
<1> DEFINE one == 1
           zero == 0
<1>1. one \in Nat /\ b \in Blocks(one) /\ zero \in 0 .. one - 1 /\ zero + 1 = 1
  BY BlockLength DEF Blocks
<1>2. Block(b, 1) = b
  <2>1. 8 * 1 - 7 = 1 /\ 8 * 1 = Len(b) /\ b \in Seq(Byte)
    BY BlockLength
  <2> QED BY <2>1, SubSeqFull, Zenon DEF Block
<1> HIDE DEF one, zero
<1>3. BlockWires(alloc_le_bits(b), zero) = bytes_to_des_bits(Block(b, zero + 1))
  BY <1>1, BlockOnWires
<1> QED BY <1>1, <1>2, <1>3 DEF zero

-----------------------------------------------------------------------------
(* The gadgets of the circuit *)

\* A round of the gadget puts out wires.
LEMMA GadgetRoundType ==
  ASSUME NEW s \in Wires, NEW rk, NEW native PROVE GadgetRound(s, rk, native) \in Wires
<1> DEFINE l == s.r
           r == xor(s.l, feistel(s.nat.r, native))
           nat == Round(s.nat, native)
           same == \A b \in 0 .. 7 :
                     sbox_lookup(b + 1, Chunk(xor(permute(s.r, E), rk), b))
                       = sbox_lookup(b + 1, Chunk(xor(permute(s.nat.r, E), native), b))
           ok == s.ok /\ same
<1>1. GadgetRound(s, rk, native) = [l |-> l, r |-> r, nat |-> nat, ok |-> ok]
  BY Zenon DEF GadgetRound
<1>2. s.l \in SUBSET (0 .. 31) /\ s.r \in SUBSET (0 .. 31) /\ s.nat \in HalvesType
  BY DEF Wires
<1>3. r \in SUBSET (0 .. 31)
  BY <1>2, FeistelType DEF xor
<1>4. nat \in HalvesType
  BY <1>2, RoundType
<1>5. ok \in BOOLEAN
  BY Zenon
<1> HIDE DEF r, nat, ok
<1> QED BY <1>1, <1>2, <1>3, <1>4, <1>5 DEF Wires

\* A round on wires that carry the native halves, under the native round key, puts
\* out wires that carry the native halves, and its boxes agree (circuit.rs des_gadget).
LEMMA GadgetRoundFollows ==
  ASSUME NEW h \in HalvesType, NEW k
  PROVE  GadgetRound(Beside(h, h), k, k) = Beside(Round(h, k), Round(h, k))
<1> DEFINE s == Beside(h, h)
           l == h.r
           r == xor(h.l, feistel(h.r, k))
           nat == Round(h, k)
           same == \A b \in 0 .. 7 :
                     sbox_lookup(b + 1, Chunk(xor(permute(s.r, E), k), b))
                       = sbox_lookup(b + 1, Chunk(xor(permute(s.nat.r, E), k), b))
<1>1. s.l = h.l /\ s.r = h.r /\ s.nat = h /\ s.ok = TRUE
  BY DEF Beside
<1>2. GadgetRound(s, k, k) = [l |-> s.r, r |-> xor(s.l, feistel(s.nat.r, k)),
                              nat |-> Round(s.nat, k), ok |-> s.ok /\ same]
  BY Zenon DEF GadgetRound
<1> HIDE DEF s
<1>3. same
  BY <1>1, Zenon
<1>4. (s.ok /\ same) = TRUE
  BY <1>1, <1>3
<1>5. GadgetRound(s, k, k) = [l |-> l, r |-> r, nat |-> nat, ok |-> TRUE]
  BY <1>1, <1>2, <1>4, Zenon
<1>6. nat = [l |-> l, r |-> r]
  BY Zenon DEF Round
<1> HIDE DEF l, r, nat
<1>7. nat.l = l /\ nat.r = r
  BY <1>6
<1> QED BY <1>5, <1>7, Zenon DEF Beside, s, nat

\* So do sixteen rounds.
LEMMA GadgetFollows ==
  ASSUME NEW h \in HalvesType, NEW keys
  PROVE  GadgetRounds(Beside(h, h), keys, keys) = Beside(Rounds(h, keys), Rounds(h, keys))
<1> DEFINE step == [i \in 1 .. 16 |-> [s \in Wires |-> GadgetRound(s, keys[i], keys[i])]]
           len == 16
           x == Beside(h, h)
<1>1. len \in Nat /\ step \in [1 .. len -> [Wires -> Wires]]
  BY GadgetRoundType
<1>2. GadgetRounds(x, keys, keys) = Iterate(step, len, Wires)[x]
  BY DEF GadgetRounds
<1>3. \A g \in HalvesType : Beside(g, g) \in Wires
  BY DEF HalvesType, Beside, Wires
<1>4. PICK t : Walks(t, h, keys) /\ Rounds(h, keys) = t[16]
  BY WalkOfRounds
<1> DEFINE u == [i \in 0 .. 16 |-> Beside(t[i], t[i])]
<1>5. u \in [0 .. len -> Wires] /\ u[0] = x /\ u[16] = Beside(t[16], t[16])
  BY <1>3, <1>4 DEF Walks
<1>6. \A i \in 1 .. 16 : \A s \in Wires : step[i][s] = GadgetRound(s, keys[i], keys[i])
  OBVIOUS
<1>7. ASSUME NEW i \in 1 .. 16 PROVE u[i] = step[i][u[i - 1]]
  <2>1. t[i - 1] \in HalvesType /\ t[i] = Round(t[i - 1], keys[i])
    BY <1>4 DEF Walks
  <2>2. u[i - 1] = Beside(t[i - 1], t[i - 1]) /\ u[i] = Beside(t[i], t[i])
    OBVIOUS
  <2> HIDE DEF u, step
  <2>3. step[i][u[i - 1]] = GadgetRound(u[i - 1], keys[i], keys[i])
    BY <1>3, <1>6, <2>1, <2>2
  <2>4. GadgetRound(Beside(t[i - 1], t[i - 1]), keys[i], keys[i])
          = Beside(Round(t[i - 1], keys[i]), Round(t[i - 1], keys[i]))
    BY <2>1, GadgetRoundFollows
  <2> QED BY <2>1, <2>2, <2>3, <2>4, Zenon
<1>8. x \in Wires
  BY <1>3
<1> HIDE DEF step, u, x
<1>9. Unrolls(u, x, step, len, Wires)
  BY <1>5, <1>7 DEF Unrolls
<1> HIDE DEF len
<1>10. \A v : Unrolls(v, x, step, len, Wires) => Iterate(step, len, Wires)[x] = v[len]
  BY <1>1, <1>8, IteratesTo, Zenon
<1>11. Iterate(step, len, Wires)[x] = u[len]
  BY <1>9, <1>10, Zenon
<1> QED BY <1>2, <1>4, <1>5, <1>11, Zenon DEF len, x

\* A gadget on the wires of a block and of a key, with that block and key beside it,
\* puts out the bits of the native block (circuit.rs des_gadget, des.rs des_block).
LEMMA GadgetIsNative ==
  ASSUME NEW x \in BlockType, NEW k \in BlockType, NEW e \in BOOLEAN
  PROVE  des_gadget(bytes_to_des_bits(x), alloc_le_bits(k), e, x, k)
           = [out |-> bytes_to_des_bits(des_block(x, k, e)), ok |-> TRUE]
<1> DEFINE bits == bytes_to_des_bits(x)
           kbits == bytes_to_des_bits(k)
           order == KeyOrder(round_keys(kbits), e)
           h == Halves(bits)
           done == Rounds(h, order)
<1>1. round_key_vars(alloc_le_bits(k)) = round_keys(kbits)
  BY WiresToBits, Zenon DEF round_key_vars
<1>2. des_gadget(bits, alloc_le_bits(k), e, x, k)
        = Result(GadgetRounds(Beside(h, h), order, order))
  BY <1>1, Zenon DEF des_gadget
<1>3. bytes_to_des_bits(des_block(x, k, e)) = des_bits(bits, kbits, e)
  BY BlockBack
<1>4. des_bits(bits, kbits, e) = Output(done)
  BY BitsAreRounds
<1>5. h \in HalvesType
  BY HalvesAreHalves
<1> HIDE DEF order, h
<1>6. GadgetRounds(Beside(h, h), order, order) = Beside(done, done)
  BY <1>5, GadgetFollows
<1> HIDE DEF done
<1>7. Beside(done, done).l = done.l /\ Beside(done, done).r = done.r /\ Beside(done, done).ok = TRUE
  BY DEF Beside
<1>8. Output(Beside(done, done)) = Output(done)
  BY <1>7, Zenon DEF Output
<1> QED BY <1>2, <1>3, <1>4, <1>6, <1>7, <1>8, Zenon DEF Result

\* A block on the wires with the same block beside them.
Carried(b) == [out |-> bytes_to_des_bits(b), bytes |-> b, ok |-> TRUE]

\* A carried block is of the type that a chain of gadgets hands on.
LEMMA CarriedType == ASSUME NEW b \in BlockType PROVE Carried(b) \in Output_and_bytes
<1>1. bytes_to_des_bits(b) \in Bits64
  BY BitsOfBlock
<1> QED BY <1>1 DEF Carried, Output_and_bytes

\* Whatever a chain of gadgets yields is of that type.
LEMMA ChainType ==
  ASSUME NEW s, NEW le, NEW e, NEW k PROVE Chain(s, le, e, k) \in Output_and_bytes
<1> DEFINE gadget == des_gadget(s.out, le, e, s.bytes, k)
           out == gadget.out
           bytes == des_block(s.bytes, k, e)
           ok == s.ok /\ gadget.ok
<1>1. Chain(s, le, e, k) = [out |-> out, bytes |-> bytes, ok |-> ok]
  BY Zenon DEF Chain, Extend
<1>2. out \in Bits64
  <2> DEFINE wires == GadgetRounds(
                        Beside(Halves(s.out), Halves(bytes_to_des_bits(s.bytes))),
                        KeyOrder(round_key_vars(le), e),
                        KeyOrder(round_keys(bytes_to_des_bits(k)), e))
  <2>1. gadget = Result(wires)
    BY Zenon DEF des_gadget
  <2> HIDE DEF wires, gadget
  <2>2. gadget.out = Output(wires)
    BY <2>1 DEF Result
  <2> QED BY <2>2, OutputType
<1>3. bytes \in BlockType
  BY BlocksComputed
<1>4. ok \in BOOLEAN
  BY Zenon
<1> HIDE DEF out, bytes, ok
<1> QED BY <1>1, <1>2, <1>3, <1>4 DEF Output_and_bytes

\* A gadget carries a block to its encryption (circuit.rs des_gadget).
LEMMA ChainFollows ==
  ASSUME NEW b \in BlockType, NEW k \in BlockType, NEW e \in BOOLEAN
  PROVE  Chain(Carried(b), alloc_le_bits(k), e, k) = Carried(des_block(b, k, e))
<1> DEFINE s == Carried(b)
           gadget == des_gadget(s.out, alloc_le_bits(k), e, s.bytes, k)
           out == bytes_to_des_bits(des_block(b, k, e))
<1>1. s.out = bytes_to_des_bits(b) /\ s.bytes = b /\ s.ok = TRUE
  BY DEF Carried
<1>2. Chain(s, alloc_le_bits(k), e, k)
        = [out |-> gadget.out, bytes |-> des_block(s.bytes, k, e), ok |-> s.ok /\ gadget.ok]
  BY Zenon DEF Chain, Extend
<1> HIDE DEF s
<1>3. gadget = [out |-> out, ok |-> TRUE]
  BY <1>1, GadgetIsNative
<1> HIDE DEF gadget, out
<1>4. gadget.out = out /\ gadget.ok = TRUE
  BY <1>3
<1>5. (s.ok /\ gadget.ok) = TRUE
  BY <1>1, <1>4
<1> QED BY <1>1, <1>2, <1>4, <1>5, Zenon DEF s, out, Carried

\* The blocks after each call, the i-th under keys[i] in the direction dirs[i].
BlockWalks(t, b, keys, dirs, n) ==
  /\ t \in [0 .. n -> BlockType] /\ t[0] = b
  /\ \A i \in 1 .. n : t[i] = des_block(t[i - 1], keys[i], dirs[i])

\* A chain of gadgets, the i-th under keys[i] in the direction dirs[i].
GadgetChain(n, keys, dirs) ==
  Iterate([i \in 1 .. n |-> [s \in Output_and_bytes |->
             Chain(s, alloc_le_bits(keys[i]), dirs[i], keys[i])]],
          n, Output_and_bytes)

\* It carries the native blocks to its end.
LEMMA ChainsFollow ==
  ASSUME NEW n \in Nat, NEW keys \in [1 .. n -> BlockType], NEW dirs \in [1 .. n -> BOOLEAN],
         NEW b \in BlockType, NEW t, BlockWalks(t, b, keys, dirs, n)
  PROVE  GadgetChain(n, keys, dirs)[Carried(b)] = Carried(t[n])
<1> DEFINE step == [i \in 1 .. n |-> [s \in Output_and_bytes |->
                      Chain(s, alloc_le_bits(keys[i]), dirs[i], keys[i])]]
           u == [i \in 0 .. n |-> Carried(t[i])]
           x == Carried(b)
<1>1. step \in [1 .. n -> [Output_and_bytes -> Output_and_bytes]] /\ x \in Output_and_bytes
  BY ChainType, CarriedType
<1>2. \A i \in 1 .. n : \A s \in Output_and_bytes :
        step[i][s] = Chain(s, alloc_le_bits(keys[i]), dirs[i], keys[i])
  OBVIOUS
<1>3. u \in [0 .. n -> Output_and_bytes] /\ u[0] = x /\ u[n] = Carried(t[n])
  BY CarriedType DEF BlockWalks
<1>4. ASSUME NEW i \in 1 .. n PROVE u[i] = step[i][u[i - 1]]
  <2>1. t[i - 1] \in BlockType /\ t[i] = des_block(t[i - 1], keys[i], dirs[i])
    BY DEF BlockWalks
  <2>2. u[i - 1] = Carried(t[i - 1]) /\ u[i] = Carried(t[i])
    OBVIOUS
  <2>3. Carried(t[i - 1]) \in Output_and_bytes /\ keys[i] \in BlockType /\ dirs[i] \in BOOLEAN
    BY <2>1, CarriedType
  <2> HIDE DEF u, step
  <2>4. step[i][u[i - 1]] = Chain(u[i - 1], alloc_le_bits(keys[i]), dirs[i], keys[i])
    BY <1>2, <2>2, <2>3
  <2>5. Chain(Carried(t[i - 1]), alloc_le_bits(keys[i]), dirs[i], keys[i])
          = Carried(des_block(t[i - 1], keys[i], dirs[i]))
    BY <2>1, <2>3, ChainFollows
  <2> QED BY <2>1, <2>2, <2>4, <2>5, Zenon
<1> HIDE DEF step, u, x
<1>5. Unrolls(u, x, step, n, Output_and_bytes)
  BY <1>3, <1>4 DEF Unrolls
<1>6. \A v : Unrolls(v, x, step, n, Output_and_bytes)
               => Iterate(step, n, Output_and_bytes)[x] = v[n]
  BY <1>1, IteratesTo, Zenon
<1>7. Iterate(step, n, Output_and_bytes)[x] = u[n]
  BY <1>5, <1>6, Zenon
<1> QED BY <1>3, <1>7, Zenon DEF step, x, GadgetChain

\* Three gadgets on the wires of a block and two keys put out the bits of the native
\* triple encryption (circuit.rs tdes_encrypt_gadget).
LEMMA TdesGadgetIsNative ==
  ASSUME NEW x \in BlockType, NEW k \in BlockType, NEW m \in BlockType
  PROVE  tdes_encrypt_gadget(bytes_to_des_bits(x), alloc_le_bits(k), alloc_le_bits(m), x, k, m)
           = Carried(tdes_encrypt(x, k, m))
<1> DEFINE three == 3
           under == [i \in 1 .. 3 |-> IF i = 2 THEN m ELSE k]
           way == [i \in 1 .. 3 |-> i # 2]
           first == des_encrypt(x, k)
           second == des_decrypt(first, m)
           third == des_encrypt(second, k)
           walk == [i \in 0 .. 3 |-> IF i = 0 THEN x ELSE IF i = 1 THEN first
                                      ELSE IF i = 2 THEN second ELSE third]
           step == [i \in 1 .. 3 |-> [s \in Output_and_bytes |->
                      Chain(s, alloc_le_bits(under[i]), way[i], under[i])]]
           source == [i \in 1 .. 3 |-> [s \in Output_and_bytes |->
                        Chain(s, IF i = 2 THEN alloc_le_bits(m) ELSE alloc_le_bits(k), i # 2,
                              IF i = 2 THEN m ELSE k)]]
<1>1. three \in Nat /\ under \in [1 .. three -> BlockType] /\ way \in [1 .. three -> BOOLEAN]
  OBVIOUS
<1>2. first \in BlockType /\ second \in BlockType /\ third \in BlockType
  BY DesInverts
<1>3. /\ first = des_block(x, k, TRUE) /\ second = des_block(first, m, FALSE)
      /\ third = des_block(second, k, TRUE) /\ tdes_encrypt(x, k, m) = third
  BY Zenon DEF des_encrypt, des_decrypt, tdes_encrypt
<1>4. \A i \in 1 .. 3 : /\ under[i] = IF i = 2 THEN m ELSE k
                        /\ way[i] = (i # 2)
  OBVIOUS
<1>5. step = source
  <2>1. ASSUME NEW i \in 1 .. 3 PROVE alloc_le_bits(under[i])
                                        = IF i = 2 THEN alloc_le_bits(m) ELSE alloc_le_bits(k)
    BY <1>4
  <2> HIDE DEF under, way
  <2>2. ASSUME NEW i \in 1 .. 3, NEW s \in Output_and_bytes
        PROVE  Chain(s, alloc_le_bits(under[i]), way[i], under[i])
                 = Chain(s, IF i = 2 THEN alloc_le_bits(m) ELSE alloc_le_bits(k), i # 2,
                         IF i = 2 THEN m ELSE k)
    BY <1>4, <2>1, Zenon
  <2> QED BY <2>2, Zenon
<1>6. BlockWalks(walk, x, under, way, three)
  <2> HIDE DEF first, second, third
  <2>1. /\ walk \in [0 .. 3 -> BlockType] /\ walk[0] = x
        /\ walk[1] = first /\ walk[2] = second /\ walk[3] = third
    BY <1>2
  <2>2. under[1] = k /\ under[2] = m /\ under[3] = k
    OBVIOUS
  <2>3. way[1] = TRUE /\ way[2] = FALSE /\ way[3] = TRUE
    <3>1. (1 # 2) = TRUE /\ (2 # 2) = FALSE /\ (3 # 2) = TRUE
      OBVIOUS
    <3>2. way[1] = (1 # 2) /\ way[2] = (2 # 2) /\ way[3] = (3 # 2)
      BY <1>4
    <3> HIDE DEF way
    <3> QED BY <3>1, <3>2, Zenon
  <2> HIDE DEF walk, under, way
  <2>4. /\ walk[1] = des_block(walk[0], under[1], way[1])
        /\ walk[2] = des_block(walk[1], under[2], way[2])
        /\ walk[3] = des_block(walk[2], under[3], way[3])
    BY <1>3, <2>1, <2>2, <2>3, Zenon
  <2>5. ASSUME NEW i \in 1 .. 3 PROVE walk[i] = des_block(walk[i - 1], under[i], way[i])
    <3>1. (i = 1 /\ i - 1 = 0) \/ (i = 2 /\ i - 1 = 1) \/ (i = 3 /\ i - 1 = 2)
      OBVIOUS
    <3> QED BY <2>4, <3>1, Zenon
  <2> QED BY <2>1, <2>5 DEF BlockWalks
<1>7. walk[3] = third
  OBVIOUS
<1>8. tdes_encrypt_gadget(bytes_to_des_bits(x), alloc_le_bits(k), alloc_le_bits(m), x, k, m)
        = Iterate(source, 3, Output_and_bytes)[Carried(x)]
  BY Zenon DEF tdes_encrypt_gadget, Carried
<1> HIDE DEF three, under, way, walk, third, source
<1>9. GadgetChain(three, under, way)[Carried(x)] = Carried(walk[three])
  <2>1. \A v : BlockWalks(v, x, under, way, three)
                => GadgetChain(three, under, way)[Carried(x)] = Carried(v[three])
    BY <1>1, ChainsFollow, Zenon
  <2> QED BY <1>6, <2>1, Zenon
<1>10. GadgetChain(3, under, way) = Iterate(step, 3, Output_and_bytes)
  BY Zenon DEF GadgetChain
<1> QED BY <1>3, <1>5, <1>7, <1>8, <1>9, <1>10, Zenon DEF three

\* The bits of the block that nothing is xored with.
LEMMA NoBits == ZeroBlock \in BlockType /\ bytes_to_des_bits(ZeroBlock) = {}
<1>1. ZeroBlock \in BlockType /\ \A i \in 1 .. 8 : ZeroBlock[i] = 0
  BY DEF ZeroBlock, BlockType, Byte
<1>2. ASSUME NEW i \in 0 .. 7 PROVE digit(0, i) = 0
  <2>1. i = 0 \/ i = 1 \/ i = 2 \/ i = 3 \/ i = 4 \/ i = 5 \/ i = 6 \/ i = 7
    OBVIOUS
  <2>2. /\ (0 \div 128) % 2 = 0 /\ (0 \div 64) % 2 = 0 /\ (0 \div 32) % 2 = 0
        /\ (0 \div 16) % 2 = 0 /\ (0 \div 8) % 2 = 0 /\ (0 \div 4) % 2 = 0
        /\ (0 \div 2) % 2 = 0 /\ (0 \div 1) % 2 = 0
    OBVIOUS
  <2> QED BY <2>1, <2>2, Digits
<1>3. ASSUME NEW k \in 0 .. 63 PROVE k \notin bytes_to_des_bits(ZeroBlock)
  <2> DEFINE i == k \div 8 + 1
             j == k % 8
  <2>1. i \in 1 .. 8 /\ j \in 0 .. 7
    OBVIOUS
  <2>2. k \in bytes_to_des_bits(ZeroBlock) <=> digit(ZeroBlock[i], j) = 1
    BY <1>1, BitsOfBlock
  <2> HIDE DEF i, j
  <2> QED BY <1>1, <1>2, <2>1, <2>2
<1>4. bytes_to_des_bits(ZeroBlock) \subseteq 0 .. 63
  BY <1>1, BitsOfBlock DEF Bits64
<1> QED BY <1>1, <1>3, <1>4

\* The wires of a block of the plaintext are what its gadget puts out, xored with the
\* ciphertext before it (circuit.rs generate_constraints, des.rs cbc_decrypt).
LEMMA PlainBlock ==
  ASSUME NEW c \in Blocks(4), NEW k \in BlockType, NEW i \in 0 .. 3
  PROVE  LET raw == des_gadget(BlockWires(alloc_le_bits(c), i), alloc_le_bits(k), FALSE,
                               Block(c, i + 1), k)
             before == IF i = 0 THEN {} ELSE BlockWires(alloc_le_bits(c), i - 1)
         IN /\ raw.ok = TRUE
            /\ des_to_le(xor(raw.out, before)) = slice(alloc_le_bits(cbc_decrypt(c, k)), 64 * i, 64)
<1> DEFINE four == 4
           le == alloc_le_bits(c)
           m == i + 1
           block == Block(c, m)
           p == cbc_decrypt(c, k)
           raw == des_gadget(BlockWires(le, i), alloc_le_bits(k), FALSE, block, k)
           before == IF i = 0 THEN {} ELSE BlockWires(le, i - 1)
           plain == Block(p, m)
<1>1. /\ four \in Nat /\ c \in Blocks(four) /\ i \in 0 .. four - 1 /\ m \in 1 .. four
      /\ m \in Nat \ {0} /\ 8 * m <= Len(c) /\ c \in Seq(Byte)
  <2>1. c \in Seq(Byte) /\ Len(c) = 32
    BY DEF Blocks
  <2>2. 8 * m <= 32
    OBVIOUS
  <2> QED BY <2>1, <2>2
<1> HIDE DEF four
<1>2. BlockWires(le, i) = bytes_to_des_bits(block)
  BY <1>1, BlockOnWires
<1>3. block \in BlockType
  BY <1>1, BlockOf
<1>4. /\ p \in Blocks(four)
      /\ plain = xor_bytes(des_decrypt(block, k), Chained(c, m))
  BY <1>1, CbcDecrypts
<1>5. slice(alloc_le_bits(p), 64 * i, 64) = alloc_le_bits(plain)
  BY <1>1, <1>4, WiresOfBlocks
<1>6. Chained(c, m) \in BlockType /\ before = bytes_to_des_bits(Chained(c, m))
  <2>1. CASE i = 0
    <3>1. m = 1
      BY <2>1
    <3> QED BY <2>1, <3>1, NoBits DEF Chained
  <2>2. CASE i # 0
    <3> DEFINE q == i - 1
    <3>1. q \in 0 .. four - 1 /\ q + 1 = i /\ m # 1 /\ m - 1 = i
      BY <1>1, <2>2
    <3>2. i \in Nat \ {0} /\ 8 * i <= Len(c)
      BY <1>1, <2>2
    <3>3. Block(c, i) \in BlockType
      BY <1>1, <3>2, BlockOf
    <3>4. BlockWires(le, q) = bytes_to_des_bits(Block(c, q + 1))
      <4> HIDE DEF q
      <4> QED BY <1>1, <3>1, BlockOnWires
    <3>5. Chained(c, m) = Block(c, i)
      BY <3>1 DEF Chained
    <3> QED BY <2>2, <3>1, <3>3, <3>4, <3>5
  <2> QED BY <2>1, <2>2
<1> HIDE DEF m, before, block, le
<1>7. raw = [out |-> bytes_to_des_bits(des_decrypt(block, k)), ok |-> TRUE]
  <2>1. FALSE \in BOOLEAN
    OBVIOUS
  <2> QED BY <1>2, <1>3, <2>1, GadgetIsNative, Zenon DEF des_decrypt
<1> HIDE DEF raw
<1>8. raw.out = bytes_to_des_bits(des_decrypt(block, k)) /\ raw.ok = TRUE
  BY <1>7
<1>9. des_decrypt(block, k) \in BlockType
  BY <1>3, DesInverts
<1>10. plain \in BlockType /\ xor(raw.out, before) = bytes_to_des_bits(plain)
  BY <1>4, <1>6, <1>8, <1>9, XorType
<1> HIDE DEF plain
<1>11. des_to_le(xor(raw.out, before)) = slice(alloc_le_bits(p), 64 * i, 64)
  BY <1>5, <1>10, WiresToBits
<1> QED BY <1>8, <1>11, Zenon DEF raw, before, le, block, m

\* Wires are made of their slices.
LEMMA SlicesJoin ==
  ASSUME NEW v \in SUBSET (0 .. 255)
  PROVE  UNION {after(64 * i, slice(v, 64 * i, 64)) : i \in 0 .. 3} = v
<1> DEFINE joined == UNION {after(64 * i, slice(v, 64 * i, 64)) : i \in 0 .. 3}
<1>1. ASSUME NEW p \in v PROVE p \in joined
  <2>1. PICK i \in 0 .. 3, j \in 0 .. 63 : p = 64 * i + j
    <3>1. p \div 64 \in 0 .. 3 /\ p % 64 \in 0 .. 63 /\ p = 64 * (p \div 64) + (p % 64)
      OBVIOUS
    <3> QED BY <3>1
  <2>2. j \in slice(v, 64 * i, 64)
    BY <2>1 DEF slice
  <2>3. p \in after(64 * i, slice(v, 64 * i, 64))
    BY <2>1, <2>2 DEF after
  <2> QED BY <2>3
<1>2. ASSUME NEW p \in joined PROVE p \in v
  <2>1. PICK i \in 0 .. 3 : p \in after(64 * i, slice(v, 64 * i, 64))
    BY <1>2
  <2> QED BY <2>1 DEF after, slice
<1> QED BY <1>1, <1>2

\* The plaintext on the wires is that of the native decryption.
LEMMA PlaintextIsNative ==
  ASSUME NEW c \in Blocks(4), NEW k \in BlockType
  PROVE  Plaintext(alloc_le_bits(c), alloc_le_bits(k), c, k)
           = [le |-> alloc_le_bits(cbc_decrypt(c, k)), ok |-> TRUE]
<1> DEFINE c_le == alloc_le_bits(c)
           p_le == alloc_le_bits(cbc_decrypt(c, k))
           raw == [i \in 0 .. 3 |-> des_gadget(BlockWires(c_le, i), alloc_le_bits(k), FALSE,
                                               Block(c, i + 1), k)]
           before(i) == IF i = 0 THEN {} ELSE BlockWires(c_le, i - 1)
           ok == \A i \in 0 .. 3 : raw[i].ok
           le == UNION {after(64 * i, des_to_le(xor(raw[i].out, before(i)))) : i \in 0 .. 3}
<1>1. ASSUME NEW i \in 0 .. 3
      PROVE  raw[i].ok = TRUE /\ des_to_le(xor(raw[i].out, before(i))) = slice(p_le, 64 * i, 64)
  BY PlainBlock, Zenon
<1>2. p_le \in SUBSET (0 .. 255)
  <2> DEFINE four == 4
  <2>1. four \in Nat /\ c \in Blocks(four) /\ 64 * four - 1 = 255
    OBVIOUS
  <2> HIDE DEF four
  <2>2. p_le \subseteq 0 .. 64 * four - 1
    BY <2>1, CbcDecrypts, WiresOf
  <2> QED BY <2>1, <2>2
<1>3. Plaintext(c_le, alloc_le_bits(k), c, k) = [le |-> le, ok |-> ok]
  BY Zenon DEF Plaintext, Unchained
<1> HIDE DEF raw, before, c_le, p_le
<1>4. ok = TRUE
  BY <1>1
<1>5. le = UNION {after(64 * i, slice(p_le, 64 * i, 64)) : i \in 0 .. 3}
  BY <1>1
<1>6. le = p_le
  BY <1>2, <1>5, SlicesJoin
<1> HIDE DEF le, ok
<1> QED BY <1>3, <1>4, <1>6, Zenon DEF c_le, p_le

\* The MAC on the wires of the plaintext is that of its three blocks of payload
\* (circuit.rs generate_constraints, des.rs command_mac).
LEMMA MacIsNative ==
  ASSUME NEW p \in Blocks(4)
  PROVE  MacWires(alloc_le_bits(p), p) = Carried(command_mac(19, SubSeq(p, 1, 24)))
<1> DEFINE three == 3
           code == 19
           le == alloc_le_bits(p)
           front == SubSeq(p, 1, 8 * three)
           under == BlocksOf(front, three)
           way == [i \in 1 .. three |-> TRUE]
           m0 == First(three, code)
           step == [i \in 1 .. 3 |-> [m \in Output_and_bytes |->
                      Chain(m, alloc_le_bits(under[i]), way[i], under[i])]]
           source == [i \in 1 .. 3 |-> [m \in Output_and_bytes |->
                        Chain(m, slice(le, 64 * (i - 1), 64), TRUE, Block(p, i))]]
<1>1. three \in Nat /\ code \in Byte /\ p \in Blocks(three + 1) /\ 8 * three = 24
  BY DEF Byte
<1>2. m0 = <<34, 19, 0, 0, 0, 0, 0, 0>>
  <2>1. (2 + 8 * 3 + 8) % 256 = 34
    OBVIOUS
  <2> QED BY <2>1 DEF First, ZeroBlock
<1>3. ASSUME NEW i \in 1 .. three PROVE way[i] = TRUE
  OBVIOUS
<1>4. way \in [1 .. three -> BOOLEAN]
  OBVIOUS
<1>5. 1 .. three = 1 .. 3 /\ \A i \in 1 .. three : i - 1 \in 0 .. (three + 1) - 1 /\ (i - 1) + 1 = i
  OBVIOUS
<1> HIDE DEF three, code, way
<1>6. /\ front \in Blocks(three) /\ \A i \in 1 .. three : Block(front, i) = Block(p, i)
  BY <1>1, BlocksBefore
<1>7. m0 \in BlockType
  BY <1>1, FirstType
<1>8. ASSUME NEW i \in 1 .. three PROVE under[i] \in BlockType /\ under[i] = Block(p, i)
  <2>1. i \in Nat \ {0} /\ 8 * i <= 8 * three
    BY <1>1
  <2>2. Block(front, i) \in BlockType
    BY <1>6, <2>1, BlockOf DEF Blocks
  <2> QED BY <1>6, <2>2 DEF BlocksOf
<1>9. under \in [1 .. three -> BlockType]
  BY <1>8 DEF BlocksOf
<1>10. ASSUME NEW i \in 1 .. three PROVE slice(le, 64 * (i - 1), 64) = alloc_le_bits(under[i])
  <2> DEFINE j == i - 1
  <2>1. j \in 0 .. (three + 1) - 1 /\ j + 1 = i
    BY <1>5
  <2> HIDE DEF j
  <2>2. slice(le, 64 * j, 64) = alloc_le_bits(Block(p, j + 1))
    BY <1>1, <2>1, WiresOfBlocks
  <2> QED BY <1>8, <2>1, <2>2 DEF j
<1>11. command_mac(code, front) = Folded(three, under, m0)
  BY <1>1, <1>6, MacIsFold
<1> HIDE DEF under, front, le, m0
<1>12. step = source
  <2>1. ASSUME NEW i \in 1 .. 3, NEW m \in Output_and_bytes
        PROVE  Chain(m, alloc_le_bits(under[i]), way[i], under[i])
                 = Chain(m, slice(le, 64 * (i - 1), 64), TRUE, Block(p, i))
    BY <1>3, <1>5, <1>8, <1>10, Zenon
  <2> QED BY <2>1, Zenon
<1>13. PICK walk : FoldWalks(walk, m0, under, three) /\ Folded(three, under, m0) = walk[three]
  <2>1. \E v : FoldWalks(v, m0, under, three) /\ Folded(three, under, m0) = v[three]
    BY <1>1, <1>7, WalkOfFold, Zenon
  <2> QED BY <2>1, Zenon
<1>14. BlockWalks(walk, m0, under, way, three)
  BY <1>3, <1>13, Zenon DEF FoldWalks, BlockWalks, des_encrypt
<1>15. GadgetChain(three, under, way)[Carried(m0)] = Carried(walk[three])
  <2>1. \A v : BlockWalks(v, m0, under, way, three)
                => GadgetChain(three, under, way)[Carried(m0)] = Carried(v[three])
    BY <1>1, <1>4, <1>7, <1>9, ChainsFollow, Zenon
  <2> QED BY <1>14, <2>1, Zenon
<1>16. MacWires(le, p) = Iterate(source, 3, Output_and_bytes)[Carried(m0)]
  <2>1. BlockWires(alloc_le_bits(m0), 0) = bytes_to_des_bits(m0)
    BY <1>7, OneBlock
  <2> QED BY <1>2, <2>1, Zenon DEF MacWires, Carried
<1>17. GadgetChain(three, under, way) = Iterate(step, 3, Output_and_bytes)
  BY Zenon DEF GadgetChain, three
<1>18. MacWires(le, p) = Carried(command_mac(code, front))
  BY <1>11, <1>12, <1>13, <1>15, <1>16, <1>17, Zenon
<1> QED BY <1>1, <1>18, Zenon DEF le, front, code

-----------------------------------------------------------------------------
(* The constraints *)

\* Two stretches of bytes are equal when their bytes are.
LEMMA SameStretch ==
  ASSUME NEW s, NEW t, NEW f \in Nat, NEW l \in Nat, f <= l,
         \A i \in f .. l : s[i] \in Byte /\ t[i] \in Byte
  PROVE  SubSeq(s, f, l) = SubSeq(t, f, l) <=> \A i \in f .. l : s[i] = t[i]
<1> DEFINE a == SubSeq(s, f, l)
           b == SubSeq(t, f, l)
           n == l - f + 1
<1>1. /\ a \in Seq(Byte) /\ Len(a) = n /\ \A i \in 1 .. n : a[i] = s[f + i - 1]
      /\ b \in Seq(Byte) /\ Len(b) = n /\ \A i \in 1 .. n : b[i] = t[f + i - 1]
  BY SubSeqProperties
<1> HIDE DEF a, b
<1>2. ASSUME a = b, NEW i \in f .. l PROVE s[i] = t[i]
  <2> DEFINE j == i - f + 1
  <2>1. j \in 1 .. n /\ f + j - 1 = i
    OBVIOUS
  <2> HIDE DEF j, n
  <2>2. a[j] = s[f + j - 1] /\ b[j] = t[f + j - 1]
    BY <1>1, <2>1, Zenon
  <2> QED BY <1>2, <2>1, <2>2
<1>3. ASSUME \A i \in f .. l : s[i] = t[i] PROVE a = b
  <2>1. \A i \in 1 .. n : f + i - 1 \in f .. l
    OBVIOUS
  <2>2. \A i \in 1 .. n : a[i] = b[i]
    BY <1>1, <1>3, <2>1, Zenon
  <2> HIDE DEF n
  <2> QED BY <1>1, <2>2, SeqEqual
<1> QED BY <1>2, <1>3 DEF a, b

\* A byte is known by its bits.
LEMMA SameByte ==
  ASSUME NEW v \in Byte, NEW u \in Byte, \A i \in 0 .. 7 : digit(v, i) = 1 <=> digit(u, i) = 1
  PROVE  v = u
<1> DEFINE bits == {i \in 0 .. 7 : digit(v, i) = 1}
<1>1. \A i \in 0 .. 7 : /\ i \in bits <=> digit(v, i) = 1
                        /\ i \in bits <=> digit(u, i) = 1
  OBVIOUS
<1> HIDE DEF bits
<1> QED BY <1>1, BitsOfByte

\* The last six bytes of two blocks are equal when their wires are.
LEMMA TailsOnWires ==
  ASSUME NEW a \in BlockType, NEW b \in BlockType
  PROVE  slice(alloc_le_bits(a), 16, 48) = slice(alloc_le_bits(b), 16, 48)
           <=> \A i \in 3 .. 8 : a[i] = b[i]
<1> DEFINE av == alloc_le_bits(a)
           bv == alloc_le_bits(b)
           byte(p) == p \div 8 + 1
           place(p) == 7 - (p % 8)
<1>1. /\ av = {p \in 0 .. 63 : digit(a[byte(p)], place(p)) = 1}
      /\ bv = {p \in 0 .. 63 : digit(b[byte(p)], place(p)) = 1}
  BY WiresOfBlock
<1> HIDE DEF av, bv
<1>2. ASSUME \A i \in 3 .. 8 : a[i] = b[i] PROVE slice(av, 16, 48) = slice(bv, 16, 48)
  <2>1. ASSUME NEW q \in 0 .. 47 PROVE 16 + q \in av <=> 16 + q \in bv
    <3> DEFINE p == 16 + q
    <3>1. p \in 0 .. 63 /\ byte(p) \in 3 .. 8
      OBVIOUS
    <3> HIDE DEF p, byte, place
    <3>2. a[byte(p)] = b[byte(p)]
      BY <1>2, <3>1
    <3>3. p \in av <=> p \in bv
      BY <1>1, <3>1, <3>2, Zenon
    <3> QED BY <3>3 DEF p
  <2>2. 48 - 1 = 47
    OBVIOUS
  <2> QED BY <2>1, <2>2, Zenon DEF slice
<1>3. ASSUME slice(av, 16, 48) = slice(bv, 16, 48), NEW i \in 3 .. 8 PROVE a[i] = b[i]
  <2>1. ASSUME NEW j \in 0 .. 7 PROVE digit(a[i], j) = 1 <=> digit(b[i], j) = 1
    <3> DEFINE p == 8 * (i - 1) + (7 - j)
               q == p - 16
    <3>1. p \in 0 .. 63 /\ byte(p) = i /\ place(p) = j /\ q \in 0 .. 48 - 1 /\ 16 + q = p
      OBVIOUS
    <3> HIDE DEF p, q, byte, place
    <3>2. p \in av <=> p \in bv
      <4>1. q \in slice(av, 16, 48) <=> p \in av
        BY <3>1 DEF slice
      <4>2. q \in slice(bv, 16, 48) <=> p \in bv
        BY <3>1 DEF slice
      <4> QED BY <1>3, <4>1, <4>2
    <3> QED BY <1>1, <3>1, <3>2, Zenon
  <2>2. a[i] \in Byte /\ b[i] \in Byte
    BY DEF BlockType
  <2> QED BY <2>1, <2>2, SameByte
<1>4. slice(av, 16, 48) = slice(bv, 16, 48) <=> \A i \in 3 .. 8 : a[i] = b[i]
  BY <1>2, <1>3
<1> QED BY <1>4 DEF av, bv

\* The TIDs are compared on wires as they are on bytes (circuit.rs, lib.rs prove).
LEMMA TidsOnWires ==
  ASSUME NEW p \in Blocks(4), NEW r \in BlockType
  PROVE  slice(alloc_le_bits(p), 16, 48) = slice(alloc_le_bits(r), 16, 48)
           <=> SubSeq(p, 3, 8) = SubSeq(r, 3, 8)
<1> DEFINE four == 4
           zero == 0
           one == 1
           pv == alloc_le_bits(p)
           b == Block(p, one)
<1>1. /\ four \in Nat /\ p \in Blocks(four) /\ zero \in 0 .. four - 1 /\ zero + 1 = one
      /\ 64 * zero = 0 /\ one \in Nat \ {0} /\ 8 * one - 8 = 0
  OBVIOUS
<1>2. p \in Seq(Byte) /\ 8 * one <= Len(p)
  <2>1. p \in Seq(Byte) /\ Len(p) = 32
    BY DEF Blocks
  <2> QED BY <2>1
<1> HIDE DEF four, zero, one
<1>3. slice(pv, 64 * zero, 64) = alloc_le_bits(Block(p, zero + 1))
  BY <1>1, WiresOfBlocks
<1>4. slice(pv, 0, 64) = alloc_le_bits(b)
  BY <1>1, <1>3, Zenon
<1>5. b \in BlockType /\ \A j \in 1 .. 8 : b[j] = p[8 * one - 8 + j]
  BY <1>1, <1>2, BlockOf
<1>6. \A j \in 3 .. 8 : b[j] = p[j]
  BY <1>1, <1>5
<1> HIDE DEF pv, b
<1>7. slice(pv, 16, 48) = slice(alloc_le_bits(b), 16, 48)
  <2> HIDE <1>4
  <2>1. slice(pv, 16, 48) = slice(slice(pv, 0, 64), 16, 48)
    BY DEF slice
  <2> QED BY <1>4, <2>1
<1>8. slice(pv, 16, 48) = slice(alloc_le_bits(r), 16, 48) <=> \A i \in 3 .. 8 : p[i] = r[i]
  BY <1>5, <1>6, <1>7, TailsOnWires
<1>9. SubSeq(p, 3, 8) = SubSeq(r, 3, 8) <=> \A i \in 3 .. 8 : p[i] = r[i]
  <2> DEFINE f == 3
             l == 8
  <2>1. f \in Nat /\ l \in Nat /\ f <= l /\ \A i \in f .. l : p[i] \in Byte /\ r[i] \in Byte
    BY <1>5, <1>6 DEF BlockType
  <2> HIDE DEF f, l
  <2>2. SubSeq(p, f, l) = SubSeq(r, f, l) <=> \A i \in f .. l : p[i] = r[i]
    BY <2>1, SameStretch
  <2> QED BY <2>2 DEF f, l
<1> QED BY <1>8, <1>9 DEF pv

\* Blocks are equal when their bits are, and when their wires are.
LEMMA SameOnWires ==
  ASSUME NEW a \in BlockType, NEW b \in BlockType
  PROVE  /\ bytes_to_des_bits(a) = bytes_to_des_bits(b) <=> a = b
         /\ alloc_le_bits(a) = alloc_le_bits(b) <=> a = b
BY BytesReturn, WiresToBits

\* What a witness is made of.
WitnessTyped(w) ==
  /\ w.c1b \in BlockType /\ w.c2a \in BlockType /\ w.auth2 \in Blocks(4)
  /\ w.l \in BlockType /\ w.beta \in BlockType
  /\ w.r1 \in BlockType /\ w.r2 \in BlockType /\ w.idi \in BlockType

\* What the system says of any witness: the hints of its gadgets follow the wires, and
\* each constraint is the check on bytes that it stands for (circuit.rs
\* generate_constraints, lib.rs prove).
LEMMA ConstraintsAreChecks ==
  ASSUME NEW w, WitnessTyped(w), NEW p, p = cbc_decrypt(w.auth2, w.r2),
         NEW system, system = generate_constraints(w)
  PROVE  /\ DOMAIN system = {"hints", "c1b", "c2a", "mac", "tid", "idi"}
         /\ system.hints
         /\ system.c1b <=> tdes_encrypt(w.r1, w.l, w.beta) = w.c1b
         /\ system.c2a <=> tdes_encrypt(w.r2, w.l, w.beta) = w.c2a
         /\ system.mac <=> command_mac(19, SubSeq(p, 1, 24)) = SubSeq(p, 25, 32)
         /\ system.tid <=> SubSeq(p, 3, 8) = SubSeq(w.r1, 3, 8)
         /\ system.idi <=> SubSeq(p, 9, 16) = w.idi
<1> DEFINE e1 == EncryptsTo(w, w.r1)
           e2 == EncryptsTo(w, w.r2)
           pt == Plaintext(alloc_le_bits(w.auth2), alloc_le_bits(w.r2), w.auth2, w.r2)
           mac == MacWires(alloc_le_bits(p), p)
           le == alloc_le_bits(p)
           a1 == tdes_encrypt(w.r1, w.l, w.beta)
           a2 == tdes_encrypt(w.r2, w.l, w.beta)
           m == command_mac(19, SubSeq(p, 1, 24))
<1>1. p \in Blocks(4)
  <2> DEFINE four == 4
  <2>1. four \in Nat /\ w.auth2 \in Blocks(four)
    BY DEF WitnessTyped
  <2> HIDE DEF four
  <2>2. p \in Blocks(four)
    BY <2>1, CbcDecrypts
  <2> QED BY <2>2 DEF four
<1>2. ASSUME NEW r \in BlockType
      PROVE  EncryptsTo(w, r) = Carried(tdes_encrypt(r, w.l, w.beta))
  <2>1. BlockWires(alloc_le_bits(r), 0) = bytes_to_des_bits(r)
    BY OneBlock
  <2>2. w.l \in BlockType /\ w.beta \in BlockType
    BY DEF WitnessTyped
  <2> QED BY <2>1, <2>2, TdesGadgetIsNative, Zenon DEF EncryptsTo
<1>3. e1 = Carried(a1) /\ e2 = Carried(a2) /\ a1 \in BlockType /\ a2 \in BlockType
  BY <1>2, TdesInverts DEF WitnessTyped
<1>4. pt = [le |-> le, ok |-> TRUE]
  BY PlaintextIsNative, Zenon DEF WitnessTyped
<1>5. mac = Carried(m)
  BY <1>1, MacIsNative
<1>6. m \in BlockType
  <2> DEFINE three == 3
             code == 19
             front == SubSeq(p, 1, 8 * three)
  <2>1. three \in Nat /\ code \in Byte /\ 8 * three = 24 /\ p \in Blocks(three + 1)
    BY <1>1 DEF Byte
  <2> HIDE DEF three, code
  <2>2. front \in Blocks(three) /\ First(three, code) \in BlockType
    BY <2>1, BlocksBefore, FirstType
  <2> HIDE DEF front
  <2>3. command_mac(code, front) \in BlockType
    BY <2>1, <2>2, MacIsFold, FoldUndone
  <2> QED BY <2>1, <2>3, Zenon DEF front, code
<1>7. system = WithMac(w, [i \in {1, 2} |-> EncryptsTo(w, IF i = 1 THEN w.r1 ELSE w.r2)], pt)
  BY Zenon DEF generate_constraints
<1> DEFINE es == [i \in {1, 2} |-> EncryptsTo(w, IF i = 1 THEN w.r1 ELSE w.r2)]
<1>8. es[1] = e1 /\ es[2] = e2
  OBVIOUS
<1> HIDE DEF es, e1, e2, pt, mac, le, a1, a2, m
<1>9. pt.le = le /\ pt.ok = TRUE
  BY <1>4
<1>10. system = Constraints(w, e1, e2, pt, mac)
  BY <1>7, <1>8, <1>9, Zenon DEF WithMac, es, mac, le
<1>11. /\ e1.out = bytes_to_des_bits(a1) /\ e1.ok = TRUE
       /\ e2.out = bytes_to_des_bits(a2) /\ e2.ok = TRUE
       /\ mac.out = bytes_to_des_bits(m) /\ mac.ok = TRUE
  BY <1>3, <1>5 DEF Carried
<1> DEFINE hints == e1.ok /\ e2.ok /\ pt.ok /\ mac.ok
           c1b == e1.out = BlockWires(alloc_le_bits(w.c1b), 0)
           c2a == e2.out = BlockWires(alloc_le_bits(w.c2a), 0)
           last == mac.out = BlockWires(pt.le, 3)
           tid == slice(pt.le, 16, 48) = slice(alloc_le_bits(w.r1), 16, 48)
           idi == IdiBound(pt.le, w.idi)
<1>12. system = [hints |-> hints, c1b |-> c1b, c2a |-> c2a, mac |-> last, tid |-> tid, idi |-> idi]
  BY <1>10, Zenon DEF Constraints
<1>13. hints
  BY <1>9, <1>11
<1>14. (c1b <=> a1 = w.c1b) /\ (c2a <=> a2 = w.c2a)
  BY <1>3, <1>11, OneBlock, SameOnWires DEF WitnessTyped
<1>15. last <=> m = SubSeq(p, 25, 32)
  <2> DEFINE four == 4
             three == 3
             b == Block(p, four)
  <2>1. four \in Nat /\ p \in Blocks(four) /\ three \in 0 .. four - 1 /\ three + 1 = four
    BY <1>1
  <2>2. b \in BlockType
    <3>1. four \in Nat \ {0} /\ p \in Seq(Byte) /\ Len(p) = 32
      BY <1>1 DEF Blocks
    <3>2. 8 * four <= Len(p)
      BY <3>1
    <3> HIDE DEF four
    <3> QED BY <3>1, <3>2, BlockOf
  <2>3. b = SubSeq(p, 25, 32)
    <3>1. 8 * 4 - 7 = 25 /\ 8 * 4 = 32
      OBVIOUS
    <3> QED BY <3>1, Zenon DEF Block
  <2> HIDE DEF four, three
  <2>4. BlockWires(alloc_le_bits(p), three) = bytes_to_des_bits(Block(p, three + 1))
    BY <2>1, BlockOnWires
  <2>5. BlockWires(pt.le, 3) = bytes_to_des_bits(b)
    BY <1>9, <2>1, <2>4 DEF le, three
  <2> HIDE DEF b
  <2>6. bytes_to_des_bits(m) = bytes_to_des_bits(b) <=> m = b
    BY <1>6, <2>2, SameOnWires
  <2> QED BY <1>11, <2>3, <2>5, <2>6, Zenon
<1>16. tid <=> SubSeq(p, 3, 8) = SubSeq(w.r1, 3, 8)
  BY <1>1, <1>9, TidsOnWires DEF le, WitnessTyped
<1>17. idi <=> SubSeq(p, 9, 16) = w.idi
  <2> DEFINE four == 4
             one == 1
             two == 2
             b == Block(p, two)
  <2>1. four \in Nat /\ p \in Blocks(four) /\ one \in 0 .. four - 1 /\ one + 1 = two
    BY <1>1
  <2>2. b \in BlockType
    <3>1. two \in Nat \ {0} /\ p \in Seq(Byte) /\ Len(p) = 32
      BY <1>1 DEF Blocks
    <3>2. 8 * two <= Len(p)
      BY <3>1
    <3> HIDE DEF two
    <3> QED BY <3>1, <3>2, BlockOf
  <2>3. b = SubSeq(p, 9, 16)
    <3>1. 8 * 2 - 7 = 9 /\ 8 * 2 = 16
      OBVIOUS
    <3> QED BY <3>1, Zenon DEF Block
  <2>4. 64 * one = 64
    OBVIOUS
  <2> HIDE DEF four, one, two
  <2>5. slice(alloc_le_bits(p), 64 * one, 64) = alloc_le_bits(Block(p, one + 1))
    BY <2>1, WiresOfBlocks
  <2>6. slice(pt.le, 64, 64) = alloc_le_bits(b)
    BY <1>9, <2>1, <2>4, <2>5, Zenon DEF le
  <2> HIDE DEF b
  <2>7. w.idi \in BlockType
    BY DEF WitnessTyped
  <2>8. alloc_le_bits(b) = alloc_le_bits(w.idi) <=> b = w.idi
    BY <2>2, <2>7, SameOnWires
  <2> QED BY <2>3, <2>6, <2>8, Zenon DEF IdiBound
<1> HIDE DEF hints, c1b, c2a, last, tid, idi
<1>18. /\ DOMAIN system = {"hints", "c1b", "c2a", "mac", "tid", "idi"}
       /\ system.hints = hints /\ system.c1b = c1b /\ system.c2a = c2a /\ system.mac = last
       /\ system.tid = tid /\ system.idi = idi
  BY <1>12
<1> QED BY <1>13, <1>14, <1>15, <1>16, <1>17, <1>18, Zenon DEF a1, a2, m
=============================================================================
