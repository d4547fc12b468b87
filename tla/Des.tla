-------------------------------- MODULE Des ---------------------------------
(***************************************************************************)
(* The native DES of prover/src/des.rs: single DES, two-key 3DES, CBC      *)
(* decryption and the command MAC, on real bytes.                          *)
(*                                                                         *)
(* A block is a sequence of 8 bytes.  A bit string, which the source keeps *)
(* as an array of bool, is the set of the positions that are true: bit 0   *)
(* is the most significant bit of the first byte.                          *)
(***************************************************************************)
EXTENDS Loops, Sequences

IP ==
  <<57, 49, 41, 33, 25, 17, 9, 1, 59, 51, 43, 35, 27, 19, 11, 3, 61, 53, 45,
    37, 29, 21, 13, 5, 63, 55, 47, 39, 31, 23, 15, 7, 56, 48, 40, 32, 24, 16,
    8, 0, 58, 50, 42, 34, 26, 18, 10, 2, 60, 52, 44, 36, 28, 20, 12, 4, 62,
    54, 46, 38, 30, 22, 14, 6>>

E ==
  <<31, 0, 1, 2, 3, 4, 3, 4, 5, 6, 7, 8, 7, 8, 9, 10, 11, 12, 11, 12, 13, 14,
    15, 16, 15, 16, 17, 18, 19, 20, 19, 20, 21, 22, 23, 24, 23, 24, 25, 26,
    27, 28, 27, 28, 29, 30, 31, 0>>

P ==
  <<15, 6, 19, 20, 28, 11, 27, 16, 0, 14, 22, 25, 4, 17, 30, 9, 1, 7, 23, 13,
    31, 26, 2, 8, 18, 12, 29, 5, 21, 10, 3, 24>>

PC1 ==
  <<56, 48, 40, 32, 24, 16, 8, 0, 57, 49, 41, 33, 25, 17, 9, 1, 58, 50, 42,
    34, 26, 18, 10, 2, 59, 51, 43, 35, 62, 54, 46, 38, 30, 22, 14, 6, 61, 53,
    45, 37, 29, 21, 13, 5, 60, 52, 44, 36, 28, 20, 12, 4, 27, 19, 11, 3>>

PC2 ==
  <<13, 16, 10, 23, 0, 4, 2, 27, 14, 5, 20, 9, 22, 18, 11, 3, 25, 7, 15, 6,
    26, 19, 12, 1, 40, 51, 30, 36, 46, 54, 29, 39, 50, 44, 32, 47, 43, 48, 38,
    55, 33, 52, 45, 41, 49, 35, 28, 31>>

SHIFTS ==
  <<1, 1, 2, 2, 2, 2, 2, 2, 1, 2, 2, 2, 2, 2, 2, 1>>

SBOX == <<
  <<14, 4, 13, 1, 2, 15, 11, 8, 3, 10, 6, 12, 5, 9, 0, 7, 0, 15, 7, 4, 14, 2,
    13, 1, 10, 6, 12, 11, 9, 5, 3, 8, 4, 1, 14, 8, 13, 6, 2, 11, 15, 12, 9, 7,
    3, 10, 5, 0, 15, 12, 8, 2, 4, 9, 1, 7, 5, 11, 3, 14, 10, 0, 6, 13>>,
  <<15, 1, 8, 14, 6, 11, 3, 4, 9, 7, 2, 13, 12, 0, 5, 10, 3, 13, 4, 7, 15, 2,
    8, 14, 12, 0, 1, 10, 6, 9, 11, 5, 0, 14, 7, 11, 10, 4, 13, 1, 5, 8, 12, 6,
    9, 3, 2, 15, 13, 8, 10, 1, 3, 15, 4, 2, 11, 6, 7, 12, 0, 5, 14, 9>>,
  <<10, 0, 9, 14, 6, 3, 15, 5, 1, 13, 12, 7, 11, 4, 2, 8, 13, 7, 0, 9, 3, 4,
    6, 10, 2, 8, 5, 14, 12, 11, 15, 1, 13, 6, 4, 9, 8, 15, 3, 0, 11, 1, 2, 12,
    5, 10, 14, 7, 1, 10, 13, 0, 6, 9, 8, 7, 4, 15, 14, 3, 11, 5, 2, 12>>,
  <<7, 13, 14, 3, 0, 6, 9, 10, 1, 2, 8, 5, 11, 12, 4, 15, 13, 8, 11, 5, 6, 15,
    0, 3, 4, 7, 2, 12, 1, 10, 14, 9, 10, 6, 9, 0, 12, 11, 7, 13, 15, 1, 3, 14,
    5, 2, 8, 4, 3, 15, 0, 6, 10, 1, 13, 8, 9, 4, 5, 11, 12, 7, 2, 14>>,
  <<2, 12, 4, 1, 7, 10, 11, 6, 8, 5, 3, 15, 13, 0, 14, 9, 14, 11, 2, 12, 4, 7,
    13, 1, 5, 0, 15, 10, 3, 9, 8, 6, 4, 2, 1, 11, 10, 13, 7, 8, 15, 9, 12, 5,
    6, 3, 0, 14, 11, 8, 12, 7, 1, 14, 2, 13, 6, 15, 0, 9, 10, 4, 5, 3>>,
  <<12, 1, 10, 15, 9, 2, 6, 8, 0, 13, 3, 4, 14, 7, 5, 11, 10, 15, 4, 2, 7, 12,
    9, 5, 6, 1, 13, 14, 0, 11, 3, 8, 9, 14, 15, 5, 2, 8, 12, 3, 7, 0, 4, 10,
    1, 13, 11, 6, 4, 3, 2, 12, 9, 5, 15, 10, 11, 14, 1, 7, 6, 0, 8, 13>>,
  <<4, 11, 2, 14, 15, 0, 8, 13, 3, 12, 9, 7, 5, 10, 6, 1, 13, 0, 11, 7, 4, 9,
    1, 10, 14, 3, 5, 12, 2, 15, 8, 6, 1, 4, 11, 13, 12, 3, 7, 14, 10, 15, 6,
    8, 0, 5, 9, 2, 6, 11, 13, 8, 1, 4, 10, 7, 9, 5, 0, 15, 14, 2, 3, 12>>,
  <<13, 2, 8, 4, 6, 15, 11, 1, 10, 9, 3, 14, 5, 0, 12, 7, 1, 15, 13, 8, 10, 3,
    7, 4, 12, 5, 6, 11, 0, 14, 9, 2, 7, 11, 4, 1, 9, 12, 14, 2, 0, 6, 10, 13,
    15, 3, 5, 8, 2, 1, 14, 7, 4, 10, 8, 13, 15, 12, 9, 0, 3, 5, 6, 11>>>>

\* What the construction of the cipher takes from its tables: IP and FP undo
\* each other, and PC1 leaves out the last bit of every byte.
Parity == {7, 15, 23, 31, 39, 47, 55, 63}

ASSUME IPPermutes == /\ DOMAIN IP = 1 .. 64
                     /\ \A i \in 1 .. 64 : IP[i] \in 0 .. 63
                     /\ \A v \in 0 .. 63 : \E i \in 1 .. 64 : IP[i] = v
                     /\ \A i, j \in 1 .. 64 : IP[i] = IP[j] => i = j
ASSUME TableLengths == Len(P) = 32 /\ Len(IP) = 64 /\ Len(PC2) = 48
ASSUME PC1SkipsParity == \A i \in DOMAIN PC1 : PC1[i] \notin Parity

-----------------------------------------------------------------------------
(* Bits *)

Byte == 0 .. 255

permute(bits, table) == {i \in 0 .. Len(table) - 1 : table[i + 1] \in bits}

xor(a, b) == (a \ b) \cup (b \ a)

\* The n bits of v from position from on, and v moved up by n positions.
slice(v, from, n) == {i \in 0 .. n - 1 : from + i \in v}
after(n, v) == {n + i : i \in v}

bytes_to_des_bits(block) ==
  {k \in 0 .. 8 * Len(block) - 1 :
     (block[k \div 8 + 1] \div 2 ^ (7 - (k % 8))) % 2 = 1}

\* The value of a string of n bits, the first one weighing most.
ValueOf(bits, n) ==
  Iterate([i \in 1 .. n |-> [v \in Nat |-> 2 * v + IF i - 1 \in bits THEN 1 ELSE 0]],
          n, Nat)[0]

des_bits_to_bytes(bits) == [i \in 1 .. 8 |-> ValueOf(slice(bits, 8 * (i - 1), 8), 8)]

\* The first and last bit of six choose the row, the four between the column.
sbox_lookup(b, bits) ==
  LET row == ValueOf({i \in {0, 1} : 5 * i \in bits}, 2)
      col == ValueOf(slice(bits, 1, 4), 4)
  IN SBOX[b][row * 16 + col + 1]

\* The n bits of a value, the first one weighing most.
bits_of(value, n) == {i \in 0 .. n - 1 : (value \div 2 ^ (n - 1 - i)) % 2 = 1}

rotl28(v, n) == {i \in 0 .. 27 : (i + n) % 28 \in v}

-----------------------------------------------------------------------------
(* The cipher, on bits *)

\* Faulty: the first 56 bits of the key are taken, not those PC1 chooses.
round_keys_whole(key) ==
  LET total[i \in 0 .. 16] == IF i = 0 THEN 0 ELSE total[i - 1] + SHIFTS[i]
  IN [i \in 1 .. 16 |->
        permute(rotl28(slice(key, 0, 28), total[i])
                  \cup after(28, rotl28(slice(key, 28, 28), total[i])), PC2)]

\* Both halves are rotated once more for each round key.
round_keys(key) ==
  LET pc1 == permute(key, PC1)
      total[i \in 0 .. 16] == IF i = 0 THEN 0 ELSE total[i - 1] + SHIFTS[i]
  IN [i \in 1 .. 16 |->
        permute(rotl28(slice(pc1, 0, 28), total[i])
                  \cup after(28, rotl28(slice(pc1, 28, 28), total[i])), PC2)]

feistel(r, k) ==
  LET xored == xor(permute(r, E), k)
      nibble(b) == bits_of(sbox_lookup(b + 1, slice(xored, 6 * b, 6)), 4)
  IN permute(UNION {after(4 * b, nibble(b)) : b \in 0 .. 7}, P)

\* Faulty: decryption uses the keys in the order encryption does.
KeyOrder_forward(keys, encrypt) == [i \in 1 .. 16 |-> keys[i]]

\* The keys in the order the rounds use them.
KeyOrder(keys, encrypt) == [i \in 1 .. 16 |-> keys[IF encrypt THEN i ELSE 17 - i]]

Halves(bits) == LET ip == permute(bits, IP)
                IN [l |-> slice(ip, 0, 32), r |-> slice(ip, 32, 32)]

Round(h, k) == [l |-> h.r, r |-> xor(h.l, feistel(h.r, k))]

\* fp_table, the inverse of IP.
FP == [v \in 1 .. 64 |-> (CHOOSE i \in 1 .. 64 : IP[i] = v - 1) - 1]

\* Faulty: the halves change places after the last round too.
Output_swapped(h) == permute(h.l \cup after(32, h.r), FP)

\* There is no final swap: the right half leads.
Output(h) == permute(h.r \cup after(32, h.l), FP)

Bits64 == SUBSET (0 .. 63)

HalvesType == [l : SUBSET (0 .. 31), r : SUBSET (0 .. 31)]

Rounds(halves, keys) ==
  Iterate([i \in 1 .. 16 |-> [h \in HalvesType |-> Round(h, keys[i])]],
          16, HalvesType)[halves]

\* Applied to it, so that TLC computes the schedule before the rounds, not in them.
Schedules == [1 .. 16 -> SUBSET Nat]
Under(halves) == [keys \in Schedules |-> Rounds(halves, keys)]

des_bits(data, key, encrypt) ==
  Output(Under(Halves(data))[KeyOrder(round_keys(key), encrypt)])

-----------------------------------------------------------------------------
(* The cipher, on bytes *)

des_block(data, key, encrypt) ==
  des_bits_to_bytes(des_bits(bytes_to_des_bits(data), bytes_to_des_bits(key),
                             encrypt))

des_encrypt(data, key) == des_block(data, key, TRUE)

des_decrypt(data, key) == des_block(data, key, FALSE)

tdes_encrypt(data, k1, k2) ==
  des_encrypt(des_decrypt(des_encrypt(data, k1), k2), k1)

tdes_decrypt(data, k1, k2) ==
  des_decrypt(des_encrypt(des_decrypt(data, k1), k2), k1)

-----------------------------------------------------------------------------
(* CBC and the command MAC *)

Block(data, i) == SubSeq(data, 8 * i - 7, 8 * i)

ZeroBlock == [i \in 1 .. 8 |-> 0]

xor_bytes(a, b) ==
  des_bits_to_bytes(xor(bytes_to_des_bits(a), bytes_to_des_bits(b)))

BlockType == [1 .. 8 -> Byte]

\* Under a zero IV; data is a whole number of blocks.
cbc_decrypt(data, key) ==
  LET plain(i) == xor_bytes(des_decrypt(Block(data, i), key),
                            IF i = 1 THEN ZeroBlock ELSE Block(data, i - 1))
      n == Len(data) \div 8
  IN Iterate([i \in 1 .. n |-> [out \in Seq(Byte) |-> out \o plain(i)]], n, Seq(Byte))[<<>>]

\* The first block holds the frame's length and opcode; each block of the
\* payload is then the key of one encryption.
command_mac(code, padded) ==
  LET n == Len(padded) \div 8
  IN Iterate([i \in 1 .. n |-> [mac \in BlockType |-> des_encrypt(mac, Block(padded, i))]],
             n, BlockType)[[ZeroBlock EXCEPT ![1] = (2 + Len(padded) + 8) % 256, ![2] = code]]
=============================================================================
