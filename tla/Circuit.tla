------------------------------ MODULE Circuit -------------------------------
(***************************************************************************)
(* The session circuit of prover/src/circuit.rs, on the bits of a witness, *)
(* and the checks prove makes before it synthesises it (prover/src/lib.rs).*)
(*                                                                         *)
(* Wires hold bits least significant first within a byte; the cipher takes *)
(* them most significant first.  A gadget does not compute its S-boxes: it *)
(* allocates their outputs from a native run of the cipher beside it, on   *)
(* bytes that are passed to it next to the wires, and constrains each      *)
(* output to the polynomial of the box on the input wires.                 *)
(***************************************************************************)
EXTENDS Des

alloc_le_bits(bytes) ==
  {p \in 0 .. 8 * Len(bytes) - 1 : (bytes[p \div 8 + 1] \div 2 ^ (p % 8)) % 2 = 1}

\* Faulty: the bytes of a wire are reversed along with their bits.
le_to_des_reversed(le, n) == {k \in 0 .. n - 1 : n - 1 - k \in le}

le_to_des(le, n) == {k \in 0 .. n - 1 : 8 * (k \div 8) + (7 - (k % 8)) \in le}

des_to_le(des) == {8 * (k \div 8) + (7 - (k % 8)) : k \in des}

round_key_vars(key_le) == round_keys(le_to_des(key_le, 64))

\* The six inputs of box b.
Chunk(xored, b) == slice(xored, 6 * b, 6)

\* One round on the wires l and r and the native halves beside them: the boxes
\* put out what the native ones do, and ok says whether their polynomials hold.
GadgetRound(s, rk, native) ==
  LET xored == xor(permute(s.r, E), rk)
      xored_nat == xor(permute(s.nat.r, E), native)
      Same(b) == sbox_lookup(b + 1, Chunk(xored, b))
                   = sbox_lookup(b + 1, Chunk(xored_nat, b))
  IN [l |-> s.r,
      r |-> xor(s.l, feistel(s.nat.r, native)),
      nat |-> Round(s.nat, native),
      ok |-> s.ok /\ \A b \in 0 .. 7 : Same(b)]

Wires == [l : SUBSET (0 .. 31), r : SUBSET (0 .. 31), nat : HalvesType, ok : BOOLEAN]

GadgetRounds(wires, keys, native) ==
  Iterate([i \in 1 .. 16 |-> [s \in Wires |-> GadgetRound(s, keys[i], native[i])]],
          16, Wires)[wires]

Beside(halves, native) == [l |-> halves.l, r |-> halves.r, nat |-> native, ok |-> TRUE]

Result(wires) == [out |-> Output(wires), ok |-> wires.ok]

des_gadget(data, key_le, encrypt, witness_data, witness_key) ==
  Result(GadgetRounds(
    Beside(Halves(data), Halves(bytes_to_des_bits(witness_data))),
    KeyOrder(round_key_vars(key_le), encrypt),
    KeyOrder(round_keys(bytes_to_des_bits(witness_key)), encrypt)))

\* A gadget on the output of another, with the bytes computed beside it.
Output_and_bytes == [out : Bits64, bytes : BlockType, ok : BOOLEAN]

Extend(ok, gadget, bytes) ==
  [out |-> gadget.out, bytes |-> bytes, ok |-> ok /\ gadget.ok]

\* Faulty: the native bytes of the next call are those of this one.
Chain_stale(s, key_le, encrypt, key) ==
  Extend(s.ok, des_gadget(s.out, key_le, encrypt, s.bytes, key), s.bytes)

Chain(s, key_le, encrypt, key) ==
  Extend(s.ok, des_gadget(s.out, key_le, encrypt, s.bytes, key),
         des_block(s.bytes, key, encrypt))

tdes_encrypt_gadget(data, k1_le, k2_le, w_data, w_k1, w_k2) ==
  Iterate([i \in 1 .. 3 |-> [s \in Output_and_bytes |->
             Chain(s, IF i = 2 THEN k2_le ELSE k1_le, i # 2, IF i = 2 THEN w_k2 ELSE w_k1)]],
          3, Output_and_bytes)[[out |-> data, bytes |-> w_data, ok |-> TRUE]]

-----------------------------------------------------------------------------
(* The constraints over one session                                        *)

BlockWires(le, i) == le_to_des(slice(le, 64 * i, 64), 64)

Unchained(auth2_le, raw) ==
  [le |-> UNION {after(64 * i, des_to_le(xor(raw[i].out,
                   IF i = 0 THEN {} ELSE BlockWires(auth2_le, i - 1)))) : i \in 0 .. 3},
   ok |-> \A i \in 0 .. 3 : raw[i].ok]

\* The plaintext of AUTH2 on wires: the decrypted blocks, each xored with the
\* ciphertext before it.
Plaintext(auth2_le, r2_le, auth2, r2) ==
  Unchained(auth2_le,
    [i \in 0 .. 3 |->
       des_gadget(BlockWires(auth2_le, i), r2_le, FALSE, Block(auth2, i + 1), r2)])

\* The MAC folded over the three blocks of the plaintext's payload; its first
\* block is a constant.
MacWires(pt_le, pt_native) ==
  LET m0 == <<34, 19, 0, 0, 0, 0, 0, 0>>
  IN Iterate([i \in 1 .. 3 |-> [m \in Output_and_bytes |->
                Chain(m, slice(pt_le, 64 * (i - 1), 64), TRUE, Block(pt_native, i))]],
             3, Output_and_bytes)[[out |-> BlockWires(alloc_le_bits(m0), 0), bytes |-> m0,
                                   ok |-> TRUE]]

\* Faulty: the last byte of IDi is not compared.
IdiBound_seven(pt_le, idi) == slice(pt_le, 64, 56) = slice(alloc_le_bits(idi), 0, 56)

\* The second block of the plaintext is the IDi that is published.
IdiBound(pt_le, idi) == slice(pt_le, 64, 64) = alloc_le_bits(idi)

Constraints(w, e1, e2, pt, mac) ==
  [hints |-> e1.ok /\ e2.ok /\ pt.ok /\ mac.ok,
   c1b |-> e1.out = BlockWires(alloc_le_bits(w.c1b), 0),
   c2a |-> e2.out = BlockWires(alloc_le_bits(w.c2a), 0),
   mac |-> mac.out = BlockWires(pt.le, 3),
   tid |-> slice(pt.le, 16, 48) = slice(alloc_le_bits(w.r1), 16, 48),
   idi |-> IdiBound(pt.le, w.idi)]

EncryptsTo(w, r) ==
  tdes_encrypt_gadget(BlockWires(alloc_le_bits(r), 0), alloc_le_bits(w.l),
                      alloc_le_bits(w.beta), r, w.l, w.beta)

WithMac(w, e, pt) ==
  Constraints(w, e[1], e[2], pt, MacWires(pt.le, cbc_decrypt(w.auth2, w.r2)))

\* What the constraint system says of witness w, constraint by constraint.
generate_constraints(w) ==
  WithMac(w, [i \in {1, 2} |-> EncryptsTo(w, IF i = 1 THEN w.r1 ELSE w.r2)],
          Plaintext(alloc_le_bits(w.auth2), alloc_le_bits(w.r2), w.auth2, w.r2))

is_satisfied(constraints) == \A c \in DOMAIN constraints : constraints[c]

-----------------------------------------------------------------------------
(* The checks before the proof                                             *)

LBeta(l, k_user) == [l |-> l, beta |-> des_encrypt(l, des_encrypt(k_user, l))]

Recovered(keys, wire) ==
  [l |-> keys.l, beta |-> keys.beta,
   r1 |-> tdes_decrypt(wire.c1b, keys.l, keys.beta),
   r2 |-> tdes_decrypt(wire.c2a, keys.l, keys.beta)]

Reencrypts(r, keys, c) == tdes_encrypt(r, keys.l, keys.beta) = c

\* Faulty: the TID is compared with the wrong end of r1.
Checked_head(wire, s, pt) ==
  IF command_mac(19, SubSeq(pt, 1, 24)) # SubSeq(pt, 25, 32) THEN [err |-> "MacMismatch"]
  ELSE IF SubSeq(pt, 3, 8) # SubSeq(s.r1, 1, 6) THEN [err |-> "TidMismatch"]
  ELSE [err |-> "none", l |-> s.l, beta |-> s.beta, r1 |-> s.r1, r2 |-> s.r2,
        idi |-> SubSeq(pt, 9, 16)]

Checked(wire, s, pt) ==
  IF \E c \in {<<s.r1, wire.c1b>>, <<s.r2, wire.c2a>>} : ~Reencrypts(c[1], s, c[2])
  THEN [err |-> "C1bMismatch"]
  ELSE IF command_mac(19, SubSeq(pt, 1, 24)) # SubSeq(pt, 25, 32) THEN [err |-> "MacMismatch"]
  ELSE IF SubSeq(pt, 3, 8) # SubSeq(s.r1, 3, 8) THEN [err |-> "TidMismatch"]
  ELSE [err |-> "none", l |-> s.l, beta |-> s.beta, r1 |-> s.r1, r2 |-> s.r2,
        idi |-> SubSeq(pt, 9, 16)]

CheckedFor(wire, s) == Checked(wire, s, cbc_decrypt(wire.auth2, s.r2))

\* What prove recovers and checks, and the private values of its witness.
precheck(k_group, k_user, wire) ==
  CheckedFor(wire, Recovered(LBeta(xor_bytes(k_group, wire.idm), k_user), wire))
=============================================================================
