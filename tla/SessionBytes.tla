---------------------------- MODULE SessionBytes ----------------------------
(***************************************************************************)
(* One session on real bytes: the card and the oracle authenticate, the    *)
(* holder's copy of what went over the wire may lose a byte, and three     *)
(* implementations of the same verification judge it: verify_session with  *)
(* the des crate (server/src/oracle), the checks of prove with des.rs, and *)
(* the circuit, on the witness prove recovered or on one with a wrong      *)
(* byte.  attest runs the first two in order; the tests of the prover run  *)
(* each of them alone, as is done here.                                    *)
(***************************************************************************)
EXTENDS Frames, Circuit

CONSTANTS
  KGroup, KUser,  \* the keys of the service
  Card,           \* [idm, idi, pmi, r1, r2, tn]: a card and the challenges drawn
  Element,        \* <<service index, block number>> of the Reads
  BlockData,      \* the 16 bytes of every block
  Masks,          \* what a byte that is hit is xored with: sets of its bits
  HitsOn          \* what is on the wire -> positions of it that may be hit

CardType ==
  [idm : BlockType, idi : BlockType, pmi : BlockType, r1 : BlockType, r2 : BlockType,
   tn : Byte]

ASSUME SessionType ==
  /\ Card \subseteq CardType /\ Element \subseteq Byte \X Byte
  /\ BlockData \in [1 .. 16 -> Byte]

VARIABLES
  card, element,
  stage,     \* what is next to go over the wire, or "judged"
  wire,      \* idm, c1b, c2a, auth2, ecmd and resp as the holder has them
  hit,       \* the part of it that was hit, or "nothing"
  forged,    \* <<part, byte, mask>>: what of the witness is wrong, or Sound
  oracle,    \* verdict of verify_session
  prover,    \* verdict of prove before it proves
  circuit,   \* verdict of the constraint system
  read       \* verdict of decrypt_read_response

verdicts == <<forged, oracle, prover, circuit, read>>
sessionVars == <<card, element, stage, wire, hit, verdicts>>

Pending == [err |-> "pending"]

Sound == <<"nothing", 0, {}>>

tail(b) == SubSeq(b, 3, 8)

-----------------------------------------------------------------------------
(* The session *)

KeysOf(c) == derive(KGroup, KUser, c.idm)

\* c1a as the oracle sends it, and r1 as the card reads it.
c1a(c, keys) == tdes_encrypt(c.r1, keys.alpha, keys.l)
CardR1(sent, keys) == tdes_decrypt(sent, keys.alpha, keys.l)

\* AUTH2, once the card has accepted c2b.
CardAuth2(c, tid) ==
  encrypt_command(AUTH2_CODE, c.r2, <<c.tn, 0>> \o tid \o c.idi \o c.pmi)

\* The card executes a Read that opens under r2 with a TN it has not seen.
Executes(c, tid, data) ==
  /\ check_mac(data, READ_COMMAND_CODE)
  /\ data[1] > c.tn
  /\ SubSeq(data, 3, 8) = tid

CardAnswer(c, tid, data) ==
  IF Executes(c, tid, data)
  THEN encrypt_command(READ_RESPONSE_CODE, c.r2,
         <<data[1] + 1, 0>> \o tid \o <<0, 0, 1>> \o BlockData)
  ELSE <<>>

CardRead(c, tid, sent) == CardAnswer(c, tid, cbc_decrypt(sent, c.r2))

\* settle, once c1b has been found to be the answer to r1: the oracle opens r2
\* from c2a and seals the one command of the session.
SettleUnder(keys, c, e, w) ==
  IF tdes_encrypt(c.r1, keys.l, keys.beta) # w.c1b THEN <<>>
  ELSE encrypt_command(READ_COMMAND_CODE, tdes_decrypt(w.c2a, keys.l, keys.beta),
         build_cmd_payload(tail(c.r1), read_block_payload(e[1], e[2])))

settle(c, e, w) == SettleUnder(derive(KGroup, KUser, w.idm), c, e, w)

SessionInit ==
  /\ card \in Card /\ element \in Element
  /\ stage = "auth2" /\ hit = "nothing" /\ forged = Sound
  /\ wire = Pending
  /\ oracle = Pending /\ prover = Pending /\ circuit = Pending /\ read = Pending

Answers(c, keys, r1) ==
  [idm |-> c.idm,
   c1b |-> tdes_encrypt(r1, keys.l, keys.beta),
   c2a |-> tdes_encrypt(c.r2, keys.l, keys.beta),
   auth2 |-> CardAuth2(c, tail(r1)),
   ecmd |-> <<>>, resp |-> <<>>]

\* The keys, c1a and r1 one after the other.
Authenticate ==
  /\ stage = "auth2" /\ stage' = "ecmd"
  /\ \E keys \in {KeysOf(card)} : \E sent \in {c1a(card, keys)} :
       \E r1 \in {CardR1(sent, keys)} : wire' = Answers(card, keys, r1)
  /\ UNCHANGED <<card, element, hit, verdicts>>

Settle ==
  /\ stage = "ecmd" /\ stage' = "resp"
  /\ wire' = [wire EXCEPT !.ecmd = settle(card, element, wire)]
  /\ UNCHANGED <<card, element, hit, verdicts>>

Respond ==
  /\ stage = "resp" /\ stage' = "judged"
  /\ wire' = [wire EXCEPT !.resp = CardRead(card, tail(card.r1), wire.ecmd)]
  /\ UNCHANGED <<card, element, hit, verdicts>>

FlipByte(bytes, i, mask) ==
  [bytes EXCEPT ![i] = ValueOf(xor(bits_of(@, 8), mask), 8)]

\* The holder's copy of what came last loses a byte.
Hit(f, i, mask) ==
  /\ hit = "nothing" /\ oracle = Pending
  /\ \/ stage = "ecmd" /\ f \in {"idm", "c1b", "c2a", "auth2"}
     \/ stage = "resp" /\ f = "ecmd"
     \/ stage = "judged" /\ f = "resp"
  /\ i \in HitsOn[f] \cap DOMAIN wire[f]
  /\ wire' = [wire EXCEPT ![f] = FlipByte(@, i, mask)]
  /\ hit' = f
  /\ UNCHANGED <<card, element, stage, verdicts>>

VerifySession ==
  /\ stage = "judged" /\ oracle = Pending
  /\ oracle' = verify_session(KGroup, KUser, wire)
  /\ UNCHANGED <<card, element, stage, wire, hit, forged, prover, circuit, read>>

Precheck ==
  /\ oracle # Pending /\ prover = Pending
  /\ prover' = precheck(KGroup, KUser, wire)
  /\ UNCHANGED <<card, element, stage, wire, hit, forged, oracle, circuit, read>>

WitnessOf(s) ==
  [c1b |-> wire.c1b, c2a |-> wire.c2a, auth2 |-> wire.auth2,
   l |-> s.l, beta |-> s.beta, r1 |-> s.r1, r2 |-> s.r2,
   idi |-> SubSeq(cbc_decrypt(wire.auth2, s.r2), 9, 16)]

\* The witness prove builds, before anything in it is wrong.
Witness ==
  WitnessOf(Recovered(LBeta(xor_bytes(KGroup, wire.idm), KUser), wire))

Altered(w, wrong) ==
  IF wrong = Sound THEN w ELSE [w EXCEPT ![wrong[1]] = FlipByte(@, wrong[2], wrong[3])]

Private == {"l", "beta"}
Published == {"r1", "r2", "idi"}

\* Any byte of what is not taken from the wire.
Forgeries == (Private \cup Published) \X (1 .. 8) \X Masks

\* check_satisfiable on that witness, or, after a session that was not hit, on one
\* in which a byte is wrong.
CheckSatisfiable(wrong) ==
  /\ prover # Pending /\ circuit = Pending
  /\ wrong # Sound => hit = "nothing"
  /\ circuit' = generate_constraints(Altered(Witness, wrong))
  /\ forged' = wrong
  /\ UNCHANGED <<card, element, stage, wire, hit, oracle, prover, read>>

\* The holder decrypts the answer to the Read with what attest published.
ReadResponse ==
  /\ circuit # Pending /\ prover.err = "none" /\ read = Pending
  /\ read' = decrypt_read_response(prover.r2, tail(prover.r1), wire.resp)
  /\ UNCHANGED <<card, element, stage, wire, hit, forged, oracle, prover, circuit>>

SessionNext ==
  \/ Authenticate
  \/ Settle
  \/ Respond
  \/ \E f \in DOMAIN HitsOn, mask \in Masks : \E i \in HitsOn[f] : Hit(f, i, mask)
  \/ VerifySession
  \/ Precheck
  \/ \E wrong \in {Sound} \cup Forgeries : CheckSatisfiable(wrong)
  \/ ReadResponse

SessionSpec == SessionInit /\ [][SessionNext]_sessionVars

-----------------------------------------------------------------------------
Accepted(verdict) == verdict.err = "none"

\* verify_session (oracle/mod.rs) and prove (lib.rs: "mirroring ... verify_session")
\* accept the same sessions, for the same reasons and with the same r1, r2 and
\* IDi: the one unfolds the MAC with the des crate, the other folds it natively.
VerifiersAgree ==
  oracle # Pending /\ prover # Pending =>
    /\ oracle.err = prover.err
    /\ Accepted(oracle) => /\ oracle.r1 = prover.r1 /\ oracle.r2 = prover.r2
                           /\ oracle.idi = prover.idi

\* The circuit re-enforces what prove checks (lib.rs "Native pre-checks mirror the
\* circuit"): the recovered witness satisfies it exactly when prove would go on.
CircuitMirrorsChecks ==
  circuit # Pending /\ forged = Sound =>
    (is_satisfied(circuit) <=> Accepted(prover))

\* A session is refused by a constraint of its own, never by the native values
\* that stand beside the wires of a gadget (circuit.rs des_gadget).
HintsFollowWires == circuit # Pending => circuit.hints

OnTheWay == {"idm", "c1b", "c2a", "auth2"}

\* Between an honest card and the oracle every session is accepted, with the card's
\* challenges and IDi and whatever the TN of AUTH2; the Read is executed and its
\* answer read back when its TN is the card's next (schedule.rs ECMD_TN,
\* decrypt_read_response).
GenuineGoesThrough ==
  /\ oracle # Pending /\ hit \notin OnTheWay =>
       oracle = [err |-> "none", r1 |-> card.r1, r2 |-> card.r2, idi |-> card.idi]
  /\ read # Pending /\ hit = "nothing" =>
       read = IF card.tn > 0 THEN [err |-> "Malformed"] ELSE [err |-> "none", data |-> BlockData]

\* Nothing else does: one byte lost on the way is noticed before anything is proved,
\* or as the answer is read; and a satisfied circuit binds r1, r2 and IDi to what
\* prove recovers, and the keys up to their parity bits.
OnlyTheGenuine ==
  /\ oracle # Pending /\ hit \in OnTheWay => ~Accepted(oracle)
  /\ read # Pending /\ hit # "nothing" =>
       read = [err |-> IF hit = "ecmd" THEN "Malformed" ELSE "MacMismatch"]
  /\ circuit # Pending /\ forged # Sound =>
       (is_satisfied(circuit) <=> forged[1] \in Private /\ forged[3] \subseteq {7})
=============================================================================
