---------------------------- MODULE PublicInputs ----------------------------
(***************************************************************************)
(* From prove to verify_attestation (prover/src/lib.rs): how a session is  *)
(* packed into eight elements of the scalar field, what goes over the wire *)
(* of them, what the client rebuilds from the reply                        *)
(* (server/examples/rpc_attest.rs) and what is verified of that.           *)
(*                                                                         *)
(* Eight bytes are a number below Base, whatever Base is, sixteen a number *)
(* below its square and 32 one below its fourth power; the order of the    *)
(* field lies between the last two.  Groth16 is perfect: a proof verifies  *)
(* under the key and for the inputs it was made for, and for no others.    *)
(***************************************************************************)
EXTENDS Integers, Sequences, FiniteSets

CONSTANTS
  Base, Prime,
  Key,       \* ceremonies: a verifying key goes with one proving key
  Session,   \* [r1, c1b, c2a, auth2, idi, r2] of the sessions attested
  Cm,        \* the 32 bytes of a commitment, as they are submitted
  Time,      \* attested_at
  Value,     \* what an altered string reads as
  MaxIssued  \* bound: attestations in a behaviour

ASSUME WidthsType == /\ Base \in Nat \ {0} /\ Prime \in Nat
                     /\ Base * Base <= Prime
ASSUME SessionType ==
  Session \subseteq [r1 : 0 .. Base - 1, c1b : 0 .. Base - 1, c2a : 0 .. Base - 1,
                     auth2 : 0 .. Base * Base * Base * Base - 1,
                     idi : 0 .. Base - 1, r2 : 0 .. Base - 1]
ASSUME TimeType == Cm \subseteq Nat /\ Time \subseteq 0 .. Base - 1
ASSUME ValueType == Value \subseteq Nat
ASSUME BoundType == MaxIssued \in Nat

VARIABLES
  issued,   \* [key, wire, att]: what was proved, and the attestation of it
  held,     \* the attestation to be verified, or None
  source,   \* what it was rebuilt from, or None
  changed,  \* what of it was changed since, or "nothing"
  verdict   \* [vk, accepted] once it was verified, or None

vars == <<issued, held, source, changed, verdict>>

None == [is |-> "none"]
Garbage == [is |-> "garbage"]

-----------------------------------------------------------------------------
(* The packing *)

fr_from_le(n) == n % Prime

\* Faulty: the two halves of pi6 overlap.
public_inputs_fr_joined(w) ==
  <<fr_from_le(w.r1), fr_from_le(w.c1b), fr_from_le(w.c2a),
    fr_from_le(w.auth2 % (Base * Base)), fr_from_le(w.auth2 \div (Base * Base)),
    fr_from_le(w.cm), fr_from_le(w.idi + w.r2), w.attested_at>>

public_inputs_fr(w) ==
  <<fr_from_le(w.r1), fr_from_le(w.c1b), fr_from_le(w.c2a),
    fr_from_le(w.auth2 % (Base * Base)), fr_from_le(w.auth2 \div (Base * Base)),
    fr_from_le(w.cm), fr_from_le(w.idi + Base * w.r2), w.attested_at>>

\* A hex string: the number its first 32 bytes make, and its length against 32.
fr_to_hex(f) == [value |-> f, bytes |-> "exact"]

\* Faulty: a number beyond the order is reduced instead of being refused.
parses_reduced(s) == s.bytes # "short"

\* deserialize_compressed wants 32 bytes below the order and looks no further.
parses(s) == s.bytes # "short" /\ s.value < Prime

parse_fr(s) == fr_from_le(s.value)

-----------------------------------------------------------------------------
(* Proving, the wire and the client *)

wire_of(s, cm, t) ==
  [r1 |-> s.r1, c1b |-> s.c1b, c2a |-> s.c2a, auth2 |-> s.auth2, cm |-> cm,
   idi |-> s.idi, r2 |-> s.r2, attested_at |-> t]

prove(key, w) ==
  LET pis == public_inputs_fr(w)
  IN [idi |-> w.idi, r2 |-> w.r2, cm_out |-> w.cm, attested_at |-> w.attested_at,
      points |-> [key |-> key, of |-> pis],
      public_inputs |-> [i \in 1 .. 8 |-> fr_to_hex(pis[i])]]

\* AttestResponse has no cm_out: the client fills in zeros, or its own commitment
\* where it has one.
to_attestation(reply, cm) == [reply EXCEPT !.cm_out = cm]

\* Faulty: the length is still that of the packing before it was made denser.
verify_attestation_seven(vk, att) ==
  /\ Len(att.public_inputs) = 7
  /\ att.points # Garbage
  /\ \A i \in DOMAIN att.public_inputs : parses(att.public_inputs[i])
  /\ att.points = [key |-> vk, of |-> [i \in 1 .. 8 |-> parse_fr(att.public_inputs[i])]]

verify_attestation(vk, att) ==
  /\ Len(att.public_inputs) = 8
  /\ att.points # Garbage
  /\ \A i \in DOMAIN att.public_inputs : parses(att.public_inputs[i])
  /\ att.points = [key |-> vk, of |-> [i \in 1 .. 8 |-> parse_fr(att.public_inputs[i])]]

-----------------------------------------------------------------------------
Init ==
  /\ issued = {} /\ held = None /\ source = None
  /\ changed = "nothing" /\ verdict = None

Prove(key, s, cm, t) ==
  /\ held = None /\ Cardinality(issued) < MaxIssued
  /\ LET w == wire_of(s, cm, t)
     IN issued' = issued \cup {[key |-> key, wire |-> w, att |-> prove(key, w)]}
  /\ UNCHANGED <<held, source, changed, verdict>>

\* The client rebuilds an attestation from a reply: an auth-only flow leaves its
\* commitment at zero.
Receive(a, cm) ==
  /\ held = None /\ cm \in {0, a.wire.cm}
  /\ held' = to_attestation(a.att, cm)
  /\ source' = a
  /\ UNCHANGED <<issued, changed, verdict>>

Unchanged == held # None /\ verdict = None /\ changed = "nothing"

Change(what, att) ==
  /\ held' = att
  /\ changed' = what
  /\ UNCHANGED <<issued, source, verdict>>

\* One of the fields beside the proof.
ChangeField ==
  /\ Unchanged
  /\ \/ \E i \in 0 .. Base - 1 : Change("field", [held EXCEPT !.idi = i])
     \/ \E k \in 0 .. Base - 1 : Change("field", [held EXCEPT !.r2 = k])
     \/ \E c \in Cm : Change("field", [held EXCEPT !.cm_out = c])
     \/ \E t \in Time : Change("field", [held EXCEPT !.attested_at = t])

\* One string of the proof, its number or its length, or one too few or too many.
ChangeString ==
  /\ Unchanged
  /\ \/ \E i \in 1 .. 8, v \in Value :
          /\ v # held.public_inputs[i].value
          /\ Change("string", [held EXCEPT !.public_inputs[i].value = v])
     \/ \E i \in 1 .. 8, l \in {"short", "long"} :
          Change("length", [held EXCEPT !.public_inputs[i].bytes = l])
     \/ Change("string", [held EXCEPT !.public_inputs = SubSeq(@, 1, 7)])
     \/ Change("string", [held EXCEPT !.public_inputs = Append(@, fr_to_hex(0))])

\* A point that is no point of the curve, or the points of a proof of something else.
\* Points stand for their statement: another proof of the same one is no change here.
ChangePoints ==
  /\ Unchanged
  /\ \/ Change("points", [held EXCEPT !.points = Garbage])
     \/ \E a \in issued : /\ a.att.points # held.points
                          /\ Change("points", [held EXCEPT !.points = a.att.points])

Verify(vk) ==
  /\ held # None /\ verdict = None
  /\ verdict' = [vk |-> vk, accepted |-> verify_attestation(vk, held)]
  /\ UNCHANGED <<issued, held, source, changed>>

Next ==
  \/ \E key \in Key, s \in Session, cm \in Cm, t \in Time : Prove(key, s, cm, t)
  \/ \E a \in issued : \E cm \in {0, a.wire.cm} : Receive(a, cm)
  \/ ChangeField \/ ChangeString \/ ChangePoints
  \/ \E vk \in Key : Verify(vk)

Spec == Init /\ [][Next]_vars

-----------------------------------------------------------------------------
Strings == [value : Nat, bytes : {"short", "exact", "long"}]

Accepted == verdict # None /\ verdict.accepted

\* What can be read back out of eight field elements.
unpack(p) ==
  [r1 |-> p[1], c1b |-> p[2], c2a |-> p[3], auth2 |-> p[4] + Base * Base * p[5],
   cm |-> p[6], idi |-> p[7] % Base, r2 |-> p[7] \div Base, attested_at |-> p[8]]

Values(att) == [i \in 1 .. 8 |-> parse_fr(att.public_inputs[i])]

TypeOK ==
  /\ \A a \in issued : /\ a.key \in Key
                       /\ a.wire \in {wire_of(s, cm, t) : s \in Session, cm \in Cm, t \in Time}
                       /\ \A i \in 1 .. 8 : a.att.points.of[i] \in 0 .. Prime - 1
  /\ source \in issued \cup {None} /\ (held = None <=> source = None)
  /\ held # None => held.public_inputs \in Seq(Strings)
  /\ changed \in {"nothing", "field", "string", "length", "points"}
  /\ verdict # None => verdict.vk \in Key /\ verdict.accepted \in BOOLEAN

\* What verifies, read back from its strings, is what was proved under that key, in
\* every field, the commitment modulo the order of the field (circuit.rs "every
\* packing is injective on its domain"; lib.rs verify_attestation).
VerifiedWasProved ==
  Accepted => \E a \in issued :
    /\ a.key = verdict.vk
    /\ unpack(Values(held)) = [a.wire EXCEPT !.cm = fr_from_le(@)]

\* What was not changed verifies under its own key and no other, whatever the client
\* filled in for the commitment (rpc_attest.rs to_attestation).
GenuineVerifies ==
  verdict # None /\ changed = "nothing" =>
    (verdict.accepted <=> verdict.vk = source.key)

\* With a string that is another number, with one more or less, or with the points of
\* another statement, nothing verifies under the key of its proof (lib.rs "Tampering with
\* any public input breaks the Groth16 verification equation").
TamperingIsNoticed ==
  Accepted /\ verdict.vk = source.key => changed \notin {"string", "points"}

\* lib.rs: "Groth16 proof binding the above", the fields of Attestation before it.
ProofBindsTheAbove ==
  Accepted => \E a \in issued :
    /\ a.att.points = held.points
    /\ held.idi = a.wire.idi /\ held.r2 = a.wire.r2 /\ held.cm_out = a.wire.cm
    /\ held.attested_at = a.wire.attested_at
=============================================================================
