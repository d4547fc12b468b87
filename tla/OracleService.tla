--------------------------- MODULE OracleService ---------------------------
(***************************************************************************)
(* The oracle's handlers (server/src/api/service.rs) and the native part   *)
(* of the prover (prover/src/lib.rs), as operators from a request to a     *)
(* reply: the server keeps no state between calls, so each reply depends   *)
(* on the deployed configuration and the request alone.  An early return   *)
(* of the code is a branch here, in the code's order.                      *)
(*                                                                         *)
(* cfg is the AppConfig: the resolved GSK and USK (keys) and the node path *)
(* [areas, services] they belong to, which one Secret carries together.    *)
(***************************************************************************)
EXTENDS Schedule, Sequences

CONSTANTS
  NodePaths,  \* service lists a Secret may have
  KeysOf,     \* the GSK and USK generated from the nodes of a list
  BadHex,     \* a field that does not parse as hex of its fixed width
  Absent,     \* an omitted optional field
  ZeroCm,     \* 32 zero bytes: the commitment of an auth-only attest
  SlotLimit   \* service slots a Read element can name (16 in the code)

ASSUME SlotLimitType == SlotLimit \in Nat \ {0}
ASSUME KeysType == KeysOf \in [NodePaths -> Keys]

\* Each node has a key of its own and its place in the chain, so another list has
\* other keys.
ASSUME KeysGoWithTheList == \A p, q \in NodePaths : KeysOf[p] = KeysOf[q] => p = q

\* The Secret of a node path, as felica-keys writes it and as cards of it have it.
Secret(areas, services) ==
  [keys |-> KeysOf[services], areas |-> areas, services |-> services]

OK == 0
MAC_MISMATCH == -32010
TID_MISMATCH == -32011
C1B_MISMATCH == -32012
PROVE_FAILED == -32020
INVALID_PARAMS == -32602
INTERNAL == -32603

Error(code) == [code |-> code]

parses(fields) == BadHex \notin fields

-----------------------------------------------------------------------------
challenge(cfg, idm, r1) ==
  IF ~parses({idm, r1}) THEN Error(INVALID_PARAMS)
  ELSE IF cfg.areas = <<>> /\ cfg.services = <<>> THEN Error(INTERNAL)
  ELSE [code |-> OK, c1a |-> c1a(cfg.keys, idm, r1), areas |-> cfg.areas,
        services |-> cfg.services]

\* The slots, counted from 0 as on the wire, that name service.
slots(services, service) ==
  {i \in 0 .. Len(services) - 1 : services[i + 1] = service}

\* iter().position(..): the first such slot.
position(services, service) ==
  CHOOSE i \in slots(services, service) :
    \A j \in slots(services, service) : i <= j

\* Faulty: a service the list has is not looked up against the slot limit.
addressable_anywhere(services, service) == slots(services, service) # {}

addressable(services, service) ==
  slots(services, service) # {} /\ position(services, service) < SlotLimit

\* Faulty: the TID is cut from R2.
ecmd_tid_of_r2(services, tid, r2, read_spec) ==
  read_ecmd(r2, tail(r2), position(services, read_spec.service) % SlotLimit,
            read_spec.block)

\* tid, r2 and read_spec = [service, block] give the single-block Read.
ecmd(services, tid, r2, read_spec) ==
  read_ecmd(r2, tid, position(services, read_spec.service) % SlotLimit,
            read_spec.block)

\* Faulty: C1B is not looked at.
settle_unchecked(cfg, idm, r1, c1b, c2a, read_spec) ==
  LET r2 == r2_from_c2a(cfg.keys, idm, c2a) IN
  IF ~parses({idm, r1, c1b, c2a}) THEN Error(INVALID_PARAMS)
  ELSE IF read_spec # Absent /\ ~addressable(cfg.services, read_spec.service)
  THEN Error(INVALID_PARAMS)
  ELSE [code |-> OK, c2b |-> c2b(cfg.keys, idm, r2),
        ecmd |-> IF read_spec = Absent THEN Absent
                 ELSE ecmd(cfg.services, tail(r1), r2, read_spec)]

settle(cfg, idm, r1, c1b, c2a, read_spec) ==
  LET r2 == r2_from_c2a(cfg.keys, idm, c2a) IN
  IF ~parses({idm, r1, c1b, c2a}) THEN Error(INVALID_PARAMS)
  ELSE IF c1b_expected(cfg.keys, idm, r1) # c1b THEN Error(C1B_MISMATCH)
  ELSE IF read_spec = Absent
  THEN [code |-> OK, c2b |-> c2b(cfg.keys, idm, r2), ecmd |-> Absent]
  ELSE IF ~addressable(cfg.services, read_spec.service)
  THEN Error(INVALID_PARAMS)
  ELSE [code |-> OK, c2b |-> c2b(cfg.keys, idm, r2),
        ecmd |-> ecmd(cfg.services, tail(r1), r2, read_spec)]

-----------------------------------------------------------------------------
\* Everything the proof will certify, or the first check that fails.
verify_session(keys, idm, c1b, c2a, auth2, cm) ==
  LET r1 == r1_from_c1b(keys, idm, c1b)
      r2 == r2_from_c2a(keys, idm, c2a)
      auth == verify_auth2(r2, auth2)
  IN IF auth.err # "none" THEN Error(MAC_MISMATCH)
     ELSE IF auth.tid # tail(r1) THEN Error(TID_MISMATCH)
     ELSE [code |-> OK, r1 |-> r1, r2 |-> r2, idi |-> auth.idi,
           tid |-> auth.tid, cm |-> cm]

\* The statement proved: constraints 1 to 6 of the session circuit; the
\* seventh (cm_out == cm) holds because one public input serves as both.
satisfied(w) ==
  /\ tdes_encrypt(w.r1, w.keys) = w.c1b
  /\ tdes_encrypt(w.r2, w.keys) = w.c2a
  /\ check_mac(w.auth2, AUTH2_CODE, w.r2)
  /\ w.auth2.payload.tid = tail(w.r1)
  /\ w.auth2.payload.idi = w.idi

public_inputs(w) == [r1 |-> w.r1, c1b |-> w.c1b, c2a |-> w.c2a,
                     auth2 |-> w.auth2, cm |-> w.cm, idi |-> w.idi, r2 |-> w.r2]

prove(service_keys, idm, c1b, c2a, auth2, cm) ==
  LET keys == derive(service_keys, idm).Lbeta
      r1 == tdes_decrypt(c1b, keys)
      r2 == tdes_decrypt(c2a, keys)
      w == [keys |-> keys, r1 |-> r1, r2 |-> r2, c1b |-> c1b, c2a |-> c2a,
            auth2 |-> auth2, cm |-> cm, idi |-> auth2.payload.idi]
  IN IF tdes_encrypt(r1, keys) # c1b THEN Error(C1B_MISMATCH)
     ELSE IF tdes_encrypt(r2, keys) # c2a THEN Error(C1B_MISMATCH)
     ELSE IF ~check_mac(auth2, AUTH2_CODE, r2) THEN Error(MAC_MISMATCH)
     ELSE IF auth2.payload.tid # tail(r1) THEN Error(TID_MISMATCH)
     ELSE IF ~satisfied(w) THEN Error(PROVE_FAILED)
     ELSE [code |-> OK, idi |-> w.idi, r2 |-> r2, cm_out |-> cm,
           proof |-> public_inputs(w)]

\* pk is "loaded", or "unusable" when its bytes do not deserialize: attest looks
\* at it before it looks at its parameters.
attest(cfg, pk, idm, c1b, c2a, auth2, cm) ==
  LET cm_bytes == IF cm = Absent THEN ZeroCm ELSE cm
      verified == verify_session(cfg.keys, idm, c1b, c2a, auth2, cm_bytes)
  IN IF pk = "unusable" THEN Error(PROVE_FAILED)
     ELSE IF ~parses({idm, c1b, c2a, auth2, cm}) THEN Error(INVALID_PARAMS)
     ELSE IF verified.code # OK THEN Error(verified.code)
     ELSE prove(cfg.keys, idm, c1b, c2a, auth2, cm_bytes)
=============================================================================
