--------------------------- MODULE ServingProofs ----------------------------
(***************************************************************************)
(* What holds at both ends of a call: in the server, whose proves fit its  *)
(* memory, and in the client, whose run ends well with what is genuine and *)
(* badly only for a reason.                                                *)
(***************************************************************************)
EXTENDS Runtime, HolderFlow, OracleServiceProofs, FiniteSetTheorems

(* The workers.  The proves of a server fit its memory when as many as it has workers
   do, for any number of workers and of calls: a worker runs one call at a time, and a
   call that proves is on a worker. *)

\* No worker runs two calls.
OneEach == \A c, d \in Call : at[c] \in Worker /\ at[c] = at[d] => c = d

\* The inductive invariant.
IInv == TypeOK /\ OneEach

\* The invariant of the workers holds at first.
LEMMA InvInit == ASSUME Init PROVE IInv
<1>1. up \in BOOLEAN
  BY Zenon DEF Init
<1>2. at \in [Call -> States \cup Worker]
  BY DEF Init, States
<1>3. queue \in Seq(Call) /\ kills \in 0 .. MaxKills
  BY MemoryType DEF Init
<1>4. OneEach
  BY WorkerType DEF Init, OneEach, States
<1> QED BY <1>1, <1>2, <1>3, <1>4 DEF IInv, TypeOK

\* Every step of the server keeps it.
LEMMA InvNext == ASSUME IInv, [Next]_vars PROVE IInv'
<1>1. ASSUME NEW c \in Call, Send(c) PROVE IInv'
  <2>1. up' \in BOOLEAN /\ kills' \in 0 .. MaxKills
    BY <1>1 DEF Send, IInv, TypeOK
  <2>2. \E s \in {"queued", "lost"} : at' = [at EXCEPT ![c] = s]
    BY <1>1 DEF Send
  <2>3. queue' \in Seq(Call)
    BY <1>1 DEF Send, IInv, TypeOK
  <2>4. at' \in [Call -> States \cup Worker]
    BY <2>2 DEF IInv, TypeOK, States
  <2>5. OneEach'
    BY <2>2, WorkerType DEF IInv, TypeOK, OneEach, States
  <2> QED BY <2>1, <2>3, <2>4, <2>5 DEF IInv, TypeOK
<1>2. ASSUME NEW w \in Worker, Take(w) PROVE IInv'
  <2>1. /\ Head(queue) \in Call /\ queue' \in Seq(Call)
        /\ UNCHANGED <<up, kills>>
    BY <1>2 DEF Take, IInv, TypeOK
  <2>2. at' = [at EXCEPT ![Head(queue)] = w] /\ \A c \in Call : at[c] # w
    BY <1>2 DEF Take, Free
  <2>3. at' \in [Call -> States \cup Worker]
    BY <2>1, <2>2 DEF IInv, TypeOK
  <2>4. OneEach'
    BY <2>1, <2>2 DEF IInv, TypeOK, OneEach
  <2> QED BY <2>1, <2>3, <2>4 DEF IInv, TypeOK
<1>3. ASSUME NEW w \in Worker, Finish(w) PROVE IInv'
  <2>1. UNCHANGED <<up, queue, kills>>
    BY <1>3 DEF Finish
  <2>2. PICK c \in Call : at' = [at EXCEPT ![c] = "answered"]
    BY <1>3 DEF Finish
  <2>3. at' \in [Call -> States \cup Worker]
    BY <2>2 DEF IInv, TypeOK, States
  <2>4. OneEach'
    BY <2>2, WorkerType DEF IInv, TypeOK, OneEach, States
  <2> QED BY <2>1, <2>3, <2>4 DEF IInv, TypeOK
<1>4. ASSUME Kill PROVE IInv'
  <2>1. up' \in BOOLEAN /\ queue' \in Seq(Call)
    <3>1. up' = FALSE /\ queue' = <<>>
      BY <1>4 DEF Kill
    <3>2. up' \in BOOLEAN
      BY <3>1, Zenon
    <3> QED BY <3>1, <3>2
  <2>2. kills' \in 0 .. MaxKills
    BY <1>4, MemoryType DEF Kill, IInv, TypeOK
  <2>3. at' = [c \in Call |-> IF Open(c) THEN "lost" ELSE at[c]]
    BY <1>4 DEF Kill
  <2>4. at' \in [Call -> States \cup Worker]
    BY <2>3 DEF IInv, TypeOK, States
  <2>5. \A c \in Call : at'[c] \notin Worker
    BY <2>3, WorkerType DEF Open, States
  <2>6. OneEach'
    BY <2>5 DEF OneEach
  <2> QED BY <2>1, <2>2, <2>4, <2>6 DEF IInv, TypeOK
<1>5. ASSUME Restart PROVE IInv'
  <2>1. UNCHANGED <<at, queue, kills>> /\ up' \in BOOLEAN
    BY <1>5 DEF Restart
  <2> QED BY <2>1 DEF IInv, TypeOK, OneEach
<1>6. ASSUME UNCHANGED vars PROVE IInv'
  BY <1>6 DEF vars, IInv, TypeOK, OneEach
<1> QED BY <1>1, <1>2, <1>3, <1>4, <1>5, <1>6 DEF Next

\* No worker ever runs two calls, for any number of workers and of calls (main.rs).
THEOREM Invariance == Spec => []IInv
<1>1. Init => IInv
  BY InvInit
<1>2. IInv /\ [Next]_vars => IInv'
  BY InvNext
<1> QED BY <1>1, <1>2, PTL DEF Spec

\* The state variables keep their types, whatever calls are sent.
THEOREM TypeCorrect == Spec => []TypeOK
<1>1. IInv => TypeOK
  BY DEF IInv
<1> QED BY <1>1, Invariance, PTL

\* As many proves at most as there are workers.
LEMMA ProvesHaveWorkers ==
  ASSUME IInv
  PROVE  LET running == {c \in Proving : at[c] \in Worker}
         IN  /\ Cardinality(running) \in Nat /\ Cardinality(Worker) \in Nat
             /\ Cardinality(running) <= Cardinality(Worker)
<1> DEFINE running == {c \in Proving : at[c] \in Worker}
           f == [c \in running |-> at[c]]
<1>1. f \in [running -> Worker]
  OBVIOUS
<1>2. \A c, d \in running : f[c] = f[d] => c = d
  BY CallType DEF IInv, OneEach
<1>3. f \in Injection(running, Worker)
  BY <1>1, <1>2 DEF Injection, IsInjective
<1>4. IsFiniteSet(running) /\ Cardinality(running) <= Cardinality(Worker)
  BY <1>3, WorkerType, FS_Injection
<1> QED BY <1>4, WorkerType, FS_CardinalityType

\* The proves in progress fit the memory limit, for every number of workers whose
\* proves would fit it, and however many attests arrive.
THEOREM ProvesFit ==
  ASSUME IdleMemory + ProveMemory * Cardinality(Worker) <= MemoryLimit
  PROVE  Spec => []MemoryFits
<1>1. IInv => MemoryFits
  <2> SUFFICES ASSUME IInv PROVE MemoryFits
    OBVIOUS
  <2> DEFINE n == Cardinality({c \in Proving : at[c] \in Worker})
             m == Cardinality(Worker)
  <2>1. n \in Nat /\ m \in Nat /\ n <= m
    BY ProvesHaveWorkers
  <2>2. IdleMemory \in Nat /\ ProveMemory \in Nat /\ MemoryLimit \in Nat
        /\ IdleMemory + ProveMemory * m <= MemoryLimit
    BY MemoryType
  <2>3. Memory = IdleMemory + ProveMemory * n
    BY DEF Memory
  <2> HIDE DEF n, m
  <2>4. PICK d \in Nat : m = n + d
    <3> DEFINE e == m - n
    <3>1. e \in Nat /\ m = n + e
      BY <2>1
    <3> QED BY <3>1
  <2>5. ProveMemory * m = ProveMemory * n + ProveMemory * d
        /\ ProveMemory * n \in Nat /\ ProveMemory * d \in Nat
    BY <2>1, <2>2, <2>4
  <2> QED BY <2>2, <2>3, <2>5 DEF MemoryFits
<1> QED BY <1>1, Invariance, PTL

-----------------------------------------------------------------------------
(* The client.  What the replies are to the values of one genuine session. *)

\* The keys, blocks and frames of a session of the card of the fixture with the second
\* challenge k (server/examples/rpc_attest.rs).
alphaL == CardKeys.alphaL
Lbeta == CardKeys.Lbeta
C1A == [key |-> alphaL, data |-> Challenge]
C1B == [key |-> Lbeta, data |-> Challenge]
C2A(k) == [key |-> Lbeta, data |-> k]
C2B(k) == [key |-> alphaL, data |-> k]
ReadSpec == [service |-> FixtureService, block |-> 0]
Auth2(k) == encrypt_command(AUTH2_CODE, k,
              [tn |-> 0, tid |-> tail(Challenge), idi |-> IDiOf[Idm]])
Command(k) == read_ecmd(k, tail(Challenge), 0, 0)
Response(k) == encrypt_command(READ_RESPONSE_CODE, k,
                 [tn |-> EXPECTED_READ_RESPONSE_TN, tid |-> tail(Challenge),
                  data |-> <<Idm, FixtureService, 0>>])

\* The C1A of that challenge for a card with other keys.
Foreign == {c \in Cipher : c.key # alphaL /\ c.data = Challenge}

\* The server has the Secret of the node path that the program takes for granted.
Expected == srv.services = FixturePath

\* The challenge and the keys of the fixture are of their types.
LEMMA FixtureBlocks ==
  /\ Idm \in IDm /\ Challenge \in Nonce /\ alphaL \in KeyPair /\ Lbeta \in KeyPair
  /\ alphaL # Lbeta /\ C1B \in Cipher /\ tail(Challenge) \in Tid
<1>1. Idm \in IDm /\ Challenge \in Nonce
  BY FixtureType DEF Nonce
<1>2. alphaL \in KeyPair /\ Lbeta \in KeyPair /\ alphaL # Lbeta
  <2>1. KeysOf[FixturePath] \in Keys
    BY FixtureType, KeysOfPath
  <2> QED BY <1>1, <2>1, KeysDiffer DEF alphaL, Lbeta, CardKeys
<1>3. C1B \in Cipher
  BY <1>1, <1>2 DEF C1B, Cipher
<1>4. tail(Challenge) \in Tid
  BY <1>1, TailType DEF tail
<1> QED BY <1>1, <1>2, <1>3, <1>4

\* The server's keys for the card are the card's own if it has the Secret expected, and
\* only then does it decipher or expect what the card enciphers.
LEMMA ServerKeys ==
  ASSUME srv.services \in NodePaths
  PROVE  /\ cfg.keys \in Keys /\ cfg.services = srv.services
         /\ cfg.keys = KeysOf[FixturePath] <=> Expected
         /\ derive(cfg.keys, Idm).alphaL \in KeyPair
         /\ derive(cfg.keys, Idm).alphaL = alphaL <=> Expected
         /\ derive(cfg.keys, Idm).Lbeta = Lbeta <=> Expected
<1>1. /\ cfg.keys = KeysOf[srv.services] /\ cfg.services = srv.services
      /\ FixturePath \in NodePaths /\ Idm \in IDm
  BY FixtureType DEF cfg, Secret
<1>2. cfg.keys \in Keys /\ KeysOf[FixturePath] \in Keys
  BY <1>1, KeysOfPath
<1>3. cfg.keys = KeysOf[FixturePath] <=> Expected
  BY <1>1, KeysGoWithTheList DEF Expected
<1> DEFINE g == cfg.keys
           h == KeysOf[FixturePath]
<1> HIDE DEF g, h
<1>4. /\ derive(g, Idm).alphaL \in KeyPair
      /\ derive(g, Idm).alphaL = derive(h, Idm).alphaL <=> g = h
      /\ derive(g, Idm).Lbeta = derive(h, Idm).Lbeta <=> g = h
  BY <1>1, <1>2, KeysDiffer DEF g, h
<1> QED BY <1>1, <1>2, <1>3, <1>4 DEF g, h, alphaL, Lbeta, CardKeys

\* Each party's decryption of what the other enciphered for it.
LEMMA Decrypts ==
  ASSUME NEW k \in R2
  PROVE  /\ C2A(k) \in Cipher
         /\ tdes_decrypt(C1A, alphaL) = Challenge
         /\ tdes_encrypt(Challenge, Lbeta) = C1B /\ tdes_encrypt(k, Lbeta) = C2A(k)
         /\ tdes_decrypt(C1B, Lbeta) = Challenge /\ tdes_decrypt(C2A(k), Lbeta) = k
         /\ tdes_encrypt(k, alphaL) = C2B(k) /\ tdes_decrypt(C2B(k), alphaL) = k
<1>1. k \in Nonce
  BY DEF Nonce
<1>2. C2A(k) \in Cipher
  BY <1>1, FixtureBlocks DEF C2A, Cipher
<1>3. /\ tdes_decrypt(C1A, alphaL) = Challenge /\ tdes_decrypt(C2B(k), alphaL) = k
      /\ tdes_decrypt(C1B, Lbeta) = Challenge /\ tdes_decrypt(C2A(k), Lbeta) = k
  BY DEF tdes_decrypt, C1A, C1B, C2A, C2B
<1>4. /\ tdes_encrypt(Challenge, Lbeta) = C1B /\ tdes_encrypt(k, Lbeta) = C2A(k)
      /\ tdes_encrypt(k, alphaL) = C2B(k)
  BY <1>1, FixtureBlocks, EncryptNonce DEF C1B, C2A, C2B
<1> QED BY <1>2, <1>3, <1>4

\* The frames of the session are frames.
LEMMA FramesOf ==
  ASSUME NEW k \in R2
  PROVE  /\ Auth2(k) \in Frames /\ Command(k) \in Frames /\ Response(k) \in Frames
         /\ [ecmd |-> Command(k), response |-> Response(k)]
              \in [ecmd : Frames, response : Frames]
<1>1. IDiOf[Idm] \in IDi /\ tail(Challenge) \in Tid
  BY FixtureBlocks, IDiType
<1>2. Auth2(k) \in Frames
  BY <1>1 DEF Auth2, Frames, encrypt_command
<1>3. Command(k) \in Frames
  BY <1>1, SlotLimitType DEF Command, read_ecmd, Frames, encrypt_command
<1>4. Response(k) \in Frames
  BY <1>1 DEF Response, Frames, encrypt_command
<1> QED BY <1>2, <1>3, <1>4

\* The oracle's reply to challenge, under the keys it has.
LEMMA ChallengeReply ==
  /\ challenge(cfg, Idm, Challenge).code = OK
  /\ challenge(cfg, Idm, Challenge).c1a
       = [key |-> derive(cfg.keys, Idm).alphaL, data |-> Challenge]
<1>1. parses({Idm, Challenge})
  BY FixtureParses DEF parses
<1>2. c1a(cfg.keys, Idm, Challenge) = [key |-> derive(cfg.keys, Idm).alphaL, data |-> Challenge]
  BY FixtureBlocks, EncryptNonce DEF c1a
<1>3. cfg.areas # <<>>
  BY DEF cfg, Secret
<1> QED BY <1>1, <1>2, <1>3 DEF challenge

\* The service the client reads is in the first slot where it is the only one.
LEMMA OneSlot ==
  ASSUME Expected
  PROVE  /\ addressable(cfg.services, FixtureService)
         /\ position(cfg.services, FixtureService) = 0
<1>1. cfg.services = <<FixtureService>>
  BY DEF cfg, Secret, Expected, FixturePath
<1>2. slots(cfg.services, FixtureService) = {0}
  BY <1>1 DEF slots
<1>3. position(cfg.services, FixtureService) = 0
  BY <1>2 DEF position
<1> QED BY <1>2, <1>3, SlotLimitType DEF addressable

\* settle refuses a C1B that is not its own encryption of the challenge.
LEMMA SettleRefuses ==
  ASSUME NEW c1b, NEW c2a, NEW rs, srv.services \in NodePaths,
         c1b.data # Challenge \/ (c1b.key = Lbeta /\ ~Expected)
  PROVE  settle(cfg, Idm, Challenge, c1b, c2a, rs).code # OK
<1> SUFFICES ASSUME settle(cfg, Idm, Challenge, c1b, c2a, rs).code = OK PROVE FALSE
  OBVIOUS
<1>1. Len(cfg.services) \in Nat
  BY ServerKeys, FixtureType
<1>2. c1b_expected(cfg.keys, Idm, Challenge) = c1b
  BY <1>1, SettleOK
<1>3. c1b = [key |-> derive(cfg.keys, Idm).Lbeta, data |-> Challenge]
  BY <1>2, FixtureBlocks, EncryptNonce DEF c1b_expected
<1> QED BY <1>3, ServerKeys

\* The oracle's reply to settle, without and with a Read: it answers under the Secret
\* expected, and under no other.
LEMMA SettleReply ==
  ASSUME NEW k \in R2, srv.services \in NodePaths
  PROVE  /\ LET reply == settle(cfg, Idm, Challenge, C1B, C2A(k), Absent)
            IN /\ reply.code = OK <=> Expected
               /\ reply.code = OK => reply.c2b = C2B(k)
         /\ LET reply == settle(cfg, Idm, Challenge, C1B, C2A(k), ReadSpec)
            IN /\ reply.code = OK <=> Expected
               /\ reply.code = OK => reply.c2b = C2B(k) /\ reply.ecmd = Command(k)
<1>1. parses({Idm, Challenge, C1B, C2A(k)})
  BY FixtureParses, FixtureBlocks, Decrypts DEF parses
<1>2. ReadSpec # Absent
  BY AbsentIsNothing, FixtureType DEF ReadSpec
<1>3. CASE ~Expected
  <2>1. C1B.key = Lbeta
    BY DEF C1B
  <2>2. \A rs : settle(cfg, Idm, Challenge, C1B, C2A(k), rs).code # OK
    BY <1>3, <2>1, SettleRefuses
  <2> QED BY <1>3, <2>2
<1>4. CASE Expected
  <2>1. derive(cfg.keys, Idm).alphaL = alphaL /\ derive(cfg.keys, Idm).Lbeta = Lbeta
    BY <1>4, ServerKeys
  <2>2. /\ r2_from_c2a(cfg.keys, Idm, C2A(k)) = k
        /\ c1b_expected(cfg.keys, Idm, Challenge) = C1B
        /\ c2b(cfg.keys, Idm, k) = C2B(k)
    BY <2>1, Decrypts DEF r2_from_c2a, c1b_expected, c2b
  <2>3. settle(cfg, Idm, Challenge, C1B, C2A(k), Absent).code = OK
        /\ settle(cfg, Idm, Challenge, C1B, C2A(k), Absent).c2b = C2B(k)
    BY <1>1, <2>2 DEF settle
  <2>4. settle(cfg, Idm, Challenge, C1B, C2A(k), ReadSpec)
          = [code |-> OK, c2b |-> C2B(k),
             ecmd |-> ecmd(cfg.services, tail(Challenge), k, ReadSpec)]
    BY <1>1, <1>2, <1>4, <2>2, OneSlot DEF settle, ReadSpec
  <2>5. 0 % SlotLimit = 0
    BY SlotLimitType
  <2>6. ecmd(cfg.services, tail(Challenge), k, ReadSpec) = Command(k)
    BY <1>4, <2>5, OneSlot DEF ecmd, Command, ReadSpec
  <2> QED BY <1>4, <2>3, <2>4, <2>6
<1> QED BY <1>3, <1>4

\* The oracle's reply to attest, which also answers under the Secret expected only.
LEMMA AttestReply ==
  ASSUME NEW k \in R2, NEW cm, srv.services \in NodePaths,
         cm = Absent \/ cm = [ecmd |-> Command(k), response |-> Response(k)]
  PROVE  LET reply == attest(cfg, "loaded", Idm, C1B, C2A(k), Auth2(k), cm)
         IN /\ reply.code = OK <=> Expected
            /\ reply.code = OK => /\ reply.idi = IDiOf[Idm] /\ reply.r2 = k
                                  /\ cm # Absent => reply.proof.cm = cm
<1> DEFINE cm_out == IF cm = Absent THEN ZeroCm ELSE cm
           reply == attest(cfg, "loaded", Idm, C1B, C2A(k), Auth2(k), cm)
<1>1. ASSUME reply.code = OK PROVE Expected
  <2>1. r2_from_c2a(cfg.keys, Idm, C2A(k)) = k
    <3>1. Auth2(k).key = r2_from_c2a(cfg.keys, Idm, C2A(k))
      BY <1>1, AttestOK
    <3> QED BY <3>1 DEF Auth2, encrypt_command
  <2>2. k \in Nonce /\ C2A(k) \in Cipher
    BY Decrypts DEF Nonce
  <2>3. C2A(k) = [key |-> derive(KeysOf[FixturePath], Idm).Lbeta, data |-> k]
    BY DEF C2A, Lbeta, CardKeys
  <2>4. cfg.keys \in Keys /\ KeysOf[FixturePath] \in Keys /\ Idm \in IDm
    BY ServerKeys, FixtureType, KeysOfPath
  <2>5. cfg.keys = KeysOf[FixturePath]
    BY <2>1, <2>2, <2>3, <2>4, OpensForOneCard
  <2> QED BY <2>5, ServerKeys
<1>2. ASSUME Expected
      PROVE  reply = [code |-> OK, idi |-> IDiOf[Idm], r2 |-> k, cm_out |-> cm_out,
                      proof |-> [r1 |-> Challenge, c1b |-> C1B, c2a |-> C2A(k),
                                 auth2 |-> Auth2(k), cm |-> cm_out,
                                 idi |-> IDiOf[Idm], r2 |-> k]]
  <2>1. parses({Idm, C1B, C2A(k), Auth2(k), cm})
    <3>1. Auth2(k) \in Frames
      BY FramesOf
    <3>2. BadHex # cm
      BY FixtureParses, FramesOf
    <3> QED BY <3>1, <3>2, FixtureParses, FixtureBlocks, Decrypts DEF parses
  <2>2. derive(cfg.keys, Idm).Lbeta = Lbeta
    BY <1>2, ServerKeys
  <2>3. /\ tdes_encrypt(Challenge, Lbeta) = C1B /\ tdes_encrypt(k, Lbeta) = C2A(k)
        /\ tdes_decrypt(C1B, Lbeta) = Challenge /\ tdes_decrypt(C2A(k), Lbeta) = k
    BY Decrypts
  <2>4. r1_from_c1b(cfg.keys, Idm, C1B) = Challenge /\ r2_from_c2a(cfg.keys, Idm, C2A(k)) = k
    BY <2>2, <2>3 DEF r1_from_c1b, r2_from_c2a
  <2>5. check_mac(Auth2(k), AUTH2_CODE, k) /\ Auth2(k).payload.tid = tail(Challenge)
        /\ Auth2(k).payload.idi = IDiOf[Idm]
    BY DEF check_mac, Auth2, encrypt_command
  <2>6. verify_session(cfg.keys, Idm, C1B, C2A(k), Auth2(k), cm_out).code = OK
    BY <2>4, <2>5 DEF verify_session, verify_auth2
  <2>7. reply = prove(cfg.keys, Idm, C1B, C2A(k), Auth2(k), cm_out)
    BY <2>1, <2>6 DEF attest
  <2> HIDE DEF reply, cm_out
  <2> QED BY <2>2, <2>3, <2>5, <2>7 DEF prove, satisfied, public_inputs
<1>3. CASE Expected
  BY <1>2, <1>3
<1> QED BY <1>1, <1>3

-----------------------------------------------------------------------------
(* What the program holds at each of its statements. *)

\* The client's statements, by what it has been given before them.
Certified == {"vk", "verify", "decrypt", "ok"}
HasRead == {"attest2"} \cup Certified
Commanded == {"second auth2", "read"} \cup HasRead
InSession == {"settle1", "auth2", "attest1", "second", "settle2"} \cup Commanded
Challenged == {"auth1"} \cup InSession

\* No other keys have been deployed during the run.
Lawful == "deployed" \notin upset

\* The types.
InStages ==
  /\ srv \in [up : BOOLEAN, services : NodePaths, key : Ceremony]
  /\ pc \in {"challenge", "panicked"} \cup Challenged
  /\ DOMAIN v = DOMAIN Blank

\* The values of one session of the card it has before it.
Session ==
  /\ v.c1a = C1A /\ v.c1b = C1B /\ v.c2a = C2A(card.r2)
  /\ card \in [r2 : R2, tid : {tail(Challenge)}, services : {FixturePath}]

\* Once challenged it holds the challenge, enciphered for the card or, under a Secret it
\* does not expect, for no card; and then the card's answers, or answers to junk, with
\* which it does not get past settle.
SessionHeld ==
  /\ pc = "auth1" => \/ v.c1a = C1A
                     \/ v.c1a \in Foreign /\ (Lawful => ~Expected)
  /\ pc = "settle1" => Session \/ (v.c1b.data # Challenge /\ (Lawful => ~Expected))
  /\ pc \in InSession \ {"settle1"} => Session

\* It holds what the oracle and the card answered last.
AnswersHeld ==
  /\ pc \in {"auth2", "second auth2"} => v.c2b = C2B(card.r2)
  /\ pc \in {"attest1", "read", "attest2"} => v.auth2 = Auth2(card.r2)
  /\ pc \in Commanded => v.ecmd = Command(card.r2)
  /\ pc \in HasRead => v.resp = Response(card.r2)

\* It holds a proof of this session, under the keys now deployed unless they changed.
ProofHeld ==
  /\ pc \in Certified =>
       /\ v.result.reply.r2 = card.r2
       /\ v.result.reply.proof.cm = [ecmd |-> v.ecmd, response |-> v.resp]
       /\ Lawful => v.result.key = srv.key
  /\ pc = "verify" /\ Lawful => v.vk = srv.key
  /\ pc \in {"decrypt", "ok"} => v.vk = v.result.key

\* The inductive invariant.
FlowInv == InStages /\ SessionHeld /\ AnswersHeld /\ ProofHeld /\ OutagesAreHarmless

\* The invariant of the client holds before its first statement.
LEMMA FlowInit_ == ASSUME FlowInit PROVE FlowInv
<1>1. srv \in [up : BOOLEAN, services : NodePaths, key : Ceremony]
  <2>1. TRUE \in BOOLEAN
    BY Zenon
  <2> QED BY <2>1 DEF FlowInit
<1>2. InStages
  BY <1>1 DEF FlowInit, InStages
<1>3. pc = "challenge"
  BY DEF FlowInit
<1> QED BY <1>2, <1>3 DEF FlowInv, SessionHeld, AnswersHeld, ProofHeld, OutagesAreHarmless,
           Challenged, InSession, Commanded, HasRead, Certified

\* A call that ends the program ends it for a reason.
LEMMA RpcFails ==
  ASSUME FlowInv, NEW reply, NEW next, NEW values, rpc(reply, next, values),
         ~(srv.up /\ reply.code = OK),
         srv.up => reply.code = OK \/ (Lawful => ~Expected)
  PROVE  FlowInv'
<1>1. /\ pc' = "panicked" /\ v' = v /\ UNCHANGED <<srv, card, drawn, outages, deploys>>
      /\ ~srv.up => "call while down" \in upset'
      /\ srv.up => upset' = upset
  BY DEF rpc, Panic
<1>2. OutagesAreHarmless'
  BY <1>1 DEF OutagesAreHarmless, Lawful, Expected
<1> QED BY <1>1, <1>2 DEF FlowInv, InStages, SessionHeld, AnswersHeld, ProofHeld,
           Challenged, InSession, Commanded, HasRead, Certified

\* A call that is answered with OK goes on to the next statement.
LEMMA RpcPasses ==
  ASSUME NEW reply, NEW next, NEW values, rpc(reply, next, values), srv.up /\ reply.code = OK
  PROVE  /\ pc' = next /\ v' = values
         /\ srv' = srv /\ card' = card /\ upset' = upset
  BY DEF rpc

\* Calls of the oracle keep it.
LEMMA CallSteps ==
  ASSUME FlowInv,
         \/ CallChallenge
         \/ CallSettle("settle1", "auth2", Absent)
         \/ CallSettle("settle2", "second auth2", ReadSpec)
         \/ CallAttest("attest1", "second", Absent)
         \/ CallAttest("attest2", "vk", [ecmd |-> v.ecmd, response |-> v.resp])
         \/ CallGetVerifyingKey
  PROVE  FlowInv'
<1> USE DEF FlowInv, InStages, SessionHeld, AnswersHeld, ProofHeld, OutagesAreHarmless,
            Challenged, InSession, Commanded, HasRead, Certified, Lawful, Expected, Session
<1>b. DOMAIN Blank = {"c1a", "c1b", "c2a", "c2b", "ecmd", "auth2", "resp", "result", "cm", "vk"}
  BY DEF Blank
<1>s. srv.services \in NodePaths
  OBVIOUS
<1>1. CASE CallChallenge
  <2> DEFINE reply == challenge(cfg, Idm, Challenge)
             values == [v EXCEPT !.c1a = reply.c1a]
             key == derive(cfg.keys, Idm).alphaL
  <2>1. pc = "challenge" /\ rpc(reply, "auth1", values)
    BY <1>1 DEF CallChallenge
  <2>2. reply.code = OK /\ reply.c1a = [key |-> key, data |-> Challenge]
    BY ChallengeReply
  <2>3. values.c1a = reply.c1a /\ DOMAIN values = DOMAIN Blank
    BY <1>b
  <2>4. key \in KeyPair /\ (key = alphaL <=> srv.services = FixturePath)
    BY <1>s, ServerKeys
  <2> HIDE DEF reply, values, key
  <2>5. \/ reply.c1a = C1A
        \/ reply.c1a \in Foreign /\ srv.services # FixturePath
    <3> DEFINE block == [key |-> key, data |-> Challenge]
    <3>1. block \in Cipher /\ block.key = key /\ block.data = Challenge
      BY <2>4, FixtureBlocks DEF Cipher
    <3>2. key = alphaL => block = C1A
      BY DEF C1A
    <3>3. reply.c1a = block
      BY <2>2
    <3> HIDE DEF block
    <3>4. key # alphaL => block \in Foreign
      BY <3>1 DEF Foreign
    <3> QED BY <2>4, <3>2, <3>3, <3>4
  <2>6. CASE srv.up
    <3>1. pc' = "auth1" /\ v' = values /\ srv' = srv
      BY <2>1, <2>2, <2>6, RpcPasses
    <3>2. v'.c1a = reply.c1a /\ DOMAIN v' = DOMAIN Blank
      BY <2>3, <3>1
    <3>3. SessionHeld'
      BY <2>5, <3>1, <3>2
    <3> QED BY <3>1, <3>2, <3>3
  <2>7. CASE ~srv.up
    BY <2>1, <2>2, <2>7, RpcFails
  <2> QED BY <2>6, <2>7
<1>2. CASE CallSettle("settle1", "auth2", Absent)
  <2> DEFINE reply == settle(cfg, Idm, Challenge, v.c1b, v.c2a, Absent)
             values == [v EXCEPT !.c2b = reply.c2b, !.ecmd = reply.ecmd]
  <2>1. pc = "settle1" /\ rpc(reply, "auth2", values)
    BY <1>2 DEF CallSettle
  <2>2. CASE ~Session
    <3>1. v.c1b.data # Challenge /\ (Lawful => ~Expected)
      BY <2>1, <2>2
    <3>2. \A b, a : b.data # Challenge
                    => settle(cfg, Idm, Challenge, b, a, Absent).code # OK
      <4> HIDE DEF FlowInv, InStages, SessionHeld, AnswersHeld, ProofHeld, Expected, Session
      <4> QED BY <1>s, SettleRefuses
    <3>3. reply.code # OK
      BY <3>1, <3>2, Zenon
    <3> HIDE DEF reply, values
    <3> QED BY <2>1, <3>1, <3>3, RpcFails
  <2>3. CASE Session
    <3>1. card.r2 \in R2 /\ v.c1b = C1B /\ v.c2a = C2A(card.r2)
      BY <2>3
    <3>2. /\ reply.code = OK <=> Expected
          /\ reply.code = OK => reply.c2b = C2B(card.r2)
      <4>1. reply = settle(cfg, Idm, Challenge, C1B, C2A(card.r2), Absent)
        BY <3>1
      <4> HIDE DEF reply
      <4> QED BY <1>s, <3>1, <4>1, SettleReply
    <3>3. /\ values.c2b = reply.c2b /\ DOMAIN values = DOMAIN Blank
          /\ values.c1a = v.c1a /\ values.c1b = v.c1b /\ values.c2a = v.c2a
      BY <1>b
    <3> HIDE DEF reply, values
    <3>4. CASE srv.up /\ reply.code = OK
      <4>1. pc' = "auth2" /\ v' = values /\ srv' = srv /\ card' = card /\ upset' = upset
        BY <2>1, <3>4, RpcPasses
      <4>2. v'.c2b = C2B(card.r2) /\ DOMAIN v' = DOMAIN Blank
            /\ v'.c1a = v.c1a /\ v'.c1b = v.c1b /\ v'.c2a = v.c2a
        BY <3>2, <3>3, <3>4, <4>1
      <4>3. Session'
        BY <2>3, <4>1, <4>2
      <4> QED BY <4>1, <4>2, <4>3
    <3>5. CASE ~(srv.up /\ reply.code = OK)
      BY <2>1, <3>2, <3>5, RpcFails
    <3> QED BY <3>4, <3>5
  <2> QED BY <2>2, <2>3
<1>3. CASE CallSettle("settle2", "second auth2", ReadSpec)
  <2> DEFINE reply == settle(cfg, Idm, Challenge, C1B, C2A(card.r2), ReadSpec)
             values == [v EXCEPT !.c2b = reply.c2b, !.ecmd = reply.ecmd]
  <2>1. pc = "settle2" /\ rpc(reply, "second auth2", values) /\ Session
    BY <1>3 DEF CallSettle
  <2>2. card.r2 \in R2
    BY <2>1
  <2>3. /\ reply.code = OK <=> Expected
        /\ reply.code = OK => reply.c2b = C2B(card.r2) /\ reply.ecmd = Command(card.r2)
    BY <1>s, <2>2, SettleReply
  <2>4. /\ values.c2b = reply.c2b /\ values.ecmd = reply.ecmd /\ DOMAIN values = DOMAIN Blank
        /\ values.c1a = v.c1a /\ values.c1b = v.c1b /\ values.c2a = v.c2a
    BY <1>b
  <2> HIDE DEF reply, values
  <2>5. CASE srv.up /\ reply.code = OK
    <3>1. pc' = "second auth2" /\ v' = values /\ srv' = srv /\ card' = card /\ upset' = upset
      BY <2>1, <2>5, RpcPasses
    <3>2. v'.c2b = C2B(card.r2) /\ v'.ecmd = Command(card.r2) /\ DOMAIN v' = DOMAIN Blank
          /\ v'.c1a = v.c1a /\ v'.c1b = v.c1b /\ v'.c2a = v.c2a
      BY <2>3, <2>4, <2>5, <3>1
    <3>3. AnswersHeld' /\ Session'
      BY <2>1, <3>1, <3>2
    <3> QED BY <2>1, <3>1, <3>2, <3>3
  <2>6. CASE ~(srv.up /\ reply.code = OK)
    BY <2>1, <2>3, <2>6, RpcFails
  <2> QED BY <2>5, <2>6
<1>4. CASE CallAttest("attest1", "second", Absent)
  <2> DEFINE reply == attest(cfg, "loaded", Idm, C1B, C2A(card.r2), Auth2(card.r2), Absent)
             values == [v EXCEPT !.result = [reply |-> reply, key |-> srv.key], !.cm = Absent]
  <2>1. pc = "attest1" /\ v.auth2 = Auth2(card.r2) /\ card.r2 \in R2 /\ Session
    BY <1>4 DEF CallAttest
  <2>2. /\ reply.code = OK <=> Expected
        /\ reply.code = OK => reply.idi = IDiOf[Idm]
    BY <1>s, <2>1, AttestReply
  <2>3. rpc(reply, "second", values)
    BY <1>4, <2>1, <2>2 DEF CallAttest
  <2>4. /\ DOMAIN values = DOMAIN Blank
        /\ values.c1a = v.c1a /\ values.c1b = v.c1b /\ values.c2a = v.c2a
    BY <1>b
  <2> HIDE DEF reply, values
  <2>5. CASE srv.up /\ reply.code = OK
    <3>1. pc' = "second" /\ v' = values /\ srv' = srv /\ card' = card /\ upset' = upset
      BY <2>3, <2>5, RpcPasses
    <3>2. DOMAIN v' = DOMAIN Blank /\ v'.c1a = v.c1a /\ v'.c1b = v.c1b /\ v'.c2a = v.c2a
      BY <2>4, <3>1
    <3>3. Session'
      BY <2>1, <3>1, <3>2
    <3> QED BY <2>1, <3>1, <3>2, <3>3
  <2>6. CASE ~(srv.up /\ reply.code = OK)
    BY <2>1, <2>2, <2>3, <2>6, RpcFails
  <2> QED BY <2>5, <2>6
<1>5. CASE CallAttest("attest2", "vk", [ecmd |-> v.ecmd, response |-> v.resp])
  <2> DEFINE cm == [ecmd |-> v.ecmd, response |-> v.resp]
             reply == attest(cfg, "loaded", Idm, C1B, C2A(card.r2), Auth2(card.r2), cm)
             values == [v EXCEPT !.result = [reply |-> reply, key |-> srv.key], !.cm = cm]
  <2>1. pc = "attest2" /\ v.auth2 = Auth2(card.r2) /\ card.r2 \in R2 /\ Session
    BY <1>5 DEF CallAttest
  <2>2. cm = [ecmd |-> Command(card.r2), response |-> Response(card.r2)]
    BY <2>1
  <2>3. cm # Absent
    BY <2>1, <2>2, FramesOf, AbsentIsNothing
  <2>4. /\ reply.code = OK <=> Expected
        /\ reply.code = OK => /\ reply.idi = IDiOf[Idm] /\ reply.r2 = card.r2
                              /\ reply.proof.cm = cm
    <3> HIDE DEF cm
    <3> QED BY <1>s, <2>1, <2>2, <2>3, AttestReply
  <2>5. rpc(reply, "vk", values)
    BY <1>5, <2>1, <2>4 DEF CallAttest
  <2>6. /\ DOMAIN values = DOMAIN Blank
        /\ values.c1a = v.c1a /\ values.c1b = v.c1b /\ values.c2a = v.c2a
        /\ values.ecmd = v.ecmd /\ values.resp = v.resp
        /\ values.result.reply = reply /\ values.result.key = srv.key
    BY <1>b
  <2> HIDE DEF reply, values
  <2>7. CASE srv.up /\ reply.code = OK
    <3>1. pc' = "vk" /\ v' = values /\ srv' = srv /\ card' = card /\ upset' = upset
      BY <2>5, <2>7, RpcPasses
    <3>2. /\ DOMAIN v' = DOMAIN Blank /\ v'.ecmd = v.ecmd /\ v'.resp = v.resp
          /\ v'.c1a = v.c1a /\ v'.c1b = v.c1b /\ v'.c2a = v.c2a
          /\ v'.result.reply = reply /\ v'.result.key = srv.key
      BY <2>6, <3>1
    <3>3. AnswersHeld' /\ Session'
      BY <2>1, <3>1, <3>2
    <3>4. ProofHeld'
      BY <2>4, <2>7, <3>1, <3>2
    <3> QED BY <2>1, <3>1, <3>2, <3>3, <3>4
  <2>8. CASE ~(srv.up /\ reply.code = OK)
    BY <2>1, <2>4, <2>5, <2>8, RpcFails
  <2> QED BY <2>7, <2>8
<1>6. CASE CallGetVerifyingKey
  <2> DEFINE reply == [code |-> OK]
             values == [v EXCEPT !.vk = srv.key]
  <2>1. pc = "vk" /\ rpc(reply, "verify", values) /\ reply.code = OK
    BY <1>6 DEF CallGetVerifyingKey
  <2>2. /\ values.vk = srv.key /\ DOMAIN values = DOMAIN Blank
        /\ values.c1a = v.c1a /\ values.c1b = v.c1b /\ values.c2a = v.c2a
        /\ values.ecmd = v.ecmd /\ values.resp = v.resp /\ values.result = v.result
    BY <1>b
  <2> HIDE DEF reply, values
  <2>3. CASE srv.up
    <3>1. pc' = "verify" /\ v' = values /\ srv' = srv /\ card' = card /\ upset' = upset
      BY <2>1, <2>3, RpcPasses
    <3>2. /\ v'.vk = srv.key /\ DOMAIN v' = DOMAIN Blank
          /\ v'.c1a = v.c1a /\ v'.c1b = v.c1b /\ v'.c2a = v.c2a
          /\ v'.ecmd = v.ecmd /\ v'.resp = v.resp /\ v'.result = v.result
      BY <2>2, <3>1
    <3>3. AnswersHeld' /\ Session'
      BY <2>1, <3>1, <3>2
    <3> QED BY <2>1, <3>1, <3>2, <3>3
  <2>4. CASE ~srv.up
    BY <2>1, <2>4, RpcFails
  <2> QED BY <2>3, <2>4
<1> QED BY <1>1, <1>2, <1>3, <1>4, <1>5, <1>6

\* The card finds the challenges in C1A and C2B, and junk in a C1A not made for it.
LEMMA CardDecrypts ==
  ASSUME NEW k
  PROVE  /\ tdes_decrypt(C1A, CardKeys.alphaL) = Challenge
         /\ tdes_decrypt(C2B(k), CardKeys.alphaL) = k
         /\ \A c \in Foreign :
              tdes_encrypt(tdes_decrypt(c, CardKeys.alphaL), CardKeys.Lbeta).data # Challenge
<1>1. tdes_decrypt(C1A, CardKeys.alphaL) = Challenge /\ tdes_decrypt(C2B(k), CardKeys.alphaL) = k
  BY DEF C1A, C2B, alphaL, tdes_decrypt
<1>2. ASSUME NEW c \in Foreign
      PROVE  tdes_encrypt(tdes_decrypt(c, alphaL), Lbeta).data # Challenge
  <2>1. tdes_decrypt(c, alphaL) = [ct |-> c, under |-> alphaL]
    BY DEF Foreign, tdes_decrypt, junk
  <2>2. tdes_decrypt(c, alphaL).under # Lbeta
    BY <2>1, FixtureBlocks
  <2>3. tdes_encrypt(tdes_decrypt(c, alphaL), Lbeta).data = tdes_decrypt(c, alphaL)
    BY <2>2 DEF tdes_encrypt
  <2>4. tdes_decrypt(c, alphaL) # Challenge
    BY FixtureBlocks, DecryptType DEF Foreign
  <2> QED BY <2>3, <2>4
<1> QED BY <1>1, <1>2 DEF alphaL, Lbeta

\* The card answers the Read of its only service.
LEMMA CardReads ==
  ASSUME Read, v.ecmd = Command(card.r2), card.tid = tail(Challenge),
         card.services = FixturePath
  PROVE  /\ pc = "read" /\ srv' = srv /\ card' = card /\ upset' = upset
         /\ pc' = "attest2" /\ v' = [v EXCEPT !.resp = Response(card.r2)]
<1>1. pc = "read" /\ srv' = srv /\ card' = card /\ upset' = upset
  BY DEF Read
<1>2. /\ check_mac(v.ecmd, READ_COMMAND_CODE, card.r2)
      /\ v.ecmd.payload.tid = card.tid /\ v.ecmd.payload.tn = 1
      /\ v.ecmd.payload.index = 0 /\ v.ecmd.payload.block = 0
  BY DEF Command, read_ecmd, encrypt_command, check_mac, ECMD_TN
<1>3. Len(card.services) = 1 /\ card.services[v.ecmd.payload.index + 1] = FixtureService
  BY <1>2 DEF FixturePath
<1>4. /\ pc' = "attest2"
      /\ v' = [v EXCEPT !.resp = encrypt_command(READ_RESPONSE_CODE, card.r2,
                 [tn |-> v.ecmd.payload.tn + 1, tid |-> card.tid,
                  data |-> <<Idm, card.services[v.ecmd.payload.index + 1],
                             v.ecmd.payload.block>>])]
  BY <1>2, <1>3 DEF Read
<1>5. Response(card.r2) =
        encrypt_command(READ_RESPONSE_CODE, card.r2,
          [tn |-> v.ecmd.payload.tn + 1, tid |-> card.tid,
           data |-> <<Idm, card.services[v.ecmd.payload.index + 1],
                      v.ecmd.payload.block>>])
  BY <1>2, <1>3 DEF Response, EXPECTED_READ_RESPONSE_TN
<1> QED BY <1>1, <1>4, <1>5

\* The card's answers are to the challenge of the session it is in.
LEMMA CardSteps ==
  ASSUME FlowInv,
         \/ Authentication1("auth1", "settle1")
         \/ Authentication1("second", "settle2")
         \/ Authentication2("auth2", "attest1")
         \/ Authentication2("second auth2", "read")
         \/ Read
  PROVE  FlowInv'
<1> USE DEF FlowInv, InStages, SessionHeld, AnswersHeld, ProofHeld, OutagesAreHarmless,
            Challenged, InSession, Commanded, HasRead, Certified, Lawful, Expected, Session
<1>b. DOMAIN Blank = {"c1a", "c1b", "c2a", "c2b", "ecmd", "auth2", "resp", "result", "cm", "vk"}
  BY DEF Blank
<1>1. ASSUME NEW here \in {"auth1", "second"}, NEW next \in {"settle1", "settle2"},
             next = "settle2" => here = "second", Authentication1(here, next)
      PROVE  FlowInv'
  <2> DEFINE d == tdes_decrypt(v.c1a, CardKeys.alphaL)
  <2>1. PICK k \in R2 :
          /\ card' = [r2 |-> k, tid |-> tail(d), services |-> FixturePath]
          /\ v' = [v EXCEPT !.c1b = tdes_encrypt(d, CardKeys.Lbeta),
                            !.c2a = tdes_encrypt(k, CardKeys.Lbeta)]
    BY <1>1 DEF Authentication1
  <2>2. pc = here /\ pc' = next /\ srv' = srv /\ upset' = upset
    BY <1>1 DEF Authentication1
  <2>3. /\ v'.c1a = v.c1a /\ v'.c1b = tdes_encrypt(d, CardKeys.Lbeta)
        /\ v'.c2a = tdes_encrypt(k, CardKeys.Lbeta) /\ DOMAIN v' = DOMAIN Blank
    BY <1>b, <2>1
  <2>4. CASE v.c1a = C1A
    <3>1. d = Challenge
      BY <2>4, CardDecrypts
    <3>2. tdes_encrypt(d, CardKeys.Lbeta) = C1B /\ tdes_encrypt(k, CardKeys.Lbeta) = C2A(k)
      BY <3>1, Decrypts DEF Lbeta
    <3>3. card' \in [r2 : R2, tid : {tail(Challenge)}, services : {FixturePath}]
          /\ card'.r2 = k
      BY <2>1, <3>1
    <3> HIDE DEF d
    <3>4. Session'
      BY <2>3, <2>4, <3>2, <3>3
    <3> QED BY <2>2, <2>3, <3>4
  <2>5. CASE v.c1a # C1A
    <3>1. /\ here = "auth1" /\ next = "settle1" /\ (Lawful => ~Expected)
          /\ v.c1a \in Foreign
      BY <1>1, <2>2, <2>5
    <3>2. v'.c1b.data # Challenge
      BY <2>3, <3>1, CardDecrypts
    <3> HIDE DEF d
    <3> QED BY <2>2, <2>3, <3>1, <3>2
  <2> QED BY <2>4, <2>5
<1>2. ASSUME Authentication2("auth2", "attest1") \/ Authentication2("second auth2", "read")
      PROVE  FlowInv'
  <2>1. pc \in {"auth2", "second auth2"} /\ card.r2 \in R2 /\ card.tid = tail(Challenge)
        /\ v.c2b = C2B(card.r2)
    BY <1>2 DEF Authentication2
  <2>2. tdes_decrypt(v.c2b, CardKeys.alphaL) = card.r2
    BY <2>1, CardDecrypts
  <2>3. srv' = srv /\ card' = card /\ upset' = upset
        /\ v' = [v EXCEPT !.auth2 = Auth2(card.r2)]
    BY <1>2, <2>1, <2>2 DEF Authentication2, Auth2
  <2>4. \/ pc = "auth2" /\ pc' = "attest1"
        \/ pc = "second auth2" /\ pc' = "read"
    BY <1>2, <2>2 DEF Authentication2
  <2>5. /\ v'.auth2 = Auth2(card.r2) /\ DOMAIN v' = DOMAIN Blank /\ v'.ecmd = v.ecmd
        /\ v'.c1a = v.c1a /\ v'.c1b = v.c1b /\ v'.c2a = v.c2a
    BY <1>b, <2>3
  <2>6. CASE pc = "auth2" /\ pc' = "attest1"
    BY <2>1, <2>3, <2>5, <2>6
  <2>7. CASE pc = "second auth2" /\ pc' = "read"
    <3>1. AnswersHeld'
      BY <2>1, <2>3, <2>5, <2>7
    <3> QED BY <2>1, <2>3, <2>5, <2>7, <3>1
  <2> QED BY <2>4, <2>6, <2>7
<1>3. ASSUME Read PROVE FlowInv'
  <2>1. pc = "read" /\ card.r2 \in R2 /\ card.tid = tail(Challenge)
        /\ card.services = FixturePath /\ v.ecmd = Command(card.r2)
    BY <1>3 DEF Read
  <2>2. /\ srv' = srv /\ card' = card /\ upset' = upset
        /\ pc' = "attest2" /\ v' = [v EXCEPT !.resp = Response(card.r2)]
    BY <1>3, <2>1, CardReads
  <2>3. /\ v'.resp = Response(card.r2) /\ DOMAIN v' = DOMAIN Blank
        /\ v'.ecmd = v.ecmd /\ v'.auth2 = v.auth2
        /\ v'.c1a = v.c1a /\ v'.c1b = v.c1b /\ v'.c2a = v.c2a
    BY <1>b, <2>2
  <2>4. AnswersHeld'
    BY <2>1, <2>2, <2>3
  <2> QED BY <2>1, <2>2, <2>3, <2>4
<1> HIDE DEF FlowInv
<1>4. Authentication1("auth1", "settle1") => FlowInv'
  BY <1>1
<1>5. Authentication1("second", "settle2") => FlowInv'
  BY <1>1
<1> QED BY <1>2, <1>3, <1>4, <1>5

\* What the program checks at the end.
LEMMA CheckSteps ==
  ASSUME FlowInv, Verify \/ Decrypt
  PROVE  FlowInv'
<1> USE DEF FlowInv, InStages, SessionHeld, AnswersHeld, ProofHeld, OutagesAreHarmless,
            Challenged, InSession, Commanded, HasRead, Certified, Lawful, Expected, Session
<1>1. srv' = srv /\ card' = card /\ upset' = upset /\ v' = v
  BY DEF Verify, Decrypt, Panic
<1>2. ASSUME Verify PROVE FlowInv'
  <2>1. pc = "verify" /\ (pc' = IF v.vk = v.result.key THEN "decrypt" ELSE "panicked")
    BY <1>2 DEF Verify, Panic
  <2>2. CASE v.vk = v.result.key
    <3>1. AnswersHeld'
      BY <1>1, <2>1, <2>2
    <3> QED BY <1>1, <2>1, <2>2, <3>1
  <2>3. CASE v.vk # v.result.key
    <3>1. ~Lawful
      BY <2>1, <2>3
    <3> QED BY <1>1, <2>1, <2>3, <3>1
  <2> QED BY <2>2, <2>3
<1>3. ASSUME Decrypt PROVE FlowInv'
  <2>1. pc = "decrypt" /\ v.result.reply.r2 = card.r2 /\ v.resp = Response(card.r2)
    BY <1>3 DEF Decrypt
  <2>2. decrypt_read_response(card.r2, tail(Challenge), Response(card.r2))
          = [err |-> "none", data |-> <<Idm, FixtureService, 0>>]
    BY DEF decrypt_read_response, Response, encrypt_command, check_mac
  <2>3. pc' = "ok"
    BY <1>3, <2>1, <2>2 DEF Decrypt
  <2>4. AnswersHeld'
    BY <1>1, <2>1, <2>3
  <2> QED BY <1>1, <2>1, <2>3, <2>4
<1> QED BY <1>2, <1>3

\* What happens to the server leaves the program's session alone.
LEMMA ServerSteps ==
  ASSUME FlowInv, Rerun \/ Crash \/ ServerRestart \/ Deploy \/ UNCHANGED flowVars
  PROVE  FlowInv'
<1> USE DEF FlowInv, InStages, SessionHeld, AnswersHeld, ProofHeld, OutagesAreHarmless,
            Challenged, InSession, Commanded, HasRead, Certified, Lawful, Expected, Session
<1>t. TRUE \in BOOLEAN /\ FALSE \in BOOLEAN
  BY Zenon
<1>1. ASSUME Rerun PROVE FlowInv'
  <2>1. pc' = "challenge" /\ v' = Blank /\ srv' = srv
    BY <1>1 DEF Rerun
  <2> QED BY <2>1
<1>2. ASSUME Crash \/ ServerRestart PROVE FlowInv'
  <2>1. PICK up_ \in BOOLEAN : srv' = [srv EXCEPT !.up = up_]
    BY <1>2, <1>t DEF Crash, ServerRestart
  <2>2. card' = card /\ pc' = pc /\ v' = v /\ upset \subseteq upset'
        /\ (Lawful' => Lawful)
    BY <1>2 DEF Crash, ServerRestart
  <2>3. /\ srv' \in [up : BOOLEAN, services : NodePaths, key : Ceremony]
        /\ srv'.services = srv.services /\ srv'.key = srv.key
    BY <2>1
  <2>4. AnswersHeld'
    BY <2>2, <2>3
  <2> QED BY <2>2, <2>3, <2>4
<1>3. ASSUME Deploy PROVE FlowInv'
  <2>1. card' = card /\ pc' = pc /\ v' = v /\ ~Lawful' /\ "deployed" \in upset'
    BY <1>3 DEF Deploy
  <2>2. srv' \in [up : BOOLEAN, services : NodePaths, key : Ceremony]
    <3>1. PICK p \in NodePaths, k \in Ceremony : srv' = [up |-> FALSE, services |-> p, key |-> k]
      BY <1>3 DEF Deploy
    <3> QED BY <1>t, <3>1
  <2>3. AnswersHeld'
    BY <2>1
  <2> QED BY <2>1, <2>2, <2>3
<1>4. ASSUME UNCHANGED flowVars PROVE FlowInv'
  <2>1. card' = card /\ pc' = pc /\ v' = v /\ srv' = srv /\ upset' = upset
    BY <1>4 DEF flowVars
  <2>2. AnswersHeld'
    BY <2>1
  <2> QED BY <2>1, <2>2
<1> QED BY <1>1, <1>2, <1>3, <1>4

\* At each of its statements the client holds the values of one genuine session, whatever
\* fails and is deployed meanwhile (server/examples/rpc_attest.rs).
THEOREM FlowInvariance == FlowSpec => []FlowInv
<1>1. FlowInit => FlowInv
  BY FlowInit_
<1>2. FlowInv /\ [FlowNext]_flowVars => FlowInv'
  <2> SUFFICES ASSUME FlowInv, [FlowNext]_flowVars PROVE FlowInv'
    OBVIOUS
  <2>1. ReadSpec = [service |-> FixtureService, block |-> 0]
    BY DEF ReadSpec
  <2> QED BY <2>1, CallSteps, CardSteps, CheckSteps, ServerSteps DEF FlowNext, Program
<1> QED BY <1>1, <1>2, PTL DEF FlowSpec

\* A run of the example that ends well has read its own block, from the card before it,
\* and its proof verifies and commits to that read, wherever the server crashed or was
\* deployed anew, for every number of crashes, keys and node paths.
THEOREM EndingWellIsGenuine == FlowSpec => []OkIsGenuine
<1>1. FlowInv => OkIsGenuine
  <2> SUFFICES ASSUME FlowInv, pc = "ok"
      PROVE  /\ v.vk = v.result.key
             /\ v.result.reply.proof.cm = [ecmd |-> v.ecmd, response |-> v.resp]
             /\ v.result.reply.r2 = card.r2 /\ v.resp.key = card.r2
             /\ v.resp.payload.data = <<Idm, FixtureService, 0>>
    BY DEF OkIsGenuine
  <2>1. v.resp = Response(card.r2)
    BY DEF FlowInv, AnswersHeld, HasRead, Certified
  <2>2. v.resp.key = card.r2 /\ v.resp.payload.data = <<Idm, FixtureService, 0>>
    BY <2>1 DEF Response, encrypt_command
  <2> QED BY <2>2 DEF FlowInv, ProofHeld, Certified
<1> QED BY <1>1, FlowInvariance, PTL

\* The service keeps nothing between two calls: an outage that no call falls into fails
\* no run of the example, wherever it comes, while the node path is the one it expects.
THEOREM OutagesDoNoHarm == FlowSpec => []OutagesAreHarmless
<1>1. FlowInv => OutagesAreHarmless
  BY DEF FlowInv
<1> QED BY <1>1, FlowInvariance, PTL
=============================================================================
