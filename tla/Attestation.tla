---------------------------- MODULE Attestation ----------------------------
(***************************************************************************)
(* The attestation protocol: cards, holder devices, the stateless oracle   *)
(* and a verifier's commitment registry, composed.                         *)
(*                                                                         *)
(* The oracle's steps are the handlers of OracleService.  The card and the *)
(* holder are external to the server; they are modelled from how           *)
(* server/examples/rpc_attest.rs, the tests and schedule.rs use them.      *)
(*                                                                         *)
(* Every reply, of the oracle or of a card, stays in a set that only       *)
(* grows: a reply may be lost (never used), used twice, or used late and   *)
(* after others, and a holder may retry any step.  Values of different     *)
(* taps can therefore meet in one request, as they do when a tap is        *)
(* repeated or two sessions run side by side.                              *)
(***************************************************************************)
EXTENDS OracleService, FiniteSets

CONSTANTS
  Holder,        \* holder sessions, each with a challenge of its own
  Service,       \* service codes
  Block,         \* block numbers
  ReadSpec,      \* [service, block] targets holders ask for
  MaxSettles,    \* bound: settle replies in a behaviour
  MaxAttests,    \* bound: attest replies in a behaviour
  MaxRedeploys   \* bound: configuration changes in a behaviour

ASSUME BoundsType == /\ MaxSettles \in Nat
                     /\ MaxAttests \in Nat
                     /\ MaxRedeploys \in Nat
ASSUME PathsType == NodePaths \subseteq Seq(Service)
ASSUME TargetsType == ReadSpec \subseteq [service : Service, block : Block]

VARIABLES
  cfg,          \* the deployed AppConfig
  redeploys,    \* how often the Secret has been replaced
  session,      \* per holder: the polled IDm and the drawn R1
  challenges,   \* challenge replies
  taps,         \* Authentication1 responses
  settled,      \* settle replies, with the request they answer
  card,         \* per card: the authentication in progress
  lastTn,       \* per card and TID: the last transaction number
  auth2s,       \* AUTH2 ciphertexts
  reads,        \* encrypted Read responses, with the command each answers
  executed,     \* per session key: Read commands a card has executed
  registered,   \* commitments the verifier has on record
  attested      \* attest replies, with the request they answer

oracleVars == <<cfg, redeploys>>
cardVars == <<card, lastTn, auth2s, reads, executed>>
vars == <<cfg, redeploys, session, challenges, taps, settled, card, lastTn,
          auth2s, reads, executed, registered, attested>>

NoSession == [idm |-> "none", r1 |-> "none"]
Idle == [phase |-> "idle", r1 |-> "none", r2 |-> "none", services |-> <<>>]

\* The node paths of this model have no areas.
Deployments == {Secret(<<>>, p) : p \in NodePaths}

commit(e, response) == [ecmd |-> e, response |-> response]

Init ==
  /\ cfg \in Deployments
  /\ redeploys = 0
  /\ session = [h \in Holder |-> NoSession]
  /\ challenges = {} /\ taps = {} /\ settled = {}
  /\ card = [i \in IDm |-> Idle]
  /\ lastTn = [i \in IDm |-> [t \in Tid |-> 0]]
  /\ auth2s = {} /\ reads = {}
  /\ executed = [k \in R2 |-> 0]
  /\ registered = {} /\ attested = {}

-----------------------------------------------------------------------------
(* Holder and verifier *)

\* The holder polls a card and draws a fresh R1.
Begin(h) ==
  /\ session[h] = NoSession
  /\ \E i \in IDm, r \in R1 :
       /\ \A g \in Holder : session[g].r1 # r
       /\ session' = [session EXCEPT ![h] = [idm |-> i, r1 |-> r]]
  /\ UNCHANGED <<oracleVars, challenges, taps, settled, cardVars, registered,
                 attested>>

\* The holder commits to the command it sent and the response it got to it,
\* and registers the commitment with the verifier.
Register ==
  /\ \E x \in reads : registered' = registered \cup {commit(x.ecmd, x.response)}
  /\ UNCHANGED <<oracleVars, session, challenges, taps, settled, cardVars,
                 attested>>

-----------------------------------------------------------------------------
(* Oracle *)

Challenge(h) ==
  /\ session[h] # NoSession
  /\ LET reply == challenge(cfg, session[h].idm, session[h].r1) IN
       /\ reply.code = OK
       /\ challenges' = challenges \cup
            {[holder |-> h, c1a |-> reply.c1a, services |-> reply.services]}
  /\ UNCHANGED <<oracleVars, session, taps, settled, cardVars, registered,
                 attested>>

\* c1b and c2a may be of different taps; the R1 is the session's own.
Settle(h) ==
  /\ session[h] # NoSession
  /\ Cardinality(settled) < MaxSettles
  /\ \E t, u \in taps, rs \in ReadSpec \cup {Absent} :
       LET i == session[h].idm
           reply == settle(cfg, i, session[h].r1, t.c1b, u.c2a, rs)
       IN /\ reply.code = OK
          /\ settled' = settled \cup
               {[idm |-> i, r1 |-> session[h].r1, c1b |-> t.c1b, c2a |-> u.c2a,
                 read_spec |-> rs, services |-> cfg.services,
                 c2b |-> reply.c2b, ecmd |-> reply.ecmd]}
  /\ UNCHANGED <<oracleVars, session, challenges, taps, cardVars, registered,
                 attested>>

\* The listening server has its key in the cache, so pk is "loaded".
Attest ==
  /\ Cardinality(attested) < MaxAttests
  /\ \E i \in IDm, t, u \in taps, x \in auth2s, c \in registered \cup {Absent} :
       LET reply == attest(cfg, "loaded", i, t.c1b, u.c2a, x, c) IN
       /\ reply.code = OK
       /\ attested' = attested \cup
            {[idm |-> i, c1b |-> t.c1b, c2a |-> u.c2a, auth2 |-> x, cm |-> c,
              reply |-> reply]}
  /\ UNCHANGED <<oracleVars, session, challenges, taps, settled, cardVars,
                 registered>>

\* The pod is recreated from another Secret: another node path and the keys that
\* belong to it.
Redeploy ==
  /\ redeploys < MaxRedeploys
  /\ cfg' \in Deployments
  /\ redeploys' = redeploys + 1
  /\ UNCHANGED <<session, challenges, taps, settled, cardVars, registered,
                 attested>>

-----------------------------------------------------------------------------
(* Card *)

\* Authentication1 with the node path and C1A of a challenge reply: a fresh
\* R2, whatever the card was doing before, and the keys of that node path.
CardAuth1(h) ==
  /\ \E ch \in challenges, k \in R2 :
       LET i == session[h].idm
           keys == KeysOf[ch.services]
           r == tdes_decrypt(ch.c1a, derive(keys, i).alphaL)
       IN /\ ch.holder = h
          /\ \A t \in taps : t.r2 # k
          /\ card' = [card EXCEPT ![i] = [phase |-> "auth1", r1 |-> r, r2 |-> k,
                                          services |-> ch.services]]
          /\ taps' = taps \cup
               {[idm |-> i, r1 |-> r, r2 |-> k, services |-> ch.services,
                 c1b |-> tdes_encrypt(r, derive(keys, i).Lbeta),
                 c2a |-> tdes_encrypt(k, derive(keys, i).Lbeta)]}
  /\ UNCHANGED <<oracleVars, session, challenges, settled, lastTn, auth2s,
                 reads, executed, registered, attested>>

\* Authentication2, addressed to this card: accepted when C2B answers the R2 of this authentication.
CardAuth2(i) ==
  /\ card[i].phase # "idle"
  /\ \E s \in settled :
       /\ s.idm = i
       /\ tdes_decrypt(s.c2b, derive(KeysOf[card[i].services], i).alphaL) = card[i].r2
  /\ card' = [card EXCEPT ![i].phase = "auth2"]
  /\ LET tid == tail(card[i].r1) IN
       auth2s' = auth2s \cup
         {encrypt_command(AUTH2_CODE, card[i].r2,
            [tn |-> lastTn[i][tid], tid |-> tid, idi |-> IDiOf[i]])}
  /\ UNCHANGED <<oracleVars, session, challenges, taps, settled, lastTn, reads,
                 executed, registered, attested>>

\* What a card in state c, with last number last, executes.
card_accepts(c, last, e) ==
  /\ c.phase = "auth2"
  /\ check_mac(e, READ_COMMAND_CODE, c.r2)
  /\ e.payload.tid = tail(c.r1)
  /\ e.payload.tn > last
  /\ e.payload.index < Len(c.services)

\* A Read frame names no card: any command settle has issued may reach this one.
CardRead(i) ==
  /\ \E s \in settled :
       LET e == s.ecmd
           tid == tail(card[i].r1)
           tn == e.payload.tn + 1
       IN /\ e # Absent
          /\ card_accepts(card[i], lastTn[i][tid], e)
          /\ lastTn' = [lastTn EXCEPT ![i][tid] = tn]
          /\ executed' = [executed EXCEPT ![card[i].r2] = @ + 1]
          /\ reads' = reads \cup
               {[ecmd |-> e,
                 response |-> encrypt_command(READ_RESPONSE_CODE, card[i].r2,
                   [tn |-> tn, tid |-> tid,
                    data |-> <<i, card[i].services[e.payload.index + 1],
                               e.payload.block>>])]}
  /\ UNCHANGED <<oracleVars, session, challenges, taps, settled, card, auth2s,
                 registered, attested>>

\* The card leaves the field; its transaction numbers may or may not survive.
CardReset(i) ==
  /\ card[i] # Idle
  /\ card' = [card EXCEPT ![i] = Idle]
  /\ \/ UNCHANGED lastTn
     \/ lastTn' = [lastTn EXCEPT ![i] = [t \in Tid |-> 0]]
  /\ UNCHANGED <<oracleVars, session, challenges, taps, settled, auth2s, reads,
                 executed, registered, attested>>

Next ==
  \/ \E h \in Holder : Begin(h) \/ Challenge(h) \/ CardAuth1(h) \/ Settle(h)
  \/ \E i \in IDm : CardAuth2(i) \/ CardRead(i) \/ CardReset(i)
  \/ Register
  \/ Attest
  \/ Redeploy

Spec == Init /\ [][Next]_vars

-----------------------------------------------------------------------------
(* Types *)

Challenges == [holder : Holder, c1a : Cipher, services : NodePaths]
Taps == [idm : IDm, r1 : R1, r2 : R2, services : NodePaths, c1b : Cipher,
         c2a : Cipher]
Commands == [code : {READ_COMMAND_CODE}, key : R2 \cup Junk,
             payload : [tn : {ECMD_TN}, tid : Tid, index : Nat, block : Block]]
Settled == [idm : IDm, r1 : R1, c1b : Cipher, c2a : Cipher,
            read_spec : ReadSpec \cup {Absent}, services : NodePaths,
            c2b : [key : KeyPair, data : R2 \cup Junk],
            ecmd : Commands \cup {Absent}]
Auth2Frames == [code : {AUTH2_CODE}, key : R2,
                payload : [tn : Nat, tid : Tid, idi : IDi]]
Responses == [code : {READ_RESPONSE_CODE}, key : R2,
              payload : [tn : Nat, tid : Tid, data : IDm \X Service \X Block]]
Commitments == [ecmd : Commands, response : Responses]
Replies == [code : {OK}, idi : IDi, r2 : R2, cm_out : Commitments \cup {ZeroCm},
            proof : [r1 : R1 \cup Junk, c1b : Cipher, c2a : Cipher,
                     auth2 : Auth2Frames, cm : Commitments \cup {ZeroCm},
                     idi : IDi, r2 : R2]]

\* What does not parse is none of the values that honest parties send.
ASSUME BadHexParsesNot ==
  /\ BadHex \notin IDm /\ BadHex \notin R1 /\ BadHex \notin Cipher
  /\ BadHex \notin Auth2Frames /\ BadHex \notin Commitments /\ BadHex # Absent

TypeOK ==
  /\ cfg \in Deployments
  /\ redeploys \in 0 .. MaxRedeploys
  /\ session \in [Holder -> [idm : IDm, r1 : R1] \cup {NoSession}]
  /\ challenges \subseteq Challenges
  /\ taps \subseteq Taps
  /\ settled \subseteq Settled
  /\ card \in [IDm -> [phase : {"auth1", "auth2"}, r1 : R1, r2 : R2,
                       services : NodePaths] \cup {Idle}]
  /\ lastTn \in [IDm -> [Tid -> Nat]]
  /\ auth2s \subseteq Auth2Frames
  /\ reads \subseteq Commitments
  /\ executed \in [R2 -> Nat]
  /\ registered \subseteq Commitments
  /\ attested \subseteq [idm : IDm, c1b : Cipher, c2a : Cipher,
                         auth2 : Auth2Frames, cm : Commitments \cup {Absent},
                         reply : Replies]

-----------------------------------------------------------------------------
(* Safety *)

\* The Authentication1 an attest reply certifies: the one whose C2A it names.
certifies(a, t) == t.idm = a.idm /\ t.c2a = a.c2a

\* A certificate is never assembled from parts of different sessions
\* (service.rs attest, oracle/mod.rs verify_session): its R2 and IDi are those
\* of one card, in one authentication this card itself completed, and its R1
\* has the TID of the challenge that card decrypted then.
CertifiedSessionIsGenuine ==
  \A a \in attested : \E t \in taps :
    /\ certifies(a, t)
    /\ a.reply.r2 = t.r2
    /\ a.reply.idi = IDiOf[t.idm]
    /\ tail(a.reply.proof.r1) = tail(t.r1)
    /\ \E x \in auth2s : x.key = t.r2 /\ x = a.reply.proof.auth2

\* A settle reply to the C2A of an authentication, for its card and under the keys
\* the card used in it.
answers(s, t) == s.idm = t.idm /\ s.c2a = t.c2a /\ s.services = t.services

\* R2 is published only for a session the oracle has settled before, under the
\* Secret it was opened under, although attest itself remembers nothing of settle
\* (service.rs settle and attest).
PublishedOnlyAfterSettle ==
  \A a \in attested : \E t \in taps, s \in settled : certifies(a, t) /\ answers(s, t)

\* However many Read commands settle has issued for a session, the card
\* executes one of them at most (schedule.rs, the TN chain of ECMD_TN).
ReadExecutedAtMostOnce == \A k \in R2 : executed[k] <= 1

\* What a recipient accepts with a published R2 (decrypt_read_response, as
\* rpc_attest.rs calls it), for a commitment the certificate carries, is the
\* block that the committed command named, read by the certified card in its
\* one execution of the session.  s is a settle reply that issued the command:
\* it looked the service up in the list deployed then, the card its slot in the
\* list it was authenticated with, and the Secret may have been replaced in
\* between.
PresentationIsAuthentic ==
  \A a \in attested, x \in reads :
    LET opened == decrypt_read_response(a.reply.r2, tail(a.reply.proof.r1),
                                        x.response)
    IN (a.cm = commit(x.ecmd, x.response) /\ opened.err = "none")
         => \E t \in taps :
              /\ certifies(a, t)
              /\ executed[t.r2] = 1
              /\ opened.data[1] = t.idm
              /\ \A s \in settled :
                   s.ecmd = x.ecmd =>
                     opened.data = <<t.idm, s.read_spec.service,
                                     s.read_spec.block>>

\* A session belongs to the Secret it was opened under.  While that one is
\* deployed, its values pass settle and attest at any later time, so a lost reply
\* can always be asked for again, also when another Secret has been in its place;
\* under any other Secret each call refuses them at its first check (service.rs
\* settle and attest; config.rs: the keys and the node path they belong to).
SessionBelongsToItsSecret ==
  \A t \in taps :
    LET deployed == cfg = Secret(<<>>, t.services) IN
    /\ settle(cfg, t.idm, t.r1, t.c1b, t.c2a, Absent).code
         = IF deployed THEN OK ELSE C1B_MISMATCH
    /\ \A x \in auth2s, c \in registered \cup {Absent} : x.key = t.r2 =>
         attest(cfg, "loaded", t.idm, t.c1b, t.c2a, x, c).code
           = IF deployed THEN OK ELSE MAC_MISMATCH

\* A Read command issued for the session a card is in, before any other has
\* run under its TID, is one the card executes (settle's ecmd, TN = 1).
FirstCommandAccepted ==
  \A s \in settled, t \in taps :
    LET c == card[t.idm] IN
    (/\ s.ecmd # Absent /\ answers(s, t) /\ tail(s.r1) = tail(t.r1)
     /\ c.phase = "auth2" /\ c.r2 = t.r2 /\ lastTn[t.idm][tail(t.r1)] = 0)
      => card_accepts(c, 0, s.ecmd)

\* The protocol seen as AttestationGoal sees it.
Goal == INSTANCE AttestationGoal WITH
  Card <- IDm, SessionKey <- R2, TransactionId <- Tid, CardIdOf <- IDiOf,
  opened <- {[card |-> t.idm, key |-> t.r2, tid |-> tail(t.r1)] : t \in taps},
  admitted <- {t.r2 : t \in {u \in taps : \E s \in settled : answers(s, u)}},
  completed <- {x.key : x \in auth2s},
  reads <- executed,
  certified <- {[card |-> a.idm, idi |-> a.reply.idi, key |-> a.reply.r2,
                 tid |-> tail(a.reply.proof.r1)] : a \in attested}

\* The protocol keeps AttestationGoal's promise: sessions are opened under fresh
\* keys, admitted, completed, released and certified in that order, and a
\* certificate names the card, IDi, key and TID of one session, whatever
\* messages are lost, repeated, delayed or mixed (service.rs settle and attest,
\* oracle/mod.rs verify_session).
RefinesGoal == Goal!Spec

\* schedule.rs: "The oracle issues exactly one `ecmd` per session".
OneEcmdPerSession ==
  \A s, u \in settled :
    (s.ecmd # Absent /\ u.ecmd # Absent /\ s.c2a = u.c2a) => s.ecmd = u.ecmd
=============================================================================
