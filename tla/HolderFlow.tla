----------------------------- MODULE HolderFlow -----------------------------
(***************************************************************************)
(* server/examples/rpc_attest.rs, end to end: one program calls the oracle *)
(* seven times, over a connection of its own each time, and drives a card  *)
(* in between; it stops at the first thing that is not as it should be.    *)
(* The server may crash, be restarted and be deployed anew, with another   *)
(* Secret or another ceremony's keys, between any two calls: what the      *)
(* program has got so far is all that is left of its session.              *)
(***************************************************************************)
EXTENDS OracleService, FiniteSets

CONSTANTS
  Idm, Challenge,  \* fixture::IDM and R1_HEX
  Service,         \* services a node path may name
  FixtureService,  \* fixture::SERVICE: all that the card is asked for
  Ceremony,        \* key pairs it may be deployed with
  MaxOutages, MaxDeploys  \* bounds: crashes and new deployments in a behaviour

\* What an ecmd, an AUTH2 and a Read response are made of.
Frames ==
  [code : {READ_COMMAND_CODE}, key : R2,
   payload : [tn : {ECMD_TN}, tid : Tid, index : 0 .. SlotLimit - 1, block : {0}]]
    \cup [code : {AUTH2_CODE}, key : R2, payload : [tn : {0}, tid : Tid, idi : IDi]]
    \cup [code : {READ_RESPONSE_CODE}, key : R2,
          payload : [tn : {EXPECTED_READ_RESPONSE_TN}, tid : Tid,
                     data : {Idm} \X {FixtureService} \X {0}]]

\* fixture::SERVICE alone: the list the program authenticates the card with, and the
\* one whose keys fixture::setup gives the card.
FixturePath == <<FixtureService>>

ASSUME FixtureType == /\ Idm \in IDm /\ Challenge \in R1 /\ FixtureService \in Service
                      /\ NodePaths \subseteq Seq(Service) /\ FixturePath \in NodePaths
ASSUME FixtureParses ==
  BadHex \notin {Idm, Challenge, Absent} \cup Cipher \cup Frames
           \cup [ecmd : Frames, response : Frames]
ASSUME AbsentIsNothing ==
  Absent \notin [service : Service, block : {0}] \cup [ecmd : Frames, response : Frames]

VARIABLES
  srv,      \* the server: up, services and key
  card,     \* the fixture's card: what it is in the middle of
  drawn,    \* challenges its cards have drawn in this run
  pc,       \* what the program does next
  v,        \* its variables
  upset,    \* what has happened to the server during the run
  outages, deploys

flowVars == <<srv, card, drawn, pc, v, upset, outages, deploys>>

Fresh == [r2 |-> Absent, tid |-> Absent, services |-> <<>>]

Blank == [c1a |-> Absent, c1b |-> Absent, c2a |-> Absent, c2b |-> Absent,
          ecmd |-> Absent, auth2 |-> Absent, resp |-> Absent,
          result |-> Absent, cm |-> Absent, vk |-> Absent]

cfg == Secret(<<"area">>, srv.services)

CardKeys == derive(KeysOf[FixturePath], Idm)

FlowInit ==
  /\ srv \in [up : {TRUE}, services : NodePaths, key : Ceremony]
  /\ card = Fresh /\ drawn = {} /\ pc = "challenge" /\ v = Blank
  /\ upset = {} /\ outages = 0 /\ deploys = 0

Panic == pc' = "panicked" /\ UNCHANGED v

\* connect and unwrap: an error of any kind, in the transport or in the reply, ends
\* the program.
rpc(reply, next, values) ==
  /\ IF srv.up /\ reply.code = OK THEN pc' = next /\ v' = values ELSE Panic
  /\ upset' = IF srv.up THEN upset ELSE upset \cup {"call while down"}
  /\ UNCHANGED <<srv, card, drawn, outages, deploys>>

CallChallenge ==
  /\ pc = "challenge"
  /\ LET reply == challenge(cfg, Idm, Challenge)
     IN rpc(reply, "auth1", [v EXCEPT !.c1a = reply.c1a])

\* A card of its own for each flow; c1a is asked for once.  A card answers whatever c1a
\* decrypts to: made under other keys than its own it leaves junk.
Authentication1(here, next) ==
  /\ pc = here
  /\ \E k \in R2 \ drawn :
       LET r == tdes_decrypt(v.c1a, CardKeys.alphaL)
       IN /\ card' = [r2 |-> k, tid |-> tail(r), services |-> FixturePath]
          /\ drawn' = drawn \cup {k}
          /\ v' = [v EXCEPT !.c1b = tdes_encrypt(r, CardKeys.Lbeta),
                            !.c2a = tdes_encrypt(k, CardKeys.Lbeta)]
  /\ pc' = next
  /\ UNCHANGED <<srv, upset, outages, deploys>>

\* Faulty: settle answers with the c2b it gave before.
CallSettle_once(here, next, read_spec) ==
  /\ pc = here
  /\ LET reply == settle(cfg, Idm, Challenge, v.c1b, v.c2a, read_spec)
     IN rpc(reply, next, [v EXCEPT !.c2b = IF @ = Absent THEN reply.c2b ELSE @,
                                   !.ecmd = reply.ecmd])

CallSettle(here, next, read_spec) ==
  /\ pc = here
  /\ LET reply == settle(cfg, Idm, Challenge, v.c1b, v.c2a, read_spec)
     IN rpc(reply, next, [v EXCEPT !.c2b = reply.c2b, !.ecmd = reply.ecmd])

\* "card answers authentication2": it does when c2b is the answer to its challenge.
Authentication2(here, next) ==
  /\ pc = here
  /\ IF tdes_decrypt(v.c2b, CardKeys.alphaL) = card.r2
     THEN /\ pc' = next
          /\ v' = [v EXCEPT !.auth2 = encrypt_command(AUTH2_CODE, card.r2,
                     [tn |-> 0, tid |-> card.tid, idi |-> IDiOf[Idm]])]
     ELSE Panic
  /\ UNCHANGED <<srv, card, drawn, upset, outages, deploys>>

\* The proof is made with the key the server has then.
CallAttest(here, next, cm) ==
  /\ pc = here
  /\ LET reply == attest(cfg, "loaded", Idm, v.c1b, v.c2a, v.auth2, cm)
     IN IF reply.code = OK /\ reply.idi # IDiOf[Idm] THEN Panic /\ UNCHANGED
             <<srv, card, drawn, upset, outages, deploys>>
        ELSE rpc(reply, next, [v EXCEPT !.result = [reply |-> reply, key |-> srv.key],
                                        !.cm = cm])

\* "card executes ecmd": one that opens, under the TID and within its own list.
Read ==
  /\ pc = "read"
  /\ LET e == v.ecmd
     IN IF /\ check_mac(e, READ_COMMAND_CODE, card.r2)
           /\ e.payload.tid = card.tid /\ e.payload.tn > 0
           /\ e.payload.index < Len(card.services)
        THEN /\ pc' = "attest2"
             /\ v' = [v EXCEPT !.resp = encrypt_command(READ_RESPONSE_CODE, card.r2,
                        [tn |-> e.payload.tn + 1, tid |-> card.tid,
                         data |-> <<Idm, card.services[e.payload.index + 1],
                                    e.payload.block>>])]
        ELSE Panic
  /\ UNCHANGED <<srv, card, drawn, upset, outages, deploys>>

CallGetVerifyingKey ==
  /\ pc = "vk"
  /\ rpc([code |-> OK], "verify", [v EXCEPT !.vk = srv.key])

\* Faulty: the proof is not looked at.
Verify_nothing ==
  /\ pc = "verify" /\ pc' = "decrypt"
  /\ UNCHANGED <<srv, card, drawn, v, upset, outages, deploys>>

\* "read proof verifies against RPC vk".
Verify ==
  /\ pc = "verify"
  /\ IF v.vk = v.result.key THEN pc' = "decrypt" /\ UNCHANGED v ELSE Panic
  /\ UNCHANGED <<srv, card, drawn, upset, outages, deploys>>

\* "block contents match".
Decrypt ==
  /\ pc = "decrypt"
  /\ LET read == decrypt_read_response(v.result.reply.r2, tail(Challenge), v.resp)
     IN IF read.err = "none" /\ read.data = <<Idm, FixtureService, 0>>
        THEN pc' = "ok" /\ UNCHANGED v
        ELSE Panic
  /\ UNCHANGED <<srv, card, drawn, upset, outages, deploys>>

Program ==
  \/ CallChallenge
  \/ Authentication1("auth1", "settle1")
  \/ CallSettle("settle1", "auth2", Absent)
  \/ Authentication2("auth2", "attest1")
  \/ CallAttest("attest1", "second", Absent)
  \/ Authentication1("second", "settle2")
  \/ CallSettle("settle2", "second auth2", [service |-> FixtureService, block |-> 0])
  \/ Authentication2("second auth2", "read")
  \/ Read
  \/ CallAttest("attest2", "vk", [ecmd |-> v.ecmd, response |-> v.resp])
  \/ CallGetVerifyingKey
  \/ Verify
  \/ Decrypt

\* It is run again, with new cards.
Rerun ==
  /\ pc = "panicked"
  /\ pc' = "challenge" /\ v' = Blank /\ card' = Fresh /\ drawn' = {}
  /\ upset' = IF srv.up THEN {} ELSE {"down"}
  /\ UNCHANGED <<srv, outages, deploys>>

Crash ==
  /\ srv.up /\ outages < MaxOutages
  /\ srv' = [srv EXCEPT !.up = FALSE]
  /\ outages' = outages + 1
  /\ upset' = upset \cup {"down"}
  /\ UNCHANGED <<card, drawn, pc, v, deploys>>

ServerRestart ==
  /\ ~srv.up
  /\ srv' = [srv EXCEPT !.up = TRUE]
  /\ UNCHANGED <<card, drawn, pc, v, upset, outages, deploys>>

\* Another Secret, with the keys of its node path, or another key ceremony.
Deploy ==
  /\ deploys < MaxDeploys
  /\ \E p \in NodePaths, k \in Ceremony : srv' = [up |-> FALSE, services |-> p, key |-> k]
  /\ deploys' = deploys + 1
  /\ upset' = upset \cup {"down", "deployed"}
  /\ UNCHANGED <<card, drawn, pc, v, outages>>

FlowNext == Program \/ Rerun \/ Crash \/ ServerRestart \/ Deploy

FlowSpec == FlowInit /\ [][FlowNext]_flowVars

\* The pod is restarted, the program goes on, and someone runs it again.
FairFlowSpec ==
  /\ FlowSpec
  /\ WF_flowVars(Program) /\ WF_flowVars(Rerun) /\ WF_flowVars(ServerRestart)

-----------------------------------------------------------------------------
\* A run that ends well has read the block it asked for from the card in front of it,
\* and holds a proof, under the key the oracle serves, that commits to exactly that
\* command and response (rpc_attest.rs main, "E2E OK").
OkIsGenuine ==
  pc = "ok" =>
    LET reply == v.result.reply
    IN /\ v.vk = v.result.key
       /\ reply.proof.cm = [ecmd |-> v.ecmd, response |-> v.resp]
       /\ reply.r2 = card.r2 /\ v.resp.key = card.r2
       /\ v.resp.payload.data = <<Idm, FixtureService, 0>>

\* An outage between two calls costs nothing: a run ends badly only when it calls
\* while the server is down, when the server is deployed anew under it, or when its
\* Secret is not that of the node path the program takes for granted (service.rs keeps no
\* state).
OutagesAreHarmless ==
  (pc = "panicked" /\ {"deployed", "call while down"} \cap upset = {})
    => srv.services # FixturePath

\* Once the deployment is the one the program expects, it ends well.
EndsWell == <>[](srv.services = FixturePath) => <>(pc = "ok")
=============================================================================
