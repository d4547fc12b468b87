------------------------- MODULE AttestationProofs -------------------------
(***************************************************************************)
(* Proofs about Attestation, for any number of cards, holders, challenges, *)
(* replies and redeployments.                                              *)
(*                                                                         *)
(* Inv is the inductive invariant.  Its parts follow a value from where it *)
(* is drawn to where it is certified: a challenge reply carries its        *)
(* holder's R1, a tap's C1B and C2A carry that tap's R1 and R2 under the   *)
(* keys of its node path, no two taps share an R2, an AUTH2 frame comes    *)
(* from a tap settled with those keys, and the TN chain remembers an       *)
(* executed Read for as long as its session lasts.                         *)
(* SettledNames and ReadsFromTaps, shown over Inv, follow what was asked   *)
(* for and read.  At the end Attestation is shown to implement             *)
(* AttestationGoal: its initial state is initial there, and each of its    *)
(* steps is a step there or changes nothing there.                         *)
(***************************************************************************)
EXTENDS Attestation, OracleServiceProofs

\* A challenge reply carries its holder's R1, under the key of its holder's card
\* and of the node path it names.
ChallengesMatch ==
  \A ch \in challenges :
    /\ session[ch.holder] # NoSession
    /\ ch.c1a = c1a(KeysOf[ch.services], session[ch.holder].idm, session[ch.holder].r1)

\* The key under which the card of a tap answered.
tapKey(t) == derive(KeysOf[t.services], t.idm).Lbeta

\* C1B and C2A of a tap carry that tap's R1 and R2, under the key of its card.
TapsSealed ==
  \A t \in taps : /\ t.c1b = [key |-> tapKey(t), data |-> t.r1]
                  /\ t.c2a = [key |-> tapKey(t), data |-> t.r2]

\* No two taps share an R2.
TapsDistinct == \A t, u \in taps : t.r2 = u.r2 => t = u

\* What the oracle decrypts the C2A of a settle request to, with the keys that belong
\* to the service list it then had.
decrypted(s) == r2_from_c2a(KeysOf[s.services], s.idm, s.c2a)

\* A settle reply answers the C2A of a tap, and its ECMD is sealed under that R2.
SettledAnswers ==
  \A s \in settled :
    /\ \E u \in taps : s.c2a = u.c2a
    /\ s.c2b = c2b(KeysOf[s.services], s.idm, decrypted(s))
    /\ s.ecmd # Absent =>
         /\ s.ecmd.key = decrypted(s)
         /\ s.ecmd.payload.tid = tail(s.r1)
         /\ s.ecmd.payload.index < Len(s.services)

\* The tap a card is in.
current(i, t) ==
  t.idm = i /\ t.r1 = card[i].r1 /\ t.r2 = card[i].r2 /\ t.services = card[i].services

\* A card in a session is in one of the taps, and past Auth2 has sent an AUTH2 frame.
CardsInTaps ==
  \A i \in IDm : card[i] # Idle =>
    /\ \E t \in taps : current(i, t)
    /\ card[i].phase = "auth2" => \E x \in auth2s : x.key = card[i].r2

\* An AUTH2 frame comes from a tap, whose C2A has been settled.
Auth2sFromTaps ==
  \A x \in auth2s : \E t \in taps :
    /\ x.key = t.r2
    /\ x.payload.tid = tail(t.r1)
    /\ x.payload.idi = IDiOf[t.idm]
    /\ \E s \in settled : answers(s, t)

\* A session executes one Read at most, and its card's TN remembers that it has.
ReadsCounted ==
  /\ \A k \in R2 : executed[k] > 0 => executed[k] = 1 /\ \E t \in taps : t.r2 = k
  /\ \A i \in IDm : (card[i] # Idle /\ executed[card[i].r2] > 0)
                      => lastTn[i][tail(card[i].r1)] > ECMD_TN

\* The inductive invariant.
Inv ==
  /\ TypeOK
  /\ ChallengesMatch /\ TapsSealed /\ TapsDistinct /\ SettledAnswers
  /\ CardsInTaps /\ Auth2sFromTaps /\ ReadsCounted
  /\ CertifiedSessionIsGenuine /\ PublishedOnlyAfterSettle
-----------------------------------------------------------------------------
(* Consequences of Inv *)

\* A session is a polled card and an R1; a card out of the field is Idle.
LEMMA Shapes ==
  ASSUME TypeOK
  PROVE  /\ \A h \in Holder : session[h] # NoSession =>
               session[h].idm \in IDm /\ session[h].r1 \in R1
         /\ \A i \in IDm : card[i] # Idle =>
               /\ card[i] \in [phase : {"auth1", "auth2"}, r1 : R1, r2 : R2,
                               services : NodePaths]
               /\ card[i].phase # "idle"
         /\ \A i \in IDm : card[i].phase # "idle" => card[i] # Idle
         /\ \A r \in R1 : tail(r) \in Tid
         /\ \A p \in NodePaths : Len(p) \in Nat /\ \A n \in 1 .. Len(p) : p[n] \in Service
BY PathsType, TailType DEF TypeOK, Idle, tail, Nonce

\* The deployed keys are those of the deployed node path.
LEMMA DeployedKeys ==
  ASSUME TypeOK
  PROVE  /\ cfg.services \in NodePaths /\ Len(cfg.services) \in Nat
         /\ cfg.keys = KeysOf[cfg.services] /\ cfg.keys \in Keys
         /\ \A p \in NodePaths : /\ cfg.keys = KeysOf[p] <=> cfg = Secret(<<>>, p)
                                 /\ cfg = Secret(<<>>, p) => cfg.services = p
<1>1. PICK q \in NodePaths : cfg = Secret(<<>>, q)
  BY DEF TypeOK, Deployments
<1>2. cfg.services = q /\ cfg.keys = KeysOf[q]
  BY <1>1 DEF Secret
<1>3. \A p \in NodePaths : KeysOf[q] = KeysOf[p] => p = q
  BY KeysGoWithTheList
<1>4. \A p \in NodePaths : cfg = Secret(<<>>, p) => cfg.services = p /\ cfg.keys = KeysOf[p]
  BY DEF Secret
<1>5. QED
  BY <1>1, <1>2, <1>3, <1>4, Shapes, KeysOfPath

\* What decrypting a tap's C1B and C2A under any card's keys gives.
LEMMA TapsOpen ==
  ASSUME Inv, NEW t \in taps, NEW i \in IDm, NEW p \in NodePaths
  PROVE  /\ p = t.services /\ i = t.idm => r2_from_c2a(KeysOf[p], i, t.c2a) = t.r2
         /\ p # t.services \/ i # t.idm
              => r2_from_c2a(KeysOf[p], i, t.c2a) \in Junk \ Nonce
         /\ r1_from_c1b(KeysOf[p], i, t.c1b) \in R1 \cup Junk
         /\ t.c1b \in Cipher /\ t.c2a \in Cipher /\ t.c2a.data = t.r2
         /\ t.idm \in IDm /\ t.r1 \in R1 /\ t.r2 \in R2 /\ t.services \in NodePaths
<1>1. t \in Taps /\ t.idm \in IDm /\ t.r1 \in R1 /\ t.r2 \in R2 /\ t.services \in NodePaths
  BY DEF Inv, TypeOK, Taps
<1>2. t.c1b \in Cipher /\ t.c2a \in Cipher
  BY <1>1 DEF Taps
<1> DEFINE g == KeysOf[p]
           h == KeysOf[t.services]
<1>3. /\ t.c1b = [key |-> derive(h, t.idm).Lbeta, data |-> t.r1]
      /\ t.c2a = [key |-> derive(h, t.idm).Lbeta, data |-> t.r2]
  BY DEF Inv, TapsSealed, tapKey
<1>4. g \in Keys /\ h \in Keys /\ (g = h <=> p = t.services)
  BY <1>1, KeysOfPath, KeysGoWithTheList
<1> HIDE DEF g, h
<1>5. derive(g, i).Lbeta \in KeyPair
  BY <1>4, KeysDiffer
<1>6. r1_from_c1b(g, i, t.c1b) \in R1 \cup Junk
  BY <1>1, <1>2, <1>3, <1>5, DecryptType DEF r1_from_c1b
<1>7. /\ g = h /\ i = t.idm => r2_from_c2a(g, i, t.c2a) = t.r2
      /\ g # h \/ i # t.idm => r2_from_c2a(g, i, t.c2a) \in Junk \ Nonce
  BY <1>1, <1>2, <1>3, <1>4, OpensForOneCard
<1>8. t.c2a.data = t.r2
  BY <1>3
<1>9. QED
  BY <1>1, <1>2, <1>4, <1>6, <1>7, <1>8 DEF g

-----------------------------------------------------------------------------
(* The invariant holds initially, and each action keeps it *)

\* Before the first step there is nothing the parts of Inv could relate.
LEMMA InvInit == Init => Inv
<1> SUFFICES ASSUME Init PROVE Inv
  OBVIOUS
<1>1. TypeOK
  BY BoundsType DEF Init, TypeOK
<1>2. ReadsCounted
  BY DEF Init, ReadsCounted
<1>3. QED
  BY <1>1, <1>2 DEF Init, Inv, ChallengesMatch, TapsSealed, TapsDistinct,
     SettledAnswers, CardsInTaps, Auth2sFromTaps, CertifiedSessionIsGenuine,
     PublishedOnlyAfterSettle

\* A holder that begins has had no challenge reply yet.
LEMMA BeginKeeps == ASSUME NEW h \in Holder, Inv, Begin(h) PROVE Inv'
<1> USE DEF Begin, Inv, oracleVars, cardVars
<1>1. TypeOK'
  BY DEF TypeOK, NoSession
<1>2. ChallengesMatch'
  BY DEF ChallengesMatch, NoSession, TypeOK, Challenges
<1>3. QED
  BY <1>1, <1>2 DEF TapsSealed, TapsDistinct, SettledAnswers, CardsInTaps, current,
     Auth2sFromTaps, ReadsCounted, CertifiedSessionIsGenuine, certifies,
     PublishedOnlyAfterSettle

\* The registry is only written: no part of Inv but its type mentions it.
LEMMA RegisterKeeps == Inv /\ Register => Inv'
<1> SUFFICES ASSUME Inv, Register PROVE Inv'
  OBVIOUS
<1> USE DEF Register, Inv, oracleVars, cardVars
<1>1. TypeOK'
  BY DEF TypeOK, commit, Commitments
<1>2. QED
  BY <1>1 DEF ChallengesMatch, TapsSealed, TapsDistinct, SettledAnswers, CardsInTaps,
     current, Auth2sFromTaps, ReadsCounted, CertifiedSessionIsGenuine, certifies,
     PublishedOnlyAfterSettle

\* Another Secret leaves every reply already given as it was.
LEMMA RedeployKeeps == Inv /\ Redeploy => Inv'
<1> SUFFICES ASSUME Inv, Redeploy PROVE Inv'
  OBVIOUS
<1> USE DEF Redeploy, Inv, cardVars
<1>1. redeploys' \in 0 .. MaxRedeploys
  BY BoundsType DEF TypeOK
<1>2. TypeOK'
  BY <1>1 DEF TypeOK
<1>3. QED
  BY <1>2 DEF ChallengesMatch, TapsSealed, TapsDistinct, SettledAnswers, CardsInTaps,
     current, Auth2sFromTaps, ReadsCounted, CertifiedSessionIsGenuine, certifies,
     PublishedOnlyAfterSettle

\* A challenge reply is made of the IDm and R1 of the session that asks.
LEMMA ChallengeKeeps == ASSUME NEW h \in Holder, Inv, Challenge(h) PROVE Inv'
<1> USE DEF Inv, oracleVars, cardVars
<1> DEFINE i == session[h].idm
           r == session[h].r1
           new == [holder |-> h, c1a |-> c1a(cfg.keys, i, r), services |-> cfg.services]
<1>1. /\ session[h] # NoSession /\ i \in IDm /\ r \in R1 /\ cfg.services \in NodePaths
      /\ cfg.keys = KeysOf[cfg.services] /\ cfg.keys \in Keys
  BY Shapes, DeployedKeys DEF Challenge
<1>2. challenges' = challenges \cup {new} /\ UNCHANGED <<oracleVars, session, taps,
        settled, cardVars, registered, attested>>
  BY DEF Challenge, challenge, Error, OK, INVALID_PARAMS, INTERNAL
<1>3. c1a(cfg.keys, i, r) \in Cipher
  BY <1>1, KeysDiffer, EncryptNonce DEF c1a, Cipher, Nonce
<1>4. TypeOK'
  BY <1>1, <1>2, <1>3 DEF TypeOK, Challenges
<1>5. ChallengesMatch'
  BY <1>1, <1>2 DEF ChallengesMatch
<1>6. QED
  BY <1>2, <1>4, <1>5 DEF TapsSealed, TapsDistinct, SettledAnswers, CardsInTaps,
     current, Auth2sFromTaps, ReadsCounted, CertifiedSessionIsGenuine, certifies,
     PublishedOnlyAfterSettle

\* A settle reply answers the C2A of a tap and is made of what that decrypts to.
LEMMA SettleKeeps == ASSUME NEW h \in Holder, Inv, Settle(h) PROVE Inv'
<1> USE DEF Inv, oracleVars, cardVars
<1> DEFINE i == session[h].idm
           r == session[h].r1
           services == cfg.services
<1>1. session[h] # NoSession /\ i \in IDm /\ r \in R1 /\ tail(r) \in Tid
  BY Shapes DEF Settle
<1>2. /\ services \in NodePaths /\ Len(services) \in Nat
      /\ cfg.keys = KeysOf[services] /\ cfg.keys \in Keys
  BY DeployedKeys
<1>3. PICK t \in taps, u \in taps, rs \in ReadSpec \cup {Absent} :
        LET reply == settle(cfg, i, r, t.c1b, u.c2a, rs)
        IN /\ reply.code = OK
           /\ settled' = settled \cup
                {[idm |-> i, r1 |-> r, c1b |-> t.c1b, c2a |-> u.c2a,
                  read_spec |-> rs, services |-> services,
                  c2b |-> reply.c2b, ecmd |-> reply.ecmd]}
  BY DEF Settle
<1> DEFINE reply == settle(cfg, i, r, t.c1b, u.c2a, rs)
           r2 == r2_from_c2a(cfg.keys, i, u.c2a)
           new == [idm |-> i, r1 |-> r, c1b |-> t.c1b, c2a |-> u.c2a,
                   read_spec |-> rs, services |-> services,
                   c2b |-> reply.c2b, ecmd |-> reply.ecmd]
<1>4. UNCHANGED <<cfg, redeploys, session, challenges, taps, card, lastTn, auth2s,
                  reads, executed, registered, attested>>
  BY DEF Settle
<1>5. /\ reply.c2b = c2b(cfg.keys, i, r2)
      /\ reply.ecmd # Absent =>
           \E index \in 0 .. Len(services) - 1 :
             /\ rs # Absent
             /\ reply.ecmd = read_ecmd(r2, tail(r), index, rs.block)
             /\ services[index + 1] = rs.service
  BY <1>2, <1>3, SettleOK
<1>6. r2 \in R2 \cup Junk /\ t.c1b \in Cipher /\ u.c2a \in Cipher /\ u.c2a.data \in R2
  BY <1>1, <1>2, TapsOpen
<1>7. reply.c2b \in [key : KeyPair, data : R2 \cup Junk]
  BY <1>1, <1>2, <1>5, <1>6, AnswerOpens
<1>8. reply.ecmd # Absent =>
        /\ reply.ecmd \in Commands
        /\ reply.ecmd.key = r2
        /\ reply.ecmd.payload.tid = tail(r)
        /\ reply.ecmd.payload.index < Len(services)
  <2> SUFFICES ASSUME reply.ecmd # Absent
               PROVE  /\ reply.ecmd \in Commands
                      /\ reply.ecmd.key = r2
                      /\ reply.ecmd.payload.tid = tail(r)
                      /\ reply.ecmd.payload.index < Len(services)
    OBVIOUS
  <2>1. PICK index \in 0 .. Len(services) - 1 :
          rs # Absent /\ reply.ecmd = read_ecmd(r2, tail(r), index, rs.block)
    BY <1>5
  <2>2. rs \in ReadSpec
    BY <1>3, <2>1
  <2>3. rs.block \in Block
    BY <2>2, TargetsType
  <2>4. QED
    BY <1>1, <1>2, <1>6, <2>1, <2>3 DEF read_ecmd, encrypt_command, Commands, ECMD_TN,
       READ_COMMAND_CODE
<1>9. TypeOK'
  <2>1. new \in Settled
    BY <1>1, <1>2, <1>6, <1>7, <1>8 DEF Settled
  <2>2. QED
    BY <1>3, <1>4, <2>1 DEF TypeOK
<1>10. SettledAnswers'
  <2>1. /\ new.c2a = u.c2a
        /\ new.c2b = c2b(KeysOf[new.services], new.idm, decrypted(new))
        /\ new.ecmd # Absent =>
             /\ new.ecmd.key = decrypted(new)
             /\ new.ecmd.payload.tid = tail(new.r1)
             /\ new.ecmd.payload.index < Len(new.services)
    BY <1>2, <1>5, <1>8 DEF decrypted
  <2>2. settled' = settled \cup {new} /\ taps' = taps
    BY <1>3, <1>4
  <2> HIDE DEF new
  <2>3. QED
    BY <1>3, <2>1, <2>2 DEF SettledAnswers
<1>11. settled \subseteq settled'
  BY <1>3
<1>12. Auth2sFromTaps' /\ PublishedOnlyAfterSettle'
  BY <1>4, <1>11 DEF Auth2sFromTaps, PublishedOnlyAfterSettle
<1>13. QED
  BY <1>4, <1>9, <1>10, <1>12 DEF ChallengesMatch, TapsSealed, TapsDistinct,
     CardsInTaps, current, ReadsCounted, CertifiedSessionIsGenuine, certifies
\* The heart of it: an AUTH2 that opens under the R2 decrypted for card i is of
\* the one tap with that R2, which is the tap the C2A came from.
LEMMA AttestKeeps == Inv /\ Attest => Inv'
<1> SUFFICES ASSUME Inv, Attest PROVE Inv'
  OBVIOUS
<1>1. PICK i \in IDm, t \in taps, u \in taps, x \in auth2s,
           c \in registered \cup {Absent} :
        LET reply == attest(cfg, "loaded", i, t.c1b, u.c2a, x, c)
        IN /\ reply.code = OK
           /\ attested' = attested \cup
                {[idm |-> i, c1b |-> t.c1b, c2a |-> u.c2a, auth2 |-> x, cm |-> c,
                  reply |-> reply]}
  BY DEF Attest
<1>2. UNCHANGED <<cfg, redeploys, session, challenges, taps, settled, card, lastTn,
                  auth2s, reads, executed, registered>>
  BY DEF Attest, oracleVars, cardVars
<1> DEFINE reply == attest(cfg, "loaded", i, t.c1b, u.c2a, x, c)
           r1 == r1_from_c1b(cfg.keys, i, t.c1b)
           r2 == r2_from_c2a(cfg.keys, i, u.c2a)
           cm_out == IF c = Absent THEN ZeroCm ELSE c
           new == [idm |-> i, c1b |-> t.c1b, c2a |-> u.c2a, auth2 |-> x, cm |-> c,
                   reply |-> reply]
<1>3. /\ attested' = attested \cup {new}
      /\ new.idm = i /\ new.c2a = u.c2a /\ new.reply = reply
      /\ new = [idm |-> i, c1b |-> t.c1b, c2a |-> u.c2a, auth2 |-> x, cm |-> c,
                reply |-> reply]
  BY <1>1
<1>4. /\ x.key = r2 /\ x.payload.tid = tail(r1)
      /\ reply = [code |-> OK, idi |-> x.payload.idi, r2 |-> r2, cm_out |-> cm_out,
                  proof |-> [r1 |-> r1, c1b |-> t.c1b, c2a |-> u.c2a, auth2 |-> x,
                             cm |-> cm_out, idi |-> x.payload.idi, r2 |-> r2]]
  <2>1. reply.code = OK
    BY <1>1
  <2>2. QED
    BY <2>1, AttestOK
<1>5. x \in Auth2Frames /\ x.key \in R2 /\ x.payload.idi \in IDi
  BY DEF Inv, TypeOK, Auth2Frames
<1> HIDE DEF reply, r1, new
<1>6. u.idm = i /\ u.r2 = x.key
  BY <1>4, <1>5, DeployedKeys, TapsOpen DEF Inv, Nonce
<1>7. PICK v \in taps :
        /\ x.key = v.r2 /\ x.payload.tid = tail(v.r1) /\ x.payload.idi = IDiOf[v.idm]
        /\ \E s \in settled : answers(s, v)
  BY DEF Inv, Auth2sFromTaps
<1>8. v = u
  BY <1>6, <1>7 DEF Inv, TapsDistinct
<1>9. r1 \in R1 \cup Junk /\ t.c1b \in Cipher /\ u.c2a \in Cipher
  BY DeployedKeys, TapsOpen DEF Inv, r1
<1>10. cm_out \in Commitments \cup {ZeroCm} /\ c \in Commitments \cup {Absent}
  BY DEF Inv, TypeOK
<1> HIDE DEF r2, cm_out
<1>11. CertifiedSessionIsGenuine' /\ TypeOK'
  <2>1. reply \in Replies
    BY <1>4, <1>5, <1>9, <1>10 DEF Replies
  <2>2. new \in [idm : IDm, c1b : Cipher, c2a : Cipher, auth2 : Auth2Frames,
                 cm : Commitments \cup {Absent}, reply : Replies]
    BY <1>3, <1>5, <1>9, <1>10, <2>1
  <2>3. TypeOK'
    BY <1>2, <1>3, <2>2 DEF Inv, TypeOK
  <2>4. /\ certifies(new, u) /\ new.reply.r2 = u.r2 /\ new.reply.idi = IDiOf[u.idm]
        /\ tail(new.reply.proof.r1) = tail(u.r1)
        /\ x.key = u.r2 /\ x = new.reply.proof.auth2
    <3>1. certifies(new, u)
      BY <1>3, <1>6 DEF certifies
    <3>2. /\ reply.r2 = u.r2 /\ reply.idi = x.payload.idi
          /\ reply.proof.r1 = r1 /\ reply.proof.auth2 = x
      BY <1>4, <1>6
    <3>3. QED
      BY <1>3, <1>4, <1>6, <1>7, <1>8, <3>1, <3>2
  <2>5. QED
    BY <1>2, <1>3, <2>3, <2>4 DEF Inv, CertifiedSessionIsGenuine, certifies
<1>12. PublishedOnlyAfterSettle'
  <2>1. certifies(new, u) /\ \E s \in settled : answers(s, u)
    BY <1>3, <1>6, <1>7, <1>8 DEF certifies
  <2>2. QED
    BY <1>2, <1>3, <2>1 DEF Inv, PublishedOnlyAfterSettle
<1>13. QED
  BY <1>2, <1>11, <1>12 DEF Inv, ChallengesMatch, TapsSealed, TapsDistinct,
     SettledAnswers, CardsInTaps, current, Auth2sFromTaps, ReadsCounted
\* The new tap's R2 is fresh, so no AUTH2, no certificate and no executed Read
\* belongs to it yet.
LEMMA CardAuth1Keeps == ASSUME NEW h \in Holder, Inv, CardAuth1(h) PROVE Inv'
<1> DEFINE i == session[h].idm
           r == session[h].r1
<1>1. PICK ch \in challenges, k \in R2 :
        LET keys == KeysOf[ch.services]
            d == tdes_decrypt(ch.c1a, derive(keys, i).alphaL)
        IN /\ ch.holder = h
           /\ \A t \in taps : t.r2 # k
           /\ card' = [card EXCEPT ![i] = [phase |-> "auth1", r1 |-> d, r2 |-> k,
                                           services |-> ch.services]]
           /\ taps' = taps \cup
                {[idm |-> i, r1 |-> d, r2 |-> k, services |-> ch.services,
                  c1b |-> tdes_encrypt(d, derive(keys, i).Lbeta),
                  c2a |-> tdes_encrypt(k, derive(keys, i).Lbeta)]}
  BY DEF CardAuth1
<1> DEFINE keys == KeysOf[ch.services]
<1>2. UNCHANGED <<cfg, redeploys, session, challenges, settled, lastTn, auth2s, reads,
                  executed, registered, attested>>
  BY DEF CardAuth1, oracleVars
<1>3. /\ i \in IDm /\ r \in R1 /\ ch.c1a = c1a(keys, i, r) /\ ch.services \in NodePaths
      /\ keys \in Keys
  BY <1>1, Shapes, KeysOfPath DEF Inv, ChallengesMatch, TypeOK, Challenges
<1>4. tdes_decrypt(ch.c1a, derive(keys, i).alphaL) = r
  BY <1>3, EncryptNonce DEF c1a, tdes_decrypt, Nonce
<1> DEFINE new == [idm |-> i, r1 |-> r, r2 |-> k, services |-> ch.services,
                   c1b |-> [key |-> derive(keys, i).Lbeta, data |-> r],
                   c2a |-> [key |-> derive(keys, i).Lbeta, data |-> k]]
<1>5. taps' = taps \cup {new}
  BY <1>1, <1>3, <1>4, EncryptNonce DEF Nonce
<1>6. card' = [card EXCEPT ![i] = [phase |-> "auth1", r1 |-> r, r2 |-> k,
                                  services |-> ch.services]]
  BY <1>1, <1>4
<1>7. new \in Taps
  BY <1>3, KeysDiffer DEF Taps, Cipher, Nonce
<1>8. TypeOK'
  BY <1>2, <1>3, <1>5, <1>6, <1>7 DEF Inv, TypeOK
<1>9. TapsSealed' /\ TapsDistinct'
  BY <1>1, <1>5 DEF Inv, TapsSealed, TapsDistinct, tapKey
<1>10. CardsInTaps'
  <2> SUFFICES ASSUME NEW j \in IDm, card'[j] # Idle
               PROVE  /\ \E t \in taps' : current(j, t)'
                      /\ card'[j].phase = "auth2" => \E x \in auth2s' : x.key = card'[j].r2
    BY DEF CardsInTaps
  <2>1. CASE j = i
    <3>1. card'[i] = [phase |-> "auth1", r1 |-> r, r2 |-> k,
                      services |-> ch.services]
      BY <1>3, <1>6 DEF Inv, TypeOK
    <3>2. /\ new \in taps' /\ card'[i].phase # "auth2" /\ new.idm = i
          /\ new.r1 = card'[i].r1 /\ new.r2 = card'[i].r2
          /\ new.services = card'[i].services
      BY <1>5, <3>1
    <3> HIDE DEF new
    <3>3. QED
      BY <2>1, <3>2 DEF current
  <2>2. CASE j # i
    BY <1>2, <1>3, <1>5, <1>6, <2>2 DEF Inv, TypeOK, CardsInTaps, current
  <2>3. QED
    BY <2>1, <2>2
<1>11. ReadsCounted'
  <2>1. ~(executed[k] > 0)
    BY <1>1 DEF Inv, ReadsCounted
  <2>2. \A j \in IDm : card'[j].r2 = IF j = i THEN k ELSE card[j].r2
    BY <1>3, <1>6 DEF Inv, TypeOK
  <2>3. QED
    BY <1>2, <1>3, <1>5, <1>6, <2>1, <2>2 DEF Inv, TypeOK, ReadsCounted
<1>12. ChallengesMatch' /\ SettledAnswers' /\ Auth2sFromTaps' /\ PublishedOnlyAfterSettle'
  BY <1>2, <1>5 DEF Inv, ChallengesMatch, SettledAnswers, Auth2sFromTaps,
     PublishedOnlyAfterSettle, certifies
<1>13. CertifiedSessionIsGenuine'
  BY <1>2, <1>5 DEF Inv, CertifiedSessionIsGenuine, certifies
<1>14. QED
  BY <1>8, <1>9, <1>10, <1>11, <1>12, <1>13 DEF Inv
\* The C2B a card accepts was made by a settle of its own C2A.
LEMMA CardAuth2Keeps == ASSUME NEW i \in IDm, Inv, CardAuth2(i) PROVE Inv'
<1> DEFINE tid == tail(card[i].r1)
           new == [code |-> AUTH2_CODE, key |-> card[i].r2,
                   payload |-> [tn |-> lastTn[i][tid], tid |-> tid, idi |-> IDiOf[i]]]
<1>1. /\ card[i].phase # "idle"
      /\ card' = [card EXCEPT ![i].phase = "auth2"]
      /\ auth2s' = auth2s \cup {new}
      /\ UNCHANGED <<cfg, redeploys, session, challenges, taps, settled, lastTn,
                     reads, executed, registered, attested>>
  BY DEF CardAuth2, encrypt_command, oracleVars
<1>2. PICK s \in settled :
        /\ s.idm = i
        /\ tdes_decrypt(s.c2b, derive(KeysOf[card[i].services], i).alphaL) = card[i].r2
  BY DEF CardAuth2
<1>3. /\ card[i] # Idle /\ card[i].r1 \in R1 /\ card[i].r2 \in R2 /\ tid \in Tid
      /\ card[i].services \in NodePaths
  BY <1>1, Shapes DEF Inv
<1>4. PICK t \in taps : current(i, t)
  BY <1>3 DEF Inv, CardsInTaps
<1>5. answers(s, t)
  <2> DEFINE g == KeysOf[s.services]
             h == KeysOf[card[i].services]
  <2>1. PICK u \in taps : s.c2a = u.c2a
    BY DEF Inv, SettledAnswers
  <2>2. s.services \in NodePaths /\ g \in Keys /\ h \in Keys
    BY <1>3, KeysOfPath DEF Inv, TypeOK, Settled
  <2>3. u.c2a \in Cipher /\ u.c2a.data \in R2
    BY <2>2, TapsOpen
  <2>4. s.c2b = c2b(g, i, r2_from_c2a(g, i, u.c2a))
    BY <1>2, <2>1 DEF Inv, SettledAnswers, decrypted
  <2>5. tdes_decrypt(s.c2b, derive(h, i).alphaL) \in Nonce
    BY <1>2, <1>3 DEF Nonce
  <2> HIDE DEF g, h
  <2>6. /\ tdes_decrypt(s.c2b, derive(g, i).alphaL) = r2_from_c2a(g, i, u.c2a)
        /\ g # h => tdes_decrypt(s.c2b, derive(h, i).alphaL) \notin Nonce
    BY <2>2, <2>3, <2>4, AnswerOpens
  <2>7. g = h
    BY <2>5, <2>6
  <2>8. s.services = card[i].services
    BY <1>3, <2>2, <2>7, KeysGoWithTheList DEF g, h
  <2>9. r2_from_c2a(KeysOf[s.services], i, u.c2a) = card[i].r2
    BY <1>2, <2>6, <2>7 DEF g, h
  <2>10. u.r2 = t.r2
    BY <1>3, <1>4, <2>2, <2>9, TapsOpen DEF current, Nonce
  <2>11. u = t
    BY <2>10 DEF Inv, TapsDistinct
  <2>12. QED
    BY <1>2, <1>4, <2>1, <2>8, <2>11 DEF answers, current
<1>6. card'[i] = [card[i] EXCEPT !.phase = "auth2"] /\ \A j \in IDm \ {i} : card'[j] = card[j]
  BY <1>1 DEF Inv, TypeOK
<1>7. /\ card'[i] = [phase |-> "auth2", r1 |-> card[i].r1, r2 |-> card[i].r2,
                     services |-> card[i].services]
      /\ card'[i] # Idle
  BY <1>3, <1>6, Shapes DEF Inv, Idle
<1>8. TypeOK'
  <2>1. new \in Auth2Frames
    BY <1>3, IDiType DEF Inv, TypeOK, Auth2Frames
  <2>2. card' \in [IDm -> [phase : {"auth1", "auth2"}, r1 : R1, r2 : R2,
                          services : NodePaths] \cup {Idle}]
    BY <1>1, <1>3, <1>6, <1>7 DEF Inv, TypeOK
  <2>3. QED
    BY <1>1, <2>1, <2>2 DEF Inv, TypeOK
<1>9. CardsInTaps'
  <2> SUFFICES ASSUME NEW j \in IDm, card'[j] # Idle
               PROVE  /\ \E v \in taps' : current(j, v)'
                      /\ card'[j].phase = "auth2" => \E x \in auth2s' : x.key = card'[j].r2
    BY DEF CardsInTaps
  <2>1. CASE j = i
    <3>1. new \in auth2s' /\ new.key = card'[i].r2
      BY <1>1, <1>7
    <3>2. t \in taps' /\ current(i, t)'
      BY <1>1, <1>4, <1>7 DEF current
    <3>3. QED
      BY <2>1, <3>1, <3>2
  <2>2. CASE j # i
    BY <1>1, <1>6, <2>2 DEF Inv, CardsInTaps, current
  <2>3. QED
    BY <2>1, <2>2
<1>10. Auth2sFromTaps'
  <2>1. /\ new.key = t.r2 /\ new.payload.tid = tail(t.r1)
        /\ new.payload.idi = IDiOf[t.idm]
    BY <1>4 DEF current
  <2> HIDE DEF new
  <2>2. QED
    BY <1>1, <1>5, <2>1 DEF Inv, Auth2sFromTaps
<1>11. ReadsCounted'
  <2>1. \A j \in IDm : /\ card'[j].r1 = card[j].r1 /\ card'[j].r2 = card[j].r2
                       /\ card'[j] # Idle => card[j] # Idle
    BY <1>3, <1>6, <1>7
  <2>2. QED
    BY <1>1, <2>1 DEF Inv, ReadsCounted
<1>12. CertifiedSessionIsGenuine'
  BY <1>1 DEF Inv, CertifiedSessionIsGenuine, certifies
<1>13. QED
  BY <1>1, <1>8, <1>9, <1>10, <1>11, <1>12 DEF Inv, ChallengesMatch, TapsSealed,
     TapsDistinct, SettledAnswers, PublishedOnlyAfterSettle
\* A Read of number ECMD_TN leaves the card above it, and a card above it takes
\* no other: the Read it executes is the session's first.
LEMMA CardReadKeeps == ASSUME NEW i \in IDm, Inv, CardRead(i) PROVE Inv'
<1> DEFINE tid == tail(card[i].r1)
           k == card[i].r2
<1>1. PICK s \in settled :
        LET e == s.ecmd
            tn == e.payload.tn + 1
        IN /\ e # Absent
           /\ card_accepts(card[i], lastTn[i][tid], e)
           /\ lastTn' = [lastTn EXCEPT ![i][tid] = tn]
           /\ executed' = [executed EXCEPT ![k] = @ + 1]
           /\ reads' = reads \cup
                {[ecmd |-> e,
                  response |-> encrypt_command(READ_RESPONSE_CODE, k,
                    [tn |-> tn, tid |-> tid,
                     data |-> <<i, card[i].services[e.payload.index + 1],
                                e.payload.block>>])]}
  BY DEF CardRead
<1>2. UNCHANGED <<cfg, redeploys, session, challenges, taps, settled, card, auth2s,
                  registered, attested>>
  BY DEF CardRead, oracleVars
<1> DEFINE e == s.ecmd
           data == <<i, card[i].services[e.payload.index + 1], e.payload.block>>
           new == [ecmd |-> e,
                   response |-> [code |-> READ_RESPONSE_CODE, key |-> k,
                                 payload |-> [tn |-> e.payload.tn + 1, tid |-> tid,
                                              data |-> data]]]
<1>3. /\ e \in Commands /\ e.payload.tn = ECMD_TN /\ e.payload.index \in Nat
      /\ e.payload.block \in Block
  BY <1>1 DEF Inv, TypeOK, Settled, Commands
<1>4. /\ card[i] # Idle /\ card[i].r1 \in R1 /\ k \in R2 /\ tid \in Tid
      /\ card[i].services \in NodePaths
  BY <1>1, Shapes DEF Inv, card_accepts, Idle
<1>5. e.payload.index < Len(card[i].services) /\ ECMD_TN > lastTn[i][tid]
  BY <1>1, <1>3 DEF card_accepts
<1>6. data \in IDm \X Service \X Block
  <2>1. card[i].services[e.payload.index + 1] \in Service
    BY <1>3, <1>4, <1>5, Shapes DEF Inv
  <2>2. QED
    BY <1>3, <2>1
<1>7. /\ lastTn[i] \in [Tid -> Nat] /\ lastTn'[i] = [lastTn[i] EXCEPT ![tid] = ECMD_TN + 1]
      /\ \A j \in IDm \ {i} : lastTn'[j] = lastTn[j]
  BY <1>1, <1>3 DEF Inv, TypeOK
<1>8. executed[k] = 0 /\ executed'[k] = 1 /\ \A n \in R2 \ {k} : executed'[n] = executed[n]
  <2>1. ~(executed[k] > 0)
    BY <1>4, <1>5, <1>7 DEF Inv, ReadsCounted, ECMD_TN
  <2>2. QED
    BY <1>1, <1>4, <2>1 DEF Inv, TypeOK
<1>9. TypeOK'
  <2>1. new \in Commitments /\ reads' = reads \cup {new}
    BY <1>1, <1>3, <1>4, <1>6 DEF encrypt_command, Commitments, Responses, ECMD_TN
  <2>2. lastTn' \in [IDm -> [Tid -> Nat]]
    BY <1>1, <1>3, <1>4 DEF Inv, TypeOK, ECMD_TN
  <2>3. executed' \in [R2 -> Nat]
    BY <1>1, <1>4 DEF Inv, TypeOK
  <2>4. QED
    BY <1>2, <2>1, <2>2, <2>3 DEF Inv, TypeOK
<1>10. ReadsCounted'
  <2>1. PICK t \in taps : current(i, t)
    BY <1>4 DEF Inv, CardsInTaps
  <2>2. \A n \in R2 : executed'[n] > 0 => executed'[n] = 1 /\ \E u \in taps' : u.r2 = n
    BY <1>2, <1>8, <2>1 DEF Inv, ReadsCounted, current
  <2>3. ASSUME NEW j \in IDm, card[j] # Idle, executed'[card[j].r2] > 0
        PROVE  lastTn'[j][tail(card[j].r1)] > ECMD_TN
    <3>1. CASE j = i
      BY <1>4, <1>7, <3>1 DEF ECMD_TN
    <3>2. CASE j # i
      <4>1. PICK u \in taps : current(j, u)
        BY <2>3 DEF Inv, CardsInTaps
      <4>2. u.r2 # t.r2
        BY <2>1, <3>2, <4>1 DEF Inv, TapsDistinct, current
      <4>3. card[j].r2 \in R2 \ {k}
        BY <2>1, <2>3, <4>1, <4>2, Shapes DEF Inv, current
      <4>4. QED
        BY <1>7, <1>8, <2>3, <3>2, <4>3 DEF Inv, ReadsCounted
    <3>3. QED
      BY <3>1, <3>2
  <2>4. QED
    BY <1>2, <2>2, <2>3 DEF ReadsCounted
<1>11. QED
  BY <1>2, <1>9, <1>10 DEF Inv, ChallengesMatch, TapsSealed, TapsDistinct, SettledAnswers,
     CardsInTaps, current, Auth2sFromTaps, CertifiedSessionIsGenuine, certifies,
     PublishedOnlyAfterSettle

\* A card out of the field is in no session, whatever it remembers.
LEMMA CardResetKeeps == ASSUME NEW i \in IDm, Inv, CardReset(i) PROVE Inv'
<1> USE DEF CardReset, Inv, oracleVars
<1>1. TypeOK'
  <2>1. lastTn' \in [IDm -> [Tid -> Nat]]
    <3>1. [t \in Tid |-> 0] \in [Tid -> Nat]
      OBVIOUS
    <3>2. CASE lastTn' = [lastTn EXCEPT ![i] = [t \in Tid |-> 0]]
      BY <3>1, <3>2 DEF TypeOK
    <3>3. QED
      BY <3>2 DEF TypeOK
  <2>2. card' \in [IDm -> [phase : {"auth1", "auth2"}, r1 : R1, r2 : R2,
                          services : NodePaths] \cup {Idle}]
    BY DEF TypeOK
  <2>3. QED
    BY <2>1, <2>2 DEF TypeOK
<1>2. card'[i] = Idle /\ \A j \in IDm \ {i} : card'[j] = card[j] /\ lastTn'[j] = lastTn[j]
  BY DEF TypeOK
<1>3. CardsInTaps' /\ ReadsCounted'
  BY <1>2 DEF CardsInTaps, current, ReadsCounted
<1>4. QED
  BY <1>1, <1>3 DEF ChallengesMatch, TapsSealed, TapsDistinct, SettledAnswers,
     Auth2sFromTaps, CertifiedSessionIsGenuine, certifies, PublishedOnlyAfterSettle

-----------------------------------------------------------------------------
(* Theorems *)

\* Inv holds throughout.
THEOREM Invariance == Spec => []Inv
<1>1. Inv /\ [Next]_vars => Inv'
  <2> SUFFICES ASSUME Inv, [Next]_vars PROVE Inv'
    OBVIOUS
  <2>1. ASSUME NEW h \in Holder, Begin(h) \/ Challenge(h) \/ CardAuth1(h) \/ Settle(h)
        PROVE  Inv'
    BY <2>1, BeginKeeps, ChallengeKeeps, CardAuth1Keeps, SettleKeeps
  <2>2. ASSUME NEW i \in IDm, CardAuth2(i) \/ CardRead(i) \/ CardReset(i)
        PROVE  Inv'
    BY <2>2, CardAuth2Keeps, CardReadKeeps, CardResetKeeps
  <2>3. CASE Register \/ Attest \/ Redeploy
    BY <2>3, RegisterKeeps, AttestKeeps, RedeployKeeps
  <2>4. CASE UNCHANGED vars
    BY <2>4 DEF vars, Inv, TypeOK, ChallengesMatch, TapsSealed, TapsDistinct,
       SettledAnswers, CardsInTaps, current, Auth2sFromTaps, ReadsCounted,
       CertifiedSessionIsGenuine, certifies, PublishedOnlyAfterSettle
  <2>5. QED
    BY <2>1, <2>2, <2>3, <2>4 DEF Next
<1>2. QED
  BY <1>1, InvInit, PTL DEF Spec

\* Every variable keeps its type.
THEOREM TypeCorrect == Spec => []TypeOK
<1>1. Inv => TypeOK
  BY DEF Inv
<1>2. QED
  BY <1>1, Invariance, PTL

\* service.rs attest: a certificate is of one session its card completed, never
\* put together from several.
THEOREM CertificatesGenuine == Spec => []CertifiedSessionIsGenuine
<1>1. Inv => CertifiedSessionIsGenuine
  BY DEF Inv
<1>2. QED
  BY <1>1, Invariance, PTL

\* service.rs: attest publishes no R2 that settle has not answered before.
THEOREM PublicationFollowsSettle == Spec => []PublishedOnlyAfterSettle
<1>1. Inv => PublishedOnlyAfterSettle
  BY DEF Inv
<1>2. QED
  BY <1>1, Invariance, PTL

\* schedule.rs, ECMD_TN: at most one Read per session.
THEOREM ReadOnce == Spec => []ReadExecutedAtMostOnce
<1>1. Inv => ReadExecutedAtMostOnce
  BY DEF Inv, TypeOK, ReadsCounted, ReadExecutedAtMostOnce
<1>2. QED
  BY <1>1, Invariance, PTL

\* service.rs settle: a first Read command suits the card it is for.
THEOREM FirstCommand == Spec => []FirstCommandAccepted
<1>1. Inv => FirstCommandAccepted
  <2> SUFFICES ASSUME Inv, NEW s \in settled, NEW t \in taps,
                      s.ecmd # Absent, answers(s, t), tail(s.r1) = tail(t.r1),
                      card[t.idm].phase = "auth2", card[t.idm].r2 = t.r2
               PROVE  card_accepts(card[t.idm], 0, s.ecmd)
    BY DEF FirstCommandAccepted
  <2> DEFINE c == card[t.idm]
  <2>1. t.idm \in IDm /\ t.services \in NodePaths /\ c # Idle
    BY DEF Inv, TypeOK, Taps, Idle
  <2>2. PICK u \in taps : current(t.idm, u)
    BY <2>1 DEF Inv, CardsInTaps
  <2>3. c.r1 = t.r1 /\ c.services = t.services
    BY <2>2 DEF Inv, TapsDistinct, current
  <2>4. s.ecmd.code = READ_COMMAND_CODE /\ s.ecmd.payload.tn = ECMD_TN
    BY DEF Inv, TypeOK, Settled, Commands
  <2>5. /\ s.ecmd.key = c.r2 /\ s.ecmd.payload.tid = tail(c.r1)
        /\ s.ecmd.payload.index < Len(c.services)
    BY <2>1, <2>3, TapsOpen DEF Inv, SettledAnswers, decrypted, answers
  <2>6. QED
    BY <2>4, <2>5 DEF card_accepts, check_mac, ECMD_TN
<1>2. QED
  BY <1>1, Invariance, PTL

-----------------------------------------------------------------------------
(* What was read: the second invariant, over the first *)

\* The Read command of a settle reply names the block and service asked for, in
\* the service list it was answered with.
SettledNames ==
  \A s \in settled : s.ecmd # Absent =>
    /\ s.ecmd.payload.block = s.read_spec.block
    /\ s.services[s.ecmd.payload.index + 1] = s.read_spec.service

\* A Read response is of the one execution in a tap, of the block commanded.
ReadsFromTaps ==
  \A x \in reads :
    /\ x.ecmd # Absent
    /\ \E t \in taps :
         /\ x.ecmd.key = t.r2 /\ x.response.key = t.r2
         /\ executed[t.r2] = 1
         /\ x.response.payload.data =
              <<t.idm, t.services[x.ecmd.payload.index + 1], x.ecmd.payload.block>>

\* A slot is within the limit, so the mask of the Read element leaves it alone.
LEMMA SettleNames == ASSUME NEW h \in Holder, Inv, SettledNames, Settle(h) PROVE SettledNames'
<1> DEFINE i == session[h].idm
           r == session[h].r1
<1>1. PICK t \in taps, u \in taps, rs \in ReadSpec \cup {Absent} :
        LET reply == settle(cfg, i, r, t.c1b, u.c2a, rs)
        IN /\ reply.code = OK
           /\ settled' = settled \cup
                {[idm |-> i, r1 |-> r, c1b |-> t.c1b, c2a |-> u.c2a,
                  read_spec |-> rs, services |-> cfg.services,
                  c2b |-> reply.c2b, ecmd |-> reply.ecmd]}
  BY DEF Settle
<1> DEFINE reply == settle(cfg, i, r, t.c1b, u.c2a, rs)
           new == [idm |-> i, r1 |-> r, c1b |-> t.c1b, c2a |-> u.c2a,
                   read_spec |-> rs, services |-> cfg.services,
                   c2b |-> reply.c2b, ecmd |-> reply.ecmd]
<1>2. Len(cfg.services) \in Nat
  BY DeployedKeys DEF Inv
<1>3. reply.ecmd # Absent =>
        \E index \in 0 .. Len(cfg.services) - 1 :
          /\ reply.ecmd = read_ecmd(r2_from_c2a(cfg.keys, i, u.c2a), tail(r), index, rs.block)
          /\ cfg.services[index + 1] = rs.service
  BY <1>1, <1>2, SettleOK
<1>4. reply.ecmd # Absent => /\ reply.ecmd.payload.block = rs.block
                             /\ cfg.services[reply.ecmd.payload.index + 1] = rs.service
  <2> SUFFICES ASSUME reply.ecmd # Absent
               PROVE  /\ reply.ecmd.payload.block = rs.block
                      /\ cfg.services[reply.ecmd.payload.index + 1] = rs.service
    OBVIOUS
  <2>1. PICK index \in 0 .. Len(cfg.services) - 1 :
          /\ reply.ecmd = read_ecmd(r2_from_c2a(cfg.keys, i, u.c2a), tail(r), index, rs.block)
          /\ cfg.services[index + 1] = rs.service
    BY <1>3
  <2> HIDE DEF reply
  <2>2. reply.ecmd.payload.index = index /\ reply.ecmd.payload.block = rs.block
    BY <2>1 DEF read_ecmd, encrypt_command
  <2>3. QED
    BY <2>1, <2>2
<1>5. /\ settled' = settled \cup {new}
      /\ new.ecmd # Absent => /\ new.ecmd.payload.block = new.read_spec.block
                              /\ new.services[new.ecmd.payload.index + 1]
                                   = new.read_spec.service
  BY <1>1, <1>4
<1> HIDE DEF new
<1>6. QED
  BY <1>5 DEF SettledNames

\* The card runs a command in the tap it is in, and runs none there again.
LEMMA CardReadAnswers ==
  ASSUME NEW i \in IDm, Inv, Inv', ReadsFromTaps, CardRead(i) PROVE ReadsFromTaps'
<1> DEFINE tid == tail(card[i].r1)
           k == card[i].r2
<1>1. PICK s \in settled :
        LET e == s.ecmd
            tn == e.payload.tn + 1
        IN /\ e # Absent
           /\ card_accepts(card[i], lastTn[i][tid], e)
           /\ executed' = [executed EXCEPT ![k] = @ + 1]
           /\ reads' = reads \cup
                {[ecmd |-> e,
                  response |-> encrypt_command(READ_RESPONSE_CODE, k,
                    [tn |-> tn, tid |-> tid,
                     data |-> <<i, card[i].services[e.payload.index + 1],
                                e.payload.block>>])]}
  BY DEF CardRead
<1> DEFINE e == s.ecmd
           data == <<i, card[i].services[e.payload.index + 1], e.payload.block>>
           new == [ecmd |-> e,
                   response |-> [code |-> READ_RESPONSE_CODE, key |-> k,
                                 payload |-> [tn |-> e.payload.tn + 1, tid |-> tid,
                                              data |-> data]]]
<1>2. taps' = taps /\ reads' = reads \cup {new}
  BY <1>1 DEF CardRead, encrypt_command
<1>3. card[i] # Idle /\ k \in R2
  BY <1>1, Shapes DEF Inv, card_accepts, Idle
<1>4. PICK t \in taps : current(i, t)
  BY <1>3 DEF Inv, CardsInTaps
<1>5. \A n \in R2 : executed[n] > 0 => executed'[n] > 0
  BY <1>1, <1>3 DEF Inv, TypeOK
<1>6. executed'[k] > 0
  BY <1>1, <1>3 DEF Inv, TypeOK
<1>7. \A n \in R2 : executed'[n] > 0 => executed'[n] = 1
  BY DEF Inv, ReadsCounted
<1>8. \A u \in taps : u.r2 \in R2
  BY DEF Inv, TypeOK, Taps
<1>9. /\ new.ecmd # Absent /\ new.ecmd.key = t.r2 /\ new.response.key = t.r2
      /\ executed'[t.r2] = 1
      /\ new.response.payload.data =
           <<t.idm, t.services[new.ecmd.payload.index + 1], new.ecmd.payload.block>>
  BY <1>1, <1>3, <1>4, <1>6, <1>7 DEF current, card_accepts, check_mac
<1> HIDE DEF new
<1>10. ASSUME NEW x \in reads
       PROVE  /\ x.ecmd # Absent
              /\ \E u \in taps :
                   /\ x.ecmd.key = u.r2 /\ x.response.key = u.r2
                   /\ executed'[u.r2] = 1
                   /\ x.response.payload.data =
                        <<u.idm, u.services[x.ecmd.payload.index + 1],
                          x.ecmd.payload.block>>
  BY <1>5, <1>7, <1>8 DEF ReadsFromTaps
<1>11. QED
  BY <1>2, <1>9, <1>10 DEF ReadsFromTaps

\* Both hold throughout: no other step gives a command or reads a block.
THEOREM ReadsInvariance == Spec => [](Inv /\ SettledNames /\ ReadsFromTaps)
<1>1. Init => SettledNames /\ ReadsFromTaps
  BY DEF Init, SettledNames, ReadsFromTaps
<1>2. Inv /\ Inv' /\ SettledNames /\ ReadsFromTaps /\ [Next]_vars
        => (SettledNames /\ ReadsFromTaps)'
  <2> SUFFICES ASSUME Inv, Inv', SettledNames, ReadsFromTaps, [Next]_vars
               PROVE  SettledNames' /\ ReadsFromTaps'
    OBVIOUS
  <2>1. ASSUME NEW h \in Holder, Settle(h) PROVE SettledNames' /\ ReadsFromTaps'
    BY <2>1, SettleNames DEF Settle, ReadsFromTaps, cardVars
  <2>2. ASSUME NEW i \in IDm, CardRead(i) PROVE SettledNames' /\ ReadsFromTaps'
    BY <2>2, CardReadAnswers DEF CardRead, SettledNames
  <2>3. ASSUME NEW h \in Holder, CardAuth1(h) PROVE SettledNames' /\ ReadsFromTaps'
    <3>1. taps \subseteq taps' /\ UNCHANGED <<settled, reads, executed>>
      BY <2>3 DEF CardAuth1
    <3>2. QED
      BY <3>1 DEF SettledNames, ReadsFromTaps
  <2>4. CASE UNCHANGED <<taps, settled, reads, executed>>
    BY <2>4 DEF SettledNames, ReadsFromTaps
  <2>5. QED
    BY <2>1, <2>2, <2>3, <2>4 DEF Next, vars, Begin, Challenge, Register, Attest,
       Redeploy, CardAuth2, CardReset, cardVars
<1>3. QED
  BY <1>1, <1>2, Invariance, PTL DEF Spec

\* A command under the R2 of a tap was issued for that tap, with the keys and so the
\* service list of its node path: any other keys decrypt the C2A to junk.
LEMMA CommandsOfTaps ==
  ASSUME Inv, NEW s \in settled, NEW t \in taps, s.ecmd # Absent, s.ecmd.key = t.r2
  PROVE  answers(s, t)
<1>1. PICK u \in taps : s.c2a = u.c2a
  BY DEF Inv, SettledAnswers
<1>2. s.idm \in IDm /\ s.services \in NodePaths
  BY DEF Inv, TypeOK, Settled
<1>3. r2_from_c2a(KeysOf[s.services], s.idm, u.c2a) = t.r2
  BY <1>1 DEF Inv, SettledAnswers, decrypted
<1>4. t.r2 \in Nonce
  BY <1>2, TapsOpen DEF Nonce
<1>5. s.services = u.services /\ s.idm = u.idm /\ u.r2 = t.r2
  BY <1>2, <1>3, <1>4, TapsOpen
<1>6. u = t
  BY <1>5 DEF Inv, TapsDistinct
<1>7. QED
  BY <1>1, <1>5, <1>6 DEF answers

\* rpc_attest.rs, schedule.rs decrypt_read_response: what a recipient opens with a
\* published R2 is the block that the command asked the certified card for.
THEOREM PresentationsAuthentic == Spec => []PresentationIsAuthentic
<1>1. Inv /\ SettledNames /\ ReadsFromTaps => PresentationIsAuthentic
  <2> SUFFICES ASSUME Inv, SettledNames, ReadsFromTaps,
                      NEW a \in attested, NEW x \in reads,
                      decrypt_read_response(a.reply.r2, tail(a.reply.proof.r1),
                                            x.response).err = "none"
               PROVE  \E t \in taps :
                        /\ certifies(a, t)
                        /\ executed[t.r2] = 1
                        /\ decrypt_read_response(a.reply.r2, tail(a.reply.proof.r1),
                                                 x.response).data[1] = t.idm
                        /\ \A s \in settled :
                             s.ecmd = x.ecmd
                               => decrypt_read_response(a.reply.r2,
                                    tail(a.reply.proof.r1), x.response).data
                                  = <<t.idm, s.read_spec.service, s.read_spec.block>>
    BY DEF PresentationIsAuthentic
  <2>1. /\ x.response.key = a.reply.r2
        /\ decrypt_read_response(a.reply.r2, tail(a.reply.proof.r1), x.response).data
             = x.response.payload.data
    BY DEF decrypt_read_response, check_mac
  <2>2. PICK t \in taps : certifies(a, t) /\ a.reply.r2 = t.r2
    BY DEF Inv, CertifiedSessionIsGenuine
  <2>3. PICK u \in taps :
          /\ x.ecmd.key = u.r2 /\ x.response.key = u.r2 /\ executed[u.r2] = 1
          /\ x.response.payload.data =
               <<u.idm, u.services[x.ecmd.payload.index + 1], x.ecmd.payload.block>>
    BY DEF ReadsFromTaps
  <2>4. u = t
    BY <2>1, <2>2, <2>3 DEF Inv, TapsDistinct
  <2>5. ASSUME NEW s \in settled, s.ecmd = x.ecmd
        PROVE  x.response.payload.data = <<t.idm, s.read_spec.service, s.read_spec.block>>
    <3>1. s.ecmd # Absent
      BY <2>5 DEF ReadsFromTaps
    <3>2. answers(s, t)
      BY <2>3, <2>4, <2>5, <3>1, CommandsOfTaps
    <3>3. s.services = t.services
      BY <3>2 DEF answers
    <3>4. QED
      BY <2>3, <2>4, <2>5, <3>1, <3>3 DEF SettledNames
  <2>6. QED
    BY <2>1, <2>2, <2>3, <2>4, <2>5
<1>2. QED
  BY <1>1, ReadsInvariance, PTL

\* service.rs settle and attest, config.rs: a session is answered under the Secret it was
\* opened under and refused under every other.
THEOREM SessionsBelong == Spec => []SessionBelongsToItsSecret
<1>1. Inv => SessionBelongsToItsSecret
  <2> SUFFICES ASSUME Inv, NEW t \in taps
               PROVE  LET deployed == cfg = Secret(<<>>, t.services) IN
                      /\ settle(cfg, t.idm, t.r1, t.c1b, t.c2a, Absent).code
                           = IF deployed THEN OK ELSE C1B_MISMATCH
                      /\ \A x \in auth2s, c \in registered \cup {Absent} : x.key = t.r2 =>
                           attest(cfg, "loaded", t.idm, t.c1b, t.c2a, x, c).code
                             = IF deployed THEN OK ELSE MAC_MISMATCH
    BY DEF SessionBelongsToItsSecret
  <2> USE DEF OK, C1B_MISMATCH, MAC_MISMATCH, Error
  <2> DEFINE K == tapKey(t)
             D == derive(cfg.keys, t.idm).Lbeta
             deployed == cfg = Secret(<<>>, t.services)
  <2>1. /\ t.idm \in IDm /\ t.r1 \in R1 /\ t.r2 \in R2 /\ t.services \in NodePaths
        /\ t.c1b \in Cipher /\ t.c2a \in Cipher
    BY TapsOpen DEF Inv, TypeOK, Taps
  <2>2. t.c1b = [key |-> K, data |-> t.r1] /\ t.c2a = [key |-> K, data |-> t.r2]
    BY DEF Inv, TapsSealed
  <2>3. deployed <=> D = K
    BY <2>1, DeployedKeys, KeysOfPath, KeysDiffer DEF Inv, tapKey
  <2>4. c1b_expected(cfg.keys, t.idm, t.r1) = [key |-> D, data |-> t.r1]
    BY <2>1, EncryptNonce DEF c1b_expected, Nonce
  <2>5. parses({t.idm, t.r1, t.c1b, t.c2a})
    BY <2>1, BadHexParsesNot DEF parses
  <2> HIDE DEF K, D
  <2>6. c1b_expected(cfg.keys, t.idm, t.r1) = t.c1b <=> deployed
    BY <2>2, <2>3, <2>4
  <2> HIDE DEF deployed
  <2>7. settle(cfg, t.idm, t.r1, t.c1b, t.c2a, Absent).code
          = IF deployed THEN OK ELSE C1B_MISMATCH
    BY <2>5, <2>6 DEF settle
  <2>8. ASSUME NEW x \in auth2s, NEW c \in registered \cup {Absent}, x.key = t.r2
        PROVE  attest(cfg, "loaded", t.idm, t.c1b, t.c2a, x, c).code
                 = IF deployed THEN OK ELSE MAC_MISMATCH
    <3> DEFINE cm == IF c = Absent THEN ZeroCm ELSE c
               r2 == r2_from_c2a(cfg.keys, t.idm, t.c2a)
    <3>1. x \in Auth2Frames /\ c \in Commitments \cup {Absent}
      BY DEF Inv, TypeOK
    <3>2. parses({t.idm, t.c1b, t.c2a, x, c})
      BY <2>1, <3>1, BadHexParsesNot DEF parses
    <3>3. check_mac(x, AUTH2_CODE, r2) <=> deployed
      <4>1. x.code = AUTH2_CODE /\ t.r2 \in Nonce
        BY <2>1, <3>1 DEF Auth2Frames, Nonce
      <4>2. r2 = t.r2 <=> deployed
        BY <2>1, <4>1, DeployedKeys, TapsOpen DEF Inv, deployed
      <4>3. QED
        BY <2>8, <4>1, <4>2 DEF check_mac
    <3>4. CASE ~deployed
      <4>1. verify_session(cfg.keys, t.idm, t.c1b, t.c2a, x, cm).code = MAC_MISMATCH
        BY <3>3, <3>4 DEF verify_session, verify_auth2
      <4>2. QED
        BY <3>2, <3>4, <4>1 DEF attest
    <3>5. CASE deployed
      <4>1. /\ tdes_encrypt(t.r1, D) = t.c1b /\ tdes_encrypt(t.r2, D) = t.c2a
            /\ tdes_decrypt(t.c1b, D) = t.r1 /\ tdes_decrypt(t.c2a, D) = t.r2
        BY <2>1, <2>2, <2>3, <3>5, EncryptNonce DEF tdes_decrypt, Nonce
      <4>2. r1_from_c1b(cfg.keys, t.idm, t.c1b) = t.r1 /\ r2 = t.r2
        BY <4>1 DEF r1_from_c1b, r2_from_c2a, D
      <4>3. x.payload.tid = tail(t.r1) /\ check_mac(x, AUTH2_CODE, t.r2)
        BY <2>8, <3>3, <3>5, <4>2 DEF Inv, Auth2sFromTaps, TapsDistinct
      <4>4. verify_session(cfg.keys, t.idm, t.c1b, t.c2a, x, cm).code = OK
        BY <4>2, <4>3 DEF verify_session, verify_auth2
      <4>5. prove(cfg.keys, t.idm, t.c1b, t.c2a, x, cm).code = OK
        BY <4>1, <4>3 DEF prove, satisfied, D
      <4>6. QED
        BY <3>2, <3>5, <4>4, <4>5 DEF attest
    <3>6. QED
      BY <3>4, <3>5
  <2>9. QED
    BY <2>7, <2>8 DEF deployed
<1>2. QED
  BY <1>1, Invariance, PTL

-----------------------------------------------------------------------------
(* The refinement *)

\* What AttestationGoal calls opened, admitted, completed and certified are the sessions of
\* the taps, the R2 of those a settle has answered, the R2 of the AUTH2 frames, and what
\* the attestations say.
opened == {[card |-> t.idm, key |-> t.r2, tid |-> tail(t.r1)] : t \in taps}
admitted == {t.r2 : t \in {u \in taps : \E s \in settled : answers(s, u)}}
completed == {x.key : x \in auth2s}
certified == {[card |-> a.idm, idi |-> a.reply.idi, key |-> a.reply.r2,
               tid |-> tail(a.reply.proof.r1)] : a \in attested}

\* The session of a tap, as AttestationGoal sees it.
sessionOf(t) == [card |-> t.idm, key |-> t.r2, tid |-> tail(t.r1)]

\* The protocol's initial states are initial in AttestationGoal.
LEMMA InitMaps == Init => Goal!Init
BY DEF Init, Goal!Init

\* Settle admits the session its C2A is of, if that is one of the polled card and of
\* the deployed keys.
LEMMA SettleMaps ==
  ASSUME NEW h \in Holder, Inv, Inv', Settle(h)
  PROVE  [Goal!Next]_(Goal!goalVars)
<1>1. UNCHANGED <<taps, auth2s, executed, attested>>
  BY DEF Settle, cardVars
<1>2. PICK t \in taps, u \in taps, rs \in ReadSpec \cup {Absent} :
        LET reply == settle(cfg, session[h].idm, session[h].r1, t.c1b, u.c2a, rs)
        IN settled' = settled \cup
             {[idm |-> session[h].idm, r1 |-> session[h].r1, c1b |-> t.c1b,
               c2a |-> u.c2a, read_spec |-> rs, services |-> cfg.services,
               c2b |-> reply.c2b, ecmd |-> reply.ecmd]}
  BY DEF Settle
<1> DEFINE s == [idm |-> session[h].idm, r1 |-> session[h].r1, c1b |-> t.c1b,
                 c2a |-> u.c2a, read_spec |-> rs, services |-> cfg.services,
                 c2b |-> settle(cfg, session[h].idm, session[h].r1, t.c1b, u.c2a, rs).c2b,
                 ecmd |-> settle(cfg, session[h].idm, session[h].r1, t.c1b, u.c2a, rs).ecmd]
<1>3. settled' = settled \cup {s} /\ s.c2a = u.c2a
  BY <1>2
<1> HIDE DEF s
<1>4. ASSUME NEW v \in taps, v.c2a = u.c2a
      PROVE  v = u
  <2>1. u.idm \in IDm /\ u.services \in NodePaths
    BY DEF Inv, TypeOK, Taps
  <2>2. v.r2 = u.r2
    BY <1>4, <2>1, TapsOpen
  <2>3. QED
    BY <2>2 DEF Inv, TapsDistinct
<1>5. CASE answers(s, u)
  <2>1. \A v \in taps : answers(s, v) <=> v = u
    BY <1>3, <1>4, <1>5 DEF answers
  <2>2. admitted' = admitted \cup {u.r2}
    BY <1>1, <1>3, <2>1 DEF admitted
  <2>3. sessionOf(u) \in opened /\ sessionOf(u).key = u.r2
    BY DEF opened, sessionOf
  <2>4. Goal!Admit(sessionOf(u))
    BY <1>1, <2>2, <2>3 DEF Goal!Admit, admitted
  <2>5. QED
    BY <2>3, <2>4 DEF Goal!Next, opened
<1>6. CASE ~answers(s, u)
  <2>1. \A v \in taps : ~answers(s, v)
    BY <1>3, <1>4, <1>6 DEF answers
  <2>2. admitted' = admitted
    BY <1>1, <1>3, <2>1 DEF admitted
  <2>3. QED
    BY <1>1, <2>2 DEF Goal!goalVars, admitted
<1>7. QED
  BY <1>5, <1>6
\* Authentication1 opens a session: no settle has answered its C2A yet.
LEMMA CardAuth1Maps ==
  ASSUME NEW h \in Holder, Inv, Inv', CardAuth1(h)
  PROVE  [Goal!Next]_(Goal!goalVars)
<1> DEFINE i == session[h].idm
<1>1. PICK ch \in challenges, k \in R2 :
        LET keys == KeysOf[ch.services]
            d == tdes_decrypt(ch.c1a, derive(keys, i).alphaL)
        IN /\ \A t \in taps : t.r2 # k
           /\ taps' = taps \cup
                {[idm |-> i, r1 |-> d, r2 |-> k, services |-> ch.services,
                  c1b |-> tdes_encrypt(d, derive(keys, i).Lbeta),
                  c2a |-> tdes_encrypt(k, derive(keys, i).Lbeta)]}
  BY DEF CardAuth1
<1> DEFINE keys == KeysOf[ch.services]
           d == tdes_decrypt(ch.c1a, derive(keys, i).alphaL)
           n == [idm |-> i, r1 |-> d, r2 |-> k, services |-> ch.services,
                 c1b |-> tdes_encrypt(d, derive(keys, i).Lbeta),
                 c2a |-> tdes_encrypt(k, derive(keys, i).Lbeta)]
<1>2. taps' = taps \cup {n} /\ n.r2 = k
  BY <1>1
<1>3. UNCHANGED <<settled, auth2s, executed, attested>>
  BY DEF CardAuth1
<1> HIDE DEF n
<1>4. /\ n \in Taps /\ n.idm \in IDm /\ n.services \in NodePaths
      /\ tail(n.r1) \in Tid /\ k \in R2
  <2>1. n \in Taps
    BY <1>2 DEF Inv, TypeOK
  <2>2. QED
    BY <1>1, <2>1, Shapes DEF Taps, Inv
<1>5. \A s \in settled : s.c2a # n.c2a
  <2> SUFFICES ASSUME NEW s \in settled, s.c2a = n.c2a PROVE FALSE
    OBVIOUS
  <2>1. PICK u \in taps : s.c2a = u.c2a
    BY DEF Inv, SettledAnswers
  <2>2. u.c2a.data = u.r2
    BY <1>4, TapsOpen
  <2>3. n.c2a = [key |-> tapKey(n), data |-> n.r2]
    BY <1>2 DEF Inv, TapsSealed
  <2>4. n.c2a.data = n.r2
    BY <2>3
  <2>5. u.r2 # k
    BY <1>1
  <2>6. QED
    BY <1>2, <2>1, <2>2, <2>4, <2>5
<1>6. admitted' = admitted
  BY <1>2, <1>3, <1>5 DEF admitted, answers
<1>7. opened' = opened \cup {sessionOf(n)} /\ \A o \in opened : o.key # k
  BY <1>1, <1>2 DEF opened, sessionOf
<1>8. Goal!Open(n.idm, k, tail(n.r1))
  BY <1>2, <1>3, <1>6, <1>7 DEF Goal!Open, sessionOf, opened, admitted
<1>9. Goal!Next
  <2>1. \E j \in IDm, r2 \in R2, tid \in Tid : Goal!Open(j, r2, tid)
    BY <1>4, <1>8 DEF Goal!Open
  <2>2. QED
    BY <2>1 DEF Goal!Next
<1>10. QED
  BY <1>9

\* Authentication2 completes a session that settle has answered.
LEMMA CardAuth2Maps ==
  ASSUME NEW i \in IDm, Inv, Inv', CardAuth2(i)
  PROVE  [Goal!Next]_(Goal!goalVars)
<1>1. UNCHANGED <<taps, settled, executed, attested>>
  BY DEF CardAuth2
<1>2. PICK x \in auth2s' : auth2s' = auth2s \cup {x}
  BY DEF CardAuth2
<1>3. PICK t \in taps : x.key = t.r2 /\ \E s \in settled : answers(s, t)
  BY <1>1 DEF Inv, Auth2sFromTaps
<1>4. completed' = completed \cup {t.r2} /\ t.r2 \in admitted
  BY <1>2, <1>3 DEF completed, admitted
<1>5. sessionOf(t) \in opened /\ sessionOf(t).key = t.r2
  BY DEF opened, sessionOf
<1>6. Goal!Complete(sessionOf(t))
  BY <1>1, <1>4, <1>5 DEF Goal!Complete, completed, admitted
<1>7. QED
  BY <1>5, <1>6 DEF Goal!Next, opened

\* A Read releases a block of a completed session that has released none.
LEMMA CardReadMaps ==
  ASSUME NEW i \in IDm, Inv, Inv', CardRead(i)
  PROVE  [Goal!Next]_(Goal!goalVars)
<1> DEFINE k == card[i].r2
<1>1. UNCHANGED <<taps, settled, auth2s, attested>>
  BY DEF CardRead
<1>2. executed' = [executed EXCEPT ![k] = @ + 1] /\ card[i].phase = "auth2"
  BY DEF CardRead, card_accepts
<1>3. card[i] # Idle /\ k \in R2
  BY <1>2, Shapes DEF Inv, Idle
<1>4. PICK t \in taps : t.r2 = k
  BY <1>3 DEF Inv, CardsInTaps, current
<1>5. k \in completed
  BY <1>2, <1>3 DEF Inv, CardsInTaps, completed
<1>6. executed[k] = 0 /\ executed' = [executed EXCEPT ![k] = 1]
  <2>1. executed[k] \in Nat /\ executed'[k] = executed[k] + 1
    BY <1>2, <1>3 DEF Inv, TypeOK
  <2>2. executed'[k] > 0 => executed'[k] = 1
    BY <1>3 DEF Inv, ReadsCounted
  <2>3. executed[k] = 0
    BY <2>1, <2>2
  <2>4. QED
    BY <1>2, <2>3
<1>7. sessionOf(t) \in opened /\ sessionOf(t).key = k
  BY <1>4 DEF opened, sessionOf
<1>8. Goal!Release(sessionOf(t))
  BY <1>1, <1>5, <1>6, <1>7 DEF Goal!Release, completed
<1>9. QED
  BY <1>7, <1>8 DEF Goal!Next, opened
\* A certificate is of a completed session, under its own card, IDi, key and TID.
LEMMA AttestMaps ==
  ASSUME Inv, Inv', Attest
  PROVE  [Goal!Next]_(Goal!goalVars)
<1>1. UNCHANGED <<taps, settled, auth2s, executed>>
  BY DEF Attest, cardVars
<1>2. PICK a \in attested' : attested' = attested \cup {a}
  BY DEF Attest
<1>3. PICK t \in taps :
        /\ a.idm = t.idm /\ a.reply.r2 = t.r2 /\ a.reply.idi = IDiOf[t.idm]
        /\ tail(a.reply.proof.r1) = tail(t.r1)
        /\ \E x \in auth2s : x.key = t.r2
  BY <1>1 DEF Inv, CertifiedSessionIsGenuine, certifies
<1>4. certified' = certified \cup {[card |-> t.idm, idi |-> IDiOf[t.idm], key |-> t.r2,
                                    tid |-> tail(t.r1)]}
  BY <1>2, <1>3 DEF certified
<1>5. t.r2 \in completed
  BY <1>3 DEF completed
<1>6. /\ sessionOf(t) \in opened /\ sessionOf(t).key = t.r2
      /\ sessionOf(t).card = t.idm /\ sessionOf(t).tid = tail(t.r1)
  BY DEF opened, sessionOf
<1>7. Goal!Certify(sessionOf(t))
  BY <1>1, <1>4, <1>5, <1>6 DEF Goal!Certify, certified, completed
<1>8. QED
  BY <1>6, <1>7 DEF Goal!Next, opened

\* Every behaviour of the protocol, whatever messages are lost, repeated, delayed
\* or mixed, is one of AttestationGoal.
THEOREM Refinement == Spec => RefinesGoal
<1>1. Inv /\ Inv' /\ [Next]_vars => [Goal!Next]_(Goal!goalVars)
  <2> SUFFICES ASSUME Inv, Inv', [Next]_vars PROVE [Goal!Next]_(Goal!goalVars)
    OBVIOUS
  <2>1. ASSUME NEW h \in Holder, Begin(h) \/ Challenge(h)
        PROVE  [Goal!Next]_(Goal!goalVars)
    BY <2>1 DEF Begin, Challenge, cardVars, Goal!goalVars
  <2>2. ASSUME NEW h \in Holder, CardAuth1(h) \/ Settle(h)
        PROVE  [Goal!Next]_(Goal!goalVars)
    BY <2>2, CardAuth1Maps, SettleMaps
  <2>3. ASSUME NEW i \in IDm, CardAuth2(i) \/ CardRead(i)
        PROVE  [Goal!Next]_(Goal!goalVars)
    BY <2>3, CardAuth2Maps, CardReadMaps
  <2>4. ASSUME NEW i \in IDm, CardReset(i)
        PROVE  [Goal!Next]_(Goal!goalVars)
    BY <2>4 DEF CardReset, Goal!goalVars
  <2>5. CASE Register \/ Redeploy \/ UNCHANGED vars
    BY <2>5 DEF Register, Redeploy, cardVars, vars, Goal!goalVars
  <2>6. CASE Attest
    BY <2>6, AttestMaps
  <2>7. QED
    BY <2>1, <2>2, <2>3, <2>4, <2>5, <2>6 DEF Next
<1>2. QED
  BY <1>1, InitMaps, Invariance, PTL DEF Spec, RefinesGoal, Goal!Spec
=============================================================================
