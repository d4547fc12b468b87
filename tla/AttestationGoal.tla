-------------------------- MODULE AttestationGoal --------------------------
(***************************************************************************)
(* What the attestation protocol promises, without messages: a session is  *)
(* opened by a card under a key never used before, admitted by the oracle, *)
(* completed by the card, read at most once, and certified only when       *)
(* complete and only as what it is.  Attestation implements it.            *)
(***************************************************************************)
EXTENDS Integers

CONSTANTS Card, SessionKey, TransactionId, CardIdOf

VARIABLES
  opened,     \* sessions: which card, under which key and TID
  admitted,   \* keys of the sessions the oracle has answered
  completed,  \* keys of the sessions the card has completed
  reads,      \* per key: blocks the card has released
  certified   \* what certificates say

goalVars == <<opened, admitted, completed, reads, certified>>

Init ==
  /\ opened = {} /\ admitted = {} /\ completed = {} /\ certified = {}
  /\ reads = [k \in SessionKey |-> 0]

Open(i, k, t) ==
  /\ \A s \in opened : s.key # k
  /\ opened' = opened \cup {[card |-> i, key |-> k, tid |-> t]}
  /\ UNCHANGED <<admitted, completed, reads, certified>>

Admit(s) ==
  /\ admitted' = admitted \cup {s.key}
  /\ UNCHANGED <<opened, completed, reads, certified>>

Complete(s) ==
  /\ s.key \in admitted
  /\ completed' = completed \cup {s.key}
  /\ UNCHANGED <<opened, admitted, reads, certified>>

Release(s) ==
  /\ s.key \in completed
  /\ reads[s.key] = 0
  /\ reads' = [reads EXCEPT ![s.key] = 1]
  /\ UNCHANGED <<opened, admitted, completed, certified>>

Certify(s) ==
  /\ s.key \in completed
  /\ certified' = certified \cup
       {[card |-> s.card, idi |-> CardIdOf[s.card], key |-> s.key, tid |-> s.tid]}
  /\ UNCHANGED <<opened, admitted, completed, reads>>

Next ==
  \/ \E i \in Card, k \in SessionKey, t \in TransactionId : Open(i, k, t)
  \/ \E s \in opened : Admit(s) \/ Complete(s) \/ Release(s) \/ Certify(s)

Spec == Init /\ [][Next]_goalVars
=============================================================================
