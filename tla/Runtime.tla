------------------------------ MODULE Runtime ------------------------------
(***************************************************************************)
(* The process that serves the calls: main.rs runs the handlers on the     *)
(* worker threads of tokio, attest (server/src/api/service.rs) proves      *)
(* inside its handler and keeps its worker until it has, and the container *)
(* has the memory manifests/backend.yaml gives it.                         *)
(*                                                                         *)
(* tokio starts a worker for each CPU of the container's quota and polls   *)
(* the connections in the order they became ready; both are external.      *)
(* The probes of the pod open a TCP connection, which the kernel accepts   *)
(* however busy the workers are: they are left out.                        *)
(***************************************************************************)
EXTENDS Integers, Sequences, FiniteSets

CONSTANTS
  Worker,    \* threads that run handlers
  Call,      \* connections, one call each
  Proving,   \* those that call attest with a session that verifies
  IdleMemory, ProveMemory, MemoryLimit,
  MaxKills   \* bound: evictions and crashes in a behaviour

States == {"new", "queued", "answered", "lost"}

ASSUME WorkerType == IsFiniteSet(Worker) /\ Worker \cap States = {}
ASSUME CallType == Proving \subseteq Call
ASSUME MemoryType == /\ IdleMemory \in Nat /\ ProveMemory \in Nat
                     /\ MemoryLimit \in Nat /\ MaxKills \in Nat

VARIABLES
  up,     \* whether the server is listening
  at,     \* per call: the worker that runs it, or where it is otherwise
  queue,  \* the calls no worker has taken yet
  kills

vars == <<up, at, queue, kills>>

Init ==
  /\ up = TRUE
  /\ at = [c \in Call |-> "new"]
  /\ queue = <<>> /\ kills = 0

Open(c) == at[c] = "queued" \/ at[c] \in Worker

\* A client calls, or calls again; nobody listens while the server is down.
Send(c) ==
  /\ ~Open(c)
  /\ IF up THEN /\ at' = [at EXCEPT ![c] = "queued"]
                /\ queue' = Append(queue, c)
     ELSE /\ at' = [at EXCEPT ![c] = "lost"]
          /\ UNCHANGED queue
  /\ UNCHANGED <<up, kills>>

Free(w) == \A c \in Call : at[c] # w

\* Faulty: the call that came last is served first.
Take_last(w) ==
  /\ up /\ Free(w) /\ queue # <<>>
  /\ at' = [at EXCEPT ![queue[Len(queue)]] = w]
  /\ queue' = SubSeq(queue, 1, Len(queue) - 1)
  /\ UNCHANGED <<up, kills>>

\* Faulty: the handler runs on a thread of its own, as spawn_blocking has it, and the
\* worker goes on.
Take_spawned(w) ==
  /\ up /\ queue # <<>>
  /\ at' = [at EXCEPT ![Head(queue)] = w]
  /\ queue' = Tail(queue)
  /\ UNCHANGED <<up, kills>>

\* There is no await between the start of a handler and its end.
Take(w) ==
  /\ up /\ Free(w) /\ queue # <<>>
  /\ at' = [at EXCEPT ![Head(queue)] = w]
  /\ queue' = Tail(queue)
  /\ UNCHANGED <<up, kills>>

Finish(w) ==
  /\ up
  /\ \E c \in Call : at[c] = w /\ at' = [at EXCEPT ![c] = "answered"]
  /\ UNCHANGED <<up, queue, kills>>

Memory == IdleMemory + ProveMemory * Cardinality({c \in Proving : at[c] \in Worker})

\* The kernel kills the container when it exceeds its limit, others now and then;
\* the connections close and their calls are lost.
Kill ==
  /\ up
  /\ \/ Memory > MemoryLimit /\ UNCHANGED kills
     \/ kills < MaxKills /\ kills' = kills + 1
  /\ up' = FALSE
  /\ at' = [c \in Call |-> IF Open(c) THEN "lost" ELSE at[c]]
  /\ queue' = <<>>

\* The kubelet starts it again; main loads the keys before it listens.
Restart ==
  /\ ~up /\ up' = TRUE
  /\ UNCHANGED <<at, queue, kills>>

Next ==
  \/ \E c \in Call : Send(c)
  \/ \E w \in Worker : Take(w) \/ Finish(w)
  \/ Kill
  \/ Restart

Spec == Init /\ [][Next]_vars

\* A free worker takes what is queued, a handler ends, the pod is restarted.
FairSpec == /\ Spec /\ WF_vars(Restart)
            /\ \A w \in Worker : WF_vars(Take(w)) /\ WF_vars(Finish(w))

-----------------------------------------------------------------------------
TypeOK ==
  /\ up \in BOOLEAN
  /\ at \in [Call -> States \cup Worker]
  /\ queue \in Seq(Call)
  /\ kills \in 0 .. MaxKills

\* However many attests are sent at once, those that prove fit the container
\* (backend.yaml "limits = 1 concurrent prove + headroom (2 concurrent ~1GB)"):
\* nothing in service.rs counts them, but each of them holds a worker.
MemoryFits == Memory <= MemoryLimit

\* A client that keeps calling is answered again and again, whatever the others do:
\* while the proves fit, the server is not killed by the calls it is sent, and whoever
\* waits behind proves (service.rs attest has no spawn_blocking) has a turn.
CallersAreAnswered ==
  \A c \in Call : WF_vars(Send(c)) => []<>(at[c] = "answered")
=============================================================================
