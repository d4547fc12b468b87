--------------------------- MODULE OracleProcess ---------------------------
(***************************************************************************)
(* The server process around the handlers: start-up (server/src/main.rs),  *)
(* the proving-key file (server/src/params.rs), the once-initialised       *)
(* proving key (server/src/api/handler.rs) and the calls that share it on  *)
(* the runtime's threads, with crashes and the pod's restarts.             *)
(*                                                                         *)
(* The process runs in one of two ways.  As the server, main reads the key *)
(* file, warms the cache and only then listens.  As a library (the way     *)
(* server/tests/common/mod.rs builds OracleImpl) the calls find a cold     *)
(* cache and race to fill it.                                              *)
(***************************************************************************)
EXTENDS Integers, FiniteSets

CONSTANTS
  Call,           \* calls that may be in flight at once
  Key,            \* key pairs ceremonies have produced
  None,
  MaxCrashes,     \* bound: crashes in a behaviour
  MaxProvisions   \* bound: changes of the provisioning in a behaviour

ASSUME BoundsType == MaxCrashes \in Nat /\ MaxProvisions \in Nat

OK == 0
MAC_MISMATCH == -32010
TID_MISMATCH == -32011
PROVE_FAILED == -32020
INVALID_PARAMS == -32602

VARIABLES
  provision,   \* what the deployment supplies: key file and environment
  provisions,  \* how often it has changed
  crashes,
  phase,       \* the statement of main to run next, or where it has stopped
  addr,        \* AppConfig.bind_addr: what from_env read
  bytes,       \* ProvingKeyBytes: the file contents read at start-up
  cache,       \* pk_cache: OnceLock
  pc,          \* per call: the step of its handler to run next
  request,     \* per call: what it asks
  local,       \* per call: a deserialized key not yet offered to the cache
  reply        \* per call: what was answered last

procVars == <<phase, addr, bytes, cache>>
callVars == <<pc, request, local, reply>>
envVars == <<provision, provisions, crashes>>
vars == <<provision, provisions, crashes, phase, addr, bytes, cache, pc, request,
          local, reply>>

-----------------------------------------------------------------------------
(* Provisioning *)

\* A key file holds a key, other bytes, no bytes, too many bytes, or there is
\* no regular file at the path.
Unreadable == {"missing", "directory"}
NotAKey == {"corrupt", "oversize"}
File == Key \cup Unreadable \cup NotAKey \cup {"empty"}

\* None is no contents of a file, so no key.
ASSUME NoneIsForeign == None \notin File

Provision == [file : File, keysJson : BOOLEAN, bindAddr : BOOLEAN,
              portFree : BOOLEAN]

Starting == {"from_env", "ensure_present", "load", "parse_addr", "warm", "bind"}
Phase == Starting \cup {"listening", "exited"}

\* attest requests by what verify_session finds in them, and the two key RPCs.
Attests == {"genuine", "malformed", "bad_mac", "bad_tid"}
Request == Attests \cup {"get_verifying_key", "get_proving_key"}

verdict(r) == IF r = "malformed" THEN INVALID_PARAMS
              ELSE IF r = "bad_mac" THEN MAC_MISMATCH
              ELSE IF r = "bad_tid" THEN TID_MISMATCH
              ELSE OK

NoReply == [code |-> None, key |-> None]
Fail(code) == [code |-> code, key |-> None]

Quiet == /\ pc = [c \in Call |-> "idle"]
         /\ request = [c \in Call |-> None]
         /\ local = [c \in Call |-> None]
         /\ reply = [c \in Call |-> NoReply]

Init ==
  /\ provision \in Provision
  /\ provisions = 0 /\ crashes = 0
  /\ phase = "from_env" /\ addr = "unread" /\ bytes = None /\ cache = None
  /\ Quiet

\* OracleImpl::new over ProvingKeyBytes::from_bytes: a library reads no file and
\* no environment, and nobody restarts it, so all that is spent from the start.
LibraryInit ==
  /\ provision = [file |-> "missing", keysJson |-> FALSE, bindAddr |-> FALSE,
                  portFree |-> FALSE]
  /\ provisions = MaxProvisions /\ crashes = MaxCrashes
  /\ phase = "listening" /\ addr = "unread"
  /\ bytes \in Key \cup NotAKey /\ cache = None
  /\ Quiet

Reprovision ==
  /\ provisions < MaxProvisions
  /\ provisions' = provisions + 1
  /\ provision' \in Provision
  /\ UNCHANGED <<crashes, procVars, callVars>>

-----------------------------------------------------------------------------
(* main *)

\* One statement of main: on to next if it succeeds, out of the process if not.
Statement(at, succeeds, next) ==
  /\ phase = at
  /\ phase' = IF succeeds THEN next ELSE "exited"
  /\ UNCHANGED <<envVars, callVars>>

\* The environment is read here once; bind_addr is parsed later.
FromEnv ==
  /\ Statement("from_env", provision.keysJson, "ensure_present")
  /\ addr' = IF provision.bindAddr THEN "valid" ELSE "invalid"
  /\ UNCHANGED <<bytes, cache>>

\* The oversize limit and emptiness are checked on the file's metadata.
EnsurePresent ==
  /\ Statement("ensure_present", provision.file \in Key \cup {"corrupt"}, "load")
  /\ UNCHANGED <<addr, bytes, cache>>

\* Faulty: what ensure_present found is taken to be still so.
Load_trusting ==
  /\ Statement("load", provision.file \notin Unreadable, "parse_addr")
  /\ bytes' = IF provision.file \notin Unreadable THEN provision.file ELSE bytes
  /\ UNCHANGED <<addr, cache>>

\* The file is looked at again: it need not be the one just checked, and only
\* emptiness is checked this time.
Load ==
  /\ Statement("load", provision.file \in Key \cup NotAKey, "parse_addr")
  /\ bytes' = IF provision.file \in Key \cup NotAKey THEN provision.file ELSE bytes
  /\ UNCHANGED <<addr, cache>>

ParseAddr == /\ Statement("parse_addr", addr = "valid", "warm")
             /\ UNCHANGED <<addr, bytes, cache>>

deserializes(b) == b \in Key

\* Faulty: the key is left for the first attest to load.
Warm_lazy == /\ Statement("warm", TRUE, "bind")
             /\ UNCHANGED <<addr, bytes, cache>>

\* ensure_keys_loaded: load_cached with nobody else running.
Warm == /\ Statement("warm", deserializes(bytes), "bind")
        /\ cache' = IF deserializes(bytes) THEN bytes ELSE cache
        /\ UNCHANGED <<addr, bytes>>

Bind == /\ Statement("bind", provision.portFree, "listening")
        /\ UNCHANGED <<addr, bytes, cache>>

Main == FromEnv \/ EnsurePresent \/ Load \/ ParseAddr \/ Warm \/ Bind

\* A crash, or a kill for exceeding the memory limit: calls in flight get no
\* answer and all memory is lost.
Crash ==
  /\ phase # "exited"
  /\ crashes < MaxCrashes
  /\ crashes' = crashes + 1
  /\ phase' = "exited" /\ addr' = "unread" /\ bytes' = None /\ cache' = None
  /\ pc' = [c \in Call |-> "idle"]
  /\ request' = [c \in Call |-> None]
  /\ local' = [c \in Call |-> None]
  /\ reply' = [c \in Call |-> NoReply]
  /\ UNCHANGED <<provision, provisions>>

\* Faulty: a restart resumes with what was read before.
Restart_resuming ==
  /\ phase = "exited"
  /\ phase' = IF bytes = None THEN "from_env" ELSE "warm"
  /\ cache' = None
  /\ UNCHANGED <<envVars, callVars, addr, bytes>>

\* The Deployment runs one pod and recreates it.
Restart ==
  /\ phase = "exited"
  /\ phase' = "from_env" /\ addr' = "unread" /\ bytes' = None /\ cache' = None
  /\ UNCHANGED <<envVars, callVars>>

-----------------------------------------------------------------------------
(* Calls *)

Goto(c, step) == pc' = [pc EXCEPT ![c] = step]

Answer(c, r) == /\ Goto(c, "idle")
                /\ reply' = [reply EXCEPT ![c] = r]
                /\ local' = [local EXCEPT ![c] = None]
                /\ UNCHANGED request

Arrive(c) ==
  /\ phase = "listening" /\ pc[c] = "idle"
  /\ \E r \in Request :
       /\ request' = [request EXCEPT ![c] = r]
       /\ Goto(c, IF r = "get_proving_key" THEN "serve_bytes" ELSE "get")
  /\ reply' = [reply EXCEPT ![c] = NoReply]
  /\ UNCHANGED <<envVars, procVars, local>>

\* Faulty: the file is read again for each request.
ServeBytes_afresh(c) ==
  /\ pc[c] = "serve_bytes"
  /\ Answer(c, [code |-> OK, key |-> provision.file])
  /\ UNCHANGED <<envVars, procVars>>

ServeBytes(c) ==
  /\ pc[c] = "serve_bytes"
  /\ Answer(c, [code |-> OK, key |-> bytes])
  /\ UNCHANGED <<envVars, procVars>>

\* load_cached, first look.
Get(c) ==
  /\ pc[c] = "get"
  /\ Goto(c, IF cache # None THEN "handle" ELSE "deserialize")
  /\ UNCHANGED <<envVars, procVars, request, local, reply>>

Deserialize(c) ==
  /\ pc[c] = "deserialize"
  /\ \/ /\ deserializes(bytes)
        /\ local' = [local EXCEPT ![c] = bytes]
        /\ Goto(c, "set")
        /\ UNCHANGED <<request, reply>>
     \/ /\ ~deserializes(bytes)
        /\ Answer(c, Fail(PROVE_FAILED))
  /\ UNCHANGED <<envVars, procVars>>

\* Faulty: the key is deserialized only to see whether it can be.
Set_forgetful(c) ==
  /\ pc[c] = "set"
  /\ local' = [local EXCEPT ![c] = None]
  /\ Goto(c, "reuse")
  /\ UNCHANGED <<envVars, procVars, request, reply>>

\* Faulty: set().unwrap(), which panics in the loser of a race.
Set_exclusive(c) ==
  /\ pc[c] = "set"
  /\ cache = None
  /\ cache' = local[c]
  /\ local' = [local EXCEPT ![c] = None]
  /\ Goto(c, "reuse")
  /\ UNCHANGED <<envVars, phase, addr, bytes, request, reply>>

\* The first key offered stays; a raced loser is dropped.
Set(c) ==
  /\ pc[c] = "set"
  /\ cache' = IF cache = None THEN local[c] ELSE cache
  /\ local' = [local EXCEPT ![c] = None]
  /\ Goto(c, "reuse")
  /\ UNCHANGED <<envVars, phase, addr, bytes, request, reply>>

\* get().expect("cache set above"); the step is stuck where expect panics.
Reuse(c) ==
  /\ pc[c] = "reuse"
  /\ cache # None
  /\ Goto(c, "handle")
  /\ UNCHANGED <<envVars, procVars, request, local, reply>>

\* The rest of the handler: verify and prove under the cached key, or encode
\* its verifying key.
Handle(c) ==
  /\ pc[c] = "handle"
  /\ Answer(c, IF verdict(request[c]) = OK THEN [code |-> OK, key |-> cache]
               ELSE Fail(verdict(request[c])))
  /\ UNCHANGED <<envVars, procVars>>

CallStep(c) == ServeBytes(c) \/ Get(c) \/ Deserialize(c) \/ Set(c) \/ Reuse(c)
                 \/ Handle(c)

Next ==
  \/ Main
  \/ Crash
  \/ Restart
  \/ Reprovision
  \/ \E c \in Call : Arrive(c) \/ CallStep(c)

\* The process keeps executing main, the kubelet keeps restarting the pod, and
\* the runtime polls every spawned call; handlers wait for nothing.
Fairness == WF_vars(Main) /\ WF_vars(Restart) /\ \A c \in Call : WF_vars(CallStep(c))

Spec == Init /\ [][Next]_vars /\ Fairness
LibrarySpec == LibraryInit /\ [][Next]_vars /\ Fairness
EitherSpec == (Init \/ LibraryInit) /\ [][Next]_vars /\ Fairness

-----------------------------------------------------------------------------
Steps == {"idle", "serve_bytes", "get", "deserialize", "set", "reuse", "handle"}
Codes == {OK, MAC_MISMATCH, TID_MISMATCH, PROVE_FAILED, INVALID_PARAMS}

TypeOK ==
  /\ provision \in Provision
  /\ provisions \in 0 .. MaxProvisions
  /\ crashes \in 0 .. MaxCrashes
  /\ phase \in Phase
  /\ addr \in {"unread", "valid", "invalid"}
  /\ bytes \in Key \cup NotAKey \cup {None}
  /\ cache \in Key \cup {None}
  /\ pc \in [Call -> Steps]
  /\ request \in [Call -> Request \cup {None}]
  /\ local \in [Call -> Key \cup {None}]
  /\ reply \in [Call -> [code : Codes \cup {None},
                        key : Key \cup NotAKey \cup {None}]]

\* Every proof, every verifying key and every copy of the proving key that one
\* process hands out belong to one ceremony, whichever call filled the cache
\* and whatever happens to the key file meanwhile (handler.rs load_cached,
\* service.rs attest, get_verifying_key, get_proving_key).
ServedKeysAgree ==
  \A c, d \in Call :
    (reply[c].key # None /\ reply[d].key # None) => reply[c].key = reply[d].key

\* The expect of load_cached holds: after offering its key to the cache a call
\* finds one there, its own or another's.
ExpectNeverPanics == \A c \in Call : pc[c] = "reuse" => cache # None

\* attest looks at the key before it looks at its parameters, and yet a bad key
\* never masks what is wrong with a request: a process with such a key does not
\* get to listen (main.rs: "corrupt keys fail the deploy, not first attest").
\* Only a process that main started has an address; a library may mask.
VerdictNotMasked ==
  \A c \in Call : (addr = "valid" /\ reply[c].code # None)
                    => reply[c].code = verdict(request[c])

\* Every call is answered, unless the process dies first.
EveryCallAnswered == \A c \in Call : pc[c] # "idle" ~> pc[c] = "idle"

Good == /\ provision.keysJson /\ provision.bindAddr /\ provision.portFree
        /\ provision.file \in Key

\* Once the provisioning is right and stays so, the service comes up and stays
\* up, whatever start-ups failed before on whatever they had read by then.
RecoversOnceProvisioned == <>[]Good => <>[](phase = "listening")

\* server/tests/attest_flow.rs, attest_rejects_tampered_auth2, over the OracleImpl
\* of server/tests/common/mod.rs: "the request path under test never
\* deserializes them", so a tampered AUTH2 is answered with -32010.
TamperedAuth2IsMacMismatch ==
  \A c \in Call : (request[c] = "bad_mac" /\ reply[c].code # None)
                    => reply[c].code = MAC_MISMATCH
=============================================================================
