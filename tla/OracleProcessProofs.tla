------------------------ MODULE OracleProcessProofs ------------------------
(***************************************************************************)
(* Proofs about OracleProcess, for any number of calls, keys, crashes and  *)
(* changes of the provisioning.  Inv holds of both ways of running the     *)
(* process; Warmed only of the server, whose main fills the cache before   *)
(* it listens.                                                             *)
(***************************************************************************)
EXTENDS OracleProcess, TLAPS

\* What ties the cache, the calls and the answers to the bytes read once.  A
\* call, a key on its way to the cache and an answer exist only while the
\* process listens, and by then the bytes no longer change.
Inv ==
  /\ TypeOK
  /\ cache # None => cache = bytes /\ phase \in {"bind", "listening", "exited"}
  /\ phase \in {"parse_addr", "warm", "bind", "listening"} => bytes # None
  /\ \A c \in Call :
       /\ local[c] # None => pc[c] = "set" /\ local[c] = bytes
       /\ pc[c] = "set" => local[c] # None
       /\ pc[c] \in {"reuse", "handle"} => cache # None
       /\ pc[c] # "idle" => phase = "listening"
       /\ reply[c] # NoReply => phase = "listening"
       /\ reply[c].key # None => reply[c].key = bytes

\* Nobody listens on a cold cache, so no call takes the filling path.
Warmed ==
  /\ phase \in {"bind", "listening"} => cache # None
  /\ \A c \in Call :
       /\ pc[c] \notin {"deserialize", "set", "reuse"}
       /\ pc[c] = "serve_bytes" => request[c] = "get_proving_key"
       /\ reply[c].code # None => reply[c].code = verdict(request[c])
       /\ pc[c] # "idle" => reply[c] = NoReply

-----------------------------------------------------------------------------
\* A call is answered with a code.
LEMMA VerdictType == \A r : verdict(r) \in Codes
BY DEF verdict, Codes

\* Both initial predicates establish Inv.
LEMMA InvInit == Init \/ LibraryInit => Inv
<1> SUFFICES ASSUME Init \/ LibraryInit PROVE Inv
  OBVIOUS
<1> USE NoneIsForeign, BoundsType DEF File, NotAKey
<1>1. TypeOK
  <2>1. provision \in Provision
    <3>1. CASE Init
      BY <3>1 DEF Init
    <3>2. CASE LibraryInit
      <4>1. "missing" \in File
        BY DEF Unreadable
      <4>2. QED
        BY <3>2, <4>1 DEF LibraryInit, Provision
    <3>3. QED
      BY <3>1, <3>2
  <2>2. QED
    BY <2>1 DEF Init, LibraryInit, Quiet, TypeOK, Phase, Starting, Steps, NoReply
<1>2. QED
  BY <1>1 DEF Init, LibraryInit, Quiet, Inv, NoReply

\* Every step preserves Inv.
LEMMA InvStep == Inv /\ [Next]_vars => Inv'
<1> SUFFICES ASSUME Inv, [Next]_vars PROVE Inv'
  OBVIOUS
<1> USE NoneIsForeign, BoundsType DEF Inv, TypeOK, procVars, callVars, envVars
<1>1. CASE Main
  <2> USE DEF Statement, Phase, Starting
  <2>1. CASE FromEnv
    BY <2>1 DEF FromEnv
  <2>2. CASE EnsurePresent
    BY <2>2 DEF EnsurePresent
  <2>3. CASE Load
    BY <2>3 DEF Load, File, NoReply
  <2>4. CASE ParseAddr
    BY <2>4 DEF ParseAddr
  <2>5. CASE Warm
    BY <2>5 DEF Warm, deserializes
  <2>6. CASE Bind
    BY <2>6 DEF Bind
  <2>7. QED
    BY <1>1, <2>1, <2>2, <2>3, <2>4, <2>5, <2>6 DEF Main
<1>2. CASE Crash
  <2>1. crashes' \in 0 .. MaxCrashes
    BY <1>2 DEF Crash
  <2>2. TypeOK'
    BY <1>2, <2>1 DEF Crash, Phase, Starting, Steps, NoReply
  <2>3. QED
    BY <1>2, <2>2 DEF Crash, NoReply
<1>3. CASE Restart
  BY <1>3 DEF Restart, Phase, Starting, NoReply
<1>4. CASE Reprovision
  BY <1>4 DEF Reprovision
<1>5. ASSUME NEW c \in Call, Arrive(c)
      PROVE  Inv'
  BY <1>5 DEF Arrive, Goto, Steps, NoReply
<1>6. ASSUME NEW c \in Call, CallStep(c)
      PROVE  Inv'
  <2> USE DEF Steps, NoReply, Answer, Goto
  <2>1. CASE ServeBytes(c)
    BY <2>1 DEF ServeBytes, Codes
  <2>2. CASE Get(c)
    BY <2>2 DEF Get
  <2>3. CASE Deserialize(c)
    <3>1. ASSUME deserializes(bytes) PROVE Inv'
      BY <2>3, <3>1 DEF Deserialize, deserializes, File
    <3>2. ASSUME ~deserializes(bytes) PROVE Inv'
      <4>1. /\ Fail(PROVE_FAILED) \in [code : Codes \cup {None},
                                       key : Key \cup NotAKey \cup {None}]
            /\ Fail(PROVE_FAILED).key = None
        BY DEF Fail, Codes
      <4>2. Answer(c, Fail(PROVE_FAILED)) /\ UNCHANGED <<envVars, procVars>>
        BY <2>3, <3>2 DEF Deserialize
      <4>3. reply' \in [Call -> [code : Codes \cup {None},
                                key : Key \cup NotAKey \cup {None}]]
        BY <4>1, <4>2
      <4>4. TypeOK'
        BY <4>2, <4>3
      <4>5. QED
        BY <2>3, <4>1, <4>2, <4>4 DEF Deserialize
    <3>3. QED
      BY <3>1, <3>2
  <2>4. CASE Set(c)
    BY <2>4 DEF Set
  <2>5. CASE Reuse(c)
    BY <2>5 DEF Reuse
  <2>6. CASE Handle(c)
    BY <2>6, VerdictType DEF Handle, Fail, Codes
  <2>7. QED
    BY <1>6, <2>1, <2>2, <2>3, <2>4, <2>5, <2>6 DEF CallStep
<1>7. CASE UNCHANGED vars
  BY <1>7 DEF vars
<1>8. QED
  BY <1>1, <1>2, <1>3, <1>4, <1>5, <1>6, <1>7 DEF Next

\* The server and the library keep Inv for ever.
THEOREM Invariance == EitherSpec \/ Spec \/ LibrarySpec => []Inv
<1>1. Init \/ LibraryInit => Inv
  BY InvInit
<1>2. Inv /\ [Next]_vars => Inv'
  BY InvStep
<1>3. QED
  BY <1>1, <1>2, PTL DEF EitherSpec, Spec, LibrarySpec

\* Every variable keeps its type in both ways of running the process.
THEOREM TypeCorrect == EitherSpec \/ Spec \/ LibrarySpec => []TypeOK
<1>1. Inv => TypeOK
  BY DEF Inv
<1>2. QED
  BY <1>1, Invariance, PTL

\* handler.rs load_cached: whatever the calls' interleaving, one process hands
\* out keys and proofs of one ceremony only.
THEOREM OneCeremonyServed == EitherSpec \/ Spec \/ LibrarySpec => []ServedKeysAgree
<1>1. Inv => ServedKeysAgree
  BY DEF Inv, ServedKeysAgree
<1>2. QED
  BY <1>1, Invariance, PTL

\* handler.rs:99: the expect after the cache was set never panics.
THEOREM ExpectIsSafe == EitherSpec \/ Spec \/ LibrarySpec => []ExpectNeverPanics
<1>1. Inv => ExpectNeverPanics
  BY DEF Inv, ExpectNeverPanics
<1>2. QED
  BY <1>1, Invariance, PTL

-----------------------------------------------------------------------------
\* Every step of a warmed process leaves it warmed.
LEMMA WarmedStep == Inv /\ Inv' /\ Warmed /\ [Next]_vars => Warmed'
<1> SUFFICES ASSUME Inv, Inv', Warmed, [Next]_vars PROVE Warmed'
  OBVIOUS
<1> USE DEF Warmed, Inv, TypeOK, procVars, callVars, envVars
<1>1. CASE Main
  BY <1>1, NoneIsForeign DEF Main, FromEnv, EnsurePresent, Load, ParseAddr, Warm,
     Bind, Statement, deserializes, File
<1>2. CASE Crash \/ Restart \/ Reprovision
  BY <1>2 DEF Crash, Restart, Reprovision, NoReply
<1>3. ASSUME NEW c \in Call, Arrive(c)
      PROVE  Warmed'
  BY <1>3 DEF Arrive, Goto, NoReply
<1>4. ASSUME NEW c \in Call, CallStep(c)
      PROVE  Warmed'
  BY <1>4 DEF CallStep, ServeBytes, Get, Deserialize, Set, Reuse, Handle, Answer,
     Goto, Fail, verdict
<1>5. CASE UNCHANGED vars
  BY <1>5 DEF vars
<1>6. QED
  BY <1>1, <1>2, <1>3, <1>4, <1>5 DEF Next

\* main.rs: a listening server answers a request by what is wrong with it, and
\* never by what is wrong with its key.
THEOREM VerdictsUnmasked == Spec => []VerdictNotMasked
<1>1. Init => Warmed
  BY DEF Init, Quiet, Warmed, NoReply
<1>2. Inv /\ Inv' /\ Warmed /\ [Next]_vars => Warmed'
  BY WarmedStep
<1>3. Warmed => VerdictNotMasked
  BY DEF Warmed, VerdictNotMasked
<1>4. QED
  BY <1>1, <1>2, <1>3, Invariance, PTL DEF Spec
=============================================================================
