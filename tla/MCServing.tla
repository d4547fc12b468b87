----------------------------- MODULE MCServing ------------------------------
(***************************************************************************)
(* The server as its callers see it, in one instance: its workers under    *)
(* many calls (Runtime), or one client's flow through outages (HolderFlow).*)
(* A behaviour is one of the two, and the variables of the other stay      *)
(* where they are.                                                         *)
(***************************************************************************)
EXTENDS Runtime, HolderFlow

CONSTANTS idi, r2a, r2b, tidX, tidY, s1, s2

VARIABLE part

\* One card, one challenge.
MCKeyBitsOf == [i \in IDm |-> i]
MCTailOf == [n \in Nonce |-> IF n \in R1 THEN tidX ELSE tidY]
MCIDiOf == [i \in IDm |-> idi]

\* The fixture's node path, one in which its service is not the first, and one
\* without it.
MCNodePaths == {<<s1>>, <<s2, s1>>, <<s2>>}

\* Each has keys of its own.
MCKeysOf == [p \in NodePaths |-> p]

ServingInit ==
  /\ part \in {"workers", "client"}
  /\ Init /\ FlowInit
  /\ part = "workers" => /\ srv.services = <<s1>>
                         /\ srv.key = CHOOSE k \in Ceremony : TRUE

RunWorkers == part = "workers" /\ Next /\ UNCHANGED <<part, flowVars>>
RunClient == part = "client" /\ FlowNext /\ UNCHANGED <<part, vars>>

\* The fairness is that of Runtime and that of HolderFlow.
ServingSpec ==
  /\ ServingInit /\ [][RunWorkers \/ RunClient]_<<part, vars, flowVars>>
  /\ WF_vars(part = "workers" /\ Restart)
  /\ \A w \in Worker : /\ WF_vars(part = "workers" /\ Take(w))
                       /\ WF_vars(part = "workers" /\ Finish(w))
  /\ WF_flowVars(part = "client" /\ Program)
  /\ WF_flowVars(part = "client" /\ Rerun)
  /\ WF_flowVars(part = "client" /\ ServerRestart)

-----------------------------------------------------------------------------
\* A client that tries again ends well (rpc_attest.rs main).
ClientEndsWell == part = "client" => EndsWell
=============================================================================
