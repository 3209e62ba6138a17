----------------------------- MODULE MCRequests -----------------------------
(***************************************************************************)
(* What is asked from outside: interviews that clients request and delete, *)
(* and the requests to DART that threads send through the ring of keys.    *)
(* They share no state here, so a run works one bench and the other stays  *)
(* as it began.                                                            *)
(***************************************************************************)
EXTENDS IrInterviewQueue, DartKeys

VARIABLE bench

benches == <<bench, vars, keyVars>>

RequestsInit == bench \in {"interviews", "keys"} /\ Init /\ KeysInit

Interviews == bench = "interviews" /\ Next /\ UNCHANGED <<bench, keyVars>>
Sends == bench = "keys" /\ KeysNext /\ UNCHANGED <<bench, vars>>

RequestsNext == Interviews \/ Sends

\* The fairness of the two modules, each of its own bench.
RequestsSpec ==
  /\ RequestsInit /\ [][RequestsNext]_benches
  /\ WF_vars(bench = "interviews" /\ Tick)
  /\ \A t \in Threads : WF_keyVars(bench = "keys" /\ Step(t))
=============================================================================
