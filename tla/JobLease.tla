------------------------------- MODULE JobLease -------------------------------
(***************************************************************************)
(* What a database-polled job queue of the worker promises, whatever its   *)
(* polling, executor and heartbeat machinery: a job is handed to at most   *)
(* one execution at a time, only that execution concludes it or gives it   *)
(* back, a conclusion is final, and a job whose execution was lost with    *)
(* its process is put back in the queue.                                   *)
(***************************************************************************)

CONSTANT Jobs      \* the identifiers a job row may get

VARIABLES phase,   \* phase[j]: where the row is in its life
          held     \* held[j]: an execution of j exists in a live process

vars == <<phase, held>>

Phases == {"absent", "queued", "leased", "done", "failed"}

TypeOK ==
  /\ phase \in [Jobs -> Phases]
  /\ held \in [Jobs -> BOOLEAN]

Init ==
  /\ phase = [j \in Jobs |-> "absent"]
  /\ held = [j \in Jobs |-> FALSE]

\* A client inserts the row.
Submit(j) ==
  /\ phase[j] = "absent"
  /\ phase' = [phase EXCEPT ![j] = "queued"]
  /\ UNCHANGED held

\* The queue hands the job to an execution: never while another one holds it.
Grant(j) ==
  /\ phase[j] = "queued" /\ ~held[j]
  /\ phase' = [phase EXCEPT ![j] = "leased"]
  /\ held' = [held EXCEPT ![j] = TRUE]

\* The execution that holds the job concludes it.
Conclude(j) ==
  /\ phase[j] = "leased" /\ held[j]
  /\ \E verdict \in {"done", "failed"} : phase' = [phase EXCEPT ![j] = verdict]
  /\ held' = [held EXCEPT ![j] = FALSE]

\* The execution that holds the job puts it back to be tried again.
GiveBack(j) ==
  /\ phase[j] = "leased" /\ held[j]
  /\ phase' = [phase EXCEPT ![j] = "queued"]
  /\ held' = [held EXCEPT ![j] = FALSE]

\* A process dies with the executions it held: the rows do not notice.
Lose(S) ==
  /\ held' = [j \in Jobs |-> held[j] /\ j \notin S]
  /\ UNCHANGED phase

\* Leases without an execution expire.
Expire(S) ==
  /\ \A j \in S : phase[j] = "leased" /\ ~held[j]
  /\ phase' = [j \in Jobs |-> IF j \in S THEN "queued" ELSE phase[j]]
  /\ UNCHANGED held

Next ==
  \/ \E j \in Jobs : Submit(j) \/ Grant(j) \/ Conclude(j) \/ GiveBack(j)
  \/ \E S \in SUBSET Jobs : Lose(S) \/ Expire(S)

Spec == Init /\ [][Next]_vars

===============================================================================
