---------------------------- MODULE IrInterviewQueue ----------------------------
(***************************************************************************)
(* The queue of IR interview strategies: requests insert a pending row, the *)
(* worker's tick claims the oldest one and runs it before it returns, and a *)
(* user may delete a code's report together with all its jobs at any time.  *)
(*                                                                         *)
(* The session writes a row by its primary key and raises if the row is     *)
(* gone.  What the generation asks the LLM is abstracted to its success.    *)
(***************************************************************************)
EXTENDS Integers

CONSTANTS
  Codes,       \* stock codes
  Clients,     \* requests that may overlap
  MaxJobs,     \* bound: rows ever inserted
  MaxCrashes   \* bound: deaths of the worker

ASSUME IrAssumption == Codes # {} /\ MaxJobs \in Nat /\ MaxCrashes \in Nat

JobIds == 1..MaxJobs

VARIABLES
  jobs,     \* the rows of ir_interview_job, "none": not inserted or deleted
  issued,   \* ids handed out
  report,   \* per code: the report row and the job it is from, 0: none
  client,   \* what each request is at
  tick,     \* the worker's tick
  crashes

vars == <<jobs, issued, report, client, tick, crashes>>

JobRow(code, status) == [code |-> code, status |-> status]
Statuses == {"none", "pending", "running", "done", "failed"}

\* The upsert keeps the primary key of the row, a new one has that of its job.
Report(row, job) == [row |-> row, job |-> job]
NoReport == Report(0, 0)

Request(at, code, seen) == [at |-> at, code |-> code, seen |-> seen]
At(step, job) == [at |-> step, job |-> job]
IdleTick == At("idle", 0)

TypeOK ==
  /\ jobs \in [JobIds -> [code : Codes, status : Statuses]]
  /\ issued \in 0..MaxJobs
  /\ report \in [Codes -> [row : 0..MaxJobs, job : 0..MaxJobs]]
  /\ client \in [Clients -> [at : {"idle", "insert", "delete"}, code : Codes, seen : 0..MaxJobs]]
  /\ tick \in [at : {"idle", "claim", "start", "run"}, job : 0..MaxJobs]
  /\ crashes \in 0..MaxCrashes

Init ==
  /\ jobs \in [JobIds -> {JobRow(CHOOSE c \in Codes : TRUE, "none")}]
  /\ issued = 0
  /\ report = [c \in Codes |-> NoReport]
  /\ client \in [Clients -> {Request("idle", CHOOSE c \in Codes : TRUE, 0)}]
  /\ tick = IdleTick
  /\ crashes = 0

Exists(j) == jobs[j].status # "none"
Active(j) == jobs[j].status \in {"pending", "running"}
SetStatus(j, status) == jobs' = [jobs EXCEPT ![j] = JobRow(jobs[j].code, status)]

-------------------------------------------------------------------------------
(***************************************************************************)
(* The API.                                                                *)
(***************************************************************************)

\* enqueue(): an active job of the code is returned as it is.
EnqueueCheck(k, c) ==
  /\ client[k].at = "idle"
  /\ ~ \E j \in JobIds : Active(j) /\ jobs[j].code = c
  /\ client' = [client EXCEPT ![k] = Request("insert", c, 0)]
  /\ UNCHANGED <<jobs, issued, report, tick, crashes>>

\* Faulty variant for a mutant: the status the other queues never had.
EnqueueInsert_Queued(k) ==
  /\ client[k].at = "insert"
  /\ issued < MaxJobs
  /\ issued' = issued + 1
  /\ jobs' = [jobs EXCEPT ![issued + 1] = JobRow(client[k].code, "queued")]
  /\ client' = [client EXCEPT ![k] = Request("idle", client[k].code, 0)]
  /\ UNCHANGED <<report, tick, crashes>>

EnqueueInsert(k) ==
  /\ client[k].at = "insert"
  /\ issued < MaxJobs
  /\ issued' = issued + 1
  /\ jobs' = [jobs EXCEPT ![issued + 1] = JobRow(client[k].code, "pending")]
  /\ client' = [client EXCEPT ![k] = Request("idle", client[k].code, 0)]
  /\ UNCHANGED <<report, tick, crashes>>

\* delete_report(): the report row is read,
DeleteRead(k, c) ==
  /\ client[k].at = "idle"
  /\ client' = [client EXCEPT ![k] = Request("delete", c, report[c].row)]
  /\ UNCHANGED <<jobs, issued, report, tick, crashes>>

\* Faulty variant for a mutant: the jobs are left.
DeleteCommit_KeepsJobs(k) ==
  /\ client[k].at = "delete"
  /\ report' = [report EXCEPT ![client[k].code] = IF @.row = client[k].seen THEN NoReport ELSE @]
  /\ client' = [client EXCEPT ![k] = Request("idle", client[k].code, 0)]
  /\ UNCHANGED <<jobs, issued, tick, crashes>>

\* then one commit deletes the code's jobs and the row that was read.
DeleteCommit(k) ==
  /\ client[k].at = "delete"
  /\ jobs' = [j \in JobIds |-> IF jobs[j].code = client[k].code
                               THEN JobRow(jobs[j].code, "none") ELSE jobs[j]]
  /\ report' = [report EXCEPT ![client[k].code] = IF @.row = client[k].seen THEN NoReport ELSE @]
  /\ client' = [client EXCEPT ![k] = Request("idle", client[k].code, 0)]
  /\ UNCHANGED <<issued, tick, crashes>>

-------------------------------------------------------------------------------
(***************************************************************************)
(* The worker.                                                             *)
(***************************************************************************)

Oldest(j) ==
  /\ jobs[j].status = "pending"
  /\ \A i \in JobIds : jobs[i].status = "pending" => j <= i

\* Faulty variant for a mutant: the latest request first.
PollRead_Newest ==
  /\ tick.at = "idle"
  /\ \E j \in JobIds :
       /\ jobs[j].status = "pending"
       /\ \A i \in JobIds : jobs[i].status = "pending" => i <= j
       /\ tick' = At("claim", j)
  /\ UNCHANGED <<jobs, issued, report, client, crashes>>

\* claim_next() reads the oldest pending row,
PollRead ==
  /\ tick.at = "idle"
  /\ \E j \in JobIds : Oldest(j) /\ tick' = At("claim", j)
  /\ UNCHANGED <<jobs, issued, report, client, crashes>>

\* and commits it as running; a deleted row raises and the tick ends.
PollClaim ==
  /\ tick.at = "claim"
  /\ IF Exists(tick.job)
       THEN SetStatus(tick.job, "running") /\ tick' = At("start", tick.job)
       ELSE tick' = IdleTick /\ jobs' = jobs
  /\ UNCHANGED <<issued, report, client, crashes>>

\* The model, the start and the progress are committed.
RunStart ==
  /\ tick.at = "start"
  /\ tick' = IF Exists(tick.job) THEN At("run", tick.job) ELSE IdleTick
  /\ UNCHANGED <<jobs, issued, report, client, crashes>>

\* The report of code c after an upsert by job j.
Upserted(c, j) == Report(IF report[c] = NoReport THEN j ELSE report[c].row, j)

\* Faulty variant for a mutant: the job is concluded in a commit of its own,
\* before the report.
RunDone_StatusOnly ==
  /\ tick.at = "run"
  /\ IF Exists(tick.job) THEN SetStatus(tick.job, "done") ELSE jobs' = jobs
  /\ tick' = IdleTick
  /\ UNCHANGED <<issued, report, client, crashes>>

\* The strategy is generated: report and job are written in one commit, which
\* a deleted row undoes.
RunDone ==
  /\ tick.at = "run"
  /\ IF Exists(tick.job)
       THEN LET c == jobs[tick.job].code IN
              /\ report' = [report EXCEPT ![c] = Upserted(c, tick.job)]
              /\ SetStatus(tick.job, "done")
       ELSE UNCHANGED <<report, jobs>>
  /\ tick' = IdleTick
  /\ UNCHANGED <<issued, client, crashes>>

\* Faulty variant for a mutant: rolled back and left.
RunFails_RollbackOnly ==
  /\ tick.at = "run"
  /\ tick' = IdleTick
  /\ UNCHANGED <<jobs, issued, report, client, crashes>>

\* No LLM, no valuation to ask about, an error on the way.
RunFails ==
  /\ tick.at = "run"
  /\ IF Exists(tick.job) THEN SetStatus(tick.job, "failed") ELSE jobs' = jobs
  /\ tick' = IdleTick
  /\ UNCHANGED <<issued, report, client, crashes>>

Crash ==
  /\ crashes < MaxCrashes
  /\ crashes' = crashes + 1
  /\ tick' = IdleTick
  /\ UNCHANGED <<jobs, issued, report, client>>

Tick == PollRead \/ PollClaim \/ RunStart \/ RunDone \/ RunFails

Next ==
  \/ \E k \in Clients : EnqueueInsert(k) \/ DeleteCommit(k)
  \/ \E k \in Clients, c \in Codes : EnqueueCheck(k, c) \/ DeleteRead(k, c)
  \/ PollRead \/ PollClaim \/ RunStart \/ RunDone \/ RunFails
  \/ Crash

Spec == Init /\ [][Next]_vars

\* The scheduler ticks every 15 seconds and a tick runs to its end.
FairSpec == Spec /\ WF_vars(Tick)

-------------------------------------------------------------------------------
(***************************************************************************)
(* Properties.                                                             *)
(***************************************************************************)

\* A concluded job's report is there, of that job or of a later one, whatever
\* deletions cross its conclusion.
DoneHasReport ==
  \A j \in JobIds : jobs[j].status = "done" => report[jobs[j].code].job >= j

\* A report is replaced only by that of a later request, also when two requests
\* of one code passed the duplicate check together.
NeverOlder ==
  [][\A c \in Codes : report'[c] = NoReport \/ report'[c].job >= report[c].job]_vars

\* Nothing is left of a deleted code but what was requested since: a report's
\* job exists (delete_report: no ghost state remains).
NoGhost ==
  \A c \in Codes : report[c] # NoReport => Exists(report[c].job)

\* The worker runs what is queued to its end, or the user deletes it (enqueue).
EveryJobConcludes == \A j \in JobIds : Active(j) ~> ~Active(j)

Carried(j) == jobs[j].status = "pending" \/ (jobs[j].status = "running" /\ tick.job = j)

\* It does as long as it lives: a death orphans at most the job it is at, and
\* neither a failing run nor a row deleted under it stops the others.
ConcludesInALife ==
  \A j \in JobIds, n \in 0..MaxCrashes :
    Carried(j) /\ crashes = n ~> ~Active(j) \/ crashes > n

===============================================================================
