----------------------------- MODULE DeepDiveQueue -----------------------------
(***************************************************************************)
(* The deep-dive queue: rows of deepdive_job, the poll that hands a        *)
(* pending row to a one-thread executor without changing the row, the      *)
(* staged run with its pause for the user's input before the valuation,    *)
(* the resume of a pause and of a run lost with its process, and the one   *)
(* report row each stock code has.                                         *)
(*                                                                         *)
(* A stage result is "none", "ok" or "bad" (an error marker).  A run works *)
(* on the columns it loaded when its thread started: the session does not  *)
(* expire them on commit, only a rollback makes it read them again.        *)
(***************************************************************************)
EXTENDS Integers, Sequences

CONSTANTS
  Codes,       \* stock codes
  NoCode,      \* not a stock code
  Clients,     \* request threads of the API that may enqueue
  MaxStage,    \* the stages of a run; the last one is the valuation
  MaxJobs,     \* bound: job rows ever inserted
  MaxBacklog,  \* bound: submissions waiting in the executor
  MaxFaults,   \* bound: deaths of the worker and runs aborted before their try block
  SlowRuns     \* TRUE: a run may take longer than the 30 minutes of staleness

JobIds == 1..MaxJobs
NoJob == 0
Stages == 1..MaxStage
Valuation == MaxStage

ASSUME DeepDiveAssumption ==
  /\ NoCode \notin Codes
  /\ MaxStage \in Nat \ {0}
  /\ MaxJobs \in Nat /\ MaxBacklog \in Nat /\ MaxFaults \in Nat
  /\ SlowRuns \in BOOLEAN

VARIABLES
  issued,   \* rows inserted so far; the next row's id is issued + 1
  job,      \* the deepdive_job rows
  report,   \* the deepdive_report row of each code
  request,  \* the code a client is about to insert a row for
  backlog,  \* the executor's queue
  run,      \* the executor's thread
  llm,      \* the worker was started with an LLM configured
  faults    \* deaths of the worker and aborted runs so far

vars == <<issued, job, report, request, backlog, run, llm, faults>>

JobRow == [code : Codes \cup {NoCode},
           status : {"absent", "pending", "running", "paused", "done", "failed"},
           stage : 0..MaxStage,                  \* current_stage
           stale : BOOLEAN,                      \* started_at before the cutoff
           asks : BOOLEAN,                       \* hitl_pending
           input : {"none", "blank", "text"}]    \* hitl_input

NoRow == [code |-> NoCode, status |-> "absent", stage |-> 0,
          stale |-> FALSE, asks |-> FALSE, input |-> "none"]

Results == {"none", "ok", "bad"}

ReportRow == [result : [Stages -> Results],
              verdicts : JobIds \cup {NoJob},    \* hitl_json: whose input it judges
              published : BOOLEAN]               \* narrative_md and verdict

EmptyReport == [result |-> [s \in Stages |-> "none"], verdicts |-> NoJob, published |-> FALSE]

RunState == [at : {"idle", "loaded", "stages", "failing", "closing"},
             job : JobIds \cup {NoJob},
             loaded : JobRow,                    \* the row as the thread loaded it
             stage : 1..(MaxStage + 1)]          \* the stage it is about to take

IdleRun == [at |-> "idle", job |-> NoJob, loaded |-> NoRow, stage |-> 1]

TypeOK ==
  /\ issued \in 0..MaxJobs
  /\ job \in [JobIds -> JobRow]
  /\ report \in [Codes -> ReportRow]
  /\ request \in [Clients -> Codes \cup {NoCode}]
  /\ backlog \in Seq(JobIds)
  /\ run \in RunState
  /\ llm \in BOOLEAN
  /\ faults \in 0..MaxFaults

Init ==
  /\ issued = 0
  /\ job = [j \in JobIds |-> NoRow]
  /\ report = [k \in Codes |-> EmptyReport]
  /\ request = [c \in Clients |-> NoCode]
  /\ backlog = <<>>
  /\ run = IdleRun
  /\ llm \in BOOLEAN
  /\ faults = 0

Oldest(S) == CHOOSE j \in S : \A i \in S : j <= i
Latest(S) == CHOOSE j \in S : \A i \in S : i <= j

-------------------------------------------------------------------------------
(***************************************************************************)
(* The API: enqueue(), in its two steps, and submit_hitl().                *)
(***************************************************************************)

Active(j) == job[j].status \in {"pending", "running", "paused"}

\* No active row of the code is found; one that is found is returned.
EnqueueCheck(c, k) ==
  /\ request[c] = NoCode
  /\ issued < MaxJobs
  /\ \A j \in JobIds : job[j].code = k => ~Active(j)
  /\ request' = [request EXCEPT ![c] = k]
  /\ UNCHANGED <<issued, job, report, backlog, run, llm, faults>>

EnqueueInsert(c) ==
  /\ request[c] # NoCode
  /\ issued < MaxJobs
  /\ issued' = issued + 1
  /\ job' = [job EXCEPT ![issued + 1] = [NoRow EXCEPT !.code = request[c], !.status = "pending"]]
  /\ request' = [request EXCEPT ![c] = NoCode]
  /\ UNCHANGED <<report, backlog, run, llm, faults>>

Paused(k) == {j \in JobIds : job[j].code = k /\ job[j].status = "paused"}

\* The user's input, or a blank one to go on without it, resumes the latest
\* paused row of the code; with none paused the router answers 409.
SubmitHitl(k, input) ==
  LET j == Latest(Paused(k)) IN
  /\ Paused(k) # {}
  /\ job' = [job EXCEPT ![j].input = input, ![j].asks = FALSE, ![j].status = "pending"]
  /\ UNCHANGED <<issued, report, request, backlog, run, llm, faults>>

-------------------------------------------------------------------------------
(***************************************************************************)
(* run_deepdive_queue(): claim_next() returns the oldest pending row as it *)
(* is, or makes a stale running row pending; the row is submitted.         *)
(***************************************************************************)

WithStatus(s) == {j \in JobIds : job[j].status = s}

PollPending ==
  /\ WithStatus("pending") # {}
  /\ Len(backlog) < MaxBacklog
  /\ backlog' = Append(backlog, Oldest(WithStatus("pending")))
  /\ UNCHANGED <<issued, job, report, request, run, llm, faults>>

\* Faulty variant for a mutant: only a row without started_at counts as lost.
Stale_NullOnly == {}

Stale == {j \in WithStatus("running") : job[j].stale}

PollReclaim ==
  /\ WithStatus("pending") = {}
  /\ Stale # {}
  /\ Len(backlog) < MaxBacklog
  /\ LET j == Oldest(Stale) IN
       /\ job' = [job EXCEPT ![j].status = "pending", ![j].stale = FALSE]
       /\ backlog' = Append(backlog, j)
  /\ UNCHANGED <<issued, report, request, run, llm, faults>>

\* Thirty minutes have passed since started_at.
Age(j) ==
  /\ job[j].status = "running" /\ ~job[j].stale
  /\ ~SlowRuns => run.job # j
  /\ job' = [job EXCEPT ![j].stale = TRUE]
  /\ UNCHANGED <<issued, report, request, backlog, run, llm, faults>>

-------------------------------------------------------------------------------
(***************************************************************************)
(* The executor's thread: run_job().                                       *)
(***************************************************************************)

\* The thread takes the next submission and loads the row.
RunLoad ==
  /\ run.at = "idle" /\ backlog # <<>>
  /\ backlog' = Tail(backlog)
  /\ run' = [IdleRun EXCEPT !.at = "loaded", !.job = Head(backlog), !.loaded = job[Head(backlog)]]
  /\ UNCHANGED <<issued, job, report, request, llm, faults>>

Ends(verdict) ==
  /\ job' = [job EXCEPT ![run.job].status = verdict]
  /\ run' = IdleRun

\* The worker has no LLM.
RunUnconfigured ==
  /\ run.at = "loaded"
  /\ ~llm
  /\ Ends("failed")
  /\ UNCHANGED <<issued, report, request, backlog, llm, faults>>

Code == run.loaded.code
ResumeFrom == run.loaded.stage

\* The write of the running status: not issued when the loaded row had it.
SetRunning(j) ==
  [job EXCEPT ![j].status = IF run.loaded.status = "running" THEN @ ELSE "running",
              ![j].stale = FALSE]

\* An exception before the staged part is only logged: the row stays as it was,
\* or running with no thread when the running status was already committed.
RunAborts ==
  /\ run.at = "loaded" /\ llm
  /\ faults < MaxFaults
  /\ faults' = faults + 1
  /\ UNCHANGED job \/ job' = SetRunning(run.job)
  /\ run' = IdleRun
  /\ UNCHANGED <<issued, report, request, backlog, llm>>

\* The row is set running, and the report is emptied for a fresh run or
\* stripped of its final text for a resumed one.
RunBegin ==
  /\ run.at = "loaded" /\ llm
  /\ job' = SetRunning(run.job)
  /\ report' = [report EXCEPT ![Code] =
                  IF ResumeFrom = 0 THEN EmptyReport ELSE [@ EXCEPT !.published = FALSE]]
  /\ run' = [run EXCEPT !.at = "stages"]
  /\ UNCHANGED <<issued, request, backlog, llm, faults>>

AtStage(s) == run.at = "stages" /\ run.stage = s

\* Before the valuation without an input the job pauses and asks for one.  The
\* flag is written only when the loaded row did not have it.
RunPause ==
  /\ AtStage(Valuation)
  /\ run.loaded.input = "none"
  /\ job' = [job EXCEPT ![run.job].status = "paused",
                        ![run.job].asks = IF run.loaded.asks THEN @ ELSE TRUE]
  /\ run' = IdleRun
  /\ UNCHANGED <<issued, report, request, backlog, llm, faults>>

NeedsVerdicts ==
  /\ AtStage(Valuation)
  /\ run.loaded.input = "text"
  /\ report[Code].verdicts = NoJob

RunVerify ==
  /\ NeedsVerdicts
  /\ report' = [report EXCEPT ![Code].verdicts = run.job]
  /\ UNCHANGED <<issued, job, request, backlog, run, llm, faults>>

\* The pause before the valuation, if this is the valuation, is passed.
MayTake(s) ==
  /\ AtStage(s)
  /\ s = Valuation => run.loaded.input # "none" /\ ~NeedsVerdicts

Reusable(s) == s <= ResumeFrom /\ report[Code].result[s] = "ok"

\* A finished stage of the resumed job is taken over.
RunReuse(s) ==
  /\ MayTake(s)
  /\ Reusable(s)
  /\ run' = [run EXCEPT !.stage = s + 1]
  /\ UNCHANGED <<issued, job, report, request, backlog, llm, faults>>

\* A tool of a stage fails and rolls the session back: the row's columns are
\* read again, where the run resumed from is not.
RunReload ==
  /\ run.at = "stages" /\ run.stage < Valuation
  /\ ~Reusable(run.stage)
  /\ run' = [run EXCEPT !.loaded = [job[run.job] EXCEPT !.stage = run.loaded.stage]]
  /\ UNCHANGED <<issued, job, report, request, backlog, llm, faults>>

RunStage(s) ==
  /\ MayTake(s)
  /\ ~Reusable(s)
  /\ report' = [report EXCEPT ![Code].result[s] = "ok"]
  /\ job' = [job EXCEPT ![run.job].stage = s]
  /\ run' = [run EXCEPT !.stage = s + 1]
  /\ UNCHANGED <<issued, request, backlog, llm, faults>>

\* Faulty variant for a mutant: the error marker counts as a finished stage.
RunStageBad_GoesOn(s) ==
  /\ MayTake(s)
  /\ ~Reusable(s)
  /\ report' = [report EXCEPT ![Code].result[s] = "bad"]
  /\ run' = [run EXCEPT !.stage = s + 1]
  /\ UNCHANGED <<issued, job, request, backlog, llm, faults>>

\* The stage yields an error marker: it is kept, and the job is to fail.
RunStageBad(s) ==
  /\ MayTake(s)
  /\ ~Reusable(s)
  /\ report' = [report EXCEPT ![Code].result[s] = "bad"]
  /\ run' = [run EXCEPT !.at = "failing"]
  /\ UNCHANGED <<issued, job, request, backlog, llm, faults>>

\* The failure after an error marker; or a stage, the check of the input or the
\* final text raises: rollback, the job fails.
RunFails ==
  /\ run.at \in {"stages", "failing"}
  /\ AtStage(Valuation) => run.loaded.input # "none"
  /\ Ends("failed")
  /\ UNCHANGED <<issued, report, request, backlog, llm, faults>>

\* The final text, with the verdict, is in the report.
Finalized == [report EXCEPT ![Code].published = TRUE]

\* Every stage is there: the insight feedback's commit takes the final text of
\* the report with it ...
RunPublish ==
  /\ AtStage(MaxStage + 1)
  /\ report' = Finalized
  /\ run' = [run EXCEPT !.at = "closing"]
  /\ UNCHANGED <<issued, job, request, backlog, llm, faults>>

\* Faulty variant for a mutant: the status is committed, the report's text lost.
RunDone_StatusOnly ==
  /\ AtStage(MaxStage + 1) \/ run.at = "closing"
  /\ job' = [job EXCEPT ![run.job].status = "done", ![run.job].stage = MaxStage]
  /\ run' = IdleRun
  /\ UNCHANGED <<issued, report, request, backlog, llm, faults>>

\* Faulty variant for a mutant: the final text is counted as a stage.
RunDone_OneMore ==
  /\ AtStage(MaxStage + 1) \/ run.at = "closing"
  /\ report' = Finalized
  /\ job' = [job EXCEPT ![run.job].status = "done", ![run.job].stage = MaxStage + 1]
  /\ run' = IdleRun
  /\ UNCHANGED <<issued, request, backlog, llm, faults>>

\* ... then the job is done; without that commit both are written here.
RunDone ==
  /\ AtStage(MaxStage + 1) \/ run.at = "closing"
  /\ report' = Finalized
  /\ job' = [job EXCEPT ![run.job].status = "done", ![run.job].stage = MaxStage]
  /\ run' = IdleRun
  /\ UNCHANGED <<issued, request, backlog, llm, faults>>

\* The worker dies and comes back with the settings of the day: the executor
\* is empty, the rows stay.
Crash ==
  /\ faults < MaxFaults
  /\ faults' = faults + 1
  /\ backlog' = <<>>
  /\ run' = IdleRun
  /\ llm' \in BOOLEAN
  /\ UNCHANGED <<issued, job, report, request>>

Take == \E s \in Stages : RunReuse(s) \/ RunStage(s) \/ RunStageBad(s)

Run ==
  \/ RunLoad \/ RunUnconfigured \/ RunAborts \/ RunBegin \/ RunPause \/ RunVerify
  \/ Take \/ RunFails \/ RunPublish \/ RunDone

Next ==
  \/ \E c \in Clients, k \in Codes : EnqueueCheck(c, k)
  \/ \E c \in Clients : EnqueueInsert(c)
  \/ \E k \in Codes, input \in {"blank", "text"} : SubmitHitl(k, input)
  \/ PollPending \/ PollReclaim
  \/ \E j \in JobIds : Age(j)
  \/ Run \/ RunReload
  \/ Crash

Spec == Init /\ [][Next]_vars

(***************************************************************************)
(* The poll is scheduled every 15 seconds and the executor's thread never  *)
(* stops; a job that is run over and over gets into its staged part.       *)
(***************************************************************************)
RunOf(j) == run.job = j

Fairness ==
  /\ SF_vars(PollPending) /\ WF_vars(PollReclaim)
  /\ \A j \in JobIds : WF_vars(Age(j))
  /\ WF_vars(Run)
  /\ \A j \in JobIds : SF_vars(RunOf(j) /\ RunBegin)

FairSpec == Spec /\ Fairness

-------------------------------------------------------------------------------
(***************************************************************************)
(* Properties.                                                             *)
(***************************************************************************)

\* A published report has every stage, none of them an error marker, whatever
\* was resumed, run twice or lost (run_job: a partial failure must not get
\* into the final report).
PublishedIsComplete ==
  \A k \in Codes : report[k].published => \A s \in Stages : report[k].result[s] = "ok"

IsLatest(j) == job[j].status # "absent" /\ \A i \in JobIds : job[i].code = job[j].code => i <= j

\* What the latest job of a code was given by the user is what its finished
\* report judges (_handle_hitl: an input is not dropped silently).
InputIsJudged ==
  \A j \in JobIds :
    IsLatest(j) /\ job[j].status = "done" /\ job[j].input = "text" =>
      report[job[j].code].verdicts = j

\* A row that waits for the user shows the input field.
PausedAsks == \A j \in WithStatus("paused") : job[j].asks

\* At most one row of a code is active.
OneActivePerCode ==
  \A i, j \in JobIds : Active(i) /\ Active(j) /\ job[i].code = job[j].code => i = j

\* A running row that is stale has no live run.
StaleIsOrphan == \A j \in Stale : ~(run.at = "stages" /\ run.job = j)

\* The stages a row counts are there for a resume to take over, and the report of
\* a row that is done is published unless a run of the code is under way.
IsBacked(j) ==
  /\ \A s \in 1..job[j].stage : report[job[j].code].result[s] = "ok"
  /\ job[j].status = "done" => report[job[j].code].published \/ run.loaded.code = job[j].code

\* What a row says of its job is backed by the report, whatever was run twice or
\* lost (run_job's resume_from; latest_job and get_report).  Of one job of a code:
\* an older job that is run again empties the report of a newer one.  And a queued
\* job gets to its pause or to its end.
JobsMoveBacked ==
  /\ [](\A j \in JobIds : IsLatest(j) => IsBacked(j))
  /\ \A j \in JobIds : job[j].status = "pending" ~> job[j].status \in {"paused", "done", "failed"}

===============================================================================
