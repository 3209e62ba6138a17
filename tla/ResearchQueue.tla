------------------------------ MODULE ResearchQueue ------------------------------
(***************************************************************************)
(* The queue of business research jobs: requests insert a pending row, each *)
(* poll submits the oldest one to an executor of one thread WITHOUT marking *)
(* it, and the thread marks it running when its turn comes.  A poll that    *)
(* finds nothing pending puts a running row that has aged back.             *)
(*                                                                         *)
(* The merge of the summary into the cache is one step here; BusinessCache  *)
(* has its parts and the other writers of the row.                          *)
(***************************************************************************)
EXTENDS Integers, Sequences

CONSTANTS
  Subjects,    \* stock codes
  Visitors,    \* requests that may overlap
  MaxStudies,  \* bound: requests that are inserted
  MaxQueued,   \* bound: submissions waiting in the executor
  MaxLosses    \* bound: deaths of the worker and runs lost to an error

ASSUME ResearchAssumption ==
  Subjects # {} /\ MaxStudies \in Nat /\ MaxQueued \in Nat \ {0} /\ MaxLosses \in Nat

StudyIds == 1..MaxStudies

VARIABLES
  studies,     \* the rows of business_research_job, "none": not inserted
  studied,     \* rows inserted
  visitor,     \* the codes each request is about to insert: none or one
  stale,       \* the aged row the poll has read, 0: none
  queue,       \* the executor's queue of submitted ids
  study,       \* what the executor's thread is at
  merged,      \* jobs that merged a summary
  shown,       \* per code: the job whose summary is in the cache
  configured,  \* the worker was started with an LLM configured
  losses

researchVars == <<studies, studied, visitor, stale, queue, study, merged, shown, configured, losses>>

StudyRow(code, status, old) == [code |-> code, status |-> status, old |-> old]
StudyStatuses == {"none", "pending", "running", "done", "failed"}
At(step, job) == [at |-> step, job |-> job]
IdleStudy == At("idle", 0)

ResearchTypeOK ==
  /\ studies \in [StudyIds -> [code : Subjects, status : StudyStatuses, old : BOOLEAN]]
  /\ studied \in 0..MaxStudies
  /\ visitor \in [Visitors -> SUBSET Subjects]
  /\ stale \in 0..MaxStudies
  /\ queue \in Seq(StudyIds) /\ Len(queue) <= MaxQueued
  /\ study \in [at : {"idle", "research", "close"}, job : 0..MaxStudies]
  /\ merged \in SUBSET StudyIds
  /\ shown \in [Subjects -> 0..MaxStudies]
  /\ configured \in BOOLEAN
  /\ losses \in 0..MaxLosses

ResearchInit ==
  /\ studies \in [StudyIds -> {StudyRow(CHOOSE c \in Subjects : TRUE, "none", FALSE)}]
  /\ studied = 0
  /\ visitor = [k \in Visitors |-> {}]
  /\ stale = 0
  /\ queue = <<>>
  /\ study = IdleStudy
  /\ merged = {}
  /\ shown = [c \in Subjects |-> 0]
  /\ configured \in BOOLEAN
  /\ losses = 0

Unconcluded(j) == studies[j].status \in {"pending", "running"}

\* Row j is written: its status changes, and with it the start it ages from.
Write(j, status) == studies' = [studies EXCEPT ![j] = StudyRow(@.code, status, FALSE)]

-------------------------------------------------------------------------------
(***************************************************************************)
(* The API.                                                                *)
(***************************************************************************)

\* enqueue(): an active job of the code is returned as it is.
StudyEnqueueCheck(k, c) ==
  /\ visitor[k] = {}
  /\ studied < MaxStudies
  /\ ~ \E j \in StudyIds : Unconcluded(j) /\ studies[j].code = c
  /\ visitor' = [visitor EXCEPT ![k] = {c}]
  /\ UNCHANGED <<studies, studied, stale, queue, study, merged, shown, configured, losses>>

StudyEnqueueInsert(k) ==
  /\ studied < MaxStudies
  /\ studied' = studied + 1
  /\ \E c \in visitor[k] : studies' = [studies EXCEPT ![studied + 1] = StudyRow(c, "pending", FALSE)]
  /\ visitor' = [visitor EXCEPT ![k] = {}]
  /\ UNCHANGED <<stale, queue, study, merged, shown, configured, losses>>

-------------------------------------------------------------------------------
(***************************************************************************)
(* The poll.                                                               *)
(***************************************************************************)

Submit(j) ==
  /\ Len(queue) < MaxQueued
  /\ queue' = Append(queue, j)

\* The smallest id with a property.
First(P(_), j) == P(j) /\ \A i \in StudyIds : P(i) => j <= i

PendingStudy(j) == studies[j].status = "pending"

\* Faulty variant for a mutant: only rows without a start count as stale.
StaleStudy_NullOnly(j) == studies[j].status = "running" /\ FALSE

StaleStudy(j) == studies[j].status = "running" /\ studies[j].old

\* The oldest pending row is submitted, and left pending.
PollNextStudy ==
  /\ stale = 0
  /\ \E j \in StudyIds : First(PendingStudy, j) /\ Submit(j)
  /\ UNCHANGED <<studies, studied, visitor, stale, study, merged, shown, configured, losses>>

\* Nothing is pending: the oldest row that has run too long is read,
PollStale ==
  /\ stale = 0
  /\ ~ \E j \in StudyIds : PendingStudy(j)
  /\ \E j \in StudyIds : First(StaleStudy, j) /\ stale' = j
  /\ UNCHANGED <<studies, studied, visitor, queue, study, merged, shown, configured, losses>>

\* put back and submitted.
PollPutBack ==
  /\ stale # 0
  /\ Submit(stale)
  /\ Write(stale, "pending")
  /\ stale' = 0
  /\ UNCHANGED <<studied, visitor, study, merged, shown, configured, losses>>

\* Time passes: a row has been running for 30 minutes.
StudyAges(j) ==
  /\ studies[j].status = "running" /\ ~studies[j].old
  /\ studies' = [studies EXCEPT ![j] = StudyRow(@.code, "running", TRUE)]
  /\ UNCHANGED <<studied, visitor, stale, queue, study, merged, shown, configured, losses>>

-------------------------------------------------------------------------------
(***************************************************************************)
(* The executor's thread.                                                  *)
(***************************************************************************)

\* The row is loaded and marked, whatever has become of it since.
StudyBegin ==
  /\ study.at = "idle" /\ queue # <<>> /\ configured
  /\ queue' = Tail(queue)
  /\ Write(Head(queue), "running")
  /\ study' = At("research", Head(queue))
  /\ UNCHANGED <<studied, visitor, stale, merged, shown, configured, losses>>

\* No LLM is configured.
StudyUnconfigured ==
  /\ study.at = "idle" /\ queue # <<>> /\ ~configured
  /\ queue' = Tail(queue)
  /\ Write(Head(queue), "failed")
  /\ UNCHANGED <<studied, visitor, stale, study, merged, shown, configured, losses>>

\* Faulty variant for a mutant: the job is concluded without its summary.
RunMerge_Skipped ==
  /\ study.at = "research"
  /\ study' = At("close", study.job)
  /\ UNCHANGED <<studies, studied, visitor, stale, queue, merged, shown, configured, losses>>

\* The research succeeds: the summary is merged in a commit of its own.
RunMerge ==
  /\ study.at = "research"
  /\ merged' = merged \cup {study.job}
  /\ shown' = [shown EXCEPT ![studies[study.job].code] = study.job]
  /\ study' = At("close", study.job)
  /\ UNCHANGED <<studies, studied, visitor, stale, queue, configured, losses>>

\* Faulty variant for a mutant: another queue's word for it.
StudyDone_Finished ==
  /\ study.at = "close"
  /\ Write(study.job, "finished")
  /\ study' = IdleStudy
  /\ UNCHANGED <<studied, visitor, stale, queue, merged, shown, configured, losses>>

StudyDone ==
  /\ study.at = "close"
  /\ Write(study.job, "done")
  /\ study' = IdleStudy
  /\ UNCHANGED <<studied, visitor, stale, queue, merged, shown, configured, losses>>

\* An unusable result, a quota, an LLM error, an error of the merge.
StudyFails ==
  /\ study.at \in {"research", "close"}
  /\ Write(study.job, "failed")
  /\ study' = IdleStudy
  /\ UNCHANGED <<studied, visitor, stale, queue, merged, shown, configured, losses>>

\* An error before the try block: the thread logs it and the row stays.
StudyAborts ==
  /\ losses < MaxLosses
  /\ losses' = losses + 1
  /\ \/ study.at = "idle" /\ queue # <<>> /\ queue' = Tail(queue) /\ study' = study
     \/ study.at = "research" /\ study' = IdleStudy /\ queue' = queue
  /\ UNCHANGED <<studies, studied, visitor, stale, merged, shown, configured>>

\* The worker dies, and with it the executor's queue.
StudyCrash ==
  /\ losses < MaxLosses
  /\ losses' = losses + 1
  /\ stale' = 0
  /\ queue' = <<>>
  /\ study' = IdleStudy
  /\ configured' \in BOOLEAN
  /\ UNCHANGED <<studies, studied, visitor, merged, shown>>

PollStudies == PollNextStudy \/ PollStale \/ PollPutBack
RunStudy == StudyBegin \/ StudyUnconfigured \/ RunMerge \/ StudyDone \/ StudyFails

ResearchNext ==
  \/ \E k \in Visitors : StudyEnqueueInsert(k) \/ \E c \in Subjects : StudyEnqueueCheck(k, c)
  \/ PollNextStudy \/ PollStale \/ PollPutBack
  \/ \E j \in StudyIds : StudyAges(j)
  \/ StudyBegin \/ StudyUnconfigured \/ RunMerge \/ StudyDone \/ StudyFails
  \/ StudyAborts \/ StudyCrash

ResearchSpec == ResearchInit /\ [][ResearchNext]_researchVars

\* The scheduler polls every 15 seconds, the thread goes on, time passes.
ResearchFairSpec ==
  /\ ResearchSpec
  /\ WF_researchVars(PollStudies) /\ WF_researchVars(RunStudy)
  /\ \A j \in StudyIds : WF_researchVars(StudyAges(j))

-------------------------------------------------------------------------------
(***************************************************************************)
(* Properties.                                                             *)
(***************************************************************************)

\* A job that is done is shown, or a later one is: its summary is stored for
\* the next visit (BusinessResearchJob.status).
DoneIsShown == \A j \in StudyIds : studies[j].status = "done" => shown[studies[j].code] >= j

\* A job that is done has merged a summary.
DoneIsMerged == \A j \in StudyIds : studies[j].status = "done" => j \in merged

\* Every queued research is concluded, through an aborted run or a death, and
\* a job that is done has merged its summary, through duplicate runs and reclaims
\* that cross its conclusion.
StudiesConclude ==
  /\ [](\A j \in StudyIds : studies[j].status = "done" => j \in merged)
  /\ \A j \in StudyIds : Unconcluded(j) ~> ~Unconcluded(j)

===============================================================================
