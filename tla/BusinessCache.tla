----------------------------- MODULE BusinessCache -----------------------------
(***************************************************************************)
(* The cache row of one stock code's business overview and everything that *)
(* writes it: the assembly job the API queues, the nightly refresh batch,  *)
(* the first fill, the merge of a research summary, POST /refresh.         *)
(* Rows of different codes never meet.                                     *)
(*                                                                         *)
(* The set of periodic reports at DART is a number that grows; the hash of *)
(* the set is that number, 0 is the empty hash of a research stub.  A row  *)
(* keeps the hash column, the set its sections were built from (0: none)   *)
(* and the number of the research summary it carries (0: none).            *)
(***************************************************************************)
EXTENDS Integers

CONSTANTS
  Batches,           \* runs of the refresh batch that may overlap with the job
  MaxFilings,        \* bound: periodic reports filed
  MaxResearch,       \* bound: research jobs
  MaxInvalidations,  \* bound: POST /refresh
  MaxCrashes         \* bound: deaths of the worker

ASSUME CacheAssumption ==
  /\ MaxFilings \in Nat \ {0} /\ MaxResearch \in Nat
  /\ MaxInvalidations \in Nat /\ MaxCrashes \in Nat
  /\ {"job", "backfill"} \cap Batches = {}

Pipelines == Batches \cup {"job", "backfill"}

VARIABLES
  filed,     \* the set of reports at DART
  cache,     \* the row, or NoRow
  client,    \* "enqueue": a request is about to queue the assembly
  job,       \* the status of the code's latest assembly job
  pipe,      \* what each pipeline is at
  research,  \* the research executor's thread
  merged,    \* research jobs concluded as done
  marked,    \* the code is marked as backfilled (SyncState)
  used       \* invalidations and crashes so far

vars == <<filed, cache, client, job, pipe, research, merged, marked, used>>

Hashes == 0..MaxFilings
Row(hash, built, summary) == [hash |-> hash, built |-> built, summary |-> summary]
Rows == [hash : Hashes, built : Hashes, summary : 0..MaxResearch]
NoRow == Row(-1, -1, -1)

PipeState == [at : {"idle", "compare", "gather", "guard", "touch", "build", "done"}, hash : -1..MaxFilings]
Idle == [at |-> "idle", hash |-> 0]
At(step, hash) == [at |-> step, hash |-> hash]

ResearchState == [at : {"idle", "merge", "close"}, row : Rows \cup {NoRow}]
NoResearch == [at |-> "idle", row |-> NoRow]

TypeOK ==
  /\ filed \in 1..MaxFilings
  /\ cache \in Rows \cup {NoRow}
  /\ client \in {"idle", "enqueue"}
  /\ job \in {"none", "pending", "running", "done", "failed"}
  /\ pipe \in [Pipelines -> PipeState]
  /\ research \in ResearchState
  /\ merged \in 0..MaxResearch
  /\ marked \in BOOLEAN
  /\ used \in [{"invalidations", "crashes"} -> Nat]

Init ==
  /\ filed = 1
  /\ cache = NoRow
  /\ client = "idle"
  /\ job = "none"
  /\ pipe = [p \in Pipelines |-> Idle]
  /\ research = NoResearch
  /\ merged = 0
  /\ marked = FALSE
  /\ used = [x \in {"invalidations", "crashes"} |-> 0]

\* A company files its next periodic report.
File ==
  /\ filed < MaxFilings
  /\ filed' = filed + 1
  /\ UNCHANGED <<cache, client, job, pipe, research, merged, marked, used>>

-------------------------------------------------------------------------------
(***************************************************************************)
(* The API.                                                                *)
(***************************************************************************)

\* GET /business: a row is always returned, without one the assembly is queued.
Get ==
  /\ client = "idle"
  /\ cache = NoRow
  /\ client' = "enqueue"
  /\ UNCHANGED <<filed, cache, job, pipe, research, merged, marked, used>>

\* POST /refresh: the row is deleted, then the assembly is queued.
Invalidate ==
  /\ client = "idle"
  /\ used["invalidations"] < MaxInvalidations
  /\ used' = [used EXCEPT !["invalidations"] = @ + 1]
  /\ cache' = NoRow
  /\ client' = "enqueue"
  /\ UNCHANGED <<filed, job, pipe, research, merged, marked>>

\* Faulty variant for a mutant: the status of the request's own vocabulary.
Enqueue_Queued ==
  /\ client = "enqueue"
  /\ client' = "idle"
  /\ job' = IF job \in {"pending", "running"} THEN job ELSE "queued"
  /\ UNCHANGED <<filed, cache, pipe, research, merged, marked, used>>

\* enqueue() returns an active job as it is.
Enqueue ==
  /\ client = "enqueue"
  /\ client' = "idle"
  /\ job' = IF job \in {"pending", "running"} THEN job ELSE "pending"
  /\ UNCHANGED <<filed, cache, pipe, research, merged, marked, used>>

-------------------------------------------------------------------------------
(***************************************************************************)
(* assemble_overview(), in a job's thread or in the refresh batch.         *)
(***************************************************************************)

JobStart ==
  /\ job = "pending"
  /\ job' = "running"
  /\ pipe' = [pipe EXCEPT !["job"] = At("gather", 0)]
  /\ UNCHANGED <<filed, cache, client, research, merged, marked, used>>

\* refresh_if_new_report(): the row is read, then the reports are gathered and
\* compared with its hash.
BatchStart(b) ==
  /\ pipe[b].at = "idle"
  /\ pipe' = [pipe EXCEPT ![b] = At("compare", cache.hash)]
  /\ UNCHANGED <<filed, cache, client, job, research, merged, marked, used>>

\* Faulty variant for a mutant: a row that is there is never refreshed.
BatchCompare_AnyRow(b) ==
  /\ pipe[b].at = "compare"
  /\ pipe' = [pipe EXCEPT ![b] = IF @.hash # -1 THEN Idle ELSE At("gather", 0)]
  /\ UNCHANGED <<filed, cache, client, job, research, merged, marked, used>>

BatchCompare(b) ==
  /\ pipe[b].at = "compare"
  /\ pipe' = [pipe EXCEPT ![b] = IF @.hash = filed THEN Idle ELSE At("gather", 0)]
  /\ UNCHANGED <<filed, cache, client, job, research, merged, marked, used>>

\* run_backfill_progressive(): a code that is not marked is assembled ...
BackfillStart ==
  /\ ~marked
  /\ pipe["backfill"].at = "idle"
  /\ pipe' = [pipe EXCEPT !["backfill"] = At("gather", 0)]
  /\ UNCHANGED <<filed, cache, client, job, research, merged, marked, used>>

\* Faulty variant for a mutant: a list of reports fetched earlier is used.
Gather_Memoized(p) ==
  /\ pipe[p].at = "gather"
  /\ \E n \in 1..filed : pipe' = [pipe EXCEPT ![p] = At("guard", n)]
  /\ UNCHANGED <<filed, cache, client, job, research, merged, marked, used>>

Gather(p) ==
  /\ pipe[p].at = "gather"
  /\ pipe' = [pipe EXCEPT ![p] = At("guard", filed)]
  /\ UNCHANGED <<filed, cache, client, job, research, merged, marked, used>>

Reusable(hash) == cache # NoRow /\ cache.hash = hash /\ cache.built # 0

\* The guard: sections built from the same set of reports are kept, unless the
\* batch's session still answers with the row it compared before.
Guard(p) ==
  /\ pipe[p].at = "guard"
  /\ \/ Reusable(pipe[p].hash) /\ pipe' = [pipe EXCEPT ![p] = At("touch", @.hash)]
     \/ /\ ~Reusable(pipe[p].hash) \/ p \in Batches
        /\ pipe' = [pipe EXCEPT ![p] = At("build", @.hash)]
  /\ UNCHANGED <<filed, cache, client, job, research, merged, marked, used>>

\* cached_at of the row, if it is still there, is set; its payload is returned.
Touch(p) ==
  /\ pipe[p].at = "touch"
  /\ pipe' = [pipe EXCEPT ![p] = At("done", @.hash)]
  /\ UNCHANGED <<filed, cache, client, job, research, merged, marked, used>>

\* Faulty variant for a mutant: the row is written by an UPDATE.
Store_NoInsert(p) ==
  /\ pipe[p].at = "build"
  /\ cache' = IF cache = NoRow THEN NoRow ELSE Row(pipe[p].hash, pipe[p].hash, 0)
  /\ pipe' = [pipe EXCEPT ![p] = At("done", @.hash)]
  /\ UNCHANGED <<filed, client, job, research, merged, marked, used>>

\* Extraction, map, reduce, sections and review succeed: the whole row is
\* written, without a research summary.
Store(p) ==
  /\ pipe[p].at = "build"
  /\ cache' = Row(pipe[p].hash, pipe[p].hash, 0)
  /\ pipe' = [pipe EXCEPT ![p] = At("done", @.hash)]
  /\ UNCHANGED <<filed, client, job, research, merged, marked, used>>

\* The job's thread concludes it.
JobDone ==
  /\ pipe["job"].at = "done"
  /\ job' = "done"
  /\ pipe' = [pipe EXCEPT !["job"] = Idle]
  /\ UNCHANGED <<filed, cache, client, research, merged, marked, used>>

\* ... and marked for good.
BackfillDone ==
  /\ pipe["backfill"].at = "done"
  /\ marked' = TRUE
  /\ pipe' = [pipe EXCEPT !["backfill"] = Idle]
  /\ UNCHANGED <<filed, cache, client, job, research, merged, used>>

BatchDone(b) ==
  /\ pipe[b].at = "done"
  /\ pipe' = [pipe EXCEPT ![b] = Idle]
  /\ UNCHANGED <<filed, cache, client, job, research, merged, marked, used>>

\* No report, no LLM, too few sections, a quota or an LLM error: nothing is
\* stored.  A rate limit of the LLM puts the job back; without a report or an LLM
\* the backfill marks the code all the same.
Fails(p) ==
  /\ pipe[p].at \in {"gather", "build"}
  /\ pipe' = [pipe EXCEPT ![p] = Idle]
  /\ \/ p # "job" /\ job' = job
     \/ p = "job" /\ job' = "failed"
     \/ p = "job" /\ pipe[p].at = "build" /\ job' = "pending"
  /\ \/ marked' = marked
     \/ p = "backfill" /\ marked' = TRUE
  /\ UNCHANGED <<filed, cache, client, research, merged, used>>

-------------------------------------------------------------------------------
(***************************************************************************)
(* The research job's merge.                                               *)
(***************************************************************************)

\* _merge_research_into_cache(): the row is read, the ontology is extended.
ResearchRead ==
  /\ research.at = "idle"
  /\ merged < MaxResearch
  /\ research' = [at |-> "merge", row |-> cache]
  /\ UNCHANGED <<filed, cache, client, job, pipe, merged, marked, used>>

\* Faulty variant for a mutant: the summary is merged into the payload that was
\* read, the other columns are left as they are.
ResearchMerge_PayloadOnly ==
  /\ research.at = "merge"
  /\ cache' = CASE research.row = NoRow -> Row(0, 0, merged + 1)
                [] cache = NoRow -> NoRow
                [] OTHER -> Row(cache.hash, research.row.built, merged + 1)
  /\ research' = [research EXCEPT !.at = "close"]
  /\ UNCHANGED <<filed, client, job, pipe, merged, marked, used>>

\* The whole row is written: a stub, or what was read with the new summary.
ResearchMerge ==
  /\ research.at = "merge"
  /\ cache' = IF research.row = NoRow THEN Row(0, 0, merged + 1)
              ELSE [research.row EXCEPT !.summary = merged + 1]
  /\ research' = [research EXCEPT !.at = "close"]
  /\ UNCHANGED <<filed, client, job, pipe, merged, marked, used>>

ResearchDone ==
  /\ research.at = "close"
  /\ merged' = merged + 1
  /\ research' = NoResearch
  /\ UNCHANGED <<filed, cache, client, job, pipe, marked, used>>

-------------------------------------------------------------------------------

\* The worker dies: its pipelines and the research thread are gone.
Crash ==
  /\ used["crashes"] < MaxCrashes
  /\ used' = [used EXCEPT !["crashes"] = @ + 1]
  /\ pipe' = [p \in Pipelines |-> Idle]
  /\ research' = NoResearch
  /\ UNCHANGED <<filed, cache, client, job, merged, marked>>

\* The orphaned job turns stale and is queued again.
Reclaim ==
  /\ job = "running" /\ pipe["job"].at = "idle"
  /\ job' = "pending"
  /\ UNCHANGED <<filed, cache, client, pipe, research, merged, marked, used>>

Assemble(p) == Gather(p) \/ Guard(p) \/ Touch(p) \/ Store(p) \/ Fails(p)
Backfill == BackfillStart \/ BackfillDone
Batch(b) == BatchStart(b) \/ BatchCompare(b) \/ BatchDone(b)
Research == ResearchRead \/ ResearchMerge \/ ResearchDone

Next ==
  \/ File
  \/ Get \/ Invalidate \/ Enqueue
  \/ JobStart \/ JobDone \/ Reclaim
  \/ \E p \in Pipelines : Assemble(p)
  \/ \E b \in Batches : Batch(b)
  \/ Backfill \/ Research
  \/ Crash

Spec == Init /\ [][Next]_vars

(***************************************************************************)
(* The batch is scheduled every day and a pipeline that has begun goes on; *)
(* an assembly tried for ever is not failed for ever by the LLM.  The web  *)
(* page need not be visited.                                               *)
(***************************************************************************)
Fairness ==
  /\ \A b \in Batches : WF_vars(Batch(b)) /\ SF_vars(Store(b))
  /\ \A p \in Pipelines : WF_vars(Assemble(p))
  /\ \A b \in Batches : SF_vars(Gather(b))
  /\ WF_vars(JobStart) /\ WF_vars(JobDone) /\ WF_vars(BackfillDone) /\ WF_vars(Reclaim)
  /\ WF_vars(ResearchMerge) /\ WF_vars(ResearchDone)

FairSpec == Spec /\ Fairness

-------------------------------------------------------------------------------
(***************************************************************************)
(* Properties.                                                             *)
(***************************************************************************)

\* The hash column always names the reports the sections were built from,
\* whatever pipelines, merges and deletions write the row in turn: with any
\* other hash the guard would keep outdated sections for ever.
SectionsMatchHash == cache.built = cache.hash

\* Once no report is filed any more, the overview is there and up to date for
\* good: the batch repairs what any interleaving of writers left behind
\* (business_ingest: the daily comparison of hashes guarantees freshness).
EventuallyFresh == <>[](cache.built = filed)

\* A job is done only with an overview in the cache (BusinessAssemblyJob.status).
DoneIsCached ==
  [][job # "done" /\ job' = "done" => cache' # NoRow /\ cache'.built # 0]_vars

\* The row is never replaced by one of an older set of reports
\* (_merge_research_into_cache keeps sections and hash).
NeverOlder == [][cache # NoRow /\ cache' # NoRow => cache'.hash >= cache.hash]_vars

\* The summary of the research done last is what a visit shows, unless the user
\* had the row deleted (BusinessResearchJob).
ResearchIsShown ==
  merged > 0 /\ research.at = "idle" /\ used["invalidations"] = 0 => cache.summary = merged

===============================================================================
