# Verification of reporter

TLA+ models of the parts of reporter where state is shared between processes, threads, tasks and runs,
and of the computations on which its pages stand; the TLC configurations that check them on small
instances; TLAPS proofs of central invariants for every value of the constants. Paths below are
relative to `api/app/` unless they start with `src/`.

## 1. The system

reporter collects Korean and US market data and reports, analyses them with LLMs and shows the result.

- **API** (`main.py`, `routers/`): one uvicorn process. It answers from PostgreSQL and inserts job rows
  for whatever takes long. It also owns the one websocket to the broker KIS and a reprocessing thread.
- **Worker** (`scheduler.py`): one process with an APScheduler. Cron jobs ingest data and refresh caches;
  four jobs poll the job tables every 15 s (`max_instances=1`, `coalesce`) and run what they find, on
  executors of their own or in the tick.
- **Manual batches** (`batch_runner.py`, `tui.py`): any scheduler job started by hand from the operations
  console, in a process of its own, next to the worker.
- **Operations** (`services/server_control.py`, `services/schedule_control.py`): releases by git, jobs of
  launchd.
- **Telegram briefings** (`src/src/reporter`), the **web front end** (`src/web`), ontology packages and
  deployment files.

Sessions are SQLAlchemy's with `expire_on_commit=False` and `autoflush=False` on READ COMMITTED
(`db/session.py`): an object keeps the columns it was loaded with, and a flush writes the columns that
were assigned. Several models turn on that.

### Components, their state and what makes them correct

| Component | State | Operations | Hard part | Correct when |
|---|---|---|---|---|
| Assembly queue (`services/business_assembly.py`, `scheduler.py` 441-498) | job rows, in-flight counter, pool of two threads | enqueue, claim, reclaim, heartbeat, conclude, give back | claim in two statements, counter without lock, deaths, heartbeats that fail | a job has one execution, conclusions are final, every job concludes |
| Deep-dive queue (`services/deepdive/orchestrator.py`) | jobs, reports, executor of one thread | enqueue, answer, claim, staged run, pause, resume, publish | a pending row is submitted at every poll; runs work on rows loaded minutes ago | a published report is complete; a resume takes over only what is there |
| IR interview queue (`services/ir_interview.py`) | jobs, reports | enqueue, claim, run in the tick, delete | deletions and overlapping requests across a run | a done job has its report, reports are not replaced by older ones |
| Research queue (`services/business_research/orchestrator.py`) | jobs, executor of one thread | enqueue, claim, reclaim, run, merge | duplicates, reclaims under a live run | a done job has merged its summary |
| Overview cache (`services/business_ingest.py`) | one row per code, backfill mark | assemble, refresh, first fill, merge research, invalidate | writers without a lock that write whole rows | the hash is that of the sections; the row gets up to date |
| Ontology graph (`services/business_ontology.py`, `business_ingest.py` 680-967, the normalizer of `src/business-ontology`) | nodes, edges, reprocess lock and flag, lazily loaded dictionary | persist, promote, review, reprocess; graph, explore, peers, candidates | rows kept through minutes of LLM calls, row locks, swallowed errors; an edge stored at one end and read from both | id goes with status; decisions stand; the two ends see each other |
| Realtime quotes (`adapters/realtime/kis_ws.py`) | refcounts, marks, websocket | acquire, release, reconcile, connect | two tasks that reconcile, lost connections | KIS has what is desired |
| DART key ring (`adapters/dart/throttle.py`) | ring, budget per key and day | get, failover, configure | threads refused together, midnights | budgets are kept, no key is skipped, requests end |
| Manual batches and console (`batch_runner.py`, `tui.py`) | processes, pid, lock and heartbeat files | start, poll, give up, kill, clean up, quit | a console that begins while runners begin, end and die | no runner works unseen, none twice |
| Releases (`services/server_control.py`) | branches of a remote and what was fetched of them | deploy, roll back | check and push are two steps, others fetch and push | release only moves forward along main, or back by one |
| Schedule (`services/schedule_control.py`) | plist files, parked files, loaded jobs | set the time, enable, disable, install | calls of launchctl that fail, unseen or not, or end the console; reboots; a table read earlier | what is loaded is what the file says, or the operator knows |
| Reports of the day (`services/ingest.py`, `src/src/reporter/crawler.py`) | report rows, files, brief | crawl, collect, fill texts, brief | the site moves while it is paged; files outlive aborted rows | each report of the day is collected with its file |
| Owners (`services/ownership_service.py`) | three kept answers with their age | get, renew | quota, failures, two pages at once | what is shown as fresh is recent |
| US companies (`services/us_company_service.py`, `adapters/sec/client.py`) | figures, marks, list of tickers | get, night batch | sessions that hold a row from before a write | marks follow the figures |
| Daily bars (`services/candle_ingest.py`, `candle_service.py`, `trend.py`) | bars per stock and day, cached trend | cycle, evening, backfill, page | four writers and a change of basis | stored bars are on one basis |
| Universe, rating, growth (`services/universe_ingest.py`, `rs_rating_ingest.py`, `growth_ingest.py`) | one row per stock and date | snapshot, rate, grow | jobs that overlap or break | ratings side by side are of one computation |
| Disclosures (`services/dart_ingest.py`, `company_service.py`) | rows, date of the last synchronisation | round of the morning, page | windows, cut lists, a model that is away | nothing older than the window is missing, a judgement stays |
| Backfills (`services/financials_backfill.py` and three like it) | marks, rows, quota | nightly round | failing stocks first, shared quota, restarts | every stock is served |
| Broadcasts (`src/src/reporter`, `services/broadcast_ingest.py`) | spool, forum state, archive rows | send, archive, ingest | a stop at any step | what is archived is kept, once |
| Calendar (`services/calendar_ingest.py`, `calendar_llm.py`) | events with figures, texts and a hash | collect, fill in, write texts | figures change while texts are written | a text that counts as current is of the figures |
| News (`services/news_events.py`) | articles, events of companies | classify, propagate, purge | retries, stops, two notions of age | events and articles go together |
| Statements of a company (`services/company_service.py`, `adapters/dart/client.py`, `domain/financials.py`, `routers/companies.py`) | statement rows, labels, marks of no answer, quarterly figures | page, backfills, parse, twelve months, tree | five writers; cumulative and restated statements | a page shows what is stored; twelve months are four quarters; no row twice |
| Scores, screener, comments (`services/analysis_scoring.py`, `score_factors.py`, `screener_service.py`, `analysis_comment.py`) | snapshots, caches of flows and peers, comments | assess, list, page, comment | the same number computed in several places; caches; slow writers | better figures never score lower; pages make the list; a comment is of the scores beside it |
| Valuation (`services/deepdive/valuation_stage.py`, `domain/valuation.py`) | a conversation with the model | anchors, compute, blend, conclude | any order of calls, methods left out | what is out changes nothing |
| Stages of a chart (`domain/stage.py`, `elliott.py`, `market_structure.py`) | none | bands, corrections, swings | indices re-cut several times | every bar is painted, swings end at extremes |

`PROJECT.json` lists these, what of each is left out, and the components that are not modelled, with the
reason; and the hazards of the code line by line.

Interactions: the API inserts rows, the worker polls them; an assembly and a research both write the
overview cache and the ontology graph; the refresh batch and the first fill write the same cache; pages
and nightly jobs write the same bars, disclosures, statements and answers; all requests to DART go
through the key ring; the console starts what the worker may run at the same time. Where two components
share rows, the module of the rows has both as actors (BusinessCache has the job and the research thread
of a code as far as they touch its row, CandleStore the cycle, the evening, the backfill and the page,
CompanyStatements its five writers). Where they share nothing the run of one may be composed with the
run of another as *benches* (section 3).

## 2. Modules

Each component has a module with its state as variables and an action for each atomic step of the code
(the code between two commits, awaits or releases of a lock), an `MC...` module that extends it for TLC,
and where there are theorems a `...Proofs` module. Operators named `X_Y` with the comment "Faulty
variant" are the mutations of `X` listed in `PROJECT.json`.

**JobLease** is the abstract specification: a job row is queued, leased to one execution, concluded or
given back; an execution lost with its process is noticed later and the job queued again.

**AssemblyQueue** implements it (`ImplementsLease`: `phase` is read off the status column, `held` from
the executions and submissions of live processes). A poll is three steps: the gate and the choice of
stale rows, the reclaim with the choice of a pending row, the claim with the submission. A thread runs,
its heartbeat refreshes `started_at` or fails, it concludes or gives back, and it returns its slot with
an uninterrupted or an interrupted decrement (`CounterRace`). Time is counted in heartbeat intervals of
240 s; a `Tick` waits for what the code does in seconds. No lock keeps another thread or the poll from the
counter between the reading and the store of a decrement; `DecrementsAreCurrent` says that none came between. Only ages matter, so `StaleAfter = 2` with
`MaxMissed = 1` stands for 30 minutes and six failed heartbeats; the proof covers the real numbers.

**DeepDiveQueue**. A stage is known by its result: none, usable, error marker; or it raises. `run.loaded`
is the row as the thread loaded it, which is what the pause and the resume look at. `RunPublish` is the
commit inside the insight feedback, which takes the final text with it before the job is done.

**IrInterviewQueue**. A tick reads, claims, starts and runs one job; `delete_report` reads and deletes in
between. The LLM waves of `generate` succeed or fail.

**ResearchQueue**. As the deep dive, without stages; `RunMerge` stands for what BusinessCache details.

**BusinessCache**. The set of reports filed is a number that grows and the hash of a set is that number.
A row is its hash, the set its sections were built from and the research it shows. Pipelines are the
job, the first fill and runs of the refresh batch; the batch's session may still answer the guard with
the row it compared before.

**BusinessOntology** writes the graph of one company. A row is a status and where its canonical id is
from. Sessions keep the rows they wrote until they commit; a row another session wrote is waited for;
sessions that wait for one another are a deadlock, which the database ends by refusing a statement. The
callers swallow that error without a rollback, so the session is `broken` and cannot store the overview.
**GraphReading** reads the graphs of two companies: names are resolved by type as the normalizer does
(dictionary, crossed materials, keywords, new ids), edges are stored from one end, and `Read` is the
union of the endpoints. The dictionary's first load is two assignments (`SetDictionary`, `SetNormalizer`).

**Realtime**. asyncio tasks interleave where they wait, which in a reconciliation is at a send, for the
socket or the lock: a step takes a task from one send to the next. A code is marked, its frame sent, and the
mark taken back when the send raises. KIS refuses what is beyond `KisLimit`, and nobody takes notice. Two
histories say what a property has to except: `wanted`, the copy of the reconciliation that began last, and
`crossing`, the codes in which it differs from one of the other task that was under way.

**DartKeys**. `_budget_check` takes a unit whenever it is asked, and so do the questions before a request;
`Mark` and `Rotate` are the two locked regions after a refusal, with other threads in between.

**BatchConsole** has processes with process ids that are never used again, pid files per batch, and two
consoles whose scan reads a file, which may be gone by then, judges the process, removes the files of a dead
one and then acts. **ReleaseControl** has commits with
their parents, the remote's branches, and the tracking branches of the clone that all threads share.
**LaunchSchedule** has the file, the parked file, what launchd loaded, and the list a console takes its jobs
from (`_jobs_cache`, set by `_load_schedule` only: the refresh shows rows and leaves it). A bootout unloads
or fails, and nobody looks; a bootstrap loads or fails and that is reported; either may take longer than its
15 s, which nothing catches, and the console ends between two steps (`ConsoleEnds`). `told` is the history
of what was reported, `clung` of the bootouts that left a service loaded.

**Reports**: a list of entries, newest first, that grows and is cut in pages; a collector crawls, judges
and stores one report at a time; a file is put before its row is committed. **Ownership**: an answer is
kept with its time; `Look` takes it or asks, `Keep` stores what came. **UsCompanies**: `Compute` stores
figures or not; the batch decides whether it served a ticker by the row its session holds.

**CandleStore** follows one stock whose quotes change basis at a corporate action; a bar is known by the
basis it was quoted on. **UniverseSnapshot**: dates, a rating known by the batch it is of.
**Disclosures**: days as numbers; who asks over which window, what the list left out; a new listing has no
company code for some days and is marked as synchronised without having been asked for. **Broadcasts**: a
message is in the spool, claimed, stored or gone. **Backfills**: the four progressive batches as marks,
rows and a quota. **MarketCalendar**: an event's figures and texts; a text is the figures it was written
of and so is the hash. **NewsEvents**: articles and events with their days, the purge as one transaction
under the foreign key.

**CompanyStatements**: which rows, labels and marks five writers leave. **StatementFigures**: which item
of a statement becomes which figure, single quarters out of cumulative ones, sums over four.
**StatementTree**: the rows of a statement, merged with those of the year before, under parents; what a node
shows is known by its place in the merge, so a row that is listed twice is two places.

**AxisScores** has the bands as functions of small whole numbers at the ends of the bands, the scores of
the page and of the lists from the same figures; a reading of the chart that is zero is scored and then
handed on as missing, as `technicals.py` does, so the reasons have a dash there. **Screening** has the five orders, their pages and the
caches between them. **AnalysisComments**: what is hashed, when, and what is read later. **Valuation**:
the six methods as what they refuse and a formula that grows where the code's grows, in the conversation
that calls them. **ChartStages**: verdicts on bars, then bands as sequences of records of first and last
bar, through each correction of the code; what the page says of the last bar is its verdict by itself,
without the inertia the bands have.

## 3. Runs

Components without common state are checked in one run as *benches*: the initial state picks one
component, whose steps are the steps of the run, while the others stay as they began. The states of the
run are the disjoint union of the components' states, so its properties say of each what a run of its
own would. Liveness of a bench assumes the fairness of the component's own specification, restricted
to the bench.

| Run | Module, instance | Shows |
|---|---|---|
| assembly_single | AssemblyQueue: 1 code, 4 jobs of 3 crossing requests, 1 poller, 2 threads, 1 death, decrements not interrupted | `QueueIsOrderly` (one execution, claims fit the threads, no more active rows of a code than requests cross, final conclusions), `StaleIsOrphan`, `ImplementsLease`, `EveryJobConcludes` |
| assembly_two_pollers (violation) | 2 pollers, 2 jobs | `OneExecution`: the worker and a manual batch claim one row |
| cache_writers | BusinessCache: 2 filings, 1 research, 1 deletion, 1 death, batch, job, first fill | `SectionsMatchHash`, `EventuallyFresh` |
| cache_older (violation) | batch against research | `NeverOlder`: a merge puts back an older row |
| requests | MCRequests: IR interviews with 2 codes, 2 clients, 3 jobs, 1 death; the ring with 2 threads, 2 keys, budget 2, 1 midnight | `DoneHasReport`, `NeverOlder` of reports, `ConcludesInALife`; `KeysServeInTurn`, `EveryRequestEnds` |
| ontology_review | MCOntology: 2 writers, a company and a name that needs review; 2 issuers, nine terms, 3 mentions, 2 first readers | `IdIsOfStatus`, `RunningIsShown`, `EveryRunEnds`; `NeighboursAreMutual` |
| ontology_decided (violation) | the same | `DecisionStands`: what a person decided is overwritten |
| operations | MCOperations: 2 consoles, 2 batches, 2 processes; 2 deploying threads, 4 commits; 1 console editing one job; 2 reports and an old one, pages of 1; 2 pages of owners; 2 tickers | `NothingRunsUnseen`, `ReleaseMovesSafely`, `LoadedRunsAsWritten`, `CollectedIsWhole`, `FreshIsRecent`, `MarksFollowFigures` |
| worker | MCWorker: deep dives with 1 job, 3 stages, 2 faults; studies with 2 codes, 2 jobs, 1 loss; 2 streams of 2 codes, of which KIS takes 1, 1 lost connection; 3 stocks, one that always fails, small quota | `JobsMoveBacked`, `StudiesConclude`, `KisServesStreams`, `StocksAreServed` |
| collection | MCCollection: 4 days and a corporate action; 2 stocks, 2 dates, 2 batches each; 2 listed stocks, one of them new, over 4 mornings; 2 jobs with 3 messages; 2 releases and a meeting, 2 runs; 2 articles, 3 themes over 3 days | `HistoryIsSound`, `OneCrossSection`, `DisclosuresStand`, `ArchivedIsKept`, `TextIsOfItsFigures`, `NewsStands` |
| company | MCCompany: deep-dive reports with 2 jobs and slow runs; 1 quarter, 2 visits and every writer; 5 quarters of statements; trees of 4 rows | `PublishedIsComplete`, `AnswerIsCurrent`, `TtmIsFourQuarters`, `EveryRowOnce` |
| stocks | MCStocks: figures at both ends of each band; 2 stocks in pages of 1 across a night; 2 tasks, 2 notes; 2 calls of a valuation; 6 days of a chart | `ScoresAreFair`, `PagesMakeTheList`, `ShownIsOfItsScores`, `WhatIsOutChangesNothing`, `ChartIsWhole` |

Merged properties: `JobsMoveBacked` says that a done job is published, that the stages it counts are
there and that every job moves; `StudiesConclude` that a done study is merged and every study concludes;
`KisServesStreams` that counts are streams, that what is settled is what is desired and that a stream is
served, save codes that were refused or that two reconciliations at once differ in; `KeysServeInTurn` that budgets are kept and no key is passed that could serve; `ScoresAreFair`
that the reasons make the score, with a zero for the dash of a reading of zero, and that better figures never score lower; `ChartIsWhole` that every bar
that was judged is painted, that no band begins or ends beyond those bars and that swings alternate, each as far as counts and ended by nothing before its
end; `DisclosuresStand` that nothing beyond the window is missing and a
judgement stays.

Why the bounds are enough: each hazard needs two actors that cross once, a third thing that went before,
and at most one fault that repeats it. Two codes are there where codes share a thread or a limit; where
they share nothing (cache, ontology, deep-dive reports, bars) one is modelled, and in the assembly queue the
one code has crossing requests, so the threads and the counter are shared by jobs of the same code. Two jobs of one code are
needed for an older one to cross a newer one. Three stages are the first, one before and the valuation
itself. In the cache two filings give an old and a new set; research jobs run on one thread, and one is
enough to cross every other writer. A budget of 2 is the least that has a first, a last and no request.
Four commits make a release, a hotfix, its merge and one that comes in meanwhile. Two pages of one report
are the least in which a report moves from one to the next. Five quarters are a year and the one that
makes the first of it leave. Four days have a close, a gap, the corporate action and a day after it. Six
bars are the shortest chart in which a band is confirmed, turned and corrected. Windows, ages and texts
per run are one or two where only the order of "within" and "past" matters. `CHECK_DEADLOCK FALSE` is set
where a bound on jobs, days or faults lets the system come to rest.

Symmetry is used for safety, and in `operations` and `collection` only over sets whose members no other
bench tells apart. The streams of Realtime are alike too, and `KisServesStreams` asks about one of them:
no action, constant or other property tells streams apart.

Fairness is what the code schedules: the pollers are scheduled again and again, executors and tasks go
on, frames arrive, nights come. Strong fairness is assumed only where an action can be disabled and
enabled by others again and again: a poll that finds the executor's bounded queue full at times, a tick
of the clock, an assembly that is not failed for ever by the LLM (`Gather` and `Store` of BusinessCache,
`FinishJob` of AssemblyQueue), a run that gets past the point where aborted runs end (`RunBegin`), a row
lock that PostgreSQL gives to who queues for it (`Upsert`). `StocksAreServed` holds
because a night serves more stocks than there are ones that always fail. Nothing is assumed of users:
requests, visits, reviews and streams come as they like.


## 4. Proofs

For every value of the constants, from the assumptions named in the modules:

| Module | Theorems (property of a run) | Invariant behind them |
|---|---|---|
| AssemblyQueueProofs | `TypeCorrect`, `ReclaimTakesOrphans` (StaleIsOrphan); `OnePollerIsOrderly` (QueueIsOrderly), `OnePollerIsLease` (ImplementsLease) | claims and executions refer to rows; the age of a running row is bounded by its thread's missed heartbeats and the one that is due. Needs `HeartbeatAssumption`: fewer failed heartbeats in a row than intervals until staleness. The first two hold for any number of pollers, with the counter race. The others are for one poller, any number of request and pool threads, and behaviours in which every reading of the counter is current when the decrement is stored (`DecrementsAreCurrent`); the code secures neither, and `UninterruptedIsCurrent` says that the second holds where no thread is switched inside a decrement. The invariant: a row is held by at most one submission or execution, what a poll has chosen is still as it was, the counter is the number of submissions and executions, the active rows of a code and the requests about to insert one are at most the request threads |
| BusinessCacheProofs | `TypeCorrect`, `HashIsOfSections` (SectionsMatchHash) | a pipeline past its gathering has the hash of a real set, and the row a merge has read is consistent too |
| RequestsProofs | interviews: `TypeCorrect`, `ReportOfDone` (DoneHasReport), `ReportsInOrder` (NeverOlder) | jobs are taken in the order of their ids, so a report is older than anything pending and than the job in the tick |
| | key ring: `KeysTypeCorrect`, `BudgetKept`, `NoKeySkipped`, `KeysInTurn` (KeysServeInTurn) | what was sent and what is left of a key make up a budget and its renewing check; an answer being worked on is of a refused key |
| | comments: `CommentTypeCorrect`, `ShownIsCurrent` (ShownIsOfItsScores) | notes only get newer, and a writer reads its note after it has computed the hash, so what is stored under a hash is at least as new as the hash |
| | statements: `AnswersAreCurrent` (AnswerIsCurrent) | what a request has read, rows first and labels then, is still so unless a writer came between, and so is the answer made of it |
| WorkerProofs | deep dives: `DeepDiveTypeCorrect`, `PublishedReportIsComplete` (PublishedIsComplete), `OnlyJobIsBacked` | a run that is past a stage has the stages before it, and one that writes does so to a report that is not published; where a code has one job, the stages its row counts are those of the report and of the run |
| | studies: `ResearchTypeCorrect`, `DoneStudiesAreMerged` | a run that is to conclude its row has merged it |
| | quotes: `RealtimeTypeCorrect`, `NoCountLeaks`, `QuietIsServed` | a count is the number of streams that hold the code. A code in which no two reconciliations differ is marked as the last one wants it or some task still has it before it; with no event set the last one wants what is desired; the marks are what KIS will have taken or refused when the frames on the wire have arrived |
| OperationsProofs | batches: `BatchTypeCorrect`, `BatchesAreSeen` (NothingRunsUnseen) | a runner has its lock from before it works; each live process is polled by the console that started it, or that poll was cancelled by a start or a quit after it. Of pid files nothing is said (`RunnerIsFindable`, section 5) |
| | releases: `ReleaseTypeCorrect`, `ReleasesAreSafe` (ReleaseMovesSafely) | history only grows, and the clone's main is in the history of the remote's |
| | schedule: `OneEditorIsObeyed` (LoadedRunsAsWritten) | a job may be loaded otherwise than its file says, without a report of that, only while its edit stands between two steps, where it has a file; one about to be parked is unloaded or known to have resisted. For one console |
| | owners: `OwnershipTypeCorrect`, `OwnersAreRecent` (FreshIsRecent) | each kept answer covers what was filed before its time; a page's first answer covers what it is shown with |
| | US companies: `UsTypeCorrect`, `MarksAreOfFigures` (MarksFollowFigures) | what the batch is about to mark is as it saw it or has been written since |
| | reports: `ReportsAreWhole` (CollectedIsWhole) | the list has no older day above a younger one; what a crawl has still to meet stands on pages it has not read; a row that is fresh has its file |
| CollectionProofs | bars: `CandlesTypeCorrect`, `HistoryStaysSound` (HistoryIsSound) | the stored days are an interval that ends as many days ago as the writers were silent, and what a writer has fetched reaches back to a stored day. Needs `Window > MaxOutage` |
| | universe: `RatingsAreOfOneSection` (OneCrossSection) | a job that stores holds just the stocks its computation rated, and rows never vanish |
| | broadcasts: `ArchiveIsKept` (ArchivedIsKept) | what an ingest is about to remove has been carried on: from the file to the working copy, to its lines, to the rows |
| | disclosures: `DisclosuresAlwaysStand` (DisclosuresStand) | for each stock, the mornings that have passed it since it was synchronised, times the stocks of a morning, and the stocks that still stand before it, are together at most the universe and one morning for each failure: a batch that leaves a stock out takes a batch's worth of stocks from before it, and who is synchronised goes to the end. A request that is under way asks for all that was filed since. Needs `WideEnough`: the stocks fit into the mornings of a window, less one for the stock's own turn and one for each failure. With the code's 300 stocks a night, 14 days and about 2,700 stocks it leaves room for four failures |
| | calendar: `TextsAreCurrent` (TextIsOfItsFigures) | the hash of a row is always that of one of its two texts, and no day passes within a run, so a writer's figures are those of its row unless the hash says otherwise |
| | news: `NewsAlwaysStands` (NewsStands) | what a run has still to classify has no event; an event is not older than its article |
| BusinessOntologyProofs | `TypeCorrect`, `IdsFollowStatus` (IdIsOfStatus), `WorkIsShown` (RunningIsShown) | rows not committed yet are as sound as those that are; the lock is held from a thread's start to the last it does; a writer that writes has its edges' source |
| | reading: `EdgesAreMutual` (NeighboursAreMutual) | a row has an id just when it is canonical, and a link leads from the own row of its company to a row that is there |
| ComputationProofs | trees: `RowsPlacedOnce` (EveryRowOnce) | the nodes of the page are those of the merge; each place of the merge is in one node, as its amount or once below it, and two places of the merge are never of one name |
| | figures: `RatiosDivideByTheYear` (TtmIsFourQuarters) | every parse that waits and every row holds nothing or what the reports state; the year less its three quarters is the fourth |
| | lists: `ListsAreWhole` (PagesMakeTheList) | what a reader has seen of a list that nothing stirred is its beginning, as long as his offset; key and code put any set of stocks in exactly one order |
| | valuation: `OutChangesNothing` (WhatIsOutChangesNothing) | what is kept of a conversation are the methods' results for the company; two companies that differ in refuted claims have the same anchors, two sets of results that differ in methods that do not fit the same blend |
| | scores: `ScoresStayFair` (ScoresAreFair) | figures are numbers or missing; a norm rises with its figure, a mean with each of its norms; a mean is that of its terms in any order and without those that are missing |
| | charts: `ChartStaysWhole` (ChartIsWhole) | as many bars are judged as there are closes. The rest is by induction over the bars: confirmed bands follow each other without a hole, what is cut and joined of a band paints what the band painted and stays within the bars that were judged; up to each bar the zigzag holds the highest (or lowest) bar of the swing under way, nothing in the swing turned it, and the last pivot is where it began |

None of the properties is inductive by itself: each speaks of committed state, and a step in the middle
of an operation could break it later. The invariants say what operations under way carry with them; each
was checked by TLC on the instances of section 3 before it was proved.

Layout: an invariant `...Inv` with the lemmas `Init...`, that the initial states have it, and one per
action or kind of action, that the steps keep it; then the theorem, by PTL. Two lemmas come back: that a
row made with EXCEPT is of its row type and has the fields it should, and what an update of a function
means point by point.

Computations are folds over finite sets and lists, and the library's induction theorems cannot be
instantiated here. ComputationProofs begins with what takes their place: a set of numbers has a least
member (the well-founded order of the naturals, a theorem about sets), so a set with 0 that goes on from
n to n + 1 has all numbers (`CountsReach`), and a set of sets with {} that goes on from T to T with one
element more has each finite set (`SetsGrow`). From these: a sum over a finite set exists, can be taken
apart at any element, and depends on the summands only; a function defined by its value one step before
exists (`StepsExist`), which is what the folds over the bars of a chart are; any finite set can be listed in order
(`SortExists`), and a list in order is determined by its set (`SortedIsWhole`).

Assumptions on constants that the proofs asked for, and the code has: there is a kind of owners' answer,
the first being the changes (`Kinds`); the sets of titles of old (`Legacy`), of tickers and of streams
are finite; there is a subject to study; a market of more than one day (`MaxDay > 0`); the values that
stand for "none" (`NoRow`, `NoArticle`, `NoFigures`, `Absent`, `None`) are none of the values they are
told from; ids of the dictionary are ids (`GraphAssumption`); codes are numbers, the rows of a snapshot
and the figures and claims of a company are numbers or missing, and a company has finitely many claims
(`ScreenAssumption`, `ValuationAssumption`), and so are the figures a score is made of, whose stages are
the four of Weinstein (`AxisAssumption`); closes are above 0, windows are of at least one bar and a swing
is between 1 and 99 percent (`FrameAssumption`). Assumptions on the instance, `OnePoller`,
`OneEditor`, `WideEnough` and `~CounterRace`, and on the behaviour, `[]DecrementsAreCurrent`, stand in the
theorems that need them. Each is needed: section 5 or a run of section 3 shows what happens without it, for
`WideEnough` the run `collection` with a window of 2 days.

Only model-checked:
- all liveness, that of `ImplementsLease` included: TLAPS does not do fairness or ENABLED. So
  `JobsMoveBacked`, `StudiesConclude` and `KisServesStreams` are proved in their safety part only.
- `JobsMoveBacked` asks for the latest row of a code and is checked with one row; an older row that is run
  again empties the report of a newer one, so `OnlyJobIsBacked` is about a code's only row.
- Backfills: its property is liveness.

## 5. Where the code disagrees with what it says

Three runs show a divergence; they are the findings of `PROJECT.json`:

| Property, run | What happens |
|---|---|
| `OneExecution`, assembly_two_pollers | SELECT, then UPDATE without a condition: two polling processes submit one row twice. `business_assembly.py` 69 says this is ruled out |
| `NeverOlder`, cache_older | a research merge reads the row, extends the ontology, and writes all columns back over a row the batch stored meanwhile. `business_ingest.py` 1256 says only the summary is renewed |
| `DecisionStands`, ontology_decided | the upsert sets status and id of an existing row, so the next assembly shows a rejected name again and takes the id from an accepted one |

The modules state more that the code does not keep, below the comment "promise and it does not keep" or
beside the properties that hold. To see a counterexample, put the name under `INVARIANT` or `PROPERTY` of
a configuration of that module; where the run of section 3 is not enough the row says what to set.

| Property | Module, constants | What happens |
|---|---|---|
| `ClaimsFitLanes` | AssemblyQueue, `CounterRace = TRUE`, 4 jobs, no crash | a thread switch inside `inflight -= 1` loses a decrement or an increment |
| `OneActivePerCode` | AssemblyQueue | two requests of one code that cross both find no active row and insert one each, against `business_assembly.py` 45; `ActiveFitClients` is what is left |
| `OneActivePerCode` | DeepDiveQueue, 2 jobs, backlog 2, 1 fault | a duplicate submission that runs after its row failed sets it running next to the one queued since; `db/models.py` 1045 says at most one |
| `PausedAsks` | DeepDiveQueue, 1 job, backlog 2, no fault | a duplicate run that loaded the row before the user's answer pauses it again with the input field hidden |
| `InputIsJudged` | DeepDiveQueue, backlog 3 | an answer given while a run works on the older columns is not judged by the report |
| `StaleIsOrphan` | DeepDiveQueue, `SlowRuns = TRUE` | a run longer than 30 minutes is reclaimed while it is alive: nothing refreshes `started_at` |
| `DoneIsCached` | BusinessCache, no batch, 1 invalidation | a row deleted between an assembly's guard and its touch: the job is done and there is no overview |
| `ResearchIsShown` | BusinessCache, 1 filing, 1 research | an assembly stores the whole row with an empty summary and loses the research |
| `NoGhost` | IrInterviewQueue, 1 code, 2 jobs, no death | a deletion that crosses a conclusion leaves a report of a deleted job |
| `EveryJobConcludes` | IrInterviewQueue, 1 death | a job whose worker died stays running for ever, and new requests of the code are answered with it |
| `DoneIsShown` | ResearchQueue, 1 subject, 2 studies, backlog 2 | a duplicate of an older job runs last and its summary is the one shown |
| `SettledIsDesired` | Realtime, `KisLimit = 2` | a code released or acquired while `_run` waits in a send: the loop acts on the change, then `_run` goes on with its older copy, so a code nobody wants is registered, or a desired one is not |
| `NeverRefused` | Realtime, `MaxSubscriptions = 1` | new codes are registered before old ones are released, so a change-over passes KIS's limit; the refusal is only logged |
| `FailoverIsLate`, `BudgetExpires` | DartKeys, budget 4, 1 thread | asking whether a key is usable takes a unit, so a key is passed after about half its budget; a ring past its end stays there after midnight in the API, which configures it once |
| `OntologyIsOptional` | BusinessOntology | an error of the database in the ontology is swallowed without a rollback, and the overview cannot be stored |
| `EdgesStartAtCompany` | BusinessOntology, writers with different names of the company | two first writers create two subject rows; later ones may take any company node of the code, a rival's too |
| `PeersAreFound` | GraphReading | peers by product compare the keys of rows each company has of its own (`business_ontology.py` 451-525), so none is ever found |
| `NamesKeepApart` | GraphReading | a new id keeps the Latin letters of a name only, so Korean names fall together |
| `NeighboursOpen` | GraphReading | a neighbour whose node is pending has an id without a page |
| `FirstCallsAreServed` | GraphReading | the first load sets the dictionary before the normalizer; a second thread in between stops on the assertion |
| `RejectedIsHidden` | GraphReading | a rejected node is still shown as a neighbour by `explore`; `reject_pending` says it is left out of everything |
| `RunnerIsFindable` | BatchConsole | a runner frees its lock before it removes its files (`batch_runner.py` 199-200), so it may remove those of the runner that began in between |
| `RollbackIsOfOld` | ReleaseControl | another thread fetches between the reading of the commit to be taken back and the push, so the message names another one |
| `OffSendsNothing` | LaunchSchedule | disable() says that the job is off whatever bootout returned, so a job whose bootout failed goes on sending until the next reboot; `LoadedRunsAsWritten` lets exactly these jobs be loaded |
| `SavedAsShown` | LaunchSchedule | the list was read before another console or install.sh changed the job, and the dialog toggles what the list says |
| `BriefGoesForward` | Reports | the operator's request for a date writes its brief over the closing one, or the other way round |
| `BriefStopsNothing` | Reports | an error in the brief ends the cycle (`scheduler.py` 137-142), and with it what comes after |
| `KeyIsOfOneReport` | Reports, two untitled reports | rows without a link share the fallback key, which `_dedup_key` calls unique |
| `GivenUpIsLost` | Reports | any error of the object store reads as "no file", and the row is given up for good |
| `LateIsCollected` | Reports, 2 days | the cycle crawls today's list only, so a report published after the last cycle of a day is not collected |
| `StaleIsSaid` | Ownership | a failed request stores an empty answer that counts as fresh for half a day (`OwnershipStructure.tsx` 18 says it is asked again soon) |
| `RequestsAreAnswered` | Ownership | two first requests insert the same row, one of them fails |
| `RenewedIsShown` | UsCompanies | the session answers the read after the write with the row it held before |
| `PriceStays` | UsCompanies | a failed quote writes None over the price |
| `ListIsOfTheDay` | UsCompanies, 3 nights | the list of tickers has an age of 24 h in its file, and none in the process that loaded it |
| `AdjustedTogether`, `HistoryIsWhole`, `TrendIsOfItsDay` | CandleStore | the evening looks for a rewritten past at the last but one bar; when a writer has fetched that one anew, the older bars stay on the old basis; a reload deletes before it fetches, and when it fails the next writers bring back the last days only; a trend is labelled with the newest bar at the time it is stored |
| `MarkedIsWhole`, `LeftOutIsRecent` | Backfills | marks are restored from rows, and a stock may have some of its reports only; a stock stays done when its last revenue gets older than half a year |
| `NothingIsMissed`, `HoldIsJudged` | Disclosures | a page's shorter range, or a list cut by a lost connection, moves the stock to the end of the morning's round; what a process without a model stored stays on HOLD, for stored disclosures are not judged again |
| `NothingIsLost`, `ArchivedWasSent`, `OneTopicADay` | Broadcasts; two jobs of one kind for the last | a line appended through a handle opened before the rename is removed with the claimed file; the job of many messages archives before it sends; two jobs read the state file before either has made the topic |
| `AnswersAtOnce`, `RowsAreOfTheirDivision` | CompanyStatements | an answer put together while the rows change is stored for twelve hours; the page's fetch falls back from consolidated to separate statements and labels both with what was asked for |
| `EarningsAreTheOwners`, `DebtIsTheWhole` | StatementFigures | a period read from the summary has the profit of all holders (`client.py` 580); debt is looked for by the tags of its parts first, so a line that names the whole is not used where one part has a tag |
| `NothingIsDropped`, `PrevIsOfItsAccount`, `TotalIsItsAccount`, `TotalsAgree` | StatementTree | rows of one name are one row; the year before is matched by name; a group's amount is that of its first account; a calculated total counts rows by level |
| `ReasonsMakeScore` | AxisScores | a ratio of volumes (or a close) of 0.0 is scored and then handed on as `None` by a test of truth (`technicals.py` 86-96), so the reasons on the page leave out what the score counted, against `score_factors.py` 9. `ScoresAreFair` counts that dash as the zero it was |
| `ScoreIsOneNumber` | AxisScores | the page and the lists take the figures of the value score from different columns; the screener says the score is the same wherever it is seen |
| `SameFlowForBoth`, `PeersAgree` | Screening | `build_topdown` caches the flow under a key of its own, and peers' scores are cached apart from the lists' |
| `ExcludedNeverCounts`, `GoodNewsNeverHurts`, `GrowthIsYearly` | Valuation | when the model ends without a conclusion all methods are computed with even weights (`valuation_stage.py` 1132-1136); a claim that lifts the profit a little displaces the trend's or the analysts' larger one; growth of yearly figures is counted as of quarters (`forward.py` 61-74) |
| `LowsAreLowest` | ChartStages | a rise ends when the price lost Swing percent from its high, and what gained Swing percent and lost it again is lower than where it began by up to Swing · Swing / 100 percent: the low a swing begins at need not be its lowest (`elliott.py` 80-120). The closes of the run `stocks` show it |
| `BandsTile` | ChartStages | the corrections at the tail leave bands that overlap (`stage.py` 752-778) |
| `ActualIsOfItsRelease`, `FiguresStay` | MarketCalendar | each night every past event of the window gets the latest observation (`fred.py` 105-115); a failed one writes None over a figure |
| `MeetingHasItsRate` | MarketCalendar | a rate taken from the month before is never corrected |
| `EventHasDayOfNews` | NewsEvents | the event's date is the day of its classification; `models.py` says the day of the news |

## 6. Not modelled

- **Tick fan-out** of the realtime quotes (parsing, bounded queues of the streams), `stop()` and PINGPONG.
- **Spacing of requests**: `_rate_wait` of the DART gate and the gate of the SEC.
- **LLM failover** (`adapters/llm/resilient.py`), the **cron table**, the **sync state and fallback
  store**, **freshness and share links** of deep dives. Each is small, has one writer or keeps nothing.
- **Prompts and stages** of the deep dive and the agent, the **financial ontology** and the seed files:
  wording and data.
- **Technical indicators**: floating-point computations, outside what TLC computes with. Where a module
  stands on such a computation (Valuation, ChartStages, AxisScores) it takes the result as an input or a
  formula that grows with the same figures.
- The **web front end**, deployment, tables that a single job upserts by key.
- In what is modelled: process ids that are used again and the heartbeat files of the batches (a scan may
  judge another's process), filters of the value list besides its PER and the flow of the index, which the
  screener mixes into its sectors', two runners of the news at a time, themes that change membership meanwhile, the
  endpoints of the DART client that modelled components do not read, the crash of an API process in the
  middle of a page. `PROJECT.json` says for each component what is left out.
