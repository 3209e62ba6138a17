----------------------------- MODULE Backfills -----------------------------
(***************************************************************************)
(* The progressive backfills that share the DART budget: the financials    *)
(* and the separate statements of financials_backfill.py, the reports of   *)
(* report_ingest.py, the related companies of related_company_ingest.py.   *)
(* Each night one takes the first PerRun stocks its marks in sync_state do *)
(* not show as done, in the order of the universe, until the share of the  *)
(* budget that backfills may use is gone; by day the pages use the rest.   *)
(***************************************************************************)
EXTENDS Integers, FiniteSets

CONSTANTS
  N,           \* the stocks of the universe, 1..N in its order
  Troubled,    \* stocks whose backfill raises every night, or that never have recent revenue
  Reports,     \* the reports a stock has filed: one DART request each
  PerRun,      \* stocks of a night (_PER_RUN)
  Share,       \* requests a day the backfills may use
  Whole,       \* requests a day DART answers
  Pairs,       \* which backfills run in one night
  MaxFailures, \* requests that find no connection
  MaxDeaths,   \* the server is stopped in a night
  MaxEarly,    \* requests of pages while a backfill runs (it is four in the morning)
  MaxQuarters  \* times the last known revenue becomes old

ASSUME BackfillAssumption ==
  /\ {N, PerRun, Share, Whole, MaxFailures, MaxDeaths, MaxEarly, MaxQuarters} \subseteq Nat
  /\ IsFiniteSet(Reports) /\ Troubled \subseteq 1..N /\ Share <= Whole

Stocks == 1..N
RowKinds == {"sce", "capex", "fulltext"}      \* those that keep no mark

VARIABLES
  kinds,     \* the backfills of this instance
  phase,     \* night or day
  used,      \* DART requests since midnight
  stored,    \* backfill -> stock -> the reports whose output is in the tables
  mark,      \* backfill -> the stocks sync_state says are done
  recent,    \* stocks with revenue of the last half year (the financials)
  todo,      \* backfill -> what is left of the night
  mishaps     \* [lost, deaths, early, quarters] so far

backfillVars == <<kinds, phase, used, stored, mark, recent, todo, mishaps>>

Outcomes == {"stores", "finds nothing", "raises"}

BackfillInit ==
  /\ kinds \in Pairs
  /\ phase = "day" /\ used = 0
  /\ stored = [k \in kinds |-> [s \in Stocks |-> {}]]
  /\ mark = [k \in kinds |-> {}] /\ recent = {}
  /\ todo = [k \in kinds |-> {}]
  /\ mishaps = [lost |-> 0, deaths |-> 0, early |-> 0, quarters |-> 0]

---------------------------------------------------------------------------
\* _done_codes, _reconcile_markers, _ofs_pending_codes: what counts as done.
HasOutput(k) == {s \in Stocks : stored[k][s] # {}}
Restored(k) == IF k \in {"financials", "report"} THEN HasOutput(k) ELSE {}
Done(k) ==
  CASE k = "financials" -> (mark[k] \intersect recent) \union Restored(k)
    [] k = "report"     -> mark[k] \union Restored(k)
    [] k = "ofs"        -> mark[k] \union HasOutput(k)
    [] k = "related"    -> mark[k]
    [] k \in RowKinds   -> HasOutput(k)

Waiting(k) == Stocks \ Done(k)
\* pending[:per_run], with _budget_aware_per_run where the backfill asks for it
FirstOf(S, n) == {s \in S : Cardinality({r \in S : r < s}) < n}
Least(a, b) == IF a < b THEN a ELSE b
NightSize(k) ==
  IF k \in {"financials", "ofs"} THEN Least(PerRun, Whole \div Cardinality(Reports)) ELSE PerRun

\* The four run_backfill_progressive: marks are restored, then the night's list.
NightFalls ==
  /\ phase = "day" /\ phase' = "night" /\ used' = 0
  /\ mark' = [k \in kinds |-> mark[k] \union Restored(k)]
  /\ todo' = [k \in kinds |-> FirstOf(Waiting(k), NightSize(k))]
  /\ UNCHANGED <<kinds, stored, recent, mishaps>>

Next1(k) == CHOOSE s \in todo[k] : \A r \in todo[k] : s <= r
Exhausted == used >= Share              \* dart_throttle.backfill_budget_exhausted
Busy(k) == phase = "night" /\ todo[k] # {}

StopsEarly(k) ==
  /\ Busy(k) /\ Exhausted /\ todo' = [todo EXCEPT ![k] = {}]
  /\ UNCHANGED <<kinds, phase, used, stored, mark, recent, mishaps>>

Costs(n) == used + n <= Whole /\ used' = used + n
Passes(k, s) == todo' = [todo EXCEPT ![k] = @ \ {s}]

\* backfill_stock of the financials and the statements, and of the related
\* companies: everything a stock has is stored in one transaction, then marked.
StockDone(k) ==
  /\ Busy(k) /\ ~Exhausted /\ k \notin RowKinds \union {"report"}
  /\ Next1(k) \notin Troubled
  /\ Costs(Cardinality(Reports))
  /\ stored' = [stored EXCEPT ![k][Next1(k)] = Reports]
  /\ recent' = IF k = "financials" THEN recent \union {Next1(k)} ELSE recent
  /\ mark' = [mark EXCEPT ![k] = @ \union {Next1(k)}]
  /\ Passes(k, Next1(k))
  /\ UNCHANGED <<kinds, phase, mishaps>>

\* run_sce_migration, backfill_capex, backfill_full_text: a row is filled; one
\* whose table does not match, or that has no text, stays as it was, and stays first.
RowFilled(k) ==
  /\ Busy(k) /\ ~Exhausted /\ k \in RowKinds
  /\ Next1(k) \notin Troubled
  /\ Costs(1)
  /\ stored' = [stored EXCEPT ![k][Next1(k)] = Reports]
  /\ Passes(k, Next1(k))
  /\ UNCHANGED <<kinds, phase, mark, recent, mishaps>>

\* backfill_stock of the reports: a commit after every report; the last one marks.
ReportStored ==
  LET k == "report" s == Next1(k) IN
  /\ k \in kinds /\ Busy(k) /\ (stored[k][s] # {} \/ ~Exhausted) /\ s \notin Troubled
  /\ Costs(1)
  /\ \E r \in Reports \ stored[k][s] :
       /\ stored' = [stored EXCEPT ![k][s] = @ \union {r}]
       /\ IF stored[k][s] \union {r} = Reports
            THEN mark' = [mark EXCEPT ![k] = @ \union {s}] /\ Passes(k, s)
            ELSE UNCHANGED <<mark, todo>>
  /\ UNCHANGED <<kinds, phase, recent, mishaps>>

\* No connection: the client answers as for a stock without data, the stock is
\* marked, and the related companies there were are gone.
TakenForNoData(k) ==
  /\ Busy(k) /\ ~Exhausted /\ k \notin RowKinds \union {"report"} /\ mishaps.lost < MaxFailures
  /\ Costs(Cardinality(Reports))
  /\ mishaps' = [mishaps EXCEPT !.lost = @ + 1]
  /\ stored' = IF k = "related" THEN [stored EXCEPT ![k][Next1(k)] = {}] ELSE stored
  /\ mark' = [mark EXCEPT ![k] = @ \union {Next1(k)}]
  /\ Passes(k, Next1(k))
  /\ UNCHANGED <<kinds, phase, recent>>

\* Faulty variant: the failure of one stock ends the night.
StockFails_EndsNight(k) ==
  /\ Busy(k) /\ ~Exhausted /\ Next1(k) \in Troubled
  /\ Costs(1)
  /\ todo' = [todo EXCEPT ![k] = {}]
  /\ UNCHANGED <<kinds, phase, stored, mark, recent, mishaps>>

\* A stock that raises is rolled back and passed over.
StockFails(k) ==
  /\ Busy(k) /\ ~Exhausted /\ Next1(k) \in Troubled
  /\ Costs(1)
  /\ Passes(k, Next1(k))
  /\ UNCHANGED <<kinds, phase, stored, mark, recent, mishaps>>

\* DartQuotaExceeded: the day's requests are gone, in the middle of a stock;
\* what has no commit is rolled back and the night ends.
QuotaEnds(k) ==
  /\ Busy(k)
  /\ used + (IF k = "report" THEN 1 ELSE Cardinality(Reports)) > Whole
  /\ todo' = [todo EXCEPT ![k] = {}]
  /\ UNCHANGED <<kinds, phase, used, stored, mark, recent, mishaps>>

\* The server is stopped: nothing of a night is remembered but the marks.
ServerStops ==
  /\ phase = "night" /\ \E k \in kinds : todo[k] # {}
  /\ mishaps.deaths < MaxDeaths /\ mishaps' = [mishaps EXCEPT !.deaths = @ + 1]
  /\ todo' = [k \in kinds |-> {}]
  /\ UNCHANGED <<kinds, phase, used, stored, mark, recent>>

DayBreaks ==
  /\ phase = "night" /\ \A k \in kinds : todo[k] = {}
  /\ phase' = "day"
  /\ UNCHANGED <<kinds, used, stored, mark, recent, todo, mishaps>>

\* A page asks DART: by day as often as DART answers, by night now and then.
PageAsks ==
  /\ Costs(1)
  /\ IF phase = "day" THEN mishaps' = mishaps
       ELSE mishaps.early < MaxEarly /\ mishaps' = [mishaps EXCEPT !.early = @ + 1]
  /\ UNCHANGED <<kinds, phase, stored, mark, recent, todo>>

\* Half a year passes.
RevenueAges ==
  /\ phase = "day" /\ recent # {} /\ mishaps.quarters < MaxQuarters
  /\ mishaps' = [mishaps EXCEPT !.quarters = @ + 1] /\ recent' = {}
  /\ UNCHANGED <<kinds, phase, used, stored, mark, todo>>

NightStep == \E k \in kinds : StopsEarly(k) \/ StockDone(k) \/ RowFilled(k) \/ StockFails(k) \/ QuotaEnds(k)
BackfillNext ==
  \/ NightFalls \/ NightStep \/ ReportStored \/ DayBreaks
  \/ (\E k \in kinds : TakenForNoData(k)) \/ ServerStops \/ PageAsks \/ RevenueAges

\* The scheduler fires every night, and a night that began goes on.
BackfillFairness == WF_backfillVars(NightFalls) /\ WF_backfillVars(NightStep \/ ReportStored) /\ WF_backfillVars(DayBreaks)

---------------------------------------------------------------------------
(* Liveness.  The backfills complete: the turn of a stock that is not        *)
(* troubled comes, however the nights are cut short and whatever stands      *)
(* before it in the universe, as long as the troubled ones are fewer than a  *)
(* night's stocks.                                                           *)
EveryStockIsServed == \A s \in Stocks \ Troubled : <>(\A k \in kinds : s \in mark[k] \union HasOutput(k))

(* What report_ingest.py 412-413 says of its marks ("report_financials is    *)
(* written by this backfill alone, so a stock that has rows is a stock that  *)
(* was completed"): a marked stock has all its reports.                      *)
MarkedIsWhole == \A k \in kinds : \A s \in mark[k] : stored[k][s] = Reports

(* What _done_codes says (financials_backfill.py 348-350): a stock without   *)
(* revenue of the last half year is not done.                                *)
LeftOutIsRecent ==
  phase = "night" /\ "financials" \in kinds =>
    \A s \in Stocks : s \in Done("financials") => s \in recent
=============================================================================
