-------------------------- MODULE UniverseSnapshot --------------------------
(***************************************************************************)
(* The table the screener reads: one row per stock and day, made by        *)
(* snapshot_universe and completed by the RS batch (rs_rating_ingest), the *)
(* growth batch (growth_ingest) and, for the United States, by the candle  *)
(* backfill (us_universe_ingest).  The scheduler runs them as three jobs:  *)
(* the cycle while the market is open, the nightly batch, and the evening  *)
(* batch; each may still run when the next begins.                         *)
(***************************************************************************)
EXTENDS Integers, Sequences, FiniteSets

CONSTANTS
  Stocks,
  MaxDate,     \* the last day of a run
  MaxBatches,  \* computations of the rating
  NoRow        \* a stock without a row on a day, a column without a value

ASSUME UniverseAssumption ==
  /\ MaxDate \in Nat /\ MaxBatches \in Nat /\ NoRow \notin Nat
  /\ \A r \in [rs : 1..MaxBatches \union {NoRow}, momentum : {NoRow, "bars", "market"}] : r # NoRow

Rounds == {"cycle", "nightly", "evening"}
Dates == 1..MaxDate

VARIABLES
  date,     \* the day
  universe,    \* day -> stock -> the row, or NoRow: [rs, momentum], the computation of the
            \*   rating, and whose the momentum is (our bars', or the market's)
  round,    \* job -> what it does now and for which day: [step, of, rates, left]
  batches   \* the computations of the rating so far: the stocks each has rated

universeVars == <<date, universe, round, batches>>

AtRest == [step |-> "rest", of |-> NoRow, rates |-> NoRow, left |-> {}]
Blank == [rs |-> NoRow, momentum |-> NoRow]

UniverseInit ==
  /\ date = 1 /\ batches = <<>>
  /\ universe = [d \in Dates |-> [s \in Stocks |-> NoRow]]
  /\ round = [j \in Rounds |-> AtRest]

HasRows(d) == \E s \in Stocks : universe[d][s] # NoRow
\* latest_snapshot_date
LatestDate == IF \E d \in Dates : HasRows(d) THEN CHOOSE d \in Dates : HasRows(d) /\ \A e \in Dates : HasRows(e) => e <= d ELSE NoRow
RatingOf(d, s) == IF universe[d][s] = NoRow THEN NoRow ELSE universe[d][s].rs
\* _universe_codes: the ordinary stocks of a day that have a market capitalisation
CodesOf(d) == {s \in Stocks : universe[d][s] # NoRow}

Goes(j, s) == round' = [round EXCEPT ![j] = s]

\* run_intraday_refresh, run_nightly_batch and run_candle_batch of the scheduler:
\* the first two make today's snapshot, the cycle and the evening rate the latest one.
Begins(j) ==
  /\ round[j].step = "rest"
  /\ Goes(j, [AtRest EXCEPT !.step = IF j = "evening" THEN "rate" ELSE "snapshot", !.of = date])
  /\ UNCHANGED <<date, universe, batches>>

\* snapshot_universe: an upsert of the market's columns; what was derived stays.
\* The market may leave a stock out.
TakesSnapshot(j) ==
  /\ round[j].step = "snapshot"
  /\ \E listed \in SUBSET Stocks :
       universe' = [universe EXCEPT ![round[j].of] = [s \in Stocks |->
                   IF s \in listed /\ @[s] = NoRow THEN Blank ELSE @[s]]]
  /\ Goes(j, [round[j] EXCEPT !.step = IF j = "cycle" THEN "rate" ELSE "grow"])
  /\ UNCHANGED <<date, batches>>

\* run_rs_rating_batch: the latest day is read once, and every bar; a stock
\* with a short history has no factor.
Rates(j) ==
  /\ round[j].step = "rate" /\ LatestDate # NoRow /\ Len(batches) < MaxBatches
  /\ \E rated \in SUBSET CodesOf(LatestDate) :
       /\ batches' = Append(batches, rated)
       /\ Goes(j, [round[j] EXCEPT !.step = "store", !.of = LatestDate, !.rates = Len(batches) + 1, !.left = rated])
  /\ UNCHANGED <<date, universe>>

Rated(d, stocks, n, alsoMomentum) ==
  [universe EXCEPT ![d] = [s \in Stocks |->
     IF s \notin stocks THEN @[s]
     ELSE [rs |-> n, momentum |-> IF alsoMomentum THEN "bars" ELSE @[s].momentum]]]

\* Faulty variant: a stock at a time, each with its own commit, as the growth batch does.
StoresRatings_OneByOne(j) ==
  /\ round[j].step = "store"
  /\ \/ /\ round[j].left = {} /\ Goes(j, AtRest) /\ universe' = universe
     \/ \E s \in round[j].left :
          /\ universe' = Rated(round[j].of, {s}, round[j].rates, j = "cycle")
          /\ Goes(j, [round[j] EXCEPT !.left = @ \ {s}])
  /\ UNCHANGED <<date, batches>>

\* ... and every rating is stored in one transaction.
StoresRatings(j) ==
  /\ round[j].step = "store"
  /\ universe' = Rated(round[j].of, round[j].left, round[j].rates, j = "cycle")
  /\ Goes(j, AtRest)
  /\ UNCHANGED <<date, batches>>

\* run_growth_batch: the stocks of the latest day, each with its own commit
\* (_ingest_one, which also stores the growth metric).
GrowthBegins ==
  /\ round["nightly"].step = "grow" /\ LatestDate # NoRow
  /\ Goes("nightly", [round["nightly"] EXCEPT !.step = "growing", !.of = LatestDate, !.left = CodesOf(LatestDate)])
  /\ UNCHANGED <<date, universe, batches>>
GrowthTakes(s) ==
  /\ round["nightly"].step = "growing" /\ s \in round["nightly"].left
  /\ \/ universe' = [universe EXCEPT ![round["nightly"].of][s].momentum = "market"]
     \/ universe' = universe                        \* the history is short, or an error
  /\ Goes("nightly", [round["nightly"] EXCEPT !.left = @ \ {s}])
  /\ UNCHANGED <<date, batches>>
GrowthEnds ==
  /\ round["nightly"].step = "growing" /\ round["nightly"].left = {}
  /\ Goes("nightly", AtRest)
  /\ UNCHANGED <<date, universe, batches>>

\* The job raises, or the server is stopped: what is not committed is lost.
JobBreaks(j) ==
  /\ round[j].step # "rest" /\ Goes(j, AtRest)
  /\ UNCHANGED <<date, universe, batches>>

NewDate ==
  /\ date < MaxDate /\ date' = date + 1
  /\ UNCHANGED <<universe, round, batches>>

UniverseNext ==
  \/ \E j \in Rounds : Begins(j) \/ TakesSnapshot(j) \/ Rates(j) \/ StoresRatings(j) \/ JobBreaks(j)
  \/ GrowthBegins \/ GrowthEnds
  \/ \E s \in Stocks : GrowthTakes(s)
  \/ NewDate

---------------------------------------------------------------------------
(* Safety.  A rating says where a stock stands among the others, so ratings  *)
(* shown side by side come from one computation, as far as they can: of two  *)
(* stocks that two computations have both rated, one is not shown with its   *)
(* rating of the first and the other with its rating of the second, whatever *)
(* the order the jobs store them in and wherever one is stopped.             *)
OneCrossSection ==
  \A d \in Dates, s, t \in Stocks :
    LET m == RatingOf(d, s)  n == RatingOf(d, t)
    IN  m # NoRow /\ n # NoRow /\ m # n => ~ ({s, t} \subseteq batches[m] \intersect batches[n])
=============================================================================
