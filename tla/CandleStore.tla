---------------------------- MODULE CandleStore ----------------------------
(***************************************************************************)
(* The daily bars of one stock: candle_ingest.py, candle_service.py and    *)
(* trend.py of services.  Four writers fetch from the market and upsert    *)
(* what they fetched in a step of its own: the evening batch, the cycle    *)
(* that runs while the market is open, the refresh behind a page, and the  *)
(* nightly ten years' backfill.  A bar has the adjustment generation it    *)
(* was fetched in (a split rewrites every past price) and is final, or     *)
(* still forming.                                                          *)
(***************************************************************************)
EXTENDS Integers, FiniteSets, Functions

CONSTANTS
  MaxDay,      \* the last day of a run
  MaxSplits,   \* corporate actions
  Window,      \* days the cycle asks for (_INTRADAY_DAY_RANGE_DAYS)
  Overlap,     \* days before the last but one bar the evening asks for
  MaxOutage,   \* days in a row no writer stores anything
  NoBars

ASSUME CandleAssumption ==
  /\ {MaxDay, MaxSplits, Window, Overlap, MaxOutage} \subseteq Nat
  /\ Window > MaxOutage /\ MaxDay > 0

Writers == {"evening", "cycle", "page", "backfill"}
Days == 0..MaxDay

VARIABLES
  today, open,  \* the calendar; the market is open or has closed
  splits,       \* corporate actions so far
  bars,         \* day -> [gen, final], over the days price_candles has
  job,          \* writer -> the bars it fetched and has not stored, or NoBars
  restated,     \* the evening found a corporate action: it deletes and reloads
  verified,     \* the evening of this day has dealt with the stock
  marked,       \* sync_state backfill_10y
  half,         \* the 30-minute bars: none, the recent ones, two weeks
  silent,       \* days since something was stored
  trend,        \* trend_cache: the day it is labelled with, the one it saw
  seen          \* the newest day a computation of the trend has read, or -1

candleVars == <<today, open, splits, bars, job, restated, verified, marked, half, silent, trend, seen>>

NoTrend == [asOf |-> -1, upTo |-> -1]
Stored == DOMAIN bars
MaxOf(S) == CHOOSE d \in S : \A e \in S : e <= d
Newest == IF Stored = {} THEN -1 ELSE MaxOf(Stored)          \* latest_bar_date
LastButOne == IF Cardinality(Stored) < 2 THEN Newest ELSE MaxOf(Stored \ {Newest})

CandleInit ==
  /\ today = 1 /\ open = TRUE /\ splits = 0
  /\ bars = [d \in 0..0 |-> [gen |-> 0, final |-> TRUE]]
  /\ job = [w \in Writers |-> NoBars]
  /\ restated = FALSE /\ verified = FALSE /\ marked = FALSE
  /\ half = "none" /\ silent = 0
  /\ trend = NoTrend /\ seen = -1

CandlesTypeOK ==
  /\ today \in Days /\ open \in BOOLEAN /\ splits \in 0..MaxSplits
  /\ Stored \subseteq 0..today
  /\ \A d \in Stored : bars[d] \in [gen : 0..splits, final : BOOLEAN]
  /\ DOMAIN job = Writers
  /\ {restated, verified, marked} \subseteq BOOLEAN
  /\ half \in {"none", "recent", "fortnight"}
  /\ trend \in [asOf : -1..MaxDay, upTo : -1..MaxDay] /\ seen \in -1..MaxDay

---------------------------------------------------------------------------
\* What the market answers: every day in the range, in today's prices; today's
\* bar is forming while the market is open.
Quoted(from) == [d \in {e \in Days : from <= e /\ e <= today} |->
                   [gen |-> splits, final |-> (d < today \/ ~open)]]

\* ON CONFLICT DO UPDATE: what was fetched replaces what was stored.
Upsert(old, new) == [d \in DOMAIN old \union DOMAIN new |-> IF d \in DOMAIN new THEN new[d] ELSE old[d]]

Fetches(w, from) == job[w] = NoBars /\ job' = [job EXCEPT ![w] = Quoted(from)]
Stores(w) ==
  /\ job[w] # NoBars
  /\ bars' = Upsert(bars, job[w])
  /\ job' = [job EXCEPT ![w] = NoBars]
  /\ silent' = 0

\* fetch failed or answered nothing: the stock is skipped, the session rolled back.
Fails(w) ==
  /\ job[w] # NoBars
  /\ job' = [job EXCEPT ![w] = NoBars]
  /\ restated' = IF w = "evening" THEN FALSE ELSE restated
  /\ UNCHANGED <<today, open, splits, bars, verified, marked, half, silent, trend, seen>>

CorporateAction == \* _detect_corporate_action: the last but one bar is not as the market gives it now
  /\ Cardinality(Stored) >= 2
  /\ bars[LastButOne].gen # splits

\* Faulty variant: only what comes after the newest bar is asked for.
SeedOrIncremental_AfterNewest == IF Stored = {} THEN 0 ELSE Newest + 1

\* _seed_or_incremental: everything, or from a little before the last but one.
SeedOrIncremental == IF Stored = {} THEN 0 ELSE LastButOne - Overlap

\* run_candle_batch, one stock: without a corporate action it fetches the tail.
EveningTail ==
  /\ ~restated /\ ~CorporateAction
  /\ Fetches("evening", SeedOrIncremental)
  /\ UNCHANGED <<today, open, splits, bars, restated, verified, marked, half, silent, trend, seen>>

\* _reload_stock, _delete_all_candles: everything is deleted, and committed,
\* before anything is fetched again.
EveningDeletes ==
  /\ CorporateAction /\ job["evening"] = NoBars
  /\ bars' = <<>>
  /\ job' = [job EXCEPT !["evening"] = Quoted(0)]
  /\ restated' = TRUE /\ half' = "none"
  /\ UNCHANGED <<today, open, splits, verified, marked, silent, trend, seen>>

\* The bars are stored, then the 30-minute bars of the last days; the trend is
\* computed when every stock is done (scheduler, candle_batch).
EveningStores ==
  /\ Stores("evening")
  /\ restated' = FALSE /\ verified' = TRUE
  /\ half' = IF half = "none" THEN "recent" ELSE half
  /\ UNCHANGED <<today, open, splits, marked, trend, seen>>

\* refresh_today_day_candles: the last days of every stock, while the market is open.
CycleFetches ==
  /\ open /\ Fetches("cycle", today - Window)
  /\ UNCHANGED <<today, open, splits, bars, restated, verified, marked, half, silent, trend, seen>>
CycleStores ==
  /\ Stores("cycle")
  /\ UNCHANGED <<today, open, splits, restated, verified, marked, half, trend, seen>>

\* ensure_periodic on an empty store, refresh_periodic on a stale one: one at a
\* time for a stock; from the day before the newest bar.
PageSince == IF Stored = {} THEN 0 ELSE Newest - 1
PageFetches ==
  /\ Newest < today                                 \* is_stale, and not in _inflight
  /\ Fetches("page", PageSince)
  /\ UNCHANGED <<today, open, splits, bars, restated, verified, marked, half, silent, trend, seen>>
PageStores ==
  /\ Stores("page")
  /\ UNCHANGED <<today, open, splits, restated, verified, marked, half, trend, seen>>
PageHalfHours ==                                    \* refresh_intraday, read_intraday_or_fetch
  /\ half = "none" /\ half' = "recent"
  /\ UNCHANGED <<today, open, splits, bars, job, restated, verified, marked, silent, trend, seen>>

\* run_backfill_progressive: ten years, once.
BackfillFetches ==
  /\ ~marked /\ Fetches("backfill", 0)
  /\ UNCHANGED <<today, open, splits, bars, restated, verified, marked, half, silent, trend, seen>>
BackfillStores ==
  /\ Stores("backfill") /\ marked' = TRUE
  /\ UNCHANGED <<today, open, splits, restated, verified, half, trend, seen>>
BackfillFindsNothing ==                             \* empty twice: a new listing, or the market refuses
  /\ job["backfill"] # NoBars /\ marked' = TRUE
  /\ job' = [job EXCEPT !["backfill"] = NoBars]
  /\ UNCHANGED <<today, open, splits, bars, restated, verified, half, silent, trend, seen>>

\* backfill_intraday: a stock that has any 30-minute bar is passed over.
HalfHourBackfill ==
  /\ half = "none" /\ Stored # {} /\ half' = "fortnight"
  /\ UNCHANGED <<today, open, splits, bars, job, restated, verified, marked, silent, trend, seen>>

\* get_cached_trend finds nothing, or a label before the newest bar; the bars
\* are read, and some time later the result is stored.
TrendReads ==
  /\ seen = -1 /\ Stored # {} /\ (verified \/ trend.asOf < Newest)
  /\ seen' = Newest
  /\ UNCHANGED <<today, open, splits, bars, job, restated, verified, marked, half, silent, trend>>
TrendStores ==                                      \* store_trend: labelled with the newest bar of NOW
  /\ seen # -1 /\ seen' = -1
  /\ trend' = IF Stored = {} THEN trend ELSE [asOf |-> Newest, upTo |-> seen]
  /\ UNCHANGED <<today, open, splits, bars, job, restated, verified, marked, half, silent>>

MarketCloses ==
  /\ open /\ open' = FALSE
  /\ UNCHANGED <<today, splits, bars, job, restated, verified, marked, half, silent, trend, seen>>

\* The next day: nothing that began is still running; a corporate action may
\* have rewritten the past.
NextDay ==
  /\ ~open /\ today < MaxDay /\ silent < MaxOutage
  /\ \A w \in Writers : job[w] = NoBars
  /\ seen = -1
  /\ today' = today + 1 /\ open' = TRUE /\ verified' = FALSE /\ silent' = silent + 1
  /\ \E n \in {splits, splits + 1} : n <= MaxSplits /\ splits' = n
  /\ UNCHANGED <<bars, job, restated, marked, half, trend, seen>>

CandleNext ==
  \/ \E w \in Writers : Fails(w)
  \/ EveningTail \/ EveningDeletes \/ EveningStores
  \/ CycleFetches \/ CycleStores
  \/ PageFetches \/ PageStores \/ PageHalfHours
  \/ BackfillFetches \/ BackfillStores \/ BackfillFindsNothing \/ HalfHourBackfill
  \/ TrendReads \/ TrendStores
  \/ MarketCloses \/ NextDay

---------------------------------------------------------------------------
(* Safety.  The stored days have no hole, and only the newest bar may be one *)
(* that was still forming when it was fetched: whatever the four writers     *)
(* interleave, fail or delete, the next writer's range reaches back far      *)
(* enough (incremental from the last but one, the page from the newest less  *)
(* one, the cycle's seven days).                                             *)
HistoryIsSound ==
  /\ \A a, b \in Stored : a..b \subseteq Stored
  /\ \A d \in Stored : d < Newest => bars[d].final

(* What candle_ingest.py 9-10 and the comment before refresh_today_day_candles *)
(* say of the evening: once it has dealt with the stock every bar is in the    *)
(* prices of today, for a rewritten past is noticed at the last but one bar.   *)
AdjustedTogether == verified => \A d \in Stored : bars[d].gen = splits

(* After a reload that failed, the next writer brings the whole past back. *)
HistoryIsWhole == verified => 0 \in Stored

(* The trend of a day has been computed from the bars of that day. *)
TrendIsOfItsDay == trend.asOf = trend.upTo
=============================================================================
