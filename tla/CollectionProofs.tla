--------------------------- MODULE CollectionProofs ---------------------------
(***************************************************************************)
(* Proofs about what the nightly and daily jobs collect, for any number of *)
(* days, stocks, messages, runs and articles.                              *)
(***************************************************************************)
EXTENDS CandleStore, UniverseSnapshot, Disclosures, Broadcasts, MarketCalendar, NewsEvents, FiniteSetTheorems, SequenceTheorems, TLAPS

-----------------------------------------------------------------------------
(* The daily bars.                                                         *)
BarRows(n) == [gen : 0..n, final : BOOLEAN]

\* Bars are rows, and those before another are final.
BarsOK(b, n) == \A d \in DOMAIN b : b[d] \in BarRows(n) /\ \A e \in DOMAIN b : d < e => b[d].final
\* The days have no hole and end at most so many days ago.
SpanOK(S, t, s) == S = {} \/ \E lo \in Nat, hi \in Nat : lo <= hi /\ hi <= t /\ t <= hi + s + 1 /\ S = lo..hi
\* What a writer has fetched ends today, is final but for today, and reaches back to a day that is stored.
IsTail(f, S, t, n) ==
  f # NoBars =>
    /\ \A d \in DOMAIN f : f[d] \in BarRows(n) /\ (d < t => f[d].final)
    /\ \E from \in Int : /\ from <= t /\ DOMAIN f = {e \in 0..t : from <= e}
                         /\ S = {} \/ \E e \in S : from <= e

CandleInv ==
  /\ today \in 0..MaxDay /\ open \in BOOLEAN /\ splits \in 0..MaxSplits /\ silent \in 0..MaxOutage
  /\ BarsOK(bars, splits)
  /\ SpanOK(Stored, today, silent)
  /\ DOMAIN job = Writers /\ \A w \in Writers : IsTail(job[w], Stored, today, splits)
  /\ {restated, verified, marked} \subseteq BOOLEAN
  /\ half \in {"none", "recent", "fortnight"}
  /\ trend \in [asOf : -1..MaxDay, upTo : -1..MaxDay] /\ seen \in -1..MaxDay

\* A fetch that is stored leaves no hole and closes every bar but the newest.
LEMMA UpsertKeeps ==
  ASSUME NEW b, NEW f, NEW t \in Nat, NEW s \in Nat, NEW n \in Nat,
         BarsOK(b, n), SpanOK(DOMAIN b, t, s), IsTail(f, DOMAIN b, t, n), f # NoBars,
         NEW u, u = Upsert(b, f)
  PROVE  BarsOK(u, n) /\ SpanOK(DOMAIN u, t, 0) /\ DOMAIN b \subseteq DOMAIN u
<1>1. /\ DOMAIN u = DOMAIN b \union DOMAIN f
      /\ \A d \in DOMAIN f : u[d] = f[d]
      /\ \A d \in DOMAIN b : d \notin DOMAIN f => u[d] = b[d]
  BY DEF Upsert
<1>2. PICK from \in Int : /\ from <= t /\ DOMAIN f = {e \in 0..t : from <= e}
                          /\ DOMAIN b = {} \/ \E e \in DOMAIN b : from <= e
  BY DEF IsTail
<1>3. \A d \in DOMAIN f : f[d] \in BarRows(n) /\ (d < t => f[d].final)
  BY DEF IsTail
<1>4. \A d \in DOMAIN b : d \in Nat /\ d <= t
  BY DEF SpanOK
<1> DEFINE first == IF from < 0 THEN 0 ELSE from
<1>5. first \in Nat /\ first <= t /\ DOMAIN f = first..t
  BY <1>2
<1>6. SpanOK(DOMAIN u, t, 0)
  <2>1. CASE DOMAIN b = {}
    BY <1>1, <1>5, <2>1 DEF SpanOK
  <2>2. CASE DOMAIN b # {}
    <3>1. PICK lo \in Nat, hi \in Nat : lo <= hi /\ hi <= t /\ DOMAIN b = lo..hi
      BY <2>2 DEF SpanOK
    <3>2. first <= hi
      BY <1>2, <2>2, <3>1
    <3> DEFINE low == IF lo < first THEN lo ELSE first
    <3>3. low \in Nat /\ low <= t /\ DOMAIN u = low..t
      BY <1>1, <1>5, <3>1, <3>2
    <3> QED BY <3>3 DEF SpanOK
  <2> QED BY <2>1, <2>2
<1>7. ASSUME NEW d \in DOMAIN u PROVE u[d] \in BarRows(n) /\ \A e \in DOMAIN u : d < e => u[d].final
  <2>1. CASE d \in DOMAIN f
    <3>1. \A e \in DOMAIN u : e <= t /\ e \in Nat
      BY <1>1, <1>2, <1>4
    <3>2. d \in Nat
      BY <1>5, <2>1
    <3> HIDE <1>2, <1>5
    <3> QED BY <1>1, <1>3, <2>1, <3>1, <3>2
  <2>2. CASE d \notin DOMAIN f
    <3>1. d \in DOMAIN b /\ u[d] = b[d]
      BY <1>1, <2>2
    <3>2. PICK e \in DOMAIN b : d < e
      BY <1>2, <1>4, <2>2, <3>1
    <3> QED BY <3>1, <3>2 DEF BarsOK
  <2> QED BY <2>1, <2>2
<1> QED BY <1>1, <1>6, <1>7 DEF BarsOK

\* The newest day of a span.
LEMMA NewestOfSpan ==
  ASSUME NEW lo \in Nat, NEW hi \in Nat, lo <= hi
  PROVE  MaxOf(lo..hi) = hi
BY DEF MaxOf

LEMMA NewestFacts ==
  ASSUME CandleInv
  PROVE  /\ Stored = {} => Newest = -1
         /\ Stored # {} => Newest \in Stored /\ LastButOne \in Stored /\ today <= Newest + silent + 1
         /\ Newest \in -1..MaxDay
         /\ Stored \subseteq 0..today
         /\ \A d \in Stored : d <= Newest
<1>1. today \in Nat /\ silent \in Nat /\ MaxDay \in Nat /\ today <= MaxDay
  BY CandleAssumption DEF CandleInv
<1>2. CASE Stored = {}
  BY <1>1, <1>2 DEF Newest
<1>3. CASE Stored # {}
  <2>1. PICK lo \in Nat, hi \in Nat : lo <= hi /\ hi <= today /\ today <= hi + silent + 1 /\ Stored = lo..hi
    BY <1>3 DEF CandleInv, SpanOK
  <2>2. Newest = hi
    BY <1>3, <2>1, NewestOfSpan DEF Newest
  <2>3. LastButOne \in Stored
    <3>1. CASE lo = hi
      <4>1. Stored = {hi}
        BY <2>1, <3>1
      <4>2. Cardinality(Stored) = 1
        BY <4>1, FS_Singleton
      <4> QED BY <2>1, <2>2, <4>2 DEF LastButOne
    <3>2. CASE lo # hi
      <4>1. Stored \ {hi} = lo..(hi - 1) /\ hi - 1 \in Nat /\ lo <= hi - 1
        BY <2>1, <3>2
      <4>2. MaxOf(Stored \ {hi}) = hi - 1
        BY <4>1, NewestOfSpan
      <4> QED BY <2>1, <2>2, <4>1, <4>2 DEF LastButOne
    <3> QED BY <3>1, <3>2
  <2> QED BY <1>1, <1>3, <2>1, <2>2, <2>3
<1> QED BY <1>2, <1>3


LEMMA InitCandleInv ==
  ASSUME CandleInit
  PROVE  CandleInv
<1>1. MaxDay \in Nat \ {0} /\ MaxSplits \in Nat /\ MaxOutage \in Nat
  BY CandleAssumption
<1>2. today = 1 /\ open = TRUE /\ splits = 0 /\ silent = 0 /\ bars = [d \in 0..0 |-> [gen |-> 0, final |-> TRUE]]
  BY DEF CandleInit
<1>3. Stored = 0..0 /\ \A d \in Stored : d = 0 /\ bars[d] = [gen |-> 0, final |-> TRUE]
  BY <1>2 DEF Stored
<1>4. BarsOK(bars, 0)
  <2>1. 0 \in 0..0 /\ TRUE \in BOOLEAN
    OBVIOUS
  <2>2. [gen |-> 0, final |-> TRUE] \in BarRows(0)
    BY <2>1, Zenon DEF BarRows
  <2>3. [gen |-> 0, final |-> TRUE].final
    OBVIOUS
  <2> QED BY <1>3, <2>2, <2>3 DEF BarsOK, Stored
<1>5. SpanOK(Stored, 1, 0)
  <2>1. 0 \in Nat /\ 0 <= 0 /\ 0 <= 1 /\ 1 <= 0 + 0 + 1
    OBVIOUS
  <2> QED BY <1>3, <2>1 DEF SpanOK
<1>6. DOMAIN job = Writers /\ \A w \in Writers : IsTail(job[w], Stored, today, splits)
  <2>1. job = [w \in Writers |-> NoBars]
    BY DEF CandleInit
  <2> QED BY <2>1 DEF IsTail
<1>7. trend \in [asOf : -1..MaxDay, upTo : -1..MaxDay] /\ seen \in -1..MaxDay
  BY <1>1 DEF CandleInit, NoTrend
<1>8. {restated, verified, marked} \subseteq BOOLEAN /\ half \in {"none", "recent", "fortnight"}
  BY DEF CandleInit
<1>9. 1 \in 0..MaxDay /\ 0 \in 0..MaxSplits /\ 0 \in 0..MaxOutage /\ TRUE \in BOOLEAN
  BY <1>1
<1> HIDE DEF IsTail, SpanOK, BarsOK
<1> QED BY <1>1, <1>2, <1>4, <1>5, <1>6, <1>7, <1>8, <1>9 DEF CandleInv

\* What the market answers from a day that is not past what is stored.
LEMMA QuotedIsTail ==
  ASSUME CandleInv, NEW from \in Int, from <= today, Stored = {} \/ \E e \in Stored : from <= e
  PROVE  IsTail(Quoted(from), Stored, today, splits)
<1>1. MaxDay \in Nat /\ today \in 0..MaxDay /\ splits \in Nat /\ open \in BOOLEAN
  BY CandleAssumption DEF CandleInv
<1> DEFINE f == Quoted(from)
<1>2. DOMAIN f = {e \in 0..today : from <= e}
  BY <1>1 DEF Quoted, Days
<1>3. \A d \in DOMAIN f : f[d] = [gen |-> splits, final |-> (d < today \/ ~open)]
  BY DEF Quoted
<1>4. ASSUME NEW d \in DOMAIN f PROVE f[d] \in BarRows(splits) /\ (d < today => f[d].final)
  <2>1. splits \in 0..splits /\ (d < today \/ ~open) \in BOOLEAN
    BY <1>1
  <2>2. PICK x \in BOOLEAN : x = (d < today \/ ~open)
    BY <2>1
  <2>3. f[d] = [gen |-> splits, final |-> x]
    BY <1>3, <1>4, <2>2
  <2>4. [gen |-> splits, final |-> x] \in BarRows(splits)
    BY <2>1, <2>2, Zenon DEF BarRows
  <2>5. [gen |-> splits, final |-> x].final = x
    OBVIOUS
  <2> HIDE DEF f
  <2> QED BY <2>2, <2>3, <2>4, <2>5
<1> QED BY <1>2, <1>4 DEF IsTail

\* A writer fetches, and the bars stay as they are.
LEMMA FetchKeeps ==
  ASSUME CandleInv, NEW w \in Writers, NEW from \in Int, from <= today, Stored = {} \/ \E e \in Stored : from <= e,
         Fetches(w, from), UNCHANGED <<today, open, splits, bars, restated, verified, marked, half, silent, trend, seen>>
  PROVE  CandleInv'
<1>1. job' = [job EXCEPT ![w] = Quoted(from)]
  BY DEF Fetches
<1>2. PICK f : f = Quoted(from) /\ IsTail(f, Stored, today, splits)
  BY QuotedIsTail
<1>3. DOMAIN job' = Writers /\ \A v \in Writers : IsTail(job'[v], Stored, today, splits)
  BY <1>1, <1>2 DEF CandleInv
<1>4. Stored' = Stored
  BY DEF Stored
<1> HIDE DEF IsTail, SpanOK, BarsOK
<1> QED BY <1>3, <1>4 DEF CandleInv

LEMMA FetchCandleInv ==
  ASSUME CandleInv, EveningTail \/ CycleFetches \/ PageFetches \/ BackfillFetches
  PROVE  CandleInv'
<1>1. /\ MaxDay \in Nat /\ today \in Nat /\ today <= MaxDay /\ silent \in Nat /\ silent <= MaxOutage
      /\ {Window, Overlap, MaxOutage} \subseteq Nat /\ Window > MaxOutage
  BY CandleAssumption DEF CandleInv
<1>2. /\ Stored = {} => Newest = -1
      /\ Stored # {} => Newest \in Stored /\ LastButOne \in Stored /\ today <= Newest + silent + 1
      /\ Stored \subseteq 0..today
  BY NewestFacts
<1>3. CASE EveningTail
  <2>1. SeedOrIncremental \in Int /\ SeedOrIncremental <= today /\ (Stored = {} \/ \E e \in Stored : SeedOrIncremental <= e)
    <3>1. CASE Stored = {}
      BY <1>1, <3>1 DEF SeedOrIncremental
    <3>2. CASE Stored # {}
      <4>1. SeedOrIncremental = LastButOne - Overlap /\ LastButOne \in 0..today
        BY <1>2, <3>2 DEF SeedOrIncremental
      <4> QED BY <1>1, <1>2, <3>2, <4>1
    <3> QED BY <3>1, <3>2
  <2>2. "evening" \in Writers
    BY DEF Writers
  <2> QED BY <1>3, <2>1, <2>2, FetchKeeps DEF EveningTail
<1>4. CASE CycleFetches
  <2>1. today - Window \in Int /\ today - Window <= today /\ (Stored = {} \/ \E e \in Stored : today - Window <= e)
    <3>1. ASSUME Stored # {} PROVE Newest \in 0..today /\ Newest \in Stored /\ today - Window <= Newest
      <4>1. Newest \in 0..today /\ Newest \in Stored /\ today <= Newest + silent + 1
        BY <1>2, <3>1
      <4> QED BY <1>1, <4>1
    <3> QED BY <1>1, <3>1
  <2>2. "cycle" \in Writers
    BY DEF Writers
  <2> QED BY <1>4, <2>1, <2>2, FetchKeeps DEF CycleFetches
<1>5. CASE PageFetches
  <2>1. PageSince \in Int /\ PageSince <= today /\ (Stored = {} \/ \E e \in Stored : PageSince <= e)
    <3>1. CASE Stored = {}
      BY <1>1, <3>1 DEF PageSince
    <3>2. CASE Stored # {}
      <4>1. PageSince = Newest - 1 /\ Newest \in 0..today /\ Newest \in Stored
        BY <1>2, <3>2 DEF PageSince
      <4> QED BY <1>1, <4>1
    <3> QED BY <3>1, <3>2
  <2>2. "page" \in Writers
    BY DEF Writers
  <2> QED BY <1>5, <2>1, <2>2, FetchKeeps DEF PageFetches
<1>6. CASE BackfillFetches
  <2>1. Stored = {} \/ \E e \in Stored : 0 <= e
    BY <1>1, <1>2
  <2>2. "backfill" \in Writers
    BY DEF Writers
  <2> QED BY <1>1, <1>6, <2>1, <2>2, FetchKeeps DEF BackfillFetches
<1> QED BY <1>3, <1>4, <1>5, <1>6

\* A writer stores what it has fetched; the others' reach no less far back.
LEMMA StoreKeeps ==
  ASSUME CandleInv, NEW w \in Writers, Stores(w), UNCHANGED <<today, open, splits>>
  PROVE  /\ BarsOK(bars', splits') /\ SpanOK(Stored', today', silent')
         /\ DOMAIN job' = Writers /\ \A v \in Writers : IsTail(job'[v], Stored', today', splits')
         /\ silent' \in 0..MaxOutage
<1>1. today \in Nat /\ splits \in Nat /\ silent \in Nat /\ MaxOutage \in Nat
  BY CandleAssumption DEF CandleInv
<1>2. PICK f : f = job[w] /\ f # NoBars /\ IsTail(f, Stored, today, splits)
  BY DEF CandleInv, Stores
<1>3. PICK u : u = Upsert(bars, f) /\ bars' = u
  BY <1>2 DEF Stores
<1>4. BarsOK(u, splits) /\ SpanOK(DOMAIN u, today, 0) /\ Stored \subseteq DOMAIN u
  BY <1>1, <1>2, <1>3, UpsertKeeps DEF CandleInv, Stored
<1>5. Stored' = DOMAIN u
  BY <1>3 DEF Stored
<1>6. silent' = 0 /\ job' = [job EXCEPT ![w] = NoBars]
  BY DEF Stores
<1>7. \A v \in Writers : IsTail(job[v], DOMAIN u, today, splits)
  <2>1. today \in DOMAIN u
    <3>1. today \in DOMAIN f
      BY <1>1, <1>2 DEF IsTail
    <3> QED BY <1>3, <3>1 DEF Upsert
  <2> SUFFICES ASSUME NEW v \in Writers, job[v] # NoBars,
                      IsTail(job[v], Stored, today, splits)
               PROVE  IsTail(job[v], DOMAIN u, today, splits)
    BY DEF CandleInv, IsTail
  <2> QED BY <1>4, <2>1 DEF IsTail
<1>8. \A S : IsTail(NoBars, S, today, splits)
  BY DEF IsTail
<1> HIDE DEF IsTail, SpanOK, BarsOK
<1>9. DOMAIN job' = Writers /\ \A v \in Writers : IsTail(job'[v], DOMAIN u, today, splits)
  BY <1>6, <1>7, <1>8 DEF CandleInv
<1> QED BY <1>1, <1>3, <1>4, <1>5, <1>6, <1>9

LEMMA StoreCandleInv ==
  ASSUME CandleInv, EveningStores \/ CycleStores \/ PageStores \/ BackfillStores
  PROVE  CandleInv'
<1> HIDE DEF IsTail, SpanOK, BarsOK
<1>1. PICK w \in Writers : Stores(w)
  BY DEF EveningStores, CycleStores, PageStores, BackfillStores, Writers
<1>2. UNCHANGED <<today, open, splits, trend, seen>>
  BY DEF EveningStores, CycleStores, PageStores, BackfillStores
<1>3. {restated', verified', marked'} \subseteq BOOLEAN /\ half' \in {"none", "recent", "fortnight"}
  BY DEF CandleInv, EveningStores, CycleStores, PageStores, BackfillStores
<1>4. /\ BarsOK(bars', splits') /\ SpanOK(Stored', today', silent')
      /\ DOMAIN job' = Writers /\ \A v \in Writers : IsTail(job'[v], Stored', today', splits')
      /\ silent' \in 0..MaxOutage
  BY <1>1, <1>2, StoreKeeps
<1> QED BY <1>2, <1>3, <1>4 DEF CandleInv

\* The store is emptied; whatever the others have fetched may come back to it.
LEMMA DeleteKeeps ==
  ASSUME CandleInv, EveningDeletes
  PROVE  CandleInv'
<1>1. today \in 0..MaxDay /\ splits \in Nat /\ open \in BOOLEAN /\ MaxDay \in Nat
  BY CandleAssumption DEF CandleInv
<1>2. /\ bars' = <<>> /\ job' = [job EXCEPT !["evening"] = Quoted(0)]
      /\ restated' = TRUE /\ half' = "none"
      /\ UNCHANGED <<today, open, splits, verified, marked, silent, trend, seen>>
  BY DEF EveningDeletes
<1>3. Stored' = {}
  BY <1>2 DEF Stored
<1>4. BarsOK(bars', splits) /\ SpanOK(Stored', today, silent)
  <2>1. DOMAIN bars' = {}
    BY <1>2
  <2> QED BY <1>3, <2>1 DEF BarsOK, SpanOK
<1>5. \A f : IsTail(f, Stored, today, splits) => IsTail(f, {}, today, splits)
  BY DEF IsTail
<1>6. PICK f : f = Quoted(0) /\ IsTail(f, {}, today, splits)
  <2>1. CASE Stored = {}
    BY <1>1, <2>1, QuotedIsTail
  <2>2. CASE Stored # {}
    <3>1. \E e \in Stored : 0 <= e
      BY <1>1, <2>2, NewestFacts
    <3>2. IsTail(Quoted(0), Stored, today, splits)
      BY <1>1, <3>1, QuotedIsTail
    <3> HIDE DEF IsTail
    <3> QED BY <1>5, <3>2
  <2> QED BY <2>1, <2>2
<1> HIDE DEF IsTail, SpanOK, BarsOK
<1>7. DOMAIN job' = Writers /\ \A v \in Writers : IsTail(job'[v], {}, today, splits)
  BY <1>2, <1>5, <1>6 DEF CandleInv
<1>8. {restated', verified', marked'} \subseteq BOOLEAN /\ half' \in {"none", "recent", "fortnight"}
  BY <1>2 DEF CandleInv
<1> QED BY <1>2, <1>3, <1>4, <1>7, <1>8 DEF CandleInv

\* What leaves the bars and the calendar alone, and only frees writers.
LEMMA QuietKeeps ==
  ASSUME CandleInv,
         \/ \E w \in Writers : Fails(w)
         \/ PageHalfHours \/ BackfillFindsNothing \/ HalfHourBackfill \/ TrendReads \/ TrendStores
         \/ MarketCloses \/ UNCHANGED candleVars
  PROVE  CandleInv'
<1> HIDE DEF IsTail, SpanOK, BarsOK
<1>1. UNCHANGED <<today, splits, bars, silent>>
  BY DEF Fails, PageHalfHours, BackfillFindsNothing, HalfHourBackfill, TrendReads, TrendStores, MarketCloses, candleVars
<1>2. Stored' = Stored
  BY <1>1 DEF Stored
<1>3. open' \in BOOLEAN
  BY DEF CandleInv, Fails, PageHalfHours, BackfillFindsNothing, HalfHourBackfill, TrendReads, TrendStores, MarketCloses, candleVars
<1>4. DOMAIN job' = Writers /\ \A v \in Writers : job'[v] \in {job[v], NoBars}
  BY DEF CandleInv, Fails, PageHalfHours, BackfillFindsNothing, HalfHourBackfill, TrendReads, TrendStores, MarketCloses, candleVars
<1>5. IsTail(NoBars, Stored, today, splits)
  BY DEF IsTail
<1>6. \A v \in Writers : IsTail(job'[v], Stored, today, splits)
  BY <1>4, <1>5 DEF CandleInv
<1>7. {restated', verified', marked'} \subseteq BOOLEAN /\ half' \in {"none", "recent", "fortnight"}
  BY DEF CandleInv, Fails, PageHalfHours, BackfillFindsNothing, HalfHourBackfill, TrendReads, TrendStores, MarketCloses, candleVars
<1>8. trend' \in [asOf : -1..MaxDay, upTo : -1..MaxDay] /\ seen' \in -1..MaxDay
  <2>1. Newest \in -1..MaxDay /\ -1 \in -1..MaxDay
    BY NewestFacts, CandleAssumption
  <2>2. CASE TrendReads
    BY <2>1, <2>2 DEF TrendReads, CandleInv
  <2>3. CASE TrendStores
    BY <2>1, <2>3 DEF TrendStores, CandleInv
  <2>4. CASE trend' = trend /\ seen' = seen
    BY <2>4 DEF CandleInv
  <2> QED BY <2>2, <2>3, <2>4 DEF Fails, PageHalfHours, BackfillFindsNothing, HalfHourBackfill, MarketCloses, candleVars
<1> QED BY <1>1, <1>2, <1>3, <1>4, <1>6, <1>7, <1>8 DEF CandleInv

\* The next day nobody has anything fetched, and the newest bar is one day older.
LEMMA NextDayKeeps ==
  ASSUME CandleInv, NextDay
  PROVE  CandleInv'
<1>1. today \in Nat /\ MaxDay \in Nat /\ splits \in Nat /\ MaxSplits \in Nat /\ silent \in Nat /\ MaxOutage \in Nat
  BY CandleAssumption DEF CandleInv
<1>2. /\ today < MaxDay /\ silent < MaxOutage /\ today' = today + 1 /\ open' = TRUE /\ verified' = FALSE
      /\ silent' = silent + 1 /\ UNCHANGED <<bars, job, restated, marked, half, trend, seen>>
      /\ \A w \in Writers : job[w] = NoBars
  BY DEF NextDay
<1>3. PICK n \in Nat : splits' = n /\ splits <= n /\ n <= MaxSplits
  BY <1>1 DEF NextDay
<1>4. Stored' = Stored
  BY <1>2 DEF Stored
<1>5. SpanOK(Stored, today + 1, silent + 1)
  <2>1. CASE Stored = {}
    BY <2>1 DEF SpanOK
  <2>2. CASE Stored # {}
    <3>1. PICK lo \in Nat, hi \in Nat : lo <= hi /\ hi <= today /\ today <= hi + silent + 1 /\ Stored = lo..hi
      BY <2>2 DEF CandleInv, SpanOK
    <3>2. hi <= today + 1 /\ today + 1 <= hi + (silent + 1) + 1
      BY <1>1, <3>1
    <3> QED BY <3>1, <3>2 DEF SpanOK
  <2> QED BY <2>1, <2>2
<1>6. BarsOK(bars, n)
  <2>1. \A r \in BarRows(splits) : r \in BarRows(n)
    <3>1. 0..splits \subseteq 0..n
      BY <1>1, <1>3
    <3> QED BY <3>1 DEF BarRows
  <2> HIDE DEF BarRows
  <2> QED BY <2>1 DEF CandleInv, BarsOK
<1>7. \A v \in Writers : IsTail(job[v], Stored, today + 1, n)
  BY <1>2 DEF IsTail
<1> HIDE DEF IsTail, SpanOK, BarsOK
<1>8. today + 1 \in 0..MaxDay /\ n \in 0..MaxSplits /\ silent + 1 \in 0..MaxOutage
  BY <1>1, <1>2, <1>3
<1> QED BY <1>2, <1>3, <1>4, <1>5, <1>6, <1>7, <1>8 DEF CandleInv

LEMMA CandleInductive ==
  ASSUME CandleInv, [CandleNext]_candleVars
  PROVE  CandleInv'
BY FetchCandleInv, StoreCandleInv, DeleteKeeps, QuietKeeps, NextDayKeeps DEF CandleNext

LEMMA CandleInvGives ==
  ASSUME CandleInv
  PROVE  CandlesTypeOK /\ HistoryIsSound
<1>1. CandlesTypeOK
  <2>1. \A d \in Stored : bars[d] \in [gen : 0..splits, final : BOOLEAN]
    BY DEF CandleInv, BarsOK, BarRows, Stored
  <2>2. Stored \subseteq 0..today
    BY NewestFacts
  <2> HIDE DEF IsTail, SpanOK, BarsOK
  <2> QED BY <2>1, <2>2 DEF CandleInv, CandlesTypeOK, Days
<1>2. HistoryIsSound
  <2>1. \A a, b \in Stored : a..b \subseteq Stored
    BY DEF CandleInv, SpanOK
  <2>2. ASSUME NEW d \in Stored, d < Newest PROVE bars[d].final
    <3>1. Newest \in Stored
      BY <2>2, NewestFacts
    <3> QED BY <2>2, <3>1 DEF CandleInv, BarsOK, Stored
  <2> QED BY <2>1, <2>2 DEF HistoryIsSound
<1> QED BY <1>1, <1>2

\* The bars stay rows of bars of days that have been, whoever writes them
\* (candle_ingest.py, candle_service.py).
THEOREM CandlesTypeCorrect == CandleInit /\ [][CandleNext]_candleVars => []CandlesTypeOK
<1> HIDE DEF CandleInv
<1> QED BY InitCandleInv, CandleInductive, CandleInvGives, PTL

\* Whatever evening, cycle, page and backfill interleave, fail or delete, the
\* stored days have no hole and only the newest may have been forming.
THEOREM HistoryStaysSound == CandleInit /\ [][CandleNext]_candleVars => []HistoryIsSound
<1> HIDE DEF CandleInv
<1> QED BY InitCandleInv, CandleInductive, CandleInvGives, PTL

-----------------------------------------------------------------------------
(* The table of the universe.                                              *)
Momenta == {NoRow, "bars", "market"}
RatedRows(n) == [rs : 1..n \union {NoRow}, momentum : Momenta]
RoundSteps == {"rest", "snapshot", "rate", "store", "grow", "growing"}
OrNoRow == Nat \union {NoRow}
RoundRows == [step : RoundSteps, of : OrNoRow, rates : OrNoRow, left : SUBSET Stocks]

Shown(u, d, s) == IF u[d][s] = NoRow THEN NoRow ELSE u[d][s].rs
CellsOK(u, n) ==
  DOMAIN u = Dates /\ \A d \in Dates : DOMAIN u[d] = Stocks /\ \A s \in Stocks : u[d][s] = NoRow \/ u[d][s] \in RatedRows(n)
Section(u, b) ==
  \A d \in Dates, s, t \in Stocks :
    Shown(u, d, s) # NoRow /\ Shown(u, d, t) # NoRow /\ Shown(u, d, s) # Shown(u, d, t)
      => ~ ({s, t} \subseteq b[Shown(u, d, s)] \intersect b[Shown(u, d, t)])
\* A job that stores has all that its computation rated; rows it has still to change are there.
RoundOK(r, u, b) ==
  /\ r \in RoundRows
  /\ r.step = "store" => r.rates \in 1..Len(b) /\ r.left = b[r.rates]
  /\ r.step \in {"store", "growing"} => r.of \in Dates /\ \A s \in r.left : u[r.of][s] # NoRow

UniverseInv ==
  /\ date \in Nat /\ batches \in Seq(SUBSET Stocks) /\ Len(batches) <= MaxBatches
  /\ CellsOK(universe, Len(batches)) /\ Section(universe, batches)
  /\ DOMAIN round = Rounds /\ \A j \in Rounds : RoundOK(round[j], universe, batches)

LEMMA RowsAreRows ==
  ASSUME NEW n \in Nat, n <= MaxBatches, NEW r \in RatedRows(n)
  PROVE  r # NoRow
<1>1. 1..n \subseteq 1..MaxBatches
  BY UniverseAssumption
<1>2. r \in [rs : 1..MaxBatches \union {NoRow}, momentum : {NoRow, "bars", "market"}]
  BY <1>1 DEF RatedRows, Momenta
<1> QED BY <1>2, UniverseAssumption

LEMMA InitUniverseInv ==
  ASSUME UniverseInit
  PROVE  UniverseInv
<1>1. date = 1 /\ batches = <<>> /\ universe = [d \in Dates |-> [s \in Stocks |-> NoRow]] /\ round = [j \in Rounds |-> AtRest]
  BY DEF UniverseInit
<1>2. batches \in Seq(SUBSET Stocks) /\ Len(batches) = 0
  BY <1>1
<1>3. CellsOK(universe, 0) /\ Section(universe, batches)
  BY <1>1 DEF CellsOK, Section, Shown
<1>4. RoundOK(AtRest, universe, batches)
  BY DEF AtRest, RoundOK, RoundRows, RoundSteps, OrNoRow
<1> HIDE DEF RoundOK, CellsOK, Section
<1> QED BY <1>1, <1>2, <1>3, <1>4, UniverseAssumption DEF UniverseInv

\* Jobs are not disturbed by rows that are added and computations that are made.
LEMMA RoundStays ==
  ASSUME NEW r, NEW u, NEW v, NEW b, NEW c, RoundOK(r, u, b), Len(b) \in Nat, Len(c) \in Nat, Len(b) <= Len(c),
         \A n \in 1..Len(b) : c[n] = b[n],
         \A d \in Dates, s \in Stocks : u[d][s] # NoRow => v[d][s] # NoRow
  PROVE  RoundOK(r, v, c)
<1>1. r \in RoundRows /\ (r.step = "store" => r.rates \in 1..Len(b) /\ r.left = b[r.rates])
  BY DEF RoundOK
<1>2. r.left \subseteq Stocks
  BY <1>1 DEF RoundRows
<1>3. r.step = "store" => r.rates \in 1..Len(c) /\ r.left = c[r.rates]
  BY <1>1
<1>4. r.step \in {"store", "growing"} => r.of \in Dates /\ \A s \in r.left : v[r.of][s] # NoRow
  BY <1>2 DEF RoundOK
<1> QED BY <1>1, <1>3, <1>4 DEF RoundOK

\* A job goes on, and at most adds rows or changes what is not a rating.
LEMMA SameRatings ==
  ASSUME UniverseInv, NEW j \in Rounds, NEW r, Goes(j, r), RoundOK(r, universe', batches), UNCHANGED <<date, batches>>,
         CellsOK(universe', Len(batches)),
         \A d \in Dates, s \in Stocks :
           /\ universe[d][s] # NoRow => universe'[d][s] # NoRow
           /\ Shown(universe', d, s) = Shown(universe, d, s)
  PROVE  UniverseInv'
<1>1. \A b, c, u, v : Section(u, b) /\ (\A d \in Dates, s \in Stocks : Shown(v, d, s) = Shown(u, d, s)) => Section(v, b)
  BY DEF Section
<1>2. Section(universe', batches)
  <2> HIDE DEF Section, Shown
  <2> QED BY <1>1 DEF UniverseInv
<1>3. Len(batches) \in Nat
  BY DEF UniverseInv
<1>4. ASSUME NEW i \in Rounds PROVE RoundOK(round[i], universe', batches)
  <2> HIDE DEF RoundOK
  <2> QED BY <1>3, RoundStays DEF UniverseInv
<1>5. DOMAIN round' = Rounds /\ \A i \in Rounds : round'[i] = IF i = j THEN r ELSE round[i]
  BY DEF Goes, UniverseInv
<1> HIDE DEF RoundOK, CellsOK, Section
<1> QED BY <1>2, <1>4, <1>5 DEF UniverseInv

LEMMA ResumesInv ==
  ASSUME UniverseInv, NEW j \in Rounds, Begins(j) \/ JobBreaks(j) \/ (j = "nightly" /\ (GrowthBegins \/ GrowthEnds))
  PROVE  UniverseInv'
<1>1. UNCHANGED <<date, universe, batches>> /\ date \in Nat
  BY DEF Begins, JobBreaks, GrowthBegins, GrowthEnds, UniverseInv
<1>2. RoundOK(AtRest, universe, batches)
  BY DEF AtRest, RoundOK, RoundRows, RoundSteps, OrNoRow
<1>3. PICK r : Goes(j, r) /\ RoundOK(r, universe, batches)
  <2>1. CASE Begins(j)
    <3>1. PICK q \in RoundRows : q = AtRest
      BY <1>2 DEF RoundOK
    <3>2. PICK step \in {"rate", "snapshot"}, d \in Nat : Goes(j, [q EXCEPT !.step = step, !.of = d])
      BY <1>1, <2>1, <3>1 DEF Begins
    <3>3. [q EXCEPT !.step = step, !.of = d] \in RoundRows /\ [q EXCEPT !.step = step, !.of = d].step = step
      BY DEF RoundRows, RoundSteps, OrNoRow
    <3> QED BY <3>2, <3>3 DEF RoundOK
  <2>2. CASE JobBreaks(j) \/ (j = "nightly" /\ GrowthEnds)
    BY <1>2, <2>2 DEF JobBreaks, GrowthEnds
  <2>3. CASE j = "nightly" /\ GrowthBegins
    <3>1. PICK q : q = round[j] /\ q \in RoundRows
      BY DEF UniverseInv, RoundOK
    <3>2. LatestDate \in Dates
      BY <2>3 DEF GrowthBegins, LatestDate
    <3>3. PICK d \in Dates : d = LatestDate /\ Goes(j, [q EXCEPT !.step = "growing", !.of = d, !.left = CodesOf(d)])
      BY <2>3, <3>1, <3>2 DEF GrowthBegins
    <3>4. CodesOf(d) \subseteq Stocks /\ \A s \in CodesOf(d) : universe[d][s] # NoRow
      BY DEF CodesOf
    <3>5. d \in Nat
      BY DEF Dates
    <3>6. PICK C : C = CodesOf(d)
      OBVIOUS
    <3>7. /\ [q EXCEPT !.step = "growing", !.of = d, !.left = C] \in RoundRows
          /\ [q EXCEPT !.step = "growing", !.of = d, !.left = C].step = "growing"
          /\ [q EXCEPT !.step = "growing", !.of = d, !.left = C].of = d
          /\ [q EXCEPT !.step = "growing", !.of = d, !.left = C].left = C
      <4>1. "growing" \in RoundSteps /\ d \in OrNoRow /\ C \in SUBSET Stocks
        BY <3>4, <3>5, <3>6 DEF RoundSteps, OrNoRow
      <4> QED BY <3>1, <4>1 DEF RoundRows
    <3>8. PICK r : r = [q EXCEPT !.step = "growing", !.of = d, !.left = C]
      OBVIOUS
    <3> QED BY <3>3, <3>4, <3>6, <3>7, <3>8 DEF RoundOK
  <2> QED BY <2>1, <2>2, <2>3
<1> HIDE DEF RoundOK, CellsOK, Shown
<1>4. PICK u : u = universe
  OBVIOUS
<1>5. CellsOK(universe', Len(batches)) /\ RoundOK(r, universe', batches)
  BY <1>1, <1>3 DEF UniverseInv
<1>6. \A d \in Dates, s \in Stocks : universe'[d][s] = universe[d][s] /\ Shown(universe', d, s) = Shown(universe, d, s)
  BY <1>1
<1> QED BY <1>1, <1>3, <1>5, <1>6, SameRatings

LEMMA SnapshotInv ==
  ASSUME UniverseInv, NEW j \in Rounds, TakesSnapshot(j)
  PROVE  UniverseInv'
<1>1. PICK q : q = round[j] /\ q \in RoundRows /\ q.step = "snapshot"
  BY DEF TakesSnapshot, UniverseInv, RoundOK
<1>2. PICK listed \in SUBSET Stocks :
        universe' = [universe EXCEPT ![q.of] = [s \in Stocks |-> IF s \in listed /\ @[s] = NoRow THEN Blank ELSE @[s]]]
  BY <1>1 DEF TakesSnapshot
<1>3. PICK n \in Nat : n = Len(batches) /\ n <= MaxBatches
  BY DEF UniverseInv
<1>4. DOMAIN universe = Dates /\ \A d \in Dates : DOMAIN universe[d] = Stocks
        /\ \A s \in Stocks : universe[d][s] = NoRow \/ universe[d][s] \in RatedRows(n)
  BY <1>3 DEF UniverseInv, CellsOK
<1>5. /\ DOMAIN universe' = Dates
      /\ \A d \in Dates : DOMAIN universe'[d] = Stocks
      /\ \A d \in Dates, s \in Stocks : universe'[d][s] = universe[d][s] \/ (universe[d][s] = NoRow /\ universe'[d][s] = Blank)
  BY <1>2, <1>4
<1>6. Blank \in RatedRows(n) /\ Blank.rs = NoRow
  BY DEF Blank, RatedRows, Momenta
<1>7. Blank # NoRow
  BY <1>3, <1>6, RowsAreRows
<1> HIDE DEF Blank
<1>8. CellsOK(universe', n)
  BY <1>4, <1>5, <1>6 DEF CellsOK
<1>9. \A d \in Dates, s \in Stocks :
        /\ universe[d][s] # NoRow => universe'[d][s] # NoRow
        /\ Shown(universe', d, s) = Shown(universe, d, s)
  BY <1>5, <1>6, <1>7 DEF Shown
<1>10. PICK step \in {"rate", "grow"} : Goes(j, [q EXCEPT !.step = step])
  BY <1>1 DEF TakesSnapshot
<1>14. [q EXCEPT !.step = step] \in RoundRows /\ [q EXCEPT !.step = step].step = step
  BY <1>1 DEF RoundRows, RoundSteps
<1>11. PICK r : r = [q EXCEPT !.step = step] /\ r \in RoundRows /\ r.step = step
  BY <1>14
<1>12. RoundOK(r, universe', batches)
  BY <1>11 DEF RoundOK
<1>13. UNCHANGED <<date, batches>>
  BY DEF TakesSnapshot
<1> HIDE DEF RoundOK, CellsOK, Shown
<1> QED BY <1>3, <1>8, <1>9, <1>10, <1>11, <1>12, <1>13, SameRatings

LEMMA GrowthInv ==
  ASSUME UniverseInv, NEW s \in Stocks, GrowthTakes(s)
  PROVE  UniverseInv'
<1> DEFINE j == "nightly"
<1>1. j \in Rounds
  BY DEF Rounds
<1>2. PICK q : q = round[j] /\ q \in RoundRows /\ q.step = "growing" /\ q.of \in Dates /\ \A x \in q.left : universe[q.of][x] # NoRow
  BY <1>1 DEF GrowthTakes, UniverseInv, RoundOK
<1>3. /\ s \in q.left /\ Goes(j, [q EXCEPT !.left = @ \ {s}]) /\ UNCHANGED <<date, batches>>
      /\ universe' = [universe EXCEPT ![q.of][s].momentum = "market"] \/ universe' = universe
  BY <1>2 DEF GrowthTakes
<1>4. PICK n \in Nat : n = Len(batches) /\ n <= MaxBatches
  BY DEF UniverseInv
<1>5. DOMAIN universe = Dates /\ \A d \in Dates : DOMAIN universe[d] = Stocks
        /\ \A x \in Stocks : universe[d][x] = NoRow \/ universe[d][x] \in RatedRows(n)
  BY <1>4 DEF UniverseInv, CellsOK
<1>6. PICK c : c = universe[q.of][s] /\ c \in RatedRows(n)
  BY <1>2, <1>3, <1>5
<1>7. PICK e : e = [c EXCEPT !.momentum = "market"] /\ e \in RatedRows(n) /\ e.rs = c.rs
  <2>1. "market" \in Momenta
    BY DEF Momenta
  <2>2. [c EXCEPT !.momentum = "market"] \in RatedRows(n) /\ [c EXCEPT !.momentum = "market"].rs = c.rs
    BY <1>6, <2>1 DEF RatedRows
  <2> QED BY <2>2
<1>8. c # NoRow /\ e # NoRow
  BY <1>4, <1>6, <1>7, RowsAreRows
<1>9. /\ DOMAIN universe' = Dates
      /\ \A d \in Dates : DOMAIN universe'[d] = Stocks
      /\ \A d \in Dates, x \in Stocks :
           universe'[d][x] = universe[d][x] \/ (universe[d][x] = c /\ universe'[d][x] = e)
  BY <1>3, <1>5, <1>6, <1>7
<1>10. CellsOK(universe', n)
  BY <1>5, <1>7, <1>9 DEF CellsOK
<1>11. \A d \in Dates, x \in Stocks :
         /\ universe[d][x] # NoRow => universe'[d][x] # NoRow
         /\ Shown(universe', d, x) = Shown(universe, d, x)
  BY <1>7, <1>8, <1>9 DEF Shown
<1>12. PICK r : r = [q EXCEPT !.left = @ \ {s}] /\ r \in RoundRows /\ r.step = q.step /\ r.of = q.of /\ r.left = q.left \ {s}
  <2>1. q.left \ {s} \in SUBSET Stocks
    BY <1>2 DEF RoundRows
  <2>2. PICK L \in SUBSET Stocks : L = q.left \ {s}
    BY <2>1
  <2>3. /\ [q EXCEPT !.left = L] \in RoundRows /\ [q EXCEPT !.left = L].step = q.step
        /\ [q EXCEPT !.left = L].of = q.of /\ [q EXCEPT !.left = L].left = L
    BY <1>2 DEF RoundRows
  <2>4. [q EXCEPT !.left = @ \ {s}] = [q EXCEPT !.left = L]
    BY <2>2
  <2> QED BY <2>2, <2>3, <2>4
<1>13. q.left \subseteq Stocks
  BY <1>2 DEF RoundRows
<1>14. RoundOK(r, universe', batches)
  BY <1>2, <1>11, <1>12, <1>13 DEF RoundOK
<1> HIDE DEF RoundOK, CellsOK, Shown, j
<1> QED BY <1>1, <1>3, <1>4, <1>10, <1>11, <1>12, <1>14, SameRatings

\* A computation is added, and the job holds all that it has rated.
LEMMA RatesInv ==
  ASSUME UniverseInv, NEW j \in Rounds, Rates(j)
  PROVE  UniverseInv'
<1>1. PICK q : q = round[j] /\ q \in RoundRows
  BY DEF UniverseInv, RoundOK
<1>2. PICK d \in Dates : d = LatestDate
  BY DEF Rates, LatestDate
<1>3. PICK ranked \in SUBSET CodesOf(d) :
        /\ batches' = Append(batches, ranked)
        /\ Goes(j, [q EXCEPT !.step = "store", !.of = d, !.rates = Len(batches) + 1, !.left = ranked])
  BY <1>1, <1>2 DEF Rates
<1>4. ranked \subseteq Stocks /\ \A s \in ranked : universe[d][s] # NoRow
  BY DEF CodesOf
<1>5. PICK b : b = batches /\ b \in Seq(SUBSET Stocks) /\ Len(b) \in Nat /\ Len(b) < MaxBatches
  BY DEF UniverseInv, Rates
<1>6. PICK c : c = batches' /\ c = Append(b, ranked)
  BY <1>3, <1>5
<1>7. /\ c \in Seq(SUBSET Stocks) /\ Len(c) = Len(b) + 1 /\ c[Len(b) + 1] = ranked
      /\ \A n \in 1..Len(b) : c[n] = b[n]
  BY <1>4, <1>5, <1>6
<1>8. UNCHANGED <<date, universe>>
  BY DEF Rates
<1>9. CellsOK(universe, Len(c))
  <2>1. \A r \in RatedRows(Len(b)) : r \in RatedRows(Len(c))
    <3>1. 1..Len(b) \subseteq 1..Len(c)
      BY <1>5, <1>7
    <3> QED BY <3>1 DEF RatedRows
  <2> QED BY <1>5, <2>1 DEF UniverseInv, CellsOK
<1>10. Section(universe, c)
  <2>1. \A e \in Dates, s \in Stocks : Shown(universe, e, s) # NoRow => Shown(universe, e, s) \in 1..Len(b)
    BY <1>5 DEF UniverseInv, CellsOK, Shown, RatedRows
  <2>2. Section(universe, b)
    BY <1>5 DEF UniverseInv
  <2> HIDE DEF Shown
  <2> QED BY <1>7, <2>1, <2>2 DEF Section
<1>11. PICK r : /\ r = [q EXCEPT !.step = "store", !.of = d, !.rates = Len(b) + 1, !.left = ranked]
                /\ r \in RoundRows /\ r.step = "store" /\ r.of = d /\ r.rates = Len(b) + 1 /\ r.left = ranked
  <2>1. "store" \in RoundSteps /\ d \in OrNoRow /\ Len(b) + 1 \in OrNoRow /\ ranked \in SUBSET Stocks
    BY <1>4, <1>5 DEF Dates, RoundSteps, OrNoRow
  <2>2. PICK n \in OrNoRow : n = Len(b) + 1
    BY <2>1
  <2>3. /\ [q EXCEPT !.step = "store", !.of = d, !.rates = n, !.left = ranked] \in RoundRows
        /\ [q EXCEPT !.step = "store", !.of = d, !.rates = n, !.left = ranked].step = "store"
        /\ [q EXCEPT !.step = "store", !.of = d, !.rates = n, !.left = ranked].of = d
        /\ [q EXCEPT !.step = "store", !.of = d, !.rates = n, !.left = ranked].rates = n
        /\ [q EXCEPT !.step = "store", !.of = d, !.rates = n, !.left = ranked].left = ranked
    BY <1>1, <2>1 DEF RoundRows
  <2> QED BY <2>2, <2>3
<1>12. RoundOK(r, universe, c)
  BY <1>4, <1>5, <1>7, <1>11 DEF RoundOK
<1>13. ASSUME NEW i \in Rounds PROVE RoundOK(round[i], universe, c)
  <2>1. RoundOK(round[i], universe, b)
    BY <1>5 DEF UniverseInv
  <2> HIDE DEF RoundOK
  <2> QED BY <1>5, <1>7, <2>1, RoundStays
<1>14. DOMAIN round' = Rounds /\ \A i \in Rounds : round'[i] = IF i = j THEN r ELSE round[i]
  BY <1>3, <1>5, <1>11 DEF Goes, UniverseInv
<1>15. Len(c) <= MaxBatches
  BY <1>5, <1>7, UniverseAssumption
<1>16. \A i \in Rounds : RoundOK(round'[i], universe, c)
  BY <1>12, <1>13, <1>14
<1> HIDE DEF RoundOK, CellsOK, Section
<1> QED BY <1>6, <1>7, <1>8, <1>9, <1>10, <1>14, <1>15, <1>16 DEF UniverseInv

\* All of a computation's ratings are shown, and what else is shown it has not rated.
LEMMA StoresRatingsInv ==
  ASSUME UniverseInv, NEW j \in Rounds, StoresRatings(j)
  PROVE  UniverseInv'
<1>1. PICK q : /\ q = round[j] /\ q \in RoundRows /\ q.rates \in 1..Len(batches) /\ q.left = batches[q.rates]
               /\ q.of \in Dates /\ \A x \in q.left : universe[q.of][x] # NoRow
  BY DEF StoresRatings, UniverseInv, RoundOK
<1>2. PICK also \in BOOLEAN : universe' = Rated(q.of, q.left, q.rates, also)
  BY <1>1 DEF StoresRatings
<1>3. Goes(j, AtRest) /\ UNCHANGED <<date, batches>>
  BY DEF StoresRatings
<1>4. PICK n \in Nat : n = Len(batches) /\ n <= MaxBatches
  BY DEF UniverseInv
<1>5. DOMAIN universe = Dates /\ \A d \in Dates : DOMAIN universe[d] = Stocks
        /\ \A x \in Stocks : universe[d][x] = NoRow \/ universe[d][x] \in RatedRows(n)
  BY <1>4 DEF UniverseInv, CellsOK
<1>6. /\ DOMAIN universe' = Dates
      /\ \A d \in Dates : DOMAIN universe'[d] = Stocks
      /\ \A d \in Dates, x \in Stocks : d # q.of \/ x \notin q.left => universe'[d][x] = universe[d][x]
      /\ \A x \in Stocks : x \in q.left =>
           universe'[q.of][x] = [rs |-> q.rates, momentum |-> IF also THEN "bars" ELSE universe[q.of][x].momentum]
  BY <1>1, <1>2, <1>5 DEF Rated
<1>7. ASSUME NEW x \in Stocks, x \in q.left
      PROVE  universe'[q.of][x] \in RatedRows(n) /\ universe'[q.of][x].rs = q.rates
  <2>1. universe[q.of][x] \in RatedRows(n)
    BY <1>1, <1>5, <1>7
  <2>2. PICK m \in Momenta : m = IF also THEN "bars" ELSE universe[q.of][x].momentum
    BY <2>1 DEF RatedRows, Momenta
  <2>3. universe'[q.of][x] = [rs |-> q.rates, momentum |-> m]
    BY <1>6, <1>7, <2>2
  <2>4. q.rates \in 1..n \union {NoRow}
    BY <1>1, <1>4
  <2>5. [rs |-> q.rates, momentum |-> m] \in RatedRows(n) /\ [rs |-> q.rates, momentum |-> m].rs = q.rates
    BY <2>4 DEF RatedRows
  <2> QED BY <2>3, <2>5
<1>8. CellsOK(universe', n)
  BY <1>5, <1>6, <1>7 DEF CellsOK
<1>9. \A x \in Stocks : x \in q.left => universe'[q.of][x] # NoRow /\ Shown(universe', q.of, x) = q.rates
  BY <1>4, <1>7, RowsAreRows DEF Shown
<1>10. \A d \in Dates, x \in Stocks : d # q.of \/ x \notin q.left => Shown(universe', d, x) = Shown(universe, d, x)
  BY <1>6 DEF Shown
<1>11. \A d \in Dates, x \in Stocks : universe[d][x] # NoRow => universe'[d][x] # NoRow
  BY <1>6, <1>9
<1>12. Section(universe', batches)
  <2>1. Section(universe, batches)
    BY DEF UniverseInv
  <2> SUFFICES ASSUME NEW d \in Dates, NEW s \in Stocks, NEW t \in Stocks,
                      Shown(universe', d, s) # NoRow, Shown(universe', d, t) # NoRow,
                      Shown(universe', d, s) # Shown(universe', d, t)
               PROVE  ~ ({s, t} \subseteq batches[Shown(universe', d, s)] \intersect batches[Shown(universe', d, t)])
    BY DEF Section
  <2> HIDE DEF Shown
  <2>2. CASE d # q.of \/ (s \notin q.left /\ t \notin q.left)
    BY <1>10, <2>1, <2>2 DEF Section
  <2>3. CASE d = q.of /\ s \in q.left
    BY <1>1, <1>9, <2>3
  <2>4. CASE d = q.of /\ t \in q.left
    BY <1>1, <1>9, <2>4
  <2> QED BY <2>2, <2>3, <2>4
<1>13. RoundOK(AtRest, universe', batches)
  BY DEF AtRest, RoundOK, RoundRows, RoundSteps, OrNoRow
<1>14. ASSUME NEW i \in Rounds PROVE RoundOK(round[i], universe', batches)
  <2> HIDE DEF RoundOK
  <2> QED BY <1>4, <1>11, RoundStays DEF UniverseInv
<1>15. DOMAIN round' = Rounds /\ \A i \in Rounds : round'[i] = IF i = j THEN AtRest ELSE round[i]
  BY <1>3 DEF Goes, UniverseInv
<1> HIDE DEF RoundOK, CellsOK, Section, AtRest
<1> QED BY <1>3, <1>4, <1>8, <1>12, <1>13, <1>14, <1>15 DEF UniverseInv

LEMMA UniverseInductive ==
  ASSUME UniverseInv, [UniverseNext]_universeVars
  PROVE  UniverseInv'
<1> HIDE DEF RoundOK, CellsOK, Section
<1>1. CASE NewDate \/ UNCHANGED universeVars
  BY <1>1 DEF NewDate, universeVars, UniverseInv
<1>2. "nightly" \in Rounds
  BY DEF Rounds
<1> HIDE DEF UniverseInv
<1> QED BY <1>1, <1>2, ResumesInv, SnapshotInv, GrowthInv, RatesInv, StoresRatingsInv DEF UniverseNext

\* Whatever order cycle, nightly and evening store their ratings in, and wherever
\* one is stopped, two stocks that two computations have rated are shown with
\* their ratings of one of them (rs_rating_ingest.py).
THEOREM RatingsAreOfOneSection == UniverseInit /\ [][UniverseNext]_universeVars => []OneCrossSection
<1>1. UniverseInv => OneCrossSection
  <2>1. \A d, s : RatingOf(d, s) = Shown(universe, d, s)
    BY DEF RatingOf, Shown
  <2> HIDE DEF RatingOf, Shown
  <2> QED BY <2>1 DEF UniverseInv, Section, OneCrossSection
<1> HIDE DEF UniverseInit, UniverseInv
<1> QED BY <1>1, InitUniverseInv, UniverseInductive, PTL

-----------------------------------------------------------------------------
(* The disclosures.                                                        *)
Corpus == Cardinality(Listed)
AskRows == [of : Listed, begin : 0..LastDay, new : SUBSET (0..LastDay), judges : BOOLEAN]

\* The stocks the batch has still to finish this morning; those that stand
\* before a stock and are not among them; the mornings that have passed it.
Queued == {todo[i] : i \in 1..Len(todo)}
Waiting == Queued \union (IF ask["batch"] = Nobody THEN {} ELSE {ask["batch"].of})
Rest(s) == {t \in Listed \ Waiting : place[t] < place[s]}
Turns(s) == day - synced[s].on - (IF morning /\ s \notin Waiting THEN 0 ELSE 1)

DisclosureTyped ==
  /\ day \in 0..LastDay /\ morning \in BOOLEAN /\ filed \in BOOLEAN /\ broken \in 0..MaxBroken
  /\ DOMAIN rows = Listed /\ place \in Rankings
  /\ DOMAIN synced = Listed /\ \A s \in Listed : synced[s].on \in -1..day
  /\ fresh \subseteq Listed /\ exempt \subseteq Listed /\ llm \in [Askers -> BOOLEAN]
  /\ ask \in [Askers -> AskRows \union {Nobody}]
  /\ todo \in Seq(Listed) /\ \A i, j \in 1..Len(todo) : todo[i] = todo[j] => i = j

\* Every morning that passes a stock takes as many of those before it, but for
\* those that failed.
Counted(s) == PerMorning * Turns(s) + Cardinality(Rest(s)) <= Corpus - 1 + PerMorning * broken

\* A stock that no page and no missing answer has touched has what it filed
\* before it was synchronised, and is asked for all it filed since.
CaughtUp(s) ==
  /\ s \in fresh => synced[s].on = day
  /\ synced[s].on = day => morning /\ s \notin Waiting
  /\ 0..(synced[s].on - 1) \subseteq StoredOf(s)
  /\ Counted(s)
AsksAll(s) ==
  ask["batch"] # Nobody /\ ask["batch"].of = s =>
    /\ ask["batch"].begin = Later(0, day - BatchWindow)
    /\ ask["batch"].begin..(day - 1) \subseteq StoredOf(s) \union ask["batch"].new

RoundInv ==
  /\ DisclosureTyped
  /\ ~morning => Waiting = {}
  /\ ask["batch"] # Nobody => ask["batch"].of \notin Queued
  /\ ask["batch"] # Nobody /\ ~ask["batch"].judges => exempt = Listed
  /\ ask["page"] # Nobody => ask["page"].of \in exempt
  /\ \A s \in Listed \ exempt : CaughtUp(s) /\ AsksAll(s)

\* A window takes in a round of the universe and the mornings that fail.
WideEnough == Corpus - 1 <= PerMorning * (BatchWindow - 1 - MaxBroken)

LEMMA NumbersOfDisclosures ==
  /\ PerMorning \in Nat /\ PerMorning > 0 /\ BatchWindow \in Nat /\ PageWindow \in Nat
  /\ LastDay \in Nat /\ MaxBroken \in Nat /\ IsFiniteSet(Listed) /\ Corpus \in Nat
  /\ Viewed \subseteq Listed /\ \A r \in AskRows : r # Nobody
<1>1. IsFiniteSet(Listed)
  BY DisclosureAssumption
<1>2. Corpus \in Nat
  BY <1>1, FS_CardinalityType DEF Corpus
<1> QED BY <1>1, <1>2, DisclosureAssumption DEF AskRows

LEMMA TimesGrows ==
  ASSUME NEW p \in Nat, NEW a \in Int, NEW b \in Int, a <= b
  PROVE  p * a <= p * b
<1>1. b - a \in Nat /\ p * (b - a) >= 0
  OBVIOUS
<1>2. p * (b - a) = p * b - p * a
  OBVIOUS
<1>3. p * a \in Int /\ p * b \in Int
  OBVIOUS
<1> QED BY <1>1, <1>2, <1>3

LEMMA TimesOneMore ==
  ASSUME NEW p \in Nat, NEW a \in Int
  PROVE  p * a \in Int /\ p * (a + 1) = p * a + p
OBVIOUS

\* Places are numbers, no two of them the same.
LEMMA PlacesAreRanks ==
  ASSUME place \in Rankings
  PROVE  \A s \in Listed : /\ place[s] \in Nat /\ 1 <= place[s] /\ place[s] <= Corpus
                           /\ \A t \in Listed : place[t] = place[s] => t = s
BY NumbersOfDisclosures DEF Rankings, Corpus

\* Of some stocks one stands first.
LEMMA OneStandsFirst ==
  ASSUME place \in Rankings, NEW S \in SUBSET Listed, S # {}
  PROVE  \E s \in S : \A t \in S : ~ (place[t] < place[s])
<1> DEFINE R == {place[s] : s \in S}
           Less == {pair \in Nat \X Nat : pair[1] < pair[2]}
<1>1. R \subseteq Nat /\ R # {}
  BY PlacesAreRanks
<1>2. IsWellFoundedOn(Less, Nat)
  BY NatLessThanWellFounded DEF OpToRel
<1>3. PICK n \in R : \A m \in R : ~ (<<m, n>> \in Less)
  <2> HIDE DEF R, Less
  <2> QED BY <1>1, <1>2, WFMin, Zenon
<1>4. PICK s \in S : n = place[s]
  OBVIOUS
<1>5. \A t \in S : ~ (place[t] < place[s])
  BY <1>1, <1>3, <1>4
<1> QED BY <1>5

\* The rest of a stock is a part of the others.
LEMMA RestIsSmall ==
  ASSUME place \in Rankings, NEW s \in Listed
  PROVE  IsFiniteSet(Rest(s)) /\ Cardinality(Rest(s)) \in Nat /\ Cardinality(Rest(s)) <= Corpus - 1
<1>1. Rest(s) \in SUBSET (Listed \ {s})
  BY PlacesAreRanks DEF Rest
<1>2. IsFiniteSet(Listed \ {s}) /\ Cardinality(Listed \ {s}) = Corpus - 1
  BY NumbersOfDisclosures, FS_RemoveElement DEF Corpus
<1>3. IsFiniteSet(Rest(s)) /\ Cardinality(Rest(s)) <= Corpus - 1
  BY <1>1, <1>2, FS_Subset
<1> QED BY <1>3, FS_CardinalityType

\* A count stays in its bound when neither part grows.
LEMMA CountStays ==
  ASSUME NEW p \in Nat, NEW n \in Int, NEW R, IsFiniteSet(R), NEW Q \in SUBSET R,
         NEW t \in Int, NEW u \in Int, u <= t, NEW b \in Nat, NEW c \in Nat, b <= c,
         p * t + Cardinality(R) <= n + p * b
  PROVE  p * u + Cardinality(Q) <= n + p * c
<1>1. Cardinality(Q) <= Cardinality(R) /\ Cardinality(R) \in Nat /\ Cardinality(Q) \in Nat
  BY FS_Subset, FS_CardinalityType
<1>2. p * u <= p * t /\ p * b <= p * c
  BY TimesGrows
<1>3. p * u \in Int /\ p * t \in Int /\ p * b \in Int /\ p * c \in Int
  OBVIOUS
<1> QED BY <1>1, <1>2, <1>3

LEMMA TurnsAreNumbers ==
  ASSUME DisclosureTyped, NEW s \in Listed
  PROVE  /\ Turns(s) \in Int /\ day \in Nat /\ synced[s].on \in Int /\ synced[s].on <= day
         /\ broken \in Nat /\ broken <= MaxBroken
BY NumbersOfDisclosures DEF DisclosureTyped, Turns

\* A stock whose count holds was synchronised within the window.
LEMMA WindowReaches ==
  ASSUME WideEnough, DisclosureTyped, NEW s \in Listed, Counted(s)
  PROVE  day - BatchWindow <= synced[s].on
<1>1. /\ Turns(s) \in Int /\ day \in Nat /\ synced[s].on \in Int /\ broken \in Nat /\ broken <= MaxBroken
      /\ day - synced[s].on - 1 <= Turns(s)
  BY TurnsAreNumbers DEF Turns
<1>2. Cardinality(Rest(s)) \in Nat
  BY RestIsSmall DEF DisclosureTyped
<1>3. /\ PerMorning \in Nat /\ PerMorning > 0 /\ BatchWindow \in Nat /\ MaxBroken \in Nat /\ Corpus \in Nat
  BY NumbersOfDisclosures
<1>4. PerMorning * broken <= PerMorning * MaxBroken
  BY <1>1, <1>3, TimesGrows
<1>5. PerMorning * (BatchWindow - 1 - MaxBroken) = PerMorning * (BatchWindow - 1) - PerMorning * MaxBroken
  BY <1>3
<1>6. /\ PerMorning * broken \in Int /\ PerMorning * MaxBroken \in Int /\ PerMorning * (BatchWindow - 1) \in Int
      /\ PerMorning * Turns(s) \in Int
  BY <1>1, <1>3
<1>7. PerMorning * Turns(s) <= PerMorning * (BatchWindow - 1)
  BY <1>2, <1>3, <1>4, <1>5, <1>6 DEF WideEnough, Counted
<1>8. Turns(s) <= BatchWindow - 1
  <2> SUFFICES ASSUME BatchWindow <= Turns(s) PROVE FALSE
    BY <1>1, <1>3
  <2>1. PerMorning * BatchWindow <= PerMorning * Turns(s)
    BY <1>1, <1>3, TimesGrows
  <2>2. PerMorning * BatchWindow = PerMorning * (BatchWindow - 1) + PerMorning
    BY <1>3
  <2> QED BY <1>3, <1>6, <1>7, <2>1, <2>2
<1> QED BY <1>1, <1>3, <1>8

-----------------------------------------------------------------------------
\* What a request holds, as the type says.
LEMMA AskIsTyped ==
  ASSUME DisclosureTyped, NEW a \in Askers, ask[a] # Nobody
  PROVE  ask[a] \in AskRows /\ ask[a].of \in Listed /\ ask[a].judges \in BOOLEAN
<1>1. ask[a] \in AskRows
  BY DEF DisclosureTyped
<1> QED BY <1>1 DEF AskRows

\* A request that begins.
LEMMA AskingIsTyped ==
  ASSUME DisclosureTyped, NEW a \in Askers, NEW s \in Listed, NEW begin \in 0..LastDay, NEW L \in SUBSET (0..LastDay),
         Asks(a, s, begin, L)
  PROVE  /\ ask' \in [Askers -> AskRows \union {Nobody}] /\ ask'[a] # Nobody
         /\ ask'[a].of = s /\ ask'[a].begin = begin
         /\ Named(s) => ask'[a].new = L \ StoredOf(s) /\ ask'[a].judges = llm[a]
         /\ ~Named(s) => ask'[a].judges
         /\ \A b \in Askers : b # a => ask'[b] = ask[b]
<1>1. PICK j \in BOOLEAN : j = (Named(s) => llm[a])
  OBVIOUS
<1>2. PICK M \in SUBSET (0..LastDay) : M = IF Named(s) THEN L \ StoredOf(s) ELSE {}
  OBVIOUS
<1> DEFINE row == [of |-> s, begin |-> begin, new |-> M, judges |-> j]
<1>3. row \in AskRows
  BY DEF AskRows
<1>4. row # Nobody
  BY <1>3, NumbersOfDisclosures
<1>5. ask' = [ask EXCEPT ![a] = row] /\ ask \in [Askers -> AskRows \union {Nobody}]
  BY <1>1, <1>2 DEF Asks, DisclosureTyped
<1>6. llm[a] \in BOOLEAN
  BY DEF DisclosureTyped
<1>7. Named(s) => j = llm[a]
  BY <1>1, <1>6, Zenon
<1>8. ~Named(s) => j
  BY <1>1, Zenon
<1>9. row.of = s /\ row.begin = begin /\ row.new = M /\ row.judges = j
  OBVIOUS
<1> HIDE DEF row
<1>10. ask'[a] = row /\ \A b \in Askers : b # a => ask'[b] = ask[b]
  BY <1>5
<1>11. ask' \in [Askers -> AskRows \union {Nobody}]
  BY <1>3, <1>5
<1> QED BY <1>2, <1>4, <1>7, <1>8, <1>9, <1>10, <1>11

\* A request that ends.
LEMMA EndingIsTyped ==
  ASSUME DisclosureTyped, NEW a \in Askers, Ends(a)
  PROVE  /\ ask' \in [Askers -> AskRows \union {Nobody}] /\ ask'[a] = Nobody
         /\ \A b \in Askers : b # a => ask'[b] = ask[b]
BY DEF Ends, DisclosureTyped

\* A request of which a part is done.
LEMMA NarrowingIsTyped ==
  ASSUME DisclosureTyped, NEW a \in Askers, ask[a] # Nobody, NEW L, L \subseteq ask[a].new, ask' = [ask EXCEPT ![a].new = L]
  PROVE  /\ ask' \in [Askers -> AskRows \union {Nobody}] /\ ask'[a] # Nobody
         /\ ask'[a].of = ask[a].of /\ ask'[a].begin = ask[a].begin /\ ask'[a].new = L /\ ask'[a].judges = ask[a].judges
         /\ \A b \in Askers : b # a => ask'[b] = ask[b]
<1>1. PICK s \in Listed, begin \in 0..LastDay, new \in SUBSET (0..LastDay), j \in BOOLEAN :
        ask[a] = [of |-> s, begin |-> begin, new |-> new, judges |-> j]
  <2>1. ask[a] \in AskRows
    BY AskIsTyped
  <2> QED BY <2>1 DEF AskRows
<1> DEFINE row == [of |-> s, begin |-> begin, new |-> L, judges |-> j]
<1>2. row \in AskRows
  BY <1>1 DEF AskRows
<1>3. row # Nobody
  BY <1>2, NumbersOfDisclosures
<1>4. ask \in [Askers -> AskRows \union {Nobody}]
  BY DEF DisclosureTyped
<1>5. [ask[a] EXCEPT !.new = L] = row
  BY <1>1
<1>6. row.of = ask[a].of /\ row.begin = ask[a].begin /\ row.new = L /\ row.judges = ask[a].judges
  BY <1>1
<1>7. ask' = [ask EXCEPT ![a] = row]
  BY <1>4, <1>5
<1> HIDE DEF row
<1> QED BY <1>2, <1>3, <1>4, <1>6, <1>7

\* What keeps a stock caught up: it waits as before, and no more stand before it.
LEMMA CaughtUpStays ==
  ASSUME DisclosureTyped, DisclosureTyped', NEW s \in Listed, CaughtUp(s),
         day' = day, morning' = morning, synced'[s].on = synced[s].on, broken <= broken',
         s \in Waiting' <=> s \in Waiting, Rest(s)' \subseteq Rest(s),
         s \in fresh' => s \in fresh, StoredOf(s) \subseteq StoredOf(s)'
  PROVE  CaughtUp(s)'
<1>1. Turns(s)' = Turns(s)
  BY DEF Turns
<1>2. /\ Turns(s) \in Int /\ broken \in Nat /\ broken' \in Nat
      /\ PerMorning \in Nat /\ Corpus \in Nat /\ IsFiniteSet(Rest(s))
  BY NumbersOfDisclosures, TurnsAreNumbers, RestIsSmall DEF DisclosureTyped
<1>3. PerMorning * Turns(s)' + Cardinality(Rest(s)') <= Corpus - 1 + PerMorning * broken'
  <2>1. PerMorning * Turns(s) + Cardinality(Rest(s)) <= Corpus - 1 + PerMorning * broken
    BY DEF CaughtUp, Counted
  <2>2. Turns(s) <= Turns(s) /\ Corpus - 1 \in Int /\ Rest(s)' \in SUBSET Rest(s)
    BY <1>2
  <2>3. PerMorning * Turns(s) + Cardinality(Rest(s)') <= Corpus - 1 + PerMorning * broken'
    BY <1>2, <2>1, <2>2, CountStays
  <2> QED BY <1>1, <2>3
<1>4. Counted(s)'
  BY <1>3 DEF Counted, Corpus
<1> QED BY <1>4 DEF CaughtUp

LEMMA AsksAllStays ==
  ASSUME NEW s \in Listed, AsksAll(s), ask'["batch"] = ask["batch"], day' = day, StoredOf(s) \subseteq StoredOf(s)'
  PROVE  AsksAll(s)'
BY DEF AsksAll

LEMMA RestStays ==
  ASSUME place' = place, Waiting' = Waiting, NEW s
  PROVE  Rest(s)' = Rest(s)
BY DEF Rest

\* The rows only grow, and what is in them stays.
LEMMA InsertGrows ==
  ASSUME DisclosureTyped, NEW s \in Listed, NEW d, NEW how, rows' = [rows EXCEPT ![s] = Insert(s, d, how)]
  PROVE  /\ DOMAIN rows' = Listed /\ d \in StoredOf(s)'
         /\ \A t \in Listed : /\ StoredOf(t) \subseteq StoredOf(t)'
                              /\ \A e \in StoredOf(t) : rows'[t][e] = rows[t][e]
<1>1. DOMAIN rows = Listed
  BY DEF DisclosureTyped
<1>2. DOMAIN rows' = Listed /\ rows'[s] = Insert(s, d, how) /\ \A t \in Listed : t # s => rows'[t] = rows[t]
  BY <1>1
<1>3. /\ StoredOf(s) \subseteq DOMAIN Insert(s, d, how) /\ d \in DOMAIN Insert(s, d, how)
      /\ \A e \in StoredOf(s) : Insert(s, d, how)[e] = rows[s][e]
  BY DEF Insert, StoredOf
<1> HIDE DEF Insert
<1> QED BY <1>2, <1>3 DEF StoredOf

LEMMA PageTakesRound ==
  ASSUME RoundInv, NEW s \in Viewed, PageTakes(s)
  PROVE  RoundInv'
<1>1. DisclosureTyped /\ s \in Listed /\ "page" \in Askers /\ "batch" \in Askers /\ "batch" # "page"
  BY NumbersOfDisclosures DEF RoundInv, Askers
<1>2. PICK end \in {day - 1, day} :
        /\ end >= 0
        /\ Asks("page", s, Later(0, end - PageWindow), {d \in Listing(Later(0, end - PageWindow)) : d <= end})
  BY DEF PageTakes
<1>3. /\ Later(0, end - PageWindow) \in 0..LastDay
      /\ {d \in Listing(Later(0, end - PageWindow)) : d <= end} \in SUBSET (0..LastDay)
  BY <1>1, <1>2, NumbersOfDisclosures DEF Later, Listing, DisclosureTyped
<1>4. /\ ask' \in [Askers -> AskRows \union {Nobody}] /\ ask'["page"] # Nobody /\ ask'["page"].of = s
      /\ ask'["batch"] = ask["batch"]
  BY <1>1, <1>2, <1>3, AskingIsTyped
<1>5. /\ exempt' = exempt \union {s}
      /\ UNCHANGED <<day, filed, rows, place, synced, fresh, llm, todo, morning, broken>>
  BY DEF PageTakes
<1>6. DisclosureTyped'
  BY <1>1, <1>4, <1>5 DEF DisclosureTyped
<1>7. Waiting' = Waiting /\ Queued' = Queued
  BY <1>4, <1>5 DEF Waiting, Queued
<1>8. ASSUME NEW t \in Listed \ exempt' PROVE CaughtUp(t)' /\ AsksAll(t)'
  <2>1. CaughtUp(t) /\ AsksAll(t)
    BY <1>5, <1>8 DEF RoundInv
  <2>2. Rest(t)' = Rest(t) /\ StoredOf(t)' = StoredOf(t) /\ broken <= broken'
    BY <1>1, <1>5, <1>7, RestStays, TurnsAreNumbers DEF StoredOf
  <2> QED BY <1>1, <1>4, <1>5, <1>6, <1>7, <2>1, <2>2, CaughtUpStays, AsksAllStays
<1> QED BY <1>1, <1>4, <1>5, <1>6, <1>7, <1>8 DEF RoundInv

LEMMA ListIsCutRound ==
  ASSUME RoundInv, NEW a \in Askers, ListIsCut(a)
  PROVE  RoundInv'
<1>1. /\ DisclosureTyped /\ "page" \in Askers /\ "batch" \in Askers /\ "batch" # "page"
      /\ ask[a] # Nobody /\ ask[a].of \in Listed /\ \A b \in Askers : b = "page" \/ b = "batch"
  BY AskIsTyped DEF RoundInv, Askers, ListIsCut
<1>2. /\ broken < MaxBroken /\ broken' = broken + 1 /\ ask' = [ask EXCEPT ![a].new = {}]
      /\ exempt' = exempt \union {ask[a].of}
      /\ UNCHANGED <<day, filed, rows, place, synced, fresh, llm, todo, morning>>
  BY DEF ListIsCut
<1>3. /\ ask' \in [Askers -> AskRows \union {Nobody}] /\ ask'[a] # Nobody
      /\ ask'[a].of = ask[a].of /\ ask'[a].judges = ask[a].judges
      /\ \A b \in Askers : b # a => ask'[b] = ask[b]
  <2>1. PICK L : L = {}
    OBVIOUS
  <2>2. L \subseteq ask[a].new /\ ask' = [ask EXCEPT ![a].new = L]
    BY <1>2, <2>1
  <2> QED BY <1>1, <2>2, NarrowingIsTyped
<1>4. broken \in Nat /\ broken <= broken' /\ broken' \in 0..MaxBroken
  BY <1>1, <1>2, TurnsAreNumbers, NumbersOfDisclosures
<1>5. DisclosureTyped'
  BY <1>1, <1>2, <1>3, <1>4 DEF DisclosureTyped
<1>6. /\ ask'["batch"] = Nobody <=> ask["batch"] = Nobody
      /\ ask["batch"] # Nobody => ask'["batch"].of = ask["batch"].of /\ ask'["batch"].judges = ask["batch"].judges
      /\ ask["page"] # Nobody <=> ask'["page"] # Nobody
      /\ ask'["page"] # Nobody => ask'["page"].of = ask["page"].of
  BY <1>1, <1>3
<1>7. Waiting' = Waiting /\ Queued' = Queued
  BY <1>2, <1>6 DEF Waiting, Queued
<1>8. ASSUME NEW t \in Listed \ exempt' PROVE CaughtUp(t)' /\ AsksAll(t)'
  <2>1. CaughtUp(t) /\ AsksAll(t) /\ t # ask[a].of
    BY <1>2, <1>8 DEF RoundInv
  <2>2. Rest(t)' = Rest(t) /\ StoredOf(t)' = StoredOf(t)
    BY <1>2, <1>7, RestStays DEF StoredOf
  <2>3. CaughtUp(t)'
    BY <1>1, <1>2, <1>4, <1>5, <1>7, <2>1, <2>2, CaughtUpStays
  <2>4. AsksAll(t)'
    <3>1. CASE a = "batch"
      BY <1>3, <2>1, <3>1 DEF AsksAll
    <3>2. CASE a = "page"
      BY <1>1, <1>2, <1>3, <2>1, <2>2, <3>2, AsksAllStays
    <3> QED BY <1>1, <3>1, <3>2
  <2> QED BY <2>3, <2>4
<1>9. exempt \subseteq exempt' /\ (exempt = Listed => exempt' = Listed)
  BY <1>1, <1>2
<1>10. /\ ~morning' => Waiting' = {}
       /\ ask'["batch"] # Nobody => ask'["batch"].of \notin Queued'
       /\ ask'["batch"] # Nobody /\ ~ask'["batch"].judges => exempt' = Listed
       /\ ask'["page"] # Nobody => ask'["page"].of \in exempt'
  BY <1>2, <1>6, <1>7, <1>9 DEF RoundInv
<1> QED BY <1>5, <1>8, <1>10 DEF RoundInv

LEMMA StoresNextRound ==
  ASSUME RoundInv, NEW a \in Askers, StoresNext(a)
  PROVE  RoundInv'
<1>1. /\ DisclosureTyped /\ "page" \in Askers /\ "batch" \in Askers /\ "batch" # "page"
      /\ ask[a] # Nobody /\ ask[a].of \in Listed /\ \A b \in Askers : b = "page" \/ b = "batch"
  BY AskIsTyped DEF RoundInv, Askers, StoresNext
<1>0. PICK d : d = Earliest(ask[a].new)
  OBVIOUS
<1>2. PICK s \in Listed : s = ask[a].of
  BY <1>1
<1>3. /\ rows' = [rows EXCEPT ![s] = Insert(s, d, IF ask[a].judges THEN "judged" ELSE "hold")]
      /\ ask' = [ask EXCEPT ![a].new = @ \ {d}]
      /\ UNCHANGED <<day, filed, place, synced, fresh, llm, todo, morning, broken, exempt>>
  BY <1>0, <1>2 DEF StoresNext
<1>4. /\ DOMAIN rows' = Listed /\ d \in StoredOf(s)'
      /\ \A t \in Listed : StoredOf(t) \subseteq StoredOf(t)'
  BY <1>1, <1>2, <1>3, InsertGrows
<1>5. /\ ask' \in [Askers -> AskRows \union {Nobody}] /\ ask'[a] # Nobody
      /\ ask'[a].of = ask[a].of /\ ask'[a].judges = ask[a].judges /\ ask'[a].begin = ask[a].begin
      /\ ask'[a].new = ask[a].new \ {d}
      /\ \A b \in Askers : b # a => ask'[b] = ask[b]
  <2>1. ask[a].new \ {d} \subseteq ask[a].new /\ ask' = [ask EXCEPT ![a].new = ask[a].new \ {d}]
    BY <1>3
  <2> QED BY <1>1, <2>1, NarrowingIsTyped
<1>6. DisclosureTyped'
  BY <1>1, <1>3, <1>4, <1>5 DEF DisclosureTyped
<1>7. /\ ask'["batch"] = Nobody <=> ask["batch"] = Nobody
      /\ ask["batch"] # Nobody => ask'["batch"].of = ask["batch"].of /\ ask'["batch"].judges = ask["batch"].judges
      /\ ask["page"] # Nobody <=> ask'["page"] # Nobody
      /\ ask'["page"] # Nobody => ask'["page"].of = ask["page"].of
  BY <1>1, <1>5
<1>8. Waiting' = Waiting /\ Queued' = Queued
  BY <1>3, <1>7 DEF Waiting, Queued
<1>9. ASSUME NEW t \in Listed \ exempt' PROVE CaughtUp(t)' /\ AsksAll(t)'
  <2>1. CaughtUp(t) /\ AsksAll(t)
    BY <1>3, <1>9 DEF RoundInv
  <2>2. Rest(t)' = Rest(t) /\ broken <= broken'
    BY <1>1, <1>3, <1>8, RestStays, TurnsAreNumbers
  <2>3. CaughtUp(t)'
    BY <1>1, <1>3, <1>4, <1>6, <1>8, <2>1, <2>2, CaughtUpStays
  <2>4. AsksAll(t)'
    <3>1. CASE a = "batch"
      <4>1. ask[a].new \subseteq ask'[a].new \union {d}
        BY <1>5
      <4>2. ASSUME ask[a].of = t
            PROVE  /\ ask'[a].begin = Later(0, day' - BatchWindow)
                   /\ ask'[a].begin..(day' - 1) \subseteq StoredOf(t)' \union ask'[a].new
        <5>1. /\ ask[a].begin = Later(0, day - BatchWindow)
              /\ ask[a].begin..(day - 1) \subseteq StoredOf(t) \union ask[a].new
          BY <1>1, <2>1, <3>1, <4>2 DEF AsksAll
        <5>2. d \in StoredOf(t)' /\ StoredOf(t) \subseteq StoredOf(t)'
          BY <1>2, <1>4, <4>2
        <5>3. day' = day /\ ask'[a].begin = ask[a].begin
          BY <1>3, <1>5
        <5> QED BY <4>1, <5>1, <5>2, <5>3
      <4> QED BY <1>5, <3>1, <4>2 DEF AsksAll
    <3>2. CASE a = "page"
      BY <1>1, <1>3, <1>4, <1>5, <2>1, <3>2, AsksAllStays
    <3> QED BY <1>1, <3>1, <3>2
  <2> QED BY <2>3, <2>4
<1> QED BY <1>1, <1>3, <1>6, <1>7, <1>8, <1>9 DEF RoundInv

\* A request that ends without a mark: the batch waits for one stock less.
LEMMA WaitingEnds ==
  ASSUME RoundInv, NEW a \in Askers, ask[a] # Nobody, Ends(a), todo' = todo
  PROVE  /\ Queued' = Queued /\ Waiting' = (IF a = "batch" THEN Waiting \ {ask[a].of} ELSE Waiting)
         /\ ask'[a] = Nobody /\ \A b \in Askers : b # a => ask'[b] = ask[b]
<1>1. /\ ask'[a] = Nobody /\ \A b \in Askers : b # a => ask'[b] = ask[b]
      /\ "batch" \in Askers
  BY EndingIsTyped DEF RoundInv, Askers
<1>2. Queued' = Queued
  BY DEF Queued
<1>3. CASE a = "batch"
  <2>1. Waiting' = Queued
    BY <1>1, <1>2, <1>3 DEF Waiting
  <2>2. Waiting = Queued \union {ask[a].of} /\ ask[a].of \notin Queued
    BY <1>3 DEF Waiting, RoundInv
  <2> QED BY <1>1, <1>2, <1>3, <2>1, <2>2
<1>4. CASE a # "batch"
  BY <1>1, <1>2, <1>4 DEF Waiting
<1> QED BY <1>1, <1>2, <1>3, <1>4

LEMMA EndsUnmarkedRound ==
  ASSUME RoundInv, NEW a \in Askers, EndsUnmarked(a)
  PROVE  RoundInv'
<1>1. /\ DisclosureTyped /\ "page" \in Askers /\ "batch" \in Askers /\ "batch" # "page"
      /\ ask[a] # Nobody /\ ~ask[a].judges /\ \A b \in Askers : b = "page" \/ b = "batch"
  BY DEF RoundInv, Askers, EndsUnmarked
<1>2. Ends(a) /\ UNCHANGED <<day, filed, rows, place, synced, fresh, llm, todo, morning, broken, exempt>>
  BY DEF EndsUnmarked
<1>3. ask' \in [Askers -> AskRows \union {Nobody}]
  BY <1>1, <1>2, EndingIsTyped
<1>4. /\ Queued' = Queued /\ Waiting' = (IF a = "batch" THEN Waiting \ {ask[a].of} ELSE Waiting)
      /\ ask'[a] = Nobody /\ \A b \in Askers : b # a => ask'[b] = ask[b]
  BY <1>1, <1>2, WaitingEnds
<1>5. DisclosureTyped'
  BY <1>1, <1>2, <1>3 DEF DisclosureTyped
<1>6. ASSUME NEW t \in Listed \ exempt' PROVE CaughtUp(t)' /\ AsksAll(t)'
  <2>1. CaughtUp(t) /\ AsksAll(t)
    BY <1>2, <1>6 DEF RoundInv
  <2>2. a = "page"
    BY <1>1, <1>2, <1>6 DEF RoundInv
  <2>3. Waiting' = Waiting /\ ask'["batch"] = ask["batch"]
    BY <1>1, <1>4, <2>2
  <2>4. Rest(t)' = Rest(t) /\ StoredOf(t)' = StoredOf(t) /\ broken <= broken'
    BY <1>1, <1>2, <2>3, RestStays, TurnsAreNumbers DEF StoredOf
  <2>5. CaughtUp(t)'
    BY <1>1, <1>2, <1>5, <2>1, <2>3, <2>4, CaughtUpStays
  <2> QED BY <1>2, <2>1, <2>3, <2>4, <2>5, AsksAllStays
<1>7. /\ ~morning' => Waiting' = {}
      /\ ask'["batch"] # Nobody => ask'["batch"].of \notin Queued'
      /\ ask'["batch"] # Nobody /\ ~ask'["batch"].judges => exempt' = Listed
      /\ ask'["page"] # Nobody => ask'["page"].of \in exempt'
  BY <1>1, <1>2, <1>4 DEF RoundInv
<1> QED BY <1>5, <1>6, <1>7 DEF RoundInv

LEMMA RaisesRound ==
  ASSUME RoundInv, NEW a \in Askers, Raises(a)
  PROVE  RoundInv'
<1>1. /\ DisclosureTyped /\ "page" \in Askers /\ "batch" \in Askers /\ "batch" # "page"
      /\ ask[a] # Nobody /\ ask[a].of \in Listed /\ \A b \in Askers : b = "page" \/ b = "batch"
  BY AskIsTyped DEF RoundInv, Askers, Raises
<1>2. /\ Ends(a) /\ broken < MaxBroken /\ broken' = broken + 1
      /\ UNCHANGED <<day, filed, rows, place, synced, fresh, llm, todo, morning, exempt>>
  BY DEF Raises
<1>3. ask' \in [Askers -> AskRows \union {Nobody}]
  BY <1>1, <1>2, EndingIsTyped
<1>4. /\ Queued' = Queued /\ Waiting' = (IF a = "batch" THEN Waiting \ {ask[a].of} ELSE Waiting)
      /\ ask'[a] = Nobody /\ \A b \in Askers : b # a => ask'[b] = ask[b]
  BY <1>1, <1>2, WaitingEnds
<1>5. broken \in Nat /\ broken <= broken' /\ broken' \in 0..MaxBroken
  BY <1>1, <1>2, TurnsAreNumbers, NumbersOfDisclosures
<1>6. DisclosureTyped'
  BY <1>1, <1>2, <1>3, <1>5 DEF DisclosureTyped
<1>7. PICK s \in Listed : s = ask[a].of
  BY <1>1
<1>8. ASSUME NEW t \in Listed \ exempt' PROVE CaughtUp(t)' /\ AsksAll(t)'
  <2>1. CaughtUp(t) /\ AsksAll(t)
    BY <1>2, <1>8 DEF RoundInv
  <2>2. StoredOf(t)' = StoredOf(t)
    BY <1>2 DEF StoredOf
  <2>3. CASE a = "page"
    <3>1. Waiting' = Waiting /\ ask'["batch"] = ask["batch"]
      BY <1>1, <1>4, <2>3
    <3>2. Rest(t)' = Rest(t)
      BY <1>2, <3>1, RestStays
    <3>3. CaughtUp(t)'
      BY <1>1, <1>2, <1>5, <1>6, <2>1, <2>2, <3>1, <3>2, CaughtUpStays
    <3> QED BY <1>2, <2>1, <2>2, <3>1, <3>3, AsksAllStays
  <2>4. CASE a = "batch"
    <3>1. Waiting' = Waiting \ {s} /\ s \in Waiting
      BY <1>1, <1>4, <1>7, <2>4 DEF Waiting
    <3>2. Counted(t)'
      <4>1. /\ Turns(t) \in Int /\ broken \in Nat /\ PerMorning \in Nat /\ PerMorning > 0 /\ Corpus \in Nat
            /\ IsFiniteSet(Rest(t)) /\ Cardinality(Rest(t)) \in Nat
            /\ PerMorning * Turns(t) + Cardinality(Rest(t)) <= Corpus - 1 + PerMorning * broken
        BY <1>1, <2>1, NumbersOfDisclosures, TurnsAreNumbers, RestIsSmall DEF CaughtUp, Counted, DisclosureTyped
      <4>2. /\ Turns(t)' \in {Turns(t), Turns(t) + 1}
            /\ Turns(t)' = day' - synced'[t].on - (IF morning' /\ t \notin Waiting' THEN 0 ELSE 1)
        BY <1>1, <1>2, <3>1, TurnsAreNumbers DEF Turns
      <4>3. PerMorning * (Turns(t) + 1) = PerMorning * Turns(t) + PerMorning /\ PerMorning * Turns(t) \in Int
        BY <4>1
      <4>4. PerMorning * broken' = PerMorning * broken + PerMorning /\ PerMorning * broken \in Int
        BY <1>2, <4>1
      <4>5. CASE t = s
        <5>1. Rest(t)' = Rest(t)
          BY <1>1, <1>2, <3>1, <4>5, PlacesAreRanks DEF Rest, DisclosureTyped
        <5>2. Turns(t)' \in {Turns(t), Turns(t) + 1}
          BY <4>2
        <5>3. PerMorning * Turns(t)' <= PerMorning * Turns(t) + PerMorning /\ PerMorning * Turns(t)' \in Int
          BY <4>1, <4>3, <5>2
        <5> QED BY <4>1, <4>4, <5>1, <5>3 DEF Counted, Corpus
      <4>6. CASE t # s
        <5>1. Rest(t)' \in SUBSET (Rest(t) \union {s})
          BY <1>2, <3>1 DEF Rest
        <5>2. IsFiniteSet(Rest(t) \union {s}) /\ Cardinality(Rest(t) \union {s}) <= Cardinality(Rest(t)) + 1
          <6>1. /\ IsFiniteSet(Rest(t) \union {s})
                /\ Cardinality(Rest(t) \union {s}) = IF s \in Rest(t) THEN Cardinality(Rest(t)) ELSE Cardinality(Rest(t)) + 1
            BY <4>1, FS_AddElement, Zenon
          <6> QED BY <4>1, <6>1
        <5>3. Cardinality(Rest(t)') <= Cardinality(Rest(t) \union {s}) /\ IsFiniteSet(Rest(t)')
          BY <5>1, <5>2, FS_Subset
        <5>4. Cardinality(Rest(t) \union {s}) \in Nat /\ Cardinality(Rest(t)') \in Nat
          BY <5>2, <5>3, FS_CardinalityType
        <5>5. Turns(t)' = Turns(t)
          BY <1>2, <3>1, <4>6 DEF Turns
        <5> QED BY <4>1, <4>3, <4>4, <5>2, <5>3, <5>4, <5>5 DEF Counted, Corpus
      <4> QED BY <4>5, <4>6
    <3>3. CaughtUp(t)'
      BY <1>2, <2>1, <2>2, <3>1, <3>2 DEF CaughtUp
    <3>4. AsksAll(t)'
      BY <1>4, <2>4 DEF AsksAll
    <3> QED BY <3>3, <3>4
  <2> QED BY <1>1, <2>3, <2>4
<1>9. /\ ~morning' => Waiting' = {}
      /\ ask'["batch"] # Nobody => ask'["batch"].of \notin Queued'
      /\ ask'["batch"] # Nobody /\ ~ask'["batch"].judges => exempt' = Listed
      /\ ask'["page"] # Nobody => ask'["page"].of \in exempt'
  BY <1>1, <1>2, <1>4 DEF RoundInv
<1> QED BY <1>6, <1>8, <1>9 DEF RoundInv

LEMMA RestartsRound ==
  ASSUME RoundInv, NEW a \in Askers, Restarts(a)
  PROVE  RoundInv'
<1>1. /\ DisclosureTyped /\ "page" \in Askers /\ "batch" \in Askers /\ "batch" # "page"
      /\ \A b \in Askers : b = "page" \/ b = "batch"
  BY DEF RoundInv, Askers
<1>2. /\ Ends(a) /\ llm' = [llm EXCEPT ![a] = TRUE]
      /\ UNCHANGED <<day, filed, rows, place, synced, fresh, morning, broken>>
  BY DEF Restarts
<1>3. /\ ask' \in [Askers -> AskRows \union {Nobody}] /\ llm' \in [Askers -> BOOLEAN]
      /\ ask'[a] = Nobody /\ \A b \in Askers : b # a => ask'[b] = ask[b]
  BY <1>1, <1>2, EndingIsTyped DEF DisclosureTyped
<1>4. CASE a = "batch"
  <2>1. todo' = <<>> /\ exempt' = Listed
    BY <1>4 DEF Restarts
  <2>2. DisclosureTyped'
    BY <1>1, <1>2, <1>3, <2>1 DEF DisclosureTyped
  <2>3. Waiting' = {}
    BY <1>3, <1>4, <2>1 DEF Waiting, Queued
  <2>4. ask'["page"] # Nobody => ask'["page"].of \in exempt'
    BY <1>1, <1>3, <1>4, <2>1 DEF RoundInv, DisclosureTyped
  <2> QED BY <1>3, <1>4, <2>1, <2>2, <2>3, <2>4 DEF RoundInv
<1>5. CASE a = "page"
  <2>1. todo' = todo /\ exempt' = exempt
    BY <1>5 DEF Restarts
  <2>2. DisclosureTyped'
    BY <1>1, <1>2, <1>3, <2>1 DEF DisclosureTyped
  <2>3. ask'["batch"] = ask["batch"] /\ ask'["page"] = Nobody
    BY <1>1, <1>3, <1>5
  <2>4. Waiting' = Waiting /\ Queued' = Queued
    BY <2>1, <2>3 DEF Waiting, Queued
  <2>5. ASSUME NEW t \in Listed \ exempt' PROVE CaughtUp(t)' /\ AsksAll(t)'
    <3>1. CaughtUp(t) /\ AsksAll(t)
      BY <2>1, <2>5 DEF RoundInv
    <3>2. Rest(t)' = Rest(t) /\ StoredOf(t)' = StoredOf(t) /\ broken <= broken'
      BY <1>1, <1>2, <2>4, RestStays, TurnsAreNumbers DEF StoredOf
    <3>3. CaughtUp(t)'
      BY <1>1, <1>2, <2>2, <2>4, <3>1, <3>2, CaughtUpStays
    <3> QED BY <1>2, <2>3, <3>1, <3>2, <3>3, AsksAllStays
  <2> QED BY <1>1, <1>2, <2>1, <2>2, <2>3, <2>4, <2>5 DEF RoundInv
<1> QED BY <1>1, <1>4, <1>5

\* A stock that is synchronised goes to the end, the others keep their order.
LEMMA GoesToTheEnd ==
  ASSUME place \in Rankings, NEW s \in Listed,
         place' = [t \in Listed |-> IF t = s THEN Cardinality(Listed) ELSE IF place[t] > place[s] THEN place[t] - 1 ELSE place[t]]
  PROVE  /\ place' \in Rankings
         /\ \A t \in Listed : ~ (place'[s] < place'[t])
         /\ \A t, u \in Listed \ {s} : place'[u] < place'[t] => place[u] < place[t]
<1>1. /\ Corpus \in Nat
      /\ \A t \in Listed : /\ place[t] \in Nat /\ 1 <= place[t] /\ place[t] <= Corpus
                           /\ \A u \in Listed : place[u] = place[t] => u = t
  BY NumbersOfDisclosures, PlacesAreRanks
<1>2. /\ DOMAIN place' = Listed /\ place'[s] = Corpus
      /\ \A t \in Listed \ {s} : place'[t] = IF place[t] > place[s] THEN place[t] - 1 ELSE place[t]
      /\ place' = [t \in Listed |-> place'[t]]
  BY DEF Corpus
<1>3. \A t \in Listed \ {s} : place'[t] \in Nat /\ 1 <= place'[t] /\ place'[t] < Corpus
  BY <1>1, <1>2
<1>4. \A t, u \in Listed \ {s} : place'[u] < place'[t] => place[u] < place[t]
  BY <1>1, <1>2
<1>5. \A t, u \in Listed \ {s} : place'[u] = place'[t] => u = t
  BY <1>1, <1>2
<1>6. \A t \in Listed : place'[t] \in 1..Corpus
  BY <1>1, <1>2, <1>3
<1>7. \A t, u \in Listed : t # u => place'[t] # place'[u]
  BY <1>1, <1>2, <1>3, <1>5
<1>8. place' \in Rankings
  BY <1>2, <1>6, <1>7 DEF Rankings, Corpus
<1>9. \A t \in Listed : ~ (place'[s] < place'[t])
  BY <1>1, <1>2, <1>3
<1> QED BY <1>4, <1>8, <1>9

LEMMA MarkSyncedRound ==
  ASSUME WideEnough, RoundInv, NEW a \in Askers, MarkSynced(a)
  PROVE  RoundInv'
<1>1. /\ DisclosureTyped /\ "page" \in Askers /\ "batch" \in Askers /\ "batch" # "page"
      /\ ask[a] # Nobody /\ ask[a].new = {} /\ ask[a].of \in Listed /\ \A b \in Askers : b = "page" \/ b = "batch"
  BY AskIsTyped DEF RoundInv, Askers, MarkSynced
<1>2. PICK s \in Listed : s = ask[a].of
  BY <1>1
<1>3. /\ place' = [t \in Listed |-> IF t = s THEN Cardinality(Listed) ELSE IF place[t] > place[s] THEN place[t] - 1 ELSE place[t]]
      /\ fresh' = fresh \union {s} /\ Ends(a)
      /\ UNCHANGED <<day, filed, rows, llm, todo, morning, broken, exempt>>
  BY <1>2 DEF MarkSynced
<1>4. DOMAIN synced' = Listed /\ synced'[s].on = day /\ \A t \in Listed : t # s => synced'[t] = synced[t]
  <2>1. PICK from : synced' = [synced EXCEPT ![s] = [on |-> day, from |-> from]]
    BY <1>2 DEF MarkSynced
  <2> QED BY <1>1, <2>1 DEF DisclosureTyped
<1>5. ask' \in [Askers -> AskRows \union {Nobody}]
  BY <1>1, <1>3, EndingIsTyped
<1>6. /\ Queued' = Queued /\ Waiting' = (IF a = "batch" THEN Waiting \ {s} ELSE Waiting)
      /\ ask'[a] = Nobody /\ \A b \in Askers : b # a => ask'[b] = ask[b]
  BY <1>1, <1>2, <1>3, WaitingEnds
<1>7. /\ place' \in Rankings
      /\ \A t \in Listed : ~ (place'[s] < place'[t])
      /\ \A t, u \in Listed \ {s} : place'[u] < place'[t] => place[u] < place[t]
  BY <1>1, <1>3, GoesToTheEnd DEF DisclosureTyped
<1>8. DisclosureTyped'
  <2>1. \A t \in Listed : synced'[t].on \in -1..day
    <3>1. day \in Nat /\ \A t \in Listed : synced[t].on \in -1..day
      BY <1>1, TurnsAreNumbers DEF DisclosureTyped
    <3> QED BY <1>4, <3>1
  <2> QED BY <1>1, <1>3, <1>4, <1>5, <1>7, <2>1 DEF DisclosureTyped
<1>9. ASSUME NEW t \in Listed \ exempt' PROVE CaughtUp(t)' /\ AsksAll(t)'
  <2>1. CaughtUp(t) /\ AsksAll(t)
    BY <1>3, <1>9 DEF RoundInv
  <2>2. StoredOf(t)' = StoredOf(t) /\ day' = day
    BY <1>3 DEF StoredOf
  <2>3. CASE t # s
    <3>1. t \in Waiting' <=> t \in Waiting
      BY <1>6, <2>3
    <3>2. Rest(t)' \subseteq Rest(t)
      <4>1. ASSUME NEW u \in Listed, u \notin Waiting', place'[u] < place'[t] PROVE u \in Rest(t)
        <5>1. u # s
          BY <1>7, <4>1
        <5>2. u \notin Waiting /\ place[u] < place[t]
          BY <1>6, <1>7, <2>3, <4>1, <5>1
        <5> QED BY <5>2 DEF Rest
      <4> QED BY <4>1 DEF Rest
    <3>3. CaughtUp(t)'
      BY <1>1, <1>3, <1>4, <1>8, <2>1, <2>2, <2>3, <3>1, <3>2, CaughtUpStays, TurnsAreNumbers
    <3>4. AsksAll(t)'
      BY <1>1, <1>2, <1>6, <2>1, <2>2, <2>3 DEF AsksAll
    <3> QED BY <3>3, <3>4
  <2>4. CASE t = s
    <3>1. a = "batch"
      BY <1>1, <1>2, <1>3, <1>9, <2>4 DEF RoundInv
    <3>2. morning /\ t \notin Waiting'
      BY <1>1, <1>2, <1>6, <2>4, <3>1 DEF RoundInv, DisclosureTyped, Waiting
    <3>3. 0..(day - 1) \subseteq StoredOf(t)
      <4>1. /\ day - BatchWindow <= synced[t].on /\ synced[t].on \in Int /\ day \in Nat /\ BatchWindow \in Nat
            /\ 0..(synced[t].on - 1) \subseteq StoredOf(t)
        BY <1>1, <2>1, WindowReaches, TurnsAreNumbers, NumbersOfDisclosures DEF CaughtUp
      <4>2. Later(0, day - BatchWindow)..(day - 1) \subseteq StoredOf(t)
        BY <1>1, <1>2, <2>1, <2>4, <3>1 DEF AsksAll
      <4>3. ASSUME NEW d \in 0..(day - 1) PROVE d \in StoredOf(t)
        <5>1. CASE d <= synced[t].on - 1
          BY <4>1, <5>1
        <5>2. CASE synced[t].on <= d
          <6>1. d \in Later(0, day - BatchWindow)..(day - 1)
            BY <4>1, <5>2 DEF Later
          <6> QED BY <4>2, <6>1
        <5> QED BY <4>1, <5>1, <5>2
      <4> QED BY <4>3
    <3>4. Counted(t)'
      <4>1. Turns(t)' = 0
        BY <1>1, <1>3, <1>4, <2>4, <3>2, TurnsAreNumbers DEF Turns
      <4>2. Cardinality(Rest(t)') \in Nat /\ Cardinality(Rest(t)') <= Corpus - 1
        <5>1. Rest(t)' \in SUBSET (Listed \ {t})
          BY <1>7, <1>8, <2>4 DEF Rest
        <5>2. IsFiniteSet(Listed \ {t}) /\ Cardinality(Listed \ {t}) = Corpus - 1
          BY NumbersOfDisclosures, FS_RemoveElement DEF Corpus
        <5>3. IsFiniteSet(Rest(t)') /\ Cardinality(Rest(t)') <= Corpus - 1
          BY <5>1, <5>2, FS_Subset
        <5> QED BY <5>3, FS_CardinalityType
      <4>3. PerMorning * Turns(t)' = 0 /\ PerMorning * broken' \in Nat /\ Corpus \in Nat
        BY <1>1, <1>3, <4>1, NumbersOfDisclosures, TurnsAreNumbers
      <4> QED BY <4>2, <4>3 DEF Counted, Corpus
    <3>5. CaughtUp(t)'
      BY <1>3, <1>4, <2>2, <2>4, <3>2, <3>3, <3>4 DEF CaughtUp
    <3>6. AsksAll(t)'
      BY <1>6, <3>1 DEF AsksAll
    <3> QED BY <3>5, <3>6
  <2> QED BY <2>3, <2>4
<1>10. /\ ~morning' => Waiting' = {}
       /\ ask'["batch"] # Nobody => ask'["batch"].of \notin Queued'
       /\ ask'["batch"] # Nobody /\ ~ask'["batch"].judges => exempt' = Listed
       /\ ask'["page"] # Nobody => ask'["page"].of \in exempt'
  BY <1>1, <1>3, <1>6 DEF RoundInv
<1> QED BY <1>8, <1>9, <1>10 DEF RoundInv

LEMMA QuietRound ==
  ASSUME RoundInv, Filings \/ HoursPass \/ UNCHANGED disclosureVars
  PROVE  RoundInv'
<1>1. /\ UNCHANGED <<day, rows, place, synced, llm, ask, todo, morning, broken, exempt>>
      /\ fresh' \subseteq fresh /\ filed' \in BOOLEAN /\ DisclosureTyped
  BY DEF Filings, HoursPass, disclosureVars, RoundInv, DisclosureTyped
<1>2. DisclosureTyped'
  BY <1>1 DEF DisclosureTyped
<1>3. Waiting' = Waiting /\ Queued' = Queued
  BY <1>1 DEF Waiting, Queued
<1>4. ASSUME NEW t \in Listed \ exempt' PROVE CaughtUp(t)' /\ AsksAll(t)'
  <2>1. CaughtUp(t) /\ AsksAll(t)
    BY <1>1, <1>4 DEF RoundInv
  <2>2. Rest(t)' = Rest(t) /\ StoredOf(t)' = StoredOf(t) /\ broken <= broken'
    BY <1>1, <1>3, RestStays, TurnsAreNumbers DEF StoredOf
  <2>3. CaughtUp(t)'
    BY <1>1, <1>2, <1>3, <2>1, <2>2, CaughtUpStays
  <2> QED BY <1>1, <2>1, <2>2, <2>3, AsksAllStays
<1> QED BY <1>1, <1>2, <1>3, <1>4 DEF RoundInv

LEMMA NextMorningRound ==
  ASSUME RoundInv, NextMorning
  PROVE  RoundInv'
<1>1. /\ DisclosureTyped /\ "batch" \in Askers /\ "page" \in Askers
      /\ day < LastDay /\ morning /\ todo = <<>> /\ \A a \in Askers : ask[a] = Nobody
      /\ day' = day + 1 /\ filed' = FALSE /\ fresh' = {} /\ morning' = FALSE
      /\ UNCHANGED <<rows, place, synced, llm, ask, todo, broken, exempt>>
  BY DEF NextMorning, RoundInv, Askers
<1>2. Waiting = {} /\ Waiting' = {}
  BY <1>1 DEF Waiting, Queued
<1>3. DisclosureTyped'
  <2>1. day' \in 0..LastDay /\ \A s \in Listed : synced[s].on \in -1..day'
    <3>1. day \in Nat /\ LastDay \in Nat /\ \A s \in Listed : synced[s].on \in -1..day
      BY <1>1, NumbersOfDisclosures DEF DisclosureTyped
    <3> QED BY <1>1, <3>1
  <2>2. /\ UNCHANGED <<rows, place, synced, llm, ask, todo, broken, exempt>>
        /\ fresh' = {} /\ morning' \in BOOLEAN /\ filed' \in BOOLEAN /\ DisclosureTyped
    BY DEF NextMorning, RoundInv
  <2> QED BY <2>1, <2>2 DEF DisclosureTyped
<1>4. ASSUME NEW t \in Listed \ exempt' PROVE CaughtUp(t)' /\ AsksAll(t)'
  <2>1. CaughtUp(t)
    BY <1>1, <1>4 DEF RoundInv
  <2>2. Turns(t)' = Turns(t)
    BY <1>1, <1>2, TurnsAreNumbers DEF Turns
  <2>3. Rest(t)' = Rest(t) /\ StoredOf(t)' = StoredOf(t)
    BY <1>1, <1>2, RestStays DEF StoredOf
  <2>4. Counted(t)'
    BY <1>1, <2>1, <2>2, <2>3 DEF CaughtUp, Counted, Corpus
  <2>5. ~ (synced'[t].on = day')
    BY <1>1, TurnsAreNumbers
  <2>6. CaughtUp(t)'
    BY <1>1, <2>1, <2>3, <2>4, <2>5 DEF CaughtUp
  <2> QED BY <1>1, <2>6 DEF AsksAll
<1> QED BY <1>1, <1>2, <1>3, <1>4 DEF RoundInv

\* A queue of the places of a set, in order, has each of them once.
LEMMA QueueHasAll ==
  ASSUME place \in Rankings, NEW S \in SUBSET Listed, IsFiniteSet(S),
         NEW q \in [1..Cardinality(S) -> S], InOrder(q)
  PROVE  /\ q \in Seq(Listed) /\ Len(q) = Cardinality(S) /\ \A i, j \in 1..Len(q) : q[i] = q[j] => i = j
         /\ {q[i] : i \in 1..Len(q)} = S
<1>1. PICK n \in Nat : n = Cardinality(S)
  BY FS_CardinalityType
<1>2. q \in [1..n -> S] /\ q \in Seq(Listed) /\ Len(q) = n
  BY <1>1
<1>3. \A i \in 1..n : place[q[i]] \in Nat
  BY <1>2, PlacesAreRanks
<1>4. \A i, j \in 1..n : i < j => place[q[i]] < place[q[j]]
  BY <1>2 DEF InOrder
<1>5. \A i, j \in 1..n : q[i] = q[j] => i = j
  BY <1>3, <1>4
<1>6. q \in Surjection(1..n, S)
  <2>1. q \in Injection(1..n, S)
    BY <1>2, <1>5 DEF Injection, IsInjective
  <2>2. Cardinality(1..n) = n
    BY FS_Interval
  <2> QED BY <1>1, <2>1, <2>2, FS_Injection
<1>7. {q[i] : i \in 1..n} = S
  BY <1>2, <1>6 DEF Surjection
<1> QED BY <1>1, <1>2, <1>5, <1>7

LEMMA BatchBeginsRound ==
  ASSUME RoundInv, BatchBegins
  PROVE  RoundInv'
<1>1. /\ DisclosureTyped /\ "batch" \in Askers /\ "page" \in Askers
      /\ ~morning /\ morning' = TRUE
      /\ UNCHANGED <<day, filed, rows, place, synced, fresh, llm, ask, broken, exempt>>
  BY DEF BatchBegins, RoundInv, Askers
<1>2. Waiting = {} /\ ask["batch"] = Nobody
  BY <1>1 DEF RoundInv, Waiting, DisclosureTyped, AskRows
<1> DEFINE pending == Listed \ fresh
           batch == {s \in pending : Cardinality(Before(s, pending)) < PerMorning}
<1>3. PICK B \in SUBSET Listed : B = batch
  OBVIOUS
<1>4. PICK q \in [1..Cardinality(B) -> B] : InOrder(q) /\ todo' = q
  BY <1>3 DEF BatchBegins
<1>5. IsFiniteSet(B) /\ place \in Rankings
  BY <1>1, NumbersOfDisclosures, FS_Subset DEF DisclosureTyped
<1>6. /\ todo' \in Seq(Listed) /\ \A i, j \in 1..Len(todo') : todo'[i] = todo'[j] => i = j
      /\ {todo'[i] : i \in 1..Len(todo')} = B
  BY <1>4, <1>5, QueueHasAll
<1>7. Queued' = B /\ Waiting' = B
  BY <1>1, <1>2, <1>6 DEF Queued, Waiting
<1>8. DisclosureTyped'
  BY <1>1, <1>6 DEF DisclosureTyped
<1>9. ASSUME NEW t \in Listed \ exempt' PROVE CaughtUp(t)' /\ AsksAll(t)'
  <2>1. CaughtUp(t)
    BY <1>1, <1>9 DEF RoundInv
  <2>2. ~ (synced[t].on = day) /\ t \notin fresh
    BY <1>1, <2>1 DEF CaughtUp
  <2>3. StoredOf(t)' = StoredOf(t)
    BY <1>1 DEF StoredOf
  <2>4. Rest(t)' = Rest(t) \ B
    BY <1>1, <1>2, <1>7 DEF Rest
  <2>5. /\ Turns(t) \in Int /\ broken \in Nat /\ PerMorning \in Nat /\ PerMorning > 0 /\ Corpus \in Nat
        /\ IsFiniteSet(Rest(t)) /\ Cardinality(Rest(t)) \in Nat /\ PerMorning * broken \in Int
        /\ PerMorning * Turns(t) + Cardinality(Rest(t)) <= Corpus - 1 + PerMorning * broken
    <3>1. Turns(t) \in Int /\ broken \in Nat
      BY <1>1, TurnsAreNumbers
    <3>2. PerMorning \in Nat /\ PerMorning > 0 /\ Corpus \in Nat
      BY NumbersOfDisclosures
    <3>3. IsFiniteSet(Rest(t)) /\ Cardinality(Rest(t)) \in Nat
      BY <1>5, RestIsSmall
    <3>4. PerMorning * Turns(t) + Cardinality(Rest(t)) <= Corpus - 1 + PerMorning * broken
      BY <2>1 DEF CaughtUp, Counted
    <3> QED BY <3>1, <3>2, <3>3, <3>4
  <2>6. Counted(t)'
    <3>1. CASE t \in B
      <4>1. Turns(t)' = Turns(t)
        BY <1>1, <1>7, <3>1 DEF Turns
      <4>2. Cardinality(Rest(t)') <= Cardinality(Rest(t)) /\ Cardinality(Rest(t)') \in Nat
        BY <2>4, <2>5, FS_Subset, FS_CardinalityType
      <4> QED BY <1>1, <2>5, <4>1, <4>2 DEF Counted, Corpus
    <3>2. CASE t \notin B
      <4>1. Turns(t)' = Turns(t) + 1
        BY <1>1, <1>7, <3>2, TurnsAreNumbers DEF Turns
      <4>2. PICK u \in pending \ B : \A v \in pending \ B : ~ (place[v] < place[u])
        <5>1. t \in pending \ B
          BY <2>2, <3>2
        <5>2. pending \ B \in SUBSET Listed
          OBVIOUS
        <5> HIDE DEF pending
        <5> QED BY <1>5, <5>1, <5>2, OneStandsFirst
      <4>3. u \in Listed /\ ~ (place[t] < place[u]) /\ ~ (Cardinality(Before(u, pending)) < PerMorning)
        BY <1>3, <2>2, <3>2, <4>2
      <4>0. PICK F : F = Before(u, pending)
        OBVIOUS
      <4>4. F \subseteq B
        BY <1>3, <4>0, <4>2 DEF Before
      <4>5. F \in SUBSET Rest(t)
        <5>1. \A v \in Listed : place[v] \in Nat
          BY <1>5, PlacesAreRanks
        <5> QED BY <1>2, <4>0, <4>3, <5>1 DEF Before, Rest
      <4>6. IsFiniteSet(F) /\ Cardinality(F) \in Nat /\ PerMorning <= Cardinality(F)
        <5>1. IsFiniteSet(F)
          BY <2>5, <4>5, FS_Subset, Zenon
        <5>2. Cardinality(F) \in Nat
          BY <5>1, FS_CardinalityType, Zenon
        <5> QED BY <2>5, <4>0, <4>3, <5>1, <5>2
      <4>7. Rest(t)' \in SUBSET (Rest(t) \ F)
        BY <2>4, <4>4
      <4>8. IsFiniteSet(Rest(t) \ F) /\ Cardinality(Rest(t) \ F) = Cardinality(Rest(t)) - Cardinality(F)
        <5>1. Rest(t) \intersect F = F
          BY <4>5
        <5>2. /\ IsFiniteSet(Rest(t) \ F)
              /\ Cardinality(Rest(t) \ F) = Cardinality(Rest(t)) - Cardinality(Rest(t) \intersect F)
          BY <2>5, FS_Difference
        <5> QED BY <5>1, <5>2
      <4>9. Cardinality(Rest(t)') <= Cardinality(Rest(t)) - PerMorning /\ Cardinality(Rest(t)') \in Nat
        <5>1. IsFiniteSet(Rest(t)') /\ Cardinality(Rest(t)') <= Cardinality(Rest(t) \ F)
          BY <4>7, <4>8, FS_Subset
        <5>2. Cardinality(Rest(t)') \in Nat
          BY <5>1, FS_CardinalityType
        <5> QED BY <2>5, <4>6, <4>8, <5>1, <5>2
      <4>10. PerMorning * (Turns(t) + 1) = PerMorning * Turns(t) + PerMorning /\ PerMorning * Turns(t) \in Int
        BY <2>5
      <4>11. PerMorning * Turns(t)' = PerMorning * Turns(t) + PerMorning /\ broken' = broken
        BY <1>1, <4>1, <4>10
      <4>12. PerMorning * Turns(t)' + Cardinality(Rest(t)') <= Corpus - 1 + PerMorning * broken'
        <5>1. PICK x \in Int, y \in Int : x = PerMorning * Turns(t) /\ y = PerMorning * broken
          BY <2>5, <4>10
        <5>2. /\ PerMorning * Turns(t)' = x + PerMorning /\ PerMorning * broken' = y
              /\ x + Cardinality(Rest(t)) <= Corpus - 1 + y
          BY <2>5, <4>11, <5>1
        <5>3. Cardinality(Rest(t)) \in Nat /\ PerMorning \in Nat /\ Corpus \in Nat
          BY <2>5
        <5> QED BY ONLY <4>9, <5>1, <5>2, <5>3
      <4> QED BY <4>12 DEF Counted, Corpus
    <3> QED BY <3>1, <3>2
  <2>7. CaughtUp(t)'
    BY <1>1, <2>1, <2>2, <2>3, <2>6 DEF CaughtUp
  <2> QED BY <1>1, <1>2, <2>7 DEF AsksAll
<1> QED BY <1>1, <1>2, <1>8, <1>9 DEF RoundInv

LEMMA BatchTakesRound ==
  ASSUME RoundInv, BatchTakes
  PROVE  RoundInv'
<1>1. /\ DisclosureTyped /\ "batch" \in Askers /\ "page" \in Askers /\ "batch" # "page"
      /\ ask["batch"] = Nobody /\ todo # <<>> /\ todo' = Tail(todo)
      /\ UNCHANGED <<day, filed, rows, place, synced, fresh, llm, morning, broken>>
  BY DEF BatchTakes, RoundInv, Askers
<1>2. PICK s \in Listed : s = Head(todo)
  BY <1>1, HeadTailProperties DEF DisclosureTyped
<1>3. PICK begin \in 0..LastDay : begin = Later(0, day - BatchWindow)
  <2>1. day \in Nat /\ day <= LastDay /\ LastDay \in Nat /\ BatchWindow \in Nat
    BY <1>1, NumbersOfDisclosures DEF DisclosureTyped
  <2>2. Later(0, day - BatchWindow) \in 0..LastDay
    BY <2>1 DEF Later
  <2> QED BY <2>2
<1>4. ~ Skips(s, begin, day)
  BY <1>1, TurnsAreNumbers DEF Skips
<1>5. /\ Asks("batch", s, begin, Listing(begin))
      /\ exempt' = IF ~Named(s) THEN exempt \union {s} ELSE IF llm["batch"] THEN exempt ELSE Listed
  BY <1>2, <1>3, <1>4 DEF BatchTakes
<1>6. Listing(begin) \in SUBSET (0..LastDay) /\ begin..(day - 1) \subseteq Listing(begin)
  BY <1>1, NumbersOfDisclosures DEF Listing, DisclosureTyped
<1>7. /\ ask' \in [Askers -> AskRows \union {Nobody}] /\ ask'["batch"] # Nobody
      /\ ask'["batch"].of = s /\ ask'["batch"].begin = begin
      /\ Named(s) => ask'["batch"].new = Listing(begin) \ StoredOf(s) /\ ask'["batch"].judges = llm["batch"]
      /\ ~Named(s) => ask'["batch"].judges
      /\ ask'["page"] = ask["page"]
  BY <1>1, <1>5, <1>6, AskingIsTyped
<1>8. /\ todo' \in Seq(Listed) /\ Len(todo') = Len(todo) - 1 /\ Len(todo) \in Nat /\ Len(todo) > 0 /\ s = todo[1]
      /\ \A i \in 1..Len(todo') : todo'[i] = todo[i + 1]
      /\ \A i, j \in 1..Len(todo) : todo[i] = todo[j] => i = j
  BY <1>1, <1>2, HeadTailProperties DEF DisclosureTyped
<1>9. Queued' = Queued \ {s} /\ s \in Queued
  <2>1. s \in Queued
    BY <1>8 DEF Queued
  <2>2. ASSUME NEW i \in 1..Len(todo') PROVE todo'[i] \in Queued \ {s}
    <3>1. i + 1 \in 1..Len(todo) /\ i + 1 # 1 /\ 1 \in 1..Len(todo)
      BY <1>8
    <3> QED BY <1>8, <3>1 DEF Queued
  <2>3. ASSUME NEW i \in 1..Len(todo), todo[i] # s PROVE todo[i] \in Queued'
    <3>1. i - 1 \in 1..Len(todo') /\ todo'[i - 1] = todo[(i - 1) + 1] /\ (i - 1) + 1 = i
      BY <1>8, <2>3
    <3> QED BY <3>1 DEF Queued
  <2>4. Queued' \subseteq Queued \ {s}
    BY <2>2 DEF Queued
  <2>5. Queued \ {s} \subseteq Queued'
    BY <2>3 DEF Queued
  <2> QED BY <2>1, <2>4, <2>5
<1>10. Waiting' = Waiting /\ ask'["batch"].of \notin Queued'
  BY <1>1, <1>7, <1>9 DEF Waiting
<1>11. DisclosureTyped'
  <2>1. \A i, j \in 1..Len(todo') : todo'[i] = todo'[j] => i = j
    <3>1. \A i \in 1..Len(todo') : i \in Int /\ i + 1 \in 1..Len(todo)
      BY <1>8
    <3>2. ASSUME NEW i \in 1..Len(todo'), NEW j \in 1..Len(todo'), todo'[i] = todo'[j] PROVE i = j
      <4>1. todo[i + 1] = todo[j + 1]
        BY <1>8, <3>2
      <4>2. i + 1 = j + 1
        BY <1>8, <3>1, <4>1
      <4> QED BY <3>1, <4>2
    <3> QED BY <3>2
  <2>2. exempt' \subseteq Listed
    BY <1>1, <1>5 DEF DisclosureTyped
  <2> QED BY <1>1, <1>7, <1>8, <2>1, <2>2 DEF DisclosureTyped
<1>12. /\ exempt \subseteq exempt' /\ (exempt = Listed => exempt' = Listed)
       /\ Named(s) /\ ~llm["batch"] => exempt' = Listed
       /\ ~Named(s) => s \in exempt'
  BY <1>1, <1>2, <1>5 DEF DisclosureTyped
<1>13. ASSUME NEW t \in Listed \ exempt' PROVE CaughtUp(t)' /\ AsksAll(t)'
  <2>1. CaughtUp(t)
    BY <1>12, <1>13 DEF RoundInv
  <2>2. Rest(t)' = Rest(t) /\ StoredOf(t)' = StoredOf(t) /\ broken <= broken'
    BY <1>1, <1>10, RestStays, TurnsAreNumbers DEF StoredOf
  <2>3. CaughtUp(t)'
    BY <1>1, <1>10, <1>11, <2>1, <2>2, CaughtUpStays
  <2>4. AsksAll(t)'
    <3>1. s = t => Named(s)
      BY <1>12, <1>13
    <3> QED BY <1>1, <1>3, <1>6, <1>7, <2>2, <3>1 DEF AsksAll
  <2> QED BY <2>3, <2>4
<1>14. /\ ~morning' => Waiting' = {}
       /\ ask'["batch"] # Nobody /\ ~ask'["batch"].judges => exempt' = Listed
       /\ ask'["page"] # Nobody => ask'["page"].of \in exempt'
  BY <1>1, <1>7, <1>10, <1>12 DEF RoundInv
<1> QED BY <1>10, <1>11, <1>13, <1>14 DEF RoundInv

LEMMA InitRoundInv ==
  ASSUME DisclosureInit
  PROVE  RoundInv
<1>1. /\ day = 0 /\ filed = FALSE /\ rows = [s \in Listed |-> <<>>] /\ place \in Rankings
      /\ synced = [s \in Listed |-> Never] /\ fresh = {} /\ llm \in [Askers -> BOOLEAN]
      /\ ask = [a \in Askers |-> Nobody] /\ todo = <<>> /\ morning = FALSE /\ broken = 0 /\ exempt = {}
      /\ "batch" \in Askers /\ "page" \in Askers
  BY DEF DisclosureInit, Askers
<1>2. DOMAIN synced = Listed /\ \A s \in Listed : synced[s].on = -1
  BY <1>1 DEF Never
<1>3. DisclosureTyped
  <2>1. todo \in Seq(Listed) /\ \A i, j \in 1..Len(todo) : todo[i] = todo[j] => i = j
    BY <1>1
  <2>2. ask \in [Askers -> AskRows \union {Nobody}] /\ DOMAIN rows = Listed
    BY <1>1
  <2>3. day \in 0..LastDay /\ broken \in 0..MaxBroken /\ \A s \in Listed : synced[s].on \in -1..day
    BY <1>1, <1>2, NumbersOfDisclosures
  <2> QED BY <1>1, <1>2, <2>1, <2>2, <2>3 DEF DisclosureTyped
<1>4. Waiting = {}
  BY <1>1 DEF Waiting, Queued
<1>5. ASSUME NEW s \in Listed PROVE CaughtUp(s) /\ AsksAll(s)
  <2>1. Turns(s) = 0
    BY <1>1, <1>2 DEF Turns
  <2>2. Counted(s)
    BY <1>1, <2>1, RestIsSmall, NumbersOfDisclosures DEF Counted
  <2> QED BY <1>1, <1>2, <2>2 DEF CaughtUp, AsksAll
<1> QED BY <1>1, <1>3, <1>4, <1>5 DEF RoundInv

LEMMA RoundInductive ==
  ASSUME WideEnough, RoundInv, [DisclosureNext]_disclosureVars
  PROVE  RoundInv'
BY BatchBeginsRound, BatchTakesRound, PageTakesRound, ListIsCutRound, StoresNextRound, MarkSyncedRound,
   EndsUnmarkedRound, RaisesRound, RestartsRound, QuietRound, NextMorningRound, Zenon DEF DisclosureNext

LEMMA RoundReaches ==
  ASSUME WideEnough, RoundInv, day > 0
  PROVE  \A s \in Listed \ exempt : 0..(day - BatchWindow - 1) \subseteq StoredOf(s)
<1>1. TAKE s \in Listed \ exempt
<1>2. DisclosureTyped /\ CaughtUp(s) /\ s \in Listed
  BY DEF RoundInv
<1>3. /\ day - BatchWindow <= synced[s].on /\ synced[s].on \in Int /\ day \in Nat /\ BatchWindow \in Nat
      /\ 0..(synced[s].on - 1) \subseteq StoredOf(s)
  BY <1>2, WindowReaches, TurnsAreNumbers, NumbersOfDisclosures DEF CaughtUp
<1> QED BY <1>3

LEMMA JudgementStays ==
  ASSUME RoundInv, [DisclosureNext]_disclosureVars
  PROVE  [\A s \in Listed : \A d \in StoredOf(s) :
            rows[s][d] = "judged" => d \in DOMAIN rows'[s] /\ rows'[s][d] = "judged"]_disclosureVars
<1>1. ASSUME NEW a \in Askers, StoresNext(a)
      PROVE  \A t \in Listed : \A e \in StoredOf(t) : e \in DOMAIN rows'[t] /\ rows'[t][e] = rows[t][e]
  <2>1. PICK s \in Listed : \E d, how : rows' = [rows EXCEPT ![s] = Insert(s, d, how)]
    BY <1>1, AskIsTyped DEF StoresNext, RoundInv
  <2>2. PICK d, how : rows' = [rows EXCEPT ![s] = Insert(s, d, how)]
    BY <2>1
  <2> QED BY <2>2, InsertGrows DEF RoundInv, StoredOf
<1>2. CASE \E a \in Askers : StoresNext(a)
  BY <1>1, <1>2
<1>3. CASE UNCHANGED rows
  BY <1>3 DEF StoredOf
<1>4. CASE UNCHANGED disclosureVars
  BY <1>4
<1>5. DisclosureNext => UNCHANGED rows \/ \E a \in Askers : StoresNext(a)
  <2>1. BatchBegins \/ BatchTakes \/ Filings \/ HoursPass \/ NextMorning => UNCHANGED rows
    BY DEF BatchBegins, BatchTakes, Filings, HoursPass, NextMorning
  <2>2. \A s \in Viewed : PageTakes(s) => UNCHANGED rows
    BY DEF PageTakes
  <2>3. \A a \in Askers : ListIsCut(a) \/ MarkSynced(a) \/ EndsUnmarked(a) \/ Raises(a) \/ Restarts(a) => UNCHANGED rows
    BY DEF ListIsCut, MarkSynced, EndsUnmarked, Raises, Restarts
  <2> QED BY <2>1, <2>2, <2>3, Zenon DEF DisclosureNext
<1> QED BY <1>2, <1>3, <1>4, <1>5

\* If the window takes in a round of the universe and the mornings that fail, the
\* morning batch misses nothing, and a judgement stays (dart_ingest.py:
\* run_disclosure_batch, sync_disclosures).
THEOREM DisclosuresAlwaysStand ==
  ASSUME WideEnough
  PROVE  DisclosureInit /\ [][DisclosureNext]_disclosureVars => DisclosuresStand
<1>1. RoundInv /\ [DisclosureNext]_disclosureVars => RoundInv'
  BY RoundInductive
<1>2. RoundInv => (day > 0 => \A s \in Listed \ exempt : 0..(day - BatchWindow - 1) \subseteq StoredOf(s))
  BY RoundReaches
<1> HIDE DEF RoundInv
<1> QED BY InitRoundInv, <1>1, <1>2, JudgementStays, PTL DEF DisclosuresStand

-----------------------------------------------------------------------------
(* The broadcasts.                                                         *)
Files == (SUBSET Messages) \union {Absent}
Steps == {"ready", "archive", "send", "header", "fallback", "done", "died"}
JobRows == [at : Steps, left : SUBSET Messages, log : SUBSET Messages]

\* What is archived is somewhere, and an ingest that is about to remove a file
\* has carried on what was in it.
BroadcastInv ==
  /\ DOMAIN brief = Briefs /\ \A j \in Briefs : brief[j] \in JobRows
  /\ DOMAIN writing = Briefs /\ \A j \in Briefs : writing[j] \in {Absent, "spool", "working", "gone"}
  /\ spool \in Files /\ working \in Files
  /\ \A j \in Briefs : (writing[j] = "spool" => spool # Absent) /\ (writing[j] = "working" => working # Absent)
  /\ at = "unlink" => Content(spool) \ late \subseteq Content(working)
  /\ at = "commit" => Content(working) \ late \subseteq lines
  /\ at = "remove" => Content(working) \ late \subseteq stored
  /\ ArchivedIsKept

LEMMA InitBroadcastInv ==
  ASSUME BroadcastInit
  PROVE  BroadcastInv
<1>5. "ready" \in Steps
  BY DEF Steps
<1>1. ASSUME NEW j \in Briefs
      PROVE  brief[j] \in JobRows /\ writing[j] = Absent /\ MessagesOf[j] \ brief[j].log = {}
  <2>1. brief[j] = [at |-> "ready", left |-> MessagesOf[j], log |-> MessagesOf[j]] /\ MessagesOf[j] \in SUBSET Messages
    BY BroadcastAssumption DEF BroadcastInit
  <2> QED BY <1>5, <2>1 DEF JobRows, BroadcastInit
<1>2. DOMAIN brief = Briefs /\ DOMAIN writing = Briefs /\ spool = Absent /\ working = Absent /\ at = "free"
  BY DEF BroadcastInit
<1>3. Written = {}
  BY <1>1 DEF Written
<1>4. Absent \notin {"spool", "working", "gone"}
  BY BroadcastAssumption
<1> QED BY <1>1, <1>2, <1>3, <1>4 DEF BroadcastInv, Files, ArchivedIsKept

\* The steps of a job that touch no file.
LEMMA SendingKeepsRows ==
  ASSUME BroadcastInv, NEW i \in Briefs,
         \/ Starts(i) \/ Archived(i) \/ SendsPlain(i) \/ Loads(i) \/ MakesTopic(i) \/ SendsToTopic(i)
         \/ PostsHeader(i) \/ TelegramFails(i) \/ Killed(i)
  PROVE  DOMAIN brief' = Briefs /\ \A j \in Briefs : brief'[j] \in JobRows /\ brief'[j].log = brief[j].log
<1>1. DOMAIN brief = Briefs /\ \A j \in Briefs : brief[j] \in JobRows
  BY DEF BroadcastInv
<1>2. ASSUME NEW step \in Steps, Moves(i, step)
      PROVE  DOMAIN brief' = Briefs /\ \A j \in Briefs : brief'[j] \in JobRows /\ brief'[j].log = brief[j].log
  <2>1. brief' = [brief EXCEPT ![i] = [brief[i] EXCEPT !.at = step]]
    BY <1>2 DEF Moves
  <2>2. PICK r : r = brief[i] /\ r \in JobRows
    BY <1>1
  <2>3. [r EXCEPT !.at = step] \in JobRows /\ [r EXCEPT !.at = step].log = r.log
    BY <1>2, <2>2 DEF JobRows
  <2> HIDE DEF JobRows
  <2> QED BY <1>1, <2>1, <2>2, <2>3
<1>3. CASE Starts(i)
  BY <1>2, <1>3 DEF Starts, Steps
<1>4. CASE Archived(i)
  BY <1>2, <1>4 DEF Archived, Steps
<1>5. CASE SendsPlain(i)
  <2>1. PICK left \in SUBSET Messages, step \in Steps : brief' = [brief EXCEPT ![i].left = left, ![i].at = step]
    <3>1. brief[i] \in JobRows
      BY <1>1
    <3>2. brief[i].left \in SUBSET Messages /\ brief[i].at \in Steps
      BY <3>1 DEF JobRows
    <3>3. {"done", "archive", "header"} \subseteq Steps
      BY DEF Steps
    <3>4. \A m : brief[i].left \ {m} \in SUBSET Messages
      BY <3>2
    <3> QED BY <1>5, <3>2, <3>3, <3>4 DEF SendsPlain
  <2>2. PICK r : r = brief[i] /\ r \in JobRows
    BY <1>1
  <2>3. brief' = [brief EXCEPT ![i] = [r EXCEPT !.left = left, !.at = step]]
    BY <2>1, <2>2
  <2>4. [r EXCEPT !.left = left, !.at = step] \in JobRows /\ [r EXCEPT !.left = left, !.at = step].log = r.log
    BY <2>1, <2>2 DEF JobRows
  <2> HIDE DEF JobRows
  <2> QED BY <1>1, <2>2, <2>3, <2>4
<1>6. CASE Loads(i) \/ MakesTopic(i)
  BY <1>1, <1>6 DEF Loads, MakesTopic
<1>7. CASE SendsToTopic(i)
  <2>1. PICK left \in SUBSET Messages, step \in Steps : brief' = [brief EXCEPT ![i].left = left, ![i].at = step]
    <3>1. brief[i] \in JobRows
      BY <1>1
    <3>2. brief[i].left \in SUBSET Messages /\ brief[i].at \in Steps
      BY <3>1 DEF JobRows
    <3>3. {"done", "archive", "header"} \subseteq Steps
      BY DEF Steps
    <3>4. \A m : brief[i].left \ {m} \in SUBSET Messages
      BY <3>2
    <3> QED BY <1>7, <3>2, <3>3, <3>4 DEF SendsToTopic
  <2>2. PICK r : r = brief[i] /\ r \in JobRows
    BY <1>1
  <2>3. brief' = [brief EXCEPT ![i] = [r EXCEPT !.left = left, !.at = step]]
    BY <2>1, <2>2
  <2>4. [r EXCEPT !.left = left, !.at = step] \in JobRows /\ [r EXCEPT !.left = left, !.at = step].log = r.log
    BY <2>1, <2>2 DEF JobRows
  <2> HIDE DEF JobRows
  <2> QED BY <1>1, <2>2, <2>3, <2>4
<1>8. CASE PostsHeader(i)
  BY <1>2, <1>8 DEF PostsHeader, Steps
<1>9. CASE TelegramFails(i)
  <2>1. MessagesOf[i] \in SUBSET Messages
    BY BroadcastAssumption
  <2>2. CASE Moves(i, "died")
    BY <1>2, <2>2 DEF Steps
  <2>3. CASE brief' = [brief EXCEPT ![i].at = "fallback", ![i].left = MessagesOf[i]]
    BY <1>1, <2>1, <2>3 DEF JobRows, Steps
  <2> QED BY <1>9, <2>2, <2>3 DEF TelegramFails
<1>10. CASE Killed(i)
  BY <1>2, <1>10 DEF Killed, Steps
<1> QED BY <1>3, <1>4, <1>5, <1>6, <1>7, <1>8, <1>9, <1>10

LEMMA SendingKeeps ==
  ASSUME BroadcastInv, NEW i \in Briefs,
         \/ Starts(i) \/ Archived(i) \/ SendsPlain(i) \/ Loads(i) \/ MakesTopic(i) \/ SendsToTopic(i)
         \/ PostsHeader(i) \/ TelegramFails(i) \/ Killed(i)
  PROVE  BroadcastInv'
<1>1. DOMAIN brief' = Briefs /\ \A j \in Briefs : brief'[j] \in JobRows /\ brief'[j].log = brief[j].log
  BY SendingKeepsRows
<1>2. UNCHANGED <<spool, working, at, lines, stored, late>>
  BY DEF Starts, Archived, SendsPlain, Loads, MakesTopic, SendsToTopic, PostsHeader, TelegramFails, Killed, files
<1>3. DOMAIN writing' = Briefs /\ \A j \in Briefs : writing'[j] \in {writing[j], Absent}
  BY DEF BroadcastInv, Starts, Archived, SendsPlain, Loads, MakesTopic, SendsToTopic, PostsHeader, TelegramFails, Killed, files
<1>4. Written' = Written
  BY <1>1 DEF Written
<1>5. ArchivedIsKept'
  BY <1>2, <1>4 DEF BroadcastInv, ArchivedIsKept, Content
<1>6. Absent \notin {"spool", "working", "gone"}
  BY BroadcastAssumption
<1> HIDE DEF Files, JobRows
<1> QED BY <1>1, <1>2, <1>3, <1>5, <1>6 DEF BroadcastInv, Content

\* The steps of a job that do.
LEMMA ArchivingKeeps ==
  ASSUME BroadcastInv, NEW i \in Briefs, Opens(i) \/ Appends(i)
  PROVE  BroadcastInv'
<1>1. Absent \notin {"spool", "working", "gone"} /\ \A S \in SUBSET Messages : S # Absent
  BY BroadcastAssumption
<1>2. CASE Opens(i)
  <2>1. spool' = Content(spool) /\ Content(spool) \in SUBSET Messages
    BY <1>2 DEF Opens, BroadcastInv, Files, Content
  <2>2. spool' \in Files /\ spool' # Absent /\ Content(spool)' = Content(spool)
    BY <1>1, <2>1 DEF Files, Content
  <2>3. DOMAIN writing' = Briefs /\ \A j \in Briefs : writing'[j] = IF j = i THEN "spool" ELSE writing[j]
    BY <1>2 DEF Opens, BroadcastInv
  <2>4. UNCHANGED <<brief, working, at, lines, stored, late>>
    BY <1>2 DEF Opens
  <2>5. Written' = Written
    BY <2>4 DEF Written
  <2>6. Content(working)' = Content(working)
    BY <2>4 DEF Content
  <2>7. ArchivedIsKept'
    BY <2>2, <2>4, <2>5, <2>6 DEF BroadcastInv, ArchivedIsKept
  <2> HIDE DEF Files, JobRows
  <2> QED BY <2>2, <2>3, <2>4, <2>6, <2>7, <1>1 DEF BroadcastInv
<1>3. CASE Appends(i)
  <2>1. PICK m \in brief[i].log :
          /\ brief' = [brief EXCEPT ![i].log = @ \ {m}]
          /\ spool' = IF writing[i] = "spool" THEN spool \union {m} ELSE spool
          /\ working' = IF writing[i] = "working" THEN working \union {m} ELSE working
          /\ late' = IF writing[i] # "spool" \/ at = "unlink" THEN late \union {m} ELSE late
    BY <1>3 DEF Appends
  <2>2. writing' = [writing EXCEPT ![i] = Absent] /\ UNCHANGED <<at, lines, stored>> /\ writing[i] # Absent
    BY <1>3 DEF Appends
  <2>3. brief[i] \in JobRows /\ m \in Messages
    BY <2>1 DEF BroadcastInv, JobRows
  <2>4. /\ DOMAIN brief' = Briefs
        /\ \A j \in Briefs : brief'[j] \in JobRows /\ (j # i => brief'[j] = brief[j])
        /\ brief'[i].log = brief[i].log \ {m}
    BY <2>1, <2>3 DEF BroadcastInv, JobRows
  <2>5. DOMAIN writing' = Briefs /\ \A j \in Briefs : writing'[j] = IF j = i THEN Absent ELSE writing[j]
    BY <2>2 DEF BroadcastInv
  <2>6. /\ Content(spool)' = IF writing[i] = "spool" THEN Content(spool) \union {m} ELSE Content(spool)
        /\ spool' \in Files /\ (spool # Absent => spool' # Absent)
    <3>1. CASE writing[i] = "spool"
      <4>1. spool # Absent /\ spool \in SUBSET Messages
        BY <3>1 DEF BroadcastInv, Files
      <4>2. spool' = spool \union {m} /\ spool \union {m} \in SUBSET Messages
        BY <2>1, <2>3, <3>1, <4>1
      <4> QED BY <1>1, <3>1, <4>1, <4>2 DEF Content, Files
    <3>2. CASE writing[i] # "spool"
      BY <2>1, <3>2 DEF BroadcastInv, Content
    <3> QED BY <3>1, <3>2
  <2>7. /\ Content(working)' = IF writing[i] = "working" THEN Content(working) \union {m} ELSE Content(working)
        /\ working' \in Files /\ (working # Absent => working' # Absent)
    <3>1. CASE writing[i] = "working"
      <4>1. working # Absent /\ working \in SUBSET Messages
        BY <3>1 DEF BroadcastInv, Files
      <4>2. working' = working \union {m} /\ working \union {m} \in SUBSET Messages
        BY <2>1, <2>3, <3>1, <4>1
      <4> QED BY <1>1, <3>1, <4>1, <4>2 DEF Content, Files
    <3>2. CASE writing[i] # "working"
      BY <2>1, <3>2 DEF BroadcastInv, Content
    <3> QED BY <3>1, <3>2
  <2>8. Written' \subseteq Written \union {m}
    BY <2>4 DEF Written
  <2>9. m \in late' \/ m \in Content(spool)'
    BY <2>1, <2>6
  <2>10. late \subseteq late'
    BY <2>1
  <2>11. ArchivedIsKept'
    BY <2>2, <2>6, <2>7, <2>8, <2>9, <2>10 DEF BroadcastInv, ArchivedIsKept
  <2>12. at' = "unlink" => Content(spool)' \ late' \subseteq Content(working)'
    BY <2>1, <2>2, <2>6, <2>7 DEF BroadcastInv
  <2>13. at' = "commit" => Content(working)' \ late' \subseteq lines'
    BY <2>1, <2>2, <2>6, <2>7 DEF BroadcastInv
  <2>14. at' = "remove" => Content(working)' \ late' \subseteq stored'
    BY <2>1, <2>2, <2>6, <2>7 DEF BroadcastInv
  <2>15. \A j \in Briefs : (writing'[j] = "spool" => spool' # Absent) /\ (writing'[j] = "working" => working' # Absent)
    BY <1>1, <2>5, <2>6, <2>7 DEF BroadcastInv
  <2>16. \A j \in Briefs : writing'[j] \in {Absent, "spool", "working", "gone"}
    BY <2>5 DEF BroadcastInv
  <2> HIDE DEF Files, JobRows
  <2> QED BY <2>4, <2>5, <2>6, <2>7, <2>11, <2>12, <2>13, <2>14, <2>15, <2>16 DEF BroadcastInv
<1> QED BY <1>2, <1>3

\* The steps of an ingest.
LEMMA IngestKeeps ==
  ASSUME BroadcastInv, IngestStep \/ IngestDies
  PROVE  BroadcastInv'
<1>1. Absent \notin {"spool", "working", "gone"} /\ \A S \in SUBSET Messages : S # Absent
  BY BroadcastAssumption
<1>2. brief' = brief /\ late' = late
  BY DEF IngestStep, IngestDies, Locks, Claims, UnlinksSpool, Reads, Commits, CommitFails, Removes
<1>3. Written' = Written
  BY <1>2 DEF Written
<1>4. CASE \/ \E i \in Ingesters : Locks(i)
           \/ CommitFails \/ IngestDies
  <2>1. UNCHANGED <<spool, working, writing, stored>> /\ at' \in {"claim", "free"}
    BY <1>4 DEF Locks, CommitFails, IngestDies, Releases
  <2>2. ArchivedIsKept'
    BY <1>2, <1>3, <2>1 DEF BroadcastInv, ArchivedIsKept, Content
  <2> HIDE DEF Files, JobRows
  <2> QED BY <1>2, <2>1, <2>2 DEF BroadcastInv
<1>5. CASE Claims
  <2>1. stored' = stored /\ at = "claim"
    BY <1>5 DEF Claims
  <2>2. CASE working # Absent /\ spool # Absent
    <3>1. at' = "unlink" /\ working' = working \union spool /\ UNCHANGED <<spool, writing, lines>>
      BY <1>5, <2>2 DEF Claims
    <3>2. working \union spool \in SUBSET Messages
      BY <2>2 DEF BroadcastInv, Files
    <3>3. working' \in Files /\ working' # Absent /\ Content(working)' = Content(working) \union Content(spool)
          /\ Content(spool)' = Content(spool)
      BY <1>1, <2>2, <3>1, <3>2 DEF Files, Content
    <3>4. ArchivedIsKept'
      BY <1>2, <1>3, <2>1, <3>1, <3>3 DEF BroadcastInv, ArchivedIsKept
    <3> HIDE DEF Files, JobRows
    <3> QED BY <1>2, <2>1, <3>1, <3>3, <3>4 DEF BroadcastInv
  <2>3. CASE working # Absent /\ spool = Absent
    <3>1. at' = "read" /\ UNCHANGED <<spool, working, writing, lines>>
      BY <1>5, <2>3 DEF Claims
    <3>2. ArchivedIsKept'
      BY <1>2, <1>3, <2>1, <3>1 DEF BroadcastInv, ArchivedIsKept, Content
    <3> HIDE DEF Files, JobRows
    <3> QED BY <1>2, <2>1, <3>1, <3>2 DEF BroadcastInv
  <2>4. CASE working = Absent /\ Content(spool) # {}
    <3>1. /\ at' = "read" /\ working' = spool /\ spool' = Absent /\ writing' = Follow("spool", "working")
      BY <1>5, <2>4 DEF Claims
    <3>2. spool # Absent /\ spool' \in Files /\ working' \in Files /\ working' # Absent
      BY <2>4, <3>1 DEF BroadcastInv, Files, Content
    <3>3. Content(working)' = Content(spool) /\ Content(spool)' = {} /\ Content(working) = {}
      BY <2>4, <3>1 DEF Content
    <3>4. ArchivedIsKept'
      BY <1>2, <1>3, <2>1, <3>3 DEF BroadcastInv, ArchivedIsKept
    <3>5. DOMAIN writing' = Briefs /\ \A j \in Briefs : writing'[j] = IF writing[j] = "spool" THEN "working" ELSE writing[j]
      BY <3>1 DEF Follow
    <3>6. \A j \in Briefs : writing'[j] \in {Absent, "spool", "working", "gone"} /\ writing'[j] # "spool"
      BY <3>5 DEF BroadcastInv
    <3> HIDE DEF Files, JobRows
    <3> QED BY <1>2, <2>1, <3>1, <3>2, <3>4, <3>5, <3>6 DEF BroadcastInv
  <2>5. CASE working = Absent /\ Content(spool) = {}
    <3>1. at' = "free" /\ UNCHANGED <<spool, working, writing>>
      BY <1>5, <2>5 DEF Claims, Releases
    <3>2. ArchivedIsKept'
      BY <1>2, <1>3, <2>1, <3>1 DEF BroadcastInv, ArchivedIsKept, Content
    <3> HIDE DEF Files, JobRows
    <3> QED BY <1>2, <2>1, <3>1, <3>2 DEF BroadcastInv
  <2> QED BY <2>2, <2>3, <2>4, <2>5
<1>6. CASE UnlinksSpool
  <2>1. at = "unlink" /\ at' = "read" /\ spool' = Absent /\ writing' = Follow("spool", "gone") /\ UNCHANGED <<working, stored>>
    BY <1>6 DEF UnlinksSpool
  <2>2. spool' \in Files /\ Content(spool)' = {} /\ Content(working)' = Content(working)
    BY <2>1 DEF Files, Content
  <2>3. ArchivedIsKept'
    BY <1>2, <1>3, <2>1, <2>2 DEF BroadcastInv, ArchivedIsKept
  <2>4. DOMAIN writing' = Briefs /\ \A j \in Briefs : writing'[j] = IF writing[j] = "spool" THEN "gone" ELSE writing[j]
    BY <2>1 DEF Follow
  <2>5. \A j \in Briefs : /\ writing'[j] \in {Absent, "spool", "working", "gone"} /\ writing'[j] # "spool"
                          /\ (writing'[j] = "working" => writing[j] = "working")
    BY <2>4 DEF BroadcastInv
  <2> HIDE DEF Files, JobRows
  <2> QED BY <1>2, <2>1, <2>2, <2>3, <2>4, <2>5 DEF BroadcastInv
<1>7. CASE Reads \/ Commits
  <2>1. UNCHANGED <<spool, working, writing>> /\ stored \subseteq stored'
    BY <1>7 DEF Reads, Commits
  <2>2. Content(spool)' = Content(spool) /\ Content(working)' = Content(working)
    BY <2>1 DEF Content
  <2>3. ArchivedIsKept'
    BY <1>2, <1>3, <2>1, <2>2 DEF BroadcastInv, ArchivedIsKept
  <2>4. CASE Reads
    <3>1. at' = "commit" /\ lines' = working
      BY <2>4 DEF Reads
    <3>2. Content(working) \subseteq working
      BY DEF Content
    <3> HIDE DEF Files, JobRows
    <3> QED BY <1>2, <2>1, <2>2, <2>3, <3>1, <3>2 DEF BroadcastInv
  <2>5. CASE Commits
    <3>1. at = "commit" /\ at' = "remove" /\ stored' = stored \union lines
      BY <2>5 DEF Commits
    <3> HIDE DEF Files, JobRows
    <3> QED BY <1>2, <2>1, <2>2, <2>3, <3>1 DEF BroadcastInv
  <2> QED BY <1>7, <2>4, <2>5
<1>8. CASE Removes
  <2>1. at = "remove" /\ at' = "free" /\ working' = Absent /\ writing' = Follow("working", "gone") /\ UNCHANGED <<spool, stored>>
    BY <1>8 DEF Removes, Releases
  <2>2. working' \in Files /\ Content(spool)' = Content(spool) /\ Content(working)' = {}
    BY <2>1 DEF Files, Content
  <2>3. ArchivedIsKept'
    BY <1>2, <1>3, <2>1, <2>2 DEF BroadcastInv, ArchivedIsKept
  <2>4. DOMAIN writing' = Briefs /\ \A j \in Briefs : writing'[j] = IF writing[j] = "working" THEN "gone" ELSE writing[j]
    BY <2>1 DEF Follow
  <2>5. \A j \in Briefs : /\ writing'[j] \in {Absent, "spool", "working", "gone"} /\ writing'[j] # "working"
                          /\ (writing'[j] = "spool" => writing[j] = "spool")
    BY <2>4 DEF BroadcastInv
  <2> HIDE DEF Files, JobRows
  <2> QED BY <1>2, <2>1, <2>2, <2>3, <2>4, <2>5 DEF BroadcastInv
<1> QED BY <1>4, <1>5, <1>6, <1>7, <1>8 DEF IngestStep

LEMMA BroadcastInductive ==
  ASSUME BroadcastInv, [BroadcastNext]_broadcastVars
  PROVE  BroadcastInv'
<1>1. ASSUME NEW j \in Briefs, BriefStep(j) \/ TelegramFails(j) \/ Killed(j)
      PROVE  BroadcastInv'
  <2> HIDE DEF BroadcastInv
  <2> QED BY <1>1, SendingKeeps, ArchivingKeeps DEF BriefStep
<1>2. CASE UNCHANGED broadcastVars
  <2> HIDE DEF Files, JobRows
  <2> QED BY <1>2 DEF BroadcastInv, ArchivedIsKept, Written, Content, broadcastVars
<1> HIDE DEF BroadcastInv
<1> QED BY <1>1, <1>2, IngestKeeps DEF BroadcastNext

\* What a job has archived is in the table or in a file the next ingest reads,
\* whoever dies or fails where; only a line that reached a file already claimed
\* is excepted (archive.py, broadcast_ingest.py).
THEOREM ArchiveIsKept == BroadcastInit /\ [][BroadcastNext]_broadcastVars => []ArchivedIsKept
<1>1. BroadcastInv => ArchivedIsKept
  BY DEF BroadcastInv
<1> HIDE DEF BroadcastInit, BroadcastInv
<1> QED BY <1>1, InitBroadcastInv, BroadcastInductive, PTL

-----------------------------------------------------------------------------
(* The calendar of the economy.  The hash of a row always names the figures *)
(* and the side of today that one of its two texts was written of; days do  *)
(* not pass in a run, so a run stores hash and text of one side.            *)

\* The hash is of one of the row's texts.
HashOfText(row) == row.told.past \in BOOLEAN /\ TextOf(row, row.told.past) = row.told

Untold(row) == row.impact = NoText /\ row.expectation = NoText /\ row.told = NoText

Sound(row) == Untold(row) \/ HashOfText(row)

CalendarSound ==
  /\ calendar = [e \in Events |-> calendar[e]]
  /\ \A e \in Events : calendar[e] # NoEvent => Sound(calendar[e])

\* What a run holds while it writes texts.
Holds(me) ==
  /\ me = Telling(me.rows, me.todo, me.told)
  /\ me.rows = [e \in Events |-> me.rows[e]]
  /\ me.todo \subseteq Events /\ me.told \subseteq Events
  /\ \A e \in me.todo \union me.told : Sound(me.rows[e]) /\ Sound(calendar[e])
  /\ \A e \in me.told : me.rows[e].told.past = IsPast(e) /\ TextOf(me.rows[e], IsPast(e)) = me.rows[e].told

RunnersSound ==
  /\ runner = [r \in Runners |-> runner[r]]
  /\ \A r \in Runners : runner[r].at = "tell" => Holds(runner[r])

CalendarInv == CalendarSound /\ RunnersSound

LEMMA PastIsBoolean == \A e : IsPast(e) \in BOOLEAN
  BY DEF IsPast

LEMMA NewIsSound == Sound(NewEvent)
  BY DEF Sound, Untold, NewEvent, Event

LEMMA FiguresKeepSound ==
  ASSUME NEW row, Sound(row), NEW a, NEW p
  PROVE Sound(Event(a, p, row.impact, row.expectation, row.told))
<1> DEFINE new == Event(a, p, row.impact, row.expectation, row.told)
<1>1. new.impact = row.impact /\ new.expectation = row.expectation /\ new.told = row.told
  BY DEF Event
<1> HIDE DEF new
<1>2. CASE Untold(row)
  BY <1>1, <1>2 DEF Sound, Untold, new
<1>3. CASE HashOfText(row)
  <2>1. \A past : TextOf(new, past) = TextOf(row, past)
    BY <1>1 DEF TextOf
  <2>2. HashOfText(new)
    BY <1>1, <1>3, <2>1 DEF HashOfText
  <2> QED BY <2>2 DEF Sound, new
<1> QED BY <1>2, <1>3 DEF Sound

\* What is written of a row is of its figures.
LEMMA WriteIsSound ==
  ASSUME NEW row, NEW past \in BOOLEAN
  PROVE Sound(Write(row, past)) /\ Write(row, past).told.past = past
        /\ TextOf(Write(row, past), past) = Write(row, past).told
<1> DEFINE inputs == Inputs(row, past)  new == Write(row, past)
<1>1. inputs.past = past
  BY DEF Inputs
<1>2. /\ new.told = inputs
      /\ past => new.impact = inputs
      /\ ~past => new.expectation = inputs
  BY DEF Write, Hash, Event
<1> HIDE DEF inputs, new
<1>3. TextOf(new, past) = inputs
  BY <1>2 DEF TextOf
<1>4. HashOfText(new)
  BY <1>1, <1>2, <1>3 DEF HashOfText
<1> QED BY <1>1, <1>2, <1>3, <1>4 DEF Sound, new

LEMMA StoredIsSound ==
  ASSUME NEW row, NEW kept, NEW past \in BOOLEAN,
         kept.told.past = past, TextOf(kept, past) = kept.told
  PROVE Sound(StoredText(row, kept, past))
<1> DEFINE new == StoredText(row, kept, past)
<1>1. /\ new.told = kept.told
      /\ past => new.impact = kept.impact
      /\ ~past => new.expectation = kept.expectation
  BY DEF StoredText, Event
<1> HIDE DEF new
<1>2. TextOf(new, past) = kept.told
  BY <1>1 DEF TextOf
<1>3. HashOfText(new)
  BY <1>1, <1>2 DEF HashOfText
<1> QED BY <1>3 DEF Sound, new

\* A row that gets other figures stays sound, in the calendar and for the
\* runs that hold it.
LEMMA SoundRowsSuffice ==
  ASSUME CalendarInv, runner' = [r \in Runners |-> runner'[r]],
         calendar' = [e \in Events |-> calendar'[e]],
         \A e \in Events : calendar'[e] = calendar[e] \/ Sound(calendar'[e]),
         calendarDay' = calendarDay,
         \A r \in Runners : runner'[r] = runner[r] \/ runner'[r].at # "tell"
  PROVE CalendarInv'
<1>1. CalendarSound'
  BY DEF CalendarInv, CalendarSound
<1>2. ASSUME NEW r \in Runners, runner'[r].at = "tell" PROVE Holds(runner[r])'
  <2>1. runner'[r] = runner[r] /\ Holds(runner[r])
    BY <1>2 DEF CalendarInv, RunnersSound
  <2>2. \A e : IsPast(e)' = IsPast(e)
    BY DEF IsPast
  <2> QED BY <2>1, <2>2 DEF Holds
<1> QED BY <1>1, <1>2 DEF CalendarInv, RunnersSound

LEMMA CalendarInvFirst == CalendarInit => CalendarInv
  BY DEF CalendarInit, CalendarInv, CalendarSound, RunnersSound, Asleep

LEMMA CalendarInvStays == CalendarInv /\ [CalendarNext]_calendarVars => CalendarInv'
<1> SUFFICES ASSUME CalendarInv, [CalendarNext]_calendarVars PROVE CalendarInv'
  OBVIOUS
<1>0. runner = [r \in Runners |-> runner[r]] /\ calendar = [e \in Events |-> calendar[e]]
  BY DEF CalendarInv, CalendarSound, RunnersSound
<1>f. Asleep.at = "idle" /\ [Asleep EXCEPT !.at = "fill"].at = "fill" /\ [Asleep EXCEPT !.at = "load"].at = "load"
  BY DEF Asleep
<1>r. \A e \in Events : Sound(Row(e))
  BY NewIsSound DEF Row, CalendarInv, CalendarSound
<1>u. \A e \in Events : \A a, p : Sound(UpsertRow(e, a, p))
  BY <1>r, FiguresKeepSound DEF UpsertRow
<1>1. CASE NextDate
  <2>1. \A r \in Runners : runner'[r].at = "idle"
    BY <1>1 DEF NextDate
  <2> QED BY <1>1, <2>1 DEF NextDate, CalendarInv, CalendarSound, RunnersSound
<1>2. CASE Observe
  BY <1>2, <1>0, SoundRowsSuffice DEF Observe
<1>3. CASE RateMonth
  BY <1>3, <1>0, SoundRowsSuffice DEF RateMonth
<1>4. ASSUME NEW r \in Runners, Gather(r) PROVE CalendarInv'
  <2>1. \A e \in Events : calendar'[e] = calendar[e] \/ Sound(calendar'[e])
    BY <1>4, <1>r, <1>u DEF Gather
  <2>2. calendar' = [e \in Events |-> calendar'[e]]
    BY <1>4 DEF Gather
  <2> QED BY <1>4, <1>0, <1>f, <2>1, <2>2, SoundRowsSuffice DEF Gather
<1>5. ASSUME NEW r \in Runners, FillMeeting(r) PROVE CalendarInv'
  <2>1. \A e \in Events : calendar'[e] = calendar[e] \/ Sound(calendar'[e])
    BY <1>5, <1>0, <1>u DEF FillMeeting
  <2>2. calendar' = [e \in Events |-> calendar'[e]]
    BY <1>5, <1>0 DEF FillMeeting
  <2> QED BY <1>5, <1>0, <1>f, <2>1, <2>2, SoundRowsSuffice DEF FillMeeting
<1>6. ASSUME NEW r \in Runners, LoadTexts(r) PROVE CalendarInv'
  <2>1. CalendarSound'
    BY <1>6 DEF LoadTexts, CalendarInv, CalendarSound
  <2>2. \A e : IsPast(e)' = IsPast(e)
    BY <1>6 DEF LoadTexts, IsPast
  <2>3. ASSUME NEW q \in Runners, runner'[q].at = "tell" PROVE Holds(runner[q])'
    <3>1. CASE q = r
      <4>1. runner'[q] = Telling(calendar, {e \in Events : calendar[e] # NoEvent}, {})
        BY <1>6, <1>0, <3>1 DEF LoadTexts
      <4>2. \A e \in {d \in Events : calendar[d] # NoEvent} : Sound(calendar[e])
        BY DEF CalendarInv, CalendarSound
      <4> QED BY <1>0, <1>6, <2>2, <4>1, <4>2 DEF Holds, LoadTexts, Telling
    <3>2. CASE q # r
      <4>1. runner'[q] = runner[q] /\ Holds(runner[q])
        BY <1>6, <1>0, <2>3, <3>2 DEF LoadTexts, CalendarInv, RunnersSound
      <4> QED BY <1>6, <2>2, <4>1 DEF LoadTexts, Holds
    <3> QED BY <3>1, <3>2
  <2>4. runner' = [q \in Runners |-> runner'[q]]
    BY <1>6, <1>0 DEF LoadTexts
  <2> QED BY <2>1, <2>3, <2>4 DEF CalendarInv, RunnersSound
<1>7. ASSUME NEW r \in Runners, Tell(r) PROVE CalendarInv'
  <2> DEFINE me == runner[r]
  <2>1. PICK e \in Oldest(me.todo) :
          runner' = [runner EXCEPT ![r] =
            Telling([me.rows EXCEPT ![e] = Write(@, IsPast(e))], me.todo \ {e}, me.told \union {e})]
    BY <1>7 DEF Tell
  <2>2. Holds(me) /\ e \in me.todo /\ e \in Events
    BY <1>7, <2>1 DEF Tell, CalendarInv, RunnersSound, Holds, Oldest
  <2>3. \A d : IsPast(d)' = IsPast(d)
    BY <1>7 DEF Tell, IsPast
  <2>4. UNCHANGED calendar
    BY <1>7 DEF Tell
  <2>5. ASSUME NEW q \in Runners, runner'[q].at = "tell" PROVE Holds(runner[q])'
    <3>1. CASE q = r
      <4> DEFINE written == [me.rows EXCEPT ![e] = Write(me.rows[e], IsPast(e))]
      <4>1. runner'[q] = Telling(written, me.todo \ {e}, me.told \union {e})
        BY <1>0, <2>1, <3>1
      <4>2. written = [d \in Events |-> written[d]] /\ written[e] = Write(me.rows[e], IsPast(e))
            /\ \A d \in Events : d # e => written[d] = me.rows[d]
        BY <2>2 DEF Holds
      <4>4. Sound(written[e]) /\ written[e].told.past = IsPast(e) /\ TextOf(written[e], IsPast(e)) = written[e].told
        BY <4>2, PastIsBoolean, WriteIsSound
      <4> HIDE DEF written
      <4>5. \A d \in me.todo \union me.told : Sound(written[d]) /\ Sound(calendar[d])
        BY <2>2, <4>2, <4>4 DEF Holds
      <4>6. \A d \in me.told \union {e} : written[d].told.past = IsPast(d) /\ TextOf(written[d], IsPast(d)) = written[d].told
        BY <2>2, <4>2, <4>4 DEF Holds
      <4>7. (me.todo \ {e}) \subseteq Events /\ (me.told \union {e}) \subseteq Events
        BY <2>2 DEF Holds
      <4> QED BY <2>2, <2>3, <2>4, <4>1, <4>2, <4>5, <4>6, <4>7 DEF Holds, Telling
    <3>2. CASE q # r
      <4>1. runner'[q] = runner[q] /\ Holds(runner[q])
        BY <1>0, <2>1, <2>5, <3>2 DEF CalendarInv, RunnersSound
      <4> QED BY <2>3, <2>4, <4>1 DEF Holds
    <3> QED BY <3>1, <3>2
  <2>6. runner' = [q \in Runners |-> runner'[q]]
    BY <1>0, <2>1
  <2> QED BY <2>4, <2>5, <2>6 DEF CalendarInv, CalendarSound, RunnersSound
<1>8. ASSUME NEW r \in Runners, PassOver(r) PROVE CalendarInv'
  <2> DEFINE me == runner[r]
  <2>1. PICK e \in Oldest(me.todo) : runner' = [runner EXCEPT ![r] = Telling(me.rows, me.todo \ {e}, me.told)]
    BY <1>8 DEF PassOver
  <2>2. Holds(me)
    BY <1>8 DEF PassOver, CalendarInv, RunnersSound
  <2>3. \A d : IsPast(d)' = IsPast(d)
    BY <1>8 DEF PassOver, IsPast
  <2>4. UNCHANGED calendar
    BY <1>8 DEF PassOver
  <2>5. ASSUME NEW q \in Runners, runner'[q].at = "tell" PROVE Holds(runner[q])'
    <3>1. CASE q = r
      <4>1. runner'[q] = Telling(me.rows, me.todo \ {e}, me.told)
        BY <1>0, <2>1, <3>1
      <4> QED BY <2>2, <2>3, <2>4, <4>1 DEF Holds, Telling
    <3>2. CASE q # r
      <4>1. runner'[q] = runner[q] /\ Holds(runner[q])
        BY <1>0, <2>1, <2>5, <3>2 DEF CalendarInv, RunnersSound
      <4> QED BY <2>3, <2>4, <4>1 DEF Holds
    <3> QED BY <3>1, <3>2
  <2>6. runner' = [q \in Runners |-> runner'[q]]
    BY <1>0, <2>1
  <2> QED BY <2>4, <2>5, <2>6 DEF CalendarInv, CalendarSound, RunnersSound
<1>9. ASSUME NEW r \in Runners, StoreTexts(r) PROVE CalendarInv'
  <2>1. Holds(runner[r])
    BY <1>9 DEF StoreTexts, CalendarInv, RunnersSound
  <2>2. ASSUME NEW e \in Events, e \in runner[r].told
        PROVE Sound(StoredText(calendar[e], runner[r].rows[e], IsPast(e)))
    BY <2>1, <2>2, PastIsBoolean, StoredIsSound DEF Holds
  <2>3. \A e \in Events : calendar'[e] = calendar[e] \/ Sound(calendar'[e])
    BY <1>9, <2>2 DEF StoreTexts
  <2>4. calendar' = [e \in Events |-> calendar'[e]]
    BY <1>9 DEF StoreTexts
  <2> QED BY <1>9, <1>0, <1>f, <2>3, <2>4, SoundRowsSuffice DEF StoreTexts
<1>10. ASSUME NEW r \in Runners, Die(r) PROVE CalendarInv'
  BY <1>10, <1>0, <1>f, SoundRowsSuffice DEF Die
<1>11. CASE UNCHANGED calendarVars
  BY <1>11, <1>0, SoundRowsSuffice DEF calendarVars
<1> QED BY <1>1, <1>2, <1>3, <1>4, <1>5, <1>6, <1>7, <1>8, <1>9, <1>10, <1>11 DEF CalendarNext

\* The invariant says what the run checks.
LEMMA InvSaysCurrent == CalendarInv => TextIsOfItsFigures
<1> SUFFICES ASSUME CalendarInv, NEW e \in Events, calendar[e] # NoEvent, IsTold(calendar[e], IsPast(e))
             PROVE TextOf(calendar[e], IsPast(e)) = Inputs(calendar[e], IsPast(e))
  BY DEF TextIsOfItsFigures
<1>1. Sound(calendar[e]) /\ IsPast(e) \in BOOLEAN
  BY PastIsBoolean DEF CalendarInv, CalendarSound
<1>2. calendar[e].told = Inputs(calendar[e], IsPast(e)) /\ TextOf(calendar[e], IsPast(e)) # NoText
  BY DEF IsTold, Hash
<1>3. calendar[e].told.past = IsPast(e)
  BY <1>2 DEF Inputs
<1>4. ~Untold(calendar[e])
  BY <1>2 DEF Untold, TextOf
<1> QED BY <1>1, <1>2, <1>3, <1>4 DEF Sound, HashOfText

(* A text of the calendar that is shown as current was written of the      *)
(* figures the event has (calendar_llm), whatever the runs and the days.   *)
THEOREM TextsAreCurrent == CalendarSpec => []TextIsOfItsFigures
<1> QED BY CalendarInvFirst, CalendarInvStays, InvSaysCurrent, PTL DEF CalendarSpec

-----------------------------------------------------------------------------
(* News and their events.                                                  *)
ArticleRows == [published : 0..LastDate, theme : Answers, classified : BOOLEAN]
TellerRows == [at : {"idle", "tell"}, left : SUBSET Links]

\* An event is of a classified article and not older than it.
EventOK(e, a) ==
  /\ e.link \in Links /\ a[e.link] # NoArticle
  /\ a[e.link].classified /\ a[e.link].theme = e.theme /\ a[e.link].published <= e.date
  /\ e.date \in Nat /\ e.code \in Propagated(e.theme)
\* An article within its time has its events.
ArticleOK(l, a, E, t) ==
  a[l] # NoArticle =>
    /\ a[l] \in ArticleRows /\ a[l].published <= t
    /\ a[l].classified /\ t <= a[l].published + Kept => \A c \in Propagated(a[l].theme) : \E e \in E : e.link = l /\ e.code = c

\* What a run still has to classify has no event yet.
NewsInv ==
  /\ newsDay \in 0..LastDate /\ feed \subseteq Links /\ DOMAIN articles = Links
  /\ teller \in TellerRows
  /\ teller.at = "tell" => \A l \in teller.left : articles[l] = NoArticle \/ ~articles[l].classified
  /\ \A e \in events : EventOK(e, articles)
  /\ \A l \in Links : ArticleOK(l, articles, events, newsDay)

LEMMA InitNewsInv ==
  ASSUME NewsInit
  PROVE  NewsInv
<1>1. Stopped \in TellerRows /\ Stopped.at # "tell"
  BY DEF Stopped, TellerRows
<1>2. 0 \in 0..LastDate
  BY NewsAssumption
<1> HIDE DEF Stopped, TellerRows
<1> QED BY <1>1, <1>2 DEF NewsInit, NewsInv, ArticleOK

LEMMA NewsInvGives ==
  ASSUME NewsInv
  PROVE  NewsStands
<1>1. teller.at # "failed"
  BY DEF NewsInv, TellerRows
<1>2. \A e \in events : e.link \in StoredLinks /\ articles[e.link].theme = e.theme
  BY DEF NewsInv, EventOK, StoredLinks
<1>3. ASSUME NEW l \in StoredLinks, articles[l].published + Kept >= newsDay, articles[l].classified
      PROVE  {e.code : e \in {f \in events : f.link = l}} = Propagated(articles[l].theme)
  <2>1. l \in Links /\ articles[l] # NoArticle
    BY DEF StoredLinks
  <2>2. newsDay <= articles[l].published + Kept
    <3>1. articles[l].published \in Nat
      BY <2>1 DEF NewsInv, ArticleOK, ArticleRows
    <3> QED BY <1>3, <3>1, NewsAssumption DEF NewsInv
  <2>3. \A c \in Propagated(articles[l].theme) : \E e \in events : e.link = l /\ e.code = c
    BY <1>3, <2>1, <2>2 DEF NewsInv, ArticleOK
  <2>4. \A e \in events : e.link = l => e.code \in Propagated(articles[l].theme)
    BY DEF NewsInv, EventOK
  <2> HIDE DEF Propagated
  <2> QED BY <2>3, <2>4
<1> HIDE DEF Propagated
<1> QED BY <1>1, <1>2, <1>3 DEF NewsStands

LEMMA ClassifyInv ==
  ASSUME NewsInv, Classify
  PROVE  NewsInv'
<1>1. PICK l \in teller.left : /\ teller.at = "tell" /\ teller' = [teller EXCEPT !.left = @ \ {l}]
        /\ \/ \E theme \in Answers : articles' = UpsertArticle(l, theme, TRUE) /\ events' = UpsertEvents(l, theme)
           \/ articles' = UpsertArticle(l, NoTheme, FALSE) /\ events' = events
  BY DEF Classify
<1>2. UNCHANGED <<newsDay, feed>> /\ newsDay \in 0..LastDate /\ LastDate \in Nat /\ Kept \in Nat
  BY NewsAssumption DEF Classify, NewsInv
<1>3. PICK q \in TellerRows : q = teller
  BY DEF NewsInv
<1>4. l \in Links /\ (articles[l] = NoArticle \/ ~articles[l].classified)
  BY <1>1, <1>3 DEF NewsInv, TellerRows
<1>5. /\ teller' \in TellerRows /\ teller'.left = q.left \ {l}
  <2>1. PICK L \in SUBSET Links : L = q.left \ {l}
    BY <1>3 DEF TellerRows
  <2>2. [q EXCEPT !.left = L] \in TellerRows /\ [q EXCEPT !.left = L].left = L
    BY <1>3 DEF TellerRows
  <2>3. teller' = [q EXCEPT !.left = L]
    BY <1>1, <1>3, <2>1
  <2> QED BY <2>1, <2>2, <2>3
<1>6. \A e \in events : e.link # l
  BY <1>4 DEF NewsInv, EventOK
<1>7. PICK published \in 0..LastDate : /\ published <= newsDay
                                      /\ published = IF articles[l] = NoArticle THEN newsDay ELSE articles[l].published
  <2>1. articles[l] # NoArticle => articles[l].published \in 0..LastDate /\ articles[l].published <= newsDay
    BY <1>4 DEF NewsInv, ArticleOK, ArticleRows
  <2> QED BY <1>2, <2>1
<1>8. PICK theme \in Answers, done \in BOOLEAN :
        /\ articles' = UpsertArticle(l, theme, done)
        /\ events' = IF done THEN UpsertEvents(l, theme) ELSE events
  <2>1. NoTheme \in Answers
    BY DEF Answers
  <2> QED BY <1>1, <2>1
<1>9. PICK r \in ArticleRows : r = [published |-> published, theme |-> theme, classified |-> done]
                               /\ r.published = published /\ r.theme = theme /\ r.classified = done
  <2>1. PICK r : r = [published |-> published, theme |-> theme, classified |-> done]
    OBVIOUS
  <2>2. r \in ArticleRows /\ r.published = published /\ r.theme = theme /\ r.classified = done
    BY <1>7, <1>8, <2>1 DEF ArticleRows
  <2> QED BY <2>1, <2>2
<1>10. r # NoArticle
  BY <1>9, NewsAssumption DEF ArticleRows, Answers
<1>11. DOMAIN articles' = Links /\ \A k \in Links : articles'[k] = IF k = l THEN r ELSE articles[k]
  BY <1>4, <1>7, <1>8, <1>9 DEF UpsertArticle, NewsInv
<1>12. /\ \A e \in events : e \in events'
       /\ \A e \in events' : e \in events \/ (done /\ \E c \in Propagated(theme) :
                               e = [link |-> l, code |-> c, theme |-> theme, date |-> newsDay])
       /\ done => \A c \in Propagated(theme) : [link |-> l, code |-> c, theme |-> theme, date |-> newsDay] \in events'
  <2> HIDE DEF Propagated
  <2>1. CASE done
    <3>1. events' = events \union {[link |-> l, code |-> c, theme |-> theme, date |-> newsDay] :
                   c \in {d \in Propagated(theme) : ~\E e \in events : e.link = l /\ e.code = d}}
      BY <1>8, <2>1 DEF UpsertEvents
    <3>2. {d \in Propagated(theme) : ~\E e \in events : e.link = l /\ e.code = d} = Propagated(theme)
      BY <1>6
    <3>3. events' = events \union {[link |-> l, code |-> c, theme |-> theme, date |-> newsDay] : c \in Propagated(theme)}
      BY <3>1, <3>2
    <3> QED BY <2>1, <3>3
  <2>2. CASE ~done
    BY <1>8, <2>2
  <2> QED BY <2>1, <2>2
<1>13. ASSUME NEW e \in events' PROVE EventOK(e, articles')
  <2> HIDE DEF Propagated
  <2>1. CASE e \in events
    <3>1. EventOK(e, articles) /\ e.link # l
      BY <1>6, <2>1 DEF NewsInv
    <3> QED BY <1>11, <3>1 DEF EventOK
  <2>2. CASE done /\ \E c \in Propagated(theme) : e = [link |-> l, code |-> c, theme |-> theme, date |-> newsDay]
    <3>1. e.link = l /\ e.theme = theme /\ e.date = newsDay /\ e.code \in Propagated(theme)
      BY <2>2
    <3> QED BY <1>2, <1>4, <1>7, <1>9, <1>10, <1>11, <2>2, <3>1 DEF EventOK
  <2> QED BY <1>12, <2>1, <2>2
<1>14. ASSUME NEW k \in Links PROVE ArticleOK(k, articles', events', newsDay)
  <2> HIDE DEF Propagated
  <2>1. CASE k = l
    <3>1. done => \A c \in Propagated(theme) : \E e \in events' : e.link = l /\ e.code = c
      <4> SUFFICES ASSUME done, NEW c \in Propagated(theme) PROVE \E e \in events' : e.link = l /\ e.code = c
        OBVIOUS
      <4>1. PICK e : e = [link |-> l, code |-> c, theme |-> theme, date |-> newsDay]
        OBVIOUS
      <4> QED BY <1>12, <4>1
    <3> QED BY <1>7, <1>9, <1>11, <2>1, <3>1 DEF ArticleOK
  <2>2. CASE k # l
    <3>1. ArticleOK(k, articles, events, newsDay) /\ articles'[k] = articles[k]
      BY <1>11, <2>2 DEF NewsInv
    <3> QED BY <1>12, <3>1 DEF ArticleOK
  <2> QED BY <2>1, <2>2
<1>15. teller'.at = "tell" => \A k \in teller'.left : articles'[k] = NoArticle \/ ~articles'[k].classified
  <2>1. \A k \in q.left : k \in Links /\ (articles[k] = NoArticle \/ ~articles[k].classified)
    BY <1>1, <1>3 DEF NewsInv, TellerRows
  <2> QED BY <1>5, <1>11, <2>1
<1> HIDE DEF EventOK, ArticleOK, TellerRows
<1> QED BY <1>2, <1>5, <1>11, <1>13, <1>14, <1>15 DEF NewsInv

LEMMA PurgeInv ==
  ASSUME NewsInv, Purge
  PROVE  NewsInv'
<1>1. newsDay \in 0..LastDate /\ LastDate \in Nat /\ Kept \in Nat /\ UNCHANGED <<newsDay, feed>>
  BY NewsAssumption DEF Purge, NewsInv
<1>2. PICK old \in SUBSET StoredLinks :
        /\ \A l \in StoredLinks : articles[l].published + Kept < newsDay => l \in old
        /\ IF \E e \in events \ EventsToDrop(old) : e.link \in old
             THEN TRUE
             ELSE /\ teller' = Stopped /\ events' = events \ EventsToDrop(old)
                  /\ articles' = [l \in Links |-> IF l \in old THEN NoArticle ELSE articles[l]]
  BY DEF Purge
<1>3. ~ \E e \in events \ EventsToDrop(old) : e.link \in old
  BY DEF EventsToDrop
<1>4. teller' = Stopped /\ articles' = [l \in Links |-> IF l \in old THEN NoArticle ELSE articles[l]]
      /\ events' = {e \in events : e.link \notin old /\ ~ (e.date + Kept < newsDay)}
  BY <1>2, <1>3 DEF EventsToDrop
<1>5. teller' \in TellerRows /\ teller'.at = "idle"
  BY <1>4 DEF Stopped, TellerRows
<1>6. DOMAIN articles' = Links /\ \A l \in Links : articles'[l] = IF l \in old THEN NoArticle ELSE articles[l]
  BY <1>4
<1>7. \A e \in events' : EventOK(e, articles')
  <2> HIDE DEF Propagated
  <2> QED BY <1>4, <1>6 DEF EventOK, NewsInv
<1>8. ASSUME NEW l \in Links PROVE ArticleOK(l, articles', events', newsDay)
  <2> HIDE DEF Propagated
  <2>1. CASE l \in old \/ articles[l] = NoArticle
    BY <1>6, <2>1 DEF ArticleOK
  <2>2. CASE l \notin old /\ articles[l] # NoArticle
    <3>1. PICK a \in ArticleRows : a = articles[l] /\ articles'[l] = a /\ a.published \in Nat /\ a.published <= newsDay
      BY <1>6, <2>2 DEF NewsInv, ArticleOK, ArticleRows
    <3>2. newsDay <= a.published + Kept
      <4>1. ~ (a.published + Kept < newsDay)
        BY <1>2, <2>2, <3>1 DEF StoredLinks
      <4> QED BY <1>1, <3>1, <4>1
    <3>3. \A e \in events : e.link = l => e \in events'
      <4> SUFFICES ASSUME NEW e \in events, e.link = l PROVE e \in events'
        OBVIOUS
      <4>1. a.published <= e.date /\ e.date \in Nat
        BY <3>1 DEF NewsInv, EventOK
      <4>2. ~ (e.date + Kept < newsDay)
        BY <1>1, <3>1, <3>2, <4>1
      <4> QED BY <1>4, <2>2, <4>2
    <3>4. ArticleOK(l, articles, events, newsDay)
      BY DEF NewsInv
    <3> QED BY <3>1, <3>3, <3>4 DEF ArticleOK
  <2> QED BY <2>1, <2>2
<1> HIDE DEF EventOK, ArticleOK, TellerRows
<1> QED BY <1>1, <1>5, <1>6, <1>7, <1>8 DEF NewsInv

LEMMA NewsInductive ==
  ASSUME NewsInv, [NewsNext]_newsVars
  PROVE  NewsInv'
<1>1. LastDate \in Nat /\ Kept \in Nat /\ newsDay \in Nat
  BY NewsAssumption DEF NewsInv
<1>2. CASE DayEnds
  <2>1. /\ newsDay' \in 0..LastDate /\ newsDay' = newsDay + 1 /\ teller.at # "tell"
        /\ UNCHANGED <<feed, articles, events, teller>>
    BY <1>1, <1>2 DEF DayEnds
  <2>2. ASSUME NEW l \in Links PROVE ArticleOK(l, articles, events, newsDay')
    <3>1. ArticleOK(l, articles, events, newsDay)
      BY DEF NewsInv
    <3>2. articles[l] # NoArticle => articles[l].published \in Nat
      BY <3>1 DEF ArticleOK, ArticleRows
    <3>3. articles[l] # NoArticle => articles[l].published <= newsDay' /\
            (newsDay' <= articles[l].published + Kept => newsDay <= articles[l].published + Kept)
      BY <1>1, <2>1, <3>1, <3>2 DEF ArticleOK
    <3> HIDE DEF Propagated
    <3> QED BY <3>1, <3>3 DEF ArticleOK
  <2> HIDE DEF EventOK, ArticleOK, TellerRows
  <2> QED BY <2>1, <2>2 DEF NewsInv
<1>3. CASE FeedTurns
  <2>1. feed' \subseteq Links /\ UNCHANGED <<newsDay, articles, events, teller>>
    BY <1>3 DEF FeedTurns, NewsInv
  <2> HIDE DEF EventOK, ArticleOK, TellerRows
  <2> QED BY <2>1 DEF NewsInv
<1>4. CASE Collect
  <2>1. /\ teller' = [at |-> "tell", left |-> Unclassified(feed)] /\ UNCHANGED <<newsDay, feed, articles, events>>
    BY <1>4 DEF Collect
  <2>2. PICK L \in SUBSET Links : L = Unclassified(feed)
    BY DEF Unclassified, NewsInv
  <2>3. teller' = [at |-> "tell", left |-> L] /\ teller' \in TellerRows /\ teller'.left = L
    BY <2>1, <2>2 DEF TellerRows
  <2>4. \A l \in L : articles[l] = NoArticle \/ ~articles[l].classified
    BY <2>2 DEF Unclassified
  <2> HIDE DEF EventOK, ArticleOK, TellerRows
  <2> QED BY <2>1, <2>3, <2>4 DEF NewsInv
<1>5. CASE NewsKilled
  <2>1. teller' \in TellerRows /\ teller'.at # "tell" /\ UNCHANGED <<newsDay, feed, articles, events>>
    BY <1>5 DEF NewsKilled, Stopped, TellerRows
  <2> HIDE DEF EventOK, ArticleOK, TellerRows
  <2> QED BY <2>1 DEF NewsInv
<1>6. CASE UNCHANGED newsVars
  <2> HIDE DEF EventOK, ArticleOK, TellerRows
  <2> QED BY <1>6 DEF NewsInv, newsVars
<1> HIDE DEF NewsInv
<1> QED BY <1>2, <1>3, <1>4, <1>5, <1>6, ClassifyInv, PurgeInv DEF NewsNext

\* A company's event is of a stored article and of the theme it was given, an
\* article within its time has the events of its theme, and the deletion of old
\* ones never fails, whatever runs are killed (news_events/service.py).
THEOREM NewsAlwaysStands == NewsSpec => []NewsStands
<1> HIDE DEF NewsInv, NewsStands
<1> QED BY InitNewsInv, NewsInductive, NewsInvGives, PTL DEF NewsSpec

===============================================================================
