----------------------------- MODULE ChartStages -----------------------------
(***************************************************************************)
(* The four stages painted behind a chart (domain/stage), the swings and   *)
(* the box drawn on it (domain/elliott zigzag, domain/market_structure) as *)
(* trend.compute_trend makes them of the bars of one frame.  A bar is a    *)
(* day or holds several; the last one changes until its days are over.     *)
(* The moving average is computed; the shape of the window (regression,    *)
(* efficiency, curvature, volume, ranges) is what Shapes allows.           *)
(***************************************************************************)
EXTENDS Integers, Sequences, FiniteSets, SequencesExt

CONSTANTS
  Closes,     \* closing prices
  Shapes,     \* what the window of a bar may look like
  BarDays,    \* days of a bar
  Period,     \* bars of the moving average
  Lookback,   \* bars over which its slope is measured
  MinRun,     \* bars that confirm a stage
  ShortBand,  \* a band of fewer bars is not split (4)
  TailMin,    \* bars of a tail (4)
  Swing,      \* percent of a reversal
  MaxTraded   \* a bound of the model on the days

ASSUME FrameAssumption ==
  {BarDays, Period, Lookback, MinRun, ShortBand, TailMin} \subseteq Nat \ {0} /\ Closes \subseteq Nat \ {0} /\ Swing \in 1..99

VARIABLES
  closes,  \* the close of each bar
  judged,  \* per bar: its stage, where the price is, where the average goes
  verdict, \* the stage of the last bar by itself
  inBar    \* days of the last bar

chartVars == <<closes, judged, verdict, inBar>>

Stages == 1..4
Bar(stage, pos, dir) == [stage |-> stage, pos |-> pos, dir |-> dir]
Unjudged == Bar(0, "near", "flat")

\* a is more than p percent over b, or less than p percent under it.
Over(a, b, p) == a * 100 > b * (100 + p)
Under(a, b, p) == a * 100 < b * (100 - p)

Sma(c, end) == FoldLeft(+, 0, SubSeq(c, end - Period + 1, end))
Position(c) ==
  LET last == Period * c[Len(c)]  ma == Sma(c, Len(c)) IN
  CASE Over(last, ma, 3) -> "above" [] Under(last, ma, 3) -> "below" [] OTHER -> "near"
Direction(c) ==
  LET before == Len(c) - Lookback IN
  IF before < Period THEN "flat"
  ELSE CASE Over(Sma(c, Len(c)), Sma(c, before), 2) -> "rising" [] Under(Sma(c, Len(c)), Sma(c, before), 2) -> "falling"
         [] OTHER -> "flat"
LongContext(c) ==
  LET past == Len(c) - Period IN IF past >= Period /\ Sma(c, Len(c)) >= Sma(c, past) THEN "up" ELSE "down"

\* The slope of a window: steep or plain, down or up (-3 .. 1), and the rest.
Basing(w) == w.slope > -3 /\ w.curve > 0
Declining(w, dir) ==
  \/ w.slope = -3
  \/ w.slope = -2 /\ (w.curve < 0 \/ w.ranges = "expansion" \/ dir = "falling")
IsMarkup(w, pos, dir) ==
  \/ pos # "below" /\ ((w.clean /\ w.slope > 0) \/ w.breakout = "up")
  \/ pos = "above" /\ dir = "rising"
IsDecline(w, pos, dir) ==
  \/ pos # "above" /\ ((w.clean /\ w.slope < 0) \/ w.breakout = "down")
  \/ pos = "below" /\ dir = "falling" /\ ~Basing(w)

TopOr(other, up) == IF up THEN 3 ELSE other
BelowAverage(c, w, dir, up) ==
  LET deep == Under(Period * c[Len(c)], Sma(c, Len(c)), 10) IN
  CASE deep -> 4
    [] ~deep /\ Basing(w) -> 1
    [] ~deep /\ ~Basing(w) /\ Declining(w, dir) -> 4
    [] OTHER -> TopOr(1, up)
InRange(w, up) ==
  CASE w.channel = "low" -> IF w.curve > 0 \/ up THEN 1 ELSE 4
    [] w.channel = "high" -> IF up THEN IF w.curve >= 0 THEN 2 ELSE 3 ELSE 1
    [] OTHER ->
       CASE w.curve > 0 -> 1
         [] w.curve < 0 -> TopOr(1, up)
         [] OTHER ->
            CASE w.ranges = "contraction" -> 1
              [] w.ranges = "expansion" -> TopOr(4, up)
              [] OTHER -> CASE w.volume = "accumulation" -> 1 [] w.volume = "distribution" -> 3 [] OTHER -> TopOr(1, up)

Decide(c, w) ==
  LET pos == Position(c)  dir == Direction(c)  up == LongContext(c) = "up" IN
  IF IsMarkup(w, pos, dir) THEN 2
  ELSE IF IsDecline(w, pos, dir) THEN 4
  ELSE IF pos = "below" THEN BelowAverage(c, w, dir, up)
  ELSE IF Over(Period * c[Len(c)], Sma(c, Len(c)), 7) /\ dir # "rising" /\ up THEN 3
  ELSE InRange(w, up)

\* What a bar is by itself.  In the bands one near a flat average keeps the base or the top before it.
Classify(c, w) == IF Len(c) < Period THEN 0 ELSE Decide(c, w)
Judge(c, w, before) ==
  IF Len(c) < Period THEN Unjudged
  ELSE LET pos == Position(c)  dir == Direction(c) IN
       Bar(IF before.stage \in {1, 3} /\ pos = "near" /\ dir = "flat" THEN before.stage ELSE Classify(c, w), pos, dir)

ChartInit ==
  /\ closes = << >>
  /\ judged = << >>
  /\ verdict = 0
  /\ inBar = 0

(* A day ends: a new bar begins or the last one gets a new close.          *)
Day(c, w) ==
  /\ (Len(closes) - 1) * BarDays + inBar < MaxTraded
  /\ LET new == closes = << >> \/ inBar = BarDays
         past == IF new THEN closes ELSE Front(closes)
         known == IF new THEN judged ELSE Front(judged)
         before == IF known = << >> THEN Unjudged ELSE Last(known) IN
     /\ closes' = Append(past, c)
     /\ judged' = Append(known, Judge(Append(past, c), w, before))
     /\ verdict' = Classify(Append(past, c), w)
     /\ inBar' = IF new THEN 1 ELSE inBar + 1

ChartNext == \E c \in Closes, w \in Shapes : Day(c, w)

ChartSpec == ChartInit /\ [][ChartNext]_chartVars

-----------------------------------------------------------------------------
(* Bands.  A new stage counts when it lasts; then it counts from its start.*)
StageBand(stage, from, to) == [stage |-> stage, from |-> from, to |-> to]
LengthOf(b) == b.to - b.from + 1
Max2(a, b) == IF a > b THEN a ELSE b
Apart == {"above", "below"}

Strong(was, bar) ==
  \/ {was.stage, bar.stage} = {2, 4}
  \/ was.pos \in Apart /\ bar.pos \in Apart /\ was.pos # bar.pos
  \/ bar.stage = 4 /\ bar.pos = "below"
  \/ bar.stage = 2 /\ bar.dir = "rising"
Needed(was, bar) == IF Strong(was, bar) THEN Max2(2, MinRun \div 2) ELSE MinRun

\* Faulty variant: the new stage counts from the bar that confirms it.
Confirmed_Today(s, k, since, bar) ==
  [bands |-> Append(s.bands, StageBand(s.stage, s.from, since - 1)), stage |-> bar.stage, from |-> k, pos |-> bar.pos,
   cand |-> bar.stage, since |-> since]
Confirmed(s, k, since, bar) ==
  [bands |-> Append(s.bands, StageBand(s.stage, s.from, since - 1)), stage |-> bar.stage, from |-> since, pos |-> bar.pos,
   cand |-> bar.stage, since |-> since]

Debounce(s, k) ==
  LET bar == judged[k]  since == IF bar.stage = s.cand THEN s.since ELSE k IN
  IF bar.stage # s.stage /\ k - since + 1 >= Needed(s, bar) THEN Confirmed(s, k, since, bar)
  ELSE [s EXCEPT !.cand = bar.stage, !.since = since]

FirstBand ==
  LET one == judged[Period] IN
  [bands |-> << >>, stage |-> one.stage, from |-> Period, pos |-> one.pos, cand |-> one.stage, since |-> Period]
Debounced[k \in Period..Len(judged)] == IF k = Period THEN FirstBand ELSE Debounce(Debounced[k - 1], k)
RawBands ==
  LET end == Debounced[Len(judged)] IN Append(end.bands, StageBand(end.stage, end.from, Len(judged)))

(* A band whose price went the other way is named otherwise or cut at its  *)
(* extreme; the end of a band that left its side of the average is cut off.*)
FirstAt(b, Has(_)) == CHOOSE k \in b.from..b.to : Has(k) /\ \A j \in b.from..(k - 1) : ~Has(j)
TopBar(b) == FirstAt(b, LAMBDA k : \A j \in b.from..b.to : closes[k] >= closes[j])
LowBar(b) == FirstAt(b, LAMBDA k : \A j \in b.from..b.to : closes[k] <= closes[j])
Rose(b, p) == Over(closes[b.to], closes[b.from], p)
Fell(b, p) == Under(closes[b.to], closes[b.from], p)
Contrary(b) == (b.stage = 4 /\ Rose(b, 10)) \/ (b.stage = 2 /\ Fell(b, 10))
Milder(stage) == IF stage = 4 THEN 1 ELSE 3
StillRising(b) == b.stage = 3 /\ Rose(b, 10) /\ 10 * (TopBar(b) - b.from) >= 7 * LengthOf(b)
CutAt(b, last, first, second) == <<StageBand(first, b.from, last), StageBand(second, last + 1, b.to)>>

Risen(b) ==
  LET reclaims == {k \in b.from..b.to : judged[k].pos = "above"}
      first == FirstAt(b, LAMBDA k : k \in reclaims) IN
  IF reclaims # {} /\ first > b.from /\ first < b.to THEN CutAt(b, first - 1, 1, 2) ELSE <<[b EXCEPT !.stage = 2]>>
Turned(b) ==
  LET turn == IF b.stage = 4 THEN LowBar(b) ELSE TopBar(b) IN
  CASE LengthOf(b) < ShortBand \/ turn = b.from -> <<[b EXCEPT !.stage = Milder(@)]>>
    [] LengthOf(b) >= ShortBand /\ turn = b.to -> <<b>>
    [] OTHER -> CutAt(b, turn, b.stage, Milder(b.stage))
DirectionCorrect(b) ==
  IF StillRising(b) THEN Risen(b) ELSE IF Contrary(b) THEN Turned(b) ELSE <<b>>

\* Faulty variant for a mutant: the bar before the first is not refused.
BarBefore_Any(k) == k - 1
\* The front ends at the bar before the tail, or at the first bar of all.
BarBefore(k) == IF k > Period THEN k - 1 ELSE k
TailCorrect(b) ==
  LET side == IF b.stage = 4 THEN "below" ELSE "above"
      run == Cardinality({k \in b.from..b.to : \A j \in k..b.to : judged[j].pos # side})
      start == b.to - run + 1 IN
  IF b.stage \in {2, 4} /\ LengthOf(b) >= 2 * TailMin /\ run >= TailMin /\ 4 * run >= LengthOf(b)
  THEN <<StageBand(b.stage, b.from, BarBefore(start)), StageBand(Milder(b.stage), start, b.to)>>
  ELSE <<b>>

Joined(bands, b) ==
  IF bands # << >> /\ Last(bands).stage = b.stage THEN [bands EXCEPT ![Len(bands)].to = b.to] ELSE Append(bands, b)
MergedBands(bands) ==
  LET merged[i \in 0..Len(bands)] == IF i = 0 THEN << >> ELSE Joined(merged[i - 1], bands[i]) IN merged[Len(bands)]
Pieces(b) == LET cut == DirectionCorrect(b) IN FlattenSeq([i \in 1..Len(cut) |-> TailCorrect(cut[i])])
Segments ==
  IF Len(judged) < Period THEN << >>
  ELSE LET raw == RawBands IN MergedBands(FlattenSeq([i \in 1..Len(raw) |-> Pieces(raw[i])]))

-----------------------------------------------------------------------------
(* Swings: an extreme counts when the price has left it by Swing percent;  *)
(* the last one is the extreme of a swing that still goes on.              *)
Pivot(kind, at) == [kind |-> kind, at |-> at]
HigherBar(k, j) == IF closes[k] > closes[j] THEN k ELSE j
LowerBar(k, j) == IF closes[k] < closes[j] THEN k ELSE j
Drops(k, hi) == closes[k] * 100 <= closes[hi] * (100 - Swing)
Climbs(k, lo) == closes[k] * 100 >= closes[lo] * (100 + Swing)

Turn(z, k) ==
  LET hi == IF z.way = "down" THEN z.hi ELSE HigherBar(k, z.hi)
      lo == IF z.way = "up" THEN z.lo ELSE LowerBar(k, z.lo) IN
  CASE z.way # "down" /\ Drops(k, hi) -> [pivots |-> Append(z.pivots, Pivot("high", hi)), way |-> "down", hi |-> hi, lo |-> k]
    [] z.way # "up" /\ Climbs(k, lo) /\ ~(z.way = "none" /\ Drops(k, hi)) ->
         [pivots |-> Append(z.pivots, Pivot("low", lo)), way |-> "up", hi |-> k, lo |-> lo]
    [] OTHER -> [z EXCEPT !.hi = hi, !.lo = lo]

NoTurn == [pivots |-> << >>, way |-> "none", hi |-> 1, lo |-> 1]
Turns[k \in 1..Len(closes)] == IF k = 1 THEN NoTurn ELSE Turn(Turns[k - 1], k)
ZigZag ==
  IF Len(closes) < 2 THEN << >>
  ELSE LET z == Turns[Len(closes)]
       IN CASE z.way = "up" -> Append(z.pivots, Pivot("high", z.hi))
            [] z.way = "down" -> Append(z.pivots, Pivot("low", z.lo))
            [] OTHER -> z.pivots

\* The structure: the last two highs and the last two lows.
OfKind(kind) == SelectSeq(ZigZag, LAMBDA p : p.kind = kind)
LastTwo(kind, raised, lowered) ==
  LET p == OfKind(kind)  n == Len(p) IN
  CASE n < 2 -> "none" [] n >= 2 /\ closes[p[n].at] > closes[p[n - 1].at] -> raised [] OTHER -> lowered
LastHigh == LastTwo("high", "HH", "LH")
LastLow == LastTwo("low", "HL", "LL")
Structure ==
  LET marks == <<LastHigh, LastLow>> IN
  IF Len(closes) < 4 \/ Len(ZigZag) < 3 THEN [trend |-> "none", setup |-> "none"]
  ELSE [trend |-> CASE marks = <<"HH", "HL">> -> "up" [] marks = <<"LH", "LL">> -> "down" [] marks = <<"none", "none">> -> "none"
                    [] OTHER -> "range",
        setup |-> CASE Last(ZigZag).kind = "low" /\ LastLow = "HL" /\ LastHigh # "HH" -> "stage1_to_2"
                    [] Last(ZigZag).kind = "high" /\ LastHigh = "LH" /\ LastLow # "LL" -> "stage3_to_4"
                    [] OTHER -> "none"]

\* The box: the levels the established swings turned at (the last six), and
\* where the last close is.  A level is given as its sum and its count.
Recent == LET e == Front(ZigZag) IN SubSeq(e, Max2(1, Len(e) - 5), Len(e))
PricesOf(kind) == [i \in 1..Len(SelectSeq(Recent, LAMBDA p : p.kind = kind)) |->
                     closes[SelectSeq(Recent, LAMBDA p : p.kind = kind)[i].at]]
Level(near) == <<FoldLeft(+, 0, near), Len(near)>>
Resistance == LET p == PricesOf("high") IN Level(SelectSeq(p, LAMBDA x : \A i \in 1..Len(p) : x * 100 >= p[i] * 96))
Support == LET p == PricesOf("low") IN Level(SelectSeq(p, LAMBDA x : \A i \in 1..Len(p) : x * 100 <= p[i] * 104))
BoxEvent ==
  IF Len(ZigZag) < 3 \/ Len(closes) < 5 \/ PricesOf("high") = << >> \/ PricesOf("low") = << >> THEN "none"
  ELSE LET r == Resistance  s == Support  last == Last(closes) IN
       CASE r[1] * s[2] <= s[1] * r[2] -> "none"
         [] r[1] * s[2] > s[1] * r[2] /\ last * r[2] > r[1] -> "breakout"
         [] r[1] * s[2] > s[1] * r[2] /\ last * s[2] < s[1] -> "breakdown"
         [] OTHER -> "inside"

\* What the page of a frame shows.
LowConfidence == Len(closes) < Period + Lookback + Period \div 2
TrendShown ==
  [stage |-> verdict, unsure |-> LowConfidence, bands |-> Segments, structure |-> Structure, box |-> BoxEvent]

-----------------------------------------------------------------------------
(* The chart has no hole and no swing too many: every bar that was judged  *)
(* is in a band and no band goes beyond these bars, however bands were     *)
(* confirmed, corrected, cut and joined (segments); a swing goes as far as *)
(* counts, no price between its ends is beyond the one it goes to, and     *)
(* none turns it before (zigzag).                                          *)
EveryBarIn(bands) == \A k \in Period..Len(judged) : \E i \in 1..Len(bands) : k \in bands[i].from..bands[i].to
NoneBeyond(bands) == \A i \in 1..Len(bands) : bands[i].from \in Period..Len(judged) /\ bands[i].to \in Period..Len(judged)
BandsPaintTheChart == LET bands == Segments IN EveryBarIn(bands) /\ NoneBeyond(bands)
Fall(i, j) == Drops(j, i) /\ \A k \in i..j : closes[j] <= closes[k] /\ closes[k] <= closes[i]
Rise(i, j) == Climbs(j, i) /\ \A k \in i..j : closes[k] <= closes[j] /\ \A h \in i..k : ~Drops(k, h)
SwingsAlternate ==
  LET pivots == ZigZag IN
  \A i \in 1..(Len(pivots) - 1) :
    LET p == pivots[i]  q == pivots[i + 1] IN
    /\ p.at < q.at
    /\ \/ p.kind = "high" /\ q.kind = "low" /\ Fall(p.at, q.at)
       \/ p.kind = "low" /\ q.kind = "high" /\ Rise(p.at, q.at)
ChartIsWhole == BandsPaintTheChart /\ SwingsAlternate

(* A low is the lowest of the swing it begins.  A rise ends when it lost   *)
(* Swing percent from its high, and below its low it has not always.       *)
(* (zigzag: "극점에서 threshold 이상 되돌리면 그 극점을 확정하고")               *)
LowsAreLowest ==
  LET pivots == ZigZag IN
  \A i \in 1..(Len(pivots) - 1) :
    pivots[i].kind = "low" => \A k \in pivots[i].at..pivots[i + 1].at : closes[pivots[i].at] <= closes[k]

(* Bands do not overlap and none ends before it begins.                    *)
(* (segments: "연속 구간으로 병합한다"; _tail_correct: "깨끗한 추세는 끝까지    *)
(* reclaimed 쪽 … 자르지 않는다")                                            *)
BandsTile ==
  LET bands == Segments IN
  \A i \in 1..Len(bands) : bands[i].from <= bands[i].to /\ (i > 1 => bands[i].from = bands[i - 1].to + 1)

(* A band goes the way of its stage, more or less.                         *)
(* (segments: "구간의 실제 가격 방향이 국면과 정면으로 어긋나면 … 교정한다")    *)
BandsFollowPrices == LET bands == Segments IN \A i \in 1..Len(bands) : ~Contrary(bands[i])
=============================================================================
