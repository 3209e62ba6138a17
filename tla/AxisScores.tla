----------------------------- MODULE AxisScores -----------------------------
(***************************************************************************)
(* The four scores of a company's analysis and the reasons shown beside    *)
(* them (domain/analysis_scoring, score_factors, technicals, judgment, the *)
(* analysis of routers/companies.py) and the same scores as the screener   *)
(* computes them.  A norm is in tenths of 1, a weight in hundredths, a     *)
(* score and a PBR in tenths.  Rounding finer than that is left out.        *)
(***************************************************************************)
EXTENDS Integers, Sequences, FiniteSets, FiniteSetsExt

CONSTANTS
  Unknown,       \* a figure that is not there
  GrowthLevels,  \* what each figure of the growth may be
  ValueLevels,   \* what each figure of the valuation may be
  TrendLevels,   \* what each reading of the chart may be
  FlowLevels     \* what each flow may be

VARIABLES
  growth,    \* the row of GrowthMetric
  worth,     \* the latest row of Financial and what the latest annual row has
  readings,  \* the indicators of the day's bars and the stage of the weekly ones
  flows,     \* money flow of the sector, there and in the US, of the index, and RS
  assessed   \* the analysis that was answered, or nothing yet

(* A figure is a number or is not there; so is how a profit stands.        *)
Levels == Int \union {Unknown}
StatusLevels == {"turned", "stayed", "lost", "losing", Unknown}
ASSUME AxisAssumption ==
  /\ Unknown \notin Int /\ Unknown \notin BOOLEAN /\ Unknown \notin {"turned", "stayed", "lost", "losing"}
  /\ GrowthLevels.revenue \union GrowthLevels.margin \subseteq Levels
  /\ GrowthLevels.status \union GrowthLevels.few \subseteq StatusLevels
  /\ ValueLevels.per \union ValueLevels.pbr \union ValueLevels.some \union ValueLevels.eps \subseteq Levels
  /\ TrendLevels.near \union TrendLevels.volume \union TrendLevels.quarter \subseteq Levels
  /\ TrendLevels.stage \subseteq 1..4 \union {Unknown}
  /\ FlowLevels \subseteq Levels

axisVars == <<growth, worth, readings, flows, assessed>>

Known(x) == x # Unknown
Either(a, b) == IF Known(a) THEN a ELSE b
AtMost(hi, x) == IF x > hi THEN hi ELSE x
Clamped(x) == IF x < 0 THEN 0 ELSE AtMost(10, x)

Band(x, lo, hi) == IF Known(x) THEN Clamped((10 * (x - lo)) \div (hi - lo)) ELSE Unknown
CheapBand(x, best, worst) == IF Known(x) /\ x > 0 THEN Clamped((10 * (worst - x)) \div (worst - best)) ELSE Unknown

(* What is not known is left out and the other weights count for more.     *)
Part(norm, weight) == [norm |-> norm, weight |-> weight]
Weighted(parts) ==
  LET S == {i \in DOMAIN parts : Known(parts[i].norm)} IN
  IF S = {} THEN Unknown
  ELSE (100 * MapThenSumSet(LAMBDA i : parts[i].norm * parts[i].weight, S)) \div MapThenSumSet(LAMBDA i : parts[i].weight, S)

(* Growth: how a profit stands, and by how many points its margin moved.   *)
StatusNorm(s) == CASE s = "turned" -> 10 [] s = "stayed" -> 7 [] s = "lost" -> 3 [] s = "losing" -> 0 [] OTHER -> Unknown
\* Faulty variant: the margin of before less the one of now.
MarginNorm_Reversed(d) == IF Known(d) THEN 5 - d \div 2 ELSE Unknown
\* An S-curve through 0.12, 0.5 and 0.88 at -8, 0 and 8 points.
MarginNorm(d) == IF Known(d) THEN 5 + d \div 2 ELSE Unknown

GrowthScore(g) ==
  Weighted(<<Part(Band(g.revenue, -20, 60), 24),
             Part(StatusNorm(g.op), 16), Part(MarginNorm(g.opMargin), 14),
             Part(StatusNorm(g.net), 13), Part(MarginNorm(g.netMargin), 11),
             Part(StatusNorm(g.ebitda), 12), Part(MarginNorm(g.ebitdaMargin), 10)>>)
GrowthFactors(g) ==
  <<Part(Band(g.revenue, -20, 60), 24), Part(StatusNorm(g.op), 16), Part(MarginNorm(g.opMargin), 14),
    Part(StatusNorm(g.net), 13), Part(MarginNorm(g.netMargin), 11),
    Part(StatusNorm(g.ebitda), 12), Part(MarginNorm(g.ebitdaMargin), 10)>>

(* Value: the lower the better, a loss counts for nothing; the price of    *)
(* growth, or the margin's move where that cannot be said.                 *)
PegNorm(per, eps) ==
  IF Known(per) /\ Known(eps) /\ per > 0 /\ eps > 0 THEN Clamped((10 * (2 * eps - per)) \div eps) ELSE Unknown
SurrogateNorm(g) ==
  IF g.net \in {"turned", "stayed"} /\ Known(g.netMargin) THEN AtMost(7, MarginNorm(g.netMargin)) ELSE Unknown
Norms(r, g) ==
  [per |-> CheapBand(r.per, 5, 40), pbr |-> CheapBand(r.pbr, 5, 30), ev |-> CheapBand(r.ev, 3, 20),
   peg |-> Either(PegNorm(r.per, g.eps), SurrogateNorm(g))]

ValueScore(r, g) ==
  LET n == Norms(r, g) IN
  Weighted(<<Part(n.pbr, 30), Part(n.per, 25), Part(n.ev, 15), Part(n.peg, 15),
             Part(Band(r.roe, 0, 15), 10), Part(Band(r.div, 0, 5), 5)>>)
ValueFactors(r, g) ==
  LET n == Norms(r, g) IN
  <<Part(n.pbr, 30), Part(n.per, 25), Part(n.ev, 15), Part(n.peg, 15),
    Part(Band(r.roe, 0, 15), 10), Part(Band(r.div, 0, 5), 5)>>

(* The row the scores are taken from.  The page of the company and the     *)
(* lists complete it from the annual row in two ways; a price stands in    *)
(* for a ratio that was not stored.                                        *)
Row(w) == [per |-> w.per, pbr |-> w.pbr, ev |-> w.ev, roe |-> w.roe, div |-> w.div]
Priced(unit, price, base) == IF Known(price) /\ Known(base) /\ base > 0 THEN (unit * price) \div base ELSE Unknown
Derived(w, r) ==
  [r EXCEPT !.per = Either(@, IF Known(w.epsQuarter) THEN Priced(1, w.price, 4 * w.epsQuarter) ELSE Unknown),
            !.pbr = Either(@, Priced(10, w.price, w.book))]
PageRow(w) ==
  Derived(w, [Row(w) EXCEPT !.div = Either(@, w.annualDiv), !.ev = Either(@, w.annualEv), !.roe = Either(@, w.statedRoe)])
ListRow(w) == [Row(w) EXCEPT !.div = Either(w.annualDiv, @)]

(* The chart.                                                              *)
StageNorm(s) == CASE s = 2 -> 10 [] s = 1 -> 5 [] s = 3 -> 3 [] s = 4 -> 0 [] OTHER -> Unknown

TrendScore(t) ==
  LET order == IF ~Known(t.aligned) THEN Unknown ELSE IF t.aligned \/ t.above THEN 10 ELSE 0 IN
  Weighted(<<Part(Band(t.near, 70, 100), 35), Part(order, 30),
             Part(Band(t.volume, 50, 200), 15), Part(Band(t.quarter, -20, 40), 20), Part(StageNorm(t.stage), 15)>>)
\* The readings as they are handed on: a high or a volume of zero, which the score has counted, is taken for
\* one that is not there.
AsShown(t) == [t EXCEPT !.near = IF @ = 0 THEN Unknown ELSE @, !.volume = IF @ = 0 THEN Unknown ELSE @]

\* Faulty variant for a mutant: the reasons do not know of the stage.
TrendFactors_NoStage(t) ==
  LET order == IF ~Known(t.aligned) THEN Unknown ELSE IF t.aligned THEN 10 ELSE IF t.above THEN 10 ELSE 0 IN
  <<Part(Band(t.near, 70, 100), 35), Part(order, 30), Part(Band(t.quarter, -20, 40), 20), Part(Band(t.volume, 50, 200), 15)>>
TrendFactors(t) ==
  LET order == IF ~Known(t.aligned) THEN Unknown ELSE IF t.aligned THEN 10 ELSE IF t.above THEN 10 ELSE 0 IN
  <<Part(Band(t.near, 70, 100), 35), Part(order, 30), Part(Band(t.quarter, -20, 40), 20), Part(Band(t.volume, 50, 200), 15)>>
    \o (IF Known(t.stage) THEN <<Part(StageNorm(t.stage), 15)>> ELSE <<>>)

(* The money flow.                                                         *)
FlowScore(f) ==
  Weighted(<<Part(Band(f.us, 0, 100), 35), Part(Band(f.kr, 0, 100), 30), Part(Band(f.index, 0, 100), 10), Part(Band(f.rs, 0, 100), 25)>>)
FlowFactors(f) ==
  <<Part(Band(f.us, 0, 100), 35), Part(Band(f.kr, 0, 100), 30), Part(Band(f.index, 0, 100), 10), Part(Band(f.rs, 0, 100), 25)>>

Mean(scores) ==
  LET S == {a \in DOMAIN scores : Known(scores[a])} IN
  IF S = {} THEN Unknown ELSE MapThenSumSet(LAMBDA a : scores[a], S) \div Cardinality(S)

(* The verdict: axes from 60 points are strong, below 40 weak.             *)
Signal(scores) ==
  LET weak == {a \in DOMAIN scores : Known(scores[a]) /\ scores[a] < 400}
      mean == Mean(scores) IN
  IF ~Known(mean) THEN "insufficient"
  ELSE IF mean >= 600 /\ weak = {} THEN "fit"
  ELSE IF mean < 400 \/ Cardinality(weak) >= 2 THEN "avoid" ELSE "watch"

NotYet == [axes |-> << >>, signal |-> "none"]

\* One axis is looked at closely, or all of them roughly.
Growths == [revenue : GrowthLevels.revenue, op : GrowthLevels.status, opMargin : GrowthLevels.margin,
            net : GrowthLevels.few, netMargin : GrowthLevels.margin, ebitda : GrowthLevels.few, ebitdaMargin : {Unknown, 0},
            eps : {Unknown}]
Worths == [per : ValueLevels.per, pbr : ValueLevels.pbr, ev : ValueLevels.some, roe : ValueLevels.some, div : ValueLevels.some,
           annualDiv : ValueLevels.some, annualEv : ValueLevels.some, epsQuarter : ValueLevels.some, book : {Unknown},
           statedRoe : ValueLevels.some, price : {20}]
Readings == [near : TrendLevels.near, aligned : {TRUE, FALSE, Unknown}, above : BOOLEAN, volume : TrendLevels.volume,
             quarter : TrendLevels.quarter, stage : TrendLevels.stage]
Flows == [us : FlowLevels, kr : FlowLevels, index : FlowLevels, rs : FlowLevels]

NoGrowth == [revenue |-> Unknown, op |-> Unknown, opMargin |-> Unknown, net |-> Unknown, netMargin |-> Unknown,
             ebitda |-> Unknown, ebitdaMargin |-> Unknown, eps |-> Unknown]
NoWorth == [f \in {"per", "pbr", "ev", "roe", "div", "annualDiv", "annualEv", "epsQuarter", "book", "statedRoe", "price"} |-> Unknown]
NoReadings == [near |-> Unknown, aligned |-> Unknown, above |-> FALSE, volume |-> Unknown, quarter |-> Unknown, stage |-> Unknown]
NoFlows == [us |-> Unknown, kr |-> Unknown, index |-> Unknown, rs |-> Unknown]

TurnedProfit(eps, margin) == [NoGrowth EXCEPT !.eps = eps, !.net = "turned", !.netMargin = margin]
PricesOfGrowth == {TurnedProfit(e, m) : e \in ValueLevels.eps, m \in {Unknown, 8}}
RoughGrowths == {[NoGrowth EXCEPT !.op = s] : s \in GrowthLevels.status}
RoughWorths == {[NoWorth EXCEPT !.per = p] : p \in ValueLevels.per}
RoughReadings == {[NoReadings EXCEPT !.stage = s] : s \in TrendLevels.stage}
RoughFlows == {[NoFlows EXCEPT !.rs = f] : f \in FlowLevels}

AxisInit ==
  /\ assessed = NotYet
  /\ \/ growth \in Growths /\ worth = NoWorth /\ readings = NoReadings /\ flows = NoFlows
     \/ growth \in PricesOfGrowth /\ worth \in Worths /\ readings = NoReadings /\ flows = NoFlows
     \/ growth = NoGrowth /\ worth = NoWorth /\ readings \in Readings /\ flows = NoFlows
     \/ growth = NoGrowth /\ worth = NoWorth /\ readings = NoReadings /\ flows \in Flows
     \/ growth \in RoughGrowths /\ worth \in RoughWorths /\ readings \in RoughReadings /\ flows \in RoughFlows

Axis(score, factors) == [score |-> score, factors |-> factors]

(* The quick answer has the two axes that need no request to the outside.  *)
Assesses(quick) ==
  /\ assessed = NotYet
  /\ LET quickAxes == <<Axis(GrowthScore(growth), GrowthFactors(growth)),
                        Axis(ValueScore(PageRow(worth), growth), ValueFactors(PageRow(worth), growth))>>
         axes == IF quick THEN quickAxes
                 ELSE quickAxes \o <<Axis(TrendScore(readings), TrendFactors(AsShown(readings))), Axis(FlowScore(flows), FlowFactors(flows))>>
     IN assessed' = [axes |-> axes, signal |-> Signal([a \in DOMAIN axes |-> axes[a].score])]
  /\ UNCHANGED <<growth, worth, readings, flows>>

AxisNext == \E quick \in BOOLEAN : Assesses(quick)

AxisSpec == AxisInit /\ [][AxisNext]_axisVars

\* The trend's reasons with a zero for the dash that stands for a reading of zero.
Restored(F, t) ==
  [i \in DOMAIN F |-> IF (i = 1 /\ t.near = 0) \/ (i = 4 /\ t.volume = 0) THEN Part(0, F[i].weight) ELSE F[i]]

\* A score is the weighted mean of the reasons shown beside it, with everything
\* that counted and nothing that did not.  Only the dash of the trend's axis that
\* stands for a reading of zero has counted, as a zero (technicals.py 96, 128).
FactorsMakeScore ==
  \A a \in DOMAIN assessed.axes :
    LET F == assessed.axes[a].factors IN
    assessed.axes[a].score = Weighted(IF a = 3 THEN Restored(F, readings) ELSE F)

(* What is better in one figure, all else being equal; a loss and a gain   *)
(* are not compared, nor a figure and none.                                *)
Ranked == <<"losing", "lost", "stayed", "turned">>
Rank(s) == CHOOSE i \in DOMAIN Ranked : Ranked[i] = s
Statuses == {"op", "net", "ebitda"}
Cheaper == {"per", "pbr", "ev"}
GrowthMarks(f) ==
  (CASE f \in Statuses -> GrowthLevels.status [] f = "revenue" -> GrowthLevels.revenue [] OTHER -> GrowthLevels.margin) \ {Unknown}
GrowthBetter(f, old) == {x \in GrowthMarks(f) : IF f \in Statuses THEN Rank(x) >= Rank(old) ELSE x >= old}
ValueBetter(f, old) ==
  {x \in (ValueLevels.per \union ValueLevels.pbr \union ValueLevels.some) \ {Unknown} : IF f \in Cheaper THEN 0 < x /\ x <= old ELSE x >= old}
TrendBetter(f, old) ==
  CASE f = "aligned" -> {TRUE}
    [] f = "stage" -> {2}
    [] OTHER -> {x \in TrendLevels[f] \ {Unknown} : x >= old}
NotLower(new, old) == Known(old) => Known(new) /\ new >= old

\* A better figure never lowers a score.
BetterNeverScoresLower ==
  /\ \A f \in DOMAIN growth \ {"eps"} : Known(growth[f]) =>
       \A x \in GrowthBetter(f, growth[f]) : NotLower(GrowthScore([growth EXCEPT ![f] = x]), GrowthScore(growth))
  /\ \A f \in Cheaper \union {"roe", "div"} : Known(worth[f]) =>
       \A x \in ValueBetter(f, worth[f]) : NotLower(ValueScore([Row(worth) EXCEPT ![f] = x], growth), ValueScore(Row(worth), growth))
  /\ \A f \in DOMAIN readings \ {"above"} : Known(readings[f]) =>
       \A x \in TrendBetter(f, readings[f]) : NotLower(TrendScore([readings EXCEPT ![f] = x]), TrendScore(readings))
  /\ \A f \in DOMAIN flows : Known(flows[f]) =>
       \A x \in {y \in FlowLevels \ {Unknown} : y >= flows[f]} : NotLower(FlowScore([flows EXCEPT ![f] = x]), FlowScore(flows))

\* A score is what its reasons say, but for the dash of a zero, and is fair to a better figure.
ScoresAreFair == FactorsMakeScore /\ BetterNeverScoresLower

\* Score and reasons do not diverge (score_factors.py 9: "점수와 분해가 어긋나지 않도록").  On a day without
\* trades the volume has counted for zero in the score, and is not among the reasons.
ReasonsMakeScore ==
  \A a \in DOMAIN assessed.axes : assessed.axes[a].score = Weighted(assessed.axes[a].factors)

\* "어느 화면에서 보든·필터를 바꿔도 같은 값": the page and the lists have one score.
ScoreIsOneNumber == ValueScore(PageRow(worth), growth) = ValueScore(ListRow(worth), growth)
=============================================================================
