------------------------------- MODULE MCStocks -------------------------------
(***************************************************************************)
(* What is said of stocks: the scores of one company's analysis, the lists *)
(* of the screener, the comments an LLM writes, the target of a deep dive, *)
(* what is painted on a chart.                                             *)
(* They share no state here, so a run works one bench and the others stay  *)
(* as they began.                                                          *)
(***************************************************************************)
EXTENDS AxisScores, Screening, AnalysisComments, Valuation, ChartStages

VARIABLE bench

benches == <<bench, axisVars, screenVars, commentVars, valuationVars, chartVars>>

\* Figures at, between and beyond the ends of the bands.
GrowthMarksHere ==
  [revenue |-> {Unknown, -30, 20}, status |-> {Unknown, "turned", "stayed", "lost", "losing"},
   margin |-> {Unknown, -8, 8}, few |-> {Unknown, "lost"}]
ValueMarksHere == [per |-> {Unknown, -5, 4}, pbr |-> {Unknown, 20}, some |-> {Unknown, 2}, eps |-> {Unknown, -10, 8, 100}]
TrendMarksHere ==
  [near |-> {Unknown, 60, 100}, volume |-> {Unknown, 0, 50, 300}, quarter |-> {Unknown, -30, 10},
   stage |-> {Unknown, 1, 2, 3, 4}]
FlowMarksHere == {Unknown, 0, 100}

\* Stocks that tie in each order, with figures missing here and there.
RowHere(cap, change, momentum, turnover, growthScore, valueScore, trendScore, per, sector, rs) ==
  [cap |-> cap, change |-> change, momentum |-> momentum, turnover |-> turnover, priced |-> TRUE, growth |-> growthScore,
   value |-> valueScore, trend |-> trendScore, per |-> per, sector |-> sector, rs |-> rs]
RowsHere ==
  {RowHere(1, Missing, 2, 0, 2, Missing, 1, Missing, TRUE, 2), RowHere(1, -1, Missing, 3, Missing, 2, Missing, 4, FALSE, 1),
   RowHere(2, 1, 2, Missing, 2, 2, 1, 20, TRUE, Missing)}

\* One company, and it with one or two figures otherwise.
PlainHere ==
  [eps |-> 10, consensus |-> Absent, growth |-> 2, revenue |-> 20, income |-> 4, margin |-> 2, bps |-> 50, bookGrowth |-> 2,
   ebitda |-> 20, roe |-> 10, coe |-> 9, terminal |-> 3, riskFree |-> 3, shares |-> 2, debt |-> 40, debtCost |-> Absent,
   fcff |-> 20, epsRise |-> 3, quarters |-> 6, ebitdaRise |-> 4, years |-> 4, ebitdaGrowth |-> Absent, yearsGrowth |-> 4,
   dps |-> 30, cycle |-> Absent, sector |-> "none", thesis |-> "other", lifted |-> FALSE, claims |-> {}]
ClaimHere(unit, scope, value, metric, refuted) ==
  [unit |-> unit, scope |-> scope, value |-> value, share |-> 5, metric |-> metric, refuted |-> refuted]
ClaimsHere ==
  {ClaimHere("absolute", "company", 8, "revenue", FALSE), ClaimHere("pct", "segment", 6, "profit", FALSE),
   ClaimHere("pct", "company", 5, "profit", TRUE)}
KindsHere ==
  {[PlainHere EXCEPT !.sector = s] : s \in {"none", "financial", "cyclical"}}
  \union {[PlainHere EXCEPT !.thesis = t] : t \in {"growth", "asset"}}
Varied(f) ==
  {f} \union {[f EXCEPT !.eps = x] : x \in {Absent, -10}} \union {[f EXCEPT !.consensus = 15]}
      \union {[f EXCEPT !.claims = C] : C \in {ClaimsHere} \union {{c} : c \in ClaimsHere}}
      \union {[f EXCEPT !.eps = -10, !.claims = ClaimsHere]} \union {[f EXCEPT !.income = Absent, !.claims = ClaimsHere]}
      \union {[f EXCEPT !.growth = 9], [f EXCEPT !.epsRise = Absent]} \union {[f EXCEPT !.dps = x] : x \in {Absent, 1}}
      \union {[f EXCEPT !.fcff = x] : x \in {-5, 90}} \union {[f EXCEPT !.debt = 300]}
      \union {[f EXCEPT !.coe = 3]} \union {[f EXCEPT !.shares = Absent], [f EXCEPT !.roe = -4]}
      \union {[f EXCEPT !.ebitdaGrowth = 5, !.ebitdaRise = Absent], [f EXCEPT !.roe = -4, !.bookGrowth = -6]}
      \union {[f EXCEPT !.bookGrowth = Absent], [f EXCEPT !.debtCost = 5], [f EXCEPT !.cycle = 15], [f EXCEPT !.ebitda = 200]}
CompaniesHere == UNION {Varied(f) : f \in KindsHere}

\* Windows of a clean rise, a clean fall and a base.
ShapeHere(slope, clean, curve) ==
  [slope |-> slope, clean |-> clean, curve |-> curve, breakout |-> "none", channel |-> "none", ranges |-> "normal",
   volume |-> "neutral"]
ShapesHere == {ShapeHere(1, TRUE, 0), ShapeHere(-2, TRUE, 0), ShapeHere(0, FALSE, 1)}

\* One start of what is left alone.
FirstAxes == growth = NoGrowth /\ worth = NoWorth /\ readings = NoReadings /\ flows = NoFlows
FirstList ==
  /\ snapshot = [s \in Stocks |-> RowHere(1, Missing, 2, 0, 2, Missing, 1, Missing, TRUE, 2)]
  /\ market = 1
  /\ reader = Reader(CHOOSE q \in Query : q.strategy = "growth" /\ q.sort = "score", << >>, 0, FALSE, TRUE)
FirstMarks == marks = 1
FirstCompany == company = PlainHere

StocksInit ==
  /\ bench \in {"axes", "lists", "comments", "targets", "charts"}
  /\ (bench = "axes" \/ FirstAxes) /\ AxisInit
  /\ (bench = "lists" \/ FirstList) /\ ScreenInit
  /\ (bench = "comments" \/ FirstMarks) /\ CommentInit
  /\ (bench = "targets" \/ FirstCompany) /\ ValuationInit
  /\ ChartInit

Axes == bench = "axes" /\ AxisNext /\ UNCHANGED <<bench, screenVars, commentVars, valuationVars, chartVars>>
Lists == bench = "lists" /\ ScreenNext /\ UNCHANGED <<bench, axisVars, commentVars, valuationVars, chartVars>>
Comments == bench = "comments" /\ CommentNext /\ UNCHANGED <<bench, axisVars, screenVars, valuationVars, chartVars>>
Targets == bench = "targets" /\ ValuationNext /\ UNCHANGED <<bench, axisVars, screenVars, commentVars, chartVars>>

Charts == bench = "charts" /\ ChartNext /\ UNCHANGED <<bench, axisVars, screenVars, commentVars, valuationVars>>

StocksNext == Axes \/ Lists \/ Comments \/ Targets \/ Charts

StocksSpec == StocksInit /\ [][StocksNext]_benches
=============================================================================
