----------------------------- MODULE Valuation -----------------------------
(***************************************************************************)
(* The target price of a deep dive (services/deepdive/valuation_stage,     *)
(* domain/valuation, forward, beta): the anchors read from the statements, *)
(* the conversation in which the model asks for the methods one by one,    *)
(* and the answer blended from what it asked for, or from every method     *)
(* when the conversation fails.  A growth is in tenths, a price in units   *)
(* of the statements; the closed forms of the multiples and of the         *)
(* discounted flows keep what they need, refuse and grow with.             *)
(***************************************************************************)
EXTENDS Integers, Sequences, FiniteSets, FiniteSetsExt, SequencesExt

CONSTANTS
  Absent,   \* a figure that is not there
  Companies,  \* the figures and claims a conversation may be about
  MaxCalls    \* a bound of the model on the calls of tools (the code: 24 turns)

(* What is known of a company, and what its reader claims.                 *)
Amounts == Int \union {Absent}
ClaimsThere ==
  [unit : {"absolute", "pct"}, scope : {"company", "segment"}, value : Int, share : Amounts,
   metric : {"revenue", "profit"}, refuted : BOOLEAN]
CompaniesThere ==
  [eps : Amounts, consensus : Amounts, growth : Amounts, revenue : Amounts, income : Amounts, margin : Amounts, bps : Amounts,
   bookGrowth : Amounts, ebitda : Amounts, roe : Amounts, coe : Amounts, terminal : Amounts, riskFree : Amounts,
   shares : Amounts, debt : Amounts, debtCost : Amounts, fcff : Amounts, epsRise : Amounts, quarters : Nat,
   ebitdaRise : Amounts, years : Nat, ebitdaGrowth : Amounts, yearsGrowth : Amounts, dps : Amounts, cycle : Amounts,
   sector : {"none", "financial", "cyclical"}, thesis : {"growth", "asset", "other"}, lifted : {FALSE},
   claims : SUBSET ClaimsThere]
ASSUME ValuationAssumption == Companies \subseteq CompaniesThere /\ \A f \in Companies : IsFiniteSet(f.claims)

VARIABLES
  company,   \* the figures of the statements, of the market and of the reader's claims
  computed,  \* the latest result of each method that was asked for
  calls,     \* how many tools were called
  valued     \* the answer that is stored, or nothing yet

valuationVars == <<company, computed, calls, valued>>

Methods == <<"per", "pbr", "ev_ebitda", "dcf", "ddm", "ggm_dcf">>
Given(x) == x # Absent
Plus(x, g) == (x * (10 + g)) \div 10
Lower(a, b) == IF a < b THEN a ELSE b
Upper(a, b) == IF a > b THEN a ELSE b

(* Claims of the reader: how much more revenue, how much more profit.      *)
RevenueGrowth(c, f) ==
  CASE c.unit = "absolute" -> IF Given(f.revenue) /\ f.revenue > 0 THEN (10 * c.value) \div f.revenue ELSE Absent
    [] c.unit = "pct" /\ c.scope = "segment" -> IF Given(c.share) THEN (c.value * c.share) \div 10 ELSE Absent
    [] c.unit = "pct" /\ c.scope = "company" -> c.value
    [] OTHER -> Absent
\* Faulty variant: what was refuted counts too.
ProfitGrowth_Refuted(c, f) ==
  LET g == RevenueGrowth(c, f) IN
  IF ~Given(g) THEN 0
  ELSE IF c.metric # "revenue" THEN g
  ELSE IF Given(f.margin) /\ Given(f.revenue) /\ Given(f.income) /\ f.income > 0
       THEN (g * f.revenue * f.margin) \div (10 * f.income) ELSE 0
ProfitGrowth(c, f) ==
  LET g == RevenueGrowth(c, f) IN
  IF c.refuted \/ ~Given(g) THEN 0
  ELSE IF c.metric # "revenue" THEN g
  ELSE IF Given(f.margin) /\ Given(f.revenue) /\ Given(f.income) /\ f.income > 0
       THEN (g * f.revenue * f.margin) \div (10 * f.income) ELSE 0
Uplift(f) == MapThenSumSet(LAMBDA c : Upper(0, ProfitGrowth(c, f)), f.claims)

Raised(f) ==
  LET up(x) == IF Given(x) THEN Plus(x, Uplift(f)) ELSE x IN
  [f EXCEPT !.eps = up(f.eps), !.ebitda = up(f.ebitda), !.lifted = Uplift(f) > 0]

(* The profit to come: of the claims, else of the analysts, else of the    *)
(* trend, that of EBITDA from its own quarters.                            *)
Forward(f) ==
  IF f.lifted THEN f
  ELSE IF Given(f.consensus) /\ f.consensus > 0 THEN [f EXCEPT !.eps = f.consensus]
  ELSE LET grown(x, g) == IF Given(x) /\ Given(g) THEN Plus(x, g) ELSE x IN
       [f EXCEPT !.eps = grown(f.eps, f.growth), !.ebitda = grown(f.ebitda, f.ebitdaGrowth)]

(* Growth over the years: of profit from a series of quarters, of EBITDA   *)
(* from the years' figures, through the same operator of quarters; where   *)
(* there is none, half the trend of the same series.                       *)
Cagr(rise, steps) == IF Given(rise) /\ steps >= 4 THEN (4 * rise) \div steps ELSE Absent
LongGrowth(trend, rise, steps) ==
  IF Given(Cagr(rise, steps)) THEN Cagr(rise, steps) ELSE IF Given(trend) THEN trend \div 2 ELSE Absent
EpsGrowth(a) == LongGrowth(a.growth, a.epsRise, a.quarters)
EbitdaGrowth(a) == IF a.years >= 4 THEN LongGrowth(a.yearsGrowth, a.ebitdaRise, a.years) ELSE Absent

(* What kind of stock it is and how far each method fits, in tenths.       *)
FitOf ==
  [growth    |-> [per |-> 15, pbr |->  5, ev_ebitda |-> 10, dcf |-> 15, ddm |-> 10, ggm_dcf |-> 10],
   asset     |-> [per |-> 10, pbr |-> 15, ev_ebitda |-> 10, dcf |-> 10, ddm |-> 10, ggm_dcf |->  5],
   financial |-> [per |-> 10, pbr |-> 15, ev_ebitda |->  0, dcf |->  0, ddm |-> 15, ggm_dcf |->  0],
   cyclical  |-> [per |->  5, pbr |-> 10, ev_ebitda |-> 15, dcf |->  5, ddm |-> 10, ggm_dcf |->  5],
   other     |-> [per |-> 10, pbr |-> 10, ev_ebitda |-> 10, dcf |-> 10, ddm |-> 10, ggm_dcf |->  8]]
Kind(f) == IF f.sector \in {"financial", "cyclical"} THEN f.sector ELSE f.thesis
Fit(f) ==
  LET pays == Given(f.dps) /\ f.dps > 1
      loses == Given(f.eps) /\ f.eps < 0 IN
  [m \in DOMAIN FitOf[Kind(f)] |->
     IF (m = "ddm" /\ ~pays) \/ (m \in {"per", "dcf"} /\ loses) THEN 0 ELSE FitOf[Kind(f)][m]]

(* Where a cycle bends the profit, the margin of its middle replaces it.   *)
Normalized(f) ==
  IF Kind(f) = "cyclical" /\ Given(f.eps) /\ Given(f.cycle) THEN [f EXCEPT !.eps = (f.eps * f.cycle) \div 10] ELSE f

ForwardOf(f) == Forward(Raised(f))
AnchorsOf(f) == Normalized(ForwardOf(f))

(* The six methods: a price, or nothing where a figure is missing or the   *)
(* formula would diverge.                                                  *)
Multiple(a, growth) ==
  IF Given(a.roe) /\ a.roe > 0 /\ Given(a.coe) /\ Given(growth) /\ Given(a.terminal) /\ a.terminal < a.coe
  THEN 10 + Lower(growth, a.roe) ELSE Absent
BookMultiple(a) ==
  IF Given(a.bookGrowth) /\ Given(a.coe) /\ Given(a.roe) /\ a.roe > 0 /\ a.roe > a.bookGrowth /\ a.coe > a.bookGrowth
  THEN (10 * (a.roe - a.bookGrowth)) \div (a.coe - a.bookGrowth)
  ELSE IF Given(Multiple(a, EpsGrowth(a))) THEN Multiple(a, EpsGrowth(a)) * a.roe ELSE Absent
Wacc(a) ==
  IF ~Given(a.coe) \/ ~Given(a.shares) THEN Absent
  ELSE IF Given(a.debt) /\ a.debt > 0 /\ Given(a.debtCost) THEN (a.coe + a.debtCost) \div 2 ELSE a.coe
\* Dividends grow with the profit, never faster than money without risk.
DividendGrowth(a) ==
  LET g == EpsGrowth(a) IN
  IF ~Given(g) THEN Absent ELSE Upper(0, IF Given(a.riskFree) THEN Lower(g, a.riskFree) ELSE g)
PerShare(worth, a) ==
  LET equity == worth - (IF Given(a.debt) THEN a.debt ELSE 0) IN
  IF equity > 0 THEN equity \div a.shares ELSE Absent
FlowsOf(a, base, spread, g) == IF base > 0 /\ spread > 0 THEN PerShare((base * (10 + g)) \div spread, a) ELSE Absent

PerPrice(a, multiple) == IF Given(a.eps) /\ Given(multiple) /\ a.eps > 0 THEN a.eps * multiple ELSE Absent
PbrPrice(a, multiple) == IF Given(a.bps) /\ Given(multiple) /\ a.bps > 0 THEN (a.bps * multiple) \div 10 ELSE Absent
EvEbitdaPrice(a, multiple) ==
  IF Given(a.ebitda) /\ Given(multiple) /\ Given(a.shares) /\ a.ebitda > 0 THEN PerShare(a.ebitda * multiple, a) ELSE Absent
DcfPrice(a, wacc) ==
  IF Given(a.fcff) /\ Given(a.growth) /\ Given(a.terminal) /\ Given(wacc) /\ wacc > a.terminal
  THEN FlowsOf(a, a.fcff, Upper(wacc - a.terminal, 4), a.growth) ELSE Absent
DdmPrice(a, growth) ==
  IF Given(a.dps) /\ Given(growth) /\ Given(a.coe) /\ a.dps > 0 /\ a.coe > growth
  THEN (a.dps * (10 + growth)) \div (a.coe - growth) ELSE Absent
GgmPrice(a, wacc, growth) ==
  IF Given(a.fcff) /\ Given(wacc) /\ Given(growth) THEN FlowsOf(a, a.fcff, wacc - growth, growth) ELSE Absent

Price(m, a) ==
  CASE m = "per" -> PerPrice(a, Multiple(a, EpsGrowth(a)))
    [] m = "pbr" -> PbrPrice(a, BookMultiple(a))
    [] m = "ev_ebitda" -> EvEbitdaPrice(a, Multiple(a, EbitdaGrowth(a)))
    [] m = "dcf" -> DcfPrice(a, Wacc(a))
    [] m = "ddm" -> DdmPrice(a, DividendGrowth(a))
    [] m = "ggm_dcf" -> GgmPrice(a, Wacc(a), EpsGrowth(a))
Confidence(m) == IF m \in {"dcf", "ggm_dcf"} THEN 1 ELSE 2

(* The blend: what does not fit goes first, then what is far from the      *)
(* middle of the rest, then the mean by confidence and fit.                *)
Found(results) == {m \in DOMAIN results : Given(results[m].target) /\ results[m].target > 0}
OrAll(S, all) == IF S = {} THEN all ELSE S
Fitting(results, fit) == OrAll({m \in Found(results) : fit[m] > 0}, Found(results))
MidOf(results, S) ==
  CHOOSE x \in {results[m].target : m \in S} :
    /\ Cardinality({m \in S : results[m].target < x}) <= Cardinality(S) \div 2
    /\ Cardinality({m \in S : results[m].target <= x}) > Cardinality(S) \div 2
Far(results, mid, m, growing) ==
  LET gap == results[m].target - mid IN 10 * gap > (IF growing THEN 12 ELSE 6) * mid \/ -10 * gap > 6 * mid
\* Faulty variant: the middle is taken before what does not fit is put aside.
Outliers_OfAll(results, fit, growing) ==
  {m \in Fitting(results, fit) : Far(results, MidOf(results, Found(results)), m, growing)}
Outliers(results, fit, growing) ==
  {m \in Fitting(results, fit) : Far(results, MidOf(results, Fitting(results, fit)), m, growing)}
Pool(results, fit, growing) == OrAll(Fitting(results, fit) \ Outliers(results, fit, growing), Fitting(results, fit))
Blend(results, fit, growing) ==
  LET pool == Pool(results, fit, growing)
      fits == MapThenSumSet(LAMBDA m : Confidence(m) * fit[m], pool) > 0
      weight(m) == Confidence(m) * (IF fits THEN fit[m] ELSE 10)
  IN IF Found(results) = {} THEN Absent
     ELSE MapThenSumSet(LAMBDA m : results[m].target * weight(m), pool) \div MapThenSumSet(weight, pool)

\* Each blend writes beside a result why it does not count.
Remarked(results, fit, growing) ==
  LET unfit == {m \in Found(results) : fit[m] = 0} IN
  [m \in DOMAIN results |->
     [results[m] EXCEPT !.remarks = @ + (IF m \in unfit THEN 1 ELSE 0)
                                     + (IF Found(results) # {} /\ m \in Outliers(results, fit, growing) THEN 1 ELSE 0)]]

Growing(f) == Kind(f) = "growth"
EvenFit == [m \in ToSet(Methods) |-> 10]
ResultOf(m, f) == [target |-> Price(m, AnchorsOf(f)), remarks |-> 0]
NotValued == [by |-> "nobody"]
Answer(by, target, fit, results, concluded) ==
  [by |-> by, target |-> target, fit |-> fit, results |-> results, concluded |-> concluded]

ValuationInit ==
  /\ company \in Companies
  /\ computed = << >>
  /\ calls = 0
  /\ valued = NotValued

Talking == valued = NotValued /\ calls < MaxCalls
MethodFit == Fit(ForwardOf(company))

(* A tool of a method: its latest result replaces the one before.          *)
Compute(m) ==
  /\ Talking
  /\ computed' = [x \in DOMAIN computed \union {m} |-> IF x = m THEN ResultOf(m, company) ELSE computed[x]]
  /\ calls' = calls + 1
  /\ UNCHANGED <<company, valued>>

(* The model looks at the blend of what it has so far.                     *)
LookAtBlend ==
  /\ Talking
  /\ computed' = Remarked(computed, MethodFit, Growing(company))
  /\ calls' = calls + 1
  /\ UNCHANGED <<company, valued>>

AskAnchors ==
  /\ Talking
  /\ calls' = calls + 1
  /\ UNCHANGED <<company, computed, valued>>

(* Every method at once, without a conversation.                           *)
OneShot(fit, by) ==
  LET all == [m \in ToSet(Methods) |-> ResultOf(m, company)] IN
  valued' = Answer(by, Blend(all, fit, Growing(company)), fit, Remarked(all, fit, Growing(company)), FALSE)

(* The model finalizes, says its conclusion, or has used its turns.        *)
Conclude(concluded) ==
  /\ valued = NotValued
  /\ concluded \/ calls = MaxCalls
  /\ IF computed = << >> THEN OneShot(MethodFit, "nothing_asked")
     ELSE valued' = Answer("conversation", Blend(computed, MethodFit, Growing(company)), MethodFit,
                           Remarked(computed, MethodFit, Growing(company)), concluded)
  /\ UNCHANGED <<company, computed, calls>>

(* The model fails between two turns: what was computed is not kept, and   *)
(* how far a method fits is not handed on.                                 *)
ToolLoopFails ==
  /\ Talking
  /\ OneShot(EvenFit, "failed")
  /\ UNCHANGED <<company, computed, calls>>

ValuationNext ==
  \/ \E m \in ToSet(Methods) : Compute(m)
  \/ LookAtBlend
  \/ AskAnchors
  \/ \E concluded \in BOOLEAN : Conclude(concluded)
  \/ ToolLoopFails

ValuationSpec == ValuationInit /\ [][ValuationNext]_valuationVars

-----------------------------------------------------------------------------
(* What is out changes nothing: the target of a conversation is the one    *)
(* the same methods give without the claims that were refuted and without  *)
(* the results of methods that do not fit this stock, unless none fits.    *)
(* (apply_hitl_to_anchors, blend: excluded before the middle is taken)     *)
WhatIsOutChangesNothing ==
  valued.by \in {"conversation", "nothing_asked"} =>
    LET believed == [company EXCEPT !.claims = {c \in @ : ~c.refuted}]
        priced(S) == [m \in S |-> ResultOf(m, believed)]
        fit == Fit(ForwardOf(believed))
        counts == {m \in DOMAIN valued.results : fit[m] > 0}
    IN \/ Found(priced(counts)) = {}
       \/ valued.target = Blend(priced(counts), fit, Growing(company))

(* A method that does not fit never moves the target, whichever way the    *)
(* answer came about.  (valuation_stage: "blend 가 부적합 방식을 제외")     *)
ExcludedNeverCounts ==
  valued # NotValued =>
    LET counts == {m \in DOMAIN valued.results : MethodFit[m] > 0}
        of(S) == [m \in S |-> valued.results[m]]
    IN Found(of(counts)) = {} \/ \E fit \in {MethodFit, EvenFit} : valued.target = Blend(of(counts), fit, Growing(company))

(* A claim that was not refuted never lowers the profit the targets are    *)
(* computed from.                                                          *)
GoodNewsNeverHurts ==
  Given(company.eps) => AnchorsOf(company).eps >= AnchorsOf([company EXCEPT !.claims = {}]).eps

(* The growth a multiple of EBITDA pays for is that of one year.           *)
(* (valuation_stage._annual_series gives one figure a year, forward._cagr  *)
(* counts four to a year)                                                  *)
GrowthIsYearly ==
  Given(company.ebitdaRise) /\ company.years >= 4 => EbitdaGrowth(company) <= company.ebitdaRise \div company.years
=============================================================================
