-------------------------- MODULE StatementFigures --------------------------
(***************************************************************************)
(* From a company's filed statements to the figures of its quarters: the   *)
(* parse by account and by name (adapters/dart/client.py, fs_parse.py),    *)
(* the single quarters and the twelve months (domain/financials.py) and    *)
(* the rows of financials two writers share (financials_backfill.py,       *)
(* company_service.sync_financials).  A figure is a small number; a ratio  *)
(* is kept as the twelve months' figure it divides by.                     *)
(***************************************************************************)
EXTENDS Integers, FiniteSets, FiniteSetsExt, Sequences

CONSTANTS
  Quarters,   \* how many quarters the history has
  Sales,      \* what a quarter may really have sold
  MaxSpoilt,  \* quarters without statements, or with a summary only
  NoFigure

ASSUME FiguresAssumption == Quarters \in Nat /\ MaxSpoilt \in Nat /\ Sales \subseteq Nat /\ NoFigure \notin Int

Term == 1..Quarters
QuarterOf(t) == ((t - 1) % 4) + 1
YearStart(t) == t - QuarterOf(t) + 1

Fields == {"revenue", "earnings", "debt"}
Owed == 3
Layouts == {"tagged", "named", "bank", "parts", "services", "unmapped"}

VARIABLES
  sold,      \* what each quarter really sold; the owners earn one less
  style,     \* the reports of the year give the quarter, or what has accumulated
  layout,    \* how the statements show revenue
  minority,  \* the company has other owners, whose part is 1 a quarter
  shown,     \* quarter -> what DART has: full statements, a summary, nothing
  mapped,    \* the ontology knows the account the company uses
  cursor,    \* the quarter the backfill parses next, 0 when it does not run
  raw,       \* field -> quarter -> the figure it parsed
  figures,   \* the rows of financials
  gaps       \* fs_parse_gaps

figureVars == <<sold, style, layout, minority, shown, mapped, cursor, raw, figures, gaps>>

NoRaw == [f \in Fields |-> [t \in Term |-> NoFigure]]
NoQuarter == [revenue |-> NoFigure, earnings |-> NoFigure, psr |-> NoFigure, per |-> NoFigure]

SumFrom(f, a, b) == MapThenSumSet(LAMBDA t : f[t], a..b)
Earned == [t \in Term |-> sold[t] - 1]

\* The annual report has the year; the others the quarter, or the year so far.
Stated(f, t) == IF QuarterOf(t) = 4 \/ style = "accumulated" THEN SumFrom(f, YearStart(t), t) ELSE f[t]
Parts(t) == IF QuarterOf(t) = 4 \/ style = "accumulated" THEN QuarterOf(t) ELSE 1

FiguresInit ==
  /\ sold \in [Term -> Sales]
  /\ style \in {"quarters", "accumulated"} /\ layout \in Layouts /\ minority \in BOOLEAN
  /\ shown \in {s \in [Term -> {"full", "summary", "none"}] : Cardinality({t \in Term : s[t] # "full"}) <= MaxSpoilt}
  /\ mapped = FALSE
  /\ cursor = 0 /\ raw = NoRaw
  /\ figures = [t \in Term |-> NoQuarter]
  /\ gaps = {}

(* The rows of a statement: table, tag, name, amount.                      *)
Item(table, tag, name, amount) == [table |-> table, tag |-> tag, name |-> name, amount |-> amount]

RevenueItems(t) ==
  LET all == Stated(sold, t)
      fees == Parts(t) IN
  CASE layout = "tagged"   -> {Item("IS", "total", "sales", all), Item("CF", "interest", "other", 1)}
    [] layout = "named"    -> {Item("IS", "none", "sales", all)}
    [] layout = "bank"     -> {Item("CIS", "total", "other", all), Item("CIS", "fees", "other", fees),
                               Item("CIS", "interest", "other", all - fees)}
    [] layout = "parts"    -> {Item("CIS", "fees", "other", fees), Item("CIS", "interest", "other", all - fees)}
    [] layout = "services" -> {Item("CIS", "total", "sales", all), Item("CIS", "interest", "other", 1)}
    [] layout = "unmapped" -> {Item("IS", IF mapped THEN "total" ELSE "none", "other", all)}

EarningsItems(t) ==
  LET own == Stated(Earned, t) IN
  IF minority THEN {Item("IS", "owners", "other", own), Item("IS", "whole", "earnings", own + Parts(t))}
              ELSE {Item("IS", "whole", "earnings", own)}

AmountOf(S) == IF S = {} THEN NoFigure ELSE (CHOOSE i \in S : TRUE).amount
Total(S) == MapThenSumSet(LAMBDA i : i.amount, S)
With(S, tags) == {i \in S : i.tag \in tags}
Named(S, name) == {i \in S : i.name = name}
FirstOf(a, b) == IF a # NoFigure THEN a ELSE b

(* Debt: a line for the whole, lines the parser of the accounts knows as a *)
(* part ("단기차입금") and lines only the names know ("차입부채(유동)").        *)
DebtItems ==
  CASE layout = "tagged"   -> {Item("BS", "none", "debt", Owed), Item("BS", "part", "short", 1), Item("BS", "part", "long", 2)}
    [] layout = "named"    -> {Item("BS", "none", "debt", Owed), Item("BS", "none", "current", 1)}
    [] layout = "bank"     -> {Item("BS", "part", "short", 1), Item("BS", "part", "long", 2)}
    [] layout = "parts"    -> {Item("BS", "none", "current", 1), Item("BS", "none", "noncurrent", 2)}
    [] layout = "services" -> {Item("BS", "none", "debt", Owed), Item("BS", "part", "short", 1), Item("BS", "none", "noncurrent", 2)}
    [] layout = "unmapped" -> {}

(* A bank's statement has no line of its own for revenue: its parts are    *)
(* added up, without the line that is already their sum.  Elsewhere the    *)
(* line counts and the parts are not revenue.                              *)
IsBank(S) == With(S, {"fees"}) # {} /\ (\E i \in S : i.table = "CIS") /\ ~\E i \in S : i.table = "IS"

\* Faulty variant: the line that is the sum is added to its parts.
RevenueByAccount_AddsSum(S) ==
  LET income == {i \in S : i.table # "CF"} IN
  IF IsBank(S) THEN Total(With(income, {"fees", "interest", "total"})) ELSE AmountOf(With(income, {"total"}))

RevenueByAccount(S) ==
  LET income == {i \in S : i.table # "CF"}
      parts == With(income, {"fees", "interest"}) IN
  IF IsBank(S) /\ parts # {} THEN Total(parts) ELSE AmountOf(With(income, {"total"}))
RevenueByName(S) == AmountOf({i \in Named(S, "sales") : i.table # "CF"})

\* The owners' part before the whole, the account before the name.
EarningsByAccount(S) == FirstOf(AmountOf(With(S, {"owners"})), AmountOf(With(S, {"whole"})))
EarningsByName(S) == AmountOf(Named(S, "earnings"))

\* By account the known parts are added up; by name the whole comes first.
DebtByAccount(S) == IF With(S, {"part"}) = {} THEN NoFigure ELSE Total(With(S, {"part"}))
DebtByName(S) == IF Named(S, "debt") # {} THEN AmountOf(Named(S, "debt")) ELSE IF S = {} THEN NoFigure ELSE Total(S)

\* The summary has names only, and only the whole of the earnings.
SummaryRevenue(t) == Stated(sold, t)
SummaryEarnings(t) == Stated(Earned, t) + (IF minority THEN Parts(t) ELSE 0)

FullFigures(t) ==
  [revenue  |-> FirstOf(RevenueByAccount(RevenueItems(t)), RevenueByName(RevenueItems(t))),
   earnings |-> FirstOf(EarningsByAccount(EarningsItems(t)), EarningsByName(EarningsItems(t))),
   debt     |-> FirstOf(DebtByAccount(DebtItems), DebtByName(DebtItems))]
SummaryFigures(t) == [revenue |-> SummaryRevenue(t), earnings |-> SummaryEarnings(t), debt |-> NoFigure]

Parsed(t) ==
  CASE shown[t] = "full"    -> FullFigures(t)
    [] shown[t] = "summary" -> SummaryFigures(t)
    [] shown[t] = "none"    -> [f \in Fields |-> NoFigure]

(* Recording what was not parsed, and striking out what now is.            *)
Recorded(t) == {<<t, f>> : f \in {g \in Fields : Parsed(t)[g] = NoFigure}} \union {g \in gaps : g[1] # t}

BackfillStarts ==
  /\ cursor = 0
  /\ cursor' = 1 /\ raw' = NoRaw
  /\ UNCHANGED <<sold, style, layout, minority, shown, mapped, figures, gaps>>

ParsesNext ==
  /\ cursor \in Term
  /\ raw' = [f \in Fields |-> [raw[f] EXCEPT ![cursor] = Parsed(cursor)[f]]]
  /\ gaps' = IF shown[cursor] = "full" THEN Recorded(cursor) ELSE gaps
  /\ cursor' = cursor + 1
  /\ UNCHANGED <<sold, style, layout, minority, shown, mapped, figures>>

\* Faulty variant: the annual report's figure is taken for its last quarter's.
Single_Annual(f, t) == f[t]

(* A quarter of its own: the annual report less the other three.           *)
Single(f, t) ==
  LET others == {u \in YearStart(t)..(t - 1) : TRUE} IN
  IF QuarterOf(t) # 4 \/ f[t] = NoFigure THEN f[t]
  ELSE IF \E u \in others : f[u] = NoFigure THEN NoFigure
  ELSE f[t] - SumFrom(f, YearStart(t), t - 1)

\* Twelve months: four quarters in a row, or nothing.
TwelveMonths(f, t) ==
  IF t < 4 \/ \E u \in (t - 3)..t : f[u] = NoFigure THEN NoFigure ELSE SumFrom(f, t - 3, t)

Positive(x) == IF x # NoFigure /\ x > 0 THEN x ELSE NoFigure

(* The row of a quarter.  A revenue below nothing says that the reports    *)
(* accumulate: it is cleared.  What is not known leaves the row as it was. *)
Written(t, shares) ==
  LET revenues == [u \in Term |-> Single(raw["revenue"], u)]
      kept == [u \in Term |-> IF revenues[u] # NoFigure /\ revenues[u] < 0 THEN NoFigure ELSE revenues[u]]
      earnings == [u \in Term |-> Single(raw["earnings"], u)]
      ratio(x) == IF shares THEN Positive(x) ELSE NoFigure
      negative == revenues[t] # NoFigure /\ kept[t] = NoFigure IN
  [revenue  |-> IF negative THEN NoFigure ELSE FirstOf(kept[t], figures[t].revenue),
   earnings |-> FirstOf(earnings[t], figures[t].earnings),
   psr      |-> FirstOf(ratio(TwelveMonths(kept, t)), figures[t].psr),
   per      |-> FirstOf(ratio(TwelveMonths(earnings, t)), figures[t].per)]

BackfillStores ==
  /\ cursor = Quarters + 1
  /\ \E shares \in BOOLEAN :      \* whether the page with the number of shares came
       figures' = [t \in Term |-> IF raw["revenue"][t] = NoFigure THEN figures[t] ELSE Written(t, shares)]
  /\ cursor' = 0 /\ raw' = NoRaw
  /\ UNCHANGED <<sold, style, layout, minority, shown, mapped, gaps>>

\* An error, or the quota: nothing is stored.
BackfillBreaks ==
  /\ cursor # 0
  /\ cursor' = 0 /\ raw' = NoRaw
  /\ UNCHANGED <<sold, style, layout, minority, shown, mapped, figures, gaps>>

(* Naver's page has the last quarters' figures and no ratio; what it does  *)
(* not show is stored as nothing.                                          *)
OnPage == {[revenue |-> sold[Quarters], earnings |-> Earned[Quarters]], [revenue |-> NoFigure, earnings |-> NoFigure]}

PageSyncs ==
  /\ \E row \in OnPage :
       figures' = [figures EXCEPT ![Quarters].revenue = row.revenue, ![Quarters].earnings = row.earnings]
  /\ UNCHANGED <<sold, style, layout, minority, shown, mapped, cursor, raw, gaps>>

MappingGrows ==
  /\ layout = "unmapped" /\ ~mapped
  /\ mapped' = TRUE
  /\ UNCHANGED <<sold, style, layout, minority, shown, cursor, raw, figures, gaps>>

FiguresNext ==
  \/ BackfillStarts \/ ParsesNext \/ BackfillStores \/ BackfillBreaks
  \/ PageSyncs \/ MappingGrows

FiguresSpec == FiguresInit /\ [][FiguresNext]_figureVars

\* A ratio to twelve months' sales or earnings divides by what the four quarters
\* really made, or is not given; the reports being the single quarters' and the
\* earnings the owners' throughout.
TtmIsFourQuarters ==
  style = "quarters" =>
    \A t \in Term :
      /\ figures[t].psr # NoFigure => t >= 4 /\ figures[t].psr = SumFrom(sold, t - 3, t)
      /\ figures[t].per # NoFigure /\ (minority => \A u \in Term : shown[u] # "summary") =>
           t >= 4 /\ figures[t].per = SumFrom(Earned, t - 3, t)

\* "지배주주 순이익": the earnings are the owners', whichever request gave them.
EarningsAreTheOwners ==
  style = "quarters" => \A t \in Term : figures[t].per # NoFigure => figures[t].per = SumFrom(Earned, t - 3, t)

\* "총계 우선": where a line has the whole debt, that is the debt.
DebtIsTheWhole ==
  Named(DebtItems, "debt") # {} => \A t \in Term : raw["debt"][t] \in {Owed, NoFigure}
=============================================================================
