------------------------- MODULE CompanyStatements -------------------------
(***************************************************************************)
(* One company's statements as DART files them, as financial_statements    *)
(* keeps them and as financial_statement_cache answers them                *)
(* (company_service.py, routers/companies.py, financials_backfill.py).  A  *)
(* row is labelled with a division, consolidated or separate; `of` is the  *)
(* division its figures were really taken from.  A request reads the rows, *)
(* then the labels there are, and stores its answer; five writers change   *)
(* the rows and drop the answers meanwhile.                                *)
(***************************************************************************)
EXTENDS Naturals, FiniteSets

CONSTANTS
  Terms,       \* the quarters of the ten years
  Visits,      \* requests of the page in flight
  MaxFilings,  \* filings and restatements after the start
  MaxFailed,   \* requests to DART that fail in one round
  Unfiled      \* quarters whose statements come without a table of equity

ASSUME StatementsAssumption == {MaxFilings, MaxFailed} \subseteq Nat /\ Unfiled \subseteq Terms

Divs == {"CFS", "OFS"}

VARIABLES
  filed,       \* at DART: division, quarter -> version, 0 before the filing
  statements,  \* label -> quarter -> row
  answers,     \* label -> the cached answer
  visits,      \* request -> where it is and what it has read
  history,     \* the ten years' backfill: has it begun, which rows it found
  separate     \* the backfill of separate statements: has it begun, is it marked

statementVars == <<filed, statements, answers, visits, history, separate>>

Unstored == [of |-> "none", version |-> 0, equity |-> FALSE]
\* late: the rows have changed since the answer's were read, and nothing has dropped it yet.
NoAnswer == [rows |-> {}, divs |-> {}, fresh |-> FALSE, late |-> FALSE]
Nothing == [d \in Divs |-> [t \in Terms |-> Unstored]]
NoVisit == [step |-> "idle", div |-> "CFS", rows |-> {}, divs |-> {}, late |-> FALSE]
NoHistory == [begun |-> FALSE, had |-> {}]

Rows(d) == {<<t, statements[d][t]>> : t \in {u \in Terms : statements[d][u] # Unstored}}
Labels == {d \in Divs : Rows(d) # {}}     \* available_fs_divs

RowOf(d, t) == [of |-> d, version |-> filed[d][t], equity |-> t \notin Unfiled]

StatementsInit ==
  /\ filed \in [Divs -> [Terms -> {0, 1}]]
  /\ statements = Nothing
  /\ answers = [d \in Divs |-> NoAnswer]
  /\ visits = [v \in Visits |-> NoVisit]
  /\ history = NoHistory /\ separate = "none"

StatementsTypeOK ==
  /\ filed \in [Divs -> [Terms -> Nat]]
  /\ \A d \in Divs, t \in Terms : statements[d][t] = Unstored \/ statements[d][t].of \in Divs
  /\ \A v \in Visits : visits[v].step \in {"idle", "rows", "labels", "fetch", "fetched"}
  /\ separate \in {"none", "begun", "done"}

\* What the requests that fail leave of the quarters of a division.
Answered(failed, d) == {t \in Terms : filed[d][t] > 0 /\ <<d, t>> \notin failed}
Failures == {f \in SUBSET (Divs \X Terms) : Cardinality(f) <= MaxFailed}

\* An answer that is being put together while the rows change is stored all the same.
Overtaken == [v \in Visits |-> IF visits[v].step \in {"rows", "labels"} THEN [visits[v] EXCEPT !.late = TRUE] ELSE visits[v]]
NoAnswers == [d \in Divs |-> NoAnswer]

Filing(d, t) ==
  /\ filed[d][t] < MaxFilings
  /\ filed' = [filed EXCEPT ![d][t] = @ + 1]
  /\ UNCHANGED <<statements, answers, visits, history, separate>>

(* The page: the cached answer, else the rows, the labels, the answer.     *)
VisitReads(v, d) ==
  /\ visits[v].step = "idle" /\ ~answers[d].fresh
  /\ visits' = [visits EXCEPT ![v] = [step |-> "rows", div |-> d, rows |-> Rows(d), divs |-> {}, late |-> FALSE]]
  /\ UNCHANGED <<filed, statements, answers, history, separate>>

VisitReadsLabels(v) ==
  /\ visits[v].step = "rows"
  /\ visits' = [visits EXCEPT ![v].step = "labels", ![v].divs = Labels]
  /\ UNCHANGED <<filed, statements, answers, history, separate>>

\* Only an answer with rows is stored; without rows the fetch runs after the response.
VisitStores(v) ==
  LET got == visits[v] IN
  /\ got.step = "labels"
  /\ IF got.rows # {}
       THEN /\ answers' = [answers EXCEPT ![got.div] =
                  [rows |-> got.rows, divs |-> got.divs, fresh |-> TRUE, late |-> got.late]]
            /\ visits' = [visits EXCEPT ![v] = NoVisit]
       ELSE answers' = answers /\ visits' = [visits EXCEPT ![v] = [NoVisit EXCEPT !.step = "fetch", !.div = got.div]]
  /\ UNCHANGED <<filed, statements, history, separate>>

(* The fetch behind the page stores, under the label it was asked for, the *)
(* consolidated statements, or the separate ones when those do not come.   *)
FetchStores(v) ==
  LET d == visits[v].div IN
  /\ visits[v].step = "fetch"
  /\ \E failed \in Failures :
       LET main == Answered(failed, "CFS")
           own == Answered(failed, "OFS") IN
       statements' = [statements EXCEPT ![d] =
         [t \in Terms |-> IF t \in main THEN RowOf("CFS", t) ELSE IF t \in own THEN RowOf("OFS", t) ELSE @[t]]]
  /\ visits' = [Overtaken EXCEPT ![v].step = "fetched"]
  /\ answers' = [e \in Divs |-> IF answers[e].fresh THEN [answers[e] EXCEPT !.late = TRUE] ELSE answers[e]]
  /\ UNCHANGED <<filed, history, separate>>

FetchDrops(v) ==
  /\ visits[v].step = "fetched"
  /\ visits' = [visits EXCEPT ![v] = NoVisit]
  /\ answers' = NoAnswers
  /\ UNCHANGED <<filed, statements, history, separate>>

\* The quota, or an error: the transaction is rolled back.
FetchBreaks(v) ==
  /\ visits[v].step = "fetch"
  /\ visits' = [visits EXCEPT ![v] = NoVisit]
  /\ UNCHANGED <<filed, statements, answers, history, separate>>

(* The ten years' backfill: quarters it found are parsed, the others are   *)
(* fetched by division; the rows and the dropped answers are one commit.   *)
HistoryReads ==
  /\ ~history.begun
  /\ history' = [begun |-> TRUE, had |-> {x \in Divs \X Terms : statements[x[1]][x[2]] # Unstored}]
  /\ UNCHANGED <<filed, statements, answers, visits, separate>>

HistoryStores ==
  /\ history.begun
  /\ \E failed \in Failures :
       LET New(d) == {t \in Answered(failed, d) : <<d, t>> \notin history.had} IN
       IF history.had = {} /\ \A d \in Divs : New(d) = {}
         THEN UNCHANGED <<statements, answers, visits>>
         ELSE /\ statements' = [d \in Divs |->
                   [t \in Terms |-> IF t \in New(d) THEN RowOf(d, t) ELSE statements[d][t]]]
              /\ answers' = NoAnswers /\ visits' = Overtaken
  /\ history' = NoHistory
  /\ UNCHANGED <<filed, separate>>

(* The backfill of separate statements: companies without any such row.    *)
SeparateBegins ==
  /\ separate = "none" /\ Rows("OFS") = {}
  /\ separate' = "begun"
  /\ UNCHANGED <<filed, statements, answers, visits, history>>

SeparateStores ==
  /\ separate = "begun"
  /\ \E failed \in Failures :
       LET own == Answered(failed, "OFS") IN
       /\ statements' = [statements EXCEPT !["OFS"] = [t \in Terms |-> IF t \in own THEN RowOf("OFS", t) ELSE @[t]]]
       /\ IF own # {} THEN answers' = NoAnswers /\ visits' = Overtaken ELSE UNCHANGED <<answers, visits>>
  /\ separate' = "done"
  /\ UNCHANGED <<filed, history>>

\* Faulty variant: the answers are left for their twelve hours.
EquityFilled_KeepsAnswers ==
  /\ \E terms \in SUBSET {t \in Terms : statements["CFS"][t] # Unstored /\ ~statements["CFS"][t].equity} :
       /\ terms # {}
       /\ statements' = [statements EXCEPT !["CFS"] =
            [t \in Terms |-> IF t \in terms THEN [@[t] EXCEPT !.equity = TRUE] ELSE @[t]]]
  /\ visits' = Overtaken
  /\ UNCHANGED <<filed, answers, history, separate>>

(* The tables of equity that are missing are taken from the reports.       *)
EquityFilled ==
  /\ \E terms \in SUBSET {t \in Terms : statements["CFS"][t] # Unstored /\ ~statements["CFS"][t].equity} :
       /\ terms # {}
       /\ statements' = [statements EXCEPT !["CFS"] =
            [t \in Terms |-> IF t \in terms THEN [@[t] EXCEPT !.equity = TRUE] ELSE @[t]]]
  /\ answers' = NoAnswers /\ visits' = Overtaken
  /\ UNCHANGED <<filed, history, separate>>

AnswerExpires(d) ==      \* twelve hours
  /\ answers[d].fresh
  /\ answers' = [answers EXCEPT ![d] = NoAnswer]
  /\ UNCHANGED <<filed, statements, visits, history, separate>>

\* The process is restarted: requests and backfills end where they are.
ApiRestarts ==
  /\ \E v \in Visits : visits[v] # NoVisit
  /\ visits' = [v \in Visits |-> NoVisit] /\ history' = NoHistory
  /\ separate' = IF separate = "begun" THEN "none" ELSE separate
  /\ UNCHANGED <<filed, statements, answers>>

StatementsNext ==
  \/ \E d \in Divs, t \in Terms : Filing(d, t)
  \/ \E v \in Visits, d \in Divs : VisitReads(v, d)
  \/ \E v \in Visits :
       VisitReadsLabels(v) \/ VisitStores(v) \/ FetchStores(v) \/ FetchDrops(v) \/ FetchBreaks(v)
  \/ HistoryReads \/ HistoryStores \/ SeparateBegins \/ SeparateStores \/ EquityFilled
  \/ \E d \in Divs : AnswerExpires(d)
  \/ ApiRestarts

\* A cached answer is what the rows of its label and the labels are now, unless
\* they changed while it was put together or the fetch that changed them was
\* killed before it dropped the answers (whose twelve hours end it).
AnswerIsCurrent ==
  \A d \in Divs : answers[d].fresh /\ ~answers[d].late => answers[d].rows = Rows(d) /\ answers[d].divs = Labels

\* "API 캐시를 날려 새 데이터가 즉시 반영되게 한다": no answer is behind the rows.
AnswersAtOnce == \A d \in Divs : answers[d].fresh => answers[d].rows = Rows(d)

\* A row has the statements of the division it is labelled with.
RowsAreOfTheirDivision == \A d \in Divs, t \in Terms : statements[d][t].of \in {d, "none"}

StatementsSpec == StatementsInit /\ [][StatementsNext]_statementVars
=============================================================================
