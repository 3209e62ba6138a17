----------------------------- MODULE MCCompany -----------------------------
(***************************************************************************)
(* What is shown of one company: its deep-dive report, its statements and  *)
(* their cached answer, the figures taken from them, the tree of their     *)
(* page.  A run works one bench and leaves the others as they began.       *)
(***************************************************************************)
EXTENDS DeepDiveQueue, CompanyStatements, StatementFigures, StatementTree, TLC

VARIABLE bench

\* What an income statement has: name, group, does its account begin as the
\* group's first one does, is it the account that is the group's total.
IncomeRow(name, group, leads, total) == [name |-> name, group |-> group, leads |-> leads, total |-> total]
IncomeKinds ==
  {IncomeRow("sales", "revenue", TRUE, TRUE), IncomeRow("net income", "profit", TRUE, TRUE),
   IncomeRow("continuing", "profit", TRUE, FALSE), IncomeRow("owners", "profit", TRUE, FALSE),
   IncomeRow("comprehensive", "overall", TRUE, TRUE), IncomeRow("owners", "overall", TRUE, FALSE),
   IncomeRow("other", "none", FALSE, FALSE)}

\* What a balance sheet has: is the row of the first level, the calculated
\* total it is a part of, its worth, the calculated total it should agree with.
BalanceRow(name, top, part, worth, sums) == [name |-> name, top |-> top, part |-> part, worth |-> worth, sums |-> sums]
BalanceKinds ==
  {BalanceRow("current", TRUE, "assets", 2, "none"), BalanceRow("cash", FALSE, "none", 1, "none"),
   BalanceRow("fixed", TRUE, "assets", 3, "none"), BalanceRow("assets", TRUE, "none", 5, "assets")}

benches == <<bench, vars, statementVars, figureVars, treeVars>>

\* Quarters that sold alike but for one; a balance sheet or an income statement.
FewFigures == Cardinality({t \in Term : sold[t] # 2}) <= 1
FewTrees == income = <<>> \/ balance = <<>>

\* A bench that is not worked begins in one way.
FirstStatements == filed = [d \in Divs |-> [t \in Terms |-> 0]]
FirstFigures == sold = [t \in Term |-> 2] /\ style = "quarters" /\ layout = "tagged" /\ minority = FALSE /\ shown = [t \in Term |-> "full"]
FirstTree == income = <<>> /\ balance = <<>>

CompanyInit ==
  /\ bench \in {"report", "statements", "figures", "tree"}
  /\ Init
  /\ (bench = "statements" \/ FirstStatements) /\ StatementsInit
  /\ (bench = "figures" \/ FirstFigures) /\ FiguresInit /\ FewFigures
  /\ (bench = "tree" \/ FirstTree) /\ FewTrees /\ TreeInit

Report == bench = "report" /\ Next /\ UNCHANGED <<bench, statementVars, figureVars, treeVars>>
Statements == bench = "statements" /\ StatementsNext /\ UNCHANGED <<bench, vars, figureVars, treeVars>>
Figures == bench = "figures" /\ FiguresNext /\ UNCHANGED <<bench, vars, statementVars, treeVars>>
Tree == bench = "tree" /\ TreeNext /\ UNCHANGED <<bench, vars, statementVars, figureVars>>

CompanyNext == Report \/ Statements \/ Figures \/ Tree

CompanySpec == CompanyInit /\ [][CompanyNext]_benches

Requests == Permutations(Visits)
=============================================================================
