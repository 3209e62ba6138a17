--------------------------- MODULE StatementTree ---------------------------
(***************************************************************************)
(* How the page of a company's statements puts its trees together          *)
(* (company_financial_statements of routers/companies.py): the merge of    *)
(* the two income statements by name, the previous year's amounts by name, *)
(* the groups of accounts with their representative, the levels and the    *)
(* calculated totals of the balance sheet.  An amount is the row it        *)
(* belongs to; `year` tells this year's from the last one's.               *)
(***************************************************************************)
EXTENDS Naturals, Sequences, FiniteSets, FiniteSetsExt

CONSTANTS
  IncomeRows,   \* rows an income statement may have
  BalanceRows,  \* rows a balance sheet may have
  MaxRows,      \* rows a statement has
  NoAmount

ASSUME TreeAssumption == MaxRows \in Nat /\ NoAmount \notin IncomeRows \union BalanceRows

Lines(rows) == {s \in UNION {[1..n -> rows] : n \in 0..MaxRows} : \A i, j \in DOMAIN s : s[i] = s[j] => i = j}
Ranged(s) == {s[i] : i \in DOMAIN s}

VARIABLES
  income,    \* the rows of IS, in the order of the filing
  overall,   \* the rows of CIS
  balance,   \* the rows of BS
  before,    \* the income rows of the same quarter a year ago; empty: not stored
  page       \* what the answer has, or nothing yet

treeVars == <<income, overall, balance, before, page>>

NoPage == [nodes |-> {}, parent |-> << >>, totals |-> {}]

TreeInit ==
  /\ income \in Lines(IncomeRows) /\ balance \in Lines(BalanceRows)
  /\ overall \in {<<>>, income}
  /\ before \in {<<>>, income, [i \in DOMAIN income |-> income[Len(income) + 1 - i]]}
  /\ page = NoPage

(* IS, then CIS, each name once.                                           *)
Both == income \o overall
\* Faulty variant: a name the other statement has too is listed again.
Merged_KeepsRepeats == DOMAIN Both

Merged == {i \in DOMAIN Both : \A j \in 1..(i - 1) : Both[j].name # Both[i].name}
MergedRows == {Both[i] : i \in Merged}

(* Last year's amount is looked up by name; of two rows with the same name *)
(* the later one is found.                                                 *)
Previous(row) ==
  LET same == {i \in DOMAIN before : before[i].name = row.name} IN
  IF same = {} THEN NoAmount ELSE before[Max(same)]

(* A node has the amount of the line at place `from` of the merge, or none *)
(* (0), and the lines at the places `children` below it: two lines of one  *)
(* content stay two.                                                       *)
Node(label, from, children) ==
  [label |-> label, from |-> from, amount |-> IF from = 0 THEN NoAmount ELSE Both[from],
   prev |-> IF from = 0 THEN NoAmount ELSE Previous(Both[from]), children |-> children]

(* The groups of the income statement.  One row alone stands for its       *)
(* group.  Of several, a group that is a total takes its amount from the   *)
(* first row of its first account and does not list that row again.        *)
TotalLike == {"operating", "profit", "overall", "eps"}
Members(g) == {i \in Merged : Both[i].group = g}
Groups == {r.group : r \in IncomeRows} \ {"none"}

\* Faulty variant: the row that gives the amount stays in the list.
GroupNode_ListsLeader(g) ==
  LET members == Members(g)
      first == {i \in members : Both[i].leads} IN
  IF Cardinality(members) = 1 THEN Node("row", CHOOSE i \in members : TRUE, {})
  ELSE Node(g, IF g \in TotalLike /\ first # {} THEN Min(first) ELSE 0, members)

GroupNode(g) ==
  LET members == Members(g)
      first == {i \in members : Both[i].leads}
      leader == IF g \in TotalLike /\ first # {} THEN Min(first) ELSE 0 IN
  IF Cardinality(members) = 1 THEN Node("row", CHOOSE i \in members : TRUE, {})
  ELSE Node(g, leader, members \ {leader})

IncomeNodes ==
  {GroupNode(g) : g \in {h \in Groups : Members(h) # {}}}
    \union {Node("row", i, {}) : i \in Members("none")}

(* The balance sheet: a row of the second level belongs to the last row of *)
(* the first level before it, and rows of the first level to the total     *)
(* that is calculated from them.                                           *)
Above(i) == {j \in 1..(i - 1) : balance[j].top}
ParentOf(i) ==
  IF ~balance[i].top /\ Above(i) # {} THEN balance[Max(Above(i))].name
  ELSE IF balance[i].part # "none" THEN balance[i].part ELSE "top"
Totals == {[of |-> p, amount |-> MapThenSumSet(LAMBDA i : balance[i].worth, {j \in DOMAIN balance : ParentOf(j) = p})] :
             p \in {balance[i].part : i \in DOMAIN balance} \ {"none"}}

Assembles ==
  /\ page = NoPage
  /\ page' = [nodes |-> IncomeNodes, parent |-> [i \in DOMAIN balance |-> ParentOf(i)], totals |-> Totals]
  /\ UNCHANGED <<income, overall, balance, before>>

TreeNext == Assembles

TreeSpec == TreeInit /\ [][TreeNext]_treeVars

Heading(row) == {n \in page.nodes : n.from # 0 /\ Both[n.from] = row}
Entries(row) == {p \in page.nodes \X DOMAIN Both : p[2] \in p[1].children /\ Both[p[2]] = row}
Places(row) == Cardinality(Heading(row)) + Cardinality(Entries(row))

\* Every row of the income statements that is the first of its name is in the
\* tree in one place: as a row, or as the amount of its group.
EveryRowOnce == page # NoPage => \A row \in MergedRows : Places(row) = 1

\* No amount of the filing is lost: not so, since rows of one name are merged.
NothingIsDropped == page # NoPage => \A row \in Ranged(income) : Places(row) >= 1

\* The amount beside a row is the same account's of the year before.
PrevIsOfItsAccount == \A n \in page.nodes : n.prev \in {n.amount, NoAmount} \/ n.amount \notin Ranged(before)

\* "합계 성격 그룹": the amount of a group that is a total is the total's own account.
TotalIsItsAccount == \A n \in page.nodes : n.label \in TotalLike /\ n.amount # NoAmount => n.amount.total

\* A calculated total agrees with the total that was filed.
TotalsAgree ==
  \A total \in page.totals, i \in DOMAIN balance :
    balance[i].sums = total.of => balance[i].worth = total.amount
=============================================================================
