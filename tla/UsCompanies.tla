---------------------------- MODULE UsCompanies ----------------------------
(***************************************************************************)
(* Companies of the US (services/us_company_service, adapters/sec/client). *)
(* Their figures are counted from the facts the SEC has and from a price,  *)
(* when a page asks and the row is a day old, or when a night batch        *)
(* reaches them; the batch marks whom it has served.                       *)
(***************************************************************************)
EXTENDS Naturals, Sequences, SequencesExt, FiniteSets

CONSTANTS
  Tickers,   \* tickers of the universe
  Readers,   \* pages that are open
  NoFigures, \* a ticker without a row
  NoMap,     \* no list of the SEC's tickers yet
  PerNight,  \* tickers a batch serves
  Never,     \* tickers the SEC does not have under that name
  MaxNights, \* bound: days
  MaxFacts   \* bound: quarters that are filed

ASSUME UsAssumption ==
  /\ PerNight \in Nat \ {0} /\ {MaxNights, MaxFacts} \subseteq Nat /\ Never \subseteq Tickers
  /\ IsFiniteSet(Tickers)
  /\ NoFigures \notin [of : Nat, priced : BOOLEAN, on : Nat, writer : Readers \union {"worker", NoFigures}]

Processes == {"api", "worker"}

VARIABLES
  day,       \* the day
  facts,     \* how many quarters of each ticker the SEC has
  names,     \* the SEC's list of tickers in each process, and in the file they share
  figures,   \* the row of each ticker
  marked,    \* tickers of which the batch says that it has served them
  batch,     \* the batch of figures
  reader     \* what each page asks for and shows

usVars == <<day, facts, names, figures, marked, batch, reader>>

Figures(of, priced, writer) == [of |-> of, priced |-> priced, on |-> day, writer |-> writer]
NoBatch == [at |-> "idle", todo |-> << >>, before |-> NoFigures, row |-> NoFigures]
NoPage == [at |-> "closed", ticker |-> NoFigures, row |-> NoFigures, shown |-> NoFigures]

UsInit ==
  /\ day = 1
  /\ facts = [t \in Tickers |-> 1]
  /\ names = [n \in Processes \union {"file"} |-> [map |-> NoMap, on |-> 0]]
  /\ figures \in [Tickers -> {NoFigures, [of |-> 1, priced |-> FALSE, on |-> 0, writer |-> NoFigures]}]
  /\ marked = {}
  /\ batch = NoBatch
  /\ reader = [r \in Readers |-> NoPage]

NextDay ==
  /\ day < MaxNights /\ batch.at = "idle"
  /\ \A r \in Readers : reader[r].at # "ask"
  /\ day' = day + 1
  /\ UNCHANGED <<facts, names, figures, marked, batch, reader>>

Report(t) ==
  /\ facts[t] < MaxFacts
  /\ facts' = [facts EXCEPT ![t] = @ + 1]
  /\ UNCHANGED <<day, names, figures, marked, batch, reader>>

(* The list of tickers: the process's own, which it never asks for again,  *)
(* the file's for a day, or the SEC's.                                     *)
Lists(process, answered) ==
  IF names[process].map # NoMap THEN names
  ELSE IF names["file"].map # NoMap /\ day - names["file"].on <= 1 THEN [names EXCEPT ![process] = names["file"]]
  ELSE IF answered THEN LET map == [map |-> Tickers \ Never, on |-> day] IN [names EXCEPT ![process] = map, !["file"] = map]
  ELSE names
Resolves(lists, process, t) == lists[process].map # NoMap /\ t \in lists[process].map

IsFresh(row) == row # NoFigures /\ day - row.on < 1

(* A page.                                                                 *)
OpenCompany(r, t) ==
  /\ reader[r].at \in {"closed", "shown"}
  /\ reader' = [reader EXCEPT ![r] = IF IsFresh(figures[t]) THEN [NoPage EXCEPT !.at = "shown", !.ticker = t, !.row = figures[t], !.shown = figures[t]]
                                     ELSE [NoPage EXCEPT !.at = "ask", !.ticker = t, !.row = figures[t]]]
  /\ UNCHANGED <<day, facts, names, figures, marked, batch>>

\* The session still has the row as it read it.
Held(row, stored) == IF row = NoFigures THEN stored ELSE row

Compute(r) ==
  LET p == reader[r] IN
  /\ p.at = "ask"
  /\ \E listed \in BOOLEAN, answered \in BOOLEAN, priced \in BOOLEAN :
       /\ names' = Lists("api", listed)
       /\ IF Resolves(names', "api", p.ticker) /\ answered
          THEN LET stored == Figures(facts[p.ticker], priced, r) IN
               /\ figures' = [figures EXCEPT ![p.ticker] = stored]
               /\ reader' = [reader EXCEPT ![r].at = "shown", ![r].shown = Held(p.row, stored)]
          ELSE /\ reader' = [reader EXCEPT ![r].at = "shown", ![r].shown = p.row]
               /\ UNCHANGED figures
  /\ UNCHANGED <<day, facts, marked, batch>>

(* The batch of figures: rows with a ratio need no serving.                *)
BeginFigures ==
  /\ batch.at = "idle"
  /\ LET known == marked \union {t \in Tickers : figures[t] # NoFigures /\ figures[t].priced}
         todo == SetToSeq(Tickers \ known) IN
     /\ marked' = known
     /\ todo # << >>
     /\ batch' = [NoBatch EXCEPT !.at = "next", !.todo = SubSeq(todo, 1, IF Len(todo) < PerNight THEN Len(todo) ELSE PerNight)]
  /\ UNCHANGED <<day, facts, names, figures, reader>>

TakeTicker ==
  /\ batch.at = "next"
  /\ IF batch.todo = << >> THEN batch' = NoBatch
     ELSE batch' = [batch EXCEPT !.at = "ask", !.before = figures[Head(batch.todo)]]
  /\ UNCHANGED <<day, facts, names, figures, marked, reader>>

ComputeNext ==
  LET t == Head(batch.todo) IN
  /\ batch.at = "ask"
  /\ \E listed \in BOOLEAN, answered \in BOOLEAN, priced \in BOOLEAN :
       /\ names' = Lists("worker", listed)
       /\ IF Resolves(names', "worker", t) /\ answered
          THEN figures' = [figures EXCEPT ![t] = Figures(facts[t], priced, "worker")]
          ELSE UNCHANGED figures
  /\ batch' = [batch EXCEPT !.at = "mark"]
  /\ UNCHANGED <<day, facts, marked, reader>>

\* Faulty variant: the row is the one the session had read.
ReadAgain_Held(t) == Held(batch.before, figures[t])
\* The batch reads its row again to see whether it has changed.
ReadAgain(t) == figures[t]

MarkTicker ==
  LET t == Head(batch.todo)  row == ReadAgain(t) IN
  /\ batch.at = "mark"
  /\ marked' = IF row # NoFigures /\ row # batch.before THEN marked \union {t} ELSE marked
  /\ batch' = [batch EXCEPT !.at = "next", !.todo = Tail(@)]
  /\ UNCHANGED <<day, facts, names, figures, reader>>

\* A process starts again: its list is gone, and a batch of the worker.
Restart(process) ==
  /\ names[process].map # NoMap
  /\ names' = [names EXCEPT ![process] = [map |-> NoMap, on |-> 0]]
  /\ batch' = IF process = "worker" THEN NoBatch ELSE batch
  /\ UNCHANGED <<day, facts, figures, marked, reader>>

UsNext ==
  \/ NextDay
  \/ \E t \in Tickers : Report(t)
  \/ \E r \in Readers, t \in Tickers : OpenCompany(r, t)
  \/ \E r \in Readers : Compute(r)
  \/ BeginFigures
  \/ TakeTicker
  \/ ComputeNext
  \/ MarkTicker
  \/ \E process \in Processes : Restart(process)

UsSpec == UsInit /\ [][UsNext]_usVars

-----------------------------------------------------------------------------
(* A ticker is marked when, and not before, there are figures of it: what  *)
(* is marked has a row that was written, by the batch or by a page, and a  *)
(* batch that has written marks, also where a page wrote the row meanwhile *)
(* and where the row has no price.                                         *)
MarksFollowFigures ==
  /\ [](\A t \in marked : figures[t] # NoFigures /\ (figures[t].on > 0 \/ figures[t].priced))
  /\ [][\A t \in Tickers :
         (batch.at = "mark" /\ batch'.at = "next" /\ Head(batch.todo) = t /\ figures[t] # batch.before) => t \in marked']_usVars

(* What the code's words promise and it does not keep.  A page whose row is *)
(* a day old shows the figures it has counted anew.                        *)
RenewedIsShown ==
  [][\A r \in Readers : figures' # figures /\ reader[r].at = "ask" /\ reader'[r].at = "shown"
        => reader'[r].shown = figures'[reader[r].ticker]]_usVars
\* Figures have a ratio once they have had one.
PriceStays == [][\A t \in Tickers : figures[t] # NoFigures /\ figures[t].priced => figures'[t].priced]_usVars
\* A list of the SEC's tickers is a day old at most.
ListIsOfTheDay == \A process \in Processes : names[process].map # NoMap => day - names[process].on <= 1
=============================================================================
