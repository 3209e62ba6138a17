------------------------------ MODULE Reports ------------------------------
(***************************************************************************)
(* The reports of the brokers and the brief of the day (services/ingest,   *)
(* reporter/crawler).  A cycle of the worker, or a request of the operator *)
(* for a date, lists the pages of the research site, stores what is new    *)
(* with its file and its judgement and writes the brief; a night batch     *)
(* fetches the text of the rows that were stored before there was one.     *)
(***************************************************************************)
EXTENDS Naturals, Sequences, SequencesExt, FiniteSets

CONSTANTS
  Papers,     \* reports that are published
  Legacy,     \* reports whose rows have no text yet
  Untitled,   \* reports whose row of the list has no link
  Long,       \* reports whose text is over the limit of the column
  NoLink,     \* the link of an untitled report
  NoBrief,    \* a day without a brief
  PageSize,   \* reports on a page of the list
  MaxPages,   \* pages a crawl reads
  PerRun,     \* rows a night batch fetches
  MaxDays,    \* bound: days
  MaxStarts,  \* bound: starts of a collector
  MaxCrashes  \* bound: stops of a process

ASSUME ReportsAssumption ==
  /\ IsFiniteSet(Legacy)
  /\ PageSize \in Nat \ {0} /\ MaxPages \in Nat \ {0} /\ PerRun \in Nat \ {0} /\ {MaxDays, MaxStarts, MaxCrashes} \subseteq Nat

Collectors == {"cycle", "asked"}  \* the worker's job of each half hour, and the operator's request
Phases == <<"forecast", "intraday", "closing">>

VARIABLES
  today,      \* the day and which of Phases its hour is in
  listing,    \* the list of the site, newest first
  collector,  \* what each collector is doing
  reports,    \* rows of reports, at most one of a key
  files,      \* keys of the objects that are stored
  briefs,     \* phase of the brief of each day
  started,    \* starts of collectors so far
  filling,    \* keys the night batch has still to fetch
  crashes     \* stops so far

reportVars == <<today, listing, collector, reports, files, briefs, started, filling, crashes>>

Entry(paper, day) == [paper |-> paper, day |-> day]
\* A report without a link has its title, broker and date for a key, and no title either.
KeyOf(e) == [link |-> IF e.paper \in Untitled THEN NoLink ELSE e.paper, day |-> e.day]
Known(key) == \E r \in reports : r.key = key
Row(e, text) == [key |-> KeyOf(e), paper |-> e.paper, text |-> text]
Resting == [at |-> "idle", target |-> 0, page |-> 0, todo |-> << >>, there |-> {}, whole |-> FALSE, phase |-> NoBrief, had |-> FALSE, dated |-> FALSE]

ReportInit ==
  /\ today = [day |-> 1, hour |-> 1]
  /\ reports = {Row(Entry(p, 0), "none") : p \in Legacy}
  /\ \E kept \in SUBSET Legacy : files = {KeyOf(Entry(p, 0)) : p \in kept}
  /\ listing = SetToSeq({Entry(p, 0) : p \in Legacy})
  /\ collector = [c \in Collectors |-> Resting]
  /\ briefs = [d \in 0..MaxDays |-> NoBrief]
  /\ started = 0
  /\ filling = << >>
  /\ crashes = 0

Publish(p) ==
  /\ \A i \in DOMAIN listing : listing[i].paper # p
  /\ listing' = <<Entry(p, today.day)>> \o listing
  /\ UNCHANGED <<today, collector, reports, files, briefs, started, filling, crashes>>

\* The day goes on; the night's jobs have ended before the next one.
Hour ==
  /\ collector["cycle"].at = "idle" \/ today.hour < Len(Phases)
  /\ \/ today.hour < Len(Phases) /\ today' = [today EXCEPT !.hour = @ + 1]
     \/ today.hour = Len(Phases) /\ today.day < MaxDays /\ filling = << >> /\ today' = [day |-> today.day + 1, hour |-> 1]
  /\ UNCHANGED <<listing, collector, reports, files, briefs, started, filling, crashes>>

(* Crawl: pages of the newest first, until one shows an older day.         *)
Start(c, target, dated) ==
  /\ collector[c].at = "idle" /\ started < MaxStarts
  /\ started' = started + 1
  /\ IF dated THEN c = "asked" /\ target <= today.day ELSE target = today.day
  /\ collector' = [collector EXCEPT ![c] = [Resting EXCEPT !.at = "list", !.target = target, !.dated = dated, !.page = 1, !.whole = TRUE,
                                              !.there = {e \in ToSet(listing) : e.day = target}]]
  /\ UNCHANGED <<today, listing, reports, files, briefs, filling, crashes>>

PageOf(n) == SubSeq(listing, (n - 1) * PageSize + 1, IF n * PageSize < Len(listing) THEN n * PageSize ELSE Len(listing))
Dated(page, target) == SelectSeq(page, LAMBDA e : e.day = target)
\* Faulty variant: a page without a report of the day ends the crawl.
Ends_NoneOfDay(page, n, target) == page = << >> \/ Dated(page, target) = << >> \/ n = MaxPages
Ends(page, n, target) == page = << >> \/ (\E i \in DOMAIN page : page[i].day < target) \/ n = MaxPages

ReadPage(c) ==
  LET j == collector[c]  page == PageOf(j.page) IN
  /\ j.at = "list"
  /\ \/ collector' = [collector EXCEPT ![c].todo = @ \o Dated(page, j.target), ![c].there = @ \ ToSet(page), ![c].page = @ + 1,
                                       ![c].at = IF Ends(page, j.page, j.target) THEN "take" ELSE "list"]
     \/ collector' = [collector EXCEPT ![c].todo = << >>, ![c].whole = FALSE, ![c].at = "take"]  \* the site did not answer
  /\ UNCHANGED <<today, listing, reports, files, briefs, started, filling, crashes>>

(* One report after the other: what is known, or has no file or no text, is *)
(* left; the rest is summed up and judged, which takes minutes.            *)
Take(c) ==
  LET j == collector[c] IN
  /\ j.at = "take" /\ j.todo # << >>
  /\ \/ ~Known(KeyOf(Head(j.todo))) /\ collector' = [collector EXCEPT ![c].at = "judged"]
     \/ collector' = [collector EXCEPT ![c].todo = Tail(@)]
  /\ UNCHANGED <<today, listing, reports, files, briefs, started, filling, crashes>>

\* Faulty variant: the row is stored before its file.
PutsFile_Last(c) ==
  LET e == Head(collector[c].todo) IN
  /\ collector[c].at = "judged"
  /\ collector' = [collector EXCEPT ![c].at = "put"]
  /\ reports' = IF Known(KeyOf(e)) THEN reports ELSE reports \union {Row(e, "full")}
  /\ UNCHANGED <<today, listing, files, briefs, started, filling, crashes>>
\* The file is stored when all has been judged, over the one of an earlier try.
PutsFile(c) ==
  /\ collector[c].at = "judged"
  /\ files' = files \union {KeyOf(Head(collector[c].todo))}
  /\ collector' = [collector EXCEPT ![c].at = "put"]
  /\ UNCHANGED <<today, listing, reports, briefs, started, filling, crashes>>

\* A text that is too long is summed up, or cut when the model fails.
Texts(p) == IF p \in Long THEN {"full", "cut"} ELSE {"full"}

\* Another collector's row of the same key wins.
StoreRow(c) ==
  LET e == Head(collector[c].todo) IN
  /\ collector[c].at = "put"
  /\ IF Known(KeyOf(e)) THEN UNCHANGED reports ELSE \E text \in Texts(e.paper) : reports' = reports \union {Row(e, text)}
  /\ collector' = [collector EXCEPT ![c].at = "take", ![c].todo = Tail(@)]
  /\ UNCHANGED <<today, listing, files, briefs, started, filling, crashes>>

(* Brief: what the hour asks for; a date that was asked for is reviewed.   *)
BeginBrief(c) ==
  LET j == collector[c]  day == IF j.dated THEN j.target ELSE today.day IN
  /\ j.at = "take" /\ j.todo = << >>
  /\ collector' = [collector EXCEPT ![c].at = "brief", ![c].target = day, ![c].had = briefs[day] # NoBrief,
                                    ![c].phase = IF j.dated THEN "closing" ELSE Phases[today.hour]]
  /\ UNCHANGED <<today, listing, reports, files, briefs, started, filling, crashes>>

\* The row that was read is written over; one that appeared meanwhile stops the collector.
WriteBrief(c) ==
  LET j == collector[c] IN
  /\ j.at = "brief"
  /\ \/ /\ j.had \/ briefs[j.target] = NoBrief
        /\ briefs' = [briefs EXCEPT ![j.target] = j.phase]
        /\ collector' = [collector EXCEPT ![c].at = "rest"]
     \/ /\ ~j.had /\ briefs[j.target] # NoBrief
        /\ collector' = [collector EXCEPT ![c] = Resting]
        /\ UNCHANGED briefs
     \/ collector' = [collector EXCEPT ![c].at = "rest"] /\ UNCHANGED briefs  \* nothing to write of, or a holiday
     \/ collector' = [collector EXCEPT ![c] = Resting] /\ UNCHANGED briefs       \* the model does not answer
  /\ UNCHANGED <<today, listing, reports, files, started, filling, crashes>>

\* What comes after the brief in a cycle.
EndCycle(c) ==
  /\ collector[c].at = "rest"
  /\ collector' = [collector EXCEPT ![c] = Resting]
  /\ UNCHANGED <<today, listing, reports, files, briefs, started, filling, crashes>>

Crash(c) ==
  /\ crashes < MaxCrashes /\ collector[c].at # "idle"
  /\ crashes' = crashes + 1
  /\ collector' = [collector EXCEPT ![c] = Resting]
  /\ UNCHANGED <<today, listing, reports, files, briefs, started, filling>>

(* Texts of old rows.                                                      *)
BeginFilling ==
  /\ filling = << >> /\ today.hour = 1  \* at half past five
  /\ LET rows == SetToSeq({r.key : r \in {x \in reports : x.text = "none"}}) IN
     filling' = SubSeq(rows, 1, IF Len(rows) < PerRun THEN Len(rows) ELSE PerRun)
  /\ filling' # << >>
  /\ UNCHANGED <<today, listing, collector, reports, files, briefs, started, crashes>>

\* A store that answers with an error has, as it seems, lost the file; one that does not answer is asked again another night.
Fill ==
  /\ filling # << >>
  /\ filling' = Tail(filling)
  /\ LET key == Head(filling)  row == CHOOSE r \in reports : r.key = key
         Filled(text) == (reports \ {row}) \union {[row EXCEPT !.text = text]} IN
     \/ key \in files /\ \E text \in Texts(row.paper) : reports' = Filled(text)
     \/ reports' = Filled("blank")
     \/ UNCHANGED reports
  /\ UNCHANGED <<today, listing, collector, files, briefs, started, crashes>>

CollectNext ==
  \/ \E p \in Papers : Publish(p)
  \/ Hour
  \/ \E c \in Collectors, target \in 0..MaxDays, dated \in BOOLEAN : Start(c, target, dated)
  \/ \E c \in Collectors : ReadPage(c)
  \/ \E c \in Collectors : Take(c)
  \/ \E c \in Collectors : PutsFile(c)
  \/ \E c \in Collectors : StoreRow(c)
  \/ \E c \in Collectors : BeginBrief(c)
  \/ \E c \in Collectors : WriteBrief(c)
  \/ \E c \in Collectors : EndCycle(c)
  \/ \E c \in Collectors : Crash(c)
FillNext == Hour \/ BeginFilling \/ Fill

\* The batch of the night and the collectors write rows of different keys.
ReportNext == CollectNext \/ FillNext

ReportSpec == ReportInit /\ [][ReportNext]_reportVars

-----------------------------------------------------------------------------
\* What is served.
Card(r) == [paper |-> r.paper, hasPdf |-> TRUE]
Pdf(r) == IF r.key \in files THEN "file" ELSE "not found"
Fresh(r) == r.paper \notin Legacy

(* A report that is shown with a file has one, whoever collected it and    *)
(* wherever a process stopped; and a crawl gets every report of its day    *)
(* that was listed when it began, though others push them down the pages   *)
(* meanwhile, when the day fits into the pages that are read.              *)
CollectedIsWhole ==
  /\ \A r \in reports : Fresh(r) /\ Card(r).hasPdf => Pdf(r) = "file"
  /\ \A c \in Collectors : LET j == collector[c] IN j.at = "take" /\ j.whole /\ j.page <= MaxPages => j.there = {}

(* What the code's words promise and it does not keep.  The brief of a day *)
(* goes on from forecast to closing.                                       *)
Rank(phase) == Cardinality({i \in DOMAIN Phases : phase # NoBrief /\ \E k \in i..Len(Phases) : Phases[k] = phase})
BriefGoesForward == [][\A d \in DOMAIN briefs : Rank(briefs'[d]) >= Rank(briefs[d])]_reportVars

\* Every half hour has its bars: the brief does not keep a cycle from them.
BriefStopsNothing ==
  [][collector["cycle"].at = "brief" /\ crashes' = crashes => collector'["cycle"].at # "idle"]_reportVars

\* Two reports have two keys, with a link or without.
KeyIsOfOneReport ==
  \A c \in Collectors : LET todo == collector[c].todo IN
    (collector[c].at = "take" /\ todo # << >> /\ Known(KeyOf(Head(todo)))) => \E r \in reports : r.paper = Head(todo).paper

\* A row is given up when its file is lost.
GivenUpIsLost == \A r \in reports : r.text = "blank" => Pdf(r) = "not found"

\* A report that is published late in the day is collected all the same.
LateIsCollected == \A i \in DOMAIN listing : listing[i].day < today.day => Known(KeyOf(listing[i]))
=============================================================================
