--------------------------- MODULE MarketCalendar ---------------------------
(***************************************************************************)
(* The calendar of the economy (services/calendar_ingest, calendar_llm).   *)
(* Each morning a run writes the days of the releases and what FRED has    *)
(* observed last, fills in the rate of the meetings that are past, and has *)
(* the model write of the events whose figures have changed.  The operator *)
(* can start a run beside the worker's.                                    *)
(***************************************************************************)
EXTENDS Naturals, FiniteSets, Sequences

CONSTANTS
  Runners,      \* who runs the job
  ReleaseDays,  \* the days of one series' releases, in order
  MeetingDay,   \* a meeting of the central bank, event 0
  MonthDays,    \* days of a month
  Margin,       \* days around today that are collected
  TextsPerRun,   \* texts of a run
  NoValue,      \* a figure that is not there
  NoEvent,      \* an event that was not collected yet
  NoText,       \* an event without a text
  LastCalendarDay,  \* bound: days
  MaxRuns       \* bound: runs

ASSUME CalendarAssumption ==
  MonthDays \in Nat \ {0} /\ TextsPerRun \in Nat \ {0} /\ {Margin, MeetingDay, LastCalendarDay, MaxRuns} \subseteq Nat

Events == 0..Len(ReleaseDays)
DayOf(e) == IF e = 0 THEN MeetingDay ELSE ReleaseDays[e]
MonthOf(d) == d \div MonthDays

VARIABLES
  calendarDay,   \* the day
  observed,  \* the release FRED's latest observation is of
  rated,     \* the last month ECOS has a rate of
  calendar,  \* the row of each event
  runs,      \* runs so far
  runner     \* what each runner does

calendarVars == <<calendarDay, observed, rated, calendar, runs, runner>>

IsPast(e) == DayOf(e) <= calendarDay
Around(e) == DayOf(e) <= calendarDay + Margin /\ calendarDay <= DayOf(e) + Margin
Event(actual, previous, impact, expectation, told) ==
  [actual |-> actual, previous |-> previous, impact |-> impact, expectation |-> expectation, told |-> told]
NewEvent == Event(NoValue, NoValue, NoText, NoText, NoText)
Asleep == [at |-> "idle", rows |-> << >>, todo |-> {}, told |-> {}]
\* A run that holds these rows, has these events left and has told these.
Telling(rows, todo, told) == [at |-> "tell", rows |-> rows, todo |-> todo, told |-> told]

CalendarInit ==
  /\ calendarDay = 1 /\ observed = 0 /\ rated = 0 /\ runs = 0
  /\ calendar = [e \in Events |-> NoEvent]
  /\ runner = [r \in Runners |-> Asleep]

NextDate ==
  /\ calendarDay < LastCalendarDay /\ \A r \in Runners : runner[r].at = "idle"
  /\ calendarDay' = calendarDay + 1
  /\ UNCHANGED <<observed, rated, calendar, runs, runner>>

\* A release comes out in the course of its day, or later.
Observe ==
  /\ observed < Len(ReleaseDays) /\ ReleaseDays[observed + 1] <= calendarDay
  /\ observed' = observed + 1
  /\ UNCHANGED <<calendarDay, rated, calendar, runs, runner>>

\* The rate of a month.
RateMonth ==
  /\ rated < MonthOf(calendarDay)
  /\ rated' = rated + 1
  /\ UNCHANGED <<calendarDay, observed, calendar, runs, runner>>

(* A run.  The rows of a release get the series' last two observations when *)
(* their day has come, whatever they had; the texts stay.                  *)
Row(e) == IF calendar[e] = NoEvent THEN NewEvent ELSE calendar[e]
UpsertRow(e, latest, previous) ==
  Event(latest, previous, Row(e).impact, Row(e).expectation, Row(e).told)

Gather(r) ==
  /\ runner[r].at = "idle" /\ runs < MaxRuns
  /\ runs' = runs + 1
  /\ \E dated \in BOOLEAN, answered \in BOOLEAN :
       calendar' = [e \in Events |->
         IF ~Around(e) \/ (e # 0 /\ ~dated) THEN calendar[e]
         ELSE IF e = 0 THEN Row(e)
         ELSE IF IsPast(e) /\ answered THEN UpsertRow(e, observed, IF observed = 0 THEN NoValue ELSE observed - 1)
         ELSE UpsertRow(e, NoValue, NoValue)]
  /\ runner' = [runner EXCEPT ![r] = [Asleep EXCEPT !.at = "fill"]]
  /\ UNCHANGED <<calendarDay, observed, rated>>

\* The rate of the meeting's month, or of the month before it.
FillMeeting(r) ==
  LET row == calendar[0]  month == MonthOf(MeetingDay) IN
  /\ runner[r].at = "fill"
  /\ \/ /\ row # NoEvent /\ IsPast(0) /\ row.actual = NoValue /\ rated + 1 >= month
        /\ calendar' = [calendar EXCEPT ![0] = UpsertRow(0, IF rated >= month THEN month ELSE rated, month - 1)]
     \/ UNCHANGED calendar  \* nothing to fill in, or no answer
  /\ runner' = [runner EXCEPT ![r] = [Asleep EXCEPT !.at = "load"]]
  /\ UNCHANGED <<calendarDay, observed, rated, runs>>

(* Texts: of the rows as they were read, the oldest first.                 *)
LoadTexts(r) ==
  /\ runner[r].at = "load"
  /\ runner' = [runner EXCEPT ![r] = Telling(calendar, {e \in Events : calendar[e] # NoEvent}, {})]
  /\ UNCHANGED <<calendarDay, observed, rated, calendar, runs>>

Inputs(row, past) == [actual |-> row.actual, previous |-> row.previous, past |-> past]
\* Faulty variant: the hash leaves the figures out.
Hash_NoFigures(inputs) == [inputs EXCEPT !.actual = NoValue, !.previous = NoValue]
Hash(inputs) == inputs
TextOf(row, past) == IF past THEN row.impact ELSE row.expectation
IsTold(row, past) == TextOf(row, past) # NoText /\ row.told = Hash(Inputs(row, past))

Write(row, past) ==
  LET inputs == Inputs(row, past) IN
  Event(row.actual, row.previous, IF past THEN inputs ELSE row.impact,
        IF past THEN row.expectation ELSE inputs, Hash(inputs))

Oldest(todo) == {e \in todo : \A f \in todo : DayOf(e) <= DayOf(f)}

\* An event that is not told, while the run may write, and the model answers.
Tell(r) ==
  LET me == runner[r] IN
  /\ me.at = "tell"
  /\ \E e \in Oldest(me.todo) :
       /\ ~IsTold(me.rows[e], IsPast(e)) /\ Cardinality(me.told) < TextsPerRun
       /\ runner' = [runner EXCEPT ![r] =
            Telling([me.rows EXCEPT ![e] = Write(@, IsPast(e))], me.todo \ {e}, me.told \union {e})]
  /\ UNCHANGED <<calendarDay, observed, rated, calendar, runs>>

\* An event that is told already, or the model does not answer.
PassOver(r) ==
  LET me == runner[r] IN
  /\ me.at = "tell"
  /\ \E e \in Oldest(me.todo) :
       runner' = [runner EXCEPT ![r] = Telling(me.rows, me.todo \ {e}, me.told)]
  /\ UNCHANGED <<calendarDay, observed, rated, calendar, runs>>

\* All the texts of a run are stored at its end, over those of another run.
StoredText(row, held, past) ==
  Event(row.actual, row.previous, IF past THEN held.impact ELSE row.impact,
        IF past THEN row.expectation ELSE held.expectation, held.told)

StoreTexts(r) ==
  LET me == runner[r] IN
  /\ me.at = "tell" /\ me.todo = {}
  /\ calendar' = [e \in Events |->
       IF e \in me.told THEN StoredText(calendar[e], me.rows[e], IsPast(e)) ELSE calendar[e]]
  /\ runner' = [runner EXCEPT ![r] = Asleep]
  /\ UNCHANGED <<calendarDay, observed, rated, runs>>

Die(r) ==
  /\ runner[r].at # "idle"
  /\ runner' = [runner EXCEPT ![r] = Asleep]
  /\ UNCHANGED <<calendarDay, observed, rated, calendar, runs>>

CalendarNext ==
  \/ NextDate
  \/ Observe
  \/ RateMonth
  \/ \E r \in Runners : Gather(r)
  \/ \E r \in Runners : FillMeeting(r)
  \/ \E r \in Runners : LoadTexts(r)
  \/ \E r \in Runners : Tell(r)
  \/ \E r \in Runners : PassOver(r)
  \/ \E r \in Runners : StoreTexts(r)
  \/ \E r \in Runners : Die(r)

CalendarSpec == CalendarInit /\ [][CalendarNext]_calendarVars

-----------------------------------------------------------------------------
(* A text that is taken for current was written of the figures the event   *)
(* has, on the side of today the event is on, though figures change and    *)
(* change back, days pass and two runs write over each other's rows.       *)
TextIsOfItsFigures ==
  \A e \in Events : calendar[e] # NoEvent /\ IsTold(calendar[e], IsPast(e)) =>
    TextOf(calendar[e], IsPast(e)) = Inputs(calendar[e], IsPast(e))

(* What the code's words promise and it does not keep.  The figure of a    *)
(* release is the one that came out with it.                               *)
ActualIsOfItsRelease == \A e \in Events \ {0} : calendar[e] # NoEvent => calendar[e].actual \in {NoValue, e}
\* A figure that was there stays.
FiguresStay == [][\A e \in Events : calendar[e] # NoEvent /\ calendar[e].actual # NoValue => calendar'[e].actual # NoValue]_calendarVars
\* The rate of a meeting is the rate of its month.
MeetingHasItsRate == calendar[0] # NoEvent => calendar[0].actual \in {NoValue, MonthOf(MeetingDay)}
=============================================================================
