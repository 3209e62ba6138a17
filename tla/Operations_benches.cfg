\* Two consoles and two batches; two deploying threads and four commits; one console, a job, two times;
\* two reports, one page each, and an old one; two pages of owners; two tickers, one unknown to the SEC.
SPECIFICATION Spec
CONSTANTS
  Tuis = {t1, t2}
  Keys = {k1, k2}
  None = None
  MaxProcs = 2
  MaxPolls = 2
  Threads = {w1, w2}
  NoCommit = NoCommit
  MaxCommits = 4
  Editors = {e1}
  Jobs = {j1}
  Times = {a, b}
  Default = a
  NoTime = NoTime
  Papers = {p1, p2}
  Legacy = {old}
  Untitled = {p2}
  Long = {old}
  NoLink = NoLink
  NoBrief = NoBrief
  PageSize = 1
  MaxPages = 3
  PerRun = 1
  MaxDays = 1
  MaxStarts = 2
  MaxCrashes = 1
  Kinds <- Asked
  Pages = {g1, g2}
  Nothing = Nothing
  NoAnswer = NoAnswer
  KeepFor = 1
  LeapDays = {1}
  MaxNow = 2
  MaxFiled = 2
  MaxOpens = 2
  Tickers = {"A", "B"}
  Readers = {r1}
  NoFigures = NoFigures
  NoMap = NoMap
  PerNight = 1
  Never = {"B"}
  MaxNights = 2
  MaxFacts = 1
INVARIANTS NothingRunsUnseen LoadedRunsAsWritten CollectedIsWhole FreshIsRecent
PROPERTIES ReleaseMovesSafely MarksFollowFigures
SYMMETRY Alike
CHECK_DEADLOCK FALSE
