SPECIFICATION CollectionSpec
CONSTANTS
  MaxDay = 4
  MaxSplits = 1
  Window = 2
  Overlap = 1
  MaxOutage = 1
  NoBars = NoBars
  Stocks = {s1, s2}
  MaxDate = 2
  MaxBatches = 2
  NoRow = NoRow
  Listed = {d1, d2}
  PerMorning = 1
  BatchWindow = 3
  PageWindow = 1
  Viewed = {d1}
  NamedFrom <- NewListing
  LastDay = 4
  MaxBroken = 1
  Nobody = Nobody
  entity = entity
  digest = digest
  Briefs = {entity, digest}
  Style <- StyleOf
  Kind <- KindOf
  Messages = {"first", "second", "digest"}
  MessagesOf <- TextsOf
  Ingesters = {ingest}
  MaxErrors = 1
  MaxKills = 1
  Absent = Absent
  Runners = {worker, console}
  ReleaseDays <- TwoReleases
  MeetingDay = 2
  MonthDays = 2
  Margin = 1
  TextsPerRun = 1
  NoValue = NoValue
  NoEvent = NoEvent
  NoText = NoText
  LastCalendarDay = 3
  MaxRuns = 2
  Links = {l1, l2}
  Themes = {"wide", "chips", "cars"}
  ThemeCodes <- CodesOfTheme
  NoTheme = NoTheme
  TooWide = 1
  Kept = 1
  NoArticle = NoArticle
  LastDate = 3
  MaxMissed = 1
INVARIANTS HistoryIsSound OneCrossSection ArchivedIsKept TextIsOfItsFigures NewsStands
PROPERTY DisclosuresStand
SYMMETRY Alike
CHECK_DEADLOCK FALSE
