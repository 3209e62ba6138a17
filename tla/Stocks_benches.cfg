\* The figures of one company at the ends of the bands, two stocks in pages of
\* one across a night and two rounds of the warmer, two tasks that comment, six days of a chart.
SPECIFICATION StocksSpec
CONSTANTS
  Unknown = Unknown
  GrowthLevels <- GrowthMarksHere
  ValueLevels <- ValueMarksHere
  TrendLevels <- TrendMarksHere
  FlowLevels <- FlowMarksHere
  Missing = Missing
  Stocks = {1, 2}
  Rows <- RowsHere
  FlowMarks = {1, 3}
  PageLimit = 1
  MaxNights = 1
  MaxWarms = 1
  Marks = {1, 2}
  Writers = {w1, w2}
  MaxNotes = 2
  Absent = Absent
  Companies <- CompaniesHere
  MaxCalls = 2
  Closes = {995, 1000, 1100, 1120}
  Shapes <- ShapesHere
  BarDays = 1
  Period = 2
  Lookback = 1
  MinRun = 2
  ShortBand = 3
  TailMin = 2
  Swing = 10
  MaxTraded = 6
INVARIANTS ScoresAreFair PagesMakeTheList ShownIsOfItsScores WhatIsOutChangesNothing ChartIsWhole
CHECK_DEADLOCK FALSE
