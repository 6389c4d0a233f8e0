SPECIFICATION Spec
CONSTANTS
  f1 = f1  f2 = f2  f3 = f3  f4 = f4
  File = {f1, f2, f3, f4}
  Contents <- MCContents
  WithPeriod = {f1, f4}
  NoFile = NoFile
  SwtChoices <- MCChoices
  MaxDags = 2
  MaxParsed = 3
  HgChoices <- MCChoices
  MaxReady = 2
  Kilo = 2
  IntMax = 7
  Units = {"B", "KB"}
  Sizes = {0, 1, 3, 5}
  Cycles = {1, 7, 10}
  Levels = {0, 1, 2}
  Granularity = {1, 4}
  Strides = {0, 1, 3}
  RandMax = 2147483647
  Rands = {0, 2147483647}
  TaskChoices <- MCTasks
  MaxTasks = 3
  Horizon = 70
INVARIANTS ModelOfFiles NewParserFollowsSettings HgFollowsSettings NodeDataExact ResponseTimesExact
PROPERTIES AnalysisEnds
CHECK_DEADLOCK FALSE
