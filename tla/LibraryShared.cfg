SPECIFICATION Spec
CONSTANTS
  Thread = {t1, t2, t3}
  NThreads = 3
  Rounds = 3
  Spurious = FALSE
  Amounts = {0, 1, 2, 5}
  MaxPosts = 10
  SpuriousWait = FALSE
  sec = sec  milli = milli  nano = nano  i1 = i1  i2 = i2  i3 = i3
  Billion = 8
  Unit = {sec, milli, nano}
  Mul <- MCMul
  Div <- MCDiv
  IntSpan = 32
  Seconds = {0, 1, 2}
  Longs <- MCLongs
  Periods <- MCPeriods
  NoUnit = NoUnit
  ExecTimes = {1, 3, 10}
  MaxJobs = 3
  MaxTasks = 2
  Task = {i1}
  Period <- MCPeriod
  RelDeadline <- MCDeadline
  Offsets = {1, 2, 4}
  Horizon = 6
  MaxPending = 2
  ModeTask = {i1, i2, i3}
  Modes <- MCShiftedModes
  CreatedNow = {}
  Spacings = {TRUE}
  Placements = {TRUE}
  Returns = {FALSE}
  MaxListed = 2
  Overlapping = {0, 1}
  MaxRequests = 3
INVARIANT OldTasksBlocked
CHECK_DEADLOCK FALSE
