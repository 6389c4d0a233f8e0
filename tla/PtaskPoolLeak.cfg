SPECIFICATION MainSpec
CONSTANTS
  c1 = c1  c2 = c2  nobody = nobody  many = many
  MaxTasks = 3
  Creator = {c1}
  BodyReturns = TRUE
  NModes = 0
  MaxModeTasks = 0
  ModeLists <- PlainTasks
INVARIANT FreeListExact
