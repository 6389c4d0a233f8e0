SPECIFICATION MainSpec
CONSTANTS
  c1 = c1  c2 = c2  nobody = nobody  many = many
  MaxTasks = 3
  Creator = {c1, c2}
  BodyReturns = TRUE
  NModes = 1
  MaxModeTasks = 2
  ModeLists <- SomeModes
SYMMETRY Creators
INVARIANTS MainInv ExclusiveOwner MainKeepsListExact
PROPERTY MainRefusedOnlyWhenFull
