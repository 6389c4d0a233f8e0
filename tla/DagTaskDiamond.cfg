SPECIFICATION FairSpec
CONSTANTS
  d1 = d1  d2 = d2  a = a  b = b  c = c  d = d  x = x  y = y
  NoNode = NoNode
  Dag = {d1}
  Node <- DiamondNodes
  Edge <- DiamondEdges
  DagOf <- DiamondDagOf
  NodePos <- DiamondPos
  Prem = {d1}
  Copies <- DiamondCopies
INVARIANT IInv
PROPERTIES ImplementsJob NodesTerminate CompletesUnlessLostUpdate
CHECK_DEADLOCK FALSE
