SPECIFICATION FairSpec
CONSTANTS
  d1 = d1  d2 = d2  a = a  b = b  c = c  d = d  x = x  y = y
  NoNode = NoNode
  Dag = {d1}
  Node <- TwinNodes
  Edge <- TwinEdges
  DagOf <- TwinDagOf
  NodePos <- TwinPos
  Prem = {}
  Copies <- TwinCopies
PROPERTY JobCompletes
CHECK_DEADLOCK FALSE
