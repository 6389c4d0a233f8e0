SPECIFICATION Spec
CONSTANTS
  d1 = d1  d2 = d2  a = a  b = b  c = c  d = d  x = x  y = y
  NoNode = NoNode
  Dag = {d1, d2}
  Node <- SetNodes
  Edge <- SetEdges
  DagOf <- SetDagOf
  NodePos <- SetPos
  Prem = {d1, d2}
  Copies <- SetCopies
INVARIANTS Precedence MeasuredJobComplete ThreadsJoined MutexUse PremExclusion NoWaitCycle
CHECK_DEADLOCK FALSE
