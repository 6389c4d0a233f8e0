SPECIFICATION FifoSpec
CONSTANTS
  d1 = d1  d2 = d2  a = a  b = b  c = c  x = x  y = y  p1 = p1
  NoNode = NoNode
  Dag = {d1, d2}
  Node <- OrderNodes
  Edge <- OrderEdges
  DagOf <- OrderDagOf
  NodePos <- OrderPos
  Prem = {d1}
  Copies <- OrderCopies
  Cpu = {p1}
  CpuOf <- OrderCpu
  PrioOf <- OrderPrio
INVARIANTS NoLostUpdate NodesNeverWait
PROPERTY JobCompletes
