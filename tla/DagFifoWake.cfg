SPECIFICATION FifoSpec
CONSTANTS
  d1 = d1  d2 = d2  a = a  b = b  c = c  x = x  y = y  p1 = p1
  NoNode = NoNode
  Dag = {d1}
  Node <- WakeNodes
  Edge <- WakeEdges
  DagOf <- WakeDagOf
  NodePos <- WakePos
  Prem = {}
  Copies <- WakeCopies
  Cpu = {p1}
  CpuOf <- WakeCpu
  PrioOf <- WakePrio
PROPERTY JobCompletes
CHECK_DEADLOCK FALSE
