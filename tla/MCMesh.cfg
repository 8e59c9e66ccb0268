SPECIFICATION Spec
CONSTANTS
  p1 = p1
  p2 = p2
  c1 = c1
  c2 = c2
  Pods = {p1, p2}
  Conns = {c1, c2}
  CRs = {}
  Home <- OneHome
  Stopping = {p1}
  Flaky = {p1}
  Old = {p1, p2}
  Slow = {}
  MaxSeq = 2
  OutboxSize = 1
  Socks <- OneDials
SYMMETRY Symmetric
INVARIANTS
  ViewIsPastState
  TypeOK
  ConvergedKnowsPeers
  DrainSticks
CHECK_DEADLOCK FALSE
