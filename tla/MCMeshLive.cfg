SPECIFICATION LiveSpec
CONSTANTS
  p1 = p1
  p2 = p2
  c1 = c1
  c2 = c2
  Pods = {p1, p2}
  Conns = {c1}
  CRs = {}
  Home <- OneHome
  Stopping = {}
  Flaky = {}
  Old = {p1}
  Slow = {p2}
  MaxSeq = 2
  OutboxSize = 1
  Socks <- OneDials
PROPERTIES
  ReadyEventually
  DeltaCatchesUp
