SPECIFICATION Spec
CONSTANTS
  None = None
  a1 = a1
  c1 = c1
  c2 = c2
  Agents = {a1}
  Conns = {c1, c2}
  Reqs = {r1}
  AgentOf <- Reconnecting
INVARIANTS
  NobodyStranded
CHECK_DEADLOCK FALSE
