SPECIFICATION FairSpec
CONSTANTS
  o1 = o1
  Owners = {o1}
  r1 = r1
  Reqs = {r1}
  Safe = {}
  Candidates <- OneOwner
  MaxLinks = 2
  MaxDials = 1
INVARIANTS
  AtMostOnce
  NoForwardStranded
PROPERTIES
  BrokenForwardsReturn
CHECK_DEADLOCK FALSE
