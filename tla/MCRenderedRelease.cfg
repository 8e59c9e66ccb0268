SPECIFICATION FairSpec
CONSTANTS
  o1 = o1
  o2 = o2
  Objs = {o1, o2}
  KindOf <- OneOfEach
  Plane = "dataplane"
  WellKnown = {"Deployment"}
  Tracked = {"Deployment"}
  Interval = 300
  ProgressingInterval = 10
  MaxGen = 2
  MaxFaults = 1
INVARIANTS
  NothingLeftBehind
  HealthIsCurrent
PROPERTIES
  Converges
  DeletionEnds
CHECK_DEADLOCK FALSE
