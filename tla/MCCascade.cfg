SPECIFICATION FairSpec
CONSTANTS
    e1 = e1
    b1 = b1
    b2 = b2
    b3 = b3
    Envs = {e1}
    Bindings = {b1, b2, b3}
    Tenants <- ThreeTenants
    KindOf <- Kind
    EnvOf <- OneEnv
    Retained = {b3}
    SharedCluster = TRUE
    MaxFaults = 1
INVARIANTS
    EnvironmentOutlivesReleases
    NothingLeftBehind
    ReferencedStays
PROPERTIES
    RetainHolds
    DeletionEnds
CHECK_DEADLOCK FALSE
