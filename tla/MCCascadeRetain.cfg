SPECIFICATION Spec
CONSTANTS
    e1 = e1
    b1 = b1
    b2 = b2
    b3 = b3
    Envs = {e1}
    Bindings = {b1, b2, b3}
    Tenants <- OneTenant
    KindOf <- Kind
    EnvOf <- OneEnv
    Retained = {b3}
    SharedCluster = TRUE
    MaxFaults = 0
PROPERTIES
    RetainedStateStays
CHECK_DEADLOCK FALSE
