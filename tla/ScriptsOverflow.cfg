CONSTANTS
    MaxEnvs = 3
    MaxNesting = 4
    MaxOverflows = 2
    ScriptItems = {i1, i2}
    Timers = {t1, t2}
    None = none
SPECIFICATION Spec
INVARIANTS EnvInRange
CHECK_DEADLOCK FALSE
