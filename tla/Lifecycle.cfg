CONSTANTS
    Players = {p, gm}
    Privileged = {gm}
    MaxRequests = 4
    StartupShutdown = TRUE
SPECIFICATION Spec
CHECK_DEADLOCK FALSE
INVARIANTS ClosedKeepsOut ExitLeavesNothing
PROPERTIES LoaderSignalArrives ShutdownExits
