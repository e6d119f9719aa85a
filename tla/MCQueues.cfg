CONSTANTS
    Events = {e1, e2, e3}
    NoEvent = none
    Stoppable = {e1}
    IdMod = 2
    Callers = {game, net}
    GameThread = game
    DbTasks = {t1, t2, t3}
    WithCallback = {t1, t3}
    NoTask = none
    TxnLength = 3
    Unchecked = {2}
    MaxLosses = 3
    MaxTxns = 2
    MaxStatements = 2
    Players = {ann, bob, cat, gm}
    Premium = {cat}
    AlwaysLogin = {gm}
    Nobody = nobody
    MaxPlayers = 2
    Step = 5
    MaxTime = 25
    MaxEntries = 4
    Spawned = {m1, m2, m3, m4}
    NumBlocks = 2
    RateSpawn = 1
    StartupFails = TRUE
    Names = {"siege", "hunt", "empty"}
    Repeated = {"hunt"}
    NumEvents <- EventsOf
    MaxReloads = 2
    MaxChecks = 2
    Handlers <- Registered
    KindOf <- KindOfKey
    HasDefault = {"wpn", "wpd"}
    Watchers = {c1}
    Learners <- LearnedBy
    MaxChains = 4
    MaxEnvs = 2
    MaxRefused = 1
    Calling = {"eventPlayerOnMoveItem", "executeUse"}
    Optional = {"eventPartyOnJoin"}
    None = none
SPECIFICATION Spec
INVARIANTS TypeOK HandledOnce TransactionsWhole
PROPERTIES CapacityRespected BoundedReordering JoinUnlessMissed EverythingRuns
CHECK_DEADLOCK FALSE
