CONSTANTS
    Producers = {p1, p2}
    GameThread = game
    Tasks = {k1, k2, k3}
    Expiring = {k3}
    TermTask = term
SPECIFICATION FairSpec
INVARIANTS TypeOK NoLostWakeup FifoConservation NoUseAfterDelete
PROPERTIES ImplementsTaskQueue JoinReturns
CHECK_DEADLOCK FALSE
