SPECIFICATION FairSpec
CONSTANTS
    Callers = {c1, c2}
    Nobody = nobody
    Loops = {l1, l2}
    NoLoop = noLoop
    Capacity = 2
INVARIANTS
    TypeOK
    EachCommandInOnePlace
    PendingExact
    SingleLoop
    PortFreeWhenStopped
PROPERTIES
    ServesInOrder
    StopReturns
    EveryCallReturns
