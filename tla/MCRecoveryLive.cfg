SPECIFICATION FairSpec
CONSTANTS
    Users = {u1}
    Monitors = {h}
    Pollers = {}
    Callers = {u1, h}
    Nobody = nobody
    Loops = {l1, l2}
    NoLoop = noLoop
    Capacity = 1
    Conns = {main, k1}
    Main = main
    App = app
    Over = over
    AmpCount = 1
    Threshold = 1
CHECK_DEADLOCK FALSE
INVARIANT RecoveryToken
PROPERTIES
    RequestsReturn
    DeadQueueNoticed
