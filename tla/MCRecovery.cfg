SPECIFICATION Spec
CONSTANTS
    Users = {u1}
    Monitors = {}
    Pollers = {p}
    Callers = {u1, p}
    Nobody = nobody
    Loops = {l1, l2}
    NoLoop = noLoop
    Capacity = 1
    Conns = {main, k1, k2}
    Main = main
    App = app
    Over = over
    AmpCount = 2
    Threshold = 3
CHECK_DEADLOCK FALSE
SYMMETRY Symmetry
INVARIANTS
    TypeOK
    RecoveryToken
    EachCommandInOnePlace
