SPECIFICATION FairSpec
CONSTANTS
    Sets = {s1, s2}
    Fetches = {f1, f2}
    Attrs = {"vo"}
    Values = {"03", "20"}
    MaxChanges = 1
CHECK_DEADLOCK FALSE
INVARIANTS
    TypeOK
    OptimisticProtected
PROPERTY ShownConverges
