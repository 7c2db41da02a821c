SPECIFICATION FairSpec
CONSTANTS
    CmdTimeout = 4
    MaxEmptyReads = 6
    Expected = 2
    MaxPieces = 2
CHECK_DEADLOCK FALSE
INVARIANTS
    TypeOK
    CommandBounded
    StopBounded
PROPERTY Answered
