SPECIFICATION Spec
CONSTANTS
    CmdTimeout = 4
    MaxEmptyReads = 6
    Expected = 2
    MaxPieces = 0
CHECK_DEADLOCK FALSE
INVARIANT ChecksEveryTick
