SPECIFICATION FairSpec
CONSTANTS
    ValidBaudRates <- FourRates
    Default = 9600
    Target = 38400
    Lines = 2
    MaxAttempts = 2
    AmpRates <- UpToTarget
    MaxFaults = 3
    MaxLines = 6
CHECK_DEADLOCK FALSE
INVARIANTS
    TypeOK
    ReadyAtTarget
    StepsBeginAtPort
    ProbeFindsAmp
PROPERTIES
    OutOfStepNoticed
    SelfHeals
