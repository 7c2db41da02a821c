SPECIFICATION Spec
CONSTANTS
    Events = {e1, e2, e3}
    NoEvent = noEvent
    Size = 4
INVARIANT TypeOK
PROPERTY KeepsLastEvents
