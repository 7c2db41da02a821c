SPECIFICATION ReadSpec
CONSTANTS
    r1 = r1
    Requests = {r1}
    Poller = poller
    Nobody = nobody
    AmpCount = 1
    ZonesPerAmp = 2
    Zones <- AllZones
    Attrs = {"vo"}
    Values = {"00", "01"}
    Refused = {"99"}
    ZoneInputs <- Inputs
    AttrInputs = {"vo"}
    MaxEvents = 1
    MaxUnread = 3
CHECK_DEADLOCK FALSE
INVARIANTS
    LiveReadsCurrent
