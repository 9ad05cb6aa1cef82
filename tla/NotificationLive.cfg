\* Two handshakes of one member over its gate and its alarm, with one failure
\* anywhere.
CONSTANTS
    Notices = {1}
    Grantable = {1}
    Connections = {c1, c2}
    PageSize = 2
    MaxPages = 1
    StaleAfter = 0
    MaxHubClock = 1
    MaxHubFaults = 1
    MaxChanges = 1
SPECIFICATION HubSpec
CHECK_DEADLOCK FALSE
PROPERTIES
    FanoutEnds
    SuspendedIsDisconnected
