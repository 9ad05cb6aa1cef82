\* A socket and the HTTP client move one cursor while a grant or the membership
\* changes, with one failure anywhere.
CONSTANTS
    Notices = {1, 2}
    Grantable = {1}
    Connections = {c1}
    PageSize = 1
    MaxPages = 2
    StaleAfter = 0
    MaxHubClock = 1
    MaxHubFaults = 1
    MaxChanges = 1
SPECIFICATION HubSpec
CHECK_DEADLOCK FALSE
INVARIANTS
    PassedWasShown
    LiveIsCaughtUp
PROPERTIES
    FanoutEnds
    SuspendedIsDisconnected
