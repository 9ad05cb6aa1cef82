\* A notification that becomes durable after a later one, and no failure.
CONSTANTS
    Notices = {1, 2}
    Grantable = {}
    Connections = {c1}
    PageSize = 2
    MaxPages = 2
    StaleAfter = 0
    MaxHubClock = 0
    MaxHubFaults = 0
    MaxChanges = 0
SPECIFICATION HubSpec
INVARIANTS NothingSkipped
