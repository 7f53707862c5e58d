SPECIFICATION FairDeskSpec
CONSTANTS
    a1 = a1
    a2 = a2
    Kinds <- MCKinds
    Admins <- MCAdmins
    c1 = c1
    c2 = c2
    t1 = t1
    Customers <- MCCustomers
    Transporters <- MCTransporters
    Filers <- MCFilers
    BanThreshold = 2
    MaxItems <- MCMaxItems
    MaxDeliveries = 1
    MaxFails = 1
INVARIANTS
    BannedWasReported
PROPERTIES
    UndoneByOverlapOnly
    AlertsReachDesks
    DecisionShows
CHECK_DEADLOCK FALSE
