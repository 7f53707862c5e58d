SPECIFICATION AccountsSpec
CONSTANTS
    Apps = {"admin"}
    Admins = {"clerk", "super"}
    MaxRequests = 2
INVARIANT RemovedAdminIsOut
CHECK_DEADLOCK FALSE
