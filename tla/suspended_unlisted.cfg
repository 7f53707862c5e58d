SPECIFICATION AccountsSpec
CONSTANTS
    Apps = {"customer"}
    Admins = {"clerk", "super"}
    MaxRequests = 2
INVARIANT SuspendedIsListed
CHECK_DEADLOCK FALSE
