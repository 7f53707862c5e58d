SPECIFICATION AccountsSpec
CONSTANTS
    Apps = {"customer"}
    Admins = {"clerk", "super"}
    MaxRequests = 2
PROPERTY BansAreLiftedBySuper
CHECK_DEADLOCK FALSE
