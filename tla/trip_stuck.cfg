SPECIFICATION TripSpec
CONSTANTS
    MaxFails = 1
    MaxVisits = 1
INVARIANT
    CodeToGive
CHECK_DEADLOCK FALSE
