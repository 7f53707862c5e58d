SPECIFICATION FairTripSpec
CONSTANTS
    MaxFails = 1
    MaxVisits = 1
INVARIANTS
    HandoverByCode
    OnMyTripOnly
PROPERTIES
    PagesCatchUp
CHECK_DEADLOCK FALSE
