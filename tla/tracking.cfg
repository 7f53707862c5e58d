SPECIFICATION LeftSpec
CONSTANTS
    driver = driver
    track1 = track1
    track2 = track2
    trip1 = trip1
    trip2 = trip2
    Clients = {driver, track1, track2}
    Publishers = {driver}
    Trips = {trip1, trip2}
    TripOf <- MCTripOf
    MaxSockets <- MCMaxSockets
    MaxFix = 2
INVARIANTS
    OneSocketPerPage
PROPERTIES
    OnlyTheTripOnScreen
    WatchersSee
CHECK_DEADLOCK FALSE
