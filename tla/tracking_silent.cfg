SPECIFICATION FairTrackingSpec
CONSTANTS
    driver = driver
    track1 = track1
    track2 = track2
    trip1 = trip1
    trip2 = trip2
    Clients = {driver}
    Publishers = {driver}
    Trips = {trip1}
    TripOf <- MCTripOf
    MaxSockets <- MCMaxSockets
    MaxFix = 1
PROPERTIES
    NeverDisappears
CHECK_DEADLOCK FALSE
