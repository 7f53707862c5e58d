---------------------------- MODULE MCTracking ----------------------------
(* A trip with its publisher and its track page, and the track page of a   *)
(* second trip.  A start gives one client all its sockets, the others the  *)
(* last one or none: clients fail one at a time.                           *)
EXTENDS Tracking

CONSTANTS driver, track1, track2, trip1, trip2

MCTripOf == [u \in Clients |-> IF u = track2 THEN trip2 ELSE trip1]
MCMaxSockets == [u \in Clients |-> 2]
Past(d, w1, w2) == [u \in Clients |-> CASE u = driver -> d [] u = track1 -> w1 [] u = track2 -> w2]

LeftInit == \E past \in {Past(0, 1, 2), Past(2, 1, 1), Past(2, 0, 2), Past(2, 2, 0)} :
                TrackingStart(past)
LeftSpec == LeftInit /\ [][TrackingNext]_trackVars /\ TrackingFairness
=============================================================================
