---------------------------- MODULE Tracking ----------------------------
(***************************************************************************)
(* Live tracking: the trip page of the transporter app, which publishes    *)
(* the position of its vehicle (GPSPublishClient), the track pages of the  *)
(* customer app, which watch a booking (GPSWatchClient) and share          *)
(* trackingStore, and the service between (internal/tracking/service.go),  *)
(* which keeps the last location and has one subscription per watcher.     *)
(*                                                                         *)
(* A trip stands for its booking and its vehicle; a location is the number *)
(* of a fix of the trip's vehicle.  The interval publishes the last fix    *)
(* again and again, so fixes are bounded but publishing is not.            *)
(***************************************************************************)
EXTENDS Sockets

CONSTANTS
    Trips,
    Publishers,  \* the clients that are trip pages; the others are track pages
    TripOf,      \* the trip a client is about
    MaxFix       \* bound: positions a vehicle is ever at

ASSUME TrackingAssumption ==
    /\ Publishers \subseteq Clients /\ TripOf \in [Clients -> Trips]
    /\ MaxFix \in Nat \ {0}

Watchers == Clients \ Publishers

\* Status of a booking as these pages tell it apart.
Waiting == 0      \* no vehicle yet
Assigned == 1     \* ACCEPTED or PICKING_UP
Moving == 2       \* IN_TRANSIT
Over == 3         \* any later status
Statuses == Waiting .. Over

VARIABLES
    status,      \* status[t]: the booking row
    stale,       \* stale[u]: the token in the URL of u's client has expired
    page,        \* page[p]: status the open trip page of p has, Waiting if closed
    fix,         \* fix[t]: where the vehicle is
    up,          \* up[p][i]: fix in the frame on its way to the service, 0 for none
    last,        \* last[t]: the last location the service has, 0 for none
    sub,         \* sub[w][i]: how far the watcher's handler is
    down,        \* down[w][i]: fix published to i and on its way to the page
    loc,         \* trackingStore.vehicleLocation: {} for null or {[trip, fix]}
    age,         \* of trackingStore.lastUpdatedAt: "none", "fresh" or "old" (15 s)
    connected,   \* trackingStore.isConnected
    noSignal     \* noSignal[w], state of the track page

serviceVars == <<last, sub>>
storeVars == <<loc, age, connected, noSignal>>
trackVars == <<socketVars, status, stale, fix, page, up, serviceVars, down, storeVars>>

Nowhere == 0

\* A handler is refused (no vehicle yet), or has asked Redis for the channel;
\* then its subscription is in force, it has sent the last location, or both.
SubStates == {"none", "refused", "asked", "subscribed", "read", "forwarding"}
Fixes == 0 .. MaxFix

TrackingTypeOK ==
    /\ SocketsTypeOK
    /\ status \in [Trips -> Statuses] /\ page \in [Publishers -> Statuses]
    /\ stale \in [Clients -> BOOLEAN]
    /\ fix \in [Trips -> 1 .. MaxFix] /\ last \in [Trips -> Fixes]
    /\ \A p \in Publishers : up[p] \in [Sockets(p) -> Fixes]
    /\ \A w \in Watchers :
          /\ sub[w] \in [Sockets(w) -> SubStates]
          /\ down[w] \in [Sockets(w) -> Fixes]
    /\ loc \subseteq [trip : Trips, fix : 1 .. MaxFix] /\ Cardinality(loc) <= 1
    /\ age \in {"none", "fresh", "old"} /\ connected \in BOOLEAN
    /\ noSignal \in [Watchers -> BOOLEAN]

\* Pages were open and left before, as in SocketsStart: their trips are
\* assigned, or over if nobody will look at them again, and have a last
\* location, and trackingStore keeps what it was told.
TrackingStart(past) ==
    LET been == {TripOf[u] : u \in {v \in Clients : past[v] > 0}}
        done == {t \in Trips : \A u \in Clients : TripOf[u] = t => past[u] = MaxSockets[u]}
    IN
    /\ SocketsStart(past)
    /\ status = [t \in Trips |-> IF t \in done THEN Over ELSE
                              IF t \in been THEN Assigned ELSE Waiting]
    /\ stale = [u \in Clients |-> FALSE]
    /\ page = [p \in Publishers |-> Waiting]
    /\ fix = [t \in Trips |-> 1]
    /\ up = [p \in Publishers |-> [i \in Sockets(p) |-> Nowhere]]
    /\ last = [t \in Trips |-> IF t \in been THEN 1 ELSE Nowhere]
    /\ sub = [w \in Watchers |-> [i \in Sockets(w) |-> "none"]]
    /\ down = [w \in Watchers |-> [i \in Sockets(w) |-> Nowhere]]
    /\ \/ /\ \A w \in Watchers : past[w] = 0
          /\ loc = {} /\ age = "none" /\ connected = FALSE
       \/ \E w \in Watchers : /\ past[w] > 0
                              /\ loc = {[trip |-> TripOf[w], fix |-> 1]}
                              /\ age = "fresh" /\ connected = TRUE
    /\ noSignal = [w \in Watchers |-> FALSE]

TrackingInit == TrackingStart([u \in Clients |-> 0])

----------------------------------------------------------------------------
\* The trip page of the transporter app.

Live(s) == s \in {Assigned, Moving}

\* The page has loaded the booking: its GPS effect runs.
TripPageLoads(p) ==
    /\ page[p] = Waiting /\ Live(status[TripOf[p]])
    /\ page' = [page EXCEPT ![p] = status[TripOf[p]]]
    /\ Mount(p, FALSE)
    /\ stale' = [stale EXCEPT ![p] = FALSE]
    /\ UNCHANGED <<status, fix, up, serviceVars, down, storeVars>>

\* A poll or the answer of the page's own call brings another status: the
\* effect is cleaned up, and runs again if the trip still goes on.
StatusArrives(p) ==
    LET s == status[TripOf[p]] IN
    /\ Live(page[p]) /\ s # page[p]
    /\ page' = [page EXCEPT ![p] = s]
    /\ IF Live(s) THEN Remake(p) ELSE Unmount(p)
    /\ stale' = [stale EXCEPT ![p] = FALSE]
    /\ UNCHANGED <<status, fix, up, serviceVars, down, storeVars>>

TripPageCloses(p) ==
    /\ Live(page[p])
    /\ page' = [page EXCEPT ![p] = Waiting]
    /\ Unmount(p)
    /\ stale' = [stale EXCEPT ![p] = FALSE]
    /\ UNCHANGED <<status, fix, up, serviceVars, down, storeVars>>

\* The interval: the last position is sent if the socket is open.  The device
\* reports a position as soon as the vehicle is there, or the interval skips.
Publish(p) ==
    /\ mounted[p]
    /\ Ready(p) = "open"
    /\ \A i \in Sockets(p) : up[p][i] = Nowhere    \* bound: one frame on its way
    /\ up' = [up EXCEPT ![p][ws[p]] = fix[TripOf[p]]]
    /\ UNCHANGED <<socketVars, status, stale, fix, page, serviceVars, down, storeVars>>

VehicleMoves(p) ==
    /\ fix[TripOf[p]] < MaxFix
    /\ fix' = [fix EXCEPT ![TripOf[p]] = @ + 1]
    /\ UNCHANGED <<socketVars, status, stale, page, up, serviceVars, down, storeVars>>

----------------------------------------------------------------------------
\* The track page of the customer app; one is on screen at a time.

OpenTrack(w) ==
    /\ \A v \in Watchers : ~mounted[v]
    /\ Mount(w, FALSE)
    /\ noSignal' = [noSignal EXCEPT ![w] = FALSE]
    /\ stale' = [stale EXCEPT ![w] = FALSE]
    /\ UNCHANGED <<status, fix, page, up, serviceVars, down, loc, age, connected>>

\* Handlers are unsubscribed before disconnect(): the store keeps all it has.
CloseTrack(w) ==
    /\ Unmount(w)
    /\ stale' = [stale EXCEPT ![w] = FALSE]
    /\ UNCHANGED <<status, fix, page, up, serviceVars, down, storeVars>>

LocationArrivesLate(w, i) ==    \* mutant: no unsubMsg()
    /\ sock[w][i] \in {"open", "closing"} /\ down[w][i] # Nowhere
    /\ sub[w][i] # "subscribed"
    /\ down' = [down EXCEPT ![w][i] = Nowhere]
    /\ loc' = {[trip |-> TripOf[w], fix |-> down[w][i]]}
    /\ age' = "fresh"
    /\ noSignal' = [noSignal EXCEPT ![w] = FALSE]
    /\ UNCHANGED <<socketVars, status, stale, fix, page, up, serviceVars, connected>>

LocationArrives(w, i) ==
    /\ sock[w][i] = "open" /\ down[w][i] # Nowhere
    /\ sub[w][i] # "subscribed"    \* what is published waits for SendLast
    /\ down' = [down EXCEPT ![w][i] = Nowhere]
    /\ loc' = {[trip |-> TripOf[w], fix |-> down[w][i]]}
    /\ age' = "fresh"
    /\ noSignal' = [noSignal EXCEPT ![w] = FALSE]
    /\ UNCHANGED <<socketVars, status, stale, fix, page, up, serviceVars, connected>>

\* 15 seconds pass without a location, three intervals and more.
LocationAges ==
    /\ age = "fresh"
    /\ \A p \in Publishers : Ready(p) # "open"
    /\ age' = "old"
    /\ UNCHANGED <<socketVars, status, stale, fix, page, up, serviceVars, down,
                   loc, connected, noSignal>>

\* The check of every 5 seconds.
SignalCheck(w) ==
    /\ mounted[w] /\ age = "old" /\ ~noSignal[w]
    /\ noSignal' = [noSignal EXCEPT ![w] = TRUE]
    /\ UNCHANGED <<socketVars, status, stale, fix, page, up, serviceVars, down,
                   loc, age, connected>>

----------------------------------------------------------------------------
\* Sockets.

Reconnect(u) ==
    /\ TimerFires(u)
    /\ UNCHANGED <<status, stale, fix, page, up, serviceVars, down, storeVars>>

\* PublishWS: the vehicle is the transporter's own, the read loop begins.
PublishAccepted(p, i) ==
    /\ ~stale[p]
    /\ Opened(p, i)
    /\ UNCHANGED <<status, stale, fix, page, up, serviceVars, down, storeVars>>

\* WatchWS: without a vehicle the service sends an error, which the client
\* drops, and closes.
WatchAccepted(w, i) ==
    /\ ~stale[w]
    /\ Opened(w, i)
    /\ connected' = TRUE
    /\ \/ status[TripOf[w]] # Waiting /\ sub' = [sub EXCEPT ![w][i] = "asked"]
       \/ status[TripOf[w]] = Waiting /\ Fresh(w) # {} /\ sub' = [sub EXCEPT ![w][i] = "refused"]
    /\ UNCHANGED <<status, stale, fix, page, up, last, down, loc, age, noSignal>>

\* Refused, dropped by the network or closed by the page.
PublisherCloses(p, i) ==
    /\ Closed(p, i)
    /\ \E f \in {up[p][i], Nowhere} : up' = [up EXCEPT ![p][i] = f]
    /\ UNCHANGED <<status, stale, fix, page, serviceVars, down, storeVars>>

WatcherCloses(w, i) ==
    /\ Closed(w, i)
    /\ connected' = IF sock[w][i] = "closing" THEN connected ELSE FALSE
    /\ down' = [down EXCEPT ![w][i] = Nowhere]
    /\ sub' = [sub EXCEPT ![w][i] = "none"]
    /\ UNCHANGED <<status, stale, fix, page, up, last, loc, age, noSignal>>

TokenExpires(u) ==
    /\ mounted[u] /\ ~stale[u] /\ Ready(u) # "open"
    /\ stale' = [stale EXCEPT ![u] = TRUE]
    /\ UNCHANGED <<socketVars, status, fix, page, up, serviceVars, down, storeVars>>

----------------------------------------------------------------------------
\* The service.

\* Booking handlers, jobs and the other party move the booking on.
StatusChanges(t) ==
    /\ \E s \in Statuses : s > status[t] /\ status' = [status EXCEPT ![t] = s]
    /\ UNCHANGED <<socketVars, stale, fix, page, up, serviceVars, down, storeVars>>

\* Receivers of a publication for trip t.
Receives(w, i, t) ==
    TripOf[w] = t /\ sub[w][i] \in {"subscribed", "forwarding"} /\ sock[w][i] = "open"

\* PublishLocation, for a frame of a socket that may be closed by now.  The
\* way to a page holds one location: what comes next waits.
FrameArrives(p, i) ==
    LET t == TripOf[p] IN
    /\ up[p][i] # Nowhere
    /\ \A w \in Watchers : \A j \in Sockets(w) : Receives(w, j, t) => down[w][j] = Nowhere
    /\ up' = [up EXCEPT ![p][i] = Nowhere]
    /\ last' = [last EXCEPT ![t] = up[p][i]]
    /\ down' = [w \in Watchers |-> [j \in Sockets(w) |->
                  IF Receives(w, j, t) THEN up[p][i] ELSE down[w][j]]]
    /\ UNCHANGED <<socketVars, status, stale, fix, page, sub, storeVars>>

\* The key of the last location lives for 5 minutes, far longer than a
\* reconnect takes or a frame is on its way.
LastExpires(p) ==
    /\ last[TripOf[p]] # Nowhere
    /\ ~mounted[p] \/ stale[p]
    /\ \A i \in Sockets(p) : up[p][i] = Nowhere
    /\ last' = [last EXCEPT ![TripOf[p]] = Nowhere]
    /\ UNCHANGED <<socketVars, status, stale, fix, page, up, sub, down, storeVars>>

\* Redis has taken the SUBSCRIBE, which the handler did not wait for.
SubscriptionStarts(w, i) ==
    /\ sub[w][i] \in {"asked", "read"}
    /\ sub' = [sub EXCEPT ![w][i] = IF @ = "asked" THEN "subscribed" ELSE "forwarding"]
    /\ UNCHANGED <<socketVars, status, stale, fix, page, up, last, down, storeVars>>

\* The last location is read and written, ahead of what was published since.
SendLast(w, i) ==
    /\ sub[w][i] \in {"asked", "subscribed"}
    /\ sub' = [sub EXCEPT ![w][i] = IF @ = "asked" THEN "read" ELSE "forwarding"]
    /\ down' = IF sock[w][i] = "open" /\ down[w][i] = Nowhere
               THEN [down EXCEPT ![w][i] = last[TripOf[w]]] ELSE down
    /\ UNCHANGED <<socketVars, status, stale, fix, page, up, last, storeVars>>

----------------------------------------------------------------------------
\* What a socket of each kind has coming to it.
PublisherSocket(p, i) ==
    \/ PublishAccepted(p, i) \/ FrameArrives(p, i)
    \/ sock[p][i] = "closing" /\ PublisherCloses(p, i)

WatcherSocket(w, i) ==
    \/ WatchAccepted(w, i) \/ SubscriptionStarts(w, i) \/ SendLast(w, i) \/ LocationArrives(w, i)
    \/ (sock[w][i] = "closing" \/ sub[w][i] = "refused") /\ WatcherCloses(w, i)

\* The pages: the GPS effect of the trip page, and the track page.
TripPage(p) ==
    TripPageLoads(p) \/ StatusArrives(p) \/ TripPageCloses(p) \/ Publish(p)

TrackPage(w) == OpenTrack(w) \/ CloseTrack(w) \/ SignalCheck(w)

TrackingNext ==
    \/ \E p \in Publishers : TripPage(p) \/ VehicleMoves(p) \/ LastExpires(p)
    \/ \E p \in Publishers : \E i \in Sockets(p) :
          PublisherSocket(p, i) \/ PublisherCloses(p, i)
    \/ \E w \in Watchers : TrackPage(w)
    \/ \E w \in Watchers : \E i \in Sockets(w) :
          WatcherSocket(w, i) \/ WatcherCloses(w, i)
    \/ \E u \in Clients : Reconnect(u) \/ TokenExpires(u)
    \/ \E t \in Trips : StatusChanges(t)
    \/ LocationAges

\* Timers fire and polls are answered, the device reports positions, a
\* handshake the service may accept is carried out, a closed or refused socket
\* closes, and the service goes on with what it has begun.
TrackingFairness ==
    /\ \A u \in Clients : WF_trackVars(Reconnect(u))
    /\ \A p \in Publishers :
          /\ WF_trackVars(StatusArrives(p)) /\ WF_trackVars(Publish(p))
          /\ \A i \in Sockets(p) : WF_trackVars(PublisherSocket(p, i))
    /\ \A w \in Watchers : \A i \in Sockets(w) : WF_trackVars(WatcherSocket(w, i))

TrackingSpec == TrackingInit /\ [][TrackingNext]_trackVars
FairTrackingSpec == TrackingSpec /\ TrackingFairness

----------------------------------------------------------------------------
\* A location reaches the store only from the trip on screen: a late frame for
\* a page that was left is not shown on the next one (unsubMsg).
OnlyTheTripOnScreen ==
    [][loc' # loc \/ (age' = "fresh" /\ age # "fresh") =>
         \E w \in Watchers : mounted[w] /\ \A l \in loc' : l.trip = TripOf[w]]_trackVars

\* A watcher who stays sees where the vehicle is while the trip page publishes,
\* over all reconnects, new clients and the race of SUBSCRIBE with the first
\* read; only an expired token keeps a client off.
WatchersSee ==
    \A w \in Watchers : \A p \in {q \in Publishers : TripOf[q] = TripOf[w]} :
        mounted[w] /\ mounted[p]
          ~> \/ loc = {[trip |-> TripOf[w], fix |-> fix[TripOf[p]]]}
             \/ ~mounted[w] \/ ~mounted[p] \/ stale[w] \/ stale[p]

\* What the README says of a transporter whose socket is down: he does not
\* disappear, the page falls back to PUT /map/location.
NeverDisappears ==
    \A p \in Publishers :
        mounted[p] ~> last[TripOf[p]] # Nowhere \/ ~mounted[p]
=============================================================================
