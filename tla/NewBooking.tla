----------------------------- MODULE NewBooking -----------------------------
(***************************************************************************)
(* The customer app's page bookings/new: pickup and drop come from the     *)
(* browser's geolocation, from a search of addresses and from clicks on    *)
(* the map; each is answered later, and a route is asked for whenever a    *)
(* point moved.  Three steps lead to POST /bookings.                       *)
(***************************************************************************)
EXTENDS Naturals, Sequences, SequencesExt, FiniteSets

CONSTANTS
    Places,      \* points of the map, each with its address
    Here,        \* where the browser says the customer is
    MaxInputs,   \* bound: inputs to the address fields and the map
    MaxCreated   \* bound: bookings created

Unset == "unset"

ASSUME NewBookingAssumption ==
    /\ Here \in Places /\ Unset \notin Places
    /\ MaxInputs \in Nat /\ MaxCreated \in Nat

VARIABLES
    point,      \* pickup and drop
    addr,       \* pickupAddr and dropAddr, what the fields say
    search,     \* search[e]: the debounced search of the field
    results,    \* results[e]: the field shows addresses to choose from
    selecting,  \* selectingFor: the end the next click on the map is for
    clicks,     \* reverse geocodes of clicks that are not answered
    geo,        \* getCurrentPosition, and the name of its position
    timer,      \* the 300 ms before the route is asked for
    routing,    \* getRoute calls on their way, the oldest first
    route,      \* the route shown, of which the prices are
    step,       \* location, vehicle, confirm; away once navigated
    create,     \* bookingService.create: idle, sent or created
    leaving,    \* router.push was called
    created,    \* bookings at the server
    overtaken,  \* an answer to getRoute arrived before an older one
    inputs

newBookingVars ==
    <<point, addr, search, results, selecting, clicks, geo, timer, routing,
      route, step, create, leaving, created, overtaken, inputs>>
fieldVars == <<addr, search, results>>
mapVars == <<selecting, clicks>>
submitVars == <<step, create, leaving, created>>

Ends == {"pickup", "drop"}
Typed == "typed"
Steps == {"location", "vehicle", "confirm", "away"}
Points == [Ends -> Places \cup {Unset}]
BothSet(p) == \A e \in Ends : p[e] # Unset
NoRoute == [e \in Ends |-> Unset]

NewBookingTypeOK ==
    /\ point \in Points
    /\ addr \in [Ends -> Places \cup {Unset, Typed}]
    /\ search \in [Ends -> {"idle", "timer", "asked", "both"}]
    /\ results \in [Ends -> BOOLEAN]
    /\ selecting \in Ends \cup {Unset}
    /\ clicks \subseteq [for : Ends, at : Places]
    /\ geo \in {"asked", "naming", "done"}
    /\ timer \in BOOLEAN
    /\ timer => BothSet(point)
    /\ \A i \in DOMAIN routing : routing[i] \in Points /\ BothSet(routing[i])
    /\ route \in Points
    /\ step \in Steps
    /\ step # "location" => BothSet(point)
    /\ create \in {"idle", "sent", "created"} /\ leaving \in BOOLEAN
    /\ created \in 0 .. MaxCreated /\ overtaken \in BOOLEAN
    /\ inputs \in 0 .. MaxInputs

NewBookingInit ==
    /\ point = [e \in Ends |-> Unset] /\ addr = [e \in Ends |-> Unset]
    /\ search = [e \in Ends |-> "idle"] /\ results = [e \in Ends |-> FALSE]
    /\ selecting = Unset /\ clicks = {}
    /\ geo \in {"asked", "done"}        \* done: no geolocation, or denied
    /\ timer = FALSE /\ routing = <<>> /\ route = NoRoute
    /\ step = "location" /\ create = "idle" /\ leaving = FALSE /\ created = 0
    /\ overtaken = FALSE /\ inputs = 0

Input == inputs < MaxInputs /\ inputs' = inputs + 1

----------------------------------------------------------------------------
(* A point moves.  The effect on [pickup, drop] clears the timer and       *)
(* starts another, but a call that is under way goes on.                   *)

MovesDropOnly(e, p) ==   \* mutant: the effect depends on [drop]
    /\ point' = [point EXCEPT ![e] = p]
    /\ timer' = IF e = "drop" THEN BothSet(point') ELSE timer
    /\ UNCHANGED <<routing, route, overtaken>>

Moves(e, p) ==
    /\ point' = [point EXCEPT ![e] = p]
    /\ timer' = BothSet(point')
    /\ UNCHANGED <<routing, route, overtaken>>

AskRoute ==
    /\ timer
    /\ timer' = FALSE
    /\ routing' = Append(routing, point)
    /\ UNCHANGED <<point, fieldVars, mapVars, geo, route, submitVars, overtaken, inputs>>

\* Answers set the route whichever call they answer; a failure unsets it.
RouteArrives(i) ==
    /\ route' \in {routing[i], NoRoute}
    /\ routing' = RemoveAt(routing, i)
    /\ overtaken' = (overtaken \/ i > 1)
    /\ UNCHANGED <<point, fieldVars, mapVars, geo, timer, submitVars, inputs>>

----------------------------------------------------------------------------
(* The address fields.                                                     *)

\* Typing changes the address and leaves the point.  Under three letters
\* the timer is cleared and nothing is asked.
Type(e, long) ==
    /\ Input
    /\ addr' = [addr EXCEPT ![e] = Typed]
    /\ search' = [search EXCEPT ![e] =
          IF @ \in {"asked", "both"} THEN (IF long THEN "both" ELSE "asked")
          ELSE (IF long THEN "timer" ELSE "idle")]
    /\ results' = [results EXCEPT ![e] = @ /\ long]
    /\ UNCHANGED <<point, mapVars, geo, timer, routing, route, submitVars, overtaken>>

\* A second question on its way is not told from the first.
SearchFires(e) ==
    /\ search[e] \in {"timer", "both"}
    /\ search' = [search EXCEPT ![e] = "asked"]
    /\ UNCHANGED <<point, addr, results, mapVars, geo, timer, routing, route, submitVars, overtaken, inputs>>

\* The answer is shown whatever the field says by now.
ResultsArrive(e) ==
    /\ search[e] \in {"asked", "both"}
    /\ search' = [search EXCEPT ![e] = IF @ = "both" THEN "timer" ELSE "idle"]
    /\ \E found \in BOOLEAN : results' = [results EXCEPT ![e] = found]
    /\ UNCHANGED <<point, addr, mapVars, geo, timer, routing, route, submitVars, overtaken, inputs>>

\* selectPickupResult, selectDropResult.
SelectResult(e, p) ==
    /\ results[e] /\ Input
    /\ Moves(e, p)
    /\ addr' = [addr EXCEPT ![e] = p]
    /\ results' = [results EXCEPT ![e] = FALSE]
    /\ UNCHANGED <<search, mapVars, geo, submitVars>>

----------------------------------------------------------------------------
(* The map.                                                                *)

\* The pin button of a field.
SelectOnMap(e) ==
    /\ selecting # e
    /\ selecting' = e
    /\ UNCHANGED <<point, fieldVars, clicks, geo, timer, routing, route, submitVars, overtaken, inputs>>

ClickMovesAtOnce(p) ==   \* mutant: the point is set before the await
    /\ step # "away" /\ selecting # Unset /\ Input
    /\ clicks' = clicks \cup {[for |-> selecting, at |-> p]}
    /\ Moves(selecting, p)
    /\ UNCHANGED <<fieldVars, selecting, geo, submitVars>>

\* handleMapClick: in every step of the page, while an end is selected.
ClickMap(p) ==
    /\ step # "away" /\ selecting # Unset /\ Input
    /\ clicks' = clicks \cup {[for |-> selecting, at |-> p]}
    /\ UNCHANGED <<point, fieldVars, selecting, geo, timer, routing, route, submitVars, overtaken>>

\* The address, or the coordinates if there is none.
ClickNamed(c) ==
    /\ clicks' = clicks \ {c}
    /\ Moves(c.for, c.at)
    /\ addr' = [addr EXCEPT ![c.for] = c.at]
    /\ selecting' = Unset
    /\ UNCHANGED <<search, results, geo, submitVars, inputs>>

\* The callback sees the pickup of the first render, which is unset: a
\* pickup chosen meanwhile is replaced, and its address a while later.
Located ==
    /\ geo = "asked"
    /\ geo' = "naming"
    /\ Moves("pickup", Here)
    /\ UNCHANGED <<fieldVars, mapVars, submitVars, inputs>>

LocationNamed ==
    /\ geo = "naming"
    /\ geo' = "done"
    /\ addr' = [addr EXCEPT !["pickup"] = Here]
    /\ UNCHANGED <<point, search, results, mapVars, timer, routing, route, submitVars, overtaken, inputs>>

LocationDenied ==
    /\ geo = "asked"
    /\ geo' = "done"
    /\ UNCHANGED <<point, fieldVars, mapVars, timer, routing, route, submitVars, overtaken, inputs>>

----------------------------------------------------------------------------
(* The steps, and the booking.                                             *)

CanLeaveLocation == BothSet(point) /\ route # NoRoute

GoTo(s) ==
    /\ step' = s
    /\ UNCHANGED <<point, fieldVars, mapVars, geo, timer, routing, route, create, leaving, created, overtaken, inputs>>

\* Confirm is disabled while loading, not while the page is being left.
Submit ==
    /\ create = "idle" /\ BothSet(point)
    /\ create' = "sent"
    /\ UNCHANGED <<point, fieldVars, mapVars, geo, timer, routing, route, step, leaving, created, overtaken, inputs>>

Created ==
    /\ create = "sent" /\ created < MaxCreated
    /\ create' = "created" /\ created' = created + 1
    /\ UNCHANGED <<point, fieldVars, mapVars, geo, timer, routing, route, step, leaving, overtaken, inputs>>

\* The booking's page is asked for; loading ends before it is there.
CreateSucceeds ==
    /\ create = "created"
    /\ create' = "idle" /\ leaving' = TRUE
    /\ UNCHANGED <<point, fieldVars, mapVars, geo, timer, routing, route, step, created, overtaken, inputs>>

\* Refused, or the answer is lost: the form stays, to be sent again.
CreateFails ==
    /\ create # "idle"
    /\ create' = "idle"
    /\ UNCHANGED <<point, fieldVars, mapVars, geo, timer, routing, route, step, leaving, created, overtaken, inputs>>

Navigated ==
    /\ leaving /\ step # "away"
    /\ step' = "away"
    /\ timer' = FALSE
    /\ UNCHANGED <<point, fieldVars, mapVars, geo, routing, route, create, leaving, created, overtaken, inputs>>

\* What the page offers: beside the map, one of three panels.
MapPanel == \E p \in Places : ClickMap(p)

LocationStep ==
    /\ step = "location"
    /\ \/ \E e \in Ends :
             \/ \E long \in BOOLEAN : Type(e, long)
             \/ SelectOnMap(e)
             \/ \E p \in Places : SelectResult(e, p)
       \/ CanLeaveLocation /\ GoTo("vehicle")

VehicleStep == step = "vehicle" /\ (GoTo("location") \/ GoTo("confirm"))
ConfirmStep == step = "confirm" /\ (GoTo("vehicle") \/ Submit)

NewBookingNext ==
    \/ AskRoute \/ \E i \in DOMAIN routing : RouteArrives(i)
    \/ \E e \in Ends : SearchFires(e) \/ ResultsArrive(e)
    \/ \E c \in clicks : ClickNamed(c)
    \/ Located \/ LocationNamed \/ LocationDenied
    \/ MapPanel \/ LocationStep \/ VehicleStep \/ ConfirmStep
    \/ Created \/ CreateSucceeds \/ CreateFails \/ Navigated

NewBookingSpec == NewBookingInit /\ [][NewBookingNext]_newBookingVars

----------------------------------------------------------------------------
(* Properties.                                                             *)

\* When nothing is under way, the route that is shown, and priced, is that
\* of the two points, however they came about and in whatever step.  Only
\* an answer to getRoute that overtakes an older one can spoil that: the
\* effect clears the timer of an older call, not the call.
RouteIsOfPoints ==
    ~timer /\ routing = <<>> /\ ~overtaken /\ step # "away"
        => route \in {NoRoute, point}

\* The drop's address is that of the drop, unless it was typed: search,
\* clicks and their late answers set both together.  Of the pickup this
\* does not hold: LocationNamed names a place the pickup may have left.
DropIsWhereItSays ==
    addr["drop"] \in {Typed, point["drop"]}
=============================================================================
