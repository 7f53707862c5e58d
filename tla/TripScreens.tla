---------------------------- MODULE TripScreens ----------------------------
(***************************************************************************)
(* One booking as the two people of the trip see it: the booking page of   *)
(* the customer app (bookings/[id]/page.tsx) and the job and active-trip   *)
(* pages of the transporter app (jobs/[id], active/[id]), with what the    *)
(* booking API (internal/booking/service.go) answers them.                 *)
(*                                                                         *)
(* A page never reads the row.  It reads its app's query cache, filled by  *)
(* GETs (useQuery) that may be answered before, and arrive after, the      *)
(* answer of a mutation (useMutation), which onSuccess writes into the     *)
(* same cache.  The buttons of a page follow from the cached copy.         *)
(*                                                                         *)
(* A request is one step at the server, and what a request takes to get    *)
(* there is left out: it could as well have been sent later, from the same *)
(* copy.  Its answer travels.  How requests interleave inside the server   *)
(* is what BookingLifecycle and Bidding are about.  Another transporter,   *)
(* the rival, has no page here.                                            *)
(***************************************************************************)
EXTENDS Naturals

CONSTANTS
    MaxFails,   \* bound: failed or lost answers
    MaxVisits   \* bound: how often each app opens one of the pages

ASSUME TripAssumption == MaxFails \in Nat /\ MaxVisits \in Nat

VARIABLES
    trip,     \* the row, as far as the pages can tell it apart
    photos,   \* the row has delivery photos: no page shows it
    told,     \* the customer read the pickup code out to the transporter
    screen,   \* screen[a]: the page app a shows
    cache,    \* cache[a]: data of the query ['booking', id]
    fetch,    \* fetch[a]: the answer on its way to that query
    ask,      \* ask[a]: the mutation under way, and its answer
    dialogs,  \* dialogs[a]: what the user opened on the page
    fails,
    visits

tripVars == <<trip, photos, told, screen, cache, fetch, ask, dialogs, fails, visits>>

Apps == {"customer", "transporter"}
Drivers == {"transporter", "rival"}
Open == {"PENDING", "BIDDING"}
Active == {"ACCEPTED", "PICKING_UP", "IN_TRANSIT"}
Statuses == Open \cup Active \cup {"COMPLETED", "CANCELLED", "DISPUTED"}

Trip == [rev : Nat, status : Statuses, driver : Drivers \cup {"none"},
         otp : BOOLEAN, rated : BOOLEAN]
NoTrip == [rev |-> 0, status |-> "NONE", driver |-> "none",
           otp |-> FALSE, rated |-> FALSE]

Asks == [customer |-> {"cancel", "dispute", "award", "rate"},
         transporter |-> {"accept", "start", "otp", "complete", "cancel", "transit"}]
Screens == [customer |-> {"away", "booking"},
            transporter |-> {"away", "job", "trip"}]

NoAsk == [kind |-> "none", done |-> FALSE, data |-> NoTrip]

TripTypeOK ==
    /\ trip \in Trip
    /\ trip.status \in Active => trip.driver \in Drivers
    /\ photos \in BOOLEAN /\ told \in BOOLEAN
    /\ \A a \in Apps :
          /\ screen[a] \in Screens[a]
          /\ cache[a] \in Trip \cup {NoTrip}
          /\ fetch[a] \in Trip \cup {NoTrip}
          /\ ask[a].kind \in Asks[a] \cup {"none"}
          /\ ask[a].done \in BOOLEAN
          /\ dialogs[a] \subseteq {"cancel", "otp"}
          /\ cache[a].rev <= trip.rev /\ fetch[a].rev <= trip.rev
    /\ fails \in 0 .. MaxFails
    /\ visits \in [Apps -> 0 .. MaxVisits]

TripInit ==
    /\ \E s \in Open : trip = [NoTrip EXCEPT !.rev = 1, !.status = s]
    /\ photos = FALSE /\ told = FALSE
    /\ screen = [a \in Apps |-> "away"]
    /\ cache = [a \in Apps |-> NoTrip]
    /\ fetch = [a \in Apps |-> NoTrip]
    /\ ask = [a \in Apps |-> NoAsk]
    /\ dialogs = [a \in Apps |-> {}]
    /\ fails = 0
    /\ visits = [a \in Apps |-> 0]

----------------------------------------------------------------------------
(* The query ['booking', id].                                              *)

\* The page is mounted.  Data under 30 s old is not fetched again.
OpenPage(a, s) ==
    /\ screen[a] = "away" /\ visits[a] < MaxVisits
    /\ s = "job" => trip.status \in Open
    /\ s = "trip" => trip.driver = "transporter"
    /\ screen' = [screen EXCEPT ![a] = s]
    /\ visits' = [visits EXCEPT ![a] = @ + 1]
    /\ \/ fetch[a] = NoTrip /\ fetch' = [fetch EXCEPT ![a] = trip]
       \/ (cache[a] # NoTrip \/ fetch[a] # NoTrip) /\ UNCHANGED fetch
    /\ UNCHANGED <<trip, photos, told, cache, ask, dialogs, fails>>

\* Unmounted: its state goes, a GET or a mutation under way goes on.
LeavePage(a) ==
    /\ screen[a] # "away"
    /\ screen' = [screen EXCEPT ![a] = "away"]
    /\ dialogs' = [dialogs EXCEPT ![a] = {}]
    /\ UNCHANGED <<trip, photos, told, cache, fetch, ask, fails, visits>>

\* refetchInterval: the customer's page polls while the copy it shows is
\* of a trip under way, the active-trip page always, the job page never.
PollsUntilTransit(a) ==   \* mutant: IN_TRANSIT forgotten in the list
    \/ screen[a] = "booking" /\ cache[a].status \in Active \ {"IN_TRANSIT"}
    \/ screen[a] = "trip"

Polls(a) ==
    \/ screen[a] = "booking" /\ cache[a].status \in Active
    \/ screen[a] = "trip"

\* One GET at a time: an interval that ends in the middle of one sends none.
Poll(a) ==
    /\ Polls(a)
    /\ fetch[a] = NoTrip
    /\ fetch' = [fetch EXCEPT ![a] = trip]
    /\ UNCHANGED <<trip, photos, told, screen, cache, ask, dialogs, fails, visits>>

FetchArrives(a) ==
    /\ fetch[a] # NoTrip
    /\ cache' = [cache EXCEPT ![a] = fetch[a]]
    /\ fetch' = [fetch EXCEPT ![a] = NoTrip]
    /\ UNCHANGED <<trip, photos, told, screen, ask, dialogs, fails, visits>>

\* The GET failed, and its retry too: the copy stays.
FetchFails(a) ==
    /\ fetch[a] # NoTrip /\ fails < MaxFails
    /\ fetch' = [fetch EXCEPT ![a] = NoTrip]
    /\ fails' = fails + 1
    /\ UNCHANGED <<trip, photos, told, screen, cache, ask, dialogs, visits>>

----------------------------------------------------------------------------
(* The buttons: what the copy on the screen lets the user ask for.         *)

\* On the customer's booking page, by the copy t it shows.
CanCancelBooking(t) == t.status \in Open \cup {"ACCEPTED", "PICKING_UP"}
CanDispute(t) == t.status \in {"IN_TRANSIT", "COMPLETED"}
CanRate(t) == t.status = "COMPLETED" /\ ~t.rated
BidsShown(t) == t.status = "BIDDING"

\* On the transporter's pages.
JobOpen(t) == t.status = "PENDING"
CanCancelTrip(t) == t.status \in {"ACCEPTED", "PICKING_UP"}
CodeField(t) == t.status = "PICKING_UP"

ActionOnEveryStatus(t) ==   \* mutant: the button is there in PICKING_UP too
    CASE t.status = "ACCEPTED"   -> {"start"}
      [] t.status = "PICKING_UP" -> {"transit"}
      [] t.status = "IN_TRANSIT" -> {"complete"}
      [] OTHER                   -> {}

\* STATUS_ACTIONS and the button that runs them, which gives way to the code
\* field in PICKING_UP.
ActionButton(t) ==
    CASE t.status = "ACCEPTED"   -> {"start"}
      [] t.status = "IN_TRANSIT" -> {"complete"}
      [] OTHER                   -> {}

CancelButton(a) ==
    \/ screen[a] = "booking" /\ CanCancelBooking(cache[a])
    \/ screen[a] = "trip" /\ CanCancelTrip(cache[a])

OpenDialog(a, d) ==
    /\ d \notin dialogs[a]
    /\ \/ d = "otp" /\ screen[a] = "trip" /\ CodeField(cache[a])
       \/ d = "cancel" /\ CancelButton(a)
    /\ dialogs' = [dialogs EXCEPT ![a] = @ \cup {d}]
    /\ UNCHANGED <<trip, photos, told, screen, cache, fetch, ask, fails, visits>>

CloseDialog(a, d) ==
    /\ d \in dialogs[a]
    /\ dialogs' = [dialogs EXCEPT ![a] = @ \ {d}]
    /\ UNCHANGED <<trip, photos, told, screen, cache, fetch, ask, fails, visits>>

\* The booking page, section by section.  Its cancel dialog stays when the
\* copy under it changes.
BidList(kind) == kind = "award" /\ BidsShown(cache["customer"])
RatingForm(kind) == kind = "rate" /\ CanRate(cache["customer"])
BookingActions(kind) == kind = "dispute" /\ CanDispute(cache["customer"])
BookingCancelDialog(kind) == kind = "cancel" /\ "cancel" \in dialogs["customer"]

CustomerMay(kind) ==
    /\ screen["customer"] = "booking"
    /\ \/ BidList(kind) \/ RatingForm(kind)
       \/ BookingActions(kind) \/ BookingCancelDialog(kind)

\* The job page, and the active-trip page section by section.  The code field
\* is shown only while the copy is PICKING_UP; the cancel dialog stays.
JobPage(kind) == kind = "accept" /\ JobOpen(cache["transporter"])
TripAction(kind) == kind \in ActionButton(cache["transporter"])
CodeForm(kind) ==
    kind = "otp" /\ "otp" \in dialogs["transporter"] /\ CodeField(cache["transporter"])
TripCancelDialog(kind) == kind = "cancel" /\ "cancel" \in dialogs["transporter"]

TransporterMay(kind) ==
    \/ screen["transporter"] = "job" /\ JobPage(kind)
    \/ /\ screen["transporter"] = "trip"
       /\ TripAction(kind) \/ CodeForm(kind) \/ TripCancelDialog(kind)

\* The customer reads the code from the page.
TellCode ==
    /\ ~told
    /\ screen["customer"] = "booking"
    /\ cache["customer"].otp /\ cache["customer"].status \in {"ACCEPTED", "PICKING_UP"}
    /\ told' = TRUE
    /\ UNCHANGED <<trip, photos, screen, cache, fetch, ask, dialogs, fails, visits>>

----------------------------------------------------------------------------
(* The server.                                                             *)

Changed(t) == [t EXCEPT !.rev = trip.rev + 1]

\* The row after the request of app a, in the set of outcomes; none: refused.
\* UpdateStatus to CANCELLED.
Cancelled(a) ==
    {t \in {[trip EXCEPT !.status = "CANCELLED"]} :
        /\ trip.status \in Open \cup {"ACCEPTED", "PICKING_UP"}
        /\ a = "customer" \/ trip.driver = a}

Accepted ==
    {t \in {[trip EXCEPT !.status = "ACCEPTED", !.driver = "transporter", !.otp = TRUE]} :
        trip.status = "PENDING"}

\* AcceptBid writes no pickup OTP.
Awarded ==
    {[trip EXCEPT !.status = "ACCEPTED", !.driver = d] :
        d \in {e \in Drivers : trip.status = "BIDDING"}}

\* UpdateStatus, VerifyPickupOTP, CompleteBooking and RateTransporter.  The
\* code is also in the answers that the transporter's app gets (AcceptBooking,
\* UpdateStatus, my-bookings; only GetBooking hides it), but none of its pages
\* displays it: its user has the code once it was told.
Progress(a, kind) ==
    LET mine == trip.driver = a IN
    CASE kind = "start" /\ mine /\ trip.status = "ACCEPTED" ->
            {[trip EXCEPT !.status = "PICKING_UP"]}
      [] kind = "transit" /\ mine /\ trip.status = "PICKING_UP" ->
            {[trip EXCEPT !.status = "IN_TRANSIT"]}
      [] kind = "otp" /\ mine /\ trip.status \in {"ACCEPTED", "PICKING_UP"}
            /\ trip.otp /\ told ->
            {[trip EXCEPT !.status = "IN_TRANSIT", !.otp = FALSE]}
      [] kind = "complete" /\ mine /\ trip.status = "IN_TRANSIT" /\ photos ->
            {[trip EXCEPT !.status = "COMPLETED"]}
      [] kind = "dispute" /\ trip.status \in {"IN_TRANSIT", "COMPLETED"} ->
            {[trip EXCEPT !.status = "DISPUTED"]}
      [] kind = "rate" /\ trip.status = "COMPLETED" /\ ~trip.rated ->
            {[trip EXCEPT !.rated = TRUE]}
      [] OTHER -> {}

Outcomes(a, kind) ==
    CASE kind = "cancel" -> Cancelled(a)
      [] kind = "accept" -> Accepted
      [] kind = "award"  -> Awarded
      [] OTHER           -> Progress(a, kind)

\* The click, and what the server makes of it.  A button is disabled while
\* its mutation is pending; here no other is started either.
Click(a, kind) ==
    LET after == Outcomes(a, kind) IN
    /\ ask[a] = NoAsk
    /\ IF a = "customer" THEN CustomerMay(kind) ELSE TransporterMay(kind)
    /\ \/ /\ \E t \in after : trip' = Changed(t)
          /\ ask' = [ask EXCEPT ![a] = [kind |-> kind, done |-> TRUE, data |-> trip']]
       \/ /\ after = {} /\ UNCHANGED trip
          /\ ask' = [ask EXCEPT ![a] = [NoAsk EXCEPT !.kind = kind]]
    /\ UNCHANGED <<photos, told, screen, cache, fetch, dialogs, fails, visits>>

\* The photos page, linked from the active-trip page (save).
UploadPhotos ==
    /\ screen["transporter"] = "trip" /\ ~photos
    /\ photos' = TRUE
    /\ UNCHANGED <<trip, told, screen, cache, fetch, ask, dialogs, fails, visits>>

\* AcceptBooking by another transporter.
RivalAccepts ==
    /\ trip.status = "PENDING"
    /\ trip' = Changed([trip EXCEPT !.status = "ACCEPTED", !.driver = "rival", !.otp = TRUE])
    /\ UNCHANGED <<photos, told, screen, cache, fetch, ask, dialogs, fails, visits>>

\* expireStaleBookings cancels an offer that nobody took.
OfferExpires ==
    /\ trip.status = "PENDING"
    /\ trip' = Changed([trip EXCEPT !.status = "CANCELLED"])
    /\ UNCHANGED <<photos, told, screen, cache, fetch, ask, dialogs, fails, visits>>

----------------------------------------------------------------------------
(* onSuccess and onError.                                                  *)

\* setQueryData with the answer, whatever GET is under way.  A rating only
\* invalidates: the GET under way is dropped and a new one sent, if a page
\* shows the query.  An accept leaves the cache alone, and takes the user to
\* the trip wherever they are by then.
Refetched(a) == IF screen[a] = "away" THEN NoTrip ELSE trip

CacheAfter(a) == IF ask[a].kind \in {"rate", "accept"} THEN cache[a] ELSE ask[a].data

AskSucceeds(a) ==
    LET kind == ask[a].kind IN
    /\ ask[a].done
    /\ ask' = [ask EXCEPT ![a] = NoAsk]
    /\ cache' = [cache EXCEPT ![a] = CacheAfter(a)]
    /\ fetch' = [fetch EXCEPT ![a] = IF kind = "rate" THEN Refetched(a) ELSE @]
    /\ dialogs' = [dialogs EXCEPT ![a] = @ \ {kind}]
    /\ screen' = [screen EXCEPT ![a] = IF kind = "accept" THEN "trip" ELSE @]
    /\ UNCHANGED <<trip, photos, told, fails, visits>>

AskRefusedMovesOn(a) ==   \* mutant: the push to /active before the answer is in
    /\ ask[a].kind # "none" /\ ~ask[a].done
    /\ ask' = [ask EXCEPT ![a] = NoAsk]
    /\ screen' = [screen EXCEPT ![a] = IF ask[a].kind = "accept" THEN "trip" ELSE @]
    /\ UNCHANGED <<trip, photos, told, cache, fetch, dialogs, fails, visits>>

\* onError: only the message.
AskRefused(a) ==
    /\ ask[a].kind # "none" /\ ~ask[a].done
    /\ ask' = [ask EXCEPT ![a] = NoAsk]
    /\ UNCHANGED <<trip, photos, told, screen, cache, fetch, dialogs, fails, visits>>

\* The answer is lost: onError, though the request was done.
AskLost(a) ==
    /\ ask[a].done /\ fails < MaxFails
    /\ ask' = [ask EXCEPT ![a] = NoAsk]
    /\ fails' = fails + 1
    /\ UNCHANGED <<trip, photos, told, screen, cache, fetch, dialogs, visits>>

----------------------------------------------------------------------------
Page(a) ==
    \/ \E s \in Screens[a] \ {"away"} : OpenPage(a, s)
    \/ LeavePage(a)
    \/ \E d \in {"cancel", "otp"} : OpenDialog(a, d) \/ CloseDialog(a, d)
    \/ \E kind \in Asks[a] : Click(a, kind)

Network(a) ==
    \/ Poll(a)
    \/ FetchArrives(a)
    \/ FetchFails(a)
    \/ AskSucceeds(a)
    \/ AskRefused(a)
    \/ AskLost(a)

TripNext ==
    \/ \E a \in Apps : Page(a) \/ Network(a)
    \/ TellCode
    \/ UploadPhotos
    \/ RivalAccepts
    \/ OfferExpires

TripSpec == TripInit /\ [][TripNext]_tripVars

\* A page that is up goes on polling, and the API answers.
FairTripSpec ==
    /\ TripSpec
    /\ \A a \in Apps :
          WF_tripVars(Poll(a)) /\ WF_tripVars(FetchArrives(a))

----------------------------------------------------------------------------
\* The goods change hands for the customer's code only: whatever the pages
\* show and however old it is, a trip is in transit, and what follows,
\* after the customer read the code out (active/[id]/page.tsx, the button
\* that gives way to the code field in PICKING_UP; VerifyPickupOTP).  The
\* server would take the plain status change: the page must not offer it.
HandoverByCode ==
    trip.status \in {"IN_TRANSIT", "COMPLETED", "DISPUTED"} => told

\* A transporter is on the active-trip page, with its navigation, chat and
\* photos, only for a trip that is theirs, although the job page shows jobs
\* that another transporter took meanwhile (jobs/[id]/page.tsx, acceptMut).
OnMyTripOnly ==
    screen["transporter"] = "trip" => trip.driver = "transporter"

\* A page that polls does not stay behind: whatever older answer overwrote
\* its copy, it shows the trip as it is in the end, or no longer polls
\* (refetchInterval of both pages).
PagesCatchUp ==
    \A a \in Apps : []<>(cache[a].rev = trip.rev \/ ~(screen[a] \in {"booking", "trip"} /\ cache[a].status \in Active))

\* Said by VerifyPickupOTP's comment, "verifies the OTP given by customer to
\* transporter at pickup": a transporter on the way to a pickup can be
\* given a code.  It is the only way on that the active-trip page offers.
CodeToGive == trip.status = "PICKING_UP" => trip.otp
=============================================================================
