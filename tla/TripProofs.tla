---------------------------- MODULE TripProofs ----------------------------
(***************************************************************************)
(* What TripScreens promises of a trip, for any number of failures and     *)
(* visits.                                                                 *)
(*                                                                         *)
(* HandoverByCode is inductive once it is known that no page offers the    *)
(* plain change to IN_TRANSIT.  OnMyTripOnly is not: a page may open after *)
(* an accept was answered, so the invariant also says that an accept that  *)
(* is still on its way back leaves the trip with its transporter, and that *)
(* a trip that is open has none.                                           *)
(***************************************************************************)
EXTENDS TripScreens, TLAPS

\* What the app's variables may hold; the answer of a refused request is none.
AskKinds == Asks["customer"] \cup Asks["transporter"] \cup {"none"}

Answers == [kind : AskKinds, done : BOOLEAN, data : Trip \cup {NoTrip}]

PageShapes ==
    /\ screen \in [Apps -> {"away", "booking", "job", "trip"}]
    /\ cache \in [Apps -> Trip \cup {NoTrip}]
    /\ fetch \in [Apps -> Trip \cup {NoTrip}]
    /\ ask \in [Apps -> Answers]
    /\ dialogs \in [Apps -> SUBSET {"cancel", "otp"}]

\* No answer is newer than the row.
AnswersAreOld == \A a \in Apps : ask[a].data.rev <= trip.rev

OpenHasNoDriver == trip.status \in Open => trip.driver = "none"

\* An accept that was done is of a trip that is theirs by now, and for good.
AcceptHolds ==
    ask["transporter"].kind = "accept" /\ ask["transporter"].done
        => trip.driver = "transporter"

TripInv ==
    /\ TripTypeOK
    /\ PageShapes
    /\ AnswersAreOld
    /\ OpenHasNoDriver
    /\ AcceptHolds
    /\ HandoverByCode
    /\ OnMyTripOnly

----------------------------------------------------------------------------
(* The server.                                                             *)

\* What may become of the row in one step: a driver is never exchanged, the
\* goods are handed over for the code, and are not cancelled on the way.
Follows(t) ==
    /\ t \in Trip
    /\ t.status \in Active => t.driver \in Drivers
    /\ t.status \in Open => t.driver = "none"
    /\ trip.driver # "none" => t.driver = trip.driver
    /\ t.status \in {"IN_TRANSIT", "COMPLETED", "DISPUTED"} => told
    /\ trip.status \in {"IN_TRANSIT", "COMPLETED"} => t.status # "CANCELLED"

\* A change of the row counts it, and changes nothing else.
LEMMA ChangedRow ==
    ASSUME trip \in Trip, NEW t \in Trip
    PROVE  /\ Changed(t) \in Trip /\ Changed(t).rev = trip.rev + 1
           /\ Changed(t).status = t.status /\ Changed(t).driver = t.driver
BY DEF Changed, Trip

\* What a request makes of the row follows from it, for every request but the
\* plain change to IN_TRANSIT, which the server takes without a code.
LEMMA RequestFollows ==
    ASSUME TripInv, NEW a \in Apps, NEW kind \in Asks[a], kind # "transit",
           NEW t \in Outcomes(a, kind)
    PROVE  Follows(t) /\ (kind = "accept" => t.driver = "transporter")
<1>0. /\ trip \in Trip /\ (trip.status \in Active => trip.driver \in Drivers)
      /\ (trip.status \in Open => trip.driver = "none")
      /\ (trip.status \in {"IN_TRANSIT", "COMPLETED", "DISPUTED"} => told)
      BY DEF TripInv, TripTypeOK, OpenHasNoDriver, HandoverByCode
<1> USE DEF Open, Active, Drivers
<1>1. CASE kind = "cancel"
  <2>1. t = [trip EXCEPT !.status = "CANCELLED"] /\ trip.status \notin {"IN_TRANSIT", "COMPLETED"}
        BY <1>1 DEF Outcomes, Cancelled
  <2> QED BY <1>0, <1>1, <2>1 DEF Follows, Trip, Statuses
<1>2. CASE kind = "accept"
  <2>1. /\ t = [trip EXCEPT !.status = "ACCEPTED", !.driver = "transporter", !.otp = TRUE]
        /\ trip.status = "PENDING"
        BY <1>2 DEF Outcomes, Accepted
  <2> QED BY <1>0, <1>2, <2>1 DEF Follows, Trip, Statuses
<1>3. CASE kind = "award"
  <2>1. PICK d \in Drivers : t = [trip EXCEPT !.status = "ACCEPTED", !.driver = d]
        BY <1>3 DEF Outcomes, Awarded
  <2>2. trip.status = "BIDDING"
        BY <1>3 DEF Outcomes, Awarded
  <2> QED BY <1>0, <1>3, <2>1, <2>2 DEF Follows, Trip, Statuses
<1>4. CASE kind = "start"
  <2>1. /\ t = [trip EXCEPT !.status = "PICKING_UP"]
        /\ trip.status = "ACCEPTED"
        BY <1>4 DEF Outcomes, Progress
  <2> QED BY <1>0, <1>4, <2>1 DEF Follows, Trip, Statuses
<1>5. CASE kind = "otp"
  <2>1. /\ t = [trip EXCEPT !.status = "IN_TRANSIT", !.otp = FALSE]
        /\ trip.status \in {"ACCEPTED", "PICKING_UP"} /\ told
        BY <1>5 DEF Outcomes, Progress
  <2> QED BY <1>0, <1>5, <2>1 DEF Follows, Trip, Statuses
<1>6. CASE kind = "complete"
  <2>1. /\ t = [trip EXCEPT !.status = "COMPLETED"]
        /\ trip.status = "IN_TRANSIT"
        BY <1>6 DEF Outcomes, Progress
  <2> QED BY <1>0, <1>6, <2>1 DEF Follows, Trip, Statuses
<1>7. CASE kind = "dispute"
  <2>1. /\ t = [trip EXCEPT !.status = "DISPUTED"]
        /\ trip.status \in {"IN_TRANSIT", "COMPLETED"}
        BY <1>7 DEF Outcomes, Progress
  <2> QED BY <1>0, <1>7, <2>1 DEF Follows, Trip, Statuses
<1>8. CASE kind = "rate"
  <2>1. t = [trip EXCEPT !.rated = TRUE] /\ trip.status = "COMPLETED"
        BY <1>8 DEF Outcomes, Progress
  <2> QED BY <1>0, <1>8, <2>1 DEF Follows, Trip, Statuses
<1> QED BY <1>1, <1>2, <1>3, <1>4, <1>5, <1>6, <1>7, <1>8 DEF Asks, Apps

\* No page offers the plain change to IN_TRANSIT.
LEMMA NoPlainTransit == ~TransporterMay("transit") /\ ~CustomerMay("transit")
<1>1. "transit" \notin ActionButton(cache["transporter"])
      BY DEF ActionButton
<1> QED BY <1>1 DEF TransporterMay, CustomerMay, JobPage, TripAction, CodeForm,
             TripCancelDialog, BidList, RatingForm, BookingActions, BookingCancelDialog

----------------------------------------------------------------------------
(* The steps.                                                              *)

\* The row is as before, or followed from it while the pages stood still.
LEMMA InitInv == TripInit => TripInv
<1> SUFFICES ASSUME TripInit PROVE TripInv
    OBVIOUS
<1>1. PICK s \in Open : trip = [NoTrip EXCEPT !.rev = 1, !.status = s]
      BY DEF TripInit
<1>2. /\ trip \in Trip /\ trip.status \in Open /\ trip.status \notin Active
      /\ trip.status \notin {"IN_TRANSIT", "COMPLETED", "DISPUTED"}
      /\ trip.driver = "none" /\ trip.rev = 1
      BY <1>1 DEF Trip, NoTrip, Open, Statuses, Active, Drivers
<1>3. \A a \in Apps : cache[a] = NoTrip /\ fetch[a] = NoTrip /\ ask[a] = NoAsk
                       /\ screen[a] = "away" /\ dialogs[a] = {}
      BY DEF TripInit
<1>4. NoTrip.rev = 0 /\ NoAsk.kind = "none" /\ NoAsk.done = FALSE /\ NoAsk.data = NoTrip
      BY DEF NoTrip, NoAsk
<1>5. \A a \in Apps : "away" \in Screens[a]
      BY DEF Screens, Apps
<1>6. TripTypeOK
  <2>1. fails \in 0 .. MaxFails /\ visits \in [Apps -> 0 .. MaxVisits]
        BY TripAssumption DEF TripInit
  <2>2. photos \in BOOLEAN /\ told \in BOOLEAN
        BY DEF TripInit
  <2>3. \A a \in Apps : cache[a].rev <= trip.rev /\ fetch[a].rev <= trip.rev
        BY <1>2, <1>3, <1>4
  <2>4. \A a \in Apps : /\ ask[a].kind \in Asks[a] \cup {"none"} /\ ask[a].done \in BOOLEAN
                         /\ dialogs[a] \subseteq {"cancel", "otp"} /\ screen[a] \in Screens[a]
                         /\ cache[a] \in Trip \cup {NoTrip} /\ fetch[a] \in Trip \cup {NoTrip}
        BY <1>3, <1>4, <1>5
  <2> QED BY <1>2, <2>1, <2>2, <2>3, <2>4 DEF TripTypeOK
<1>7. PageShapes
  <2>1. NoAsk \in Answers
        BY DEF NoAsk, Answers, AskKinds
  <2> QED BY <2>1 DEF PageShapes, TripInit
<1> QED BY <1>2, <1>3, <1>4, <1>6, <1>7 DEF TripInv, AnswersAreOld, OpenHasNoDriver,
             AcceptHolds, HandoverByCode, OnMyTripOnly, Apps

\* A step of the pages or the network, which leaves the row alone.
LEMMA PageStep ==
    ASSUME TripInv, UNCHANGED <<trip, photos>>,
           TripTypeOK', PageShapes', AnswersAreOld',
           told => told', AcceptHolds', OnMyTripOnly'
    PROVE  TripInv'
BY DEF TripInv, OpenHasNoDriver, HandoverByCode

\* A step of the server.
LEMMA RowStep ==
    ASSUME TripInv, NEW t, Follows(t), trip' = Changed(t), AnswersAreOld',
           ask' \in [Apps -> Answers],
           \A a \in Apps : ask'[a].kind \in Asks[a] \cup {"none"},
           AcceptHolds',
           UNCHANGED <<photos, told, screen, cache, fetch, dialogs, fails, visits>>
    PROVE  TripInv'
<1>1. trip \in Trip /\ t \in Trip
      BY DEF TripInv, TripTypeOK, Follows
<1>2. /\ trip' \in Trip /\ trip'.rev = trip.rev + 1
      /\ trip'.status = t.status /\ trip'.driver = t.driver
      BY <1>1, ChangedRow
<1>3. \A r \in Trip \cup {NoTrip} : r.rev \in Nat
      BY DEF Trip, NoTrip
<1>4. \A a \in Apps : cache'[a].rev <= trip'.rev /\ fetch'[a].rev <= trip'.rev
      BY <1>1, <1>2, <1>3 DEF TripInv, TripTypeOK
<1>5. TripTypeOK'
      BY <1>2, <1>4 DEF TripInv, TripTypeOK, Answers, Follows
<1>6. PageShapes'
      BY DEF TripInv, PageShapes
<1>7. OnMyTripOnly'
      BY <1>2 DEF TripInv, OnMyTripOnly, Follows
<1> QED BY <1>2, <1>5, <1>6, <1>7 DEF TripInv, OpenHasNoDriver, HandoverByCode, Follows

----------------------------------------------------------------------------
(* One lemma for each kind of step.                                        *)

\* A page opens, is left, or opens and closes what is on it.
LEMMA PageMoves ==
    ASSUME TripInv, NEW a \in Apps,
           \/ \E s \in Screens[a] \ {"away"} : OpenPage(a, s)
           \/ LeavePage(a)
           \/ \E d \in {"cancel", "otp"} : OpenDialog(a, d) \/ CloseDialog(a, d)
    PROVE  TripInv'
<1>0. \A r \in Apps : Screens[r] \subseteq {"away", "booking", "job", "trip"} /\ "away" \in Screens[r]
      BY DEF Screens, Apps
<1>1. CASE \E s \in Screens[a] \ {"away"} : OpenPage(a, s)
  <2>1. PICK s \in Screens[a] \ {"away"} : OpenPage(a, s)
        BY <1>1
  <2>2. fetch' = fetch \/ fetch' = [fetch EXCEPT ![a] = trip]
        BY <2>1 DEF OpenPage
  <2>3. /\ screen' = [screen EXCEPT ![a] = s]
        /\ visits[a] < MaxVisits /\ visits' = [visits EXCEPT ![a] = @ + 1]
        /\ s = "trip" => trip.driver = "transporter"
        /\ UNCHANGED <<trip, photos, told, cache, ask, dialogs, fails>>
        BY <2>1 DEF OpenPage
  <2>4. trip.rev <= trip.rev /\ trip \in Trip
        BY DEF TripInv, TripTypeOK, Trip
  <2>5. PageShapes'
        BY <1>0, <2>2, <2>3, <2>4 DEF TripInv, PageShapes
  <2>6. visits' \in [Apps -> 0 .. MaxVisits]
        BY <2>3, TripAssumption DEF TripInv, TripTypeOK
  <2>7. \A r \in Apps : screen'[r] \in Screens[r] /\ fetch'[r].rev <= trip.rev
        BY <2>2, <2>3, <2>4 DEF TripInv, TripTypeOK, PageShapes
  <2>8. TripTypeOK'
        BY <2>3, <2>5, <2>6, <2>7 DEF TripInv, TripTypeOK, PageShapes
  <2>9. AnswersAreOld' /\ AcceptHolds' /\ OnMyTripOnly'
        BY <2>3 DEF TripInv, AnswersAreOld, AcceptHolds, OnMyTripOnly, PageShapes, Apps
  <2> QED BY <2>3, <2>5, <2>8, <2>9, PageStep
<1>2. CASE LeavePage(a)
  <2>1. /\ screen' = [screen EXCEPT ![a] = "away"]
        /\ dialogs' = [dialogs EXCEPT ![a] = {}]
        /\ UNCHANGED <<trip, photos, told, cache, fetch, ask, fails, visits>>
        BY <1>2 DEF LeavePage
  <2>2. TripTypeOK' /\ PageShapes'
        BY <1>0, <2>1 DEF TripInv, TripTypeOK, PageShapes
  <2>3. AnswersAreOld' /\ AcceptHolds' /\ OnMyTripOnly'
        BY <2>1 DEF TripInv, AnswersAreOld, AcceptHolds, OnMyTripOnly, PageShapes, Apps
  <2> QED BY <2>1, <2>2, <2>3, PageStep
<1>3. CASE \E d \in {"cancel", "otp"} : OpenDialog(a, d) \/ CloseDialog(a, d)
  <2>1. PICK d \in {"cancel", "otp"} : OpenDialog(a, d) \/ CloseDialog(a, d)
        BY <1>3
  <2>2. /\ \/ dialogs' = [dialogs EXCEPT ![a] = @ \cup {d}]
           \/ dialogs' = [dialogs EXCEPT ![a] = @ \ {d}]
        /\ UNCHANGED <<trip, photos, told, screen, cache, fetch, ask, fails, visits>>
        BY <2>1 DEF OpenDialog, CloseDialog
  <2>3. dialogs' \in [Apps -> SUBSET {"cancel", "otp"}]
        BY <2>2 DEF TripInv, PageShapes
  <2>4. TripTypeOK' /\ PageShapes'
        BY <2>2, <2>3 DEF TripInv, TripTypeOK, PageShapes
  <2>5. AnswersAreOld' /\ AcceptHolds' /\ OnMyTripOnly'
        BY <2>2 DEF TripInv, AnswersAreOld, AcceptHolds, OnMyTripOnly
  <2> QED BY <2>2, <2>4, <2>5, PageStep
<1> QED BY <1>1, <1>2, <1>3

\* A GET is sent, answered or lost.
LEMMA FetchSteps ==
    ASSUME TripInv, NEW a \in Apps, Poll(a) \/ FetchArrives(a) \/ FetchFails(a)
    PROVE  TripInv'
<1>1. /\ fetch' = [fetch EXCEPT ![a] = trip] \/ fetch' = [fetch EXCEPT ![a] = NoTrip]
      /\ cache' = cache \/ cache' = [cache EXCEPT ![a] = fetch[a]]
      /\ fails' = fails \/ (fails < MaxFails /\ fails' = fails + 1)
      /\ UNCHANGED <<trip, photos, told, screen, ask, dialogs, visits>>
      BY DEF Poll, FetchArrives, FetchFails
<1>2. trip \in Trip /\ trip.rev <= trip.rev /\ NoTrip.rev <= trip.rev
      BY DEF TripInv, TripTypeOK, Trip, NoTrip
<1>3. /\ fetch' \in [Apps -> Trip \cup {NoTrip}] /\ cache' \in [Apps -> Trip \cup {NoTrip}]
      BY <1>1, <1>2 DEF TripInv, PageShapes
<1>4. \A r \in Apps : cache'[r].rev <= trip.rev /\ fetch'[r].rev <= trip.rev
      BY <1>1, <1>2 DEF TripInv, TripTypeOK, PageShapes
<1>5. fails' \in 0 .. MaxFails
      BY <1>1, TripAssumption DEF TripInv, TripTypeOK
<1>6. TripTypeOK' /\ PageShapes'
      BY <1>1, <1>3, <1>4, <1>5 DEF TripInv, TripTypeOK, PageShapes
<1>7. AnswersAreOld' /\ AcceptHolds' /\ OnMyTripOnly'
      BY <1>1 DEF TripInv, AnswersAreOld, AcceptHolds, OnMyTripOnly
<1> QED BY <1>1, <1>6, <1>7, PageStep

\* A click: the server refuses, and the row stays, or it does as asked.
LEMMA ClickStep ==
    ASSUME TripInv, NEW a \in Apps, NEW kind \in Asks[a], Click(a, kind)
    PROVE  TripInv'
<1>1. kind # "transit"
      BY NoPlainTransit DEF Click, Apps
<1>2. kind \in AskKinds /\ NoTrip.rev <= trip.rev
      BY DEF AskKinds, Apps, NoTrip, TripInv, TripTypeOK, Trip
<1>3. UNCHANGED <<photos, told, screen, cache, fetch, dialogs, fails, visits>>
      BY DEF Click
<1>4. CASE \E t \in Outcomes(a, kind) :
              /\ trip' = Changed(t)
              /\ ask' = [ask EXCEPT ![a] = [kind |-> kind, done |-> TRUE, data |-> trip']]
  <2>1. PICK t \in Outcomes(a, kind) :
              /\ trip' = Changed(t)
              /\ ask' = [ask EXCEPT ![a] = [kind |-> kind, done |-> TRUE, data |-> trip']]
        BY <1>4
  <2>2. Follows(t) /\ (kind = "accept" => t.driver = "transporter")
        BY <1>1, RequestFollows
  <2>3. /\ trip' \in Trip /\ trip'.rev = trip.rev + 1 /\ trip'.driver = t.driver
        /\ trip.rev \in Nat
        BY <2>1, <2>2, ChangedRow DEF TripInv, TripTypeOK, Follows, Trip
  <2>4. [kind |-> kind, done |-> TRUE, data |-> trip'] \in Answers
        BY <1>2, <2>3 DEF Answers
  <2>5. ask' \in [Apps -> Answers]
        BY <2>1, <2>4 DEF TripInv, PageShapes
  <2>6. \A r \in Apps : ask[r].data.rev \in Nat
        BY DEF TripInv, PageShapes, Answers, Trip, NoTrip
  <2>7. AnswersAreOld'
        BY <2>1, <2>3, <2>6 DEF TripInv, AnswersAreOld, PageShapes
  <2>8. \A r \in Apps : ask'[r].kind \in Asks[r] \cup {"none"}
        BY <2>1 DEF TripInv, TripTypeOK, PageShapes
  <2>9. AcceptHolds'
        BY <2>1, <2>2, <2>3 DEF TripInv, AcceptHolds, PageShapes, Follows, Apps
  <2> QED BY <1>3, <2>1, <2>2, <2>5, <2>7, <2>8, <2>9, RowStep
<1>5. CASE UNCHANGED trip /\ ask' = [ask EXCEPT ![a] = [NoAsk EXCEPT !.kind = kind]]
  <2> DEFINE refused == [NoAsk EXCEPT !.kind = kind]
  <2>1. refused \in Answers /\ refused.kind = kind /\ refused.done = FALSE /\ refused.data = NoTrip
        BY <1>2 DEF NoAsk, Answers
  <2> HIDE DEF refused
  <2>2. ask' = [ask EXCEPT ![a] = refused] /\ UNCHANGED trip
        BY <1>5 DEF refused
  <2>3. PageShapes'
        BY <1>3, <2>1, <2>2 DEF TripInv, PageShapes
  <2>4. TripTypeOK'
        BY <1>3, <2>1, <2>2 DEF TripInv, TripTypeOK, PageShapes
  <2>5. AnswersAreOld'
        BY <1>2, <2>1, <2>2 DEF TripInv, AnswersAreOld, PageShapes
  <2>6. AcceptHolds'
        BY <2>1, <2>2 DEF TripInv, AcceptHolds, PageShapes, Apps
  <2>7. OnMyTripOnly'
        BY <1>3, <2>2 DEF TripInv, OnMyTripOnly
  <2> QED BY <1>3, <2>2, <2>3, <2>4, <2>5, <2>6, <2>7, PageStep
<1> QED BY <1>4, <1>5 DEF Click

\* The answer to a click comes in, or is lost.
LEMMA AnswerSteps ==
    ASSUME TripInv, NEW a \in Apps, AskSucceeds(a) \/ AskRefused(a) \/ AskLost(a)
    PROVE  TripInv'
<1>1. NoAsk \in Answers /\ NoAsk.kind = "none" /\ NoAsk.done = FALSE /\ NoAsk.data.rev <= trip.rev
      BY DEF NoAsk, Answers, AskKinds, NoTrip, TripInv, TripTypeOK, Trip
<1>2. ask' = [ask EXCEPT ![a] = NoAsk] /\ UNCHANGED <<trip, photos, told, visits>>
      BY DEF AskSucceeds, AskRefused, AskLost
<1>3. /\ ask' \in [Apps -> Answers] /\ AnswersAreOld' /\ AcceptHolds'
      /\ \A r \in Apps : ask'[r].kind \in Asks[r] \cup {"none"} /\ ask'[r].done \in BOOLEAN
      BY <1>1, <1>2 DEF TripInv, TripTypeOK, AnswersAreOld, AcceptHolds, PageShapes, Apps
<1>4. CASE AskRefused(a) \/ AskLost(a)
  <2>1. /\ fails' = fails \/ (fails < MaxFails /\ fails' = fails + 1)
        /\ UNCHANGED <<screen, cache, fetch, dialogs>>
        BY <1>4 DEF AskRefused, AskLost
  <2>2. fails' \in 0 .. MaxFails
        BY <2>1, TripAssumption DEF TripInv, TripTypeOK
  <2>3. TripTypeOK' /\ PageShapes' /\ OnMyTripOnly'
        BY <1>2, <1>3, <2>1, <2>2 DEF TripInv, TripTypeOK, PageShapes, OnMyTripOnly
  <2> QED BY <1>2, <1>3, <2>3, PageStep
<1>5. CASE AskSucceeds(a)
  <2> DEFINE s == IF ask[a].kind = "accept" THEN "trip" ELSE screen[a]
             f == IF ask[a].kind = "rate" THEN Refetched(a) ELSE fetch[a]
  <2>1. /\ cache' = [cache EXCEPT ![a] = CacheAfter(a)]
        /\ fetch' = [fetch EXCEPT ![a] = f]
        /\ dialogs' = [dialogs EXCEPT ![a] = @ \ {ask[a].kind}]
        /\ screen' = [screen EXCEPT ![a] = s]
        /\ ask[a].done /\ UNCHANGED fails
        BY <1>5 DEF AskSucceeds, TripInv, PageShapes
  <2>2. trip \in Trip /\ trip.rev <= trip.rev /\ NoTrip.rev <= trip.rev
        BY DEF TripInv, TripTypeOK, Trip, NoTrip
  <2>3. CacheAfter(a) \in Trip \cup {NoTrip} /\ CacheAfter(a).rev <= trip.rev
    <3>1. ask[a].data \in Trip \cup {NoTrip} /\ ask[a].data.rev <= trip.rev
          BY DEF TripInv, PageShapes, Answers, AnswersAreOld
    <3>2. cache[a] \in Trip \cup {NoTrip} /\ cache[a].rev <= trip.rev
          BY DEF TripInv, TripTypeOK
    <3> QED BY <3>1, <3>2 DEF CacheAfter
  <2>4. f \in Trip \cup {NoTrip} /\ f.rev <= trip.rev
        BY <2>2 DEF TripInv, TripTypeOK, Refetched
  <2>5. s \in Screens[a] /\ s \in {"away", "booking", "job", "trip"}
    <3>1. ask[a].kind = "accept" => a = "transporter"
          BY DEF TripInv, TripTypeOK, Asks, Apps
    <3> QED BY <3>1 DEF TripInv, TripTypeOK, Screens, Apps
  <2> HIDE DEF s, f
  <2>6. /\ cache' \in [Apps -> Trip \cup {NoTrip}] /\ fetch' \in [Apps -> Trip \cup {NoTrip}]
        /\ screen' \in [Apps -> {"away", "booking", "job", "trip"}]
        /\ dialogs' \in [Apps -> SUBSET {"cancel", "otp"}]
        BY <2>1, <2>3, <2>4, <2>5 DEF TripInv, PageShapes
  <2>7. \A r \in Apps : cache'[r].rev <= trip.rev /\ fetch'[r].rev <= trip.rev
        BY <2>1, <2>3, <2>4 DEF TripInv, TripTypeOK, PageShapes
  <2>8. \A r \in Apps : screen'[r] \in Screens[r]
        BY <2>1, <2>5 DEF TripInv, TripTypeOK, PageShapes
  <2>9. TripTypeOK' /\ PageShapes'
        BY <1>2, <1>3, <2>1, <2>6, <2>7, <2>8 DEF TripInv, TripTypeOK, PageShapes
  <2>10. OnMyTripOnly'
    <3>1. a = "transporter" /\ ask[a].kind = "accept" => trip.driver = "transporter"
          BY <2>1 DEF TripInv, AcceptHolds
    <3> QED BY <1>2, <2>1, <3>1 DEF s, TripInv, OnMyTripOnly, PageShapes, Apps
  <2> QED BY <1>2, <1>3, <2>9, <2>10, PageStep
<1> QED BY <1>4, <1>5

\* What happens outside the two pages.
LEMMA WorldSteps ==
    ASSUME TripInv, TellCode \/ UploadPhotos \/ RivalAccepts \/ OfferExpires
    PROVE  TripInv'
<1>1. CASE TellCode
  <2>1. told' = TRUE
        /\ UNCHANGED <<trip, photos, screen, cache, fetch, ask, dialogs, fails, visits>>
        BY <1>1 DEF TellCode
  <2> QED BY <2>1 DEF TripInv, TripTypeOK, PageShapes, AnswersAreOld, OpenHasNoDriver,
               AcceptHolds, HandoverByCode, OnMyTripOnly
<1>2. CASE UploadPhotos
  <2>1. photos' = TRUE
        /\ UNCHANGED <<trip, told, screen, cache, fetch, ask, dialogs, fails, visits>>
        BY <1>2 DEF UploadPhotos
  <2> QED BY <2>1 DEF TripInv, TripTypeOK, PageShapes, AnswersAreOld, OpenHasNoDriver,
               AcceptHolds, HandoverByCode, OnMyTripOnly
<1>3. CASE RivalAccepts \/ OfferExpires
  <2> DEFINE taken == [trip EXCEPT !.status = "ACCEPTED", !.driver = "rival", !.otp = TRUE]
             ended == [trip EXCEPT !.status = "CANCELLED"]
  <2>1. trip \in Trip /\ trip.status = "PENDING" /\ trip.driver = "none"
        BY <1>3 DEF RivalAccepts, OfferExpires, TripInv, TripTypeOK, OpenHasNoDriver, Open
  <2>2. Follows(taken) /\ Follows(ended)
        BY <2>1 DEF Follows, Trip, Statuses, Open, Active, Drivers
  <2>3. PICK t \in {taken, ended} : trip' = Changed(t)
        BY <1>3 DEF RivalAccepts, OfferExpires
  <2>4. UNCHANGED <<photos, told, screen, cache, fetch, ask, dialogs, fails, visits>>
        BY <1>3 DEF RivalAccepts, OfferExpires
  <2> HIDE DEF taken, ended
  <2>5. Follows(t)
        BY <2>2
  <2>6. trip'.rev = trip.rev + 1 /\ trip.rev \in Nat
        BY <2>1, <2>3, <2>5, ChangedRow DEF Follows, Trip
  <2>7. \A r \in Apps : ask[r].data.rev \in Nat
        BY DEF TripInv, PageShapes, Answers, Trip, NoTrip
  <2>8. AnswersAreOld'
        BY <2>4, <2>6, <2>7 DEF TripInv, AnswersAreOld
  <2>9. AcceptHolds' /\ ask' \in [Apps -> Answers]
        /\ \A r \in Apps : ask'[r].kind \in Asks[r] \cup {"none"}
        BY <2>1, <2>4 DEF TripInv, AcceptHolds, PageShapes, TripTypeOK
  <2> QED BY <2>3, <2>4, <2>5, <2>8, <2>9, RowStep
<1> QED BY <1>1, <1>2, <1>3

\* Every step keeps the invariant.
LEMMA StepInv == TripInv /\ [TripNext]_tripVars => TripInv'
<1> SUFFICES ASSUME TripInv, [TripNext]_tripVars PROVE TripInv'
    OBVIOUS
<1>1. CASE UNCHANGED tripVars
      BY <1>1 DEF tripVars, TripInv, TripTypeOK, PageShapes, AnswersAreOld, OpenHasNoDriver,
            AcceptHolds, HandoverByCode, OnMyTripOnly
<1>2. CASE \E a \in Apps : Page(a) \/ Network(a)
  <2>1. PICK a \in Apps : Page(a) \/ Network(a)
        BY <1>2
  <2>2. CASE Page(a)
        BY <2>2, PageMoves, ClickStep DEF Page
  <2>3. CASE Network(a)
        BY <2>3, FetchSteps, AnswerSteps DEF Network
  <2> QED BY <2>1, <2>2, <2>3
<1>3. CASE TellCode \/ UploadPhotos \/ RivalAccepts \/ OfferExpires
      BY <1>3, WorldSteps
<1> QED BY <1>1, <1>2, <1>3 DEF TripNext

----------------------------------------------------------------------------
(* The theorems.                                                           *)

\* The invariant holds in every state of the two pages and the row
\* (bookings/[id], jobs/[id], active/[id]; booking/service.go).
THEOREM TripInvariant == TripSpec => []TripInv
<1>1. TripInit => TripInv
      BY InitInv
<1>2. TripInv /\ [TripNext]_tripVars => TripInv'
      BY StepInv
<1> QED BY <1>1, <1>2, PTL DEF TripSpec

\* The goods are only handed over after the customer read the code out,
\* whatever old copies the pages work from (active/[id]/page.tsx).
THEOREM HandedOverByCode == TripSpec => []HandoverByCode
<1>1. TripInv => HandoverByCode
      BY DEF TripInv
<1> QED BY <1>1, TripInvariant, PTL

\* The active-trip page is only ever up for a trip that is theirs, although
\* the answer to an accept may come in on any page (jobs/[id]/page.tsx).
THEOREM TripPageIsTheirs == TripSpec => []OnMyTripOnly
<1>1. TripInv => OnMyTripOnly
      BY DEF TripInv
<1> QED BY <1>1, TripInvariant, PTL
=============================================================================
