----------------------------- MODULE ReviewDesk -----------------------------
(***************************************************************************)
(* What users file and admins decide: KYC submissions, vehicles, reports   *)
(* and SOS alerts.  Users file on the pages kyc, vehicles, report and sos  *)
(* of their apps; admins decide on the pages kyc, vehicles, reports and    *)
(* sos of the admin app; internal/kyc, vehicle, report, sos and moderation *)
(* answer.                                                                 *)
(*                                                                         *)
(* The four desks are the same page four times, over handlers that differ: *)
(* "kind" says which desk a behaviour is about.  An admin works from his   *)
(* app's cached copy of a queue, and a review is a read of the row, a      *)
(* check, and a Save of all its columns.                                   *)
(*                                                                         *)
(* A status is "waiting" when the queue asks for a decision on it          *)
(* (PENDING, MANUAL_REVIEW, INCONCLUSIVE, ACTIVE), "processing" for KYC's  *)
(* PROCESSING, "triaged" for a report's UNDER_REVIEW, and then "yes"       *)
(* (VERIFIED, APPROVED, RESOLVED) or "no" (REJECTED, FALSE_ALARM, a report *)
(* dismissed).                                                             *)
(***************************************************************************)
EXTENDS Naturals, FiniteSetsExt

CONSTANTS
    Kinds,          \* the desks a run is about
    Admins,         \* Admins[k]: who works at desk k
    Customers,      \* users of the customer app
    Transporters,   \* users of the transporter app
    Filers,         \* Filers[k]: who files at desk k; for SOS, the parties
                    \* of one booking
    BanThreshold,   \* different reporters that put a user up for a ban: 6
    MaxItems,       \* bound: MaxItems[k] rows at desk k
    MaxDeliveries,  \* bound: deliveries of one event to the AI's consumer
    MaxFails        \* bound: lost answers

ASSUME DeskAssumption ==
    /\ Kinds \subseteq {"kyc", "vehicle", "report", "sos"}
    /\ Customers \cap Transporters = {} /\ IsFiniteSet(Customers \cup Transporters)
    /\ Filers \in [Kinds -> SUBSET (Customers \cup Transporters)]
    /\ MaxItems \in [Kinds -> Nat] /\ MaxDeliveries \in Nat /\ MaxFails \in Nat
    /\ BanThreshold \in Nat \ {0}

VARIABLES
    kind,      \* the desk
    row,       \* row[i]: status of the i-th row, and who filed it
    bus,       \* bus[i]: deliveries left of the event that announced row i
    filing,    \* users whose submission passed the server's checks
    edit,      \* the owner's UpdateVehicle between its read and its Save
    list,      \* list[a]: the items a's query cache offers for review
    fetch,     \* fetch[a]: the answer on its way to it, or none
    selected,  \* selected[a]: the item whose modal is open
    ask,       \* ask[a]: the review under way
    banList,   \* admins whose ban queue shows the reported user
    banned,
    fails

pageVars == <<list, fetch, selected, ask, banList>>
deskVars == <<kind, row, bus, filing, edit, pageVars, banned, fails>>

Users == Customers \cup Transporters
Items == 1 .. Max({MaxItems[k] : k \in Kinds})
Staff == UNION {Admins[k] : k \in Kinds}
Decided == {"yes", "no"}
Statuses == {"none", "waiting", "processing", "triaged", "deleted"} \cup Decided
Nobody == "nobody"
NoEdit == [id |-> 0, was |-> "none"]
NoAsk == [at |-> "idle", id |-> 0, verdict |-> "no", was |-> "none"]
Nothing == [at |-> "nothing"]
Answer(q) == [at |-> "sent", items |-> q]

DeskTypeOK ==
    /\ kind \in Kinds
    /\ row \in [Items -> [st : Statuses, by : Users \cup {Nobody}]]
    /\ bus \in [Items -> 0 .. MaxDeliveries]
    /\ filing \subseteq Users
    /\ edit.id # 0 => kind = "vehicle" /\ row[edit.id].st # "none"
    /\ list \in [Staff -> SUBSET Items]
    /\ \A a \in Staff :
          /\ fetch[a] = Nothing \/ fetch[a].items \subseteq Items
          /\ \A i \in list[a] \cup {selected[a], ask[a].id} :
                i # 0 => row[i].st # "none"
          /\ (ask[a].at = "idle") = (ask[a].id = 0)
    /\ banList \subseteq Staff /\ banned \in BOOLEAN
    /\ fails \in 0 .. MaxFails

DeskInit ==
    /\ kind \in Kinds
    /\ row = [i \in Items |-> [st |-> "none", by |-> Nobody]]
    /\ bus = [i \in Items |-> 0]
    /\ filing = {} /\ edit = NoEdit
    /\ list = [a \in Staff |-> {}]
    /\ fetch = [a \in Staff |-> Nothing]
    /\ selected = [a \in Staff |-> 0]
    /\ ask = [a \in Staff |-> NoAsk]
    /\ banList = {} /\ banned = FALSE
    /\ fails = 0

----------------------------------------------------------------------------
(* The users' side.                                                        *)

With(s) == {i \in Items : row[i].st \in s}

\* Whose rows there are.
Filed == (filing \cup {row[i].by : i \in Items}) \ {Nobody}

Peers(u) == IF u \in Customers THEN Customers ELSE Transporters

\* What the handler looks for before it creates a row.  KYC submissions and
\* the vehicle of a behaviour are one user's; its reports are of one user, so
\* they come from the other side of his bookings.
MayFile(u) ==
    /\ u \in Filers[kind]
    /\ CASE kind = "kyc"     -> With({"yes"}) = {} /\ Filed \subseteq {u}
         [] kind = "vehicle" -> With({"waiting", "yes", "no"}) = {} /\ Filed \subseteq {u}
         [] kind = "sos"     -> With({"waiting"}) = {}
         [] kind = "report"  -> Filed \subseteq Peers(u)

\* Submit is disabled while the last submission is answered.
Submit(u) ==
    /\ u \notin filing /\ MayFile(u)
    /\ filing' = filing \cup {u}
    /\ UNCHANGED <<kind, row, bus, edit, pageVars, banned, fails>>

\* The pages kyc and sos of the two apps.
CustomerKyc == kind = "kyc" /\ \E u \in Customers : Submit(u)
TransporterKyc == kind = "kyc" /\ \E u \in Transporters : Submit(u)
CustomerSos == kind = "sos" /\ \E u \in Customers : Submit(u)
TransporterSos == kind = "sos" /\ \E u \in Transporters : Submit(u)

\* How a row starts: KYC goes to Didit, or to the admins if Didit fails.
FirstStatus == IF kind = "kyc" THEN {"processing", "waiting"} ELSE {"waiting"}

\* KYC at Didit and reports are announced to the AI.
Announced(s) == kind = "report" \/ s = "processing"

\* The row is created, and announced.  A report is created at once: nothing
\* is looked for that another request could change.
Create(u) ==
    /\ u \in filing \/ (kind = "report" /\ MayFile(u))
    /\ \E i \in With({"none"}), s \in FirstStatus :
          /\ i <= MaxItems[kind] /\ \A j \in With({"none"}) : i <= j
          /\ row' = [row EXCEPT ![i] = [st |-> s, by |-> u]]
          /\ bus' = [bus EXCEPT ![i] = IF Announced(s) THEN MaxDeliveries ELSE 0]
    /\ filing' = filing \ {u}
    /\ UNCHANGED <<kind, edit, pageVars, banned, fails>>

\* The page report of the two apps.
CustomerReport == kind = "report" /\ \E u \in Customers : Create(u)
TransporterReport == kind = "report" /\ \E u \in Transporters : Create(u)

\* UpdateVehicle: the read, then the Save of what was read and the form.
EditRead(i) ==
    /\ edit = NoEdit
    /\ row[i].st \in {"waiting", "yes", "no"}
    /\ edit' = [id |-> i, was |-> row[i].st]
    /\ UNCHANGED <<kind, row, bus, filing, pageVars, banned, fails>>

\* gorm's Save inserts the row again when its UPDATE finds none: a vehicle
\* deleted meanwhile is back.
EditSave ==
    /\ edit # NoEdit
    /\ row' = [row EXCEPT ![edit.id].st = edit.was]
    /\ edit' = NoEdit
    /\ UNCHANGED <<kind, bus, filing, pageVars, banned, fails>>

\* The row keeps its deleted_at; queues and reads no longer find it.
DeleteVehicle(i) ==
    /\ row[i].st \in {"waiting", "yes", "no"}
    /\ row' = [row EXCEPT ![i].st = "deleted"]
    /\ UNCHANGED <<kind, bus, filing, edit, pageVars, banned, fails>>

\* The transporter's page vehicles.
VehiclesPage ==
    /\ kind = "vehicle"
    /\ (\E u \in Transporters : Submit(u)) \/ \E i \in Items : EditRead(i) \/ DeleteVehicle(i)

\* The AI's consumer: a report becomes UNDER_REVIEW, a KYC submission of
\* high risk MANUAL_REVIEW, whatever their status is by now.  It may fail,
\* and an event may be delivered again.
AiReviews(i) ==
    /\ bus[i] > 0
    /\ bus' = [bus EXCEPT ![i] = @ - 1]
    /\ \/ UNCHANGED row
       \/ row' = [row EXCEPT ![i].st = IF kind = "report" THEN "triaged" ELSE "waiting"]
    /\ UNCHANGED <<kind, filing, edit, pageVars, banned, fails>>

----------------------------------------------------------------------------
(* The admin's page: queue, modal, decision.                               *)

\* The items of the queue's SELECT that the page offers for review.  The
\* table of reports shows them all, with a button on the waiting ones.
Listed == With({"waiting"})

\* The page is opened, focused or paged; the SOS page asks every 10 s.  An
\* answer that changes nothing is left out.
Refetch(a) ==
    /\ fetch[a] = Nothing /\ Listed # list[a]
    /\ fetch' = [fetch EXCEPT ![a] = Answer(Listed)]
    /\ UNCHANGED <<kind, row, bus, filing, edit, list, selected, ask, banList, banned, fails>>

ListArrives(a) ==
    /\ fetch[a] # Nothing
    /\ list' = [list EXCEPT ![a] = fetch[a].items]
    /\ fetch' = [fetch EXCEPT ![a] = Nothing]
    /\ UNCHANGED <<kind, row, bus, filing, edit, selected, ask, banList, banned, fails>>

ListLost(a) ==
    /\ fetch[a] # Nothing /\ fails < MaxFails
    /\ fetch' = [fetch EXCEPT ![a] = Nothing]
    /\ fails' = fails + 1
    /\ UNCHANGED <<kind, row, bus, filing, edit, list, selected, ask, banList, banned>>

\* Review, Resolve, or the buttons of a vehicle's card.
Select(a, i) ==
    /\ selected[a] = 0 /\ i \in list[a]
    /\ selected' = [selected EXCEPT ![a] = i]
    /\ UNCHANGED <<kind, row, bus, filing, edit, list, fetch, ask, banList, banned, fails>>

\* Cancel or x.  A decision under way goes on.
CloseModal(a) ==
    /\ selected[a] # 0
    /\ selected' = [selected EXCEPT ![a] = 0]
    /\ UNCHANGED <<kind, row, bus, filing, edit, list, fetch, ask, banList, banned, fails>>

Decide(a, v) ==
    /\ selected[a] # 0 /\ ask[a].at = "idle"
    /\ ask' = [ask EXCEPT ![a] = [NoAsk EXCEPT !.at = "sent", !.id = selected[a], !.verdict = v]]
    /\ UNCHANGED <<kind, row, bus, filing, edit, list, fetch, selected, banList, banned, fails>>

AskSucceedsSilently(a) ==   \* mutant: no invalidateQueries
    /\ ask[a].at = "saved"
    /\ ask' = [ask EXCEPT ![a] = NoAsk]
    /\ selected' = [selected EXCEPT ![a] = 0]
    /\ UNCHANGED <<kind, row, bus, filing, edit, list, fetch, banList, banned, fails>>

\* The modal closes, whichever it is by now, and the queue is fetched again.
AskSucceeds(a) ==
    /\ ask[a].at = "saved"
    /\ ask' = [ask EXCEPT ![a] = NoAsk]
    /\ selected' = [selected EXCEPT ![a] = 0]
    /\ fetch' = [fetch EXCEPT ![a] = Answer(Listed)]
    /\ UNCHANGED <<kind, row, bus, filing, edit, list, banList, banned, fails>>

\* Refused, or the answer is lost: the error is shown, the modal stays.
AskFails(a) ==
    /\ \/ ask[a].at = "refused" /\ UNCHANGED fails
       \/ ask[a].at \in {"sent", "saved"} /\ fails < MaxFails /\ fails' = fails + 1
    /\ ask' = [ask EXCEPT ![a] = NoAsk]
    /\ UNCHANGED <<kind, row, bus, filing, edit, list, fetch, selected, banList, banned>>

----------------------------------------------------------------------------
(* The review at the server.                                               *)

ReadUnchecked(a) ==   \* mutant: "already reviewed" is not asked
    /\ ask[a].at = "sent"
    /\ ask' = [ask EXCEPT ![a].at = IF row[ask[a].id].st = "deleted" THEN "refused" ELSE "read",
                          ![a].was = row[ask[a].id].st]
    /\ UNCHANGED <<kind, row, bus, filing, edit, list, fetch, selected, banList, banned, fails>>

\* Only KYC and SOS refuse what was decided before.
Refused(i) ==
    \/ row[i].st = "deleted"
    \/ kind \in {"kyc", "sos"} /\ row[i].st \in Decided

ReviewRead(a) ==
    /\ ask[a].at = "sent"
    /\ ask' = [ask EXCEPT ![a].at = IF Refused(ask[a].id) THEN "refused" ELSE "read",
                          ![a].was = row[ask[a].id].st]
    /\ UNCHANGED <<kind, row, bus, filing, edit, list, fetch, selected, banList, banned, fails>>

ReviewSave(a) ==
    /\ ask[a].at = "read"
    /\ row' = [row EXCEPT ![ask[a].id].st = ask[a].verdict]
    /\ ask' = [ask EXCEPT ![a].at = "saved"]
    /\ UNCHANGED <<kind, bus, filing, edit, list, fetch, selected, banList, banned, fails>>

----------------------------------------------------------------------------
(* The ban queue of the reports page.                                      *)

Reporters(s) == {row[i].by : i \in With(s)}

CountedByReport ==   \* mutant: COUNT(reporter_id) without DISTINCT
    Cardinality(With({"waiting", "yes", "no"})) >= BanThreshold

\* The SELECT counts reporters of PENDING and RESOLVED reports.
UpForBan == Cardinality(Reporters({"waiting", "yes", "no"})) >= BanThreshold

BanQueueArrives(a) ==
    /\ banList' = IF UpForBan /\ ~banned THEN banList \cup {a} ELSE banList \ {a}
    /\ UNCHANGED <<kind, row, bus, filing, edit, list, fetch, selected, ask, banned, fails>>

\* With the admin's password.  The server does not count again.
ApproveBan(a) ==
    /\ a \in banList
    /\ banned' = TRUE
    /\ banList' = banList \ {a}
    /\ UNCHANGED <<kind, row, bus, filing, edit, list, fetch, selected, ask, fails>>

----------------------------------------------------------------------------

\* The four desks.  A card of the vehicles page has the buttons of a modal.
Queue(a) ==
    \/ Refetch(a) \/ ListArrives(a) \/ ListLost(a)
    \/ \E i \in Items : Select(a, i)

Modal(a) ==
    \/ CloseModal(a) \/ AskSucceeds(a) \/ AskFails(a)
    \/ \E v \in Decided : Decide(a, v)

KycQueue(a) == kind = "kyc" /\ Queue(a)
KycModal(a) == kind = "kyc" /\ Modal(a)
VehicleCards(a) == kind = "vehicle" /\ (Queue(a) \/ Modal(a))
SosQueue(a) == kind = "sos" /\ Queue(a)
SosModal(a) == kind = "sos" /\ Modal(a)
ReportsTable(a) == kind = "report" /\ Queue(a)
ReportModal(a) == kind = "report" /\ Modal(a)
BanQueue(a) == kind = "report" /\ (BanQueueArrives(a) \/ ApproveBan(a))

DeskNext ==
    \/ CustomerKyc \/ TransporterKyc \/ CustomerSos \/ TransporterSos
    \/ CustomerReport \/ TransporterReport \/ VehiclesPage
    \/ \E u \in filing : Create(u)
    \/ \E i \in Items : AiReviews(i)
    \/ EditSave
    \/ \E a \in Admins[kind] :
          \/ KycQueue(a) \/ VehicleCards(a) \/ SosQueue(a) \/ ReportsTable(a)
          \/ KycModal(a) \/ SosModal(a) \/ ReportModal(a)
          \/ BanQueue(a)
          \/ ReviewRead(a) \/ ReviewSave(a)

DeskSpec == DeskInit /\ [][DeskNext]_deskVars

NeverPolls(a) == FALSE   \* mutant: no refetchInterval

Polls(a) == kind = "sos" /\ a \in Admins[kind]

\* Requests are answered or fail, and the SOS page goes on polling.  That
\* users file, and admins look and decide, is not assumed.
FairDeskSpec ==
    /\ DeskSpec
    /\ \A a \in Staff :
          /\ WF_deskVars(ListArrives(a))
          /\ WF_deskVars(Polls(a) /\ Refetch(a))
          /\ WF_deskVars(ReviewRead(a) \/ ReviewSave(a))
          /\ WF_deskVars(AskSucceeds(a) \/ AskFails(a))

----------------------------------------------------------------------------
(* Properties.                                                             *)

\* A KYC or SOS decision changes, and a deleted vehicle comes back, only
\* by a request that read the row before (AdminReview, ResolveSOSAdmin,
\* UpdateVehicle and ReviewVehicle Save what they read), or by an event of
\* the AI that is delivered after the decision.
UndoneByOverlapOnly ==
    [][\A i \in Items :
          /\ row[i].st \in (IF kind \in {"kyc", "sos"} THEN Decided ELSE {"deleted"})
          /\ row'[i].st # row[i].st
          => \/ \E a \in Staff : /\ ask[a].at = "read" /\ ask[a].id = i
                                  /\ ask[a].was \notin Decided \cup {"deleted"}
             \/ kind = "vehicle" /\ \E a \in Staff : ask[a].at = "read" /\ ask[a].id = i
             \/ edit.id = i
             \/ bus'[i] < bus[i]]_deskVars

\* Who is banned from the ban queue was reported by BanThreshold different
\* people, although ApproveBan does not count and the queue it is clicked
\* in may be old.
BannedWasReported ==
    banned => Cardinality(Reporters(Statuses \ {"none"})) >= BanThreshold

\* An active alert shows up at every admin's SOS page, or is resolved.
AlertsReachDesks ==
    \A i \in Items, a \in Admins["sos"] :
        (kind = "sos" /\ row[i].st = "waiting")
            ~> (i \in list[a] \/ row[i].st # "waiting")

\* After a decision the admin is not offered the same item for ever: the
\* queue is fetched again, unless that answer is lost.
DecisionShows ==
    \A i \in Items, a \in Staff :
        (ask[a].at = "saved" /\ ask[a].id = i)
            ~> \/ i \in list[a] => row[i].st = "waiting"
               \/ fails > 0
=============================================================================
