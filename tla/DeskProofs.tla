----------------------------- MODULE DeskProofs -----------------------------
(***************************************************************************)
(* Two promises of ReviewDesk, for any number of users, rows, admins and   *)
(* failures: who is banned was reported often enough, and a decision is    *)
(* undone by a request that overlapped it, or by nothing.                  *)
(*                                                                         *)
(* Neither is inductive.  A ban is clicked in a list of some time ago, so  *)
(* the list must have been right and reports must not go away; a request   *)
(* saves what it found when it read, so the invariant says what it found.  *)
(***************************************************************************)
EXTENDS ReviewDesk, FiniteSetTheorems, TLAPS

Rows == [st : Statuses, by : Users \cup {Nobody}]

Asked == [at : {"idle", "sent", "read", "refused", "saved"}, id : {0} \cup Items,
          verdict : Decided, was : Statuses]

DeskShapes ==
    /\ kind \in Kinds
    /\ row \in [Items -> Rows]
    /\ bus \in [Items -> Nat]
    /\ filing \subseteq Users
    /\ list \in [Staff -> SUBSET Items]
    /\ fetch \in [Staff -> {Nothing} \cup {Answer(q) : q \in SUBSET Items}]
    /\ selected \in [Staff -> {0} \cup Items]
    /\ ask \in [Staff -> Asked]
    /\ \A a \in Staff : ask[a].at # "idle" => ask[a].id \in Items

\* What an edit, or a review that was not refused, found when it read.
ReadBefore ==
    /\ edit # NoEdit =>
          kind = "vehicle" /\ edit.id \in Items /\ edit.was \in {"waiting", "yes", "no"}
    /\ \A a \in Staff : ask[a].at = "read" =>
          /\ ask[a].was # "deleted"
          /\ kind \in {"kyc", "sos"} => ask[a].was \notin Decided

OnlyVehiclesGo == \A i \in Items : row[i].st = "deleted" => kind = "vehicle"

\* A list that offers the ban, and the ban, rest on reports that are there.
BanRests ==
    banned \/ banList # {}
        => Cardinality(Reporters(Statuses \ {"none"})) >= BanThreshold

DeskInv == DeskShapes /\ ReadBefore /\ OnlyVehiclesGo /\ BanRests

\* No row goes away or changes hands.
ReportsKept ==
    \A i \in Items : row[i].st # "none" => row'[i].st # "none" /\ row'[i].by = row[i].by

----------------------------------------------------------------------------
(* Reporters.                                                              *)

LEMMA ReportersAreFew ==
    ASSUME DeskShapes, NEW s
    PROVE  IsFiniteSet(Reporters(s)) /\ Cardinality(Reporters(s)) \in Nat
<1>1. IsFiniteSet(Users \cup {Nobody})
      BY DeskAssumption, FS_AddElement DEF Users
<1>2. Reporters(s) \in SUBSET (Users \cup {Nobody})
      BY DEF DeskShapes, Rows, Reporters, With
<1> QED BY <1>1, <1>2, FS_Subset, FS_CardinalityType

\* The reports that count for a ban are among all.
LEMMA UpForBanRests ==
    ASSUME DeskShapes, UpForBan
    PROVE  Cardinality(Reporters(Statuses \ {"none"})) >= BanThreshold
<1> DEFINE R == Reporters({"waiting", "yes", "no"})
           S == Reporters(Statuses \ {"none"})
<1>1. R \in SUBSET S
      BY DEF Reporters, With, Statuses, Decided
<1>2. IsFiniteSet(S) /\ Cardinality(S) \in Nat /\ Cardinality(R) \in Nat
      BY ReportersAreFew
<1>3. Cardinality(R) <= Cardinality(S)
      BY <1>1, <1>2, FS_Subset
<1>4. Cardinality(R) >= BanThreshold
      BY DEF UpForBan
<1>5. BanThreshold \in Nat
      BY DeskAssumption
<1> HIDE DEF R, S
<1> QED BY <1>2, <1>3, <1>4, <1>5 DEF S

LEMMA BanRestsStill ==
    ASSUME DeskShapes, DeskShapes', BanRests, ReportsKept, UNCHANGED <<banned, banList>>
    PROVE  BanRests'
<1> DEFINE R == Reporters(Statuses \ {"none"})
           S == R'
<1>1. R \in SUBSET S
      BY DEF DeskShapes, Rows, ReportsKept, Reporters, With
<1>2. IsFiniteSet(S) /\ Cardinality(S) \in Nat
  <2>1. S = {row'[i].by : i \in {j \in Items : row'[j].st \in Statuses \ {"none"}}}
        BY DEF Reporters, With
  <2>2. IsFiniteSet(Users \cup {Nobody})
        BY DeskAssumption, FS_AddElement DEF Users
  <2>3. S \in SUBSET (Users \cup {Nobody})
        BY <2>1 DEF DeskShapes, Rows
  <2> HIDE DEF S
  <2> QED BY <2>2, <2>3, FS_Subset, FS_CardinalityType
<1>3. Cardinality(R) \in Nat /\ Cardinality(R) <= Cardinality(S)
      BY <1>1, <1>2, FS_Subset, ReportersAreFew
<1>4. BanThreshold \in Nat
      BY DeskAssumption
<1>5. banned' \/ banList' # {} => Cardinality(R) >= BanThreshold
      BY DEF BanRests
<1> HIDE DEF R, S
<1>6. banned' \/ banList' # {} => Cardinality(S) >= BanThreshold
      BY <1>2, <1>3, <1>4, <1>5
<1> QED BY <1>6 DEF BanRests, R, S

----------------------------------------------------------------------------
(* The steps.                                                              *)

LEMMA DeskInitInv == DeskInit => DeskInv
<1> SUFFICES ASSUME DeskInit PROVE DeskInv
    OBVIOUS
<1>1. DeskShapes
      BY DEF DeskInit, DeskShapes, Rows, Asked, NoAsk, Statuses, Decided
<1>2. ReadBefore /\ OnlyVehiclesGo /\ BanRests
      BY DEF DeskInit, ReadBefore, OnlyVehiclesGo, BanRests, NoAsk
<1> QED BY <1>1, <1>2 DEF DeskInv

\* A row gets another status and keeps who filed it.
LEMMA StatusWritten ==
    ASSUME DeskShapes, NEW i \in Items, NEW s \in Statuses,
           row' = [row EXCEPT ![i].st = s]
    PROVE  /\ row' \in [Items -> Rows]
           /\ \A j \in Items : /\ row'[j].st = IF j = i THEN s ELSE row[j].st
                               /\ row'[j].by = row[j].by
           /\ s # "none" => ReportsKept
<1>1. row \in [Items -> Rows] /\ row[i] \in Rows
      BY DEF DeskShapes
<1>2. /\ [row[i] EXCEPT !.st = s] \in Rows
      /\ [row[i] EXCEPT !.st = s].st = s /\ [row[i] EXCEPT !.st = s].by = row[i].by
      BY <1>1 DEF Rows
<1>3. /\ row' \in [Items -> Rows] /\ row'[i] = [row[i] EXCEPT !.st = s]
      /\ \A j \in Items \ {i} : row'[j] = row[j]
      BY <1>1, <1>2
<1> QED BY <1>2, <1>3 DEF ReportsKept

\* A submission is checked, and its row created.
LEMMA FilingSteps ==
    ASSUME DeskInv, NEW u \in Users, Submit(u) \/ Create(u)
    PROVE  DeskShapes' /\ ReadBefore' /\ OnlyVehiclesGo' /\ ReportsKept
<1> USE DEF DeskInv, pageVars
<1>1. CASE Submit(u)
      BY <1>1 DEF Submit, DeskShapes, ReadBefore, OnlyVehiclesGo, ReportsKept
<1>2. CASE Create(u)
  <2>1. PICK j \in With({"none"}), s \in FirstStatus :
            row' = [row EXCEPT ![j] = [st |-> s, by |-> u]]
            /\ bus' = [bus EXCEPT ![j] = IF Announced(s) THEN MaxDeliveries ELSE 0]
        BY <1>2 DEF Create
  <2>2. /\ j \in Items /\ row[j].st = "none"
        /\ s \in {"processing", "waiting"} /\ MaxDeliveries \in Nat
        BY DeskAssumption DEF With, FirstStatus
  <2>3. [st |-> s, by |-> u] \in Rows
        BY <2>2 DEF Rows, Statuses
  <2>4. DeskShapes'
        BY <1>2, <2>1, <2>2, <2>3 DEF Create, DeskShapes
  <2>5. ReadBefore' /\ OnlyVehiclesGo' /\ ReportsKept
        BY <1>2, <2>1, <2>2 DEF Create, DeskShapes, ReadBefore, OnlyVehiclesGo, ReportsKept
  <2> QED BY <2>4, <2>5
<1> QED BY <1>1, <1>2

\* The owner's edits and deletions of a vehicle.
LEMMA VehicleSteps ==
    ASSUME DeskInv, NEW i \in Items, kind = "vehicle", EditRead(i) \/ DeleteVehicle(i)
    PROVE  DeskShapes' /\ ReadBefore' /\ OnlyVehiclesGo' /\ ReportsKept
<1> USE DEF DeskInv, pageVars
<1>1. CASE EditRead(i)
      BY <1>1 DEF EditRead, DeskShapes, ReadBefore, OnlyVehiclesGo, ReportsKept
<1>2. CASE DeleteVehicle(i)
  <2> DEFINE s == "deleted"
  <2>0. s \in Statuses /\ s # "none" /\ row' = [row EXCEPT ![i].st = s]
        BY <1>2 DEF DeleteVehicle, Statuses
  <2> HIDE DEF s
  <2>1. row' \in [Items -> Rows] /\ ReportsKept
        BY <2>0, StatusWritten
  <2>2. DeskShapes' /\ ReadBefore' /\ OnlyVehiclesGo'
        BY <1>2, <2>1 DEF DeleteVehicle, DeskShapes, ReadBefore, OnlyVehiclesGo
  <2> QED BY <2>1, <2>2
<1> QED BY <1>1, <1>2

LEMMA EditSaveStep ==
    ASSUME DeskInv, EditSave
    PROVE  DeskShapes' /\ ReadBefore' /\ OnlyVehiclesGo' /\ ReportsKept
<1> USE DEF DeskInv, pageVars
<1>1. /\ kind = "vehicle" /\ edit.id \in Items /\ edit.was \in Statuses \ {"none"}
      BY DEF EditSave, ReadBefore, Statuses, Decided
<1>2. row' \in [Items -> Rows] /\ ReportsKept
      BY <1>1, StatusWritten DEF EditSave
<1>3. DeskShapes' /\ ReadBefore' /\ OnlyVehiclesGo'
      BY <1>1, <1>2 DEF EditSave, DeskShapes, ReadBefore, OnlyVehiclesGo
<1> QED BY <1>2, <1>3

\* What the AI's consumer writes is a status of a row that was filed.
LEMMA AiSteps ==
    ASSUME DeskInv, NEW i \in Items, AiReviews(i)
    PROVE  DeskShapes' /\ ReadBefore' /\ OnlyVehiclesGo' /\ ReportsKept
<1> USE DEF DeskInv, pageVars
<1> DEFINE s == IF kind = "report" THEN "triaged" ELSE "waiting"
<1>1. bus' \in [Items -> Nat]
      BY DEF AiReviews, DeskShapes
<1>2. CASE UNCHANGED row
      BY <1>1, <1>2 DEF AiReviews, DeskShapes, ReadBefore, OnlyVehiclesGo, ReportsKept
<1>3. CASE row' = [row EXCEPT ![i].st = s]
  <2>1. s \in Statuses \ {"none", "deleted"}
        BY DEF Statuses
  <2> HIDE DEF s
  <2>2. /\ row' \in [Items -> Rows] /\ ReportsKept
        /\ \A j \in Items : row'[j].st = IF j = i THEN s ELSE row[j].st
        BY <1>3, <2>1, StatusWritten
  <2>3. DeskShapes' /\ ReadBefore' /\ OnlyVehiclesGo'
        BY <1>1, <2>1, <2>2 DEF AiReviews, DeskShapes, ReadBefore, OnlyVehiclesGo
  <2> QED BY <2>2, <2>3
<1> QED BY <1>2, <1>3 DEF AiReviews

\* What an admin's page does: it changes no row.
LEMMA PageSteps ==
    ASSUME DeskInv, NEW a \in Staff, Queue(a) \/ Modal(a)
    PROVE  DeskShapes' /\ ReadBefore' /\ OnlyVehiclesGo' /\ ReportsKept
<1> USE DEF DeskInv
<1>1. Listed \in SUBSET Items
      BY DEF Listed, With
<1>2. Answer(Listed) \in {Answer(q) : q \in SUBSET Items}
      BY <1>1
<1>3. NoAsk \in Asked /\ NoAsk.at = "idle"
      BY DEF NoAsk, Asked, Statuses, Decided
<1>4. ASSUME UNCHANGED <<kind, row, bus, filing, edit, ask>>, DeskShapes'
      PROVE  DeskShapes' /\ ReadBefore' /\ OnlyVehiclesGo' /\ ReportsKept
      BY <1>4 DEF ReadBefore, OnlyVehiclesGo, ReportsKept
<1>5. ASSUME UNCHANGED <<kind, row, bus, filing, edit>>, DeskShapes',
             NEW r, ask' = [ask EXCEPT ![a] = r], r.at # "read"
      PROVE  DeskShapes' /\ ReadBefore' /\ OnlyVehiclesGo' /\ ReportsKept
      BY <1>5 DEF DeskShapes, ReadBefore, OnlyVehiclesGo, ReportsKept
<1>6. CASE Refetch(a)
  <2>1. DeskShapes'
        BY <1>2, <1>6 DEF Refetch, DeskShapes
  <2> QED BY <1>4, <1>6, <2>1 DEF Refetch
<1>7. CASE ListArrives(a)
  <2>1. fetch[a] \in {Answer(q) : q \in SUBSET Items}
        BY <1>7 DEF ListArrives, DeskShapes
  <2>2. PICK q \in SUBSET Items : fetch[a] = Answer(q)
        BY <2>1
  <2>3. fetch[a].items \in SUBSET Items
        BY <2>2 DEF Answer
  <2>4. DeskShapes'
        BY <1>7, <2>3 DEF ListArrives, DeskShapes
  <2> QED BY <1>4, <1>7, <2>4 DEF ListArrives
<1>8. CASE ListLost(a)
  <2>1. DeskShapes'
        BY <1>8 DEF ListLost, DeskShapes
  <2> QED BY <1>4, <1>8, <2>1 DEF ListLost
<1>9. ASSUME NEW i \in Items, Select(a, i)
      PROVE  DeskShapes' /\ ReadBefore' /\ OnlyVehiclesGo' /\ ReportsKept
  <2>1. DeskShapes'
        BY <1>9 DEF Select, DeskShapes
  <2> QED BY <1>4, <1>9, <2>1 DEF Select
<1>10. CASE CloseModal(a)
  <2>1. DeskShapes'
        BY <1>10 DEF CloseModal, DeskShapes
  <2> QED BY <1>4, <1>10, <2>1 DEF CloseModal
<1>11. ASSUME NEW v \in Decided, Decide(a, v)
       PROVE  DeskShapes' /\ ReadBefore' /\ OnlyVehiclesGo' /\ ReportsKept
  <2> DEFINE r == [NoAsk EXCEPT !.at = "sent", !.id = selected[a], !.verdict = v]
  <2>2. selected[a] \in Items
        BY <1>11 DEF Decide, DeskShapes
  <2>3. r \in Asked /\ r.id \in Items /\ r.at = "sent"
        BY <1>3, <1>11, <2>2 DEF Asked
  <2>4. ask' = [ask EXCEPT ![a] = r]
        BY <1>11 DEF Decide
  <2> HIDE DEF r
  <2>5. DeskShapes'
        BY <1>11, <2>3, <2>4 DEF Decide, DeskShapes
  <2> QED BY <1>5, <1>11, <2>3, <2>4, <2>5 DEF Decide
<1>12. CASE AskSucceeds(a)
  <2>1. DeskShapes'
        BY <1>2, <1>3, <1>12 DEF AskSucceeds, DeskShapes
  <2> QED BY <1>3, <1>5, <1>12, <2>1 DEF AskSucceeds
<1>13. CASE AskFails(a)
  <2>1. DeskShapes'
        BY <1>3, <1>13 DEF AskFails, DeskShapes
  <2> QED BY <1>3, <1>5, <1>13, <2>1 DEF AskFails
<1> QED BY <1>6, <1>7, <1>8, <1>9, <1>10, <1>11, <1>12, <1>13 DEF Queue, Modal

\* A review at the server.
LEMMA ReviewSteps ==
    ASSUME DeskInv, NEW a \in Staff, ReviewRead(a) \/ ReviewSave(a)
    PROVE  DeskShapes' /\ ReadBefore' /\ OnlyVehiclesGo' /\ ReportsKept
<1> USE DEF DeskInv
<1>1. CASE ReviewRead(a)
  <2> DEFINE i == ask[a].id
             r == [ask[a] EXCEPT !.at = IF Refused(i) THEN "refused" ELSE "read",
                                 !.was = row[i].st]
  <2>1. i \in Items /\ ask[a] \in Asked /\ row[i].st \in Statuses
        BY <1>1 DEF ReviewRead, DeskShapes, Rows
  <2>2. /\ r \in Asked /\ r.id = i /\ r.was = row[i].st
        /\ r.at \in {"refused", "read"} /\ (r.at = "read" => ~Refused(i))
        BY <2>1 DEF Asked
  <2>3. ask' = [ask EXCEPT ![a] = r]
        BY <1>1, <2>1 DEF ReviewRead, DeskShapes
  <2> HIDE DEF r
  <2>4. DeskShapes'
        BY <1>1, <2>1, <2>2, <2>3 DEF ReviewRead, DeskShapes
  <2>5. ReadBefore'
        BY <1>1, <2>1, <2>2, <2>3 DEF ReviewRead, DeskShapes, ReadBefore, Refused
  <2>6. OnlyVehiclesGo' /\ ReportsKept
        BY <1>1 DEF ReviewRead, OnlyVehiclesGo, ReportsKept
  <2> QED BY <2>4, <2>5, <2>6
<1>2. CASE ReviewSave(a)
  <2>1. ask[a] \in Asked /\ ask[a].verdict \in Decided /\ ask[a].id \in Items
        BY <1>2 DEF ReviewSave, DeskShapes, Asked
  <2>2. [ask[a] EXCEPT !.at = "saved"] \in Asked
        BY <2>1 DEF Asked
  <2> DEFINE i == ask[a].id
             s == ask[a].verdict
  <2>9. /\ i \in Items /\ s \in Statuses /\ s \in Decided /\ s # "none"
        /\ row' = [row EXCEPT ![i].st = s]
        BY <1>2, <2>1 DEF ReviewSave, Statuses, Decided
  <2> HIDE DEF i, s
  <2>3. /\ row' \in [Items -> Rows] /\ ReportsKept
        /\ \A j \in Items : row'[j].st = IF j = i THEN s ELSE row[j].st
        BY <2>9, StatusWritten
  <2>4. ask' = [ask EXCEPT ![a] = [ask[a] EXCEPT !.at = "saved"]]
        BY <1>2 DEF ReviewSave, DeskShapes
  <2>5. DeskShapes'
        BY <1>2, <2>1, <2>2, <2>3, <2>4 DEF ReviewSave, DeskShapes, Asked
  <2>6. ReadBefore'
        BY <1>2, <2>1, <2>4 DEF ReviewSave, DeskShapes, ReadBefore, Asked
  <2>7. OnlyVehiclesGo'
        BY <1>2, <2>9, <2>3 DEF ReviewSave, OnlyVehiclesGo, Decided
  <2> QED BY <2>3, <2>5, <2>6, <2>7
<1> QED BY <1>1, <1>2

LEMMA BanSteps ==
    ASSUME DeskInv, NEW a \in Staff, BanQueueArrives(a) \/ ApproveBan(a)
    PROVE  DeskInv'
<1> USE DEF DeskInv
<1>1. UNCHANGED <<kind, row, bus, filing, edit, list, fetch, selected, ask>>
      BY DEF BanQueueArrives, ApproveBan
<1>2. DeskShapes' /\ ReadBefore' /\ OnlyVehiclesGo'
      BY <1>1 DEF DeskShapes, ReadBefore, OnlyVehiclesGo
<1>3. Reporters(Statuses \ {"none"})' = Reporters(Statuses \ {"none"})
      BY <1>1 DEF Reporters, With
<1>4. BanRests'
      BY <1>3, UpForBanRests DEF BanQueueArrives, ApproveBan, BanRests
<1> QED BY <1>2, <1>4

\* A step is one of the users, the AI, a page, a review or the ban queue.
LEMMA StepsOfTheDesk ==
    ASSUME DeskInv, DeskNext
    PROVE  \/ \E u \in Users : Submit(u) \/ Create(u)
           \/ \E i \in Items : AiReviews(i)
           \/ kind = "vehicle" /\ \E i \in Items : EditRead(i) \/ DeleteVehicle(i)
           \/ EditSave
           \/ \E a \in Staff : Queue(a) \/ Modal(a) \/ ReviewRead(a) \/ ReviewSave(a)
                                  \/ BanQueueArrives(a) \/ ApproveBan(a)
<1>1. Admins[kind] \subseteq Staff
      BY DEF DeskInv, DeskShapes, Staff
<1>2. Customers \subseteq Users /\ Transporters \subseteq Users /\ filing \subseteq Users
      BY DEF DeskInv, DeskShapes, Users
<1> QED
    BY <1>1, <1>2 DEF DeskNext, CustomerKyc, TransporterKyc, CustomerSos, TransporterSos,
       CustomerReport, TransporterReport, VehiclesPage, KycQueue, VehicleCards, SosQueue,
       ReportsTable, KycModal, SosModal, ReportModal, BanQueue

LEMMA DeskStepInv == DeskInv /\ [DeskNext]_deskVars => DeskInv'
<1> SUFFICES ASSUME DeskInv, [DeskNext]_deskVars PROVE DeskInv'
    OBVIOUS
<1>1. ASSUME DeskShapes', ReadBefore', OnlyVehiclesGo', ReportsKept,
             UNCHANGED <<banned, banList>>
      PROVE  DeskInv'
      BY <1>1, BanRestsStill DEF DeskInv
<1>2. CASE UNCHANGED deskVars
      BY <1>1, <1>2 DEF DeskInv, deskVars, pageVars, DeskShapes, ReadBefore, OnlyVehiclesGo,
         ReportsKept
<1>3. ASSUME NEW u \in Users, Submit(u) \/ Create(u) PROVE DeskInv'
      BY <1>1, <1>3, FilingSteps DEF Submit, Create, pageVars
<1>4. ASSUME NEW i \in Items, kind = "vehicle", EditRead(i) \/ DeleteVehicle(i)
      PROVE  DeskInv'
      BY <1>1, <1>4, VehicleSteps DEF EditRead, DeleteVehicle, pageVars
<1>5. ASSUME NEW i \in Items, AiReviews(i) PROVE DeskInv'
      BY <1>1, <1>5, AiSteps DEF AiReviews, pageVars
<1>6. CASE EditSave
      BY <1>1, <1>6, EditSaveStep DEF EditSave, pageVars
<1>7. ASSUME NEW a \in Staff, Queue(a) \/ Modal(a) PROVE DeskInv'
  <2>1. UNCHANGED <<banned, banList>>
        BY <1>7 DEF Queue, Modal, Refetch, ListArrives, ListLost, Select, CloseModal, Decide,
           AskSucceeds, AskFails
  <2> QED BY <1>1, <1>7, <2>1, PageSteps
<1>8. ASSUME NEW a \in Staff, ReviewRead(a) \/ ReviewSave(a) PROVE DeskInv'
      BY <1>1, <1>8, ReviewSteps DEF ReviewRead, ReviewSave
<1> QED
    BY <1>2, <1>3, <1>4, <1>5, <1>6, <1>7, <1>8, BanSteps, StepsOfTheDesk

----------------------------------------------------------------------------
(* The theorems.                                                           *)

\* Rows, the pages' copies of them, and what reviews and edits read.
THEOREM DeskInvariant == DeskSpec => []DeskInv
BY DeskInitInv, DeskStepInv, PTL DEF DeskSpec

\* Whoever is banned from the queue was reported by BanThreshold people, of
\* whatever age the queue was that showed him (report/service.go, GetBanQueue
\* and ApproveBan).
THEOREM BansRestOnReports == DeskSpec => []BannedWasReported
<1>1. DeskInv => BannedWasReported
      BY DEF DeskInv, BanRests, BannedWasReported
<1> QED BY <1>1, DeskInvariant, PTL

\* A decision of KYC or SOS is undone, and a deleted vehicle back, only by
\* the Save of a request that read before, or a late event of the AI.
THEOREM OverlapUndoes == DeskSpec => UndoneByOverlapOnly
<1>1. ASSUME DeskInv, [DeskNext]_deskVars, NEW i \in Items,
             row[i].st \in (IF kind \in {"kyc", "sos"} THEN Decided ELSE {"deleted"}),
             row'[i].st # row[i].st
      PROVE  \/ \E a \in Staff : /\ ask[a].at = "read" /\ ask[a].id = i
                                 /\ ask[a].was \notin Decided \cup {"deleted"}
             \/ kind = "vehicle" /\ \E a \in Staff : ask[a].at = "read" /\ ask[a].id = i
             \/ edit.id = i
             \/ bus'[i] < bus[i]
  <2> USE DEF DeskInv
  <2>1. row[i].st \in {"yes", "no", "deleted"}
        BY <1>1 DEF Decided
  <2>2. CASE UNCHANGED row
        BY <1>1, <2>2
  <2>3. ASSUME NEW u \in Users, Create(u) PROVE FALSE
        BY <1>1, <2>1, <2>3 DEF Create, With, DeskShapes
  <2>4. ASSUME NEW j \in Items, AiReviews(j), j = i PROVE bus'[i] < bus[i]
        BY <1>1, <2>4 DEF AiReviews, DeskShapes
  <2>5. ASSUME NEW j \in Items, AiReviews(j) PROVE j = i
        BY <1>1, <2>5 DEF AiReviews, DeskShapes
  <2>6. ASSUME NEW j \in Items, kind = "vehicle", DeleteVehicle(j) PROVE FALSE
        BY <1>1, <2>6 DEF DeleteVehicle, DeskShapes
  <2>7. CASE EditSave
        BY <1>1, <2>7 DEF EditSave, DeskShapes
  <2>8. ASSUME NEW a \in Staff, ReviewSave(a)
        PROVE  /\ ask[a].at = "read" /\ ask[a].id = i
               /\ kind = "vehicle" \/ ask[a].was \notin Decided \cup {"deleted"}
    <3>1. ask[a].at = "read" /\ ask[a].id = i
          BY <1>1, <2>8 DEF ReviewSave, DeskShapes
    <3>2. kind = "vehicle" \/ kind \in {"kyc", "sos"}
          BY <1>1 DEF OnlyVehiclesGo
    <3> QED BY <1>1, <3>1, <3>2 DEF ReadBefore
  <2>9. ASSUME NEW a \in Staff, Queue(a) \/ Modal(a) \/ ReviewRead(a)
                                  \/ BanQueueArrives(a) \/ ApproveBan(a)
        PROVE  UNCHANGED row
        BY <2>9 DEF Queue, Modal, Refetch, ListArrives, ListLost, Select, CloseModal, Decide,
           AskSucceeds, AskFails, ReviewRead, BanQueueArrives, ApproveBan
  <2>10. ASSUME NEW u \in Users, Submit(u) PROVE UNCHANGED row
        BY <2>10 DEF Submit
  <2>11. ASSUME NEW j \in Items, EditRead(j) PROVE UNCHANGED row
        BY <2>11 DEF EditRead
  <2>12. CASE UNCHANGED deskVars
        BY <2>2, <2>12 DEF deskVars
  <2> QED
    BY <1>1, <2>2, <2>3, <2>4, <2>5, <2>6, <2>7, <2>8, <2>9, <2>10, <2>11, <2>12,
       StepsOfTheDesk
<1>2. DeskInv /\ [DeskNext]_deskVars =>
        [\A i \in Items :
          /\ row[i].st \in (IF kind \in {"kyc", "sos"} THEN Decided ELSE {"deleted"})
          /\ row'[i].st # row[i].st
          => \/ \E a \in Staff : /\ ask[a].at = "read" /\ ask[a].id = i
                                  /\ ask[a].was \notin Decided \cup {"deleted"}
             \/ kind = "vehicle" /\ \E a \in Staff : ask[a].at = "read" /\ ask[a].id = i
             \/ edit.id = i
             \/ bus'[i] < bus[i]]_deskVars
      BY <1>1
<1> QED BY <1>2, DeskInvariant, PTL DEF DeskSpec, UndoneByOverlapOnly
=============================================================================
