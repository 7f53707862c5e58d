-------------------------- MODULE BookingInvariant --------------------------
(***************************************************************************)
(* The inductive invariant behind ExclusiveClaim, LawfulSteps and the      *)
(* refinement of JobOffer.  ExclusiveClaim says nothing of the copies that *)
(* requests still hold, so it is not inductive: one stale copy without a   *)
(* transporter, saved late, would undo a claim.  The parts below say which *)
(* copies can exist at all.                                                *)
(***************************************************************************)
EXTENDS BookingLifecycle

(* h still has a compare-and-swap to try on b, or a copy of b to save. *)
Comparing(h, b) == req[h].booking = b /\ req[h].pc \in {"count", "claim", "cas"}
Saving(h, b) == req[h].booking = b /\ req[h].pc = "save"
Holding(h, b) == Comparing(h, b) \/ Saving(h, b)

UnderWay == {"PICKING_UP", "IN_TRANSIT", "COMPLETED", "DISPUTED"}

(* A version names one state of the protocol: on a row nobody wrote at a   *)
(* version he had not compared, a copy is never ahead of the row, and one  *)
(* at the row's version has the row's status and transporter.              *)
VersionNamesState(b) ==
  b \notin unguarded =>
    \A h \in Handlers : Holding(h, b) =>
      /\ req[h].copy.version <= row[b].version
      /\ req[h].copy.version = row[b].version =>
           /\ req[h].copy.status = row[b].status
           /\ req[h].copy.transporter = row[b].transporter

(* What the validations established of a copy, until it is used.  *)
CopyValidated(b) ==
  \A h \in Handlers : req[h].booking = b =>
    /\ req[h].pc = "cas" =>
         /\ \/ req[h].to \in ValidTransitions[req[h].copy.status]
            \/ req[h].copy.status = "ACCEPTED" /\ req[h].to = "IN_TRANSIT"
         /\ req[h].copy.transporter = None => req[h].to \notin UnderWay
    /\ req[h].pc = "save" =>
         (req[h].copy.transporter = None => req[h].copy.status = "CANCELLED")

(* A row that was never inserted has no version, and nobody holds a copy. *)
AbsentIsUnread(b) ==
  row[b].status = "NONE" =>
    /\ row[b].version = 0
    /\ \A h \in Handlers : ~Holding(h, b)

(* An assigned booking is not on offer, in the table or in a copy. *)
AssignedIsClosed(b) ==
  /\ row[b].transporter # None => row[b].status \notin Open \cup {"NONE"}
  /\ \A h \in Handlers :
       (Holding(h, b) /\ req[h].copy.transporter # None)
         => req[h].copy.status \notin Open \cup {"NONE"}

(* A booking under way has a transporter: UnderWayHasTransporter, of b. *)
Carried(b) == row[b].status \in UnderWay => row[b].transporter # None

(* A copy carries the row's transporter or predates the assignment. *)
CopiesAgree(b) ==
  \A h \in Handlers :
    Holding(h, b) => req[h].copy.transporter \in {None, row[b].transporter}

(* Of an assigned booking, a copy that predates the assignment is older    *)
(* than the row and than every copy that has the transporter, and is only  *)
(* compared, never saved.                                                  *)
OldCopiesLose(b) ==
  \A h \in Handlers :
    (row[b].transporter # None /\ Holding(h, b) /\ req[h].copy.transporter = None) =>
      /\ ~Saving(h, b)
      /\ req[h].copy.version < row[b].version
      /\ \A g \in Handlers :
           (Holding(g, b) /\ req[g].copy.transporter # None)
             => req[h].copy.version < req[g].copy.version

(* Before the assignment no copy is ahead of the row, and a copy waits to  *)
(* be saved only for a cancellation, which is over for everybody else.     *)
UnassignedOrder(b) ==
  row[b].transporter = None =>
    /\ \A h \in Handlers : Holding(h, b) => req[h].copy.version <= row[b].version
    /\ \A h \in Handlers : Saving(h, b) =>
         /\ row[b].status = "CANCELLED"
         /\ req[h].copy.version = row[b].version
         /\ \A g \in Handlers :
              Comparing(g, b) => req[g].copy.version < row[b].version

(* The transporters told that they won are those in the row: none or one. *)
ClaimantsAreHolder(b) == claimants[b] \subseteq {row[b].transporter} \ {None}

(* The invariant speaks of one booking at a time, so that it still holds   *)
(* of every other booking when something outside the protocol spoils one.  *)
RowInv(b) ==
  /\ VersionNamesState(b)
  /\ CopyValidated(b)
  /\ AbsentIsUnread(b)
  /\ AssignedIsClosed(b)
  /\ Carried(b)
  /\ CopiesAgree(b)
  /\ OldCopiesLose(b)
  /\ UnassignedOrder(b)
  /\ ClaimantsAreHolder(b)

IInv == TypeOK /\ \A b \in Bookings : RowInv(b)

(* Photos in the row or in a copy were uploaded, and whoever is about to   *)
(* complete a booking in transit has seen them in his copy: what           *)
(* CompletedWasPhotographed needs of requests.                             *)
PhotosRecorded ==
  /\ \A b \in Bookings : row[b].photos => b \in photographed
  /\ \A h \in Handlers : req[h].pc # "idle" =>
       /\ req[h].copy.photos => req[h].booking \in photographed
       /\ (req[h].pc = "cas" /\ req[h].to = "COMPLETED" /\ req[h].copy.status = "IN_TRANSIT")
            => req[h].copy.photos

(* Behind CancellationsCountedOnce: a request that has cancelled a booking *)
(* and not counted it yet is the only one to have done so, and the booking *)
(* is cancelled and counted for nobody.                                    *)
Uncounted(h) ==
  \/ req[h].pc = "save" /\ req[h].to = "CANCELLED"
  \/ req[h].pc = "tally"

CountsApart(by) ==
  /\ \A u \in Users : IsFiniteSet(Counted(u, by))
  /\ \A h \in Handlers : Uncounted(h) =>
       /\ row[req[h].booking].status = "CANCELLED"
       /\ by[req[h].booking] = None
       /\ \A g \in Handlers : Uncounted(g) /\ req[g].booking = req[h].booking => g = h

CountInv ==
  unguarded = {} =>
    \E by \in [Bookings -> Users \cup {None}] : CountedBy(by) /\ CountsApart(by)

(* Without the sweep, a booking nobody took was only written at versions   *)
(* that were compared: what the refinement needs of closed bookings.       *)
UnassignedIsGuarded ==
  "sweep" \notin Ops =>
    /\ sweep = {}
    /\ \A b \in Bookings : row[b].transporter = None => b \notin unguarded

-----------------------------------------------------------------------------
(* The refinement mapping: the versions, copies and statuses of a booking  *)
(* implement a job that is offered, then taken once or withdrawn.          *)
offerBar ==
  [b \in Bookings |->
     IF row[b].status = "NONE" THEN "absent"
     ELSE IF row[b].status \in Open THEN "open" ELSE "closed"]

holderBar == [b \in Bookings |-> row[b].transporter]

Job == INSTANCE JobOffer WITH offer <- offerBar, holder <- holderBar

(* Every behaviour of the HTTP requests, stale Saves included, is one of   *)
(* JobOffer: a job is won once, never changes hands, never reopens.        *)
JobOfferSpec == Job!Spec
=============================================================================
