-------------------------- MODULE BookingLifecycle --------------------------
(***************************************************************************)
(* The booking row of Postgres and the concurrent HTTP requests that move  *)
(* it through its life: internal/booking (service.go, repository.go), with *)
(* the scheduler's expireStaleBookings.                                    *)
(*                                                                         *)
(* Every request runs on a goroutine of its own and talks to the database  *)
(* in separate round trips: it reads the row into a struct (the `copy`),   *)
(* validates the copy, then writes.  Three kinds of write exist:           *)
(*   - a compare-and-swap on (id, version) (Cas, Claim);                   *)
(*   - an update of named columns, whatever the version is (WriteOtp,      *)
(*     WritePhotos, SweepWrite);                                           *)
(*   - gorm's Save, which writes EVERY column of the copy back, whatever   *)
(*     the version is (Save).                                              *)
(* A request that fails a validation returns with nothing changed, so only *)
(* requests that pass it are started here.  `Ops` names the operations of  *)
(* the workload.                                                           *)
(***************************************************************************)
EXTENDS Integers, FiniteSets

CONSTANTS
  Bookings,      \* rows of the bookings table
  Transporters,  \* users with the TRANSPORTER role
  Customer,      \* the customer of a booking, the other participant
  None,          \* a NULL transporter_id, or no booking
  Handlers,      \* goroutines serving requests, of all gateway instances
  Ops,           \* the operations the workload contains
  MaxActive,     \* active bookings a transporter may hold (3 in the code)
  MaxVersion,    \* bound of the model: no request starts a transition here
  MaxTally       \* bound of the model: no user cancels more often than this

AllOps == {"accept", "status", "flag", "photos", "pickup", "complete", "sweep"}

ASSUME ConstantsAssumption ==
  /\ Customer \notin Transporters
  /\ None \notin Transporters \cup {Customer}
  /\ None \notin Bookings
  /\ Ops \subseteq AllOps
  /\ MaxActive \in Nat \ {0}
  /\ MaxVersion \in Nat \ {0}
  /\ MaxTally \in Nat \ {0}

VARIABLES
  row,           \* the bookings table
  req,           \* the request each handler is serving
  sweep,         \* what expireStaleBookings has read and not yet written
  cancellations, \* users.cancellation_count
  claimants,     \* history: transporters told that they got the booking
  photographed,  \* history: bookings delivery photos were uploaded for
  unguarded      \* history: bookings written at a version nobody compared

vars == <<row, req, sweep, cancellations, claimants, photographed, unguarded>>

Users == Transporters \cup {Customer}
Open == {"PENDING", "BIDDING"}
Active == {"ACCEPTED", "PICKING_UP", "IN_TRANSIT"}
Statuses == Open \cup Active \cup {"COMPLETED", "CANCELLED", "DISPUTED"}

(* validTransitions of service.go; CANCELLED has no entry. *)
ValidTransitions ==
  [s \in Statuses \cup {"NONE"} |->
     CASE s = "PENDING"    -> {"BIDDING", "ACCEPTED", "CANCELLED"}
       [] s = "BIDDING"    -> {"ACCEPTED", "CANCELLED"}
       [] s = "ACCEPTED"   -> {"PICKING_UP", "CANCELLED"}
       [] s = "PICKING_UP" -> {"IN_TRANSIT", "CANCELLED"}
       [] s = "IN_TRANSIT" -> {"COMPLETED", "DISPUTED"}
       [] s = "COMPLETED"  -> {"DISPUTED"}
       [] s = "DISPUTED"   -> {"COMPLETED"}
       [] OTHER            -> {}]

(* What the payment component writes into payment_status. *)
PaymentStatuses == {"UNPAID", "ESCROWED", "FAILED", "RELEASED"}

(* The columns a decision reads.  A row that does not exist yet is NONE. *)
Row ==
  [status      : Statuses \cup {"NONE"},
   version     : Nat,
   transporter : Transporters \cup {None},
   bidding     : BOOLEAN,     \* bidding_enabled
   otp         : BOOLEAN,     \* pickup_otp is set
   photos      : BOOLEAN,     \* delivery_photos is set
   mismatch    : BOOLEAN,     \* goods_mismatch
   completed   : BOOLEAN,     \* completed_at is set
   payment     : PaymentStatuses,  \* payment_status
   released    : BOOLEAN]     \* escrow_release_at is set

NoRow == [status |-> "NONE", version |-> 0, transporter |-> None,
          bidding |-> FALSE, otp |-> FALSE, photos |-> FALSE,
          mismatch |-> FALSE, completed |-> FALSE, payment |-> "UNPAID",
          released |-> FALSE]

Steps == {"idle", "count", "claim", "otp", "cas", "save", "tally", "photos"}

Request ==
  [op      : AllOps \cup {"none"},
   pc      : Steps,
   booking : Bookings \cup {None},
   by      : Users \cup {None},
   to      : Statuses \cup {"NONE"},
   copy    : Row]

Idle == [op |-> "none", pc |-> "idle", booking |-> None, by |-> None,
         to |-> "NONE", copy |-> NoRow]

TypeOK ==
  /\ row \in [Bookings -> Row]
  /\ req \in [Handlers -> Request]
  /\ \A h \in Handlers : req[h].pc # "idle" => req[h].booking \in Bookings
  /\ \A h \in Handlers : req[h].pc # "idle" => req[h].by \in Users
  /\ \A h \in Handlers : req[h].pc \in {"count", "claim"} => req[h].by \in Transporters
  /\ sweep \subseteq Bookings
  /\ cancellations \in [Users -> Nat]
  /\ claimants \in [Bookings -> SUBSET Transporters]
  /\ photographed \subseteq Bookings
  /\ unguarded \subseteq Bookings

Init ==
  /\ row = [b \in Bookings |-> NoRow]
  /\ req = [h \in Handlers |-> Idle]
  /\ sweep = {}
  /\ cancellations = [u \in Users |-> 0]
  /\ claimants = [b \in Bookings |-> {}]
  /\ photographed = {}
  /\ unguarded = {}

-----------------------------------------------------------------------------
(* Create: one INSERT.  A booking with bidding enabled starts in BIDDING.   *)
Create(b) ==
  /\ row[b].status = "NONE"
  /\ \E bidding \in BOOLEAN :
       row' = [row EXCEPT ![b] =
                 [NoRow EXCEPT !.status = IF bidding THEN "BIDDING" ELSE "PENDING",
                               !.version = 1,
                               !.bidding = bidding]]
  /\ UNCHANGED <<req, sweep, cancellations, claimants, photographed, unguarded>>

-----------------------------------------------------------------------------
(* The read of a request that passed its validations.                      *)
Start(h, op, pc, b, by, to) ==
  /\ op \in Ops
  /\ req[h] = Idle
  /\ req' = [req EXCEPT ![h] = [op |-> op, pc |-> pc, booking |-> b,
                                by |-> by, to |-> to, copy |-> row[b]]]
  /\ UNCHANGED <<row, sweep, cancellations, claimants, photographed, unguarded>>

Finish(h) == req' = [req EXCEPT ![h] = Idle]
Goto(h, pc) == req' = [req EXCEPT ![h].pc = pc]

Participants(b) == {Customer} \cup ({row[b].transporter} \ {None})

(* WHERE version = ?: the row still has the version the handler read. *)
FreshIgnored(h) == TRUE   \* mutant: WHERE id = ? alone
Fresh(h) == row[req[h].booking].version = req[h].copy.version

-----------------------------------------------------------------------------
(* AcceptBooking: read; then a READ COMMITTED transaction that counts the  *)
(* caller's active bookings and then claims the row; then the pickup OTP,  *)
(* outside the transaction.                                                *)
OpenToAccept(b) ==
  /\ row[b].status \in Open
  /\ ~(row[b].status = "BIDDING" /\ row[b].bidding)

AcceptRead(h, b, t) ==
  /\ row[b].version < MaxVersion
  /\ OpenToAccept(b)
  /\ Start(h, "accept", "count", b, t, "ACCEPTED")

ActiveOf(t) == {b \in Bookings : row[b].transporter = t /\ row[b].status \in Active}

AcceptCount(h) ==
  /\ req[h].pc = "count"
  /\ IF Cardinality(ActiveOf(req[h].by)) >= MaxActive
       THEN Finish(h)
       ELSE Goto(h, "claim")
  /\ UNCHANGED <<row, sweep, cancellations, claimants, photographed, unguarded>>

ClaimableById(h) == TRUE   \* mutant: WHERE id = ? alone
Claimable(h) == Fresh(h) /\ row[req[h].booking].status \in Open

AcceptClaim(h) ==
  LET b == req[h].booking IN
  /\ req[h].pc = "claim"
  /\ IF Claimable(h)
       THEN /\ row' = [row EXCEPT ![b].transporter = req[h].by,
                                  ![b].status = "ACCEPTED",
                                  ![b].version = req[h].copy.version + 1]
            /\ claimants' = [claimants EXCEPT ![b] = @ \cup {req[h].by}]
            /\ Goto(h, "otp")
       ELSE Finish(h) /\ UNCHANGED <<row, claimants>>
  /\ UNCHANGED <<sweep, cancellations, photographed, unguarded>>

WriteOtp(h) ==
  /\ req[h].pc = "otp"
  /\ row' = [row EXCEPT ![req[h].booking].otp = TRUE]
  /\ Finish(h)
  /\ UNCHANGED <<sweep, cancellations, claimants, photographed, unguarded>>

-----------------------------------------------------------------------------
(* The requests that change the status by compare-and-swap and then Save.  *)

(* UpdateStatus: who may ask for which status. *)
RoleAllowsParticipant(b, u, to) ==   \* mutant: any participant may report progress
  /\ u \in Participants(b)
  /\ to = "CANCELLED" => row[b].status # "IN_TRANSIT"

RoleAllows(b, u, to) ==
  /\ u \in Participants(b)
  /\ to \in {"PICKING_UP", "IN_TRANSIT", "COMPLETED"} => u = row[b].transporter
  /\ to = "CANCELLED" => row[b].status # "IN_TRANSIT"

PhotosTrusted(b, to) == TRUE   \* mutant: left to CompleteBooking
PhotosEnforced(b, to) ==
  (to = "COMPLETED" /\ row[b].status = "IN_TRANSIT") => row[b].photos

StatusRead(h, b, u, to) ==
  /\ row[b].version < MaxVersion
  /\ RoleAllows(b, u, to)
  /\ to \in ValidTransitions[row[b].status]
  /\ PhotosEnforced(b, to)
  /\ to = "CANCELLED" => cancellations[u] < MaxTally
  /\ Start(h, "status", "cas", b, u, to)

(* VerifyPickupOTP with the right code. *)
PickupReadAnyStatus(h, b, t) ==   \* mutant: the status is not looked at
  /\ row[b].version < MaxVersion
  /\ row[b].transporter = t
  /\ row[b].otp
  /\ Start(h, "pickup", "cas", b, t, "IN_TRANSIT")

PickupRead(h, b, t) ==
  /\ row[b].version < MaxVersion
  /\ row[b].transporter = t
  /\ row[b].status \in {"PICKING_UP", "ACCEPTED"}
  /\ row[b].otp
  /\ Start(h, "pickup", "cas", b, t, "IN_TRANSIT")

CompleteRead(h, b, t) ==
  /\ row[b].version < MaxVersion
  /\ row[b].transporter = t
  /\ row[b].status = "IN_TRANSIT"
  /\ row[b].photos
  /\ Start(h, "complete", "cas", b, t, "COMPLETED")

(* The copy after the swap: b.Version++, b.Status = ..., completed_at on    *)
(* completion, and the OTP cleared by VerifyPickupOTP.                     *)
StampedWithoutVersion(h) ==   \* mutant: b.Version++ forgotten
  [req[h].copy EXCEPT !.status    = req[h].to,
                      !.otp       = @ /\ req[h].op # "pickup",
                      !.completed = @ \/ req[h].to = "COMPLETED"]

Stamped(h) ==
  [req[h].copy EXCEPT !.status    = req[h].to,
                      !.version   = req[h].copy.version + 1,
                      !.otp       = @ /\ req[h].op # "pickup",
                      !.completed = @ \/ req[h].to = "COMPLETED"]

SavedTargets == {"CANCELLED", "IN_TRANSIT", "COMPLETED", "DISPUTED"}

Cas(h) ==
  LET b == req[h].booking IN
  /\ req[h].pc = "cas"
  /\ IF Fresh(h)
       THEN /\ row' = [row EXCEPT ![b].status = req[h].to,
                                  ![b].version = req[h].copy.version + 1]
            /\ IF req[h].to \in SavedTargets
                 THEN req' = [req EXCEPT ![h].pc = "save", ![h].copy = Stamped(h)]
                 ELSE Finish(h)
       ELSE Finish(h) /\ UNCHANGED row
  /\ UNCHANGED <<sweep, cancellations, claimants, photographed, unguarded>>

-----------------------------------------------------------------------------
(* FlagGoodsMismatch: read, set goods_mismatch in the copy, Save.          *)
FlagRead(h, b, t) ==
  /\ "flag" \in Ops
  /\ req[h] = Idle
  /\ row[b].transporter = t
  /\ row[b].status \in {"ACCEPTED", "PICKING_UP"}
  /\ req' = [req EXCEPT ![h] = [op |-> "flag", pc |-> "save", booking |-> b,
                                by |-> t, to |-> "NONE",
                                copy |-> [row[b] EXCEPT !.mismatch = TRUE]]]
  /\ UNCHANGED <<row, sweep, cancellations, claimants, photographed, unguarded>>

(* gorm's Save: UPDATE of every column WHERE id = ?.  Only a cancellation  *)
(* goes on, to IncrementCancellationCount.                                 *)
Save(h) ==
  LET b == req[h].booking IN
  /\ req[h].pc = "save"
  /\ row' = [row EXCEPT ![b] = req[h].copy]
  /\ unguarded' = IF Fresh(h) THEN unguarded ELSE unguarded \cup {b}
  /\ IF req[h].to = "CANCELLED" THEN Goto(h, "tally") ELSE Finish(h)
  /\ UNCHANGED <<sweep, cancellations, claimants, photographed>>

IncrementCancellationCount(h) ==
  /\ req[h].pc = "tally"
  /\ cancellations' = [cancellations EXCEPT ![req[h].by] = @ + 1]
  /\ Finish(h)
  /\ UNCHANGED <<row, sweep, claimants, photographed, unguarded>>

-----------------------------------------------------------------------------
(* UploadPhotos, stage "delivery": an update of one column.                *)
PhotosRead(h, b, u) ==
  /\ row[b].status # "NONE"
  /\ u \in Participants(b)
  /\ Start(h, "photos", "photos", b, u, "NONE")

WritePhotos(h) ==
  /\ req[h].pc = "photos"
  /\ row' = [row EXCEPT ![req[h].booking].photos = TRUE]
  /\ photographed' = photographed \cup {req[h].booking}
  /\ Finish(h)
  /\ UNCHANGED <<sweep, cancellations, claimants, unguarded>>

-----------------------------------------------------------------------------
(* expireStaleBookings: one SELECT of unscheduled PENDING bookings older   *)
(* than a day (any PENDING booking may be), then an update by id of each.  *)
StaleAuctions == {b \in Bookings : row[b].status = "BIDDING"}   \* mutant: wrong status
Stale == {b \in Bookings : row[b].status = "PENDING"}

SweepRead ==
  /\ "sweep" \in Ops
  /\ sweep = {}
  /\ sweep' \in (SUBSET Stale) \ {{}}
  /\ UNCHANGED <<row, req, cancellations, claimants, photographed, unguarded>>

SweepSaves(b) ==   \* mutant: Save(&b) of the row the SELECT read
  /\ b \in sweep
  /\ row' = [row EXCEPT ![b] = [NoRow EXCEPT !.status = "CANCELLED", !.version = 1]]
  /\ sweep' = sweep \ {b}
  /\ unguarded' = unguarded \cup {b}
  /\ UNCHANGED <<req, cancellations, claimants, photographed>>

SweepWrite(b) ==
  /\ b \in sweep
  /\ row' = [row EXCEPT ![b].status = "CANCELLED"]
  /\ sweep' = sweep \ {b}
  /\ unguarded' = unguarded \cup {b}
  /\ UNCHANGED <<req, cancellations, claimants, photographed>>

(* The process dies, or a write fails and its error is ignored: the rest   *)
(* of the request is never done.                                           *)
Abandon(h) ==
  /\ req[h] # Idle
  /\ Finish(h)
  /\ UNCHANGED <<row, sweep, cancellations, claimants, photographed, unguarded>>

-----------------------------------------------------------------------------
AcceptByAnyone(h) ==   \* mutant: RequireRole(TRANSPORTER) dropped from the route
  \/ \E b \in Bookings, u \in Users : AcceptRead(h, b, u)
  \/ AcceptCount(h)
  \/ AcceptClaim(h)
  \/ WriteOtp(h)

Accept(h) ==
  \/ \E b \in Bookings, t \in Transporters : AcceptRead(h, b, t)
  \/ AcceptCount(h)
  \/ AcceptClaim(h)
  \/ WriteOtp(h)

Transition(h) ==
  \/ \E b \in Bookings, u \in Users, to \in Statuses : StatusRead(h, b, u, to)
  \/ \E b \in Bookings, t \in Transporters : PickupRead(h, b, t)
  \/ \E b \in Bookings, t \in Transporters : CompleteRead(h, b, t)
  \/ \E b \in Bookings, t \in Transporters : FlagRead(h, b, t)
  \/ Cas(h)
  \/ Save(h)
  \/ IncrementCancellationCount(h)

Photos(h) ==
  \/ \E b \in Bookings, u \in Users : PhotosRead(h, b, u)
  \/ WritePhotos(h)

Handle(h) == Accept(h) \/ Transition(h) \/ Photos(h) \/ Abandon(h)

ExpireStaleBookings == SweepRead \/ \E b \in Bookings : SweepWrite(b)

Next ==
  \/ \E b \in Bookings : Create(b)
  \/ \E h \in Handlers : Handle(h)
  \/ ExpireStaleBookings

Spec == Init /\ [][Next]_vars

(* runLoop calls expireStaleBookings every five minutes for as long as the *)
(* process lives, its SELECT returns every booking that is old enough, and *)
(* a booking that stays PENDING is old enough in the end.                  *)
SweepSpec ==
  /\ Spec
  /\ \A b \in Bookings : SF_vars(SweepRead /\ b \in sweep') /\ WF_vars(SweepWrite(b))

-----------------------------------------------------------------------------
(* A booking is won once.  However requests interleave and whatever stale  *)
(* copies Save writes back, at most one transporter is ever told that a    *)
(* booking is theirs (AcceptBooking returned no error), and from then on   *)
(* the row carries that transporter.                                       *)
ExclusiveClaim ==
  \A b \in Bookings : claimants[b] \subseteq {row[b].transporter}

(* The status a row had when it was read is the status it has when the     *)
(* compare-and-swap succeeds, so every change of status is a transition    *)
(* the code's guards allow from the CURRENT status (validTransitions, and  *)
(* VerifyPickupOTP's ACCEPTED -> IN_TRANSIT), and takes a new version:     *)
(* what optimistic locking promises, for rows nobody wrote at a version    *)
(* they had not compared.                                                  *)
LawfulTransition(old, new) ==
  /\ \/ new.status \in ValidTransitions[old.status]
     \/ old.status = "ACCEPTED" /\ new.status = "IN_TRANSIT"
     \/ old.status = "NONE" /\ new.status \in Open
  /\ new.version = old.version + 1

LawfulSteps ==
  [][\A b \in Bookings \ unguarded' :
       row'[b].status # row[b].status => LawfulTransition(row[b], row'[b])]_vars

(* A booking under way has a carrier: nobody picks up, carries, completes  *)
(* or disputes a booking that no transporter was assigned to.              *)
UnderWayHasTransporter ==
  \A b \in Bookings :
    row[b].status \in {"PICKING_UP", "IN_TRANSIT", "COMPLETED", "DISPUTED"}
      => row[b].transporter # None

(* Completion is photographed: a booking that reaches COMPLETED straight   *)
(* from IN_TRANSIT had delivery photos uploaded before, even when a Save   *)
(* of a copy read before the upload has erased the column since.           *)
CompletedWasPhotographed ==
  [][\A b \in Bookings \ unguarded' :
       (row[b].status = "IN_TRANSIT" /\ row'[b].status = "COMPLETED")
         => b \in photographed]_vars

(* The counter that feeds auto-suspension counts a cancelled booking once: *)
(* while every row was written under its version, the cancellations of the *)
(* users are counts of cancelled bookings, no booking counted for two or   *)
(* for one of them twice, whoever retries, races or dies half-way.         *)
Counted(u, by) == {b \in Bookings : by[b] = u}

CountedBy(by) ==
  /\ by \in [Bookings -> Users \cup {None}]
  /\ \A b \in Bookings : by[b] # None => row[b].status = "CANCELLED"
  /\ \A u \in Users : Cardinality(Counted(u, by)) = cancellations[u]

CancellationsCountedOnce ==
  unguarded = {} => \E by \in [Bookings -> Users \cup {None}] : CountedBy(by)

(* No offer hangs for ever: with the sweep running, an unscheduled booking *)
(* that is PENDING is eventually taken, cancelled, put to bidding or       *)
(* expired, even though the sweep reads and writes in separate steps.      *)
StaleOffersExpire ==
  \A b \in Bookings : row[b].status = "PENDING" ~> row[b].status # "PENDING"

-----------------------------------------------------------------------------
(* What the comments of the code promise, and interleavings break.         *)

(* "validTransitions defines which booking status transitions are allowed" *)
(* (service.go): no write moves a row along any other transition.          *)
OnlyValidTransitions ==
  [][\A b \in Bookings :
       row'[b].status # row[b].status =>
         \/ row[b].status = "NONE"
         \/ row'[b].status \in ValidTransitions[row[b].status]]_vars

(* "Delivery photos required before marking complete" (service.go): a      *)
(* COMPLETED booking has had delivery photos uploaded.                     *)
CompletionIsPhotographed ==
  \A b \in Bookings : row[b].status = "COMPLETED" => b \in photographed

(* "Transporter already has 3 active bookings": AcceptBookingAtomic's      *)
(* "Atomic overcommit check" keeps every transporter at the limit.         *)
ActiveWithinLimit ==
  \A t \in Transporters : Cardinality(ActiveOf(t)) <= MaxActive

(* "PENDING bookings with no activity for 24 hours are auto-cancelled":    *)
(* the sweep cancels bookings that are PENDING and no others.              *)
SweepCancelsPendingOnly ==
  [][\A b \in sweep \ sweep' : row[b].status = "PENDING"]_vars

=============================================================================
