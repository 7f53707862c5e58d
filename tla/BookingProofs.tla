---------------------------- MODULE BookingProofs ----------------------------
(***************************************************************************)
(* Proofs about BookingLifecycle, for every set of bookings, transporters  *)
(* and handlers, every workload and every bound.                           *)
(***************************************************************************)
EXTENDS BookingInvariant, FiniteSetTheorems, TLAPS

(* Rows and requests with some of their fields replaced keep their type. *)
LEMMA RowFields ==
  ASSUME NEW r \in Row
  PROVE  /\ r.status \in Statuses \cup {"NONE"} /\ r.version \in Nat
         /\ r.version + 1 \in Nat /\ r.transporter \in Transporters \cup {None}
<1>1. r.version \in Nat
  BY DEF Row
<1> QED
  BY <1>1 DEF Row

LEMMA RequestFields ==
  ASSUME NEW q \in Request
  PROVE  q.copy \in Row /\ q.to \in Statuses \cup {"NONE"} /\ q.copy.version + 1 \in Nat
<1>1. q.copy \in Row
  BY DEF Request
<1> QED
  BY <1>1, RowFields DEF Request

LEMMA RowAssigned ==
  ASSUME NEW r \in Row, NEW t \in Transporters, NEW s \in Statuses \cup {"NONE"},
         NEW v \in Nat
  PROVE  [r EXCEPT !.transporter = t, !.status = s, !.version = v] \in Row
  BY DEF Row

LEMMA RowMoved ==
  ASSUME NEW r \in Row, NEW s \in Statuses \cup {"NONE"}, NEW v \in Nat
  PROVE  [r EXCEPT !.status = s, !.version = v] \in Row
  BY DEF Row

LEMMA RequestAdvanced ==
  ASSUME NEW q \in Request, NEW pc \in Steps, NEW c \in Row
  PROVE  /\ [q EXCEPT !.pc = pc] \in Request
         /\ [q EXCEPT !.pc = pc, !.copy = c] \in Request
  BY DEF Request

LEMMA RowStamped ==
  ASSUME NEW r \in Row, NEW s \in Statuses \cup {"NONE"}, NEW v \in Nat,
         NEW o \in BOOLEAN, NEW c \in BOOLEAN
  PROVE  [r EXCEPT !.status = s, !.version = v, !.otp = o, !.completed = c] \in Row
  BY DEF Row

LEMMA RowFlagged ==
  ASSUME NEW r \in Row
  PROVE  [r EXCEPT !.mismatch = TRUE] \in Row
  BY DEF Row

(* Every variable holds values of its type in every reachable state. *)
LEMMA TypeInit == Init => TypeOK
  BY ConstantsAssumption DEF Init, TypeOK, Row, NoRow, Request, Idle, Steps, AllOps,
     PaymentStatuses, Statuses, Open, Active, Users

LEMMA TypeStep == TypeOK /\ [Next]_vars => TypeOK'
<1> SUFFICES ASSUME TypeOK, [Next]_vars PROVE TypeOK'
  OBVIOUS
<1> USE ConstantsAssumption DEF TypeOK
<1>idle. Idle \in Request /\ Idle.pc = "idle" /\ NoRow \in Row
  BY DEF Idle, Request, NoRow, Row, Steps, AllOps, Statuses, PaymentStatuses
<1>1. ASSUME NEW b \in Bookings, Create(b) PROVE TypeOK'
  <2>1. PICK bidding \in BOOLEAN :
          row' = [row EXCEPT ![b] =
                    [NoRow EXCEPT !.status = IF bidding THEN "BIDDING" ELSE "PENDING",
                                  !.version = 1, !.bidding = bidding]]
    BY <1>1 DEF Create
  <2>2. ASSUME NEW s \in Open
        PROVE [NoRow EXCEPT !.status = s, !.version = 1, !.bidding = bidding] \in Row
    BY <1>idle DEF Row, Statuses
  <2>3. [NoRow EXCEPT !.status = IF bidding THEN "BIDDING" ELSE "PENDING",
                      !.version = 1, !.bidding = bidding] \in Row
    BY <2>2 DEF Open
  <2> QED
    BY <1>1, <2>1, <2>3 DEF Create
<1>start. ASSUME NEW h \in Handlers, NEW op \in AllOps, NEW pc \in Steps,
                 NEW b \in Bookings, NEW by \in Users,
                 pc \in {"count", "claim"} => by \in Transporters,
                 NEW to \in Statuses \cup {"NONE"}, Start(h, op, pc, b, by, to)
          PROVE TypeOK'
  BY <1>start DEF Start, Request
<1>2. ASSUME NEW h \in Handlers, Handle(h) PROVE TypeOK'
  <2>1. ASSUME NEW b \in Bookings, NEW t \in Transporters, AcceptRead(h, b, t)
        PROVE TypeOK'
    BY <2>1, <1>start DEF AcceptRead, AllOps, Steps, Users, Statuses, Active
  <2>2. CASE AcceptCount(h)
    <3>1. CASE req' = [req EXCEPT ![h] = Idle]
      BY <2>2, <3>1, <1>idle DEF AcceptCount
    <3>2. CASE req' = [req EXCEPT ![h] = [req[h] EXCEPT !.pc = "claim"]]
      <4>1. [req[h] EXCEPT !.pc = "claim"] \in Request
        BY RequestAdvanced, <1>idle DEF Steps
      <4> QED
        BY <2>2, <3>2, <4>1 DEF AcceptCount, Request
    <3> QED
      BY <2>2, <3>1, <3>2 DEF AcceptCount, Finish, Goto
  <2>3. CASE AcceptClaim(h)
    <3> DEFINE b == req[h].booking
               won == [row[b] EXCEPT !.transporter = req[h].by, !.status = "ACCEPTED",
                                     !.version = req[h].copy.version + 1]
    <3>1. b \in Bookings /\ req[h].copy \in Row
      BY <2>3 DEF AcceptClaim, Request
    <3>2. CASE ~Claimable(h)
      BY <2>3, <3>2, <1>idle DEF AcceptClaim, Finish
    <3>3. CASE Claimable(h)
      <4>1. req[h].by \in Transporters
        BY <2>3 DEF AcceptClaim
      <4>2. won \in Row
        <5>1. row[b] \in Row /\ req[h].copy.version + 1 \in Nat
          BY <3>1, RowFields
        <5> QED
          BY <4>1, <5>1, RowAssigned DEF Statuses, Active
      <4>3. row' = [row EXCEPT ![b] = won]
        BY <2>3, <3>1, <3>3 DEF AcceptClaim
      <4>4. [req[h] EXCEPT !.pc = "otp"] \in Request
        BY RequestAdvanced, <1>idle DEF Steps
      <4>5. req' = [req EXCEPT ![h] = [req[h] EXCEPT !.pc = "otp"]]
        BY <2>3, <3>3 DEF AcceptClaim, Goto
      <4>6. claimants' \in [Bookings -> SUBSET Transporters]
        BY <2>3, <3>1, <3>3, <4>1 DEF AcceptClaim
      <4> QED
        BY <2>3, <3>1, <4>2, <4>3, <4>4, <4>5, <4>6 DEF AcceptClaim, Request
    <3> QED
      BY <3>2, <3>3
  <2>4. CASE WriteOtp(h)
    BY <2>4, <1>idle DEF WriteOtp, Finish, Row
  <2>5. ASSUME NEW b \in Bookings, NEW u \in Users, NEW to \in Statuses,
               StatusRead(h, b, u, to)
        PROVE TypeOK'
    BY <2>5, <1>start DEF StatusRead, AllOps, Steps
  <2>6. ASSUME NEW b \in Bookings, NEW t \in Transporters, PickupRead(h, b, t)
        PROVE TypeOK'
    BY <2>6, <1>start DEF PickupRead, AllOps, Steps, Users, Statuses, Active
  <2>7. ASSUME NEW b \in Bookings, NEW t \in Transporters, CompleteRead(h, b, t)
        PROVE TypeOK'
    BY <2>7, <1>start DEF CompleteRead, AllOps, Steps, Users, Statuses
  <2>8. ASSUME NEW b \in Bookings, NEW t \in Transporters, FlagRead(h, b, t)
        PROVE TypeOK'
    <3>1. [row[b] EXCEPT !.mismatch = TRUE] \in Row
      BY RowFlagged
    <3>2. [op |-> "flag", pc |-> "save", booking |-> b, by |-> t, to |-> "NONE",
           copy |-> [row[b] EXCEPT !.mismatch = TRUE]] \in Request
      BY <3>1 DEF Request, AllOps, Steps, Users
    <3> QED
      BY <2>8, <3>2 DEF FlagRead, Users
  <2>9. CASE Cas(h)
    <3> DEFINE b == req[h].booking
               new == [row[b] EXCEPT !.status = req[h].to,
                                     !.version = req[h].copy.version + 1]
    <3>1. b \in Bookings /\ req[h].copy \in Row /\ req[h] \in Request
      BY <2>9 DEF Cas, Request
    <3>2. CASE ~Fresh(h)
      BY <2>9, <3>2, <1>idle DEF Cas, Finish
    <3>3. CASE Fresh(h)
      <4>0. req[h].to \in Statuses \cup {"NONE"} /\ req[h].copy.version + 1 \in Nat
        BY <3>1, RequestFields
      <4>1. row' = [row EXCEPT ![b] = new] /\ new \in Row
        BY <2>9, <3>1, <3>3, <4>0, RowMoved DEF Cas
      <4>2. Stamped(h) \in Row
        <5> DEFINE o == req[h].copy.otp /\ req[h].op # "pickup"
                   d == req[h].copy.completed \/ req[h].to = "COMPLETED"
        <5>1. o \in BOOLEAN /\ d \in BOOLEAN
          OBVIOUS
        <5>2. Stamped(h) = [req[h].copy EXCEPT !.status = req[h].to,
                              !.version = req[h].copy.version + 1,
                              !.otp = o, !.completed = d]
          BY DEF Stamped
        <5> HIDE DEF o, d
        <5>3. [req[h].copy EXCEPT !.status = req[h].to,
                 !.version = req[h].copy.version + 1, !.otp = o, !.completed = d] \in Row
          BY <3>1, <4>0, <5>1, RowStamped, Zenon
        <5> QED
          BY <5>2, <5>3
      <4>3. CASE req[h].to \in SavedTargets
        <5>1. req' = [req EXCEPT ![h] = [req[h] EXCEPT !.pc = "save", !.copy = Stamped(h)]]
          BY <2>9, <3>3, <4>3 DEF Cas
        <5>2. [req[h] EXCEPT !.pc = "save", !.copy = Stamped(h)] \in Request
          BY <3>1, <4>2 DEF Request, Steps
        <5> QED
          BY <2>9, <3>1, <4>1, <5>1, <5>2 DEF Cas
      <4>4. CASE req[h].to \notin SavedTargets
        BY <2>9, <3>3, <4>1, <4>4, <1>idle DEF Cas, Finish
      <4> QED
        BY <4>3, <4>4
    <3> QED
      BY <3>2, <3>3
  <2>10. CASE Save(h)
    BY <2>10, <1>idle DEF Save, Finish, Goto, Request, Steps
  <2>11. CASE IncrementCancellationCount(h)
    BY <2>11, <1>idle DEF IncrementCancellationCount, Finish
  <2>12. ASSUME NEW b \in Bookings, NEW u \in Users, PhotosRead(h, b, u)
        PROVE TypeOK'
    BY <2>12, <1>start DEF PhotosRead, AllOps, Steps
  <2>13. CASE WritePhotos(h)
    BY <2>13, <1>idle DEF WritePhotos, Finish, Row
  <2>14. CASE Abandon(h)
    BY <2>14, <1>idle DEF Abandon, Finish
  <2> QED
    BY <1>2, <2>1, <2>2, <2>3, <2>4, <2>5, <2>6, <2>7, <2>8, <2>9, <2>10, <2>11,
       <2>12, <2>13, <2>14 DEF Handle, Accept, Transition, Photos
<1>3. CASE ExpireStaleBookings
  BY <1>3 DEF ExpireStaleBookings, SweepRead, Stale, SweepWrite, Row, Statuses
<1>4. CASE UNCHANGED vars
  BY <1>4 DEF vars
<1> QED
  BY <1>1, <1>2, <1>3, <1>4 DEF Next

(* Types hold in every reachable state. *)
THEOREM TypeCorrect == Spec => []TypeOK
  BY TypeInit, TypeStep, PTL DEF Spec

-----------------------------------------------------------------------------
(* What a step may do to a booking b: to the columns the protocol reads of *)
(* its row, to what is remembered of it, and to the copies requests hold.  *)
(* RowInv(b) is inductive whatever happens to other bookings.              *)

SameRow(b) ==
  /\ row'[b].status = row[b].status
  /\ row'[b].version = row[b].version
  /\ row'[b].transporter = row[b].transporter

SameHistory(b) ==
  /\ claimants'[b] = claimants[b]
  /\ b \in unguarded' <=> b \in unguarded

(* h's request for b ends, gives up, goes on without changing its copy, or *)
(* was not for b and is not now.                                           *)
Kept(h, b) ==
  Holding(h, b)' =>
    /\ Holding(h, b)
    /\ req'[h].copy = req[h].copy
    /\ req'[h] = req[h] \/ (req[h].pc = "count" /\ req'[h].pc = "claim")

KeptByOthers(h, b) == \A g \in Handlers \ {h} : Kept(g, b)

Untouched(b) ==
  /\ SameRow(b) /\ SameHistory(b)
  /\ \A g \in Handlers : Kept(g, b)

(* h read the row, and starts with a copy it has validated.  *)
Begun(h, b) ==
  /\ SameRow(b) /\ SameHistory(b) /\ KeptByOthers(h, b)
  /\ row[b].status # "NONE"
  /\ req'[h].booking = b
  /\ req'[h].copy.version = row[b].version
  /\ req'[h].copy.status = row[b].status
  /\ req'[h].copy.transporter = row[b].transporter
  /\ req'[h].pc \in {"count", "claim", "cas"} => row[b].status # "CANCELLED"
  /\ req'[h].pc = "save" => row[b].transporter # None
  /\ req'[h].pc = "cas" =>
       /\ \/ req'[h].to \in ValidTransitions[row[b].status]
          \/ row[b].status = "ACCEPTED" /\ req'[h].to = "IN_TRANSIT"
       /\ row[b].transporter = None => req'[h].to \notin UnderWay

(* A compare-and-swap found its version; a Save may follow it.  *)
Moved(h, b) ==
  /\ SameHistory(b) /\ KeptByOthers(h, b)
  /\ req[h].pc = "cas" /\ req[h].booking = b /\ Fresh(h)
  /\ row'[b].status = req[h].to
  /\ row'[b].version = row[b].version + 1
  /\ row'[b].transporter = row[b].transporter
  /\ Holding(h, b)' =>
       /\ Saving(h, b)'
       /\ req[h].to \in SavedTargets
       /\ req'[h].copy.status = req[h].to
       /\ req'[h].copy.version = req[h].copy.version + 1
       /\ req'[h].copy.transporter = req[h].copy.transporter

(* An open row was assigned, by a swap that found its version.  *)
Claimed(b) ==
  /\ b \in unguarded' <=> b \in unguarded
  /\ \A g \in Handlers : Kept(g, b)
  /\ row[b].status \in Open
  /\ row'[b].status = "ACCEPTED"
  /\ row'[b].version = row[b].version + 1
  /\ row'[b].transporter \in Transporters
  /\ claimants'[b] = claimants[b] \cup {row'[b].transporter}

(* A copy was written over the row, at whatever version the row was.  *)
Saved(h, b) ==
  /\ KeptByOthers(h, b) /\ ~Holding(h, b)'
  /\ Saving(h, b)
  /\ row'[b] = req[h].copy
  /\ claimants'[b] = claimants[b]
  /\ b \in unguarded' <=> b \in unguarded \/ ~Fresh(h)

Inserted(b) ==
  /\ SameHistory(b) /\ \A g \in Handlers : Kept(g, b)
  /\ row[b].status = "NONE"
  /\ row'[b].status \in Open
  /\ row'[b].version = 1
  /\ row'[b].transporter = None

(* A scheduler wrote the status by id: cancelled, or an auction reopened.  *)
Overwritten(b) ==
  /\ claimants'[b] = claimants[b] /\ \A g \in Handlers : Kept(g, b)
  /\ b \in unguarded'
  /\ row'[b].version = row[b].version
  /\ row'[b].transporter = row[b].transporter
  /\ \/ row'[b].status = "CANCELLED"
     \/ row[b].status = "BIDDING" /\ row'[b].status = "PENDING"

Touched(b) ==
  \/ Untouched(b) \/ Claimed(b) \/ Inserted(b) \/ Overwritten(b)
  \/ \E h \in Handlers : Begun(h, b) \/ Moved(h, b) \/ Saved(h, b)

-----------------------------------------------------------------------------
(* RowInv(b) survives each of them.  *)

LEMMA Versions ==
  ASSUME TypeOK
  PROVE  /\ \A b \in Bookings : row[b].version \in Nat
         /\ \A h \in Handlers : req[h].copy.version \in Nat
  BY RowFields, RequestFields DEF TypeOK

LEMMA UntouchedKeeps ==
  ASSUME NEW b \in Bookings, RowInv(b), Untouched(b)
  PROVE  RowInv(b)'
<1> USE DEF RowInv, Untouched, SameRow, SameHistory, Kept, Holding, Comparing, Saving
<1>1. VersionNamesState(b)' /\ CopyValidated(b)' /\ AbsentIsUnread(b)'
  BY DEF VersionNamesState, CopyValidated, AbsentIsUnread
<1>2. AssignedIsClosed(b)' /\ Carried(b)' /\ CopiesAgree(b)' /\ ClaimantsAreHolder(b)'
  BY DEF AssignedIsClosed, Carried, CopiesAgree, ClaimantsAreHolder
<1>3. OldCopiesLose(b)' /\ UnassignedOrder(b)'
  BY DEF OldCopiesLose, UnassignedOrder
<1> QED
  BY <1>1, <1>2, <1>3

LEMMA BegunKeeps ==
  ASSUME TypeOK, NEW b \in Bookings, RowInv(b), NEW h \in Handlers, Begun(h, b)
  PROVE  RowInv(b)'
<1> USE Versions DEF RowInv, Begun, SameRow, SameHistory, Kept, KeptByOthers, Holding,
     Comparing, Saving
<1>1. VersionNamesState(b)' /\ CopyValidated(b)' /\ AbsentIsUnread(b)'
  BY DEF VersionNamesState, CopyValidated, AbsentIsUnread
<1>2. AssignedIsClosed(b)' /\ Carried(b)' /\ CopiesAgree(b)' /\ ClaimantsAreHolder(b)'
  BY DEF AssignedIsClosed, Carried, CopiesAgree, ClaimantsAreHolder
<1>3. OldCopiesLose(b)'
  BY DEF OldCopiesLose
<1>4. UnassignedOrder(b)'
  BY DEF UnassignedOrder
<1> QED
  BY <1>1, <1>2, <1>3, <1>4

(* A transition never leads back to an offer, except from an offer.  *)
LEMMA TransitionsClose ==
  ASSUME NEW s \in Statuses \cup {"NONE"}, NEW t \in Statuses \cup {"NONE"},
         t \in ValidTransitions[s] \/ (s = "ACCEPTED" /\ t = "IN_TRANSIT")
  PROVE  /\ t # "NONE" /\ s # "NONE" /\ s # "CANCELLED"
         /\ t \in Open => s \in Open
  BY DEF ValidTransitions, Statuses, Open, Active

LEMMA MovedKeeps ==
  ASSUME TypeOK, NEW b \in Bookings, RowInv(b), NEW h \in Handlers, Moved(h, b)
  PROVE  RowInv(b)'
<1> USE DEF Holding, Comparing, Saving
<1>1. /\ row[b].version \in Nat /\ req[h].copy.version = row[b].version
      /\ \A g \in Handlers : req[g].copy.version \in Nat
  BY Versions DEF Fresh, Moved
<1>2. req[h].copy.transporter = row[b].transporter
  BY <1>1 DEF RowInv, CopiesAgree, OldCopiesLose, Moved
<1>3. /\ \/ req[h].to \in ValidTransitions[req[h].copy.status]
         \/ req[h].copy.status = "ACCEPTED" /\ req[h].to = "IN_TRANSIT"
      /\ row[b].transporter = None => req[h].to \notin UnderWay
  BY <1>2 DEF RowInv, CopyValidated, Moved
<1>4. /\ req[h].to # "NONE"
      /\ row[b].transporter # None => req[h].to \notin Open
  <2>1. /\ req[h].to \in Statuses \cup {"NONE"}
        /\ req[h].copy.status \in Statuses \cup {"NONE"}
    BY RequestFields, RowFields DEF TypeOK
  <2>2. row[b].transporter # None => req[h].copy.status \notin Open
    BY <1>2 DEF RowInv, AssignedIsClosed, Moved
  <2> QED
    BY <1>3, <2>1, <2>2, TransitionsClose
<1>5. row[b].transporter = None => \A g \in Handlers : ~Saving(g, b)
  BY <1>1 DEF RowInv, UnassignedOrder, Moved
<1>6. \A g \in Handlers : Holding(g, b)' =>
        \/ g = h /\ Saving(h, b)'
        \/ /\ g # h /\ Holding(g, b) /\ req'[g].copy = req[g].copy
           /\ req'[g] = req[g] \/ (req[g].pc = "count" /\ req'[g].pc = "claim")
  <2>1. ASSUME NEW g \in Handlers, Holding(g, b)', g # h
        PROVE  /\ Holding(g, b) /\ req'[g].copy = req[g].copy
               /\ req'[g] = req[g] \/ (req[g].pc = "count" /\ req'[g].pc = "claim")
    BY <2>1 DEF Moved, KeptByOthers, Kept
  <2>2. Holding(h, b)' => Saving(h, b)'
    BY DEF Moved
  <2> QED
    BY <2>1, <2>2
<1>7. (row[b].transporter = None /\ Saving(h, b)') => req[h].to = "CANCELLED"
  BY <1>3 DEF Moved, SavedTargets, UnderWay
<1> USE DEF Moved, Kept, KeptByOthers, SameHistory
<1>8. VersionNamesState(b)'
  BY <1>1, <1>2, <1>6 DEF RowInv, VersionNamesState
<1>9. CopyValidated(b)'
  BY <1>2, <1>6, <1>7 DEF RowInv, CopyValidated
<1>10. AssignedIsClosed(b)'
  BY <1>2, <1>4, <1>6 DEF RowInv, AssignedIsClosed
<1>11. Carried(b)' /\ AbsentIsUnread(b)' /\ ClaimantsAreHolder(b)'
  BY <1>3, <1>4 DEF RowInv, Carried, AbsentIsUnread, ClaimantsAreHolder
<1>12. CopiesAgree(b)'
  BY <1>2, <1>6 DEF RowInv, CopiesAgree
<1>13. OldCopiesLose(b)'
  BY <1>1, <1>2, <1>6 DEF RowInv, OldCopiesLose
<1>14. UnassignedOrder(b)'
  BY <1>1, <1>2, <1>5, <1>6, <1>7 DEF RowInv, UnassignedOrder
<1> QED
  BY <1>8, <1>9, <1>10, <1>11, <1>12, <1>13, <1>14 DEF RowInv

LEMMA ClaimedKeeps ==
  ASSUME TypeOK, NEW b \in Bookings, RowInv(b), Claimed(b)
  PROVE  RowInv(b)'
<1> USE DEF Holding, Comparing, Saving
<1>1. row[b].transporter = None
  BY DEF RowInv, AssignedIsClosed, Claimed
<1>2. row'[b].transporter # None
  BY ConstantsAssumption DEF Claimed
<1>3. \A g \in Handlers : Holding(g, b) =>
        /\ Comparing(g, b) /\ req[g].copy.version <= row[b].version
        /\ req[g].copy.transporter = None
  BY <1>1 DEF RowInv, UnassignedOrder, Open, CopiesAgree, Claimed
<1> USE Versions DEF RowInv, Claimed, Kept
<1>4. VersionNamesState(b)' /\ CopyValidated(b)' /\ AbsentIsUnread(b)'
  BY <1>3 DEF VersionNamesState, CopyValidated, AbsentIsUnread
<1>5. AssignedIsClosed(b)' /\ Carried(b)' /\ CopiesAgree(b)'
  BY <1>2, <1>3 DEF AssignedIsClosed, Carried, CopiesAgree, Open
<1>6. ClaimantsAreHolder(b)'
  BY <1>1, <1>2 DEF ClaimantsAreHolder
<1>7. OldCopiesLose(b)' /\ UnassignedOrder(b)'
  BY <1>2, <1>3 DEF OldCopiesLose, UnassignedOrder
<1> QED
  BY <1>4, <1>5, <1>6, <1>7

(* A booking nobody took is only saved as it is; an assigned one keeps its *)
(* transporter, since a copy without one is never saved over it.           *)
LEMMA SavedTransporter ==
  ASSUME NEW b \in Bookings, RowInv(b), NEW h \in Handlers, Saving(h, b)
  PROVE  /\ req[h].copy.transporter = row[b].transporter
         /\ row[b].transporter = None => /\ Fresh(h)
                                        /\ req[h].copy.status = "CANCELLED"
                                        /\ row[b].status = "CANCELLED"
<1>1. req[h].copy.transporter = row[b].transporter
  BY DEF RowInv, CopiesAgree, OldCopiesLose, Holding
<1> QED
  BY <1>1 DEF RowInv, UnassignedOrder, CopyValidated, Saving, Fresh

LEMMA SavedKeeps ==
  ASSUME TypeOK, NEW b \in Bookings, RowInv(b), NEW h \in Handlers, Saved(h, b)
  PROVE  RowInv(b)'
<1> USE DEF Holding, Comparing, Saving
<1>1. /\ req[h].copy.transporter = row[b].transporter
      /\ row[b].transporter = None => /\ req[h].copy.version = row[b].version
                                     /\ req[h].copy.status = "CANCELLED"
                                     /\ row[b].status = "CANCELLED"
  BY SavedTransporter DEF Saved, Fresh
<1>2. \A g \in Handlers : Holding(g, b)' => g # h /\ Holding(g, b) /\ Kept(g, b)
  BY DEF Saved, KeptByOthers, Kept
<1>3. b \notin unguarded' =>
        /\ b \notin unguarded
        /\ req[h].copy.status = row[b].status
        /\ req[h].copy.version = row[b].version
  BY DEF RowInv, VersionNamesState, Fresh, Saved
<1> USE Versions DEF RowInv, Saved, Kept
<1>4. VersionNamesState(b)'
  BY <1>1, <1>2, <1>3 DEF VersionNamesState
<1>5. CopyValidated(b)'
  BY <1>2 DEF CopyValidated
<1>6. AssignedIsClosed(b)' /\ Carried(b)'
  BY <1>1, <1>2 DEF AssignedIsClosed, Carried, CopyValidated, UnderWay
<1>7. AbsentIsUnread(b)' /\ CopiesAgree(b)' /\ ClaimantsAreHolder(b)'
  BY <1>1, <1>2 DEF AbsentIsUnread, AssignedIsClosed, CopiesAgree, ClaimantsAreHolder
<1>8. OldCopiesLose(b)'
  BY <1>1, <1>2 DEF OldCopiesLose
<1>9. UnassignedOrder(b)'
  BY <1>1, <1>2 DEF UnassignedOrder
<1> QED
  BY <1>4, <1>5, <1>6, <1>7, <1>8, <1>9

LEMMA InsertedKeeps ==
  ASSUME NEW b \in Bookings, RowInv(b), Inserted(b)
  PROVE  RowInv(b)'
<1>1. row[b].transporter = None /\ \A g \in Handlers : ~Holding(g, b)
  BY DEF RowInv, AssignedIsClosed, AbsentIsUnread, Inserted
<1>2. \A g \in Handlers : ~Holding(g, b)'
  BY <1>1 DEF Inserted, Kept
<1>3. \A g \in Handlers : req'[g].booking = b => req'[g].pc \notin {"cas", "save"}
  BY <1>2 DEF Holding, Comparing, Saving
<1>4. row'[b].status \notin UnderWay \cup {"NONE"}
  BY DEF Inserted, UnderWay, Open
<1>5. \A g \in Handlers : ~Saving(g, b)'
  BY <1>2 DEF Holding
<1> QED
  BY <1>1, <1>2, <1>3, <1>4, <1>5 DEF RowInv, Inserted, SameHistory, VersionNamesState, CopyValidated,
     AbsentIsUnread, AssignedIsClosed, Carried, CopiesAgree, OldCopiesLose,
     UnassignedOrder, ClaimantsAreHolder

LEMMA OverwrittenKeeps ==
  ASSUME NEW b \in Bookings, RowInv(b), Overwritten(b)
  PROVE  RowInv(b)'
<1> USE DEF RowInv, Overwritten, Kept, Holding, Comparing, Saving
<1>1. row'[b].status \notin UnderWay \cup {"NONE"}
  BY DEF UnderWay
<1>2. row[b].transporter # None => row'[b].status = "CANCELLED"
  BY DEF AssignedIsClosed, Open
<1>3. VersionNamesState(b)' /\ CopyValidated(b)' /\ AbsentIsUnread(b)'
  BY <1>1 DEF VersionNamesState, CopyValidated, AbsentIsUnread
<1>4. AssignedIsClosed(b)' /\ Carried(b)' /\ CopiesAgree(b)' /\ ClaimantsAreHolder(b)'
  BY <1>1, <1>2 DEF AssignedIsClosed, Carried, CopiesAgree, ClaimantsAreHolder, Open
<1>5. OldCopiesLose(b)' /\ UnassignedOrder(b)'
  BY DEF OldCopiesLose, UnassignedOrder
<1> QED
  BY <1>3, <1>4, <1>5

LEMMA TouchedKeeps ==
  ASSUME TypeOK, NEW b \in Bookings, RowInv(b), Touched(b)
  PROVE  RowInv(b)'
  BY UntouchedKeeps, BegunKeeps, MovedKeeps, ClaimedKeeps, SavedKeeps, InsertedKeeps,
     OverwrittenKeeps DEF Touched

-----------------------------------------------------------------------------
(* Every step of the requests and of the sweep touches each booking in one *)
(* of these ways.                                                          *)

LEMMA KeptOrEnded ==
  ASSUME NEW b \in Bookings, NEW g \in Handlers,
         req'[g] = req[g] \/ req'[g] = Idle \/ req'[g].pc \in {"otp", "tally", "photos"}
                          \/ req'[g].booking # b
  PROVE  Kept(g, b) /\ (req'[g] # req[g] => ~Holding(g, b)')
  BY DEF Kept, Holding, Comparing, Saving, Idle

LEMMA Rests ==
  ASSUME NEW b \in Bookings, NEW h \in Handlers, SameRow(b), SameHistory(b), Kept(h, b),
         \A g \in Handlers \ {h} : req'[g] = req[g]
  PROVE  Touched(b)
  BY KeptOrEnded DEF Touched, Untouched

LEMMA StartTouches ==
  ASSUME TypeOK, NEW b \in Bookings, NEW c \in Bookings, NEW h \in Handlers, NEW op \in AllOps,
         NEW pc \in Steps \ {"save"}, NEW by \in Users, NEW to \in Statuses \cup {"NONE"},
         Start(h, op, pc, c, by, to),
         row[c].status # "NONE",
         pc \in {"count", "claim", "cas"} => row[c].status # "CANCELLED",
         b = c /\ pc = "cas" =>
           /\ \/ to \in ValidTransitions[row[b].status]
              \/ row[b].status = "ACCEPTED" /\ to = "IN_TRANSIT"
           /\ row[b].transporter = None => to \notin UnderWay
  PROVE  Touched(b)
<1> DEFINE r == [op |-> op, pc |-> pc, booking |-> c, by |-> by, to |-> to, copy |-> row[c]]
<1>1. req' = [req EXCEPT ![h] = r] /\ SameRow(b) /\ SameHistory(b)
  BY DEF Start, SameRow, SameHistory
<1>2. /\ r.booking = c /\ r.pc = pc /\ r.to = to /\ r.copy = row[c]
      /\ r.pc # "save"
  OBVIOUS
<1> HIDE DEF r
<1>3. req'[h] = r /\ \A g \in Handlers \ {h} : req'[g] = req[g]
  BY <1>1 DEF TypeOK
<1>4. KeptByOthers(h, b)
  BY <1>3, KeptOrEnded DEF KeptByOthers
<1>5. CASE b = c
  <2>1. Begun(h, b)
    BY <1>1, <1>2, <1>3, <1>4, <1>5 DEF Begun
  <2> QED
    BY <2>1 DEF Touched
<1>6. CASE b # c
  BY <1>1, <1>2, <1>3, <1>6, KeptOrEnded, Rests
<1> QED
  BY <1>5, <1>6

(* UpdateStatus, VerifyPickupOTP and CompleteBooking only try transitions  *)
(* of a booking that exists, is not cancelled, and has a transporter if it *)
(* is to be under way.                                                     *)
LEMMA RoleNeedsTransporter ==
  ASSUME TypeOK, NEW b \in Bookings, RowInv(b), NEW u \in Users, NEW to \in Statuses,
         RoleAllows(b, u, to), to \in ValidTransitions[row[b].status],
         row[b].transporter = None
  PROVE  to \notin UnderWay
<1>1. u # None
  BY ConstantsAssumption DEF Users
<1>2. to \notin {"PICKING_UP", "IN_TRANSIT", "COMPLETED"}
  BY <1>1 DEF RoleAllows
<1>3. row[b].status \notin UnderWay
  BY DEF RowInv, Carried
<1>4. row[b].status \in Statuses \cup {"NONE"}
  BY RowFields DEF TypeOK
<1>5. to # "DISPUTED"
  BY <1>3, <1>4 DEF ValidTransitions, UnderWay, Statuses, Open, Active
<1> QED
  BY <1>2, <1>5 DEF UnderWay

LEMMA ReadTouches ==
  ASSUME TypeOK, NEW b \in Bookings, RowInv(b), NEW h \in Handlers, NEW c \in Bookings,
         \/ \E t \in Transporters : \/ AcceptRead(h, c, t) \/ PickupRead(h, c, t)
                                    \/ CompleteRead(h, c, t) \/ FlagRead(h, c, t)
         \/ \E u \in Users : PhotosRead(h, c, u) \/ \E to \in Statuses : StatusRead(h, c, u, to)
  PROVE  Touched(b)
<1>1. row[c] \in Row /\ row[c].status \in Statuses \cup {"NONE"}
  BY RowFields DEF TypeOK
<1>2. ASSUME NEW t \in Transporters, AcceptRead(h, c, t) PROVE Touched(b)
  BY <1>2, StartTouches DEF AcceptRead, OpenToAccept, Open, AllOps, Steps, Users,
     Statuses, Active
<1>3. ASSUME NEW t \in Transporters, PickupRead(h, c, t) PROVE Touched(b)
  <2>1. row[c].transporter # None
    BY <1>3, ConstantsAssumption DEF PickupRead
  <2> QED
    BY <1>3, <2>1, StartTouches DEF PickupRead, ValidTransitions, AllOps, Steps, Users,
       Statuses, Active, Open
<1>4. ASSUME NEW t \in Transporters, CompleteRead(h, c, t) PROVE Touched(b)
  <2>1. row[c].transporter # None
    BY <1>4, ConstantsAssumption DEF CompleteRead
  <2>2. row[c].status = "IN_TRANSIT" /\ Start(h, "complete", "cas", c, t, "COMPLETED")
    BY <1>4 DEF CompleteRead
  <2>3. "COMPLETED" \in ValidTransitions["IN_TRANSIT"] /\ "COMPLETED" \in Statuses \cup {"NONE"}
    BY DEF ValidTransitions, Statuses, Active
  <2>4. "complete" \in AllOps /\ "cas" \in Steps \ {"save"} /\ t \in Users
    BY DEF AllOps, Steps, Users
  <2> QED
    BY <2>1, <2>2, <2>3, <2>4, StartTouches
<1>5. ASSUME NEW t \in Transporters, FlagRead(h, c, t) PROVE Touched(b)
  <2> DEFINE flagged == [row[c] EXCEPT !.mismatch = TRUE]
             r == [op |-> "flag", pc |-> "save", booking |-> c, by |-> t,
                   to |-> "NONE", copy |-> flagged]
  <2>1. /\ flagged.version = row[c].version /\ flagged.status = row[c].status
        /\ flagged.transporter = row[c].transporter
    BY <1>1 DEF Row
  <2>2. row[c].transporter # None /\ row[c].status # "NONE"
    BY <1>5, ConstantsAssumption DEF FlagRead
  <2>3. /\ req' = [req EXCEPT ![h] = r] /\ SameRow(b) /\ SameHistory(b)
    BY <1>5 DEF FlagRead, SameRow, SameHistory
  <2>4. r.booking = c /\ r.pc = "save" /\ r.copy = flagged
    OBVIOUS
  <2> HIDE DEF r, flagged
  <2>5. req'[h] = r /\ \A g \in Handlers \ {h} : req'[g] = req[g]
    BY <2>3 DEF TypeOK
  <2>6. CASE b = c
    <3>1. KeptByOthers(h, b)
      BY <2>5, KeptOrEnded DEF KeptByOthers
    <3>2. Begun(h, b)
      BY <2>1, <2>2, <2>3, <2>4, <2>5, <2>6, <3>1 DEF Begun
    <3> QED
      BY <3>2 DEF Touched
  <2>7. CASE b # c
    BY <2>3, <2>4, <2>5, <2>7, KeptOrEnded, Rests
  <2> QED
    BY <2>6, <2>7
<1>6. ASSUME NEW u \in Users, PhotosRead(h, c, u) PROVE Touched(b)
  BY <1>6, StartTouches DEF PhotosRead, AllOps, Steps
<1>7. ASSUME NEW u \in Users, NEW to \in Statuses, StatusRead(h, c, u, to) PROVE Touched(b)
  <2>1. to \in ValidTransitions[row[c].status] /\ RoleAllows(c, u, to)
    BY <1>7 DEF StatusRead
  <2>2. row[c].status # "NONE" /\ row[c].status # "CANCELLED"
    BY <2>1, <1>1, TransitionsClose
  <2>3. b = c /\ row[c].transporter = None => to \notin UnderWay
    BY <2>1, RoleNeedsTransporter
  <2>4. Start(h, "status", "cas", c, u, to)
    BY <1>7 DEF StatusRead
  <2>5. "status" \in AllOps /\ "cas" \in Steps \ {"save"} /\ to \in Statuses \cup {"NONE"}
    BY DEF AllOps, Steps
  <2> QED
    BY <2>1, <2>2, <2>3, <2>4, <2>5, StartTouches
<1> QED
  BY <1>2, <1>3, <1>4, <1>5, <1>6, <1>7

LEMMA ClaimTouches ==
  ASSUME TypeOK, NEW b \in Bookings, NEW h \in Handlers, AcceptClaim(h)
  PROVE  Touched(b)
<1> DEFINE c == req[h].booking
<1>1. /\ c \in Bookings /\ req[h].by \in Transporters /\ req \in [Handlers -> Request]
      /\ row \in [Bookings -> Row] /\ row[c] \in Row /\ req[h] \in Request
      /\ claimants \in [Bookings -> SUBSET Transporters]
  BY DEF AcceptClaim, TypeOK
<1>2. \A g \in Handlers \ {h} : req'[g] = req[g]
  BY <1>1 DEF AcceptClaim, Finish, Goto
<1>3. req'[h] = Idle \/ req'[h].pc = "otp"
  BY <1>1 DEF AcceptClaim, Finish, Goto, Request
<1>4. \A g \in Handlers : Kept(g, b)
  BY <1>2, <1>3, KeptOrEnded
<1>5. CASE ~Claimable(h) \/ b # c
  <2>1. SameRow(b) /\ SameHistory(b)
    BY <1>1, <1>5 DEF AcceptClaim, SameRow, SameHistory
  <2> QED
    BY <1>4, <2>1 DEF Touched, Untouched
<1>6. CASE Claimable(h) /\ b = c
  <2>1. row' = [row EXCEPT ![c] = [row[c] EXCEPT !.transporter = req[h].by,
                             !.status = "ACCEPTED", !.version = req[h].copy.version + 1]]
    BY <1>1, <1>6 DEF AcceptClaim
  <2>2. /\ row'[b].transporter = req[h].by /\ row'[b].status = "ACCEPTED"
        /\ row'[b].version = row[b].version + 1
    BY <1>1, <1>6, <2>1 DEF Row, Claimable, Fresh
  <2>3. claimants'[b] = claimants[b] \cup {req[h].by}
    BY <1>1, <1>6 DEF AcceptClaim
  <2>4. unguarded' = unguarded /\ row[b].status \in Open
    BY <1>6 DEF AcceptClaim, Claimable
  <2>5. Claimed(b)
    BY <1>1, <1>4, <2>2, <2>3, <2>4 DEF Claimed
  <2> QED
    BY <2>5 DEF Touched
<1> QED
  BY <1>5, <1>6

LEMMA CasTouches ==
  ASSUME TypeOK, NEW b \in Bookings, NEW h \in Handlers, Cas(h)
  PROVE  Touched(b)
<1> DEFINE c == req[h].booking
<1>1. /\ c \in Bookings /\ req \in [Handlers -> Request] /\ req[h] \in Request
      /\ row \in [Bookings -> Row] /\ row[c] \in Row /\ req[h].copy \in Row
      /\ req[h].copy.version + 1 \in Nat
  BY RequestFields DEF Cas, TypeOK
<1>2. SameHistory(b) /\ \A g \in Handlers \ {h} : req'[g] = req[g]
  BY <1>1 DEF Cas, Finish, SameHistory
<1>3. CASE ~Fresh(h)
  <2>1. req'[h] = Idle /\ SameRow(b)
    BY <1>1, <1>3 DEF Cas, Finish, SameRow
  <2> QED
    BY <1>2, <2>1, KeptOrEnded, Rests
<1>4. CASE Fresh(h)
  <2>1. row' = [row EXCEPT ![c] = [row[c] EXCEPT !.status = req[h].to,
                                       !.version = req[h].copy.version + 1]]
    BY <1>1, <1>4 DEF Cas
  <2>2. \/ req'[h] = Idle
        \/ /\ req[h].to \in SavedTargets
           /\ req'[h].pc = "save" /\ req'[h].booking = c /\ req'[h].copy = Stamped(h)
    <3>1. CASE req[h].to \in SavedTargets
      <4>1. req' = [req EXCEPT ![h] = [req[h] EXCEPT !.pc = "save", !.copy = Stamped(h)]]
        BY <1>4, <3>1 DEF Cas
      <4> QED
        BY <1>1, <3>1, <4>1 DEF Request
    <3>2. CASE req[h].to \notin SavedTargets
      BY <1>1, <1>4, <3>2 DEF Cas, Finish
    <3> QED
      BY <3>1, <3>2
  <2>3. /\ Stamped(h).status = req[h].to
        /\ Stamped(h).version = req[h].copy.version + 1
        /\ Stamped(h).transporter = req[h].copy.transporter
    BY <1>1 DEF Stamped, Row
  <2>4. CASE b # c
    <3>1. SameRow(b)
      BY <1>1, <2>1, <2>4 DEF SameRow
    <3> QED
      BY <1>2, <2>2, <2>4, <3>1, KeptOrEnded, Rests
  <2>5. CASE b = c
    <3>1. /\ row'[b].status = req[h].to /\ row'[b].version = row[b].version + 1
          /\ row'[b].transporter = row[b].transporter
      BY <1>1, <1>4, <2>1, <2>5 DEF Row, Fresh
    <3>2. KeptByOthers(h, b)
      BY <1>2, KeptOrEnded DEF KeptByOthers
    <3>3. Holding(h, b)' =>
            /\ Saving(h, b)' /\ req[h].to \in SavedTargets
            /\ req'[h].copy = Stamped(h)
      BY <2>2, <2>5 DEF Holding, Comparing, Saving, Idle
    <3>4. req[h].pc = "cas" /\ req[h].booking = b
      BY <2>5 DEF Cas
    <3>5. Moved(h, b)
      BY <1>2, <1>4, <2>3, <3>1, <3>2, <3>3, <3>4 DEF Moved
    <3> QED
      BY <3>5 DEF Touched
  <2> QED
    BY <2>4, <2>5
<1> QED
  BY <1>3, <1>4

LEMMA SaveTouches ==
  ASSUME TypeOK, NEW b \in Bookings, NEW h \in Handlers, Save(h)
  PROVE  Touched(b)
<1> DEFINE c == req[h].booking
<1>1. /\ c \in Bookings /\ req \in [Handlers -> Request] /\ req[h] \in Request
      /\ row \in [Bookings -> Row] /\ row' = [row EXCEPT ![c] = req[h].copy]
  BY DEF Save, TypeOK
<1>2. \A g \in Handlers \ {h} : req'[g] = req[g]
  BY <1>1 DEF Save, Finish, Goto
<1>3. req'[h] = Idle \/ req'[h].pc = "tally"
  BY <1>1 DEF Save, Finish, Goto, Request
<1>4. CASE b # c
  <2>1. SameRow(b) /\ SameHistory(b)
    BY <1>1, <1>4 DEF Save, SameRow, SameHistory
  <2> QED
    BY <1>2, <1>3, <2>1, KeptOrEnded, Rests
<1>5. CASE b = c
  <2>1. KeptByOthers(h, b) /\ ~Holding(h, b)'
    BY <1>2, <1>3, KeptOrEnded DEF KeptByOthers, Holding, Comparing, Saving, Idle
  <2>2. Saving(h, b) /\ row'[b] = req[h].copy
    BY <1>1, <1>5 DEF Saving, Save
  <2>3. claimants'[b] = claimants[b] /\ (b \in unguarded' <=> b \in unguarded \/ ~Fresh(h))
    BY <1>5 DEF Save
  <2>4. Saved(h, b)
    BY <2>1, <2>2, <2>3 DEF Saved
  <2> QED
    BY <2>4 DEF Touched
<1> QED
  BY <1>4, <1>5

LEMMA HandleTouches ==
  ASSUME TypeOK, NEW b \in Bookings, RowInv(b), NEW h \in Handlers, Handle(h)
  PROVE  Touched(b)
<1>1. /\ req \in [Handlers -> Request] /\ row \in [Bookings -> Row]
      /\ req[h].pc # "idle" => req[h].booking \in Bookings
  BY DEF TypeOK
<1>2. CASE AcceptCount(h)
  <2>1. SameRow(b) /\ SameHistory(b) /\ \A g \in Handlers \ {h} : req'[g] = req[g]
    BY <1>1, <1>2 DEF AcceptCount, Finish, Goto, SameRow, SameHistory
  <2>2. Kept(h, b)
    <3>1. CASE req'[h] = Idle
      BY <3>1, KeptOrEnded
    <3>2. CASE req' = [req EXCEPT ![h] = [req[h] EXCEPT !.pc = "claim"]]
      <4>1. /\ req'[h].pc = "claim" /\ req[h].pc = "count"
            /\ req'[h].booking = req[h].booking /\ req'[h].copy = req[h].copy
        BY <1>1, <1>2, <3>2 DEF AcceptCount, Request
      <4> QED
        BY <4>1 DEF Kept, Holding, Comparing, Saving
    <3> QED
      BY <1>1, <1>2, <3>1, <3>2 DEF AcceptCount, Finish, Goto
  <2> QED
    BY <2>1, <2>2, Rests
<1>3. CASE IncrementCancellationCount(h) \/ Abandon(h) \/ WriteOtp(h) \/ WritePhotos(h)
  <2>1. req'[h] = Idle /\ SameHistory(b) /\ \A g \in Handlers \ {h} : req'[g] = req[g]
    BY <1>1, <1>3 DEF IncrementCancellationCount, Abandon, WriteOtp, WritePhotos, Finish,
       SameHistory
  <2>2. SameRow(b)
    BY <1>1, <1>3 DEF IncrementCancellationCount, Abandon, WriteOtp, WritePhotos, Finish,
       SameRow, Row
  <2> QED
    BY <2>1, <2>2, KeptOrEnded, Rests
<1> QED
  BY <1>2, <1>3, ReadTouches, ClaimTouches, CasTouches, SaveTouches
     DEF Handle, Accept, Transition, Photos

LEMMA CreateTouches ==
  ASSUME TypeOK, NEW b \in Bookings, RowInv(b), NEW c \in Bookings, Create(c)
  PROVE  Touched(b)
<1>1. row \in [Bookings -> Row] /\ SameHistory(b) /\ \A g \in Handlers : req'[g] = req[g]
  BY DEF Create, TypeOK, SameHistory
<1>2. PICK bidding \in BOOLEAN :
        row' = [row EXCEPT ![c] =
                  [NoRow EXCEPT !.status = IF bidding THEN "BIDDING" ELSE "PENDING",
                                !.version = 1, !.bidding = bidding]]
  BY DEF Create
<1>3. \A g \in Handlers : Kept(g, b)
  BY <1>1, KeptOrEnded
<1>4. CASE b # c
  BY <1>1, <1>2, <1>3, <1>4 DEF Touched, Untouched, SameRow
<1>5. CASE b = c
  <2>1. row'[b].status \in Open /\ row'[b].version = 1 /\ row'[b].transporter = None
    BY <1>1, <1>2, <1>5 DEF NoRow, Open
  <2>2. row[b].status = "NONE"
    BY <1>5 DEF Create
  <2>3. Inserted(b)
    BY <1>1, <1>3, <2>1, <2>2 DEF Inserted
  <2> QED
    BY <2>3 DEF Touched
<1> QED
  BY <1>4, <1>5

LEMMA SweepTouches ==
  ASSUME TypeOK, NEW b \in Bookings, NEW c \in Bookings, SweepWrite(c)
  PROVE  Touched(b)
<1>1. /\ row \in [Bookings -> Row] /\ row[b] \in Row
      /\ claimants' = claimants /\ unguarded' = unguarded \cup {c}
  BY DEF SweepWrite, TypeOK
<1>2. \A g \in Handlers : Kept(g, b)
  BY KeptOrEnded DEF SweepWrite
<1>3. row' = [row EXCEPT ![c] = [row[c] EXCEPT !.status = "CANCELLED"]]
  BY <1>1 DEF SweepWrite
<1>4. CASE b # c
  BY <1>1, <1>2, <1>3, <1>4 DEF Touched, Untouched, SameRow, SameHistory
<1>5. CASE b = c
  <2>1. /\ row'[b].status = "CANCELLED" /\ row'[b].version = row[b].version
        /\ row'[b].transporter = row[b].transporter
    BY <1>1, <1>3, <1>5 DEF Row
  <2>2. Overwritten(b)
    BY <1>1, <1>2, <1>5, <2>1 DEF Overwritten
  <2> QED
    BY <2>2 DEF Touched
<1> QED
  BY <1>4, <1>5

LEMMA NextTouches ==
  ASSUME TypeOK, NEW b \in Bookings, RowInv(b), [Next]_vars
  PROVE  Touched(b)
<1>1. CASE SweepRead \/ UNCHANGED vars
  <2>1. SameRow(b) /\ SameHistory(b) /\ \A g \in Handlers : req'[g] = req[g]
    BY <1>1 DEF SweepRead, vars, SameRow, SameHistory
  <2> QED
    BY <2>1, KeptOrEnded DEF Touched, Untouched
<1> QED
  BY <1>1, HandleTouches, CreateTouches, SweepTouches DEF Next, ExpireStaleBookings

-----------------------------------------------------------------------------
(* IInv is inductive.  *)

LEMMA InvInit == Init => IInv
  BY TypeInit DEF Init, IInv, RowInv, VersionNamesState, CopyValidated, AbsentIsUnread,
     AssignedIsClosed, Carried, CopiesAgree, OldCopiesLose, UnassignedOrder,
     ClaimantsAreHolder, Holding, Comparing, Saving, Idle, NoRow, UnderWay

LEMMA InvStep == IInv /\ [Next]_vars => IInv'
  BY TypeStep, NextTouches, TouchedKeeps DEF IInv

(* The inductive invariant holds in every reachable state. *)
THEOREM InductiveInvariant == Spec => []IInv
  BY InvInit, InvStep, PTL DEF Spec

(* At most one transporter is ever told that a booking is his, and the row *)
(* keeps him whatever stale copy is saved: for every number of handlers.   *)
THEOREM ClaimIsExclusive == Spec => []ExclusiveClaim
<1>1. IInv => ExclusiveClaim
  BY DEF IInv, RowInv, ClaimantsAreHolder, ExclusiveClaim
<1> QED
  BY <1>1, InductiveInvariant, PTL

(* Nobody carries or completes a booking that no transporter has. *)
THEOREM CarriedIsAssigned == Spec => []UnderWayHasTransporter
<1>1. IInv => UnderWayHasTransporter
  BY DEF IInv, RowInv, Carried, UnderWay, UnderWayHasTransporter
<1> QED
  BY <1>1, InductiveInvariant, PTL

-----------------------------------------------------------------------------
(* The properties of steps.  *)

(* A booking that has a transporter keeps him, whatever touches it.  *)
LEMMA TransporterStays ==
  ASSUME NEW b \in Bookings, RowInv(b), Touched(b), row[b].transporter # None
  PROVE  row'[b].transporter = row[b].transporter
<1>1. row[b].status \notin Open \cup {"NONE"}
  BY DEF RowInv, AssignedIsClosed
<1>2. ASSUME NEW h \in Handlers, Saved(h, b) PROVE row'[b].transporter = row[b].transporter
  BY <1>2, SavedTransporter DEF Saved
<1> QED
  BY <1>1, <1>2 DEF Touched, Untouched, SameRow, Begun, Moved, Claimed, Inserted, Overwritten

(* A compare-and-swap moves a row along a transition the code allows from  *)
(* the status the row HAS, unless the row was written unguarded before.    *)
LEMMA MovedLawfully ==
  ASSUME NEW b \in Bookings \ unguarded, RowInv(b), NEW h \in Handlers, Moved(h, b)
  PROVE  /\ req[h].copy.status = row[b].status
         /\ \/ req[h].to \in ValidTransitions[row[b].status]
            \/ row[b].status = "ACCEPTED" /\ req[h].to = "IN_TRANSIT"
<1>1. req[h].copy.status = row[b].status
  BY DEF RowInv, VersionNamesState, Holding, Comparing, Moved, Fresh
<1> QED
  BY <1>1 DEF RowInv, CopyValidated, Moved

(* A row nobody wrote at a version he had not compared changes its status  *)
(* only when it is inserted, claimed or moved.                             *)
LEMMA GuardedSteps ==
  ASSUME NEW b \in Bookings \ unguarded', RowInv(b), Touched(b),
         row'[b].status # row[b].status
  PROVE  b \notin unguarded /\ (Inserted(b) \/ Claimed(b) \/ \E h \in Handlers : Moved(h, b))
<1>1. ASSUME NEW h \in Handlers, Saved(h, b) PROVE FALSE
  <2>1. b \notin unguarded /\ Fresh(h) /\ row'[b] = req[h].copy /\ Saving(h, b)
    BY <1>1 DEF Saved
  <2>2. req[h].copy.status = row[b].status
    BY <2>1 DEF RowInv, VersionNamesState, Holding, Saving, Fresh
  <2> QED
    BY <2>1, <2>2
<1> QED
  BY <1>1 DEF Touched, Untouched, SameRow, SameHistory, Begun, Moved, Claimed, Inserted,
     Overwritten

LEMMA TouchedLawfully ==
  ASSUME NEW b \in Bookings \ unguarded', RowInv(b), Touched(b),
         row'[b].status # row[b].status
  PROVE  LawfulTransition(row[b], row'[b])
<1>1. /\ b \notin unguarded
      /\ Inserted(b) \/ Claimed(b) \/ \E h \in Handlers : Moved(h, b)
  BY GuardedSteps
<1>2. CASE Inserted(b)
  <2>1. row[b].version = 0
    BY <1>2 DEF Inserted, RowInv, AbsentIsUnread
  <2> QED
    BY <1>2, <2>1 DEF Inserted, LawfulTransition
<1>3. ASSUME NEW h \in Handlers, Moved(h, b) PROVE LawfulTransition(row[b], row'[b])
  BY <1>1, <1>3, MovedLawfully DEF Moved, LawfulTransition
<1>4. CASE Claimed(b)
  <2>1. row[b].status \in Open => "ACCEPTED" \in ValidTransitions[row[b].status]
    BY DEF Open, ValidTransitions, Statuses
  <2> QED
    BY <1>4, <2>1 DEF Claimed, LawfulTransition
<1> QED
  BY <1>1, <1>2, <1>3, <1>4

(* Every change of status, of a row nobody wrote at a version he had not   *)
(* compared, is a transition allowed from the current status.              *)
THEOREM StepsAreLawful == Spec => LawfulSteps
<1>1. IInv /\ [Next]_vars =>
        [\A b \in Bookings \ unguarded' :
           row'[b].status # row[b].status => LawfulTransition(row[b], row'[b])]_vars
  BY NextTouches, TouchedLawfully DEF IInv
<1> QED
  BY <1>1, InductiveInvariant, PTL DEF Spec, LawfulSteps

-----------------------------------------------------------------------------
(* Photos: PhotosRecorded is an invariant beside IInv.  *)

(* A step that starts no request: of what requests hold and rows say of    *)
(* photos, nothing is new that was not uploaded.                           *)
LEMMA PhotosQuiet ==
  ASSUME PhotosRecorded, photographed \subseteq photographed',
         \A b \in Bookings : row'[b].photos => row[b].photos \/ b \in photographed',
         \A h \in Handlers : req'[h].pc # "idle" =>
           /\ req[h].pc # "idle" /\ req'[h].booking = req[h].booking
           /\ req'[h].copy.photos => req[h].copy.photos
           /\ req'[h].pc = "cas" => req'[h] = req[h]
  PROVE  PhotosRecorded'
  BY DEF PhotosRecorded

LEMMA PhotosStarted ==
  ASSUME PhotosRecorded, TypeOK, NEW h \in Handlers, NEW b \in Bookings, NEW r,
         req' = [req EXCEPT ![h] = r], UNCHANGED <<row, photographed>>,
         r.booking = b, r.copy.photos => row[b].photos,
         (r.pc = "cas" /\ r.to = "COMPLETED" /\ r.copy.status = "IN_TRANSIT")
           => r.copy.photos
  PROVE  PhotosRecorded'
<1>1. \A g \in Handlers : req'[g] = IF g = h THEN r ELSE req[g]
  BY DEF TypeOK
<1> QED
  BY <1>1 DEF PhotosRecorded

LEMMA PhotosStart ==
  ASSUME PhotosRecorded, TypeOK, NEW h \in Handlers, NEW b \in Bookings, NEW op, NEW pc,
         NEW by, NEW to, Start(h, op, pc, b, by, to),
         (pc = "cas" /\ to = "COMPLETED" /\ row[b].status = "IN_TRANSIT") => row[b].photos
  PROVE  PhotosRecorded'
<1> DEFINE r == [op |-> op, pc |-> pc, booking |-> b, by |-> by, to |-> to, copy |-> row[b]]
<1>1. req' = [req EXCEPT ![h] = r] /\ UNCHANGED <<row, photographed>>
  BY DEF Start
<1>2. r.booking = b /\ r.pc = pc /\ r.to = to /\ r.copy = row[b]
  OBVIOUS
<1> HIDE DEF r
<1> QED
  BY <1>1, <1>2, PhotosStarted

LEMMA PhotosInit == Init => PhotosRecorded
  BY DEF Init, PhotosRecorded, NoRow, Idle

LEMMA PhotosHandled ==
  ASSUME PhotosRecorded, TypeOK, NEW h \in Handlers, Handle(h)
  PROVE  PhotosRecorded'
<1>1. /\ req \in [Handlers -> Request] /\ row \in [Bookings -> Row] /\ req[h] \in Request
      /\ req[h].copy \in Row /\ Idle.pc = "idle"
      /\ req[h].pc # "idle" => req[h].booking \in Bookings
  BY RequestFields DEF TypeOK, Idle
<1>2. ASSUME NEW b \in Bookings, NEW t \in Transporters, FlagRead(h, b, t)
      PROVE  PhotosRecorded'
  <2> DEFINE flagged == [row[b] EXCEPT !.mismatch = TRUE]
             r == [op |-> "flag", pc |-> "save", booking |-> b, by |-> t,
                   to |-> "NONE", copy |-> flagged]
  <2>1. flagged.photos = row[b].photos
    BY <1>1 DEF Row
  <2>2. req' = [req EXCEPT ![h] = r] /\ UNCHANGED <<row, photographed>>
    BY <1>2 DEF FlagRead
  <2>3. r.booking = b /\ r.pc = "save" /\ r.copy = flagged
    OBVIOUS
  <2> HIDE DEF r, flagged
  <2> QED
    BY <2>1, <2>2, <2>3, PhotosStarted
<1>3. ASSUME NEW b \in Bookings, NEW u \in Users,
             \/ u \in Transporters /\ (AcceptRead(h, b, u) \/ PickupRead(h, b, u)
                                       \/ CompleteRead(h, b, u))
             \/ PhotosRead(h, b, u) \/ \E to \in Statuses : StatusRead(h, b, u, to)
      PROVE  PhotosRecorded'
  BY <1>3, PhotosStart DEF AcceptRead, PickupRead, CompleteRead, PhotosRead, StatusRead,
     PhotosEnforced
<1>4. CASE AcceptCount(h)
  <2>1. req'[h] = Idle \/ req'[h] = [req[h] EXCEPT !.pc = "claim"]
    BY <1>1, <1>4 DEF AcceptCount, Finish, Goto
  <2>2. req'[h].pc # "idle" => /\ req'[h].booking = req[h].booking
                              /\ req'[h].copy = req[h].copy /\ req'[h].pc = "claim"
    BY <1>1, <2>1 DEF Request
  <2> QED
    BY <1>1, <1>4, <2>2, PhotosQuiet DEF AcceptCount, Finish, Goto
<1>5. CASE AcceptClaim(h)
  <2>1. req'[h] = Idle \/ req'[h] = [req[h] EXCEPT !.pc = "otp"]
    BY <1>1, <1>5 DEF AcceptClaim, Finish, Goto
  <2>2. req'[h].pc # "idle" => /\ req'[h].booking = req[h].booking
                              /\ req'[h].copy = req[h].copy /\ req'[h].pc = "otp"
    BY <1>1, <2>1 DEF Request
  <2>3. \A b \in Bookings : row'[b].photos = row[b].photos
    BY <1>1, <1>5 DEF AcceptClaim, Row
  <2>4. \A g \in Handlers \ {h} : req'[g] = req[g]
    BY <1>1, <1>5 DEF AcceptClaim, Finish, Goto
  <2> QED
    BY <1>5, <2>2, <2>3, <2>4, PhotosQuiet DEF AcceptClaim
<1>6. CASE Cas(h)
  <2>1. \/ req'[h] = Idle
        \/ req'[h] = [req[h] EXCEPT !.pc = "save", !.copy = Stamped(h)]
    BY <1>1, <1>6 DEF Cas, Finish
  <2>2. Stamped(h).photos = req[h].copy.photos
    BY <1>1 DEF Stamped, Row
  <2>3. req'[h].pc # "idle" => /\ req'[h].booking = req[h].booking
                              /\ req'[h].copy.photos = req[h].copy.photos
                              /\ req'[h].pc = "save"
    BY <1>1, <2>1, <2>2 DEF Request
  <2>4. \A b \in Bookings : row'[b].photos = row[b].photos
    BY <1>1, <1>6 DEF Cas, Row
  <2>5. \A g \in Handlers \ {h} : req'[g] = req[g]
    BY <1>1, <1>6 DEF Cas, Finish
  <2> QED
    BY <1>6, <2>3, <2>4, <2>5, PhotosQuiet DEF Cas
<1>7. CASE Save(h)
  <2>1. req'[h] = Idle \/ req'[h] = [req[h] EXCEPT !.pc = "tally"]
    BY <1>1, <1>7 DEF Save, Finish, Goto
  <2>2. req'[h].pc # "idle" => /\ req'[h].booking = req[h].booking
                              /\ req'[h].copy = req[h].copy /\ req'[h].pc = "tally"
    BY <1>1, <2>1 DEF Request
  <2>3. \A b \in Bookings : row'[b].photos => row[b].photos \/ b \in photographed
    BY <1>1, <1>7 DEF Save, PhotosRecorded
  <2>4. \A g \in Handlers \ {h} : req'[g] = req[g]
    BY <1>1, <1>7 DEF Save, Finish, Goto
  <2> QED
    BY <1>7, <2>2, <2>3, <2>4, PhotosQuiet DEF Save
<1>8. CASE WriteOtp(h) \/ WritePhotos(h) \/ IncrementCancellationCount(h) \/ Abandon(h)
  <2>1. req'[h].pc = "idle" /\ \A g \in Handlers \ {h} : req'[g] = req[g]
    BY <1>1, <1>8 DEF WriteOtp, WritePhotos, IncrementCancellationCount, Abandon, Finish
  <2>2. /\ photographed \subseteq photographed'
        /\ \A b \in Bookings : row'[b].photos => row[b].photos \/ b \in photographed'
    BY <1>1, <1>8 DEF WriteOtp, WritePhotos, IncrementCancellationCount, Abandon, Row
  <2> QED
    BY <2>1, <2>2, PhotosQuiet
<1> QED
  BY <1>2, <1>3, <1>4, <1>5, <1>6, <1>7, <1>8 DEF Handle, Accept, Transition, Photos, Users

LEMMA PhotosStep ==
  ASSUME PhotosRecorded, TypeOK, [Next]_vars
  PROVE  PhotosRecorded'
<1>1. row \in [Bookings -> Row]
  BY DEF TypeOK
<1>2. ASSUME NEW b \in Bookings, Create(b) PROVE PhotosRecorded'
  <2>1. PICK bidding \in BOOLEAN :
          row' = [row EXCEPT ![b] =
                    [NoRow EXCEPT !.status = IF bidding THEN "BIDDING" ELSE "PENDING",
                                  !.version = 1, !.bidding = bidding]]
    BY <1>2 DEF Create
  <2>2. \A c \in Bookings : row'[c].photos => row[c].photos
    BY <1>1, <2>1 DEF NoRow
  <2> QED
    BY <1>2, <2>2, PhotosQuiet DEF Create
<1>3. ASSUME NEW b \in Bookings, SweepWrite(b) PROVE PhotosRecorded'
  <2>1. \A c \in Bookings : row'[c].photos = row[c].photos
    BY <1>1, <1>3 DEF SweepWrite, Row
  <2> QED
    BY <1>3, <2>1, PhotosQuiet DEF SweepWrite
<1>4. CASE SweepRead \/ UNCHANGED vars
  BY <1>4, PhotosQuiet DEF SweepRead, vars
<1> QED
  BY <1>2, <1>3, <1>4, PhotosHandled DEF Next, ExpireStaleBookings

(* What rows and copies say of photos was uploaded, and a completion that  *)
(* is under way was validated against photos.                              *)
THEOREM PhotosAreRecorded == Spec => []PhotosRecorded
  BY PhotosInit, PhotosStep, TypeCorrect, PTL DEF Spec

(* A booking that reaches COMPLETED straight from IN_TRANSIT was           *)
(* photographed, even when a Save has erased the column since.             *)
THEOREM CompletionsArePhotographed == Spec => CompletedWasPhotographed
<1>1. ASSUME IInv, PhotosRecorded, [Next]_vars, NEW b \in Bookings \ unguarded',
             row[b].status = "IN_TRANSIT", row'[b].status = "COMPLETED"
      PROVE  b \in photographed
  <2>1. /\ TypeOK /\ RowInv(b) /\ b \notin unguarded
        /\ Inserted(b) \/ Claimed(b) \/ \E h \in Handlers : Moved(h, b)
    BY <1>1, NextTouches, GuardedSteps DEF IInv
  <2>2. PICK h \in Handlers : Moved(h, b)
    BY <1>1, <2>1 DEF Inserted, Claimed, Open
  <2>3. req[h].copy.status = "IN_TRANSIT"
    BY <1>1, <2>1, <2>2, MovedLawfully
  <2> QED
    BY <1>1, <2>2, <2>3 DEF Moved, PhotosRecorded
<1>2. IInv /\ PhotosRecorded /\ [Next]_vars =>
        [\A b \in Bookings \ unguarded' :
           (row[b].status = "IN_TRANSIT" /\ row'[b].status = "COMPLETED")
             => b \in photographed]_vars
  BY <1>1
<1> QED
  BY <1>2, InductiveInvariant, PhotosAreRecorded, PTL DEF Spec, CompletedWasPhotographed

-----------------------------------------------------------------------------
(* A cancelled row stays cancelled as long as every write compares. *)
LEMMA CancelledStays ==
  ASSUME IInv, [Next]_vars, NEW b \in Bookings \ unguarded', row[b].status = "CANCELLED"
  PROVE  row'[b].status = "CANCELLED"
<1> SUFFICES ASSUME row'[b].status # row[b].status PROVE FALSE
  OBVIOUS
<1>1. /\ TypeOK /\ RowInv(b) /\ b \notin unguarded
      /\ Inserted(b) \/ Claimed(b) \/ \E h \in Handlers : Moved(h, b)
  BY NextTouches, GuardedSteps DEF IInv
<1>2. PICK h \in Handlers : Moved(h, b)
  BY <1>1 DEF Inserted, Claimed, Open
<1>3. req[h].to \in ValidTransitions["CANCELLED"]
  BY <1>1, <1>2, MovedLawfully
<1> QED
  BY <1>3 DEF ValidTransitions, Statuses, Open, Active

(* Who has cancelled a booking and not counted it: nobody new, h when his  *)
(* compare-and-swap succeeds, everybody but h when he has counted.         *)
UncountedStays == \A g \in Handlers :
  Uncounted(g)' => Uncounted(g) /\ req'[g].booking = req[g].booking

Cancels(h) ==
  /\ req[h].pc = "cas" /\ req[h].to = "CANCELLED" /\ Fresh(h)
  /\ row'[req[h].booking].status = "CANCELLED"
  /\ req'[h].booking = req[h].booking
  /\ \A g \in Handlers \ {h} : req'[g] = req[g]

LEMMA UncountedHandled ==
  ASSUME TypeOK, NEW h \in Handlers, Handle(h)
  PROVE  \/ UncountedStays /\ UNCHANGED cancellations
         \/ Cancels(h) /\ UNCHANGED cancellations
         \/ UncountedStays /\ IncrementCancellationCount(h)
<1> DEFINE keeps == Uncounted(h)' => Uncounted(h) /\ req'[h].booking = req[h].booking
<1>1. req \in [Handlers -> Request] /\ row \in [Bookings -> Row]
  BY DEF TypeOK
<1>2. /\ req[h].pc # "idle" => req[h].booking \in Bookings
      /\ \A g \in Handlers \ {h} : req'[g] = req[g]
  BY <1>1 DEF TypeOK, Handle, Accept, Transition, Photos, AcceptRead, AcceptCount,
     AcceptClaim, WriteOtp, StatusRead, PickupRead, CompleteRead, FlagRead, Cas, Save,
     IncrementCancellationCount, PhotosRead, WritePhotos, Abandon, Start, Finish, Goto
<1>3. keeps => UncountedStays
  BY <1>2 DEF UncountedStays, Uncounted
<1>4. Finish(h) => keeps
  BY <1>1 DEF Finish, Uncounted, Idle
<1>5. ASSUME NEW op, NEW pc \in {"count", "cas", "photos"}, NEW b, NEW u, NEW to,
             Start(h, op, pc, b, u, to)
      PROVE  keeps /\ UNCHANGED cancellations
  BY <1>1, <1>5 DEF Start, Uncounted
<1>6. ASSUME NEW b, NEW t, FlagRead(h, b, t) PROVE keeps /\ UNCHANGED cancellations
  BY <1>1, <1>6 DEF FlagRead, Uncounted
<1>7. ASSUME NEW pc \in {"claim", "otp"}, Goto(h, pc) PROVE keeps
  BY <1>1, <1>7 DEF Goto, Uncounted
<1>8. AcceptCount(h) \/ AcceptClaim(h) => keeps /\ UNCHANGED cancellations
  BY <1>4, <1>7 DEF AcceptCount, AcceptClaim
<1>9. WriteOtp(h) \/ WritePhotos(h) \/ Abandon(h) => keeps /\ UNCHANGED cancellations
  BY <1>4 DEF WriteOtp, WritePhotos, Abandon
<1>10. ASSUME Cas(h)
       PROVE  UNCHANGED cancellations /\ (keeps \/ Cancels(h))
  <2>1. UNCHANGED cancellations
    BY <1>10 DEF Cas
  <2>2. ASSUME req[h].to # "CANCELLED", req' = [req EXCEPT ![h].pc = "save", ![h].copy = Stamped(h)]
        PROVE  keeps
    BY <1>1, <2>2 DEF Uncounted
  <2>3. CASE req[h].to # "CANCELLED" \/ ~Fresh(h)
    BY <1>4, <1>10, <2>1, <2>2, <2>3 DEF Cas
  <2>4. CASE req[h].to = "CANCELLED" /\ Fresh(h)
    <3>1. req[h].pc = "cas" /\ req[h].booking \in Bookings
      BY <1>2, <1>10 DEF Cas
    <3>2. row'[req[h].booking].status = "CANCELLED"
      <4>1. row' = [row EXCEPT ![req[h].booking].status = req[h].to,
                               ![req[h].booking].version = req[h].copy.version + 1]
        BY <1>10, <2>4 DEF Cas
      <4> QED
        BY <1>1, <2>4, <3>1, <4>1
    <3>3. req' = [req EXCEPT ![h].pc = "save", ![h].copy = Stamped(h)]
      BY <1>10, <2>4 DEF Cas, SavedTargets
    <3>4. req'[h].booking = req[h].booking
      BY <1>1, <3>3
    <3> QED
      BY <1>2, <2>1, <2>4, <3>1, <3>2, <3>4 DEF Cancels
  <2> QED
    BY <2>3, <2>4
<1>11. ASSUME Save(h) PROVE keeps /\ UNCHANGED cancellations
  <2>1. ASSUME req[h].pc = "save", req[h].to = "CANCELLED", Goto(h, "tally") PROVE keeps
    BY <1>1, <2>1 DEF Goto, Uncounted
  <2> QED
    BY <1>4, <1>11, <2>1 DEF Save
<1>12. IncrementCancellationCount(h) => keeps
  BY <1>4 DEF IncrementCancellationCount
<1>13. CASE Accept(h)
  BY <1>3, <1>5, <1>8, <1>9, <1>13 DEF Accept, AcceptRead
<1>14. CASE Transition(h)
  BY <1>3, <1>5, <1>6, <1>10, <1>11, <1>12, <1>14 DEF Transition, StatusRead, PickupRead,
     CompleteRead
<1>15. CASE Photos(h) \/ Abandon(h)
  BY <1>3, <1>5, <1>9, <1>15 DEF Photos, PhotosRead
<1> QED
  BY <1>13, <1>14, <1>15 DEF Handle

(* What is counted stays counted, and is counted once more. *)
LEMMA CountKept ==
  ASSUME NEW by, CountedBy(by), CountsApart(by), UNCHANGED cancellations, UncountedStays,
         \A h \in Handlers : Uncounted(h) => req[h].booking \in Bookings,
         \A b \in Bookings : row[b].status = "CANCELLED" => row'[b].status = "CANCELLED"
  PROVE  CountedBy(by)' /\ CountsApart(by)'
<1>1. CountedBy(by)'
  BY DEF CountedBy, Counted
<1>2. ASSUME NEW h \in Handlers, Uncounted(h)'
      PROVE  /\ row'[req'[h].booking].status = "CANCELLED" /\ by[req'[h].booking] = None
             /\ \A g \in Handlers :
                  Uncounted(g)' /\ req'[g].booking = req'[h].booking => g = h
  BY <1>2 DEF CountsApart, UncountedStays
<1> QED
  BY <1>1, <1>2 DEF CountsApart, Counted

LEMMA CountCancels ==
  ASSUME TypeOK, NEW by, CountedBy(by), CountsApart(by), UNCHANGED cancellations,
         NEW h \in Handlers, Cancels(h), req[h].booking \in Bookings,
         row[req[h].booking].status # "CANCELLED",
         \A g \in Handlers : Uncounted(g) => req[g].booking \in Bookings,
         \A b \in Bookings : row[b].status = "CANCELLED" => row'[b].status = "CANCELLED"
  PROVE  CountedBy(by)' /\ CountsApart(by)'
<1>1. CountedBy(by)'
  BY DEF CountedBy, Counted
<1>2. by[req[h].booking] = None
  BY DEF CountedBy
<1>3. \A g \in Handlers \ {h} : /\ Uncounted(g)' <=> Uncounted(g)
                                /\ req'[g].booking = req[g].booking
  BY DEF Cancels, Uncounted
<1>4. \A g \in Handlers : Uncounted(g) => req[g].booking # req[h].booking
  BY DEF CountsApart
<1>5. ASSUME NEW f \in Handlers, Uncounted(f)'
      PROVE  /\ row'[req'[f].booking].status = "CANCELLED" /\ by[req'[f].booking] = None
             /\ \A g \in Handlers :
                  Uncounted(g)' /\ req'[g].booking = req'[f].booking => g = f
  <2>1. CASE f = h
    BY <1>2, <1>3, <1>4, <2>1 DEF Cancels
  <2>2. CASE f # h
    BY <1>3, <1>4, <1>5, <2>2 DEF Cancels, CountsApart
  <2> QED
    BY <2>1, <2>2
<1> QED
  BY <1>1, <1>5 DEF CountsApart, Counted

LEMMA CountIncremented ==
  ASSUME TypeOK, NEW by, CountedBy(by), CountsApart(by), UncountedStays,
         NEW h \in Handlers, IncrementCancellationCount(h), Uncounted(h),
         req[h].booking \in Bookings, req[h].by \in Users,
         \A g \in Handlers : Uncounted(g) => req[g].booking \in Bookings
  PROVE  \E more \in [Bookings -> Users \cup {None}] :
           CountedBy(more)' /\ CountsApart(more)'
<1>0. PICK b \in Bookings, u \in Users : b = req[h].booking /\ u = req[h].by
  OBVIOUS
<1> DEFINE more == [by EXCEPT ![b] = u]
<1>1. /\ by \in [Bookings -> Users \cup {None}] /\ by[b] = None
      /\ row' = row /\ row[b].status = "CANCELLED" /\ None \notin Users
      /\ cancellations \in [Users -> Nat]
  BY <1>0, ConstantsAssumption DEF CountedBy, CountsApart, IncrementCancellationCount, TypeOK, Users
<1>2. more \in [Bookings -> Users \cup {None}]
  BY <1>1
<1>3. /\ Counted(u, more) = Counted(u, by) \cup {b} /\ b \notin Counted(u, by)
      /\ \A v \in Users \ {u} : Counted(v, more) = Counted(v, by)
  BY <1>1 DEF Counted
<1>4. /\ cancellations' = [cancellations EXCEPT ![u] = cancellations[u] + 1]
      /\ \A v \in Users : IsFiniteSet(Counted(v, by)) /\ Cardinality(Counted(v, by)) = cancellations[v]
  BY <1>0, <1>1 DEF IncrementCancellationCount, CountedBy, CountsApart
<1>5. /\ IsFiniteSet(Counted(u, more))
      /\ Cardinality(Counted(u, more)) = cancellations[u] + 1
  <2> HIDE DEF more
  <2>1. IsFiniteSet(Counted(u, by)) /\ Cardinality(Counted(u, by)) = cancellations[u]
    BY <1>4
  <2>2. /\ IsFiniteSet(Counted(u, by) \cup {b})
        /\ Cardinality(Counted(u, by) \cup {b}) = Cardinality(Counted(u, by)) + 1
    BY <1>3, <2>1, FS_AddElement, Zenon
  <2> QED
    BY <1>3, <2>1, <2>2
<1>6. \A v \in Users : /\ IsFiniteSet(Counted(v, more))
                       /\ Cardinality(Counted(v, more)) = cancellations'[v]
  <2> HIDE DEF more
  <2> QED
    BY <1>1, <1>3, <1>4, <1>5
<1>7. CountedBy(more)'
  <2>1. \A c \in Bookings : more[c] # None => row'[c].status = "CANCELLED"
    BY <1>1 DEF CountedBy
  <2>2. \A v \in Users : Cardinality(Counted(v, more)') = cancellations'[v]
    BY <1>6 DEF Counted
  <2> QED
    BY <1>2, <2>1, <2>2 DEF CountedBy
<1>8. ~Uncounted(h)'
  BY DEF IncrementCancellationCount, Finish, Uncounted, Idle, TypeOK
<1>9. ASSUME NEW f \in Handlers, Uncounted(f)'
      PROVE  /\ row'[req'[f].booking].status = "CANCELLED" /\ more[req'[f].booking] = None
             /\ \A g \in Handlers :
                  Uncounted(g)' /\ req'[g].booking = req'[f].booking => g = f
  <2>1. f # h /\ Uncounted(f) /\ req'[f].booking = req[f].booking
    BY <1>8, <1>9 DEF UncountedStays
  <2>2. req[f].booking # b
    BY <1>0, <2>1 DEF CountsApart
  <2> QED
    BY <1>1, <2>1, <2>2 DEF CountsApart, UncountedStays
<1>10. CountsApart(more)'
  BY <1>6, <1>9 DEF CountsApart, Counted
<1> QED
  BY <1>2, <1>7, <1>10

LEMMA CountInit == Init => CountInv
<1> SUFFICES ASSUME Init PROVE CountInv
  OBVIOUS
<1> DEFINE by == [b \in Bookings |-> None]
<1>1. None \notin Users /\ by \in [Bookings -> Users \cup {None}]
  BY ConstantsAssumption DEF Users
<1>2. \A u \in Users : Counted(u, by) = {}
  BY <1>1 DEF Counted
<1> HIDE DEF by
<1>3. \A u \in Users : IsFiniteSet(Counted(u, by)) /\ Cardinality(Counted(u, by)) = 0
  BY <1>2, FS_EmptySet
<1>4. \A b \in Bookings : by[b] = None
  BY DEF by
<1>5. CountedBy(by)
  BY <1>1, <1>3, <1>4 DEF CountedBy, Init
<1>6. CountsApart(by)
  BY <1>3 DEF CountsApart, Uncounted, Init, Idle
<1> QED
  BY <1>1, <1>5, <1>6 DEF CountInv

LEMMA CountStep == IInv /\ CountInv /\ [Next]_vars => CountInv'
<1> SUFFICES ASSUME IInv, CountInv, [Next]_vars, unguarded' = {}
             PROVE  \E by \in [Bookings -> Users \cup {None}] :
                      CountedBy(by)' /\ CountsApart(by)'
  BY DEF CountInv
<1>1. TypeOK /\ \A b \in Bookings : RowInv(b)
  BY DEF IInv
<1>2. unguarded = {} /\ \A b \in Bookings : ~SweepWrite(b)
  BY DEF Next, vars, Create, Handle, Accept, Transition, Photos, AcceptRead, AcceptCount,
     AcceptClaim, WriteOtp, StatusRead, PickupRead, CompleteRead, FlagRead, Cas, Save,
     IncrementCancellationCount, PhotosRead, WritePhotos, Abandon, Start,
     ExpireStaleBookings, SweepRead, SweepWrite
<1>3. PICK by \in [Bookings -> Users \cup {None}] : CountedBy(by) /\ CountsApart(by)
  BY <1>2 DEF CountInv
<1>4. \A b \in Bookings : row[b].status = "CANCELLED" => row'[b].status = "CANCELLED"
  BY CancelledStays
<1>5. \A h \in Handlers : req[h].pc # "idle" => req[h].booking \in Bookings /\ req[h].by \in Users
  BY <1>1 DEF TypeOK
<1>6. \A h \in Handlers : Uncounted(h) => req[h].booking \in Bookings
  BY <1>5 DEF Uncounted
<1>7. UncountedStays /\ UNCHANGED cancellations => CountedBy(by)' /\ CountsApart(by)'
  BY <1>3, <1>4, <1>6, CountKept
<1>8. CASE req' = req /\ UNCHANGED cancellations
  BY <1>3, <1>7, <1>8 DEF UncountedStays, Uncounted
<1>9. ASSUME NEW h \in Handlers, Cancels(h), UNCHANGED cancellations
      PROVE  CountedBy(by)' /\ CountsApart(by)'
  <2>1. req[h].booking \in Bookings /\ req[h].pc = "cas" /\ req[h].to = "CANCELLED" /\ Fresh(h)
    BY <1>5, <1>9 DEF Cancels
  <2> DEFINE b == req[h].booking
  <2>2. req[h].copy.status = row[b].status
    BY <1>1, <1>2, <2>1 DEF RowInv, VersionNamesState, Holding, Comparing, Fresh
  <2>3. "CANCELLED" \in ValidTransitions[row[b].status]
    BY <1>1, <2>1, <2>2 DEF RowInv, CopyValidated
  <2>4. row[b].status # "CANCELLED"
    BY <2>3 DEF ValidTransitions, Statuses, Open, Active
  <2> QED
    BY <1>1, <1>3, <1>4, <1>6, <1>9, <2>1, <2>4, CountCancels
<1>10. ASSUME NEW h \in Handlers, IncrementCancellationCount(h), UncountedStays
       PROVE  \E more \in [Bookings -> Users \cup {None}] :
                CountedBy(more)' /\ CountsApart(more)'
  <2>1. Uncounted(h) /\ req[h].booking \in Bookings /\ req[h].by \in Users
    BY <1>5, <1>10 DEF IncrementCancellationCount, Uncounted
  <2> QED
    BY <1>1, <1>3, <1>6, <1>10, <2>1, CountIncremented
<1>11. CASE \E h \in Handlers : Handle(h)
  BY <1>1, <1>3, <1>7, <1>9, <1>10, <1>11, UncountedHandled
<1> QED
  BY <1>2, <1>8, <1>11 DEF Next, vars, Create, ExpireStaleBookings, SweepRead

(* A cancellation is counted once, for one user, whoever races, retries or *)
(* dies half-way, as long as every row was written under its version.      *)
THEOREM CancelledOnce == Spec => []CancellationsCountedOnce
<1>1. CountInv => CancellationsCountedOnce
  BY DEF CountInv, CancellationsCountedOnce
<1> QED
  BY <1>1, CountInit, CountStep, InductiveInvariant, PTL DEF Spec

-----------------------------------------------------------------------------
(* Refinement of JobOffer, in a workload without the sweep.  *)
LEMMA UnassignedGuardedStep ==
  ASSUME "sweep" \notin Ops
  PROVE  /\ Init => UnassignedIsGuarded
         /\ IInv /\ UnassignedIsGuarded /\ [Next]_vars => UnassignedIsGuarded'
<1>1. Init => UnassignedIsGuarded
  BY DEF Init, UnassignedIsGuarded
<1>2. ASSUME IInv, UnassignedIsGuarded, [Next]_vars PROVE UnassignedIsGuarded'
  <2>1. sweep = {} /\ sweep' = {}
    BY <1>2 DEF UnassignedIsGuarded, Next, vars, Create, Handle, Accept, Transition,
       Photos, AcceptRead, AcceptCount, AcceptClaim, WriteOtp, StatusRead, PickupRead,
       CompleteRead, FlagRead, Cas, Save, IncrementCancellationCount, PhotosRead,
       WritePhotos, Abandon, Start, ExpireStaleBookings, SweepRead, SweepWrite
  <2>2. ASSUME NEW b \in Bookings, row'[b].transporter = None PROVE b \notin unguarded'
    <3>1. TypeOK /\ RowInv(b) /\ Touched(b)
      BY <1>2, NextTouches DEF IInv
    <3>2. row[b].transporter = None /\ b \notin unguarded
      BY <2>2, <3>1, TransporterStays, <1>2 DEF UnassignedIsGuarded
    <3>3. ASSUME NEW h \in Handlers, Save(h) PROVE b \notin unguarded'
      <4>1. CASE req[h].booking # b
        BY <3>2, <3>3, <4>1 DEF Save
      <4>2. CASE req[h].booking = b
        BY <3>1, <3>2, <3>3, <4>2, SavedTransporter DEF Save, Saving
      <4> QED
        BY <4>1, <4>2
    <3> QED
      BY <1>2, <2>1, <3>2, <3>3 DEF Next, vars, Create, Handle, Accept, Transition,
         Photos, AcceptRead, AcceptCount, AcceptClaim, WriteOtp, StatusRead, PickupRead,
         CompleteRead, FlagRead, Cas, IncrementCancellationCount, PhotosRead,
         WritePhotos, Abandon, Start, ExpireStaleBookings, SweepRead, SweepWrite
  <2> QED
    BY <2>1, <2>2 DEF UnassignedIsGuarded
<1> QED
  BY <1>1, <1>2

THEOREM UnassignedStaysGuarded == Spec => []UnassignedIsGuarded
<1>1. CASE "sweep" \in Ops
  <2>1. UnassignedIsGuarded
    BY <1>1 DEF UnassignedIsGuarded
  <2> QED
    BY <2>1, PTL
<1>2. CASE "sweep" \notin Ops
  BY <1>2, UnassignedGuardedStep, InductiveInvariant, PTL DEF Spec
<1> QED
  BY <1>1, <1>2

(* The implementation of JobOffer: every initial state of the bookings is  *)
(* an initial state of the jobs, and every step of a request posts, takes  *)
(* or withdraws one job, or leaves all jobs alone.                         *)
LEMMA JobInit == Init => Job!Init
  BY DEF Init, Job!Init, offerBar, holderBar, NoRow

LEMMA OneRow ==
  ASSUME TypeOK, [Next]_vars
  PROVE  row' = row \/ \E b \in Bookings : \A c \in Bookings \ {b} : row'[c] = row[c]
<1>1. /\ row \in [Bookings -> Row]
      /\ \A h \in Handlers : req[h].pc # "idle" => req[h].booking \in Bookings
  BY DEF TypeOK
<1>2. ASSUME NEW h \in Handlers, Handle(h)
      PROVE  row' = row \/ \A c \in Bookings \ {req[h].booking} : row'[c] = row[c]
  BY <1>1, <1>2 DEF Handle, Accept, Transition, Photos, AcceptRead, AcceptCount, AcceptClaim,
     WriteOtp, StatusRead, PickupRead, CompleteRead, FlagRead, Cas, Save,
     IncrementCancellationCount, PhotosRead, WritePhotos, Start, Abandon
<1>3. ASSUME NEW h \in Handlers, Handle(h), row' # row PROVE req[h].booking \in Bookings
  BY <1>1, <1>3 DEF Handle, Accept, Transition, Photos, AcceptRead, AcceptCount, AcceptClaim,
     WriteOtp, StatusRead, PickupRead, CompleteRead, FlagRead, Cas, Save,
     IncrementCancellationCount, PhotosRead, WritePhotos, Start, Abandon
<1> QED
  BY <1>1, <1>2, <1>3 DEF Next, vars, Create, ExpireStaleBookings, SweepRead, SweepWrite

LEMMA JobFrame ==
  ASSUME NEW b \in Bookings, \A c \in Bookings \ {b} : row'[c] = row[c]
  PROVE  /\ offerBar' = [offerBar EXCEPT ![b] = offerBar'[b]]
         /\ holderBar' = [holderBar EXCEPT ![b] = row'[b].transporter]
         /\ row'[b].transporter = row[b].transporter => holderBar' = holderBar
         /\ offerBar'[b] = offerBar[b] => offerBar' = offerBar
  BY DEF offerBar, holderBar

LEMMA JobStep ==
  ASSUME "sweep" \notin Ops, IInv, IInv', UnassignedIsGuarded, UnassignedIsGuarded',
         [Next]_vars
  PROVE  [Job!Next]_(Job!vars)
<1>1. CASE row' = row
  BY <1>1 DEF Job!vars, offerBar, holderBar
<1>2. ASSUME NEW b \in Bookings, \A c \in Bookings \ {b} : row'[c] = row[c]
      PROVE [Job!Next]_(Job!vars)
  <2>0. TypeOK /\ RowInv(b) /\ RowInv(b)' /\ Touched(b)
    BY NextTouches DEF IInv
  <2>1. /\ offerBar[b] = IF row[b].status = "NONE" THEN "absent"
                        ELSE IF row[b].status \in Open THEN "open" ELSE "closed"
        /\ offerBar'[b] = IF row'[b].status = "NONE" THEN "absent"
                         ELSE IF row'[b].status \in Open THEN "open" ELSE "closed"
    BY DEF offerBar
  <2>2. offerBar' = offerBar /\ holderBar' = holderBar => [Job!Next]_(Job!vars)
    BY DEF Job!vars
  <2>3. row'[b].status = row[b].status /\ row'[b].transporter = row[b].transporter
          => [Job!Next]_(Job!vars)
    BY <1>2, <2>1, <2>2, JobFrame
  <2>4. CASE row[b].transporter # None
    <3>1. row'[b].transporter = row[b].transporter
      BY <2>0, <2>4, TransporterStays
    <3>2. offerBar[b] = "closed" /\ offerBar'[b] = "closed"
      BY <2>0, <2>1, <2>4, <3>1 DEF RowInv, AssignedIsClosed
    <3> QED
      BY <1>2, <2>2, <3>1, <3>2, JobFrame
  <2>5. CASE Inserted(b)
    <3>1. offerBar[b] = "absent" /\ offerBar'[b] = "open"
      BY <2>1, <2>5 DEF Inserted, Open
    <3>2. row[b].transporter = None
      BY <2>0, <2>5 DEF RowInv, AssignedIsClosed, Inserted
    <3>3. Job!Post(b)
      BY <1>2, <2>5, <3>1, <3>2, JobFrame DEF Inserted, Job!Post
    <3> QED
      BY <3>3 DEF Job!Next
  <2>6. CASE Claimed(b)
    <3>1. offerBar[b] = "open" /\ offerBar'[b] = "closed"
      BY <2>1, <2>6 DEF Claimed, Open
    <3>2. Job!Take(b, row'[b].transporter)
      BY <1>2, <2>6, <3>1, JobFrame DEF Claimed, Job!Take
    <3> QED
      BY <2>6, <3>2 DEF Job!Next, Claimed
  <2>7. ASSUME NEW h \in Handlers, Moved(h, b), row[b].transporter = None
        PROVE [Job!Next]_(Job!vars)
    <3>1. b \notin unguarded
      BY <2>7 DEF UnassignedIsGuarded
    <3>2. \/ req[h].to \in ValidTransitions[row[b].status]
          \/ row[b].status = "ACCEPTED" /\ req[h].to = "IN_TRANSIT"
      BY <2>0, <2>7, <3>1, MovedLawfully
    <3>3. /\ req[h].to \in Statuses \cup {"NONE"}
          /\ row[b].status \in Statuses \cup {"NONE"}
      BY <2>0, RequestFields, RowFields DEF TypeOK
    <3>4. /\ row'[b].status # "NONE" /\ row[b].status # "NONE"
          /\ row'[b].status \in Open => row[b].status \in Open
      BY <2>7, <3>2, <3>3, TransitionsClose DEF Moved
    <3>5. CASE offerBar'[b] = offerBar[b]
      BY <1>2, <2>2, <2>7, <3>5, JobFrame DEF Moved
    <3>6. CASE offerBar'[b] # offerBar[b]
      <4>1. offerBar[b] = "open" /\ offerBar'[b] = "closed"
        BY <2>1, <3>4, <3>6
      <4>2. Job!Withdraw(b)
        BY <1>2, <2>7, <4>1, JobFrame DEF Moved, Job!Withdraw
      <4> QED
        BY <4>2 DEF Job!Next
    <3> QED
      BY <3>5, <3>6
  <2>8. CASE row[b].transporter = None /\ row'[b].status # row[b].status
    <3>1. \/ b \notin unguarded'
          \/ row'[b].transporter # None
      BY DEF UnassignedIsGuarded
    <3>2. b \notin unguarded' \/ Claimed(b)
      BY <2>0, <2>8, <3>1, SavedTransporter DEF Touched, Untouched, SameRow, Begun, Moved,
         Saved, Inserted, Overwritten
    <3> QED
      BY <2>0, <2>5, <2>6, <2>7, <2>8, <3>2, GuardedSteps
  <2>9. CASE row[b].transporter = None /\ row'[b].status = row[b].status
    <3>1. row'[b].transporter = row[b].transporter \/ Claimed(b)
      BY <2>0, <2>9, SavedTransporter DEF Touched, Untouched, SameRow, Begun, Moved, Saved,
         Inserted, Overwritten
    <3> QED
      BY <2>3, <2>6, <2>9, <3>1
  <2> QED
    BY <2>4, <2>8, <2>9
<1> QED
  BY <1>1, <1>2, OneRow DEF IInv

(* The booking requests implement the job offer: a job is won at most      *)
(* once, never changes hands and never reopens, whatever requests          *)
(* interleave and whatever stale copies they save.                         *)
THEOREM ImplementsJobOffer ==
  ASSUME "sweep" \notin Ops
  PROVE  Spec => JobOfferSpec
<1>1. IInv /\ IInv' /\ UnassignedIsGuarded /\ UnassignedIsGuarded' /\ [Next]_vars
        => [Job!Next]_(Job!vars)
  BY JobStep
<1> QED
  BY <1>1, JobInit, InductiveInvariant, UnassignedStaysGuarded, PTL
     DEF Spec, JobOfferSpec, Job!Spec

=============================================================================
