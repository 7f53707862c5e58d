---------------------------- MODULE MarketProofs ----------------------------
(***************************************************************************)
(* Money and auctions: the two components that write into the rows of      *)
(* BookingLifecycle beside its own requests.                               *)
(*                                                                         *)
(* What PaymentEscrow promises of money holds for any number of bookings,  *)
(* webhook handlers and requests, however often events are delivered and   *)
(* passes of releaseEscrow die.  PaidOutOnce and PaidOutWasCharged speak   *)
(* of releases that happened; EscrowInv adds what is known of the one that *)
(* is coming: the payment it read, the booking it selected, and that a     *)
(* booking it has before it was not released.  That a selected booking     *)
(* keeps its transporter is IInv's.                                        *)
(*                                                                         *)
(* What Bidding promises of auctions holds for any number of bids, clerks  *)
(* and schedulers.  OneAward says nothing of the swap that a clerk still   *)
(* has in mind; AuctionInv adds RowInv, by which an assigned booking is    *)
(* not open and a booking that is open was not won.                        *)
(***************************************************************************)
EXTENDS PaymentEscrow, Bidding, BookingProofs

PaymentShapes ==
  /\ payment \in [Bookings -> Payments]
  /\ events \in [Bookings -> SUBSET Events]
  /\ hook \in [Hooks -> [pc : {"idle", "create", "save", "sync"},
                         booking : Bookings \cup {None}, event : Events \cup {"none"}]]
  /\ \A c \in Hooks :
       /\ hook[c].pc # "idle" => hook[c].booking \in Bookings
       /\ hook[c].pc \in {"save", "sync"} => hook[c].event \in events[hook[c].booking]
       /\ hook[c].pc = "sync" => hook[c].event # "refunded"
  /\ release \in [pc : {"idle", "next", "save", "sync"}, todo : SUBSET Bookings,
                  booking : Bookings \cup {None}]
  /\ release.pc \in {"save", "sync"} => release.booking \in Bookings
  /\ paidOut \in [Bookings -> Nat]
  /\ unrecorded \subseteq Bookings /\ reopened \subseteq Bookings

\* The booking a pass is releasing, none between two of them.
Releasing == IF release.pc \in {"save", "sync"} THEN {release.booking} ELSE {}

\* What is in escrow, or on its way out of it, succeeded at Stripe.
HeldIsCollected ==
  \A b \in Bookings :
    payment[b] = "ESCROWED" \/ b \in Releasing \/ paidOut[b] > 0 => "succeeded" \in events[b]

\* What was selected or paid out has a transporter.
PaidIsAssigned ==
  \A b \in Bookings :
    b \in release.todo \cup Releasing \/ paidOut[b] > 0 => row[b].transporter # None

\* A booking a pass has before it was never released, and one that was
\* released says so, unless the pass is about to write that.
ReleaseIsRecorded ==
  /\ release.pc = "idle" => release.todo = {}
  /\ release.todo \cap Releasing = {}
  /\ \A b \in Bookings \ unrecorded :
       /\ paidOut[b] <= 1
       /\ b \in release.todo => paidOut[b] = 0
       /\ release.pc = "save" /\ release.booking = b => paidOut[b] = 0
       /\ paidOut[b] = 1 => row[b].released \/ (release.pc = "sync" /\ release.booking = b)

\* A payment that was released still says so, unless a webhook overwrote it:
\* a pass only releases a payment that was not, recorded or not.
PaymentTellsRelease ==
  \A b \in Bookings \ reopened :
    /\ paidOut[b] <= 1
    /\ release.pc = "save" /\ release.booking = b => paidOut[b] = 0
    /\ paidOut[b] = 1 => payment[b] = "RELEASED"

EscrowInv ==
  /\ IInv
  /\ PaymentShapes
  /\ HeldIsCollected
  /\ PaidIsAssigned
  /\ ReleaseIsRecorded
  /\ PaymentTellsRelease

-----------------------------------------------------------------------------
(* The booking rows.                                                       *)

\* A booking keeps its transporter, whatever a booking request does.
LEMMA RequestsKeepTransporter ==
  ASSUME IInv, [Next]_vars, NEW b \in Bookings, row[b].transporter # None
  PROVE  row'[b].transporter # None
  BY NextTouches, TransporterStays DEF IInv

\* No column that payment writes is one that IInv speaks of.
LEMMA PaymentColumns ==
  ASSUME IInv, NEW b \in Bookings, NEW p \in PaymentStatuses, NEW r \in BOOLEAN,
         row' = [row EXCEPT ![b] = [row[b] EXCEPT !.payment = p, !.released = r]],
         UNCHANGED <<req, sweep, cancellations, claimants, photographed, unguarded>>
  PROVE  IInv'
<1>1. row' \in [Bookings -> Row] /\ \A c \in Bookings : SameRow(c)
  <2>1. row \in [Bookings -> Row] /\ row[b] \in Row
    BY DEF IInv, TypeOK
  <2>2. /\ [row[b] EXCEPT !.payment = p, !.released = r] \in Row
        /\ [row[b] EXCEPT !.payment = p, !.released = r].status = row[b].status
        /\ [row[b] EXCEPT !.payment = p, !.released = r].version = row[b].version
        /\ [row[b] EXCEPT !.payment = p, !.released = r].transporter = row[b].transporter
    BY <2>1 DEF Row
  <2> HIDE DEF Row
  <2> QED
    BY <2>1, <2>2 DEF SameRow
<1>2. TypeOK'
  BY <1>1 DEF IInv, TypeOK
<1>3. \A c \in Bookings : Untouched(c)
  BY <1>1, KeptOrEnded DEF Untouched, SameHistory
<1> QED
  BY <1>2, <1>3, UntouchedKeeps DEF IInv

\* A step that leaves bookings, requests and the sweep alone.
LEMMA RowsRest == ASSUME IInv, UNCHANGED vars PROVE IInv'
BY InvStep

-----------------------------------------------------------------------------
(* The steps.                                                              *)

LEMMA EscrowInitInv == EscrowInit => EscrowInv
<1> SUFFICES ASSUME EscrowInit PROVE EscrowInv
  OBVIOUS
<1>1. IInv
  BY InvInit DEF EscrowInit
<1>2. PaymentShapes
  BY DEF EscrowInit, PaymentShapes, Payments, IdleHook, IdleRelease
<1>3. HeldIsCollected /\ PaidIsAssigned /\ ReleaseIsRecorded
  BY DEF EscrowInit, HeldIsCollected, PaidIsAssigned, ReleaseIsRecorded, Releasing, IdleRelease
<1>4. PaymentTellsRelease
  BY DEF EscrowInit, PaymentTellsRelease, IdleRelease
<1> QED
  BY <1>1, <1>2, <1>3, <1>4 DEF EscrowInv

LEMMA BookingSteps ==
  ASSUME EscrowInv, BookingStep
  PROVE  EscrowInv'
<1>1. IInv'
  BY InvStep DEF EscrowInv, BookingStep
<1>2. PaymentShapes'
  BY DEF EscrowInv, PaymentShapes, BookingStep
<1>3. HeldIsCollected'
  BY DEF EscrowInv, HeldIsCollected, BookingStep, Releasing
<1>4. PaidIsAssigned'
  BY RequestsKeepTransporter DEF EscrowInv, PaidIsAssigned, BookingStep, Releasing
<1>5. ReleaseIsRecorded'
  BY DEF EscrowInv, ReleaseIsRecorded, BookingStep, Releasing
<1>6. PaymentTellsRelease'
  BY DEF EscrowInv, PaymentTellsRelease, BookingStep
<1> QED
  BY <1>1, <1>2, <1>3, <1>4, <1>5, <1>6 DEF EscrowInv

LEMMA StripeSteps ==
  ASSUME EscrowInv, NEW b \in Bookings, StripeEmits(b)
  PROVE  EscrowInv'
<1>1. IInv'
  BY RowsRest DEF EscrowInv, StripeEmits
<1>2. PICK e \in Events : events' = [events EXCEPT ![b] = events[b] \cup {e}]
  BY DEF StripeEmits
<1>3. events' \in [Bookings -> SUBSET Events] /\ \A c \in Bookings : events[c] \subseteq events'[c]
  BY <1>2 DEF EscrowInv, PaymentShapes
<1>4. PaymentShapes'
  BY <1>3 DEF EscrowInv, PaymentShapes, StripeEmits
<1>5. HeldIsCollected'
  BY <1>3 DEF EscrowInv, HeldIsCollected, StripeEmits, Releasing
<1>6. PaidIsAssigned' /\ ReleaseIsRecorded' /\ PaymentTellsRelease'
  BY DEF EscrowInv, PaidIsAssigned, ReleaseIsRecorded, PaymentTellsRelease, StripeEmits,
     Releasing, vars
<1> QED
  BY <1>1, <1>4, <1>5, <1>6 DEF EscrowInv

\* A handler changes its own state, and payments other than to ESCROWED
\* unless a success was delivered.
LEMMA HookSteps ==
  ASSUME EscrowInv, NEW c \in Hooks, Hooking(c)
  PROVE  EscrowInv'
<1>1. ASSUME UNCHANGED <<vars, events, release, paidOut, unrecorded>>,
             PaymentShapes',
             \A b \in Bookings : payment'[b] = "ESCROWED"
                => payment[b] = "ESCROWED" \/ "succeeded" \in events[b],
             reopened \subseteq reopened',
             \A b \in Bookings \ reopened' :
                payment[b] = "RELEASED" => payment'[b] = "RELEASED"
      PROVE  EscrowInv'
  <2>1. IInv'
    BY <1>1, RowsRest DEF EscrowInv
  <2>2. HeldIsCollected'
    BY <1>1 DEF EscrowInv, HeldIsCollected, Releasing
  <2>3. PaidIsAssigned' /\ ReleaseIsRecorded'
    BY <1>1 DEF EscrowInv, PaidIsAssigned, ReleaseIsRecorded, Releasing, vars
  <2>4. PaymentTellsRelease'
    BY <1>1 DEF EscrowInv, PaymentTellsRelease
  <2> QED
    BY <1>1, <2>1, <2>2, <2>3, <2>4 DEF EscrowInv
<1>2. ASSUME NEW b \in Bookings, InitiateRead(c, b) PROVE EscrowInv'
  <2>1. PaymentShapes'
    BY <1>2 DEF EscrowInv, PaymentShapes, InitiateRead, IdleHook
  <2> QED
    BY <1>1, <1>2, <2>1 DEF InitiateRead
<1>3. CASE InitiateCreate(c)
  <2>1. PaymentShapes'
    BY <1>3 DEF EscrowInv, PaymentShapes, InitiateCreate, IdleHook, Payments
  <2> QED
    BY <1>1, <1>3, <2>1 DEF InitiateCreate, EscrowInv, PaymentShapes
<1>4. ASSUME NEW b \in Bookings, NEW e \in Events, HookRead(c, b, e) PROVE EscrowInv'
  <2>1. PaymentShapes'
    BY <1>4 DEF EscrowInv, PaymentShapes, HookRead
  <2> QED
    BY <1>1, <1>4, <2>1 DEF HookRead
<1>5. CASE HookSave(c)
  <2> DEFINE b == hook[c].booking
  <2>1. /\ b \in Bookings /\ hook[c].event \in events[b] /\ hook[c].event \in Events
        /\ payment' = [payment EXCEPT ![b] = Outcome(hook[c].event)]
    BY <1>5 DEF EscrowInv, PaymentShapes, HookSave
  <2>2. /\ Outcome(hook[c].event) \in Payments
        /\ Outcome(hook[c].event) = "ESCROWED" => hook[c].event = "succeeded"
    BY <2>1 DEF Outcome, Events, Payments
  <2>3. PaymentShapes'
    BY <1>5, <2>1, <2>2 DEF EscrowInv, PaymentShapes, HookSave, IdleHook
  <2>4. reopened \subseteq reopened' /\ \A d \in Bookings \ reopened' :
          payment[d] = "RELEASED" => payment'[d] = "RELEASED"
    BY <1>5, <2>1 DEF HookSave, EscrowInv, PaymentShapes
  <2> QED
    BY <1>1, <1>5, <2>1, <2>2, <2>3, <2>4 DEF HookSave, EscrowInv, PaymentShapes
<1>6. CASE HookSync(c)
  <2> DEFINE b == hook[c].booking
             p == Outcome(hook[c].event)
  <2>1. b \in Bookings /\ hook[c].event \in Events \ {"refunded"}
    BY <1>6 DEF EscrowInv, PaymentShapes, HookSync
  <2>2. p \in PaymentStatuses
    BY <2>1 DEF Outcome, Events, PaymentStatuses
  <2>3. row \in [Bookings -> Row]
    BY DEF EscrowInv, IInv, TypeOK
  <2>4. row' = [row EXCEPT ![b] = [row[b] EXCEPT !.payment = p, !.released = row[b].released]]
    BY <1>6, <2>1, <2>3 DEF HookSync, Row
  <2>5. row[b].released \in BOOLEAN
    BY <2>1, <2>3 DEF Row
  <2>6. IInv'
    BY <1>6, <2>1, <2>2, <2>4, <2>5, PaymentColumns DEF EscrowInv, HookSync
  <2>7. \A d \in Bookings : /\ row'[d].transporter = row[d].transporter
                            /\ row'[d].released = row[d].released
    BY <2>1, <2>3, <2>4 DEF Row
  <2>8. PaymentShapes'
    BY <1>6 DEF EscrowInv, PaymentShapes, HookSync, IdleHook
  <2>9. HeldIsCollected' /\ PaidIsAssigned' /\ ReleaseIsRecorded' /\ PaymentTellsRelease'
    BY <1>6, <2>7 DEF EscrowInv, HeldIsCollected, PaidIsAssigned, ReleaseIsRecorded,
       PaymentTellsRelease, Releasing, HookSync
  <2> QED
    BY <2>6, <2>8, <2>9 DEF EscrowInv
<1>7. CASE AbandonHook(c)
  <2>1. PaymentShapes'
    BY <1>7 DEF EscrowInv, PaymentShapes, AbandonHook, IdleHook
  <2> QED
    BY <1>1, <1>7, <2>1 DEF AbandonHook
<1> QED
  BY <1>2, <1>3, <1>4, <1>5, <1>6, <1>7 DEF Hooking

LEMMA ReleaseSteps ==
  ASSUME EscrowInv, ReleaseEscrow \/ ReleaseDies
  PROVE  EscrowInv'
<1> USE DEF IdleRelease, Releasing
<1>1. CASE ReleaseSelect
  <2>1. \A b \in Matured : row[b].status = "COMPLETED" /\ ~row[b].released
    BY DEF Matured
  <2>2. \A b \in Matured : b \in Bookings /\ row[b].transporter # None
    BY DEF EscrowInv, IInv, RowInv, Carried, UnderWay, Matured
  <2>3. IInv' /\ PaymentShapes'
    BY <1>1, <2>2, RowsRest DEF EscrowInv, PaymentShapes, ReleaseSelect
  <2>4. HeldIsCollected' /\ PaidIsAssigned'
    BY <1>1, <2>2 DEF EscrowInv, HeldIsCollected, PaidIsAssigned, ReleaseSelect, vars
  <2>5. ReleaseIsRecorded'
    BY <1>1, <2>1 DEF EscrowInv, ReleaseIsRecorded, PaymentShapes, ReleaseSelect, vars
  <2>6. PaymentTellsRelease'
    BY <1>1 DEF EscrowInv, PaymentTellsRelease, ReleaseSelect
  <2> QED
    BY <2>3, <2>4, <2>5, <2>6 DEF EscrowInv
<1>2. CASE ReleaseRead
  <2>1. PICK b \in release.todo :
          IF payment[b] = "ESCROWED"
            THEN release' = [pc |-> "save", todo |-> release.todo \ {b}, booking |-> b]
            ELSE NextRelease(release.todo \ {b})
    BY <1>2 DEF ReleaseRead
  <2>2. b \in Bookings
    BY <2>1 DEF EscrowInv, PaymentShapes
  <2> DEFINE rest == release.todo \ {b}
  <2>a. \/ payment[b] = "ESCROWED" /\ release' = [pc |-> "save", todo |-> rest, booking |-> b]
        \/ release' = [pc |-> "next", todo |-> rest, booking |-> None]
        \/ rest = {} /\ release' = [pc |-> "idle", todo |-> {}, booking |-> None]
    BY <2>1 DEF NextRelease
  <2>3. /\ release'.todo = rest
        /\ \/ release'.pc = "save" /\ release'.booking = b /\ payment[b] = "ESCROWED"
           \/ release'.pc = "next" /\ release'.booking = None
           \/ release'.pc = "idle" /\ release'.booking = None /\ rest = {}
        /\ release' = [pc |-> release'.pc, todo |-> release'.todo, booking |-> release'.booking]
    <3>1. CASE payment[b] = "ESCROWED" /\ release' = [pc |-> "save", todo |-> rest, booking |-> b]
      BY <3>1
    <3>2. CASE release' = [pc |-> "next", todo |-> rest, booking |-> None]
      BY <3>2
    <3>3. CASE rest = {} /\ release' = [pc |-> "idle", todo |-> {}, booking |-> None]
      BY <3>3
    <3> QED
      BY <2>a, <3>1, <3>2, <3>3
  <2>4. UNCHANGED <<vars, payment, events, hook, paidOut, unrecorded, reopened>>
    BY <1>2 DEF ReleaseRead
  <2>5. release.pc = "next" /\ release.todo \in SUBSET Bookings
    BY <1>2 DEF ReleaseRead, EscrowInv, PaymentShapes
  <2>6. IInv'
    BY <2>4, RowsRest DEF EscrowInv
  <2>7. release' \in [pc : {"idle", "next", "save", "sync"}, todo : SUBSET Bookings,
                      booking : Bookings \cup {None}]
    BY <2>2, <2>3, <2>5
  <2>8. PaymentShapes'
    BY <2>2, <2>3, <2>4, <2>7 DEF EscrowInv, PaymentShapes
  <2>9. HeldIsCollected'
    <3>1. release'.pc \in {"save", "sync"} => release'.booking = b /\ payment[b] = "ESCROWED"
      BY <2>3
    <3> QED
      BY <2>2, <2>4, <3>1 DEF EscrowInv, HeldIsCollected
  <2>10. PaidIsAssigned'
    BY <2>1, <2>2, <2>3, <2>4, <2>5 DEF EscrowInv, PaidIsAssigned, vars
  <2>11. ReleaseIsRecorded'
    BY <2>1, <2>2, <2>3, <2>4, <2>5 DEF EscrowInv, ReleaseIsRecorded, vars
  <2>12. PaymentTellsRelease'
    BY <2>2, <2>3, <2>4 DEF EscrowInv, PaymentTellsRelease, PaymentShapes
  <2> QED
    BY <2>6, <2>8, <2>9, <2>10, <2>11, <2>12 DEF EscrowInv
<1>3. CASE ReleaseSave
  <2>1. release.booking \in Bookings /\ paidOut[release.booking] \in Nat
    BY <1>3 DEF EscrowInv, PaymentShapes, ReleaseSave
  <2>2. IInv' /\ PaymentShapes'
    BY <1>3, <2>1, RowsRest DEF EscrowInv, PaymentShapes, ReleaseSave, Payments
  <2>3. HeldIsCollected' /\ PaidIsAssigned'
    BY <1>3, <2>1 DEF EscrowInv, HeldIsCollected, PaidIsAssigned, PaymentShapes,
       ReleaseSave, vars
  <2>4. ReleaseIsRecorded'
    BY <1>3, <2>1 DEF EscrowInv, ReleaseIsRecorded, PaymentShapes, ReleaseSave, vars
  <2>5. PaymentTellsRelease'
    BY <1>3, <2>1 DEF EscrowInv, PaymentTellsRelease, PaymentShapes, ReleaseSave
  <2> QED
    BY <2>2, <2>3, <2>4, <2>5 DEF EscrowInv
<1>4. CASE ReleaseSync
  <2> DEFINE b == release.booking
  <2>1. b \in Bookings /\ row \in [Bookings -> Row]
    BY <1>4 DEF EscrowInv, PaymentShapes, ReleaseSync, IInv, TypeOK
  <2>2. row' = [row EXCEPT ![b] = [row[b] EXCEPT !.payment = "RELEASED", !.released = TRUE]]
    BY <1>4, <2>1 DEF ReleaseSync, Row
  <2>3. "RELEASED" \in PaymentStatuses
    BY DEF PaymentStatuses
  <2>4. IInv'
    BY <1>4, <2>1, <2>2, <2>3, PaymentColumns DEF EscrowInv, ReleaseSync
  <2>5. \A d \in Bookings : /\ row'[d].transporter = row[d].transporter
                            /\ row'[d].released = (d = b \/ row[d].released)
    BY <2>1, <2>2 DEF Row
  <2>6. PaymentShapes'
    BY <1>4 DEF EscrowInv, PaymentShapes, ReleaseSync, NextRelease
  <2>7. HeldIsCollected' /\ PaidIsAssigned'
    BY <1>4, <2>5 DEF EscrowInv, HeldIsCollected, PaidIsAssigned, PaymentShapes,
       ReleaseSync, NextRelease
  <2>8. ReleaseIsRecorded'
    BY <1>4, <2>5 DEF EscrowInv, ReleaseIsRecorded, PaymentShapes, ReleaseSync, NextRelease
  <2>9. PaymentTellsRelease'
    BY <1>4 DEF EscrowInv, PaymentTellsRelease, ReleaseSync, NextRelease
  <2> QED
    BY <2>4, <2>6, <2>7, <2>8, <2>9 DEF EscrowInv
<1>5. CASE ReleaseDies
  <2>1. IInv' /\ PaymentShapes'
    BY <1>5, RowsRest DEF EscrowInv, PaymentShapes, ReleaseDies
  <2>2. HeldIsCollected' /\ PaidIsAssigned'
    BY <1>5 DEF EscrowInv, HeldIsCollected, PaidIsAssigned, ReleaseDies, vars
  <2>3. ReleaseIsRecorded'
    BY <1>5 DEF EscrowInv, ReleaseIsRecorded, PaymentShapes, ReleaseDies, vars
  <2>4. PaymentTellsRelease'
    BY <1>5 DEF EscrowInv, PaymentTellsRelease, ReleaseDies
  <2> QED
    BY <2>1, <2>2, <2>3, <2>4 DEF EscrowInv
<1> QED
  BY <1>1, <1>2, <1>3, <1>4, <1>5 DEF ReleaseEscrow

LEMMA EscrowStepInv == EscrowInv /\ [EscrowNext]_escrowVars => EscrowInv'
<1> SUFFICES ASSUME EscrowInv, [EscrowNext]_escrowVars PROVE EscrowInv'
  OBVIOUS
<1>1. CASE UNCHANGED escrowVars
  <2>1. IInv'
    BY <1>1, RowsRest DEF EscrowInv, escrowVars
  <2>2. PaymentShapes'
    BY <1>1 DEF EscrowInv, PaymentShapes, escrowVars, paymentVars
  <2>3. HeldIsCollected' /\ PaidIsAssigned' /\ ReleaseIsRecorded' /\ PaymentTellsRelease'
    BY <1>1 DEF EscrowInv, HeldIsCollected, PaidIsAssigned, ReleaseIsRecorded,
       PaymentTellsRelease, Releasing, escrowVars, paymentVars, vars
  <2> QED
    BY <2>1, <2>2, <2>3 DEF EscrowInv
<1> QED
  BY <1>1, BookingSteps, StripeSteps, HookSteps, ReleaseSteps DEF EscrowNext

-----------------------------------------------------------------------------
(* The theorems.                                                           *)

\* The rows of bookings, the payments, and what handlers and passes hold.
THEOREM EscrowInvariant == EscrowSpec => []EscrowInv
BY EscrowInitInv, EscrowStepInv, PTL DEF EscrowSpec

\* Every variable keeps its type; a handler only saves what was delivered.
THEOREM EscrowTypes == EscrowSpec => []EscrowTypeOK
<1>1. EscrowInv => EscrowTypeOK
  BY DEF EscrowInv, IInv, PaymentShapes, EscrowTypeOK
<1> QED
  BY <1>1, EscrowInvariant, PTL

\* A payment is released once, unless a webhook overwrote its release and the
\* booking's record of it was lost too (releaseEscrow, webhooks).
THEOREM ReleasedOnce == EscrowSpec => []PaidOutOnce
<1>1. EscrowInv => PaidOutOnce
  BY DEF EscrowInv, PaymentShapes, ReleaseIsRecorded, PaymentTellsRelease, PaidOutOnce
<1> QED
  BY <1>1, EscrowInvariant, PTL

\* What is released succeeded at Stripe, and somebody carries the goods.
THEOREM ReleasedWasCollected == EscrowSpec => []PaidOutWasCharged
<1>1. EscrowInv => PaidOutWasCharged
  BY DEF EscrowInv, HeldIsCollected, PaidIsAssigned, PaidOutWasCharged
<1> QED
  BY <1>1, EscrowInvariant, PTL

\* The winner of a booking keeps it while webhooks and releaseEscrow write
\* into the same rows.
THEOREM ClaimSurvivesPayment == EscrowSpec => []ExclusiveClaim
<1>1. IInv => ExclusiveClaim
  BY DEF IInv, RowInv, ClaimantsAreHolder, ExclusiveClaim
<1>2. EscrowInv => IInv
  BY DEF EscrowInv
<1> QED
  BY <1>1, <1>2, EscrowInvariant, PTL

(* What the booking's requests promise of its row holds beside payments.   *)

\* Webhooks and releaseEscrow write no column a transition is about.
LEMMA PaymentLeavesRows ==
  ASSUME EscrowInv, [EscrowNext]_escrowVars
  PROVE  \/ [Next]_vars
         \/ /\ \A b \in Bookings : SameRow(b)
            /\ UNCHANGED <<sweep, unguarded>>
<1>1. row \in [Bookings -> Row]
  BY DEF EscrowInv, IInv, TypeOK
<1>2. ASSUME NEW b \in Bookings, NEW p, row' = [row EXCEPT ![b].payment = p]
      PROVE  \A c \in Bookings : SameRow(c)
  BY <1>1, <1>2 DEF SameRow, Row
<1>3. ASSUME NEW b \in Bookings, NEW p, NEW r,
             row' = [row EXCEPT ![b].released = r, ![b].payment = p]
      PROVE  \A c \in Bookings : SameRow(c)
  BY <1>1, <1>3 DEF SameRow, Row
<1>4. ASSUME NEW c \in Hooks, HookSync(c)
      PROVE  (\A b \in Bookings : SameRow(b)) /\ UNCHANGED <<sweep, unguarded>>
  <2>1. hook[c].booking \in Bookings
    BY <1>4 DEF HookSync, EscrowInv, PaymentShapes
  <2> QED
    BY <1>2, <1>4, <2>1 DEF HookSync
<1>5. ASSUME ReleaseSync
      PROVE  (\A b \in Bookings : SameRow(b)) /\ UNCHANGED <<sweep, unguarded>>
  <2>1. release.booking \in Bookings
    BY <1>5 DEF ReleaseSync, EscrowInv, PaymentShapes
  <2> QED
    BY <1>3, <1>5, <2>1 DEF ReleaseSync
<1> QED
  BY <1>4, <1>5 DEF EscrowNext, escrowVars, BookingStep, StripeEmits, Hooking, InitiateRead,
     InitiateCreate, HookRead, HookSave, AbandonHook, ReleaseEscrow, ReleaseSelect,
     ReleaseRead, ReleaseSave, ReleaseDies

\* Payments change no status: every change is one the code's table allows.
THEOREM StepsStayLawful == EscrowSpec => LawfulSteps
<1>1. EscrowInv /\ [EscrowNext]_escrowVars =>
        [\A b \in Bookings \ unguarded' :
           row'[b].status # row[b].status => LawfulTransition(row[b], row'[b])]_vars
  <2> SUFFICES ASSUME EscrowInv, [EscrowNext]_escrowVars, NEW b \in Bookings \ unguarded',
                      row'[b].status # row[b].status
               PROVE  LawfulTransition(row[b], row'[b])
    OBVIOUS
  <2>1. [Next]_vars /\ TypeOK /\ RowInv(b)
    BY PaymentLeavesRows DEF EscrowInv, IInv, SameRow
  <2> QED
    BY <2>1, NextTouches, TouchedLawfully
<1> QED
  BY <1>1, EscrowInvariant, PTL DEF EscrowSpec, LawfulSteps

LEMMA OfferStep ==
  ASSUME "sweep" \notin Ops, EscrowInv, EscrowInv', UnassignedIsGuarded,
         [EscrowNext]_escrowVars
  PROVE  UnassignedIsGuarded' /\ [Job!Next]_(Job!vars)
<1>1. IInv /\ IInv'
  BY DEF EscrowInv
<1>2. CASE [Next]_vars
  BY <1>1, <1>2, UnassignedGuardedStep, JobStep
<1>3. CASE (\A b \in Bookings : SameRow(b)) /\ UNCHANGED <<sweep, unguarded>>
  <2>1. UnassignedIsGuarded'
    BY <1>3 DEF UnassignedIsGuarded, SameRow
  <2>2. UNCHANGED Job!vars
    BY <1>3 DEF Job!vars, offerBar, holderBar, SameRow
  <2> QED
    BY <2>1, <2>2
<1> QED
  BY <1>2, <1>3, PaymentLeavesRows

\* The bookings with their payments still implement the job offer: nothing
\* that webhooks and releaseEscrow write reopens a job or gives it away.
THEOREM PaymentKeepsOffer ==
  ASSUME "sweep" \notin Ops
  PROVE  EscrowSpec => JobOfferSpec
<1>1. EscrowInit => Job!Init /\ UnassignedIsGuarded
  BY JobInit, UnassignedGuardedStep DEF EscrowInit
<1>2. EscrowInv /\ EscrowInv' /\ UnassignedIsGuarded /\ [EscrowNext]_escrowVars
        => UnassignedIsGuarded' /\ [Job!Next]_(Job!vars)
  BY OfferStep
<1> QED
  BY <1>1, <1>2, EscrowInvariant, PTL DEF EscrowSpec, JobOfferSpec, Job!Spec

-----------------------------------------------------------------------------
(* The auctions.  An accepted bid is accepted for good, so OneAward and    *)
(* WinnerHolds need that the row of its booking keeps the bidder: RowInv,  *)
(* of the bookings that expireBids did not revert when they had moved on.  *)

IsBid(r) == r.status # "NONE" /\ r.booking \in Bookings /\ r.by \in Transporters

Passes ==
  [pc : {"idle", "next", "revert", "award"}, todo : SUBSET [booking : Bookings, version : Nat],
   booking : Bookings \cup {None}, version : Nat, id : BidIds \cup {0}]

BidShapes == bid \in [BidIds -> Bid] /\ \A i \in BidIds : bid[i] = NoBid \/ IsBid(bid[i])

\* What clerks and passes hold refers to bids that exist.
HolderShapes ==
  /\ clerk \in [Clerks -> [pc : {"idle", "create", "check", "award"}, bid : Bid,
                           id : BidIds \cup {0}, version : Nat]]
  /\ \A c \in Clerks :
       /\ clerk[c].pc = "create" => IsBid(clerk[c].bid) /\ clerk[c].bid.status = "PENDING"
       /\ clerk[c].pc \in {"check", "award"} => clerk[c].id \in BidIds /\ IsBid(bid[clerk[c].id])
  /\ expiry \in [Schedulers -> Passes]
  /\ \A s \in Schedulers :
       /\ expiry[s].pc \in {"revert", "award"} => expiry[s].booking \in Bookings
       /\ expiry[s].pc = "award" => expiry[s].id \in BidsOf(expiry[s].booking)

AuctionShapes ==
  /\ TypeOK /\ BidShapes /\ HolderShapes
  /\ passed \subseteq Bookings /\ reverted \subseteq Bookings

Accepted(b) == {i \in BidsOf(b) : bid[i].status = "ACCEPTED"}

\* The row keeps the bidder whose bid was accepted, and there is one.
Won(b) ==
  \A i \in Accepted(b) : row[b].transporter = bid[i].by /\ \A j \in Accepted(b) : i = j

AuctionInv == AuctionShapes /\ \A b \in Bookings \ reverted : RowInv(b) /\ Won(b)

-----------------------------------------------------------------------------
\* Who wins stays, while bids keep what they say and no other is accepted.
LEMMA WonStays ==
  ASSUME BidShapes, NEW b \in Bookings, RowInv(b), Won(b), Touched(b),
         Accepted(b)' \subseteq Accepted(b),
         \A i \in Accepted(b) : bid'[i].by = bid[i].by
  PROVE  Won(b)'
<1>1. ASSUME NEW i \in Accepted(b)
      PROVE  row[b].transporter = bid[i].by /\ row[b].transporter # None
  <2>1. i \in BidIds /\ bid[i].booking = b /\ bid[i].status = "ACCEPTED"
    BY DEF Accepted, BidsOf
  <2>2. IsBid(bid[i])
    BY <2>1 DEF BidShapes, NoBid
  <2> QED
    BY <2>2, ConstantsAssumption DEF IsBid, Won
<1>2. ASSUME NEW i \in Accepted(b)' PROVE row'[b].transporter = bid'[i].by
  BY <1>1, TransporterStays
<1> QED
  BY <1>2 DEF Won

\* What a step does to the rows that it must not spoil, and leaves behind.
AuctionKept == AuctionInv' /\ reverted \subseteq reverted' /\ \A b \in Bookings \ reverted' : Touched(b)

\* Only what bids, rows and histories say matters to AuctionInv.
LEMMA AuctionStep ==
  ASSUME AuctionInv, AuctionShapes', reverted \subseteq reverted',
         \A b \in Bookings \ reverted' : Touched(b) /\ Won(b)'
  PROVE  AuctionKept
<1>1. \A b \in Bookings \ reverted' : RowInv(b)'
  BY TouchedKeeps DEF AuctionInv, AuctionShapes
<1> QED
  BY <1>1 DEF AuctionInv, AuctionKept

LEMMA UnchangedTouches ==
  ASSUME UNCHANGED vars, NEW b \in Bookings
  PROVE  Touched(b)
  BY KeptOrEnded DEF vars, Touched, Untouched, SameRow, SameHistory

\* A step of a clerk or of a pass that leaves rows and bids alone.
LEMMA HolderStep ==
  ASSUME AuctionInv, UNCHANGED <<vars, bid, reverted>>, HolderShapes', passed' \subseteq Bookings
  PROVE  AuctionKept
<1>1. AuctionShapes'
  BY DEF AuctionInv, AuctionShapes, BidShapes, vars, TypeOK
<1>2. \A b \in Bookings : Accepted(b)' = Accepted(b)
  BY DEF Accepted, BidsOf
<1>3. \A b \in Bookings \ reverted' : Touched(b) /\ Won(b)'
  BY <1>2, UnchangedTouches, WonStays DEF AuctionInv, AuctionShapes
<1> QED
  BY <1>1, <1>3, AuctionStep

LEMMA AuctionInit == BiddingInit => AuctionInv
<1> SUFFICES ASSUME BiddingInit PROVE AuctionInv
  OBVIOUS
<1>1. IInv
  BY InvInit DEF BiddingInit
<1>2. NoBid \in Bid /\ NoBid.status = "NONE" /\ 0 \in Nat
  BY DEF NoBid, Bid
<1>3. \A i \in BidIds : bid[i] = NoBid
  BY DEF BiddingInit
<1>5. BidShapes
  BY <1>2, <1>3 DEF BiddingInit, BidShapes
<1>6. \A b \in Bookings : Accepted(b) = {}
  BY <1>2, <1>3 DEF Accepted, BidsOf
<1>4. HolderShapes
  BY <1>2 DEF BiddingInit, HolderShapes, IdleClerk, IdlePass, Passes
<1> QED
  BY <1>1, <1>4, <1>5, <1>6 DEF BiddingInit, AuctionInv, AuctionShapes, IInv, Won

-----------------------------------------------------------------------------
\* The bids after an award: they say what they said, and one is accepted.
LEMMA AwardedBids ==
  ASSUME BidShapes, NEW i \in BidIds, NEW v, IsBid(bid[i]), Award(i, v)
  PROVE  /\ BidShapes'
         /\ \A j \in BidIds : /\ bid'[j].booking = bid[j].booking
                              /\ bid'[j].by = bid[j].by
                              /\ bid'[j].status = "ACCEPTED" => bid[j].status = "ACCEPTED" \/ j = i
                              /\ IsBid(bid[j]) => IsBid(bid'[j])
<1>1. ASSUME NEW j \in BidIds
      PROVE  /\ bid'[j] \in Bid /\ (bid'[j] = NoBid \/ IsBid(bid'[j]))
             /\ bid'[j].booking = bid[j].booking /\ bid'[j].by = bid[j].by
             /\ bid'[j].status = "ACCEPTED" => bid[j].status = "ACCEPTED" \/ j = i
             /\ IsBid(bid[j]) => IsBid(bid'[j])
  <2>1. bid[j] \in Bid /\ (bid[j] = NoBid \/ IsBid(bid[j]))
    BY DEF BidShapes
  <2>2. ASSUME NEW s \in {"ACCEPTED", "EXPIRED"}, bid'[j] = [bid[j] EXCEPT !.status = s],
               IsBid(bid[j])
        PROVE  /\ bid'[j] \in Bid /\ IsBid(bid'[j]) /\ bid'[j].status = s
               /\ bid'[j].booking = bid[j].booking /\ bid'[j].by = bid[j].by
    BY <2>1, <2>2 DEF Bid, IsBid
  <2>3. CASE j = i
    BY <2>2, <2>3 DEF Award
  <2>4. CASE j # i /\ bid[j].status = "PENDING" /\ bid'[j] = [bid[j] EXCEPT !.status = "EXPIRED"]
    <3>1. IsBid(bid[j])
      BY <2>1, <2>4 DEF NoBid
    <3> QED
      BY <2>2, <2>4, <3>1
  <2>5. CASE bid'[j] = bid[j]
    BY <2>1, <2>5
  <2> QED
    BY <2>3, <2>4, <2>5 DEF Award, PendingBids
<1>2. bid' = [j \in BidIds |-> bid'[j]]
  BY DEF Award
<1> QED
  BY <1>1, <1>2 DEF BidShapes

\* An award finds the row as it was read and claims it for the bidder.
LEMMA AwardTouches ==
  ASSUME AuctionShapes, NEW i \in BidIds, IsBid(bid[i]), NEW v, Award(i, v),
         Awardable(bid[i].booking, v), UNCHANGED <<req, sweep, cancellations, photographed, unguarded>>,
         NEW b \in Bookings
  PROVE  TypeOK' /\ Touched(b) /\ (b = bid[i].booking => row'[b].transporter = bid[i].by)
<1> DEFINE c == bid[i].booking
           t == bid[i].by
           won == [row[c] EXCEPT !.transporter = t, !.status = "ACCEPTED", !.version = v + 1]
<1>1. /\ c \in Bookings /\ t \in Transporters /\ v = row[c].version /\ v + 1 \in Nat
      /\ row \in [Bookings -> Row] /\ row[c] \in Row /\ row[c].status = "BIDDING"
      /\ claimants \in [Bookings -> SUBSET Transporters]
  BY RowFields DEF AuctionShapes, TypeOK, IsBid, Awardable
<1>2. row' = [row EXCEPT ![c] = won] /\ claimants' = [claimants EXCEPT ![c] = @ \cup {t}]
  BY <1>1 DEF Award
<1>3. /\ won \in Row /\ won.transporter = t /\ won.status = "ACCEPTED" /\ won.version = v + 1
  BY <1>1 DEF Row, Statuses, Active
<1> HIDE DEF won, c, t
<1>4. row' \in [Bookings -> Row] /\ claimants' \in [Bookings -> SUBSET Transporters]
  BY <1>1, <1>2, <1>3
<1>5. TypeOK'
  BY <1>4 DEF AuctionShapes, TypeOK
<1>6. \A g \in Handlers : Kept(g, b)
  BY KeptOrEnded
<1>7. CASE b = c
  <2>1. row'[b] = won /\ claimants'[b] = claimants[b] \cup {t}
    BY <1>1, <1>2, <1>7
  <2>2. Claimed(b)
    BY <1>1, <1>3, <1>6, <1>7, <2>1 DEF Claimed, Open
  <2> QED
    BY <1>3, <1>5, <2>1, <2>2 DEF Touched, t
<1>8. CASE b # c
  BY <1>1, <1>2, <1>5, <1>6, <1>8 DEF Touched, Untouched, SameRow, SameHistory, c
<1> QED
  BY <1>7, <1>8

\* The swap of AcceptBid and of expireBids keeps the auctions' invariant.
LEMMA AwardStep ==
  ASSUME AuctionInv, NEW i \in BidIds, IsBid(bid[i]), NEW v,
         \/ Awardable(bid[i].booking, v) /\ Award(i, v)
         \/ NoAward,
         UNCHANGED <<req, sweep, cancellations, photographed, unguarded, passed, reverted>>,
         (\A j \in BidIds : bid'[j].booking = bid[j].booking /\ (IsBid(bid[j]) => IsBid(bid'[j])))
           => HolderShapes'
  PROVE  AuctionKept
<1>1. CASE NoAward
  BY <1>1, HolderStep DEF NoAward, vars, AuctionInv, AuctionShapes
<1>2. CASE Awardable(bid[i].booking, v) /\ Award(i, v)
  <2>1. /\ BidShapes'
        /\ \A j \in BidIds : /\ bid'[j].booking = bid[j].booking
                             /\ bid'[j].by = bid[j].by
                             /\ bid'[j].status = "ACCEPTED" => bid[j].status = "ACCEPTED" \/ j = i
                             /\ IsBid(bid[j]) => IsBid(bid'[j])
    BY <1>2, AwardedBids DEF AuctionInv, AuctionShapes
  <2>2. TypeOK'
    BY <1>2, AwardTouches DEF AuctionInv, AuctionShapes, IsBid
  <2>3. AuctionShapes'
    BY <2>1, <2>2 DEF AuctionInv, AuctionShapes
  <2>4. ASSUME NEW b \in Bookings \ reverted' PROVE Touched(b) /\ Won(b)'
    <3>1. /\ Touched(b) /\ RowInv(b) /\ Won(b)
          /\ b = bid[i].booking => row'[b].transporter = bid[i].by
      BY <1>2, AwardTouches DEF AuctionInv
    <3>2. CASE b = bid[i].booking
      <4>1. row[b].transporter = None
        BY <1>2, <3>1, <3>2 DEF Awardable, RowInv, AssignedIsClosed, Open
      <4>2. ASSUME NEW j \in Accepted(b) PROVE FALSE
        <5>1. j \in BidIds /\ bid[j].status = "ACCEPTED" /\ row[b].transporter = bid[j].by
          BY <3>1 DEF Won, Accepted, BidsOf
        <5>2. bid[j].by \in Transporters
          BY <5>1 DEF AuctionInv, AuctionShapes, BidShapes, NoBid, IsBid
        <5> QED
          BY <4>1, <5>1, <5>2, ConstantsAssumption
      <4>3. \A j \in Accepted(b)' : j = i
        BY <2>1, <4>2 DEF Accepted, BidsOf
      <4> QED
        BY <2>1, <3>1, <3>2, <4>3 DEF Won
    <3>3. CASE b # bid[i].booking
      <4>1. Accepted(b)' \subseteq Accepted(b)
        BY <2>1, <3>3 DEF Accepted, BidsOf
      <4>2. \A j \in Accepted(b) : bid'[j].by = bid[j].by
        BY <2>1 DEF Accepted, BidsOf
      <4> QED
        BY <3>1, <4>1, <4>2, WonStays DEF AuctionInv, AuctionShapes
    <3> QED
      BY <3>2, <3>3
  <2> QED
    BY <2>3, <2>4, AuctionStep
<1> QED
  BY <1>1, <1>2

-----------------------------------------------------------------------------
\* The steps of booking requests and of the clock.
LEMMA RequestSteps ==
  ASSUME AuctionInv, Next, UNCHANGED biddingVars
  PROVE  AuctionKept
<1>1. AuctionShapes'
  BY TypeStep DEF AuctionInv, AuctionShapes, BidShapes, HolderShapes, BidsOf, biddingVars
<1>2. ASSUME NEW b \in Bookings \ reverted' PROVE Touched(b) /\ Won(b)'
  <2>1. RowInv(b) /\ Won(b) /\ BidShapes /\ TypeOK
    BY DEF AuctionInv, AuctionShapes, biddingVars
  <2>2. Touched(b)
    BY <2>1, NextTouches
  <2>3. Accepted(b)' = Accepted(b) /\ bid' = bid
    BY DEF Accepted, BidsOf, biddingVars
  <2> QED
    BY <2>1, <2>2, <2>3, WonStays
<1> QED
  BY <1>1, <1>2, AuctionStep DEF biddingVars

LEMMA ClerkSteps ==
  ASSUME AuctionInv, NEW c \in Clerks, Clerking(c)
  PROVE  AuctionKept
<1>0. /\ BidShapes /\ HolderShapes /\ passed \subseteq Bookings
      /\ clerk[c] \in [pc : {"idle", "create", "check", "award"}, bid : Bid,
                       id : BidIds \cup {0}, version : Nat]
      /\ NoBid \in Bid /\ 0 \in Nat
  BY DEF AuctionInv, AuctionShapes, HolderShapes, NoBid, Bid
<1>idle. clerk' = [clerk EXCEPT ![c] = IdleClerk] /\ UNCHANGED expiry
           /\ (\A j \in BidIds : bid'[j].booking = bid[j].booking /\ (IsBid(bid[j]) => IsBid(bid'[j])))
         => HolderShapes'
  BY <1>0 DEF HolderShapes, IdleClerk, BidsOf
<1>1. ASSUME NEW b \in Bookings, NEW t \in Transporters, NEW a \in Amounts,
             PlaceRead(c, b, t, a)
      PROVE  AuctionKept
  <2> DEFINE new == [status |-> "PENDING", booking |-> b, by |-> t, amount |-> a]
             busy == [IdleClerk EXCEPT !.pc = "create", !.bid = new]
  <2>1. new \in Bid /\ IsBid(new) /\ new.status = "PENDING"
    BY DEF Bid, IsBid
  <2>2. /\ busy \in [pc : {"idle", "create", "check", "award"}, bid : Bid,
                     id : BidIds \cup {0}, version : Nat]
        /\ busy.pc = "create" /\ busy.bid = new
    BY <1>0, <2>1 DEF IdleClerk
  <2>3. clerk' = [clerk EXCEPT ![c] = busy]
    BY <1>1 DEF PlaceRead
  <2> HIDE DEF new, busy
  <2>4. HolderShapes'
    <3>1. /\ clerk'[c] = busy
          /\ \A d \in Clerks : d # c => clerk'[d] = clerk[d]
          /\ clerk' \in [Clerks -> [pc : {"idle", "create", "check", "award"}, bid : Bid,
                                    id : BidIds \cup {0}, version : Nat]]
      BY <1>0, <2>2, <2>3 DEF HolderShapes
    <3>2. bid' = bid /\ expiry' = expiry
      BY <1>1 DEF PlaceRead
    <3> QED
      BY <1>0, <2>1, <2>2, <3>1, <3>2 DEF HolderShapes, BidsOf
  <2> QED
    BY <1>0, <1>1, <2>4, HolderStep DEF PlaceRead
<1>2. CASE PlaceCreate(c)
  <2>1. PICK i \in BidIds : FirstFree(i) /\ bid' = [bid EXCEPT ![i] = clerk[c].bid]
    BY <1>2 DEF PlaceCreate
  <2>2. IsBid(clerk[c].bid) /\ clerk[c].bid.status = "PENDING" /\ clerk[c].bid \in Bid
    BY <1>0, <1>2 DEF PlaceCreate, HolderShapes
  <2>3. bid[i] = NoBid
    BY <1>0, <2>1 DEF BidShapes, FirstFree, IsBid
  <2>4. /\ BidShapes'
        /\ \A j \in BidIds : /\ j # i => bid'[j] = bid[j]
                             /\ bid'[i] = clerk[c].bid
                             /\ IsBid(bid[j]) => IsBid(bid'[j])
    BY <1>0, <2>1, <2>2 DEF BidShapes
  <2>5. \A b \in Bookings : BidsOf(b) \subseteq BidsOf(b)'
    BY <2>3, <2>4, ConstantsAssumption DEF BidsOf, NoBid
  <2>6. HolderShapes'
    BY <1>0, <1>2, <2>4, <2>5 DEF HolderShapes, IdleClerk, PlaceCreate
  <2>7. AuctionShapes'
    BY <1>2, <2>4, <2>6 DEF AuctionInv, AuctionShapes, PlaceCreate, vars, TypeOK
  <2>8. \A b \in Bookings : /\ Accepted(b)' \subseteq Accepted(b)
                            /\ \A j \in Accepted(b) : bid'[j].by = bid[j].by
    BY <2>2, <2>3, <2>4 DEF Accepted, BidsOf, NoBid
  <2>9. \A b \in Bookings \ reverted' : Touched(b) /\ Won(b)'
    BY <1>0, <1>2, <2>8, UnchangedTouches, WonStays DEF AuctionInv, PlaceCreate
  <2> QED
    BY <1>2, <2>7, <2>9, AuctionStep DEF PlaceCreate
<1>3. ASSUME NEW i \in BidIds, AwardRead(c, i) PROVE AuctionKept
  <2> DEFINE v == row[bid[i].booking].version
             busy == [IdleClerk EXCEPT !.pc = "check", !.id = i, !.version = v]
  <2>1. IsBid(bid[i])
    BY <1>0, <1>3 DEF BidShapes, AwardRead, NoBid
  <2>2. v \in Nat
    BY <2>1, Versions DEF AuctionInv, AuctionShapes, IsBid
  <2>3. clerk' = [clerk EXCEPT ![c] = busy]
    BY <1>3 DEF AwardRead
  <2> HIDE DEF v
  <2>4. /\ busy \in [pc : {"idle", "create", "check", "award"}, bid : Bid,
                     id : BidIds \cup {0}, version : Nat]
        /\ busy.pc = "check" /\ busy.id = i
    BY <1>0, <2>2 DEF IdleClerk
  <2> HIDE DEF busy
  <2>5. HolderShapes'
    BY <1>0, <1>3, <2>1, <2>3, <2>4 DEF HolderShapes, AwardRead, BidsOf
  <2> QED
    BY <1>0, <1>3, <2>5, HolderStep DEF AwardRead
<1>4. CASE AwardCheck(c)
  <2>1. clerk' = [clerk EXCEPT ![c] = IdleClerk]
          \/ clerk' = [clerk EXCEPT ![c] = [clerk[c] EXCEPT !.pc = "award"]]
    BY <1>0, <1>4 DEF AwardCheck
  <2>2. CASE clerk' = [clerk EXCEPT ![c] = IdleClerk]
    BY <1>0, <1>4, <1>idle, <2>2, HolderStep DEF AwardCheck
  <2>3. CASE clerk' = [clerk EXCEPT ![c] = [clerk[c] EXCEPT !.pc = "award"]]
    <3>1. HolderShapes'
      BY <1>0, <1>4, <2>3 DEF HolderShapes, AwardCheck, BidsOf
    <3> QED
      BY <1>0, <1>4, <3>1, HolderStep DEF AwardCheck
  <2> QED
    BY <2>1, <2>2, <2>3
<1>5. CASE AwardBid(c)
  <2>1. clerk[c].id \in BidIds /\ IsBid(bid[clerk[c].id])
    BY <1>0, <1>5 DEF AwardBid, HolderShapes
  <2>2. \/ /\ Awardable(bid[clerk[c].id].booking, clerk[c].version)
           /\ Award(clerk[c].id, clerk[c].version)
        \/ NoAward
    BY <1>5 DEF AwardBid
  <2> QED
    BY <1>5, <1>idle, <2>1, <2>2, AwardStep DEF AwardBid
<1>6. CASE AbandonBid(c)
  BY <1>0, <1>6, <1>idle, HolderStep DEF AbandonBid
<1> QED
  BY <1>1, <1>2, <1>3, <1>4, <1>5, <1>6 DEF Clerking

\* A pass of expireBids.
LEMMA SchedulerSteps ==
  ASSUME AuctionInv, NEW s \in Schedulers, Expiring(s) \/ ExpireDies(s)
  PROVE  AuctionKept
<1>0. /\ TypeOK /\ BidShapes /\ HolderShapes /\ passed \subseteq Bookings
      /\ reverted \subseteq Bookings /\ expiry[s] \in Passes
      /\ expiry \in [Schedulers -> Passes] /\ None \in Bookings \cup {None}
      /\ 0 \in BidIds \cup {0} /\ 0 \in Nat
  BY DEF AuctionInv, AuctionShapes, HolderShapes
<1>pass. ASSUME NEW p \in Passes, expiry' = [expiry EXCEPT ![s] = p], UNCHANGED clerk,
                p.pc \in {"revert", "award"} => p.booking \in Bookings,
                p.pc = "award" => p.id \in BidsOf(p.booking),
                \A j \in BidIds : bid'[j].booking = bid[j].booking /\ (IsBid(bid[j]) => IsBid(bid'[j]))
         PROVE  HolderShapes'
  <2>1. expiry'[s] = p /\ \A r \in Schedulers : r # s => expiry'[r] = expiry[r]
    BY <1>0, <1>pass
  <2>2. \A b : BidsOf(b)' = BidsOf(b)
    BY <1>pass DEF BidsOf
  <2>3. expiry' \in [Schedulers -> Passes]
    BY <1>0, <1>pass
  <2> QED
    BY <1>0, <1>pass, <2>1, <2>2, <2>3 DEF HolderShapes
<1>next. ASSUME NextAuction(s), UNCHANGED clerk,
                \A j \in BidIds : bid'[j].booking = bid[j].booking /\ (IsBid(bid[j]) => IsBid(bid'[j]))
         PROVE  HolderShapes'
  <2> DEFINE p == IF expiry[s].todo = {} THEN IdlePass
                  ELSE [IdlePass EXCEPT !.pc = "next", !.todo = expiry[s].todo]
  <2>1. expiry' = [expiry EXCEPT ![s] = p]
    BY <1>next DEF NextAuction
  <2>2. p \in Passes /\ p.pc \in {"idle", "next"}
    BY <1>0 DEF Passes, IdlePass
  <2> HIDE DEF p
  <2> QED
    BY <1>next, <1>pass, <2>1, <2>2
<1>1. CASE ExpireSelect(s)
  <2> DEFINE seen == {[booking |-> b, version |-> row[b].version] : b \in Due}
             p == [expiry[s] EXCEPT !.pc = "next", !.todo = seen]
  <2>1. seen \in SUBSET [booking : Bookings, version : Nat]
    BY <1>0, Versions DEF Due
  <2>2. expiry' = [expiry EXCEPT ![s] = p]
    BY <1>0, <1>1 DEF ExpireSelect
  <2> HIDE DEF seen
  <2>3. p \in Passes /\ p.pc = "next"
    BY <1>0, <2>1 DEF Passes
  <2> HIDE DEF p
  <2> QED
    BY <1>0, <1>1, <1>pass, <2>2, <2>3, HolderStep DEF ExpireSelect
<1>2. CASE ExpireBids(s)
  <2>1. PICK e \in expiry[s].todo, i \in BidIds \cup {0} :
          /\ IF PendingBids(e.booking) = {} THEN i = 0 ELSE i \in Lowest(e.booking)
          /\ expiry' = [expiry EXCEPT ![s] =
               [pc |-> IF i = 0 THEN "revert" ELSE "award", todo |-> expiry[s].todo \ {e},
                booking |-> e.booking, version |-> e.version, id |-> i]]
    BY <1>0, <1>2 DEF ExpireBids
  <2> DEFINE p == [pc |-> IF i = 0 THEN "revert" ELSE "award", todo |-> expiry[s].todo \ {e},
                   booking |-> e.booking, version |-> e.version, id |-> i]
  <2>2. e.booking \in Bookings /\ e.version \in Nat
    BY <1>0 DEF Passes
  <2>3. p \in Passes /\ p.booking = e.booking /\ p.id = i /\ (p.pc = "award" => i # 0)
    BY <1>0, <2>2 DEF Passes
  <2>4. i # 0 => i \in BidsOf(e.booking)
    BY <2>1 DEF Lowest, PendingBids
  <2>5. expiry' = [expiry EXCEPT ![s] = p]
    BY <2>1
  <2> HIDE DEF p
  <2> QED
    BY <1>0, <1>2, <1>pass, <2>2, <2>3, <2>4, <2>5, HolderStep DEF ExpireBids
<1>3. CASE ExpireRevert(s)
  <2> DEFINE c == expiry[s].booking
             back == [row[c] EXCEPT !.status = "PENDING"]
  <2>1. c \in Bookings /\ row[c] \in Row /\ row \in [Bookings -> Row]
    BY <1>0, <1>3 DEF ExpireRevert, HolderShapes, TypeOK
  <2>2. row' = [row EXCEPT ![c] = back] /\ unguarded' = unguarded \cup {c}
    BY <1>3 DEF ExpireRevert
  <2>3. /\ back \in Row /\ back.status = "PENDING" /\ back.transporter = row[c].transporter
        /\ back.version = row[c].version /\ back.photos = row[c].photos
    BY <2>1 DEF Row, Statuses, Open
  <2>4. HolderShapes'
    BY <1>3, <1>next DEF ExpireRevert
  <2> HIDE DEF back, c
  <2>5. TypeOK'
    BY <1>0, <1>3, <2>1, <2>2, <2>3 DEF TypeOK, ExpireRevert
  <2>6. AuctionShapes' /\ reverted \subseteq reverted'
    BY <1>0, <1>3, <2>1, <2>4, <2>5 DEF AuctionShapes, ExpireRevert, BidShapes, c
  <2>7. ASSUME NEW b \in Bookings \ reverted' PROVE Touched(b) /\ Won(b)'
    <3>1. RowInv(b) /\ Won(b)
      BY <2>6 DEF AuctionInv
    <3>2. UNCHANGED <<req, claimants, photographed>>
      BY <1>3 DEF ExpireRevert
    <3>3. \A g \in Handlers : Kept(g, b)
      BY <3>2, KeptOrEnded
    <3>4. Touched(b)
      <4>1. CASE b = c
        <5>1. Awardable(b, expiry[s].version)
          BY <1>3, <4>1, <2>6 DEF ExpireRevert, c
        <5>2. row[b].status = "BIDDING" /\ row'[b] = back
          BY <2>1, <2>2, <4>1, <5>1 DEF Awardable
        <5>3. Overwritten(b)
          BY <1>3, <2>2, <2>3, <3>2, <3>3, <4>1, <5>2 DEF Overwritten, Open
        <5> QED
          BY <2>5, <5>3 DEF Touched
      <4>2. CASE b # c
        BY <1>3, <2>1, <2>2, <2>5, <3>2, <3>3, <4>2
        DEF Touched, Untouched, SameRow, SameHistory
      <4> QED
        BY <4>1, <4>2
    <3>5. Accepted(b)' = Accepted(b) /\ bid' = bid
      BY <1>3 DEF ExpireRevert, Accepted, BidsOf
    <3> QED
      BY <1>0, <3>1, <3>4, <3>5, WonStays
  <2> QED
    BY <2>6, <2>7, AuctionStep
<1>4. CASE ExpireAward(s)
  <2>1. expiry[s].id \in BidIds /\ bid[expiry[s].id].booking = expiry[s].booking
          /\ expiry[s].booking \in Bookings
    BY <1>0, <1>4 DEF ExpireAward, HolderShapes, BidsOf
  <2>2. IsBid(bid[expiry[s].id])
    BY <1>0, <2>1, ConstantsAssumption DEF BidShapes, NoBid
  <2>3. \/ /\ Awardable(bid[expiry[s].id].booking, expiry[s].version)
           /\ Award(expiry[s].id, expiry[s].version)
        \/ NoAward
    BY <1>4, <2>1 DEF ExpireAward
  <2> QED
    BY <1>4, <1>next, <2>1, <2>2, <2>3, AwardStep DEF ExpireAward
<1>5. CASE ExpireDies(s)
  <2>1. IdlePass \in Passes /\ IdlePass.pc = "idle"
    BY <1>0 DEF IdlePass, Passes
  <2> QED
    BY <1>0, <1>5, <1>pass, <2>1, HolderStep DEF ExpireDies
<1> QED
  BY <1>1, <1>2, <1>3, <1>4, <1>5 DEF Expiring

LEMMA AuctionInvStep == AuctionInv /\ [BiddingNext]_auctionVars => AuctionKept
<1> SUFFICES ASSUME AuctionInv, [BiddingNext]_auctionVars PROVE AuctionKept
  OBVIOUS
<1>1. ASSUME NEW b \in Bookings, WindowPasses(b) PROVE AuctionKept
  <2>1. HolderShapes'
    BY <1>1 DEF AuctionInv, AuctionShapes, HolderShapes, WindowPasses, BidsOf
  <2> QED
    BY <1>1, <2>1, HolderStep DEF WindowPasses, AuctionInv, AuctionShapes
<1>2. CASE UNCHANGED auctionVars
  <2>1. HolderShapes' /\ UNCHANGED <<vars, bid, passed, reverted>>
    BY <1>2 DEF AuctionInv, AuctionShapes, HolderShapes, auctionVars, biddingVars, BidsOf
  <2> QED
    BY <2>1, HolderStep DEF AuctionInv, AuctionShapes
<1> QED
  BY <1>1, <1>2, RequestSteps, ClerkSteps, SchedulerSteps DEF BiddingNext

\* Requests, clerks, passes and the clock keep the auctions' invariant,
\* whatever they hold of rows and bids that have moved on.
THEOREM AuctionInvariant == BiddingSpec => []AuctionInv
<1>1. AuctionInv /\ [BiddingNext]_auctionVars => AuctionInv'
  BY AuctionInvStep DEF AuctionKept
<1> QED
  BY <1>1, AuctionInit, PTL DEF BiddingSpec

\* The tables and what clerks and passes hold have their types; a pass that
\* awards holds a bid of the booking it awards.
THEOREM BiddingTypes == BiddingSpec => []BiddingTypeOK
<1>1. AuctionInv => BiddingTypeOK
  BY DEF AuctionInv, AuctionShapes, BidShapes, HolderShapes, Passes, BiddingTypeOK
<1> QED
  BY <1>1, AuctionInvariant, PTL

\* AcceptBid of two bids, AcceptBid against expireBids, and either against
\* the requests: a booking not reverted late has at most one accepted bid.
THEOREM AwardedOnce == BiddingSpec => []OneAward
<1>1. AuctionInv => OneAward
  BY DEF AuctionInv, Won, Accepted, OneAward
<1> QED
  BY <1>1, AuctionInvariant, PTL

\* The bidder whose bid is accepted, and whoever was told that he got the
\* booking, is the transporter in its row.
THEOREM WinnerKeepsBooking == BiddingSpec => []WinnerHolds
<1>1. AuctionInv => WinnerHolds
  BY DEF AuctionInv, Won, Accepted, RowInv, ClaimantsAreHolder, WinnerHolds
<1> QED
  BY <1>1, AuctionInvariant, PTL

\* Once a booking has a transporter, by a direct acceptance or by an award,
\* nobody takes it from him: no clerk, pass, stale Save or sweep.
THEOREM HolderStays ==
  BiddingSpec =>
    [][\A b \in Bookings \ reverted' :
         row[b].transporter # None => row'[b].transporter = row[b].transporter]_auctionVars
<1> DEFINE Stays == \A b \in Bookings \ reverted' :
                      row[b].transporter # None => row'[b].transporter = row[b].transporter
<1>1. AuctionInv /\ [BiddingNext]_auctionVars => [Stays]_auctionVars
  <2> SUFFICES ASSUME AuctionInv, [BiddingNext]_auctionVars, NEW b \in Bookings \ reverted',
                      row[b].transporter # None
               PROVE  row'[b].transporter = row[b].transporter
    OBVIOUS
  <2>1. AuctionKept
    BY AuctionInvStep
  <2> QED
    BY <2>1, TransporterStays DEF AuctionKept, AuctionInv
<1> QED
  BY <1>1, AuctionInvariant, PTL DEF BiddingSpec

\* expireBids reverts a booking that has moved on by id alone, so its row is
\* among those written at a version nobody compared.
LEMMA LateRevertsUnguarded ==
  /\ BiddingInit => reverted \subseteq unguarded
  /\ reverted \subseteq unguarded /\ [BiddingNext]_auctionVars
       => (reverted \subseteq unguarded)'
<1>1. BiddingInit => reverted \subseteq unguarded
  BY DEF BiddingInit
<1> SUFFICES ASSUME reverted \subseteq unguarded, [BiddingNext]_auctionVars
             PROVE  reverted' \subseteq unguarded'
  BY <1>1
<1>2. Next => unguarded \subseteq unguarded'
  <2>1. ASSUME NEW h \in Handlers, Handle(h) PROVE unguarded \subseteq unguarded'
    <3>1. CASE Save(h)
      BY <3>1 DEF Save
    <3> QED
      BY <2>1, <3>1 DEF Handle, Accept, Transition, Photos, AcceptRead, AcceptCount,
         AcceptClaim, WriteOtp, StatusRead, PickupRead, CompleteRead, FlagRead, Cas,
         IncrementCancellationCount, PhotosRead, WritePhotos, Abandon, Start
  <2> QED
    BY <2>1 DEF Next, Create, ExpireStaleBookings, SweepRead, SweepWrite
<1>3. ASSUME NEW s \in Schedulers, ExpireRevert(s) PROVE reverted' \subseteq unguarded'
  BY <1>3 DEF ExpireRevert
<1>4. CASE UNCHANGED <<reverted, unguarded>>
  BY <1>4
<1>5. ASSUME NEW c \in Clerks, Clerking(c) PROVE UNCHANGED <<reverted, unguarded>>
  BY <1>5 DEF Clerking, PlaceRead, PlaceCreate, AwardRead, AwardCheck, AwardBid, AbandonBid, vars
<1>6. ASSUME NEW s \in Schedulers, Expiring(s) \/ ExpireDies(s), ~ExpireRevert(s)
      PROVE  UNCHANGED <<reverted, unguarded>>
  BY <1>6 DEF Expiring, ExpireSelect, ExpireBids, ExpireAward, ExpireDies, vars
<1> QED
  BY <1>2, <1>3, <1>4, <1>5, <1>6 DEF BiddingNext, biddingVars, auctionVars, WindowPasses, vars

\* Awards are swaps on the version and the status as well: with auctions
\* beside the requests, a row changes its status by the code's table only,
\* from the status it has, unless somebody wrote it without comparing.
THEOREM AuctionsMoveLawfully == BiddingSpec => LawfulSteps
<1>1. AuctionInv /\ reverted \subseteq unguarded /\ (reverted \subseteq unguarded)'
        /\ [BiddingNext]_auctionVars =>
        [\A b \in Bookings \ unguarded' :
           row'[b].status # row[b].status => LawfulTransition(row[b], row'[b])]_vars
  <2> SUFFICES ASSUME AuctionInv, [BiddingNext]_auctionVars,
                      reverted' \subseteq unguarded',
                      NEW b \in Bookings \ unguarded', row'[b].status # row[b].status
               PROVE  LawfulTransition(row[b], row'[b])
    OBVIOUS
  <2>1. b \in Bookings \ reverted' /\ Touched(b) /\ RowInv(b)
    BY AuctionInvStep DEF AuctionKept, AuctionInv
  <2> QED
    BY <2>1, TouchedLawfully
<1> QED
  BY <1>1, AuctionInvariant, LateRevertsUnguarded, PTL DEF BiddingSpec, LawfulSteps
=============================================================================
