---------------------------- MODULE PaymentEscrow ----------------------------
(***************************************************************************)
(* The payment of a booking: internal/payment (Initiate and the Stripe     *)
(* webhooks) and the scheduler's releaseEscrow, over the booking rows of   *)
(* BookingLifecycle, whose payment_status and escrow_release_at columns    *)
(* they write while booking requests read, dispute, complete and Save the  *)
(* same rows.                                                              *)
(*                                                                         *)
(* Stripe is external: it emits events about a payment intent and delivers *)
(* each of them at least once, in any order, as late as it likes; so an    *)
(* event once emitted may be delivered in every later state.  A refund is  *)
(* made at Stripe: RefundPayment has no route and no caller.               *)
(***************************************************************************)
EXTENDS BookingLifecycle

CONSTANTS
  Hooks,     \* goroutines serving payment requests and webhooks
  MaxPaidOut \* bound of the model: no payment is released more often

ASSUME PaymentAssumption == MaxPaidOut \in Nat

VARIABLES
  payment,  \* payments.status of each booking's payment, or NONE
  events,   \* external: the events Stripe has emitted about it
  hook,     \* the request each hook is serving
  release,  \* the pass releaseEscrow is in
  paidOut,  \* history: how often the payment was saved as RELEASED
  unrecorded, \* history: bookings whose release is missing from their row
  reopened    \* history: bookings whose RELEASED payment a webhook overwrote

paymentVars == <<payment, events, hook, release, paidOut, unrecorded, reopened>>
escrowVars == <<vars, paymentVars>>

Events == {"succeeded", "failed", "refunded"}
Payments == {"NONE", "PENDING", "ESCROWED", "FAILED", "RELEASED", "REFUNDED"}

IdleHook == [pc |-> "idle", booking |-> None, event |-> "none"]
IdleRelease == [pc |-> "idle", todo |-> {}, booking |-> None]

EscrowTypeOK ==
  /\ TypeOK
  /\ payment \in [Bookings -> Payments]
  /\ events \in [Bookings -> SUBSET Events]
  /\ \A c \in Hooks :
       /\ hook[c].pc \in {"idle", "create", "save", "sync"}
       /\ hook[c].pc \in {"save", "sync"} => hook[c].event \in events[hook[c].booking]
       /\ hook[c].pc = "sync" => hook[c].event # "refunded"
  /\ release.pc \in {"idle", "next", "save", "sync"}
  /\ release.todo \subseteq Bookings
  /\ paidOut \in [Bookings -> Nat]
  /\ unrecorded \subseteq Bookings /\ reopened \subseteq Bookings

EscrowInit ==
  /\ Init
  /\ payment = [b \in Bookings |-> "NONE"]
  /\ events = [b \in Bookings |-> {}]
  /\ hook = [c \in Hooks |-> IdleHook]
  /\ release = IdleRelease
  /\ paidOut = [b \in Bookings |-> 0]
  /\ unrecorded = {} /\ reopened = {}

-----------------------------------------------------------------------------
(* Initiate: ValidateBookingForPayment, then an INSERT that the unique     *)
(* index on booking_id lets succeed once; the Stripe call in between is    *)
(* idempotent by its key.  An existing payment is returned as it is.       *)
Payable(b) ==
  /\ row[b].status \in {"ACCEPTED", "PICKING_UP"}
  /\ row[b].payment \notin {"ESCROWED", "RELEASED"}
  /\ row[b].transporter # None

InitiateRead(c, b) ==
  /\ hook[c] = IdleHook
  /\ Payable(b)
  /\ payment[b] = "NONE"
  /\ hook' = [hook EXCEPT ![c] = [IdleHook EXCEPT !.pc = "create", !.booking = b]]
  /\ UNCHANGED <<vars, payment, events, release, paidOut, unrecorded, reopened>>

InitiateCreate(c) ==
  LET b == hook[c].booking IN
  /\ hook[c].pc = "create"
  /\ payment' = [payment EXCEPT ![b] = IF @ = "NONE" THEN "PENDING" ELSE @]
  /\ hook' = [hook EXCEPT ![c] = IdleHook]
  /\ UNCHANGED <<vars, events, release, paidOut, unrecorded, reopened>>

(* External: the customer's attempts at Stripe, and a refund made there. *)
StripeEmits(b) ==
  /\ payment[b] # "NONE"
  /\ \E e \in Events \ events[b] :
       /\ e = "failed" => "succeeded" \notin events[b]
       /\ e = "refunded" => "succeeded" \in events[b]
       /\ events' = [events EXCEPT ![b] = @ \cup {e}]
  /\ UNCHANGED <<vars, payment, hook, release, paidOut, unrecorded, reopened>>

-----------------------------------------------------------------------------
(* StripeWebhook: a handler reads the payment, saves it, and updates the   *)
(* booking's payment_status (HandleRefundConfirmed does not).              *)
Unprocessed(b, e) ==
  /\ payment[b] # "NONE"
  /\ e = "succeeded" => payment[b] \notin {"ESCROWED", "RELEASED"}
  /\ e = "refunded" => payment[b] # "REFUNDED"

OutcomeCaptured(e) ==   \* mutant: a success is CAPTURED, as Stripe calls it
  CASE e = "succeeded" -> "CAPTURED"
    [] e = "failed"    -> "FAILED"
    [] e = "refunded"  -> "REFUNDED"
OutcomeOfAttempt(e) ==   \* mutant: the failed handler copied from the other
  IF e = "refunded" THEN "REFUNDED" ELSE "ESCROWED"

Outcome(e) ==
  CASE e = "succeeded" -> "ESCROWED"
    [] e = "failed"    -> "FAILED"
    [] e = "refunded"  -> "REFUNDED"

HookRead(c, b, e) ==
  /\ hook[c] = IdleHook
  /\ e \in events[b]
  /\ Unprocessed(b, e)
  /\ hook' = [hook EXCEPT ![c] = [pc |-> "save", booking |-> b, event |-> e]]
  /\ UNCHANGED <<vars, payment, events, release, paidOut, unrecorded, reopened>>

HookSave(c) ==
  /\ hook[c].pc = "save"
  /\ payment' = [payment EXCEPT ![hook[c].booking] = Outcome(hook[c].event)]
  /\ hook' = [hook EXCEPT ![c] =
                IF @.event = "refunded" THEN IdleHook ELSE [@ EXCEPT !.pc = "sync"]]
  /\ reopened' = reopened \cup {b \in {hook[c].booking} : payment[b] = "RELEASED"}
  /\ UNCHANGED <<vars, events, release, paidOut, unrecorded>>

HookSync(c) ==
  /\ hook[c].pc = "sync"
  /\ row' = [row EXCEPT ![hook[c].booking].payment = Outcome(hook[c].event)]
  /\ hook' = [hook EXCEPT ![c] = IdleHook]
  /\ UNCHANGED <<req, sweep, cancellations, claimants, photographed, unguarded,
                 payment, events, release, paidOut, unrecorded, reopened>>

AbandonHook(c) ==
  /\ hook[c] # IdleHook
  /\ hook' = [hook EXCEPT ![c] = IdleHook]
  /\ UNCHANGED <<vars, payment, events, release, paidOut, unrecorded, reopened>>

-----------------------------------------------------------------------------
(* releaseEscrow: a SELECT of bookings; for each, a read of its ESCROWED   *)
(* payment, a Save of the payment and an update of the booking by id.      *)
Matured ==
  {b \in Bookings : /\ row[b].status = "COMPLETED"
                    /\ row[b].completed
                    /\ ~row[b].released
                    /\ row[b].payment = "ESCROWED"}

ReleaseSelect ==
  /\ release.pc = "idle"
  /\ Matured # {}
  /\ release' = [IdleRelease EXCEPT !.pc = "next", !.todo = Matured]
  /\ UNCHANGED <<vars, payment, events, hook, paidOut, unrecorded, reopened>>

NextRelease(todo) ==
  release' = IF todo = {} THEN IdleRelease
             ELSE [IdleRelease EXCEPT !.pc = "next", !.todo = todo]

ReleaseReadAnyPayment ==   \* mutant: the payment's status forgotten in the query
  /\ release.pc = "next"
  /\ \E b \in release.todo :
       /\ paidOut[b] < MaxPaidOut
       /\ release' = [pc |-> "save", todo |-> release.todo \ {b}, booking |-> b]
  /\ UNCHANGED <<vars, payment, events, hook, paidOut, unrecorded, reopened>>

ReleaseRead ==
  /\ release.pc = "next"
  /\ \E b \in release.todo :
       /\ paidOut[b] < MaxPaidOut
       /\ IF payment[b] = "ESCROWED"
            THEN release' = [pc |-> "save", todo |-> release.todo \ {b}, booking |-> b]
            ELSE NextRelease(release.todo \ {b})
  /\ UNCHANGED <<vars, payment, events, hook, paidOut, unrecorded, reopened>>

ReleaseSave ==
  LET b == release.booking IN
  /\ release.pc = "save"
  /\ payment' = [payment EXCEPT ![b] = "RELEASED"]
  /\ paidOut' = [paidOut EXCEPT ![b] = @ + 1]
  /\ release' = [release EXCEPT !.pc = "sync"]
  /\ UNCHANGED <<vars, events, hook, unrecorded, reopened>>

ReleaseSync ==
  LET b == release.booking IN
  /\ release.pc = "sync"
  /\ row' = [row EXCEPT ![b].released = TRUE, ![b].payment = "RELEASED"]
  /\ NextRelease(release.todo)
  /\ UNCHANGED <<req, sweep, cancellations, claimants, photographed, unguarded,
                 payment, events, hook, paidOut, unrecorded, reopened>>

(* The instance dies and forgets its pass, or the update of the booking    *)
(* fails and its error is ignored.                                         *)
ReleaseDies ==
  /\ release.pc # "idle"
  /\ release' = IdleRelease
  /\ unrecorded' = IF release.pc = "sync" THEN unrecorded \cup {release.booking}
                                         ELSE unrecorded
  /\ UNCHANGED <<vars, payment, events, hook, paidOut, reopened>>

-----------------------------------------------------------------------------
(* A step of a booking request; a Save may put payment columns back.       *)
BookingStep ==
  /\ Next
  /\ unrecorded' = unrecorded \cup {b \in Bookings : row[b].released /\ ~row'[b].released}
  /\ UNCHANGED <<payment, events, hook, release, paidOut, reopened>>

Hooking(c) ==
  \/ \E b \in Bookings : InitiateRead(c, b)
  \/ InitiateCreate(c)
  \/ \E b \in Bookings, e \in Events : HookRead(c, b, e)
  \/ HookSave(c)
  \/ HookSync(c)
  \/ AbandonHook(c)

ReleaseEscrow == ReleaseSelect \/ ReleaseRead \/ ReleaseSave \/ ReleaseSync

EscrowNext ==
  \/ BookingStep
  \/ \E b \in Bookings : StripeEmits(b)
  \/ \E c \in Hooks : Hooking(c)
  \/ ReleaseEscrow
  \/ ReleaseDies

EscrowSpec == EscrowInit /\ [][EscrowNext]_escrowVars

-----------------------------------------------------------------------------
(* Nothing is paid out twice, though passes die between the Save of the    *)
(* payment and the update of its booking, booking requests save copies     *)
(* from before that update, and webhooks are repeated and saved late.      *)
(* After any of the first, the payment's own status stops the next pass;   *)
(* after the last, escrow_release_at does (scheduler.go, releaseEscrow).   *)
(* Only when both are lost is a booking paid out again.                    *)
PaidOutOnce ==
  \A b \in Bookings : paidOut[b] > 1 => b \in unrecorded /\ b \in reopened

(* Nothing is paid out that was not collected, or to nobody: a released    *)
(* payment succeeded at Stripe and its booking has a transporter.          *)
PaidOutWasCharged ==
  \A b \in Bookings :
    paidOut[b] > 0 => "succeeded" \in events[b] /\ row[b].transporter # None

-----------------------------------------------------------------------------
(* What the comments of the code promise, and interleavings break.         *)

(* "2 hours after booking COMPLETED with no dispute -> release funds"      *)
(* (scheduler.go): funds are released of COMPLETED bookings only.          *)
NoReleaseInDispute ==
  [][\A b \in Bookings : paidOut'[b] > paidOut[b] => row[b].status = "COMPLETED"]_escrowVars

(* "Already processed (idempotent)" (payment/service.go): a payment that   *)
(* was refunded is not put back into escrow by a redelivered success.      *)
RefundIsFinal ==
  [][\A b \in Bookings :
       payment[b] = "REFUNDED" => payment'[b] # "ESCROWED"]_escrowVars
=============================================================================
