----------------------------- MODULE Checkout -----------------------------
(***************************************************************************)
(* Paying for a booking: the payment page of the customer app              *)
(* (payments/[bookingId]/page.tsx), open in several tabs or again and      *)
(* again, with internal/payment behind it and Stripe, which is external.   *)
(*                                                                         *)
(* The page asks for a payment intent once per mount.  Its form confirms   *)
(* the intent at Stripe and then polls the booking until the webhook has   *)
(* marked it as paid, MaxAttempts times at most.  confirmPayment and the   *)
(* GETs of the poll are awaited: what follows them also happens when the   *)
(* page is gone by then.                                                   *)
(***************************************************************************)
EXTENDS Naturals, FiniteSets

CONSTANTS
    Tabs,         \* tabs of the customer's browsers
    Intents,      \* payment intents at Stripe; the code needs one
    NoIntent,
    MaxAttempts,  \* 10 in the code
    MaxVisits     \* bound: MaxVisits[t] mounts of the page in tab t

ASSUME CheckoutAssumption ==
    NoIntent \notin Intents /\ MaxAttempts \in Nat \ {0} /\ MaxVisits \in [Tabs -> Nat]

VARIABLES
    booking,  \* the row: is it payable, and its payment_status
    payment,  \* the intent of the payments row
    intent,   \* external: each intent at Stripe
    events,   \* external: webhook events not delivered yet
    tab,      \* tab[t]: what the tab shows
    run       \* run[t]: the handlePay the tab started last

checkoutVars == <<booking, payment, intent, events, tab, run>>

Settled == {"ESCROWED", "RELEASED"}
Copies == {"none", "UNPAID", "ESCROWED", "FAILED"}

Results == {"paid", "unpaid", "failed"}
NoRun == [at |-> "none", secret |-> NoIntent, timer |-> FALSE, attempts |-> 0, answers |-> {}]
Away == [page |-> "away", copy |-> "none", asked |-> FALSE, secret |-> NoIntent, visits |-> 0]

CheckoutTypeOK ==
    /\ booking \in [payable : BOOLEAN, payment : Copies \ {"none"}]
    /\ payment \in Intents \cup {NoIntent}
    /\ intent \in [Intents -> {"unused", "open", "succeeded"}]
    /\ events \subseteq {"succeeded", "failed"}
    /\ payment = NoIntent => booking.payment = "UNPAID" /\ events = {}
    /\ \A t \in Tabs :
          /\ tab[t].page \in {"away", "booking", "payment"}
          /\ tab[t].copy \in Copies
          /\ tab[t].secret # NoIntent => intent[tab[t].secret] # "unused"
          /\ tab[t].visits \in 0 .. MaxVisits[t]
          /\ run[t].at \in {"none", "confirming", "polling"}
          /\ run[t].timer => run[t].at = "polling"
          /\ run[t].at # "none" => intent[run[t].secret] # "unused"
          /\ run[t].attempts \in 0 .. MaxAttempts + 1
          /\ run[t].answers \subseteq Results

CheckoutInit ==
    /\ booking = [payable |-> TRUE, payment |-> "UNPAID"]
    /\ payment = NoIntent
    /\ intent = [i \in Intents |-> "unused"]
    /\ events = {}
    /\ tab = [t \in Tabs |-> Away]
    /\ run = [t \in Tabs |-> NoRun]

----------------------------------------------------------------------------
(* The pages.                                                              *)

\* A run is over when its interval has stopped and nothing is under way.
Rest(r) == IF r.at = "polling" /\ ~r.timer /\ r.answers = {} THEN NoRun ELSE r

\* The booking page, from wherever the user is: by a link, or pushed there.
\* The copy in the query cache is the row's or, for 30 seconds, older.
ToBooking(t) ==
    \E c \in {booking.payment, tab[t].copy} \ {"none"} :
        tab' = [tab EXCEPT ![t] = [Away EXCEPT !.page = "booking", !.copy = c,
                                               !.visits = tab[t].visits]]

\* Leaving the payment page, the cleanup stops the interval, if it runs by
\* then.
OpenBooking(t) ==
    /\ tab[t].page # "booking"
    /\ ToBooking(t)
    /\ run' = [run EXCEPT ![t] = IF tab[t].page = "payment" THEN Rest([@ EXCEPT !.timer = FALSE]) ELSE @]
    /\ UNCHANGED <<booking, payment, intent, events>>

\* A refetch: the interval, or the window got the focus.
Refetch(t) ==
    /\ tab[t].page # "away" /\ tab[t].copy # booking.payment
    /\ tab' = [tab EXCEPT ![t].copy = booking.payment]
    /\ UNCHANGED <<booking, payment, intent, events, run>>

\* canPay
PayLink(t) ==
    /\ tab[t].page = "booking" /\ tab[t].copy = "UNPAID" /\ booking.payable
    /\ tab[t].visits < MaxVisits[t]
    /\ tab' = [tab EXCEPT ![t] = [Away EXCEPT !.page = "payment", !.copy = tab[t].copy,
                                              !.visits = tab[t].visits + 1]]
    /\ UNCHANGED <<booking, payment, intent, events, run>>

\* paymentintent.New under the idempotency key booking_ID.
Keyed(i) == intent[i] # "unused" \/ \A j \in Intents : intent[j] = "unused"

Opened(i) == [intent EXCEPT ![i] = IF @ = "unused" THEN "open" ELSE @]

InitiateEachTime(t) ==   \* mutant: a new intent, and row, for every request
    /\ tab[t].page = "payment" /\ tab[t].copy = "UNPAID" /\ ~tab[t].asked
    /\ \E i \in {j \in Intents : intent[j] = "unused"} :
          /\ intent' = Opened(i)
          /\ payment' = i
          /\ tab' = [tab EXCEPT ![t].asked = TRUE, ![t].secret = i]
    /\ UNCHANGED <<booking, events, run>>

\* The effect, once per mount, and the POST it sends.  Initiate refuses a
\* booking that is paid; it hands out the intent of the payments row, or
\* gets one and writes the row.  An error, of the INSERT or on the way back,
\* leaves the page without a form: asked, and no secret.
Initiate(t) ==
    /\ tab[t].page = "payment" /\ tab[t].copy = "UNPAID" /\ ~tab[t].asked
    /\ IF booking.payable /\ booking.payment \notin Settled
       THEN \E i \in IF payment = NoIntent THEN {j \in Intents : Keyed(j)} ELSE {payment} :
               /\ intent' = Opened(i)
               /\ payment' \in {payment, i}
               /\ \E secret \in {payment', NoIntent} :
                     tab' = [tab EXCEPT ![t].asked = TRUE, ![t].secret = secret]
       ELSE tab' = [tab EXCEPT ![t].asked = TRUE] /\ UNCHANGED <<payment, intent>>
    /\ UNCHANGED <<booking, events, run>>

----------------------------------------------------------------------------
(* handlePay                                                               *)

\* Pay Now.  Bound: not while the run of an earlier visit goes on.
ClickPay(t) ==
    /\ tab[t].page = "payment" /\ tab[t].secret # NoIntent
    /\ run[t].at = "none"
    /\ run' = [run EXCEPT ![t] = [NoRun EXCEPT !.at = "confirming", !.secret = tab[t].secret]]
    /\ UNCHANGED <<booking, payment, intent, events, tab>>

\* Stripe charges the card.  An intent that has succeeded cannot be
\* confirmed again.
Charge(t) ==
    /\ run[t].at = "confirming" /\ intent[run[t].secret] = "open"
    /\ intent' = [intent EXCEPT ![run[t].secret] = "succeeded"]
    /\ events' = events \cup {"succeeded"}

ConfirmSucceeds(t) ==
    /\ Charge(t)
    /\ run' = [run EXCEPT ![t].at = "polling", ![t].timer = TRUE]
    /\ UNCHANGED <<booking, payment, tab>>

\* result.error: the card is declined, the intent has succeeded already, or
\* the result is lost on the way back.
ConfirmFails(t) ==
    /\ run[t].at = "confirming"
    /\ \/ /\ intent[run[t].secret] = "open"
          /\ events' = events \cup {"failed"} /\ UNCHANGED intent
       \/ Charge(t)
       \/ intent[run[t].secret] = "succeeded" /\ UNCHANGED <<intent, events>>
    /\ run' = [run EXCEPT ![t] = NoRun]
    /\ UNCHANGED <<booking, payment, tab>>

\* setInterval: every tick counts and sends a GET, answered before or after
\* the next tick.  Bounds: one tick more than the attempts, and one answer
\* of each kind under way.
Tick(t) ==
    /\ run[t].timer /\ run[t].attempts <= MaxAttempts
    /\ \E a \in {"failed", IF booking.payment = "ESCROWED" THEN "paid" ELSE "unpaid"} \ run[t].answers :
          run' = [run EXCEPT ![t].attempts = @ + 1, ![t].answers = @ \cup {a}]
    /\ UNCHANGED <<booking, payment, intent, events, tab>>

\* The callback goes on after its await.  It stops the interval and takes
\* the tab to the booking page when the booking is paid, or after the last
\* attempt, whether the GET failed or not.
LandsIfAnswered(r, a) ==   \* mutant: the catch branch does nothing
    a = "paid" \/ (r.attempts >= MaxAttempts /\ a # "failed")
Lands(r, a) == a = "paid" \/ r.attempts >= MaxAttempts

Answered(t, a) ==
    LET lands == Lands(run[t], a) IN
    /\ a \in run[t].answers
    /\ run' = [run EXCEPT ![t] = Rest([@ EXCEPT !.answers = @ \ {a}, !.timer = @ /\ ~lands])]
    /\ IF lands THEN ToBooking(t) ELSE UNCHANGED tab
    /\ UNCHANGED <<booking, payment, intent, events>>

----------------------------------------------------------------------------
(* The webhook, and the trip.                                              *)

Webhook(e) ==
    /\ e \in events
    /\ events' = events \ {e}
    /\ booking' = [booking EXCEPT !.payment =
                      CASE e = "succeeded" -> "ESCROWED"
                        [] e = "failed"    -> "FAILED"]
    /\ UNCHANGED <<payment, intent, tab, run>>

\* The goods are picked up, or the booking is cancelled.
MovesOn ==
    /\ booking.payable
    /\ booking' = [booking EXCEPT !.payable = FALSE]
    /\ UNCHANGED <<payment, intent, events, tab, run>>

\* The page, and the form in it, whose run may outlive both.
PaymentPage(t) == OpenBooking(t) \/ Refetch(t) \/ Initiate(t)

PaymentForm(t) ==
    \/ ClickPay(t) \/ ConfirmSucceeds(t) \/ ConfirmFails(t) \/ Tick(t)
    \/ \E a \in Results : Answered(t, a)

CheckoutNext ==
    \/ \E t \in Tabs : PayLink(t) \/ PaymentPage(t) \/ PaymentForm(t)
    \/ \E e \in events : Webhook(e)
    \/ MovesOn

CheckoutSpec == CheckoutInit /\ [][CheckoutNext]_checkoutVars

\* The interval ticks, and every GET is answered or fails.
FairCheckoutSpec ==
    /\ CheckoutSpec
    /\ \A t \in Tabs :
          /\ WF_checkoutVars(Tick(t))
          /\ WF_checkoutVars(\E a \in Results : Answered(t, a))

----------------------------------------------------------------------------
\* The customer pays once, in however many tabs, and however often they go
\* back to the payment page because the webhook is late and the booking
\* still says UNPAID (PaymentPage's initMut; payment.Service.Initiate).
ChargedOnce == Cardinality({i \in Intents : intent[i] = "succeeded"}) <= 1

\* The spinner ends: a form that polls is done with it in the end, whether
\* the webhook comes or not and whatever happens to the GETs (handlePay,
\* "Poll booking status for up to 30s").
PollingEnds == \A t \in Tabs : (run[t].at = "polling") ~> (run[t].at # "polling")
=============================================================================
