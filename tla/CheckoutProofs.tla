-------------------------- MODULE CheckoutProofs --------------------------
(***************************************************************************)
(* Nobody is charged twice for a booking: for any number of tabs, visits   *)
(* and intents, and whichever answers of Initiate are lost.                *)
(*                                                                         *)
(* ChargedOnce says nothing of intents that are open and could be charged  *)
(* later, and the table of payments may have no row for the one there is.  *)
(* OneIntent says what the idempotency key and the row keep between them.  *)
(***************************************************************************)
EXTENDS Checkout, FiniteSetTheorems, TLAPS

States == {"unused", "open", "succeeded"}

OneIntent ==
    \A i, j \in Intents : intent[i] # "unused" /\ intent[j] # "unused" => i = j

\* A row of the payments table has an intent that was made.
RowHasIntent ==
    payment # NoIntent => payment \in Intents /\ intent[payment] # "unused"

IntentInv ==
    /\ intent \in [Intents -> States]
    /\ OneIntent
    /\ RowHasIntent

\* Initiate gets, or opens, the one intent.
LEMMA InitiateStep ==
    ASSUME IntentInv, NEW t \in Tabs, Initiate(t)
    PROVE  IntentInv'
<1>1. CASE UNCHANGED <<payment, intent>>
      BY <1>1 DEF IntentInv, OneIntent, RowHasIntent
<1>2. CASE \E i \in IF payment = NoIntent THEN {j \in Intents : Keyed(j)} ELSE {payment} :
              intent' = Opened(i) /\ payment' \in {payment, i}
  <2>1. PICK i \in IF payment = NoIntent THEN {j \in Intents : Keyed(j)} ELSE {payment} :
              intent' = Opened(i) /\ payment' \in {payment, i}
        BY <1>2
  <2>2. i \in Intents /\ Keyed(i)
        BY <2>1 DEF IntentInv, RowHasIntent, Keyed
  <2>3. /\ intent' \in [Intents -> States]
        /\ intent'[i] # "unused"
        /\ \A j \in Intents \ {i} : intent'[j] = intent[j]
        /\ \A j \in Intents : intent[j] # "unused" => intent'[j] # "unused"
        BY <2>1, <2>2 DEF IntentInv, Opened, States
  <2>4. \A j \in Intents \ {i} : intent[j] = "unused"
        BY <2>2 DEF IntentInv, OneIntent, Keyed
  <2>5. OneIntent'
        BY <2>3, <2>4 DEF OneIntent
  <2>6. RowHasIntent'
        BY <2>1, <2>2, <2>3 DEF IntentInv, RowHasIntent
  <2> QED BY <2>3, <2>5, <2>6 DEF IntentInv
<1> QED BY <1>1, <1>2 DEF Initiate

\* Stripe charges an intent that is open.
LEMMA ChargeStep ==
    ASSUME IntentInv, NEW t \in Tabs, Charge(t), UNCHANGED payment
    PROVE  IntentInv'
<1>1. /\ intent' \in [Intents -> States]
      /\ \A j \in Intents : intent'[j] # "unused" <=> intent[j] # "unused"
      BY DEF Charge, IntentInv, States
<1> QED BY <1>1 DEF IntentInv, OneIntent, RowHasIntent

LEMMA CheckoutStepInv == IntentInv /\ [CheckoutNext]_checkoutVars => IntentInv'
<1> SUFFICES ASSUME IntentInv, [CheckoutNext]_checkoutVars PROVE IntentInv'
    OBVIOUS
<1>1. CASE UNCHANGED <<payment, intent>>
      BY <1>1 DEF IntentInv, OneIntent, RowHasIntent
<1>2. CASE \E t \in Tabs : Initiate(t)
      BY <1>2, InitiateStep
<1>3. CASE \E t \in Tabs : ConfirmSucceeds(t) \/ ConfirmFails(t)
      BY <1>1, <1>3, ChargeStep DEF ConfirmSucceeds, ConfirmFails
<1>4. ASSUME NEW t \in Tabs, PayLink(t) \/ OpenBooking(t) \/ Refetch(t) \/ ClickPay(t) \/ Tick(t)
      PROVE  UNCHANGED <<payment, intent>>
      BY <1>4 DEF PayLink, OpenBooking, Refetch, ClickPay, Tick
<1>5. ASSUME NEW t \in Tabs, NEW a \in Results, Answered(t, a)
      PROVE  UNCHANGED <<payment, intent>>
      BY <1>5 DEF Answered
<1>6. ASSUME (\E e \in events : Webhook(e)) \/ MovesOn
      PROVE  UNCHANGED <<payment, intent>>
      BY <1>6 DEF Webhook, MovesOn
<1> QED BY <1>1, <1>2, <1>3, <1>4, <1>5, <1>6
        DEF CheckoutNext, PaymentPage, PaymentForm, checkoutVars

\* At most one intent of a booking is ever made at Stripe, and the row of the
\* payments table, once there, is its (payment.Service.Initiate).
THEOREM IntentInvariant == CheckoutSpec => []IntentInv
<1>1. CheckoutInit => IntentInv
      BY DEF CheckoutInit, IntentInv, OneIntent, RowHasIntent, States
<1> QED BY <1>1, CheckoutStepInv, PTL DEF CheckoutSpec

\* The customer is charged once, in however many tabs and visits
\* (payments/[bookingId]/page.tsx, initMut and handlePay).
THEOREM NeverChargedTwice == CheckoutSpec => []ChargedOnce
<1>1. ASSUME IntentInv PROVE ChargedOnce
  <2> DEFINE paid == {i \in Intents : intent[i] = "succeeded"}
  <2>1. CASE paid = {}
        BY <2>1, FS_EmptySet DEF ChargedOnce
  <2>2. CASE paid # {}
    <3>1. PICK i \in Intents : paid = {i}
          BY <1>1, <2>2 DEF IntentInv, OneIntent
    <3>2. Cardinality({i}) = 1
          BY FS_Singleton
    <3> HIDE DEF paid
    <3>3. Cardinality(paid) = 1
          BY <3>1, <3>2
    <3> QED BY <3>3 DEF ChargedOnce, paid
  <2> QED BY <2>1, <2>2
<1> QED BY <1>1, IntentInvariant, PTL
=============================================================================
