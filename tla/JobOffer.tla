------------------------------ MODULE JobOffer ------------------------------
(***************************************************************************)
(* What the booking service promises about an offered job, with no         *)
(* versions, copies or requests: a job is posted once, and while it is     *)
(* open it is either taken by one transporter or withdrawn.  A closed job  *)
(* is never opened again and never changes hands.                          *)
(***************************************************************************)
CONSTANTS Bookings, Transporters, None

VARIABLES
  offer,   \* "absent", "open" or "closed"
  holder   \* the transporter who took the job, or None

vars == <<offer, holder>>

Init ==
  /\ offer = [b \in Bookings |-> "absent"]
  /\ holder = [b \in Bookings |-> None]

Post(b) ==
  /\ offer[b] = "absent"
  /\ offer' = [offer EXCEPT ![b] = "open"]
  /\ UNCHANGED holder

Take(b, t) ==
  /\ offer[b] = "open"
  /\ offer' = [offer EXCEPT ![b] = "closed"]
  /\ holder' = [holder EXCEPT ![b] = t]

Withdraw(b) ==
  /\ offer[b] = "open"
  /\ offer' = [offer EXCEPT ![b] = "closed"]
  /\ UNCHANGED holder

Next ==
  \E b \in Bookings :
    \/ Post(b)
    \/ \E t \in Transporters : Take(b, t)
    \/ Withdraw(b)

Spec == Init /\ [][Next]_vars
=============================================================================
