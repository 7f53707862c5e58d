SPECIFICATION EscrowSpec
CONSTANTS
  b1 = b1
  t1 = t1
  h1 = h1
  h2 = h2
  c1 = c1
  c2 = c2
  Customer = customer
  None = none
  Bookings = {b1}
  Transporters = {t1}
  Handlers = {h1}
  Hooks = {c1, c2}
  Ops = {"accept", "status", "photos"}
  MaxActive = 1
  MaxVersion = 7
  MaxTally = 1
  MaxPaidOut = 2
SYMMETRY EscrowSymmetry
INVARIANTS EscrowTypeOK PaidOutOnce PaidOutWasCharged
