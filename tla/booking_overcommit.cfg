SPECIFICATION Spec
CONSTANTS
  b1 = b1
  b2 = b2
  b3 = b3
  b4 = b4
  t1 = t1
  t2 = t2
  h1 = h1
  h2 = h2
  Customer = customer
  None = none
  Bookings = {b1, b2, b3, b4}
  Transporters = {t1}
  Handlers = {h1, h2}
  Ops = {"accept"}
  MaxActive = 3
  MaxVersion = 2
  MaxTally = 1
INVARIANTS ActiveWithinLimit
CHECK_DEADLOCK FALSE
