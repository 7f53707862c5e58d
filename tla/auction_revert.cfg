SPECIFICATION TwoSpec
CONSTANTS
  b1 = b1
  b2 = b2
  t1 = t1
  t2 = t2
  h1 = h1
  c1 = c1
  c2 = c2
  s1 = s1
  Customer = customer
  None = none
  Bookings = {b1}
  Transporters = {t1}
  Handlers = {h1}
  Clerks = {c1, c2}
  Schedulers = {s1}
  Ops = {"status"}
  MaxActive = 1
  MaxVersion = 3
  MaxTally = 1
  MaxBids = 2
  Amounts = {1}
PROPERTIES RevertedHadNoBids
CHECK_DEADLOCK FALSE
