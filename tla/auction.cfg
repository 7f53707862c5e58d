SPECIFICATION FairTwoSpec
CONSTANTS
  b1 = b1
  b2 = b2
  t1 = t1
  t2 = t2
  h1 = h1
  c1 = c1
  c2 = c2
  s1 = s1
  Customer = customer
  None = none
  Bookings = {b1, b2}
  Transporters = {t1, t2}
  Handlers = {h1}
  Clerks = {c1, c2}
  Schedulers = {s1}
  Ops = {"accept", "status", "sweep"}
  MaxActive = 1
  MaxVersion = 3
  MaxTally = 1
  MaxBids = 2
  Amounts = {1}
INVARIANTS BiddingTypeOK OneAward WinnerHolds
PROPERTIES AuctionsSettle
CHECK_DEADLOCK FALSE
