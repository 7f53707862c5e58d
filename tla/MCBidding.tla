------------------------------ MODULE MCBidding ------------------------------
(* Two clerks and cancellations about one auction, or two auctions that    *)
(* end together and one clerk: a behaviour has the second clerk or the     *)
(* second auction.                                                         *)
EXTENDS Bidding

CONSTANTS b1, b2, t1, t2, h1, c1, c2, s1

VARIABLE second

TwoInit == BiddingInit /\ second \in {"clerk", "auction"}

TwoNext ==
  /\ BiddingNext
  /\ second' = second
  /\ second = "clerk" => \A b \in Bookings \ {b1} : row'[b].status = "NONE"
  /\ second = "auction" =>
       /\ \A c \in Clerks \ {c1} : clerk'[c] = IdleClerk
       /\ \A h \in Handlers : req'[h].op # "status"

TwoSpec == TwoInit /\ [][TwoNext]_<<auctionVars, second>>
FairTwoSpec == TwoSpec /\ AuctionFairness
=============================================================================
