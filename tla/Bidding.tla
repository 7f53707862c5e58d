------------------------------- MODULE Bidding -------------------------------
(***************************************************************************)
(* Auctions over the booking rows of BookingLifecycle: internal/bidding    *)
(* (PlaceBid, AcceptBid) and the scheduler's expireBids, which settles the *)
(* auctions whose window has passed.  The requests of BookingLifecycle     *)
(* (cancellations, direct acceptance, Saves) go on beside them.            *)
(*                                                                         *)
(* PlaceBid reads the booking and then looks for an earlier bid.  Bids are *)
(* never deleted, so an execution that passes both checks also passes them *)
(* in one step, PlaceRead; the insert is a step of its own.  AcceptBid's   *)
(* transaction reads the bid once more and then swaps the booking by its   *)
(* version; the bids it updates after the swap are covered by the row lock *)
(* that the swap took, so swap and updates are one step.                   *)
(***************************************************************************)
EXTENDS BookingLifecycle

CONSTANTS
  Clerks,      \* goroutines serving PlaceBid and AcceptBid
  Schedulers,  \* gateway instances running expireBids
  MaxBids,     \* bound of the model: rows of the bids table
  Amounts      \* the amounts bid

ASSUME BiddingAssumption == MaxBids \in Nat \ {0} /\ Amounts \subseteq Nat

VARIABLES
  bid,       \* the bids table, by id
  passed,    \* bookings whose bidding_deadline has passed
  clerk,     \* the request each clerk is serving
  expiry,    \* the pass of expireBids each scheduler is in
  reverted   \* history: bookings reverted when they were no longer the auction read

biddingVars == <<bid, passed, clerk, expiry, reverted>>
auctionVars == <<vars, biddingVars>>

BidIds == 1 .. MaxBids

Bid ==
  [status  : {"NONE", "PENDING", "ACCEPTED", "EXPIRED"},
   booking : Bookings \cup {None},
   by      : Transporters \cup {None},
   amount  : Amounts \cup {0}]

NoBid == [status |-> "NONE", booking |-> None, by |-> None, amount |-> 0]

IdleClerk == [pc |-> "idle", bid |-> NoBid, id |-> 0, version |-> 0]
IdlePass == [pc |-> "idle", todo |-> {}, booking |-> None, version |-> 0, id |-> 0]

BidsOf(b) == {i \in BidIds : bid[i].booking = b}
PendingBids(b) == {i \in BidsOf(b) : bid[i].status = "PENDING"}

BiddingTypeOK ==
  /\ TypeOK
  /\ bid \in [BidIds -> Bid]
  /\ passed \subseteq Bookings
  /\ clerk \in [Clerks -> [pc : {"idle", "create", "check", "award"}, bid : Bid,
                           id : BidIds \cup {0}, version : Nat]]
  /\ \A s \in Schedulers :
       /\ expiry[s].pc \in {"idle", "next", "revert", "award"}
       /\ expiry[s].todo \subseteq [booking : Bookings, version : Nat]
       /\ expiry[s].pc \in {"revert", "award"} => expiry[s].booking \in Bookings
       /\ expiry[s].pc = "award" => expiry[s].id \in BidsOf(expiry[s].booking)
  /\ reverted \subseteq Bookings

BiddingInit ==
  /\ Init
  /\ bid = [i \in BidIds |-> NoBid]
  /\ passed = {}
  /\ clerk = [c \in Clerks |-> IdleClerk]
  /\ expiry = [s \in Schedulers |-> IdlePass]
  /\ reverted = {}

-----------------------------------------------------------------------------
(* The two hours of the window are over. *)
WindowPasses(b) ==
  /\ row[b].bidding
  /\ b \notin passed
  /\ passed' = passed \cup {b}
  /\ UNCHANGED <<vars, bid, clerk, expiry, reverted>>

-----------------------------------------------------------------------------
PlaceRead(c, b, t, a) ==
  /\ clerk[c] = IdleClerk
  /\ row[b].status = "BIDDING"
  /\ b \notin passed
  /\ \A i \in BidsOf(b) : bid[i].by # t
  /\ clerk' = [clerk EXCEPT ![c] = [IdleClerk EXCEPT !.pc = "create",
                 !.bid = [status |-> "PENDING", booking |-> b, by |-> t, amount |-> a]]]
  /\ UNCHANGED <<vars, bid, passed, expiry, reverted>>

FirstFree(i) == bid[i].status = "NONE" /\ \A j \in 1 .. i - 1 : bid[j].status # "NONE"

PlaceCreate(c) ==
  /\ clerk[c].pc = "create"
  /\ \E i \in BidIds : FirstFree(i) /\ bid' = [bid EXCEPT ![i] = clerk[c].bid]
  /\ clerk' = [clerk EXCEPT ![c] = IdleClerk]
  /\ UNCHANGED <<vars, passed, expiry, reverted>>

-----------------------------------------------------------------------------
(* The swap shared by AcceptBid and expireBids: UPDATE bookings ... WHERE  *)
(* id = ? AND status = 'BIDDING' AND version = ?, then the bids.           *)
AwardableById(b, version) == TRUE   \* mutant: WHERE id = ? alone
Awardable(b, version) == row[b].status = "BIDDING" /\ row[b].version = version

Award(i, version) ==
  LET b == bid[i].booking IN
  /\ row' = [row EXCEPT ![b].transporter = bid[i].by,
                        ![b].status = "ACCEPTED",
                        ![b].version = version + 1]
  /\ claimants' = [claimants EXCEPT ![b] = @ \cup {bid[i].by}]
  /\ bid' = [j \in BidIds |->
               IF j = i THEN [bid[j] EXCEPT !.status = "ACCEPTED"]
               ELSE IF j \in PendingBids(b) THEN [bid[j] EXCEPT !.status = "EXPIRED"]
               ELSE bid[j]]

NoAward == UNCHANGED <<row, claimants, bid>>

AwardRead(c, i) ==
  /\ clerk[c] = IdleClerk
  /\ bid[i].status = "PENDING"
  /\ row[bid[i].booking].status = "BIDDING"
  /\ row[bid[i].booking].version < MaxVersion
  /\ clerk' = [clerk EXCEPT ![c] = [IdleClerk EXCEPT !.pc = "check", !.id = i,
                 !.version = row[bid[i].booking].version]]
  /\ UNCHANGED <<vars, bid, passed, expiry, reverted>>

AwardCheck(c) ==
  /\ clerk[c].pc = "check"
  /\ clerk' = [clerk EXCEPT ![c] =
                 IF bid[@.id].status = "PENDING" THEN [@ EXCEPT !.pc = "award"]
                                                 ELSE IdleClerk]
  /\ UNCHANGED <<vars, bid, passed, expiry, reverted>>

AwardBid(c) ==
  LET i == clerk[c].id IN
  /\ clerk[c].pc = "award"
  /\ IF Awardable(bid[i].booking, clerk[c].version)
       THEN Award(i, clerk[c].version)
       ELSE NoAward
  /\ clerk' = [clerk EXCEPT ![c] = IdleClerk]
  /\ UNCHANGED <<req, sweep, cancellations, photographed, unguarded,
                 passed, expiry, reverted>>

AbandonBid(c) ==
  /\ clerk[c] # IdleClerk
  /\ clerk' = [clerk EXCEPT ![c] = IdleClerk]
  /\ UNCHANGED <<vars, bid, passed, expiry, reverted>>

-----------------------------------------------------------------------------
(* expireBids: one SELECT of the auctions whose window has passed; then,   *)
(* for each, a SELECT of its pending bids, and either an update by id back *)
(* to PENDING or a transaction that awards the lowest bid.                 *)
DueIfBidFor ==   \* mutant: only auctions somebody bid in are settled
  {b \in Bookings : /\ row[b].status = "BIDDING"
                    /\ row[b].bidding
                    /\ b \in passed
                    /\ PendingBids(b) # {}}
Due == {b \in Bookings : row[b].status = "BIDDING" /\ row[b].bidding /\ b \in passed}

ExpireSelect(s) ==
  /\ expiry[s].pc = "idle"
  /\ Due # {}
  /\ expiry' = [expiry EXCEPT ![s].pc = "next",
       ![s].todo = {[booking |-> b, version |-> row[b].version] : b \in Due}]
  /\ UNCHANGED <<vars, bid, passed, clerk, reverted>>

Lowest(b) ==
  {i \in PendingBids(b) : \A j \in PendingBids(b) : bid[i].amount <= bid[j].amount}

ExpireBidsFirst(s) ==   \* mutant: bids[0] without the test len(bids) == 0
  /\ expiry[s].pc = "next"
  /\ \E e \in expiry[s].todo, i \in BidIds \cup {0} :
       /\ IF PendingBids(e.booking) = {} THEN i = 0 ELSE i \in Lowest(e.booking)
       /\ expiry' = [expiry EXCEPT ![s] =
            [pc |-> "award", todo |-> @.todo \ {e},
             booking |-> e.booking, version |-> e.version, id |-> i]]
  /\ UNCHANGED <<vars, bid, passed, clerk, reverted>>

ExpireBids(s) ==
  /\ expiry[s].pc = "next"
  /\ \E e \in expiry[s].todo, i \in BidIds \cup {0} :
       /\ IF PendingBids(e.booking) = {} THEN i = 0 ELSE i \in Lowest(e.booking)
       /\ expiry' = [expiry EXCEPT ![s] =
            [pc |-> IF i = 0 THEN "revert" ELSE "award", todo |-> @.todo \ {e},
             booking |-> e.booking, version |-> e.version, id |-> i]]
  /\ UNCHANGED <<vars, bid, passed, clerk, reverted>>

NextAuction(s) ==
  LET todo == expiry[s].todo IN
  expiry' = [expiry EXCEPT ![s] =
    IF todo = {} THEN IdlePass ELSE [IdlePass EXCEPT !.pc = "next", !.todo = todo]]

ExpireRevert(s) ==
  LET b == expiry[s].booking IN
  /\ expiry[s].pc = "revert"
  /\ row' = [row EXCEPT ![b].status = "PENDING"]
  /\ unguarded' = unguarded \cup {b}
  /\ reverted' = IF Awardable(b, expiry[s].version) THEN reverted ELSE reverted \cup {b}
  /\ NextAuction(s)
  /\ UNCHANGED <<req, sweep, cancellations, claimants, photographed, bid, passed, clerk>>

ExpireAward(s) ==
  /\ expiry[s].pc = "award"
  /\ IF Awardable(expiry[s].booking, expiry[s].version)
       THEN Award(expiry[s].id, expiry[s].version)
       ELSE NoAward
  /\ NextAuction(s)
  /\ UNCHANGED <<req, sweep, cancellations, photographed, unguarded,
                 passed, clerk, reverted>>

(* The instance dies and forgets its pass. *)
ExpireDies(s) ==
  /\ expiry[s].pc # "idle"
  /\ expiry' = [expiry EXCEPT ![s] = IdlePass]
  /\ UNCHANGED <<vars, bid, passed, clerk, reverted>>

-----------------------------------------------------------------------------
Clerking(c) ==
  \/ \E b \in Bookings, t \in Transporters, a \in Amounts : PlaceRead(c, b, t, a)
  \/ PlaceCreate(c)
  \/ \E i \in BidIds : AwardRead(c, i)
  \/ AwardCheck(c)
  \/ AwardBid(c)
  \/ AbandonBid(c)

Expiring(s) ==
  \/ ExpireSelect(s)
  \/ ExpireBids(s)
  \/ ExpireRevert(s)
  \/ ExpireAward(s)

BiddingNext ==
  \/ Next /\ UNCHANGED biddingVars
  \/ \E b \in Bookings : WindowPasses(b)
  \/ \E c \in Clerks : Clerking(c)
  \/ \E s \in Schedulers : Expiring(s) \/ ExpireDies(s)

BiddingSpec == BiddingInit /\ [][BiddingNext]_auctionVars

(* The clock advances; runLoop calls expireBids every minute, and not      *)
(* every pass of it dies.                                                  *)
AuctionFairness ==
  /\ \A b \in Bookings : WF_auctionVars(WindowPasses(b))
  /\ \A s \in Schedulers :
       /\ SF_auctionVars(ExpireSelect(s))
       /\ SF_auctionVars(ExpireBids(s))
       /\ SF_auctionVars(ExpireRevert(s))
       /\ SF_auctionVars(ExpireAward(s))

AuctionSpec == BiddingSpec /\ AuctionFairness

-----------------------------------------------------------------------------
(* An auction is won once.  AcceptBid of two bids, AcceptBid against       *)
(* expireBids, and either against a cancellation or a direct acceptance:   *)
(* while expireBids has not reverted a booking that had moved on, at most  *)
(* one of its bids is ever accepted.                                       *)
OneAward ==
  \A b \in Bookings \ reverted : \A i, j \in BidsOf(b) :
    (bid[i].status = "ACCEPTED" /\ bid[j].status = "ACCEPTED") => i = j

(* The tables agree: the bidder whose bid is accepted, and everybody told  *)
(* that he got the booking, is the transporter in the booking's row, even  *)
(* after stale Saves and after the sweep.                                  *)
WinnerHolds ==
  \A b \in Bookings \ reverted :
    /\ \A i \in BidsOf(b) : bid[i].status = "ACCEPTED" => row[b].transporter = bid[i].by
    /\ claimants[b] \subseteq {row[b].transporter}

(* An auction with a deadline does not hang: whatever bids come late and   *)
(* whatever requests interfere, it is awarded, cancelled or back to direct *)
(* acceptance some day.                                                    *)
AuctionsSettle ==
  \A b \in Bookings :
    (row[b].status = "BIDDING" /\ row[b].bidding) ~> row[b].status # "BIDDING"

(* "No bids -> revert to PENDING" (scheduler.go): a booking that goes back *)
(* to PENDING has no bid that was accepted.                                *)
RevertedHadNoBids ==
  [][\A b \in Bookings :
       (row[b].status \notin {"NONE", "PENDING"} /\ row'[b].status = "PENDING")
         => \A i \in BidsOf(b) : bid[i].status # "ACCEPTED"]_auctionVars
=============================================================================
