# Speedygo: formal models of the booking backend and its apps

TLA+ models, TLC runs and TLAPS proofs for Speedygo, a marketplace that matches
customers who ship goods with transporters who carry them. The backend
(`src/speedygo-backend`, Go) is one gateway process, or several of them behind a
load balancer, over Postgres, Redis, NATS and Stripe. The frontend
(`src/speedygo-frontend`, TypeScript) is three Next.js apps, for customers,
transporters and admins, over two shared packages: an HTTP client that refreshes
tokens and a WebSocket client that reconnects. The repository has no tests, so
what the code promises is read from the code, its comments, its messages to
users and its README.

Go paths below are relative to `src/speedygo-backend/`, TypeScript paths to
`src/speedygo-frontend/`.

## 1. Inventory

Every HTTP request is served on a goroutine of its own and talks to Postgres in
separate round trips. Transactions are READ COMMITTED and rare. Three ways of
writing a row exist, and most of what is hard comes from mixing them:

| write | where | what it checks |
|---|---|---|
| compare-and-swap: `UPDATE ... WHERE id = ? AND version = ?` | `booking/repository.go:59-114`, `bidding/service.go:174`, `scheduler.go:199` | the version (and sometimes the status) |
| update of named columns by id | `booking/repository.go:140-161`, `scheduler.go:99,186,348`, `payment/service.go:140` | nothing |
| gorm's `Save` of a struct read earlier: every column | `booking/repository.go:135`, `scheduler.go:97`, `payment/service.go:137`, `user/repository.go` | nothing |

A `Save` that follows a successful compare-and-swap is the typical case: the swap
was checked, and the write after it is not.

| component | state | operations | interacts with |
|---|---|---|---|
| booking (`internal/booking`) | `bookings` row: status, version, transporter, OTP, photos, payment columns; `users.cancellation_count`; surge counters and booking OTPs in Redis | Create, AcceptBooking, UpdateStatus, FlagGoodsMismatch, UploadPhotos, VerifyPickupOTP, CompleteBooking, SendBookingOTP, VerifyBookingOTP | bidding, payment and the scheduler write the same rows |
| bidding (`internal/bidding`) | `bids` rows, the booking's deadline | PlaceBid, AcceptBid | writes the booking's transporter and status |
| payment (`internal/payment`) | `payments` row, `bookings.payment_status` | Initiate, three Stripe webhooks | Stripe delivers at least once, in any order |
| scheduler (`internal/scheduler`) | a Redis lock per job | releaseEscrow, expireBids, expireStaleBookings, suspension rules, ghost detection, scheduled activation, geo cleanup | writes bookings, bids, payments, users; several instances |
| user, middleware, otp | user rows, sessions and refresh tokens in Redis, login and OTP attempt counters | Register, Login, RefreshToken, Logout, UpdateProfile, SendOTP, VerifyOTP, JWTAuth | admin revokes sessions that the middleware reads |
| admin, kyc, moderation, report | user status and role, KYC submissions, reports | disable, enable, ban, review, automatic suspension | whole-row Saves of the same user row |
| chat, tracking, sos, notification, natsbus | connection hubs in memory, messages, last positions, alerts | register and unregister sockets, send, catch up, ping, raise, resolve | Redis pub/sub, NATS |
| vehicle, dashboard, maps, aiadmin | vehicles, ratings | register, review, delete, rate | bookings and bids refer to vehicles |
| `packages/api-client`, auth stores | tokens in memory and in localStorage, `isRefreshing`, the requests that wait for a refresh | request and response interceptors, setAuth, logout | the session endpoints; other tabs of the browser |
| `packages/ws-client` | `this.ws`, `shouldReconnect`, the retry timer | connect, reconnect, disconnect, status events | the hubs; the pages that hold a client |
| chat and tracking pages | shown messages; `trackingStore` | history, send, receive; publish, watch, age of a position | chat and tracking services |
| booking, job and active-trip pages | query cache, dialogs, the mutation under way | poll, act, refetch | booking and bidding API |
| payment page | the intent, the polling interval | initiate, confirm, poll | payment API, Stripe |
| KYC, vehicle, report and SOS pages; the admin's desks | query caches, the open modal | file, edit, list, decide | kyc, vehicle, report, sos, moderation |
| new-booking page | two points, their addresses, searches, timers, a route | type, choose, click, locate, submit | geocoding and routing services |
| login, profile, password and user-management pages | the shown user, forms and dialogs | sign in, save, disable, enable, remove, ban | user, admin, middleware |

On the frontend everything is one thread per document, so what is hard is order:
a page acts on a copy that was true when it was fetched, several answers travel
at once and may overtake each other, callbacks run after the page they belong to
is gone, and two tabs share one account. The server takes what a page sends it,
so some promises ("the goods are handed over for the code") are kept by the page
and the server together.

What is hard, component by component, is in `PROJECT.json` under `hazards`, each
at its line. In short: copies of a row that outlive other people's writes
(booking, user, kyc, vehicle), checks and writes in separate round trips (bids,
refresh tokens, revocations, the overcommit limit), cron jobs that write by id what
they selected by status, webhooks repeated and out of order, passes that die
halfway, sockets that close while their handlers still work, and pages that act on
cached copies while answers overtake each other.

The properties that make the components correct:

* booking: a booking is won by one transporter, who keeps it; its status moves
  along the transition table; nothing is carried by nobody; nothing is completed
  without photos; an offer does not hang;
* bidding: one award per auction, and the bids agree with the booking; auctions end;
* payment: no payout twice, none of money that was not collected, none in a
  dispute or after a refund (the last two, and the first when a lost write meets a
  late event, are not kept: section 4);
* sessions: one refresh at a time per document, no request that waits for ever, and
  no late answer that signs a browser in after its user signed out;
* account status: a suspended user is kept out, only the SUPER_ADMIN lifts a ban
  (the second is not kept: section 4), and the app shows what the row says;
* hubs and sockets: one socket per page, a hub entry whose handler runs, no message
  twice, no position of another trip, and a watcher who sees positions again after
  every reconnect;
* trip pages: the goods change hands for the code only, a trip page is up for
  one's own trip, and pages catch up with the row;
* payment page: one charge per booking, and a spinner that ends;
* desks: bans rest on enough reports, decisions are only undone by requests that
  overlapped them, alerts reach the desks, decisions show;
* new booking: the route that is priced is that of the two points, and the drop is
  where its field says.

## 2. Plan

Order, most important first. A star marks what exists.

1. `BookingLifecycle`\* - the booking row and the requests that write it;
   `JobOffer`\* - what it promises, abstractly; `BookingInvariant`\*,
   `BookingProofs`\* - the inductive invariant and the proofs.
2. `Bidding`\*, `PaymentEscrow`\* and `MarketProofs`\* - two components composed
   with `BookingLifecycle` (they extend it and take its `Next` as one of their
   steps), and the proofs about both, which rest on those about bookings.
3. `Session`\* and `SessionProofs`\* - refresh rotation, logout, revocation, and the
   frontend's queue of requests that wait for one refresh, in several tabs.
4. `TripScreens`\* and `TripProofs`\* - a booking as the pages of its two people
   see it; `Checkout`\* and `CheckoutProofs`\* - the payment page.
5. `Sockets`\*, and over it `Chat`\* and `Tracking`\* - the reconnecting client and
   the two hubs; `TrackingProofs`\*.
6. `ReviewDesk`\* and `DeskProofs`\* - KYC, vehicles, reports and alerts between the users who file
   them and the admins; `Accounts`\* - the user row between its owner, the admins and
   the scheduler, with the statuses that KYC writes.
7. `NewBooking`\* - the form that makes a booking; `PagesProofs`\* - the proofs
   about `Chat`, `NewBooking` and `Accounts`.
8. Left: OTP attempts and cooldown, login lockout; the scheduler's lock with a job
   longer than its TTL; price tiers, surge and cancellation fee against a reference.

Abstract specifications: `JobOffer`\* for bookings, implemented by the requests
alone and by the requests with payments beside them; worth stating next, a sealed
auction (open, awarded once, or closed) for `Bidding` and an escrow ledger
(collected, then released once or refunded) for `PaymentEscrow`, with the
conditions under which the code implements it.

Theorems left: the refinements of these two specifications. Every invariant and
every action property that a passing run checks is a theorem (section 5).

## 3. The modules

| module | models | correspondence |
|---|---|---|
| `BookingLifecycle` | booking row, its HTTP requests, expireStaleBookings | below |
| `JobOffer` | abstract: a job is posted, then taken once or withdrawn | no code; the promise |
| `BookingInvariant` | the inductive invariants (`IInv`, `PhotosRecorded`, `CountInv`) and the refinement mapping | extends `BookingLifecycle` |
| `BookingProofs` | theorems and proofs | extends `BookingInvariant`, `FiniteSetTheorems`, `TLAPS` |
| `Bidding` | PlaceBid, AcceptBid, expireBids | extends `BookingLifecycle` |
| `PaymentEscrow` | Initiate, webhooks, releaseEscrow | extends `BookingLifecycle` |
| `MarketProofs` | theorems and proofs | extends `PaymentEscrow`, `Bidding`, `BookingProofs` |
| `Session` | the session of one account, in tabs and at the server | below |
| `SessionProofs` | theorems and proofs | extends `Session`, `TLAPS` |
| `TripScreens` | one booking on the pages of both people | below |
| `TripProofs` | theorems and proofs | extends `TripScreens`, `TLAPS` |
| `Checkout` | the payment page, Initiate, Stripe | below |
| `CheckoutProofs` | theorems and proofs | extends `Checkout`, `TLAPS` |
| `Sockets` | WSManager as the pages use it | below |
| `Chat` | chat pages and hub | extends `Sockets` |
| `Tracking` | publishing and watching positions | extends `Sockets` |
| `TrackingProofs` | theorems and proofs | extends `Tracking`, `TLAPS` |
| `ReviewDesk` | KYC, vehicles, reports, SOS and their desks | below |
| `DeskProofs` | theorems and proofs | extends `ReviewDesk`, `TLAPS` |
| `NewBooking` | the page bookings/new | below |
| `Accounts` | the user row, its owner, the admins and the scheduler | below |
| `PagesProofs` | theorems and proofs | extends `Chat`, `NewBooking`, `Accounts`, `SequenceTheorems`, `TLAPS` |
| `MCBookingLifecycle`, `MCBidding`, `MCPaymentEscrow`, `MCSession`, `MCChat`, `MCTracking`, `MCTripScreens`, `MCCheckout`, `MCReviewDesk` | model values, bounds, starting points | for TLC |
| `MCPages` | `MCChat`, `NewBooking` and `Accounts` side by side, one per behaviour | for TLC |

Definitions marked `\* mutant` are plausible mistakes in the code (a dropped
guard, a forgotten increment). They are used by no specification; putting one in
place of the definition below it must break a property, which shows that the
property depends on that code.

### BookingLifecycle

`row[b]` is the booking's row, reduced to the columns that decisions read; a row
that was not inserted yet has status `NONE`. `req[h]` is the request handler `h`
is serving: its operation, where it stands (`pc`), and `copy`, the struct it
read. Each round trip to the database is one action:

| request | actions |
|---|---|
| Create | `Create` (one INSERT, PENDING or, with bidding, BIDDING) |
| AcceptBooking | `AcceptRead`, `AcceptCount` (the overcommit count), `AcceptClaim` (the update WHERE version and status), `WriteOtp` (after the transaction) |
| UpdateStatus | `StatusRead`, `Cas`, `Save` (only for the four targets that save), `IncrementCancellationCount` |
| VerifyPickupOTP, CompleteBooking | `PickupRead` / `CompleteRead`, `Cas`, `Save` |
| FlagGoodsMismatch | `FlagRead`, `Save` |
| UploadPhotos | `PhotosRead`, `WritePhotos` |
| expireStaleBookings | `SweepRead`, `SweepWrite` of each booking read |
| process death, failed write whose error is ignored | `Abandon` at any point |

A request whose validation fails changes nothing, so only requests that pass are
started. The guard of each read is the conjunction of the validations up to the
first write. `Save` assigns the whole copy, which is what gorm does. History
variables: `claimants` (who was told, by a nil error, that the booking is his),
`photographed`, and `unguarded` (bookings written at a version nobody compared:
by a stale `Save`, the sweep, or expireBids' revert).

Details of the code the model keeps that a reader may not expect:

* UpdateStatus takes any target in `validTransitions`, so the customer may set
  ACCEPTED or BIDDING himself; a booking can be ACCEPTED without a transporter.
  A booking moved from PENDING to BIDDING this way gets no deadline and
  `bidding_enabled` stays false.
* VerifyPickupOTP also starts from ACCEPTED (`booking/service.go:654`), although
  its comment speaks of PICKING_UP only; `LawfulTransition` allows it.
* The version and the status in the claim's WHERE clause are each enough for
  `ExclusiveClaim`; only without both is a booking given twice (`ClaimableById`).
* The limit of active bookings is only checked by AcceptBooking: a booking won
  by a bid counts toward it and is not stopped by it, and it gets no pickup OTP.

Assumption on the constants: the customer of a booking is not one of the
transporters. The code does not enforce that roles are disjoint per booking; the
route of AcceptBooking requires the TRANSPORTER role, and the model gives
customers the other one.

### Bidding

`bid` is the bids table; `clerk[c]` and `expiry[s]` are requests and passes of
expireBids in flight; `passed` holds the auctions whose deadline is over (the
clock is abstracted to that event). PlaceBid's reads are one step and its insert
another: bids are never deleted, so an execution whose two checks both succeed
also succeeds with both made at the later moment. AcceptBid's two reads are one
step because the bid is checked again inside the transaction and never becomes
PENDING again; the swap and the updates of the bids are one step because the
swap holds the booking's row lock until the commit. The compare-and-swap of
AcceptBid and of expireBids is the same operator, `Awardable` and `Award`.

### PaymentEscrow

`payment[b]` is the status of the payment row, while `row[b].payment` and
`row[b].released` are the columns of the booking that the scheduler searches by.
Stripe is external: `StripeEmits` adds an event, and an event that was emitted can
be delivered (`HookRead`) in every later state, so loss, repetition and reordering
need no actions of their own. The webhook always answers 200, so an abandoned
delivery is not retried on purpose, but Stripe may still deliver the event again.
`unrecorded` remembers releases whose booking does not show them: the pass died,
or its update failed, between the two writes (`ReleaseDies`), or a booking
request saved an older copy over `escrow_release_at`. `reopened` remembers
bookings whose RELEASED payment a webhook overwrote. The two hours after
completion are not modelled: any completed booking may be old enough.

### Session

Pair `n` is the `n`-th access token and the refresh token issued with it. `mem[t]`
is the store of tab `t`, `disk` what zustand's persist wrote to localStorage, which
a tab reads only when its document starts (`Load`), and `indicator` the cookie that
middleware.ts looks at. `req[q]` is an API call, `calls` the calls to
`/auth/refresh` in flight; `heard` is FALSE for those whose document is gone.

| code | actions |
|---|---|
| response interceptor (`axios.ts:57-130`) | `Answered`, `GiveUp` (already retried), `Subscribe`, `StartRefresh`, `NothingToRefresh`, `RefreshSucceeds`, `RefreshFails` |
| RefreshToken (`user/service.go`) | `RefreshChecks` (its reads, and the end of the family on reuse), `RefreshRotates`, `RefreshErrs` (signing fails after the blacklisting), `RefreshLost` |
| authStore | `SetAuth`, `Logout`, `LoginRefused` (a 401 of the login form logs out too), `Load` |
| server | `LogoutHandled`, `ChangePassword`, `RevocationExpires`, `Expire` |

Two calls may pass `RefreshChecks` with the same token before either rotates. The
service signs tokens with an `iat` it never compares with a revocation.

### Sockets, Chat and Tracking

`Sockets` is WSManager: a client is made when an effect runs (`Mount`, `Remake`),
makes one socket after the other, and is disconnected by the effect's cleanup
(`Unmount`). `sock[u][i]` is the readyState of its `i`-th socket, `ws[u]` is
`this.ws`. A retry timer may fire at any time: the lengths of the delays are left
out, and the bound on sockets also bounds failures (`Closed` needs one left).

`Chat` adds the pages (`OpenPage`, `HistoryArrives`, `SendMessage`, `Receive`; the
customer's messages are in a store that outlives the page, the transporter's in
the page) and the service: one handler per socket, which reads a frame and stores
it (`ReadFrame`), broadcasts it (`Broadcast`) and at its end unregisters whatever
connection the hub has for the user (`HandlerEnds`). A handler runs one of two loops
(`Loops`), chosen when it starts: the loop of a disputed booking stores nothing and
never looks at the booking again, the other one looks at it for each frame and is
`TurnedOut` when the room is shut. The room changes in any direction
(`RoomChanges`): a resolved dispute opens it again. The history is read
(`HistoryRead`) and arrives in separate steps, so it overlaps broadcasts.

`Tracking` adds the active-trip page's GPS effect, which runs again for each status
(`StatusArrives`), and the track pages, which share one `trackingStore`. The
watcher's handler subscribes (`SubscriptionStarts`) without waiting and reads the
last position (`SendLast`) in either order; what is published before the
subscription is lost to it. A position is the number of a fix; the interval
publishes the last one again and again.

### TripScreens

`trip` is the row as the pages tell it apart, with a revision; `cache[a]`,
`fetch[a]` and `ask[a]` are the query cache of app `a`, the answer on its way to it
and the mutation under way with its answer. `Click` is a mutation at the server
(the handlers of BookingLifecycle in one step each, their validations included),
from whatever buttons and dialogs the cached copy gives (`CustomerMay`,
`TransporterMay`); `AskSucceeds` is onSuccess, which writes the answer into the cache
or refetches; `FetchArrives` may overwrite a newer copy with an older answer.
`TellCode` is the customer reading the code out. `RivalAccepts` and `OfferExpires` are
what others do to an offer: another transporter takes it, or the sweep cancels it.
The answers of AcceptBooking, UpdateStatus and my-bookings bring the pickup code to
the transporter's app too (`handler.go:89-93` hides it in GetBooking only); no page of
that app displays it, so the transporter learns it from `TellCode`.

### Checkout

`tab[t]` is what the payment page of tab `t` shows; `run[t]` is the handlePay that it
started last, which goes on when the page is gone because what it awaits is not
cancelled. `Initiate` has the code's idempotency key (`booking-<id>`): Stripe returns
the same intent to a repeated request, and the answer, or the row of the payments
table, may be lost. Stripe and its webhook are external.

### ReviewDesk

Four desks are the same page over different handlers, and `kind` says which one a
behaviour is about. Users file (`Submit`: the checks, `Create`: the insert, so two
submissions race), edit (`EditRead`, `EditSave`) and delete; `AiReviews` is a delivery
of the event that announced the row, which may come twice and late; admins list,
select and decide from a cached queue, and a review is `ReviewRead` and `ReviewSave` of
all columns. What the AI finds is arbitrary.

### NewBooking

`point` and `addr` are the two ends and what their fields say. Searches are debounced
and answered later, a click on the map is named later, the browser's position
arrives once, from a callback that sees the points of the first render (`Located`),
and the effect asks for a route 300 ms after a point moved; `routing` holds the calls
on their way, which may be answered in any order. Which address a text finds is an
arbitrary choice of `Places`.

### Accounts

`row` is the user row, `member` and `key` the two halves of a revocation in Redis
(the set `revoked:users` and the key `revoked:user:<id>`), `claim` the role in the
app's token. PENDING_KYC and KYC_REVIEW are one status, `pending`: no decision tells
them apart. The three apps have the same pages with differences the disjuncts name
(`CustomerLayout`, `AdminLogin`, and so on); which dialog is open decides nothing
and is left out.

| who | actions |
|---|---|
| JWTAuth | `Authorize` (is the user in the set?), `CheckKey` (is there a key?), `CleanUp` (the removal of an entry without one): three calls of Redis |
| the owner's requests | `ReadRow`, `SaveRow` (every column); after a new password `RevokeAdds`, `RevokeSets`; `SubmitKyc` writes the status by id |
| admins | `UserRow`, `UserDetailDrawer`, `RemoveAdmin`, `BanQueue`, `KycQueue` (an approval) are the buttons, `PermanentBan` what the route takes and no page offers; then `AdminRead`, `AdminWrite`, `AdminFlags`, `AdminKeys`: read, row, set, key |
| scheduler | `AutoSuspend`, then the same writes |

A request writes its columns whatever the row is by then. The scheduler's rules look
at counts and rates that are left out: it may suspend whenever its SELECT lets the
row through, which for checkCancellationRates is in any status.

## 4. The runs

Passing runs check deadlock where no reason to switch it off is given.

| run | expects | what it asks and shows |
|---|---|---|
| `booking_requests` | pass | One booking, two transporters, two handlers, every booking request. `ExclusiveClaim`, `UnderWayHasTransporter`, `CancellationsCountedOnce`, `LawfulSteps`, `CompletedWasPhotographed` hold although `Save` ignores versions; `IInv` is the invariant of the proofs; `JobOfferSpec` is the refinement of `JobOffer` |
| `booking_sweep` | pass | The sweep beside them. A claim survives it, and under `SweepSpec` no offer stays PENDING for ever |
| `auction` | pass | Two bidders and one scheduler that may die, one booking request and the sweep, and beside them either a second clerk and cancellations or a second auction that ends in the same pass. One award, the tables agree, and under `FairTwoSpec` every auction with a deadline ends |
| `escrow` | pass | Two webhook handlers, one booking request, one release pass that may die. `PaidOutOnce`: a second payout needs a booking that does not know of the first and an event saved late; `PaidOutWasCharged` |
| `session` | pass | Two requests of one tab, or one request beside a second tab of the same browser: rotation, reuse, logout, revocation, page loads. `RefreshBookkeeping`, `NoLateSignIn`, and every call settles (`RequestsSettle`) |
| `tracking` | pass | A transporter and a customer, two trips, sockets that fail. `OneSocketPerPage`, `OnlyTheTripOnScreen`, and a watcher sees the current position again (`WatchersSee`) |
| `trip` | pass | Both people of a trip and a rival. `HandoverByCode`, `OnMyTripOnly`, and pages catch up (`PagesCatchUp`) |
| `checkout` | pass | Two tabs, one of which opens the page twice. `ChargedOnce`, `PollingEnds` |
| `desk` | pass | The four desks, one per initial state. `BannedWasReported`, `UndoneByOverlapOnly`, `AlertsReachDesks`, `DecisionShows` |
| `pages` | pass | Three parts that share no state, one per initial state. Chat: `NoneShownTwice`, `HubIsServed`. New booking: `RouteIsOfPoints`, `DropIsWhereItSays`. Accounts, with two admins and the scheduler: `OutWhenSuspended`, `ProfileShowsRow` |
| `trip_stuck` | violation | `CodeToGive`: a booking won by a bid has no pickup code, and the transporter on the way has nothing else to press |
| `admin_removed` | violation | `RemovedAdminIsOut`: the removal sets a key that JWTAuth looks up only for members of a set it does not write |

The two violations are described in `PROJECT.json` under `findings` with the line of
the code that causes each and the line it contradicts.

Passing properties that exclude something say so in their definition, because the
runs found the exclusion necessary:

* `LawfulSteps`, `CompletedWasPhotographed` and `CancellationsCountedOnce` speak of
  rows not written `unguarded`; `OneAward` and `WinnerHolds` of bookings expireBids
  has not `reverted` after they moved on.
* `PaidOutOnce` excludes bookings that are both `unrecorded` and `reopened`: the pass
  died before it wrote `escrow_release_at`, or an old copy was saved over it, and a
  success webhook put the released payment back to ESCROWED. Either alone pays
  nothing again; after both, the next pass does.
* `WatchersSee` gives up on a client whose token is `stale`: its URL keeps the token
  it was made with, and every later handshake is refused.
* `RouteIsOfPoints` excludes answers of getRoute that overtake an older one
  (`overtaken`): the effect clears the timer of an older call and not the call.
* `ProfileShowsRow` excludes requests that overlapped, or whose answer was lost
  (`crossed`): the answer of each replaces the whole user.
* `OutWhenSuspended` leaves out the time between a suspension's write of the row and
  its last write of Redis, in which the user is not out yet, and what is `loose`: an
  Enable that overlapped a suspension, a `Save` that wrote SUSPENDED again after an
  Enable, JWTAuth removing an older entry while the suspension writes a new one, and
  a key that ran out. `suspended_unlisted.cfg` shows the third.
* `HubIsServed` says that a registered connection has a handler, not that a handler
  has its registration; the second is not so (`chat_evicted.cfg`).
* `DecisionShows` excludes runs in which an answer was lost (`fails`): the queue is
  not fetched again then until the page is opened again.
* `UndoneByOverlapOnly` names the overlaps that do undo a decision.

### Known counterexamples

Besides the runs above, thirteen configurations state something the code does not keep;
TLC finds each violated in seconds. They document what the passing properties cannot say.

| configuration | module | property | what happens |
|---|---|---|---|
| `booking_rewind.cfg` | `MCBookingLifecycle` | `OnlyValidTransitions` | FlagGoodsMismatch saves an ACCEPTED copy over PICKING_UP |
| `booking_overcommit.cfg` | `MCBookingLifecycle` | `ActiveWithinLimit` | two accepts count two active bookings each and both commit: four |
| `booking_swept.cfg` | `MCBookingLifecycle` | `SweepCancelsPendingOnly` | the sweep cancels a booking accepted after its SELECT |
| `booking_unphotographed.cfg` | `MCBookingLifecycle` | `CompletionIsPhotographed` | IN_TRANSIT, DISPUTED, COMPLETED asks for no photo |
| `auction_revert.cfg` | `MCBidding` | `RevertedHadNoBids` | expireBids reverts an auction whose bid was accepted after it looked |
| `escrow_dispute.cfg` | `MCPaymentEscrow` | `NoReleaseInDispute` | a dispute filed after releaseEscrow's SELECT does not stop it |
| `escrow_refund.cfg` | `MCPaymentEscrow` | `RefundIsFinal` | a redelivered success puts a refunded payment back into escrow |
| `session_lockout.cfg` | `MCSession` | `NewSignInAccepted` | a revocation is per user, not per token, and lasts a day: a new login is refused too |
| `chat_missed.cfg` | `MCChat` | `NothingMissed` | a reconnect fetches no history: what was broadcast meanwhile is not shown |
| `tracking_silent.cfg` | `MCTracking` | `NeverDisappears` | a transporter whose token expired publishes nothing: there is no fallback |
| `chat_evicted.cfg` | `MCChat` | `ConnectedIsRegistered` | the end of an old handler unregisters the connection that the user's new socket registered |
| `ban_lifted.cfg` | `Accounts` | `BansAreLiftedBySuper` | a KYC approval or an automatic suspension writes the status by id and lifts a ban ("Only SUPER_ADMIN can lift permanent bans", `internal/admin/service.go:154`); so does a `Save` of a copy from before it |
| `suspended_unlisted.cfg` | `Accounts` | `SuspendedIsListed` | JWTAuth looks between a suspension's SAdd and Set, takes the entry for a lapsed one and removes it |

### Bounds

`MaxVersion` stops requests from reading a row at that version, so a row takes
at most that many versions: 5 is enough for PENDING, ACCEPTED, PICKING_UP,
IN_TRANSIT, COMPLETED, or the way through DISPUTED after a pickup by OTP; the
escrow runs use 7 for a dispute after completion and completion again.
`MaxTally` stops a user who cancelled that often. `MaxActive` is the code's
constant 3 where the limit is the question and 1 elsewhere. `MaxBids` is 2, so
that two bids can race. `MCBidding` runs either two clerks on one auction or two
auctions under one clerk, because a pass of expireBids goes through all that are
due: with one auction its loop is never seen to go on. One value for `Amounts` covers all: an amount only
decides which bid expireBids picks, and among equal ones the model may pick any.
`MaxPaidOut` 2 is enough to see a second release. One booking is enough where
the properties speak of each booking alone: the only operations that look at
several are expireBids and the overcommit count, and `booking_overcommit` has four. Two handlers
are enough for one stale copy against one writer; the proofs cover any number.
Symmetry is used for transporters and handlers in runs without liveness.

`session`: two pairs (`MaxPairs`) are one rotation, or a login in a second tab; one
page load (`MaxLoads`) is enough to orphan a refresh, and logouts load pages
besides. `MCSession` uses either a second call of the same tab or a second tab.

`tracking`: two sockets per client, and a start (`Past` in `MCTracking`) that gives
one client both and the others their last one or none, so that clients fail one at
a time; two fixes (`MaxFix`) tell an old position from the current one. One frame is
on its way at a time: a second would only repeat it or be newer.

`trip`: one lost answer (`MaxFails`) and one visit of a page per app (`MaxVisits`); a
visit lasts the whole trip. The proofs cover any number. `checkout`: two attempts
(`MaxAttempts`, 10 in the code) are enough for an answer that comes after the last
tick; the second mount of a tab covers the way back to the page. `desk`: a ban
threshold of 2 instead of 6 with three users; two rows where rows meet and one
elsewhere; two admins at the KYC desk; one delivery of the AI's event, which may
come before or after the decision. `pages`: for the chat two sockets and one message
each, one of the two users gone at the start with a frame left; for the new booking
two places, three inputs (`MaxInputs`), two bookings; for the accounts three
requests (`MaxRequests`) between the owner, two admins and the scheduler, which is
one that reads, one that writes in between and one that shows it; two
(`FewRequests`) for the customer's app, whose pages are those of the transporter's
and one more way to sign in, and two of the owner's own in the transporter's, where
the third is a decision. In the chat the room changes in any direction, but not while
a history is on its way, which does not look at it.

Deadlock is not checked under `SweepSpec` and in the `auction` run, where a row at
`MaxVersion` or a finished booking leaves nothing to do, in the runs of the
frontend, where a user may leave for good and the bounds end behaviours, and in
violation runs.

### Fairness

`SweepSpec`: the sweep's SELECT is strongly fair for each booking and its updates
weakly fair. runLoop calls it every five minutes for as long as the process lives
(`scheduler.go:40,49-66`), the SELECT has no limit and returns every unscheduled
PENDING booking that is old enough, and a booking that stays PENDING gets old.
Nothing is assumed of users. Bookings with `scheduled_at` are never swept and are
outside the property.

`AuctionSpec`, and `FairTwoSpec` of the `auction` run, which has the same fairness
(`AuctionFairness`): deadlines pass (weak fairness of `WindowPasses`), and the steps of
expireBids are strongly fair: the job runs every minute (`scheduler.go:37`), its
passes may die, but not all of them for ever. Clerks and users get no fairness.

`session`: every API call is answered or fails, and the refresh a document waits for
goes on and is answered: the service answers every request, and a browser reports
a connection that died as an error. `axios.ts` sets no timeout of its own, so a server
that holds a connection open for ever is outside the property. Nothing is assumed
of logins, loads or logouts.

`tracking`: timers fire, a mounted page's polls are answered, the device reports
positions, and the service goes on with what it has begun; sockets that fail get no
fairness, and neither do users.

`FairTripSpec`: a page that polls goes on doing so (react-query's refetchInterval) and
its GETs are answered. `FairCheckoutSpec`: the interval ticks, and every GET of the
poll is answered or fails. `FairDeskSpec`: lists and reviews are answered or fail, and
the SOS page polls. In none of them does a user have to do anything.

## 5. The proofs

`BookingProofs` proves, for every set of bookings, transporters and handlers,
every bound and every workload, from `ConstantsAssumption` alone unless said:

| theorem | statement |
|---|---|
| `TypeCorrect` | `Spec => []TypeOK` |
| `InductiveInvariant` | `Spec => []IInv` |
| `ClaimIsExclusive` | `Spec => []ExclusiveClaim` |
| `CarriedIsAssigned` | `Spec => []UnderWayHasTransporter` |
| `StepsAreLawful` | `Spec => LawfulSteps` |
| `PhotosAreRecorded` | `Spec => []PhotosRecorded` |
| `CompletionsArePhotographed` | `Spec => CompletedWasPhotographed` |
| `CancelledOnce` | `Spec => []CancellationsCountedOnce` |
| `UnassignedStaysGuarded` | `Spec => []UnassignedIsGuarded`: without the sweep, a booking nobody took was only written at versions that were compared |
| `ImplementsJobOffer` | assuming `"sweep" \notin Ops`, `Spec => JobOfferSpec` |

Why `ExclusiveClaim` needs strengthening: it says nothing of the copies requests
hold, and one old copy without a transporter, saved after a claim, would undo the
claim. `IInv` says which copies can exist:

* `VersionNamesState`: on a row never written unguarded, a copy at the row's
  version has the row's status and transporter. This is what optimistic locking
  buys, and it gives `LawfulSteps`.
* `OldCopiesLose`: once a booking is assigned, a copy from before is older than
  the row and than every copy that has the transporter, and waits only for a
  compare-and-swap, which must fail, even after a stale `Save` has set the version
  back to that of its copy.
* `UnassignedOrder`: before the assignment nothing is saved except a cancellation,
  and everybody else's copy is older than it.
* `CopiesAgree`, `AssignedIsClosed`, `CopyValidated`, `AbsentIsUnread`,
  `ClaimantsAreHolder`: what the validations established about a copy and what a
  claim left behind.

These speak of one booking at a time: `RowInv(b)` is their conjunction, and `IInv`
is `TypeOK` with `RowInv` of every booking. It is kept for `b` whatever happens to
other bookings, which is what the auctions need. The lemmas follow the ways of
touching a booking, not the operations: `Touched(b)` says that a step left it alone
(`Untouched`), read it into a copy (`Begun`), swapped its status (`Moved`), assigned
it (`Claimed`), wrote a copy over it (`Saved`), inserted it (`Inserted`) or wrote its
status by id (`Overwritten`). `TouchedKeeps` shows that each keeps `RowInv(b)`, and
`NextTouches` that every step of the requests and of the sweep is one of them.

`CompletedWasPhotographed` rests on `PhotosRecorded`: the column may be erased by an
old copy, but it never claims photos that nobody uploaded, nor does a copy, and a
completion in flight has seen them. `CancellationsCountedOnce` says that the
counters can be explained: there is a way to charge cancelled bookings to users
under which each user's counter is the number charged to him. Stated as a sum it
would need induction over the users; so stated, `CountInv` carries the explanation
along, with one more fact: a request that has cancelled and not counted yet is the
only one of its booking, which is charged to nobody so far.

`ImplementsJobOffer` maps a booking to `absent`, `open` or `closed` and its
transporter to the holder, and shows with `OneRow` and `JobStep` that every step is a
`Post`, `Take` or `Withdraw` or changes neither. The assumption about the sweep is
needed: the sweep cancels without raising the version, so a customer's
compare-and-swap prepared before it still succeeds and may reopen a withdrawn job.

`TripProofs`, from `TripAssumption`, for any number of failures and visits:

| theorem | statement |
|---|---|
| `TripInvariant` | `TripSpec => []TripInv` |
| `HandedOverByCode` | `TripSpec => []HandoverByCode` |
| `TripPageIsTheirs` | `TripSpec => []OnMyTripOnly` |

`HandoverByCode` depends on what no page offers: with types and shapes of the pages
(`TripTypeOK`, `PageShapes`) it is inductive. `OnMyTripOnly` is not: a page may open
after an accept was answered, so `TripInv` also says that an accept on its way back
leaves the trip with its transporter (`AcceptHolds`), that an open trip has no driver
(`OpenHasNoDriver`), and that no answer is newer than the row (`AnswersAreOld`).

`CheckoutProofs`, from `CheckoutAssumption`, for any tabs, visits and intents:
`IntentInvariant` (`CheckoutSpec => []IntentInv`) and `NeverChargedTwice`
(`CheckoutSpec => []ChargedOnce`). `ChargedOnce` counts charges and says nothing of
intents that are open and could be charged next; `OneIntent` says that there is one
at most, and `RowHasIntent` that a row of the payments table is its, so that
Initiate, with the key or with the row, returns that one.

`SessionProofs`, from `SessionAssumption`, for any tabs, requests, tokens and loads:

| theorem | statement |
|---|---|
| `SessionInvariant` | `Spec => []SessionInv` |
| `SessionTypes` | `Spec => []SessionTypeOK` |
| `RefreshIsBooked` | `Spec => []RefreshBookkeeping` |
| `SignedOutStaysOut` | `Spec => NoLateSignIn` |

`RefreshBookkeeping` counts, which no step preserves visibly; `OneRefresh` says the
same of single calls and requests, and adds that an answer is only kept for a
document that hears it. Without that, the answer to an old document could settle
the refresh of the new one.

`MarketProofs`, from `ConstantsAssumption` alone, for any bookings, handlers, deliveries, bids,
clerks, schedulers and dying passes:

| theorem | statement |
|---|---|
| `EscrowInvariant` | `EscrowSpec => []EscrowInv` |
| `EscrowTypes` | `EscrowSpec => []EscrowTypeOK` |
| `ReleasedOnce` | `EscrowSpec => []PaidOutOnce` |
| `ReleasedWasCollected` | `EscrowSpec => []PaidOutWasCharged` |
| `ClaimSurvivesPayment` | `EscrowSpec => []ExclusiveClaim` |
| `StepsStayLawful` | `EscrowSpec => LawfulSteps` |
| `PaymentKeepsOffer` | assuming `"sweep" \notin Ops`, `EscrowSpec => JobOfferSpec` |
| `AuctionInvariant` | `BiddingSpec => []AuctionInv` |
| `BiddingTypes` | `BiddingSpec => []BiddingTypeOK` |
| `AwardedOnce` | `BiddingSpec => []OneAward` |
| `WinnerKeepsBooking` | `BiddingSpec => []WinnerHolds` |
| `HolderStays` | under `BiddingSpec` no step takes a booking from its transporter, except of bookings in `reverted` |
| `AuctionsMoveLawfully` | `BiddingSpec => LawfulSteps` |

`EscrowInv` contains `IInv`: the steps of the booking's requests keep it by the
lemmas of `BookingProofs`, and those of webhooks and releaseEscrow leave status,
version and transporter alone, so the two components composed still implement
`JobOffer`. It adds what is known of a release that is coming: the payment it read
was collected (`HeldIsCollected`), the booking it selected has a transporter
(`PaidIsAssigned`), a booking that knows of a release is not selected again
(`ReleaseIsRecorded`), and a payment that was released still says so unless a webhook
overwrote it (`PaymentTellsRelease`). The last two are the two ways in which
`PaidOutOnce` is kept; each speaks of the bookings that the other gives up.

`OneAward` is not inductive: a second bid of the booking could be accepted if its
row went back to BIDDING. `AuctionInv` adds to the shapes of what clerks and passes
hold that `RowInv` is true of every booking that expireBids has not reverted late,
and that the row names the bidder of an accepted bid (`Won`). An award is a
`Claimed` step, an early revert or the sweep an `Overwritten` one; after an award the
row has a transporter and `AssignedIsClosed` says that it is on offer no more. A
booking in `reverted` is given up for good, which is why `RowInv` had to be
separable by booking. What the theorem does not exclude is shown by
`auction_revert.cfg`.

`DeskProofs`, from `DeskAssumption`: `DeskInvariant`, `BansRestOnReports`
(`DeskSpec => []BannedWasReported`) and `OverlapUndoes` (`DeskSpec =>
UndoneByOverlapOnly`). A ban is clicked in a list of some time ago, so the
invariant says that a list that offers it rests on enough reporters (`BanRests`),
and each step that no report goes away or changes hands (`ReportsKept`), whence the
set of reporters only grows. `ReadBefore` says what a review that was let through
found; that is all that is known when it saves.

`TrackingProofs`, from `SocketsAssumption` and `TrackingAssumption`, for any
clients, trips and reconnects: `SocketInvariant`, `TrackersHaveOneSocket`
(`TrackingSpec => []OneSocketPerPage`) and `StoreIsOfScreen` (`TrackingSpec =>
OnlyTheTripOnScreen`). There is one lemma for each operation of WSManager
(`MountStep`, `UnmountStep`, `RemakeStep`, `OpenedStep`, `ClosedStep`, `TimerStep`),
of which every page's step is one. `OneSocket` adds to `OneSocketPerPage` that the
client of a page that is there should reconnect, and `UsedInOrder` that sockets are
made in order, so that there is a next one. `StoreIsOfScreen` is a consequence: a
page that is gone has no open socket for a location to come in on.

`PagesProofs`, for any users, sockets and messages, places, points and inputs, and
requests, from `SocketsAssumption`, `NewBookingAssumption` and `AccountsAssumption`:

| theorem | statement |
|---|---|
| `ChatInvariant` | `ChatSpec => []ChatInv` |
| `MessagesShownOnce` | `ChatSpec => []NoneShownTwice` |
| `HubServesItsOwn` | `ChatSpec => []HubIsServed` |
| `NewBookingInvariant` | `NewBookingSpec => []NewBookingInv` |
| `NewBookingTypes` | `NewBookingSpec => []NewBookingTypeOK` |
| `RouteFollowsPoints` | `NewBookingSpec => []RouteIsOfPoints` |
| `DropFollowsPoint` | `NewBookingSpec => []DropIsWhereItSays` |
| `AccountsInvariant` | `AccountsSpec => []AccountsInv` |
| `AccountsTypes` | `AccountsSpec => []AccountsTypeOK` |
| `SuspendedStaysOut` | `AccountsSpec => []OutWhenSuspended` |
| `AppShowsItsRow` | `AccountsSpec => []ProfileShowsRow` |

* Chat: nothing but stored messages is on its way (`OnlyStored`): what a handler has
  to broadcast, what was written to a socket, and the rows of a history. It is
  preserved because the table only grows.
* New booking: `RouteIsOfPoints` speaks of the moment when no call is under way.
  `RouteInv` says of the time before it that, unless the timer is still to fire or an
  answer overtook, the call made last asked for the current points; an answer in
  order leaves that one until it is the only one left.
* Accounts, the suspension: `SuspensionInv` says that while nothing raced (`~loose`)
  no Enable is at work beside a suspension, an Enable that wrote the row leaves it
  unsuspended until it has written Redis too, and a suspended user is out or a
  suspension, an admin's or the scheduler's, has the set or the key still to write.
* Accounts, the profile: `ProfileInv` says that while requests do not overlap
  (`~crossed`) there is one at most, what it read is what the row still says, and the
  app differs from the row only while an answer is on its way.

Only model-checked: the liveness properties `StaleOffersExpire`, `AuctionsSettle`,
`RequestsSettle`, `WatchersSee`, `PagesCatchUp`, `PollingEnds`, `AlertsReachDesks` and
`DecisionShows`, because liveness under fairness and ENABLED are beyond the provers.
The known counterexamples of section 4 are TLC's too.

The attempts to prove these also corrected the models: a pass of expireBids over two
auctions that are due had no successor state, two conjuncts of `NewBookingTypeOK` were
read as the premise of the third, and nothing said that `Unset` is not one of the
`Places`. The runs had met none of them.

## 6. What is not modelled, and why

* Columns no decision reads (addresses, goods, prices, timestamps), formatting,
  logging, and the events published to NATS: the bus may be nil, errors of Publish
  are ignored, and no consumer writes a booking, bid or payment.
* Price, surge and cancellation fee (plan, item 8); amounts of payments.
* SendBookingOTP and VerifyBookingOTP, the rating methods of the booking service
  (no route reaches them); OTP attempts, login lockout and the rate limiter, which
  are counters with a TTL (plan, item 8).
* The scheduler's lock (plan, item 8): the models of its jobs assume nothing about
  mutual exclusion except that one instance runs one pass at a time; the `auction`
  and `escrow` runs use one instance.
* The counts and rates behind an automatic suspension, and which submission a KYC
  approval is about: in `Accounts` both may come whenever the code does not look at
  the row, and `ReviewDesk` has the submissions.
* On the modelled pages: the goods-mismatch flag, the placing of bids from the job
  page and the rating of the customer; emergency contacts, uploads to storage, the
  avatar preview, the creation of admins, the vehicle list and prices of a new
  booking; layout and navigation that decides nothing.
* Frontend code without protocol state: `three-scene` (an animation), the map and
  UI packages, dashboards, lists, pricing and audit pages and the AI chat, which
  show what one GET returned or send one form; registration; stores and components
  no page uses.
* Read-only or external components: maps, aiadmin, the AI's judgement of a text,
  notification and natsbus (nothing modelled reads what they write), start-up and
  configuration.

`PROJECT.json` lists every component with its status.

## 7. Running

From this directory, with TLC and TLAPS 1.4.5 on the path:

    tlc -workers 2 -config booking_requests.cfg MCBookingLifecycle
    tlc -workers 2 -config auction.cfg MCBidding
    tlc -workers 2 -config escrow.cfg MCPaymentEscrow
    tlc -workers 2 -config session.cfg MCSession
    tlc -workers 2 -config tracking.cfg MCTracking
    tlc -workers 2 -config trip.cfg MCTripScreens
    tlc -workers 2 -config checkout.cfg MCCheckout
    tlc -workers 2 -config desk.cfg MCReviewDesk
    tlc -workers 2 -config pages.cfg MCPages
    tlc -workers 2 -config admin_removed.cfg Accounts
    tlapm BookingProofs.tla
    tlapm TripProofs.tla
    tlapm CheckoutProofs.tla
    tlapm SessionProofs.tla
    tlapm MarketProofs.tla
    tlapm DeskProofs.tla
    tlapm TrackingProofs.tla
    tlapm PagesProofs.tla

`PROJECT.json` names the module and configuration of every run. Each passing run
takes one to three minutes with two workers; the violation runs take
seconds and each module of proofs from seconds to a few minutes.
