---------------------------- MODULE Session ----------------------------
(***************************************************************************)
(* The session of one account: the browser tabs that hold its tokens       *)
(* (packages/api-client/src/lib/axios.ts, apps/*/store/authStore.ts and    *)
(* apps/customer/middleware.ts) and the service that issues, rotates and   *)
(* revokes them (internal/user/service.go, internal/middleware/auth.go).   *)
(*                                                                         *)
(* An access token and a refresh token are always issued together: pair n  *)
(* stands for both.  A tab keeps its pair in memory and writes the whole   *)
(* store to localStorage, which every tab of the browser reads only when   *)
(* its page loads.  A load may come at any time and forgets what the old   *)
(* document was waiting for, though the server still finishes it.          *)
(***************************************************************************)
EXTENDS Naturals, FiniteSets

CONSTANTS
    Tabs,        \* the open tabs of the browser
    Requests,    \* the API calls the pages may have outstanding
    TabOf,       \* TabOf[q] = the tab whose page makes the call q
    MaxPairs,    \* bound: token pairs ever issued
    MaxLoads     \* bound: page loads that nothing in the code asks for

ASSUME SessionAssumption ==
    /\ TabOf \in [Requests -> Tabs]
    /\ MaxPairs \in Nat \ {0} /\ MaxLoads \in Nat

NoPair == 0
Pairs == 1 .. MaxPairs

VARIABLES
    issued,      \* pairs issued so far, the newest one
    family,      \* family[n] = the pair whose login began the family of n
    expired,     \* pairs whose access token has expired
    used,        \* pairs whose refresh token is blacklisted
    ended,       \* families that were deleted
    revoked,     \* revoked:user is set for the account
    revokedAt,   \* history: pairs issued when the account was last revoked
    mem,         \* mem[t] = [user, pair] of the tab's store
    disk,        \* the store persisted in localStorage
    indicator,   \* the cookie speedygo-authenticated
    leaving,     \* leaving[t]: logout has set window.location
    refreshing,  \* refreshing[t] = isRefreshing
    req,         \* req[q] = [st, pair, retry] of an API call
    calls,       \* calls to /auth/refresh not yet settled
    logouts,     \* pairs sent to /auth/logout, not yet handled
    loads        \* page loads so far

server == <<issued, family, expired, used, ended, revoked, revokedAt>>
store  == <<mem, disk, indicator, leaving>>
vars   == <<server, store, refreshing, req, calls, logouts, loads>>

SignedOut == [user |-> FALSE, pair |-> NoPair]
Idle == [st |-> "idle", pair |-> NoPair, retry |-> FALSE]
Of(t) == {q \in Requests : TabOf[q] = t}

Store == [user : BOOLEAN, pair : Pairs \cup {NoPair}]
Request == [st : {"idle", "flight", "waiting", "refreshing"},
            pair : Pairs \cup {NoPair}, retry : BOOLEAN]
RefreshCall == [req : Requests, rt : Pairs, heard : BOOLEAN,
                st : {"sent", "checked", "ok", "no"}, new : Pairs \cup {NoPair}]

SessionTypeOK ==
    /\ issued \in 0 .. MaxPairs
    /\ family \in [Pairs -> Pairs \cup {NoPair}]
    /\ expired \subseteq Pairs /\ used \subseteq Pairs /\ ended \subseteq Pairs
    /\ revoked \in BOOLEAN /\ revokedAt \in 0 .. MaxPairs
    /\ mem \in [Tabs -> Store] /\ disk \in Store
    /\ indicator \in BOOLEAN /\ leaving \in [Tabs -> BOOLEAN]
    /\ refreshing \in [Tabs -> BOOLEAN]
    /\ req \in [Requests -> Request]
    /\ calls \subseteq RefreshCall
    /\ logouts \subseteq Pairs
    /\ loads \in 0 .. MaxLoads

Init ==
    /\ issued = 0 /\ family = [n \in Pairs |-> NoPair]
    /\ expired = {} /\ used = {} /\ ended = {}
    /\ revoked = FALSE /\ revokedAt = 0
    /\ mem = [t \in Tabs |-> SignedOut] /\ disk = SignedOut
    /\ indicator = FALSE /\ leaving = [t \in Tabs |-> FALSE]
    /\ refreshing = [t \in Tabs |-> FALSE]
    /\ req = [q \in Requests |-> Idle]
    /\ calls = {} /\ logouts = {} /\ loads = 0

----------------------------------------------------------------------------
\* The service.

\* A new pair, of a family of its own or of the family f.
Issue(f) ==
    /\ issued < MaxPairs
    /\ issued' = issued + 1
    /\ family' = [family EXCEPT ![issued + 1] = IF f = NoPair THEN issued + 1 ELSE f]

\* JWTAuth: the access token of pair p is let through.
Accepted(p) == p # NoPair /\ p \notin expired /\ ~revoked

Expire(p) ==
    /\ p \in 1 .. issued \ expired
    /\ expired' = expired \cup {p}
    /\ UNCHANGED <<issued, family, used, ended, revoked, revokedAt,
                   store, refreshing, req, calls, logouts, loads>>

RevokeAllSessions ==
    /\ revoked' = TRUE
    /\ revokedAt' = issued

\* ChangePasswordWithOTP; any signed-in page may send it.
ChangePassword(t) ==
    /\ mem[t].user /\ Accepted(mem[t].pair)
    /\ RevokeAllSessions
    /\ UNCHANGED <<issued, family, expired, used, ended,
                   store, refreshing, req, calls, logouts, loads>>

\* revoked:user has a TTL of 24 hours.
RevocationExpires ==
    /\ revoked
    /\ revoked' = FALSE
    /\ UNCHANGED <<issued, family, expired, used, ended, revokedAt,
                   store, refreshing, req, calls, logouts, loads>>

\* The answer to a call, for the document that made it if that is still there.
Reply(c, st, new) ==
    calls' = (calls \ {c}) \cup {a \in {[c EXCEPT !.st = st, !.new = new]} : c.heard}

\* The reads of RefreshToken: blacklist, family, revocation.  A blacklisted
\* token ends its family and revokes the account.
RefreshChecks(c) ==
    /\ c.st = "sent"
    /\ \/ /\ c.rt \in used
          /\ ended' = ended \cup {family[c.rt]}
          /\ RevokeAllSessions
          /\ Reply(c, "no", NoPair)
       \/ /\ c.rt \notin used
          /\ family[c.rt] \in ended \/ revoked
          /\ Reply(c, "no", NoPair)
          /\ UNCHANGED <<ended, revoked, revokedAt>>
       \/ /\ c.rt \notin used /\ family[c.rt] \notin ended /\ ~revoked
          /\ calls' = (calls \ {c}) \cup {[c EXCEPT !.st = "checked"]}
          /\ UNCHANGED <<ended, revoked, revokedAt>>
    /\ UNCHANGED <<issued, family, expired, used, store, refreshing, req, logouts, loads>>

\* Its writes: the old token is blacklisted, the new pair stays in the family.
RefreshRotates(c) ==
    /\ c.st = "checked"
    /\ used' = used \cup {c.rt}
    /\ Issue(family[c.rt])
    /\ Reply(c, "ok", issued')
    /\ UNCHANGED <<expired, ended, revoked, revokedAt, store, refreshing, req, logouts, loads>>

\* The signing of the new tokens fails, after the old one was blacklisted.
RefreshErrs(c) ==
    /\ c.st = "checked"
    /\ used' = used \cup {c.rt}
    /\ Reply(c, "no", NoPair)
    /\ UNCHANGED <<issued, family, expired, ended, revoked, revokedAt,
                   store, refreshing, req, logouts, loads>>

\* The call fails on its way out or its answer on the way back.
RefreshLost(c) ==
    /\ c.st \in {"sent", "ok"}
    /\ Reply(c, "no", NoPair)
    /\ UNCHANGED <<server, store, refreshing, req, logouts, loads>>

LogoutHandled(p) ==
    /\ p \in logouts
    /\ logouts' = logouts \ {p}
    /\ used' = used \cup {p}
    /\ ended' = ended \cup {family[p]}
    /\ UNCHANGED <<issued, family, expired, revoked, revokedAt,
                   store, refreshing, req, calls, loads>>

----------------------------------------------------------------------------
\* The store of a tab.

\* A tab is shown a protected page: middleware.ts looks at the cookie, the
\* layout of the app at the store.  All others are sent to the login form.
Admitted(t) == indicator /\ mem[t].user

\* setAuth, after the login form got its tokens.
SetAuth(t) ==
    /\ ~Admitted(t) /\ ~leaving[t]
    /\ Issue(NoPair)
    /\ mem' = [mem EXCEPT ![t] = [user |-> TRUE, pair |-> issued']]
    /\ disk' = mem'[t]
    /\ indicator' = TRUE
    /\ UNCHANGED <<expired, used, ended, revoked, revokedAt, leaving,
                   refreshing, req, calls, logouts, loads>>

\* logout(), the button's and onUnauthorized's.
ClearStore(t) ==
    /\ logouts' = IF mem[t].pair = NoPair THEN logouts ELSE logouts \cup {mem[t].pair}
    /\ mem' = [mem EXCEPT ![t] = SignedOut]
    /\ disk' = SignedOut
    /\ indicator' = FALSE
    /\ leaving' = [leaving EXCEPT ![t] = TRUE]

Logout(t) ==
    /\ mem[t].user
    /\ ClearStore(t)
    /\ UNCHANGED <<server, refreshing, req, calls, loads>>

\* 401 of /auth/login or /auth/register: the interceptor logs out.
LoginRefused(t) ==
    /\ ~Admitted(t) /\ ~leaving[t]
    /\ ClearStore(t)
    /\ UNCHANGED <<server, refreshing, req, calls, loads>>

\* A document starts: module variables are new, the store is read back, and
\* answers for the old document are heard by nobody.
Load(t) ==
    /\ \/ leaving[t] /\ loads' = loads
       \/ ~leaving[t] /\ loads < MaxLoads /\ loads' = loads + 1
    /\ mem' = [mem EXCEPT ![t] = disk]
    /\ leaving' = [leaving EXCEPT ![t] = FALSE]
    /\ refreshing' = [refreshing EXCEPT ![t] = FALSE]
    /\ req' = [q \in Requests |-> IF TabOf[q] = t THEN Idle ELSE req[q]]
    /\ calls' = {c \in calls : TabOf[c.req] # t}
                  \cup {[c EXCEPT !.heard = FALSE] :
                          c \in {d \in calls : TabOf[d.req] = t /\ d.st \in {"sent", "checked"}}}
    /\ UNCHANGED <<server, disk, indicator, logouts>>

----------------------------------------------------------------------------
\* The interceptors.

Send(q) ==
    /\ mem[TabOf[q]].user /\ req[q].st = "idle"
    /\ req' = [req EXCEPT ![q] = [st |-> "flight", pair |-> mem[TabOf[q]].pair, retry |-> FALSE]]
    /\ UNCHANGED <<server, store, refreshing, calls, logouts, loads>>

\* Any answer but a 401 is the caller's.
Answered(q) ==
    /\ req[q].st = "flight"
    /\ Accepted(req[q].pair)
    /\ req' = [req EXCEPT ![q] = Idle]
    /\ UNCHANGED <<server, store, refreshing, calls, logouts, loads>>

Unauthorized(q) == req[q].st = "flight" /\ ~Accepted(req[q].pair)

\* A request that was retried already is given up.
GiveUp(q) ==
    /\ Unauthorized(q) /\ req[q].retry
    /\ req' = [req EXCEPT ![q] = Idle]
    /\ UNCHANGED <<server, store, refreshing, calls, logouts, loads>>

\* Another request of the page is refreshing: wait for it.
Subscribe(q) ==
    /\ Unauthorized(q) /\ ~req[q].retry /\ refreshing[TabOf[q]]
    /\ req' = [req EXCEPT ![q].st = "waiting"]
    /\ UNCHANGED <<server, store, refreshing, calls, logouts, loads>>

Waiting(t) == {q \in Of(t) : req[q].st = "waiting"}

FailAsker(q) ==    \* mutant: the subscribers are not told that the refresh failed
    req' = [req EXCEPT ![q] = Idle]

\* onRefreshFailed, and the request q that asked for the refresh.
FailAll(q) ==
    req' = [r \in Requests |-> IF r \in {q} \cup Waiting(TabOf[q]) THEN Idle ELSE req[r]]

\* onRefreshed, and the request q that asked for the refresh: all are sent
\* again with the tokens p.  Only q is marked as retried.
ResendAll(q, p) ==
    req' = [r \in Requests |->
              IF r \in {q} \cup Waiting(TabOf[q])
              THEN [st |-> "flight", pair |-> p, retry |-> (r = q)]
              ELSE req[r]]

StartRefresh(q) ==
    LET t == TabOf[q] IN
    /\ Unauthorized(q) /\ ~req[q].retry /\ ~refreshing[t]
    /\ mem[t].pair # NoPair
    /\ refreshing' = [refreshing EXCEPT ![t] = TRUE]
    /\ req' = [req EXCEPT ![q].st = "refreshing", ![q].retry = TRUE]
    /\ calls' = calls \cup {[req |-> q, rt |-> mem[t].pair, heard |-> TRUE,
                             st |-> "sent", new |-> NoPair]}
    /\ UNCHANGED <<server, store, logouts, loads>>

\* No refresh token in the store: log out.
NothingToRefresh(q) ==
    LET t == TabOf[q] IN
    /\ Unauthorized(q) /\ ~req[q].retry /\ ~refreshing[t]
    /\ mem[t].pair = NoPair
    /\ FailAll(q)
    /\ ClearStore(t)
    /\ UNCHANGED <<server, refreshing, calls, loads>>

RefreshSignsIn(c) ==    \* mutant: new tokens are taken as a login
    /\ c.st = "ok"
    /\ calls' = calls \ {c}
    /\ mem' = [mem EXCEPT ![TabOf[c.req]] = [user |-> TRUE, pair |-> c.new]]
    /\ disk' = mem'[TabOf[c.req]]
    /\ refreshing' = [refreshing EXCEPT ![TabOf[c.req]] = FALSE]
    /\ ResendAll(c.req, c.new)
    /\ UNCHANGED <<server, indicator, leaving, logouts, loads>>

RefreshSucceeds(c) ==
    /\ c.st = "ok"
    /\ calls' = calls \ {c}
    /\ mem' = [mem EXCEPT ![TabOf[c.req]].pair = c.new]
    /\ disk' = mem'[TabOf[c.req]]
    /\ refreshing' = [refreshing EXCEPT ![TabOf[c.req]] = FALSE]
    /\ ResendAll(c.req, c.new)
    /\ UNCHANGED <<server, indicator, leaving, logouts, loads>>

RefreshFailsStuck(c) ==    \* mutant: isRefreshing is not reset
    /\ c.st = "no"
    /\ calls' = calls \ {c}
    /\ FailAll(c.req)
    /\ ClearStore(TabOf[c.req])
    /\ UNCHANGED <<server, refreshing, loads>>

RefreshFails(c) ==
    /\ c.st = "no"
    /\ calls' = calls \ {c}
    /\ refreshing' = [refreshing EXCEPT ![TabOf[c.req]] = FALSE]
    /\ FailAll(c.req)
    /\ ClearStore(TabOf[c.req])
    /\ UNCHANGED <<server, loads>>

----------------------------------------------------------------------------
\* What the network and the service owe an API call or a refresh.
Respond(q) == Answered(q) \/ GiveUp(q) \/ Subscribe(q)
                 \/ StartRefresh(q) \/ NothingToRefresh(q)
Progress(c) == RefreshChecks(c) \/ RefreshRotates(c) \/ RefreshErrs(c)
Settle(c) == RefreshSucceeds(c) \/ RefreshFails(c)

Next ==
    \/ \E p \in Pairs : Expire(p) \/ LogoutHandled(p)
    \/ \E t \in Tabs : ChangePassword(t) \/ SetAuth(t) \/ Logout(t)
                        \/ LoginRefused(t) \/ Load(t)
    \/ RevocationExpires
    \/ \E q \in Requests : Send(q) \/ Respond(q)
    \/ \E c \in calls : Progress(c) \/ RefreshLost(c) \/ Settle(c)

\* Calls are answered (the server or the browser's timeout sees to it) and a
\* page that was told to leave is replaced; the user owes nothing.
Fairness ==
    /\ \A q \in Requests : WF_vars(Respond(q))
    /\ \A t \in Tabs : WF_vars(\E c \in calls : TabOf[c.req] = t /\ c.heard /\ (Progress(c) \/ Settle(c)))

Spec == Init /\ [][Next]_vars
FairSpec == Spec /\ Fairness

----------------------------------------------------------------------------
\* A document that has isRefreshing set has exactly one request that asked for
\* the refresh and exactly one call it will hear the answer of, and nothing
\* waits for a refresh that nobody started (axios.ts, isRefreshing and
\* refreshSubscribers).
RefreshBookkeeping ==
    \A t \in Tabs :
        LET asking == {q \in Of(t) : req[q].st = "refreshing"}
            mine == {c \in calls : TabOf[c.req] = t /\ c.heard}
        IN /\ refreshing[t] => Cardinality(asking) = 1
           /\ ~refreshing[t] => asking = {} /\ Waiting(t) = {}
           /\ {c.req : c \in mine} = asking /\ Cardinality(mine) = Cardinality(asking)

\* After the last tab signed out, no late answer signs the browser in again:
\* what makes localStorage say "signed in" is a login or a tab that still is.
NoLateSignIn ==
    [][disk'.user /\ ~disk.user =>
         \/ issued' # issued /\ family'[issued'] = issued'
         \/ \E t \in Tabs : mem[t].user]_vars

\* Every API call settles: none waits for ever for a token.
RequestsSettle ==
    \A q \in Requests : req[q].st # "idle" ~> req[q].st = "idle"

\* What revokeAllSessions is said to do: it ends the sessions that exist.  A
\* login after it gives tokens that JWTAuth lets through.
NewSignInAccepted ==
    \A p \in 1 .. issued :
        family[p] = p /\ p > revokedAt /\ p \notin expired => Accepted(p)
=============================================================================
