--------------------------- MODULE SessionProofs ---------------------------
(***************************************************************************)
(* The interceptor's bookkeeping and the end of a session, for any number  *)
(* of tabs, requests, tokens and page loads.                               *)
(*                                                                         *)
(* RefreshBookkeeping counts.  OneRefresh says the same of single calls    *)
(* and requests, which is what a step can be shown to keep, and adds that  *)
(* an answer is only kept for a document that hears it: without that, the  *)
(* answer to an old document could settle the refresh of the new one.      *)
(***************************************************************************)
EXTENDS Session, FiniteSetTheorems, TLAPS

OneRefresh ==
    /\ \A c \in calls : c.st \in {"ok", "no"} => c.heard
    /\ \A c \in calls : c.heard => req[c.req].st = "refreshing"
    /\ \A c, d \in calls : c.heard /\ d.heard /\ TabOf[c.req] = TabOf[d.req] => c = d
    /\ \A q \in Requests : req[q].st = "refreshing" =>
          \E c \in calls : c.heard /\ c.req = q
    /\ \A q \in Requests : req[q].st \in {"refreshing", "waiting"} => refreshing[TabOf[q]]
    /\ \A t \in Tabs : refreshing[t] => \E c \in calls : c.heard /\ TabOf[c.req] = t

----------------------------------------------------------------------------
(* The bookkeeping.                                                        *)

\* No request starts or ends a refresh.
LEMMA QuietRefresh ==
    ASSUME SessionTypeOK, OneRefresh, UNCHANGED <<refreshing, calls>>,
           \A q \in Requests :
              /\ req'[q].st = "refreshing" <=> req[q].st = "refreshing"
              /\ req'[q].st = "waiting" => req[q].st = "waiting" \/ refreshing[TabOf[q]]
    PROVE  OneRefresh'
<1>1. \A c \in calls : c.req \in Requests
      BY DEF SessionTypeOK, RefreshCall
<1> QED BY <1>1 DEF OneRefresh

\* A call goes on: it is replaced, or dropped if nobody hears of it.
LEMMA CallGoesOn ==
    ASSUME SessionTypeOK, OneRefresh, UNCHANGED <<refreshing, req>>,
           NEW c \in calls, NEW d, d.req = c.req, d.heard = c.heard,
           \/ calls' = (calls \ {c}) \cup {d} /\ (d.st \in {"ok", "no"} => c.heard)
           \/ calls' = calls \ {c} /\ ~c.heard
    PROVE  OneRefresh'
<1>1. \A e \in calls : e.req \in Requests
      BY DEF SessionTypeOK, RefreshCall
<1>2. CASE calls' = calls \ {c} /\ ~c.heard
      BY <1>1, <1>2 DEF OneRefresh
<1>3. CASE calls' = (calls \ {c}) \cup {d} /\ (d.st \in {"ok", "no"} => c.heard)
  <2>1. \A e \in calls' : e = d \/ (e \in calls /\ e # c)
        BY <1>3
  <2>2. \A e \in calls : e = c \/ e \in calls'
        BY <1>3
  <2>3. d \in calls'
        BY <1>3
  <2>4. \A e \in calls' : e.st \in {"ok", "no"} => e.heard
        BY <1>3, <2>1 DEF OneRefresh
  <2>5. \A e \in calls' : e.heard => req'[e.req].st = "refreshing"
        BY <2>1 DEF OneRefresh
  <2>6. \A e, f \in calls' : e.heard /\ f.heard /\ TabOf[e.req] = TabOf[f.req] => e = f
        BY <2>1 DEF OneRefresh
  <2>7. \A q \in Requests : req'[q].st = "refreshing" => \E e \in calls' : e.heard /\ e.req = q
        BY <2>2, <2>3 DEF OneRefresh
  <2>8. \A t \in Tabs : refreshing'[t] => \E e \in calls' : e.heard /\ TabOf[e.req] = t
        BY <2>2, <2>3 DEF OneRefresh
  <2> QED BY <2>4, <2>5, <2>6, <2>7, <2>8 DEF OneRefresh
<1> QED BY <1>2, <1>3

\* The answer is in: the request that asked and those that wait for it leave
\* their places, and the document refreshes no more.
LEMMA CallSettles ==
    ASSUME SessionTypeOK, OneRefresh, NEW c \in calls, c.heard,
           calls' = calls \ {c},
           refreshing' = [refreshing EXCEPT ![TabOf[c.req]] = FALSE],
           \A r \in Requests :
              IF r \in {c.req} \cup Waiting(TabOf[c.req])
              THEN req'[r].st \in {"idle", "flight"}
              ELSE req'[r] = req[r]
    PROVE  OneRefresh'
<1> DEFINE t == TabOf[c.req]
<1>1. \A e \in calls : e.req \in Requests /\ TabOf[e.req] \in Tabs
      BY SessionAssumption DEF SessionTypeOK, RefreshCall
<1>2. \A q \in Requests : TabOf[q] \in Tabs
      BY SessionAssumption
<1>3. \A q \in Requests : TabOf[q] = t => req'[q].st \notin {"refreshing", "waiting"}
  <2> SUFFICES ASSUME NEW q \in Requests, TabOf[q] = t, req'[q].st \in {"refreshing", "waiting"}
               PROVE  FALSE
      OBVIOUS
  <2>1. req'[q] = req[q] /\ q # c.req /\ req[q].st # "waiting"
        BY DEF Waiting, Of
  <2>2. req[q].st = "refreshing"
        BY <2>1
  <2>3. PICK e \in calls : e.heard /\ e.req = q
        BY <2>2 DEF OneRefresh
  <2> QED BY <2>1, <2>3 DEF OneRefresh
<1>4. \A q \in Requests : TabOf[q] # t => req'[q] = req[q]
      BY DEF Waiting, Of
<1>5. \A e \in calls' : e \in calls /\ e # c /\ (e.heard => TabOf[e.req] # t)
      BY DEF OneRefresh
<1>6. \A e \in calls : TabOf[e.req] # t => e \in calls'
      OBVIOUS
<1>7. \A s \in Tabs : refreshing'[s] <=> refreshing[s] /\ s # t
      BY <1>1 DEF SessionTypeOK
<1> HIDE DEF t
<1>8. \A e \in calls' : (e.st \in {"ok", "no"} => e.heard) /\ (e.heard => req'[e.req].st = "refreshing")
      BY <1>1, <1>4, <1>5 DEF OneRefresh
<1>9. \A e, f \in calls' : e.heard /\ f.heard /\ TabOf[e.req] = TabOf[f.req] => e = f
      BY <1>5 DEF OneRefresh
<1>10. \A q \in Requests : req'[q].st = "refreshing" => \E e \in calls' : e.heard /\ e.req = q
      BY <1>3, <1>4, <1>6 DEF OneRefresh
<1>11. \A q \in Requests : req'[q].st \in {"refreshing", "waiting"} => refreshing'[TabOf[q]]
      BY <1>2, <1>3, <1>4, <1>7 DEF OneRefresh
<1>12. \A s \in Tabs : refreshing'[s] => \E e \in calls' : e.heard /\ TabOf[e.req] = s
      BY <1>6, <1>7 DEF OneRefresh
<1> QED BY <1>8, <1>9, <1>10, <1>11, <1>12 DEF OneRefresh

\* A refresh starts in a document that has none.
LEMMA RefreshStarts ==
    ASSUME SessionTypeOK, OneRefresh, NEW q \in Requests, StartRefresh(q)
    PROVE  OneRefresh'
<1> DEFINE t == TabOf[q]
           c == [req |-> q, rt |-> mem[t].pair, heard |-> TRUE, st |-> "sent", new |-> NoPair]
<1>1. \A e \in calls : e.req \in Requests /\ TabOf[e.req] \in Tabs
      BY SessionAssumption DEF SessionTypeOK, RefreshCall
<1>2. t \in Tabs /\ \A r \in Requests : TabOf[r] \in Tabs
      BY SessionAssumption
<1>3. c.req = q /\ c.heard = TRUE /\ c.st = "sent" /\ calls' = calls \cup {c}
      BY DEF StartRefresh
<1>4. ~refreshing[t] /\ req[q].st = "flight"
      BY DEF StartRefresh, Unauthorized
<1>5. \A s \in Tabs : refreshing'[s] <=> refreshing[s] \/ s = t
      BY <1>2 DEF StartRefresh, SessionTypeOK
<1>6. /\ req'[q].st = "refreshing"
      /\ \A r \in Requests : r # q => req'[r] = req[r]
      BY DEF StartRefresh, SessionTypeOK, Request
<1>7. \A e \in calls : e.heard => TabOf[e.req] # t /\ e.req # q
      BY <1>1, <1>4 DEF OneRefresh
<1> HIDE DEF c
<1>8. \A e \in calls' : (e.st \in {"ok", "no"} => e.heard) /\ (e.heard => req'[e.req].st = "refreshing")
      BY <1>1, <1>3, <1>6, <1>7 DEF OneRefresh
<1>9. \A e, f \in calls' : e.heard /\ f.heard /\ TabOf[e.req] = TabOf[f.req] => e = f
      BY <1>3, <1>7 DEF OneRefresh
<1>10. \A r \in Requests : req'[r].st = "refreshing" => \E e \in calls' : e.heard /\ e.req = r
      BY <1>3, <1>6 DEF OneRefresh
<1>11. \A r \in Requests : req'[r].st \in {"refreshing", "waiting"} => refreshing'[TabOf[r]]
      BY <1>2, <1>5, <1>6 DEF OneRefresh
<1>12. \A s \in Tabs : refreshing'[s] => \E e \in calls' : e.heard /\ TabOf[e.req] = s
      BY <1>3, <1>5 DEF OneRefresh
<1> QED BY <1>8, <1>9, <1>10, <1>11, <1>12 DEF OneRefresh

\* A document is replaced: nothing is left of its requests and refresh but
\* calls that nobody hears the answer of.
LEMMA DocumentReplaced ==
    ASSUME SessionTypeOK, OneRefresh, NEW t \in Tabs, Load(t)
    PROVE  OneRefresh'
<1>1. \A e \in calls : e \in RefreshCall /\ e.req \in Requests /\ TabOf[e.req] \in Tabs
      BY SessionAssumption DEF SessionTypeOK, RefreshCall
<1>2. \A s \in Tabs : refreshing'[s] <=> refreshing[s] /\ s # t
      BY DEF Load, SessionTypeOK
<1>3. \A q \in Requests : IF TabOf[q] = t THEN req'[q].st = "idle" ELSE req'[q] = req[q]
      BY DEF Load, Idle
<1>4. \A e \in calls' :
          \/ e \in calls /\ TabOf[e.req] # t
          \/ e.heard = FALSE /\ e.st \in {"sent", "checked"}
  <2> SUFFICES ASSUME NEW e \in calls' PROVE
          \/ e \in calls /\ TabOf[e.req] # t
          \/ e.heard = FALSE /\ e.st \in {"sent", "checked"}
      OBVIOUS
  <2>1. CASE e \in calls /\ TabOf[e.req] # t
        BY <2>1
  <2>2. CASE \E d \in calls : d.st \in {"sent", "checked"} /\ e = [d EXCEPT !.heard = FALSE]
        BY <1>1, <2>2 DEF RefreshCall
  <2> QED BY <2>1, <2>2 DEF Load
<1>5. \A e \in calls : TabOf[e.req] # t => e \in calls'
      BY DEF Load
<1>6. \A e \in calls' : (e.st \in {"ok", "no"} => e.heard) /\ (e.heard => req'[e.req].st = "refreshing")
      BY <1>1, <1>3, <1>4 DEF OneRefresh
<1>7. \A e, f \in calls' : e.heard /\ f.heard /\ TabOf[e.req] = TabOf[f.req] => e = f
      BY <1>4 DEF OneRefresh
<1>8. \A q \in Requests : req'[q].st = "refreshing" => \E e \in calls' : e.heard /\ e.req = q
      BY <1>3, <1>5 DEF OneRefresh
<1>9. \A q \in Requests : req'[q].st \in {"refreshing", "waiting"} => refreshing'[TabOf[q]]
      BY <1>2, <1>3, SessionAssumption DEF OneRefresh
<1>10. \A s \in Tabs : refreshing'[s] => \E e \in calls' : e.heard /\ TabOf[e.req] = s
      BY <1>2, <1>5 DEF OneRefresh
<1> QED BY <1>6, <1>7, <1>8, <1>9, <1>10 DEF OneRefresh

----------------------------------------------------------------------------
(* Types; and no token is held, sent or exchanged that was not issued.     *)

ServerTypeOK ==
    /\ issued \in 0 .. MaxPairs
    /\ family \in [Pairs -> Pairs \cup {NoPair}]
    /\ expired \subseteq Pairs /\ used \subseteq Pairs /\ ended \subseteq Pairs
    /\ revoked \in BOOLEAN /\ revokedAt \in 0 .. MaxPairs
    /\ logouts \subseteq Pairs
    /\ \A n \in 1 .. issued : family[n] \in Pairs
    /\ \A p \in logouts : p <= issued

StoreTypeOK ==
    /\ mem \in [Tabs -> Store] /\ disk \in Store
    /\ indicator \in BOOLEAN /\ leaving \in [Tabs -> BOOLEAN]
    /\ loads \in 0 .. MaxLoads
    /\ \A t \in Tabs : mem[t].pair <= issued
    /\ disk.pair <= issued

QueueTypeOK ==
    /\ refreshing \in [Tabs -> BOOLEAN]
    /\ req \in [Requests -> Request]
    /\ calls \subseteq RefreshCall
    /\ \A c \in calls : c.rt <= issued /\ c.new <= issued

SessionInv == ServerTypeOK /\ StoreTypeOK /\ QueueTypeOK /\ OneRefresh

LEMMA InvGivesTypes == SessionInv => SessionTypeOK
BY DEF SessionInv, SessionTypeOK, ServerTypeOK, StoreTypeOK, QueueTypeOK

\* A number in range is a pair that was issued.
LEMMA IssuedPair == ASSUME issued \in 0 .. MaxPairs, NEW p \in Pairs, p <= issued PROVE p \in 1 .. issued
BY SessionAssumption DEF Pairs

\* A new pair is issued: what was issued before still is.
LEMMA IssueStep ==
    ASSUME ServerTypeOK, NEW f \in Pairs \cup {NoPair}, Issue(f)
    PROVE  /\ issued' \in Pairs /\ issued' = issued + 1 /\ issued' \in 0 .. MaxPairs
           /\ family' \in [Pairs -> Pairs \cup {NoPair}]
           /\ \A n \in 1 .. issued' : family'[n] \in Pairs
           /\ f = NoPair => family'[issued'] = issued'
<1>1. issued \in 0 .. MaxPairs /\ issued < MaxPairs /\ issued' = issued + 1 /\ MaxPairs \in Nat
      BY SessionAssumption DEF ServerTypeOK, Issue
<1>2. issued' \in Pairs /\ issued' \in 0 .. MaxPairs
      BY <1>1 DEF Pairs
<1> DEFINE g == IF f = NoPair THEN issued + 1 ELSE f
<1>3. g \in Pairs
      BY <1>1, <1>2 DEF NoPair
<1>4. family' = [family EXCEPT ![issued'] = g]
      BY <1>1 DEF Issue
<1>5. f = NoPair => g = issued'
      BY <1>1
<1> HIDE DEF g
<1>6. family' \in [Pairs -> Pairs \cup {NoPair}] /\ family'[issued'] = g
      BY <1>2, <1>3, <1>4 DEF ServerTypeOK
<1>7. ASSUME NEW n \in 1 .. issued' PROVE family'[n] \in Pairs
  <2>1. CASE n = issued'
        BY <1>3, <1>6, <2>1
  <2>2. CASE n # issued'
    <3>1. n \in 1 .. issued /\ n \in Pairs
          BY <1>1, <2>2 DEF Pairs
    <3> QED BY <1>4, <2>2, <3>1 DEF ServerTypeOK
  <2> QED BY <2>1, <2>2
<1> QED BY <1>1, <1>2, <1>5, <1>6, <1>7

----------------------------------------------------------------------------
(* The steps.                                                              *)

\* The server alone.
LEMMA ServerSteps ==
    ASSUME SessionInv,
           \/ \E p \in Pairs : Expire(p) \/ LogoutHandled(p)
           \/ \E t \in Tabs : ChangePassword(t)
           \/ RevocationExpires
    PROVE  SessionInv'
<1>1. /\ UNCHANGED <<issued, family, store, refreshing, req, calls, loads>>
      /\ logouts' \subseteq logouts
      /\ revoked' \in BOOLEAN /\ revokedAt' \in {revokedAt, issued}
      BY DEF SessionInv, ServerTypeOK, Expire, LogoutHandled, ChangePassword, RevocationExpires,
             RevokeAllSessions
<1>2. expired' \subseteq Pairs /\ used' \subseteq Pairs /\ ended' \subseteq Pairs
  <2>1. CASE \E p \in Pairs : Expire(p)
        BY <2>1 DEF SessionInv, ServerTypeOK, Expire
  <2>2. CASE \E p \in Pairs : LogoutHandled(p)
    <3>1. PICK p \in Pairs : LogoutHandled(p)
          BY <2>2
    <3>2. family[p] \in Pairs
          BY <3>1, IssuedPair DEF SessionInv, ServerTypeOK, LogoutHandled
    <3> QED BY <3>1, <3>2 DEF SessionInv, ServerTypeOK, LogoutHandled
  <2>3. CASE (\E t \in Tabs : ChangePassword(t)) \/ RevocationExpires
        BY <2>3 DEF SessionInv, ServerTypeOK, ChangePassword, RevocationExpires
  <2> QED BY <2>1, <2>2, <2>3
<1>3. ServerTypeOK'
      BY <1>1, <1>2 DEF SessionInv, ServerTypeOK
<1>4. StoreTypeOK' /\ QueueTypeOK'
      BY <1>1 DEF SessionInv, StoreTypeOK, QueueTypeOK, store
<1>5. OneRefresh'
      BY <1>1 DEF SessionInv, OneRefresh
<1> QED BY <1>3, <1>4, <1>5 DEF SessionInv

\* A login.
LEMMA SetAuthStep ==
    ASSUME SessionInv, NEW t \in Tabs, SetAuth(t)
    PROVE  SessionInv'
<1>1. /\ Issue(NoPair)
      /\ UNCHANGED <<expired, used, ended, revoked, revokedAt, leaving,
                     refreshing, req, calls, logouts, loads>>
      /\ mem' = [mem EXCEPT ![t] = [user |-> TRUE, pair |-> issued']]
      /\ disk' = mem'[t] /\ indicator' = TRUE
      BY DEF SetAuth
<1>2. /\ issued' \in Pairs /\ issued' = issued + 1 /\ issued' \in 0 .. MaxPairs
      /\ family' \in [Pairs -> Pairs \cup {NoPair}]
      /\ \A n \in 1 .. issued' : family'[n] \in Pairs
      BY <1>1, IssueStep DEF SessionInv
<1>3. issued \in Nat /\ Pairs \subseteq Nat /\ NoPair \in Nat
      BY SessionAssumption DEF SessionInv, ServerTypeOK, Pairs, NoPair
<1>4. ServerTypeOK'
      BY <1>1, <1>2, <1>3 DEF SessionInv, ServerTypeOK
<1>5. StoreTypeOK'
  <2>1. [user |-> TRUE, pair |-> issued'] \in Store
        BY <1>2 DEF Store
  <2>2. mem' \in [Tabs -> Store] /\ disk' \in Store /\ disk'.pair = issued'
        BY <1>1, <2>1 DEF SessionInv, StoreTypeOK
  <2>3. \A s \in Tabs : mem[s].pair \in Nat /\ mem[s].pair <= issued
        BY <1>3 DEF SessionInv, StoreTypeOK, Store
  <2>4. \A s \in Tabs : mem'[s].pair <= issued'
        BY <1>1, <1>2, <1>3, <2>3 DEF SessionInv, StoreTypeOK
  <2> QED BY <1>1, <1>2, <1>3, <2>2, <2>4 DEF SessionInv, StoreTypeOK
<1>6. QueueTypeOK'
  <2>1. \A c \in calls : c.rt \in Nat /\ c.new \in Nat
        BY <1>3 DEF SessionInv, QueueTypeOK, RefreshCall
  <2> QED BY <1>1, <1>2, <1>3, <2>1 DEF SessionInv, QueueTypeOK
<1>7. OneRefresh'
      BY <1>1 DEF SessionInv, OneRefresh
<1> QED BY <1>4, <1>5, <1>6, <1>7 DEF SessionInv

\* logout() in a document.
LEMMA ClearStep ==
    ASSUME SessionInv, NEW t \in Tabs, ClearStore(t), UNCHANGED <<server, loads>>
    PROVE  ServerTypeOK' /\ StoreTypeOK'
<1>1. SignedOut \in Store /\ SignedOut.pair = 0
      BY DEF SignedOut, Store, NoPair
<1>2. issued \in Nat
      BY SessionAssumption DEF SessionInv, ServerTypeOK
<1>3. /\ mem' = [mem EXCEPT ![t] = SignedOut] /\ disk' = SignedOut
      /\ indicator' = FALSE /\ leaving' = [leaving EXCEPT ![t] = TRUE]
      /\ UNCHANGED <<issued, loads>>
      BY DEF ClearStore, server
<1>4. StoreTypeOK'
  <2>1. mem' \in [Tabs -> Store]
        BY <1>1, <1>3 DEF SessionInv, StoreTypeOK
  <2>2. \A s \in Tabs : mem'[s].pair <= issued'
        BY <1>1, <1>2, <1>3 DEF SessionInv, StoreTypeOK
  <2>3. disk' \in Store /\ disk'.pair <= issued'
        BY <1>1, <1>2, <1>3
  <2> QED BY <1>3, <2>1, <2>2, <2>3 DEF SessionInv, StoreTypeOK
<1>5. mem[t].pair \in Pairs \cup {NoPair} /\ mem[t].pair <= issued
      BY DEF SessionInv, StoreTypeOK, Store
<1>6. ServerTypeOK'
      BY <1>5 DEF SessionInv, ServerTypeOK, ClearStore, server
<1> QED BY <1>4, <1>6

\* The buttons and the forms that sign out.
LEMMA LogoutSteps ==
    ASSUME SessionInv, NEW t \in Tabs, Logout(t) \/ LoginRefused(t)
    PROVE  SessionInv'
<1>1. ClearStore(t) /\ UNCHANGED <<server, loads, refreshing, req, calls>>
      BY DEF Logout, LoginRefused
<1>2. ServerTypeOK' /\ StoreTypeOK'
      BY <1>1, ClearStep
<1>3. QueueTypeOK' /\ OneRefresh'
      BY <1>1 DEF SessionInv, QueueTypeOK, OneRefresh, server
<1> QED BY <1>2, <1>3 DEF SessionInv

\* A page load.
LEMMA LoadStep ==
    ASSUME SessionInv, NEW t \in Tabs, Load(t)
    PROVE  SessionInv'
<1>1. /\ UNCHANGED <<server, disk, indicator, logouts>>
      /\ mem' = [mem EXCEPT ![t] = disk] /\ leaving' = [leaving EXCEPT ![t] = FALSE]
      /\ loads' = loads \/ (loads < MaxLoads /\ loads' = loads + 1)
      /\ refreshing' = [refreshing EXCEPT ![t] = FALSE]
      /\ req' = [q \in Requests |-> IF TabOf[q] = t THEN Idle ELSE req[q]]
      BY DEF Load
<1>2. ServerTypeOK'
      BY <1>1 DEF SessionInv, ServerTypeOK, server
<1>3. StoreTypeOK'
      BY <1>1, SessionAssumption DEF SessionInv, StoreTypeOK, server
<1>4. \A e \in calls' : e \in RefreshCall /\ e.rt <= issued /\ e.new <= issued
  <2> SUFFICES ASSUME NEW e \in calls'
               PROVE  e \in RefreshCall /\ e.rt <= issued /\ e.new <= issued
      OBVIOUS
  <2>1. CASE e \in calls
        BY <2>1 DEF SessionInv, QueueTypeOK
  <2>2. CASE \E d \in calls : e = [d EXCEPT !.heard = FALSE]
    <3>1. PICK d \in calls : e = [d EXCEPT !.heard = FALSE]
          BY <2>2
    <3>2. d \in RefreshCall /\ d.rt <= issued /\ d.new <= issued
          BY DEF SessionInv, QueueTypeOK
    <3> QED BY <3>1, <3>2 DEF RefreshCall
  <2> QED BY <2>1, <2>2 DEF Load
<1>5. QueueTypeOK'
  <2>1. Idle \in Request
        BY DEF Idle, Request
  <2> QED BY <1>1, <1>4, <2>1 DEF SessionInv, QueueTypeOK, server
<1>6. OneRefresh'
      BY InvGivesTypes, DocumentReplaced DEF SessionInv
<1> QED BY <1>2, <1>3, <1>5, <1>6 DEF SessionInv

\* A request is sent, answered, given up or made to wait.
LEMMA RequestSteps ==
    ASSUME SessionInv, NEW q \in Requests,
           Send(q) \/ Answered(q) \/ GiveUp(q) \/ Subscribe(q)
    PROVE  SessionInv'
<1> DEFINE flight == [st |-> "flight", pair |-> mem[TabOf[q]].pair, retry |-> FALSE]
           waiting == [req[q] EXCEPT !.st = "waiting"]
<1>1. UNCHANGED <<server, store, refreshing, calls, logouts, loads>>
      BY DEF Send, Answered, GiveUp, Subscribe
<1>2. TabOf[q] \in Tabs
      BY SessionAssumption
<1>3. /\ Idle \in Request /\ Idle.st = "idle"
      /\ flight \in Request /\ flight.st = "flight"
      /\ waiting \in Request /\ waiting.st = "waiting"
      BY <1>2 DEF SessionInv, QueueTypeOK, StoreTypeOK, Store, Request, Idle
<1>4. \/ req' = [req EXCEPT ![q] = flight] /\ req[q].st = "idle"
      \/ req' = [req EXCEPT ![q] = Idle] /\ req[q].st = "flight"
      \/ req' = [req EXCEPT ![q] = waiting] /\ req[q].st = "flight" /\ refreshing[TabOf[q]]
      BY DEF Send, Answered, GiveUp, Subscribe, Unauthorized
<1> HIDE DEF flight, waiting
<1>5. PICK r \in Request :
         /\ req' = [req EXCEPT ![q] = r]
         /\ r.st # "refreshing" /\ req[q].st # "refreshing"
         /\ r.st = "waiting" => refreshing[TabOf[q]]
      BY <1>3, <1>4
<1>6. ServerTypeOK' /\ StoreTypeOK'
      BY <1>1 DEF SessionInv, ServerTypeOK, StoreTypeOK, server, store
<1>7. QueueTypeOK'
      BY <1>1, <1>5 DEF SessionInv, QueueTypeOK, server
<1>8. OneRefresh'
      BY <1>1, <1>5, QuietRefresh, InvGivesTypes DEF SessionInv, QueueTypeOK
<1> QED BY <1>6, <1>7, <1>8 DEF SessionInv

\* A request that is refused a token asks for a refresh, or there is nothing
\* to refresh.
LEMMA UnauthorizedSteps ==
    ASSUME SessionInv, NEW q \in Requests, StartRefresh(q) \/ NothingToRefresh(q)
    PROVE  SessionInv'
<1>1. TabOf[q] \in Tabs /\ Idle \in Request /\ Idle.st = "idle"
      BY SessionAssumption DEF Idle, Request
<1>2. CASE StartRefresh(q)
  <2> DEFINE t == TabOf[q]
             c == [req |-> q, rt |-> mem[t].pair, heard |-> TRUE, st |-> "sent", new |-> NoPair]
             r == [req[q] EXCEPT !.st = "refreshing", !.retry = TRUE]
  <2>1. /\ mem[t].pair \in Pairs /\ mem[t].pair <= issued /\ 0 <= issued
        BY <1>1, <1>2, SessionAssumption
           DEF StartRefresh, SessionInv, ServerTypeOK, StoreTypeOK, Store
  <2>2. c \in RefreshCall /\ c.rt = mem[t].pair /\ c.new = 0
        BY <2>1 DEF RefreshCall, NoPair
  <2>3. r \in Request
        BY DEF SessionInv, QueueTypeOK, Request
  <2>4. /\ calls' = calls \cup {c}
        /\ refreshing' = [refreshing EXCEPT ![t] = TRUE]
        /\ UNCHANGED <<server, store, logouts, loads>>
        BY <1>2 DEF StartRefresh
  <2>5. req' = [req EXCEPT ![q] = r]
        BY <1>2 DEF StartRefresh, SessionInv, QueueTypeOK
  <2> HIDE DEF c, r
  <2>6. QueueTypeOK'
        BY <2>1, <2>2, <2>3, <2>4, <2>5 DEF SessionInv, QueueTypeOK, server
  <2>7. ServerTypeOK' /\ StoreTypeOK'
        BY <2>4 DEF SessionInv, ServerTypeOK, StoreTypeOK, server, store
  <2>8. OneRefresh'
        BY <1>2, InvGivesTypes, RefreshStarts DEF SessionInv
  <2> QED BY <2>6, <2>7, <2>8 DEF SessionInv
<1>3. CASE NothingToRefresh(q)
  <2>1. /\ FailAll(q) /\ ClearStore(TabOf[q]) /\ UNCHANGED <<server, refreshing, calls, loads>>
        /\ req[q].st = "flight"
        BY <1>3 DEF NothingToRefresh, Unauthorized
  <2>2. ServerTypeOK' /\ StoreTypeOK'
        BY <1>1, <2>1, ClearStep
  <2>3. \A r \in Requests :
           /\ req'[r] = Idle \/ req'[r] = req[r]
           /\ req'[r] # req[r] => r = q \/ req[r].st = "waiting"
        BY <2>1 DEF FailAll, Waiting
  <2>4. req' \in [Requests -> Request]
        BY <1>1, <2>1 DEF FailAll, SessionInv, QueueTypeOK
  <2>5. QueueTypeOK'
        BY <2>1, <2>4 DEF SessionInv, QueueTypeOK, server
  <2>6. OneRefresh'
        BY <1>1, <2>1, <2>3, QuietRefresh, InvGivesTypes DEF SessionInv
  <2> QED BY <2>2, <2>5, <2>6 DEF SessionInv
<1> QED BY <1>2, <1>3

\* The service works on a refresh call, or it is lost.
LEMMA ReplyStep ==
    ASSUME SessionInv, NEW c \in calls, NEW st \in {"ok", "no"}, NEW new \in Pairs \cup {NoPair},
           Reply(c, st, new), UNCHANGED <<refreshing, req>>,
           issued' \in Nat, issued <= issued', new <= issued'
    PROVE  QueueTypeOK' /\ OneRefresh'
<1> DEFINE d == [c EXCEPT !.st = st, !.new = new]
<1>1. c \in RefreshCall /\ c.rt <= issued /\ c.new <= issued
      BY DEF SessionInv, QueueTypeOK
<1>2. d \in RefreshCall /\ d.req = c.req /\ d.heard = c.heard /\ d.st = st /\ d.rt = c.rt /\ d.new = new
      BY <1>1 DEF RefreshCall
<1>3. \/ calls' = (calls \ {c}) \cup {d} /\ c.heard
      \/ calls' = calls \ {c} /\ ~c.heard
      BY DEF Reply
<1> HIDE DEF d
<1>4. \A e \in calls : e.rt \in Nat /\ e.new \in Nat
      BY SessionAssumption DEF SessionInv, QueueTypeOK, RefreshCall, Pairs, NoPair
<1>5. issued \in Nat
      BY SessionAssumption DEF SessionInv, ServerTypeOK
<1>6. \A e \in calls' : e \in calls \/ e = d
      BY <1>3
<1>7. \A e \in calls' : e \in RefreshCall /\ e.rt <= issued' /\ e.new <= issued'
      BY <1>1, <1>2, <1>4, <1>5, <1>6 DEF SessionInv, QueueTypeOK
<1>8. QueueTypeOK'
      BY <1>7 DEF SessionInv, QueueTypeOK
<1>9. OneRefresh'
      BY <1>2, <1>3, CallGoesOn, InvGivesTypes DEF SessionInv
<1> QED BY <1>8, <1>9

LEMMA CallSteps ==
    ASSUME SessionInv, NEW c \in calls, Progress(c) \/ RefreshLost(c)
    PROVE  SessionInv'
<1>1. /\ c \in RefreshCall /\ c.rt \in Pairs /\ c.rt <= issued /\ issued \in Nat /\ NoPair <= issued
      /\ issued <= issued
      BY SessionAssumption DEF SessionInv, ServerTypeOK, QueueTypeOK, RefreshCall, NoPair
<1>2. family[c.rt] \in Pairs
      BY <1>1, IssuedPair DEF SessionInv, ServerTypeOK
<1>3. NoPair \in Pairs \cup {NoPair}
      OBVIOUS
<1>4. CASE RefreshChecks(c)
  <2>1. /\ UNCHANGED <<issued, family, expired, used, store, refreshing, req, logouts, loads>>
        /\ ended' \in {ended, ended \cup {family[c.rt]}}
        /\ revoked' \in {revoked, TRUE} /\ revokedAt' \in {revokedAt, issued}
        BY <1>4 DEF RefreshChecks, RevokeAllSessions
  <2>2. ServerTypeOK' /\ StoreTypeOK'
        BY <1>2, <2>1 DEF SessionInv, ServerTypeOK, StoreTypeOK, store
  <2>3. CASE Reply(c, "no", NoPair)
    <3>1. QueueTypeOK' /\ OneRefresh'
          BY <1>1, <1>3, <2>1, <2>3, ReplyStep
    <3> QED BY <2>2, <3>1 DEF SessionInv
  <2>4. CASE calls' = (calls \ {c}) \cup {[c EXCEPT !.st = "checked"]}
    <3> DEFINE d == [c EXCEPT !.st = "checked"]
    <3>1. /\ d \in RefreshCall /\ d.req = c.req /\ d.heard = c.heard /\ d.st = "checked"
          /\ d.rt = c.rt /\ d.new = c.new
          BY <1>1 DEF RefreshCall
    <3>2. calls' = (calls \ {c}) \cup {d}
          BY <2>4
    <3> HIDE DEF d
    <3>3. QueueTypeOK'
          BY <2>1, <3>1, <3>2 DEF SessionInv, QueueTypeOK
    <3>4. OneRefresh'
          BY <2>1, <3>1, <3>2, CallGoesOn, InvGivesTypes DEF SessionInv
    <3> QED BY <2>2, <3>3, <3>4 DEF SessionInv
  <2> QED BY <1>4, <2>3, <2>4 DEF RefreshChecks
<1>5. CASE RefreshRotates(c)
  <2>1. /\ Issue(family[c.rt]) /\ used' = used \cup {c.rt} /\ Reply(c, "ok", issued')
        /\ UNCHANGED <<expired, ended, revoked, revokedAt, store, refreshing, req, logouts, loads>>
        BY <1>5 DEF RefreshRotates
  <2>2. /\ issued' \in Pairs /\ issued' = issued + 1 /\ issued' \in 0 .. MaxPairs
        /\ family' \in [Pairs -> Pairs \cup {NoPair}]
        /\ \A n \in 1 .. issued' : family'[n] \in Pairs
        BY <1>2, <2>1, IssueStep DEF SessionInv
  <2>3. Pairs \subseteq Nat /\ NoPair \in Nat
        BY SessionAssumption DEF Pairs, NoPair
  <2>4. ServerTypeOK'
    <3>1. \A p \in logouts' : p <= issued'
          BY <1>1, <2>1, <2>2, <2>3 DEF SessionInv, ServerTypeOK
    <3>2. used' \subseteq Pairs
          BY <1>1, <2>1 DEF SessionInv, ServerTypeOK
    <3> QED BY <2>1, <2>2, <3>1, <3>2 DEF SessionInv, ServerTypeOK
  <2>5. StoreTypeOK'
    <3>1. \A s \in Tabs : mem[s].pair \in Nat
          BY <2>3 DEF SessionInv, StoreTypeOK, Store
    <3>2. disk.pair \in Nat
          BY <2>3 DEF SessionInv, StoreTypeOK, Store
    <3> QED BY <1>1, <2>1, <2>2, <3>1, <3>2 DEF SessionInv, StoreTypeOK, store
  <2>6. QueueTypeOK' /\ OneRefresh'
    <3>1. issued' \in Nat /\ issued <= issued' /\ issued' <= issued'
          BY <1>1, <2>2
    <3> QED BY <2>1, <2>2, <3>1, ReplyStep
  <2> QED BY <2>4, <2>5, <2>6 DEF SessionInv
<1>6. CASE RefreshErrs(c) \/ RefreshLost(c)
  <2>1. /\ Reply(c, "no", NoPair) /\ used' \in {used, used \cup {c.rt}}
        /\ UNCHANGED <<issued, family, expired, ended, revoked, revokedAt,
                       store, refreshing, req, logouts, loads>>
        BY <1>6 DEF RefreshErrs, RefreshLost, server
  <2>2. ServerTypeOK' /\ StoreTypeOK'
        BY <1>1, <2>1 DEF SessionInv, ServerTypeOK, StoreTypeOK, store
  <2>3. QueueTypeOK' /\ OneRefresh'
        BY <1>1, <1>3, <2>1, ReplyStep
  <2> QED BY <2>2, <2>3 DEF SessionInv
<1> QED BY <1>4, <1>5, <1>6 DEF Progress

\* The answer of a refresh call is in.
LEMMA SettleStep ==
    ASSUME SessionInv, NEW c \in calls, Settle(c)
    PROVE  SessionInv'
<1> DEFINE t == TabOf[c.req]
<1>1. c \in RefreshCall /\ c.new \in Pairs \cup {NoPair} /\ c.new <= issued /\ c.req \in Requests
      BY DEF SessionInv, QueueTypeOK, RefreshCall
<1>2. t \in Tabs
      BY <1>1, SessionAssumption
<1>3. c.heard /\ calls' = calls \ {c} /\ refreshing' = [refreshing EXCEPT ![t] = FALSE]
      BY DEF Settle, RefreshSucceeds, RefreshFails, SessionInv, OneRefresh
<1>4. /\ req' \in [Requests -> Request]
      /\ \A r \in Requests :
            IF r \in {c.req} \cup Waiting(t)
            THEN req'[r].st \in {"idle", "flight"}
            ELSE req'[r] = req[r]
  <2>1. CASE RefreshSucceeds(c)
    <3>1. req' = [r \in Requests |->
                    IF r \in {c.req} \cup Waiting(t)
                    THEN [st |-> "flight", pair |-> c.new, retry |-> (r = c.req)]
                    ELSE req[r]]
          BY <2>1 DEF RefreshSucceeds, ResendAll
    <3>2. \A b \in BOOLEAN : [st |-> "flight", pair |-> c.new, retry |-> b] \in Request
          BY <1>1 DEF Request
    <3> QED BY <3>1, <3>2 DEF SessionInv, QueueTypeOK
  <2>2. CASE RefreshFails(c)
    <3>1. req' = [r \in Requests |-> IF r \in {c.req} \cup Waiting(t) THEN Idle ELSE req[r]]
          BY <2>2 DEF RefreshFails, FailAll
    <3>2. Idle \in Request /\ Idle.st = "idle"
          BY DEF Idle, Request
    <3> QED BY <3>1, <3>2 DEF SessionInv, QueueTypeOK
  <2> QED BY <2>1, <2>2 DEF Settle
<1>5. UNCHANGED <<server, loads>>
      BY DEF Settle, RefreshSucceeds, RefreshFails
<1>6. ServerTypeOK' /\ StoreTypeOK'
  <2>1. CASE RefreshSucceeds(c)
    <3> DEFINE m == [mem[t] EXCEPT !.pair = c.new]
    <3>1. m \in Store /\ m.pair = c.new
          BY <1>1, <1>2 DEF SessionInv, StoreTypeOK, Store
    <3>2. /\ mem' = [mem EXCEPT ![t] = m]
          /\ UNCHANGED <<server, indicator, leaving, logouts, loads>>
          BY <1>2, <2>1 DEF RefreshSucceeds, SessionInv, StoreTypeOK
    <3> HIDE DEF m
    <3>3. mem' \in [Tabs -> Store] /\ mem'[t] = m
          BY <1>2, <3>1, <3>2 DEF SessionInv, StoreTypeOK
    <3>4. disk' = m
          BY <2>1, <3>3 DEF RefreshSucceeds
    <3>5. \A s \in Tabs : mem'[s].pair <= issued
          BY <1>1, <3>1, <3>2 DEF SessionInv, StoreTypeOK
    <3> QED BY <1>1, <3>1, <3>2, <3>3, <3>4, <3>5
            DEF SessionInv, ServerTypeOK, StoreTypeOK, server
  <2>2. CASE RefreshFails(c)
        BY <1>2, <2>2, ClearStep DEF RefreshFails
  <2> QED BY <2>1, <2>2 DEF Settle
<1>7. QueueTypeOK'
      BY <1>2, <1>3, <1>4, <1>5 DEF SessionInv, QueueTypeOK, server
<1>8. OneRefresh'
      BY <1>3, <1>4, CallSettles, InvGivesTypes DEF SessionInv
<1> QED BY <1>6, <1>7, <1>8 DEF SessionInv

\* Every step keeps the invariant.
LEMMA SessionStepInv == SessionInv /\ [Next]_vars => SessionInv'
<1> SUFFICES ASSUME SessionInv, [Next]_vars PROVE SessionInv'
    OBVIOUS
<1>1. CASE UNCHANGED vars
      BY <1>1 DEF vars, server, store, SessionInv, ServerTypeOK, StoreTypeOK, QueueTypeOK, OneRefresh
<1>2. CASE \/ \E p \in Pairs : Expire(p) \/ LogoutHandled(p)
           \/ RevocationExpires
      BY <1>2, ServerSteps
<1>3. CASE \E t \in Tabs : ChangePassword(t) \/ SetAuth(t) \/ Logout(t) \/ LoginRefused(t) \/ Load(t)
      BY <1>3, ServerSteps, SetAuthStep, LogoutSteps, LoadStep
<1>4. CASE \E q \in Requests : Send(q) \/ Respond(q)
      BY <1>4, RequestSteps, UnauthorizedSteps DEF Respond
<1>5. CASE \E c \in calls : Progress(c) \/ RefreshLost(c) \/ Settle(c)
      BY <1>5, CallSteps, SettleStep
<1> QED BY <1>1, <1>2, <1>3, <1>4, <1>5 DEF Next

LEMMA SessionInit == Init => SessionInv
<1> SUFFICES ASSUME Init PROVE SessionInv
    OBVIOUS
<1>1. MaxPairs \in Nat /\ MaxLoads \in Nat
      BY SessionAssumption
<1>2. SignedOut \in Store /\ SignedOut.pair = 0 /\ Idle \in Request /\ Idle.st = "idle"
      BY DEF SignedOut, Store, NoPair, Idle, Request
<1>3. ServerTypeOK
  <2>1. issued = 0 /\ 0 \in 0 .. MaxPairs /\ 1 .. issued = {}
        BY <1>1 DEF Init
  <2>2. family = [n \in Pairs |-> NoPair]
        BY DEF Init
  <2>3. family \in [Pairs -> Pairs \cup {NoPair}]
        BY <2>2
  <2>4. /\ expired = {} /\ used = {} /\ ended = {} /\ logouts = {}
        /\ revoked = FALSE /\ revokedAt = 0
        BY DEF Init
  <2> QED BY <2>1, <2>3, <2>4 DEF ServerTypeOK
<1>4. StoreTypeOK
  <2>1. issued = 0 /\ loads = 0 /\ 0 \in 0 .. MaxLoads /\ disk = SignedOut /\ indicator = FALSE
        BY <1>1 DEF Init
  <2>2. mem = [t \in Tabs |-> SignedOut]
        BY DEF Init
  <2>3. mem \in [Tabs -> Store] /\ \A t \in Tabs : mem[t] = SignedOut
        BY <1>2, <2>2
  <2>4. leaving \in [Tabs -> BOOLEAN]
        BY DEF Init
  <2>5. 0 <= 0
        OBVIOUS
  <2> QED BY <1>2, <2>1, <2>3, <2>4, <2>5 DEF StoreTypeOK
<1>5. QueueTypeOK
      BY <1>2 DEF Init, QueueTypeOK
<1>6. OneRefresh
      BY <1>2 DEF Init, OneRefresh
<1> QED BY <1>3, <1>4, <1>5, <1>6 DEF SessionInv

----------------------------------------------------------------------------
(* The theorems.                                                           *)

\* Types, tokens and the interceptor's bookkeeping, in every state of the
\* tabs and the service (axios.ts, authStore.ts; user/service.go).
THEOREM SessionInvariant == Spec => []SessionInv
BY SessionInit, SessionStepInv, PTL DEF Spec

\* Every variable keeps its type.
THEOREM SessionTypes == Spec => []SessionTypeOK
BY SessionInvariant, InvGivesTypes, PTL

\* While a document refreshes, one request of it asked for it and one call
\* will be heard; otherwise nothing asks and nothing waits (axios.ts).
THEOREM RefreshIsBooked == Spec => []RefreshBookkeeping
<1>1. ASSUME SessionInv PROVE RefreshBookkeeping
  <2> SUFFICES ASSUME NEW t \in Tabs
               PROVE  LET asking == {q \in Of(t) : req[q].st = "refreshing"}
                          mine == {c \in calls : TabOf[c.req] = t /\ c.heard}
                      IN /\ refreshing[t] => Cardinality(asking) = 1
                         /\ ~refreshing[t] => asking = {} /\ Waiting(t) = {}
                         /\ {c.req : c \in mine} = asking /\ Cardinality(mine) = Cardinality(asking)
      BY DEF RefreshBookkeeping
  <2> DEFINE asking == {q \in Of(t) : req[q].st = "refreshing"}
             mine == {c \in calls : TabOf[c.req] = t /\ c.heard}
  <2>1. OneRefresh /\ \A c \in calls : c.req \in Requests
        BY <1>1 DEF SessionInv, QueueTypeOK, RefreshCall
  <2>2. {c.req : c \in mine} = asking
        BY <2>1 DEF OneRefresh, Of
  <2>3. CASE refreshing[t]
    <3>1. PICK c \in calls : c.heard /\ TabOf[c.req] = t
          BY <2>1, <2>3 DEF OneRefresh
    <3>2. mine = {c}
          BY <2>1, <3>1 DEF OneRefresh
    <3>3. asking = {c.req}
          BY <2>2, <3>2
    <3>4. Cardinality({c}) = 1 /\ Cardinality({c.req}) = 1
          BY FS_Singleton
    <3> HIDE DEF mine, asking
    <3>5. Cardinality(mine) = 1 /\ Cardinality(asking) = 1
          BY <3>2, <3>3, <3>4
    <3> QED BY <2>2, <2>3, <3>5 DEF mine, asking
  <2>4. CASE ~refreshing[t]
    <3>1. asking = {} /\ Waiting(t) = {}
          BY <2>1, <2>4 DEF OneRefresh, Of, Waiting
    <3>2. mine = {}
          BY <2>2, <3>1
    <3> HIDE DEF mine, asking
    <3>3. Cardinality(mine) = Cardinality(asking)
          BY <3>1, <3>2
    <3> QED BY <2>2, <2>4, <3>1, <3>3 DEF mine, asking
  <2> QED BY <2>3, <2>4
<1> QED BY <1>1, SessionInvariant, PTL

\* Only a login, or a tab that is still signed in, makes the browser's store
\* say "signed in": a late answer to a refresh does not (setTokens).
THEOREM SignedOutStaysOut == Spec => NoLateSignIn
<1>1. ASSUME SessionInv, [Next]_vars
      PROVE  disk'.user /\ ~disk.user =>
                \/ issued' # issued /\ family'[issued'] = issued'
                \/ \E t \in Tabs : mem[t].user
  <2>1. CASE disk' = disk \/ disk' = SignedOut
        BY <2>1 DEF SignedOut
  <2>2. ASSUME NEW t \in Tabs, SetAuth(t)
        PROVE  issued' # issued /\ family'[issued'] = issued'
    <3>1. Issue(NoPair) /\ issued \in Nat
          BY <1>1, <2>2, SessionAssumption DEF SetAuth, SessionInv, ServerTypeOK
    <3>2. issued' = issued + 1 /\ family'[issued'] = issued'
          BY <1>1, <3>1, IssueStep DEF SessionInv
    <3> QED BY <3>1, <3>2
  <2>3. ASSUME NEW c \in calls, RefreshSucceeds(c), disk'.user
        PROVE  \E t \in Tabs : mem[t].user
    <3>1. TabOf[c.req] \in Tabs
          BY <1>1, SessionAssumption DEF SessionInv, QueueTypeOK, RefreshCall
    <3>2. disk' = [mem[TabOf[c.req]] EXCEPT !.pair = c.new]
          BY <1>1, <2>3, <3>1 DEF RefreshSucceeds, SessionInv, StoreTypeOK
    <3>3. disk'.user = mem[TabOf[c.req]].user
          BY <1>1, <3>1, <3>2 DEF SessionInv, StoreTypeOK, Store
    <3> QED BY <2>3, <3>1, <3>3
  <2>4. ASSUME NEW c \in calls, Progress(c) \/ RefreshLost(c) \/ RefreshFails(c)
        PROVE  disk' = disk \/ disk' = SignedOut
        BY <2>4 DEF Progress, RefreshChecks, RefreshRotates, RefreshErrs, RefreshLost, RefreshFails,
                    ClearStore, store
  <2>5. ASSUME NEW q \in Requests, Send(q) \/ Respond(q)
        PROVE  disk' = disk \/ disk' = SignedOut
        BY <2>5 DEF Respond, Send, Answered, GiveUp, Subscribe, StartRefresh, NothingToRefresh,
                    ClearStore, store
  <2>6. ASSUME NEW t \in Tabs, ChangePassword(t) \/ Logout(t) \/ LoginRefused(t) \/ Load(t)
        PROVE  disk' = disk \/ disk' = SignedOut
        BY <2>6 DEF ChangePassword, Logout, LoginRefused, Load, ClearStore, store
  <2>7. ASSUME (\E p \in Pairs : Expire(p) \/ LogoutHandled(p)) \/ RevocationExpires
        PROVE  disk' = disk
        BY <2>7 DEF Expire, LogoutHandled, RevocationExpires, store
  <2>8. CASE UNCHANGED vars
        BY <2>8 DEF vars, store
  <2> QED BY <1>1, <2>1, <2>2, <2>3, <2>4, <2>5, <2>6, <2>7, <2>8 DEF Next, Settle
<1> QED BY <1>1, SessionInvariant, PTL DEF Spec, NoLateSignIn
=============================================================================
