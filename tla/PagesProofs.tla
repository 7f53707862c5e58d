---------------------------- MODULE PagesProofs ----------------------------
(***************************************************************************)
(* Promises of three parts of the apps that share no state.                *)
(*                                                                         *)
(* The chat, for any number of users, sockets, messages and histories on   *)
(* their way: no page shows a message twice, and the hub only has          *)
(* connections that are served.  That nothing is shown which is not stored *)
(* takes that nothing else is on its way: what a handler has to broadcast, *)
(* what was written to a socket, and how many rows a history has.          *)
(* Messages only ever join the table.                                      *)
(*                                                                         *)
(* The page that makes a booking, for any places and inputs, and an        *)
(* account with its app, for any number of admins and requests: what the   *)
(* invariants add is what is still under way, the timer and the calls for  *)
(* a route, the suspension that is not flagged yet, the copy that will be  *)
(* saved and the answer that will be shown.                                *)
(***************************************************************************)
EXTENDS Chat, NewBooking, Accounts, SequenceTheorems, TLAPS

\* A value for each socket of each client.
PerSocket(V) ==
    {f \in [Clients -> UNION {[Sockets(u) -> V] : u \in Clients}] :
        \A u \in Clients : f[u] \in [Sockets(u) -> V]}

\* The ids that are given.
Stored == 1 .. Len(table)

ChatShapes ==
    /\ mounts \in [Clients -> Nat]
    /\ \E S : table \in Seq(S)
    /\ conn \in PerSocket(Loops)
    /\ hub \in [Clients -> Nat] /\ \A u \in Clients : hub[u] \in {0} \cup Sockets(u)

OnlyStored ==
    /\ saving \in PerSocket({0} \cup Stored)
    /\ down \in PerSocket(Seq(Stored))
    /\ hist \in [Clients -> SUBSET [mount : Nat, rows : {Unread} \cup 0 .. Len(table)]]
    /\ shown \in [Clients -> Seq(Stored)]

NoneTwice == \A u \in Clients : IsInjective(shown[u])

ChatInv == ChatShapes /\ OnlyStored /\ NoneTwice /\ HubIsServed

----------------------------------------------------------------------------
(* Values per socket, and sequences.                                       *)

LEMMA PerSocketSet ==
    ASSUME NEW V, NEW f \in PerSocket(V), NEW u \in Clients, NEW i \in Sockets(u), NEW x \in V,
           NEW g, g = [f EXCEPT ![u][i] = x]
    PROVE  /\ g \in PerSocket(V)
           /\ \A v \in Clients \ {u} : g[v] = f[v]
           /\ \A j \in Sockets(u) : g[u][j] = IF j = i THEN x ELSE f[u][j]
<1> DEFINE X == UNION {[Sockets(v) -> V] : v \in Clients}
           h == [f[u] EXCEPT ![i] = x]
<1>1. f[u] \in [Sockets(u) -> V] /\ f \in [Clients -> X]
      BY DEF PerSocket
<1>2. h \in [Sockets(u) -> V] /\ \A j \in Sockets(u) : h[j] = IF j = i THEN x ELSE f[u][j]
      BY <1>1
<1>3. h \in X
      BY <1>2
<1>4. g = [f EXCEPT ![u] = h]
      OBVIOUS
<1> HIDE DEF X, h
<1>5. g \in [Clients -> X] /\ g[u] = h /\ \A v \in Clients \ {u} : g[v] = f[v]
      BY <1>1, <1>3, <1>4
<1>6. \A v \in Clients : g[v] \in [Sockets(v) -> V]
      BY <1>2, <1>5 DEF PerSocket
<1> QED BY <1>2, <1>5, <1>6 DEF PerSocket, X

LEMMA PerSocketWider ==
    ASSUME NEW V, NEW W, V \subseteq W, NEW f \in PerSocket(V)
    PROVE  f \in PerSocket(W)
<1>1. /\ f \in [Clients -> UNION {[Sockets(u) -> V] : u \in Clients}]
      /\ \A u \in Clients : f[u] \in [Sockets(u) -> V]
      BY DEF PerSocket
<1>2. \A u \in Clients : f[u] \in [Sockets(u) -> W]
      BY <1>1
<1>3. \A u \in Clients : f[u] \in UNION {[Sockets(v) -> W] : v \in Clients}
      BY <1>2
<1>4. f \in [Clients -> UNION {[Sockets(u) -> W] : u \in Clients}]
      BY <1>1, <1>3
<1> QED BY <1>2, <1>4 DEF PerSocket

LEMMA InjectiveAppend ==
    ASSUME NEW S, NEW s \in Seq(S), NEW x \in S, IsInjective(s), x \notin Range(s)
    PROVE  IsInjective(Append(s, x))
<1>1. /\ DOMAIN s = 1 .. Len(s) /\ Len(s) \in Nat
      /\ DOMAIN Append(s, x) = 1 .. Len(s) + 1
      /\ \A k \in 1 .. Len(s) : Append(s, x)[k] = s[k]
      /\ Append(s, x)[Len(s) + 1] = x
      OBVIOUS
<1>2. \A k \in 1 .. Len(s) : s[k] # x
      BY <1>1 DEF Range
<1>3. \A j, k \in 1 .. Len(s) : s[j] = s[k] => j = k
      BY <1>1 DEF IsInjective
<1> DEFINE t == Append(s, x)
<1> HIDE DEF t
<1>4. ASSUME NEW j \in 1 .. Len(s) + 1, NEW k \in 1 .. Len(s) + 1, t[j] = t[k]
      PROVE  j = k
      BY <1>1, <1>2, <1>3, <1>4 DEF t
<1> QED BY <1>1, <1>4 DEF IsInjective, t

----------------------------------------------------------------------------
(* The steps.                                                              *)

LEMMA ChatStartInv ==
    ASSUME NEW gone \in SUBSET Clients, ChatStart(gone)
    PROVE  ChatInv
<1>1. \A u \in Clients : MaxSockets[u] \in Nat /\ 1 \in Sockets(u) /\ 0 \notin Sockets(u)
      BY SocketsAssumption DEF Sockets
<1>2. table = << >> /\ Len(table) = 0
      BY DEF ChatStart
<1>3. mounts \in [Clients -> Nat] /\ \E S : table \in Seq(S)
  <2>1. mounts \in [Clients -> Nat]
        BY <1>1 DEF ChatStart, SocketsStart
  <2>2. << >> \in Seq({})
        OBVIOUS
  <2> QED BY <1>2, <2>1, <2>2
<1>4. conn \in PerSocket(Loops)
  <2>1. conn = [u \in Clients |->
                  [i \in Sockets(u) |-> IF u \in gone /\ i = 1 THEN "chat" ELSE "none"]]
        BY DEF ChatStart
  <2>2. \A u \in Clients : conn[u] \in [Sockets(u) -> Loops]
        BY <2>1 DEF Loops
  <2> QED BY <2>1, <2>2 DEF PerSocket
<1>5. saving \in PerSocket({0} \cup Stored)
  <2>1. saving = [u \in Clients |-> [i \in Sockets(u) |-> 0]]
        BY DEF ChatStart
  <2>2. \A u \in Clients : saving[u] \in [Sockets(u) -> {0} \cup Stored]
        BY <2>1
  <2> QED BY <2>1, <2>2 DEF PerSocket
<1>6. down \in PerSocket(Seq(Stored))
  <2>1. down = [u \in Clients |-> [i \in Sockets(u) |-> << >>]]
        BY DEF ChatStart
  <2>2. \A u \in Clients : down[u] \in [Sockets(u) -> Seq(Stored)]
        BY <2>1
  <2> QED BY <2>1, <2>2 DEF PerSocket
<1>7. ChatShapes
      BY <1>1, <1>3, <1>4 DEF ChatStart, ChatShapes
<1>8. OnlyStored
      BY <1>5, <1>6 DEF ChatStart, OnlyStored
<1>9. NoneTwice
      BY DEF ChatStart, NoneTwice, IsInjective
<1>10. HubIsServed
      BY <1>1 DEF ChatStart, HubIsServed
<1> QED BY <1>7, <1>8, <1>9, <1>10 DEF ChatInv

LEMMA ShapesStay ==
    ASSUME ChatInv, UNCHANGED <<table, conn, hub>>, mounts' \in [Clients -> Nat]
    PROVE  ChatShapes' /\ HubIsServed'
BY DEF ChatInv, ChatShapes, HubIsServed, Sockets, PerSocket

LEMMA PageSteps ==
    ASSUME ChatInv, NEW u \in Clients,
           \/ OpenPage(u) \/ ClosePage(u) \/ SendMessage(u) \/ Reconnect(u) \/ TokenExpires(u)
           \/ RoomChanges
    PROVE  ChatInv'
<1> USE DEF ChatInv
<1>1. CASE OpenPage(u)
  <2> DEFINE h == [mount |-> mounts'[u], rows |-> Unread]
             H == [mount : Nat, rows : {Unread} \cup 0 .. Len(table)]
  <2>1. mounts' \in [Clients -> Nat] /\ UNCHANGED <<serverVars, down>>
        BY <1>1 DEF OpenPage, Mount, ChatShapes
  <2>2. hist' = [hist EXCEPT ![u] = @ \cup {h}] /\ h \in H
        BY <1>1, <2>1 DEF OpenPage
  <2> HIDE DEF h, H
  <2>3. hist' \in [Clients -> SUBSET H]
        BY <2>2 DEF OnlyStored, H
  <2>4. << >> \in Seq(Stored) /\ IsInjective(<< >>)
        BY DEF IsInjective
  <2>5. shown' \in [Clients -> Seq(Stored)] /\ NoneTwice'
        BY <1>1, <2>4 DEF OpenPage, OnlyStored, NoneTwice
  <2>6. OnlyStored'
        BY <2>1, <2>3, <2>5 DEF OnlyStored, serverVars, Stored, H
  <2> QED BY <2>1, <2>5, <2>6, ShapesStay DEF serverVars
<1>2. CASE ~OpenPage(u)
  <2>1. UNCHANGED <<mounts, serverVars, down, hist, shown>>
        BY <1>2 DEF ClosePage, Unmount, SendMessage, Reconnect, TimerFires, TokenExpires,
           RoomChanges, socketVars
  <2>2. OnlyStored' /\ NoneTwice'
        BY <2>1 DEF OnlyStored, NoneTwice, serverVars, Stored
  <2> QED BY <2>1, <2>2, ShapesStay DEF serverVars, ChatShapes
<1> QED BY <1>1, <1>2

LEMMA HistorySteps ==
    ASSUME ChatInv, NEW u \in Clients, NEW h \in hist[u], HistoryRead(u, h) \/ HistoryArrives(u, h)
    PROVE  ChatInv'
<1> USE DEF ChatInv
<1> DEFINE H == [mount : Nat, rows : {Unread} \cup 0 .. Len(table)]
<1>1. /\ UNCHANGED <<mounts, serverVars, down>>
      BY DEF HistoryRead, HistoryArrives, socketVars
<1>2. ChatShapes' /\ HubIsServed'
      BY <1>1, ShapesStay DEF serverVars, ChatShapes
<1>3. h \in H /\ Len(table) \in Nat
      BY LenProperties DEF OnlyStored, ChatShapes
<1>4. hist' \in [Clients -> SUBSET H]
  <2>1. [h EXCEPT !.rows = Len(table)] \in H
        BY <1>3
  <2> HIDE DEF H
  <2>2. hist \in [Clients -> SUBSET H]
        BY DEF OnlyStored, H
  <2> QED BY <2>1, <2>2 DEF HistoryRead, HistoryArrives
<1>5. shown' \in [Clients -> Seq(Stored)] /\ NoneTwice'
  <2>1. CASE UNCHANGED shown
        BY <2>1 DEF OnlyStored, NoneTwice
  <2>2. CASE /\ h.rows # Unread
             /\ shown' = [shown EXCEPT ![u] = [k \in 1 .. h.rows |-> k]]
    <3> DEFINE s == [k \in 1 .. h.rows |-> k]
    <3>1. h.rows \in 0 .. Len(table)
          BY <1>3, <2>2
    <3>2. s \in Seq(Stored)
          BY <1>3, <3>1, IsASeq DEF Stored
    <3>3. IsInjective(s)
          BY DEF IsInjective
    <3> HIDE DEF s
    <3> QED BY <2>2, <3>2, <3>3 DEF OnlyStored, NoneTwice, s
  <2> QED BY <2>1, <2>2 DEF HistoryRead, HistoryArrives
<1>6. OnlyStored'
      BY <1>1, <1>4, <1>5 DEF OnlyStored, serverVars, Stored
<1> QED BY <1>2, <1>5, <1>6

LEMMA SocketSteps ==
    ASSUME ChatInv, NEW u \in Clients, NEW i \in Sockets(u),
           Receive(u, i) \/ SocketCloses(u, i) \/ Accept(u, i)
    PROVE  ChatInv'
<1> USE DEF ChatInv
<1>1. CASE Receive(u, i)
  <2> DEFINE d == down[u][i]
             x == Head(d)
             y == Tail(d)
  <2>1. d \in Seq(Stored) /\ d # << >>
        BY <1>1 DEF Receive, OnlyStored, PerSocket
  <2>2. x \in Stored /\ y \in Seq(Stored)
        BY <2>1, HeadTailProperties
  <2>3. /\ down' = [down EXCEPT ![u][i] = y]
        /\ \/ UNCHANGED shown
           \/ x \notin Range(shown[u]) /\ shown' = [shown EXCEPT ![u] = Append(@, x)]
        /\ UNCHANGED <<mounts, serverVars, hist>>
        BY <1>1 DEF Receive, socketVars
  <2> HIDE DEF d, x, y
  <2>4. down' \in PerSocket(Seq(Stored))
        BY <2>2, <2>3, PerSocketSet DEF OnlyStored
  <2>5. shown[u] \in Seq(Stored) /\ IsInjective(shown[u])
        BY DEF OnlyStored, NoneTwice
  <2>6. shown' \in [Clients -> Seq(Stored)] /\ NoneTwice'
    <3>1. CASE UNCHANGED shown
          BY <3>1 DEF OnlyStored, NoneTwice
    <3>2. CASE x \notin Range(shown[u]) /\ shown' = [shown EXCEPT ![u] = Append(@, x)]
      <4> DEFINE s == Append(shown[u], x)
      <4>1. s \in Seq(Stored) /\ IsInjective(s)
            BY <2>2, <2>5, <3>2, InjectiveAppend
      <4>2. shown' = [shown EXCEPT ![u] = s]
            BY <3>2
      <4> HIDE DEF s
      <4> QED BY <4>1, <4>2 DEF OnlyStored, NoneTwice
    <3> QED BY <2>3, <3>1, <3>2
  <2>7. OnlyStored'
        BY <2>3, <2>4, <2>6 DEF OnlyStored, serverVars, Stored
  <2> QED BY <2>3, <2>6, <2>7, ShapesStay DEF serverVars, ChatShapes
<1>2. CASE SocketCloses(u, i)
  <2> DEFINE y == << >>
  <2>1. /\ down' = [down EXCEPT ![u][i] = y]
        /\ UNCHANGED <<mounts, serverVars, hist, shown>>
        BY <1>2 DEF SocketCloses, Closed
  <2>2. y \in Seq(Stored)
        OBVIOUS
  <2> HIDE DEF y
  <2>3. down' \in PerSocket(Seq(Stored))
        BY <2>1, <2>2, PerSocketSet DEF OnlyStored
  <2>4. OnlyStored' /\ NoneTwice'
        BY <2>1, <2>3 DEF OnlyStored, NoneTwice, serverVars, Stored
  <2> QED BY <2>1, <2>4, ShapesStay DEF serverVars, ChatShapes
<1>3. CASE Accept(u, i)
  <2> DEFINE t == IF room = "open" THEN "chat" ELSE "read-only"
  <2>1. /\ conn' = [conn EXCEPT ![u][i] = t] /\ hub' = [hub EXCEPT ![u] = i]
        /\ UNCHANGED <<mounts, down, saving, table, hist, shown>>
        BY <1>3 DEF Accept, Opened
  <2>2. i \in Nat /\ i # 0 /\ t \in Loops /\ t # "none"
        BY SocketsAssumption DEF Sockets, Loops
  <2> HIDE DEF t
  <2>3. /\ conn' \in PerSocket(Loops)
        /\ \A v \in Clients \ {u} : conn'[v] = conn[v]
        /\ \A j \in Sockets(u) : conn'[u][j] = IF j = i THEN t ELSE conn[u][j]
    <3> DEFINE V == Loops
    <3>1. conn \in PerSocket(V) /\ t \in V
          BY <2>2 DEF ChatShapes
    <3> HIDE DEF V
    <3>2. conn' \in PerSocket(V)
          BY <2>1, <3>1, PerSocketSet
    <3>3. /\ \A v \in Clients \ {u} : conn'[v] = conn[v]
          /\ \A j \in Sockets(u) : conn'[u][j] = IF j = i THEN t ELSE conn[u][j]
          BY <2>1, <3>1 DEF PerSocket
    <3> QED BY <3>2, <3>3 DEF V
  <2>4. ChatShapes'
        BY <2>1, <2>2, <2>3 DEF ChatShapes, Sockets
  <2>5. HubIsServed'
        BY <2>1, <2>2, <2>3 DEF ChatShapes, HubIsServed
  <2>6. OnlyStored' /\ NoneTwice'
        BY <2>1 DEF OnlyStored, NoneTwice, Stored
  <2> QED BY <2>4, <2>5, <2>6
<1> QED BY <1>1, <1>2, <1>3

LEMMA ReadFrameStep ==
    ASSUME ChatInv, NEW u \in Clients, NEW i \in Sockets(u), ReadFrame(u, i)
    PROVE  ChatInv'
<1> USE DEF ChatInv
<1> DEFINE m == <<u, Head(up[u][i])>>
           n == Len(table')
<1>1. UNCHANGED <<mounts, down, conn, hub, hist, shown>>
      BY DEF ReadFrame, socketVars
<1>2. CASE UNCHANGED <<table, saving>>
  <2>1. OnlyStored' /\ NoneTwice'
        BY <1>1, <1>2 DEF OnlyStored, NoneTwice, Stored
  <2> QED BY <1>1, <1>2, <2>1, ShapesStay DEF ChatShapes
<1>3. CASE table' = Append(table, m) /\ saving' = [saving EXCEPT ![u][i] = n]
  <2> HIDE DEF m
  <2>1. PICK S : table \in Seq(S)
        BY DEF ChatShapes
  <2>2. table \in Seq(S \cup {m})
        BY <2>1, SeqMonotonic
  <2>3. /\ table' \in Seq(S \cup {m}) /\ n = Len(table) + 1
        /\ Len(table) \in Nat
        BY <1>3, <2>2, AppendProperties, LenProperties
  <2>4. n \in Stored' /\ n \in {0} \cup Stored' /\ Stored \subseteq Stored'
        /\ 0 .. Len(table) \subseteq 0 .. n
        BY <2>3 DEF Stored
  <2>5. {0} \cup Stored \subseteq {0} \cup Stored' /\ Seq(Stored) \subseteq Seq(Stored')
        BY <2>4, SeqMonotonic
  <2> HIDE DEF n
  <2>6. saving \in PerSocket({0} \cup Stored')
        BY <2>5, PerSocketWider DEF OnlyStored
  <2>7. saving' \in PerSocket({0} \cup Stored')
        BY <1>3, <2>4, <2>6, PerSocketSet
  <2>8. down \in PerSocket(Seq(Stored'))
        BY <2>5, PerSocketWider DEF OnlyStored
  <2>9. shown \in [Clients -> Seq(Stored')]
        BY <2>5 DEF OnlyStored
  <2>10. hist \in [Clients -> SUBSET [mount : Nat, rows : {Unread} \cup 0 .. n]]
    <3>1. [mount : Nat, rows : {Unread} \cup 0 .. Len(table)]
             \subseteq [mount : Nat, rows : {Unread} \cup 0 .. n]
          BY <2>4
    <3> QED BY <3>1 DEF OnlyStored
  <2>11. OnlyStored'
         BY <1>1, <2>7, <2>8, <2>9, <2>10 DEF OnlyStored, n
  <2>12. ChatShapes' /\ HubIsServed' /\ NoneTwice'
         BY <1>1, <2>3 DEF ChatShapes, HubIsServed, NoneTwice, PerSocket, Sockets
  <2> QED BY <2>11, <2>12
<1> QED BY <1>2, <1>3 DEF ReadFrame

LEMMA BroadcastStep ==
    ASSUME ChatInv, NEW u \in Clients, NEW i \in Sockets(u), Broadcast(u, i)
    PROVE  ChatInv'
<1> USE DEF ChatInv
<1> DEFINE x == saving[u][i]
           z == 0
           D == Seq(Stored)
<1>1. /\ UNCHANGED <<mounts, conn, hub, table, hist, shown>>
      /\ saving' = [saving EXCEPT ![u][i] = z] /\ z \in {0} \cup Stored
      BY DEF Broadcast, socketVars
<1>2. x \in Stored
      BY DEF Broadcast, OnlyStored, PerSocket
<1> HIDE DEF z
<1>3. saving' \in PerSocket({0} \cup Stored)
      BY <1>1, PerSocketSet DEF OnlyStored
<1>4. down' \in PerSocket(D)
  <2>1. down' = [v \in Clients |-> [j \in Sockets(v) |->
                   IF hub[v] = j /\ sock[v][j] = "open" THEN Append(down[v][j], x) ELSE down[v][j]]]
        BY DEF Broadcast
  <2>2. \A v \in Clients : \A j \in Sockets(v) : down[v][j] \in D
        BY DEF OnlyStored, PerSocket
  <2>3. \A v \in Clients : \A j \in Sockets(v) : Append(down[v][j], x) \in D
        BY <1>2, <2>2
  <2> HIDE DEF D, x
  <2>4. \A v \in Clients : down'[v] \in [Sockets(v) -> D]
        BY <2>1, <2>2, <2>3
  <2>5. \A v \in Clients : down'[v] \in UNION {[Sockets(w) -> D] : w \in Clients}
        BY <2>4
  <2>6. down' \in [Clients -> UNION {[Sockets(w) -> D] : w \in Clients}]
        BY <2>1, <2>5
  <2> QED BY <2>4, <2>6 DEF PerSocket
<1>5. OnlyStored' /\ NoneTwice'
      BY <1>1, <1>3, <1>4 DEF OnlyStored, NoneTwice, Stored
<1> QED BY <1>1, <1>5, ShapesStay DEF ChatShapes

LEMMA HandlerEndsStep ==
    ASSUME ChatInv, NEW u \in Clients, NEW i \in Sockets(u), HandlerEnds(u, i)
    PROVE  ChatInv'
<1> USE DEF ChatInv
<1> DEFINE f == "none"
<1>1. /\ conn' = [conn EXCEPT ![u][i] = f] /\ hub' = [hub EXCEPT ![u] = 0] /\ f \in Loops
      /\ UNCHANGED <<mounts, down, saving, table, hist, shown>>
      BY DEF HandlerEnds, socketVars, Loops
<1> HIDE DEF f
<1>2. conn' \in PerSocket(Loops) /\ \A v \in Clients \ {u} : conn'[v] = conn[v]
  <2> DEFINE V == Loops
  <2>1. conn \in PerSocket(V) /\ f \in V
        BY <1>1 DEF ChatShapes
  <2> HIDE DEF V
  <2>2. conn' \in PerSocket(V)
        BY <1>1, <2>1, PerSocketSet
  <2>3. \A v \in Clients \ {u} : conn'[v] = conn[v]
        BY <1>1, <2>1 DEF PerSocket
  <2> QED BY <2>2, <2>3 DEF V
<1>3. ChatShapes'
      BY <1>1, <1>2 DEF ChatShapes, Sockets
<1>4. HubIsServed'
      BY <1>1, <1>2 DEF ChatShapes, HubIsServed
<1>5. OnlyStored' /\ NoneTwice'
      BY <1>1 DEF OnlyStored, NoneTwice, Stored
<1> QED BY <1>3, <1>4, <1>5

LEMMA ChatStepInv == ChatInv /\ [ChatNext]_chatVars => ChatInv'
<1> SUFFICES ASSUME ChatInv, [ChatNext]_chatVars PROVE ChatInv'
    OBVIOUS
<1>1. CASE UNCHANGED chatVars
  <2>1. UNCHANGED <<mounts, serverVars, down, hist, shown>>
        BY <1>1 DEF chatVars, socketVars
  <2>2. OnlyStored' /\ NoneTwice'
        BY <2>1 DEF ChatInv, OnlyStored, NoneTwice, serverVars, Stored
  <2> QED BY <2>1, <2>2, ShapesStay DEF serverVars, ChatInv, ChatShapes
<1>2. CASE RoomChanges
  <2>1. UNCHANGED <<mounts, serverVars, down, hist, shown>>
        BY <1>2 DEF RoomChanges, socketVars
  <2>2. OnlyStored' /\ NoneTwice'
        BY <2>1 DEF ChatInv, OnlyStored, NoneTwice, serverVars, Stored
  <2> QED BY <2>1, <2>2, ShapesStay DEF serverVars, ChatInv, ChatShapes
<1> QED
    BY <1>1, <1>2, PageSteps, HistorySteps, SocketSteps, ReadFrameStep, BroadcastStep,
       HandlerEndsStep
    DEF ChatNext, CustomerChatPage, TransporterChatPage, ChatPage, ServerStep

----------------------------------------------------------------------------
(* The theorems.                                                           *)

\* The table, what is on its way from it, the pages and the hub.
THEOREM ChatInvariant == ChatSpec => []ChatInv
<1>1. ChatInit => ChatInv
      BY ChatStartInv DEF ChatInit
<1> QED BY <1>1, ChatStepInv, PTL DEF ChatSpec

\* No message is shown twice and none that is not stored, though history and
\* broadcasts overlap and arrive in any order (chatStore.appendMessage; the
\* transporter page's setMessages).
THEOREM MessagesShownOnce == ChatSpec => []NoneShownTwice
<1>1. ASSUME ChatInv PROVE NoneShownTwice
  <2>1. DOMAIN table = Stored
        BY <1>1, LenProperties DEF ChatInv, ChatShapes, Stored
  <2>2. ASSUME NEW u \in Clients PROVE Range(shown[u]) \subseteq Stored
    <3>1. shown[u] \in Seq(Stored)
          BY <1>1 DEF ChatInv, OnlyStored
    <3> QED BY <3>1, ElementOfSeq, LenProperties DEF Range
  <2> QED BY <1>1, <2>1, <2>2 DEF ChatInv, NoneTwice, NoneShownTwice
<1> QED BY <1>1, ChatInvariant, PTL

\* A connection in the hub has a handler that is still running, whichever
\* order old handlers end and new sockets are accepted in (chat/service.go,
\* Register and Unregister).
THEOREM HubServesItsOwn == ChatSpec => []HubIsServed
<1>1. ChatInv => HubIsServed
      BY DEF ChatInv
<1> QED BY <1>1, ChatInvariant, PTL

----------------------------------------------------------------------------
(* The page that makes a booking.  RouteIsOfPoints speaks of the moment    *)
(* when nothing is under way; RouteInv adds what the timer and the newest  *)
(* call to getRoute are for before that.                                   *)

RouteInv ==
    /\ routing \in Seq(Points)
    /\ ~BothSet(point) =>
          routing = <<>> /\ route = NoRoute /\ create = "idle" /\ ~leaving
    /\ ~timer /\ ~overtaken /\ step # "away" =>
          IF routing = <<>> THEN route \in {NoRoute, point}
          ELSE routing[Len(routing)] = point

NewBookingInv == NewBookingTypeOK /\ RouteInv /\ DropIsWhereItSays

LEMMA Removed ==
  ASSUME NEW S, NEW s \in Seq(S), NEW i \in 1 .. Len(s)
  PROVE  /\ RemoveAt(s, i) \in Seq(S)
         /\ Len(RemoveAt(s, i)) = Len(s) - 1
         /\ \A j \in 1 .. Len(s) - 1 :
               RemoveAt(s, i)[j] = IF j < i THEN s[j] ELSE s[j + 1]
<1> DEFINE l == SubSeq(s, 1, i - 1)
           r == SubSeq(s, i + 1, Len(s))
<1>0. Len(s) \in Nat /\ i \in Nat /\ \A j \in 1 .. Len(s) : s[j] \in S
  OBVIOUS
<1>1. /\ l \in Seq(S) /\ Len(l) = i - 1
      /\ \A j \in 1 .. i - 1 : l[j] = s[j]
  <2>1. /\ l \in Seq(S)
        /\ Len(l) = IF 1 <= i - 1 THEN i - 1 - 1 + 1 ELSE 0
        /\ \A j \in 1 .. i - 1 - 1 + 1 : l[j] = s[1 + j - 1]
    BY <1>0, SubSeqProperties
  <2> HIDE DEF l
  <2> QED
    BY <1>0, <2>1
<1>2. /\ r \in Seq(S) /\ Len(r) = Len(s) - i
      /\ \A j \in 1 .. Len(s) - i : r[j] = s[i + j]
  <2>1. /\ r \in Seq(S)
        /\ Len(r) = IF i + 1 <= Len(s) THEN Len(s) - (i + 1) + 1 ELSE 0
        /\ \A j \in 1 .. Len(s) - (i + 1) + 1 : r[j] = s[i + 1 + j - 1]
    BY <1>0, SubSeqProperties
  <2> HIDE DEF r
  <2> QED
    BY <1>0, <2>1
<1>3. RemoveAt(s, i) = l \o r
  BY DEF RemoveAt
<1> HIDE DEF l, r
<1>4. /\ l \o r \in Seq(S) /\ Len(l \o r) = Len(l) + Len(r)
      /\ \A j \in 1 .. Len(l) + Len(r) : (l \o r)[j] = IF j <= Len(l) THEN l[j] ELSE r[j - Len(l)]
  BY <1>1, <1>2, ConcatProperties
<1> QED
  BY <1>0, <1>1, <1>2, <1>3, <1>4

LEMMA NewBookingStart == NewBookingInit => NewBookingInv
<1> SUFFICES ASSUME NewBookingInit PROVE NewBookingInv
  OBVIOUS
<1>1. RouteInv /\ DropIsWhereItSays
  BY DEF NewBookingInit, RouteInv, DropIsWhereItSays, NoRoute, Ends
<1>2. point \in Points /\ route \in Points /\ addr \in [Ends -> Places \cup {Unset, Typed}]
  BY DEF NewBookingInit, Points, NoRoute
<1>3. \A i \in DOMAIN routing : routing[i] \in Points /\ BothSet(routing[i])
  BY DEF NewBookingInit
<1>4. /\ search \in [Ends -> {"idle", "timer", "asked", "both"}]
      /\ results \in [Ends -> BOOLEAN] /\ clicks \subseteq [for : Ends, at : Places]
      /\ selecting \in Ends \cup {Unset} /\ geo \in {"asked", "naming", "done"}
  BY DEF NewBookingInit
<1>5. /\ timer \in BOOLEAN /\ ~timer /\ step \in Steps /\ step = "location"
      /\ create = "idle" /\ leaving \in BOOLEAN /\ overtaken \in BOOLEAN
  BY Zenon DEF NewBookingInit, Steps
<1>7. created \in 0 .. MaxCreated /\ inputs \in 0 .. MaxInputs
  BY NewBookingAssumption DEF NewBookingInit
<1>6. NewBookingTypeOK
  BY <1>2, <1>3, <1>4, <1>5, <1>7 DEF NewBookingTypeOK
<1> QED
  BY <1>1, <1>6 DEF NewBookingInv

\* Steps that leave the points, the calls for their route and the route alone.
LEMMA RouteFrame ==
  ASSUME RouteInv, UNCHANGED <<point, timer, routing, route, overtaken>>,
         step = "away" => step' = "away",
         BothSet(point) \/ UNCHANGED <<create, leaving>>
  PROVE  RouteInv'
BY DEF RouteInv, BothSet

\* A point that moved is set, and starts the timer if both are.
LEMMA MovesKeeps ==
  ASSUME NewBookingTypeOK, RouteInv, NEW e \in Ends, NEW p \in Places, Moves(e, p),
         UNCHANGED <<step, create, leaving>>
  PROVE  /\ RouteInv' /\ point' \in Points /\ timer' \in BOOLEAN /\ (timer' => BothSet(point)')
         /\ BothSet(point) => BothSet(point)'
         /\ point'[e] = p /\ \A d \in Ends \ {e} : point'[d] = point[d]
<1>1. point \in [Ends -> Places \cup {Unset}] /\ point' = [point EXCEPT ![e] = p]
  BY DEF NewBookingTypeOK, Points, Moves
<1>2. point'[e] = p /\ \A d \in Ends \ {e} : point'[d] = point[d]
  BY <1>1
<1>3. p # Unset
  BY NewBookingAssumption
<1>4. BothSet(point) => BothSet(point)'
  BY <1>2, <1>3 DEF BothSet
<1>5. timer' = BothSet(point)' /\ timer' \in BOOLEAN
  BY DEF Moves, BothSet
<1>6. RouteInv'
  BY <1>4, <1>5 DEF RouteInv, Moves
<1> QED
  BY <1>1, <1>2, <1>4, <1>5, <1>6 DEF Points

LEMMA NewBookingStep ==
  ASSUME NewBookingInv, [NewBookingNext]_newBookingVars
  PROVE  NewBookingInv'
<1>0. NewBookingTypeOK /\ RouteInv /\ DropIsWhereItSays
  BY DEF NewBookingInv
<1> USE DEF fieldVars, mapVars, submitVars
<1>1. CASE AskRoute
  <2>1. routing \in Seq(Points) /\ point \in Points /\ BothSet(point)
    BY <1>0, <1>1 DEF AskRoute, NewBookingTypeOK, RouteInv
  <2>2. routing' = Append(routing, point)
    BY <1>1 DEF AskRoute
  <2>3. /\ routing' \in Seq(Points) /\ routing' # <<>> /\ Len(routing') = Len(routing) + 1
        /\ \A i \in 1 .. Len(routing) : routing'[i] = routing[i]
        /\ routing'[Len(routing) + 1] = point
    BY <2>1, <2>2, AppendProperties
  <2>4. RouteInv'
    BY <1>1, <2>1, <2>3 DEF AskRoute, RouteInv, BothSet
  <2>5. \A i \in DOMAIN routing' : routing'[i] \in Points /\ BothSet(routing'[i])
    BY <1>0, <2>1, <2>3 DEF NewBookingTypeOK
  <2>6. NewBookingTypeOK'
    BY <1>0, <1>1, <2>5 DEF AskRoute, NewBookingTypeOK, BothSet
  <2> QED
    BY <1>0, <1>1, <2>4, <2>6 DEF AskRoute, NewBookingInv, DropIsWhereItSays
<1>2. ASSUME NEW i \in DOMAIN routing, RouteArrives(i) PROVE NewBookingInv'
  <2>1. routing \in Seq(Points) /\ i \in 1 .. Len(routing) /\ Len(routing) \in Nat
    BY <1>0 DEF RouteInv
  <2>2. /\ routing' \in Seq(Points) /\ Len(routing') = Len(routing) - 1
        /\ \A j \in 1 .. Len(routing) - 1 :
              routing'[j] = IF j < i THEN routing[j] ELSE routing[j + 1]
    BY <1>2, <2>1, Removed DEF RouteArrives
  <2>3. \A j \in DOMAIN routing' : routing'[j] \in Points /\ BothSet(routing'[j])
    <3> SUFFICES ASSUME NEW j \in DOMAIN routing'
                 PROVE  routing'[j] \in Points /\ BothSet(routing'[j])
      OBVIOUS
    <3>1. j \in 1 .. Len(routing) - 1
      BY <2>1, <2>2
    <3>2. \E k \in DOMAIN routing : routing'[j] = routing[k]
      BY <2>1, <2>2, <3>1
    <3> QED
      BY <1>0, <3>2 DEF NewBookingTypeOK
  <2>4. routing[i] \in Points /\ NoRoute \in Points /\ routing # <<>>
    BY <1>0, <2>1 DEF NewBookingTypeOK, NoRoute, Points
  <2>5. NewBookingTypeOK'
    BY <1>0, <1>2, <2>3, <2>4 DEF RouteArrives, NewBookingTypeOK, BothSet
  <2>6. BothSet(point)' /\ UNCHANGED <<point, timer, step>>
    BY <1>0, <1>2, <2>4 DEF RouteInv, RouteArrives, BothSet
  <2>7. ASSUME ~timer, ~overtaken', step # "away"
        PROVE  IF routing' = <<>> THEN route' \in {NoRoute, point}
               ELSE routing'[Len(routing')] = point
    <3>1. i = 1 /\ ~overtaken /\ route' \in {routing[1], NoRoute}
      <4>1. overtaken' = (overtaken \/ i > 1) /\ route' \in {routing[i], NoRoute}
        BY <1>2 DEF RouteArrives
      <4>2. ~overtaken /\ ~(i > 1)
        BY <2>7, <4>1
      <4> QED
        BY <2>1, <4>1, <4>2
    <3>2. routing[Len(routing)] = point
      BY <1>0, <2>4, <2>7, <3>1 DEF RouteInv
    <3> QED
      BY <2>1, <2>2, <3>1, <3>2
  <2>8. RouteInv'
    BY <2>2, <2>6, <2>7 DEF RouteInv
  <2> QED
    BY <1>0, <1>2, <2>5, <2>8 DEF RouteArrives, NewBookingInv, DropIsWhereItSays
<1>3. ASSUME NEW e \in Ends, NEW p \in Places, SelectResult(e, p) PROVE NewBookingInv'
  <2>1. RouteInv' /\ NewBookingTypeOK' /\ point'[e] = p /\ \A d \in Ends \ {e} : point'[d] = point[d]
    <3>1. Moves(e, p) /\ UNCHANGED <<step, create, leaving>>
      BY <1>3 DEF SelectResult
    <3>2. inputs' \in 0 .. MaxInputs
      BY <1>0, <1>3, NewBookingAssumption DEF NewBookingTypeOK, SelectResult, Input
    <3>3. addr' \in [Ends -> Places \cup {Unset, Typed}] /\ results' \in [Ends -> BOOLEAN]
      BY <1>0, <1>3 DEF NewBookingTypeOK, SelectResult
    <3> QED
      BY <1>0, <1>3, <3>1, <3>2, <3>3, MovesKeeps DEF NewBookingTypeOK, SelectResult, Moves
  <2> QED
    BY <1>0, <1>3, <2>1 DEF SelectResult, NewBookingInv, DropIsWhereItSays, NewBookingTypeOK, Ends
<1>4. ASSUME NEW c \in clicks, ClickNamed(c) PROVE NewBookingInv'
  <2>1. c.for \in Ends /\ c.at \in Places
    BY <1>0 DEF NewBookingTypeOK
  <2>2. /\ RouteInv' /\ NewBookingTypeOK' /\ point'[c.for] = c.at
        /\ \A d \in Ends \ {c.for} : point'[d] = point[d]
    <3>1. Moves(c.for, c.at) /\ UNCHANGED <<step, create, leaving>>
      BY <1>4 DEF ClickNamed
    <3> QED
      BY <1>0, <1>4, <2>1, <3>1, MovesKeeps DEF NewBookingTypeOK, ClickNamed, Moves
  <2> QED
    BY <1>0, <1>4, <2>1, <2>2 DEF ClickNamed, NewBookingInv, DropIsWhereItSays, NewBookingTypeOK, Ends
<1>5. CASE Located
  <2>1. "pickup" \in Ends /\ Here \in Places /\ Moves("pickup", Here) /\ UNCHANGED <<step, create, leaving>>
    BY <1>5, NewBookingAssumption DEF Located, Ends
  <2>2. RouteInv' /\ NewBookingTypeOK' /\ \A d \in Ends \ {"pickup"} : point'[d] = point[d]
    BY <1>0, <1>5, <2>1, MovesKeeps DEF NewBookingTypeOK, Located, Moves
  <2> QED
    BY <1>0, <1>5, <2>2 DEF Located, NewBookingInv, DropIsWhereItSays, Ends
<1>6. ASSUME NEW e \in Ends, NEW long \in BOOLEAN, Type(e, long) PROVE NewBookingInv'
  <2>1. NewBookingTypeOK'
    BY <1>0, <1>6, NewBookingAssumption DEF NewBookingTypeOK, Type, Input, BothSet
  <2>2. RouteInv' /\ DropIsWhereItSays'
    BY <1>0, <1>6, RouteFrame DEF Type, DropIsWhereItSays, NewBookingTypeOK, Ends
  <2> QED
    BY <2>1, <2>2 DEF NewBookingInv
<1>7. ASSUME NEW e \in Ends, SearchFires(e) \/ ResultsArrive(e) \/ SelectOnMap(e) PROVE NewBookingInv'
  <2>1. NewBookingTypeOK'
    BY <1>0, <1>7 DEF NewBookingTypeOK, SearchFires, ResultsArrive, SelectOnMap, BothSet
  <2>2. RouteInv' /\ DropIsWhereItSays'
    BY <1>0, <1>7, RouteFrame DEF SearchFires, ResultsArrive, SelectOnMap, DropIsWhereItSays
  <2> QED
    BY <2>1, <2>2 DEF NewBookingInv
<1>8. CASE LocationNamed \/ LocationDenied \/ MapPanel
  <2>1. NewBookingTypeOK'
    <3>1. CASE LocationNamed \/ LocationDenied
      BY <1>0, <3>1, NewBookingAssumption
      DEF NewBookingTypeOK, LocationNamed, LocationDenied, BothSet, Ends
    <3>2. ASSUME NEW p \in Places, ClickMap(p) PROVE NewBookingTypeOK'
      BY <1>0, <3>2, NewBookingAssumption DEF NewBookingTypeOK, ClickMap, Input, BothSet
    <3> QED
      BY <1>8, <3>1, <3>2 DEF MapPanel
  <2>2. RouteInv' /\ DropIsWhereItSays'
    BY <1>0, <1>8, RouteFrame
    DEF LocationNamed, LocationDenied, MapPanel, ClickMap, DropIsWhereItSays, NewBookingTypeOK, Ends
  <2> QED
    BY <2>1, <2>2 DEF NewBookingInv
<1>9. ASSUME NEW s \in Steps \ {"away"}, s = "location" \/ BothSet(point), step # "away", GoTo(s)
      PROVE  NewBookingInv'
  <2>1. NewBookingTypeOK'
    BY <1>0, <1>9 DEF NewBookingTypeOK, GoTo, BothSet
  <2>2. RouteInv' /\ DropIsWhereItSays'
    BY <1>0, <1>9, RouteFrame DEF GoTo, DropIsWhereItSays
  <2> QED
    BY <2>1, <2>2 DEF NewBookingInv
<1>10. CASE Submit \/ Created \/ CreateSucceeds \/ CreateFails
  <2>1. NewBookingTypeOK'
    <3>1. create' \in {"idle", "sent", "created"} /\ leaving' \in BOOLEAN
      BY <1>0, <1>10
      DEF NewBookingTypeOK, Submit, Created, CreateSucceeds, CreateFails
    <3>2. created' \in 0 .. MaxCreated
      BY <1>0, <1>10, NewBookingAssumption
      DEF NewBookingTypeOK, Submit, Created, CreateSucceeds, CreateFails
    <3>3. UNCHANGED <<point, fieldVars, mapVars, geo, timer, routing, route, step, overtaken, inputs>>
      BY <1>10 DEF Submit, Created, CreateSucceeds, CreateFails
    <3> QED
      BY <1>0, <3>1, <3>2, <3>3 DEF NewBookingTypeOK, BothSet
  <2>2. BothSet(point)
    BY <1>0, <1>10 DEF Submit, Created, CreateSucceeds, CreateFails, RouteInv
  <2>3. RouteInv' /\ DropIsWhereItSays'
    BY <1>0, <1>10, <2>2, RouteFrame
    DEF Submit, Created, CreateSucceeds, CreateFails, DropIsWhereItSays
  <2> QED
    BY <2>1, <2>3 DEF NewBookingInv
<1>11. CASE Navigated
  <2>1. BothSet(point)' = BothSet(point)
    BY <1>11 DEF Navigated, BothSet
  <2>2. RouteInv' /\ DropIsWhereItSays'
    BY <1>0, <1>11, <2>1 DEF RouteInv, DropIsWhereItSays, Navigated
  <2>3. BothSet(point)
    BY <1>0, <1>11 DEF Navigated, RouteInv
  <2>4. NewBookingTypeOK'
    BY <1>0, <1>11, <2>1, <2>3 DEF NewBookingTypeOK, Navigated, Steps
  <2> QED
    BY <2>2, <2>4 DEF NewBookingInv
<1>12. CASE UNCHANGED newBookingVars
  BY <1>0, <1>12
  DEF NewBookingInv, NewBookingTypeOK, RouteInv, DropIsWhereItSays, newBookingVars, BothSet
<1>13. CASE LocationStep
  <2>1. CASE CanLeaveLocation /\ GoTo("vehicle")
    BY <1>9, <1>13, <2>1 DEF LocationStep, CanLeaveLocation, Steps
  <2> QED
    BY <1>3, <1>6, <1>7, <1>13, <2>1 DEF LocationStep
<1>14. CASE VehicleStep \/ ConfirmStep
  <2>1. step \in {"vehicle", "confirm"} /\ BothSet(point)
    BY <1>0, <1>14 DEF VehicleStep, ConfirmStep, NewBookingTypeOK
  <2> QED
    BY <1>9, <1>10, <1>14, <2>1 DEF VehicleStep, ConfirmStep, Steps
<1> QED
  BY <1>1, <1>2, <1>4, <1>5, <1>7, <1>8, <1>10, <1>11, <1>12, <1>13, <1>14 DEF NewBookingNext

\* However inputs and answers interleave on bookings/new.
THEOREM NewBookingInvariant == NewBookingSpec => []NewBookingInv
  BY NewBookingStart, NewBookingStep, PTL DEF NewBookingSpec

\* What the page holds has its type; in the steps after the first, and in
\* every call to getRoute, both points are set.
THEOREM NewBookingTypes == NewBookingSpec => []NewBookingTypeOK
  BY NewBookingInvariant, PTL DEF NewBookingInv

\* Prices are shown for the route between the two points, unless an answer
\* to getRoute overtook an older one.
THEOREM RouteFollowsPoints == NewBookingSpec => []RouteIsOfPoints
<1>1. NewBookingInv => RouteIsOfPoints
  BY DEF NewBookingInv, RouteInv, RouteIsOfPoints
<1> QED
  BY <1>1, NewBookingInvariant, PTL

\* The drop's field names the drop, unless it was typed.
THEOREM DropFollowsPoint == NewBookingSpec => []DropIsWhereItSays
  BY NewBookingInvariant, PTL DEF NewBookingInv

----------------------------------------------------------------------------
(* The accounts.                                                           *)

Replies ==
    [at : {"idle", "sent", "listed", "lapsed", "in", "read", "saved", "added", "yes", "no"},
     seen : Rows]
Decisions ==
    [at : {"idle", "sent", "read", "wrote", "flagged", "done"},
     op : Operations \cup {"none"}]

AccountShapes ==
    /\ app \in Apps /\ row \in Rows
    /\ member \in BOOLEAN /\ key \in {"none", "day", "long"}
    /\ req \in [Kinds -> Replies]
    /\ adm \in [Deciders -> Decisions]
    /\ crossed \in BOOLEAN /\ loose \in BOOLEAN
    /\ \A k \in Kinds : req[k].at \in {"saved", "added"} => k \in Revoking
    /\ \A a \in Deciders :
          /\ adm[a].at # "idle" => adm[a].op \in Operations
          /\ adm[a].at = "wrote" => adm[a].op \in Revocations \cup {"enable"}
          /\ adm[a].at = "flagged" => adm[a].op \in Revocations \cup {"enable", "remove"}

\* A suspension that is written, and will have revoked before it is answered.
Suspending(a) ==
    /\ adm[a].op \in Suspensions
    /\ adm[a].at = "wrote" \/ (adm[a].at = "flagged" /\ member)

\* While nothing undid a revocation: no Enable overlaps with a suspension, an
\* account that is enabled is not suspended, and a suspended one is out or
\* will be.
SuspensionInv ==
    ~loose =>
        /\ \A s \in Suspensions : ~(AtWork("enable") /\ AtWork(s))
        /\ \A a \in Deciders :
              (adm[a].op = "enable" /\ adm[a].at \in {"wrote", "flagged"})
                 => row.status # "suspended"
        /\ row.status = "suspended" => Out \/ \E a \in Deciders : Suspending(a)

\* The requests whose answer is the user.
Telling == {"profile", "picture", "login"}

SameUser(r) == r.name = row.name /\ r.photo = row.photo

\* While no two requests overlapped: what a request read is what it will
\* replace, and only an answer on its way separates the app from the row.
ProfileInv ==
    ~crossed =>
        /\ \A k, l \in Busy : k = l
        /\ \A k \in Kinds : req[k].at = "read" => SameUser(req[k].seen)
        /\ \A k \in Telling : req[k].at = "yes" => SameUser(Copy(k))
        /\ screen = "app" =>
              store = Known \/ \E k \in {"profile", "picture"} : req[k].at = "yes"

AccountsInv == AccountShapes /\ SuspensionInv /\ ProfileInv

----------------------------------------------------------------------------
LEMMA KindsAre ==
  /\ Kinds = {"profile", "picture", "password", "reset", "login", "kyc"}
  /\ DOMAIN Column = {"profile", "picture"}
  /\ Column["profile"] = "name" /\ Column["picture"] = "photo"
  BY DEF Kinds, Column

\* A request writes one column, or none: names and photos are the owner's.
LEMMA CopyOf ==
  ASSUME req \in [Kinds -> Replies], NEW k \in Kinds
  PROVE  /\ Copy(k) \in Rows /\ Copy(k).status = req[k].seen.status
         /\ k \notin {"profile", "picture"} =>
               Copy(k).name = req[k].seen.name /\ Copy(k).photo = req[k].seen.photo
<1>1. req[k].seen \in Rows
  BY DEF Replies
<1>2. CASE k = "profile"
  BY <1>1, <1>2, KindsAre DEF Copy, Rows, Values
<1>3. CASE k = "picture"
  BY <1>1, <1>3, KindsAre DEF Copy, Rows, Values
<1>4. CASE k \notin {"profile", "picture"}
  BY <1>1, <1>4, KindsAre DEF Copy
<1> QED
  BY <1>2, <1>3, <1>4

LEMMA AccountsStart == AccountsInit => AccountsInv
<1> SUFFICES ASSUME AccountsInit PROVE AccountsInv
  OBVIOUS
<1>1. FirstRow \in Rows /\ row \in Rows /\ row.status # "suspended"
  BY DEF FirstRow, FirstStatuses, Rows, Statuses, Portal, Values, AccountsInit
<1>2. Quiet \in Replies /\ Quiet.at = "idle"
  BY <1>1 DEF Quiet, Replies
<1>3. AtRest \in Decisions /\ AtRest.at = "idle" /\ AtRest.op = "none"
  BY DEF AtRest, Decisions
<1>4. /\ \A k \in Kinds : req[k].at = "idle"
      /\ \A a \in Deciders : adm[a].at = "idle" /\ adm[a].op = "none"
  BY <1>2, <1>3 DEF AccountsInit
<1>5. AccountShapes
  BY <1>1, <1>2, <1>3, <1>4 DEF AccountsInit, AccountShapes
<1>6. SuspensionInv
  BY <1>1, <1>4 DEF SuspensionInv, AtWork
<1>7. ProfileInv
  BY <1>4, KindsAre DEF ProfileInv, Busy, Telling, AccountsInit
<1> QED
  BY <1>5, <1>6, <1>7 DEF AccountsInv

----------------------------------------------------------------------------
(* What a step leaves alone, of each part of the invariant.                *)

LEMMA SuspensionFrame ==
  ASSUME SuspensionInv, UNCHANGED adm, loose => loose',
         \/ loose'
         \/ /\ row'.status # "suspended" \/ row.status = "suspended"
            /\ member => member'
            /\ key # "none" => key' # "none"
  PROVE  SuspensionInv'
  BY DEF SuspensionInv, Suspending, Out, AtWork

LEMMA ProfileFrame ==
  ASSUME ProfileInv, UNCHANGED req, crossed => crossed', SameUser(row'),
         screen' = "app" => screen = "app" /\ store' = store
  PROVE  ProfileInv'
<1>1. Known' = Known /\ Busy' = Busy
  BY DEF Known, Busy, SameUser
<1>2. \A k : Copy(k)' = Copy(k)
  BY DEF Copy
<1> QED
  BY <1>1, <1>2 DEF ProfileInv, SameUser

\* A request moves on, and nothing is saved or answered to the app.
LEMMA ProfileRequest ==
  ASSUME AccountShapes, ProfileInv, NEW k \in Kinds, NEW r \in Replies,
         req' = [req EXCEPT ![k] = r], crossed => crossed', UNCHANGED <<row, screen, store>>,
         crossed' \/ Busy \subseteq {k},
         r.at = "read" => SameUser(r.seen),
         r.at = "yes" => k \notin Telling,
         crossed' \/ k \notin {"profile", "picture"} \/ req[k].at # "yes"
  PROVE  ProfileInv'
<1> SUFFICES ASSUME ~crossed' PROVE ProfileInv'
  BY DEF ProfileInv
<1>1. req'[k] = r /\ \A l \in Kinds \ {k} : req'[l] = req[l]
  BY DEF AccountShapes
<1>2. Busy' \subseteq {k}
  BY <1>1 DEF Busy
<1>3. Known' = Known
  BY DEF Known
<1>5. \A l \in Kinds : req'[l].at = "read" => SameUser(req[l].seen)'
  BY <1>1 DEF ProfileInv, SameUser
<1>6. \A l \in Telling : req'[l].at = "yes" => SameUser(Copy(l))'
  BY <1>1, KindsAre DEF ProfileInv, SameUser, Copy, Telling
<1>7. screen' = "app" =>
        store' = Known' \/ \E l \in {"profile", "picture"} : req'[l].at = "yes"
  BY <1>1, <1>3, KindsAre DEF ProfileInv
<1> QED
  BY <1>2, <1>5, <1>6, <1>7 DEF ProfileInv

LEMMA AskStep ==
  ASSUME AccountsInv, NEW k \in Kinds, Ask(k)
  PROVE  AccountsInv'
<1> DEFINE r == [req[k] EXCEPT !.at = IF k \in SignedIn THEN "sent" ELSE "in"]
<1>0. AccountShapes /\ SuspensionInv /\ ProfileInv
  BY DEF AccountsInv
<1>1. req[k] \in Replies /\ req[k].at = "idle"
  BY <1>0 DEF AccountShapes, Ask
<1>2. r \in Replies /\ r.at \in {"sent", "in"}
  BY <1>1 DEF Replies
<1>3. req' = [req EXCEPT ![k] = r] /\ crossed' = (crossed \/ Busy # {})
  BY DEF Ask
<1> HIDE DEF r
<1>4. ProfileInv'
  BY <1>0, <1>1, <1>2, <1>3, ProfileRequest DEF Ask
<1>5. SuspensionInv'
  BY <1>0, SuspensionFrame DEF Ask, redisVars
<1>6. crossed' \in BOOLEAN
  BY <1>3
<1>7. AccountShapes'
  BY <1>0, <1>2, <1>3, <1>6 DEF AccountShapes, Ask, redisVars
<1> QED
  BY <1>4, <1>5, <1>7 DEF AccountsInv

\* The pages: browsing, signing out, and asking for something.
LEMMA BrowseStep ==
  ASSUME AccountsInv,
         (\E s \in {"login", "code", "forgot", "reset"} : Show(s)) \/ SignOut
  PROVE  AccountsInv'
<1>0. AccountShapes /\ SuspensionInv /\ ProfileInv
  BY DEF AccountsInv
<1>1. UNCHANGED <<app, redisVars, row, req, adm, loose>> /\ crossed' \in BOOLEAN
        /\ (crossed => crossed') /\ (screen' = "app" => screen = "app" /\ store' = store)
  <2>1. CASE \E s \in {"login", "code", "forgot", "reset"} : Show(s)
    BY <1>0, <2>1 DEF Show, AccountShapes
  <2>2. CASE SignOut
    BY <1>0, <2>2 DEF SignOut, AccountShapes
  <2> QED
    BY <2>1, <2>2
<1>2. SuspensionInv' /\ ProfileInv'
  BY <1>0, <1>1, SuspensionFrame, ProfileFrame DEF SameUser, redisVars
<1>3. AccountShapes'
  BY <1>0, <1>1 DEF AccountShapes, redisVars
<1> QED
  BY <1>2, <1>3 DEF AccountsInv

\* JWTAuth and the handlers, up to the Save and after it.
LEMMA ServeStep ==
  ASSUME AccountsInv, NEW k \in Kinds,
         \/ Authorize(k) \/ CheckKey(k) \/ CleanUp(k) \/ ReadRow(k)
         \/ RevokeAdds(k) \/ RevokeSets(k) \/ Unanswered(k)
  PROVE  AccountsInv'
<1>0. AccountShapes /\ SuspensionInv /\ ProfileInv /\ req[k] \in Replies
  BY DEF AccountsInv, AccountShapes
<1>1. /\ req[k].at # "idle" /\ (crossed' \/ Busy \subseteq {k})
      /\ crossed => crossed'
      /\ crossed' \in BOOLEAN
  <2>1. req[k].at # "idle" /\ (crossed => crossed') /\ crossed' \in BOOLEAN
    BY <1>0 DEF Authorize, CheckKey, CleanUp, ReadRow, RevokeAdds, RevokeSets, Unanswered, AccountShapes
  <2> QED
    BY <1>0, <2>1 DEF ProfileInv, Busy
<1>2. PICK r \in Replies :
        /\ req' = [req EXCEPT ![k] = r]
        /\ r.at = "read" => r.seen = row
        /\ r.at \in {"saved", "added", "yes"} => k \in Revoking /\ k \notin Telling
        /\ crossed' \/ req[k].at # "yes"
  <2>1. CASE Authorize(k) \/ CheckKey(k)
    <3>1. PICK at \in {"listed", "in", "no", "lapsed"} : req' = [req EXCEPT ![k].at = at]
      BY <2>1 DEF Authorize, CheckKey
    <3> DEFINE r == [req[k] EXCEPT !.at = at]
    <3>2. r \in Replies /\ r.at \in {"listed", "in", "no", "lapsed"} /\ req' = [req EXCEPT ![k] = r]
      BY <1>0, <3>1 DEF Replies
    <3>3. req[k].at # "yes"
      BY <2>1 DEF Authorize, CheckKey
    <3> HIDE DEF r
    <3> QED
      BY <3>2, <3>3
  <2>2. CASE CleanUp(k)
    <3> DEFINE r == [req[k] EXCEPT !.at = "in"]
    <3>1. r \in Replies /\ r.at = "in" /\ req' = [req EXCEPT ![k] = r]
      BY <1>0, <2>2 DEF CleanUp, Replies
    <3> HIDE DEF r
    <3> QED
      BY <2>2, <3>1 DEF CleanUp
  <2>3. CASE ReadRow(k)
    <3>1. CASE req' = [req EXCEPT ![k].at = "no"]
      <4> DEFINE r == [req[k] EXCEPT !.at = "no"]
      <4>1. r \in Replies /\ r.at = "no" /\ req' = [req EXCEPT ![k] = r]
        BY <1>0, <3>1 DEF Replies
      <4> HIDE DEF r
      <4> QED
        BY <2>3, <4>1 DEF ReadRow
    <3>2. CASE req' = [req EXCEPT ![k].at = "read", ![k].seen = row]
      <4> DEFINE r == [req[k] EXCEPT !.at = "read", !.seen = row]
      <4>1. r \in Replies /\ r.at = "read" /\ r.seen = row /\ req' = [req EXCEPT ![k] = r]
        BY <1>0, <3>2 DEF Replies, AccountShapes
      <4> HIDE DEF r
      <4> QED
        BY <2>3, <4>1 DEF ReadRow
    <3> QED
      BY <2>3, <3>1, <3>2 DEF ReadRow
  <2>4. CASE RevokeAdds(k) \/ RevokeSets(k)
    <3> DEFINE r == [req[k] EXCEPT !.at = IF req[k].at = "saved" THEN "added" ELSE "yes"]
    <3>1. r \in Replies /\ r.at \in {"added", "yes"} /\ req' = [req EXCEPT ![k] = r]
      BY <1>0, <2>4 DEF RevokeAdds, RevokeSets, Replies
    <3>2. k \in Revoking /\ k \notin Telling /\ req[k].at # "yes"
      BY <1>0, <2>4 DEF RevokeAdds, RevokeSets, AccountShapes, Revoking, Telling
    <3> HIDE DEF r
    <3> QED
      BY <3>1, <3>2
  <2>5. CASE Unanswered(k)
    <3>1. Quiet \in Replies /\ Quiet.at = "idle"
      BY DEF Quiet, Replies, FirstRow, Rows, Statuses, Portal, Values
    <3> QED
      BY <2>5, <3>1 DEF Unanswered
  <2> QED
    BY <2>1, <2>2, <2>3, <2>4, <2>5
<1>3. UNCHANGED <<app, screen, store, row, adm>>
  BY DEF Authorize, CheckKey, CleanUp, ReadRow, RevokeAdds, RevokeSets, Unanswered, appVars
<1>4. ProfileInv'
  BY <1>0, <1>1, <1>2, <1>3, ProfileRequest DEF SameUser
<1>5. SuspensionInv'
  <2>1. CASE CleanUp(k)
    BY <1>0, <2>1 DEF CleanUp, SuspensionInv, Suspending, Out, AtWork, AccountShapes
  <2>2. CASE ~CleanUp(k)
    BY <1>0, <2>2, SuspensionFrame
    DEF Authorize, CheckKey, ReadRow, RevokeAdds, RevokeSets, Unanswered, redisVars, AccountShapes
  <2> QED
    BY <2>1, <2>2
<1>7. AccountShapes'
  <2>1. member' \in BOOLEAN /\ loose' \in BOOLEAN /\ key' \in {"none", "day", "long"}
    BY <1>0
    DEF Authorize, CheckKey, CleanUp, ReadRow, RevokeAdds, RevokeSets, Unanswered,
        redisVars, AccountShapes
  <2> QED
    BY <1>0, <1>1, <1>2, <1>3, <2>1 DEF AccountShapes
<1> QED
  BY <1>4, <1>5, <1>7 DEF AccountsInv

\* The Save puts back what the request read, with its own column.
LEMMA SaveStep ==
  ASSUME AccountsInv, NEW k \in Kinds, SaveRow(k)
  PROVE  AccountsInv'
<1> DEFINE r == IF k \in Revoking THEN [Quiet EXCEPT !.at = "saved"]
                ELSE [req[k] EXCEPT !.at = "yes"]
<1>0. /\ AccountShapes /\ SuspensionInv /\ ProfileInv
      /\ req \in [Kinds -> Replies] /\ req[k] \in Replies /\ req[k].at = "read"
  BY DEF AccountsInv, AccountShapes, SaveRow
<1>1. Quiet \in Replies
  BY DEF Quiet, Replies, FirstRow, Rows, Statuses, Portal, Values
<1>2. /\ r \in Replies
      /\ k \in Revoking => r.at = "saved"
      /\ k \notin Revoking => r.at = "yes" /\ r.seen = req[k].seen
  BY <1>0, <1>1 DEF Replies
<1>3. req' = [req EXCEPT ![k] = r] /\ row' = Copy(k)
  BY DEF SaveRow
<1> HIDE DEF r
<1>4. req'[k] = r /\ \A l \in Kinds \ {k} : req'[l] = req[l]
  BY <1>0, <1>3
<1>5. row' \in Rows /\ row'.status = req[k].seen.status
        /\ (k \notin {"profile", "picture"} =>
              row'.name = req[k].seen.name /\ row'.photo = req[k].seen.photo)
  BY <1>0, <1>3, CopyOf
<1>6. /\ loose' \in BOOLEAN /\ (loose => loose')
      /\ loose' \/ row'.status # "suspended" \/ row.status = "suspended"
  BY <1>0, <1>5 DEF SaveRow, AccountShapes
<1>7. SuspensionInv'
  BY <1>0, <1>6, SuspensionFrame DEF SaveRow, redisVars
<1>8. AccountShapes'
  BY <1>0, <1>2, <1>3, <1>5, <1>6 DEF AccountShapes, SaveRow, appVars, redisVars
<1>9. ProfileInv'
  <2> SUFFICES ASSUME ~crossed' PROVE ProfileInv'
    BY DEF ProfileInv
  <2>1. ~crossed /\ UNCHANGED <<screen, store>>
    BY DEF SaveRow, appVars
  <2>2. Busy \subseteq {k} /\ SameUser(req[k].seen)
    BY <1>0, <2>1 DEF ProfileInv, Busy
  <2>3. \A l \in Kinds \ {k} : req'[l].at = "idle"
    BY <1>4, <2>2 DEF Busy
  <2>4. Busy' \subseteq {k} /\ \A l \in Kinds : req'[l].at # "read"
    BY <1>2, <1>4, <2>3 DEF Busy
  <2>5. k \in Telling => SameUser(Copy(k))'
    <3>1. k \in Telling => Copy(k)' = Copy(k)
      BY <1>2, <1>4 DEF Copy, Telling, Revoking
    <3> QED
      BY <1>3, <3>1 DEF SameUser
  <2>6. \A l \in Telling : req'[l].at = "yes" => SameUser(Copy(l))'
    BY <2>3, <2>5, KindsAre DEF Telling
  <2>7. screen' = "app" =>
          store' = Known' \/ \E l \in {"profile", "picture"} : req'[l].at = "yes"
    <3>1. CASE k \in {"profile", "picture"}
      BY <1>2, <1>4, <3>1 DEF Revoking
    <3>2. CASE k \notin {"profile", "picture"}
      <4>1. Known' = Known
        BY <1>5, <2>2, <3>2 DEF Known, SameUser
      <4>2. screen = "app" => store = Known
        BY <1>0, <2>1, <2>2, <3>2, KindsAre DEF ProfileInv, Busy
      <4> QED
        BY <2>1, <4>1, <4>2
    <3> QED
      BY <3>1, <3>2
  <2> QED
    BY <2>4, <2>6, <2>7 DEF ProfileInv
<1> QED
  BY <1>7, <1>8, <1>9 DEF AccountsInv

\* An answer is a whole user, and the row's while no two requests overlap.
LEMMA AnswerStep ==
  ASSUME AccountsInv, NEW k \in Kinds, Answered(k)
  PROVE  AccountsInv'
<1>0. /\ AccountShapes /\ SuspensionInv /\ ProfileInv
      /\ req \in [Kinds -> Replies] /\ req[k].at = "yes"
  BY DEF AccountsInv, AccountShapes, Answered
<1>1. Quiet \in Replies /\ Quiet.at = "idle"
  BY DEF Quiet, Replies, FirstRow, Rows, Statuses, Portal, Values
<1>2. req' = [req EXCEPT ![k] = Quiet] /\ UNCHANGED <<app, redisVars, row, adm, crossed, loose>>
  BY DEF Answered
<1>3. req'[k].at = "idle" /\ \A l \in Kinds \ {k} : req'[l] = req[l]
  BY <1>0, <1>1, <1>2
<1>4. SuspensionInv'
  BY <1>0, <1>2, SuspensionFrame DEF redisVars
<1>5. AccountShapes'
  BY <1>0, <1>1, <1>2 DEF AccountShapes, redisVars
<1>6. ProfileInv'
  <2> SUFFICES ASSUME ~crossed' PROVE ProfileInv'
    BY DEF ProfileInv
  <2>1. Busy \subseteq {k} /\ (k \in Telling => SameUser(Copy(k)))
    BY <1>0, <1>2 DEF ProfileInv, Busy
  <2>2. \A l \in Kinds : req'[l].at = "idle"
    BY <1>3, <2>1 DEF Busy
  <2>3. k \in Telling => NewProfile(k) = Known
    BY <2>1 DEF NewProfile, Known, SameUser
  <2>4. screen' = "app" => store' = Known
    <3>1. CASE k \in {"profile", "picture"}
      BY <2>3, <3>1
      DEF Answered, CustomerUpdated, TransporterUpdated, AdminUpdated, UpdateUser, Telling
    <3>2. CASE k \notin {"profile", "picture"}
      <4>1. screen = "app" => store = Known
        BY <1>0, <1>2, <2>1, <3>2, KindsAre DEF ProfileInv, Busy
      <4>2. CASE k = "login"
        BY <2>3, <4>1, <4>2 DEF Answered, LoginAnswered, Telling
      <4>3. CASE k # "login"
        BY <3>2, <4>1, <4>3 DEF Answered
      <4> QED
        BY <4>2, <4>3
    <3> QED
      BY <3>1, <3>2
  <2>5. Known' = Known
    BY <1>2 DEF Known
  <2>6. Busy' = {}
    BY <2>2 DEF Busy
  <2>7. \A l \in Telling : req'[l].at # "yes"
    BY <2>2, KindsAre DEF Telling
  <2> QED
    BY <2>2, <2>4, <2>5, <2>6, <2>7 DEF ProfileInv
<1> QED
  BY <1>4, <1>5, <1>6 DEF AccountsInv

\* A submission writes the status, and its answer tells nothing.
LEMMA SubmitStep ==
  ASSUME AccountsInv, SubmitKyc
  PROVE  AccountsInv'
<1> DEFINE r == [req["kyc"] EXCEPT !.at = "yes"]
<1>0. AccountShapes /\ SuspensionInv /\ ProfileInv /\ "kyc" \in Kinds /\ req["kyc"].at = "in"
  BY KindsAre DEF AccountsInv, SubmitKyc
<1>1. r \in Replies /\ r.at = "yes" /\ req' = [req EXCEPT !["kyc"] = r]
  BY <1>0 DEF SubmitKyc, AccountShapes, Replies
<1> HIDE DEF r
<1>2. /\ row' \in Rows /\ row'.name = row.name /\ row'.photo = row.photo
      /\ row'.status # "suspended" \/ row.status = "suspended"
      /\ UNCHANGED <<appVars, redisVars, adm, crossed, loose>>
  BY <1>0 DEF SubmitKyc, AccountShapes, Rows, Statuses
<1>3. req'["kyc"] = r /\ \A l \in Kinds \ {"kyc"} : req'[l] = req[l]
  BY <1>0, <1>1 DEF AccountShapes
<1>4. SuspensionInv'
  BY <1>0, <1>2, SuspensionFrame DEF redisVars
<1>5. AccountShapes'
  BY <1>0, <1>1, <1>2 DEF AccountShapes, appVars, redisVars
<1>6. ProfileInv'
  <2> SUFFICES ASSUME ~crossed' PROVE ProfileInv'
    BY DEF ProfileInv
  <2>1. ~crossed
    BY <1>2
  <2>2. Busy' \subseteq {"kyc"}
    BY <1>0, <1>3, <2>1 DEF ProfileInv, Busy
  <2>3. \A l \in Kinds \ {"kyc"} : req'[l].at = "idle"
    BY <2>2 DEF Busy
  <2>4. \A l \in Telling : req'[l].at # "yes"
    BY <2>3, KindsAre DEF Telling
  <2>5. screen = "app" => store = Known
    BY <1>0, <2>1, KindsAre DEF ProfileInv, Busy
  <2>6. Known' = Known
    BY <1>2 DEF Known
  <2>7. screen' = "app" => store' = Known'
    BY <1>2, <2>5, <2>6 DEF appVars
  <2>8. \A l \in Kinds : req'[l].at # "read"
    BY <1>1, <1>3, <2>3
  <2> QED
    BY <2>2, <2>4, <2>7, <2>8 DEF ProfileInv
<1> QED
  BY <1>4, <1>5, <1>6 DEF AccountsInv

LEMMA LapseStep ==
  ASSUME AccountsInv, KeyLapses
  PROVE  AccountsInv'
<1>0. AccountShapes /\ SuspensionInv /\ ProfileInv
  BY DEF AccountsInv
<1>1. ProfileInv'
  BY <1>0, ProfileFrame DEF KeyLapses, SameUser, appVars
<1>2. SuspensionInv'
  BY <1>0 DEF SuspensionInv, Suspending, AtWork, KeyLapses, AccountShapes
<1>3. AccountShapes'
  BY <1>0 DEF AccountShapes, KeyLapses, appVars
<1> QED
  BY <1>1, <1>2, <1>3 DEF AccountsInv

----------------------------------------------------------------------------
(* The admins and the scheduler.                                           *)

\* While one decision moves on, what the invariant says of the decisions
\* rests on that one: no Enable is joined by a suspension, nor the reverse.
LEMMA DecisionsMove ==
  ASSUME AccountShapes, SuspensionInv, ~loose, NEW a \in Deciders, NEW d \in Decisions,
         adm' = [adm EXCEPT ![a] = d],
         d.at \in {"idle", "done"} \/ (d.op = adm[a].op /\ adm[a].at \notin {"idle", "done"})
  PROVE  /\ adm'[a] = d /\ \A b \in Deciders \ {a} : adm'[b] = adm[b]
         /\ \A s \in Suspensions : ~(AtWork("enable") /\ AtWork(s))'
<1>1. adm'[a] = d /\ \A b \in Deciders \ {a} : adm'[b] = adm[b]
  BY DEF AccountShapes
<1>2. \A op : AtWork(op)' => AtWork(op)
  BY <1>1 DEF AtWork
<1>3. \A s \in Suspensions : ~(AtWork("enable") /\ AtWork(s))
  BY DEF SuspensionInv
<1>4. AtWork("enable")' => AtWork("enable")
  BY <1>2
<1>5. \A s \in Suspensions : AtWork(s)' => AtWork(s)
  BY <1>2
<1> QED
  BY <1>1, <1>3, <1>4, <1>5

\* What a decision may become, and what it writes.
LEMMA AdminStep ==
  ASSUME AccountsInv, NEW a \in Deciders,
         \/ \E at \in {"sent", "read"}, op \in Operations : Begin(a, at, op)
         \/ AdminRead(a) \/ AdminWrite(a) \/ AdminFlags(a) \/ AdminKeys(a) \/ AdminAnswered(a)
  PROVE  AccountsInv'
<1>0. /\ AccountShapes /\ SuspensionInv /\ ProfileInv
      /\ adm \in [Deciders -> Decisions] /\ adm[a] \in Decisions
      /\ row \in Rows
  BY DEF AccountsInv, AccountShapes
<1>1. AtRest \in Decisions /\ AtRest.at = "idle" /\ AtRest.op = "none"
  BY DEF AtRest, Decisions
<1>adm. ASSUME NEW d \in Decisions, adm' = [adm EXCEPT ![a] = d],
               d.at # "idle" => d.op \in Operations,
               d.at = "wrote" => d.op \in Revocations \cup {"enable"},
               d.at = "flagged" => d.op \in Revocations \cup {"enable", "remove"},
               row' \in Rows, member' \in BOOLEAN, key' \in {"none", "day", "long"},
               loose' \in BOOLEAN, UNCHANGED <<app, req, crossed>>
        PROVE  /\ AccountShapes'
               /\ adm'[a] = d /\ \A b \in Deciders \ {a} : adm'[b] = adm[b]
  <2>1. adm'[a] = d /\ \A b \in Deciders \ {a} : adm'[b] = adm[b]
    BY <1>0, <1>adm
  <2>2. adm' \in [Deciders -> Decisions]
    BY <1>0, <1>adm
  <2> QED
    BY <1>0, <1>adm, <2>1, <2>2 DEF AccountShapes
<1>3. ProfileInv'
  <2>1. SameUser(row')
    <3>1. CASE AdminWrite(a)
      BY <1>0, <3>1
      DEF SameUser, Rows, AdminWrite, AccountShapes, Operations, Suspensions
    <3>2. CASE ~AdminWrite(a)
      BY <3>2 DEF SameUser, Begin, AdminRead, AdminFlags, AdminKeys, AdminAnswered
    <3> QED
      BY <3>1, <3>2
  <2>2. UNCHANGED <<req, crossed, screen, store>>
    <3>1. ASSUME NEW at, NEW op, Begin(a, at, op) PROVE UNCHANGED <<req, crossed, screen, store>>
      BY <3>1 DEF Begin, appVars
    <3> QED
      BY <3>1 DEF AdminRead, AdminWrite, AdminFlags, AdminKeys, AdminAnswered, appVars
  <2> QED
    BY <1>0, <2>1, <2>2, ProfileFrame
<1>4. ASSUME NEW at \in {"sent", "read"}, NEW op \in Operations, Begin(a, at, op)
      PROVE  AccountsInv'
  <2> DEFINE d == [at |-> at, op |-> op]
  <2>1. d \in Decisions /\ d.at \in {"sent", "read"} /\ d.op = op
    BY DEF Decisions
  <2>2. adm' = [adm EXCEPT ![a] = d] /\ adm[a].at = "idle" /\ loose' \in BOOLEAN
    BY <1>0, <1>4 DEF Begin, AccountShapes
  <2> HIDE DEF d
  <2>3. AccountShapes' /\ adm'[a] = d /\ \A b \in Deciders \ {a} : adm'[b] = adm[b]
    BY <1>0, <1>4, <1>adm, <2>1, <2>2 DEF Begin, AccountShapes, appVars, redisVars
  <2>5. SuspensionInv'
    <3> SUFFICES ASSUME ~loose' PROVE SuspensionInv'
      BY DEF SuspensionInv
    <3>1. ~loose /\ UNCHANGED <<row, member, key>>
      BY <1>4 DEF Begin, redisVars
    <3>2. \A o : AtWork(o)' => AtWork(o) \/ o = op
      BY <2>1, <2>3 DEF AtWork
    <3>3. \A s \in Suspensions : ~(AtWork("enable") /\ AtWork(s))
      BY <1>0, <3>1 DEF SuspensionInv
    <3>4. /\ op = "enable" => \A s \in Suspensions : ~AtWork(s)
          /\ op \in Suspensions => ~AtWork("enable")
      BY <1>4 DEF Begin
    <3>5. AtWork("enable")' => AtWork("enable") \/ op = "enable"
      BY <3>2
    <3>6. \A s \in Suspensions : AtWork(s)' => AtWork(s) \/ s = op
      BY <3>2
    <3>7. \A s \in Suspensions : ~(AtWork("enable") /\ AtWork(s))'
      BY <3>3, <3>4, <3>5, <3>6 DEF Suspensions
    <3>8. row.status = "suspended" => Out \/ \E b \in Deciders \ {a} : Suspending(b)
      BY <1>0, <2>2, <3>1 DEF SuspensionInv, Suspending
    <3>9. \A b \in Deciders \ {a} : Suspending(b) => Suspending(b)'
      BY <2>3, <3>1 DEF Suspending
    <3> QED
      BY <1>0, <2>1, <2>3, <3>1, <3>7, <3>8, <3>9 DEF SuspensionInv, Out
  <2> QED
    BY <1>3, <2>3, <2>5 DEF AccountsInv
<1>5. CASE AdminRead(a)
  <2> DEFINE d == IF Allowed(a, adm[a].op) THEN [adm[a] EXCEPT !.at = "read"] ELSE AtRest
  <2>1. /\ d \in Decisions /\ d.at \in {"read", "idle"}
        /\ d.at = "read" => d.op = adm[a].op
    BY <1>0, <1>1 DEF Decisions
  <2>2. adm' = [adm EXCEPT ![a] = d] /\ adm[a].at = "sent"
    BY <1>5 DEF AdminRead
  <2> HIDE DEF d
  <2>3. AccountShapes'
    BY <1>0, <1>5, <1>adm, <2>1, <2>2 DEF AdminRead, AccountShapes, appVars, redisVars
  <2>5. SuspensionInv'
    <3> SUFFICES ASSUME ~loose' PROVE SuspensionInv'
      BY DEF SuspensionInv
    <3>1. ~loose /\ UNCHANGED <<row, member, key>>
      BY <1>5 DEF AdminRead, redisVars
    <3>2. /\ adm'[a] = d /\ \A b \in Deciders \ {a} : adm'[b] = adm[b]
          /\ \A s \in Suspensions : ~(AtWork("enable") /\ AtWork(s))'
      BY <1>0, <2>1, <2>2, <3>1, DecisionsMove
    <3> QED
      BY <1>0, <2>1, <2>2, <3>1, <3>2 DEF SuspensionInv, Suspending, Out
  <2> QED
    BY <1>3, <2>3, <2>5 DEF AccountsInv
<1>6. CASE AdminWrite(a)
  <2> DEFINE at == CASE adm[a].op \in Revocations \cup {"enable"} -> "wrote"
                     [] adm[a].op = "remove" -> "flagged"
                     [] OTHER -> "done"
             d == [adm[a] EXCEPT !.at = at]
  <2>0. adm[a].at = "read" /\ adm[a].op \in Operations
    BY <1>0, <1>6 DEF AdminWrite, AccountShapes
  <2>at. /\ at \in {"wrote", "flagged", "done"}
         /\ at = "wrote" <=> adm[a].op \in Revocations \cup {"enable"}
         /\ at = "flagged" <=> adm[a].op = "remove"
    BY DEF Revocations, Suspensions
  <2> HIDE DEF at
  <2>1. /\ d \in Decisions /\ d.op = adm[a].op /\ d.at = at
    BY <1>0, <2>at DEF Decisions
  <2>2. adm' = [adm EXCEPT ![a] = d]
    BY <1>6 DEF AdminWrite, at
  <2> HIDE DEF d
  <2>3. /\ row' \in Rows
        /\ d.op \in Suspensions => row'.status = "suspended"
        /\ d.op \notin Suspensions => row'.status = row.status \/ row'.status # "suspended"
        /\ d.op = "enable" => row'.status # "suspended"
    BY <1>0, <1>6, <2>0, <2>1 DEF AdminWrite, Rows, Statuses, Operations, Suspensions
  <2>4. AccountShapes'
    BY <1>0, <1>6, <1>adm, <2>0, <2>1, <2>2, <2>3, <2>at
    DEF AdminWrite, AccountShapes, appVars, redisVars
  <2>6. SuspensionInv'
    <3> SUFFICES ASSUME ~loose' PROVE SuspensionInv'
      BY DEF SuspensionInv
    <3>1. ~loose /\ UNCHANGED <<member, key>>
      BY <1>6 DEF AdminWrite, redisVars
    <3>2. /\ adm'[a] = d /\ \A b \in Deciders \ {a} : adm'[b] = adm[b]
          /\ \A s \in Suspensions : ~(AtWork("enable") /\ AtWork(s))'
      BY <1>0, <2>0, <2>1, <2>2, <3>1, DecisionsMove
    <3>3. CASE d.op \in Suspensions
      <4>1. Suspending(a)'
        BY <2>1, <2>at, <3>2, <3>3 DEF Suspending, Revocations
      <4>2. ~AtWork("enable")'
        <5>1. PICK s \in Suspensions : s = d.op
          BY <3>3
        <5>2. AtWork(s)'
          BY <2>1, <2>at, <3>2, <5>1 DEF AtWork, Revocations
        <5> QED
          BY <3>2, <5>2
      <4>3. ~\E b \in Deciders : adm'[b].op = "enable" /\ adm'[b].at \in {"wrote", "flagged"}
        BY <4>2 DEF AtWork
      <4> QED
        BY <3>2, <4>1, <4>3 DEF SuspensionInv
    <3>4. CASE d.op \notin Suspensions
      <4>1. row'.status = "suspended" => row.status = "suspended"
        BY <2>3, <3>4
      <4>2. \A b \in Deciders : Suspending(b) => Suspending(b)'
        BY <2>0, <3>1, <3>2 DEF Suspending
      <4>3. \A b \in Deciders : adm'[b].op = "enable" /\ adm'[b].at \in {"wrote", "flagged"}
              => row'.status # "suspended"
        BY <1>0, <2>3, <3>1, <3>2, <4>1 DEF SuspensionInv
      <4> QED
        BY <1>0, <3>1, <3>2, <4>1, <4>2, <4>3 DEF SuspensionInv, Out
    <3> QED
      BY <3>3, <3>4
  <2> QED
    BY <1>3, <2>4, <2>6 DEF AccountsInv
<1>7. CASE AdminFlags(a)
  <2> DEFINE d == [adm[a] EXCEPT !.at = "flagged"]
  <2>0. adm[a].at = "wrote" /\ adm[a].op \in Revocations \cup {"enable"}
    BY <1>0, <1>7 DEF AdminFlags, AccountShapes
  <2>1. d \in Decisions /\ d.op = adm[a].op /\ d.at = "flagged"
    BY <1>0 DEF Decisions
  <2>2. adm' = [adm EXCEPT ![a] = d] /\ member' = (adm[a].op \in Revocations) /\ member' \in BOOLEAN
    BY <1>7 DEF AdminFlags
  <2> HIDE DEF d
  <2>3. AccountShapes'
    BY <1>0, <1>7, <1>adm, <2>0, <2>1, <2>2
    DEF AdminFlags, AccountShapes, appVars, Operations, Revocations, Suspensions
  <2>5. SuspensionInv'
    <3> SUFFICES ASSUME ~loose' PROVE SuspensionInv'
      BY DEF SuspensionInv
    <3>1. ~loose /\ UNCHANGED <<row, key>>
      BY <1>7 DEF AdminFlags
    <3>2. /\ adm'[a] = d /\ \A b \in Deciders \ {a} : adm'[b] = adm[b]
          /\ \A s \in Suspensions : ~(AtWork("enable") /\ AtWork(s))'
      BY <1>0, <2>0, <2>1, <2>2, <3>1, DecisionsMove
    <3>3. \A b \in Deciders : adm'[b].op = "enable" /\ adm'[b].at \in {"wrote", "flagged"}
              => row'.status # "suspended"
      BY <1>0, <2>0, <2>1, <3>1, <3>2 DEF SuspensionInv
    <3>4. CASE d.op \in Revocations
      <4>1. member' = TRUE
        BY <2>1, <2>2, <3>4
      <4>2. \A b \in Deciders : Suspending(b) => Suspending(b)'
        BY <2>1, <3>2, <4>1 DEF Suspending
      <4>3. Out => Out'
        BY <3>1, <4>1 DEF Out
      <4> QED
        BY <1>0, <3>1, <3>2, <3>3, <4>2, <4>3 DEF SuspensionInv
    <3>5. CASE d.op = "enable"
      <4>1. row.status # "suspended"
        BY <1>0, <2>0, <2>1, <3>1, <3>5 DEF SuspensionInv
      <4> QED
        BY <3>1, <3>2, <3>3, <4>1 DEF SuspensionInv
    <3> QED
      BY <2>0, <2>1, <3>4, <3>5
  <2> QED
    BY <1>3, <2>3, <2>5 DEF AccountsInv
<1>8. CASE AdminKeys(a)
  <2> DEFINE d == [adm[a] EXCEPT !.at = "done"]
  <2>0. adm[a].at = "flagged" /\ adm[a].op \in Revocations \cup {"enable", "remove"}
    BY <1>0, <1>8 DEF AdminKeys, AccountShapes
  <2>1. d \in Decisions /\ d.op = adm[a].op /\ d.at = "done"
    BY <1>0 DEF Decisions
  <2>2. /\ adm' = [adm EXCEPT ![a] = d]
        /\ key' \in {"none", "day", "long"} /\ (adm[a].op # "enable" => key' # "none")
    BY <1>8, <2>0 DEF AdminKeys, Revocations, Suspensions
  <2> HIDE DEF d
  <2>3. AccountShapes'
    BY <1>0, <1>8, <1>adm, <2>0, <2>1, <2>2
    DEF AdminKeys, AccountShapes, appVars, Operations, Revocations, Suspensions
  <2>5. SuspensionInv'
    <3> SUFFICES ASSUME ~loose' PROVE SuspensionInv'
      BY DEF SuspensionInv
    <3>1. ~loose /\ UNCHANGED <<row, member>>
      BY <1>8 DEF AdminKeys
    <3>2. /\ adm'[a] = d /\ \A b \in Deciders \ {a} : adm'[b] = adm[b]
          /\ \A s \in Suspensions : ~(AtWork("enable") /\ AtWork(s))'
      BY <1>0, <2>0, <2>1, <2>2, <3>1, DecisionsMove
    <3>3. CASE adm[a].op = "enable"
      <4>1. row.status # "suspended"
        BY <1>0, <2>0, <3>1, <3>3 DEF SuspensionInv
      <4> QED
        BY <3>1, <3>2, <4>1 DEF SuspensionInv
    <3>4. CASE adm[a].op # "enable"
      <4>1. key' # "none"
        BY <2>2, <3>4
      <4>2. Out => Out'
        BY <3>1, <4>1 DEF Out
      <4>3. Suspending(a) => Out'
        BY <2>0, <3>1, <4>1 DEF Suspending, Out
      <4>4. \A b \in Deciders \ {a} : Suspending(b) => Suspending(b)'
        BY <3>1, <3>2 DEF Suspending
      <4>5. row.status = "suspended" => Out \/ \E b \in Deciders : Suspending(b)
        BY <1>0, <3>1 DEF SuspensionInv
      <4>6. row'.status = "suspended" => Out' \/ \E b \in Deciders : Suspending(b)'
        BY <3>1, <4>2, <4>3, <4>4, <4>5
      <4>7. \A b \in Deciders : adm'[b].op = "enable" /\ adm'[b].at \in {"wrote", "flagged"}
              => row'.status # "suspended"
        BY <1>0, <2>1, <3>1, <3>2 DEF SuspensionInv
      <4> QED
        BY <3>2, <4>6, <4>7 DEF SuspensionInv
    <3> QED
      BY <3>3, <3>4
  <2> QED
    BY <1>3, <2>3, <2>5 DEF AccountsInv
<1>9. CASE AdminAnswered(a)
  <2>2. adm' = [adm EXCEPT ![a] = AtRest] /\ adm[a].at = "done"
    BY <1>9 DEF AdminAnswered
  <2>3. AccountShapes'
    BY <1>0, <1>1, <1>9, <1>adm, <2>2 DEF AdminAnswered, AccountShapes, appVars, redisVars
  <2>5. SuspensionInv'
    <3> SUFFICES ASSUME ~loose' PROVE SuspensionInv'
      BY DEF SuspensionInv
    <3>1. ~loose /\ UNCHANGED <<row, member, key>>
      BY <1>9 DEF AdminAnswered, redisVars
    <3>2. /\ adm'[a] = AtRest /\ \A b \in Deciders \ {a} : adm'[b] = adm[b]
          /\ \A s \in Suspensions : ~(AtWork("enable") /\ AtWork(s))'
      BY <1>0, <1>1, <2>2, <3>1, DecisionsMove
    <3> QED
      BY <1>0, <1>1, <2>2, <3>1, <3>2 DEF SuspensionInv, Suspending, Out
  <2> QED
    BY <1>3, <2>3, <2>5 DEF AccountsInv
<1> QED
  BY <1>4, <1>5, <1>6, <1>7, <1>8, <1>9

LEMMA AccountsStep ==
  ASSUME AccountsInv, [AccountsNext]_accountVars
  PROVE  AccountsInv'
<1>1. ASSUME NEW k \in Kinds, Handler(k) PROVE AccountsInv'
  BY <1>1, ServeStep, SaveStep, AnswerStep DEF Handler
<1>2. ASSUME NEW a \in Deciders, AdminNext(a) PROVE AccountsInv'
  <2>1. ASSUME NEW op \in Operations, Act(a, op) PROVE AccountsInv'
    BY <2>1, AdminStep DEF Act
  <2> QED
    BY <1>2, <2>1, AdminStep
    DEF AdminNext, UserRow, UserDetailDrawer, PermanentBan, RemoveAdmin, BanQueue, KycQueue,
        Operations
<1>auto. CASE AutoSuspend
  BY <1>auto, AdminStep DEF AutoSuspend, Deciders, Operations
<1>3. CASE \/ CustomerForm \/ TransporterForm \/ AdminForm
           \/ CustomerDialog \/ TransporterDialog \/ AdminDialog
           \/ CustomerPassword \/ TransporterPassword \/ AdminPassword
           \/ CustomerKyc \/ TransporterKyc
  BY <1>3, AskStep, BrowseStep, KindsAre
  DEF CustomerForm, TransporterForm, AdminForm, CustomerDialog, TransporterDialog, AdminDialog,
      CustomerPassword, TransporterPassword, AdminPassword, CustomerKyc, TransporterKyc
<1>4. CASE CustomerForgot \/ TransporterForgot \/ CustomerLogin \/ TransporterLogin \/ AdminLogin
  BY <1>4, AskStep, BrowseStep, KindsAre
  DEF CustomerForgot, TransporterForgot, CustomerLogin, TransporterLogin, AdminLogin
<1>5. CASE CustomerLayout \/ TransporterLayout \/ AdminLayout
  BY <1>5, BrowseStep DEF CustomerLayout, TransporterLayout, AdminLayout
<1>6. CASE UNCHANGED accountVars
  <2>0. AccountShapes /\ SuspensionInv /\ ProfileInv
    BY DEF AccountsInv
  <2>1. SuspensionInv' /\ ProfileInv'
    BY <1>6, <2>0, SuspensionFrame, ProfileFrame
    DEF accountVars, appVars, redisVars, SameUser
  <2>2. AccountShapes'
    BY <1>6, <2>0 DEF accountVars, appVars, redisVars, AccountShapes
  <2> QED
    BY <2>1, <2>2 DEF AccountsInv
<1> QED
  BY <1>1, <1>2, <1>3, <1>4, <1>5, <1>6, <1>auto, SubmitStep, LapseStep DEF AccountsNext

\* Of the account, its revocation, the app and the admins, in whatever order
\* requests, saves and revocations come.
THEOREM AccountsInvariant == AccountsSpec => []AccountsInv
  BY AccountsStart, AccountsStep, PTL DEF AccountsSpec

\* What the app holds: a page of its own is shown to who is signed in.
AppShapes ==
    /\ claim \in {"none", "member", "admin"}
    /\ screen \in {"app", "login", "code", "forgot", "reset", "done"}
    /\ (screen = "app") = (claim # "none")
    /\ store \in [name : Values, photo : Values]
    /\ heard \subseteq Kinds
    /\ requests \in 0 .. MaxRequests

LEMMA AppStart == AccountsInit => AppShapes
<1> SUFFICES ASSUME AccountsInit PROVE AppShapes
  OBVIOUS
<1>1. store \in [name : Values, photo : Values]
  BY DEF AccountsInit, Known, FirstRow, Values
<1>2. requests \in 0 .. MaxRequests
  BY AccountsAssumption DEF AccountsInit
<1>3. Portal \in {"member", "admin"}
  BY DEF Portal
<1> QED
  BY <1>1, <1>2, <1>3 DEF AccountsInit, AppShapes

LEMMA AppStep ==
  ASSUME AccountsInv, AppShapes, [AccountsNext]_accountVars
  PROVE  AppShapes'
<1>0. AccountShapes /\ Portal \in {"member", "admin"}
  BY DEF AccountsInv, Portal
<1>ask. ASSUME NEW k \in Kinds, Ask(k) PROVE AppShapes'
  <2>1. requests' \in 0 .. MaxRequests
    BY <1>ask, AccountsAssumption DEF AppShapes, Ask
  <2> QED
    BY <1>ask, <2>1 DEF AppShapes, Ask
<1>browse. ASSUME \/ \E s \in {"login", "code", "forgot", "reset"} : screen # "app" /\ Show(s)
                  \/ SignOut
           PROVE  AppShapes'
  <2>1. CASE \E s \in {"login", "code", "forgot", "reset"} : screen # "app" /\ Show(s)
    BY <2>1 DEF AppShapes, Show
  <2>2. CASE SignOut
    BY <2>2 DEF AppShapes, SignOut, NoUser, Values
  <2> QED
    BY <1>browse, <2>1, <2>2
<1>quiet. ASSUME UNCHANGED <<claim, screen, store, requests>>, heard' \subseteq heard
          PROVE  AppShapes'
  BY <1>quiet DEF AppShapes
<1>1. ASSUME NEW k \in Kinds, Handler(k) PROVE AppShapes'
  <2>1. CASE Answered(k)
    <3>1. Copy(k) \in Rows
      BY <1>0, CopyOf DEF AccountShapes
    <3>2. NewProfile(k) \in [name : Values, photo : Values]
      BY <3>1 DEF NewProfile, Rows
    <3>3. heard' \subseteq heard /\ UNCHANGED requests
      BY <2>1 DEF Answered
    <3>4. CASE k \in {"profile", "picture"}
      <4>1. store' = NewProfile(k) /\ UNCHANGED <<claim, screen>>
        BY <2>1, <3>4
        DEF Answered, CustomerUpdated, TransporterUpdated, AdminUpdated, UpdateUser
      <4> QED
        BY <3>2, <3>3, <4>1 DEF AppShapes
    <3>5. CASE k = "login"
      <4>1. \/ claim' = Portal /\ screen' = "app" /\ store' = NewProfile("login")
            \/ UNCHANGED <<claim, screen, store>>
        BY <2>1, <3>5 DEF Answered, LoginAnswered
      <4> QED
        BY <1>0, <3>2, <3>3, <3>5, <4>1 DEF AppShapes
    <3>6. CASE k \in {"password", "reset", "kyc"}
      <4>1. UNCHANGED <<claim, store>>
              /\ (screen' = screen \/ (screen = "reset" /\ screen' = "done"))
        BY <2>1, <3>6 DEF Answered
      <4> QED
        BY <3>3, <4>1 DEF AppShapes
    <3> QED
      BY <3>4, <3>5, <3>6, KindsAre
  <2>2. CASE ~Answered(k)
    BY <1>1, <1>quiet, <2>2
    DEF Handler, Authorize, CheckKey, CleanUp, ReadRow, SaveRow, RevokeAdds, RevokeSets, Unanswered, appVars
  <2> QED
    BY <2>1, <2>2
<1>begin. ASSUME NEW a, NEW at, NEW op, Begin(a, at, op) PROVE AppShapes'
  <2>1. requests' \in 0 .. MaxRequests
    BY <1>begin, AccountsAssumption DEF AppShapes, Begin
  <2> QED
    BY <1>begin, <2>1 DEF AppShapes, Begin, appVars
<1>2. ASSUME NEW a \in Deciders, AdminNext(a) PROVE AppShapes'
  <2>1. ASSUME NEW op, Act(a, op) PROVE AppShapes'
    BY <1>begin, <2>1 DEF Act
  <2> QED
    BY <1>2, <1>quiet, <2>1
    DEF AdminNext, UserRow, UserDetailDrawer, PermanentBan, RemoveAdmin, BanQueue, KycQueue,
        AdminRead, AdminWrite, AdminFlags, AdminKeys, AdminAnswered, appVars
<1>auto. CASE AutoSuspend
  BY <1>auto, <1>begin DEF AutoSuspend
<1>3. CASE \/ CustomerForm \/ TransporterForm \/ AdminForm
           \/ CustomerDialog \/ TransporterDialog \/ AdminDialog
           \/ CustomerPassword \/ TransporterPassword \/ AdminPassword
           \/ CustomerKyc \/ TransporterKyc
  BY <1>3, <1>ask, <1>browse, KindsAre
  DEF CustomerForm, TransporterForm, AdminForm, CustomerDialog, TransporterDialog, AdminDialog,
      CustomerPassword, TransporterPassword, AdminPassword, CustomerKyc, TransporterKyc
<1>4. CASE CustomerForgot \/ TransporterForgot \/ CustomerLogin \/ TransporterLogin \/ AdminLogin
  BY <1>4, <1>ask, <1>browse, KindsAre
  DEF CustomerForgot, TransporterForgot, CustomerLogin, TransporterLogin, AdminLogin
<1>5. CASE CustomerLayout \/ TransporterLayout \/ AdminLayout
  BY <1>5, <1>browse DEF CustomerLayout, TransporterLayout, AdminLayout
<1>6. CASE SubmitKyc \/ KeyLapses \/ UNCHANGED accountVars
  BY <1>6, <1>quiet DEF SubmitKyc, KeyLapses, accountVars, appVars
<1> QED
  BY <1>1, <1>2, <1>3, <1>4, <1>5, <1>6, <1>auto DEF AccountsNext

\* Everything keeps its type, and the app's own pages show to who is signed in.
THEOREM AccountsTypes == AccountsSpec => []AccountsTypeOK
<1>1. AccountsInv /\ AppShapes /\ [AccountsNext]_accountVars => AppShapes'
  BY AppStep
<1>2. AccountsInv /\ AppShapes => AccountsTypeOK
  BY DEF AccountsInv, AccountShapes, AppShapes, Replies, Decisions, AccountsTypeOK
<1> QED
  BY <1>1, <1>2, AppStart, AccountsInvariant, PTL DEF AccountsSpec

\* JWTAuth keeps a suspended account out unless its suspension is still being
\* written, for as long as nothing undid the revocation and it has not run
\* out: for any number of admins beside the scheduler and the owner.
THEOREM SuspendedStaysOut == AccountsSpec => []OutWhenSuspended
<1>1. AccountsInv => OutWhenSuspended
  BY DEF AccountsInv, SuspensionInv, Suspending, OutWhenSuspended
<1> QED
  BY <1>1, AccountsInvariant, PTL

\* The name and picture in an app are the row's while its user's requests
\* do not overlap and no answer was lost.
THEOREM AppShowsItsRow == AccountsSpec => []ProfileShowsRow
<1>1. AccountsInv => ProfileShowsRow
  BY KindsAre DEF AccountsInv, ProfileInv, Busy, ProfileShowsRow
<1> QED
  BY <1>1, AccountsInvariant, PTL
=============================================================================
