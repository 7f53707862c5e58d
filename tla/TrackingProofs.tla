-------------------------- MODULE TrackingProofs --------------------------
(***************************************************************************)
(* Two promises of the live-tracking pages, for any number of clients,     *)
(* trips and reconnects: a page has one socket at most, and what reaches   *)
(* the store is about the trip on screen.                                  *)
(*                                                                         *)
(* OneSocketPerPage is nearly inductive.  What it leaves out is that only  *)
(* a client that should not reconnect is one whose page is gone, and that  *)
(* sockets are used up in order, so that there is a next one to make.      *)
(* OnlyTheTripOnScreen then follows: a page that is gone has no socket on  *)
(* which a location could come in.                                         *)
(***************************************************************************)
EXTENDS Tracking, TLAPS

SocketStates == {"unused", "connecting", "open", "closing", "closed"}
Up == {"connecting", "open"}

SocketShapes ==
    /\ mounted \in [Clients -> BOOLEAN]
    /\ shouldReconnect \in [Clients -> BOOLEAN]
    /\ retryTimer \in [Clients -> BOOLEAN]
    /\ ws \in [Clients -> Nat]
    /\ sock \in [Clients -> UNION {[Sockets(u) -> SocketStates] : u \in Clients}]
    /\ \A u \in Clients : sock[u] \in [Sockets(u) -> SocketStates]

\* The client u of a page that is there, or gone.
OneSocket(u) ==
    /\ \A i \in Sockets(u) : sock[u][i] \in Up => i = ws[u]
    /\ ws[u] \in {0} \cup Sockets(u)
    /\ ~mounted[u] => ws[u] = 0 /\ ~retryTimer[u]
    /\ mounted[u] => shouldReconnect[u]
    /\ mounted[u] => ((\E i \in Sockets(u) : sock[u][i] \in Up) <=> ~retryTimer[u])

UsedInOrder(u) ==
    \E n \in 0 .. MaxSockets[u] : \A i \in Sockets(u) : sock[u][i] = "unused" <=> i > n

SocketInv == SocketShapes /\ \A u \in Clients : OneSocket(u) /\ UsedInOrder(u)

\* What a step of the client u leaves alone.
Others(u) ==
    \A v \in Clients \ {u} :
        /\ sock'[v] = sock[v] /\ ws'[v] = ws[v] /\ mounted'[v] = mounted[v]
        /\ shouldReconnect'[v] = shouldReconnect[v] /\ retryTimer'[v] = retryTimer[v]

----------------------------------------------------------------------------
(* The client.                                                             *)

LEMMA OneSocketFromInv == SocketInv => OneSocketPerPage
BY SocketsAssumption DEF SocketInv, OneSocket, OneSocketPerPage, Up

LEMMA StepOfOne ==
    ASSUME SocketInv, NEW u \in Clients, SocketShapes', OneSocket(u)', UsedInOrder(u)', Others(u)
    PROVE  SocketInv'
<1>1. \A v \in Clients \ {u} : OneSocket(v)' /\ UsedInOrder(v)'
      BY DEF SocketInv, Others, OneSocket, UsedInOrder, Sockets
<1> QED BY <1>1 DEF SocketInv

LEMMA NextSocket ==
    ASSUME SocketInv, NEW u \in Clients, Fresh(u) # {}
    PROVE  /\ Next1(Fresh(u)) \in Fresh(u)
           /\ \A j \in Fresh(u) : Next1(Fresh(u)) <= j
<1>1. PICK n \in 0 .. MaxSockets[u] : \A i \in Sockets(u) : sock[u][i] = "unused" <=> i > n
      BY DEF SocketInv, UsedInOrder
<1>2. MaxSockets[u] \in Nat
      BY SocketsAssumption
<1>3. n + 1 \in Fresh(u) /\ \A j \in Fresh(u) : n + 1 <= j
      BY <1>1, <1>2 DEF Fresh, Sockets
<1> QED BY <1>3 DEF Next1

\* One socket gets another state.
LEMMA SocketSet ==
    ASSUME SocketShapes, NEW u \in Clients, NEW i \in Sockets(u), NEW s \in SocketStates,
           sock' = [sock EXCEPT ![u][i] = s]
    PROVE  /\ sock' \in [Clients -> UNION {[Sockets(v) -> SocketStates] : v \in Clients}]
           /\ \A v \in Clients : sock'[v] \in [Sockets(v) -> SocketStates]
           /\ \A v \in Clients \ {u} : sock'[v] = sock[v]
           /\ \A j \in Sockets(u) : sock'[u][j] = IF j = i THEN s ELSE sock[u][j]
<1> DEFINE X == UNION {[Sockets(v) -> SocketStates] : v \in Clients}
           f == [sock[u] EXCEPT ![i] = s]
<1>1. sock[u] \in [Sockets(u) -> SocketStates] /\ sock \in [Clients -> X]
      BY DEF SocketShapes
<1>2. /\ f \in [Sockets(u) -> SocketStates]
      /\ \A j \in Sockets(u) : f[j] = IF j = i THEN s ELSE sock[u][j]
      BY <1>1
<1>3. f \in X
      BY <1>2
<1>4. sock' = [sock EXCEPT ![u] = f]
      OBVIOUS
<1> HIDE DEF X, f
<1>5. /\ sock' \in [Clients -> X] /\ sock'[u] = f
      /\ \A v \in Clients \ {u} : sock'[v] = sock[v]
      BY <1>1, <1>3, <1>4
<1>6. \A v \in Clients : sock'[v] \in [Sockets(v) -> SocketStates]
      BY <1>2, <1>5 DEF SocketShapes
<1> QED BY <1>2, <1>5, <1>6 DEF X

\* The next socket is used: those before it stay used.
LEMMA SocketMade ==
    ASSUME SocketInv, NEW u \in Clients, NewSocket(u)
    PROVE  \E i \in Sockets(u) :
              /\ sock' \in [Clients -> UNION {[Sockets(v) -> SocketStates] : v \in Clients}]
              /\ \A v \in Clients : sock'[v] \in [Sockets(v) -> SocketStates]
              /\ \A v \in Clients \ {u} : sock'[v] = sock[v]
              /\ \A j \in Sockets(u) :
                    sock'[u][j] = IF j = i THEN "connecting" ELSE sock[u][j]
              /\ ws' = [ws EXCEPT ![u] = i] /\ i \in Nat
              /\ UsedInOrder(u)'
<1> DEFINE i == Next1(Fresh(u))
           s == "connecting"
<1>1. i \in Fresh(u) /\ \A j \in Fresh(u) : i <= j
      BY NextSocket DEF NewSocket
<1>2. i \in Sockets(u) /\ sock[u][i] = "unused" /\ s \in SocketStates /\ s # "unused"
      BY <1>1 DEF Fresh, SocketStates
<1>3. sock' = [sock EXCEPT ![u][i] = s] /\ ws' = [ws EXCEPT ![u] = i]
      BY DEF NewSocket
<1>4. MaxSockets[u] \in Nat /\ i \in 1 .. MaxSockets[u]
      BY <1>2, SocketsAssumption DEF Sockets
<1>5. \A j \in Sockets(u) : sock[u][j] = "unused" => i <= j
      BY <1>1 DEF Fresh
<1>6. PICK n \in 0 .. MaxSockets[u] : \A j \in Sockets(u) : sock[u][j] = "unused" <=> j > n
      BY DEF SocketInv, UsedInOrder
<1> HIDE DEF i, s
<1>7. /\ sock' \in [Clients -> UNION {[Sockets(v) -> SocketStates] : v \in Clients}]
      /\ \A v \in Clients : sock'[v] \in [Sockets(v) -> SocketStates]
      /\ \A v \in Clients \ {u} : sock'[v] = sock[v]
      /\ \A j \in Sockets(u) : sock'[u][j] = IF j = i THEN s ELSE sock[u][j]
      BY <1>2, <1>3, SocketSet DEF SocketInv
<1>8. i = n + 1
      BY <1>2, <1>4, <1>5, <1>6 DEF Sockets
<1>9. \A j \in Sockets(u) : sock'[u][j] = "unused" <=> j > i
  <2> SUFFICES ASSUME NEW j \in Sockets(u) PROVE sock'[u][j] = "unused" <=> j > i
      OBVIOUS
  <2>1. j \in Nat /\ n \in Nat
        BY <1>4 DEF Sockets
  <2>2. CASE j = i
    <3>1. sock'[u][j] = s
          BY <1>7, <2>2
    <3> QED BY <1>2, <1>8, <2>1, <2>2, <3>1
  <2>3. CASE j # i
    <3>1. sock'[u][j] = sock[u][j]
          BY <1>7, <2>3
    <3>2. sock[u][j] = "unused" <=> j > n
          BY <1>6
    <3> QED BY <1>8, <2>1, <2>3, <3>1, <3>2
  <2> QED BY <2>2, <2>3
<1>10. UsedInOrder(u)'
      BY <1>4, <1>9 DEF UsedInOrder, Sockets
<1>11. i \in Nat
      BY <1>4
<1> QED BY <1>2, <1>3, <1>7, <1>10, <1>11 DEF s

LEMMA MountStep ==
    ASSUME SocketInv, NEW u \in Clients, NEW k, Mount(u, k)
    PROVE  SocketInv'
<1>1. PICK i \in Sockets(u) :
              /\ sock' \in [Clients -> UNION {[Sockets(v) -> SocketStates] : v \in Clients}]
              /\ \A v \in Clients : sock'[v] \in [Sockets(v) -> SocketStates]
              /\ \A v \in Clients \ {u} : sock'[v] = sock[v]
              /\ \A j \in Sockets(u) :
                    sock'[u][j] = IF j = i THEN "connecting" ELSE sock[u][j]
              /\ ws' = [ws EXCEPT ![u] = i] /\ i \in Nat
              /\ UsedInOrder(u)'
      BY SocketMade DEF Mount
<1>2. SocketShapes' /\ Others(u)
      BY <1>1 DEF Mount, SocketInv, SocketShapes, Others
<1>3. \A j \in Sockets(u) : sock[u][j] \notin Up
      BY SocketsAssumption DEF Mount, SocketInv, OneSocket, Sockets
<1>4. /\ ws'[u] = i /\ mounted'[u] = TRUE /\ shouldReconnect'[u] = TRUE /\ retryTimer'[u] = FALSE
      BY <1>1 DEF Mount, SocketInv, SocketShapes
<1>5. OneSocket(u)'
      BY <1>1, <1>3, <1>4 DEF OneSocket, Up, Sockets
<1> QED BY <1>1, <1>2, <1>5, StepOfOne

LEMMA TimerStep ==
    ASSUME SocketInv, NEW u \in Clients, TimerFires(u)
    PROVE  SocketInv'
<1>1. PICK i \in Sockets(u) :
              /\ sock' \in [Clients -> UNION {[Sockets(v) -> SocketStates] : v \in Clients}]
              /\ \A v \in Clients : sock'[v] \in [Sockets(v) -> SocketStates]
              /\ \A v \in Clients \ {u} : sock'[v] = sock[v]
              /\ \A j \in Sockets(u) :
                    sock'[u][j] = IF j = i THEN "connecting" ELSE sock[u][j]
              /\ ws' = [ws EXCEPT ![u] = i] /\ i \in Nat
              /\ UsedInOrder(u)'
      BY SocketMade DEF TimerFires
<1>2. SocketShapes' /\ Others(u)
      BY <1>1 DEF TimerFires, SocketInv, SocketShapes, Others
<1>3. mounted[u] /\ shouldReconnect[u] /\ \A j \in Sockets(u) : sock[u][j] \notin Up
      BY DEF TimerFires, SocketInv, SocketShapes, OneSocket
<1>4. /\ ws'[u] = i /\ mounted'[u] = TRUE /\ shouldReconnect'[u] = TRUE /\ retryTimer'[u] = FALSE
      BY <1>1, <1>3 DEF TimerFires, SocketInv, SocketShapes
<1>5. OneSocket(u)'
      BY <1>1, <1>3, <1>4 DEF OneSocket, Up, Sockets
<1> QED BY <1>1, <1>2, <1>5, StepOfOne

\* A used socket gets another state that is not "unused".
LEMMA StaysUsed ==
    ASSUME NEW u \in Clients, UsedInOrder(u),
           \A j \in Sockets(u) : sock'[u][j] = "unused" <=> sock[u][j] = "unused"
    PROVE  UsedInOrder(u)'
BY DEF UsedInOrder, Sockets

LEMMA UnmountStep ==
    ASSUME SocketInv, NEW u \in Clients, Unmount(u)
    PROVE  SocketInv'
<1> DEFINE i == ws[u]
           s == "closing"
<1>1. /\ mounted'[u] = FALSE /\ ws'[u] = 0 /\ retryTimer'[u] = FALSE
      /\ ws' \in [Clients -> Nat] /\ mounted' \in [Clients -> BOOLEAN]
      /\ shouldReconnect' \in [Clients -> BOOLEAN] /\ retryTimer' \in [Clients -> BOOLEAN]
      BY DEF Unmount, SocketInv, SocketShapes
<1>2. \A v \in Clients \ {u} :
        /\ ws'[v] = ws[v] /\ mounted'[v] = mounted[v]
        /\ shouldReconnect'[v] = shouldReconnect[v] /\ retryTimer'[v] = retryTimer[v]
      BY DEF Unmount, SocketInv, SocketShapes
<1>3. s \in SocketStates /\ s # "unused" /\ s \notin Up
      BY DEF SocketStates, Up
<1>4. ASSUME /\ sock' \in [Clients -> UNION {[Sockets(v) -> SocketStates] : v \in Clients}]
             /\ \A v \in Clients : sock'[v] \in [Sockets(v) -> SocketStates]
             /\ \A v \in Clients \ {u} : sock'[v] = sock[v],
             \A j \in Sockets(u) :
                /\ sock'[u][j] = "unused" <=> sock[u][j] = "unused"
                /\ sock'[u][j] \notin Up
      PROVE  SocketInv'
  <2>1. SocketShapes' /\ Others(u)
        BY <1>1, <1>2, <1>4 DEF SocketShapes, Others
  <2>2. OneSocket(u)'
        BY <1>1, <1>4 DEF OneSocket, Sockets
  <2>3. UsedInOrder(u)'
        BY <1>4, StaysUsed DEF SocketInv
  <2> QED BY <2>1, <2>2, <2>3, StepOfOne
<1>5. CASE Ready(u) \in {"connecting", "open"}
  <2>1. /\ i \in Sockets(u) /\ sock[u][i] \in Up
        BY <1>5 DEF Ready, SocketInv, OneSocket, Up
  <2>2. sock' = [sock EXCEPT ![u][i] = s]
        BY <1>5 DEF Unmount
  <2>3. \A j \in Sockets(u) : j # i => sock[u][j] \notin Up
        BY DEF SocketInv, OneSocket
  <2> HIDE DEF i, s
  <2>4. /\ sock' \in [Clients -> UNION {[Sockets(v) -> SocketStates] : v \in Clients}]
        /\ \A v \in Clients : sock'[v] \in [Sockets(v) -> SocketStates]
        /\ \A v \in Clients \ {u} : sock'[v] = sock[v]
        /\ \A j \in Sockets(u) : sock'[u][j] = IF j = i THEN s ELSE sock[u][j]
        BY <1>3, <2>1, <2>2, SocketSet DEF SocketInv
  <2> QED BY <1>3, <1>4, <2>1, <2>3, <2>4 DEF Up
<1>6. CASE Ready(u) \notin {"connecting", "open"}
  <2>1. \A j \in Sockets(u) : sock[u][j] \notin Up
        BY <1>6, SocketsAssumption DEF Ready, SocketInv, OneSocket, Up, Sockets
  <2>2. UNCHANGED sock
        BY <1>6 DEF Unmount
  <2> QED BY <1>4, <2>1, <2>2 DEF SocketInv, SocketShapes
<1> QED BY <1>5, <1>6

LEMMA RemakeStep ==
    ASSUME SocketInv, NEW u \in Clients, Remake(u)
    PROVE  SocketInv'
<1> DEFINE i == Next1(Fresh(u))
           X == UNION {[Sockets(v) -> SocketStates] : v \in Clients}
           f == [j \in Sockets(u) |-> CASE j = i -> "connecting"
                    [] j = ws[u] /\ sock[u][j] \in {"connecting", "open"} -> "closing"
                    [] OTHER -> sock[u][j]]
<1>1. i \in Fresh(u) /\ \A j \in Fresh(u) : i <= j
      BY NextSocket DEF Remake
<1>2. i \in Sockets(u) /\ sock[u][i] = "unused" /\ mounted[u]
      BY <1>1 DEF Fresh, Remake
<1>3. sock' = [sock EXCEPT ![u] = f] /\ ws' = [ws EXCEPT ![u] = i]
      BY DEF Remake
<1>4. MaxSockets[u] \in Nat /\ i \in 1 .. MaxSockets[u] /\ i \in Nat
      BY <1>2, SocketsAssumption DEF Sockets
<1>5. \A j \in Sockets(u) : sock[u][j] = "unused" => i <= j
      BY <1>1 DEF Fresh
<1>6. PICK n \in 0 .. MaxSockets[u] : \A j \in Sockets(u) : sock[u][j] = "unused" <=> j > n
      BY DEF SocketInv, UsedInOrder
<1>7. sock[u] \in [Sockets(u) -> SocketStates] /\ sock \in [Clients -> X]
      BY DEF SocketInv, SocketShapes
<1>8. \A j \in Sockets(u) : sock[u][j] \in Up => j = ws[u]
      BY DEF SocketInv, OneSocket
<1> HIDE DEF i
<1>9. f \in [Sockets(u) -> SocketStates]
      BY <1>7 DEF SocketStates
<1>10. \A j \in Sockets(u) :
          /\ f[j] = "unused" <=> sock[u][j] = "unused" /\ j # i
          /\ f[j] \in Up <=> j = i
  <2> SUFFICES ASSUME NEW j \in Sockets(u)
               PROVE  /\ f[j] = "unused" <=> sock[u][j] = "unused" /\ j # i
                      /\ f[j] \in Up <=> j = i
      OBVIOUS
  <2>1. CASE j = i
        BY <1>2, <2>1 DEF Up
  <2>2. CASE j # i /\ sock[u][j] \in Up
    <3>1. f[j] = "closing"
          BY <1>8, <2>2 DEF Up
    <3> QED BY <2>2, <3>1 DEF Up
  <2>3. CASE j # i /\ sock[u][j] \notin Up
    <3>1. f[j] = sock[u][j]
          BY <2>3 DEF Up
    <3> QED BY <2>3, <3>1 DEF Up
  <2> QED BY <2>1, <2>2, <2>3
<1>11. f \in X
      BY <1>9
<1> HIDE DEF X, f
<1>12. /\ sock' \in [Clients -> X] /\ sock'[u] = f
       /\ \A v \in Clients \ {u} : sock'[v] = sock[v]
      BY <1>3, <1>7, <1>11
<1>13. \A v \in Clients : sock'[v] \in [Sockets(v) -> SocketStates]
      BY <1>9, <1>12 DEF SocketInv, SocketShapes
<1>14. SocketShapes' /\ Others(u)
      BY <1>3, <1>4, <1>12, <1>13 DEF Remake, SocketInv, SocketShapes, Others, X
<1>15. /\ ws'[u] = i /\ mounted'[u] = TRUE /\ shouldReconnect'[u] = TRUE /\ retryTimer'[u] = FALSE
      BY <1>2, <1>3 DEF Remake, SocketInv, SocketShapes, OneSocket
<1>16. OneSocket(u)'
      BY <1>2, <1>10, <1>12, <1>15 DEF OneSocket, Sockets
<1>17. \A j \in Sockets(u) : sock'[u][j] = "unused" <=> j > i
      BY <1>2, <1>4, <1>5, <1>6, <1>10, <1>12 DEF Sockets
<1>18. UsedInOrder(u)'
      BY <1>4, <1>17 DEF UsedInOrder, Sockets
<1> QED BY <1>14, <1>16, <1>18, StepOfOne

LEMMA OpenedStep ==
    ASSUME SocketInv, NEW u \in Clients, NEW i \in Sockets(u), Opened(u, i)
    PROVE  SocketInv'
<1> DEFINE s == "open"
<1>1. s \in SocketStates /\ s \in Up /\ s # "unused" /\ sock[u][i] \in Up /\ sock[u][i] # "unused"
      BY DEF Opened, SocketStates, Up
<1>2. sock' = [sock EXCEPT ![u][i] = s]
      BY DEF Opened
<1> HIDE DEF s
<1>3. /\ sock' \in [Clients -> UNION {[Sockets(v) -> SocketStates] : v \in Clients}]
      /\ \A v \in Clients : sock'[v] \in [Sockets(v) -> SocketStates]
      /\ \A v \in Clients \ {u} : sock'[v] = sock[v]
      /\ \A j \in Sockets(u) : sock'[u][j] = IF j = i THEN s ELSE sock[u][j]
      BY <1>1, <1>2, SocketSet DEF SocketInv
<1>4. SocketShapes' /\ Others(u)
      BY <1>3 DEF Opened, SocketInv, SocketShapes, Others
<1>5. UsedInOrder(u)'
      BY <1>1, <1>3, StaysUsed DEF SocketInv
<1>6. \A j \in Sockets(u) : sock'[u][j] \in Up <=> sock[u][j] \in Up
      BY <1>1, <1>3
<1>7. OneSocket(u)'
      BY <1>6 DEF Opened, SocketInv, OneSocket, Sockets
<1> QED BY <1>4, <1>5, <1>7, StepOfOne

LEMMA ClosedStep ==
    ASSUME SocketInv, NEW u \in Clients, NEW i \in Sockets(u), Closed(u, i)
    PROVE  SocketInv'
<1> DEFINE s == "closed"
<1>1. s \in SocketStates /\ s \notin Up /\ s # "unused" /\ sock[u][i] # "unused"
      BY DEF Closed, SocketStates, Up
<1>2. sock' = [sock EXCEPT ![u][i] = s]
      BY DEF Closed
<1> HIDE DEF s
<1>3. /\ sock' \in [Clients -> UNION {[Sockets(v) -> SocketStates] : v \in Clients}]
      /\ \A v \in Clients : sock'[v] \in [Sockets(v) -> SocketStates]
      /\ \A v \in Clients \ {u} : sock'[v] = sock[v]
      /\ \A j \in Sockets(u) : sock'[u][j] = IF j = i THEN s ELSE sock[u][j]
      BY <1>1, <1>2, SocketSet DEF SocketInv
<1>4. SocketShapes' /\ Others(u)
      BY <1>3 DEF Closed, SocketInv, SocketShapes, Others
<1>5. UsedInOrder(u)'
      BY <1>1, <1>3, StaysUsed DEF SocketInv
<1>6. OneSocket(u)'
  <2>1. CASE sock[u][i] = "closing"
    <3>1. \A j \in Sockets(u) : sock'[u][j] \in Up <=> sock[u][j] \in Up
          BY <1>1, <1>3, <2>1 DEF Up
    <3> QED BY <2>1, <3>1 DEF Closed, SocketInv, OneSocket, Sockets
  <2>2. CASE sock[u][i] # "closing"
    <3>1. sock[u][i] \in Up /\ i = ws[u] /\ i # 0
          BY <2>2, SocketsAssumption DEF Closed, SocketInv, OneSocket, Up, Sockets
    <3>2. mounted[u] /\ shouldReconnect[u]
          BY <3>1 DEF SocketInv, SocketShapes, OneSocket
    <3>3. \A j \in Sockets(u) : sock'[u][j] \notin Up
          BY <1>1, <1>3, <3>1 DEF SocketInv, OneSocket
    <3>4. /\ ws'[u] = i /\ mounted'[u] = TRUE /\ shouldReconnect'[u] = TRUE
          /\ retryTimer'[u] = TRUE
          BY <2>2, <3>1, <3>2 DEF Closed, SocketInv, SocketShapes
    <3> QED BY <3>3, <3>4 DEF OneSocket, Sockets
  <2> QED BY <2>1, <2>2
<1> QED BY <1>4, <1>5, <1>6, StepOfOne

LEMMA QuietSockets ==
    ASSUME SocketInv, UNCHANGED socketVars
    PROVE  SocketInv'
BY DEF socketVars, SocketInv, SocketShapes, OneSocket, UsedInOrder, Sockets
----------------------------------------------------------------------------
(* The pages.                                                              *)

LEMMA TrackInitInv == TrackingInit => SocketInv
<1> SUFFICES ASSUME TrackingInit PROVE SocketInv
    OBVIOUS
<1> DEFINE past == [u \in Clients |-> 0]
<1>1. SocketsStart(past)
      BY DEF TrackingInit, TrackingStart
<1>2. \A u \in Clients : MaxSockets[u] \in Nat
      BY SocketsAssumption
<1>3. sock = [u \in Clients |-> [i \in Sockets(u) |-> "unused"]]
      BY <1>1, <1>2 DEF SocketsStart, Sockets
<1>4. \A u \in Clients : sock[u] \in [Sockets(u) -> SocketStates]
      BY <1>3 DEF SocketStates
<1>5. SocketShapes
      BY <1>1, <1>3, <1>4 DEF SocketsStart, SocketShapes
<1>6. ASSUME NEW u \in Clients PROVE OneSocket(u) /\ UsedInOrder(u)
  <2>1. \A i \in Sockets(u) : sock[u][i] = "unused" /\ i > 0
        BY <1>2, <1>3 DEF Sockets
  <2>2. OneSocket(u)
        BY <1>1, <2>1 DEF SocketsStart, OneSocket, Up
  <2>3. UsedInOrder(u)
        BY <1>2, <2>1 DEF UsedInOrder
  <2> QED BY <2>2, <2>3
<1> QED BY <1>5, <1>6 DEF SocketInv

\* Trip pages use their clients as WSManager allows, and nothing else.
LEMMA PublisherSteps ==
    ASSUME SocketInv, NEW p \in Publishers,
           \/ TripPage(p) \/ VehicleMoves(p) \/ LastExpires(p)
           \/ \E i \in Sockets(p) : PublisherSocket(p, i) \/ PublisherCloses(p, i)
    PROVE  SocketInv'
<1>1. p \in Clients
      BY TrackingAssumption
<1>2. CASE TripPage(p) /\ ~Publish(p)
      BY <1>1, <1>2, MountStep, RemakeStep, UnmountStep
         DEF TripPage, TripPageLoads, StatusArrives, TripPageCloses
<1>3. CASE Publish(p) \/ VehicleMoves(p) \/ LastExpires(p)
      BY <1>3, QuietSockets DEF Publish, VehicleMoves, LastExpires
<1>4. ASSUME NEW i \in Sockets(p), PublisherSocket(p, i) \/ PublisherCloses(p, i)
      PROVE  SocketInv'
      BY <1>1, <1>4, OpenedStep, ClosedStep, QuietSockets
         DEF PublisherSocket, PublishAccepted, FrameArrives, PublisherCloses
<1> QED BY <1>2, <1>3, <1>4

LEMMA WatcherSteps ==
    ASSUME SocketInv, NEW w \in Watchers,
           \/ TrackPage(w)
           \/ \E i \in Sockets(w) : WatcherSocket(w, i) \/ WatcherCloses(w, i)
    PROVE  SocketInv'
<1>1. w \in Clients
      BY DEF Watchers
<1>2. CASE TrackPage(w)
      BY <1>1, <1>2, MountStep, UnmountStep, QuietSockets
         DEF TrackPage, OpenTrack, CloseTrack, SignalCheck
<1>3. ASSUME NEW i \in Sockets(w), WatcherSocket(w, i) \/ WatcherCloses(w, i)
      PROVE  SocketInv'
      BY <1>1, <1>3, OpenedStep, ClosedStep, QuietSockets
         DEF WatcherSocket, WatchAccepted, SubscriptionStarts, SendLast, LocationArrives,
             WatcherCloses
<1> QED BY <1>2, <1>3

LEMMA TrackStepInv == SocketInv /\ [TrackingNext]_trackVars => SocketInv'
<1> SUFFICES ASSUME SocketInv, [TrackingNext]_trackVars PROVE SocketInv'
    OBVIOUS
<1>1. CASE UNCHANGED trackVars
      BY <1>1, QuietSockets DEF trackVars
<1>2. ASSUME NEW u \in Clients, Reconnect(u) \/ TokenExpires(u) PROVE SocketInv'
      BY <1>2, TimerStep, QuietSockets DEF Reconnect, TokenExpires
<1>3. ASSUME NEW t \in Trips, StatusChanges(t) PROVE SocketInv'
      BY <1>3, QuietSockets DEF StatusChanges
<1>4. CASE LocationAges
      BY <1>4, QuietSockets DEF LocationAges
<1> QED BY <1>1, <1>2, <1>3, <1>4, PublisherSteps, WatcherSteps DEF TrackingNext

----------------------------------------------------------------------------
(* The theorems.                                                           *)

\* The sockets, their client's fields and its timer, over all reconnects,
\* remakes and visits (WSManager.ts).
THEOREM SocketInvariant == TrackingSpec => []SocketInv
BY TrackInitInv, TrackStepInv, PTL DEF TrackingSpec

\* A page has one socket at most, the one send() uses; without one it has a
\* timer; and a page that is gone has neither (WSManager.ts, connect,
\* disconnect).
THEOREM TrackersHaveOneSocket == TrackingSpec => []OneSocketPerPage
<1> QED BY OneSocketFromInv, SocketInvariant, PTL

\* A location of another trip than the one on screen never reaches the store
\* (the track page's unsubMsg, WSManager.ts, disconnect).
THEOREM StoreIsOfScreen == TrackingSpec => OnlyTheTripOnScreen
<1>1. ASSUME SocketInv, TrackingNext, loc' # loc \/ (age' = "fresh" /\ age # "fresh")
      PROVE  \E w \in Watchers : mounted[w] /\ \A l \in loc' : l.trip = TripOf[w]
  <2>1. ASSUME NEW p \in Publishers,
               \/ TripPage(p) \/ VehicleMoves(p) \/ LastExpires(p)
               \/ \E i \in Sockets(p) : PublisherSocket(p, i) \/ PublisherCloses(p, i)
        PROVE  loc' = loc /\ age' = age
        BY <2>1 DEF TripPage, TripPageLoads, StatusArrives, TripPageCloses, Publish, VehicleMoves,
           LastExpires, PublisherSocket, PublishAccepted, FrameArrives, PublisherCloses,
           storeVars
  <2>2. ASSUME NEW w \in Watchers, TrackPage(w) PROVE loc' = loc /\ age' = age
        BY <2>2 DEF TrackPage, OpenTrack, CloseTrack, SignalCheck, storeVars
  <2>3. ASSUME NEW w \in Watchers, NEW i \in Sockets(w),
               WatcherSocket(w, i) \/ WatcherCloses(w, i), ~LocationArrives(w, i)
        PROVE  loc' = loc /\ age' = age
        BY <2>3 DEF WatcherSocket, WatchAccepted, SubscriptionStarts, SendLast, WatcherCloses,
           storeVars
  <2>4. ASSUME NEW u \in Clients, Reconnect(u) \/ TokenExpires(u) PROVE loc' = loc /\ age' = age
        BY <2>4 DEF Reconnect, TokenExpires, storeVars
  <2>5. ASSUME NEW t \in Trips, StatusChanges(t) PROVE loc' = loc /\ age' = age
        BY <2>5 DEF StatusChanges, storeVars
  <2>6. ASSUME LocationAges PROVE loc' = loc /\ age' = "old"
        BY <2>6 DEF LocationAges
  <2>7. PICK w \in Watchers : \E i \in Sockets(w) : LocationArrives(w, i)
        BY <1>1, <2>1, <2>2, <2>3, <2>4, <2>5, <2>6 DEF TrackingNext
  <2>8. PICK i \in Sockets(w) : LocationArrives(w, i)
        BY <2>7
  <2>9. mounted[w]
    <3>1. w \in Clients /\ sock[w][i] = "open"
          BY <2>8 DEF Watchers, LocationArrives
    <3>2. i = ws[w] /\ i # 0
          BY <1>1, <3>1, SocketsAssumption DEF SocketInv, OneSocket, Up, Sockets
    <3> QED BY <1>1, <3>1, <3>2 DEF SocketInv, SocketShapes, OneSocket
  <2>10. \A l \in loc' : l.trip = TripOf[w]
         BY <2>8 DEF LocationArrives
  <2> QED BY <2>9, <2>10
<1>2. SocketInv /\ [TrackingNext]_trackVars =>
        [loc' # loc \/ (age' = "fresh" /\ age # "fresh") =>
           \E w \in Watchers : mounted[w] /\ \A l \in loc' : l.trip = TripOf[w]]_trackVars
      BY <1>1
<1> QED BY <1>2, SocketInvariant, PTL DEF TrackingSpec, OnlyTheTripOnScreen
=============================================================================
