---------------------------- MODULE Sockets ----------------------------
(***************************************************************************)
(* WSManager (packages/ws-client/src/WSManager.ts) as the pages use it: a  *)
(* client is made when its page is mounted, connects once, reconnects      *)
(* after every close, and is disconnected when the page goes away.         *)
(*                                                                         *)
(* A socket is used once; socket i of client u is the i-th it ever made.   *)
(* The length of a backoff delay is left out: a timer fires at any time.   *)
(***************************************************************************)
EXTENDS Naturals, FiniteSets

CONSTANTS
    Clients,     \* the pages that hold a client, one each
    MaxSockets   \* bound: MaxSockets[u] sockets are ever made by u

ASSUME SocketsAssumption == MaxSockets \in [Clients -> Nat \ {0}]

VARIABLES
    mounts,           \* mounts[u]: times the page of u was mounted
    mounted,          \* mounted[u]
    sock,             \* sock[u][i]: readyState of socket i
    ws,               \* ws[u]: this.ws, 0 for null
    shouldReconnect,  \* shouldReconnect[u]
    retryTimer,       \* retryTimer[u]: a reconnect is scheduled
    live              \* live[u]: what the last status event told the page

socketVars == <<mounts, mounted, sock, ws, shouldReconnect, retryTimer, live>>

Sockets(u) == 1 .. MaxSockets[u]

SocketsTypeOK ==
    /\ \A u \in Clients :
          /\ mounts[u] \in 0 .. MaxSockets[u]
          /\ sock[u] \in [Sockets(u) -> {"unused", "connecting", "open", "closing", "closed"}]
          /\ ws[u] \in 0 .. MaxSockets[u]
    /\ mounted \in [Clients -> BOOLEAN]
    /\ shouldReconnect \in [Clients -> BOOLEAN]
    /\ retryTimer \in [Clients -> BOOLEAN]
    /\ live \in [Clients -> BOOLEAN]

\* No page is mounted.  The page of u was mounted past[u] times before, and
\* its sockets have closed.
SocketsStart(past) ==
    /\ mounts = past
    /\ mounted = [u \in Clients |-> FALSE]
    /\ sock = [u \in Clients |-> [i \in Sockets(u) |-> IF i <= past[u] THEN "closed" ELSE "unused"]]
    /\ ws = [u \in Clients |-> 0]
    /\ shouldReconnect = [u \in Clients |-> FALSE]
    /\ retryTimer = [u \in Clients |-> FALSE]
    /\ live = [u \in Clients |-> FALSE]

\* readyState of this.ws.
Ready(u) == IF ws[u] = 0 THEN "null" ELSE sock[u][ws[u]]

\* A socket may still be made; the bound also limits how often one may fail.
Fresh(u) == {i \in Sockets(u) : sock[u][i] = "unused"}
Next1(S) == CHOOSE i \in S : \A j \in S : i <= j

\* _connect: a new socket becomes this.ws, whatever the old one does.
NewSocket(u) ==
    LET i == Next1(Fresh(u)) IN
    /\ Fresh(u) # {}
    /\ sock' = [sock EXCEPT ![u][i] = "connecting"]
    /\ ws' = [ws EXCEPT ![u] = i]

\* The page's effect runs: a new manager, connect().  Live starts FALSE
\* where it is the page's own state; keepsLive: it is in a store that stays.
Mount(u, keepsLive) ==
    /\ ~mounted[u]
    /\ mounts' = [mounts EXCEPT ![u] = @ + 1]
    /\ mounted' = [mounted EXCEPT ![u] = TRUE]
    /\ shouldReconnect' = [shouldReconnect EXCEPT ![u] = TRUE]
    /\ retryTimer' = [retryTimer EXCEPT ![u] = FALSE]
    /\ live' = [live EXCEPT ![u] = @ /\ keepsLive]
    /\ NewSocket(u)

\* The effect's cleanup: unsubscribe, then disconnect().
Unmount(u) ==
    /\ mounted[u]
    /\ mounted' = [mounted EXCEPT ![u] = FALSE]
    /\ shouldReconnect' = [shouldReconnect EXCEPT ![u] = FALSE]
    /\ retryTimer' = [retryTimer EXCEPT ![u] = FALSE]
    /\ sock' = IF Ready(u) \in {"connecting", "open"}
               THEN [sock EXCEPT ![u][ws[u]] = "closing"] ELSE sock
    /\ ws' = [ws EXCEPT ![u] = 0]
    /\ UNCHANGED <<mounts, live>>

RemakeWithoutCleanup(u) ==    \* mutant: the effect returns no cleanup
    /\ mounted[u]
    /\ mounts' = [mounts EXCEPT ![u] = @ + 1]
    /\ retryTimer' = [retryTimer EXCEPT ![u] = FALSE]
    /\ live' = [live EXCEPT ![u] = FALSE]
    /\ NewSocket(u)
    /\ UNCHANGED <<mounted, shouldReconnect>>

\* The effect runs again, because what it depends on changed: its cleanup and
\* then a new manager, in one go.
Remake(u) ==
    LET i == Next1(Fresh(u)) IN
    /\ mounted[u] /\ Fresh(u) # {}
    /\ mounts' = [mounts EXCEPT ![u] = @ + 1]
    /\ sock' = [sock EXCEPT ![u] = [j \in Sockets(u) |->
                  CASE j = i -> "connecting"
                    [] j = ws[u] /\ @[j] \in {"connecting", "open"} -> "closing"
                    [] OTHER -> @[j]]]
    /\ ws' = [ws EXCEPT ![u] = i]
    /\ retryTimer' = [retryTimer EXCEPT ![u] = FALSE]
    /\ live' = [live EXCEPT ![u] = FALSE]
    /\ UNCHANGED <<mounted, shouldReconnect>>

\* onopen
Opened(u, i) ==
    /\ sock[u][i] = "connecting"
    /\ sock' = [sock EXCEPT ![u][i] = "open"]
    /\ live' = [live EXCEPT ![u] = TRUE]
    /\ UNCHANGED <<mounts, mounted, ws, shouldReconnect, retryTimer>>

ClosedSilently(u, i) ==    \* mutant: only a socket that was open is reported and replaced
    /\ \/ sock[u][i] = "closing"
       \/ sock[u][i] \in {"connecting", "open"} /\ Fresh(u) # {}
    /\ sock' = [sock EXCEPT ![u][i] = "closed"]
    /\ live' = [live EXCEPT ![u] = (@ /\ sock[u][i] # "open")]
    /\ retryTimer' = [retryTimer EXCEPT ![u] = @ \/ (sock[u][i] = "open" /\ shouldReconnect[u])]
    /\ UNCHANGED <<mounts, mounted, ws, shouldReconnect>>

\* onclose, after an error, a loss of the network or close().  Status
\* handlers are gone once the page is, and i is then a closing socket.
Closed(u, i) ==
    /\ \/ sock[u][i] = "closing"
       \/ sock[u][i] \in {"connecting", "open"} /\ Fresh(u) # {}
    /\ sock' = [sock EXCEPT ![u][i] = "closed"]
    /\ IF sock[u][i] = "closing"
       THEN UNCHANGED <<live, retryTimer>>
       ELSE /\ live' = [live EXCEPT ![u] = FALSE]
            /\ retryTimer' = [retryTimer EXCEPT ![u] = shouldReconnect[u]]
    /\ UNCHANGED <<mounts, mounted, ws, shouldReconnect>>

TimerFires(u) ==
    /\ retryTimer[u]
    /\ retryTimer' = [retryTimer EXCEPT ![u] = FALSE]
    /\ NewSocket(u)
    /\ UNCHANGED <<mounts, mounted, shouldReconnect, live>>

----------------------------------------------------------------------------
\* A page has one socket at most that is open or on its way, it is the one
\* send() uses, and a page that is gone leaves none of them behind and no
\* timer that would make one (WSManager.ts, connect, disconnect).
OneSocketPerPage ==
    \A u \in Clients :
        LET up == {i \in Sockets(u) : sock[u][i] \in {"connecting", "open"}} IN
        /\ up \subseteq {ws[u]}
        /\ ~mounted[u] => ws[u] = 0 /\ ~retryTimer[u]
        /\ mounted[u] => (up # {} <=> ~retryTimer[u])
=============================================================================
