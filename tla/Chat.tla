----------------------------- MODULE Chat -----------------------------
(***************************************************************************)
(* The chat of one booking: the two chat pages with their ChatClient, the  *)
(* customer app's chatStore, and the service (internal/chat/service.go),   *)
(* whose hub holds one connection per user and whose handler reads one     *)
(* frame, stores it and broadcasts it.                                     *)
(*                                                                         *)
(* A frame carries the sender's n-th message (its client_uuid); a stored   *)
(* message is known by its id, its place in the table.                     *)
(***************************************************************************)
EXTENDS Sockets, Sequences, SequencesExt

CONSTANTS
    StoreUsers,  \* users whose messages live in a store and outlive the page
    MaxSends     \* bound: MaxSends[u] messages are sent by u

ASSUME ChatAssumption == StoreUsers \subseteq Clients /\ MaxSends \in [Clients -> Nat]

VARIABLES
    room,    \* chatAllowed: "open", "readonly" or "shut"
    stale,   \* stale[u]: the token in the URL of u's client has expired
    sent,    \* sent[u]: messages u has typed and sent
    up,      \* up[u][i]: frames on their way to the handler of socket i
    down,    \* down[u][i]: messages on their way to socket i
    conn,    \* conn[u][i]: the handler of socket i, by its loop
    saving,  \* saving[u][i]: id that the handler stored and has to broadcast
    hub,     \* hub[u]: connection registered for u, 0 for none
    table,   \* the stored messages, each as <<sender, n>>
    hist,    \* hist[u]: history calls in flight, each [mount, rows]
    shown    \* shown[u]: ids the page shows, in order

\* The loop for a disputed booking stores nothing and never looks at the
\* booking again; "none" is a handler that is not running.
Loops == {"none", "read-only", "chat"}

serverVars == <<conn, saving, hub, table>>
chatVars == <<socketVars, room, stale, sent, up, down, serverVars, hist, shown>>

Messages == UNION {{u} \X (1 .. MaxSends[u]) : u \in Clients}
Ids == 1 .. Cardinality(Messages)
Unread == Cardinality(Messages) + 1

ChatTypeOK ==
    /\ SocketsTypeOK
    /\ room \in {"open", "readonly", "shut"}
    /\ stale \in [Clients -> BOOLEAN]
    /\ \A u \in Clients : sent[u] \in 0 .. MaxSends[u] /\ hub[u] \in 0 .. MaxSockets[u]
    /\ \A u \in Clients : \A i \in Sockets(u) :
          /\ up[u][i] \in Seq(1 .. MaxSends[u]) /\ down[u][i] \in Seq(Ids)
          /\ conn[u][i] \in Loops
          /\ saving[u][i] \in Ids \cup {0}
    /\ table \in Seq(Messages)
    /\ \A u \in Clients : /\ hist[u] \subseteq [mount : 1 .. MaxSockets[u], rows : 0 .. Unread]
                          /\ shown[u] \in Seq(Ids)

\* The users in gone left the page as soon as they had sent one message, and
\* the handler of their socket has not noticed yet.
ChatStart(gone) ==
    /\ SocketsStart([u \in Clients |-> IF u \in gone THEN MaxSockets[u] ELSE 0])
    /\ room = "open"
    /\ stale = [u \in Clients |-> FALSE]
    /\ sent = [u \in Clients |-> IF u \in gone THEN 1 ELSE 0]
    /\ up = [u \in Clients |-> [i \in Sockets(u) |-> IF u \in gone /\ i = 1 THEN <<1>> ELSE << >>]]
    /\ down = [u \in Clients |-> [i \in Sockets(u) |-> << >>]]
    /\ conn = [u \in Clients |-> [i \in Sockets(u) |-> IF u \in gone /\ i = 1 THEN "chat" ELSE "none"]]
    /\ saving = [u \in Clients |-> [i \in Sockets(u) |-> 0]]
    /\ hub = [u \in Clients |-> IF u \in gone THEN 1 ELSE 0]
    /\ table = << >>
    /\ hist = [u \in Clients |-> {}]
    /\ shown = [u \in Clients |-> << >>]

ChatInit == ChatStart({})

----------------------------------------------------------------------------
\* The pages.

\* The page asks for the history and connects with the token of the moment.
OpenPage(u) ==
    /\ Mount(u, u \in StoreUsers)
    /\ hist' = [hist EXCEPT ![u] = @ \cup {[mount |-> mounts'[u], rows |-> Unread]}]
    /\ shown' = IF u \in StoreUsers THEN shown ELSE [shown EXCEPT ![u] = << >>]
    /\ stale' = [stale EXCEPT ![u] = FALSE]
    /\ UNCHANGED <<room, sent, up, down, serverVars>>

ClosePage(u) ==
    /\ Unmount(u)
    /\ stale' = [stale EXCEPT ![u] = FALSE]
    /\ UNCHANGED <<room, sent, up, down, serverVars, hist, shown>>

Reconnect(u) ==
    /\ TimerFires(u)
    /\ UNCHANGED <<room, stale, sent, up, down, serverVars, hist, shown>>

\* The service answers GET history: every message stored so far.
HistoryRead(u, h) ==
    /\ h.rows = Unread
    /\ hist' = [hist EXCEPT ![u] = (@ \ {h}) \cup {[h EXCEPT !.rows = Len(table)]}]
    /\ UNCHANGED <<socketVars, room, stale, sent, up, down, serverVars, shown>>

\* It replaces what is shown.  A store takes it even when its page is gone.
HistoryArrives(u, h) ==
    /\ h.rows # Unread
    /\ hist' = [hist EXCEPT ![u] = @ \ {h}]
    /\ shown' = IF (u \in StoreUsers) \/ (mounted[u] /\ h.mount = mounts[u])
                THEN [shown EXCEPT ![u] = [k \in 1 .. h.rows |-> k]]
                ELSE shown
    /\ UNCHANGED <<socketVars, room, stale, sent, up, down, serverVars>>

\* sendMessage: the field is cleared whether or not the socket is open.
SendMessage(u) ==
    /\ mounted[u] /\ sent[u] < MaxSends[u]
    /\ sent' = [sent EXCEPT ![u] = @ + 1]
    /\ up' = IF Ready(u) = "open" THEN [up EXCEPT ![u][ws[u]] = Append(@, sent'[u])] ELSE up
    /\ UNCHANGED <<socketVars, room, stale, down, serverVars, hist, shown>>

ReceiveTwice(u, i) ==    \* mutant: no look at the ids that are shown
    /\ sock[u][i] = "open" /\ down[u][i] # << >>
    /\ down' = [down EXCEPT ![u][i] = Tail(@)]
    /\ shown' = [shown EXCEPT ![u] = Append(@, Head(down[u][i]))]
    /\ UNCHANGED <<socketVars, room, stale, sent, up, serverVars, hist>>

\* onMessage, then appendMessage or setMessages: a message that is shown
\* already is not shown again.
Receive(u, i) ==
    /\ sock[u][i] = "open" /\ down[u][i] # << >>
    /\ down' = [down EXCEPT ![u][i] = Tail(@)]
    /\ shown' = IF Head(down[u][i]) \in Range(shown[u]) THEN shown
                ELSE [shown EXCEPT ![u] = Append(@, Head(down[u][i]))]
    /\ UNCHANGED <<socketVars, room, stale, sent, up, serverVars, hist>>

----------------------------------------------------------------------------
\* The service.

\* The upgrade passes JWTAuth and chatAllowed: Register, and the loop that
\* fits the booking of that moment.
Accept(u, i) ==
    /\ ~stale[u] /\ room # "shut"
    /\ Opened(u, i)
    /\ conn' = [conn EXCEPT ![u][i] = IF room = "open" THEN "chat" ELSE "read-only"]
    /\ hub' = [hub EXCEPT ![u] = i]
    /\ UNCHANGED <<room, stale, sent, up, down, saving, table, hist, shown>>

\* The upgrade is refused, the network drops the socket, or it was closed.
SocketCloses(u, i) ==
    /\ Closed(u, i)
    /\ down' = [down EXCEPT ![u][i] = << >>]
    /\ UNCHANGED <<room, stale, sent, up, serverVars, hist, shown>>

\* The room is shut, and the handler is about to see it.
TurnedOut(u, i) == conn[u][i] = "chat" /\ room = "shut" /\ up[u][i] # << >>

\* One turn of a loop, up to SaveMessage.
ReadFrame(u, i) ==
    LET m == <<u, Head(up[u][i])>> IN
    /\ conn[u][i] # "none" /\ saving[u][i] = 0 /\ up[u][i] # << >>
    /\ ~TurnedOut(u, i)
    /\ up' = [up EXCEPT ![u][i] = Tail(@)]
    /\ IF conn[u][i] = "chat" /\ room = "open" /\ m \notin Range(table)
       THEN /\ table' = Append(table, m)
            /\ saving' = [saving EXCEPT ![u][i] = Len(table')]
       ELSE UNCHANGED <<table, saving>>
    /\ UNCHANGED <<socketVars, room, stale, sent, down, conn, hub, hist, shown>>

\* Broadcast writes to every registered connection; one whose other end is
\* gone swallows it.
Broadcast(u, i) ==
    /\ saving[u][i] # 0
    /\ down' = [v \in Clients |-> [j \in Sockets(v) |->
                  IF hub[v] = j /\ sock[v][j] = "open"
                  THEN Append(down[v][j], saving[u][i]) ELSE down[v][j]]]
    /\ saving' = [saving EXCEPT ![u][i] = 0]
    /\ UNCHANGED <<socketVars, room, stale, sent, up, conn, hub, table, hist, shown>>

HandlerEndsRegistered(u, i) ==    \* mutant: Unregister is not deferred
    /\ conn[u][i] # "none" /\ saving[u][i] = 0
    /\ sock[u][i] \in {"closing", "closed"} \/ TurnedOut(u, i)
    /\ conn' = [conn EXCEPT ![u][i] = "none"]
    /\ up' = [up EXCEPT ![u][i] = << >>]
    /\ UNCHANGED <<socketVars, room, stale, sent, down, saving, hub, table, hist, shown>>

\* ReadJSON fails or the room is seen shut: the deferred Unregister removes the
\* connection the hub has for the user, whichever it is.
HandlerEnds(u, i) ==
    /\ conn[u][i] # "none" /\ saving[u][i] = 0
    /\ sock[u][i] \in {"closing", "closed"} \/ TurnedOut(u, i)
    /\ conn' = [conn EXCEPT ![u][i] = "none"]
    /\ hub' = [hub EXCEPT ![u] = 0]
    /\ up' = [up EXCEPT ![u][i] = << >>]
    /\ UNCHANGED <<socketVars, room, stale, sent, down, saving, table, hist, shown>>

\* The booking enters the states that have a chat or leaves them, is
\* disputed, even after its 48 hours, or completed after a dispute.
RoomChanges ==
    /\ room' \in {"open", "readonly", "shut"} \ {room}
    /\ UNCHANGED <<socketVars, stale, sent, up, down, serverVars, hist, shown>>

\* Only the next handshake can tell, so an open socket need not be looked at.
TokenExpires(u) ==
    /\ mounted[u] /\ ~stale[u] /\ Ready(u) # "open"
    /\ stale' = [stale EXCEPT ![u] = TRUE]
    /\ UNCHANGED <<socketVars, room, sent, up, down, serverVars, hist, shown>>

----------------------------------------------------------------------------
ServerStep(u, i) == ReadFrame(u, i) \/ Broadcast(u, i) \/ HandlerEnds(u, i)

\* Each app has a chat page of its own, which differ in where the messages
\* live: in the store, or in the page.
ChatPage(u) ==
    \/ OpenPage(u) \/ ClosePage(u) \/ SendMessage(u)
    \/ \E h \in hist[u] : HistoryArrives(u, h)
    \/ \E i \in Sockets(u) : Receive(u, i)

CustomerChatPage(u) == u \in StoreUsers /\ ChatPage(u)
TransporterChatPage(u) == u \notin StoreUsers /\ ChatPage(u)

ChatNext ==
    \/ \E u \in Clients :
          \/ CustomerChatPage(u) \/ TransporterChatPage(u)
          \/ Reconnect(u) \/ TokenExpires(u)
          \/ \E h \in hist[u] : HistoryRead(u, h)
          \/ \E i \in Sockets(u) : Accept(u, i) \/ SocketCloses(u, i) \/ ServerStep(u, i)
    \/ RoomChanges

ChatSpec == ChatInit /\ [][ChatNext]_chatVars

----------------------------------------------------------------------------
\* No message is shown twice and none that is not stored, though history and
\* broadcasts overlap and arrive in any order (chatStore.appendMessage; the
\* transporter page's setMessages).
NoneShownTwice ==
    \A u \in Clients : IsInjective(shown[u]) /\ Range(shown[u]) \subseteq DOMAIN table

\* A connection in the hub has a handler that is still running, though the end
\* of an old handler and the upgrade of a new socket of the same user come in
\* any order (Unregister and Register): Broadcast never writes to a connection
\* that fiber has released.
HubIsServed ==
    \A u \in Clients : hub[u] # 0 => conn[u][hub[u]] # "none"

\* Whoever is connected is in the hub and so receives what is broadcast.  It
\* fails when the handler of an older socket ends: Unregister goes by user and
\* removes the newer connection (chat/service.go:38-47).
ConnectedIsRegistered ==
    \A u \in Clients :
        Ready(u) = "open" /\ conn[u][ws[u]] # "none" => hub[u] = ws[u]

\* What the README says of a reconnected client: it has replayed what it
\* missed.  With its socket open and nothing left in flight, a page shows
\* every stored message.
NothingMissed ==
    \A u \in Clients :
        /\ mounted[u] /\ Ready(u) = "open" /\ hist[u] = {}
        /\ \A v \in Clients : \A i \in Sockets(v) : saving[v][i] = 0 /\ down[v][i] = << >>
        => Range(shown[u]) = DOMAIN table
=============================================================================
