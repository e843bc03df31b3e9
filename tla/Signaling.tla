------------------------------ MODULE Signaling ------------------------------
(***************************************************************************)
(* The signaling server: WebSocket connections, the tables clients and     *)
(* userClients, and the relay of call messages between accounts.           *)
(*                                                                         *)
(* ws.on('message') starts an async handler for every message, so several  *)
(* handlers of one socket, its heartbeat, its 'close' event and the clean- *)
(* up timer interleave at every awaited query.  A task is a handler that   *)
(* waits for one.  A client sends one join per socket (CallService         *)
(* _connect, without a conversationId) and answers pings; it may vanish    *)
(* without closing.  Time is the age of lastPing: 0, 1 after 30 seconds,   *)
(* 2 after 60.                                                             *)
(***************************************************************************)
EXTENDS Integers, FiniteSets

CONSTANTS
    User,
    Socket,    \* connections, each with its clientId
    Account,   \* the account whose device opened each socket
    Talks,     \* pairs of users that share a conversation
    Callers,   \* bound: sockets whose clients send call messages
    Frail,     \* bound: sockets that may vanish or lose their session
    MaxTasks,  \* bound: handlers waiting at a time
    None

ASSUME SignalingAssumption ==
    /\ Account \in [Socket -> User]
    /\ Talks \subseteq User \X User
    /\ \A t \in Talks : <<t[2], t[1]>> \in Talks
    /\ Callers \subseteq Socket
    /\ Frail \subseteq Socket
    /\ MaxTasks \in Nat
    /\ None \notin User \cup Socket
    /\ None \notin [user : User, age : 0 .. 2]

VARIABLES
    ws,         \* the state of each WebSocket
    clients,    \* the ConnectedClient of each socket, or None
    userClients,\* the sockets filed under each user
    ticking,    \* the heartbeat interval is running
    pinged,     \* a ping was sent and not answered
    joining,    \* the client has sent its join
    tasks,      \* handlers that wait for a query
    valid,      \* accounts of sockets whose session token is valid
    delivered   \* the last broadcast: from, to and socket of each copy

vars == <<ws, clients, userClients, ticking, pinged, joining, tasks, valid,
          delivered>>

\* "silent" is open for the server, but the client has vanished.
IsOpen(c) == ws[c] \in {"open", "silent"}

Init ==
    /\ ws = [c \in Socket |-> "new"]
    /\ clients = [c \in Socket |-> None]
    /\ userClients = [u \in User |-> {}]
    /\ ticking = [c \in Socket |-> FALSE]
    /\ pinged = [c \in Socket |-> FALSE]
    /\ joining = [c \in Socket |-> FALSE]
    /\ tasks = {}
    /\ valid = Socket
    /\ delivered = {}

-----------------------------------------------------------------------------
\* Helpers of the server

\* Mutation: the per-user set is left as it is.
HandleDisconnectKeepsIndex(cs) ==
    /\ clients' = [c \in Socket |-> IF c \in cs THEN None ELSE clients[c]]
    /\ UNCHANGED userClients

\* handleDisconnect of some clients: nothing happens for one not seated.
HandleDisconnect(cs) ==
    /\ clients' = [c \in Socket |-> IF c \in cs THEN None ELSE clients[c]]
    /\ userClients' = [u \in User |-> userClients[u] \
           {c \in cs : clients[c] # None /\ clients[c].user = u}]

\* ws.close(): the 'close' event follows later.
Close(cs) ==
    ws' = [c \in Socket |-> IF c \in cs /\ IsOpen(c) THEN "closing" ELSE ws[c]]

\* broadcastToUser reaches the seated, open sockets filed under the user.
Broadcast(from, to) ==
    delivered' =
        {[from |-> from, to |-> to, socket |-> c] :
            c \in {d \in userClients[to] : clients[d] # None /\ IsOpen(d)}}

-----------------------------------------------------------------------------
\* Connections

Connect(c) ==
    /\ ws[c] = "new"
    /\ ws' = [ws EXCEPT ![c] = "open"]
    /\ ticking' = [ticking EXCEPT ![c] = TRUE]
    /\ UNCHANGED <<clients, userClients, pinged, joining, tasks, valid,
                   delivered>>

Vanish(c) ==
    /\ c \in Frail
    /\ ws[c] = "open"
    /\ ws' = [ws EXCEPT ![c] = "silent"]
    /\ UNCHANGED <<clients, userClients, ticking, pinged, joining, tasks,
                   valid, delivered>>

\* The 'close' event: the client left, or the server closed the socket.
Closed(c) ==
    /\ ws[c] \in {"open", "silent", "closing"}
    /\ ws' = [ws EXCEPT ![c] = "closed"]
    /\ ticking' = [ticking EXCEPT ![c] = FALSE]
    /\ HandleDisconnect({c})
    /\ UNCHANGED <<pinged, joining, tasks, valid, delivered>>

\* The heartbeat every 15 seconds.  A client that is not seated, yet or any
\* more, ends the interval.
Heartbeat(c) ==
    /\ ticking[c]
    /\ IF clients[c] = None \/ clients[c].age >= 1
       THEN /\ ticking' = [ticking EXCEPT ![c] = FALSE]
            /\ HandleDisconnect({c})
            /\ UNCHANGED pinged
       ELSE /\ pinged' = [pinged EXCEPT ![c] = pinged[c] \/ IsOpen(c)]
            /\ UNCHANGED <<ticking, clients, userClients>>
    /\ UNCHANGED <<ws, joining, tasks, valid, delivered>>

Stale == {c \in Socket : clients[c] # None /\ clients[c].age = 2}

\* Mutation: the clean-up relies on the 'close' event.
CleanupOnlyCloses ==
    /\ Stale # {}
    /\ Close(Stale)
    /\ UNCHANGED <<clients, userClients, ticking, pinged, joining, tasks,
                   valid, delivered>>

\* cleanupStaleClients, every minute.
CleanupStaleClients ==
    /\ Stale # {}
    /\ Close(Stale)
    /\ HandleDisconnect(Stale)
    /\ UNCHANGED <<ticking, pinged, joining, tasks, valid, delivered>>

\* Thirty seconds pass without a pong.
Age(c) ==
    /\ clients[c] # None
    /\ clients[c].age < 2
    /\ clients' = [clients EXCEPT ![c].age = @ + 1]
    /\ UNCHANGED <<ws, userClients, ticking, pinged, joining, tasks, valid,
                   delivered>>

\* The session of a socket's token is revoked or expires.
Revoke(c) ==
    /\ c \in Frail \cap valid
    /\ valid' = valid \ {c}
    /\ UNCHANGED <<ws, clients, userClients, ticking, pinged, joining, tasks,
                   delivered>>

-----------------------------------------------------------------------------
\* Messages

Task(c, at, type, to) == [socket |-> c, at |-> at, type |-> type, to |-> to]

\* Mutation: the type of the message is taken for the step of its handler.
StartedByType(c, type, to) == {Task(c, type, type, to)}

\* What the switch of handleMessage starts, the session check aside:
\* handleJoin waits for authenticateToken, handleWebRTCSignal for the
\* membership query, and nothing waits for a signal of an unseated client.
Started(c, type, to) ==
    IF type = "join" THEN {Task(c, "auth", type, to)}
    ELSE IF type = "signal" /\ clients[c] # None
    THEN {Task(c, "relay", type, to)}
    ELSE {}

\* handleMessage up to its first await.
Message(c, type, to) ==
    /\ ws[c] = "open"
    /\ Cardinality(tasks) < MaxTasks
    /\ tasks' = tasks \cup
           (IF clients[c] # None THEN {Task(c, "check", type, to)}
            ELSE Started(c, type, to))
    /\ UNCHANGED <<ws, clients, userClients, ticking, valid, delivered>>

Join(c) ==
    /\ ~joining[c]
    /\ joining' = [joining EXCEPT ![c] = TRUE]
    /\ Message(c, "join", None)
    /\ UNCHANGED pinged

Signal(c, to) ==
    /\ c \in Callers
    /\ joining[c]
    /\ Message(c, "signal", to)
    /\ UNCHANGED <<joining, pinged>>

Pong(c) ==
    /\ pinged[c]
    /\ pinged' = [pinged EXCEPT ![c] = FALSE]
    /\ Message(c, "pong", None)
    /\ UNCHANGED joining

\* Mutation: the session is not looked up again after the join.
CheckSkipped(t) ==
    /\ t.at = "check"
    /\ tasks' = (tasks \ {t}) \cup Started(t.socket, t.type, t.to)
    /\ clients' = IF t.type = "pong" /\ clients[t.socket] # None
                  THEN [clients EXCEPT ![t.socket].age = 0] ELSE clients
    /\ UNCHANGED <<ws, userClients, ticking, pinged, joining, valid, delivered>>

\* The rest of handleMessage for a seated client: its token is looked up
\* again for every message.
Check(t) ==
    /\ t.at = "check"
    /\ IF t.socket \in valid
       THEN /\ tasks' = (tasks \ {t}) \cup Started(t.socket, t.type, t.to)
            /\ clients' = IF t.type = "pong" /\ clients[t.socket] # None
                          THEN [clients EXCEPT ![t.socket].age = 0] ELSE clients
            /\ UNCHANGED ws
       ELSE /\ tasks' = tasks \ {t}
            /\ Close({t.socket})
            /\ UNCHANGED clients
    /\ UNCHANGED <<userClients, ticking, pinged, joining, valid, delivered>>

\* handleJoin, after authenticateToken.
Authenticate(t) ==
    /\ t.at = "auth"
    /\ IF t.socket \in valid
       THEN /\ tasks' = (tasks \ {t}) \cup {[t EXCEPT !.at = "seat"]}
            /\ UNCHANGED ws
       ELSE /\ tasks' = tasks \ {t}
            /\ Close({t.socket})
    /\ UNCHANGED <<clients, userClients, ticking, pinged, joining, valid,
                   delivered>>

\* handleJoin, after the account was found: the socket is seated, even if it
\* has been closed meanwhile.
Seat(t) ==
    LET u == Account[t.socket] IN
    /\ t.at = "seat"
    /\ tasks' = tasks \ {t}
    /\ clients' = [clients EXCEPT ![t.socket] = [user |-> u, age |-> 0]]
    /\ userClients' = [userClients EXCEPT ![u] = @ \cup {t.socket}]
    /\ UNCHANGED <<ws, ticking, pinged, joining, valid, delivered>>

\* Mutation: one participant among the two is enough.
AllowedEither(from, to) == \E u \in User : <<from, u>> \in Talks

\* The membership query returns two rows: both are in the conversation.
Allowed(from, to) == <<from, to>> \in Talks

\* handleWebRTCSignal, after the membership query.
Relay(t) ==
    LET from == Account[t.socket] IN
    /\ t.at = "relay"
    /\ tasks' = tasks \ {t}
    /\ IF Allowed(from, t.to) THEN Broadcast(from, t.to) ELSE UNCHANGED delivered
    /\ UNCHANGED <<ws, clients, userClients, ticking, pinged, joining, valid>>

HandlerStep == \E t \in tasks : Check(t) \/ Authenticate(t) \/ Seat(t) \/ Relay(t)

Next ==
    \/ \E c \in Socket :
          \/ Connect(c) \/ Vanish(c) \/ Closed(c)
          \/ Heartbeat(c) \/ Age(c) \/ Revoke(c)
          \/ Join(c) \/ Pong(c)
          \/ \E to \in User : Signal(c, to)
    \/ CleanupStaleClients
    \/ HandlerStep

Spec == Init /\ [][Next]_vars

\* Timers fire, awaited queries return, a closed socket gets its event.
Fairness ==
    /\ WF_vars(CleanupStaleClients)
    /\ WF_vars(HandlerStep)
    /\ \A c \in Socket :
          /\ WF_vars(Heartbeat(c))
          /\ WF_vars(Age(c))
          /\ WF_vars(ws[c] = "closing" /\ Closed(c))

FairSpec == Spec /\ Fairness

-----------------------------------------------------------------------------
\* Properties

\* Tables, tasks and sockets are well formed.
TypeOK ==
    /\ ws \in [Socket -> {"new", "open", "silent", "closing", "closed"}]
    /\ clients \in [Socket -> [user : User, age : 0 .. 2] \cup {None}]
    /\ userClients \in [User -> SUBSET Socket]
    /\ ticking \in [Socket -> BOOLEAN]
    /\ pinged \in [Socket -> BOOLEAN]
    /\ joining \in [Socket -> BOOLEAN]
    /\ tasks \subseteq [ socket : Socket, at : {"check", "auth", "seat", "relay"},
                         type : {"join", "signal", "pong"},
                         to : User \cup {None} ]
    /\ valid \subseteq Socket
    /\ delivered \subseteq [from : User, to : User, socket : Socket]

\* The two tables agree whatever order joins, 'close' events, heartbeats and
\* clean-ups come in: nobody seated is unreachable for broadcastToUser, and
\* no socket is kept in a user's set after it was disconnected.
TablesAgree ==
    \A u \in User : userClients[u] =
        {c \in Socket : clients[c] # None /\ clients[c].user = u}

\* Call messages reach only devices of the account they were sent to, and
\* only from an account that shares a conversation with it.
RelayedToMembersOnly ==
    \A d \in delivered : Account[d.socket] = d.to /\ <<d.from, d.to>> \in Talks

\* A join that finishes after its socket was closed does not keep the dead
\* client in the tables for good.
ClosedIsForgotten ==
    \A c \in Socket : ws[c] = "closed" ~> [](clients[c] = None)

\* Once its session is revoked a client is removed from the tables, even if
\* it never sends anything but pongs: a logged-out device stops receiving
\* calls.
RevokedIsDropped ==
    \A c \in Socket : c \notin valid ~> [](clients[c] = None)

=============================================================================
