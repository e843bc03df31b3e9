--------------------------- MODULE Signaling_proofs ---------------------------
(***************************************************************************)
(* Signaling for every number of users, sockets and waiting handlers.      *)
(*                                                                         *)
(* The inductive invariant adds two facts to the properties: a seated      *)
(* client has the account of its own socket's token, and a signal that     *)
(* waits to be relayed names the user it is for.                           *)
(***************************************************************************)
EXTENDS Signaling, TLAPS

Seated == [user : User, age : 0 .. 2]

Waiting == [ socket : Socket, at : {"check", "auth", "seat", "relay"},
             type : {"join", "signal", "pong"}, to : User \cup {None} ]

\* A client is seated under the account its session token belongs to.
SeatedAsOwner ==
    \A c \in Socket : clients[c] # None => clients[c].user = Account[c]

\* A handler relays signals only, and a signal names the user it is for.
SignalsAreAddressed ==
    \A t \in tasks : /\ t.at = "relay" => t.type = "signal"
                     /\ t.type = "signal" => t.to \in User

IInv ==
    /\ TypeOK
    /\ TablesAgree
    /\ RelayedToMembersOnly
    /\ SeatedAsOwner
    /\ SignalsAreAddressed

-----------------------------------------------------------------------------
\* Lemmas on the three parts of the state a step can disturb

\* The sockets, heartbeats and pings of a step, and the sessions.
ConnectionsOK ==
    /\ ws \in [Socket -> {"new", "open", "silent", "closing", "closed"}]
    /\ ticking \in [Socket -> BOOLEAN]
    /\ pinged \in [Socket -> BOOLEAN]
    /\ joining \in [Socket -> BOOLEAN]
    /\ valid \subseteq Socket

\* The two tables.
TablesOK ==
    /\ clients \in [Socket -> Seated \cup {None}]
    /\ userClients \in [User -> SUBSET Socket]
    /\ TablesAgree
    /\ SeatedAsOwner

\* The waiting handlers.
TasksOK == tasks \subseteq Waiting /\ SignalsAreAddressed

\* The last broadcast.
DeliveryOK ==
    /\ delivered \subseteq [from : User, to : User, socket : Socket]
    /\ RelayedToMembersOnly

LEMMA Parts == IInv <=> ConnectionsOK /\ TablesOK /\ TasksOK /\ DeliveryOK
  BY DEF IInv, TypeOK, ConnectionsOK, TablesOK, TasksOK, DeliveryOK, Seated, Waiting

\* The same after a step.
LEMMA PartsAfter ==
    ASSUME ConnectionsOK', TablesOK', TasksOK', DeliveryOK'
    PROVE  IInv'
  BY DEF IInv, TypeOK, ConnectionsOK, TablesOK, TasksOK, DeliveryOK, Seated, Waiting

LEMMA NoneIsNoSeat == None \notin Seated
  BY SignalingAssumption DEF Seated

LEMMA TablesKept ==
    ASSUME TablesOK, UNCHANGED <<clients, userClients>>
    PROVE  TablesOK'
  BY DEF TablesOK, TablesAgree, SeatedAsOwner

LEMMA TasksKept ==
    ASSUME TasksOK, tasks' \subseteq tasks
    PROVE  TasksOK'
  BY DEF TasksOK, SignalsAreAddressed

LEMMA DeliveryKept ==
    ASSUME DeliveryOK, UNCHANGED delivered
    PROVE  DeliveryOK'
  BY DEF DeliveryOK, RelayedToMembersOnly

LEMMA ConnectionsKept ==
    ASSUME ConnectionsOK, UNCHANGED <<ticking, pinged, joining, valid>>,
           \/ UNCHANGED ws
           \/ \E cs : Close(cs)
    PROVE  ConnectionsOK'
  BY DEF ConnectionsOK, Close

\* handleDisconnect takes a seated client out of both tables and is harmless
\* for one that is not seated.
LEMMA DisconnectStep ==
    ASSUME TablesOK, NEW cs \in SUBSET Socket, HandleDisconnect(cs)
    PROVE  TablesOK'
<1>1. /\ clients \in [Socket -> Seated \cup {None}]
      /\ userClients \in [User -> SUBSET Socket]
  BY DEF TablesOK
<1>2. /\ clients' \in [Socket -> Seated \cup {None}]
      /\ \A c \in Socket : clients'[c] = IF c \in cs THEN None ELSE clients[c]
  BY <1>1 DEF HandleDisconnect
<1>3. /\ userClients' \in [User -> SUBSET Socket]
      /\ \A u \in User : userClients'[u] = userClients[u] \
             {c \in cs : clients[c] # None /\ clients[c].user = u}
  BY <1>1 DEF HandleDisconnect
<1>4. TablesAgree'
  BY <1>2, <1>3 DEF TablesOK, TablesAgree
<1>5. SeatedAsOwner'
  BY <1>2 DEF TablesOK, SeatedAsOwner
<1>6. QED
  BY <1>2, <1>3, <1>4, <1>5 DEF TablesOK

\* A pong or the passing of time changes the age of a client only.
LEMMA AgeStep ==
    ASSUME TablesOK, NEW c \in Socket, clients[c] # None,
           NEW a \in 0 .. 2, clients' = [clients EXCEPT ![c].age = a],
           UNCHANGED userClients
    PROVE  TablesOK'
<1>1. clients \in [Socket -> Seated \cup {None}]
  BY DEF TablesOK
<1> DEFINE x == [clients[c] EXCEPT !.age = a]
<1>2. clients[c] \in Seated
  BY <1>1
<1>3. x \in Seated /\ x.user = clients[c].user
  BY <1>2 DEF Seated
<1>4. clients' = [clients EXCEPT ![c] = x]
  BY <1>1
<1> HIDE DEF x
<1>5. x # None
  BY <1>3, NoneIsNoSeat
<1>6. /\ clients' \in [Socket -> Seated \cup {None}]
      /\ clients'[c] = x
      /\ \A d \in Socket : d # c => clients'[d] = clients[d]
  BY <1>1, <1>3, <1>4
<1>7. TablesAgree'
  BY <1>3, <1>5, <1>6 DEF TablesOK, TablesAgree
<1>8. SeatedAsOwner'
  BY <1>3, <1>6 DEF TablesOK, SeatedAsOwner
<1>9. QED
  BY <1>6, <1>7, <1>8 DEF TablesOK

\* A socket enters both tables at once, under the account of its token.
LEMMA SeatStep ==
    ASSUME TablesOK, NEW t \in Waiting, Seat(t)
    PROVE  TablesOK'
<1> DEFINE c == t.socket
           u == Account[c]
           x == [user |-> u, age |-> 0]
<1>1. /\ clients \in [Socket -> Seated \cup {None}]
      /\ userClients \in [User -> SUBSET Socket]
  BY DEF TablesOK
<1>2. c \in Socket /\ u \in User
  BY SignalingAssumption DEF Waiting
<1>3. x \in Seated /\ x.user = u
  BY <1>2 DEF Seated
<1>4. /\ clients' = [clients EXCEPT ![c] = x]
      /\ userClients' = [userClients EXCEPT ![u] = @ \cup {c}]
  BY DEF Seat
<1> HIDE DEF x
<1>5. x # None
  BY <1>3, NoneIsNoSeat
<1>6. /\ clients' \in [Socket -> Seated \cup {None}]
      /\ clients'[c] = x
      /\ \A d \in Socket : d # c => clients'[d] = clients[d]
  BY <1>1, <1>2, <1>3, <1>4
<1>7. /\ userClients' \in [User -> SUBSET Socket]
      /\ userClients'[u] = userClients[u] \cup {c}
      /\ \A v \in User : v # u => userClients'[v] = userClients[v]
  BY <1>1, <1>2, <1>4
<1>8. clients[c] # None => clients[c].user = u
  BY <1>2 DEF TablesOK, SeatedAsOwner
<1> HIDE DEF u
<1>9. TablesAgree'
  <2> SUFFICES ASSUME NEW v \in User, NEW d \in Socket
               PROVE  d \in userClients'[v] <=>
                          clients'[d] # None /\ clients'[d].user = v
    BY <1>7 DEF TablesAgree
  <2>1. d \in userClients[v] <=> clients[d] # None /\ clients[d].user = v
    BY DEF TablesOK, TablesAgree
  <2>2. CASE d = c
    BY <1>3, <1>5, <1>6, <1>7, <1>8, <2>1, <2>2
  <2>3. CASE d # c
    BY <1>6, <1>7, <2>1, <2>3
  <2>4. QED
    BY <2>2, <2>3
<1>10. SeatedAsOwner'
  BY <1>3, <1>6 DEF TablesOK, SeatedAsOwner, u
<1>11. QED
  BY <1>6, <1>7, <1>9, <1>10 DEF TablesOK

\* A new handler, and the step from the session check to what it starts.
LEMMA StartedOK ==
    ASSUME NEW c \in Socket, NEW type \in {"join", "signal", "pong"},
           NEW to \in User \cup {None}, type = "signal" => to \in User
    PROVE  \A t \in Started(c, type, to) \cup {Task(c, "check", type, to)} :
               /\ t \in Waiting
               /\ t.at = "relay" => t.type = "signal"
               /\ t.type = "signal" => t.to \in User
  BY DEF Started, Task, Waiting

LEMMA TasksAdded ==
    ASSUME TasksOK, NEW c \in Socket, NEW type \in {"join", "signal", "pong"},
           NEW to \in User \cup {None}, type = "signal" => to \in User,
           tasks' \subseteq tasks \cup Started(c, type, to)
                                \cup {Task(c, "check", type, to)}
    PROVE  TasksOK'
  BY StartedOK DEF TasksOK, SignalsAreAddressed

LEMMA MessageStep ==
    ASSUME TasksOK, NEW c \in Socket, NEW type \in {"join", "signal", "pong"},
           NEW to \in User \cup {None}, type = "signal" => to \in User,
           Message(c, type, to)
    PROVE  /\ TasksOK'
           /\ UNCHANGED <<ws, clients, userClients, ticking, valid, delivered>>
  BY TasksAdded DEF Message

\* A copy goes to the sockets filed under the addressee, which the tables
\* seat under their own account.
LEMMA RelayStep ==
    ASSUME TablesOK, DeliveryOK, NEW t \in Waiting, t.to \in User, Relay(t)
    PROVE  DeliveryOK'
<1> DEFINE from == Account[t.socket]
<1>1. from \in User
  BY SignalingAssumption DEF Waiting
<1>2. CASE Allowed(from, t.to)
  <2>1. delivered' = {[from |-> from, to |-> t.to, socket |-> c] :
            c \in {d \in userClients[t.to] : clients[d] # None /\ IsOpen(d)}}
    BY <1>2 DEF Relay, Broadcast
  <2>2. \A c \in userClients[t.to] : c \in Socket /\ Account[c] = t.to
    BY DEF TablesOK, TablesAgree, SeatedAsOwner
  <2>3. \A d \in delivered' :
            /\ d \in [from : User, to : User, socket : Socket]
            /\ d.from = from /\ d.to = t.to /\ Account[d.socket] = t.to
    BY <1>1, <2>1, <2>2
  <2>4. QED
    BY <1>2, <2>3 DEF DeliveryOK, RelayedToMembersOnly, Allowed
<1>3. CASE ~Allowed(from, t.to)
  BY <1>3, DeliveryKept DEF Relay
<1>4. QED
  BY <1>2, <1>3

-----------------------------------------------------------------------------

LEMMA InitIInv == Init => IInv
<1> SUFFICES ASSUME Init PROVE IInv
  OBVIOUS
<1>1. ConnectionsOK /\ TasksOK /\ DeliveryOK
  BY DEF Init, ConnectionsOK, TasksOK, SignalsAreAddressed, DeliveryOK,
         RelayedToMembersOnly
<1>2. TablesOK
  BY DEF Init, TablesOK, TablesAgree, SeatedAsOwner
<1>3. QED
  BY <1>1, <1>2, Parts

\* What happens to a socket: it opens, falls silent, is closed or ages.
LEMMA SocketStep ==
    ASSUME IInv, NEW c \in Socket,
           \/ Connect(c) \/ Vanish(c) \/ Closed(c)
           \/ Heartbeat(c) \/ Age(c) \/ Revoke(c)
    PROVE  IInv'
<1>1. ConnectionsOK /\ TablesOK /\ TasksOK /\ DeliveryOK
  BY Parts
<1>2. UNCHANGED <<tasks, delivered>>
  BY DEF Connect, Vanish, Closed, Heartbeat, Age, Revoke
<1>3. TasksOK' /\ DeliveryOK'
  BY <1>1, <1>2, TasksKept, DeliveryKept
<1>4. ConnectionsOK'
  BY <1>1 DEF ConnectionsOK, Connect, Vanish, Closed, Heartbeat, Age, Revoke
<1>5. TablesOK'
  <2>1. CASE Connect(c) \/ Vanish(c) \/ Revoke(c)
    BY <1>1, <2>1, TablesKept DEF Connect, Vanish, Revoke
  <2>2. CASE Closed(c)
    BY <1>1, <2>2, DisconnectStep DEF Closed
  <2>3. CASE Heartbeat(c)
    BY <1>1, <2>3, DisconnectStep, TablesKept DEF Heartbeat
  <2>4. CASE Age(c)
    <3>1. clients[c] \in Seated
      BY <1>1, <2>4 DEF TablesOK, Age
    <3>2. clients[c].age + 1 \in 0 .. 2
      BY <2>4, <3>1 DEF Age, Seated
    <3>3. clients' = [clients EXCEPT ![c].age = clients[c].age + 1]
      BY <2>4 DEF Age
    <3>4. QED
      BY <1>1, <2>4, <3>2, <3>3, AgeStep DEF Age
  <2>5. QED
    BY <2>1, <2>2, <2>3, <2>4
<1>6. QED
  BY <1>3, <1>4, <1>5, PartsAfter

\* A message arrives and starts a handler.
LEMMA ClientStep ==
    ASSUME IInv, NEW c \in Socket,
           Join(c) \/ Pong(c) \/ \E to \in User : Signal(c, to)
    PROVE  IInv'
<1>1. ConnectionsOK /\ TablesOK /\ TasksOK /\ DeliveryOK
  BY Parts
<1>2. /\ TasksOK'
      /\ UNCHANGED <<ws, clients, userClients, ticking, valid, delivered>>
  <2>1. CASE Join(c)
    BY <1>1, <2>1, MessageStep DEF Join
  <2>2. CASE Pong(c)
    BY <1>1, <2>2, MessageStep DEF Pong
  <2>3. ASSUME NEW to \in User, Signal(c, to)
        PROVE  /\ TasksOK'
               /\ UNCHANGED <<ws, clients, userClients, ticking, valid, delivered>>
    BY <1>1, <2>3, MessageStep DEF Signal
  <2>4. QED
    BY <2>1, <2>2, <2>3
<1>3. ConnectionsOK'
  BY <1>1, <1>2 DEF ConnectionsOK, Join, Pong, Signal
<1>4. QED
  BY <1>1, <1>2, <1>3, TablesKept, DeliveryKept, PartsAfter

\* A handler goes on after its query.
LEMMA TaskStep ==
    ASSUME IInv, NEW t \in tasks,
           Check(t) \/ Authenticate(t) \/ Seat(t) \/ Relay(t)
    PROVE  IInv'
<1>1. ConnectionsOK /\ TablesOK /\ TasksOK /\ DeliveryOK
  BY Parts
<1>2. t \in Waiting /\ (t.type = "signal" => t.to \in User)
  BY <1>1 DEF TasksOK, SignalsAreAddressed
<1>3. UNCHANGED <<ticking, pinged, joining, valid>>
  BY DEF Check, Authenticate, Seat, Relay
<1>4. UNCHANGED ws \/ \E cs : Close(cs)
  BY DEF Check, Authenticate, Seat, Relay
<1>5. ConnectionsOK'
  BY <1>1, <1>3, <1>4, ConnectionsKept
<1>6. CASE Check(t)
  <2>1. TablesOK'
    <3>1. CASE UNCHANGED clients
      BY <1>1, <1>6, <3>1, TablesKept DEF Check
    <3>2. CASE /\ clients[t.socket] # None
               /\ clients' = [clients EXCEPT ![t.socket].age = 0]
      <4>1. t.socket \in Socket /\ UNCHANGED userClients
        BY <1>2, <1>6 DEF Check, Waiting
      <4>2. 0 \in 0 .. 2
        OBVIOUS
      <4>3. QED
        BY <1>1, <3>2, <4>1, <4>2, AgeStep
    <3>3. QED
      BY <1>6, <3>1, <3>2 DEF Check
  <2>2. TasksOK'
    BY <1>1, <1>2, <1>6, TasksKept, TasksAdded DEF Check, Waiting
  <2>3. QED
    BY <1>1, <1>5, <1>6, <2>1, <2>2, DeliveryKept, PartsAfter DEF Check
<1>7. CASE Authenticate(t)
  <2>1. TasksOK'
    <3> DEFINE x == [t EXCEPT !.at = "seat"]
    <3>1. x \in Waiting /\ x.at = "seat" /\ x.type = t.type /\ x.to = t.to
      BY <1>2 DEF Waiting
    <3>2. tasks' \subseteq tasks \cup {x}
      BY <1>7 DEF Authenticate
    <3> HIDE DEF x
    <3>3. QED
      BY <1>1, <1>2, <3>1, <3>2 DEF TasksOK, SignalsAreAddressed
  <2>2. QED
    BY <1>1, <1>5, <1>7, <2>1, TablesKept, DeliveryKept, PartsAfter DEF Authenticate
<1>8. CASE Seat(t)
  <2>1. TablesOK'
    BY <1>1, <1>2, <1>8, SeatStep
  <2>2. QED
    BY <1>1, <1>5, <1>8, <2>1, TasksKept, DeliveryKept, PartsAfter DEF Seat
<1>9. CASE Relay(t)
  <2>1. t.to \in User
    BY <1>1, <1>9 DEF Relay, TasksOK, SignalsAreAddressed
  <2>2. DeliveryOK'
    BY <1>1, <1>2, <1>9, <2>1, RelayStep
  <2>3. QED
    BY <1>1, <1>5, <1>9, <2>2, TasksKept, TablesKept, PartsAfter DEF Relay
<1>10. QED
  BY <1>6, <1>7, <1>8, <1>9

\* cleanupStaleClients closes what it disconnects.
LEMMA CleanupStep ==
    ASSUME IInv, CleanupStaleClients
    PROVE  IInv'
<1>1. ConnectionsOK /\ TablesOK /\ TasksOK /\ DeliveryOK
  BY Parts
<1>2. ConnectionsOK'
  BY <1>1, ConnectionsKept DEF CleanupStaleClients
<1>3. TablesOK'
  BY <1>1, DisconnectStep DEF CleanupStaleClients, Stale
<1>4. TasksOK' /\ DeliveryOK'
  BY <1>1, TasksKept, DeliveryKept DEF CleanupStaleClients
<1>5. QED
  BY <1>2, <1>3, <1>4, PartsAfter

LEMMA IInvInductive == IInv /\ [Next]_vars => IInv'
<1> SUFFICES ASSUME IInv, [Next]_vars PROVE IInv'
  OBVIOUS
<1>1. ASSUME NEW c \in Socket,
             \/ Connect(c) \/ Vanish(c) \/ Closed(c)
             \/ Heartbeat(c) \/ Age(c) \/ Revoke(c)
      PROVE  IInv'
  BY <1>1, SocketStep
<1>2. ASSUME NEW c \in Socket,
             Join(c) \/ Pong(c) \/ \E to \in User : Signal(c, to)
      PROVE  IInv'
  BY <1>2, ClientStep
<1>3. CASE CleanupStaleClients
  BY <1>3, CleanupStep
<1>4. CASE HandlerStep
  BY <1>4, TaskStep DEF HandlerStep
<1>5. CASE UNCHANGED vars
  <2>1. ConnectionsOK /\ TablesOK /\ TasksOK /\ DeliveryOK
    BY Parts
  <2>2. ConnectionsOK'
    BY <1>5, <2>1 DEF vars, ConnectionsOK
  <2>3. TablesOK' /\ TasksOK' /\ DeliveryOK'
    BY <1>5, <2>1, TablesKept, TasksKept, DeliveryKept DEF vars
  <2>4. QED
    BY <2>2, <2>3, PartsAfter
<1>6. QED
  BY <1>1, <1>2, <1>3, <1>4, <1>5 DEF Next

\* Tables, tasks and sockets stay well formed.
THEOREM TypeCorrect == Spec => []TypeOK
<1>1. IInv => TypeOK
  BY DEF IInv
<1>2. QED
  BY <1>1, InitIInv, IInvInductive, PTL DEF Spec

\* The maps clients and userClients of the server agree, in whatever order
\* late joins, 'close' events, heartbeats and clean-ups run.
THEOREM Agreement == Spec => []TablesAgree
<1>1. IInv => TablesAgree
  BY DEF IInv
<1>2. QED
  BY <1>1, InitIInv, IInvInductive, PTL DEF Spec

\* handleWebRTCSignal and broadcastToUser: a call message reaches devices of
\* its addressee only, and only from an account it talks with.
THEOREM MembersOnly == Spec => []RelayedToMembersOnly
<1>1. IInv => RelayedToMembersOnly
  BY DEF IInv
<1>2. QED
  BY <1>1, InitIInv, IInvInductive, PTL DEF Spec

============================================================================
