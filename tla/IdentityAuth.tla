----------------------------- MODULE IdentityAuth -----------------------------
(***************************************************************************)
(* Accounts on the server: identity challenges, registration, login,       *)
(* logout and device linking.                                              *)
(*                                                                         *)
(* Every HTTP handler is a sequence of awaited queries, so handlers of     *)
(* several requests interleave between any two of them, and the process    *)
(* may exit in the middle of all of them.  A query is one step; so is the  *)
(* transaction of a registration.  Each member of Request is one request;  *)
(* it also stands for the UUID of the account it inserts and the token of  *)
(* the session it issues, which are drawn at random and never again.       *)
(*                                                                         *)
(* An account's public id is "05" and its public key, so the key stands    *)
(* for both.  An input a handler only looks at later is picked there.      *)
(***************************************************************************)
EXTENDS Integers, FiniteSets

CONSTANTS
    Key,            \* identity key pairs
    Device,         \* device ids
    Request,
    MaxChallenges,  \* bound: challenges issued
    None

ASSUME AuthAssumption ==
    /\ MaxChallenges \in Nat
    /\ None \notin Key \cup Device \cup Request \cup Nat

VARIABLES
    challenges,  \* rows of identity_challenges
    drawn,       \* challenge ids drawn so far
    users,       \* rows of users
    devices,     \* the account each device id belongs to, or None
    sessions,    \* unexpired rows of auth_sessions
    request      \* the handler of each request

tables == <<challenges, drawn, users, devices, sessions>>
vars == <<tables, request>>

\* Where a handler stands before its next query; a request ends by being
\* answered with a session, answered otherwise, or lost with the process.
Running == {"lookup", "insert", "device", "push", "issue", "link", "logout"}
Ended == {"granted", "closed"}

Purpose == {"register", "login"}

Blank ==
    [ at |-> "idle", purpose |-> None, challenge |-> None, key |-> None,
      device |-> None, chhayaId |-> None, user |-> None, token |-> None ]

Init ==
    /\ challenges = {}
    /\ drawn = 0
    /\ users = {}
    /\ devices = [d \in Device |-> None]
    /\ sessions = {}
    /\ request = [r \in Request |-> Blank]

Goto(r, at) == request' = [request EXCEPT ![r].at = at]

-----------------------------------------------------------------------------
\* Challenges

\* issueIdentityChallenge: delete what has expired, insert a new row.
IssueChallenge(k, d, p) ==
    /\ drawn < MaxChallenges
    /\ drawn' = drawn + 1
    /\ challenges' = {c \in challenges : ~c.expired} \cup
           {[ id |-> drawn + 1, key |-> k, device |-> d, purpose |-> p,
              expired |-> FALSE ]}
    /\ UNCHANGED <<users, devices, sessions, request>>

\* Two minutes pass.
ExpireChallenge ==
    /\ \E c \in challenges :
          /\ ~c.expired
          /\ challenges' = (challenges \ {c}) \cup {[c EXCEPT !.expired = TRUE]}
    /\ UNCHANGED <<drawn, users, devices, sessions, request>>

\* The rows the DELETE of consumeIdentityChallenge selects.
Matching(id, k, d, p) ==
    {c \in challenges : /\ c.id = id
                        /\ c.key = k
                        /\ c.device = d
                        /\ c.purpose = p
                        /\ ~c.expired}

\* Mutation: the row is compared first and deleted by a later clean-up.
ConsumeAfterwards(r, id, k, d, p) ==
    /\ request[r].at = "idle"
    /\ Matching(id, k, d, p) # {}
    /\ request' = [request EXCEPT ![r] =
           [ Blank EXCEPT !.at = "lookup", !.purpose = p, !.challenge = id,
                          !.key = k, !.device = d ]]
    /\ UNCHANGED tables

\* consumeIdentityChallenge at the start of register and of login.  The
\* row is gone before the proof is compared.  A proof is right when the
\* holder of k made it from the transcript of this very challenge.
Consume(r, id, k, d, p) ==
    /\ request[r].at = "idle"
    /\ challenges' = challenges \ Matching(id, k, d, p)
    /\ \E proven \in BOOLEAN :
          request' = [request EXCEPT ![r] =
              IF Matching(id, k, d, p) = {} THEN [Blank EXCEPT !.at = "closed"]
              ELSE [ Blank EXCEPT
                         !.at = IF proven THEN "lookup" ELSE "closed",
                         !.purpose = p, !.challenge = id,
                         !.key = k, !.device = d ]]
    /\ UNCHANGED <<drawn, users, devices, sessions>>

-----------------------------------------------------------------------------
\* POST /auth/register

Registered(id) == \E u \in users : u.chhayaId = id

\* Mutation: the public id is not compared with the key that was proven.
CheckNewIdentityUnbound(r) ==
    /\ request[r].at = "lookup"
    /\ request[r].purpose = "register"
    /\ \E id \in Key :
          request' = [request EXCEPT
                         ![r].at = IF Registered(id) THEN "closed" ELSE "insert",
                         ![r].chhayaId = id]
    /\ UNCHANGED tables

\* The SELECT of an existing account (409), then the comparison of the
\* public id of the request with its key (400).
CheckNewIdentity(r) ==
    /\ request[r].at = "lookup"
    /\ request[r].purpose = "register"
    /\ \E id \in Key :
          request' = [request EXCEPT
              ![r].at = IF Registered(id) \/ id # request[r].key
                        THEN "closed" ELSE "insert",
              ![r].chhayaId = id]
    /\ UNCHANGED tables

\* Mutation: chhaya_id is not UNIQUE, the earlier SELECT is trusted.
AccountConflictsOnDevice(r) == devices[request[r].device] # None

\* UNIQUE (chhaya_id) of users, or the primary key of devices.
AccountConflicts(r) ==
    Registered(request[r].chhayaId) \/ devices[request[r].device] # None

AccountRow(r) ==
    [id |-> r, chhayaId |-> request[r].chhayaId, key |-> request[r].key]

\* Mutation: two statements instead of a transaction.
InsertAccountThenDevice(r) ==
    /\ request[r].at = "insert"
    /\ ~Registered(request[r].chhayaId)
    /\ users' = users \cup {AccountRow(r)}
    /\ IF AccountConflicts(r)
       THEN /\ Goto(r, "closed")
            /\ UNCHANGED devices
       ELSE /\ devices' = [devices EXCEPT ![request[r].device] = r]
            /\ request' = [request EXCEPT ![r].at = "push", ![r].user = r]
    /\ UNCHANGED <<challenges, drawn, sessions>>

\* Mutation: the device row is filed under the public id.
InsertAccountPublicId(r) ==
    /\ request[r].at = "insert"
    /\ ~AccountConflicts(r)
    /\ users' = users \cup {AccountRow(r)}
    /\ devices' = [devices EXCEPT ![request[r].device] = request[r].chhayaId]
    /\ request' = [request EXCEPT ![r].at = "push", ![r].user = r]
    /\ UNCHANGED <<challenges, drawn, sessions>>

\* withTransaction: the account and its first device, or neither (500).
InsertAccount(r) ==
    /\ request[r].at = "insert"
    /\ IF AccountConflicts(r)
       THEN /\ Goto(r, "closed")
            /\ UNCHANGED <<users, devices>>
       ELSE /\ users' = users \cup {AccountRow(r)}
            /\ devices' = [devices EXCEPT ![request[r].device] = r]
            /\ request' = [request EXCEPT ![r].at = "push", ![r].user = r]
    /\ UNCHANGED <<challenges, drawn, sessions>>

-----------------------------------------------------------------------------
\* POST /auth/login

\* The account of the proven key, and verifyCredential (401).
FindAccount(r) ==
    /\ request[r].at = "lookup"
    /\ request[r].purpose = "login"
    /\ \E verified \in BOOLEAN :
          \/ /\ ~verified \/ ~Registered(request[r].key)
             /\ Goto(r, "closed")
          \/ /\ verified
             /\ \E u \in users :
                   /\ u.chhayaId = request[r].key
                   /\ request' = [request EXCEPT ![r].at = "device",
                                                 ![r].user = u.id]
    /\ UNCHANGED tables

\* Mutation: ON CONFLICT (id) DO UPDATE SET user_id, without the WHERE.
UpsertAlways(r, d, next) ==
    /\ devices' = [devices EXCEPT ![d] = request[r].user]
    /\ Goto(r, next)

\* INSERT ... ON CONFLICT (id) DO UPDATE ... WHERE devices.user_id =
\* EXCLUDED.user_id: 409 when the device belongs to another account.
UpsertDevice(r, d, next) ==
    IF devices[d] \in {None, request[r].user}
    THEN /\ devices' = [devices EXCEPT ![d] = request[r].user]
         /\ Goto(r, next)
    ELSE /\ Goto(r, "closed")
         /\ UNCHANGED devices

LoginDevice(r) ==
    /\ request[r].at = "device"
    /\ UpsertDevice(r, request[r].device, "push")
    /\ UNCHANGED <<challenges, drawn, users, sessions>>

-----------------------------------------------------------------------------
\* Both: the push token, then the session

\* registerFCMToken inserts a row without the NOT NULL public_key, so a
\* request that carries an fcmToken ends here with 500.
RegisterPush(r) ==
    /\ request[r].at = "push"
    /\ \E fcmToken \in BOOLEAN : Goto(r, IF fcmToken THEN "closed" ELSE "issue")
    /\ UNCHANGED tables

\* issueSession.
IssueSession(r) ==
    /\ request[r].at = "issue"
    /\ sessions' = sessions \cup {r}
    /\ Goto(r, "granted")
    /\ UNCHANGED <<challenges, drawn, users, devices>>

\* Thirty days pass.
ExpireSession ==
    /\ \E t \in sessions : sessions' = sessions \ {t}
    /\ UNCHANGED <<challenges, drawn, users, devices, request>>

-----------------------------------------------------------------------------
\* Requests with a session token

\* authMiddleware: authenticateToken finds the account of the token.
Authenticate(r, t, next) ==
    /\ request[r].at = "idle"
    /\ request[t].at = "granted"
    /\ request' = [request EXCEPT ![r] =
           IF t \in sessions
           THEN [Blank EXCEPT !.at = next, !.user = request[t].user, !.token = t]
           ELSE [Blank EXCEPT !.at = "closed"]]
    /\ UNCHANGED tables

\* POST /devices/link.
LinkDevice(r) ==
    /\ request[r].at = "link"
    /\ \E d \in Device : UpsertDevice(r, d, "closed")
    /\ UNCHANGED <<challenges, drawn, users, sessions>>

\* POST /auth/logout.
Logout(r) ==
    /\ request[r].at = "logout"
    /\ sessions' = sessions \ {request[r].token}
    /\ Goto(r, "closed")
    /\ UNCHANGED <<challenges, drawn, users, devices>>

-----------------------------------------------------------------------------

\* SIGTERM calls process.exit: running handlers stop where they are.
Shutdown ==
    /\ \E r \in Request : request[r].at \in Running
    /\ request' = [r \in Request |->
           IF request[r].at \in Running
           THEN [request[r] EXCEPT !.at = "closed"] ELSE request[r]]
    /\ UNCHANGED tables

Next ==
    \/ \E k \in Key, d \in Device, p \in Purpose :
          \/ IssueChallenge(k, d, p)
          \/ \E r \in Request, id \in 1 .. drawn : Consume(r, id, k, d, p)
    \/ ExpireChallenge
    \/ ExpireSession
    \/ Shutdown
    \/ \E r \in Request :
          \/ CheckNewIdentity(r) \/ InsertAccount(r)
          \/ FindAccount(r) \/ LoginDevice(r)
          \/ RegisterPush(r) \/ IssueSession(r)
          \/ LinkDevice(r) \/ Logout(r)
          \/ \E t \in Request, next \in {"link", "logout"} :
                Authenticate(r, t, next)

Spec == Init /\ [][Next]_vars

-----------------------------------------------------------------------------
\* Properties

Challenge ==
    [ id : Nat, key : Key, device : Device, purpose : Purpose,
      expired : BOOLEAN ]
User == [id : Request, chhayaId : Key, key : Key]
Handler ==
    [ at : {"idle"} \cup Running \cup Ended, purpose : Purpose \cup {None},
      challenge : Nat \cup {None}, key : Key \cup {None},
      device : Device \cup {None}, chhayaId : Key \cup {None},
      user : Request \cup {None}, token : Request \cup {None} ]

\* Rows and handlers are well formed.
TypeOK ==
    /\ challenges \subseteq Challenge
    /\ drawn \in Nat
    /\ users \subseteq User
    /\ devices \in [Device -> Request \cup {None}]
    /\ sessions \subseteq Request
    /\ request \in [Request -> Handler]

\* However registrations of one identity interleave, an identity has one
\* account, and its public id is the key whose possession was proven.
OneAccountPerIdentity ==
    \A u, v \in users :
        /\ u.chhayaId = v.chhayaId => u = v
        /\ u.chhayaId = u.key

\* A request that passed the challenge has used it up: no other request was
\* or will be admitted by the same challenge, whether the proof was right,
\* the handler failed later on, or the process went down.
ChallengeAdmitsOnce ==
    \A r \in Request :
        request[r].challenge # None =>
            /\ \A c \in challenges : c.id # request[r].challenge
            /\ \A s \in Request \ {r} : request[s].challenge # request[r].challenge

\* Every session was issued for the account of the key its own request
\* proved to hold, in whatever order registrations, logins and device
\* updates of the two accounts ran.
SessionOfProvenKey ==
    \A t \in Request : request[t].at = "granted" =>
        \E u \in users : u.id = request[t].user /\ u.chhayaId = request[t].key

\* A registration that failed or died half-way leaves no account without a
\* device, and a device of an account keeps belonging to it.
AccountHasDevice ==
    \A u \in users : \E d \in Device : devices[d] = u.id

\* "Device IDs cannot be reassigned to another account by login or the
\* device-link API", nor by two of these requests running at once.
DeviceNeverReassigned ==
    [][\A d \in Device : devices[d] # None => devices'[d] = devices[d]]_vars

=============================================================================
