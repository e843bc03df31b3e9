-------------------------- MODULE IdentityAuth_proofs --------------------------
(***************************************************************************)
(* IdentityAuth for every number of keys, devices, requests and            *)
(* challenges.                                                             *)
(*                                                                         *)
(* The inductive invariant adds to the properties what a handler carries   *)
(* from one query to the next: a challenge id below the ones still to be   *)
(* drawn, a public id compared with the proven key before the insert, and  *)
(* an account of the proven key from the lookup or the insert onwards.     *)
(***************************************************************************)
EXTENDS IdentityAuth, TLAPS

\* Challenge ids are drawn once, and requests only carry drawn ones.
IdsDrawn ==
    /\ \A c \in challenges : c.id =< drawn
    /\ \A r \in Request :
          request[r].challenge # None => request[r].challenge =< drawn
    /\ \A c, e \in challenges : c.id = e.id => c = e

\* A handler that is going to write knows its key and device, and one that
\* links a device knows its account.
ClaimKept ==
    \A r \in Request :
        /\ request[r].at \in {"lookup", "insert", "device"} =>
               request[r].key \in Key /\ request[r].device \in Device
        /\ request[r].at = "link" => request[r].user \in Request

\* The insert follows the comparison of the public id with the proven key.
InsertCompared ==
    \A r \in Request :
        request[r].at = "insert" => request[r].chhayaId = request[r].key

\* From the account lookup or insert onwards, a handler works for the
\* account of the key its request proved to hold.
HasAccount(r) ==
    \E u \in users : u.id = request[r].user /\ u.chhayaId = request[r].key

AccountOfProvenKey ==
    \A r \in Request :
        request[r].at \in {"device", "push", "issue", "granted"} => HasAccount(r)

IInv ==
    /\ TypeOK
    /\ IdsDrawn
    /\ ChallengeAdmitsOnce
    /\ ClaimKept
    /\ InsertCompared
    /\ AccountOfProvenKey
    /\ OneAccountPerIdentity
    /\ AccountHasDevice

-----------------------------------------------------------------------------

LEMMA InitIInv == Init => IInv
<1> SUFFICES ASSUME Init PROVE IInv
    OBVIOUS
<1> USE AuthAssumption DEF Init, Blank
<1>1. TypeOK
    BY DEF TypeOK, Handler, Running, Ended, Purpose
<1>2. IdsDrawn /\ ChallengeAdmitsOnce
    BY DEF IdsDrawn, ChallengeAdmitsOnce
<1>3. ClaimKept /\ InsertCompared /\ AccountOfProvenKey
    BY DEF ClaimKept, InsertCompared, AccountOfProvenKey
<1>4. OneAccountPerIdentity /\ AccountHasDevice
    BY DEF OneAccountPerIdentity, AccountHasDevice
<1> QED
    BY <1>1, <1>2, <1>3, <1>4 DEF IInv

\* What one handler may do to its request without touching challenges: x is
\* its state afterwards.
LEMMA RequestStep ==
    ASSUME IInv, NEW r \in Request, NEW x \in Handler,
           request' = [request EXCEPT ![r] = x],
           UNCHANGED <<challenges, drawn>>,
           users \subseteq users',
           x.challenge \in {request[r].challenge, None},
           x.at \in {"lookup", "insert", "device"} =>
               x.key \in Key /\ x.device \in Device,
           x.at = "link" => x.user \in Request,
           x.at = "insert" => x.chhayaId = x.key,
           x.at \in {"device", "push", "issue", "granted"} =>
               \E u \in users' : u.id = x.user /\ u.chhayaId = x.key
    PROVE  /\ request' \in [Request -> Handler]
           /\ IdsDrawn'
           /\ ChallengeAdmitsOnce'
           /\ ClaimKept'
           /\ InsertCompared'
           /\ AccountOfProvenKey'
<1>1. request \in [Request -> Handler]
  BY DEF IInv, TypeOK
<1>2. /\ request' \in [Request -> Handler]
      /\ request'[r] = x
      /\ \A s \in Request : s # r => request'[s] = request[s]
  BY <1>1
<1>3. \A s \in Request : request'[s].challenge \in {request[s].challenge, None}
  BY <1>2
<1>4. IdsDrawn'
  BY <1>3 DEF IInv, IdsDrawn
<1>5. ChallengeAdmitsOnce'
  BY <1>3 DEF IInv, ChallengeAdmitsOnce
<1>6. ClaimKept' /\ InsertCompared'
  BY <1>2 DEF IInv, ClaimKept, InsertCompared
<1>7. AccountOfProvenKey'
  BY <1>2 DEF IInv, AccountOfProvenKey, HasAccount
<1>8. QED
  BY <1>2, <1>4, <1>5, <1>6, <1>7

\* A request that moves on without a new account or claim.
LEMMA GotoStep ==
    ASSUME IInv, NEW r \in Request, NEW at \in {"idle"} \cup Running \cup Ended,
           Goto(r, at),
           UNCHANGED <<challenges, drawn, users>>,
           at \notin {"lookup", "insert", "device", "link"},
           at \in {"push", "issue", "granted"} =>
               request[r].at \in {"device", "push", "issue"}
    PROVE  /\ request' \in [Request -> Handler]
           /\ IdsDrawn'
           /\ ChallengeAdmitsOnce'
           /\ ClaimKept'
           /\ InsertCompared'
           /\ AccountOfProvenKey'
<1> DEFINE x == [request[r] EXCEPT !.at = at]
<1>1. request[r] \in Handler
  BY DEF IInv, TypeOK
<1>2. /\ x \in Handler
      /\ x.at = at
      /\ x.challenge = request[r].challenge
      /\ x.key = request[r].key
      /\ x.user = request[r].user
  BY <1>1 DEF Handler
<1>3. request' = [request EXCEPT ![r] = x]
  BY DEF Goto
<1>4. x.at \in {"device", "push", "issue", "granted"} =>
          \E u \in users' : u.id = x.user /\ u.chhayaId = x.key
  BY <1>2 DEF IInv, AccountOfProvenKey, HasAccount
<1> HIDE DEF x
<1>5. QED
  BY <1>2, <1>3, <1>4, RequestStep

-----------------------------------------------------------------------------

\* The invariant depends on the variables named here only.
LEMMA Conclude ==
    ASSUME IInv,
           challenges' \subseteq Challenge, drawn' \in Nat, users' \subseteq User,
           devices' \in [Device -> Request \cup {None}], sessions' \subseteq Request,
           request' \in [Request -> Handler],
           IdsDrawn', ChallengeAdmitsOnce', ClaimKept', InsertCompared',
           AccountOfProvenKey', OneAccountPerIdentity', AccountHasDevice'
    PROVE  IInv'
  BY DEF IInv, TypeOK

\* Rows of the account tables that stay as they are.
LEMMA TablesKept ==
    ASSUME IInv, UNCHANGED <<users, devices>>
    PROVE  /\ users' \subseteq User
           /\ devices' \in [Device -> Request \cup {None}]
           /\ OneAccountPerIdentity'
           /\ AccountHasDevice'
  BY DEF IInv, TypeOK, OneAccountPerIdentity, AccountHasDevice

LEMMA IssueChallengeStep ==
    ASSUME IInv, NEW k \in Key, NEW d \in Device, NEW p \in Purpose,
           IssueChallenge(k, d, p)
    PROVE  IInv'
<1> DEFINE row == [ id |-> drawn + 1, key |-> k, device |-> d, purpose |-> p,
                    expired |-> FALSE ]
<1>1. drawn \in Nat /\ challenges \subseteq Challenge /\ sessions \subseteq Request
  BY DEF IInv, TypeOK
<1>2. row \in Challenge /\ row.id = drawn + 1
  BY <1>1 DEF Challenge
<1>3. drawn' = drawn + 1 /\ challenges' \subseteq challenges \cup {row}
  BY DEF IssueChallenge
<1>4. UNCHANGED <<users, devices, sessions, request>>
  BY DEF IssueChallenge
<1> HIDE DEF row
<1>5. \A c \in challenges : c.id \in Nat /\ c.id =< drawn
  BY <1>1 DEF IInv, IdsDrawn, Challenge
<1>6. \A r \in Request : request[r].challenge # None =>
          request[r].challenge \in Nat /\ request[r].challenge =< drawn
  BY DEF IInv, TypeOK, IdsDrawn, Handler
<1>7. IdsDrawn'
  BY <1>1, <1>2, <1>3, <1>4, <1>5, <1>6 DEF IInv, IdsDrawn
<1>8. ChallengeAdmitsOnce'
  BY <1>1, <1>2, <1>3, <1>4, <1>6 DEF IInv, ChallengeAdmitsOnce
<1>9. ClaimKept' /\ InsertCompared' /\ AccountOfProvenKey'
  BY <1>4 DEF IInv, ClaimKept, InsertCompared, AccountOfProvenKey, HasAccount
<1>10. challenges' \subseteq Challenge /\ drawn' \in Nat /\ sessions' \subseteq Request
       /\ request' \in [Request -> Handler]
  BY <1>1, <1>2, <1>3, <1>4 DEF IInv, TypeOK
<1>11. QED
  BY <1>4, <1>7, <1>8, <1>9, <1>10, TablesKept, Conclude

LEMMA ExpireChallengeStep ==
    ASSUME IInv, ExpireChallenge
    PROVE  IInv'
<1>1. PICK c \in challenges :
          challenges' = (challenges \ {c}) \cup {[c EXCEPT !.expired = TRUE]}
  BY DEF ExpireChallenge
<1> DEFINE e == [c EXCEPT !.expired = TRUE]
<1>2. c \in Challenge /\ challenges \subseteq Challenge
  BY DEF IInv, TypeOK
<1>3. e \in Challenge /\ e.id = c.id
  BY <1>2 DEF Challenge
<1>4. UNCHANGED <<drawn, users, devices, sessions, request>>
  BY DEF ExpireChallenge
<1>5. challenges' = (challenges \ {c}) \cup {e}
  BY <1>1
<1> HIDE DEF e
<1>6. IdsDrawn'
  BY <1>3, <1>4, <1>5 DEF IInv, IdsDrawn
<1>7. ChallengeAdmitsOnce'
  BY <1>3, <1>4, <1>5 DEF IInv, ChallengeAdmitsOnce
<1>8. ClaimKept' /\ InsertCompared' /\ AccountOfProvenKey'
  BY <1>4 DEF IInv, ClaimKept, InsertCompared, AccountOfProvenKey, HasAccount
<1>9. /\ challenges' \subseteq Challenge /\ drawn' \in Nat
      /\ sessions' \subseteq Request /\ request' \in [Request -> Handler]
  BY <1>2, <1>3, <1>4, <1>5 DEF IInv, TypeOK
<1>10. QED
  BY <1>4, <1>6, <1>7, <1>8, <1>9, TablesKept, Conclude

\* The challenge a request consumes is no other request's and, afterwards,
\* no row's: ids of rows are unique and the row was there until now.
LEMMA ConsumeStep ==
    ASSUME IInv, NEW r \in Request, NEW id \in 1 .. drawn,
           NEW k \in Key, NEW d \in Device, NEW p \in Purpose,
           Consume(r, id, k, d, p)
    PROVE  IInv'
<1> DEFINE hit == Matching(id, k, d, p)
<1>1. PICK x :
          /\ request' = [request EXCEPT ![r] = x]
          /\ \/ x = [Blank EXCEPT !.at = "closed"]
             \/ /\ hit # {}
                /\ \E at \in {"lookup", "closed"} :
                      x = [ Blank EXCEPT !.at = at, !.purpose = p,
                            !.challenge = id, !.key = k, !.device = d ]
  BY DEF Consume
<1>2. /\ drawn \in Nat /\ challenges \subseteq Challenge
      /\ request \in [Request -> Handler] /\ sessions \subseteq Request
  BY DEF IInv, TypeOK
<1>3. /\ x \in Handler
      /\ x.at \in {"closed", "lookup"}
      /\ x.at = "lookup" => x.key \in Key /\ x.device \in Device
      /\ x.challenge # None => x.challenge = id /\ hit # {}
  <2> HIDE DEF hit
  <2>1. id \in Nat
    BY <1>2
  <2>2. CASE x = [Blank EXCEPT !.at = "closed"]
    BY <2>2 DEF Blank, Handler, Running, Ended
  <2>3. CASE /\ hit # {}
             /\ \E at \in {"lookup", "closed"} :
                   x = [ Blank EXCEPT !.at = at, !.purpose = p,
                         !.challenge = id, !.key = k, !.device = d ]
    BY <2>1, <2>3 DEF Blank, Handler, Running, Ended
  <2>4. QED
    BY <1>1, <2>2, <2>3
<1>4. /\ challenges' = challenges \ hit
      /\ UNCHANGED <<drawn, users, devices, sessions>>
  BY DEF Consume
<1>5. /\ request' \in [Request -> Handler]
      /\ request'[r] = x
      /\ \A s \in Request : s # r => request'[s] = request[s]
  BY <1>1, <1>2, <1>3
<1>6. hit # {} => /\ \A c \in challenges' : c.id # id
                  /\ \A s \in Request : request[s].challenge # id
  BY <1>2, <1>4, AuthAssumption
     DEF IInv, IdsDrawn, ChallengeAdmitsOnce, Matching, Challenge
<1> HIDE DEF hit
<1>7. IdsDrawn'
  BY <1>2, <1>3, <1>4, <1>5 DEF IInv, IdsDrawn
<1>8. ChallengeAdmitsOnce'
  BY <1>3, <1>4, <1>5, <1>6 DEF IInv, ChallengeAdmitsOnce
<1>9. ClaimKept' /\ InsertCompared' /\ AccountOfProvenKey'
  BY <1>3, <1>4, <1>5
     DEF IInv, ClaimKept, InsertCompared, AccountOfProvenKey, HasAccount
<1>10. challenges' \subseteq Challenge /\ drawn' \in Nat /\ sessions' \subseteq Request
  BY <1>2, <1>4
<1>11. QED
  BY <1>4, <1>5, <1>7, <1>8, <1>9, <1>10, TablesKept, Conclude

-----------------------------------------------------------------------------
\* Steps that move one request and leave the challenges alone

\* What is left to show of the steps of a handler after its challenge.
LEMMA HandlerStep ==
    ASSUME IInv,
           UNCHANGED <<challenges, drawn>>,
           users' \subseteq User,
           devices' \in [Device -> Request \cup {None}],
           sessions' \subseteq Request,
           OneAccountPerIdentity', AccountHasDevice',
           request' \in [Request -> Handler], IdsDrawn', ChallengeAdmitsOnce',
           ClaimKept', InsertCompared', AccountOfProvenKey'
    PROVE  IInv'
<1>1. challenges' \subseteq Challenge /\ drawn' \in Nat
  BY DEF IInv, TypeOK
<1>2. QED
  BY <1>1, Conclude

LEMMA CheckNewIdentityStep ==
    ASSUME IInv, NEW r \in Request, CheckNewIdentity(r)
    PROVE  IInv'
<1>1. UNCHANGED <<challenges, drawn, users, devices, sessions>>
  BY DEF CheckNewIdentity, tables
<1>2. PICK id \in Key :
          request' = [request EXCEPT
              ![r].at = IF Registered(id) \/ id # request[r].key
                        THEN "closed" ELSE "insert",
              ![r].chhayaId = id]
  BY DEF CheckNewIdentity
<1>3. /\ request[r] \in Handler
      /\ request \in [Request -> Handler]
      /\ sessions \subseteq Request
  BY DEF IInv, TypeOK
<1>4. request[r].key \in Key /\ request[r].device \in Device
  BY DEF CheckNewIdentity, IInv, ClaimKept
<1> DEFINE at == IF Registered(id) \/ id # request[r].key
                 THEN "closed" ELSE "insert"
           x == [request[r] EXCEPT !.at = at, !.chhayaId = id]
<1>5. at \in {"closed", "insert"} /\ (at = "insert" => id = request[r].key)
  OBVIOUS
<1>6. request' = [request EXCEPT ![r] = x]
  BY <1>2, <1>3
<1> HIDE DEF at
<1>7. at \in {"idle"} \cup Running \cup Ended
  BY <1>5 DEF Running, Ended
<1>8. /\ x \in Handler
      /\ x.at = at
      /\ x.chhayaId = id
      /\ x.key = request[r].key
      /\ x.device = request[r].device
      /\ x.challenge = request[r].challenge
  BY <1>3, <1>7 DEF Handler
<1> HIDE DEF x
<1>9. /\ request' \in [Request -> Handler] /\ IdsDrawn' /\ ChallengeAdmitsOnce'
      /\ ClaimKept' /\ InsertCompared' /\ AccountOfProvenKey'
  BY <1>1, <1>4, <1>5, <1>6, <1>8, RequestStep
<1>10. QED
  BY <1>1, <1>3, <1>9, TablesKept, HandlerStep

LEMMA FindAccountStep ==
    ASSUME IInv, NEW r \in Request, FindAccount(r)
    PROVE  IInv'
<1>1. UNCHANGED <<challenges, drawn, users, devices, sessions>>
  BY DEF FindAccount, tables
<1>2. /\ request[r] \in Handler
      /\ request \in [Request -> Handler]
      /\ sessions \subseteq Request
      /\ users \subseteq User
  BY DEF IInv, TypeOK
<1>3. request[r].key \in Key /\ request[r].device \in Device
  BY DEF FindAccount, IInv, ClaimKept
<1>4. /\ request' \in [Request -> Handler] /\ IdsDrawn' /\ ChallengeAdmitsOnce'
      /\ ClaimKept' /\ InsertCompared' /\ AccountOfProvenKey'
  <2>1. CASE Goto(r, "closed")
    BY <1>1, <2>1, GotoStep DEF Ended
  <2>2. CASE \E u \in users :
                /\ u.chhayaId = request[r].key
                /\ request' = [request EXCEPT ![r].at = "device",
                                              ![r].user = u.id]
    <3>1. PICK u \in users :
              /\ u.chhayaId = request[r].key
              /\ request' = [request EXCEPT ![r].at = "device",
                                            ![r].user = u.id]
      BY <2>2
    <3> DEFINE x == [request[r] EXCEPT !.at = "device", !.user = u.id]
    <3>2. request' = [request EXCEPT ![r] = x]
      BY <1>2, <3>1
    <3>3. u.id \in Request
      BY <1>2 DEF User
    <3>4. /\ x \in Handler
          /\ x.at = "device"
          /\ x.user = u.id
          /\ x.key = request[r].key
          /\ x.device = request[r].device
          /\ x.challenge = request[r].challenge
      BY <1>2, <3>3 DEF Handler, Running
    <3> HIDE DEF x
    <3>5. \E v \in users' : v.id = x.user /\ v.chhayaId = x.key
      BY <1>1, <3>1, <3>4
    <3>6. QED
      BY <1>1, <1>3, <3>2, <3>4, <3>5, RequestStep
  <2>3. QED
    BY <2>1, <2>2 DEF FindAccount
<1>5. QED
  BY <1>1, <1>2, <1>4, TablesKept, HandlerStep

\* A device row is inserted, or updated for the account it belongs to, so no
\* account loses one.
LEMMA UpsertStep ==
    ASSUME IInv, NEW r \in Request, NEW d, NEW next \in {"push", "closed"},
           request[r].user \in Request,
           next = "push" => request[r].at = "device",
           UpsertDevice(r, d, next),
           UNCHANGED <<challenges, drawn, users, sessions>>
    PROVE  IInv'
<1>1. /\ users \subseteq User /\ sessions \subseteq Request
      /\ devices \in [Device -> Request \cup {None}]
  BY DEF IInv, TypeOK
<1>2. \E at \in {"push", "closed"} :
          Goto(r, at) /\ (at = "push" => request[r].at = "device")
  BY DEF UpsertDevice
<1>3. /\ request' \in [Request -> Handler] /\ IdsDrawn' /\ ChallengeAdmitsOnce'
      /\ ClaimKept' /\ InsertCompared' /\ AccountOfProvenKey'
  BY <1>2, GotoStep DEF Running, Ended
<1>4. \/ UNCHANGED devices
      \/ /\ devices[d] \in {None, request[r].user}
         /\ devices' = [devices EXCEPT ![d] = request[r].user]
  BY DEF UpsertDevice
<1>5. devices' \in [Device -> Request \cup {None}]
  BY <1>1, <1>4
<1>6. \A u \in users : u.id # None
  BY <1>1, AuthAssumption DEF User
<1>7. AccountHasDevice'
  BY <1>1, <1>4, <1>6 DEF IInv, AccountHasDevice
<1>8. OneAccountPerIdentity'
  BY DEF IInv, OneAccountPerIdentity
<1>9. QED
  BY <1>1, <1>3, <1>5, <1>7, <1>8, HandlerStep

LEMMA LoginDeviceStep ==
    ASSUME IInv, NEW r \in Request, LoginDevice(r)
    PROVE  IInv'
<1>1. request[r].at = "device" /\ users \subseteq User
  BY DEF LoginDevice, IInv, TypeOK
<1>2. request[r].user \in Request
  BY <1>1 DEF IInv, AccountOfProvenKey, HasAccount, User
<1>3. QED
  BY <1>1, <1>2, UpsertStep DEF LoginDevice

LEMMA LinkDeviceStep ==
    ASSUME IInv, NEW r \in Request, LinkDevice(r)
    PROVE  IInv'
<1>1. request[r].user \in Request
  BY DEF LinkDevice, IInv, ClaimKept
<1>2. PICK d \in Device : UpsertDevice(r, d, "closed")
  BY DEF LinkDevice
<1>3. QED
  BY <1>1, <1>2, UpsertStep DEF LinkDevice

\* The account and its first device appear together, for an identity and a
\* device that had no row.
LEMMA InsertAccountStep ==
    ASSUME IInv, NEW r \in Request, InsertAccount(r)
    PROVE  IInv'
<1>1. /\ users \subseteq User /\ sessions \subseteq Request
      /\ devices \in [Device -> Request \cup {None}]
      /\ request \in [Request -> Handler]
      /\ request[r] \in Handler
  BY DEF IInv, TypeOK
<1>2. UNCHANGED <<challenges, drawn, sessions>>
  BY DEF InsertAccount
<1>3. /\ request[r].key \in Key /\ request[r].device \in Device
      /\ request[r].chhayaId = request[r].key
  BY DEF InsertAccount, IInv, ClaimKept, InsertCompared
<1>4. CASE AccountConflicts(r)
  <2>1. Goto(r, "closed") /\ UNCHANGED <<users, devices>>
    BY <1>4 DEF InsertAccount
  <2>2. /\ request' \in [Request -> Handler] /\ IdsDrawn' /\ ChallengeAdmitsOnce'
        /\ ClaimKept' /\ InsertCompared' /\ AccountOfProvenKey'
    BY <1>2, <2>1, GotoStep DEF Ended
  <2>3. QED
    BY <1>1, <1>2, <2>1, <2>2, TablesKept, HandlerStep
<1>5. CASE ~AccountConflicts(r)
  <2> DEFINE row == AccountRow(r)
             d == request[r].device
             x == [request[r] EXCEPT !.at = "push", !.user = r]
  <2>1. /\ users' = users \cup {row}
        /\ devices' = [devices EXCEPT ![d] = r]
        /\ request' = [request EXCEPT ![r] = x]
    BY <1>1, <1>5 DEF InsertAccount
  <2>2. row \in User /\ row.id = r /\ row.chhayaId = request[r].key
        /\ row.key = request[r].key
    BY <1>3 DEF AccountRow, User
  <2>3. devices[d] = None /\ \A u \in users : u.chhayaId # row.chhayaId
    BY <1>3, <1>5, <2>2 DEF AccountConflicts, Registered
  <2>4. /\ x \in Handler
        /\ x.at = "push"
        /\ x.user = r
        /\ x.key = request[r].key
        /\ x.challenge = request[r].challenge
    BY <1>1 DEF Handler, Running
  <2> HIDE DEF row, x
  <2>5. \E u \in users' : u.id = x.user /\ u.chhayaId = x.key
    BY <2>1, <2>2, <2>4
  <2>6. /\ request' \in [Request -> Handler] /\ IdsDrawn' /\ ChallengeAdmitsOnce'
        /\ ClaimKept' /\ InsertCompared' /\ AccountOfProvenKey'
    BY <1>2, <2>1, <2>4, <2>5, RequestStep
  <2>7. OneAccountPerIdentity'
    BY <2>1, <2>2, <2>3 DEF IInv, OneAccountPerIdentity
  <2>8. d \in Device
    BY <1>3
  <2> HIDE DEF d
  <2>9. devices' \in [Device -> Request \cup {None}]
        /\ devices'[d] = r
        /\ \A e \in Device : e # d => devices'[e] = devices[e]
    BY <1>1, <2>1, <2>8
  <2>10. AccountHasDevice'
    <3>1. \A u \in users : u.id # None
      BY <1>1, AuthAssumption DEF User
    <3>2. \A u \in users : \E e \in Device : devices'[e] = u.id
      BY <2>3, <2>9, <3>1 DEF IInv, AccountHasDevice
    <3>3. QED
      BY <2>1, <2>2, <2>8, <2>9, <3>2 DEF AccountHasDevice
  <2>11. users' \subseteq User
    BY <1>1, <2>1, <2>2
  <2>12. QED
    BY <1>1, <1>2, <2>6, <2>7, <2>9, <2>10, <2>11, HandlerStep
<1>6. QED
  BY <1>4, <1>5

LEMMA RegisterPushStep ==
    ASSUME IInv, NEW r \in Request, RegisterPush(r)
    PROVE  IInv'
<1>1. UNCHANGED <<challenges, drawn, users, devices, sessions>>
  BY DEF RegisterPush, tables
<1>2. PICK at \in {"closed", "issue"} : Goto(r, at)
  BY DEF RegisterPush
<1>3. /\ request' \in [Request -> Handler] /\ IdsDrawn' /\ ChallengeAdmitsOnce'
      /\ ClaimKept' /\ InsertCompared' /\ AccountOfProvenKey'
  BY <1>1, <1>2, GotoStep DEF RegisterPush, Running, Ended
<1>4. sessions' \subseteq Request
  BY <1>1 DEF IInv, TypeOK
<1>5. QED
  BY <1>1, <1>3, <1>4, TablesKept, HandlerStep

LEMMA IssueSessionStep ==
    ASSUME IInv, NEW r \in Request, IssueSession(r)
    PROVE  IInv'
<1>1. UNCHANGED <<challenges, drawn, users, devices>>
  BY DEF IssueSession
<1>2. /\ request' \in [Request -> Handler] /\ IdsDrawn' /\ ChallengeAdmitsOnce'
      /\ ClaimKept' /\ InsertCompared' /\ AccountOfProvenKey'
  BY <1>1, GotoStep DEF IssueSession, Running, Ended
<1>3. sessions' \subseteq Request
  BY DEF IInv, TypeOK, IssueSession
<1>4. QED
  BY <1>1, <1>2, <1>3, TablesKept, HandlerStep

LEMMA LogoutStep ==
    ASSUME IInv, NEW r \in Request, Logout(r)
    PROVE  IInv'
<1>1. UNCHANGED <<challenges, drawn, users, devices>>
  BY DEF Logout
<1>2. /\ request' \in [Request -> Handler] /\ IdsDrawn' /\ ChallengeAdmitsOnce'
      /\ ClaimKept' /\ InsertCompared' /\ AccountOfProvenKey'
  BY <1>1, GotoStep DEF Logout, Ended
<1>3. sessions' \subseteq Request
  BY DEF IInv, TypeOK, Logout
<1>4. QED
  BY <1>1, <1>2, <1>3, TablesKept, HandlerStep

\* The middleware hands on the account of the session's own request.
LEMMA AuthenticateStep ==
    ASSUME IInv, NEW r \in Request, NEW t \in Request,
           NEW next \in {"link", "logout"}, Authenticate(r, t, next)
    PROVE  IInv'
<1>1. UNCHANGED <<challenges, drawn, users, devices, sessions>>
  BY DEF Authenticate, tables
<1>2. users \subseteq User /\ sessions \subseteq Request
  BY DEF IInv, TypeOK
<1>3. request[t].user \in Request
  BY <1>2 DEF Authenticate, IInv, AccountOfProvenKey, HasAccount, User
<1>4. PICK x :
          /\ request' = [request EXCEPT ![r] = x]
          /\ \/ x = [Blank EXCEPT !.at = next, !.user = request[t].user,
                                  !.token = t]
             \/ x = [Blank EXCEPT !.at = "closed"]
  BY DEF Authenticate
<1>5. /\ x \in Handler
      /\ x.at \in {"closed", "link", "logout"}
      /\ x.at = "link" => x.user \in Request
      /\ x.challenge = None
  <2>1. CASE x = [Blank EXCEPT !.at = "closed"]
    BY <2>1 DEF Blank, Handler, Running, Ended
  <2>2. CASE x = [Blank EXCEPT !.at = next, !.user = request[t].user, !.token = t]
    BY <1>3, <2>2 DEF Blank, Handler, Running, Ended
  <2>3. QED
    BY <1>4, <2>1, <2>2
<1>6. /\ request' \in [Request -> Handler] /\ IdsDrawn' /\ ChallengeAdmitsOnce'
      /\ ClaimKept' /\ InsertCompared' /\ AccountOfProvenKey'
  BY <1>1, <1>4, <1>5, RequestStep
<1>7. QED
  BY <1>1, <1>2, <1>6, TablesKept, HandlerStep

LEMMA ExpireSessionStep ==
    ASSUME IInv, ExpireSession
    PROVE  IInv'
<1>1. UNCHANGED <<challenges, drawn, users, devices, request>>
  BY DEF ExpireSession
<1>2. sessions' \subseteq Request /\ request' \in [Request -> Handler]
  BY DEF IInv, TypeOK, ExpireSession
<1>3. IdsDrawn' /\ ChallengeAdmitsOnce'
  BY <1>1 DEF IInv, IdsDrawn, ChallengeAdmitsOnce
<1>4. ClaimKept' /\ InsertCompared' /\ AccountOfProvenKey'
  BY <1>1 DEF IInv, ClaimKept, InsertCompared, AccountOfProvenKey, HasAccount
<1>5. QED
  BY <1>1, <1>2, <1>3, <1>4, TablesKept, HandlerStep

\* What was in the tables when the process stopped is all there is.
LEMMA ShutdownStep ==
    ASSUME IInv, Shutdown
    PROVE  IInv'
<1>1. UNCHANGED <<challenges, drawn, users, devices, sessions>>
  BY DEF Shutdown, tables
<1>2. request \in [Request -> Handler] /\ sessions \subseteq Request
  BY DEF IInv, TypeOK
<1>3. \A r \in Request :
          \/ request'[r] = request[r]
          \/ request'[r] = [request[r] EXCEPT !.at = "closed"]
  BY DEF Shutdown
<1>4. \A r \in Request :
          /\ request'[r] \in Handler
          /\ request'[r].at \in {request[r].at, "closed"}
          /\ request'[r].challenge = request[r].challenge
          /\ request'[r].key = request[r].key
          /\ request'[r].device = request[r].device
          /\ request'[r].chhayaId = request[r].chhayaId
          /\ request'[r].user = request[r].user
  <2> SUFFICES ASSUME NEW r \in Request
               PROVE  /\ request'[r] \in Handler
                      /\ request'[r].at \in {request[r].at, "closed"}
                      /\ request'[r].challenge = request[r].challenge
                      /\ request'[r].key = request[r].key
                      /\ request'[r].device = request[r].device
                      /\ request'[r].chhayaId = request[r].chhayaId
                      /\ request'[r].user = request[r].user
    OBVIOUS
  <2>1. request[r] \in Handler
    BY <1>2
  <2> DEFINE x == [request[r] EXCEPT !.at = "closed"]
  <2>2. /\ x \in Handler /\ x.at = "closed"
        /\ x.challenge = request[r].challenge
        /\ x.key = request[r].key
        /\ x.device = request[r].device
        /\ x.chhayaId = request[r].chhayaId
        /\ x.user = request[r].user
    BY <2>1 DEF Handler, Ended
  <2>3. request'[r] = request[r] \/ request'[r] = x
    BY <1>3
  <2> HIDE DEF x
  <2>4. QED
    BY <2>1, <2>2, <2>3
<1>5. request' \in [Request -> Handler]
  <2>1. \E f : request' = [r \in Request |-> f[r]]
    <3>1. request' = [r \in Request |-> request'[r]]
      BY DEF Shutdown
    <3>2. QED
      BY <3>1
  <2>2. QED
    BY <1>4, <2>1
<1>6. IdsDrawn' /\ ChallengeAdmitsOnce'
  BY <1>1, <1>4 DEF IInv, IdsDrawn, ChallengeAdmitsOnce
<1>7. ClaimKept' /\ InsertCompared'
  BY <1>4 DEF IInv, ClaimKept, InsertCompared
<1>8. AccountOfProvenKey'
  BY <1>1, <1>4 DEF IInv, AccountOfProvenKey, HasAccount
<1>9. QED
  BY <1>1, <1>2, <1>5, <1>6, <1>7, <1>8, TablesKept, HandlerStep

-----------------------------------------------------------------------------

LEMMA IInvInductive == IInv /\ [Next]_vars => IInv'
<1> SUFFICES ASSUME IInv, [Next]_vars PROVE IInv'
  OBVIOUS
<1>1. ASSUME NEW k \in Key, NEW d \in Device, NEW p \in Purpose,
             IssueChallenge(k, d, p)
      PROVE  IInv'
  BY <1>1, IssueChallengeStep
<1>2. ASSUME NEW k \in Key, NEW d \in Device, NEW p \in Purpose,
             NEW r \in Request, NEW id \in 1 .. drawn, Consume(r, id, k, d, p)
      PROVE  IInv'
  BY <1>2, ConsumeStep
<1>3. CASE ExpireChallenge
  BY <1>3, ExpireChallengeStep
<1>4. CASE ExpireSession
  BY <1>4, ExpireSessionStep
<1>5. CASE Shutdown
  BY <1>5, ShutdownStep
<1>6. ASSUME NEW r \in Request,
             \/ CheckNewIdentity(r) \/ InsertAccount(r)
             \/ FindAccount(r) \/ LoginDevice(r)
             \/ RegisterPush(r) \/ IssueSession(r)
             \/ LinkDevice(r) \/ Logout(r)
      PROVE  IInv'
  BY <1>6, CheckNewIdentityStep, InsertAccountStep, FindAccountStep,
     LoginDeviceStep, RegisterPushStep, IssueSessionStep, LinkDeviceStep,
     LogoutStep
<1>7. ASSUME NEW r \in Request, NEW t \in Request,
             NEW next \in {"link", "logout"}, Authenticate(r, t, next)
      PROVE  IInv'
  BY <1>7, AuthenticateStep
<1>8. CASE UNCHANGED vars
  <2>1. UNCHANGED <<challenges, drawn, users, devices, sessions, request>>
    BY <1>8 DEF vars, tables
  <2>2. /\ sessions' \subseteq Request /\ request' \in [Request -> Handler]
        /\ challenges' \subseteq Challenge /\ drawn' \in Nat
    BY <2>1 DEF IInv, TypeOK
  <2>3. IdsDrawn' /\ ChallengeAdmitsOnce'
    BY <2>1 DEF IInv, IdsDrawn, ChallengeAdmitsOnce
  <2>4. ClaimKept' /\ InsertCompared' /\ AccountOfProvenKey'
    BY <2>1 DEF IInv, ClaimKept, InsertCompared, AccountOfProvenKey, HasAccount
  <2>5. QED
    BY <2>1, <2>2, <2>3, <2>4, TablesKept, HandlerStep
<1>9. QED
  BY <1>1, <1>2, <1>3, <1>4, <1>5, <1>6, <1>7, <1>8 DEF Next

\* The inductive invariant holds throughout every execution of the auth
\* handlers, however their queries interleave and wherever the process stops.
THEOREM Invariant == Spec => []IInv
  BY InitIInv, IInvInductive, PTL DEF Spec

\* Rows and handlers stay well formed.
THEOREM TypeCorrect == Spec => []TypeOK
<1>1. IInv => TypeOK
  BY DEF IInv
<1>2. QED
  BY <1>1, Invariant, PTL

\* POST /auth/register: however many registrations of an identity run, it
\* has one account, under the public id of the key proven to be held.
THEOREM OneAccount == Spec => []OneAccountPerIdentity
<1>1. IInv => OneAccountPerIdentity
  BY DEF IInv
<1>2. QED
  BY <1>1, Invariant, PTL

\* consumeIdentityChallenge: a challenge that admitted a request is gone and
\* admits no other.
THEOREM SingleUse == Spec => []ChallengeAdmitsOnce
<1>1. IInv => ChallengeAdmitsOnce
  BY DEF IInv
<1>2. QED
  BY <1>1, Invariant, PTL

\* issueSession: a session belongs to the account of the key its request
\* proved to hold.
THEOREM ProvenSessions == Spec => []SessionOfProvenKey
<1>1. IInv => SessionOfProvenKey
  BY DEF IInv, SessionOfProvenKey, AccountOfProvenKey, HasAccount
<1>2. QED
  BY <1>1, Invariant, PTL

\* The registration transaction and the device updates: no account is ever
\* without a device.
THEOREM HasDevice == Spec => []AccountHasDevice
<1>1. IInv => AccountHasDevice
  BY DEF IInv
<1>2. QED
  BY <1>1, Invariant, PTL

\* The UPSERT of login and device linking and the INSERT of registration
\* leave a device with the account it belongs to.
THEOREM DevicesStay == Spec => DeviceNeverReassigned
<1>1. IInv /\ [Next]_vars =>
          [\A d \in Device : devices[d] # None => devices'[d] = devices[d]]_vars
  <2> SUFFICES ASSUME IInv, Next, NEW d \in Device, devices[d] # None
               PROVE  devices'[d] = devices[d]
    OBVIOUS
  <2>1. devices \in [Device -> Request \cup {None}]
    BY DEF IInv, TypeOK
  <2>2. CASE UNCHANGED devices
    BY <2>2
  <2>3. ASSUME NEW r \in Request, NEW e, NEW next, UpsertDevice(r, e, next)
        PROVE  devices'[d] = devices[d]
    BY <2>1, <2>3 DEF UpsertDevice
  <2>4. ASSUME NEW r \in Request, InsertAccount(r)
        PROVE  devices'[d] = devices[d]
    BY <2>1, <2>4 DEF InsertAccount, AccountConflicts
  <2>5. ASSUME NEW r \in Request, LoginDevice(r) \/ LinkDevice(r)
        PROVE  devices'[d] = devices[d]
    BY <2>3, <2>5 DEF LoginDevice, LinkDevice
  <2>6. ASSUME NEW r \in Request,
               \/ CheckNewIdentity(r) \/ FindAccount(r)
               \/ RegisterPush(r) \/ IssueSession(r) \/ Logout(r)
               \/ \E t \in Request, next \in {"link", "logout"} :
                     Authenticate(r, t, next)
        PROVE  UNCHANGED devices
    BY <2>6 DEF CheckNewIdentity, FindAccount, RegisterPush, IssueSession,
                Logout, Authenticate, tables
  <2>7. ASSUME NEW k \in Key, NEW e \in Device, NEW p \in Purpose,
               \/ IssueChallenge(k, e, p)
               \/ \E r \in Request, id \in 1 .. drawn : Consume(r, id, k, e, p)
        PROVE  UNCHANGED devices
    BY <2>7 DEF IssueChallenge, Consume
  <2>8. CASE ExpireChallenge \/ ExpireSession \/ Shutdown
    BY <2>2, <2>8 DEF ExpireChallenge, ExpireSession, Shutdown, tables
  <2>9. QED
    BY <2>2, <2>4, <2>5, <2>6, <2>7, <2>8 DEF Next
<1>2. QED
  BY <1>1, Invariant, PTL DEF Spec, DeviceNeverReassigned

============================================================================
