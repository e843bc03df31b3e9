---------------------------- MODULE AccountConnect ----------------------------
(***************************************************************************)
(* ApiService.connectAccount against the server of IdentityAuth: one       *)
(* device, one identity, and nothing that goes wrong on the way: no        *)
(* challenge expires, no request is lost and the server stays up.          *)
(***************************************************************************)
EXTENDS IdentityAuth

CONSTANTS
    Own,       \* the identity key of the device
    OwnDevice  \* its device id

VARIABLE client  \* what connectAccount waits for, its request, its purpose

connectVars == <<vars, client>>

ConnectInit ==
    /\ Init
    /\ client = [at |-> "challenge", request |-> None, purpose |-> "register"]

\* The JSON fields of the two requests, optional ones that are null aside.
RequestFields(p) ==
    {"chhayaId", "recoveryPhraseHash", "deviceId", "platform"} \cup
    (IF p = "register"
     THEN {"displayName", "publicKey", "encryptedPrivateKey"} ELSE {})

\* The fields registerSchema and loginSchema require.
RequiredFields(p) ==
    {"challengeId", "identityProof", "chhayaId", "recoveryPhraseHash",
     "deviceId"} \cup
    (IF p = "register"
     THEN {"displayName", "publicKey", "encryptedPrivateKey"} ELSE {})

\* _identityClaim: POST /auth/challenge, then the proof.
ClaimIdentity ==
    /\ client.at = "challenge"
    /\ IssueChallenge(Own, OwnDevice, client.purpose)
    /\ client' = [client EXCEPT !.at = "post"]

\* register() or login(): the server rejects a body that misses a required
\* field with 400, and ApiException is rethrown; else the handler starts.
PostClaim ==
    /\ client.at = "post"
    /\ IF RequiredFields(client.purpose) \subseteq RequestFields(client.purpose)
       THEN \E r \in Request :
               /\ Consume(r, drawn, Own, OwnDevice, client.purpose)
               /\ request'[r].at = "lookup"
               /\ client' = [client EXCEPT !.at = "answer", !.request = r]
       ELSE /\ client' = [client EXCEPT !.at = "failed"]
            /\ UNCHANGED vars

\* The answer: a session is saved, 409 to a registration leads to a login.
HandleAnswer ==
    /\ client.at = "answer"
    /\ request[client.request].at \in Ended
    /\ client' =
          IF request[client.request].at = "granted"
          THEN [client EXCEPT !.at = "connected"]
          ELSE IF client.purpose = "register" /\ Registered(Own)
          THEN [client EXCEPT !.at = "challenge", !.purpose = "login"]
          ELSE [client EXCEPT !.at = "failed"]
    /\ UNCHANGED vars

\* The handler of the client's own request, with the inputs ApiService
\* gives it: its public id, the credential it registered, no push token.
Handle(r) ==
    /\ \/ CheckNewIdentity(r) /\ request'[r].chhayaId = Own
       \/ InsertAccount(r)
       \/ FindAccount(r) /\ request'[r].at = "device"
       \/ LoginDevice(r)
       \/ RegisterPush(r) /\ request'[r].at = "issue"
       \/ IssueSession(r)
    /\ UNCHANGED client

ConnectNext ==
    \/ ClaimIdentity
    \/ PostClaim
    \/ HandleAnswer
    \/ \E r \in Request : Handle(r)

ConnectSpec ==
    ConnectInit /\ [][ConnectNext]_connectVars /\ WF_connectVars(ConnectNext)

\* "ApiService performs a single-use identity-possession challenge and
\* stores the resulting opaque session token": a client whose every request
\* is answered ends up connected.
ConnectingSucceeds == client.at = "challenge" ~> client.at = "connected"

=============================================================================
