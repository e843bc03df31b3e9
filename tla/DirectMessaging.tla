--------------------------- MODULE DirectMessaging ---------------------------
(***************************************************************************)
(* One direct conversation end to end: the MessagingService of each of the *)
(* two devices, its SQLCipher database, and the messages table behind the  *)
(* POST and GET /messages routes of the server.                            *)
(*                                                                         *)
(* MessagingService._serial runs one operation per device at a time, so a  *)
(* device is either idle or at one point of a send, a retry or a sync.     *)
(* Between two of its steps anything else may happen: the other device,    *)
(* the server, the user deleting the conversation (the chat list calls the *)
(* database directly, outside _serial), or a crash.  Database transactions *)
(* are single steps.  The two accounts are connected, verified contacts of *)
(* each other and members of the conversation.                             *)
(***************************************************************************)
EXTENDS DoubleRatchet

CONSTANTS
    SendLimit,   \* bound: the messages each party composes
    PageSize,    \* messages per page of GET /messages
    MaxPages,    \* pages a sync fetches at most
    MaxFaults,   \* bound: interrupted operations and lost requests
    MaxDeletes   \* bound: conversation deletions

ASSUME DirectAssumption ==
    /\ SendLimit \in [Party -> Nat]
    /\ PageSize \in Nat \ {0}
    /\ MaxPages \in Nat \ {0}
    /\ MaxFaults \in Nat
    /\ MaxDeletes \in Nat

VARIABLES
    \* The database of each device, which survives a crash.
    session,   \* the ratchet session
    keygen,    \* ratchet key pairs generated
    saved,     \* ids of the rows of the messages table
    unsent,    \* ids of own rows with isSent = false
    outbox,    \* retry envelopes
    composed,  \* how many messages the device has composed
    \* The server and the transport.
    store,     \* the messages table in (sent_at, id) order
    requests,  \* envelopes of POST requests the server may still process
    \* Volatile state, and the bounds.
    op,        \* the operation each device is running
    faults,
    deletes

disk == <<session, keygen, saved, unsent, outbox, composed>>
bounds == <<faults, deletes>>
vars == <<disk, store, requests, op, bounds>>

\* A message id is a UUID: its author and a number nobody else draws.
Author(id) == id[1]
Ids(envs) == {e.id : e \in envs}
Entries(seq) == {seq[i] : i \in DOMAIN seq}

Fresh(p) == <<p, keygen[p] + 1>>

\* What a device is doing.  "post" carries the envelopes still to deliver,
\* "fetch" and "apply" the snapshot of the local rows the sync has taken.
Idle == [kind |-> "idle"]
Post(todo, phase) == [kind |-> "post", todo |-> todo, phase |-> phase]
Fetch(known, pending, batches, page) ==
    [ kind |-> "fetch", known |-> known, pending |-> pending,
      batches |-> batches, page |-> page ]
Apply(known, pending, todo) ==
    [kind |-> "apply", known |-> known, pending |-> pending, todo |-> todo]

Init ==
    /\ session = [p \in Party |-> InitSession(p, Peer(p), p = Initiator)]
    /\ keygen = [p \in Party |-> 0]
    /\ saved = [p \in Party |-> {}]
    /\ unsent = [p \in Party |-> {}]
    /\ outbox = [p \in Party |-> {}]
    /\ composed = [p \in Party |-> 0]
    /\ store = <<>>
    /\ requests = {}
    /\ op = [p \in Party |-> Idle]
    /\ faults = 0
    /\ deletes = 0

-----------------------------------------------------------------------------
\* Database transactions

SaveSession(p, s) ==
    /\ session' = [session EXCEPT ![p] = s]
    /\ keygen' = [keygen EXCEPT ![p] = IF s.our = Fresh(p) THEN @ + 1 ELSE @]

\* Mutation: the transaction leaves the ratchet session out.
CommitOutgoingNoSession(p, s, env) ==
    /\ saved' = [saved EXCEPT ![p] = @ \cup {env.id}]
    /\ unsent' = [unsent EXCEPT ![p] = @ \cup {env.id}]
    /\ outbox' = [outbox EXCEPT ![p] = @ \cup {env}]
    /\ UNCHANGED <<session, keygen>>

\* commitOutgoingMessage: row, ratchet advance and retry ciphertext.
CommitOutgoing(p, s, env) ==
    /\ SaveSession(p, s)
    /\ saved' = [saved EXCEPT ![p] = @ \cup {env.id}]
    /\ unsent' = [unsent EXCEPT ![p] = @ \cup {env.id}]
    /\ outbox' = [outbox EXCEPT ![p] = @ \cup {env}]

\* Mutation: the retry ciphertext is deleted, the row is not rewritten.
CommitSentOutboxOnly(p, env) ==
    /\ outbox' = [outbox EXCEPT ![p] = {e \in @ : e.id # env.id}]
    /\ UNCHANGED <<saved, unsent>>

\* commitMessageSent: upsert the row as sent, delete the retry ciphertext.
CommitSent(p, env) ==
    /\ saved' = [saved EXCEPT ![p] = @ \cup {env.id}]
    /\ unsent' = [unsent EXCEPT ![p] = @ \ {env.id}]
    /\ outbox' = [outbox EXCEPT ![p] = {e \in @ : e.id # env.id}]

\* Mutation: the session is saved first, the row is left to a later write.
CommitReceivedSessionFirst(p, s, env) ==
    /\ SaveSession(p, s)
    /\ UNCHANGED saved

\* commitReceivedMessage: row and ratchet advance.
CommitReceived(p, s, env) ==
    /\ SaveSession(p, s)
    /\ saved' = [saved EXCEPT ![p] = @ \cup {env.id}]

-----------------------------------------------------------------------------
\* Sending

\* MessagingService.send up to the commit inside codec.encrypt.
Send(p) ==
    LET env == [ id     |-> <<p, composed[p] + 1>>,
                 header |-> SendHeader(session[p], Fresh(p)),
                 key    |-> SendKey(session[p], Fresh(p)) ]
    IN  /\ op[p].kind = "idle"
        /\ composed[p] < SendLimit[p]
        /\ CommitOutgoing(p, AfterSend(session[p], Fresh(p)), env)
        /\ composed' = [composed EXCEPT ![p] = @ + 1]
        /\ op' = [op EXCEPT ![p] = Post({env}, "ready")]
        /\ UNCHANGED <<store, requests, bounds>>

\* The retry envelopes of the unsent rows the device still has.
Pending(p) == {e \in outbox[p] : e.id \in unsent[p]}

\* retryPending: the snapshot of unsent rows it goes through, oldest first.
Retry(p) ==
    /\ op[p].kind = "idle"
    /\ Pending(p) # {}
    /\ op' = [op EXCEPT ![p] = Post(Pending(p), "ready")]
    /\ UNCHANGED <<disk, store, requests, bounds>>

Current(o) == CHOOSE e \in o.todo : \A f \in o.todo : e.id[2] =< f.id[2]

\* _deliver: api.sendMessage issues the POST request.
Transmit(p) ==
    /\ op[p].kind = "post"
    /\ op[p].phase = "ready"
    /\ requests' = requests \cup {Current(op[p])}
    /\ op' = [op EXCEPT ![p].phase = "waiting"]
    /\ UNCHANGED <<disk, store, bounds>>

\* Mutation: INSERT without ON CONFLICT (id) DO NOTHING.
InsertAlways(env) == store' = Append(store, env)

\* POST /messages: INSERT ... ON CONFLICT (id) DO NOTHING.
Insert(env) ==
    IF env.id \in Ids(Entries(store)) THEN UNCHANGED store
    ELSE store' = Append(store, env)

\* The answer to an id already there: 200 for the same content, else 409.
Conflicts(env) ==
    \E e \in Entries(store) : e.id = env.id /\ e # env

\* The server processes a request, in time for its sender or too late.
Accept(env) ==
    LET p == Author(env.id)
        waiting == /\ op[p].kind = "post"
                   /\ op[p].phase = "waiting"
                   /\ Current(op[p]) = env
    IN  /\ Insert(env)
        /\ requests' = requests \ {env}
        /\ op' = IF waiting /\ ~Conflicts(env)
                 THEN [op EXCEPT ![p].phase = "answered"] ELSE op
        /\ UNCHANGED <<disk, bounds>>

\* Mutation: the row is marked sent as soon as the request has gone out.
AnsweredOrWaiting(p) ==
    op[p].kind = "post" /\ op[p].phase \in {"waiting", "answered"}

Answered(p) == op[p].kind = "post" /\ op[p].phase = "answered"

\* The rest of _deliver, then the next pending message of a retry.
Acknowledge(p) ==
    LET rest == op[p].todo \ {Current(op[p])} IN
    /\ Answered(p)
    /\ CommitSent(p, Current(op[p]))
    /\ op' = [op EXCEPT ![p] = IF rest = {} THEN Idle ELSE Post(rest, "ready")]
    /\ UNCHANGED <<session, keygen, composed, store, requests, bounds>>

\* Mutation: the failed operation is never released.
GiveUpStuck(p) ==
    /\ op[p].kind = "post"
    /\ op[p].phase = "waiting"
    /\ op' = [op EXCEPT ![p] = [kind |-> "failed"]]
    /\ UNCHANGED <<disk, store, requests, bounds>>

\* The client gives up: the request or its answer was lost and the timeout
\* of _request expires, or the server answered 409.
GiveUp(p) ==
    /\ op[p].kind = "post"
    /\ op[p].phase = "waiting"
    /\ Current(op[p]) \notin requests
    /\ op' = [op EXCEPT ![p] = Idle]
    /\ UNCHANGED <<disk, store, requests, bounds>>

-----------------------------------------------------------------------------
\* Syncing

\* sync up to the paging loop: database.getMessages fixes local and known.
StartSync(p) ==
    /\ op[p].kind = "idle"
    /\ op' = [op EXCEPT ![p] =
                  Fetch(saved[p], unsent[p], <<>>, 1)]
    /\ UNCHANGED <<disk, store, requests, bounds>>

\* GET /messages: the newest PageSize rows before the cursor, oldest first.
\* The cursor is the oldest row already fetched.
Cursor(batches) ==
    IF batches = <<>> THEN Len(store) + 1
    ELSE CHOOSE i \in 1 .. Len(store) : store[i] = Head(batches)

Page(batches) ==
    LET last == Cursor(batches) - 1 IN
    SubSeq(store, IF last > PageSize THEN last - PageSize + 1 ELSE 1, last)

\* Mutation: a full page is not taken as a sign that there may be more.
NoPageFollowsFull(o, page) == TRUE

\* The paging loop ends with this page.
NoPageFollows(o, page) ==
    \/ Len(page) < PageSize
    \/ Ids(Entries(page)) \cap o.known # {}
    \/ o.page = MaxPages

FetchPage(p) ==
    LET o == op[p]
        page == Page(o.batches)
    IN  /\ o.kind = "fetch"
        /\ op' = [op EXCEPT ![p] =
                IF NoPageFollows(o, page)
                THEN Apply(o.known, o.pending, page \o o.batches)
                ELSE Fetch(o.known, o.pending, page \o o.batches, o.page + 1)]
        /\ UNCHANGED <<disk, store, requests, bounds>>

\* An own message: the snapshot row is written back with the receipts of the
\* server, if the snapshot had one.
RewriteOwn(p, env) ==
    LET o == op[p] IN
    /\ Author(env.id) = p
    /\ IF env.id \in o.known
       THEN /\ saved' = [saved EXCEPT ![p] = @ \cup {env.id}]
            /\ unsent' = [unsent EXCEPT ![p] =
                   IF env.id \in o.pending THEN @ \cup {env.id}
                   ELSE @ \ {env.id}]
       ELSE UNCHANGED <<saved, unsent>>
    /\ UNCHANGED <<session, keygen>>

\* A message of the peer that the snapshot has: skipped.
SkipKnown(p, env) ==
    /\ Author(env.id) # p
    /\ env.id \in op[p].known
    /\ UNCHANGED <<session, keygen, saved, unsent>>

\* A new message of the peer: codec.decrypt with commitReceivedMessage.
Receive(p, env) ==
    /\ Author(env.id) # p
    /\ env.id \notin op[p].known
    /\ Opens(session[p], env, Fresh(p))
    /\ CommitReceived(p, AfterReceive(session[p], env.header, Fresh(p)), env)
    /\ UNCHANGED unsent

\* One turn of the loop over the fetched batches.
ApplyNext(p) ==
    LET env == Head(op[p].todo) IN
    /\ op[p].kind = "apply"
    /\ op[p].todo # <<>>
    /\ RewriteOwn(p, env) \/ SkipKnown(p, env) \/ Receive(p, env)
    /\ op' = [op EXCEPT ![p].todo = Tail(@)]
    /\ UNCHANGED <<outbox, composed, store, requests, bounds>>

\* decrypt throws: the exception ends the whole sync.
ApplyFails(p) ==
    LET env == Head(op[p].todo) IN
    /\ op[p].kind = "apply"
    /\ op[p].todo # <<>>
    /\ Author(env.id) # p
    /\ env.id \notin op[p].known
    /\ ~Opens(session[p], env, Fresh(p))
    /\ op' = [op EXCEPT ![p] = Idle]
    /\ UNCHANGED <<disk, store, requests, bounds>>

EndSync(p) ==
    /\ op[p].kind = "apply"
    /\ op[p].todo = <<>>
    /\ op' = [op EXCEPT ![p] = Idle]
    /\ UNCHANGED <<disk, store, requests, bounds>>

-----------------------------------------------------------------------------
\* The environment

\* A crash, a connection error or an early timeout ends the operation; a
\* request that was issued stays on its way to the server.
Interrupt(p) ==
    /\ op[p].kind # "idle"
    /\ faults < MaxFaults
    /\ faults' = faults + 1
    /\ op' = [op EXCEPT ![p] = Idle]
    /\ UNCHANGED <<disk, store, requests, deletes>>

Lose(env) ==
    /\ faults < MaxFaults
    /\ faults' = faults + 1
    /\ requests' = requests \ {env}
    /\ UNCHANGED <<disk, store, op, deletes>>

\* "Delete local conversation": deleteConversation removes the rows; the
\* ratchet session and the retry ciphertexts in the kv table stay.
DeleteConversation(p) ==
    /\ saved[p] # {}
    /\ deletes < MaxDeletes
    /\ deletes' = deletes + 1
    /\ saved' = [saved EXCEPT ![p] = {}]
    /\ unsent' = [unsent EXCEPT ![p] = {}]
    /\ UNCHANGED <<session, keygen, outbox, composed, store, requests, op,
                   faults>>

Next ==
    \/ \E p \in Party :
          \/ Send(p) \/ Retry(p) \/ Transmit(p) \/ Acknowledge(p) \/ GiveUp(p)
          \/ StartSync(p) \/ FetchPage(p) \/ ApplyNext(p) \/ ApplyFails(p)
          \/ EndSync(p) \/ Interrupt(p) \/ DeleteConversation(p)
    \/ \E env \in requests : Accept(env) \/ Lose(env)

Spec == Init /\ [][Next]_vars

\* The FIFO tail of _serial lets every queued operation run: the foreground
\* timer queues a sync every five seconds, and Retry is the user's.  Faults
\* are finitely many by MaxFaults.
Fairness ==
    /\ \A p \in Party :
          /\ SF_vars(StartSync(p)) /\ SF_vars(Retry(p))
          /\ WF_vars(FetchPage(p)) /\ WF_vars(EndSync(p))
          /\ WF_vars(ApplyNext(p)) /\ WF_vars(ApplyFails(p))
          /\ WF_vars(Transmit(p)) /\ WF_vars(Acknowledge(p))
          /\ WF_vars(GiveUp(p))
    /\ WF_vars(\E env \in requests : Accept(env))

FairSpec == Spec /\ Fairness

-----------------------------------------------------------------------------
\* Properties

Id == Party \X Nat
ComposedIds == UNION {{<<p, n>> : n \in 1 .. SendLimit[p]} : p \in Party}

\* Rows, envelopes and operations are well formed.
TypeOK ==
    /\ DOMAIN session = Party
    /\ keygen \in [Party -> Nat]
    /\ saved \in [Party -> SUBSET Id]
    /\ unsent \in [Party -> SUBSET Id]
    /\ \A p \in Party : unsent[p] \subseteq saved[p] /\ Ids(outbox[p]) \subseteq Id
    /\ composed \in [Party -> Nat]
    /\ Ids(Entries(store)) \cup Ids(requests) \subseteq Id
    /\ \A p \in Party : op[p].kind \in {"idle", "post", "fetch", "apply"}

\* All the envelopes that can be read outside the two devices, now or later.
OnTheWire == Entries(store) \cup requests \cup UNION {outbox[p] : p \in Party}

\* No message key seals two of them: not after a crash between the ratchet
\* and the network, a retry, or a conversation deleted half-way through.
WireKeysDistinct ==
    \A e, f \in OnTheWire : e.key = f.key => e = f

\* An own row shown as sent is on the server.
SentMeansStored ==
    \A p \in Party : \A id \in saved[p] :
        Author(id) = p /\ id \notin unsent[p] => id \in Ids(Entries(store))

\* An own row shown as unsent still has the exact ciphertext to retry with:
\* a request sent again after its answer was lost, or arriving after its
\* timeout, is never refused as a conflict.
PendingCanBeRetried ==
    /\ \A p \in Party : unsent[p] \subseteq Ids(outbox[p])
    /\ \A e \in OnTheWire : ~Conflicts(e)

\* A message of the peer that is on the server and not among the local rows
\* can still be opened, so the next sync that fetches it adds it.
MaySyncAgain ==
    \A p \in Party : \A e \in Entries(store) :
        Author(e.id) # p /\ e.id \notin saved[p] =>
            Opens(session[p], e, Fresh(p))

\* commitReceivedMessage: as long as nobody deletes a conversation, no crash
\* consumes a key without preserving its message, and no sync is stopped by
\* a message it cannot open.
NoKeyConsumedInVain == deletes = 0 => MaySyncAgain

\* Every message listed by the server is eventually among the local rows of
\* its recipient: polling synchronizes the message history.
HistoryIsSynchronized ==
    \A id \in ComposedIds :
        id \in Ids(Entries(store)) ~> id \in saved[Peer(Author(id))]

\* A composed message whose first delivery failed is eventually sent, if its
\* user keeps tapping Retry.
PendingIsSent ==
    \A id \in ComposedIds : LET p == Author(id) IN
        id \in unsent[p] ~> id \in saved[p] \ unsent[p]

\* The system implements the ledger.
Ledger == INSTANCE MessageLedger WITH
    listed <- [i \in DOMAIN store |-> store[i].id],
    received <- [p \in Party |-> {id \in saved[p] : Author(id) # p}]

LedgerSpec == Ledger!Spec

=============================================================================
