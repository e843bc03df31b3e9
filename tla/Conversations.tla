----------------------------- MODULE Conversations -----------------------------
(***************************************************************************)
(* Contacts, conversations, messages and read receipts on the server, and  *)
(* the push notifications a new message starts.                            *)
(*                                                                         *)
(* A request handler is a sequence of awaited queries; handlers interleave *)
(* between any two of them, and each may end between any two of them when  *)
(* a query fails or the process exits.  One statement, and one transac-    *)
(* tion, is one step.  A handler is "at" the query it runs next.  Requests *)
(* that are refused by their first query change nothing and are left out.  *)
(*                                                                         *)
(* No handler deletes a row of the tables below or sets left_at.  The ids  *)
(* of conversations are drawn by the server, those of messages by clients. *)
(* NOW() is the moment a statement runs, as the number of messages stored  *)
(* by then.                                                                *)
(***************************************************************************)
EXTENDS Integers, FiniteSets

CONSTANTS
    User,
    Conversation,  \* ids the server draws
    Message,       \* ids the clients draw
    Content,
    Extra,         \* message_type, media_url, media_meta and reply_to_id
    Handler,       \* bound: requests running at a time
    Device,
    Owner,         \* the account of each device row
    MaxToken,      \* bound: FCM registrations of a device
    Scenarios,     \* bound: what the clients of one behaviour ask for
    None

ASSUME ConversationsAssumption ==
    /\ Owner \in [Device -> User]
    /\ MaxToken \in Nat
    /\ Scenarios \subseteq
           [ adds : SUBSET (User \X User),
             chats : SUBSET [ type : {"direct", "group"}, by : User,
                              members : SUBSET User ],
             posts : SUBSET [ user : User, message : Message,
                              content : Content, extra : Extra ],
             readers : SUBSET User,
             logins : SUBSET Device,
             room : Nat ]
    /\ None \notin User \cup Conversation \cup Message \cup Content \cup Extra
    /\ None \notin User \X User
    /\ None \notin [type : {"direct", "group"}, by : User, members : SUBSET User]
    /\ None \notin [ sender : User, conversation : Conversation,
                     content : Content, extra : Extra, sent : Nat,
                     read : BOOLEAN ]

VARIABLES
    contacts,       \* rows of contacts: <<user_id, contact_id>>
    conversations,  \* rows of conversations with their participants, or None
    origin,         \* history, in no table: the contact each conversation was
                    \* inserted with, or None
    messages,       \* rows of messages, or None
    lastRead,       \* last_read_at of each participant; 0 is 'epoch'
    updated,        \* updated_at of each conversation
    clock,
    handler,        \* the request each handler works on
    announced,      \* new_message broadcasts of each message to each user
    fcmToken,       \* fcm_token of each device row; 0 is NULL
    registered,     \* the token FCM knows each device by
    pushes,         \* running sendPushNotification calls
    scenario        \* the requests clients may make: contacts they add,
                    \* conversations they create, messages they send, who
                    \* sends read receipts, which devices log in, and the
                    \* number of conversations there is room for

chats == <<contacts, conversations, origin>>
tokens == <<fcmToken, registered>>
vars == <<chats, messages, lastRead, updated, clock, handler, announced,
          tokens, pushes, scenario>>

Idle == [ at |-> "idle", user |-> None, other |-> None, conversation |-> None,
          message |-> None, content |-> None, extra |-> None ]

Init ==
    /\ contacts = {}
    /\ conversations = [c \in Conversation |-> None]
    /\ origin = [c \in Conversation |-> None]
    /\ messages = [m \in Message |-> None]
    /\ lastRead = [c \in Conversation |-> [u \in User |-> 0]]
    /\ updated = [c \in Conversation |-> 0]
    /\ clock = 0
    /\ handler = [h \in Handler |-> Idle]
    /\ announced = [m \in Message |-> [u \in User |-> 0]]
    /\ fcmToken = [d \in Device |-> 0]
    /\ registered = [d \in Device |-> 1]
    /\ pushes = {}
    /\ scenario \in Scenarios

Goto(h, at) == handler' = [handler EXCEPT ![h].at = at]
Finish(h) == handler' = [handler EXCEPT ![h] = Idle]

Member(u, c) == conversations[c] # None /\ u \in conversations[c].members
Stored(m) == messages[m] # None

-----------------------------------------------------------------------------
\* Contacts and conversations

Chat(type, u, members) == [type |-> type, by |-> u, members |-> members]

\* The rows of a conversation and of its participants; contact is the row
\* the same transaction inserts into contacts, or None.
InsertConversation(chat, contact) ==
    /\ Cardinality({c \in Conversation : conversations[c] # None}) < scenario.room
    /\ \E c \in Conversation :
           /\ conversations[c] = None
           /\ conversations' = [conversations EXCEPT ![c] = chat]
           /\ origin' = [origin EXCEPT ![c] = contact]
           /\ updated' = [updated EXCEPT ![c] = clock]

\* POST /contacts up to the SELECT of the own contact row.
AddContact(h, u, v) ==
    /\ handler[h].at = "idle"
    /\ u # v
    /\ <<u, v>> \notin contacts
    /\ handler' = [handler EXCEPT ![h] =
           [Idle EXCEPT !.at = "contact", !.user = u, !.other = v]]
    /\ UNCHANGED <<chats, messages, lastRead, updated, clock, announced, tokens,
                   pushes>>

\* Mutation: contacts has no UNIQUE (user_id, contact_id).
ContactConflictsNever(u, v) == FALSE

\* UNIQUE (user_id, contact_id) of contacts.
ContactConflicts(u, v) == <<u, v>> \in contacts

\* The transaction of POST /contacts.  Nobody asks whether the other one
\* has added this account already.
InsertContact(h) ==
    LET u == handler[h].user
        v == handler[h].other IN
    /\ handler[h].at = "contact"
    /\ \/ /\ ~ContactConflicts(u, v)
          /\ contacts' = contacts \cup {<<u, v>>}
          /\ InsertConversation(Chat("direct", u, {u, v}), <<u, v>>)
       \/ /\ ContactConflicts(u, v)
          /\ UNCHANGED <<chats, updated>>
    /\ Finish(h)
    /\ UNCHANGED <<messages, lastRead, clock, announced, tokens, pushes>>

\* POST /conversations: one transaction, with the creator among the members.
\* The rows of a direct one are like those of POST /contacts.
CreateConversation(g) ==
    /\ g.by \in g.members
    /\ g.type = "direct" => Cardinality(g.members) = 2
    /\ InsertConversation(Chat(g.type, g.by, g.members), None)
    /\ UNCHANGED <<contacts, messages, lastRead, clock, handler, announced,
                   tokens, pushes>>

-----------------------------------------------------------------------------
\* POST /messages

\* Up to the query for the sender's membership.
SendMessage(h, p, c) ==
    /\ handler[h].at = "idle"
    /\ Member(p.user, c)
    /\ handler' = [handler EXCEPT ![h] =
           [ Idle EXCEPT !.at = "insert", !.user = p.user,
                         !.message = p.message, !.content = p.content,
                         !.extra = p.extra, !.conversation = c ]]
    /\ UNCHANGED <<chats, messages, lastRead, updated, clock, announced, tokens,
                   pushes>>

\* Mutation: sent_at has no default.
RowUnsent(r) == [ sender |-> r.user, conversation |-> r.conversation,
                  content |-> r.content, extra |-> r.extra,
                  sent |-> None, read |-> FALSE ]

Row(r) == [ sender |-> r.user, conversation |-> r.conversation,
            content |-> r.content, extra |-> r.extra,
            sent |-> clock + 1, read |-> FALSE ]

\* Mutation: a known id of the same conversation is enough.
SameRequestLoosely(m, r) ==
    /\ messages[m].sender = r.user
    /\ messages[m].conversation = r.conversation

\* The comparison with the stored row: its other columns are not compared.
SameRequest(m, r) ==
    /\ messages[m].sender = r.user
    /\ messages[m].conversation = r.conversation
    /\ messages[m].content = r.content

\* Mutation: a repeated request goes on like the first one.
InsertOrRepeat(h) ==
    LET r == handler[h] IN
    /\ r.at = "insert"
    /\ \/ /\ ~Stored(r.message)
          /\ messages' = [messages EXCEPT ![r.message] = Row(r)]
          /\ clock' = clock + 1
          /\ Goto(h, "touch")
       \/ /\ Stored(r.message)
          /\ IF SameRequest(r.message, r) THEN Goto(h, "touch") ELSE Finish(h)
          /\ UNCHANGED <<messages, clock>>
    /\ UNCHANGED <<chats, lastRead, updated, announced, tokens, pushes>>

\* INSERT ... ON CONFLICT DO NOTHING.  On a conflict the stored row, whose
\* compared columns never change, is answered (200) or refused (409).
InsertMessage(h) ==
    LET r == handler[h] IN
    /\ r.at = "insert"
    /\ \/ /\ ~Stored(r.message)
          /\ messages' = [messages EXCEPT ![r.message] = Row(r)]
          /\ clock' = clock + 1
          /\ Goto(h, "touch")
       \/ /\ Stored(r.message)
          /\ IF SameRequest(r.message, r) THEN Goto(h, "repeated") ELSE Finish(h)
          /\ UNCHANGED <<messages, clock>>
    /\ UNCHANGED <<chats, lastRead, updated, announced, tokens, pushes>>

\* UPDATE conversations SET updated_at = NOW().
TouchConversation(h) ==
    /\ handler[h].at = "touch"
    /\ updated' = [updated EXCEPT ![handler[h].conversation] = clock]
    /\ Goto(h, "announce")
    /\ UNCHANGED <<chats, messages, lastRead, clock, announced, tokens, pushes>>

Others(r) == conversations[r.conversation].members \ {r.user}

Push(u, m) == [user |-> u, message |-> m, at |-> "tokens", found |-> {}]

\* A push to an account without a device row ends at once.
Addressees == {Owner[d] : d \in Device}

\* The SELECT of the other participants, then for each of them a push that
\* is not awaited and a broadcast.  The SELECT of the row for the answer,
\* which finds what this handler inserted, is the way to "created".
Announce(h) ==
    LET r == handler[h] IN
    /\ r.at = "announce"
    /\ announced' = [announced EXCEPT ![r.message] =
           [u \in User |-> IF u \in Others(r) THEN @[u] + 1 ELSE @[u]]]
    /\ pushes' = pushes \cup {Push(u, r.message) : u \in Others(r) \cap Addressees}
    /\ Goto(h, "created")
    /\ UNCHANGED <<chats, messages, lastRead, updated, clock, tokens>>

\* 201 or 200 reaches the client, or nobody any more.
Answer(h) ==
    /\ handler[h].at \in {"created", "repeated"}
    /\ Finish(h)
    /\ UNCHANGED <<chats, messages, lastRead, updated, clock, announced, tokens,
                   pushes>>

-----------------------------------------------------------------------------
\* POST /messages/:messageId/read

\* Up to the query for the reader's membership: any member, the sender too.
MarkRead(h, u, m) ==
    /\ handler[h].at = "idle"
    /\ Stored(m)
    /\ Member(u, messages[m].conversation)
    /\ handler' = [handler EXCEPT ![h] =
           [Idle EXCEPT !.at = "marker", !.user = u, !.message = m]]
    /\ UNCHANGED <<chats, messages, lastRead, updated, clock, announced, tokens,
                   pushes>>

\* Mutation: the marker is set to the message that was read last.
Later(a, b) == b

Greatest(a, b) == IF a > b THEN a ELSE b

\* UPDATE conversation_participants SET last_read_at = GREATEST(...).
MoveMarker(h) ==
    LET m == messages[handler[h].message] IN
    /\ handler[h].at = "marker"
    /\ lastRead' = [lastRead EXCEPT ![m.conversation][handler[h].user] =
                       Greatest(@, m.sent)]
    /\ Goto(h, "stamp")
    /\ UNCHANGED <<chats, messages, updated, clock, announced, tokens, pushes>>

\* Mutation: the sender's own reading counts as well.
Stamps(u, m) == TRUE

\* The WHERE of the second UPDATE.
StampsRead(u, m) == messages[m].sender # u

\* UPDATE messages SET read_at = NOW() WHERE read_at IS NULL AND ...
StampMessage(h) ==
    LET u == handler[h].user
        m == handler[h].message IN
    /\ handler[h].at = "stamp"
    /\ messages' = [messages EXCEPT ![m].read = @ \/ StampsRead(u, m)]
    /\ Finish(h)
    /\ UNCHANGED <<chats, lastRead, updated, clock, announced, tokens, pushes>>

\* A query fails, or the process exits: the handler goes no further.
Fail(h) ==
    /\ handler[h].at # "idle"
    /\ Finish(h)
    /\ UNCHANGED <<chats, messages, lastRead, updated, clock, announced, tokens,
                   pushes>>

-----------------------------------------------------------------------------
\* GET /conversations

\* The messages unread_count counts, one's own among them.
Unread(u, c) ==
    {m \in Message : /\ Stored(m)
                     /\ messages[m].conversation = c
                     /\ messages[m].sent > lastRead[c][u]}

-----------------------------------------------------------------------------
\* Push notifications

\* A device registers with FCM anew; its former token is not registered
\* any more.
Reregister(d) ==
    /\ registered[d] < MaxToken
    /\ registered' = [registered EXCEPT ![d] = @ + 1]
    /\ UNCHANGED <<chats, messages, lastRead, updated, clock, handler,
                   announced, fcmToken, pushes>>

\* The upsert of a login writes the token the request carries, if any, which
\* need not be the current one any more.
LoginWithToken(d) ==
    /\ \E t \in 0 .. registered[d] : fcmToken' = [fcmToken EXCEPT ![d] = t]
    /\ UNCHANGED <<chats, messages, lastRead, updated, clock, handler,
                   announced, registered, pushes>>

\* getUserFCMTokens.
TokensOf(u) ==
    {<<d, fcmToken[d]>> : d \in {e \in Device : Owner[e] = u /\ fcmToken[e] # 0}}

\* sendPushNotification up to the query for the tokens; without any it ends.
ReadTokens(p) ==
    /\ p.at = "tokens"
    /\ pushes' = (pushes \ {p}) \cup
           (IF TokensOf(p.user) = {} THEN {}
            ELSE {[p EXCEPT !.at = "send", !.found = TokensOf(p.user)]})
    /\ UNCHANGED <<chats, messages, lastRead, updated, clock, handler,
                   announced, tokens>>

\* FCM answers for each token; those not registered any more are kept.
Multicast(p) ==
    LET failed == {t \in p.found : t[2] # registered[t[1]]} IN
    /\ p.at = "send"
    /\ pushes' = (pushes \ {p}) \cup
           (IF failed = {} THEN {}
            ELSE {[p EXCEPT !.at = "clean", !.found = failed]})
    /\ UNCHANGED <<chats, messages, lastRead, updated, clock, handler,
                   announced, tokens>>

\* Mutation: every row whose token was tried is cleared.
ClearsDevice(p, d) == \E t \in p.found : t[1] = d

\* removeFCMTokens: WHERE user_id = $1 AND fcm_token = ANY($2).
Clears(p, d) == Owner[d] = p.user /\ <<d, fcmToken[d]>> \in p.found

RemoveTokens(p) ==
    /\ p.at = "clean"
    /\ fcmToken' = [d \in Device |-> IF Clears(p, d) THEN 0 ELSE fcmToken[d]]
    /\ pushes' = pushes \ {p}
    /\ UNCHANGED <<chats, messages, lastRead, updated, clock, handler,
                   announced, registered>>

\* FCM or the database does not answer, or the process exits.
PushFails(p) ==
    /\ pushes' = pushes \ {p}
    /\ UNCHANGED <<chats, messages, lastRead, updated, clock, handler,
                   announced, tokens>>

-----------------------------------------------------------------------------

HandlerStep(h) ==
    \/ InsertContact(h)
    \/ InsertMessage(h) \/ TouchConversation(h) \/ Announce(h) \/ Answer(h)
    \/ MoveMarker(h) \/ StampMessage(h)
    \/ Fail(h)

Request(h) ==
    \/ \E a \in scenario.adds : AddContact(h, a[1], a[2])
    \/ \E p \in scenario.posts, c \in Conversation : SendMessage(h, p, c)
    \/ \E u \in scenario.readers, m \in Message : MarkRead(h, u, m)

PushStep(p) == ReadTokens(p) \/ Multicast(p) \/ RemoveTokens(p) \/ PushFails(p)

Next ==
    /\ \/ \E h \in Handler : Request(h) \/ HandlerStep(h)
       \/ \E g \in scenario.chats : CreateConversation(g)
       \/ \E d \in scenario.logins : Reregister(d) \/ LoginWithToken(d)
       \/ \E p \in pushes : PushStep(p)
    /\ UNCHANGED scenario

Spec == Init /\ [][Next]_vars

-----------------------------------------------------------------------------
\* Properties

ChatRow == [type : {"direct", "group"}, by : User, members : SUBSET User]
MessageRow == [ sender : User, conversation : Conversation, content : Content,
                extra : Extra, sent : Nat, read : BOOLEAN ]
Position ==
    { "idle", "contact", "insert", "touch", "announce", "created", "repeated",
      "marker", "stamp" }

\* Tables, handlers and push calls are well formed.
TypeOK ==
    /\ contacts \subseteq User \X User
    /\ conversations \in [Conversation -> ChatRow \cup {None}]
    /\ origin \in [Conversation -> (User \X User) \cup {None}]
    /\ messages \in [Message -> MessageRow \cup {None}]
    /\ lastRead \in [Conversation -> [User -> Nat]]
    /\ updated \in [Conversation -> Nat]
    /\ clock \in Nat
    /\ handler \in
           [ Handler -> [ at : Position,
                          user : User \cup {None},
                          other : User \cup {None},
                          conversation : Conversation \cup {None},
                          message : Message \cup {None},
                          content : Content \cup {None},
                          extra : Extra \cup {None} ] ]
    /\ announced \in [Message -> [User -> Nat]]
    /\ fcmToken \in [Device -> Nat]
    /\ registered \in [Device -> Nat]
    /\ pushes \subseteq [ user : User, message : Message,
                          at : {"tokens", "send", "clean"},
                          found : SUBSET (Device \X Nat) ]
    /\ scenario \in Scenarios

\* The conversations the transactions of POST /contacts inserted with the
\* contact row <<u, v>>.
Born(u, v) == {c \in Conversation : origin[c] = <<u, v>>}

\* Wherever a handler of POST /contacts ends, and if two of them add the
\* same contact at once, both past the SELECT: a contact row comes with
\* exactly one direct conversation inserted with it, and the request inserts no
\* conversation without its contact row.  The two may share further ones: the
\* other one adding this account and POST /conversations insert their own.
OneConversationPerContact ==
    \A u, v \in User :
        /\ <<u, v>> \in contacts <=> Born(u, v) # {}
        /\ \A c \in Born(u, v) :
               /\ conversations[c] = Chat("direct", u, {u, v})
               /\ \A d \in Born(u, v) : c = d

\* A client that gets an answer to POST /messages, 201 for the first request
\* or 200 for a repeated one, has under this id a message of its own in this
\* conversation with this content, whatever else was posted under the id.
\* After 201 the other columns are those of the request as well; 200 says
\* nothing about them.
OkMeansStored ==
    \A h \in Handler :
        LET r == handler[h]
            m == messages[r.message] IN
        r.at \in {"created", "repeated"} =>
            /\ Stored(r.message)
            /\ m.sender = r.user
            /\ m.conversation = r.conversation
            /\ m.content = r.content
            /\ r.at = "created" => m.extra = r.extra

\* However often a message is posted, each participant but its sender is
\* told of it at most once, nobody else is, and by then the message is
\* stored and its conversation has moved up in the list.
AnnouncedOnce ==
    \A m \in Message, u \in User : announced[m][u] # 0 =>
        /\ announced[m][u] = 1
        /\ Stored(m)
        /\ Member(u, messages[m].conversation)
        /\ u # messages[m].sender
        /\ updated[messages[m].conversation] >= messages[m].sent

\* A message shows as read only when somebody else in the conversation has
\* read up to it, wherever the receipt's handler failed.
ReceiptHasMarker ==
    \A m \in Message : Stored(m) /\ messages[m].read =>
        \E u \in conversations[messages[m].conversation].members :
            /\ u # messages[m].sender
            /\ lastRead[messages[m].conversation][u] >= messages[m].sent

\* Receipts of one reader that overtake each other never make a message
\* count as unread again.
NeverUnreadAgain ==
    [][\A u \in User, c \in Conversation, m \in Message :
          Stored(m) /\ m \notin Unread(u, c) => m \notin Unread(u, c)']_vars

\* A push call that learns from FCM that a token is gone does not clear the
\* token its device has registered meanwhile.
CurrentTokenKept ==
    [][pushes' # pushes =>
          \A d \in Device : fcmToken[d] = registered[d] =>
              fcmToken'[d] = fcmToken[d]]_vars

=============================================================================
