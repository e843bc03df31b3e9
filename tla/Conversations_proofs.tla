------------------------- MODULE Conversations_proofs -------------------------
(***************************************************************************)
(* Conversations for every number of users, conversations, messages,       *)
(* handlers and devices, and whatever clients ask for.                     *)
(*                                                                         *)
(* The properties are not inductive: they say nothing of a handler between *)
(* two queries.  The inductive invariant adds what a handler may rely on   *)
(* at each query (Sound), that no two handlers are about to announce the   *)
(* same message (OneInserter), that tokens grow (TokensSound), and that a  *)
(* message was sent by a member, before now (SentByMember).  Every step    *)
(* lets rows and markers grow only (Grows), so that a handler may still    *)
(* rely on what it relied on before another one's step (SoundKept).        *)
(***************************************************************************)
EXTENDS Conversations, TLAPS

HandlerRow ==
    [ at : Position,
      user : User \cup {None},
      other : User \cup {None},
      conversation : Conversation \cup {None},
      message : Message \cup {None},
      content : Content \cup {None},
      extra : Extra \cup {None} ]

PushRow ==
    [ user : User, message : Message, at : {"tokens", "send", "clean"},
      found : SUBSET (Device \X Nat) ]

Posting == {"insert", "touch", "announce", "created", "repeated"}
Inserted == {"touch", "announce"}
Answered == {"created", "repeated"}

\* What is true when a handler runs its next query.
Sound(h) ==
    LET r == handler[h] IN
    /\ r.at = "contact" => r.user \in User /\ r.other \in User /\ r.user # r.other
    /\ r.at \in Posting =>
           /\ r.user \in User /\ r.message \in Message /\ r.content \in Content
           /\ r.extra \in Extra
           /\ r.conversation \in Conversation
           /\ Member(r.user, r.conversation)
    /\ r.at \in Inserted \cup Answered =>
           Stored(r.message) /\ SameRequest(r.message, r)
    /\ r.at \in Inserted \cup {"created"} =>
           messages[r.message].extra = r.extra
    /\ r.at \in Inserted => \A u \in User : announced[r.message][u] = 0
    /\ r.at = "announce" =>
           updated[r.conversation] >= messages[r.message].sent
    /\ r.at \in {"marker", "stamp"} =>
           /\ r.user \in User /\ r.message \in Message
           /\ Stored(r.message)
           /\ Member(r.user, messages[r.message].conversation)
    /\ r.at = "stamp" =>
           lastRead[messages[r.message].conversation][r.user] >=
               messages[r.message].sent

\* Only the handler that inserted a message goes on to announce it.
OneInserter ==
    \A h, g \in Handler :
        /\ h # g
        /\ handler[h].at \in Inserted
        /\ handler[g].at \in Inserted
        => handler[h].message # handler[g].message

\* A message is from a member of its conversation, and not from the future.
SentByMember ==
    \A m \in Message : Stored(m) =>
        /\ Member(messages[m].sender, messages[m].conversation)
        /\ messages[m].sent <= clock

\* Tokens are numbered in the order in which FCM gives them out, and those a
\* push is about to clear are older than the current one of their device.
TokensSound ==
    /\ \A d \in Device : fcmToken[d] <= registered[d]
    /\ \A p \in pushes, t \in Device \X Nat : t \in p.found =>
           /\ t[2] <= registered[t[1]]
           /\ p.at = "clean" => t[2] < registered[t[1]]

-----------------------------------------------------------------------------
\* The parts of the invariant, by the variables they are about

ChatsOK ==
    /\ contacts \subseteq User \X User
    /\ conversations \in [Conversation -> ChatRow \cup {None}]
    /\ origin \in [Conversation -> (User \X User) \cup {None}]
    /\ \A c \in Conversation : conversations[c] = None => origin[c] = None
    /\ OneConversationPerContact

MessagesOK ==
    /\ messages \in [Message -> MessageRow \cup {None}]
    /\ clock \in Nat
    /\ SentByMember

MarksOK ==
    /\ lastRead \in [Conversation -> [User -> Nat]]
    /\ updated \in [Conversation -> Nat]
    /\ ReceiptHasMarker

HandlersOK ==
    /\ handler \in [Handler -> HandlerRow]
    /\ \A h \in Handler : Sound(h)
    /\ OneInserter

AnnouncedOK ==
    /\ announced \in [Message -> [User -> Nat]]
    /\ AnnouncedOnce

PushOK ==
    /\ fcmToken \in [Device -> Nat]
    /\ registered \in [Device -> Nat]
    /\ pushes \subseteq PushRow
    /\ TokensSound

IInv ==
    /\ ChatsOK /\ MessagesOK /\ MarksOK
    /\ HandlersOK /\ AnnouncedOK /\ PushOK
    /\ scenario \in Scenarios

LEMMA NoneIsNoRow == None \notin ChatRow /\ None \notin MessageRow
  BY ConversationsAssumption DEF ChatRow, MessageRow

LEMMA NoneIsNoContact ==
    ASSUME NEW u \in User, NEW v \in User
    PROVE  None # <<u, v>>
<1>1. <<u, v>> \in User \X User
  OBVIOUS
<1>2. None \notin User \X User
  BY ConversationsAssumption
<1>3. QED
  BY <1>1, <1>2

LEMMA ChatIsRow ==
    ASSUME NEW u \in User, NEW us \in SUBSET User,
           NEW type \in {"direct", "group"}
    PROVE  Chat(type, u, us) \in ChatRow
  BY DEF Chat, ChatRow

LEMMA InitIInv == Init => IInv
<1> SUFFICES ASSUME Init PROVE IInv
  OBVIOUS
<1>1. ChatsOK
  <2>1. ASSUME NEW u \in User, NEW v \in User PROVE Born(u, v) = {}
    BY NoneIsNoContact DEF Born, Init
  <2>2. QED
    BY <2>1 DEF Init, ChatsOK, OneConversationPerContact
<1>2. MessagesOK /\ MarksOK
  BY DEF Init, MessagesOK, MarksOK, SentByMember, ReceiptHasMarker, Stored
<1>3. HandlersOK
  BY DEF Init, HandlersOK, Idle, HandlerRow, Position, Sound, Posting, Inserted, Answered,
         OneInserter
<1>4. AnnouncedOK /\ PushOK
  BY DEF Init, AnnouncedOK, AnnouncedOnce, PushOK, TokensSound, PushRow
<1>5. QED
  BY <1>1, <1>2, <1>3, <1>4 DEF IInv, Init

-----------------------------------------------------------------------------
\* Rows only grow

\* Rows are neither deleted nor moved, markers only move on, and updated_at
\* of a conversation stays or becomes NOW().
Grows ==
    /\ \A c \in Conversation :
           conversations[c] # None => conversations'[c] = conversations[c]
    /\ \A m \in Message : Stored(m) =>
           /\ messages'[m] \in MessageRow
           /\ messages'[m].sender = messages[m].sender
           /\ messages'[m].conversation = messages[m].conversation
           /\ messages'[m].content = messages[m].content
           /\ messages'[m].extra = messages[m].extra
           /\ messages'[m].sent = messages[m].sent
    /\ \A c \in Conversation, u \in User : lastRead'[c][u] >= lastRead[c][u]
    /\ \A c \in Conversation :
           conversations[c] # None => updated'[c] \in {updated[c], clock}
    /\ clock' >= clock
    /\ lastRead' \in [Conversation -> [User -> Nat]]
    /\ updated' \in [Conversation -> Nat]
    /\ clock' \in Nat

LEMMA NothingGrows ==
    ASSUME IInv,
           UNCHANGED <<conversations, messages, lastRead, updated, clock>>
    PROVE  Grows
  BY DEF IInv, MessagesOK, MarksOK, Grows, Stored

\* A handler that stays where it is may still rely on the same.
LEMMA SoundKept ==
    ASSUME IInv, Grows, NEW h \in Handler, handler'[h] = handler[h],
           handler[h].at \in Inserted =>
               announced'[handler[h].message] = announced[handler[h].message]
    PROVE  Sound(h)'
<1> DEFINE r == handler[h]
           m == messages[r.message]
<1>1. Sound(h)
  BY DEF IInv, HandlersOK
<1>2. ASSUME NEW u \in User, NEW c \in Conversation, Member(u, c)
      PROVE  Member(u, c)'
  BY <1>2 DEF Grows, Member
<1>3. ASSUME NEW n \in Message, Stored(n)
      PROVE  /\ Stored(n)' /\ messages[n] \in MessageRow
             /\ messages'[n].sender = messages[n].sender
             /\ messages'[n].conversation = messages[n].conversation
             /\ messages'[n].content = messages[n].content
             /\ messages'[n].extra = messages[n].extra
             /\ messages'[n].sent = messages[n].sent
             /\ messages[n].sent <= clock
  BY <1>3, NoneIsNoRow DEF Grows, Stored, IInv, MessagesOK, SentByMember
<1>4. r.at = "announce" => updated'[r.conversation] >= messages'[r.message].sent
  <2>1. SUFFICES ASSUME r.at = "announce"
                 PROVE  updated'[r.conversation] >= messages'[r.message].sent
    OBVIOUS
  <2>2. /\ r.conversation \in Conversation /\ r.message \in Message
        /\ Member(r.user, r.conversation) /\ Stored(r.message)
        /\ updated[r.conversation] >= m.sent
    BY <1>1, <2>1 DEF Sound, Posting, Inserted, Answered
  <2>3. updated'[r.conversation] \in {updated[r.conversation], clock}
    BY <2>2 DEF Grows, Member
  <2>4. QED
    BY <1>3, <2>2, <2>3
<1>5. r.at = "stamp" =>
          lastRead'[messages'[r.message].conversation][r.user] >=
              messages'[r.message].sent
  <2>1. SUFFICES ASSUME r.at = "stamp"
                 PROVE  lastRead'[messages'[r.message].conversation][r.user] >=
                            messages'[r.message].sent
    OBVIOUS
  <2>2. /\ r.user \in User /\ r.message \in Message /\ Stored(r.message)
        /\ lastRead[m.conversation][r.user] >= m.sent
    BY <1>1, <2>1 DEF Sound
  <2>3. m \in MessageRow /\ m.conversation \in Conversation /\ m.sent \in Nat
    BY <1>3, <2>2 DEF MessageRow
  <2>4. /\ lastRead'[m.conversation][r.user] >= lastRead[m.conversation][r.user]
        /\ lastRead'[m.conversation][r.user] \in Nat
        /\ lastRead[m.conversation][r.user] \in Nat
    BY <2>2, <2>3 DEF Grows, IInv, MarksOK
  <2>5. QED
    BY <1>3, <2>2, <2>3, <2>4
<1>6. r.at \in {"marker", "stamp"} =>
          /\ Stored(r.message)'
          /\ Member(r.user, messages[r.message].conversation)'
  BY <1>1, <1>2, <1>3 DEF Sound, MessageRow, Member
<1>7. QED
  BY <1>1, <1>2, <1>3, <1>4, <1>5, <1>6 DEF Sound, Posting, Inserted, Answered, SameRequest,
     Member, Stored
-----------------------------------------------------------------------------
\* The parts of the invariant under Grows

\* Conversations with all their members stay, so what was true of markers and
\* broadcasts stays true as well.
LEMMA MemberKept ==
    ASSUME Grows, NEW u, NEW c \in Conversation, Member(u, c)
    PROVE  Member(u, c)'
  BY DEF Grows, Member

LEMMA ChatsKept ==
    ASSUME IInv, UNCHANGED chats
    PROVE  ChatsOK'
<1>1. \A u, v \in User : Born(u, v)' = Born(u, v)
  BY DEF chats, Born
<1>2. QED
  BY <1>1 DEF IInv, ChatsOK, chats, OneConversationPerContact, Chat

LEMMA MessagesKept ==
    ASSUME IInv, Grows, UNCHANGED <<messages, clock>>
    PROVE  MessagesOK'
<1>1. ASSUME NEW m \in Message, Stored(m)
      PROVE  Member(messages[m].sender, messages[m].conversation)'
  <2>1. messages[m] \in MessageRow
    BY <1>1 DEF IInv, MessagesOK, Stored
  <2>2. QED
    BY <1>1, <2>1, MemberKept DEF IInv, MessagesOK, SentByMember, MessageRow
<1>2. QED
  BY <1>1 DEF IInv, MessagesOK, SentByMember, Stored

\* Nothing becomes read.
LEMMA MarksKept ==
    ASSUME IInv, Grows,
           \A m \in Message : Stored(m)' /\ messages'[m].read =>
               Stored(m) /\ messages[m].read
    PROVE  MarksOK'
<1>1. ASSUME NEW m \in Message, Stored(m)', messages'[m].read
      PROVE  \E u \in conversations'[messages'[m].conversation].members :
                 /\ u # messages'[m].sender
                 /\ lastRead'[messages'[m].conversation][u] >= messages'[m].sent
  <2>1. /\ Stored(m) /\ messages[m].read
        /\ messages[m] \in MessageRow
        /\ messages'[m].sender = messages[m].sender
        /\ messages'[m].conversation = messages[m].conversation
        /\ messages'[m].sent = messages[m].sent
    BY <1>1 DEF IInv, MessagesOK, Stored, Grows
  <2>2. messages[m].conversation \in Conversation /\ messages[m].sent \in Nat
    BY <2>1 DEF MessageRow
  <2>3. conversations[messages[m].conversation] # None
    BY <2>1 DEF IInv, MessagesOK, SentByMember, Member
  <2>4. /\ conversations'[messages[m].conversation] =
               conversations[messages[m].conversation]
        /\ conversations[messages[m].conversation].members \subseteq User
    BY <2>2, <2>3 DEF Grows, IInv, ChatsOK, ChatRow
  <2>5. PICK u \in conversations[messages[m].conversation].members :
            /\ u # messages[m].sender
            /\ lastRead[messages[m].conversation][u] >= messages[m].sent
    BY <2>1 DEF IInv, MarksOK, ReceiptHasMarker
  <2>6. /\ lastRead'[messages[m].conversation][u] >=
               lastRead[messages[m].conversation][u]
        /\ lastRead'[messages[m].conversation][u] \in Nat
        /\ lastRead[messages[m].conversation][u] \in Nat
    BY <2>2, <2>4 DEF Grows, IInv, MarksOK
  <2>7. QED
    BY <2>1, <2>2, <2>4, <2>5, <2>6
<1>2. QED
  BY <1>1 DEF Grows, MarksOK, ReceiptHasMarker

LEMMA AnnouncedKept ==
    ASSUME IInv, Grows, UNCHANGED announced
    PROVE  AnnouncedOK'
<1>1. ASSUME NEW m \in Message, NEW u \in User, announced[m][u] # 0
      PROVE  /\ announced[m][u] = 1
             /\ Stored(m)'
             /\ Member(u, messages[m].conversation)'
             /\ u # messages'[m].sender
             /\ updated'[messages'[m].conversation] >= messages'[m].sent
  <2>1. /\ announced[m][u] = 1 /\ Stored(m)
        /\ Member(u, messages[m].conversation)
        /\ u # messages[m].sender
        /\ updated[messages[m].conversation] >= messages[m].sent
        /\ messages[m].sent <= clock
    BY <1>1 DEF IInv, AnnouncedOK, AnnouncedOnce, MessagesOK, SentByMember
  <2>2. /\ messages[m] \in MessageRow /\ Stored(m)'
        /\ messages'[m].sender = messages[m].sender
        /\ messages'[m].conversation = messages[m].conversation
        /\ messages'[m].sent = messages[m].sent
    BY <2>1, NoneIsNoRow DEF IInv, MessagesOK, Stored, Grows
  <2>3. messages[m].conversation \in Conversation
    BY <2>2 DEF MessageRow
  <2>4. Member(u, messages[m].conversation)'
    BY <2>1, <2>2, <2>3, MemberKept DEF Member
  <2>5. updated'[messages[m].conversation] \in
            {updated[messages[m].conversation], clock}
    BY <2>1, <2>3 DEF Grows, Member
  <2>6. QED
    BY <2>1, <2>2, <2>4, <2>5
<1>2. QED
  BY <1>1 DEF IInv, AnnouncedOK, AnnouncedOnce

LEMMA PushKept ==
    ASSUME IInv, UNCHANGED tokens, pushes' \subseteq pushes
    PROVE  PushOK'
  BY DEF IInv, PushOK, tokens, TokensSound

\* One handler moves, the others keep what they rely on.
LEMMA HandlersStep ==
    ASSUME IInv, Grows, NEW h \in Handler, NEW r \in HandlerRow,
           handler' = [handler EXCEPT ![h] = r],
           Sound(h)',
           \A g \in Handler \ {h} : handler[g].at \in Inserted =>
               /\ announced'[handler[g].message] = announced[handler[g].message]
               /\ r.at \in Inserted => handler[g].message # r.message
    PROVE  HandlersOK'
<1>1. handler' \in [Handler -> HandlerRow]
  BY DEF IInv, HandlersOK
<1>2. handler'[h] = r /\ \A g \in Handler \ {h} : handler'[g] = handler[g]
  BY DEF IInv, HandlersOK
<1>3. ASSUME NEW g \in Handler PROVE Sound(g)'
  BY <1>2, SoundKept
<1>4. OneInserter'
  BY <1>2 DEF IInv, HandlersOK, OneInserter
<1>5. QED
  BY <1>1, <1>3, <1>4 DEF HandlersOK

LEMMA HandlersKept ==
    ASSUME IInv, Grows, UNCHANGED <<handler, announced>>
    PROVE  HandlersOK'
<1>1. ASSUME NEW g \in Handler PROVE Sound(g)'
  BY SoundKept
<1>2. QED
  BY <1>1 DEF IInv, HandlersOK, OneInserter
-----------------------------------------------------------------------------
\* Steps

\* Of what the clients ask for.
LEMMA Requests ==
    ASSUME IInv
    PROVE  /\ scenario.adds \subseteq User \X User
           /\ scenario.chats \subseteq
                  [ type : {"direct", "group"}, by : User,
                    members : SUBSET User ]
           /\ scenario.posts \subseteq
                  [ user : User, message : Message, content : Content,
                    extra : Extra ]
           /\ scenario.readers \subseteq User
           /\ scenario.logins \subseteq Device
  BY ConversationsAssumption DEF IInv

\* Steps that move a handler and nothing else.
LEMMA OnlyMoves ==
    ASSUME IInv, NEW h \in Handler, NEW r \in HandlerRow,
           handler' = [handler EXCEPT ![h] = r],
           Grows => Sound(h)',
           r.at \notin Inserted,
           UNCHANGED <<chats, messages, lastRead, updated, clock, announced,
                       tokens, pushes, scenario>>
    PROVE  IInv' /\ Grows
<1>1. Grows
  BY NothingGrows DEF chats
<1>2. HandlersOK'
  BY <1>1, HandlersStep
<1>3. ChatsOK' /\ MessagesOK' /\ AnnouncedOK' /\ PushOK'
  BY <1>1, ChatsKept, MessagesKept, AnnouncedKept, PushKept
<1>4. MarksOK'
  BY <1>1, MarksKept DEF Stored
<1>5. QED
  BY <1>1, <1>2, <1>3, <1>4 DEF IInv

LEMMA FinishStep ==
    ASSUME IInv, NEW h \in Handler, Finish(h),
           UNCHANGED <<chats, messages, lastRead, updated, clock, announced,
                       tokens, pushes, scenario>>
    PROVE  IInv' /\ Grows
<1>1. Idle \in HandlerRow /\ Idle.at = "idle"
  BY DEF Idle, HandlerRow, Position
<1>2. handler'[h] = Idle
  BY DEF IInv, HandlersOK, Finish
<1>3. Sound(h)'
  BY <1>1, <1>2 DEF Sound, Posting, Inserted, Answered
<1>4. QED
  BY <1>1, <1>3, OnlyMoves DEF Finish, Inserted

LEMMA RequestStep ==
    ASSUME IInv, NEW h \in Handler, Request(h), UNCHANGED scenario
    PROVE  IInv' /\ Grows
<1>1. ASSUME NEW a \in scenario.adds, AddContact(h, a[1], a[2])
      PROVE  IInv' /\ Grows
  <2> DEFINE r == [Idle EXCEPT !.at = "contact", !.user = a[1], !.other = a[2]]
  <2>1. a[1] \in User /\ a[2] \in User /\ a[1] # a[2]
    BY <1>1, Requests DEF AddContact
  <2>2. /\ r \in HandlerRow
        /\ r.at = "contact" /\ r.user = a[1] /\ r.other = a[2]
    BY <2>1 DEF Idle, HandlerRow, Position
  <2>3. handler' = [handler EXCEPT ![h] = r] /\ handler'[h] = r
    BY <1>1 DEF AddContact, IInv, HandlersOK
  <2> HIDE DEF r
  <2>4. Sound(h)'
    BY <2>1, <2>2, <2>3 DEF Sound, Posting, Inserted, Answered
  <2>5. QED
    BY <1>1, <2>2, <2>3, <2>4, OnlyMoves DEF AddContact, Inserted
<1>2. ASSUME NEW p \in scenario.posts, NEW c \in Conversation,
             SendMessage(h, p, c)
      PROVE  IInv' /\ Grows
  <2> DEFINE r == [ Idle EXCEPT !.at = "insert", !.user = p.user,
                                !.message = p.message, !.content = p.content,
                                !.extra = p.extra, !.conversation = c ]
  <2>1. /\ p.user \in User /\ p.message \in Message
        /\ p.content \in Content /\ p.extra \in Extra
    BY Requests
  <2>2. /\ r \in HandlerRow
        /\ r.at = "insert" /\ r.user = p.user /\ r.message = p.message
        /\ r.content = p.content /\ r.conversation = c /\ r.extra = p.extra
    BY <2>1 DEF Idle, HandlerRow, Position
  <2>3. handler' = [handler EXCEPT ![h] = r] /\ handler'[h] = r
    BY <1>2 DEF SendMessage, IInv, HandlersOK
  <2> HIDE DEF r
  <2>4. Sound(h)'
    BY <1>2, <2>1, <2>2, <2>3
       DEF Sound, Posting, Inserted, Answered, SendMessage, Member, chats
  <2>5. QED
    BY <1>2, <2>2, <2>3, <2>4, OnlyMoves DEF SendMessage, Inserted
<1>3. ASSUME NEW u \in scenario.readers, NEW m \in Message, MarkRead(h, u, m)
      PROVE  IInv' /\ Grows
  <2> DEFINE r == [Idle EXCEPT !.at = "marker", !.user = u, !.message = m]
  <2>1. u \in User
    BY Requests
  <2>2. /\ r \in HandlerRow
        /\ r.at = "marker" /\ r.user = u /\ r.message = m
    BY <2>1 DEF Idle, HandlerRow, Position
  <2>3. handler' = [handler EXCEPT ![h] = r] /\ handler'[h] = r
    BY <1>3 DEF MarkRead, IInv, HandlersOK
  <2> HIDE DEF r
  <2>4. Sound(h)'
    BY <1>3, <2>1, <2>2, <2>3
       DEF Sound, Posting, Inserted, Answered, MarkRead, Member, Stored, chats
  <2>5. QED
    BY <1>3, <2>2, <2>3, <2>4, OnlyMoves DEF MarkRead, Inserted
<1>4. QED
  BY <1>1, <1>2, <1>3 DEF Request

-----------------------------------------------------------------------------
\* Contacts and conversations

\* A new conversation takes an id nobody refers to.
LEMMA InsertGrows ==
    ASSUME IInv, NEW chat \in ChatRow, NEW contact,
           InsertConversation(chat, contact),
           UNCHANGED <<messages, lastRead, clock>>
    PROVE  Grows
<1>1. PICK c \in Conversation :
          /\ conversations[c] = None
          /\ conversations' = [conversations EXCEPT ![c] = chat]
          /\ updated' = [updated EXCEPT ![c] = clock]
  BY DEF InsertConversation
<1>2. QED
  BY <1>1 DEF IInv, ChatsOK, MessagesOK, MarksOK, Grows, Stored

\* The conversations born with a contact, after an insert.
LEMMA InsertBorn ==
    ASSUME IInv, NEW chat \in ChatRow, NEW contact \in (User \X User) \cup {None},
           InsertConversation(chat, contact)
    PROVE  /\ conversations' \in [Conversation -> ChatRow \cup {None}]
           /\ origin' \in [Conversation -> (User \X User) \cup {None}]
           /\ \A c \in Conversation : conversations'[c] = None => origin'[c] = None
           /\ \A u, v \in User : contact # <<u, v>> =>
                  /\ Born(u, v)' = Born(u, v)
                  /\ \A c \in Born(u, v) : conversations'[c] = conversations[c]
           /\ \A u, v \in User : contact = <<u, v>> =>
                  \E c \in Conversation :
                      /\ Born(u, v)' = Born(u, v) \cup {c}
                      /\ conversations'[c] = chat
<1>1. PICK c \in Conversation :
          /\ conversations[c] = None
          /\ conversations' = [conversations EXCEPT ![c] = chat]
          /\ origin' = [origin EXCEPT ![c] = contact]
  BY DEF InsertConversation
<1>2. /\ conversations \in [Conversation -> ChatRow \cup {None}]
      /\ origin \in [Conversation -> (User \X User) \cup {None}]
      /\ \A d \in Conversation : conversations[d] = None => origin[d] = None
  BY DEF IInv, ChatsOK
<1>3. /\ conversations'[c] = chat /\ origin'[c] = contact
      /\ \A d \in Conversation \ {c} :
             conversations'[d] = conversations[d] /\ origin'[d] = origin[d]
  BY <1>1, <1>2
<1>4. origin[c] = None
  BY <1>1, <1>2
<1>5. ASSUME NEW u \in User, NEW v \in User
      PROVE  c \notin Born(u, v)
  BY <1>4, <1>5, NoneIsNoContact DEF Born
<1>6. ASSUME NEW u \in User, NEW v \in User, contact # <<u, v>>
      PROVE  /\ Born(u, v)' = Born(u, v)
             /\ \A d \in Born(u, v) : conversations'[d] = conversations[d]
  BY <1>3, <1>5, <1>6 DEF Born
<1>7. ASSUME NEW u \in User, NEW v \in User, contact = <<u, v>>
      PROVE  Born(u, v)' = Born(u, v) \cup {c}
  BY <1>3, <1>7 DEF Born
<1>8. /\ conversations' \in [Conversation -> ChatRow \cup {None}]
      /\ origin' \in [Conversation -> (User \X User) \cup {None}]
      /\ \A d \in Conversation : conversations'[d] = None => origin'[d] = None
  BY <1>1, <1>2, <1>3, NoneIsNoRow
<1>9. QED
  BY <1>3, <1>6, <1>7, <1>8

\* Another handler's step leaves what AnnouncedKept and the others need.
LEMMA GrowsKeeps ==
    ASSUME IInv, Grows, UNCHANGED <<messages, clock, announced, tokens, pushes>>
    PROVE  MessagesOK' /\ MarksOK' /\ AnnouncedOK' /\ PushOK'
  BY MessagesKept, MarksKept, AnnouncedKept, PushKept DEF Stored

LEMMA ContactStep ==
    ASSUME IInv, NEW h \in Handler, InsertContact(h), UNCHANGED scenario
    PROVE  IInv' /\ Grows
<1>1. PICK u \in User, v \in User :
          u = handler[h].user /\ v = handler[h].other /\ u # v
  BY DEF InsertContact, IInv, HandlersOK, Sound
<1> DEFINE chat == Chat("direct", u, {u, v})
<1>2. chat \in ChatRow /\ <<u, v>> \in (User \X User) \cup {None}
  BY <1>1, ChatIsRow
<1>3. CASE UNCHANGED <<chats, updated>>
  BY <1>3, FinishStep DEF InsertContact
<1>4. CASE /\ ~ContactConflicts(u, v)
           /\ contacts' = contacts \cup {<<u, v>>}
           /\ InsertConversation(chat, <<u, v>>)
  <2>1. Grows
    BY <1>2, <1>4, InsertGrows DEF InsertContact
  <2>2. Born(u, v) = {}
    BY <1>1, <1>4 DEF ContactConflicts, IInv, ChatsOK, OneConversationPerContact
  <2>3. PICK c \in Conversation : Born(u, v)' = {c} /\ conversations'[c] = chat
    <3> HIDE DEF chat
    <3>1. QED
      BY <1>1, <1>2, <1>4, <2>2, InsertBorn
  <2>4. ASSUME NEW w \in User, NEW x \in User, <<w, x>> # <<u, v>>
        PROVE  /\ Born(w, x)' = Born(w, x)
               /\ \A d \in Born(w, x) : conversations'[d] = conversations[d]
               /\ <<w, x>> \in contacts' <=> <<w, x>> \in contacts
    <3> HIDE DEF chat
    <3>1. QED
      BY <1>2, <1>4, <2>4, InsertBorn
  <2>5. ChatsOK'
    <3>1. OneConversationPerContact'
      <4>1. ASSUME NEW w \in User, NEW x \in User
            PROVE  /\ <<w, x>> \in contacts' <=> Born(w, x)' # {}
                   /\ \A d \in Born(w, x)' :
                          /\ conversations'[d] = Chat("direct", w, {w, x})
                          /\ \A e \in Born(w, x)' : d = e
        <5>1. CASE <<w, x>> = <<u, v>>
          <6>1. w = u /\ x = v /\ <<u, v>> \in contacts'
            BY <1>4, <5>1
          <6>2. Born(w, x)' = {c} /\ conversations'[c] = Chat("direct", w, {w, x})
            BY <2>3, <6>1 DEF Born
          <6>3. QED
            BY <6>1, <6>2
        <5>2. CASE <<w, x>> # <<u, v>>
          BY <2>4, <5>2 DEF IInv, ChatsOK, OneConversationPerContact
        <5>3. QED
          BY <5>1, <5>2
      <4>2. QED
        BY <4>1 DEF OneConversationPerContact, Chat
    <3>2. contacts' \subseteq User \X User
      BY <1>1, <1>4 DEF IInv, ChatsOK
    <3>3. /\ conversations' \in [Conversation -> ChatRow \cup {None}]
          /\ origin' \in [Conversation -> (User \X User) \cup {None}]
          /\ \A d \in Conversation : conversations'[d] = None => origin'[d] = None
      <4> HIDE DEF chat
      <4>1. QED
        BY <1>2, <1>4, InsertBorn
    <3>4. QED
      BY <3>1, <3>2, <3>3 DEF ChatsOK
  <2>6. Idle \in HandlerRow /\ Idle.at = "idle" /\ handler'[h] = Idle
    BY DEF Idle, HandlerRow, Position, InsertContact, Finish, IInv, HandlersOK
  <2>7. Sound(h)'
    BY <2>6 DEF Sound, Posting, Inserted, Answered
  <2>8. HandlersOK'
    BY <2>1, <2>6, <2>7, HandlersStep DEF InsertContact, Finish, Inserted
  <2>9. QED
    BY <2>1, <2>5, <2>8, GrowsKeeps DEF InsertContact, IInv
<1>5. QED
  BY <1>1, <1>3, <1>4 DEF InsertContact

LEMMA CreateStep ==
    ASSUME IInv, NEW g \in scenario.chats, CreateConversation(g),
           UNCHANGED scenario
    PROVE  IInv' /\ Grows
<1> DEFINE chat == Chat(g.type, g.by, g.members)
<1>1. chat \in ChatRow
  BY Requests, ChatIsRow
<1>2. InsertConversation(chat, None)
  BY DEF CreateConversation
<1>3. Grows
  BY <1>1, <1>2, InsertGrows DEF CreateConversation
<1>4. \A u, v \in User : None # <<u, v>>
  BY NoneIsNoContact
<1>5. /\ conversations' \in [Conversation -> ChatRow \cup {None}]
      /\ origin' \in [Conversation -> (User \X User) \cup {None}]
      /\ \A c \in Conversation : conversations'[c] = None => origin'[c] = None
      /\ \A u, v \in User :
             /\ Born(u, v)' = Born(u, v)
             /\ \A c \in Born(u, v) : conversations'[c] = conversations[c]
  <2> HIDE DEF chat
  <2>1. QED
    BY <1>1, <1>2, <1>4, InsertBorn
<1>6. ChatsOK'
  BY <1>5 DEF CreateConversation, IInv, ChatsOK, OneConversationPerContact, Chat
<1>7. HandlersOK'
  BY <1>3, HandlersKept DEF CreateConversation
<1>8. QED
  BY <1>3, <1>6, <1>7, GrowsKeeps DEF CreateConversation, IInv

-----------------------------------------------------------------------------
\* POST /messages

\* A handler that goes to another position keeps its request.
LEMMA Moved ==
    ASSUME IInv, NEW h \in Handler, NEW at \in Position, Goto(h, at)
    PROVE  LET r == [handler[h] EXCEPT !.at = at] IN
           /\ r \in HandlerRow
           /\ handler' = [handler EXCEPT ![h] = r]
           /\ handler'[h] = r
           /\ r.at = at /\ r.user = handler[h].user
           /\ r.message = handler[h].message /\ r.content = handler[h].content
           /\ r.extra = handler[h].extra
           /\ r.conversation = handler[h].conversation
  BY DEF Goto, IInv, HandlersOK, HandlerRow

LEMMA InsertStep ==
    ASSUME IInv, NEW h \in Handler, InsertMessage(h), UNCHANGED scenario
    PROVE  IInv' /\ Grows
<1> DEFINE r == handler[h]
           m == r.message
<1>1. /\ r.at = "insert" /\ r.user \in User /\ m \in Message
      /\ r.content \in Content /\ r.extra \in Extra
      /\ r.conversation \in Conversation
      /\ Member(r.user, r.conversation)
  BY DEF InsertMessage, IInv, HandlersOK, Sound, Posting
<1>2. CASE Stored(m) /\ ~SameRequest(m, r)
  BY <1>2, FinishStep DEF InsertMessage
<1>3. CASE Stored(m) /\ SameRequest(m, r)
  <2>1. Goto(h, "repeated") /\ "repeated" \in Position
    BY <1>3 DEF InsertMessage, Position
  <2> DEFINE q == [r EXCEPT !.at = "repeated"]
  <2>2. /\ q \in HandlerRow /\ handler' = [handler EXCEPT ![h] = q]
        /\ handler'[h] = q /\ q.at = "repeated" /\ q.user = r.user /\ q.message = m
        /\ q.content = r.content /\ q.extra = r.extra /\ q.conversation = r.conversation
    BY <2>1, Moved
  <2>3. UNCHANGED <<chats, messages, lastRead, updated, clock, announced,
                    tokens, pushes, scenario>>
    BY <1>3 DEF InsertMessage
  <2> HIDE DEF q
  <2>4. Sound(h)'
    BY <1>1, <1>3, <2>2, <2>3
       DEF Sound, Posting, Inserted, Answered, Member, Stored, SameRequest, chats
  <2>5. QED
    BY <2>2, <2>3, <2>4, OnlyMoves DEF Inserted
<1>4. CASE ~Stored(m)
  <2>1. /\ messages' = [messages EXCEPT ![m] = Row(r)] /\ clock' = clock + 1
        /\ Goto(h, "touch") /\ "touch" \in Position
        /\ UNCHANGED <<chats, lastRead, updated, announced, tokens, pushes>>
    BY <1>4 DEF InsertMessage, Position
  <2>2. clock \in Nat /\ messages \in [Message -> MessageRow \cup {None}]
    BY DEF IInv, MessagesOK
  <2>3. /\ Row(r) \in MessageRow
        /\ Row(r).sender = r.user /\ Row(r).conversation = r.conversation
        /\ Row(r).content = r.content /\ Row(r).extra = r.extra
        /\ Row(r).sent = clock + 1 /\ Row(r).read = FALSE
    BY <1>1, <2>2 DEF Row, MessageRow
  <2>4. /\ messages'[m] = Row(r)
        /\ \A n \in Message \ {m} : messages'[n] = messages[n]
    BY <1>1, <2>1, <2>2
  <2>5. /\ messages'[m] # None
        /\ \A n \in Message \ {m} : Stored(n)' <=> Stored(n)
    BY <2>3, <2>4, NoneIsNoRow DEF Stored
  <2>6. Grows
    <3>1. ASSUME NEW n \in Message, Stored(n)
          PROVE  messages'[n] = messages[n] /\ messages[n] \in MessageRow
      BY <1>4, <2>2, <2>4, <3>1 DEF Stored
    <3>2. /\ lastRead' = lastRead /\ lastRead \in [Conversation -> [User -> Nat]]
          /\ updated' = updated /\ updated \in [Conversation -> Nat]
          /\ conversations' = conversations
          /\ clock' >= clock /\ clock' \in Nat
      BY <2>1, <2>2 DEF IInv, MarksOK, chats
    <3>3. QED
      BY <3>1, <3>2 DEF Grows
  <2>7. MessagesOK'
    <3>1. messages' \in [Message -> MessageRow \cup {None}] /\ clock' \in Nat
      BY <1>1, <2>1, <2>2, <2>3
    <3>2. ASSUME NEW n \in Message, Stored(n)'
          PROVE  /\ Member(messages[n].sender, messages[n].conversation)'
                 /\ messages'[n].sent <= clock'
      <4>1. CASE n = m
        BY <1>1, <2>1, <2>2, <2>3, <2>4, <4>1 DEF Member, chats
      <4>2. CASE n # m
        <5>1. /\ Stored(n) /\ messages'[n] = messages[n]
              /\ messages[n] \in MessageRow /\ messages[n].sent \in Nat
          BY <2>2, <2>4, <2>5, <3>2, <4>2 DEF Stored, MessageRow
        <5>2. /\ Member(messages[n].sender, messages[n].conversation)
              /\ messages[n].sent <= clock
          BY <5>1 DEF IInv, MessagesOK, SentByMember
        <5>3. QED
          BY <2>1, <2>2, <5>1, <5>2 DEF Member, chats
      <4>3. QED
        BY <4>1, <4>2
    <3>3. QED
      BY <3>1, <3>2 DEF MessagesOK, SentByMember
  <2>8. MarksOK'
    BY <2>3, <2>4, <2>5, <2>6, MarksKept
  <2>9. /\ \A u \in User : announced[m][u] = 0
        /\ \A g \in Handler : handler[g].at \in Inserted => handler[g].message # m
    BY <1>1, <1>4 DEF IInv, AnnouncedOK, AnnouncedOnce, HandlersOK, Sound,
                      Inserted
  <2>10. HandlersOK'
    <3> DEFINE q == [r EXCEPT !.at = "touch"]
    <3>1. /\ q \in HandlerRow /\ handler' = [handler EXCEPT ![h] = q]
          /\ handler'[h] = q /\ q.at = "touch" /\ q.user = r.user
          /\ q.message = m /\ q.content = r.content /\ q.extra = r.extra
          /\ q.conversation = r.conversation
      BY <2>1, Moved
    <3> HIDE DEF q
    <3>2. Sound(h)'
      BY <1>1, <2>1, <2>3, <2>4, <2>5, <2>9, <3>1
         DEF Sound, Posting, Inserted, Answered, Member, SameRequest, Stored, chats
    <3>3. QED
      BY <2>1, <2>6, <2>9, <3>1, <3>2, HandlersStep
  <2>11. QED
    BY <2>1, <2>6, <2>7, <2>8, <2>10, ChatsKept, AnnouncedKept, PushKept
       DEF IInv
<1>5. QED
  BY <1>2, <1>3, <1>4

LEMMA TouchStep ==
    ASSUME IInv, NEW h \in Handler, TouchConversation(h), UNCHANGED scenario
    PROVE  IInv' /\ Grows
<1> DEFINE r == handler[h]
           q == [r EXCEPT !.at = "announce"]
           c == r.conversation
           m == r.message
<1>1. Goto(h, "announce") /\ "announce" \in Position
  BY DEF TouchConversation, Position
<1>2. /\ q \in HandlerRow /\ handler' = [handler EXCEPT ![h] = q]
      /\ handler'[h] = q /\ q.at = "announce" /\ q.user = r.user /\ q.message = m
      /\ q.content = r.content /\ q.extra = r.extra /\ q.conversation = c
  BY <1>1, Moved
<1>3. /\ r.at = "touch" /\ r.user \in User /\ m \in Message
      /\ r.content \in Content /\ r.extra \in Extra /\ c \in Conversation
      /\ Member(r.user, c) /\ Stored(m) /\ SameRequest(m, r)
      /\ messages[m].extra = r.extra
      /\ \A u \in User : announced[m][u] = 0
      /\ messages[m].sent <= clock
  BY DEF TouchConversation, IInv, HandlersOK, Sound, Posting, Inserted, Answered,
         MessagesOK, SentByMember
<1>4. /\ updated' = [updated EXCEPT ![c] = clock]
      /\ UNCHANGED <<chats, messages, lastRead, clock, announced, tokens, pushes>>
  BY DEF TouchConversation
<1>5. Grows /\ updated'[c] = clock
  BY <1>3, <1>4 DEF Grows, IInv, MessagesOK, MarksOK, Stored, chats
<1> HIDE DEF q
<1>6. Sound(h)'
  BY <1>2, <1>3, <1>4, <1>5
     DEF Sound, Posting, Inserted, Answered, Member, Stored, SameRequest, chats
<1>7. HandlersOK'
  <2>1. \A g \in Handler \ {h} :
            handler[g].at \in Inserted => handler[g].message # m
    BY <1>3 DEF IInv, HandlersOK, OneInserter, Inserted
  <2>2. QED
    BY <1>2, <1>4, <1>5, <1>6, <2>1, HandlersStep
<1>8. QED
  BY <1>4, <1>5, <1>7, ChatsKept, GrowsKeeps DEF IInv

LEMMA AnnounceStep ==
    ASSUME IInv, NEW h \in Handler, Announce(h), UNCHANGED scenario
    PROVE  IInv' /\ Grows
<1> DEFINE r == handler[h]
           q == [r EXCEPT !.at = "created"]
           c == r.conversation
           m == r.message
<1>1. Goto(h, "created") /\ "created" \in Position
  BY DEF Announce, Position
<1>2. /\ q \in HandlerRow /\ handler' = [handler EXCEPT ![h] = q]
      /\ handler'[h] = q /\ q.at = "created" /\ q.user = r.user /\ q.message = m
      /\ q.content = r.content /\ q.extra = r.extra /\ q.conversation = c
  BY <1>1, Moved
<1>3. /\ r.at = "announce" /\ r.user \in User /\ m \in Message
      /\ r.content \in Content /\ r.extra \in Extra /\ c \in Conversation
      /\ Member(r.user, c) /\ Stored(m) /\ SameRequest(m, r)
      /\ messages[m].extra = r.extra
      /\ \A u \in User : announced[m][u] = 0
      /\ updated[c] >= messages[m].sent
  BY DEF Announce, IInv, HandlersOK, Sound, Posting, Inserted, Answered
<1>4. UNCHANGED <<chats, messages, lastRead, updated, clock, tokens>>
  BY DEF Announce
<1>5. Grows
  BY <1>4, NothingGrows DEF chats
<1>6. conversations[c] \in ChatRow /\ Others(r) \subseteq User
  BY <1>3 DEF IInv, ChatsOK, ChatRow, Member, Others
<1>7. /\ announced \in [Message -> [User -> Nat]]
      /\ announced' = [announced EXCEPT ![m] =
             [u \in User |-> IF u \in Others(r) THEN announced[m][u] + 1
                             ELSE announced[m][u]]]
  BY DEF Announce, IInv, AnnouncedOK
<1>8. /\ announced' \in [Message -> [User -> Nat]]
      /\ \A n \in Message \ {m} : announced'[n] = announced[n]
      /\ \A u \in User : announced'[m][u] =
             IF u \in Others(r) THEN 1 ELSE 0
  BY <1>3, <1>7
<1>9. AnnouncedOK'
  <2>1. ASSUME NEW n \in Message, NEW u \in User, announced'[n][u] # 0
        PROVE  /\ announced'[n][u] = 1
               /\ Stored(n)
               /\ Member(u, messages[n].conversation)
               /\ u # messages[n].sender
               /\ updated[messages[n].conversation] >= messages[n].sent
    <3>1. CASE n = m
      BY <1>3, <1>8, <2>1, <3>1 DEF SameRequest, Others, Member
    <3>2. CASE n # m
      BY <1>8, <2>1, <3>2 DEF IInv, AnnouncedOK, AnnouncedOnce
    <3>3. QED
      BY <3>1, <3>2
  <2>2. QED
    BY <1>4, <1>8, <2>1 DEF AnnouncedOK, AnnouncedOnce, Stored, Member, chats
<1>10. PushOK'
  <2>1. pushes' = pushes \cup {Push(u, m) : u \in Others(r) \cap Addressees}
    BY DEF Announce
  <2>2. ASSUME NEW u \in User
        PROVE  /\ Push(u, m) \in PushRow /\ Push(u, m).found = {}
    BY <1>3 DEF Push, PushRow
  <2>3. pushes' \subseteq PushRow /\ \A p \in pushes' \ pushes : p.found = {}
    BY <1>6, <2>1, <2>2 DEF IInv, PushOK
  <2>4. QED
    BY <1>4, <2>3 DEF IInv, PushOK, TokensSound, tokens
<1>11. HandlersOK'
  <2> HIDE DEF q
  <2>1. Sound(h)'
    BY <1>2, <1>3, <1>4
       DEF Sound, Posting, Inserted, Answered, Member, Stored, SameRequest, chats
  <2>2. \A g \in Handler \ {h} :
            handler[g].at \in Inserted =>
                handler[g].message \in Message /\ handler[g].message # m
    BY <1>3 DEF IInv, HandlersOK, OneInserter, Inserted, Sound, Posting
  <2>3. QED
    BY <1>2, <1>5, <1>8, <2>1, <2>2, HandlersStep DEF Inserted
<1>12. MarksOK'
  BY <1>4, <1>5, MarksKept DEF Stored
<1>13. QED
  BY <1>4, <1>5, <1>9, <1>10, <1>11, <1>12, ChatsKept, MessagesKept DEF IInv

-----------------------------------------------------------------------------
\* POST /messages/:messageId/read

LEMMA GreatestIsUpper ==
    ASSUME NEW a \in Nat, NEW b \in Nat
    PROVE  Greatest(a, b) \in Nat /\ Greatest(a, b) >= a /\ Greatest(a, b) >= b
  BY DEF Greatest

LEMMA MarkerStep ==
    ASSUME IInv, NEW h \in Handler, MoveMarker(h), UNCHANGED scenario
    PROVE  IInv' /\ Grows
<1> DEFINE r == handler[h]
           q == [r EXCEPT !.at = "stamp"]
           m == r.message
           c == messages[m].conversation
           u == r.user
<1>1. Goto(h, "stamp") /\ "stamp" \in Position
  BY DEF MoveMarker, Position
<1>2. /\ q \in HandlerRow /\ handler' = [handler EXCEPT ![h] = q]
      /\ handler'[h] = q /\ q.at = "stamp" /\ q.user = u /\ q.message = m
  BY <1>1, Moved
<1>3. /\ u \in User /\ m \in Message /\ Stored(m) /\ Member(u, c)
  BY DEF MoveMarker, IInv, HandlersOK, Sound
<1>4. c \in Conversation /\ messages[m].sent \in Nat
  BY <1>3 DEF IInv, MessagesOK, Stored, MessageRow
<1>5. /\ lastRead \in [Conversation -> [User -> Nat]]
      /\ lastRead' = [lastRead EXCEPT ![c][u] =
             Greatest(lastRead[c][u], messages[m].sent)]
      /\ UNCHANGED <<chats, messages, updated, clock, announced, tokens, pushes>>
  BY DEF MoveMarker, IInv, MarksOK
<1>6. /\ Greatest(lastRead[c][u], messages[m].sent) \in Nat
      /\ Greatest(lastRead[c][u], messages[m].sent) >= lastRead[c][u]
      /\ Greatest(lastRead[c][u], messages[m].sent) >= messages[m].sent
  <2>1. lastRead[c][u] \in Nat
    BY <1>3, <1>4, <1>5
  <2>2. QED
    BY <1>4, <2>1, GreatestIsUpper
<1>7. /\ lastRead' \in [Conversation -> [User -> Nat]]
      /\ lastRead'[c][u] >= messages[m].sent
      /\ \A d \in Conversation, w \in User : lastRead'[d][w] >= lastRead[d][w]
  <2> DEFINE g == Greatest(lastRead[c][u], messages[m].sent)
             f == [lastRead[c] EXCEPT ![u] = g]
  <2>1. lastRead' = [lastRead EXCEPT ![c] = f]
    BY <1>5
  <2>2. g \in Nat /\ g >= lastRead[c][u] /\ g >= messages[m].sent
    BY <1>6
  <2> HIDE DEF g
  <2>3. lastRead[c] \in [User -> Nat]
    BY <1>4, <1>5
  <2>4. /\ f \in [User -> Nat] /\ f[u] = g
        /\ \A w \in User : f[w] >= lastRead[c][w]
    BY <1>3, <2>2, <2>3
  <2> HIDE DEF f
  <2>5. /\ lastRead'[c] = f
        /\ \A d \in Conversation \ {c} : lastRead'[d] = lastRead[d]
        /\ lastRead' \in [Conversation -> [User -> Nat]]
    BY <1>4, <1>5, <2>1, <2>4
  <2>6. ASSUME NEW d \in Conversation, NEW w \in User
        PROVE  lastRead'[d][w] >= lastRead[d][w]
    <3>1. CASE d = c
      BY <2>4, <2>5, <3>1
    <3>2. CASE d # c
      <4>1. lastRead'[d][w] = lastRead[d][w] /\ lastRead[d][w] \in Nat
        BY <1>5, <2>5, <3>2
      <4>2. QED
        BY <4>1
    <3>3. QED
      BY <3>1, <3>2
  <2>7. QED
    BY <2>2, <2>4, <2>5, <2>6
<1>8. Grows
  <2>1. /\ updated' = updated /\ updated \in [Conversation -> Nat]
        /\ conversations' = conversations
        /\ clock' = clock /\ clock \in Nat
        /\ messages' = messages /\ messages \in [Message -> MessageRow \cup {None}]
    BY <1>5 DEF IInv, MarksOK, MessagesOK, chats
  <2>2. QED
    BY <1>7, <2>1 DEF Grows, Stored
<1> HIDE DEF q
<1>9. Sound(h)'
  BY <1>2, <1>3, <1>5, <1>7 DEF Sound, Posting, Inserted, Answered, Member, Stored, chats
<1>10. HandlersOK'
  BY <1>2, <1>5, <1>8, <1>9, HandlersStep DEF Inserted
<1>11. QED
  BY <1>5, <1>8, <1>10, ChatsKept, GrowsKeeps DEF IInv

LEMMA StampStep ==
    ASSUME IInv, NEW h \in Handler, StampMessage(h), UNCHANGED scenario
    PROVE  IInv' /\ Grows
<1> DEFINE m == handler[h].message
           c == messages[m].conversation
           u == handler[h].user
<1>1. /\ u \in User /\ m \in Message /\ Stored(m) /\ Member(u, c)
      /\ lastRead[c][u] >= messages[m].sent
  BY DEF StampMessage, IInv, HandlersOK, Sound
<1>2. messages \in [Message -> MessageRow \cup {None}] /\ clock \in Nat
  BY DEF IInv, MessagesOK
<1>3. messages[m] \in MessageRow
  BY <1>1, <1>2 DEF Stored
<1>4. /\ messages' = [messages EXCEPT ![m].read =
                           messages[m].read \/ StampsRead(u, m)]
      /\ Finish(h)
      /\ UNCHANGED <<chats, lastRead, updated, clock, announced, tokens, pushes>>
  BY DEF StampMessage
<1>5. (messages[m].read \/ StampsRead(u, m)) \in BOOLEAN
  BY <1>3 DEF StampsRead, MessageRow
<1>6. /\ messages'[m] \in MessageRow
      /\ messages'[m].sender = messages[m].sender
      /\ messages'[m].conversation = c
      /\ messages'[m].content = messages[m].content
      /\ messages'[m].extra = messages[m].extra
      /\ messages'[m].sent = messages[m].sent
      /\ messages'[m].read = (messages[m].read \/ StampsRead(u, m))
      /\ \A n \in Message \ {m} : messages'[n] = messages[n]
      /\ messages' \in [Message -> MessageRow \cup {None}]
  BY <1>1, <1>2, <1>3, <1>4, <1>5 DEF MessageRow
<1>7. \A n \in Message : Stored(n)' <=> Stored(n)
  BY <1>1, <1>6, NoneIsNoRow DEF Stored
<1>8. Grows
  <2>1. ASSUME NEW n \in Message, Stored(n)
        PROVE  /\ messages'[n] \in MessageRow
               /\ messages'[n].sender = messages[n].sender
               /\ messages'[n].conversation = messages[n].conversation
               /\ messages'[n].content = messages[n].content
               /\ messages'[n].extra = messages[n].extra
               /\ messages'[n].sent = messages[n].sent
    BY <1>2, <1>6, <2>1 DEF Stored
  <2>2. /\ lastRead' = lastRead /\ lastRead \in [Conversation -> [User -> Nat]]
        /\ updated' = updated /\ updated \in [Conversation -> Nat]
        /\ conversations' = conversations
        /\ clock' = clock
    BY <1>4 DEF IInv, MarksOK, chats
  <2>3. QED
    BY <1>2, <2>1, <2>2 DEF Grows
<1>9. MessagesOK'
  <2>1. ASSUME NEW n \in Message, Stored(n)'
        PROVE  /\ Member(messages[n].sender, messages[n].conversation)'
               /\ messages'[n].sent <= clock'
    <3>1. Stored(n)
      BY <1>7, <2>1
    <3>2. /\ Member(messages[n].sender, messages[n].conversation)
          /\ messages[n].sent <= clock
      BY <3>1 DEF IInv, MessagesOK, SentByMember
    <3>3. QED
      BY <1>4, <1>8, <3>1, <3>2 DEF Grows, Member, chats
  <2>2. QED
    BY <1>2, <1>4, <1>6, <2>1 DEF MessagesOK, SentByMember
<1>10. MarksOK'
  <2>1. ASSUME NEW n \in Message, Stored(n)', messages'[n].read
        PROVE  \E w \in conversations'[messages'[n].conversation].members :
                   /\ w # messages'[n].sender
                   /\ lastRead'[messages'[n].conversation][w] >= messages'[n].sent
    <3>1. CASE messages[n].read /\ messages[n].read \in BOOLEAN
      <4>1. Stored(n) /\ messages[n].read
        BY <1>7, <2>1, <3>1
      <4>2. PICK w \in conversations[messages[n].conversation].members :
                /\ w # messages[n].sender
                /\ lastRead[messages[n].conversation][w] >= messages[n].sent
        BY <4>1 DEF IInv, MarksOK, ReceiptHasMarker
      <4>3. /\ messages'[n].sender = messages[n].sender
            /\ messages'[n].conversation = messages[n].conversation
            /\ messages'[n].sent = messages[n].sent
        BY <1>8, <4>1 DEF Grows
      <4>4. conversations' = conversations /\ lastRead' = lastRead
        BY <1>4 DEF chats
      <4>5. QED
        BY <4>2, <4>3, <4>4
    <3>2. CASE n = m /\ StampsRead(u, m)
      BY <1>1, <1>4, <1>6, <3>2 DEF StampsRead, Member, chats
    <3>3. QED
      <4>1. Stored(n) /\ messages[n] \in MessageRow
        BY <1>2, <1>7, <2>1 DEF Stored
      <4>2. messages[n].read \in BOOLEAN
        BY <4>1 DEF MessageRow
      <4>3. messages[n].read \/ (n = m /\ StampsRead(u, m))
        BY <1>6, <2>1
      <4>4. QED
        BY <3>1, <3>2, <4>2, <4>3
  <2>2. QED
    BY <1>8, <2>1 DEF Grows, MarksOK, ReceiptHasMarker
<1>11. HandlersOK'
  <2>1. Idle \in HandlerRow /\ Idle.at = "idle" /\ handler'[h] = Idle
    BY <1>4 DEF Idle, HandlerRow, Position, Finish, IInv, HandlersOK
  <2>2. Sound(h)'
    BY <2>1 DEF Sound, Posting, Inserted, Answered
  <2>3. QED
    BY <1>4, <1>8, <2>1, <2>2, HandlersStep DEF Finish, Inserted
<1>12. QED
  BY <1>4, <1>8, <1>9, <1>10, <1>11, ChatsKept, AnnouncedKept, PushKept DEF IInv

-----------------------------------------------------------------------------
\* Push notifications

\* Steps of devices and push calls leave everything else alone.
LEMMA OnlyPushes ==
    ASSUME IInv, PushOK',
           UNCHANGED <<chats, messages, lastRead, updated, clock, handler,
                       announced, scenario>>
    PROVE  IInv' /\ Grows
<1>1. Grows
  BY NothingGrows DEF chats
<1>2. ChatsOK' /\ MessagesOK' /\ HandlersOK' /\ AnnouncedOK'
  BY <1>1, ChatsKept, MessagesKept, HandlersKept, AnnouncedKept
<1>3. MarksOK'
  BY <1>1, MarksKept DEF Stored
<1>4. QED
  BY <1>1, <1>2, <1>3 DEF IInv

LEMMA DeviceStep ==
    ASSUME IInv, NEW d \in Device, Reregister(d) \/ LoginWithToken(d),
           UNCHANGED scenario
    PROVE  IInv' /\ Grows
<1>1. PushOK
  BY DEF IInv
<1>2. CASE Reregister(d)
  <2>1. /\ registered' \in [Device -> Nat]
        /\ \A e \in Device : registered'[e] >= registered[e]
    BY <1>1, <1>2 DEF Reregister, PushOK
  <2>2. fcmToken' = fcmToken /\ pushes' = pushes
    BY <1>2 DEF Reregister
  <2>3. \A e \in Device : fcmToken'[e] <= registered'[e]
    BY <1>1, <2>1, <2>2 DEF PushOK, TokensSound
  <2>4. ASSUME NEW p \in pushes', NEW t \in Device \X Nat, t \in p.found
        PROVE  /\ t[2] <= registered'[t[1]]
               /\ p.at = "clean" => t[2] < registered'[t[1]]
    BY <1>1, <2>1, <2>2, <2>4 DEF PushOK, TokensSound
  <2>5. PushOK'
    BY <1>1, <2>1, <2>2, <2>3, <2>4 DEF PushOK, TokensSound
  <2>6. QED
    BY <1>2, <2>5, OnlyPushes DEF Reregister
<1>3. CASE LoginWithToken(d)
  <2>1. PICK t \in 0 .. registered[d] : fcmToken' = [fcmToken EXCEPT ![d] = t]
    BY <1>3 DEF LoginWithToken
  <2>2. PushOK'
    BY <1>1, <1>3, <2>1 DEF LoginWithToken, PushOK, TokensSound
  <2>3. QED
    BY <1>3, <2>2, OnlyPushes DEF LoginWithToken
<1>4. QED
  BY <1>2, <1>3

LEMMA PushesStep ==
    ASSUME IInv, NEW p \in pushes, PushStep(p), UNCHANGED scenario
    PROVE  IInv' /\ Grows
<1>1. /\ PushOK /\ p \in PushRow
      /\ fcmToken \in [Device -> Nat] /\ registered \in [Device -> Nat]
  BY DEF IInv, PushOK
<1>2. CASE ReadTokens(p)
  <2> DEFINE q == [p EXCEPT !.at = "send", !.found = TokensOf(p.user)]
  <2>1. TokensOf(p.user) \subseteq Device \X Nat
    BY <1>1 DEF TokensOf
  <2>2. q \in PushRow /\ q.at = "send" /\ q.found = TokensOf(p.user)
    BY <1>1, <2>1 DEF PushRow
  <2>3. \A t \in q.found : t[2] <= registered[t[1]]
    BY <1>1, <2>2 DEF TokensOf, PushOK, TokensSound
  <2> HIDE DEF q
  <2>4. pushes' \subseteq pushes \cup {q}
    BY <1>2 DEF ReadTokens, q
  <2>5. PushOK'
    BY <1>1, <1>2, <2>2, <2>3, <2>4 DEF ReadTokens, PushOK, TokensSound, tokens
  <2>6. QED
    BY <1>2, <2>5, OnlyPushes DEF ReadTokens
<1>3. CASE Multicast(p)
  <2> DEFINE failed == {t \in p.found : t[2] # registered[t[1]]}
             q == [p EXCEPT !.at = "clean", !.found = failed]
  <2>1. p.found \subseteq Device \X Nat
    BY <1>1 DEF PushRow
  <2>2. q \in PushRow /\ q.at = "clean" /\ q.found = failed
    BY <1>1, <2>1 DEF PushRow
  <2>3. \A t \in q.found : /\ t \in Device \X Nat
                            /\ t[2] <= registered[t[1]]
                            /\ t[2] < registered[t[1]]
    BY <1>1, <2>1, <2>2 DEF PushOK, TokensSound
  <2>4. pushes' \subseteq pushes \cup {q}
    BY <1>3 DEF Multicast
  <2> HIDE DEF q
  <2>5. PushOK'
    BY <1>1, <1>3, <2>2, <2>3, <2>4 DEF Multicast, PushOK, TokensSound, tokens
  <2>6. QED
    BY <1>3, <2>5, OnlyPushes DEF Multicast
<1>4. CASE RemoveTokens(p)
  <2>1. /\ fcmToken' \in [Device -> Nat]
        /\ \A d \in Device : fcmToken'[d] \in {0, fcmToken[d]}
    BY <1>1, <1>4 DEF RemoveTokens
  <2>2. registered' = registered /\ pushes' \subseteq pushes
    BY <1>4 DEF RemoveTokens
  <2>3. PushOK'
    BY <1>1, <2>1, <2>2 DEF PushOK, TokensSound
  <2>4. QED
    BY <1>4, <2>3, OnlyPushes DEF RemoveTokens
<1>5. CASE PushFails(p)
  BY <1>5, PushKept, OnlyPushes DEF PushFails
<1>6. QED
  BY <1>2, <1>3, <1>4, <1>5 DEF PushStep

-----------------------------------------------------------------------------
\* The invariant is inductive, and every step lets rows and markers only grow

LEMMA HandlersStepIInv ==
    ASSUME IInv, NEW h \in Handler, HandlerStep(h), UNCHANGED scenario
    PROVE  IInv' /\ Grows
<1>1. CASE Answer(h) \/ Fail(h)
  BY <1>1, FinishStep DEF Answer, Fail
<1>2. QED
  BY <1>1, ContactStep, InsertStep, TouchStep, AnnounceStep, MarkerStep, StampStep
     DEF HandlerStep

LEMMA StutterIInv ==
    ASSUME IInv, UNCHANGED vars
    PROVE  IInv' /\ Grows
<1>1. UNCHANGED <<chats, messages, lastRead, updated, clock, handler, announced,
                  tokens, pushes, scenario>>
  BY DEF vars
<1>2. PushOK'
  BY <1>1, PushKept
<1>3. QED
  BY <1>1, <1>2, OnlyPushes

LEMMA IInvInductive == IInv /\ [Next]_vars => IInv' /\ Grows
<1> SUFFICES ASSUME IInv, [Next]_vars PROVE IInv' /\ Grows
  OBVIOUS
<1>1. ASSUME UNCHANGED scenario, NEW h \in Handler, Request(h) \/ HandlerStep(h)
      PROVE  IInv' /\ Grows
  BY <1>1, RequestStep, HandlersStepIInv
<1>2. ASSUME UNCHANGED scenario, NEW g \in scenario.chats, CreateConversation(g)
      PROVE  IInv' /\ Grows
  BY <1>2, CreateStep
<1>3. ASSUME UNCHANGED scenario, NEW d \in scenario.logins,
             Reregister(d) \/ LoginWithToken(d)
      PROVE  IInv' /\ Grows
  BY <1>3, Requests, DeviceStep
<1>4. ASSUME UNCHANGED scenario, NEW p \in pushes, PushStep(p)
      PROVE  IInv' /\ Grows
  BY <1>4, PushesStep
<1>5. CASE UNCHANGED vars
  BY <1>5, StutterIInv
<1>6. QED
  BY <1>1, <1>2, <1>3, <1>4, <1>5 DEF Next

LEMMA AlwaysIInv == Spec => []IInv
  BY InitIInv, IInvInductive, PTL DEF Spec

-----------------------------------------------------------------------------
\* Theorems

\* Tables, handlers and push calls keep their form, whatever the handlers of
\* routes.ts and push.ts do between each other's queries.
THEOREM TypeCorrect == Spec => []TypeOK
<1>1. IInv => TypeOK
  BY DEF IInv, ChatsOK, MessagesOK, MarksOK, HandlersOK, AnnouncedOK, PushOK,
         TypeOK, HandlerRow, PushRow
<1>2. QED
  BY <1>1, AlwaysIInv, PTL

\* POST /contacts leaves a contact row with exactly one conversation of its own,
\* also when several requests add the same contact at once: the transaction
\* creates a conversation only with the row its UNIQUE constraint admits once.
THEOREM OneConversation == Spec => []OneConversationPerContact
<1>1. IInv => OneConversationPerContact
  BY DEF IInv, ChatsOK
<1>2. QED
  BY <1>1, AlwaysIInv, PTL

\* A sender POST /messages answers, with 201 or 200, finds under the id its
\* own message of this conversation with this content, whichever of several
\* requests with the same client message id inserted it, and after 201 with
\* the other columns it sent.
THEOREM AnsweredIsStored == Spec => []OkMeansStored
<1>1. IInv => OkMeansStored
  BY DEF IInv, HandlersOK, Sound, Inserted, Answered, SameRequest, OkMeansStored
<1>2. QED
  BY <1>1, AlwaysIInv, PTL

\* POST /messages broadcasts a message to each other participant at most once,
\* after the message and updated_at are written: only the request whose INSERT
\* returned a row goes on to the broadcast.
THEOREM ToldOnce == Spec => []AnnouncedOnce
<1>1. IInv => AnnouncedOnce
  BY DEF IInv, AnnouncedOK
<1>2. QED
  BY <1>1, AlwaysIInv, PTL

\* A read_at written by POST /messages/:id/read always comes after the
\* last_read_at of some other participant reached the message, also when a
\* handler fails between its two UPDATEs.
THEOREM ReadMeansRead == Spec => []ReceiptHasMarker
<1>1. IInv => ReceiptHasMarker
  BY DEF IInv, MarksOK
<1>2. QED
  BY <1>1, AlwaysIInv, PTL

\* last_read_at only moves on (GREATEST in POST /messages/:id/read), and a
\* stored message keeps its sent_at: what GET /conversations has counted as
\* read stays so, in whatever order receipts arrive.
THEOREM StaysRead == Spec => NeverUnreadAgain
<1>1. IInv /\ [Next]_vars =>
          \A u \in User, c \in Conversation, m \in Message :
              Stored(m) /\ m \notin Unread(u, c) => m \notin Unread(u, c)'
  <2>1. SUFFICES ASSUME IInv, [Next]_vars,
                        NEW u \in User, NEW c \in Conversation, NEW m \in Message,
                        Stored(m), m \notin Unread(u, c), m \in Unread(u, c)'
                 PROVE  FALSE
    OBVIOUS
  <2>2. Grows
    BY <2>1, IInvInductive
  <2>3. /\ messages[m] \in MessageRow
        /\ messages'[m].conversation = messages[m].conversation
        /\ messages'[m].sent = messages[m].sent
    BY <2>1, <2>2 DEF IInv, MessagesOK, Stored, Grows
  <2>4. /\ lastRead[c][u] \in Nat /\ lastRead'[c][u] \in Nat
        /\ lastRead'[c][u] >= lastRead[c][u] /\ messages[m].sent \in Nat
    BY <2>1, <2>2, <2>3 DEF IInv, MarksOK, Grows, MessageRow
  <2>5. messages'[m].conversation = c /\ messages'[m].sent > lastRead'[c][u]
    BY <2>1 DEF Unread
  <2>6. ~(messages[m].sent > lastRead[c][u])
    BY <2>1, <2>3, <2>5 DEF Unread
  <2>7. QED
    BY <2>3, <2>4, <2>5, <2>6
<1>2. QED
  BY <1>1, AlwaysIInv, PTL DEF Spec, NeverUnreadAgain

\* sendPushNotification clears a token FCM no longer knows, and leaves the one
\* its device has registered meanwhile: the UPDATE names the dead tokens.
THEOREM TokenStays == Spec => CurrentTokenKept
<1>1. IInv /\ [Next]_vars =>
          (pushes' # pushes =>
              \A d \in Device : fcmToken[d] = registered[d] =>
                  fcmToken'[d] = fcmToken[d])
  <2> SUFFICES ASSUME IInv, [Next]_vars, pushes' # pushes,
                      NEW d \in Device, fcmToken[d] = registered[d]
               PROVE  fcmToken'[d] = fcmToken[d]
    OBVIOUS
  <2>1. CASE fcmToken' = fcmToken
    BY <2>1
  <2>2. ASSUME NEW p \in pushes, RemoveTokens(p)
        PROVE  fcmToken'[d] = fcmToken[d]
    <3>1. p.at = "clean" /\ registered[d] \in Nat /\ fcmToken[d] \in Nat
      BY <2>2 DEF RemoveTokens, IInv, PushOK
    <3>2. <<d, fcmToken[d]>> \notin p.found
      BY <3>1 DEF IInv, PushOK, TokensSound
    <3>3. QED
      BY <2>2, <3>2 DEF RemoveTokens, Clears
  <2>3. fcmToken' = fcmToken \/ \E p \in pushes : RemoveTokens(p)
    <3>1. ASSUME NEW h \in Handler, Request(h) \/ HandlerStep(h)
          PROVE  fcmToken' = fcmToken
      BY <3>1 DEF Request, HandlerStep, AddContact, SendMessage, MarkRead,
                  InsertContact, InsertMessage, TouchConversation, Announce,
                  Answer, MoveMarker, StampMessage, Fail, tokens
    <3>2. ASSUME NEW g \in scenario.chats, CreateConversation(g)
          PROVE  fcmToken' = fcmToken
      BY <3>2 DEF CreateConversation, tokens
    <3>3. ASSUME NEW e \in scenario.logins, Reregister(e) \/ LoginWithToken(e)
          PROVE  FALSE
      BY <3>3 DEF Reregister, LoginWithToken
    <3>4. ASSUME NEW p \in pushes, PushStep(p)
          PROVE  fcmToken' = fcmToken \/ RemoveTokens(p)
      BY <3>4 DEF PushStep, ReadTokens, Multicast, PushFails, tokens
    <3>5. CASE UNCHANGED vars
      BY <3>5 DEF vars
    <3>6. QED
      BY <3>1, <3>2, <3>3, <3>4, <3>5 DEF Next
  <2>4. QED
    BY <2>1, <2>2, <2>3
<1>2. QED
  BY <1>1, AlwaysIInv, PTL DEF Spec, CurrentTokenKept
=============================================================================
