---------------------------- MODULE MCConversations ----------------------------
(* A small instance of Conversations for TLC. *)
EXTENDS Conversations, TLC

CONSTANTS alice, bob, carol, phone, tablet, m1, m2, x, y, plain, reply

\* bob has two devices.
DevicesOfBob == phone :> bob @@ tablet :> bob

Post(u, m, z, e) == [user |-> u, message |-> m, content |-> z, extra |-> e]
Pair == Chat("direct", alice, {alice, bob})
Trio == Chat("group", carol, {alice, bob, carol})

Nothing ==
    [ adds |-> {}, chats |-> {}, posts |-> {}, readers |-> {}, logins |-> {},
      room |-> 1 ]

\* Accounts add each other, twice at once, while conversations of the same
\* come up.
Adding ==
    [ Nothing EXCEPT
          !.adds = {<<alice, bob>>, <<bob, alice>>, <<alice, carol>>},
          !.chats = {Pair, Trio},
          !.room = 4 ]

\* One id is sent repeatedly, with two contents, as a reply and not, by two
\* senders, to two conversations.
Repeating ==
    [ Nothing EXCEPT
          !.adds = {<<alice, bob>>},
          !.chats = {Trio},
          !.posts = { Post(alice, m1, x, plain), Post(alice, m1, y, plain),
                     Post(alice, m1, x, reply), Post(bob, m1, x, plain) },
          !.room = 2 ]

\* Receipts for two messages, by the sender too.
Reading ==
    [ Nothing EXCEPT
          !.chats = {Trio},
          !.posts = {Post(alice, m1, x, plain), Post(alice, m2, x, plain)},
          !.readers = {alice, bob} ]

\* Messages meet devices that register anew.
Pushing ==
    [ Nothing EXCEPT
          !.chats = {Pair},
          !.posts = {Post(alice, m1, x, plain), Post(alice, m2, x, plain)},
          !.logins = {phone, tablet} ]

SomeScenarios == {Adding, Repeating, Reading, Pushing}

\* Ids of conversations and handlers are only compared for equality.
Symmetry == Permutations(Conversation) \cup Permutations(Handler)
=============================================================================
