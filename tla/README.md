# Chhaya: a verification project

Chhaya is a private messenger: a Flutter client (`lib/`) that encrypts with a
Double Ratchet and keeps everything in one encrypted SQLite database, and a
Node server (`backend/server/`) that stores accounts, ciphertexts and
conversation membership, and relays call messages over WebSockets. Two
prototypes (a Go node, a Rust relay) and two experimental transports (onion,
mesh) are in the repository and are not wired into the running application.

This directory holds TLA+ modules that model the parts whose behaviour depends
on order, failure and concurrency, TLC configurations that check them on small
instances, and TLAPS proofs for every value of their constants. `PROJECT.json`
lists components, runs, mutants, findings, hazards, theorems, and, under `map`,
the source lines each definition stands for. All paths below are relative to the
repository root.

## 1. Inventory

### Client

| Component | State | Operations | What is hard about it | Correct when |
|---|---|---|---|---|
| Ratchet (`lib/core/crypto/ratchet`) | root, two chain keys, counters, own and remote ratchet key, skipped keys | `initSession`, `encrypt`, `decrypt` with `_stageSkipped`, `_firstSendRatchet`, `_dhRatchet`; `TripleRatchet` mixes an epoch key into each message key | loss, reordering and replay across several DH ratchets; two limits on skipped keys | a key seals one message; a delayed message stays readable within the limits; a replay never opens; used keys cannot be derived again |
| Message codec (`ratchet_message_codec.dart`, `session_store.dart`) | one stored session per peer | `encrypt`, `decrypt`: load, run on a copy, commit with the caller's transaction | a crash between ratchet and commit; a session that is missing and started again | the session moves exactly when the message is committed |
| Messaging service (`messaging_service.dart`) | the queue `_serial`; rows, outbox and sessions in the database | `send`, `retryPending`, `_deliver`, `sync` | every operation spans several transactions and requests; the user deletes conversations between any two; late and lost answers | one server copy per message; "sent" means stored; a pending message can be retried; history is synchronized |
| Local database (`local_database.dart`) | messages, contacts, conversations, settings, kv | transactions `commitOutgoingMessage`, `commitReceivedMessage`, `commitMessageSent`; reads and writes of records; `clearAll`; migrations | read-modify-write of records and of one settings row by several screens and by `sync` | what belongs together is written together; no update is lost |
| Account service (`auth_service.dart`) and key store (`key_manager.dart`) | identity and path keys, phrase hash, master seed, session token, onboarding flag | `createAccount`, `restoreAccount`, `logout`, `generateBackup`, `restoreFromBackup`, `rotateIdentity` | key store and database are two systems; every write is awaited on its own, any can fail, operations overlap, and the process can die between any two | the database can always be opened; a profile has its secrets; an erased account is gone |
| API client (`api_service.dart`) | token, base URL | `connectAccount` (challenge, proof, register or login), requests with timeout, clearing the token on 401 | three calls of one exchange; answers to requests made with an older token | a client whose requests are answered ends up connected |
| Calls (`call_service.dart`, `call_screen.dart`, `home_shell.dart`) | socket, peer connection, call id, ring timer | `ensureConnected`, `call`, `accept`, `reject`, `end`, `_handle` | glare, signals that overtake each other or get lost, failures and hang-ups between any two awaits, a screen closed under a running `call()`, a hang-up while ringing | an ended call leaves nothing behind on its device; no ICE candidate is dropped; no call rings for ever |
| App lock and start-up (`main.dart`, `app_providers.dart`) | lock flag, polling timer, providers | lifecycle callbacks, five-second poll | callbacks between awaits | content is hidden while locked |
| Notifications (`notification_service.dart`) | FCM token, local notifications | register, show | token refresh against logout | a logged-out device is not addressed |
| Onion, mesh, file client (`lib/services/network`) | circuits, peers, chunks | experimental, off in the shipped configuration | - | - |
| UI (`lib/ui`) | view state | starts the operations above | - | - |

### Server

| Component | State | Operations | What is hard about it | Correct when |
|---|---|---|---|---|
| Authentication (`identity-proof.ts`, `session.ts`, `routes.ts`) | `identity_challenges`, `users`, `devices`, `auth_sessions` | issue and consume a challenge, register, login, link, logout, session lookup | every handler is a chain of awaited queries that interleave with other handlers; the process may exit between any two | a challenge admits once; an identity has one account; a session is for the proven key; a device stays with its account |
| Messages (`routes.ts`) | `messages`, `last_read_at`, `read_at` | `POST`, `GET`, read receipts | retried and late POSTs, paging, receipts that overtake each other | one row per id, the first content stays, announced once; what was read stays read |
| Contacts and conversations (`routes.ts`) | `contacts`, `conversations`, members | add contact, create conversation, list | two requests add the same contact at once, a failure between two inserts | a contact row comes with the one conversation inserted for it |
| Signaling (`signaling.ts`) | `clients`, `userClients`, heartbeat per socket, clean-up timer | join, pong, call messages, close | handlers of one socket overlap at each query; sockets die silently | both tables name the same seats; a call message reaches only its addressee; a dead or revoked client leaves the tables |
| Push (`push.ts`) | `devices.fcm_token`, `push_subscriptions` | register, send, remove refused tokens | registration fails in the middle of a login; tokens are cleared two awaits after they were read | a current token is not cleared |
| Node, relay (`backend/node`, `backend/relay`), `onion-relay.ts` | in-memory maps | prototypes, not started by `index.ts` | - | - |

### How they interact

A screen calls `MessagingService`. `send` runs inside `_serial`, asks the codec
for a sealed envelope, and the codec's commit callback writes message row,
session and retry envelope in one transaction; then `_deliver` posts the
envelope and `commitMessageSent` rewrites the row. The five-second timer of
`HomeShell` runs `sync`: it reads local rows, fetches pages of the server's
history until a stop rule holds, and applies them through the codec, whose
commit writes row and session together. `ApiService` obtains its token through
`/auth/challenge` and `/auth/register` or `/auth/login`; the same token opens the
WebSocket on which `CallService` joins and exchanges call messages, relayed by
`SignalingServer` after a membership query. Deleting a conversation and changing
contacts or settings go to the database directly, outside `_serial`.

## 2. Modules

| Module | Models | State and actions against the code |
|---|---|---|
| `DoubleRatchet` | `double_ratchet.dart`, `triple_ratchet.dart`, `spqr.dart` as operators on a session | A session is the record the Dart object serializes. `AfterSend` and `SendKey` are the two results of `encrypt`; `Accepts`, `ReceiveKey` and `AfterReceive` are when `decrypt` does not throw, what it returns and what it leaves. `Stage`, `DhRatchet` and `FirstSendRatchet` are the private methods of these names. `OverLimit` is when one of the two skip limits is what refuses a message. The two parties and the types of keys, headers and sessions are declared here, for all modules that compose sessions. |
| `RatchetChannel` | the codec on two devices over a transport that loses, duplicates and reorders without limit | `session` is the stored session, `sealed` all envelopes ever sealed: any may be delivered at any time, any number of times. `Seal` and `Open` are `encrypt` and `decrypt` with their commit; a call that fails before the commit changes nothing. |
| `RatchetRestore` | the same with `logout` and `restoreAccount` in between | `Restore` drops the session; the codec starts a new one from the same static secret. |
| `MessageLedger` | abstract: what direct messaging promises | composed messages, the server's list, what each device has received |
| `DirectMessaging` | `MessagingService`, its database transactions, `POST` and `GET /messages` | `op[p]` is the operation at the head of `_serial`, with the snapshot it holds between awaits; `saved`, `unsent`, `outbox`, `session` are the database; `requests` are POSTs the server may still process, `store` its table. One action per transaction, request or page: `Send`, `Retry`, `Transmit`, `Accept`, `Acknowledge`, `GiveUp`, `StartSync`, `FetchPage`, `ApplyNext`, `ApplyFails`, `EndSync`; the environment: `Interrupt` (crash, connection error, early timeout), `Lose`, `DeleteConversation`. |
| `IdentityAuth` | challenge, register, login, link, logout, session lookup, shutdown | one row of `request` per HTTP request with its position before the next awaited query; one action per query or transaction: `IssueChallenge`, `Consume`, `CheckNewIdentity`, `InsertAccount`, `FindAccount`, `LoginDevice`, `RegisterPush`, `IssueSession`, `Authenticate`, `LinkDevice`, `Logout`; `ExpireChallenge`, `ExpireSession` and `Shutdown` are the environment. |
| `AccountLifecycle` | `AuthService`, `KeyManager`, `LocalDatabase.init`, `close` and `clearAll`, start-up and the screens that start them | `vault` is the key store (pair, phrase, master seed), `file` the database with the key it was created under, `open`, `db`, `user` and `screen` what is in memory. `op[o]` is an operation at one of its awaits; operations in different slots overlap wherever the screens let the user start them, and `overtaken` remembers what a logout was started in the middle of. The user starts `Launch`, `CreateAccount`, `RestoreAccount`, `ConfirmPhrase`, `Unlock`, `Connect`, `Logout`, `PanicPin`, `CloseErased`; the operations go on with `Keep`, `SaveRow`, `SaveCurrent`, `ImportRecords` (create, restore, import), `ForgetToken`, `Claim`, `SaveAuth` (connect), `ForgetToken`, `Close`, `Remove`, `Erase` (logout), `Look`, `Derive`, `Draw`, `Open`, `Load` (opening the database, at start-up and at the end of a logout). `Fail` ends an operation at any await, `Crash` the process; `StartSync` and `FinishSync` are the poll of the home screen as far as it writes records. |
| `AccountConnect` | `ApiService.connectAccount` composed with `IdentityAuth` | `client` is where the call stands; the fields of its bodies are compared with those the server's schemas require. |
| `Signaling` | `signaling.ts` | `clients`, `userClients` are the two maps, `ticking` the interval of a socket, `tasks` the async handlers that wait for a query. `Message` is `handleMessage` up to its first await, `Check`, `Authenticate`, `Seat` and `Relay` what follows each query; `Heartbeat`, `CleanupStaleClients`, `Closed` the timers and the event. |
| `Conversations` | contacts, conversations, `POST /messages` with its broadcasts and pushes, read receipts, `push.ts` | `contacts`, `conversations` (with participants), `messages`, `lastRead`, `updated`, `fcmToken` are columns of the tables; `origin`, which is in no table, remembers the contact a conversation was inserted for. A message is its sender, conversation and content, which a repeated POST is compared in, and `extra`, the four columns it is not compared in. `handler[h]` is a request at the query it runs next; one action per statement or transaction: `AddContact`, `InsertContact`, `CreateConversation`, `SendMessage`, `InsertMessage`, `TouchConversation`, `Announce`, `Answer`, `MarkRead`, `MoveMarker`, `StampMessage`, and `Fail` at any of them. A push that `Announce` starts is not awaited: it goes on by itself with `ReadTokens`, `Multicast`, `RemoveTokens` or `PushFails`, while devices `Reregister` with FCM and log in (`LoginWithToken`). |
| `Calls` | two `CallService`s, `CallScreen` and the call dialog of `HomeShell`, over a relay that loses and reorders | The fields of `CallService` have their names. `ops[s]` are running `call()` and `accept()`, each at the await it waits for (`Claim`, `SetKey`, `Capture`, `CreatePc`, `TakeOffer`, `SendDescription`, or `Throw` by `Fail`, `NoStream` or `NoCall`, after which whoever started it runs `end()`, unless it is a `CallScreen` that is gone); `ending[s]` the running `end()`s, `BeginEnd` up to the awaits and `FinishEnd` after them; `handling[s]` the signal `_handle` waits with (`ReceiveOffer`, `ShowIncoming`, `ReceiveAnswer`, `TakeAnswer`, `ReceiveCandidate`, `ReceiveEnd`). The user acts with `Call`, `Accept`, `Decline`, `PressEnd`; `RingTimeout`, `Gather` and `Lose` are timer, WebRTC and relay. |
| `MCDirect`, `MCIdentityAuth`, `MCSignaling`, `MCAccountLifecycle`, `MCConversations`, `MCCalls` | instances for TLC | values and symmetry |
| `DoubleRatchet_proofs`, `RatchetChannel_proofs`, `DirectMessaging_proofs`, `IdentityAuth_proofs`, `Signaling_proofs`, `AccountLifecycle_proofs`, `Conversations_proofs`, `Calls_proofs` | lemmas and theorems | section 5 |

`DirectMessaging` uses the operators of `DoubleRatchet`, so its messages carry
real (symbolic) keys, and implements `MessageLedger` under the refinement mapping
at the end of the module: `listed` is the sequence of ids in `store`, `received`
the others' ids among the saved rows.

Abstractions that hold everywhere. Keys are symbolic: two keys are equal exactly
when the inputs of their derivation are, and an AEAD opens exactly under the key
that sealed. Proofs of possession are a Boolean the environment chooses; random
values (message ids, challenge ids, account ids, tokens, key pairs) are drawn
once. Wording, logging and formatting are left out. Operators whose comment
begins with "Mutation:" are alternatives no specification uses: each is what a
plausible mistake would have made of the definition next to it, and the project
records that the property named in `PROJECT.json` fails for it.

## 3. Runs

| Run | Asks | Result |
|---|---|---|
| `ratchet` | Over any delivery: does a key seal two messages, can a delayed message become unreadable below the limits, does a replay open, can a used key be derived again, is the cache bounded? | holds |
| `ratchet_restore` | Is a key still single-use after the account was restored? | violated: the new session starts from the same static secret, and seals its first messages under keys already used |
| `direct` | With crashes, lost answers, late requests and deletions: distinct keys on the wire, sent means stored, pending can be retried and is never refused, no key consumed without its message, and the ledger implemented? | holds |
| `direct_catchup` | One side writes more than a page while the other is away: is history synchronized, is a failed message sent in the end? | holds |
| `direct_deleted` | Can a deleted conversation sync again, as its dialog says? | violated: the session, whose consumed keys are gone, outlives the rows, and the sync stops with an exception |
| `direct_paging` | The receiver wrote one message of its own: is history synchronized? | violated: the own message is known, so paging stops at its page for ever |
| `identity_auth` | Interleaved registrations, logins, links, expiry, shutdown: single-use challenges, one account per identity, sessions of the proven key, devices that stay, no account without a device? | holds |
| `account_connect` | If every request is answered, does the client end up connected? | violated: `register` and `login` leave `challengeId` and `identityProof` out of the body, which the schemas require |
| `signaling` | Two devices, joins, closes, heartbeats, clean-ups and overlapping handlers: do the two maps agree, do call messages reach only members, is a closed or revoked client forgotten in the end? | holds |
| `account_lifecycle` | Two operations side by side, with failures and crashes at every await of create, restore, import, connect, logout and start-up: can the database always be opened again, has a profile its secrets, is "Data Erased" true when it is shown? | holds; the first two as long as no logout is started in the middle of another operation |
| `conversations` | Two handlers interleaved query by query and failing anywhere: one conversation inserted per contact, no answer for a message that is not stored, no message announced twice, nothing read that nobody read and nothing unread again, no current push token cleared? | holds |
| `calls` | Glare, a second call after a hang-up, a call that fails or is ended at any await, a user who waits for nothing: is the device released, does every candidate arrive, does the ringing end? | holds where all went orderly; the ringing ends in any case but one (section 4) |

The four violations are the entries under `findings`: the system disagrees with a
sentence of its documentation or its interface. The trace TLC prints is the
shortest one.

### Bounds, and why they are enough

* `ratchet`: five messages a side give several turns of DH ratchets with
  messages of an older chain in flight. The code's limits (1000 skipped keys a
  step, 2000 in all, an epoch every 10 messages) are 1, 2 and 2: each limit is
  reached without the other, the cap on all keys by three keys left over from two
  chains, and an epoch boundary lies inside a chain. The limits are only compared
  and subtracted, so their values matter nowhere else.
* `direct`: two messages from one side and one from the other, one fault, one
  deletion, a page of 3. A third message of one side adds no new relation between
  a retry, a late request and a deletion. `MaxSkip` is 4, beyond the number of
  messages, so that refusals come from the protocol and not from the limit.
* `direct_catchup`: four messages and pages of 2 (the code: 200) make two full
  pages and one more request; the cap on pages (the code: 50) is 3 and is not what
  ends the loop. `direct_paging` needs three messages of the peer and one own.
* `identity_auth`: two keys, two devices, three requests and three challenges: any
  pair of racing handlers and one that comes before or after. Keys, devices and
  requests are only compared for equality, so symmetry is sound for these safety
  properties.
* `signaling`: one device of each of two accounts that share a conversation,
  two handlers waiting at a time. Either socket may vanish or lose its session
  (`Frail`), one of them sends call messages (`Callers`); a second caller
  multiplies the states and changes the tables no further, since a signal only
  reads them.
  Ages of `lastPing` are 0, 1 and 2, for 0-30, 30-60 and over 60 seconds, which is
  all the code compares them with.
* `account_lifecycle`: two operations at a time (`Slot`),
  one identity and three seeds: one in the store, one a file was created under, one
  being drawn. Nothing is counted, so failures, crashes and operations are
  unlimited (1.3 million states). With one slot and two identities, one there and
  one that replaces it, the properties hold as well (13,678 states), and so they do
  with two slots and two identities before a logout overtakes anything (305,539
  states); the whole of that instance has more than ten million. Identities, seeds
  and slots are only compared for equality, so symmetry is sound for these
  invariants.
* `conversations`: two handlers at a time, three accounts, two message ids. A
  behaviour follows one of four scenarios, which the properties of the others do
  not touch: accounts that add each other, the same contact twice and groups of
  the same people (`Adding`, four conversations); one message id posted again
  with the same and with another content or as a reply, by two senders, to two
  conversations (`Repeating`); two messages and receipts for both by reader and sender
  (`Reading`); two messages pushed to an account with two devices, each
  registering anew once (`Pushing`).
* `calls`: two call ids. In `Glare` both sides call at once over a lossy relay, in
  `Again` one side calls, hangs up and calls again, in `Broken` either side ends
  one call or fails at any await, in `Hasty` the callee is offline and the caller
  calls, hangs up and calls again without waiting for anything. `patient` sides start
  or accept no call before the last `call()`, `accept()` and `end()` is through; the
  code does not make them wait. With nobody patient, two sides that call at once
  (1.35 million states, 2.9 million over a lossy relay) and `Again` (6.5 million)
  satisfy the invariants as well, and with one side patient calls at once satisfy
  `RingEnds` (0.8 million); they take too long to belong to the run.

Counters of messages, challenges, faults and deletions, and what the users of a
behaviour do, are the only bounds in guards (`MaxSeals`, `SendLimit`,
`MaxChallenges`, `MaxFaults`, `MaxDeletes`, `MaxTasks`, `Callers`, `Frail`,
`Handler`, `MaxToken`, `Slot`, and `Scenarios` of `Conversations` and `Calls`),
and each is named at its constant. `CHECK_DEADLOCK FALSE` is set in
every configuration because a system that has used up these budgets, or has
nothing to do, rightly stops.

### Fairness

* `DirectMessaging`: `HomeShell` polls every five seconds, and `_serial` is a
  FIFO chain of futures, so a queued sync starts in the end although other
  operations keep coming first: strong fairness of `StartSync`. `Retry` is the
  user's tap; its strong fairness says that this user keeps tapping, and
  `PendingIsSent` claims nothing for one who does not. The steps of a running
  operation are weakly fair: an awaited transaction or request returns or its
  timeout fires. Faults are finite.
* `Signaling`: timers fire, awaited queries return, a socket the server closed
  gets its `close` event. Nothing is assumed of the client: it need not answer,
  close or send.
* `AccountConnect`: the client and the handler of its request go on; nothing
  else can happen in that module.
* `Calls`: an awaited call of a device returns or throws, so `call()`, `accept()`
  and `end()` go on; the ring timer fires. Nothing is assumed of the users, the
  peer or the relay: every signal may be lost.
* `AccountLifecycle` and `Conversations` state safety only and assume none.

## 4. Properties worth a word

* `DelayedStaysReadable` excludes only what the two limits refuse. It is what
  the previous-chain length in the header, which is not reset by a first send,
  exists for.
* `UsedKeysAreGone` is forward secrecy of the stored session, including keys a
  skipped entry might keep.
* `PendingCanBeRetried` relates two tables that are written by four different
  operations, one of which (`sync`) writes rows back from an old snapshot.
* `NoKeyConsumedInVain` says that what is on the server and not among the rows
  still opens. Only deleting a conversation breaks it, and that is `direct_deleted`.
* `ClosedIsForgotten` and `RevokedIsDropped` are about a join that finishes after
  its socket is gone: it seats a dead client, and the clean-up has to take it away.
* `DatabaseOpens` is why the order of two systems' writes matters: a seed stored
  after the file is created, or deleted before it is removed, would lose the
  database to a crash in between, and "Try again" would fail for ever.
  Log Out can be tapped again while a logout runs, since its dialog closes first. The
  second logout then deletes the seed of the database the first has just created
  (TLC finds it when `overtaken` is dropped from the property), although
  `key_manager.dart:216` wants the secrets cleared only after the database is
  removed. `DatabaseOpens` therefore excepts logouts that ran into each other, and
  `AccountIsUsable` accounts in whose making a logout was started; all other
  operations may overlap.
* `ErasedMeansErased` is claimed where the interface says it, on the lock screen. A
  logout from the settings may run while a sync waits for its answer, whose records
  are then written to the new database; that is listed as a hazard.
* `OneConversationPerContact` is about the conversations `POST /contacts` inserts, in
  one direction: the UNIQUE constraint on contacts and the transaction around it.
  It does not say that a pair has one conversation. When two accounts add *each
  other*, nobody looks at the other direction, and `POST /conversations` inserts
  direct ones of its own; in the tables nothing tells these apart. `Adding` has all
  of them in its states.
* `OkMeansStored` says what an answer of `POST /messages` is worth. A 200 compares
  sender, conversation and content only, so it says nothing about type, media and
  reply of the stored message; after a 201 they are those of the request.
* `AnnouncedOnce` is at most once. A handler that dies between the INSERT and its
  broadcasts leaves a message nobody is told of, since the repeated POST is
  answered from the stored row; the recipients find it when they poll.
* `NeverUnreadAgain` is the GREATEST of the marker. `Unread` counts one's own
  messages too, as `GET /conversations` does.
* `CurrentTokenKept` holds because the tokens are cleared by value. Logging out
  clears none, so the device of a logged-out account is still addressed.
* `EndedIsReleased` covers every way a call ends: hang-up on either side, timeout,
  failure, a signal in the middle of any of them. It looks at devices at rest on
  which all went `Orderly`. Two things are not: an operation started before another
  was through (an `end()` that resumes after the next call has set its fields
  clears them, or the next call's stream takes the place of one whose tracks still
  run), and a `call()` that throws when its `CallScreen` is gone. End or the back
  gesture during `getUserMedia` finds no stream to stop; `call()` goes on, opens the
  microphone, and throws in `_send` because its call is gone; the catch reads `ref`
  of a disposed screen (`call_screen.dart:26`) and throws itself, so nobody calls
  `end()` and the microphone runs until a later call is ended. With `Orderly` dropped
  from the property TLC finds the first in `Hasty` (and `CandidateKept` violated when
  two hasty users call each other) and the second in `Again`, after eight steps of a
  patient user, with no failure and no lost signal.
* `CandidateKept` relates the fields of both devices and the signals between them:
  a candidate waits at the sender until the peer has answered, and at the
  receiver until the remote description is set.
* `RingEnds` is about the caller, whether orderly or not. Closing the screen during
  `ensureConnected` and then refusing the microphone leaves the call claimed without
  a timer; such a call is in `abandoned`, and excepted. A callee who accepts after the
  caller hung up has no timer: the `call-end` came while the dialog was up and was
  ignored, so only the user's hang-up ends that call.

## 5. Proofs

All theorems are about the specifications the runs check, for every value of the
constants under the named assumptions of the modules (`LimitsAssumption`,
`PartiesAssumption`, `SealsAssumption`, `DirectAssumption`, `AuthAssumption`,
`SignalingAssumption`, `LifecycleAssumption`, `ConversationsAssumption`,
`CallsAssumption`); where a theorem needs more of the constants, it says so. Every
invariant that a passing run checks is proved.

* `DoubleRatchet_proofs` holds what the other two modules about messages need of
  the ratchet's operators, for one session and for two. For one: `SendSound` says
  that the sending chain was cut from the current root and that every key a side has
  sealed with is from a shorter root, or earlier on this chain; the roots sending
  chains are cut from have an even number of DH outputs on the initiator's side and
  an odd one on the responder's, so the two sides never share a key.
  `ReceiveSound` is the counterpart for the keys a side has opened: each is from a
  root it has left or before its place on the receiving chain, and not among the
  skipped. `CacheBounded` is the cap of the cache. Every send and every accepted
  receive keeps them; that a fresh key pair was never drawn before is not even
  needed. For two: `InStep` says that one side is at most one DH ratchet ahead of
  the other (`Ahead`), that a ratchet key and a counter name one message, and that
  every message a session has passed is opened or skipped, under the key it was
  sealed with. `Counted` says that the skipped keys and the messages still awaited
  are together no more than the peer has sealed.
* `RatchetChannel_proofs`: `TypeCorrect`, `NoKeyReuse` (`KeySealsOneMessage`),
  `NoReplay` (`ReplayNeverOpens`), `ForwardSecrecy` (`UsedKeysAreGone`),
  `CacheWithinCap` (`SkippedBounded`), `NoMessageLost` (`DelayedStaysReadable`). None
  is inductive: nothing in them says where keys come from. `IInv` joins the three
  predicates of one session for both sides and gives the first five; `SyncInv` adds
  `InStep`, from which an unopened message is either cached with its key, on the
  chain the recipient receives on, or on the next one, and opens in each case.
* `DirectMessaging_proofs`: `TypeCorrect`, `SentIsStored` (`SentMeansStored`),
  `RetryIsPossible` (`PendingCanBeRetried`), `NoKeyTwice` (`WireKeysDistinct`),
  `NothingLostInSync` and `NothingLostWithinLimits` (`NoKeyConsumedInVain`),
  `ImplementsLedger` (`LedgerSpec`). `IInv` says what rows, outbox, requests and
  table mean for each other: an id names one envelope for good and is within its
  author's count (`WireInv`), an own row is unsent with its envelope in the outbox or
  stored (`RowsOK`), and so is what the running operation still has to do, be it the
  snapshot of a sync or the rest of a retry (`OpOK`). `HasOldest`, that a set of one
  side's envelopes has an oldest one, is kept along the behaviour, one message at a
  time, because induction over a set is not available. `KeysInv` adds `SendSound`
  over all envelopes that exist outside a device; `SyncInv` adds `ReceiveSound`,
  `InStep` and `Counted` between what is on the wire and what is among the rows, as
  long as no conversation is deleted (afterwards a consumed key has no row, and
  `direct_deleted` shows what follows). `NothingLostInSync` supposes that nobody composes more
  messages than `maxSkip` and `maxSkippedTotal` (the run has 2 and 1 against 4);
  `NothingLostWithinLimits` is about conversations of any length and excepts the
  messages that a limit refuses. The refinement goes action by action: `Send`
  composes, `Accept` lists, `ApplyNext` receives, `DeleteConversation` forgets, all others stutter.
* `IdentityAuth_proofs`: `TypeCorrect`, `OneAccount`, `SingleUse`,
  `ProvenSessions`, `HasDevice`, `DevicesStay`. Inductive invariant `IInv`:
  challenge ids were drawn (`IdsDrawn`), a request that holds a challenge is the
  only one and the row is gone, a request keeps the claim it proved
  (`ClaimKept`), a request that reached the insert has compared id and key
  (`InsertCompared`), one that is past its account query points at the account of its key
  (`AccountOfProvenKey`), accounts are unique per identity and have a device.
  `DevicesStay` is the action property, from the upsert's WHERE clause and the
  primary key that guards the registration.
* `Signaling_proofs`: `TypeCorrect`, `Agreement` (`TablesAgree`), `MembersOnly`
  (`RelayedToMembersOnly`). Needed besides: a seated client is seated under the
  account of its socket (`SeatedAsOwner`), and a waiting relay has an addressee
  (`SignalsAreAddressed`).
* `AccountLifecycle_proofs`: `TypeCorrect`, `DatabaseAlwaysOpens`
  (`DatabaseOpens`), `ProfileHasSecrets` (`AccountIsUsable`), `ErasedIsTrue`
  (`ErasedMeansErased`), for any number of operations side by side and with no
  assumption on them. The invariants say nothing of an operation half done. `IInv`
  adds, for each operation under way, which kind can be at which position
  (`Placed`), that the seed is deleted without a file, drawn without a seed, and is
  the key a file is opened with (`SeedAt`), what has been stored (`StoredAt`) and
  removed so far (`PanicAt`), and the screens it runs on (`ScreenOf`). `Apart` says
  which operations run beside each other: start-up and the panic logout are always
  alone, which is why `ErasedMeansErased` needs no condition; two logouts, or a
  logout and the making of an account, are beside each other only once `overtaken`
  says so, and then `SeedAt` or `StoredAt` claims nothing. `SyncInv` keeps syncs
  away from the lock screen. `AfterMove`, `AfterDone` and `AfterBegin` reduce a
  step to the state, the operation that moved and what is `Beside` it; each action
  has a lemma that shows these three.
* `Conversations_proofs`: `TypeCorrect`, `OneConversation`
  (`OneConversationPerContact`: what `POST /contacts` inserts), `AnsweredIsStored` (`OkMeansStored`), `ToldOnce`
  (`AnnouncedOnce`), `ReadMeansRead` (`ReceiptHasMarker`), and two action
  properties, `StaysRead` (`NeverUnreadAgain`) and `TokenStays`
  (`CurrentTokenKept`). None of the five invariants says what a handler between two
  queries relies on. `IInv` adds that (`Sound`: a handler past its membership query
  is a member's, one about to announce has moved the conversation up and nobody has
  been told, one about to stamp has moved the reader's marker), that at most one
  handler goes on with a message (`OneInserter`), that messages are a member's and
  not from the future (`SentByMember`), and that a token a push is about to clear
  is older than its device's (`TokensSound`). The argument for the interleaving is
  rely and guarantee: every step lets rows and markers grow only (`Grows`), and
  under `Grows` each part stays true of whoever did not move (`SoundKept` and the
  other `Kept` lemmas). Each action then only has to establish its own part.

* `Calls_proofs`: `TypeCorrect`, `EndedReleases` (`EndedIsReleased`) and
  `CandidatesKept` (`CandidateKept`), for any number of operations at once; that a
  device went orderly is a condition inside the two properties, not an assumption.
  The types need `AcceptsShown`, since `accept()` changes the screen it runs under
  (`TInv`). `DeviceOK` says for each orderly device that one operation runs at a
  time, what the fields hold at each await (`AtAwait`), an `end()` having possibly
  reset them meanwhile, how they fit together (`FieldsFit`), what a running `end()`
  will still close (`EndsFit`) and that a device at rest is released (`Rests`); a
  device that is orderly after a step was so before (`OrderlyBefore`). This is
  `DInv`. For candidates it does not suffice to look at one device: a call is at one
  place on its way from `call()` to the dialog (`OnePlace`), and a device that the
  peer has heard of in a call has entered that call for good (`HeardEntered`), so a
  candidate cannot come before its call. Every step only moves calls on
  (`Follows`), and whatever does not move a call keeps all of this. `CInv` is
  `DInv` with these, as long as both devices are orderly.

Only model-checked: liveness (`HistoryIsSynchronized`, `PendingIsSent`,
`ClosedIsForgotten`, `RevokedIsDropped`, `RingEnds`), which needs ENABLED; and,
being violations, the properties of the runs that expect one. Induction over data
is not used anywhere.

## 6. What is not modelled, and what comes next

In the order planned:

1. `LocalRecords`: contacts, settings and conversations as `sync` and the screens
   write them. Hazard: a record read before a request and written after it.
2. `ClientSession`: the token of `ApiService`, its requests in flight and the 401
   that clears the token, against `sessions` of `IdentityAuth`.
3. `Migrations`: versions applied one at a time, a crash in between.
4. Onion, mesh, node and relay: only as far as their code keeps state.

Of calls, what is left out: `ensureConnected` and its join (the relay drops what
comes from an unseated device, so a call before the join is through is one whose
signals are lost), mute and video toggles, and the connection state, which is
only shown. Of push, `sendCallNotification`, `removeFCMToken` and
`unsubscribeFromPush` have no caller; `POST /push/subscribe` always fails, since
`push_subscriptions` has no unique endpoint for its ON CONFLICT.

Of signaling, a second `join` on one socket is left out: `handleJoin` would accept it,
with any account's token, but the shipped client sends one, right after it opens
the socket (`call_service.dart:65`), and `SeatedAsOwner` is true of it only.

Of the account, three things are left out. That key pair, phrase and profile belong to the
*same* identity is not claimed: a restore replaces one after the other, and
`docs/threat-model.md:21` says that it is not atomic. `rotateIdentity` has no
caller. The lock screen's PIN and the backup's encryption are a choice of the
environment.

Proofs still worth doing: the invariants of the modules above.

Left out for good: cryptographic primitives (assumed ideal), the post-quantum
placeholders, generated platform code, the load-test scripts, and layout and
theming of the UI.
