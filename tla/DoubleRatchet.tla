---------------------------- MODULE DoubleRatchet ----------------------------
(***************************************************************************)
(* The Double Ratchet of lib/core/crypto/ratchet, with the SPQR epoch that *)
(* TripleRatchet mixes into every message key, as operators on a session.  *)
(*                                                                         *)
(* Keys are symbolic.  A public key is a pair <<owner, n>>; n = 0 is the   *)
(* identity key the codec starts a session with.  DH of two keys is the    *)
(* set of the two; a root key is the sequence of DH outputs mixed into the *)
(* session secret so far; a chain key is the root it was cut from, the     *)
(* half of the HKDF output it was, and the number of steps taken on it.    *)
(* Two symbolic keys are equal exactly when the HKDF inputs are.           *)
(***************************************************************************)
EXTENDS Integers, Sequences, FiniteSets

CONSTANTS
    Initiator,        \* the party whose id compares lower (codec _state)
    Responder,
    MaxSkip,          \* DoubleRatchet.maxSkip
    MaxSkippedTotal,  \* DoubleRatchet.maxSkippedTotal
    AdvanceEvery      \* SpqrChain.advanceEvery

ASSUME PartiesAssumption == Initiator # Responder
ASSUME LimitsAssumption ==
    /\ MaxSkip \in Nat
    /\ MaxSkippedTotal \in Nat
    /\ AdvanceEvery \in Nat \ {0}

Party == {Initiator, Responder}
Peer(p) == IF p = Initiator THEN Responder ELSE Initiator

-----------------------------------------------------------------------------
\* Key material

DH(a, b) == {a, b}

ChainKey(root, half) == [root |-> root, half |-> half, step |-> 0]

\* One HKDF call yields the new root and the new chain key together.
KdfRoot(root, dh) == Append(root, dh)
KdfChain(root, dh) == ChainKey(Append(root, dh), "kdf")

\* MessageKeys.derive: the chain key reached after n more derivations.
ChainAfter(chain, n) == [chain EXCEPT !.step = @ + n]

\* MessageKeys.derive: the bundle the chain key yields for a counter.
MessageKey(chain, counter) == [chain |-> chain, num |-> counter]

\* TripleRatchet._combine: the key that finally seals the message.
Combine(key, epoch) == [dh |-> key, epoch |-> epoch]

-----------------------------------------------------------------------------
\* Sessions

\* DoubleRatchet.initSession, called by the codec with both identity keys.
\* The responder's sending chain is dead until its first send.
InitSession(own, peer, initiator) ==
    [ root        |-> <<>>,
      sendInit    |-> initiator,
      sendChain   |-> ChainKey(<<>>, IF initiator THEN "A" ELSE "dead"),
      sendCounter |-> 0,
      prevSend    |-> 0,
      recvChain   |-> ChainKey(<<>>, IF initiator THEN "B" ELSE "A"),
      recvCounter |-> 0,
      our         |-> <<own, 0>>,
      remote      |-> <<peer, 0>>,
      skipped     |-> {} ]

\* Mutation: the previous length taken as the last index instead of the count.
FirstSendOffByOne(s, fresh) ==
    LET dh == DH(fresh, s.remote) IN
    [s EXCEPT !.our = fresh, !.root = KdfRoot(s.root, dh),
              !.sendChain = KdfChain(s.root, dh),
              !.prevSend = s.sendCounter - 1, !.sendInit = TRUE]

\* _firstSendRatchet: the counter is not reset, it becomes the length of
\* the previous chain.
FirstSendRatchet(s, fresh) ==
    LET dh == DH(fresh, s.remote) IN
    [s EXCEPT !.our = fresh,
              !.root = KdfRoot(s.root, dh),
              !.sendChain = KdfChain(s.root, dh),
              !.prevSend = s.sendCounter,
              !.sendInit = TRUE]

\* The session encrypt() derives its key from.
ReadyToSend(s, fresh) == IF s.sendInit THEN s ELSE FirstSendRatchet(s, fresh)

\* TripleRatchet.encrypt over DoubleRatchet.encrypt: the header and the key
\* of the next message, and the session afterwards.
SendHeader(s, fresh) ==
    LET t == ReadyToSend(s, fresh) IN
    [ dh    |-> t.our,
      prev  |-> t.prevSend,
      num   |-> t.sendCounter,
      epoch |-> t.sendCounter \div AdvanceEvery ]

SendKey(s, fresh) ==
    LET t == ReadyToSend(s, fresh) IN
    Combine(MessageKey(t.sendChain, t.sendCounter),
            t.sendCounter \div AdvanceEvery)

\* Mutation: the session is saved as it was before the chain advanced.
AfterSendNotAdvanced(s, fresh) == ReadyToSend(s, fresh)

AfterSend(s, fresh) ==
    LET t == ReadyToSend(s, fresh) IN
    [t EXCEPT !.sendChain = ChainAfter(@, 1), !.sendCounter = @ + 1]

-----------------------------------------------------------------------------
\* Receiving

\* The keys _stageSkipped files, under the current remote key, for the
\* receiving counters from the current one up to but not including upto.
Skip(s, upto) ==
    { [ dh  |-> s.remote,
        num |-> n,
        key |-> MessageKey(ChainAfter(s.recvChain, n - s.recvCounter), n) ] :
      n \in s.recvCounter .. (upto - 1) }

\* Mutation: only the step limit is checked.
CanStageStepOnly(s, upto) ==
    upto > s.recvCounter => upto - s.recvCounter =< MaxSkip

\* Neither the step limit nor the cache limit stops staging up to upto.
CanStage(s, upto) ==
    upto > s.recvCounter =>
        /\ upto - s.recvCounter =< MaxSkip
        /\ Cardinality(s.skipped) + (upto - s.recvCounter) =< MaxSkippedTotal

Stage(s, upto) ==
    IF upto =< s.recvCounter THEN s
    ELSE [s EXCEPT !.skipped = @ \cup Skip(s, upto),
                   !.recvChain = ChainAfter(@, upto - s.recvCounter),
                   !.recvCounter = upto]

\* _dhRatchet after staging: reseed the receiving chain from the peer's new
\* key, rotate our key pair, reseed the sending chain.
DhRatchet(s, remote, fresh) ==
    LET dhOut  == DH(s.our, remote)
        root   == KdfRoot(s.root, dhOut)
        dhOut2 == DH(fresh, remote)
    IN  [s EXCEPT !.recvChain = KdfChain(s.root, dhOut),
                  !.remote = remote,
                  !.recvCounter = 0,
                  !.our = fresh,
                  !.root = KdfRoot(root, dhOut2),
                  !.sendChain = KdfChain(root, dhOut2),
                  !.prevSend = s.sendCounter,
                  !.sendCounter = 0]

\* The cached key for a header, as a set with at most one element.
Cached(s, h) == {e \in s.skipped : e.dh = h.dh /\ e.num = h.num}

\* Mutation: the rest of the old chain is not staged before the ratchet.
OnChainUnstaged(s, h, fresh) ==
    IF h.dh = s.remote THEN s ELSE DhRatchet(s, h.dh, fresh)

\* The session against which the duplicate and gap guards are evaluated.
OnChain(s, h, fresh) ==
    IF h.dh = s.remote THEN s ELSE DhRatchet(Stage(s, h.prev), h.dh, fresh)

\* decrypt() returns a key, and does not throw, for this header.
Accepts(s, h, fresh) ==
    \/ Cached(s, h) # {}
    \/ /\ h.dh # s.remote => CanStage(s, h.prev)
       /\ h.num >= OnChain(s, h, fresh).recvCounter
       /\ CanStage(OnChain(s, h, fresh), h.num)

\* The key decrypt() returns, combined with the epoch of the header.
ReceiveKey(s, h, fresh) ==
    Combine(
        IF Cached(s, h) # {}
        THEN (CHOOSE e \in Cached(s, h) : TRUE).key
        ELSE MessageKey(Stage(OnChain(s, h, fresh), h.num).recvChain, h.num),
        h.epoch)

\* Mutation: a cached key is looked up but not removed.
AfterReceiveKeepsCached(s, h, fresh) ==
    IF Cached(s, h) # {}
    THEN s
    ELSE [Stage(OnChain(s, h, fresh), h.num) EXCEPT
             !.recvChain = ChainAfter(@, 1), !.recvCounter = @ + 1]

\* Mutation: the counter moves on but the old chain key stays in place.
AfterReceiveKeepsChain(s, h, fresh) ==
    IF Cached(s, h) # {}
    THEN [s EXCEPT !.skipped = @ \ Cached(s, h)]
    ELSE [Stage(OnChain(s, h, fresh), h.num) EXCEPT !.recvCounter = @ + 1]

\* The session after decrypt() returned.
AfterReceive(s, h, fresh) ==
    IF Cached(s, h) # {}
    THEN [s EXCEPT !.skipped = @ \ Cached(s, h)]
    ELSE [Stage(OnChain(s, h, fresh), h.num) EXCEPT
             !.recvChain = ChainAfter(@, 1), !.recvCounter = @ + 1]

\* RatchetMessageCodec.decrypt gets past the AEAD: decrypt() returned the
\* key the envelope was sealed with.
Opens(s, env, fresh) ==
    /\ Accepts(s, env.header, fresh)
    /\ ReceiveKey(s, env.header, fresh) = env.key

\* What may make Accepts false for a message not yet opened: one of the two
\* skip limits of DoubleRatchet.decrypt.
OverLimit(s, h, fresh) ==
    /\ Cached(s, h) = {}
    /\ \/ h.dh # s.remote /\ ~CanStage(s, h.prev)
       \/ ~CanStage(OnChain(s, h, fresh), h.num)

-----------------------------------------------------------------------------
\* Types

Halves == {"A", "B", "dead", "kdf"}
PublicKey == Party \X Nat
RootKey == Seq(SUBSET PublicKey)
Chain == [root : RootKey, half : Halves, step : Nat]
DhKey == [chain : Chain, num : Nat]
Key == [dh : DhKey, epoch : Nat]
Header == [dh : PublicKey, prev : Nat, num : Nat, epoch : Nat]
Skipped == [dh : PublicKey, num : Nat, key : DhKey]
Session ==
    [ root : RootKey, sendInit : BOOLEAN, sendChain : Chain,
      sendCounter : Nat, prevSend : Nat, recvChain : Chain,
      recvCounter : Nat, our : PublicKey, remote : PublicKey,
      skipped : SUBSET Skipped ]

=============================================================================
