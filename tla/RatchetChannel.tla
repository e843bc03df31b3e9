---------------------------- MODULE RatchetChannel ----------------------------
(***************************************************************************)
(* Two devices exchanging RatchetMessageCodec envelopes over a transport   *)
(* that may lose, duplicate, delay and reorder them without limit.         *)
(*                                                                         *)
(* The codec loads the persisted session, runs the ratchet on a copy, and  *)
(* stores the copy only when sealing is done or the AEAD has accepted the  *)
(* envelope.  A crash or an exception before the commit leaves the session *)
(* as it was, so each successful call is one step and a failing one none.  *)
(***************************************************************************)
EXTENDS DoubleRatchet

CONSTANT MaxSeals  \* bound on the messages each party seals

ASSUME SealsAssumption == MaxSeals \in Nat

VARIABLES
    session,  \* the persisted session of each party
    keygen,   \* how many ratchet key pairs each party has generated
    sealed,   \* every envelope ever sealed: all of them may be in transit
    opened    \* the envelopes each party has opened and committed

vars == <<session, keygen, sealed, opened>>

\* X25519Kex.generateKeyPair: a key pair nobody has drawn before.
Fresh(p) == <<p, keygen[p] + 1>>

SealedBy(p) == {e \in sealed : e.from = p}

Init ==
    /\ session = [p \in Party |-> InitSession(p, Peer(p), p = Initiator)]
    /\ keygen = [p \in Party |-> 0]
    /\ sealed = {}
    /\ opened = [p \in Party |-> {}]

\* keygen moves exactly when the committed session uses the fresh key.
Commit(p, s) ==
    /\ session' = [session EXCEPT ![p] = s]
    /\ keygen' = [keygen EXCEPT ![p] = IF s.our = Fresh(p) THEN @ + 1 ELSE @]

\* RatchetMessageCodec.encrypt.  The id stands for the AAD: conversation,
\* message id and sender.
Seal(p) ==
    /\ Cardinality(SealedBy(p)) < MaxSeals
    /\ Commit(p, AfterSend(session[p], Fresh(p)))
    /\ sealed' = sealed \cup
           {[ from   |-> p,
              id     |-> Cardinality(SealedBy(p)) + 1,
              header |-> SendHeader(session[p], Fresh(p)),
              key    |-> SendKey(session[p], Fresh(p)) ]}
    /\ UNCHANGED opened

\* RatchetMessageCodec.decrypt of an envelope the transport delivers, for the
\* first time or again.
Open(p, env) ==
    /\ env.from # p
    /\ Opens(session[p], env, Fresh(p))
    /\ Commit(p, AfterReceive(session[p], env.header, Fresh(p)))
    /\ opened' = [opened EXCEPT ![p] = @ \cup {env}]
    /\ UNCHANGED sealed

Next ==
    \E p \in Party :
        \/ Seal(p)
        \/ \E env \in sealed : Open(p, env)

Spec == Init /\ [][Next]_vars

-----------------------------------------------------------------------------
\* Types

Envelope == [from : Party, id : Nat, header : Header, key : Key]

\* The persisted sessions, counters and envelopes are well formed.
TypeOK ==
    /\ session \in [Party -> Session]
    /\ keygen \in [Party -> Nat]
    /\ sealed \subseteq Envelope
    /\ opened \in [Party -> SUBSET Envelope]

-----------------------------------------------------------------------------
\* Properties

\* No AES-GCM key, hence no derived nonce, ever seals two messages: not two
\* of one sender, across first sends and DH ratchets that reset sendCounter,
\* and not one of each side of the conversation.
KeySealsOneMessage ==
    \A e, f \in sealed : e.key = f.key => e = f

\* A message that was sealed and not yet opened stays readable whatever was
\* opened, skipped or ratcheted meanwhile, in any order, unless one of the
\* two skip limits of DoubleRatchet.decrypt is what refuses it.
DelayedStaysReadable ==
    \A p \in Party : \A e \in SealedBy(Peer(p)) \ opened[p] :
        \/ Opens(session[p], e, Fresh(p))
        \/ OverLimit(session[p], e.header, Fresh(p))

\* A delivered envelope never opens a second time: through the skipped
\* cache, on the current chain, or after later DH ratchets.
ReplayNeverOpens ==
    \A p \in Party : \A e \in opened[p] : ~Opens(session[p], e, Fresh(p))

\* Forward secrecy of the stored session: from the chain keys and the
\* skipped keys a device keeps, no key it has already used can be derived.
Derives(s, key) ==
    \/ \E c \in {s.sendChain, s.recvChain} :
           /\ c.root = key.dh.chain.root
           /\ c.half = key.dh.chain.half
           /\ c.step =< key.dh.chain.step
    \/ \E e \in s.skipped : e.key = key.dh

UsedKeysAreGone ==
    \A p \in Party : \A e \in SealedBy(p) \cup opened[p] :
        ~Derives(session[p], e.key)

\* The skipped-key cache of a stored session never exceeds its hard cap,
\* however the peer's counters jump.
SkippedBounded ==
    \A p \in Party : Cardinality(session[p].skipped) =< MaxSkippedTotal
=============================================================================
