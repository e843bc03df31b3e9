------------------------ MODULE RatchetChannel_proofs ------------------------
(***************************************************************************)
(* TLAPS proofs about RatchetChannel, for every skip limit, epoch length   *)
(* and number of messages.  The first invariant is about the keys of each  *)
(* side: types, no key seals twice, no envelope opens twice, no used key   *)
(* stays derivable, the skipped cache stays within its cap.  The second is *)
(* about the two sides together: one is at most one DH ratchet ahead of    *)
(* the other, so what is still under way stays readable.                   *)
(***************************************************************************)
EXTENDS RatchetChannel, DoubleRatchet_proofs

SealedKeys(p) == {e.key.dh : e \in SealedBy(p)}
OpenedKeys(p) == {e.key.dh : e \in opened[p]}

KeysSound(p) ==
    /\ SendSound(p, session[p], SealedKeys(p))
    /\ ReceiveSound(p, session[p], OpenedKeys(p))
    /\ CacheBounded(session[p])

IInv ==
    /\ TypeOK
    /\ IsFiniteSet(sealed)
    /\ \A p \in Party : KeysSound(p)
    /\ KeySealsOneMessage

-----------------------------------------------------------------------------
\* The inductive invariant of the keys

LEMMA FreshType ==
    ASSUME TypeOK, NEW p \in Party
    PROVE  /\ Fresh(p) \in PublicKey
           /\ session[p] \in Session
           /\ SealedKeys(p) \in SUBSET DhKey
           /\ OpenedKeys(p) \in SUBSET DhKey
<1>1. Fresh(p) \in PublicKey /\ session[p] \in Session
  BY DEF TypeOK, Fresh, PublicKey
<1>2. \A e \in Envelope : e.key.dh \in DhKey
  BY DEF Envelope, Key
<1>3. SealedBy(p) \subseteq Envelope /\ opened[p] \subseteq Envelope
  BY DEF TypeOK, SealedBy
<1>4. QED
  BY <1>1, <1>2, <1>3 DEF SealedKeys, OpenedKeys

LEMMA CommitType ==
    ASSUME TypeOK, NEW p \in Party, NEW s \in Session, Commit(p, s)
    PROVE  /\ session' \in [Party -> Session]
           /\ keygen' \in [Party -> Nat]
           /\ session'[p] = s
           /\ \A q \in Party : q # p => session'[q] = session[q]
BY DEF TypeOK, Commit

LEMMA InitInv == Init => IInv
<1> SUFFICES ASSUME Init PROVE IInv
  OBVIOUS
<1>1. ASSUME NEW p \in Party
      PROVE  /\ session[p] \in Session
             /\ SendSound(p, session[p], {})
             /\ ReceiveSound(p, session[p], {})
             /\ session[p].skipped = {}
  BY InitSound DEF Init
<1>2. TypeOK
  BY <1>1 DEF Init, TypeOK
<1>3. IsFiniteSet(sealed) /\ KeySealsOneMessage
  BY FS_EmptySet DEF Init, KeySealsOneMessage
<1>4. ASSUME NEW p \in Party
      PROVE  KeysSound(p)
  <2>1. SealedKeys(p) = {} /\ OpenedKeys(p) = {}
    BY DEF Init, SealedKeys, SealedBy, OpenedKeys
  <2>2. CacheBounded(session[p])
    <3>1. session[p].skipped = {}
      BY <1>1
    <3>2. IsFiniteSet({}) /\ Cardinality({}) = 0
      BY FS_EmptySet
    <3>3. QED
      BY <3>1, <3>2, LimitsAssumption DEF CacheBounded
  <2>3. QED
    BY <1>1, <2>1, <2>2 DEF KeysSound
<1>5. QED
  BY <1>2, <1>3, <1>4 DEF IInv

LEMMA SealInv ==
    ASSUME IInv, NEW p \in Party, Seal(p)
    PROVE  IInv'
<1> DEFINE s == session[p]
           t == AfterSend(s, Fresh(p))
           env == [ from   |-> p,
                    id     |-> Cardinality(SealedBy(p)) + 1,
                    header |-> SendHeader(s, Fresh(p)),
                    key    |-> SendKey(s, Fresh(p)) ]
<1>1. /\ s \in Session
      /\ Fresh(p) \in PublicKey
      /\ SealedKeys(p) \in SUBSET DhKey
      /\ OpenedKeys(p) \in SUBSET DhKey
      /\ TypeOK
  BY FreshType DEF IInv
<1>2. Commit(p, t) /\ sealed' = sealed \cup {env} /\ UNCHANGED opened
  BY DEF Seal
<1>3. /\ t \in Session
      /\ SendHeader(s, Fresh(p)) \in Header
      /\ SendKey(s, Fresh(p)) \in Key
  BY <1>1, SendType
<1>4. /\ session' \in [Party -> Session]
      /\ keygen' \in [Party -> Nat]
      /\ session'[p] = t
      /\ \A q \in Party : q # p => session'[q] = session[q]
  <2> HIDE DEF t
  <2>1. QED
    BY <1>1, <1>2, <1>3, CommitType
<1>5. KeysSound(p)
  BY DEF IInv
<1>6. /\ env.key.dh \notin SealedKeys(p)
      /\ SendSound(p, t, SealedKeys(p) \cup {env.key.dh})
  BY <1>1, <1>5, SendKeepsSendSound DEF KeysSound
<1>7. ReceiveSound(p, t, OpenedKeys(p)) /\ CacheBounded(t)
  BY <1>1, <1>5, SendKeepsReceiveSound, SendBounded DEF KeysSound
<1>8. IsFiniteSet(sealed')
  BY <1>2, FS_AddElement DEF IInv
<1>9. env \in Envelope /\ env.from = p
  <2>1. IsFiniteSet(SealedBy(p))
    BY FS_Subset DEF IInv, SealedBy
  <2>2. Cardinality(SealedBy(p)) \in Nat
    BY <2>1, FS_CardinalityType
  <2>3. QED
    BY <1>3, <2>2 DEF Envelope
<1> HIDE DEF s, t, env
<1>10. TypeOK'
  BY <1>1, <1>2, <1>4, <1>9 DEF TypeOK
<1>11. \A q \in Party : SealedBy(q)' =
           IF q = p THEN SealedBy(q) \cup {env} ELSE SealedBy(q)
  BY <1>2, <1>9 DEF SealedBy
<1>12. \A q \in Party :
           /\ SealedKeys(q)' = IF q = p THEN SealedKeys(q) \cup {env.key.dh}
                               ELSE SealedKeys(q)
           /\ OpenedKeys(q)' = OpenedKeys(q)
  BY <1>2, <1>11 DEF SealedKeys, OpenedKeys
<1>13. ASSUME NEW q \in Party
       PROVE  KeysSound(q)'
  <2>1. CASE q = p
    BY <2>1, <1>4, <1>6, <1>7, <1>12 DEF KeysSound
  <2>2. CASE q # p
    <3>1. KeysSound(q)
      BY DEF IInv
    <3>2. QED
      BY <2>2, <3>1, <1>4, <1>12 DEF KeysSound
  <2>3. QED
    BY <2>1, <2>2
<1>14. ASSUME NEW e \in sealed
       PROVE  e.key # env.key
  <2>1. e \in Envelope /\ e.from \in Party /\ e \in SealedBy(e.from)
    BY <1>1 DEF TypeOK, Envelope, SealedBy
  <2>2. CASE e.from = p
    BY <2>1, <2>2, <1>6 DEF SealedKeys
  <2>3. CASE e.from # p
    <3>1. e.from = Peer(p)
      BY <2>1, <2>3 DEF Party, Peer
    <3>2. SentChain(Peer(p), e.key.dh.chain)
      <4>1. e.key.dh \in SealedKeys(Peer(p)) /\ KeysSound(Peer(p))
        BY <2>1, <3>1 DEF SealedKeys, IInv
      <4>2. QED
        BY <4>1 DEF KeysSound, SendSound
    <3>3. SentChain(p, env.key.dh.chain)
      BY <1>6 DEF SendSound
    <3>4. env.key.dh.chain \in Chain
      BY <1>9 DEF Envelope, Key, DhKey
    <3>5. QED
      BY <3>2, <3>3, <3>4, SentIsHeard
  <2>4. QED
    BY <2>2, <2>3
<1>15. KeySealsOneMessage'
  BY <1>2, <1>14 DEF IInv, KeySealsOneMessage
<1>16. QED
  BY <1>8, <1>10, <1>13, <1>15 DEF IInv

\* A key sealed by the peer is of a chain the party may receive on.
LEMMA PeerKeyIsHeard ==
    ASSUME IInv, NEW p \in Party, NEW e \in sealed, e.from # p
    PROVE  /\ e \in Envelope
           /\ e.from = Peer(p)
           /\ HeardChain(p, e.key.dh.chain)
<1>1. e \in Envelope /\ e.from \in Party
  BY DEF IInv, TypeOK, Envelope
<1>2. e.from = Peer(p) /\ Peer(p) \in Party
  BY <1>1 DEF Party, Peer
<1>3. SendSound(Peer(p), session[Peer(p)], SealedKeys(Peer(p)))
  BY <1>2 DEF IInv, KeysSound
<1>4. e.key.dh \in SealedKeys(Peer(p))
  BY <1>2 DEF SealedKeys, SealedBy
<1>5. SentChain(Peer(p), e.key.dh.chain)
  BY <1>3, <1>4 DEF SendSound
<1>6. e.key.dh.chain \in Chain
  BY <1>1 DEF Envelope, Key, DhKey
<1>7. QED
  BY <1>1, <1>2, <1>5, <1>6, SentIsHeard

LEMMA OpenInv ==
    ASSUME IInv, NEW p \in Party, NEW env \in sealed, Open(p, env)
    PROVE  IInv'
<1> DEFINE s == session[p]
           t == AfterReceive(s, env.header, Fresh(p))
<1>1. /\ s \in Session
      /\ Fresh(p) \in PublicKey
      /\ SealedKeys(p) \in SUBSET DhKey
      /\ OpenedKeys(p) \in SUBSET DhKey
      /\ TypeOK
  BY FreshType DEF IInv
<1>2. /\ Commit(p, t)
      /\ Opens(s, env, Fresh(p))
      /\ env.from # p
      /\ opened' = [opened EXCEPT ![p] = @ \cup {env}]
      /\ UNCHANGED sealed
  BY DEF Open
<1>3. /\ env \in Envelope /\ env.header \in Header
      /\ HeardChain(p, env.key.dh.chain)
  BY <1>2, PeerKeyIsHeard DEF Envelope
<1>4. t \in Session
  BY <1>1, <1>3, ReceiveType
<1>5. /\ session' \in [Party -> Session]
      /\ keygen' \in [Party -> Nat]
      /\ session'[p] = t
      /\ \A q \in Party : q # p => session'[q] = session[q]
  <2> HIDE DEF t
  <2>1. QED
    BY <1>1, <1>2, <1>4, CommitType
<1>6. KeysSound(p)
  BY DEF IInv
<1>7. /\ Accepts(s, env.header, Fresh(p))
      /\ ReceiveKey(s, env.header, Fresh(p)).dh = env.key.dh
  BY <1>2 DEF Opens
<1>8. ReceiveSound(p, t, OpenedKeys(p) \cup {env.key.dh})
  <2>1. HeardChain(p, ReceiveKey(s, env.header, Fresh(p)).dh.chain)
    BY <1>3, <1>7
  <2>2. ReceiveSound(p, s, OpenedKeys(p))
    BY <1>6 DEF KeysSound
  <2> HIDE DEF s
  <2>3. QED
    BY <1>1, <1>3, <1>7, <2>1, <2>2, ReceiveKeepsReceiveSound
<1>9. SendSound(p, t, SealedKeys(p)) /\ CacheBounded(t)
  <2> SendSound(p, s, SealedKeys(p)) /\ CacheBounded(s)
    BY <1>6 DEF KeysSound
  <2> HIDE DEF s
  <2>1. QED
    BY <1>1, <1>3, <1>7, ReceiveKeepsSendSound, ReceiveBounded
<1> HIDE DEF s, t
<1>10. TypeOK'
  BY <1>1, <1>2, <1>3, <1>5 DEF TypeOK
<1>11. \A q \in Party :
           /\ SealedKeys(q)' = SealedKeys(q)
           /\ OpenedKeys(q)' = IF q = p THEN OpenedKeys(q) \cup {env.key.dh}
                               ELSE OpenedKeys(q)
  BY <1>1, <1>2 DEF TypeOK, SealedKeys, SealedBy, OpenedKeys
<1>12. ASSUME NEW q \in Party
       PROVE  KeysSound(q)'
  <2>1. CASE q = p
    BY <2>1, <1>5, <1>8, <1>9, <1>11 DEF KeysSound
  <2>2. CASE q # p
    <3>1. KeysSound(q)
      BY DEF IInv
    <3>2. QED
      BY <2>2, <3>1, <1>5, <1>11 DEF KeysSound
  <2>3. QED
    BY <2>1, <2>2
<1>13. KeySealsOneMessage' /\ IsFiniteSet(sealed')
  BY <1>2 DEF IInv, KeySealsOneMessage
<1>14. QED
  BY <1>10, <1>12, <1>13 DEF IInv

LEMMA StutterInv == IInv /\ UNCHANGED vars => IInv'
BY DEF IInv, vars, TypeOK, KeysSound, SealedKeys, OpenedKeys, SealedBy,
       KeySealsOneMessage

LEMMA StepInv == IInv /\ [Next]_vars => IInv'
BY SealInv, OpenInv, StutterInv DEF Next

LEMMA Invariance == Spec => []IInv
BY InitInv, StepInv, PTL DEF Spec

-----------------------------------------------------------------------------
\* What follows from it

\* A key that was opened has left the session's reach.
LEMMA OpenedNeverOpens ==
    ASSUME IInv, NEW p \in Party, NEW e \in opened[p]
    PROVE  ~Opens(session[p], e, Fresh(p))
<1>1. /\ session[p] \in Session
      /\ Fresh(p) \in PublicKey
      /\ OpenedKeys(p) \in SUBSET DhKey
  BY FreshType DEF IInv
<1>2. e \in Envelope /\ e.header \in Header
  BY DEF IInv, TypeOK, Envelope
<1>3. ReceiveSound(p, session[p], OpenedKeys(p))
  BY DEF IInv, KeysSound
<1>4. e.key.dh \in OpenedKeys(p)
  BY DEF OpenedKeys
<1>5. HeardChain(p, e.key.dh.chain)
  BY <1>3, <1>4 DEF ReceiveSound
<1>6. SUFFICES ASSUME Opens(session[p], e, Fresh(p)) PROVE FALSE
  OBVIOUS
<1>7. ReceiveKey(session[p], e.header, Fresh(p)).dh = e.key.dh
  BY <1>6 DEF Opens
<1>8. e.key.dh \notin OpenedKeys(p)
  BY <1>1, <1>2, <1>3, <1>5, <1>7, ReceiveKeepsReceiveSound
<1>9. QED
  BY <1>4, <1>8

LEMMA UsedNotDerivable ==
    ASSUME IInv, NEW p \in Party, NEW e \in SealedBy(p) \cup opened[p]
    PROVE  ~Derives(session[p], e.key)
<1> DEFINE s == session[p]
           k == e.key.dh
<1>1. s \in Session /\ s.sendChain \in Chain /\ s.recvChain \in Chain
  BY FreshType DEF IInv, Session
<1>2. /\ SendSound(p, s, SealedKeys(p))
      /\ ReceiveSound(p, s, OpenedKeys(p))
  BY DEF IInv, KeysSound
<1>3. e \in Envelope
  BY DEF IInv, TypeOK, SealedBy
<1>4. k \in DhKey /\ k.chain \in Chain
  BY <1>3 DEF Envelope, Key, DhKey
<1>5. /\ e \in SealedBy(p) => k \in SealedKeys(p)
      /\ e \in opened[p] => k \in OpenedKeys(p)
  BY DEF SealedKeys, OpenedKeys
<1>6. \A f \in s.skipped : f.key.chain \in Chain
  BY <1>1, SkippedFields
<1>7. /\ k.chain.step \in Nat
      /\ s.sendChain.step \in Nat
      /\ s.recvChain.step \in Nat
      /\ Len(k.chain.root) \in Nat
      /\ Len(s.sendChain.root) \in Nat
      /\ Len(s.recvChain.root) \in Nat
  BY <1>1, <1>4, ChainFields
<1>8. \A c \in Chain : \A d \in Chain :
          SentChain(p, c) /\ HeardChain(p, d) =>
              c.root # d.root \/ c.half # d.half
  BY SentIsHeard
<1> HIDE DEF s, k
<1>9. ASSUME NEW c \in Chain, Behind(k.chain, c)
      PROVE  ~(/\ c.root = k.chain.root
               /\ c.half = k.chain.half
               /\ c.step =< k.chain.step)
  BY <1>9, <1>4, ChainFields DEF Behind
<1>10. CASE e \in SealedBy(p)
  <2>1. s.sendInit /\ SentChain(p, k.chain) /\ Behind(k.chain, s.sendChain)
    BY <1>2, <1>5, <1>10 DEF SendSound
  <2>2. HeardChain(p, s.recvChain)
    BY <1>2 DEF ReceiveSound
  <2>3. k.chain.root # s.recvChain.root \/ k.chain.half # s.recvChain.half
    BY <1>1, <1>4, <1>8, <2>1, <2>2
  <2>4. \A f \in s.skipped : f.key # k
    BY <1>2, <1>4, <1>6, <1>8, <2>1 DEF ReceiveSound
  <2>5. QED
    BY <1>1, <1>9, <2>1, <2>3, <2>4 DEF Derives, s, k
<1>11. CASE e \in opened[p]
  <2>1. HeardChain(p, k.chain) /\ Behind(k.chain, s.recvChain)
    BY <1>2, <1>5, <1>11 DEF ReceiveSound
  <2>2. \A f \in s.skipped : f.key # k
    BY <1>2, <1>5, <1>11 DEF ReceiveSound
  <2>3. \/ k.chain.root # s.sendChain.root
        \/ k.chain.half # s.sendChain.half
    <3>1. CASE s.sendInit
      <4>1. SentChain(p, s.sendChain)
        BY <1>2, <3>1 DEF SendSound
      <4>2. QED
        BY <1>1, <1>4, <1>8, <2>1, <4>1
    <3>2. CASE s.sendChain.root = <<>> /\ s.sendChain.half = "dead"
      BY <2>1, <3>2 DEF HeardChain
    <3>3. CASE Len(s.recvChain.root) < Len(s.sendChain.root)
      <4>1. \/ Len(k.chain.root) < Len(s.recvChain.root)
            \/ k.chain.root = s.recvChain.root
        BY <2>1 DEF Behind
      <4>2. QED
        BY <1>7, <3>3, <4>1
    <3>4. QED
      BY <1>2, <3>1, <3>2, <3>3 DEF ReceiveSound
  <2>4. QED
    BY <1>1, <1>9, <2>1, <2>2, <2>3 DEF Derives, s, k
<1>12. QED
  BY <1>10, <1>11

\* Sessions stay well formed through every send, first send, skipped key and
\* DH ratchet, in particular no counter goes negative.
THEOREM TypeCorrect == Spec => []TypeOK
<1>1. IInv => TypeOK
  BY DEF IInv
<1>2. QED
  BY Invariance, <1>1, PTL

\* RatchetMessageCodec never seals two messages under one AES-GCM key (the
\* nonce is derived from it), whatever is delivered, lost, repeated or
\* reordered, and whichever side ratchets when.
THEOREM NoKeyReuse == Spec => []KeySealsOneMessage
<1>1. IInv => KeySealsOneMessage
  BY DEF IInv
<1>2. QED
  BY Invariance, <1>1, PTL

\* DoubleRatchet.decrypt never yields the key of a message it has committed
\* before, so RatchetMessageCodec.decrypt refuses every duplicate.
THEOREM NoReplay == Spec => []ReplayNeverOpens
<1>1. IInv => ReplayNeverOpens
  BY OpenedNeverOpens DEF ReplayNeverOpens
<1>2. QED
  BY Invariance, <1>1, PTL

\* The session RatchetMessageCodec stores never lets a key it has sealed or
\* opened with be derived again: chain keys only move on, and a skipped key
\* is removed when it is used.
THEOREM ForwardSecrecy == Spec => []UsedKeysAreGone
<1>1. IInv => UsedKeysAreGone
  BY UsedNotDerivable DEF UsedKeysAreGone
<1>2. QED
  BY Invariance, <1>1, PTL

\* DoubleRatchet._stageSkipped keeps the stored skipped keys within
\* maxSkippedTotal, however the counters of the peer jump.
THEOREM CacheWithinCap == Spec => []SkippedBounded
<1>1. IInv => SkippedBounded
  BY DEF IInv, KeysSound, CacheBounded, SkippedBounded
<1>2. QED
  BY Invariance, <1>1, PTL

-----------------------------------------------------------------------------
\* The two parties stay in step

PairInStep(p) ==
    /\ session[p].our[2] = keygen[p]
    /\ InStep(p, session[p], session[Peer(p)], SealedBy(p), SealedBy(Peer(p)),
              opened[p], opened[Peer(p)])

SyncInv == IInv /\ \A p \in Party : PairInStep(p)

LEMMA FreshFields ==
    ASSUME SyncInv, NEW p \in Party
    PROVE  /\ TypeOK
           /\ session[p] \in Session /\ session[Peer(p)] \in Session
           /\ Envelopes(SealedBy(p))
           /\ Envelopes(SealedBy(Peer(p)))
           /\ Fresh(p) \in PublicKey
           /\ Fresh(p)[1] = p
           /\ Fresh(p)[2] = session[p].our[2] + 1
           /\ session[p].our # Fresh(p)
           /\ session[p].our[1] = p
           /\ keygen[p] \in Nat
<1>1. TypeOK /\ Peer(p) \in Party
  BY PeerPeer DEF SyncInv, IInv
<1>2. Fresh(p) \in PublicKey /\ session[p] \in Session
      /\ session[Peer(p)] \in Session
  BY <1>1, FreshType
<1>3. Envelopes(SealedBy(p)) /\ Envelopes(SealedBy(Peer(p)))
  BY <1>1 DEF TypeOK, SealedBy, Envelope, Envelopes, IsEnvelope
<1>4. PairInStep(p)
  BY DEF SyncInv
<1>5. session[p].our[2] = keygen[p] /\ session[p].our[1] = p
  BY <1>4 DEF PairInStep, InStep, Half, Aligned
<1>6. keygen[p] \in Nat
  BY <1>1 DEF TypeOK
<1>7. Fresh(p)[1] = p /\ Fresh(p)[2] = keygen[p] + 1
  BY DEF Fresh
<1>8. session[p].our # Fresh(p)
  BY <1>5, <1>6, <1>7
<1>9. QED
  BY <1>1, <1>2, <1>3, <1>5, <1>6, <1>7, <1>8

\* The step of one party is the step of the pair.
LEMMA PairStep ==
    ASSUME SyncInv, NEW p \in Party, NEW x, Commit(p, x),
           x.our = session[p].our \/ x.our = Fresh(p),
           InStep(p, x, session[Peer(p)], SealedBy(p)', SealedBy(Peer(p))',
                  opened'[p], opened'[Peer(p)])
    PROVE  \A q \in Party : PairInStep(q)'
<1>1. /\ Peer(p) \in Party /\ Peer(Peer(p)) = p /\ Peer(p) # p
      /\ \A q \in Party : q = p \/ q = Peer(p)
  BY PeerPeer DEF Party, Peer
<1>2. /\ session[p].our # Fresh(p)
      /\ session[p].our[2] = keygen[p]
      /\ session[Peer(p)].our[2] = keygen[Peer(p)]
      /\ Fresh(p)[2] = session[p].our[2] + 1
      /\ session \in [Party -> Session]
      /\ keygen \in [Party -> Nat]
  BY <1>1, FreshFields DEF SyncInv, PairInStep, TypeOK
<1>3. /\ session'[p] = x
      /\ session'[Peer(p)] = session[Peer(p)]
      /\ keygen'[p] = IF x.our = Fresh(p) THEN keygen[p] + 1 ELSE keygen[p]
      /\ keygen'[Peer(p)] = keygen[Peer(p)]
  BY <1>1, <1>2 DEF Commit
<1>4. x.our[2] = keygen'[p]
  BY <1>2, <1>3
<1>5. PairInStep(p)'
  BY <1>1, <1>3, <1>4 DEF PairInStep
<1>6. PairInStep(Peer(p))'
  <2>1. InStep(Peer(p), session[Peer(p)], x, SealedBy(Peer(p))', SealedBy(p)',
               opened'[Peer(p)], opened'[p])
    BY InStepSymmetric
  <2>2. session'[Peer(p)].our[2] = keygen'[Peer(p)]
    BY <1>2, <1>3
  <2>3. QED
    BY <1>1, <1>3, <2>1, <2>2 DEF PairInStep
<1>7. QED
  BY <1>1, <1>5, <1>6

LEMMA SyncInit == Init => SyncInv
<1> SUFFICES ASSUME Init PROVE SyncInv
  OBVIOUS
<1>1. IInv
  BY InitInv
<1>2. ASSUME NEW p \in Party
      PROVE  PairInStep(p)
  <2>1. Peer(p) \in Party
    BY PeerPeer
  <2>2. /\ session[p] = InitSession(p, Peer(p), p = Initiator)
        /\ session[Peer(p)] =
               InitSession(Peer(p), Peer(Peer(p)), Peer(p) = Initiator)
        /\ SealedBy(p) = {} /\ SealedBy(Peer(p)) = {}
        /\ opened[p] = {} /\ opened[Peer(p)] = {}
        /\ keygen[p] = 0
    BY <2>1 DEF Init, SealedBy
  <2>3. session[p].our[2] = 0
    <3>1. session[p].our = <<p, 0>>
      BY <2>2 DEF InitSession
    <3>2. QED
      BY <3>1
  <2>4. QED
    BY <2>2, <2>3, InitInStep DEF PairInStep
<1>3. QED
  BY <1>1, <1>2 DEF SyncInv

LEMMA SyncSeal ==
    ASSUME SyncInv, NEW p \in Party, Seal(p)
    PROVE  SyncInv'
<1> DEFINE s == session[p]
           x == AfterSend(s, Fresh(p))
           env == [ from   |-> p,
                    id     |-> Cardinality(SealedBy(p)) + 1,
                    header |-> SendHeader(s, Fresh(p)),
                    key    |-> SendKey(s, Fresh(p)) ]
<1>1. IInv /\ IInv'
  BY SealInv DEF SyncInv
<1>2. Commit(p, x) /\ sealed' = sealed \cup {env} /\ UNCHANGED opened
  BY DEF Seal
<1>3. /\ s \in Session /\ session[Peer(p)] \in Session
      /\ Envelopes(SealedBy(p))
      /\ Envelopes(SealedBy(Peer(p)))
      /\ Fresh(p) \in PublicKey
      /\ Fresh(p)[1] = p
      /\ Fresh(p)[2] = s.our[2] + 1
  BY FreshFields
<1>4. /\ env.from = p
      /\ env.header = SendHeader(s, Fresh(p))
      /\ env.key = SendKey(s, Fresh(p))
  OBVIOUS
<1> HIDE DEF env
<1>5. SealedBy(p)' = SealedBy(p) \cup {env}
      /\ SealedBy(Peer(p))' = SealedBy(Peer(p))
  BY <1>2, <1>4, PeerPeer DEF SealedBy
<1>6. IsEnvelope(env)
  <2>1. env \in sealed'
    BY <1>2
  <2>2. sealed' \subseteq Envelope
    BY <1>1 DEF IInv, TypeOK, Envelope
  <2>3. QED
    BY <2>1, <2>2 DEF Envelope, IsEnvelope
<1>7. InStep(p, s, session[Peer(p)], SealedBy(p), SealedBy(Peer(p)),
             opened[p], opened[Peer(p)])
  BY DEF SyncInv, PairInStep
<1>8. InStep(p, x, session[Peer(p)], SealedBy(p) \cup {env},
             SealedBy(Peer(p)), opened[p], opened[Peer(p)])
  <2> HIDE DEF s
  <2>1. QED
    BY <1>3, <1>4, <1>6, <1>7, SendInStep
<1>9. x.our = s.our \/ x.our = Fresh(p)
  <2> HIDE DEF s
  <2>1. QED
    BY <1>3, AfterSendOur
<1> HIDE DEF x, s
<1>10. \A q \in Party : PairInStep(q)'
  BY <1>2, <1>5, <1>8, <1>9, PairStep DEF s
<1>11. QED
  BY <1>1, <1>10 DEF SyncInv

LEMMA SyncOpen ==
    ASSUME SyncInv, NEW p \in Party, NEW env \in sealed, Open(p, env)
    PROVE  SyncInv'
<1> DEFINE s == session[p]
           h == env.header
           x == AfterReceive(s, h, Fresh(p))
<1>1. IInv /\ IInv'
  BY OpenInv DEF SyncInv
<1>2. /\ Commit(p, x)
      /\ Opens(s, env, Fresh(p))
      /\ env.from # p
      /\ opened' = [opened EXCEPT ![p] = @ \cup {env}]
      /\ UNCHANGED sealed
  BY DEF Open
<1>3. /\ s \in Session /\ session[Peer(p)] \in Session
      /\ Envelopes(SealedBy(p))
      /\ Envelopes(SealedBy(Peer(p)))
      /\ Fresh(p) \in PublicKey
      /\ Fresh(p)[1] = p
      /\ Fresh(p)[2] = s.our[2] + 1
      /\ TypeOK
  BY FreshFields
<1>4. /\ SealedBy(p)' = SealedBy(p)
      /\ SealedBy(Peer(p))' = SealedBy(Peer(p))
      /\ opened'[p] = opened[p] \cup {env}
      /\ opened'[Peer(p)] = opened[Peer(p)]
  BY <1>2, <1>3, PeerPeer DEF SealedBy, TypeOK
<1>5. env \in SealedBy(Peer(p)) /\ IsEnvelope(env)
  BY <1>1, <1>2, PeerKeyIsHeard DEF SealedBy, Envelope, IsEnvelope
<1>6. env \notin opened[p]
  BY <1>1, <1>2, OpenedNeverOpens
<1>7. InStep(p, s, session[Peer(p)], SealedBy(p), SealedBy(Peer(p)),
             opened[p], opened[Peer(p)])
  BY DEF SyncInv, PairInStep
<1>8. InStep(p, x, session[Peer(p)], SealedBy(p), SealedBy(Peer(p)),
             opened[p] \cup {env}, opened[Peer(p)])
  <2>1. Accepts(s, h, Fresh(p))
    BY <1>2 DEF Opens
  <2> HIDE DEF s
  <2>2. QED
    BY <1>3, <1>5, <1>6, <1>7, <2>1, ReceiveInStep
<1>9. x.our = s.our \/ x.our = Fresh(p)
  <2> HIDE DEF s
  <2>1. h \in Header
    BY <1>5 DEF IsEnvelope
  <2>2. QED
    BY <1>3, <2>1, AfterReceiveOur
<1> HIDE DEF x, s
<1>10. \A q \in Party : PairInStep(q)'
  BY <1>2, <1>4, <1>8, <1>9, PairStep DEF s
<1>11. QED
  BY <1>1, <1>10 DEF SyncInv

LEMMA SyncStutter == SyncInv /\ UNCHANGED vars => SyncInv'
<1> SUFFICES ASSUME SyncInv, UNCHANGED vars PROVE SyncInv'
  OBVIOUS
<1>1. IInv'
  BY StutterInv DEF SyncInv
<1>2. \A p \in Party : PairInStep(p)'
  BY DEF SyncInv, PairInStep, vars, SealedBy
<1>3. QED
  BY <1>1, <1>2 DEF SyncInv

LEMMA SyncInvariance == Spec => []SyncInv
<1>1. SyncInv /\ [Next]_vars => SyncInv'
  BY SyncSeal, SyncOpen, SyncStutter DEF Next
<1>2. QED
  BY SyncInit, <1>1, PTL DEF Spec

\* Whatever was lost, delayed or opened out of order, a message that was not
\* opened yet still opens with DoubleRatchet.decrypt, unless maxSkip or
\* maxSkippedTotal is what refuses it: the two sides never lose step.
THEOREM NoMessageLost == Spec => []DelayedStaysReadable
<1>1. ASSUME SyncInv, NEW p \in Party,
             NEW e \in SealedBy(Peer(p)) \ opened[p],
             ~OverLimit(session[p], e.header, Fresh(p))
      PROVE  Opens(session[p], e, Fresh(p))
  <2>1. /\ session[p] \in Session /\ session[Peer(p)] \in Session
        /\ Envelopes(SealedBy(p))
        /\ Envelopes(SealedBy(Peer(p)))
        /\ Fresh(p) \in PublicKey
    BY <1>1, FreshFields
  <2>2. InStep(p, session[p], session[Peer(p)], SealedBy(p),
               SealedBy(Peer(p)), opened[p], opened[Peer(p)])
    BY <1>1 DEF SyncInv, PairInStep
  <2>3. QED
    BY <1>1, <2>1, <2>2, InStepOpens
<1>2. SyncInv => DelayedStaysReadable
  BY <1>1 DEF DelayedStaysReadable
<1>3. QED
  BY SyncInvariance, <1>2, PTL

=============================================================================
