------------------------ MODULE DoubleRatchet_proofs ------------------------
(***************************************************************************)
(* TLAPS proofs about the operators of DoubleRatchet: what a send and a    *)
(* receive return, and the two soundness predicates of a session, that of  *)
(* the keys it has sealed with and that of the keys it has opened, which   *)
(* every send and every receive keeps.  Then about two sessions at once:   *)
(* how far they can be apart (InStep), why a message under way still opens *)
(* then, and how many are skipped or awaited at most (Counted).  The       *)
(* modules that compose sessions cite them.                                *)
(***************************************************************************)
EXTENDS DoubleRatchet, FiniteSetTheorems, TLAPS

-----------------------------------------------------------------------------
\* Types of the ratchet operators

LEMMA KdfType ==
    ASSUME NEW root \in RootKey, NEW a \in PublicKey, NEW b \in PublicKey
    PROVE  /\ KdfRoot(root, DH(a, b)) \in RootKey
           /\ Len(KdfRoot(root, DH(a, b))) = Len(root) + 1
           /\ KdfChain(root, DH(a, b)) \in Chain
           /\ KdfChain(root, DH(a, b)).root = KdfRoot(root, DH(a, b))
           /\ KdfChain(root, DH(a, b)).step = 0
           /\ Len(root) \in Nat
<1>1. DH(a, b) \in SUBSET PublicKey
  BY DEF DH
<1>2. /\ Append(root, DH(a, b)) \in RootKey
      /\ Len(Append(root, DH(a, b))) = Len(root) + 1
      /\ Len(root) \in Nat
  BY <1>1 DEF RootKey
<1>3. QED
  BY <1>2 DEF KdfRoot, KdfChain, ChainKey, Chain, Halves

LEMMA ReadyType ==
    ASSUME NEW s \in Session, NEW fresh \in PublicKey
    PROVE  ReadyToSend(s, fresh) \in Session
<1> DEFINE dh == DH(fresh, s.remote)
<1>1. s.root \in RootKey /\ s.remote \in PublicKey /\ s.sendCounter \in Nat
  BY DEF Session
<1>2. KdfRoot(s.root, dh) \in RootKey /\ KdfChain(s.root, dh) \in Chain
  BY <1>1, KdfType
<1>3. FirstSendRatchet(s, fresh) =
          [s EXCEPT !.our = fresh, !.root = KdfRoot(s.root, dh),
                    !.sendChain = KdfChain(s.root, dh),
                    !.prevSend = s.sendCounter, !.sendInit = TRUE]
  BY DEF FirstSendRatchet
<1> HIDE DEF dh
<1>4. FirstSendRatchet(s, fresh) \in Session
  BY <1>1, <1>2, <1>3 DEF Session
<1>5. QED
  BY <1>4 DEF ReadyToSend

LEMMA SessionFields ==
    ASSUME NEW s \in Session
    PROVE  /\ s.root \in RootKey
           /\ Len(s.root) \in Nat
           /\ s.sendChain \in Chain
           /\ s.sendChain.step \in Nat
           /\ s.sendInit \in BOOLEAN
<1>1. /\ s.root \in RootKey
      /\ s.sendChain \in Chain
      /\ s.sendInit \in BOOLEAN
  BY DEF Session
<1>2. QED
  BY <1>1 DEF RootKey, Chain

LEMMA ParityStep ==
    ASSUME NEW n \in Nat
    PROVE  /\ n % 2 = 0 => (n + 1) % 2 = 1
           /\ (n + 2) % 2 = n % 2
BY SMT

LEMMA EpochType ==
    ASSUME NEW n \in Nat
    PROVE  n \div AdvanceEvery \in Nat
BY LimitsAssumption, SMT

LEMMA SendType ==
    ASSUME NEW s \in Session, NEW fresh \in PublicKey
    PROVE  /\ AfterSend(s, fresh) \in Session
           /\ SendHeader(s, fresh) \in Header
           /\ SendKey(s, fresh) \in Key
<1> DEFINE t == ReadyToSend(s, fresh)
<1>1. t \in Session
  BY ReadyType
<1> HIDE DEF t
<1>2. t.sendCounter \div AdvanceEvery \in Nat
  BY <1>1, EpochType DEF Session
<1>3. [t EXCEPT !.sendChain = ChainAfter(@, 1), !.sendCounter = @ + 1]
          \in Session
  <2>1. t.sendChain \in Chain /\ t.sendCounter + 1 \in Nat
    BY <1>1 DEF Session
  <2>2. ChainAfter(t.sendChain, 1) \in Chain
    BY <2>1 DEF ChainAfter, Chain
  <2>3. QED
    BY <1>1, <2>1, <2>2 DEF Session
<1>4. QED
  BY <1>1, <1>2, <1>3 DEF t, AfterSend, SendHeader, SendKey, Combine,
     MessageKey, Header, Key, DhKey, Session

LEMMA StageType ==
    ASSUME NEW s \in Session, NEW upto \in Nat
    PROVE  /\ Stage(s, upto) \in Session
           /\ Stage(s, upto).root = s.root
           /\ Stage(s, upto).our = s.our
           /\ Stage(s, upto).sendInit = s.sendInit
           /\ Stage(s, upto).sendChain = s.sendChain
           /\ Stage(s, upto).sendCounter = s.sendCounter
<1>1. CASE upto =< s.recvCounter
  BY <1>1 DEF Stage
<1>2. CASE ~(upto =< s.recvCounter)
  <2>1. Skip(s, upto) \subseteq Skipped
    <3>1. SUFFICES ASSUME NEW n \in s.recvCounter .. (upto - 1)
                   PROVE  /\ n \in Nat
                          /\ MessageKey(ChainAfter(s.recvChain,
                                 n - s.recvCounter), n) \in DhKey
      BY DEF Skip, Session, Skipped
    <3>2. s.recvCounter \in Nat /\ s.recvChain \in Chain
      BY DEF Session
    <3>3. n \in Nat /\ n - s.recvCounter \in Nat
      BY <3>2
    <3>4. ChainAfter(s.recvChain, n - s.recvCounter) \in Chain
      BY <3>2, <3>3 DEF ChainAfter, Chain
    <3>5. QED
      BY <3>3, <3>4 DEF MessageKey, DhKey
  <2>2. ChainAfter(s.recvChain, upto - s.recvCounter) \in Chain
    BY <1>2 DEF ChainAfter, Chain, Session
  <2>3. QED
    BY <1>2, <2>1, <2>2 DEF Stage, Session
<1>3. QED
  BY <1>1, <1>2

LEMMA DhRatchetType ==
    ASSUME NEW s \in Session, NEW remote \in PublicKey,
           NEW fresh \in PublicKey
    PROVE  LET t == DhRatchet(s, remote, fresh) IN
           /\ t \in Session
           /\ t.sendInit = s.sendInit
           /\ t.recvCounter = 0
           /\ Len(t.root) = Len(s.root) + 2
           /\ t.sendChain.root = t.root
<1> DEFINE dhOut == DH(s.our, remote)
           root == KdfRoot(s.root, dhOut)
           dhOut2 == DH(fresh, remote)
           t == DhRatchet(s, remote, fresh)
<1>1. s.root \in RootKey /\ s.our \in PublicKey /\ s.sendCounter \in Nat
  BY DEF Session
<1>2. /\ root \in RootKey
      /\ Len(root) = Len(s.root) + 1
      /\ KdfChain(s.root, dhOut) \in Chain
      /\ Len(s.root) \in Nat
  BY <1>1, KdfType
<1>3. /\ KdfRoot(root, dhOut2) \in RootKey
      /\ Len(KdfRoot(root, dhOut2)) = Len(root) + 1
      /\ KdfChain(root, dhOut2) \in Chain
      /\ KdfChain(root, dhOut2).root = KdfRoot(root, dhOut2)
  <2> HIDE DEF root
  <2>1. QED
    BY <1>2, KdfType
<1>4. t = [s EXCEPT !.recvChain = KdfChain(s.root, dhOut),
                    !.remote = remote, !.recvCounter = 0, !.our = fresh,
                    !.root = KdfRoot(root, dhOut2),
                    !.sendChain = KdfChain(root, dhOut2),
                    !.prevSend = s.sendCounter, !.sendCounter = 0]
  BY DEF DhRatchet
<1> HIDE DEF dhOut, root, dhOut2, t
<1>5. /\ t \in Session
      /\ t.sendInit = s.sendInit
      /\ t.recvCounter = 0
      /\ t.root = KdfRoot(root, dhOut2)
      /\ t.sendChain = KdfChain(root, dhOut2)
  BY <1>1, <1>2, <1>3, <1>4 DEF Session
<1>6. QED
  BY <1>2, <1>3, <1>5 DEF t

\* What receiving does to the sending half of a session.
LEMMA ReceiveType ==
    ASSUME NEW s \in Session, NEW h \in Header, NEW fresh \in PublicKey
    PROVE  LET t == AfterReceive(s, h, fresh) IN
           /\ t \in Session
           /\ t.sendInit = s.sendInit
           /\ \/ t.root = s.root /\ t.sendChain = s.sendChain
              \/ Len(t.root) = Len(s.root) + 2 /\ t.sendChain.root = t.root
<1> DEFINE u == OnChain(s, h, fresh)
           v == Stage(u, h.num)
<1>1. h.dh \in PublicKey /\ h.prev \in Nat /\ h.num \in Nat
  BY DEF Header
<1>2. /\ u \in Session
      /\ u.sendInit = s.sendInit
      /\ \/ u.root = s.root /\ u.sendChain = s.sendChain
         \/ Len(u.root) = Len(s.root) + 2 /\ u.sendChain.root = u.root
  <2>1. CASE h.dh = s.remote
    BY <2>1 DEF OnChain
  <2>2. CASE h.dh # s.remote
    <3> DEFINE w == Stage(s, h.prev)
    <3>1. w \in Session /\ w.root = s.root /\ w.sendInit = s.sendInit
      BY <1>1, StageType
    <3>2. u = DhRatchet(w, h.dh, fresh)
      BY <2>2 DEF OnChain
    <3> HIDE DEF w, u
    <3>3. /\ u \in Session
          /\ u.sendInit = w.sendInit
          /\ Len(u.root) = Len(w.root) + 2
          /\ u.sendChain.root = u.root
      BY <1>1, <3>1, <3>2, DhRatchetType
    <3>4. QED
      BY <3>1, <3>3
  <2>3. QED
    BY <2>1, <2>2
<1>3. /\ v \in Session
      /\ v.root = u.root
      /\ v.sendInit = u.sendInit
      /\ v.sendChain = u.sendChain
  <2> HIDE DEF u
  <2>1. QED
    BY <1>1, <1>2, StageType
<1>4. CASE Cached(s, h) # {}
  <2> DEFINE rest == s.skipped \ Cached(s, h)
             x == [s EXCEPT !.skipped = rest]
  <2>1. AfterReceive(s, h, fresh) = x
    BY <1>4 DEF AfterReceive
  <2>2. rest \in SUBSET Skipped
    BY DEF Session
  <2> HIDE DEF rest, u, v
  <2>3. /\ x \in Session
        /\ x.sendInit = s.sendInit
        /\ x.root = s.root
        /\ x.sendChain = s.sendChain
    BY <2>2 DEF Session
  <2> HIDE DEF x
  <2>4. QED
    BY <2>1, <2>3
<1>5. CASE Cached(s, h) = {}
  <2> DEFINE c == ChainAfter(v.recvChain, 1)
             x == [v EXCEPT !.recvChain = c, !.recvCounter = @ + 1]
  <2>1. AfterReceive(s, h, fresh) = x
    BY <1>5 DEF AfterReceive
  <2> HIDE DEF u, v
  <2>2. c \in Chain
    BY <1>3 DEF Session, ChainAfter, Chain
  <2> HIDE DEF c
  <2>3. /\ x \in Session
        /\ x.sendInit = v.sendInit
        /\ x.root = v.root
        /\ x.sendChain = v.sendChain
    <3> DEFINE n == v.recvCounter + 1
    <3>1. n \in Nat
      BY <1>3 DEF Session
    <3>2. x = [v EXCEPT !.recvChain = c, !.recvCounter = n]
      OBVIOUS
    <3> HIDE DEF n
    <3>3. QED
      BY <1>3, <2>2, <3>1, <3>2 DEF Session
  <2> HIDE DEF x
  <2>4. QED
    BY <1>2, <1>3, <2>1, <2>3
<1>6. QED
  BY <1>4, <1>5

\* What sending does to it: the key sealed with is the current one of the
\* sending chain, which moves one step past it.
LEMMA SendEffect ==
    ASSUME NEW s \in Session, NEW fresh \in PublicKey
    PROVE  LET r == ReadyToSend(s, fresh)
               t == AfterSend(s, fresh)
           IN  /\ SendKey(s, fresh).dh.chain = r.sendChain
               /\ t.root = r.root
               /\ t.sendInit
               /\ t.sendChain.root = r.sendChain.root
               /\ t.sendChain.half = r.sendChain.half
               /\ t.sendChain.step = r.sendChain.step + 1
               /\ s.sendInit => r = s
               /\ ~s.sendInit => /\ Len(r.root) = Len(s.root) + 1
                                 /\ r.sendChain.root = r.root
<1> DEFINE r == ReadyToSend(s, fresh)
<1>1. r \in Session
  BY ReadyType
<1>2. s.root \in RootKey /\ s.remote \in PublicKey
  BY DEF Session
<1>3. /\ s.sendInit => r = s
      /\ ~s.sendInit => /\ r.root = KdfRoot(s.root, DH(fresh, s.remote))
                        /\ r.sendChain = KdfChain(s.root, DH(fresh, s.remote))
      /\ r.sendInit
  BY DEF ReadyToSend, FirstSendRatchet, Session
<1>4. ~s.sendInit => /\ Len(r.root) = Len(s.root) + 1
                     /\ r.sendChain.root = r.root
  <2> HIDE DEF r
  <2>1. QED
    BY <1>2, <1>3, KdfType
<1>5. SendKey(s, fresh).dh.chain = r.sendChain
  BY DEF SendKey, Combine, MessageKey
<1>6. AfterSend(s, fresh) =
          [r EXCEPT !.sendChain = ChainAfter(@, 1), !.sendCounter = @ + 1]
  BY DEF AfterSend
<1> HIDE DEF r
<1>7. r.sendChain \in Chain
  BY <1>1 DEF Session
<1>8. /\ ChainAfter(r.sendChain, 1).root = r.sendChain.root
      /\ ChainAfter(r.sendChain, 1).half = r.sendChain.half
      /\ ChainAfter(r.sendChain, 1).step = r.sendChain.step + 1
  BY <1>7 DEF ChainAfter, Chain
<1>9. QED
  BY <1>1, <1>3, <1>4, <1>5, <1>6, <1>8 DEF Session, r

-----------------------------------------------------------------------------
\* Sound sessions

\* The roots the two sides cut their sending chains from differ in parity:
\* the initiator's are even (two DH outputs per ratchet), the responder's odd
\* (one more, from its first send).
Parity(p) == IF p = Initiator THEN 0 ELSE 1

ParityOf(root) == Len(root) % 2

\* A chain p may have sealed with: of its parity, and of the half of the
\* session secret that is the initiator's to send on.
SentChain(p, c) ==
    /\ ParityOf(c.root) = Parity(p)
    /\ c.root = <<>> => c.half = "A"

\* A chain p may receive on: of its peer's parity, or the one it starts with.
HeardChain(p, c) ==
    IF c.root = <<>>
    THEN c.half = (IF p = Initiator THEN "B" ELSE "A")
    ELSE ParityOf(c.root) = Parity(Peer(p))

\* The chain key c can no longer be reached from d.
Behind(c, d) ==
    \/ Len(c.root) < Len(d.root)
    \/ c.root = d.root /\ c.half = d.half /\ c.step < d.step

\* The sending chain is the one the root was cut with, and every key the
\* session has sealed with is behind it.
SendSound(p, s, keys) ==
    /\ p = Initiator => s.sendInit
    /\ s.sendInit => s.sendChain.root = s.root /\ SentChain(p, s.sendChain)
    /\ ~s.sendInit => ParityOf(s.root) = 0
    /\ \A k \in keys : /\ s.sendInit
                       /\ SentChain(p, k.chain)
                       /\ Behind(k.chain, s.sendChain)

\* Every key the session has opened, and every skipped key it stores, is
\* behind the receiving chain; no stored one has been used, and none is
\* stored twice.
ReceiveSound(p, s, used) ==
    /\ Len(s.recvChain.root) =< Len(s.root)
    /\ HeardChain(p, s.recvChain)
    /\ \/ s.sendInit
       \/ s.sendChain.root = <<>> /\ s.sendChain.half = "dead"
       \/ Len(s.recvChain.root) < Len(s.sendChain.root)
    /\ \A k \in used : HeardChain(p, k.chain) /\ Behind(k.chain, s.recvChain)
    /\ \A e \in s.skipped : /\ HeardChain(p, e.key.chain)
                            /\ Behind(e.key.chain, s.recvChain)
                            /\ e.key \notin used
    /\ \A e, f \in s.skipped : e.key = f.key => e = f

\* What one side seals with is what the other may receive, and never what it
\* may receive itself.
LEMMA SentIsHeard ==
    ASSUME NEW p \in Party, NEW c \in Chain
    PROVE  /\ SentChain(Peer(p), c) => HeardChain(p, c)
           /\ SentChain(p, c) => ~SentChain(Peer(p), c)
           /\ \A d \in Chain :
                  SentChain(p, c) /\ HeardChain(p, d) =>
                      c.root # d.root \/ c.half # d.half
<1>1. ParityOf(<<>>) = 0
  BY DEF ParityOf
<1>2. /\ Parity(p) # Parity(Peer(p))
      /\ p = Initiator => Peer(p) # Initiator
      /\ Parity(p) = 0 <=> p = Initiator
      /\ Parity(Peer(p)) = 0 <=> Peer(p) = Initiator
  BY PartiesAssumption DEF Party, Peer, Parity
<1>3. p # Initiator => Peer(p) = Initiator
  BY DEF Party, Peer
<1>4. QED
  BY <1>1, <1>2, <1>3 DEF SentChain, HeardChain

LEMMA ChainFields ==
    ASSUME NEW c \in Chain
    PROVE  c.root \in RootKey /\ Len(c.root) \in Nat /\ c.step \in Nat
<1>1. c.root \in RootKey /\ c.step \in Nat
  BY DEF Chain
<1>2. QED
  BY <1>1 DEF RootKey

LEMMA BehindTransitive ==
    ASSUME NEW c \in Chain, NEW d \in Chain, NEW e \in Chain,
           Behind(c, d),
           \/ Len(d.root) < Len(e.root)
           \/ d.root = e.root /\ d.half = e.half /\ d.step =< e.step
    PROVE  Behind(c, e)
BY ChainFields DEF Behind

\* A session starts sound.
LEMMA InitSound ==
    ASSUME NEW p \in Party
    PROVE  LET s == InitSession(p, Peer(p), p = Initiator) IN
           /\ s \in Session
           /\ SendSound(p, s, {})
           /\ ReceiveSound(p, s, {})
           /\ s.skipped = {}
<1> DEFINE s == InitSession(p, Peer(p), p = Initiator)
<1>1. <<>> \in RootKey /\ Peer(p) \in Party
  BY DEF RootKey, Peer, Party
<1>2. /\ ChainKey(<<>>, "A") \in Chain
      /\ ChainKey(<<>>, "B") \in Chain
      /\ ChainKey(<<>>, "dead") \in Chain
  BY <1>1 DEF ChainKey, Chain, Halves
<1>3. <<p, 0>> \in PublicKey /\ <<Peer(p), 0>> \in PublicKey
  BY <1>1 DEF PublicKey
<1>4. /\ s \in Session
      /\ s.skipped = {}
      /\ s.root = <<>>
      /\ s.sendInit = (p = Initiator)
      /\ s.sendChain = ChainKey(<<>>, IF p = Initiator THEN "A" ELSE "dead")
      /\ s.recvChain = ChainKey(<<>>, IF p = Initiator THEN "B" ELSE "A")
  BY <1>1, <1>2, <1>3 DEF InitSession, Session
<1>5. ParityOf(<<>>) = 0 /\ Len(<<>>) = 0
  BY DEF ParityOf
<1> HIDE DEF s
<1>6. /\ s.sendChain.root = <<>>
      /\ s.recvChain.root = <<>>
      /\ s.sendChain.half = IF p = Initiator THEN "A" ELSE "dead"
      /\ s.recvChain.half = IF p = Initiator THEN "B" ELSE "A"
  BY <1>4 DEF ChainKey
<1>7. SendSound(p, s, {})
  BY <1>4, <1>5, <1>6 DEF SendSound, SentChain, Parity
<1>8. ReceiveSound(p, s, {})
  <2>1. HeardChain(p, s.recvChain)
    BY <1>6 DEF HeardChain
  <2>2. Len(s.recvChain.root) =< Len(s.root)
    BY <1>4, <1>5, <1>6
  <2>3. \/ s.sendInit
        \/ s.sendChain.root = <<>> /\ s.sendChain.half = "dead"
    BY <1>4, <1>6
  <2>4. QED
    BY <1>4, <2>1, <2>2, <2>3 DEF ReceiveSound
<1>9. QED
  BY <1>4, <1>7, <1>8 DEF s

-----------------------------------------------------------------------------
\* Sending keeps a session sound

\* The key a send seals with was not sealed with before, and is behind the
\* chain afterwards.
LEMMA SendKeepsSendSound ==
    ASSUME NEW p \in Party, NEW s \in Session, NEW fresh \in PublicKey,
           NEW keys \in SUBSET DhKey, SendSound(p, s, keys)
    PROVE  LET key == SendKey(s, fresh).dh IN
           /\ key \in DhKey
           /\ key \notin keys
           /\ SendSound(p, AfterSend(s, fresh), keys \cup {key})
<1> DEFINE r == ReadyToSend(s, fresh)
           t == AfterSend(s, fresh)
           key == SendKey(s, fresh).dh
<1>1. /\ key.chain = r.sendChain
      /\ t.root = r.root
      /\ t.sendInit
      /\ t.sendChain.root = r.sendChain.root
      /\ t.sendChain.half = r.sendChain.half
      /\ t.sendChain.step = r.sendChain.step + 1
      /\ s.sendInit => r = s
      /\ ~s.sendInit => /\ Len(r.root) = Len(s.root) + 1
                        /\ r.sendChain.root = r.root
  BY SendEffect
<1>2. r \in Session /\ t \in Session /\ key \in DhKey
  BY ReadyType, SendType DEF Key
<1> HIDE DEF r, t, key
<1>3. /\ r.sendChain \in Chain /\ t.sendChain \in Chain
      /\ r.root \in RootKey /\ s.root \in RootKey
      /\ Len(s.root) \in Nat /\ Len(r.root) \in Nat
  BY <1>2 DEF Session, RootKey
<1>4. r.sendChain.root = r.root /\ SentChain(p, r.sendChain)
  <2>1. CASE s.sendInit
    BY <2>1, <1>1 DEF SendSound
  <2>2. CASE ~s.sendInit
    <3>1. Parity(p) = 1 /\ ParityOf(s.root) = 0
      BY <2>2 DEF SendSound, Parity
    <3>2. Len(r.root) = Len(s.root) + 1 /\ Len(<<>>) = 0
      BY <2>2, <1>1
    <3>3. ParityOf(r.root) = 1
      BY <3>1, <3>2, <1>3, ParityStep DEF ParityOf
    <3>4. r.root # <<>>
      BY <3>2, <1>3
    <3>5. QED
      BY <2>2, <3>1, <3>3, <3>4, <1>1 DEF SentChain
  <2>3. QED
    BY <2>1, <2>2
<1>5. ASSUME NEW k \in keys
      PROVE  /\ SentChain(p, k.chain)
             /\ Behind(k.chain, r.sendChain)
             /\ k.chain \in Chain
  BY <1>1 DEF SendSound, DhKey
<1>6. r.sendChain.step \in Nat
  BY <1>3, ChainFields
<1>7. key \notin keys
  <2>1. SUFFICES ASSUME key \in keys PROVE FALSE
    OBVIOUS
  <2>2. Behind(key.chain, key.chain)
    BY <2>1, <1>1, <1>5
  <2>3. QED
    BY <2>2, <1>1, <1>3, ChainFields DEF Behind
<1>8. Behind(key.chain, t.sendChain)
  BY <1>1, <1>6 DEF Behind
<1>9. SentChain(p, t.sendChain) /\ SentChain(p, key.chain)
  BY <1>1, <1>4 DEF SentChain
<1>10. \A k \in keys : Behind(k.chain, t.sendChain)
  BY <1>1, <1>3, <1>5, <1>6, BehindTransitive
<1>11. SendSound(p, t, keys \cup {key})
  BY <1>1, <1>4, <1>5, <1>8, <1>9, <1>10 DEF SendSound
<1>12. QED
  BY <1>2, <1>7, <1>11 DEF t, key

LEMMA SendKeepsReceiveSound ==
    ASSUME NEW p \in Party, NEW s \in Session, NEW fresh \in PublicKey,
           NEW used, ReceiveSound(p, s, used)
    PROVE  ReceiveSound(p, AfterSend(s, fresh), used)
<1> DEFINE r == ReadyToSend(s, fresh)
           t == AfterSend(s, fresh)
<1>1. /\ t.root = r.root
      /\ t.sendInit
      /\ s.sendInit => r = s
      /\ ~s.sendInit => Len(r.root) = Len(s.root) + 1
  BY SendEffect
<1>2. t.recvChain = s.recvChain /\ t.skipped = s.skipped
  BY DEF AfterSend, ReadyToSend, FirstSendRatchet, Session
<1> HIDE DEF r, t
<1>3. Len(s.root) \in Nat /\ Len(s.recvChain.root) \in Nat
  BY ChainFields DEF Session, RootKey
<1>4. Len(s.recvChain.root) =< Len(t.root)
  BY <1>1, <1>3 DEF ReceiveSound
<1>5. QED
  BY <1>1, <1>2, <1>4 DEF ReceiveSound, t

-----------------------------------------------------------------------------
\* Receiving keeps a session sound

LEMMA SkippedFields ==
    ASSUME NEW s \in Session
    PROVE  /\ s.recvChain \in Chain
           /\ s.recvCounter \in Nat
           /\ s.skipped \subseteq Skipped
           /\ \A e \in s.skipped : e.key \in DhKey /\ e.key.chain \in Chain
BY DEF Session, Skipped, DhKey

\* What staging adds lies between the old and the new position of the
\* receiving chain, each step once.
LEMMA StageEffect ==
    ASSUME NEW s \in Session, NEW upto \in Nat
    PROVE  LET t == Stage(s, upto)
               new == IF upto =< s.recvCounter THEN {} ELSE Skip(s, upto)
           IN  /\ t.remote = s.remote
               /\ t.recvChain.root = s.recvChain.root
               /\ t.recvChain.half = s.recvChain.half
               /\ s.recvChain.step =< t.recvChain.step
               /\ t.skipped = s.skipped \cup new
               /\ \A e \in new : /\ e.key.chain.root = s.recvChain.root
                                 /\ e.key.chain.half = s.recvChain.half
                                 /\ s.recvChain.step =< e.key.chain.step
                                 /\ e.key.chain.step < t.recvChain.step
               /\ \A e, f \in new : e.key = f.key => e = f
<1> DEFINE t == Stage(s, upto)
<1>1. s.recvChain \in Chain /\ s.recvCounter \in Nat
  BY SkippedFields
<1>2. s.recvChain.step \in Nat
  BY <1>1, ChainFields
<1>3. CASE upto =< s.recvCounter
  BY <1>2, <1>3 DEF Stage
<1>4. CASE ~(upto =< s.recvCounter)
  <2> DEFINE m == upto - s.recvCounter
             d == ChainAfter(s.recvChain, m)
  <2>1. t = [s EXCEPT !.skipped = @ \cup Skip(s, upto), !.recvChain = d,
                      !.recvCounter = upto]
    BY <1>4 DEF Stage
  <2>2. m \in Nat
    BY <1>1, <1>4
  <2>3. /\ d.root = s.recvChain.root
        /\ d.half = s.recvChain.half
        /\ d.step = s.recvChain.step + m
    BY <1>1 DEF ChainAfter, Chain
  <2> HIDE DEF d
  <2>4. /\ t.remote = s.remote
        /\ t.recvChain = d
        /\ t.skipped = s.skipped \cup Skip(s, upto)
    BY <2>1 DEF Session
  <2>5. ASSUME NEW n \in s.recvCounter .. (upto - 1)
        PROVE  LET c == ChainAfter(s.recvChain, n - s.recvCounter) IN
               /\ c.root = s.recvChain.root
               /\ c.half = s.recvChain.half
               /\ c.step = s.recvChain.step + (n - s.recvCounter)
    BY <1>1 DEF ChainAfter, Chain
  <2>6. ASSUME NEW e \in Skip(s, upto)
        PROVE  /\ e.key.chain.root = s.recvChain.root
               /\ e.key.chain.half = s.recvChain.half
               /\ s.recvChain.step =< e.key.chain.step
               /\ e.key.chain.step < d.step
    <3>1. PICK n \in s.recvCounter .. (upto - 1) :
              e.key.chain = ChainAfter(s.recvChain, n - s.recvCounter)
      BY DEF Skip, MessageKey
    <3>2. n \in Int /\ s.recvCounter =< n /\ n < upto
      BY <1>1
    <3>3. QED
      BY <1>1, <1>2, <2>2, <2>3, <2>5, <3>1, <3>2
  <2>7. ASSUME NEW e \in Skip(s, upto), NEW f \in Skip(s, upto),
               e.key = f.key
        PROVE  e = f
    <3>1. PICK n \in s.recvCounter .. (upto - 1) :
              e = [dh |-> s.remote, num |-> n,
                   key |-> MessageKey(ChainAfter(s.recvChain,
                               n - s.recvCounter), n)]
      BY DEF Skip
    <3>2. PICK i \in s.recvCounter .. (upto - 1) :
              f = [dh |-> s.remote, num |-> i,
                   key |-> MessageKey(ChainAfter(s.recvChain,
                               i - s.recvCounter), i)]
      BY DEF Skip
    <3>3. e.key.num = n /\ f.key.num = i
      BY <3>1, <3>2 DEF MessageKey
    <3>4. QED
      BY <2>7, <3>1, <3>2, <3>3
  <2> HIDE DEF t, m
  <2>8. s.recvChain.step =< d.step
    BY <1>2, <2>2, <2>3
  <2>9. QED
    BY <1>4, <2>3, <2>4, <2>6, <2>7, <2>8 DEF t
<1>5. QED
  BY <1>3, <1>4

LEMMA StageSound ==
    ASSUME NEW p \in Party, NEW s \in Session, NEW upto \in Nat,
           NEW used \in SUBSET DhKey, ReceiveSound(p, s, used)
    PROVE  ReceiveSound(p, Stage(s, upto), used)
<1> DEFINE t == Stage(s, upto)
           new == IF upto =< s.recvCounter THEN {} ELSE Skip(s, upto)
<1>1. /\ t.recvChain.root = s.recvChain.root
      /\ t.recvChain.half = s.recvChain.half
      /\ s.recvChain.step =< t.recvChain.step
      /\ t.skipped = s.skipped \cup new
      /\ \A e \in new : /\ e.key.chain.root = s.recvChain.root
                        /\ e.key.chain.half = s.recvChain.half
                        /\ s.recvChain.step =< e.key.chain.step
                        /\ e.key.chain.step < t.recvChain.step
      /\ \A e, f \in new : e.key = f.key => e = f
  BY StageEffect
<1>2. /\ t \in Session
      /\ t.root = s.root
      /\ t.sendInit = s.sendInit
      /\ t.sendChain = s.sendChain
  BY StageType
<1> HIDE DEF t, new
<1>3. /\ s.recvChain \in Chain
      /\ t.recvChain \in Chain
      /\ s.recvChain.step \in Nat
      /\ Len(s.recvChain.root) \in Nat
  BY <1>2, SkippedFields, ChainFields
<1>4. \A c \in Chain : Behind(c, s.recvChain) => Behind(c, t.recvChain)
  BY <1>1, <1>3, BehindTransitive
\* A new key is not behind the old position, so it is none of the old keys.
<1>5. ASSUME NEW e \in new
      PROVE  /\ HeardChain(p, e.key.chain)
             /\ Behind(e.key.chain, t.recvChain)
             /\ ~Behind(e.key.chain, s.recvChain)
  <2>1. HeardChain(p, s.recvChain)
    BY DEF ReceiveSound
  <2>2. HeardChain(p, e.key.chain)
    BY <2>1, <1>1 DEF HeardChain
  <2>3. e.key.chain.step \in Nat
    BY <1>2, <1>1, SkippedFields, ChainFields
  <2>4. QED
    BY <2>2, <2>3, <1>1, <1>3 DEF Behind
<1>6. \A k \in used : k.chain \in Chain
  BY DEF DhKey
<1>7. \A e \in s.skipped : e.key.chain \in Chain
  BY SkippedFields
<1>8. \A k \in used :
          HeardChain(p, k.chain) /\ Behind(k.chain, t.recvChain)
  BY <1>4, <1>6 DEF ReceiveSound
<1>9. \A e \in t.skipped : /\ HeardChain(p, e.key.chain)
                           /\ Behind(e.key.chain, t.recvChain)
                           /\ e.key \notin used
  BY <1>1, <1>4, <1>5, <1>7 DEF ReceiveSound
<1>10. \A e, f \in t.skipped : e.key = f.key => e = f
  BY <1>1, <1>5 DEF ReceiveSound
<1>11. HeardChain(p, t.recvChain)
  BY <1>1 DEF ReceiveSound, HeardChain
<1>12. QED
  BY <1>1, <1>2, <1>8, <1>9, <1>10, <1>11 DEF ReceiveSound, t

LEMMA DhRatchetSound ==
    ASSUME NEW p \in Party, NEW s \in Session, NEW remote \in PublicKey,
           NEW fresh \in PublicKey, NEW used \in SUBSET DhKey,
           ReceiveSound(p, s, used),
           HeardChain(p, DhRatchet(s, remote, fresh).recvChain)
    PROVE  LET t == DhRatchet(s, remote, fresh) IN
           /\ ReceiveSound(p, t, used)
           /\ Len(s.recvChain.root) < Len(t.recvChain.root)
<1> DEFINE t == DhRatchet(s, remote, fresh)
<1>1. /\ t \in Session
      /\ Len(t.root) = Len(s.root) + 2
      /\ t.sendChain.root = t.root
  BY DhRatchetType
<1>2. /\ t.recvChain = KdfChain(s.root, DH(s.our, remote))
      /\ t.skipped = s.skipped
  BY DEF DhRatchet, Session
<1> HIDE DEF t
<1>3. Len(t.recvChain.root) = Len(s.root) + 1 /\ Len(s.root) \in Nat
  <2>1. s.root \in RootKey /\ s.our \in PublicKey
    BY DEF Session
  <2>2. /\ KdfChain(s.root, DH(s.our, remote)).root
                = KdfRoot(s.root, DH(s.our, remote))
        /\ Len(KdfRoot(s.root, DH(s.our, remote))) = Len(s.root) + 1
        /\ Len(s.root) \in Nat
    BY <2>1, KdfType
  <2>3. QED
    BY <2>2, <1>2
<1>4. Len(s.recvChain.root) \in Nat
  BY SkippedFields, ChainFields
<1>5. Len(s.recvChain.root) < Len(t.recvChain.root)
  BY <1>3, <1>4 DEF ReceiveSound
<1>6. /\ \A k \in used : k.chain \in Chain
      /\ \A e \in s.skipped : e.key.chain \in Chain
      /\ s.recvChain \in Chain
      /\ t.recvChain \in Chain
  BY <1>1, SkippedFields DEF DhKey
<1>7. \A c \in Chain : Behind(c, s.recvChain) => Behind(c, t.recvChain)
  BY <1>5, <1>6, BehindTransitive
<1>8. Len(t.recvChain.root) < Len(t.sendChain.root)
  BY <1>1, <1>3
<1>9. Len(t.recvChain.root) =< Len(t.root)
  BY <1>1, <1>3
<1>10. HeardChain(p, t.recvChain)
  BY DEF t
<1>11. ReceiveSound(p, t, used)
  BY <1>2, <1>6, <1>7, <1>8, <1>9, <1>10 DEF ReceiveSound
<1>12. QED
  BY <1>5, <1>11 DEF t

\* The key decrypt() returns has not been used, it belongs to a chain the
\* peer sends on if the session stays sound, and is out of reach afterwards.
LEMMA ReceiveEffect ==
    ASSUME NEW s \in Session, NEW h \in Header, NEW fresh \in PublicKey
    PROVE  LET u == OnChain(s, h, fresh)
               v == Stage(u, h.num)
               t == AfterReceive(s, h, fresh)
               key == ReceiveKey(s, h, fresh).dh
           IN  /\ u \in Session /\ v \in Session /\ t \in Session
               /\ key \in DhKey
               /\ Cached(s, h) # {} =>
                      /\ t = [s EXCEPT !.skipped = @ \ Cached(s, h)]
                      /\ \E e \in s.skipped : e \in Cached(s, h) /\ e.key = key
               /\ Cached(s, h) = {} =>
                      /\ t = [v EXCEPT !.recvChain = ChainAfter(@, 1),
                                       !.recvCounter = @ + 1]
                      /\ key = MessageKey(v.recvChain, h.num)
<1> DEFINE u == OnChain(s, h, fresh)
           v == Stage(u, h.num)
           t == AfterReceive(s, h, fresh)
           key == ReceiveKey(s, h, fresh).dh
<1>1. h.dh \in PublicKey /\ h.prev \in Nat /\ h.num \in Nat
  BY DEF Header
<1>2. u \in Session
  <2>1. Stage(s, h.prev) \in Session
    BY <1>1, StageType
  <2>2. DhRatchet(Stage(s, h.prev), h.dh, fresh) \in Session
    BY <1>1, <2>1, DhRatchetType
  <2>3. QED
    BY <2>2 DEF OnChain
<1>3. v \in Session
  <2> HIDE DEF u
  <2>1. QED
    BY <1>1, <1>2, StageType
<1>4. t \in Session
  BY ReceiveType
<1>5. Cached(s, h) # {} =>
          /\ t = [s EXCEPT !.skipped = @ \ Cached(s, h)]
          /\ \E e \in s.skipped : e \in Cached(s, h) /\ e.key = key
  <2>1. SUFFICES ASSUME Cached(s, h) # {}
                 PROVE  /\ t = [s EXCEPT !.skipped = @ \ Cached(s, h)]
                        /\ \E e \in s.skipped :
                               e \in Cached(s, h) /\ e.key = key
    OBVIOUS
  <2> DEFINE e == CHOOSE x \in Cached(s, h) : TRUE
  <2>2. e \in Cached(s, h)
    BY <2>1
  <2>3. Cached(s, h) \subseteq s.skipped
    BY DEF Cached
  <2>4. key = e.key
    BY <2>1 DEF ReceiveKey, Combine
  <2> HIDE DEF e
  <2>5. t = [s EXCEPT !.skipped = @ \ Cached(s, h)]
    BY <2>1 DEF AfterReceive
  <2>6. QED
    BY <2>2, <2>3, <2>4, <2>5
<1>6. Cached(s, h) = {} =>
          /\ t = [v EXCEPT !.recvChain = ChainAfter(@, 1),
                           !.recvCounter = @ + 1]
          /\ key = MessageKey(v.recvChain, h.num)
  BY DEF AfterReceive, ReceiveKey, Combine
<1>7. key \in DhKey
  <2> HIDE DEF key, v
  <2>1. CASE Cached(s, h) # {}
    BY <2>1, <1>5, SkippedFields
  <2>2. CASE Cached(s, h) = {}
    BY <2>2, <1>1, <1>3, <1>6, SkippedFields DEF MessageKey, DhKey
  <2>3. QED
    BY <2>1, <2>2
<1>8. QED
  BY <1>2, <1>3, <1>4, <1>5, <1>6, <1>7

\* A DH ratchet leaves every key known so far behind.
LEMMA OnChainSound ==
    ASSUME NEW p \in Party, NEW s \in Session, NEW h \in Header,
           NEW fresh \in PublicKey, NEW used \in SUBSET DhKey,
           ReceiveSound(p, s, used),
           HeardChain(p, OnChain(s, h, fresh).recvChain)
    PROVE  ReceiveSound(p, OnChain(s, h, fresh), used)
<1>1. h.dh \in PublicKey /\ h.prev \in Nat
  BY DEF Header
<1>2. CASE h.dh = s.remote
  BY <1>2 DEF OnChain
<1>3. CASE h.dh # s.remote
  <2> DEFINE w == Stage(s, h.prev)
  <2>1. w \in Session /\ ReceiveSound(p, w, used)
    BY <1>1, StageType, StageSound
  <2>2. OnChain(s, h, fresh) = DhRatchet(w, h.dh, fresh)
    BY <1>3 DEF OnChain
  <2> HIDE DEF w
  <2>3. HeardChain(p, DhRatchet(w, h.dh, fresh).recvChain)
    BY <2>2
  <2>4. ReceiveSound(p, DhRatchet(w, h.dh, fresh), used)
    BY <1>1, <2>1, <2>3, DhRatchetSound
  <2>5. QED
    BY <2>2, <2>4
<1>4. QED
  BY <1>2, <1>3

\* Receiving a key of a chain the peer may send on.
LEMMA ReceiveKeepsReceiveSound ==
    ASSUME NEW p \in Party, NEW s \in Session, NEW h \in Header,
           NEW fresh \in PublicKey, NEW used \in SUBSET DhKey,
           ReceiveSound(p, s, used),
           HeardChain(p, ReceiveKey(s, h, fresh).dh.chain)
    PROVE  LET key == ReceiveKey(s, h, fresh).dh IN
           /\ key \notin used
           /\ ReceiveSound(p, AfterReceive(s, h, fresh), used \cup {key})
<1> DEFINE u == OnChain(s, h, fresh)
           v == Stage(u, h.num)
           t == AfterReceive(s, h, fresh)
           key == ReceiveKey(s, h, fresh).dh
<1>1. /\ u \in Session /\ v \in Session /\ t \in Session
      /\ key \in DhKey
      /\ Cached(s, h) # {} =>
             /\ t = [s EXCEPT !.skipped = @ \ Cached(s, h)]
             /\ \E e \in s.skipped : e \in Cached(s, h) /\ e.key = key
      /\ Cached(s, h) = {} =>
             /\ t = [v EXCEPT !.recvChain = ChainAfter(@, 1),
                              !.recvCounter = @ + 1]
             /\ key = MessageKey(v.recvChain, h.num)
  BY ReceiveEffect
<1>2. HeardChain(p, key.chain)
  OBVIOUS
<1>3. CASE Cached(s, h) # {}
  <2> HIDE DEF u, v, t, key
  <2>1. PICK e \in s.skipped : e \in Cached(s, h) /\ e.key = key
    BY <1>1, <1>3
  <2>2. /\ t.root = s.root
        /\ t.sendInit = s.sendInit
        /\ t.sendChain = s.sendChain
        /\ t.recvChain = s.recvChain
        /\ t.skipped = s.skipped \ Cached(s, h)
    BY <1>1, <1>3 DEF Session
  <2>3. key \notin used /\ Behind(key.chain, s.recvChain)
    BY <2>1 DEF ReceiveSound
\* Every other stored key is another key.
  <2>4. \A f \in t.skipped : f \in s.skipped /\ f.key # key
    BY <2>1, <2>2 DEF ReceiveSound
  <2>5. ReceiveSound(p, t, used \cup {key})
    BY <1>2, <2>2, <2>3, <2>4 DEF ReceiveSound
  <2>6. QED
    BY <2>3, <2>5 DEF t, key
<1>4. CASE Cached(s, h) = {}
  <2>1. h.num \in Nat
    BY DEF Header
  <2>2. /\ v.recvChain.root = u.recvChain.root
        /\ v.recvChain.half = u.recvChain.half
    <3> HIDE DEF u
    <3>1. QED
      BY <1>1, <2>1, StageEffect
  <2>3. key.chain = v.recvChain
    BY <1>1, <1>4 DEF MessageKey
  <2>4. HeardChain(p, u.recvChain)
    <3> HIDE DEF u, v, key
    <3>1. QED
      BY <1>2, <2>2, <2>3 DEF HeardChain
  <2>5. ReceiveSound(p, u, used)
    BY <2>4, OnChainSound
  <2>6. ReceiveSound(p, v, used)
    <3> HIDE DEF u
    <3>1. QED
      BY <1>1, <2>1, <2>5, StageSound
  <2> DEFINE d == ChainAfter(v.recvChain, 1)
             n == v.recvCounter + 1
  <2>7. t = [v EXCEPT !.recvChain = d, !.recvCounter = n]
    BY <1>1, <1>4
  <2> HIDE DEF u, v, t, key
  <2>8. v.recvChain \in Chain /\ v.recvChain.step \in Nat
    BY <1>1, SkippedFields, ChainFields
  <2>9. /\ d.root = v.recvChain.root
        /\ d.half = v.recvChain.half
        /\ d.step = v.recvChain.step + 1
    BY <2>8 DEF ChainAfter, Chain
  <2> HIDE DEF d, n
  <2>10. /\ t.root = v.root
         /\ t.sendInit = v.sendInit
         /\ t.sendChain = v.sendChain
         /\ t.recvChain = d
         /\ t.skipped = v.skipped
    BY <1>1, <2>7 DEF Session
  <2>11. d \in Chain
    BY <1>1, <2>10, SkippedFields
  <2>12. ~Behind(v.recvChain, v.recvChain)
    BY <2>8, ChainFields DEF Behind
  <2>13. Behind(v.recvChain, d)
    BY <2>8, <2>9 DEF Behind
  <2>14. key \notin used /\ \A e \in v.skipped : e.key # key
    BY <2>3, <2>6, <2>12 DEF ReceiveSound
  <2>15. \A c \in Chain : Behind(c, v.recvChain) => Behind(c, d)
    BY <2>8, <2>9, <2>11, BehindTransitive
  <2>16. /\ \A k \in used : k.chain \in Chain
         /\ \A e \in v.skipped : e.key.chain \in Chain
    BY <1>1, SkippedFields DEF DhKey
  <2>17. HeardChain(p, d)
    BY <2>6, <2>9 DEF ReceiveSound, HeardChain
  <2>18. /\ Len(d.root) =< Len(t.root)
         /\ \/ t.sendInit
            \/ t.sendChain.root = <<>> /\ t.sendChain.half = "dead"
            \/ Len(d.root) < Len(t.sendChain.root)
    BY <2>6, <2>9, <2>10 DEF ReceiveSound
  <2>19. \A k \in used \cup {key} :
             HeardChain(p, k.chain) /\ Behind(k.chain, d)
    BY <1>2, <2>3, <2>6, <2>13, <2>15, <2>16 DEF ReceiveSound
  <2>20. \A e \in t.skipped : /\ HeardChain(p, e.key.chain)
                              /\ Behind(e.key.chain, d)
                              /\ e.key \notin used \cup {key}
    BY <2>6, <2>10, <2>14, <2>15, <2>16 DEF ReceiveSound
  <2>21. \A e, f \in t.skipped : e.key = f.key => e = f
    BY <2>6, <2>10 DEF ReceiveSound
  <2>22. ReceiveSound(p, t, used \cup {key})
    BY <2>10, <2>17, <2>18, <2>19, <2>20, <2>21 DEF ReceiveSound
  <2>23. QED
    BY <2>14, <2>22 DEF t, key
<1>5. QED
  BY <1>3, <1>4

\* Receiving does not touch the sending chain, or cuts a new one two roots
\* further on.
LEMMA ReceiveKeepsSendSound ==
    ASSUME NEW p \in Party, NEW s \in Session, NEW h \in Header,
           NEW fresh \in PublicKey, NEW keys \in SUBSET DhKey,
           SendSound(p, s, keys)
    PROVE  SendSound(p, AfterReceive(s, h, fresh), keys)
<1> DEFINE t == AfterReceive(s, h, fresh)
<1>1. /\ t \in Session
      /\ t.sendInit = s.sendInit
      /\ \/ t.root = s.root /\ t.sendChain = s.sendChain
         \/ Len(t.root) = Len(s.root) + 2 /\ t.sendChain.root = t.root
  BY ReceiveType
<1> HIDE DEF t
<1>2. CASE t.root = s.root /\ t.sendChain = s.sendChain
  BY <1>1, <1>2 DEF SendSound, t
<1>3. CASE Len(t.root) = Len(s.root) + 2 /\ t.sendChain.root = t.root
  <2>1. Len(s.root) \in Nat /\ Len(<<>>) = 0
    BY DEF Session, RootKey
  <2>2. ParityOf(t.root) = ParityOf(s.root)
    BY <2>1, <1>3, ParityStep DEF ParityOf
  <2>3. t.root # <<>>
    BY <2>1, <1>3
  <2>4. s.sendInit => SentChain(p, t.sendChain)
    BY <2>2, <2>3, <1>3 DEF SendSound, SentChain
  <2>5. s.sendInit => Len(s.sendChain.root) < Len(t.sendChain.root)
    BY <2>1, <1>3 DEF SendSound
  <2>6. /\ \A k \in keys : k.chain \in Chain
        /\ s.sendChain \in Chain
        /\ t.sendChain \in Chain
    BY <1>1 DEF Session, DhKey
  <2>7. \A k \in keys : Behind(k.chain, t.sendChain)
    BY <2>5, <2>6, BehindTransitive DEF SendSound
  <2>8. SendSound(p, t, keys)
    BY <1>1, <1>3, <2>2, <2>4, <2>7 DEF SendSound
  <2>9. QED
    BY <2>8 DEF t
<1>4. QED
  BY <1>1, <1>2, <1>3

-----------------------------------------------------------------------------
\* The cache of skipped keys

CacheBounded(s) ==
    IsFiniteSet(s.skipped) /\ Cardinality(s.skipped) =< MaxSkippedTotal

LEMMA StageCardinality ==
    ASSUME NEW s \in Session, NEW upto \in Nat, IsFiniteSet(s.skipped)
    PROVE  LET t == Stage(s, upto) IN
           /\ IsFiniteSet(t.skipped)
           /\ Cardinality(t.skipped) =<
                  Cardinality(s.skipped) + (t.recvCounter - s.recvCounter)
           /\ Cardinality(t.skipped) \in Nat
           /\ Cardinality(s.skipped) \in Nat
<1>1. s.recvCounter \in Nat /\ Cardinality(s.skipped) \in Nat
  BY SkippedFields, FS_CardinalityType
<1>2. CASE upto =< s.recvCounter
  BY <1>1, <1>2 DEF Stage
<1>3. CASE ~(upto =< s.recvCounter)
  <2> DEFINE I == s.recvCounter .. (upto - 1)
             Op(n) == [ dh  |-> s.remote,
                        num |-> n,
                        key |-> MessageKey(
                            ChainAfter(s.recvChain, n - s.recvCounter), n) ]
  <2> DEFINE a == s.recvCounter
             b == upto - 1
  <2>1. IsFiniteSet(I) /\ Cardinality(I) = upto - s.recvCounter
    <3>1. a \in Int /\ b \in Int /\ ~(a > b)
      BY <1>1, <1>3
    <3>2. b - a + 1 = upto - s.recvCounter
      BY <1>1
    <3>3. I = a .. b
      OBVIOUS
    <3> HIDE DEF a, b, I
    <3>4. IsFiniteSet(a .. b) /\ Cardinality(a .. b) = b - a + 1
      BY <3>1, FS_Interval
    <3>5. QED
      BY <3>2, <3>3, <3>4
  <2>2. Skip(s, upto) = {Op(n) : n \in I}
    BY DEF Skip
  <2> DEFINE f == [n \in I |-> Op(n)]
  <2>3. Skip(s, upto) = {f[n] : n \in I}
    BY <2>2
  <2>4. f \in Surjection(I, Skip(s, upto))
    BY <2>3 DEF Surjection
  <2> HIDE DEF f, I
  <2>5. /\ IsFiniteSet(Skip(s, upto))
        /\ Cardinality(Skip(s, upto)) =< Cardinality(I)
    BY <2>1, <2>4, FS_Surjection
  <2>6. /\ IsFiniteSet(s.skipped \cup Skip(s, upto))
        /\ Cardinality(s.skipped \cup Skip(s, upto)) =
               Cardinality(s.skipped) + Cardinality(Skip(s, upto))
                   - Cardinality(s.skipped \cap Skip(s, upto))
    BY <2>5, FS_Union
  <2>7. /\ Cardinality(Skip(s, upto)) \in Nat
        /\ Cardinality(s.skipped \cap Skip(s, upto)) \in Nat
        /\ Cardinality(s.skipped \cup Skip(s, upto)) \in Nat
    <3>1. IsFiniteSet(s.skipped \cap Skip(s, upto))
      BY <2>5, FS_Intersection
    <3>2. QED
      BY <3>1, <2>5, <2>6, FS_CardinalityType
  <2>8. Cardinality(s.skipped \cup Skip(s, upto)) =<
            Cardinality(s.skipped) + (upto - s.recvCounter)
    BY <1>1, <2>1, <2>5, <2>6, <2>7
  <2>9. /\ Stage(s, upto).skipped = s.skipped \cup Skip(s, upto)
        /\ Stage(s, upto).recvCounter = upto
    BY <1>3 DEF Stage, Session
  <2>10. QED
    BY <1>1, <2>6, <2>7, <2>8, <2>9
<1>4. QED
  BY <1>2, <1>3

LEMMA StageBounded ==
    ASSUME NEW s \in Session, NEW upto \in Nat, CacheBounded(s),
           CanStage(s, upto)
    PROVE  CacheBounded(Stage(s, upto))
<1>1. s.recvCounter \in Nat
  BY SkippedFields
<1>2. CASE upto =< s.recvCounter
  BY <1>2 DEF Stage
<1>3. CASE ~(upto =< s.recvCounter)
  <2> DEFINE t == Stage(s, upto)
  <2>1. t.recvCounter = upto
    BY <1>3 DEF Stage, Session
  <2> HIDE DEF t
  <2>2. /\ IsFiniteSet(t.skipped)
        /\ Cardinality(t.skipped) =<
               Cardinality(s.skipped) + (upto - s.recvCounter)
        /\ Cardinality(t.skipped) \in Nat
        /\ Cardinality(s.skipped) \in Nat
    BY <2>1, StageCardinality DEF CacheBounded, t
  <2>3. Cardinality(s.skipped) + (upto - s.recvCounter) =< MaxSkippedTotal
    BY <1>1, <1>3 DEF CanStage
  <2>4. QED
    BY <1>1, <2>2, <2>3, LimitsAssumption DEF CacheBounded, t
<1>4. QED
  BY <1>2, <1>3

\* A receive that does not throw passed both limits for everything it files.
LEMMA ReceiveBounded ==
    ASSUME NEW s \in Session, NEW h \in Header, NEW fresh \in PublicKey,
           CacheBounded(s), Accepts(s, h, fresh)
    PROVE  CacheBounded(AfterReceive(s, h, fresh))
<1> DEFINE u == OnChain(s, h, fresh)
           v == Stage(u, h.num)
           t == AfterReceive(s, h, fresh)
<1>1. h.dh \in PublicKey /\ h.prev \in Nat /\ h.num \in Nat
  BY DEF Header
<1>2. /\ u \in Session /\ v \in Session
      /\ Cached(s, h) # {} => t = [s EXCEPT !.skipped = @ \ Cached(s, h)]
      /\ Cached(s, h) = {} =>
             t = [v EXCEPT !.recvChain = ChainAfter(@, 1),
                           !.recvCounter = @ + 1]
  BY ReceiveEffect
<1>3. CASE Cached(s, h) # {}
  <2>1. t.skipped = s.skipped \ Cached(s, h)
    BY <1>2, <1>3 DEF Session
  <2> HIDE DEF t
  <2>2. /\ IsFiniteSet(s.skipped \ Cached(s, h))
        /\ Cardinality(s.skipped \ Cached(s, h)) =< Cardinality(s.skipped)
    <3>1. s.skipped \ Cached(s, h) \subseteq s.skipped
      OBVIOUS
    <3>2. QED
      BY <3>1, FS_Subset DEF CacheBounded
  <2>3. /\ Cardinality(s.skipped) \in Nat
        /\ Cardinality(s.skipped \ Cached(s, h)) \in Nat
    BY <2>2, FS_CardinalityType DEF CacheBounded
  <2>4. QED
    BY <2>1, <2>2, <2>3, LimitsAssumption DEF CacheBounded, t
<1>4. CASE Cached(s, h) = {}
  <2>1. /\ h.dh # s.remote => CanStage(s, h.prev)
        /\ CanStage(u, h.num)
    BY <1>4 DEF Accepts
  <2>2. CacheBounded(u)
    <3>1. CASE h.dh = s.remote
      BY <3>1 DEF OnChain
    <3>2. CASE h.dh # s.remote
      <4> DEFINE w == Stage(s, h.prev)
      <4>1. w \in Session /\ CacheBounded(w)
        BY <1>1, <2>1, <3>2, StageType, StageBounded
      <4>2. u = DhRatchet(w, h.dh, fresh)
        BY <3>2 DEF OnChain
      <4> HIDE DEF w, u
      <4>3. u.skipped = w.skipped
        BY <4>1, <4>2 DEF DhRatchet, Session
      <4>4. QED
        BY <4>1, <4>3 DEF CacheBounded
    <3>3. QED
      BY <3>1, <3>2
  <2>3. CacheBounded(v)
    <3> HIDE DEF u
    <3>1. QED
      BY <1>1, <1>2, <2>1, <2>2, StageBounded
  <2>4. t.skipped = v.skipped
    BY <1>2, <1>4 DEF Session
  <2>5. QED
    BY <2>3, <2>4 DEF CacheBounded
<1>5. QED
  BY <1>3, <1>4

LEMMA SendBounded ==
    ASSUME NEW s \in Session, NEW fresh \in PublicKey, CacheBounded(s)
    PROVE  CacheBounded(AfterSend(s, fresh))
<1>1. AfterSend(s, fresh).skipped = s.skipped
  BY DEF AfterSend, ReadyToSend, FirstSendRatchet, Session
<1>2. QED
  BY <1>1 DEF CacheBounded

-----------------------------------------------------------------------------
\* The fields of a session after each operation

LEMMA ChainEqual ==
    ASSUME NEW c \in Chain, NEW d \in Chain,
           c.root = d.root, c.half = d.half, c.step = d.step
    PROVE  c = d
BY DEF Chain

LEMMA PublicKeyFields ==
    ASSUME NEW a \in PublicKey
    PROVE  /\ a[1] \in Party
           /\ a[2] \in Nat
           /\ \A b \in PublicKey : a[1] = b[1] /\ a[2] = b[2] => a = b
BY DEF PublicKey

LEMMA CounterFields ==
    ASSUME NEW s \in Session
    PROVE  /\ s.root \in RootKey
           /\ s.sendInit \in BOOLEAN
           /\ s.sendChain \in Chain /\ s.sendChain.step \in Nat
           /\ s.recvChain \in Chain /\ s.recvChain.step \in Nat
           /\ s.sendCounter \in Nat
           /\ s.recvCounter \in Nat
           /\ s.prevSend \in Nat
           /\ s.our \in PublicKey
           /\ s.remote \in PublicKey
           /\ s.skipped \subseteq Skipped
BY ChainFields DEF Session

\* Staging files one key for every counter it passes, cut from the receiving
\* chain at that counter.
LEMMA StageFields ==
    ASSUME NEW s \in Session, NEW upto \in Nat
    PROVE  LET t == Stage(s, upto) IN
           /\ t \in Session
           /\ t.root = s.root
           /\ t.sendInit = s.sendInit
           /\ t.sendChain = s.sendChain
           /\ t.sendCounter = s.sendCounter
           /\ t.prevSend = s.prevSend
           /\ t.our = s.our
           /\ t.remote = s.remote
           /\ t.recvChain.root = s.recvChain.root
           /\ t.recvChain.half = s.recvChain.half
           /\ t.recvCounter = IF upto =< s.recvCounter THEN s.recvCounter
                              ELSE upto
           /\ t.recvChain.step =
                  s.recvChain.step + (t.recvCounter - s.recvCounter)
           /\ s.skipped \subseteq t.skipped
           /\ \A n \in Nat :
                  s.recvCounter =< n /\ n < upto =>
                      \E f \in t.skipped : f.dh = s.remote /\ f.num = n
           /\ \A f \in t.skipped :
                  \/ f \in s.skipped
                  \/ /\ f.dh = s.remote
                     /\ s.recvCounter =< f.num /\ f.num < upto
                     /\ f.key.num = f.num
                     /\ f.key.chain.root = s.recvChain.root
                     /\ f.key.chain.half = s.recvChain.half
                     /\ f.key.chain.step =
                            s.recvChain.step + (f.num - s.recvCounter)
<1> DEFINE t == Stage(s, upto)
<1>1. /\ s.recvCounter \in Nat
      /\ s.recvChain \in Chain
      /\ s.recvChain.step \in Nat
  BY CounterFields
<1>2. t \in Session
  BY StageType
<1>3. CASE upto =< s.recvCounter
  <2>1. t = s
    BY <1>3 DEF Stage
  <2>2. s.recvChain.step = s.recvChain.step + (s.recvCounter - s.recvCounter)
    BY <1>1
  <2>3. \A n \in Nat : ~(s.recvCounter =< n /\ n < upto)
    BY <1>1, <1>3
  <2> HIDE DEF t
  <2>4. QED
    BY <1>2, <1>3, <2>1, <2>2, <2>3 DEF t
<1>4. CASE ~(upto =< s.recvCounter)
  <2> DEFINE m == upto - s.recvCounter
             d == ChainAfter(s.recvChain, m)
             Filed(n) == [ dh  |-> s.remote,
                           num |-> n,
                           key |-> MessageKey(ChainAfter(s.recvChain,
                                                  n - s.recvCounter), n) ]
  <2>1. t = [s EXCEPT !.skipped = @ \cup Skip(s, upto), !.recvChain = d,
                      !.recvCounter = upto]
    BY <1>4 DEF Stage
  <2>2. ASSUME NEW n \in Int
        PROVE  LET c == ChainAfter(s.recvChain, n) IN
               /\ c.root = s.recvChain.root
               /\ c.half = s.recvChain.half
               /\ c.step = s.recvChain.step + n
    BY <1>1 DEF ChainAfter, Chain
  <2>3. /\ d.root = s.recvChain.root
        /\ d.half = s.recvChain.half
        /\ d.step = s.recvChain.step + (upto - s.recvCounter)
    BY <1>1, <2>2
  <2> HIDE DEF d
  <2>4. /\ t.root = s.root
        /\ t.sendInit = s.sendInit
        /\ t.sendChain = s.sendChain
        /\ t.sendCounter = s.sendCounter
        /\ t.prevSend = s.prevSend
        /\ t.our = s.our
        /\ t.remote = s.remote
        /\ t.recvChain = d
        /\ t.recvCounter = upto
        /\ t.skipped = s.skipped \cup Skip(s, upto)
    BY <2>1 DEF Session
  <2>5. Skip(s, upto) = {Filed(n) : n \in s.recvCounter .. (upto - 1)}
    BY DEF Skip
  <2>6. ASSUME NEW n \in Nat, s.recvCounter =< n, n < upto
        PROVE  \E f \in t.skipped : f.dh = s.remote /\ f.num = n
    <3>1. n \in s.recvCounter .. (upto - 1)
      BY <1>1, <2>6
    <3>2. Filed(n) \in t.skipped
      BY <2>4, <2>5, <3>1
    <3>3. QED
      BY <3>2
  <2>7. ASSUME NEW f \in Skip(s, upto)
        PROVE  /\ f.dh = s.remote
               /\ s.recvCounter =< f.num /\ f.num < upto
               /\ f.key.num = f.num
               /\ f.key.chain.root = s.recvChain.root
               /\ f.key.chain.half = s.recvChain.half
               /\ f.key.chain.step =
                      s.recvChain.step + (f.num - s.recvCounter)
    <3>1. PICK n \in s.recvCounter .. (upto - 1) : f = Filed(n)
      BY <2>5
    <3>2. n \in Int /\ s.recvCounter =< n /\ n < upto
      BY <1>1
    <3>3. /\ f.dh = s.remote
          /\ f.num = n
          /\ f.key.num = n
          /\ f.key.chain = ChainAfter(s.recvChain, n - s.recvCounter)
      BY <3>1 DEF MessageKey
    <3>4. n - s.recvCounter \in Int
      BY <1>1, <3>2
    <3>5. QED
      BY <3>2, <3>3, <3>4, <2>2
  <2> HIDE DEF t, m, Filed
  <2>8. QED
    BY <1>2, <1>4, <2>3, <2>4, <2>6, <2>7 DEF t
<1>5. QED
  BY <1>3, <1>4

\* What the callers of staging need most often.
LEMMA StageKeeps ==
    ASSUME NEW s \in Session, NEW upto \in Nat
    PROVE  /\ Stage(s, upto) \in Session
           /\ Stage(s, upto).sendInit = s.sendInit
           /\ Stage(s, upto).sendCounter = s.sendCounter
           /\ Stage(s, upto).prevSend = s.prevSend
           /\ Stage(s, upto).our = s.our
           /\ Stage(s, upto).remote = s.remote
           /\ Stage(s, upto).recvCounter =
                  IF upto =< s.recvCounter THEN s.recvCounter ELSE upto
<1> DEFINE t == Stage(s, upto)
<1>1. /\ t \in Session
      /\ t.sendInit = s.sendInit
      /\ t.sendCounter = s.sendCounter
      /\ t.prevSend = s.prevSend
      /\ t.our = s.our
      /\ t.remote = s.remote
      /\ t.recvCounter = IF upto =< s.recvCounter THEN s.recvCounter ELSE upto
  BY StageFields
<1>2. QED
  BY <1>1

LEMMA DhRatchetSends ==
    ASSUME NEW s \in Session, NEW remote \in PublicKey,
           NEW fresh \in PublicKey
    PROVE  LET t == DhRatchet(s, remote, fresh) IN
           /\ t \in Session
           /\ t.root = Append(Append(s.root, DH(s.our, remote)),
                             DH(fresh, remote))
           /\ t.sendInit = s.sendInit
           /\ t.sendChain = ChainKey(t.root, "kdf")
           /\ t.sendCounter = 0
           /\ t.prevSend = s.sendCounter
           /\ t.our = fresh
<1>1. DhRatchet(s, remote, fresh) \in Session
  BY DhRatchetType
<1>2. QED
  BY <1>1 DEF DhRatchet, KdfRoot, KdfChain, Session

LEMMA DhRatchetCounts ==
    ASSUME NEW s \in Session, NEW remote \in PublicKey,
           NEW fresh \in PublicKey
    PROVE  /\ DhRatchet(s, remote, fresh) \in Session
           /\ DhRatchet(s, remote, fresh).sendInit = s.sendInit
           /\ DhRatchet(s, remote, fresh).sendCounter = 0
           /\ DhRatchet(s, remote, fresh).prevSend = s.sendCounter
           /\ DhRatchet(s, remote, fresh).our = fresh
<1>1. DhRatchet(s, remote, fresh) \in Session
  BY DhRatchetType
<1>2. QED
  BY <1>1 DEF DhRatchet, KdfRoot, KdfChain, Session

LEMMA DhRatchetReceives ==
    ASSUME NEW s \in Session, NEW remote \in PublicKey,
           NEW fresh \in PublicKey
    PROVE  LET t == DhRatchet(s, remote, fresh) IN
           /\ t \in Session
           /\ t.recvChain = ChainKey(Append(s.root, DH(s.our, remote)), "kdf")
           /\ t.recvCounter = 0
           /\ t.remote = remote
           /\ t.skipped = s.skipped
<1>1. DhRatchet(s, remote, fresh) \in Session
  BY DhRatchetType
<1>2. QED
  BY <1>1 DEF DhRatchet, KdfRoot, KdfChain, Session

LEMMA FirstSendFields ==
    ASSUME NEW s \in Session, NEW fresh \in PublicKey
    PROVE  LET t == FirstSendRatchet(s, fresh) IN
           /\ t \in Session
           /\ t.root = Append(s.root, DH(fresh, s.remote))
           /\ t.sendInit
           /\ t.sendChain = ChainKey(t.root, "kdf")
           /\ t.sendCounter = s.sendCounter
           /\ t.prevSend = s.sendCounter
           /\ t.recvChain = s.recvChain
           /\ t.recvCounter = s.recvCounter
           /\ t.our = fresh
           /\ t.remote = s.remote
           /\ t.skipped = s.skipped
<1>1. s.root \in RootKey /\ s.remote \in PublicKey /\ s.sendCounter \in Nat
  BY CounterFields
<1>2. /\ Append(s.root, DH(fresh, s.remote)) \in RootKey
      /\ ChainKey(Append(s.root, DH(fresh, s.remote)), "kdf") \in Chain
  BY <1>1, KdfType DEF KdfRoot, KdfChain
<1>3. FirstSendRatchet(s, fresh) =
          [s EXCEPT !.our = fresh,
                    !.root = Append(s.root, DH(fresh, s.remote)),
                    !.sendChain =
                        ChainKey(Append(s.root, DH(fresh, s.remote)), "kdf"),
                    !.prevSend = s.sendCounter, !.sendInit = TRUE]
  BY DEF FirstSendRatchet, KdfRoot, KdfChain
<1>4. QED
  BY <1>1, <1>2, <1>3 DEF Session

\* The chain moves one step, past the key that was used.
LEMMA AdvanceSendFields ==
    ASSUME NEW s \in Session
    PROVE  LET t == [s EXCEPT !.sendChain = ChainAfter(@, 1),
                              !.sendCounter = @ + 1]
           IN  /\ t \in Session
               /\ t.root = s.root
               /\ t.sendInit = s.sendInit
               /\ t.sendChain.root = s.sendChain.root
               /\ t.sendChain.half = s.sendChain.half
               /\ t.sendChain.step = s.sendChain.step + 1
               /\ t.sendCounter = s.sendCounter + 1
               /\ t.prevSend = s.prevSend
               /\ t.recvChain = s.recvChain
               /\ t.recvCounter = s.recvCounter
               /\ t.our = s.our
               /\ t.remote = s.remote
               /\ t.skipped = s.skipped
<1> DEFINE c == ChainAfter(s.sendChain, 1)
           n == s.sendCounter + 1
           t == [s EXCEPT !.sendChain = c, !.sendCounter = n]
<1>1. s.sendChain \in Chain /\ s.sendChain.step \in Nat /\ n \in Nat
  BY CounterFields
<1>2. /\ c \in Chain
      /\ c.root = s.sendChain.root
      /\ c.half = s.sendChain.half
      /\ c.step = s.sendChain.step + 1
  BY <1>1 DEF ChainAfter, Chain
<1>3. t = [s EXCEPT !.sendChain = ChainAfter(@, 1), !.sendCounter = @ + 1]
  OBVIOUS
<1> HIDE DEF c
<1>4. /\ t \in Session
      /\ t.root = s.root
      /\ t.sendInit = s.sendInit
      /\ t.sendChain = c
      /\ t.sendCounter = n
      /\ t.prevSend = s.prevSend
      /\ t.recvChain = s.recvChain
      /\ t.recvCounter = s.recvCounter
      /\ t.our = s.our
      /\ t.remote = s.remote
      /\ t.skipped = s.skipped
  BY <1>1, <1>2 DEF Session
<1> HIDE DEF t
<1>5. QED
  BY <1>2, <1>3, <1>4

LEMMA AdvanceReceiveFields ==
    ASSUME NEW s \in Session
    PROVE  LET t == [s EXCEPT !.recvChain = ChainAfter(@, 1),
                              !.recvCounter = @ + 1]
           IN  /\ t \in Session
               /\ t.root = s.root
               /\ t.sendInit = s.sendInit
               /\ t.sendChain = s.sendChain
               /\ t.sendCounter = s.sendCounter
               /\ t.prevSend = s.prevSend
               /\ t.recvChain.root = s.recvChain.root
               /\ t.recvChain.half = s.recvChain.half
               /\ t.recvChain.step = s.recvChain.step + 1
               /\ t.recvCounter = s.recvCounter + 1
               /\ t.our = s.our
               /\ t.remote = s.remote
               /\ t.skipped = s.skipped
<1> DEFINE c == ChainAfter(s.recvChain, 1)
           n == s.recvCounter + 1
           t == [s EXCEPT !.recvChain = c, !.recvCounter = n]
<1>1. s.recvChain \in Chain /\ s.recvChain.step \in Nat /\ n \in Nat
  BY CounterFields
<1>2. /\ c \in Chain
      /\ c.root = s.recvChain.root
      /\ c.half = s.recvChain.half
      /\ c.step = s.recvChain.step + 1
  BY <1>1 DEF ChainAfter, Chain
<1>3. t = [s EXCEPT !.recvChain = ChainAfter(@, 1), !.recvCounter = @ + 1]
  OBVIOUS
<1> HIDE DEF c
<1>4. /\ t \in Session
      /\ t.root = s.root
      /\ t.sendInit = s.sendInit
      /\ t.sendChain = s.sendChain
      /\ t.sendCounter = s.sendCounter
      /\ t.prevSend = s.prevSend
      /\ t.recvChain = c
      /\ t.recvCounter = n
      /\ t.our = s.our
      /\ t.remote = s.remote
      /\ t.skipped = s.skipped
  BY <1>1, <1>2 DEF Session
<1> HIDE DEF t
<1>5. QED
  BY <1>2, <1>3, <1>4

\* The key of a message that is not cached is the one the receiving chain
\* has for its counter, once the session is on the message's chain.
LEMMA ChainKeyReceived ==
    ASSUME NEW s \in Session, NEW h \in Header, NEW fresh \in PublicKey,
           Cached(s, h) = {},
           OnChain(s, h, fresh).recvCounter =< h.num
    PROVE  LET u == OnChain(s, h, fresh)
               key == ReceiveKey(s, h, fresh)
           IN  /\ key.dh \in DhKey
               /\ key.epoch = h.epoch
               /\ key.dh.num = h.num
               /\ key.dh.chain.root = u.recvChain.root
               /\ key.dh.chain.half = u.recvChain.half
               /\ key.dh.chain.step =
                      u.recvChain.step + (h.num - u.recvCounter)
<1> DEFINE u == OnChain(s, h, fresh)
           v == Stage(u, h.num)
           key == ReceiveKey(s, h, fresh)
<1>1. u \in Session /\ key.dh \in DhKey /\ key.dh = MessageKey(v.recvChain, h.num)
  BY ReceiveEffect
<1>2. key.epoch = h.epoch
  BY DEF ReceiveKey, Combine
<1>3. h.num \in Nat
  BY DEF Header
<1> HIDE DEF u, key
<1>4. u.recvCounter \in Nat /\ u.recvCounter =< h.num
  BY <1>1, CounterFields DEF u
<1>5. /\ v.recvChain.root = u.recvChain.root
      /\ v.recvChain.half = u.recvChain.half
      /\ v.recvCounter = IF h.num =< u.recvCounter THEN u.recvCounter
                         ELSE h.num
      /\ v.recvChain.step = u.recvChain.step + (v.recvCounter - u.recvCounter)
  BY <1>1, <1>3, StageFields
<1>6. v.recvCounter = h.num
  BY <1>3, <1>4, <1>5
<1> HIDE DEF v
<1>7. QED
  BY <1>1, <1>2, <1>5, <1>6 DEF MessageKey, u, key
-----------------------------------------------------------------------------
\* Two sessions in step

\* The counters of session s of p follow its chains; S is what p has sealed.
Aligned(p, s, S) ==
    /\ s.our[1] = p
    /\ s.remote[1] = Peer(p)
    /\ s.recvChain.step = s.recvCounter
    /\ s.sendChain.step = s.sendCounter
    /\ s.sendInit => /\ s.sendChain.root = s.root
                     /\ s.sendChain.half = IF s.root = <<>> THEN "A" ELSE "kdf"
    /\ ~s.sendInit => s.sendCounter = 0 /\ s.root = <<>> /\ S = {}

\* What p has sealed: a ratchet key and a counter name one message, sealed
\* with that step of a chain, the present one if the ratchet key is.
SealsInStep(p, s, S) ==
    /\ \A e \in S :
           /\ e.header.dh[1] = p
           /\ e.header.dh[2] =< s.our[2]
           /\ e.key.epoch = e.header.epoch
           /\ e.key.dh.num = e.header.num
           /\ e.key.dh.chain.step = e.header.num
           /\ e.header.dh = s.our =>
                  /\ e.key.dh.chain.root = s.sendChain.root
                  /\ e.key.dh.chain.half = s.sendChain.half
                  /\ e.header.prev = s.prevSend
                  /\ e.header.num < s.sendCounter
    /\ \A e, f \in S :
           e.header.dh = f.header.dh /\ e.header.num = f.header.num => e = f

\* The owner of s has received on the chain the owner of t sends on now, and
\* has ratcheted once more (or not sent yet); what it sealed before that, S,
\* was on the chain t receives on.
Ahead(s, t, S) ==
    /\ t.sendInit
    /\ s.remote = t.our
    /\ s.recvChain.root = t.sendChain.root
    /\ s.recvChain.half = t.sendChain.half
    /\ s.recvCounter =< t.sendCounter
    /\ s.sendInit => /\ s.root = Append(t.root, DH(s.our, t.our))
                     /\ t.remote[2] + 1 = s.our[2]
    /\ ~s.sendInit => t.remote = s.our /\ t.root = <<>>
    /\ \A e \in S :
           e.header.dh = t.remote =>
               /\ e.header.num < s.prevSend
               /\ e.key.dh.chain.root = t.recvChain.root
               /\ e.key.dh.chain.half = t.recvChain.half

\* The skipped keys of session s of p are those of messages of the peer,
\* whose session is t and who has sealed T, ...
SkippedInStep(p, s, t, T) ==
    \A f \in s.skipped :
        /\ f.dh[1] = Peer(p)
        /\ f.dh[2] =< s.remote[2]
        /\ f.dh = t.our => f.num < t.sendCounter
        /\ \A e \in T : e.header.dh = f.dh /\ e.header.num = f.num =>
                            f.key = e.key.dh

\* ... and every message its chains have passed is opened (O) or skipped.
PassedInStep(s, T, O) ==
    \A e \in T :
        (\/ e.header.dh[2] < s.remote[2]
         \/ e.header.dh = s.remote /\ e.header.num < s.recvCounter) =>
            e \in O \/ Cached(s, e.header) # {}

Half(p, s, t, S, T, O) ==
    /\ Aligned(p, s, S)
    /\ SealsInStep(p, s, S)
    /\ SkippedInStep(p, s, t, T)
    /\ PassedInStep(s, T, O)

\* p has session s, sealed S and opened O; its peer t, T and Q.
InStep(p, s, t, S, T, O, Q) ==
    /\ Half(p, s, t, S, T, O)
    /\ Half(Peer(p), t, s, T, S, Q)
    /\ Ahead(s, t, S) \/ Ahead(t, s, T)

\* What the lemmas need of the type of an envelope.
IsEnvelope(e) == e.header \in Header /\ e.key \in Key
Envelopes(S) == \A e \in S : IsEnvelope(e)

LEMMA PeerPeer ==
    ASSUME NEW p \in Party
    PROVE  Peer(p) \in Party /\ Peer(Peer(p)) = p /\ Peer(p) # p
BY PartiesAssumption DEF Party, Peer

LEMMA RootGrows ==
    ASSUME NEW root \in RootKey, NEW a \in PublicKey, NEW b \in PublicKey
    PROVE  Append(root, DH(a, b)) # <<>>
<1>1. Len(Append(root, DH(a, b))) = Len(root) + 1 /\ Len(root) \in Nat
  BY KdfType DEF KdfRoot
<1>2. Len(<<>>) = 0
  OBVIOUS
<1>3. QED
  BY <1>1, <1>2

LEMMA EnvelopeFields ==
    ASSUME NEW e, IsEnvelope(e)
    PROVE  /\ e.header \in Header
           /\ e.header.dh \in PublicKey
           /\ e.header.dh[1] \in Party
           /\ e.header.dh[2] \in Nat
           /\ e.header.prev \in Nat
           /\ e.header.num \in Nat
           /\ e.key \in Key
           /\ e.key.dh \in DhKey
           /\ e.key.dh.chain \in Chain
<1>1. e.header \in Header /\ e.key \in Key
  BY DEF IsEnvelope
<1>2. /\ e.header.dh \in PublicKey
      /\ e.header.prev \in Nat
      /\ e.header.num \in Nat
      /\ e.key.dh \in DhKey
  BY <1>1 DEF Header, Key
<1>3. QED
  BY <1>1, <1>2, PublicKeyFields DEF DhKey

\* A message under the ratchet key a session has last accepted is on the
\* chain it receives on.
LEMMA RemoteChain ==
    ASSUME NEW p \in Party, NEW s \in Session, NEW t \in Session,
           NEW S, NEW T, Envelopes(S), Envelopes(T),
           NEW O, NEW Q, InStep(p, s, t, S, T, O, Q),
           NEW e \in T, e.header.dh = s.remote
    PROVE  /\ e.key.dh.chain.root = s.recvChain.root
           /\ e.key.dh.chain.half = s.recvChain.half
           /\ e.key.dh.chain.step = e.header.num
           /\ e.key.dh.num = e.header.num
<1>1. SealsInStep(Peer(p), t, T)
  BY DEF InStep, Half
<1>2. CASE Ahead(s, t, S)
  BY <1>1, <1>2 DEF Ahead, SealsInStep
<1>3. CASE Ahead(t, s, T)
  BY <1>1, <1>3 DEF Ahead, SealsInStep
<1>4. QED
  BY <1>2, <1>3 DEF InStep

\* A message under a ratchet key the session has not seen is on the present
\* chain of the peer, which is one DH ratchet ahead.
LEMMA NewRemote ==
    ASSUME NEW p \in Party, NEW s \in Session, NEW t \in Session,
           NEW S, NEW T, Envelopes(S), Envelopes(T),
           NEW O, NEW Q, InStep(p, s, t, S, T, O, Q),
           NEW e \in T, e.header.dh # s.remote,
           ~(e.header.dh[2] < s.remote[2])
    PROVE  /\ Ahead(t, s, T)
           /\ s.sendInit
           /\ t.sendInit
           /\ e.header.dh = t.our
           /\ e.header.prev = t.prevSend
           /\ e.header.num < t.sendCounter
           /\ e.key.dh.chain.root = t.root
           /\ e.key.dh.chain.half = "kdf"
           /\ e.key.dh.chain.step = e.header.num
           /\ e.key.dh.num = e.header.num
           /\ t.root = Append(s.root, DH(s.our, t.our))
           /\ s.remote[2] + 1 = t.our[2]
<1>1. /\ s.our \in PublicKey /\ s.remote \in PublicKey
      /\ t.our \in PublicKey /\ t.remote \in PublicKey
      /\ s.root \in RootKey
  BY CounterFields
<1>2. /\ s.remote[2] \in Nat /\ t.our[2] \in Nat /\ e.header.dh[2] \in Nat
      /\ e.header.dh \in PublicKey
  BY <1>1, PublicKeyFields, EnvelopeFields DEF Envelopes
<1>3. /\ e.header.dh[1] = Peer(p)
      /\ e.header.dh[2] =< t.our[2]
      /\ t.our[1] = Peer(p)
      /\ s.remote[1] = Peer(p)
  BY DEF InStep, Half, SealsInStep, Aligned
<1>4. e.header.dh[2] > s.remote[2]
  <2>1. e.header.dh[2] # s.remote[2]
    BY <1>1, <1>2, <1>3, PublicKeyFields
  <2>2. QED
    BY <1>2, <2>1
<1>5. Ahead(t, s, T)
  <2>1. ~Ahead(s, t, S)
    BY <1>2, <1>3, <1>4 DEF Ahead
  <2>2. QED
    BY <2>1 DEF InStep
<1>6. t.sendInit
  BY DEF InStep, Half, Aligned
<1>7. /\ s.sendInit
      /\ t.root = Append(s.root, DH(t.our, s.our))
      /\ s.remote[2] + 1 = t.our[2]
  BY <1>5, <1>6 DEF Ahead
<1>8. e.header.dh = t.our
  <2>1. e.header.dh[2] = t.our[2]
    BY <1>2, <1>3, <1>4, <1>7
  <2>2. QED
    BY <1>1, <1>2, <1>3, <2>1, PublicKeyFields
<1>9. DH(t.our, s.our) = DH(s.our, t.our)
  BY DEF DH
<1>10. t.root # <<>>
  <2>1. Append(s.root, DH(t.our, s.our)) # <<>>
    BY <1>1, RootGrows
  <2>2. QED
    BY <1>7, <2>1
<1>11. t.sendChain.root = t.root /\ t.sendChain.half = "kdf"
  BY <1>6, <1>10 DEF InStep, Half, Aligned
<1>12. SealsInStep(Peer(p), t, T)
  BY DEF InStep, Half
<1>13. QED
  BY <1>5, <1>6, <1>7, <1>8, <1>9, <1>11, <1>12 DEF SealsInStep

\* So what was neither opened nor refused by a skip limit opens.
LEMMA InStepOpens ==
    ASSUME NEW p \in Party, NEW s \in Session, NEW t \in Session,
           NEW S, NEW T, Envelopes(S), Envelopes(T),
           NEW O, NEW Q, InStep(p, s, t, S, T, O, Q),
           NEW e \in T, e \notin O, NEW fresh \in PublicKey,
           ~OverLimit(s, e.header, fresh)
    PROVE  Opens(s, e, fresh)
<1> DEFINE h == e.header
           u == OnChain(s, h, fresh)
           key == ReceiveKey(s, h, fresh)
<1>1. h \in Header /\ h.dh \in PublicKey /\ h.prev \in Nat /\ h.num \in Nat
      /\ e.key \in Key /\ e.key.dh \in DhKey /\ e.key.dh.chain \in Chain
  BY EnvelopeFields DEF Envelopes
<1>2. e.key.epoch = h.epoch
  BY DEF InStep, Half, SealsInStep
<1>3. CASE Cached(s, h) # {}
  <2>1. Accepts(s, h, fresh)
    BY <1>3 DEF Accepts
  <2> DEFINE f == CHOOSE x \in Cached(s, h) : TRUE
  <2>2. f \in Cached(s, h)
    BY <1>3
  <2>3. key = Combine(f.key, h.epoch)
    BY <1>3 DEF ReceiveKey
  <2> HIDE DEF f, key
  <2>4. f \in s.skipped /\ f.dh = h.dh /\ f.num = h.num
    BY <2>2 DEF Cached
  <2>5. f.key = e.key.dh
    BY <2>4 DEF InStep, Half, SkippedInStep
  <2>6. key = e.key
    BY <1>1, <1>2, <2>3, <2>5 DEF Combine, Key
  <2>7. QED
    BY <2>1, <2>6 DEF Opens, key
<1>4. CASE Cached(s, h) = {}
  <2>1. /\ ~(h.dh[2] < s.remote[2])
        /\ h.dh = s.remote => ~(h.num < s.recvCounter)
    BY <1>4 DEF InStep, Half, PassedInStep
  <2>2. /\ u.recvCounter =< h.num
        /\ u.recvChain.root = e.key.dh.chain.root
        /\ u.recvChain.half = e.key.dh.chain.half
        /\ u.recvChain.step = u.recvCounter
        /\ u.recvCounter \in Nat
        /\ e.key.dh.chain.step = h.num
        /\ e.key.dh.num = h.num
    <3>1. CASE h.dh = s.remote
      <4>1. u = s
        BY <3>1 DEF OnChain
      <4>2. /\ e.key.dh.chain.root = s.recvChain.root
            /\ e.key.dh.chain.half = s.recvChain.half
            /\ e.key.dh.chain.step = h.num
            /\ e.key.dh.num = h.num
        BY <3>1, RemoteChain
      <4>3. s.recvChain.step = s.recvCounter /\ s.recvCounter \in Nat
        BY CounterFields DEF InStep, Half, Aligned
      <4> HIDE DEF u
      <4>4. QED
        BY <1>1, <2>1, <3>1, <4>1, <4>2, <4>3
    <3>2. CASE h.dh # s.remote
      <4>1. /\ e.key.dh.chain.root = t.root
            /\ e.key.dh.chain.half = "kdf"
            /\ e.key.dh.chain.step = h.num
            /\ e.key.dh.num = h.num
            /\ h.dh = t.our
            /\ t.root = Append(s.root, DH(s.our, t.our))
        BY <2>1, <3>2, NewRemote
      <4> DEFINE w == Stage(s, h.prev)
      <4>2. w \in Session /\ w.root = s.root /\ w.our = s.our
        BY <1>1, StageFields
      <4>3. u = DhRatchet(w, h.dh, fresh)
        BY <3>2 DEF OnChain
      <4> HIDE DEF u, w
      <4>4. /\ u.recvChain = ChainKey(Append(w.root, DH(w.our, h.dh)), "kdf")
            /\ u.recvCounter = 0
        BY <1>1, <4>2, <4>3, DhRatchetReceives
      <4>5. /\ u.recvChain.root = t.root
            /\ u.recvChain.half = "kdf"
            /\ u.recvChain.step = 0
        BY <4>1, <4>2, <4>4 DEF ChainKey
      <4>6. QED
        BY <1>1, <4>1, <4>4, <4>5
    <3>3. QED
      BY <3>1, <3>2
  <2>3. Accepts(s, h, fresh)
    BY <1>4, <2>2, <1>1 DEF Accepts, OverLimit
  <2>4. /\ key.dh \in DhKey
        /\ key.epoch = h.epoch
        /\ key.dh.num = h.num
        /\ key.dh.chain.root = u.recvChain.root
        /\ key.dh.chain.half = u.recvChain.half
        /\ key.dh.chain.step = u.recvChain.step + (h.num - u.recvCounter)
    BY <1>1, <1>4, <2>2, ChainKeyReceived
  <2>5. key = Combine(key.dh, key.epoch)
    BY DEF ReceiveKey, Combine
  <2> HIDE DEF u, key
  <2>6. key.dh.chain.step = h.num
    BY <1>1, <2>2, <2>4
  <2>7. key.dh.chain = e.key.dh.chain
    <3>1. key.dh.chain \in Chain
      BY <2>4 DEF DhKey
    <3>2. QED
      BY <1>1, <2>2, <2>4, <2>6, <3>1, ChainEqual
  <2>8. key.dh = e.key.dh
    BY <1>1, <2>2, <2>4, <2>7 DEF DhKey
  <2>9. key = e.key
    BY <1>1, <1>2, <2>4, <2>5, <2>8 DEF Combine, Key
  <2>10. QED
    BY <2>3, <2>9 DEF Opens, key
<1>5. QED
  BY <1>3, <1>4

\* The start, and the two sends.

LEMMA InitInStep ==
    ASSUME NEW p \in Party
    PROVE  InStep(p, InitSession(p, Peer(p), p = Initiator),
                  InitSession(Peer(p), Peer(Peer(p)), Peer(p) = Initiator),
                  {}, {}, {}, {})
<1> DEFINE s == InitSession(p, Peer(p), p = Initiator)
           t == InitSession(Peer(p), Peer(Peer(p)), Peer(p) = Initiator)
<1>1. /\ s.root = <<>> /\ t.root = <<>>
      /\ s.sendInit = (p = Initiator)
      /\ t.sendInit = (Peer(p) = Initiator)
      /\ s.sendChain = ChainKey(<<>>, IF p = Initiator THEN "A" ELSE "dead")
      /\ t.sendChain =
             ChainKey(<<>>, IF Peer(p) = Initiator THEN "A" ELSE "dead")
      /\ s.recvChain = ChainKey(<<>>, IF p = Initiator THEN "B" ELSE "A")
      /\ t.recvChain = ChainKey(<<>>, IF Peer(p) = Initiator THEN "B" ELSE "A")
      /\ s.sendCounter = 0 /\ t.sendCounter = 0
      /\ s.recvCounter = 0 /\ t.recvCounter = 0
      /\ s.our = <<p, 0>> /\ s.remote = <<Peer(p), 0>>
      /\ t.our = <<Peer(p), 0>> /\ t.remote = <<p, 0>>
      /\ s.skipped = {} /\ t.skipped = {}
  BY PeerPeer DEF InitSession
<1>2. p = Initiator <=> Peer(p) # Initiator
  BY PartiesAssumption DEF Party, Peer
<1> HIDE DEF s, t
<1>3. /\ s.sendChain.root = <<>> /\ t.sendChain.root = <<>>
      /\ s.recvChain.root = <<>> /\ t.recvChain.root = <<>>
      /\ s.sendChain.step = 0 /\ t.sendChain.step = 0
      /\ s.recvChain.step = 0 /\ t.recvChain.step = 0
      /\ s.our[1] = p /\ s.remote[1] = Peer(p)
      /\ t.our[1] = Peer(p) /\ t.remote[1] = p
  BY <1>1 DEF ChainKey
<1>4. /\ p = Initiator => /\ s.sendChain.half = "A"
                          /\ s.recvChain.half = "B"
                          /\ t.recvChain.half = "A"
      /\ p # Initiator => /\ t.sendChain.half = "A"
                          /\ t.recvChain.half = "B"
                          /\ s.recvChain.half = "A"
  BY <1>1, <1>2 DEF ChainKey
<1>5. Aligned(p, s, {})
  BY <1>1, <1>3, <1>4 DEF Aligned
<1>6. Aligned(Peer(p), t, {})
  BY <1>1, <1>2, <1>3, <1>4, PeerPeer DEF Aligned
<1>7. /\ \A q \in Party : SealsInStep(q, s, {}) /\ SealsInStep(q, t, {})
      /\ SkippedInStep(p, s, t, {}) /\ SkippedInStep(Peer(p), t, s, {})
      /\ PassedInStep(s, {}, {}) /\ PassedInStep(t, {}, {})
  BY <1>1 DEF SealsInStep, SkippedInStep, PassedInStep
<1>8. Half(p, s, t, {}, {}, {}) /\ Half(Peer(p), t, s, {}, {}, {})
  BY <1>5, <1>6, <1>7, PeerPeer DEF Half
<1>9. CASE p = Initiator
  <2>1. t.recvCounter =< s.sendCounter
    BY <1>1
  <2>2. s.sendInit /\ ~t.sendInit
    BY <1>1, <1>2, <1>9
  <2>3. Ahead(t, s, {})
    BY <1>1, <1>3, <1>4, <1>9, <2>1, <2>2 DEF Ahead
  <2>4. QED
    BY <1>8, <2>3 DEF InStep, s, t
<1>10. CASE p # Initiator
  <2>1. s.recvCounter =< t.sendCounter
    BY <1>1
  <2>2. t.sendInit /\ ~s.sendInit
    BY <1>1, <1>2, <1>10
  <2>3. Ahead(s, t, {})
    BY <1>1, <1>3, <1>4, <1>10, <2>1, <2>2 DEF Ahead
  <2>4. QED
    BY <1>8, <2>3 DEF InStep, s, t
<1>11. QED
  BY <1>9, <1>10

\* The responder's first send puts it one ratchet ahead.
LEMMA FirstSendInStep ==
    ASSUME NEW p \in Party, NEW s \in Session, NEW t \in Session,
           NEW S, NEW T, Envelopes(S), Envelopes(T),
           NEW O, NEW Q, InStep(p, s, t, S, T, O, Q),
           ~s.sendInit, NEW fresh \in PublicKey,
           fresh[1] = p, fresh[2] = s.our[2] + 1
    PROVE  InStep(p, FirstSendRatchet(s, fresh), t, S, T, O, Q)
<1> DEFINE r == FirstSendRatchet(s, fresh)
<1>1. /\ r \in Session
      /\ r.root = Append(s.root, DH(fresh, s.remote))
      /\ r.sendInit
      /\ r.sendChain = ChainKey(r.root, "kdf")
      /\ r.sendCounter = s.sendCounter
      /\ r.prevSend = s.sendCounter
      /\ r.recvChain = s.recvChain
      /\ r.recvCounter = s.recvCounter
      /\ r.our = fresh
      /\ r.remote = s.remote
      /\ r.skipped = s.skipped
  BY FirstSendFields
<1> HIDE DEF r
<1>2. /\ Half(p, s, t, S, T, O)
      /\ Half(Peer(p), t, s, T, S, Q)
  BY DEF InStep
<1>3. Ahead(s, t, S)
  BY DEF InStep, Ahead
<1>4. s.sendCounter = 0 /\ s.root = <<>> /\ S = {} /\ s.our[1] = p
  BY <1>2 DEF Half, Aligned
<1>5. /\ t.remote = s.our
      /\ t.root = <<>>
      /\ s.remote = t.our
      /\ t.sendInit
  BY <1>3 DEF Ahead
<1>6. s.our \in PublicKey /\ s.our[2] \in Nat /\ s.root \in RootKey
  BY CounterFields, PublicKeyFields
<1>7. r.our[1] = p /\ r.our[2] = s.our[2] + 1
  BY <1>1
<1>8. r.root = Append(t.root, DH(r.our, t.our)) /\ r.root # <<>>
  <2>1. r.root = Append(t.root, DH(r.our, t.our))
    BY <1>1, <1>4, <1>5
  <2>2. Append(s.root, DH(fresh, s.remote)) # <<>>
    <3>1. s.remote \in PublicKey
      BY CounterFields
    <3>2. s.root \in RootKey
      BY CounterFields
    <3>3. QED
      BY <3>1, <3>2, RootGrows
  <2>3. QED
    BY <1>1, <2>1, <2>2
<1>9. Half(p, r, t, S, T, O)
  <2>1. Aligned(p, r, S)
    BY <1>1, <1>2, <1>4, <1>7, <1>8 DEF Half, Aligned, ChainKey
  <2>2. SealsInStep(p, r, S)
    BY <1>4 DEF SealsInStep
  <2>3. SkippedInStep(p, r, t, T)
    BY <1>1, <1>2 DEF Half, SkippedInStep
  <2>4. PassedInStep(r, T, O)
    BY <1>1, <1>2 DEF Half, PassedInStep, Cached
  <2>5. QED
    BY <2>1, <2>2, <2>3, <2>4 DEF Half
<1>10. Half(Peer(p), t, r, T, S, Q)
  <2>1. SkippedInStep(Peer(p), t, r, S)
    <3>1. ASSUME NEW f \in t.skipped
          PROVE  f.dh # r.our
      <4>1. f.dh[2] =< t.remote[2]
        BY <1>2 DEF Half, SkippedInStep
      <4>2. f \in Skipped /\ f.dh \in PublicKey
        BY CounterFields DEF Skipped
      <4>3. f.dh[2] \in Nat
        BY <4>2, PublicKeyFields
      <4>4. QED
        BY <1>5, <1>6, <1>7, <4>1, <4>3
    <3>2. SkippedInStep(Peer(p), t, s, S)
      BY <1>2 DEF Half
    <3>3. ASSUME NEW f \in t.skipped
          PROVE  /\ f.dh[1] = Peer(Peer(p))
                 /\ f.dh[2] =< t.remote[2]
                 /\ \A e \in S :
                        e.header.dh = f.dh /\ e.header.num = f.num =>
                            f.key = e.key.dh
      BY <3>2 DEF SkippedInStep
    <3>4. QED
      BY <3>1, <3>3 DEF SkippedInStep
  <2>2. QED
    BY <1>2, <2>1 DEF Half
<1>11. Ahead(r, t, S)
  BY <1>1, <1>3, <1>4, <1>5, <1>7, <1>8 DEF Ahead
<1>12. QED
  BY <1>9, <1>10, <1>11 DEF InStep, r

\* A send on the present chain.
LEMMA AdvanceInStep ==
    ASSUME NEW p \in Party, NEW s \in Session, NEW t \in Session,
           NEW S, NEW T, Envelopes(S), Envelopes(T),
           NEW O, NEW Q, InStep(p, s, t, S, T, O, Q), s.sendInit,
           NEW env, IsEnvelope(env),
           env.header.dh = s.our,
           env.header.prev = s.prevSend,
           env.header.num = s.sendCounter,
           env.key = Combine(MessageKey(s.sendChain, s.sendCounter),
                             env.header.epoch)
    PROVE  LET x == [s EXCEPT !.sendChain = ChainAfter(@, 1),
                              !.sendCounter = @ + 1]
           IN  InStep(p, x, t, S \cup {env}, T, O, Q)
<1> DEFINE x == [s EXCEPT !.sendChain = ChainAfter(@, 1),
                          !.sendCounter = @ + 1]
<1>1. /\ x \in Session
      /\ x.root = s.root
      /\ x.sendInit = s.sendInit
      /\ x.sendChain.root = s.sendChain.root
      /\ x.sendChain.half = s.sendChain.half
      /\ x.sendChain.step = s.sendChain.step + 1
      /\ x.sendCounter = s.sendCounter + 1
      /\ x.prevSend = s.prevSend
      /\ x.recvChain = s.recvChain
      /\ x.recvCounter = s.recvCounter
      /\ x.our = s.our
      /\ x.remote = s.remote
      /\ x.skipped = s.skipped
  BY AdvanceSendFields
<1> HIDE DEF x
<1>2. /\ Half(p, s, t, S, T, O)
      /\ Half(Peer(p), t, s, T, S, Q)
  BY DEF InStep
<1>3. /\ s.sendCounter \in Nat
      /\ s.recvCounter \in Nat /\ t.recvCounter \in Nat
      /\ s.our \in PublicKey /\ s.our[2] \in Nat
      /\ t.remote \in PublicKey /\ t.remote[2] \in Nat
  BY CounterFields, PublicKeyFields
<1>4. /\ env.key.epoch = env.header.epoch
      /\ env.key.dh.num = env.header.num
      /\ env.key.dh.chain = s.sendChain
  BY DEF Combine, MessageKey
<1>5. s.sendChain.step = s.sendCounter /\ s.our[1] = p
  BY <1>2 DEF Half, Aligned
<1>6. \A e \in S : e.header.num \in Nat
  BY EnvelopeFields DEF Envelopes
<1>7. Half(p, x, t, S \cup {env}, T, O)
  <2>1. Aligned(p, x, S \cup {env})
    BY <1>1, <1>2 DEF Half, Aligned
  <2>2. SealsInStep(p, x, S \cup {env})
    <3>1. SealsInStep(p, s, S)
      BY <1>2 DEF Half
    <3>2. \A e \in S :
              /\ e.header.dh = s.our => e.header.num < s.sendCounter + 1
              /\ e.header.dh = env.header.dh => e.header.num # env.header.num
      BY <1>3, <1>6, <3>1 DEF SealsInStep
    <3>3. /\ s.our[2] =< s.our[2]
          /\ s.sendCounter < s.sendCounter + 1
      BY <1>3
    <3>4. ASSUME NEW e \in S \cup {env}
          PROVE  /\ e.header.dh[1] = p
                 /\ e.header.dh[2] =< x.our[2]
                 /\ e.key.epoch = e.header.epoch
                 /\ e.key.dh.num = e.header.num
                 /\ e.key.dh.chain.step = e.header.num
                 /\ e.header.dh = x.our =>
                        /\ e.key.dh.chain.root = x.sendChain.root
                        /\ e.key.dh.chain.half = x.sendChain.half
                        /\ e.header.prev = x.prevSend
                        /\ e.header.num < x.sendCounter
      <4>1. CASE e = env
        BY <4>1, <1>1, <1>4, <1>5, <3>3
      <4>2. CASE e \in S
        BY <4>2, <1>1, <3>1, <3>2 DEF SealsInStep
      <4>3. QED
        BY <4>1, <4>2
    <3>5. \A e, f \in S \cup {env} :
              e.header.dh = f.header.dh /\ e.header.num = f.header.num
                  => e = f
      BY <3>1, <3>2 DEF SealsInStep
    <3>6. QED
      BY <3>4, <3>5 DEF SealsInStep
  <2>3. SkippedInStep(p, x, t, T)
    BY <1>1, <1>2 DEF Half, SkippedInStep
  <2>4. PassedInStep(x, T, O)
    BY <1>1, <1>2 DEF Half, PassedInStep, Cached
  <2>5. QED
    BY <2>1, <2>2, <2>3, <2>4 DEF Half
<1>8. Half(Peer(p), t, x, T, S \cup {env}, Q)
  <2>1. SkippedInStep(Peer(p), t, x, S \cup {env})
    <3>1. SkippedInStep(Peer(p), t, s, S)
      BY <1>2 DEF Half
    <3>2. ASSUME NEW f \in t.skipped
          PROVE  /\ f.dh = s.our => f.num < s.sendCounter + 1
                 /\ ~(f.dh = env.header.dh /\ f.num = env.header.num)
      <4>1. f \in Skipped /\ f.num \in Nat
        BY CounterFields DEF Skipped
      <4>2. f.dh = s.our => f.num < s.sendCounter
        BY <3>1 DEF SkippedInStep
      <4>3. QED
        BY <1>3, <4>1, <4>2
    <3>3. QED
      BY <1>1, <3>1, <3>2 DEF SkippedInStep
\* The new message is on a chain t has not seen, or at a counter it has not
\* reached.
  <2>2. PassedInStep(t, S \cup {env}, Q)
    <3>1. PassedInStep(t, S, Q)
      BY <1>2 DEF Half
    <3>2. CASE Ahead(s, t, S)
      <4>1. t.remote[2] + 1 = s.our[2]
        BY <3>2 DEF Ahead
      <4>2. ~(s.our[2] < t.remote[2]) /\ s.our # t.remote
        BY <1>3, <4>1
      <4>3. QED
        BY <3>1, <4>2 DEF PassedInStep
    <3>3. CASE Ahead(t, s, T)
      <4>1. t.remote = s.our /\ t.recvCounter =< s.sendCounter
        BY <3>3 DEF Ahead
      <4>2. ~(s.our[2] < t.remote[2]) /\ ~(s.sendCounter < t.recvCounter)
        BY <1>3, <4>1
      <4>3. QED
        BY <3>1, <4>2 DEF PassedInStep
    <3>4. QED
      BY <3>2, <3>3 DEF InStep
  <2>3. Aligned(Peer(p), t, T) /\ SealsInStep(Peer(p), t, T)
    BY <1>2 DEF Half
  <2>4. QED
    BY <2>1, <2>2, <2>3 DEF Half
<1>9. CASE Ahead(s, t, S)
  <2>1. t.remote # s.our
    <3>1. t.remote[2] + 1 = s.our[2]
      BY <1>9 DEF Ahead
    <3>2. QED
      BY <1>3, <3>1
  <2>2. Ahead(x, t, S \cup {env})
    BY <1>1, <1>9, <2>1 DEF Ahead
  <2>3. QED
    BY <1>7, <1>8, <2>2 DEF InStep, x
<1>10. CASE Ahead(t, s, T)
  <2>1. t.recvCounter =< s.sendCounter + 1
    BY <1>3, <1>10 DEF Ahead
  <2>2. Ahead(t, x, T)
    BY <1>1, <1>10, <2>1 DEF Ahead
  <2>3. QED
    BY <1>7, <1>8, <2>2 DEF InStep, x
<1>11. QED
  BY <1>9, <1>10 DEF InStep

LEMMA SendInStep ==
    ASSUME NEW p \in Party, NEW s \in Session, NEW t \in Session,
           NEW S, NEW T, Envelopes(S), Envelopes(T),
           NEW O, NEW Q, InStep(p, s, t, S, T, O, Q),
           NEW fresh \in PublicKey, fresh[1] = p, fresh[2] = s.our[2] + 1,
           NEW env, IsEnvelope(env),
           env.header = SendHeader(s, fresh), env.key = SendKey(s, fresh)
    PROVE  InStep(p, AfterSend(s, fresh), t, S \cup {env}, T, O, Q)
<1> DEFINE r == ReadyToSend(s, fresh)
<1>1. r \in Session /\ InStep(p, r, t, S, T, O, Q) /\ r.sendInit
  <2>1. CASE s.sendInit
    BY <2>1 DEF ReadyToSend
  <2>2. CASE ~s.sendInit
    <3>1. r = FirstSendRatchet(s, fresh)
      BY <2>2 DEF ReadyToSend
    <3>2. /\ FirstSendRatchet(s, fresh) \in Session
          /\ FirstSendRatchet(s, fresh).sendInit
      BY FirstSendFields
    <3>3. InStep(p, FirstSendRatchet(s, fresh), t, S, T, O, Q)
      BY <2>2, FirstSendInStep
    <3> HIDE DEF r
    <3>4. QED
      BY <3>1, <3>2, <3>3
  <2>3. QED
    BY <2>1, <2>2
<1>2. /\ env.header.dh = r.our
      /\ env.header.prev = r.prevSend
      /\ env.header.num = r.sendCounter
      /\ env.key = Combine(MessageKey(r.sendChain, r.sendCounter),
                           env.header.epoch)
  BY DEF SendHeader, SendKey
<1>3. AfterSend(s, fresh) =
          [r EXCEPT !.sendChain = ChainAfter(@, 1), !.sendCounter = @ + 1]
  BY DEF AfterSend
<1> HIDE DEF r
<1>4. InStep(p, [r EXCEPT !.sendChain = ChainAfter(@, 1),
                          !.sendCounter = @ + 1], t, S \cup {env}, T, O, Q)
  BY <1>1, <1>2, AdvanceInStep
<1>5. QED
  BY <1>3, <1>4

\* The four steps a receive is made of.

\* Staging, as far as the peer has sent.
LEMMA StageInStep ==
    ASSUME NEW p \in Party, NEW s \in Session, NEW t \in Session,
           NEW S, NEW T, Envelopes(S), Envelopes(T),
           NEW O, NEW Q, InStep(p, s, t, S, T, O, Q),
           NEW upto \in Nat, s.remote = t.our => upto =< t.sendCounter
    PROVE  InStep(p, Stage(s, upto), t, S, T, O, Q)
<1> DEFINE x == Stage(s, upto)
<1>1. /\ x \in Session
      /\ x.root = s.root
      /\ x.sendInit = s.sendInit
      /\ x.sendChain = s.sendChain
      /\ x.sendCounter = s.sendCounter
      /\ x.prevSend = s.prevSend
      /\ x.our = s.our
      /\ x.remote = s.remote
      /\ x.recvChain.root = s.recvChain.root
      /\ x.recvChain.half = s.recvChain.half
      /\ x.recvCounter = IF upto =< s.recvCounter THEN s.recvCounter ELSE upto
      /\ x.recvChain.step = s.recvChain.step + (x.recvCounter - s.recvCounter)
      /\ s.skipped \subseteq x.skipped
      /\ \A n \in Nat :
             s.recvCounter =< n /\ n < upto =>
                 \E f \in x.skipped : f.dh = s.remote /\ f.num = n
      /\ \A f \in x.skipped :
             \/ f \in s.skipped
             \/ /\ f.dh = s.remote
                /\ s.recvCounter =< f.num /\ f.num < upto
                /\ f.key.num = f.num
                /\ f.key.chain.root = s.recvChain.root
                /\ f.key.chain.half = s.recvChain.half
                /\ f.key.chain.step =
                       s.recvChain.step + (f.num - s.recvCounter)
  BY StageFields
<1> HIDE DEF x
<1>2. /\ Half(p, s, t, S, T, O)
      /\ Half(Peer(p), t, s, T, S, Q)
  BY DEF InStep
<1>3. /\ s.recvCounter \in Nat /\ t.sendCounter \in Nat
      /\ s.remote \in PublicKey /\ s.remote[2] \in Nat
      /\ s.recvChain.step = s.recvCounter /\ s.remote[1] = Peer(p)
  BY <1>2, CounterFields, PublicKeyFields DEF Half, Aligned
<1>4. ASSUME NEW e \in T
      PROVE  e.header.num \in Nat /\ e.header.dh[2] \in Nat
             /\ e.key.dh \in DhKey
  BY EnvelopeFields DEF Envelopes
<1>5. Aligned(p, x, S)
  <2>1. Aligned(p, s, S)
    BY <1>2 DEF Half
  <2>2. x.recvChain.step = x.recvCounter
    BY <1>1, <1>3
  <2>3. QED
    BY <1>1, <2>1, <2>2 DEF Aligned
<1>6. SealsInStep(p, x, S)
  BY <1>1, <1>2 DEF Half, SealsInStep
<1>7. SkippedInStep(p, x, t, T)
  <2>1. ASSUME NEW f \in x.skipped, f \notin s.skipped
        PROVE  /\ f.dh[1] = Peer(p)
               /\ f.dh[2] =< s.remote[2]
               /\ f.dh = t.our => f.num < t.sendCounter
               /\ \A e \in T : e.header.dh = f.dh /\ e.header.num = f.num =>
                                   f.key = e.key.dh
    <3>1. /\ f.dh = s.remote
          /\ s.recvCounter =< f.num /\ f.num < upto
          /\ f.key.num = f.num
          /\ f.key.chain.root = s.recvChain.root
          /\ f.key.chain.half = s.recvChain.half
          /\ f.key.chain.step =
                 s.recvChain.step + (f.num - s.recvCounter)
      BY <1>1, <2>1
    <3>2. f.num \in Nat /\ f.key \in DhKey /\ f.key.chain \in Chain
      BY <1>1, CounterFields DEF Skipped, DhKey
    <3>3. f.dh = t.our => f.num < t.sendCounter
      BY <1>3, <3>1, <3>2
    <3>4. f.key.chain.step = f.num
      BY <1>3, <3>1, <3>2
    <3>5. ASSUME NEW e \in T, e.header.dh = f.dh, e.header.num = f.num
          PROVE  f.key = e.key.dh
      <4>1. /\ e.key.dh.chain.root = s.recvChain.root
            /\ e.key.dh.chain.half = s.recvChain.half
            /\ e.key.dh.chain.step = e.header.num
            /\ e.key.dh.num = e.header.num
        BY <3>1, <3>5, RemoteChain
      <4>2. e.key.dh \in DhKey /\ e.key.dh.chain \in Chain
        BY <1>4 DEF DhKey
      <4>3. f.key.chain = e.key.dh.chain
        BY <3>1, <3>2, <3>4, <3>5, <4>1, <4>2, ChainEqual
      <4>4. QED
        BY <3>1, <3>2, <3>5, <4>1, <4>2, <4>3 DEF DhKey
    <3>6. QED
      BY <1>3, <3>1, <3>3, <3>5
  <2>2. SkippedInStep(p, s, t, T)
    BY <1>2 DEF Half
  <2>3. QED
    BY <1>1, <2>1, <2>2 DEF SkippedInStep
<1>8. PassedInStep(x, T, O)
  <2>1. PassedInStep(s, T, O)
    BY <1>2 DEF Half
  <2>2. \A h \in Header : Cached(s, h) \subseteq Cached(x, h)
    BY <1>1 DEF Cached
  <2>3. ASSUME NEW e \in T, e.header.dh = s.remote,
               e.header.num < x.recvCounter,
               ~(e.header.num < s.recvCounter)
        PROVE  Cached(x, e.header) # {}
    <3>1. s.recvCounter =< e.header.num /\ e.header.num < upto
      BY <1>1, <1>3, <1>4, <2>3
    <3>2. \E f \in x.skipped : f.dh = s.remote /\ f.num = e.header.num
      BY <1>1, <1>4, <3>1
    <3>3. QED
      BY <2>3, <3>2 DEF Cached
  <2>4. \A e \in T : e.header \in Header
    BY EnvelopeFields DEF Envelopes
  <2>5. QED
    BY <1>1, <2>1, <2>2, <2>3, <2>4 DEF PassedInStep
<1>9. Half(p, x, t, S, T, O)
  BY <1>5, <1>6, <1>7, <1>8 DEF Half
<1>10. Half(Peer(p), t, x, T, S, Q)
  BY <1>1, <1>2 DEF Half, SkippedInStep
<1>11. CASE Ahead(s, t, S)
  <2>1. x.recvCounter =< t.sendCounter
    BY <1>1, <1>11 DEF Ahead
  <2>2. Ahead(x, t, S)
    BY <1>1, <1>11, <2>1 DEF Ahead
  <2>3. QED
    BY <1>9, <1>10, <2>2 DEF InStep, x
<1>12. CASE Ahead(t, s, T)
  <2>1. Ahead(t, x, T)
    BY <1>1, <1>12 DEF Ahead
  <2>2. QED
    BY <1>9, <1>10, <2>1 DEF InStep, x
<1>13. QED
  BY <1>11, <1>12 DEF InStep

\* The DH ratchet, once the chain it leaves has been staged to its end.
LEMMA RatchetInStep ==
    ASSUME NEW p \in Party, NEW s \in Session, NEW t \in Session,
           NEW S, NEW T, Envelopes(S), Envelopes(T),
           NEW O, NEW Q, InStep(p, s, t, S, T, O, Q),
           Ahead(t, s, T), t.sendInit, t.prevSend =< s.recvCounter,
           NEW fresh \in PublicKey, fresh[1] = p, fresh[2] = s.our[2] + 1
    PROVE  InStep(p, DhRatchet(s, t.our, fresh), t, S, T, O, Q)
<1> DEFINE x == DhRatchet(s, t.our, fresh)
           root == Append(s.root, DH(s.our, t.our))
<1>1. /\ s.our \in PublicKey /\ s.our[2] \in Nat
      /\ s.remote \in PublicKey /\ s.remote[2] \in Nat
      /\ t.our \in PublicKey /\ t.our[2] \in Nat
      /\ s.root \in RootKey
      /\ s.recvCounter \in Nat
      /\ t.prevSend \in Nat
      /\ t.sendCounter \in Nat
  BY CounterFields, PublicKeyFields
<1>2. /\ x \in Session
      /\ root \in RootKey
      /\ x.root = Append(root, DH(fresh, t.our))
      /\ x.sendInit = s.sendInit
      /\ x.sendChain = ChainKey(x.root, "kdf")
      /\ x.sendCounter = 0
      /\ x.prevSend = s.sendCounter
      /\ x.recvChain = ChainKey(root, "kdf")
      /\ x.recvCounter = 0
      /\ x.our = fresh
      /\ x.remote = t.our
      /\ x.skipped = s.skipped
  <2>1. root \in RootKey
    BY <1>1, KdfType DEF KdfRoot
  <2>2. /\ x \in Session
        /\ x.root = Append(root, DH(fresh, t.our))
        /\ x.sendInit = s.sendInit
        /\ x.sendChain = ChainKey(x.root, "kdf")
        /\ x.sendCounter = 0
        /\ x.prevSend = s.sendCounter
        /\ x.our = fresh
    BY <1>1, DhRatchetSends
  <2>3. /\ x.recvChain = ChainKey(root, "kdf")
        /\ x.recvCounter = 0
        /\ x.remote = t.our
        /\ x.skipped = s.skipped
    <3>1. t.our \in PublicKey
      BY <1>1
    <3>2. x.recvChain = ChainKey(root, "kdf") /\ x.recvCounter = 0
      BY <3>1, DhRatchetReceives
    <3>3. x.remote = t.our /\ x.skipped = s.skipped
      BY <3>1, DhRatchetReceives
    <3>4. QED
      BY <3>2, <3>3
  <2>4. QED
    BY <2>1, <2>2, <2>3
<1> HIDE DEF x
<1>3. /\ Half(p, s, t, S, T, O)
      /\ Half(Peer(p), t, s, T, S, Q)
  BY DEF InStep
<1>4. /\ s.sendInit
      /\ t.remote = s.our
      /\ t.recvChain.root = s.sendChain.root
      /\ t.recvChain.half = s.sendChain.half
      /\ t.root = root
      /\ s.remote[2] + 1 = t.our[2]
      /\ \A e \in T : e.header.dh = s.remote => e.header.num < t.prevSend
  <2>1. DH(t.our, s.our) = DH(s.our, t.our)
    BY DEF DH
  <2>2. QED
    BY <2>1 DEF Ahead
<1>5. t.our[1] = Peer(p) /\ s.remote[1] = Peer(p) /\ s.our[1] = p
  BY <1>3 DEF Half, Aligned
<1>6. x.our[1] = p /\ x.our[2] = s.our[2] + 1
  BY <1>2
<1>7. root # <<>> /\ x.root # <<>>
  <2>1. DH(s.our, t.our) \in SUBSET PublicKey
        /\ DH(fresh, t.our) \in SUBSET PublicKey
    BY <1>1 DEF DH
  <2>2. root # <<>>
    BY <1>1, <2>1 DEF RootKey
  <2> HIDE DEF root
  <2>3. Append(root, DH(fresh, t.our)) # <<>>
    BY <1>2, <2>1 DEF RootKey
  <2>4. QED
    BY <1>2, <2>2, <2>3
<1> HIDE DEF root
<1>8. /\ x.sendChain.root = x.root
      /\ x.sendChain.half = "kdf"
      /\ x.sendChain.step = 0
      /\ x.recvChain.root = root
      /\ x.recvChain.half = "kdf"
      /\ x.recvChain.step = 0
  BY <1>2 DEF ChainKey
<1>9. t.sendChain.root = root /\ t.sendChain.half = "kdf"
  <2>1. Aligned(Peer(p), t, T)
    BY <1>3 DEF Half
  <2>2. QED
    BY <1>4, <1>7, <2>1 DEF Aligned
<1>10. \A e \in S : /\ e.header.dh \in PublicKey
                    /\ e.header.dh[2] \in Nat
                    /\ e.header.dh[2] =< s.our[2]
  BY <1>3, EnvelopeFields DEF Half, SealsInStep, Envelopes
<1>11. \A e \in T : /\ e.header \in Header
                    /\ e.header.dh \in PublicKey
                    /\ e.header.dh[2] \in Nat
                    /\ e.header.num \in Nat
                    /\ e.header.dh[1] = Peer(p)
  BY <1>3, EnvelopeFields DEF Half, SealsInStep, Envelopes
<1>12. Aligned(p, x, S)
  BY <1>2, <1>4, <1>5, <1>6, <1>7, <1>8 DEF Aligned
<1>13. SealsInStep(p, x, S)
  <2>1. SealsInStep(p, s, S)
    BY <1>3 DEF Half
  <2>2. ASSUME NEW e \in S
        PROVE  e.header.dh # x.our /\ e.header.dh[2] =< x.our[2]
    BY <1>1, <1>6, <1>10
  <2>3. QED
    BY <2>1, <2>2 DEF SealsInStep
\* The peer's ratchet key is new, so no skipped key is filed under it.
<1>14. SkippedInStep(p, x, t, T)
  <2>1. SkippedInStep(p, s, t, T)
    BY <1>3 DEF Half
  <2>2. ASSUME NEW f \in s.skipped
        PROVE  f.dh[2] =< t.our[2] /\ f.dh # t.our
    <3>1. f.dh \in PublicKey /\ f.dh[2] \in Nat
      BY CounterFields, PublicKeyFields DEF Skipped
    <3>2. f.dh[2] =< s.remote[2]
      BY <2>1 DEF SkippedInStep
    <3>3. QED
      BY <1>1, <1>4, <3>1, <3>2
  <2>3. QED
    BY <1>2, <2>1, <2>2 DEF SkippedInStep
<1>15. PassedInStep(x, T, O)
  <2>1. PassedInStep(s, T, O)
    BY <1>3 DEF Half
  <2>2. \A h \in Header : Cached(x, h) = Cached(s, h)
    BY <1>2 DEF Cached
  <2>3. ASSUME NEW e \in T, e.header.dh[2] < t.our[2]
        PROVE  \/ e.header.dh[2] < s.remote[2]
               \/ e.header.dh = s.remote /\ e.header.num < s.recvCounter
    <3>1. \/ e.header.dh[2] < s.remote[2]
          \/ e.header.dh[2] = s.remote[2]
      BY <1>1, <1>4, <1>11, <2>3
    <3>2. e.header.dh[2] = s.remote[2] => e.header.dh = s.remote
      BY <1>1, <1>5, <1>11, PublicKeyFields
    <3>3. QED
      BY <1>1, <1>4, <1>11, <3>1, <3>2
  <2>4. \A e \in T : ~(e.header.num < 0)
    BY <1>11
  <2>5. QED
    BY <1>2, <1>11, <2>1, <2>2, <2>3, <2>4 DEF PassedInStep
<1>16. Half(p, x, t, S, T, O)
  BY <1>12, <1>13, <1>14, <1>15 DEF Half
<1>17. Half(Peer(p), t, x, T, S, Q)
  <2>1. SkippedInStep(Peer(p), t, s, S)
    BY <1>3 DEF Half
  <2>2. ASSUME NEW f \in t.skipped
        PROVE  f.dh # x.our
    <3>1. f.dh \in PublicKey /\ f.dh[2] \in Nat
      BY CounterFields, PublicKeyFields DEF Skipped
    <3>2. f.dh[2] =< s.our[2]
      BY <1>4, <2>1 DEF SkippedInStep
    <3>3. QED
      BY <1>1, <1>6, <3>1, <3>2
  <2>3. SkippedInStep(Peer(p), t, x, S)
    BY <2>1, <2>2 DEF SkippedInStep
  <2>4. QED
    BY <1>3, <2>3 DEF Half
<1>18. Ahead(x, t, S)
  <2>1. SealsInStep(p, s, S)
    BY <1>3 DEF Half
  <2>2. x.root = Append(t.root, DH(x.our, t.our))
    BY <1>2, <1>4
  <2>3. x.recvCounter =< t.sendCounter
    BY <1>1, <1>2
  <2>4. \A e \in S : e.header.dh = t.remote =>
            /\ e.header.num < x.prevSend
            /\ e.key.dh.chain.root = t.recvChain.root
            /\ e.key.dh.chain.half = t.recvChain.half
    BY <1>2, <1>4, <2>1 DEF SealsInStep
  <2>5. QED
    BY <1>2, <1>4, <1>6, <1>8, <1>9, <2>2, <2>3, <2>4 DEF Ahead
<1>19. QED
  BY <1>16, <1>17, <1>18 DEF InStep, x

\* The message's own key, at the head of the receiving chain.
LEMMA TakeInStep ==
    ASSUME NEW p \in Party, NEW s \in Session, NEW t \in Session,
           NEW S, NEW T, Envelopes(S), Envelopes(T),
           NEW O, NEW Q, InStep(p, s, t, S, T, O, Q),
           NEW e \in T, e.header.dh = s.remote,
           e.header.num = s.recvCounter
    PROVE  LET x == [s EXCEPT !.recvChain = ChainAfter(@, 1),
                              !.recvCounter = @ + 1]
           IN  InStep(p, x, t, S, T, O \cup {e}, Q)
<1> DEFINE x == [s EXCEPT !.recvChain = ChainAfter(@, 1),
                          !.recvCounter = @ + 1]
<1>1. /\ x \in Session
      /\ x.root = s.root
      /\ x.sendInit = s.sendInit
      /\ x.sendChain = s.sendChain
      /\ x.sendCounter = s.sendCounter
      /\ x.prevSend = s.prevSend
      /\ x.recvChain.root = s.recvChain.root
      /\ x.recvChain.half = s.recvChain.half
      /\ x.recvChain.step = s.recvChain.step + 1
      /\ x.recvCounter = s.recvCounter + 1
      /\ x.our = s.our
      /\ x.remote = s.remote
      /\ x.skipped = s.skipped
  BY AdvanceReceiveFields
<1> HIDE DEF x
<1>2. /\ Half(p, s, t, S, T, O)
      /\ Half(Peer(p), t, s, T, S, Q)
  BY DEF InStep
<1>3. s.recvCounter \in Nat /\ t.sendCounter \in Nat
  BY CounterFields
<1>4. Aligned(p, x, S)
  <2>1. Aligned(p, s, S)
    BY <1>2 DEF Half
  <2>2. QED
    BY <1>1, <2>1 DEF Aligned
<1>5. SealsInStep(p, x, S) /\ SkippedInStep(p, x, t, T)
  BY <1>1, <1>2 DEF Half, SealsInStep, SkippedInStep
<1>6. PassedInStep(x, T, O \cup {e})
  <2>1. PassedInStep(s, T, O)
    BY <1>2 DEF Half
  <2>2. \A h : Cached(x, h) = Cached(s, h)
    BY <1>1 DEF Cached
  <2>3. ASSUME NEW f \in T, f.header.dh = s.remote,
               f.header.num < s.recvCounter + 1
        PROVE  f.header.num < s.recvCounter \/ f = e
    <3>1. f.header.num \in Nat
      BY EnvelopeFields DEF Envelopes
    <3>2. f.header.num < s.recvCounter \/ f.header.num = e.header.num
      BY <1>3, <2>3, <3>1
    <3>3. f.header.num = e.header.num => f = e
      BY <1>2, <2>3 DEF Half, SealsInStep
    <3>4. QED
      BY <3>2, <3>3
  <2>4. QED
    BY <1>1, <2>1, <2>2, <2>3 DEF PassedInStep
<1>7. Half(p, x, t, S, T, O \cup {e})
  BY <1>4, <1>5, <1>6 DEF Half
<1>8. Half(Peer(p), t, x, T, S, Q)
  BY <1>1, <1>2 DEF Half, SkippedInStep
<1>9. CASE Ahead(s, t, S)
  <2>1. e.header.num < t.sendCounter
    BY <1>2, <1>9 DEF Half, SealsInStep, Ahead
  <2>2. x.recvCounter =< t.sendCounter
    BY <1>1, <1>3, <2>1
  <2>3. Ahead(x, t, S)
    BY <1>1, <1>9, <2>2 DEF Ahead
  <2>4. QED
    BY <1>7, <1>8, <2>3 DEF InStep, x
<1>10. CASE Ahead(t, s, T)
  <2>1. Ahead(t, x, T)
    BY <1>1, <1>10 DEF Ahead
  <2>2. QED
    BY <1>7, <1>8, <2>1 DEF InStep, x
<1>11. QED
  BY <1>9, <1>10 DEF InStep

\* The message's own key, out of the cache.
LEMMA TakeCachedInStep ==
    ASSUME NEW p \in Party, NEW s \in Session, NEW t \in Session,
           NEW S, NEW T, Envelopes(S), Envelopes(T),
           NEW O, NEW Q, InStep(p, s, t, S, T, O, Q),
           NEW e \in T
    PROVE  LET x == [s EXCEPT !.skipped = @ \ Cached(s, e.header)]
           IN  InStep(p, x, t, S, T, O \cup {e}, Q)
<1> DEFINE rest == s.skipped \ Cached(s, e.header)
           x == [s EXCEPT !.skipped = rest]
<1>1. /\ x.root = s.root
      /\ x.sendInit = s.sendInit
      /\ x.sendChain = s.sendChain
      /\ x.sendCounter = s.sendCounter
      /\ x.prevSend = s.prevSend
      /\ x.recvChain = s.recvChain
      /\ x.recvCounter = s.recvCounter
      /\ x.our = s.our
      /\ x.remote = s.remote
      /\ x.skipped = rest
  BY DEF Session
<1>2. x = [s EXCEPT !.skipped = @ \ Cached(s, e.header)]
  OBVIOUS
<1> HIDE DEF x
<1>3. /\ Half(p, s, t, S, T, O)
      /\ Half(Peer(p), t, s, T, S, Q)
  BY DEF InStep
<1>4. Aligned(p, x, S) /\ SealsInStep(p, x, S)
  BY <1>1, <1>3 DEF Half, Aligned, SealsInStep
<1>5. SkippedInStep(p, x, t, T)
  BY <1>1, <1>3 DEF Half, SkippedInStep
<1>6. PassedInStep(x, T, O \cup {e})
  <2>1. PassedInStep(s, T, O)
    BY <1>3 DEF Half
  <2>2. ASSUME NEW f \in T, f # e
        PROVE  Cached(x, f.header) = Cached(s, f.header)
    <3>1. ~(f.header.dh = e.header.dh /\ f.header.num = e.header.num)
      BY <1>3, <2>2 DEF Half, SealsInStep
    <3>2. QED
      BY <1>1, <3>1 DEF Cached
  <2>3. QED
    BY <1>1, <2>1, <2>2 DEF PassedInStep
<1>7. Half(p, x, t, S, T, O \cup {e})
  BY <1>4, <1>5, <1>6 DEF Half
<1>8. Half(Peer(p), t, x, T, S, Q)
  BY <1>1, <1>3 DEF Half, SkippedInStep
<1>9. Ahead(x, t, S) \/ Ahead(t, x, T)
  BY <1>1 DEF InStep, Ahead
<1>10. QED
  BY <1>2, <1>7, <1>8, <1>9 DEF InStep

LEMMA ReceiveInStep ==
    ASSUME NEW p \in Party, NEW s \in Session, NEW t \in Session,
           NEW S, NEW T, Envelopes(S), Envelopes(T),
           NEW O, NEW Q, InStep(p, s, t, S, T, O, Q),
           NEW e \in T, e \notin O,
           NEW fresh \in PublicKey, fresh[1] = p, fresh[2] = s.our[2] + 1,
           Accepts(s, e.header, fresh)
    PROVE  InStep(p, AfterReceive(s, e.header, fresh), t, S, T, O \cup {e}, Q)
<1> DEFINE h == e.header
           u == OnChain(s, h, fresh)
           v == Stage(u, h.num)
<1>1. h \in Header /\ h.dh \in PublicKey /\ h.prev \in Nat /\ h.num \in Nat
  BY EnvelopeFields DEF Envelopes
<1>2. CASE Cached(s, h) # {}
  <2>1. AfterReceive(s, h, fresh) =
            [s EXCEPT !.skipped = @ \ Cached(s, e.header)]
    BY <1>2 DEF AfterReceive
  <2>2. InStep(p, [s EXCEPT !.skipped = @ \ Cached(s, e.header)],
               t, S, T, O \cup {e}, Q)
    BY TakeCachedInStep
  <2>3. QED
    BY <2>1, <2>2
<1>3. CASE Cached(s, h) = {}
  <2>1. ~(h.dh[2] < s.remote[2])
    BY <1>3 DEF InStep, Half, PassedInStep
  <2>2. /\ u \in Session
        /\ InStep(p, u, t, S, T, O, Q)
        /\ h.dh = u.remote
    <3>1. CASE h.dh = s.remote
      BY <3>1 DEF OnChain
    <3>2. CASE h.dh # s.remote
      <4> DEFINE w == Stage(s, h.prev)
      <4>1. /\ Ahead(t, s, T)
            /\ t.sendInit
            /\ h.dh = t.our
            /\ h.prev = t.prevSend
        BY <2>1, <3>2, NewRemote
      <4>2. /\ w \in Session
            /\ w.our = s.our
            /\ w.remote = s.remote
            /\ w.recvCounter = IF h.prev =< s.recvCounter THEN s.recvCounter
                               ELSE h.prev
        BY <1>1, StageKeeps
      <4>3. InStep(p, w, t, S, T, O, Q)
        BY <1>1, <3>2, <4>1, StageInStep
      <4>4. u = DhRatchet(w, t.our, fresh)
        BY <3>2, <4>1 DEF OnChain
      <4> HIDE DEF w, u
      <4>5. t.prevSend =< w.recvCounter
        <5>1. s.recvCounter \in Nat /\ t.prevSend \in Nat
          BY CounterFields
        <5>2. QED
          BY <4>1, <4>2, <5>1
      <4>6. Ahead(t, w, T)
        <5>1. s.remote[2] + 1 = t.our[2] /\ s.remote \in PublicKey
              /\ s.remote[2] \in Nat
          BY <2>1, <3>2, NewRemote, CounterFields, PublicKeyFields
        <5>2. ~Ahead(w, t, S)
          BY <4>2, <5>1 DEF Ahead
        <5>3. QED
          BY <4>3, <5>2 DEF InStep
      <4>7. fresh[1] = p /\ fresh[2] = w.our[2] + 1
        BY <4>2
      <4>8. InStep(p, DhRatchet(w, t.our, fresh), t, S, T, O, Q)
        BY <4>1, <4>2, <4>3, <4>5, <4>6, <4>7, RatchetInStep
      <4>9. /\ DhRatchet(w, t.our, fresh) \in Session
            /\ DhRatchet(w, t.our, fresh).remote = t.our
        <5>1. t.our \in PublicKey
          BY CounterFields
        <5>2. QED
          BY <4>2, <5>1, DhRatchetReceives
      <4>10. QED
        BY <4>1, <4>4, <4>8, <4>9
    <3>3. QED
      BY <3>1, <3>2
  <2>3. u.recvCounter =< h.num
    <3>1. u.recvCounter \in Nat
      BY <2>2, CounterFields
    <3>2. QED
      BY <1>1, <1>3, <3>1 DEF Accepts
  <2>4. AfterReceive(s, h, fresh) =
            [v EXCEPT !.recvChain = ChainAfter(@, 1), !.recvCounter = @ + 1]
    BY <1>3 DEF AfterReceive
  <2> HIDE DEF u
  <2>5. InStep(p, v, t, S, T, O, Q)
    <3>1. u.remote = t.our => h.num =< t.sendCounter
      <4>1. t.sendCounter \in Nat
        BY CounterFields
      <4>2. h.dh = t.our => h.num < t.sendCounter
        BY DEF InStep, Half, SealsInStep
      <4>3. QED
        BY <1>1, <2>2, <4>1, <4>2
    <3>2. QED
      BY <1>1, <2>2, <3>1, StageInStep
  <2>6. v \in Session /\ v.remote = u.remote /\ v.recvCounter = h.num
    <3>1. /\ v \in Session
          /\ v.remote = u.remote
          /\ v.recvCounter = IF h.num =< u.recvCounter THEN u.recvCounter
                             ELSE h.num
      BY <1>1, <2>2, StageKeeps
    <3>2. u.recvCounter \in Nat
      BY <2>2, CounterFields
    <3>3. QED
      BY <1>1, <2>3, <3>1, <3>2
  <2> HIDE DEF v
  <2>7. InStep(p, [v EXCEPT !.recvChain = ChainAfter(@, 1),
                            !.recvCounter = @ + 1],
               t, S, T, O \cup {e}, Q)
    BY <2>2, <2>5, <2>6, TakeInStep
  <2>8. QED
    BY <2>4, <2>7
<1>4. QED
  BY <1>2, <1>3

LEMMA InStepSymmetric ==
    ASSUME NEW p \in Party, NEW s, NEW t, NEW S, NEW T, NEW O, NEW Q,
           InStep(p, s, t, S, T, O, Q)
    PROVE  InStep(Peer(p), t, s, T, S, Q, O)
BY PeerPeer DEF InStep

\* A send or a receive keeps the ratchet key pair or takes the fresh one.
LEMMA AfterSendOur ==
    ASSUME NEW s \in Session, NEW fresh \in PublicKey
    PROVE  AfterSend(s, fresh).our = s.our \/ AfterSend(s, fresh).our = fresh
<1> DEFINE r == ReadyToSend(s, fresh)
           x == AfterSend(s, fresh)
<1>1. r \in Session /\ (r.our = s.our \/ r.our = fresh)
  <2>1. FirstSendRatchet(s, fresh).our = fresh
    BY FirstSendFields
  <2>2. r \in Session
    BY ReadyType
  <2>3. QED
    BY <2>1, <2>2 DEF ReadyToSend
<1>2. x = [r EXCEPT !.sendChain = ChainAfter(@, 1), !.sendCounter = @ + 1]
  BY DEF AfterSend
<1> HIDE DEF r, x
<1>3. x.our = r.our
  BY <1>1, <1>2, AdvanceSendFields
<1>4. QED
  BY <1>1, <1>3 DEF x

LEMMA AfterReceiveOur ==
    ASSUME NEW s \in Session, NEW h \in Header, NEW fresh \in PublicKey
    PROVE  LET x == AfterReceive(s, h, fresh) IN
           x.our = s.our \/ x.our = fresh
<1> DEFINE u == OnChain(s, h, fresh)
           v == Stage(u, h.num)
           x == AfterReceive(s, h, fresh)
<1>1. h.dh \in PublicKey /\ h.prev \in Nat /\ h.num \in Nat
  BY DEF Header
<1>2. /\ u \in Session /\ v \in Session
      /\ Cached(s, h) # {} => x = [s EXCEPT !.skipped = @ \ Cached(s, h)]
      /\ Cached(s, h) = {} =>
             x = [v EXCEPT !.recvChain = ChainAfter(@, 1),
                           !.recvCounter = @ + 1]
  BY ReceiveEffect
<1>3. u.our = s.our \/ u.our = fresh
  <2>1. Stage(s, h.prev) \in Session
    BY <1>1, StageKeeps
  <2>2. DhRatchet(Stage(s, h.prev), h.dh, fresh).our = fresh
    BY <1>1, <2>1, DhRatchetSends
  <2>3. QED
    BY <2>2 DEF OnChain
<1> HIDE DEF u
<1>4. v.our = u.our
  BY <1>1, <1>2, StageKeeps
<1> HIDE DEF v, x
<1>5. CASE Cached(s, h) # {}
  BY <1>2, <1>5 DEF Session, x
<1>6. CASE Cached(s, h) = {}
  <2>1. x.our = v.our
    BY <1>2, <1>6, AdvanceReceiveFields
  <2>2. QED
    BY <1>3, <1>4, <2>1 DEF x
<1>7. QED
  BY <1>5, <1>6

-----------------------------------------------------------------------------
\* Only messages are skipped or awaited

\* The messages of the peer, whose session is t, that session s has not
\* passed: the rest of the chain it receives on and, if the peer has
\* ratcheted since, all of the next one.
Backlog(s, t) ==
    IF s.remote = t.our THEN t.sendCounter - s.recvCounter
    ELSE (t.prevSend - s.recvCounter) + t.sendCounter

\* With the skipped keys they are at most the n messages the peer has sealed.
Counted(s, t, n) ==
    /\ ~t.sendInit => s.remote = t.our /\ s.recvCounter = 0
    /\ s.recvCounter =< IF s.remote = t.our THEN t.sendCounter ELSE t.prevSend
    /\ IsFiniteSet(s.skipped)
    /\ Cardinality(s.skipped) + Backlog(s, t) =< n

\* What Counted reads of the two sessions.
LEMMA CountedBy ==
    ASSUME NEW s, NEW t, NEW x, NEW y, NEW n, Counted(s, t, n),
           x.remote = s.remote, x.recvCounter = s.recvCounter,
           x.skipped = s.skipped,
           y.sendInit = t.sendInit, y.our = t.our,
           y.sendCounter = t.sendCounter, y.prevSend = t.prevSend
    PROVE  Counted(x, y, n)
BY DEF Counted, Backlog

LEMMA InitCounted ==
    ASSUME NEW p \in Party
    PROVE  Counted(InitSession(p, Peer(p), p = Initiator),
                   InitSession(Peer(p), Peer(Peer(p)), Peer(p) = Initiator), 0)
<1> DEFINE s == InitSession(p, Peer(p), p = Initiator)
           t == InitSession(Peer(p), Peer(Peer(p)), Peer(p) = Initiator)
<1>1. /\ s.remote = t.our
      /\ s.recvCounter = 0
      /\ t.sendCounter = 0
      /\ s.skipped = {}
  BY DEF InitSession
<1>2. IsFiniteSet({}) /\ Cardinality({}) = 0
  BY FS_EmptySet
<1> HIDE DEF s, t
<1>3. Counted(s, t, 0)
  BY <1>1, <1>2 DEF Counted, Backlog
<1>4. QED
  BY <1>3 DEF s, t

\* A send: one message more that the peer awaits, and nothing else changes.
LEMMA SendCounted ==
    ASSUME NEW p \in Party, NEW s \in Session, NEW t \in Session,
           NEW S, NEW T, Envelopes(S), Envelopes(T),
           NEW O, NEW Q, InStep(p, s, t, S, T, O, Q),
           NEW fresh \in PublicKey, fresh[1] = p, fresh[2] = s.our[2] + 1,
           NEW n \in Nat, Counted(t, s, n),
           NEW m \in Nat, Counted(s, t, m)
    PROVE  /\ Counted(t, AfterSend(s, fresh), n + 1)
           /\ Counted(AfterSend(s, fresh), t, m)
<1> DEFINE r == ReadyToSend(s, fresh)
           x == AfterSend(s, fresh)
<1>1. /\ t.recvCounter \in Nat /\ s.sendCounter \in Nat /\ s.prevSend \in Nat
      /\ s.our \in PublicKey /\ s.our[2] \in Nat
  BY CounterFields, PublicKeyFields
<1>2. Cardinality(t.skipped) \in Nat
  BY FS_CardinalityType DEF Counted
<1>3. /\ r \in Session
      /\ r.sendInit
      /\ r.remote = s.remote
      /\ r.recvCounter = s.recvCounter
      /\ r.skipped = s.skipped
      /\ r.sendCounter \in Nat
      /\ r.prevSend \in Nat
      /\ Counted(t, r, n)
  <2>1. CASE s.sendInit
    BY <1>1, <2>1 DEF ReadyToSend
  <2>2. CASE ~s.sendInit
    <3>1. r = FirstSendRatchet(s, fresh)
      BY <2>2 DEF ReadyToSend
    <3> HIDE DEF r
    <3>2. /\ r \in Session
          /\ r.sendInit
          /\ r.remote = s.remote
          /\ r.recvCounter = s.recvCounter
          /\ r.skipped = s.skipped
          /\ r.our = fresh
          /\ r.sendCounter = s.sendCounter
          /\ r.prevSend = s.sendCounter
      BY <3>1, FirstSendFields
    <3>3. s.sendCounter = 0
      BY <2>2 DEF InStep, Half, Aligned
    <3>4. t.remote = s.our /\ t.recvCounter = 0
      BY <2>2 DEF Counted
    <3>5. fresh # s.our
      BY <1>1
    <3>6. Counted(t, r, n)
      BY <1>2, <3>2, <3>3, <3>4, <3>5 DEF Counted, Backlog
    <3>7. QED
      BY <3>2, <3>3, <3>6
  <2>3. QED
    BY <2>1, <2>2
<1>4. x = [r EXCEPT !.sendChain = ChainAfter(@, 1), !.sendCounter = @ + 1]
  BY DEF AfterSend
<1> HIDE DEF r, x
<1>5. /\ x.sendInit = r.sendInit
      /\ x.sendCounter = r.sendCounter + 1
      /\ x.prevSend = r.prevSend
      /\ x.recvCounter = r.recvCounter
      /\ x.our = r.our
      /\ x.remote = r.remote
      /\ x.skipped = r.skipped
  BY <1>3, <1>4, AdvanceSendFields
<1>6. Counted(t, x, n + 1)
  BY <1>1, <1>2, <1>3, <1>5 DEF Counted, Backlog
<1>7. Counted(x, t, m)
  BY <1>3, <1>5, CountedBy
<1>8. QED
  BY <1>6, <1>7 DEF x

\* The DH ratchet of a receive, after which the rest of the old chain is
\* skipped and all of the new one awaited.
LEMMA RatchetCounted ==
    ASSUME NEW p \in Party, NEW s \in Session, NEW t \in Session,
           NEW S, NEW T, Envelopes(S), Envelopes(T),
           NEW O, NEW Q, InStep(p, s, t, S, T, O, Q),
           NEW e \in T, e.header.dh # s.remote,
           ~(e.header.dh[2] < s.remote[2]),
           NEW fresh \in PublicKey, fresh[1] = p, fresh[2] = s.our[2] + 1,
           NEW n \in Nat, Counted(s, t, n),
           NEW m \in Nat, Counted(t, s, m)
    PROVE  LET u == OnChain(s, e.header, fresh) IN
           /\ u \in Session
           /\ u.remote = t.our
           /\ Counted(u, t, n)
           /\ Counted(t, u, m)
<1> DEFINE h == e.header
           w == Stage(s, t.prevSend)
           u == OnChain(s, h, fresh)
<1>1. /\ s.recvCounter \in Nat /\ s.sendCounter \in Nat
      /\ t.recvCounter \in Nat /\ t.sendCounter \in Nat /\ t.prevSend \in Nat
      /\ s.our \in PublicKey /\ s.our[2] \in Nat
      /\ t.our \in PublicKey
  BY CounterFields, PublicKeyFields
<1>2. /\ Ahead(t, s, T)
      /\ s.sendInit
      /\ t.sendInit
      /\ h.dh = t.our
      /\ h.prev = t.prevSend
  BY NewRemote
<1>3. s.remote # t.our /\ t.remote = s.our
  BY <1>2 DEF Ahead
<1>4. s.recvCounter =< t.prevSend /\ IsFiniteSet(s.skipped)
  BY <1>3 DEF Counted
<1>5. /\ w \in Session
      /\ w.sendInit = s.sendInit
      /\ w.sendCounter = s.sendCounter
      /\ w.recvCounter = t.prevSend
  <2>1. /\ w \in Session
        /\ w.sendInit = s.sendInit
        /\ w.sendCounter = s.sendCounter
        /\ w.recvCounter = IF t.prevSend =< s.recvCounter THEN s.recvCounter
                           ELSE t.prevSend
    BY <1>1, StageKeeps
  <2>2. QED
    BY <1>1, <1>4, <2>1
<1>6. /\ IsFiniteSet(w.skipped)
      /\ Cardinality(w.skipped) =<
             Cardinality(s.skipped) + (w.recvCounter - s.recvCounter)
      /\ Cardinality(w.skipped) \in Nat
      /\ Cardinality(s.skipped) \in Nat
  BY <1>1, <1>2, <1>4, StageCardinality
<1>7. u = DhRatchet(w, t.our, fresh)
  BY <1>2, <1>3 DEF OnChain
<1> HIDE DEF w, u
<1>8. /\ u \in Session
      /\ u.sendInit = w.sendInit
      /\ u.sendCounter = 0
      /\ u.prevSend = w.sendCounter
      /\ u.our = fresh
  <2>1. w \in Session /\ t.our \in PublicKey
    BY <1>1, <1>5
  <2> DEFINE y == DhRatchet(w, t.our, fresh)
  <2>2. /\ y \in Session
        /\ y.sendInit = w.sendInit
        /\ y.sendCounter = 0
        /\ y.prevSend = w.sendCounter
        /\ y.our = fresh
    BY <2>1, DhRatchetCounts
  <2> HIDE DEF y
  <2>3. u = y
    BY <1>7 DEF y
  <2>4. QED
    BY <2>2, <2>3
<1>9. /\ u.recvCounter = 0
      /\ u.remote = t.our
      /\ u.skipped = w.skipped
  BY <1>1, <1>5, <1>7, DhRatchetReceives
<1>10. Counted(u, t, n)
  <2>1. Cardinality(s.skipped) + (t.prevSend - s.recvCounter) + t.sendCounter
            =< n
    BY <1>1, <1>3, <1>6 DEF Counted, Backlog
  <2>2. Cardinality(u.skipped) + t.sendCounter =< n
    BY <1>1, <1>5, <1>6, <1>9, <2>1
  <2>3. QED
    BY <1>1, <1>2, <1>6, <1>9, <2>2 DEF Counted, Backlog
<1>11. Counted(t, u, m)
  <2>1. /\ IsFiniteSet(t.skipped)
        /\ t.recvCounter =< s.sendCounter
        /\ Cardinality(t.skipped) + (s.sendCounter - t.recvCounter) =< m
    BY <1>3 DEF Counted, Backlog
  <2>2. Cardinality(t.skipped) \in Nat
    BY <2>1, FS_CardinalityType
  <2>3. t.remote # u.our
    BY <1>1, <1>3, <1>8
  <2>4. QED
    BY <1>1, <1>2, <1>5, <1>8, <2>1, <2>2, <2>3 DEF Counted, Backlog
<1>12. QED
  BY <1>8, <1>9, <1>10, <1>11 DEF u

\* A receive passes the messages it skips and the one it opens.
LEMMA ReceiveCounted ==
    ASSUME NEW p \in Party, NEW s \in Session, NEW t \in Session,
           NEW S, NEW T, Envelopes(S), Envelopes(T),
           NEW O, NEW Q, InStep(p, s, t, S, T, O, Q),
           NEW e \in T, e \notin O,
           NEW fresh \in PublicKey, fresh[1] = p, fresh[2] = s.our[2] + 1,
           Accepts(s, e.header, fresh),
           NEW n \in Nat, Counted(s, t, n),
           NEW m \in Nat, Counted(t, s, m)
    PROVE  /\ Counted(AfterReceive(s, e.header, fresh), t, n)
           /\ Counted(t, AfterReceive(s, e.header, fresh), m)
<1> DEFINE h == e.header
           u == OnChain(s, h, fresh)
           v == Stage(u, h.num)
           x == AfterReceive(s, h, fresh)
<1>1. h \in Header /\ h.dh \in PublicKey /\ h.prev \in Nat /\ h.num \in Nat
  BY EnvelopeFields DEF Envelopes
<1>2. CASE Cached(s, h) # {}
  <2>1. x = [s EXCEPT !.skipped = @ \ Cached(s, h)]
    BY <1>2 DEF AfterReceive
  <2>2. /\ x.skipped = s.skipped \ Cached(s, h)
        /\ x.recvCounter = s.recvCounter
        /\ x.remote = s.remote
        /\ x.sendInit = s.sendInit
        /\ x.our = s.our
        /\ x.sendCounter = s.sendCounter
        /\ x.prevSend = s.prevSend
    BY <2>1 DEF Session
  <2> HIDE DEF x, h
  <2>3. x.skipped \subseteq s.skipped
    BY <2>2
  <2>4. /\ IsFiniteSet(x.skipped)
        /\ Cardinality(x.skipped) =< Cardinality(s.skipped)
    BY <2>3, FS_Subset DEF Counted
  <2>5. Cardinality(x.skipped) \in Nat /\ Cardinality(s.skipped) \in Nat
    BY <2>4, FS_CardinalityType DEF Counted
  <2>6. /\ s.recvCounter \in Nat
        /\ t.sendCounter \in Nat /\ t.prevSend \in Nat
    BY CounterFields
  <2>7. Counted(x, t, n)
    BY <2>2, <2>4, <2>5, <2>6 DEF Counted, Backlog
  <2>8. Counted(t, x, m)
    BY <2>2, CountedBy
  <2>9. QED
    BY <2>7, <2>8 DEF x, h
<1>3. CASE Cached(s, h) = {}
  <2>1. ~(h.dh[2] < s.remote[2])
    BY <1>3 DEF InStep, Half, PassedInStep
  <2>2. /\ u \in Session
        /\ Counted(u, t, n)
        /\ Counted(t, u, m)
        /\ u.remote = h.dh
        /\ h.dh # s.remote => h.dh = t.our
    <3>1. CASE h.dh = s.remote
      BY <3>1 DEF OnChain
    <3>2. CASE h.dh # s.remote
      <4>1. h.dh = t.our
        BY <2>1, <3>2, NewRemote
      <4>2. QED
        BY <2>1, <3>2, <4>1, RatchetCounted
    <3>3. QED
      BY <3>1, <3>2
  <2>3. u.recvCounter \in Nat /\ u.recvCounter =< h.num
    <3>1. u.recvCounter \in Nat
      BY <2>2, CounterFields
    <3>2. QED
      BY <1>1, <1>3, <3>1 DEF Accepts
  <2>4. x = [v EXCEPT !.recvChain = ChainAfter(@, 1), !.recvCounter = @ + 1]
    BY <1>3 DEF AfterReceive
  <2> HIDE DEF u, x
  <2>5. t.sendInit
    BY DEF InStep, Half, Aligned
  <2>6. h.num < IF u.remote = t.our THEN t.sendCounter ELSE t.prevSend
    <3>1. CASE h.dh = t.our
      BY <2>2, <3>1 DEF InStep, Half, SealsInStep
    <3>2. CASE h.dh # t.our
      <4>1. h.dh = s.remote
        BY <2>2, <3>2
      <4>2. Ahead(t, s, T)
        BY <3>2, <4>1 DEF InStep, Ahead
      <4>3. h.num < t.prevSend
        BY <4>1, <4>2 DEF Ahead
      <4>4. QED
        BY <2>2, <3>2, <4>3
    <3>3. QED
      BY <3>1, <3>2
  <2>7. /\ v \in Session
        /\ v.sendInit = u.sendInit
        /\ v.sendCounter = u.sendCounter
        /\ v.prevSend = u.prevSend
        /\ v.our = u.our
        /\ v.remote = u.remote
        /\ v.recvCounter = h.num
    <3>1. /\ v \in Session
          /\ v.sendInit = u.sendInit
          /\ v.sendCounter = u.sendCounter
          /\ v.prevSend = u.prevSend
          /\ v.our = u.our
          /\ v.remote = u.remote
          /\ v.recvCounter = IF h.num =< u.recvCounter THEN u.recvCounter
                             ELSE h.num
      BY <1>1, <2>2, StageKeeps
    <3>2. QED
      BY <1>1, <2>3, <3>1
  <2>8. /\ IsFiniteSet(v.skipped)
        /\ Cardinality(v.skipped) =<
               Cardinality(u.skipped) + (v.recvCounter - u.recvCounter)
        /\ Cardinality(v.skipped) \in Nat
        /\ Cardinality(u.skipped) \in Nat
    <3>1. IsFiniteSet(u.skipped)
      BY <2>2 DEF Counted
    <3>2. QED
      BY <1>1, <2>2, <3>1, StageCardinality
  <2> HIDE DEF v
  <2>9. /\ x.sendInit = u.sendInit
        /\ x.sendCounter = u.sendCounter
        /\ x.prevSend = u.prevSend
        /\ x.our = u.our
        /\ x.remote = u.remote
        /\ x.recvCounter = h.num + 1
        /\ x.skipped = v.skipped
    <3> DEFINE y == [v EXCEPT !.recvChain = ChainAfter(@, 1),
                              !.recvCounter = @ + 1]
    <3>1. /\ y.sendInit = v.sendInit
          /\ y.sendCounter = v.sendCounter
          /\ y.prevSend = v.prevSend
          /\ y.recvCounter = v.recvCounter + 1
          /\ y.our = v.our
          /\ y.remote = v.remote
          /\ y.skipped = v.skipped
      BY <2>7, AdvanceReceiveFields
    <3>2. x = y
      BY <2>4
    <3> HIDE DEF y
    <3>3. QED
      BY <2>7, <3>1, <3>2
  <2>10. t.sendCounter \in Nat /\ t.prevSend \in Nat
    BY CounterFields
  <2> HIDE DEF h
  <2>11. Counted(x, t, n)
    BY <1>1, <2>2, <2>3, <2>5, <2>6, <2>7, <2>8, <2>9, <2>10
    DEF Counted, Backlog
  <2>12. Counted(t, x, m)
    BY <2>2, <2>9, CountedBy
  <2>13. QED
    BY <2>11, <2>12 DEF x, h
<1>4. QED
  BY <1>2, <1>3

\* So no skip limit refuses a message of a peer that has sealed no more than
\* the limits admit.
LEMMA CountedWithinLimits ==
    ASSUME NEW p \in Party, NEW s \in Session, NEW t \in Session,
           NEW S, NEW T, Envelopes(S), Envelopes(T),
           NEW O, NEW Q, InStep(p, s, t, S, T, O, Q),
           NEW e \in T, e \notin O,
           NEW fresh \in PublicKey,
           NEW n \in Nat, Counted(s, t, n),
           n =< MaxSkip, n =< MaxSkippedTotal
    PROVE  ~OverLimit(s, e.header, fresh)
<1> DEFINE h == e.header
           w == Stage(s, t.prevSend)
           u == OnChain(s, h, fresh)
<1>1. h.dh \in PublicKey /\ h.prev \in Nat /\ h.num \in Nat
  BY EnvelopeFields DEF Envelopes
<1>2. SUFFICES ASSUME Cached(s, h) = {}
               PROVE  /\ h.dh # s.remote => CanStage(s, h.prev)
                      /\ CanStage(u, h.num)
  BY DEF OverLimit
<1>3. ~(h.dh[2] < s.remote[2])
  BY <1>2 DEF InStep, Half, PassedInStep
<1>4. /\ s.recvCounter \in Nat
      /\ t.sendCounter \in Nat /\ t.prevSend \in Nat
      /\ t.our \in PublicKey
  BY CounterFields
<1>5. IsFiniteSet(s.skipped) /\ Cardinality(s.skipped) \in Nat
  BY FS_CardinalityType DEF Counted
<1>6. MaxSkip \in Nat /\ MaxSkippedTotal \in Nat
  BY LimitsAssumption
<1>7. CASE h.dh = s.remote
  <2>1. u = s
    BY <1>7 DEF OnChain
  <2>2. h.num < IF s.remote = t.our THEN t.sendCounter ELSE t.prevSend
    <3>1. CASE h.dh = t.our
      BY <1>7, <3>1 DEF InStep, Half, SealsInStep
    <3>2. CASE h.dh # t.our
      <4>1. Ahead(t, s, T)
        BY <1>7, <3>2 DEF InStep, Ahead
      <4>2. h.num < t.prevSend
        BY <1>7, <4>1 DEF Ahead
      <4>3. QED
        BY <1>7, <3>2, <4>2
    <3>3. QED
      BY <3>1, <3>2
  <2> HIDE DEF u, h
  <2>3. h.num - s.recvCounter =< Backlog(s, t)
    BY <1>1, <1>4, <2>2 DEF Backlog
  <2>4. Backlog(s, t) \in Int
    BY <1>4 DEF Backlog
  <2>5. /\ h.num - s.recvCounter =< n
        /\ Cardinality(s.skipped) + (h.num - s.recvCounter) =< n
    BY <1>1, <1>4, <1>5, <2>3, <2>4 DEF Counted
  <2>6. CanStage(s, h.num)
    BY <1>1, <1>4, <1>5, <1>6, <2>5 DEF CanStage
  <2>7. QED
    BY <1>7, <2>1, <2>6
<1>8. CASE h.dh # s.remote
  <2>1. /\ Ahead(t, s, T)
        /\ h.dh = t.our
        /\ h.prev = t.prevSend
        /\ h.num < t.sendCounter
    BY <1>3, <1>8, NewRemote
  <2>2. /\ s.recvCounter =< t.prevSend
        /\ Cardinality(s.skipped) + ((t.prevSend - s.recvCounter)
               + t.sendCounter) =< n
    BY <1>8, <2>1 DEF Counted, Backlog
  <2>3. CanStage(s, t.prevSend)
    BY <1>4, <1>5, <1>6, <2>2 DEF CanStage
  <2>4. /\ w \in Session
        /\ w.recvCounter = t.prevSend
    <3>1. /\ w \in Session
          /\ w.recvCounter = IF t.prevSend =< s.recvCounter
                             THEN s.recvCounter ELSE t.prevSend
      BY <1>4, StageKeeps
    <3>2. QED
      BY <1>4, <2>2, <3>1
  <2>5. /\ Cardinality(w.skipped) =<
               Cardinality(s.skipped) + (w.recvCounter - s.recvCounter)
        /\ Cardinality(w.skipped) \in Nat
    BY <1>4, <1>5, StageCardinality
  <2>6. u = DhRatchet(w, t.our, fresh)
    BY <1>8, <2>1 DEF OnChain
  <2> HIDE DEF w, u
  <2>7. u.recvCounter = 0 /\ u.skipped = w.skipped
    BY <1>4, <2>4, <2>6, DhRatchetReceives
  <2>8. /\ h.num =< n
        /\ Cardinality(u.skipped) + h.num =< n
    BY <1>1, <1>4, <1>5, <2>1, <2>2, <2>4, <2>5, <2>7
  <2>9. CanStage(u, h.num)
    <3>1. Cardinality(u.skipped) \in Nat
      BY <2>5, <2>7
    <3> HIDE DEF h
    <3>2. QED
      BY <1>1, <1>6, <2>7, <2>8, <3>1 DEF CanStage
  <2>10. QED
    BY <2>1, <2>3, <2>9
<1>9. QED
  BY <1>7, <1>8

=============================================================================
