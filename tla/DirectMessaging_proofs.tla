------------------------ MODULE DirectMessaging_proofs ------------------------
(***************************************************************************)
(* TLAPS proofs about DirectMessaging, for every number of messages, page  *)
(* size and number of pages, fault and deletion: what the rows of the two  *)
(* devices, their retry ciphertexts, the requests under way and the table  *)
(* of the server say of each other, that no message key seals two          *)
(* envelopes, and that the system implements MessageLedger.                *)
(***************************************************************************)
EXTENDS DirectMessaging, DoubleRatchet_proofs

-----------------------------------------------------------------------------
\* The inductive invariant

Envelope == [id : Id, header : Header, key : Key]

PostType ==
    [ kind : {"post"}, todo : SUBSET Envelope,
      phase : {"ready", "waiting", "answered"} ]
FetchType ==
    [ kind : {"fetch"}, known : SUBSET Id, pending : SUBSET Id,
      batches : Seq(Envelope), page : Nat ]
ApplyType ==
    [ kind : {"apply"}, known : SUBSET Id, pending : SUBSET Id,
      todo : Seq(Envelope) ]
OpType == {Idle} \cup PostType \cup FetchType \cup ApplyType

Types ==
    /\ session \in [Party -> Session]
    /\ keygen \in [Party -> Nat]
    /\ saved \in [Party -> SUBSET Id]
    /\ unsent \in [Party -> SUBSET Id]
    /\ outbox \in [Party -> SUBSET Envelope]
    /\ composed \in [Party -> Nat]
    /\ store \in Seq(Envelope)
    /\ requests \in SUBSET Envelope
    /\ op \in [Party -> OpType]

Stored == Entries(store)

\* Every set of these envelopes has an oldest one, which is what Current picks.
HasOldest(envs) ==
    \A T \in SUBSET envs :
        T # {} => \E e \in T : \A f \in T : e.id[2] =< f.id[2]

\* The envelopes that can be read outside: each id was drawn once, by its
\* author, and names one ciphertext.
WireInv ==
    /\ \A e \in OnTheWire : e.id[2] \in 1 .. composed[Author(e.id)]
    /\ \A e, f \in OnTheWire : e.id = f.id => e = f
    /\ \A p \in Party :
          /\ \A e \in outbox[p] : Author(e.id) = p
          /\ HasOldest(outbox[p])

\* A row is shown as unsent only with its retry ciphertext, and any other row
\* only when the server has it.
RowsOK(p) ==
    /\ unsent[p] \subseteq saved[p]
    /\ unsent[p] \subseteq Ids(outbox[p])
    /\ saved[p] \subseteq unsent[p] \cup Ids(Stored)

\* What a running operation has read before still agrees with the disk and
\* the server: what it delivers is in the outbox, what was answered is stored,
\* and the snapshot of a sync splits the rows as RowsOK does.
OpOK(p) ==
    /\ op[p].kind = "post" =>
           /\ op[p].todo # {}
           /\ op[p].todo \subseteq outbox[p]
           /\ op[p].phase = "answered" => Current(op[p]).id \in Ids(Stored)
    /\ op[p].kind \in {"fetch", "apply"} =>
           /\ op[p].pending \subseteq Ids(outbox[p])
           /\ op[p].known \subseteq op[p].pending \cup Ids(Stored)
    /\ op[p].kind = "fetch" => Entries(op[p].batches) \subseteq Stored
    /\ op[p].kind = "apply" => Entries(op[p].todo) \subseteq Stored

IInv ==
    /\ Types
    /\ WireInv
    /\ \A p \in Party : RowsOK(p) /\ OpOK(p)

-----------------------------------------------------------------------------
\* Sequences of envelopes

LEMMA EntriesAppend ==
    ASSUME NEW S, NEW s \in Seq(S), NEW x \in S
    PROVE  /\ Append(s, x) \in Seq(S)
           /\ Entries(Append(s, x)) = Entries(s) \cup {x}
<1> DEFINE t == Append(s, x)
<1>1. t \in Seq(S) /\ Len(t) = Len(s) + 1 /\ Len(s) \in Nat
  OBVIOUS
<1>2. /\ \A i \in 1 .. Len(s) : t[i] = s[i]
      /\ t[Len(s) + 1] = x
  OBVIOUS
<1> HIDE DEF t
<1>3. Entries(t) \subseteq Entries(s) \cup {x}
  <2>1. ASSUME NEW i \in DOMAIN t, i # Len(s) + 1
        PROVE  i \in DOMAIN s /\ t[i] = s[i]
    BY <1>1, <1>2, <2>1
  <2>2. QED
    BY <1>2, <2>1 DEF Entries
<1>4. Entries(s) \cup {x} \subseteq Entries(t)
  BY <1>1, <1>2 DEF Entries
<1>5. QED
  BY <1>1, <1>3, <1>4 DEF t

LEMMA SeqOfLength ==
    ASSUME NEW S, NEW n \in Nat, NEW s \in [1 .. n -> S]
    PROVE  s \in Seq(S) /\ Len(s) = n
OBVIOUS

LEMMA EntriesConcat ==
    ASSUME NEW S, NEW s \in Seq(S), NEW t \in Seq(S)
    PROVE  /\ s \o t \in Seq(S)
           /\ Entries(s \o t) \subseteq Entries(s) \cup Entries(t)
<1>1. s \o t \in Seq(S) /\ Len(s \o t) = Len(s) + Len(t)
  OBVIOUS
<1>2. ASSUME NEW i \in 1 .. Len(s \o t)
      PROVE  (s \o t)[i] \in Entries(s) \cup Entries(t)
  <2>1. CASE i =< Len(s)
    BY <1>1, <2>1 DEF Entries
  <2>2. CASE i > Len(s)
    <3>1. (s \o t)[i] = t[i - Len(s)] /\ i - Len(s) \in 1 .. Len(t)
      BY <1>1, <2>2
    <3>2. QED
      BY <3>1 DEF Entries
  <2>3. QED
    BY <1>1, <2>1, <2>2
<1>3. QED
  BY <1>1, <1>2 DEF Entries

LEMMA EntriesSubSeq ==
    ASSUME NEW S, NEW s \in Seq(S), NEW a \in Nat \ {0}, NEW b \in 0 .. Len(s)
    PROVE  /\ SubSeq(s, a, b) \in Seq(S)
           /\ Entries(SubSeq(s, a, b)) \subseteq Entries(s)
<1> DEFINE t == SubSeq(s, a, b)
<1>1. \A i \in a .. b : s[i] \in S
  OBVIOUS
<1>2. t \in Seq(S)
  BY <1>1
<1>3. ASSUME NEW i \in DOMAIN t
      PROVE  t[i] \in Entries(s)
  <2>1. t[i] = s[i + a - 1] /\ i + a - 1 \in DOMAIN s
    OBVIOUS
  <2>2. QED
    BY <2>1 DEF Entries
<1>4. QED
  BY <1>2, <1>3 DEF Entries

LEMMA EntriesTail ==
    ASSUME NEW S, NEW s \in Seq(S), s # <<>>
    PROVE  /\ Head(s) \in S
           /\ Head(s) \in Entries(s)
           /\ Tail(s) \in Seq(S)
           /\ Entries(Tail(s)) \subseteq Entries(s)
<1>1. Len(s) >= 1 /\ Tail(s) \in Seq(S) /\ Len(Tail(s)) = Len(s) - 1
  OBVIOUS
<1>2. \A i \in 1 .. Len(Tail(s)) : Tail(s)[i] = s[i + 1]
  OBVIOUS
<1>3. Head(s) = s[1]
  OBVIOUS
<1>4. QED
  BY <1>1, <1>2, <1>3 DEF Entries

-----------------------------------------------------------------------------
\* What the actions read

LEMMA OpCases ==
    ASSUME NEW o \in OpType
    PROVE  /\ o.kind \in {"idle", "post", "fetch", "apply"}
           /\ o.kind = "idle" => o = Idle
           /\ o.kind = "post" => o \in PostType
           /\ o.kind = "fetch" => o \in FetchType
           /\ o.kind = "apply" => o \in ApplyType
BY DEF OpType, Idle, PostType, FetchType, ApplyType

LEMMA OpConstructors ==
    ASSUME NEW known \in SUBSET Id, NEW pending \in SUBSET Id,
           NEW seq \in Seq(Envelope)
    PROVE  /\ Idle \in OpType
           /\ \A todo \in SUBSET Envelope :
                  \A phase \in {"ready", "waiting", "answered"} :
                      Post(todo, phase) \in PostType
           /\ \A n \in Nat : Fetch(known, pending, seq, n) \in FetchType
           /\ Apply(known, pending, seq) \in ApplyType
           /\ PostType \cup FetchType \cup ApplyType \subseteq OpType
BY DEF OpType, Post, Fetch, Apply, PostType, FetchType, ApplyType

LEMMA IdFields ==
    ASSUME NEW id \in Id
    PROVE  /\ Author(id) \in Party
           /\ id[2] \in Nat
           /\ id = <<Author(id), id[2]>>
BY DEF Id, Author

LEMMA WireType ==
    ASSUME Types
    PROVE  /\ OnTheWire \subseteq Envelope
           /\ Stored \subseteq OnTheWire
           /\ \A e \in OnTheWire : e.id \in Id /\ Author(e.id) \in Party
<1>1. Stored \subseteq Envelope
  BY DEF Types, Stored, Entries
<1>2. OnTheWire \subseteq Envelope
  BY <1>1 DEF Types, OnTheWire, Stored
<1>3. QED
  BY <1>2, IdFields DEF OnTheWire, Stored, Envelope

\* The delivery loop always has a current envelope: the oldest left.
LEMMA CurrentIsOldest ==
    ASSUME NEW p \in Party, IInv, op[p].kind = "post"
    PROVE  /\ op[p] \in PostType
           /\ Current(op[p]) \in op[p].todo
           /\ Current(op[p]) \in outbox[p]
           /\ Current(op[p]) \in Envelope
           /\ Current(op[p]).id \in Id
           /\ Author(Current(op[p]).id) = p
<1>1. op[p] \in OpType /\ outbox[p] \subseteq Envelope
  BY DEF IInv, Types
<1>2. op[p] \in PostType
  BY <1>1, OpCases
<1>3. op[p].todo # {} /\ op[p].todo \subseteq outbox[p]
  BY DEF IInv, OpOK
<1>4. HasOldest(outbox[p]) /\ \A e \in outbox[p] : Author(e.id) = p
  BY DEF IInv, WireInv
<1>5. \E e \in op[p].todo : \A f \in op[p].todo : e.id[2] =< f.id[2]
  BY <1>3, <1>4 DEF HasOldest
<1>6. Current(op[p]) \in op[p].todo
  BY <1>5 DEF Current
<1>7. QED
  BY <1>1, <1>2, <1>3, <1>4, <1>6 DEF Envelope

\* A page is a part of the table, whatever the cursor.
LEMMA PageIsStored ==
    ASSUME Types, NEW batches \in Seq(Envelope), Entries(batches) \subseteq Stored
    PROVE  /\ Page(batches) \in Seq(Envelope)
           /\ Entries(Page(batches)) \subseteq Stored
<1>1. store \in Seq(Envelope) /\ Len(store) \in Nat
  BY DEF Types
<1>2. Cursor(batches) \in 1 .. Len(store) + 1
  <2>1. CASE batches = <<>>
    BY <1>1, <2>1 DEF Cursor
  <2>2. CASE batches # <<>>
    <3>1. Head(batches) \in Stored
      BY <2>2, EntriesTail
    <3>2. \E i \in 1 .. Len(store) : store[i] = Head(batches)
      BY <1>1, <3>1 DEF Stored, Entries
    <3>3. Cursor(batches) \in 1 .. Len(store)
      BY <2>2, <3>2 DEF Cursor
    <3>4. QED
      BY <1>1, <3>3
  <2>3. QED
    BY <2>1, <2>2
<1> DEFINE last == Cursor(batches) - 1
           first == IF last > PageSize THEN last - PageSize + 1 ELSE 1
<1>3. last \in 0 .. Len(store) /\ first \in Nat \ {0}
  BY <1>1, <1>2, DirectAssumption
<1>4. Page(batches) = SubSeq(store, first, last)
  BY DEF Page
<1> HIDE DEF last, first
<1>5. QED
  BY <1>1, <1>3, <1>4, EntriesSubSeq DEF Stored

-----------------------------------------------------------------------------
\* What a step leaves alone

LEMMA OpKept ==
    ASSUME NEW p \in Party, OpOK(p), op'[p] = op[p],
           outbox'[p] = outbox[p], Stored \subseteq Stored'
    PROVE  OpOK(p)'
<1>1. Ids(Stored) \subseteq Ids(Stored')
  BY DEF Ids
<1>2. QED
  BY <1>1 DEF OpOK

LEMMA RowsKept ==
    ASSUME NEW p \in Party, RowsOK(p), saved'[p] = saved[p],
           unsent'[p] = unsent[p], outbox'[p] = outbox[p],
           Stored \subseteq Stored'
    PROVE  RowsOK(p)'
<1>1. Ids(Stored) \subseteq Ids(Stored')
  BY DEF Ids
<1>2. QED
  BY <1>1 DEF RowsOK

LEMMA OldestKept ==
    ASSUME NEW S, NEW T \in SUBSET S, HasOldest(S)
    PROVE  HasOldest(T)
BY DEF HasOldest

LEMMA WireShrinks ==
    ASSUME WireInv, OnTheWire' \subseteq OnTheWire, composed' = composed,
           \A p \in Party : outbox'[p] \subseteq outbox[p]
    PROVE  WireInv'
<1>1. \A p \in Party : HasOldest(outbox'[p])
  BY OldestKept DEF WireInv
<1>2. QED
  BY <1>1 DEF WireInv

-----------------------------------------------------------------------------
\* The steps that leave the disk and the table alone

LEMMA OpStep ==
    ASSUME IInv, NEW p \in Party, NEW o \in OpType,
           op' = [op EXCEPT ![p] = o], UNCHANGED <<disk, store>>,
           requests' \subseteq requests \cup outbox[p], OpOK(p)'
    PROVE  IInv'
<1>1. /\ op \in [Party -> OpType]
      /\ outbox[p] \subseteq Envelope
      /\ requests \subseteq Envelope
  BY DEF IInv, Types
<1>2. Types'
  BY <1>1 DEF IInv, Types, disk
<1>3. WireInv'
  <2>1. OnTheWire' \subseteq OnTheWire
    BY DEF OnTheWire, Stored, disk
  <2>2. QED
    BY <2>1, WireShrinks DEF IInv, disk
<1>4. ASSUME NEW q \in Party
      PROVE  RowsOK(q)' /\ OpOK(q)'
  <2>1. Stored' = Stored
    BY DEF Stored
  <2>2. RowsOK(q)'
    BY <2>1, RowsKept DEF IInv, disk
  <2>3. CASE q = p
    BY <2>2, <2>3
  <2>4. CASE q # p
    <3>1. op'[q] = op[q]
      BY <1>1, <2>4
    <3>2. OpOK(q)'
      BY <2>1, <3>1, OpKept DEF IInv, disk
    <3>3. QED
      BY <2>2, <3>2
  <2>5. QED
    BY <2>3, <2>4
<1>5. QED
  BY <1>2, <1>3, <1>4 DEF IInv

\* An operation that ends, by itself, by a timeout, an exception or a crash.
LEMMA EndsInv ==
    ASSUME IInv, NEW p \in Party, op' = [op EXCEPT ![p] = Idle],
           UNCHANGED <<disk, store, requests>>
    PROVE  IInv'
<1>1. op'[p] = Idle
  BY DEF IInv, Types
<1>2. OpOK(p)'
  BY <1>1 DEF OpOK, Idle
<1>3. Idle \in OpType
  BY DEF OpType
<1>4. QED
  BY <1>2, <1>3, OpStep

LEMMA RetryInv ==
    ASSUME IInv, NEW p \in Party, Retry(p)
    PROVE  IInv'
<1> DEFINE o == Post(Pending(p), "ready")
<1>1. Pending(p) \subseteq outbox[p] /\ outbox[p] \subseteq Envelope
  BY DEF Pending, IInv, Types
<1>2. o \in OpType
  BY <1>1 DEF OpType, PostType, Post
<1>3. op'[p] = o /\ Pending(p) # {} /\ UNCHANGED <<disk, store, requests>>
  BY DEF Retry, IInv, Types
<1>4. OpOK(p)'
  BY <1>1, <1>3 DEF OpOK, Post, disk
<1>5. QED
  BY <1>2, <1>3, <1>4, OpStep DEF Retry

LEMMA TransmitInv ==
    ASSUME IInv, NEW p \in Party, Transmit(p)
    PROVE  IInv'
<1> DEFINE o == [op[p] EXCEPT !.phase = "waiting"]
<1>1. op[p].kind = "post"
  BY DEF Transmit
<1>2. op[p] \in PostType /\ Current(op[p]) \in outbox[p]
  BY <1>1, CurrentIsOldest
<1>3. /\ o \in PostType
      /\ o.kind = "post"
      /\ o.todo = op[p].todo
      /\ o.phase = "waiting"
  BY <1>2 DEF PostType
<1>4. /\ op' = [op EXCEPT ![p] = o]
      /\ requests' = requests \cup {Current(op[p])}
      /\ UNCHANGED <<disk, store>>
  BY DEF Transmit
<1> HIDE DEF o
<1>5. op'[p] = o
  BY <1>4 DEF IInv, Types
<1>6. op[p].todo # {} /\ op[p].todo \subseteq outbox[p]
  BY <1>1 DEF IInv, OpOK
<1>7. OpOK(p)'
  BY <1>3, <1>4, <1>5, <1>6 DEF OpOK, disk
<1>8. o \in OpType
  BY <1>3 DEF OpType
<1>9. QED
  BY <1>2, <1>4, <1>7, <1>8, OpStep

LEMMA StartSyncInv ==
    ASSUME IInv, NEW p \in Party, StartSync(p)
    PROVE  IInv'
<1> DEFINE o == Fetch(saved[p], unsent[p], <<>>, 1)
<1>1. saved[p] \in SUBSET Id /\ unsent[p] \in SUBSET Id
  BY DEF IInv, Types
<1>2. o \in OpType
  BY <1>1 DEF OpType, FetchType, Fetch
<1>3. op'[p] = o /\ UNCHANGED <<disk, store, requests>>
  BY DEF StartSync, IInv, Types
<1>4. RowsOK(p)
  BY DEF IInv
<1>5. Entries(<<>>) = {}
  BY DEF Entries
<1>6. OpOK(p)'
  BY <1>3, <1>4, <1>5 DEF OpOK, RowsOK, Fetch, disk, Stored
<1>7. QED
  BY <1>2, <1>3, <1>6, OpStep DEF StartSync

LEMMA FetchPageInv ==
    ASSUME IInv, NEW p \in Party, FetchPage(p)
    PROVE  IInv'
<1> DEFINE r == op[p]
           seq == Page(r.batches) \o r.batches
           ends == NoPageFollows(r, Page(r.batches))
           o == IF ends THEN Apply(r.known, r.pending, seq)
                ELSE Fetch(r.known, r.pending, seq, r.page + 1)
<1>1. /\ r.kind = "fetch"
      /\ op' = [op EXCEPT ![p] = o]
      /\ UNCHANGED <<disk, store, requests>>
  BY DEF FetchPage
<1>2. r \in FetchType /\ Types
  BY <1>1, OpCases DEF IInv, Types
<1>3. /\ r.known \in SUBSET Id
      /\ r.pending \in SUBSET Id
      /\ r.batches \in Seq(Envelope)
      /\ r.page \in Nat
  BY <1>2 DEF FetchType
<1>4. Entries(r.batches) \subseteq Stored
  BY <1>1 DEF IInv, OpOK
<1>5. Page(r.batches) \in Seq(Envelope) /\ Entries(Page(r.batches)) \subseteq Stored
  BY <1>2, <1>3, <1>4, PageIsStored
<1>6. seq \in Seq(Envelope) /\ Entries(seq) \subseteq Stored
  BY <1>3, <1>4, <1>5, EntriesConcat
<1>7. /\ r.pending \subseteq Ids(outbox[p])
      /\ r.known \subseteq r.pending \cup Ids(Stored)
  BY <1>1 DEF IInv, OpOK
<1>8. o \in OpType /\ op'[p] = o
  <2> HIDE DEF ends, seq
  <2>1. /\ Apply(r.known, r.pending, seq) \in OpType
        /\ Fetch(r.known, r.pending, seq, r.page + 1) \in OpType
    BY <1>3, <1>6 DEF OpType, FetchType, ApplyType, Fetch, Apply
  <2>2. o \in OpType
    BY <2>1
  <2>3. op \in [Party -> OpType]
    BY <1>2 DEF Types
  <2>4. QED
    BY <1>1, <2>2, <2>3
<1>9. /\ o.known = r.known
      /\ o.pending = r.pending
      /\ o.kind \in {"fetch", "apply"}
      /\ o.kind = "fetch" => o.batches = seq
      /\ o.kind = "apply" => o.todo = seq
  <2> HIDE DEF r, ends, seq
  <2>1. QED
    BY DEF Apply, Fetch
<1> HIDE DEF o, seq, ends
<1>10. OpOK(p)'
  BY <1>1, <1>6, <1>7, <1>8, <1>9 DEF OpOK, disk, Stored
<1>11. QED
  BY <1>1, <1>8, <1>10, OpStep

-----------------------------------------------------------------------------
\* The steps that change the disk or the table

LEMMA AcknowledgeInv ==
    ASSUME IInv, NEW p \in Party, Acknowledge(p)
    PROVE  IInv'
<1> DEFINE env == Current(op[p])
           rest == op[p].todo \ {env}
           o == IF rest = {} THEN Idle ELSE Post(rest, "ready")
<1>1. /\ op[p].kind = "post"
      /\ op[p].phase = "answered"
      /\ CommitSent(p, env)
      /\ op' = [op EXCEPT ![p] = o]
      /\ UNCHANGED <<session, keygen, composed, store, requests>>
  BY DEF Acknowledge, Answered
<1>2. /\ op[p] \in PostType
      /\ env \in op[p].todo
      /\ env \in outbox[p]
      /\ env.id \in Id
      /\ Author(env.id) = p
  BY <1>1, CurrentIsOldest
<1>3. /\ op[p].todo \subseteq outbox[p]
      /\ env.id \in Ids(Stored)
  BY <1>1 DEF IInv, OpOK
<1> HIDE DEF env
<1>4. /\ saved' = [saved EXCEPT ![p] = saved[p] \cup {env.id}]
      /\ unsent' = [unsent EXCEPT ![p] = unsent[p] \ {env.id}]
      /\ outbox' = [outbox EXCEPT ![p] = {e \in outbox[p] : e.id # env.id}]
  BY <1>1 DEF CommitSent
<1>5. /\ saved \in [Party -> SUBSET Id]
      /\ unsent \in [Party -> SUBSET Id]
      /\ outbox \in [Party -> SUBSET Envelope]
      /\ op \in [Party -> OpType]
  BY DEF IInv, Types
<1>6. /\ saved'[p] = saved[p] \cup {env.id}
      /\ unsent'[p] = unsent[p] \ {env.id}
      /\ outbox'[p] = {e \in outbox[p] : e.id # env.id}
      /\ op'[p] = o
      /\ \A q \in Party : q # p => /\ saved'[q] = saved[q]
                                   /\ unsent'[q] = unsent[q]
                                   /\ outbox'[q] = outbox[q]
                                   /\ op'[q] = op[q]
  BY <1>1, <1>4, <1>5
<1>7. Stored' = Stored
  BY <1>1 DEF Stored
<1>8. o \in OpType
  BY <1>2 DEF OpType, PostType, Post
<1>9. Types'
  BY <1>1, <1>2, <1>4, <1>5, <1>8 DEF IInv, Types
<1>10. WireInv'
  <2>1. \A q \in Party : outbox'[q] \subseteq outbox[q]
    BY <1>6
  <2>2. OnTheWire' \subseteq OnTheWire
    BY <1>1, <1>7, <2>1 DEF OnTheWire, Stored
  <2>3. QED
    BY <1>1, <2>1, <2>2, WireShrinks DEF IInv
<1>11. rest \subseteq outbox'[p]
  <2>1. \A e, f \in outbox[p] : e.id = f.id => e = f
    BY DEF IInv, WireInv, OnTheWire
  <2>2. QED
    BY <1>2, <1>3, <1>6, <2>1
<1>12. RowsOK(p)' /\ OpOK(p)'
  <2>1. RowsOK(p)
    BY DEF IInv
  <2>2. RowsOK(p)'
    <3>1. unsent'[p] \subseteq saved'[p]
      BY <1>6, <2>1 DEF RowsOK
    <3>2. unsent'[p] \subseteq Ids(outbox'[p])
      BY <1>6, <2>1 DEF RowsOK, Ids
    <3>3. saved'[p] \subseteq unsent'[p] \cup Ids(Stored')
      BY <1>3, <1>6, <1>7, <2>1 DEF RowsOK
    <3>4. QED
      BY <3>1, <3>2, <3>3 DEF RowsOK
  <2>3. CASE rest = {}
    BY <1>6, <2>2, <2>3 DEF OpOK, Idle
  <2>4. CASE rest # {}
    <3> HIDE DEF rest
    <3>1. op'[p].kind = "post" /\ op'[p].todo = rest /\ op'[p].phase = "ready"
      BY <1>6, <2>4 DEF Post
    <3>2. QED
      BY <1>11, <2>2, <2>4, <3>1 DEF OpOK
  <2>5. QED
    BY <2>3, <2>4
<1>13. ASSUME NEW q \in Party, q # p
       PROVE  RowsOK(q)' /\ OpOK(q)'
  BY <1>6, <1>7, <1>13, RowsKept, OpKept DEF IInv
<1>14. QED
  BY <1>9, <1>10, <1>12, <1>13 DEF IInv

\* The server inserts an id once, and the ciphertext of a retry is the one
\* that is there, so every request is answered with success.
LEMMA InsertEffect ==
    ASSUME IInv, NEW env \in requests, Insert(env)
    PROVE  /\ store' \in Seq(Envelope)
           /\ Stored' = Stored \cup {env}
           /\ env \in Envelope
           /\ Author(env.id) \in Party
<1>1. env \in OnTheWire /\ env \in Envelope /\ Author(env.id) \in Party
  BY WireType DEF IInv, OnTheWire
<1>2. store \in Seq(Envelope)
  BY DEF IInv, Types
<1>3. CASE env.id \in Ids(Stored)
  <2>1. PICK e \in Stored : e.id = env.id
    BY <1>3 DEF Ids
  <2>2. e = env
    BY <1>1, <2>1 DEF IInv, WireInv, OnTheWire, Stored
  <2>3. store' = store
    BY <1>3 DEF Insert, Stored
  <2>4. QED
    BY <1>1, <1>2, <2>1, <2>2, <2>3 DEF Stored
<1>4. CASE env.id \notin Ids(Stored)
  <2>1. store' = Append(store, env)
    BY <1>4 DEF Insert, Stored
  <2>2. QED
    BY <1>1, <1>2, <2>1, EntriesAppend DEF Stored
<1>5. QED
  BY <1>3, <1>4

LEMMA AcceptInv ==
    ASSUME IInv, NEW env \in requests, Accept(env)
    PROVE  IInv'
<1> DEFINE p == Author(env.id)
           r == op[p]
           waiting == r.kind = "post" /\ r.phase = "waiting" /\ Current(r) = env
<1>1. /\ Insert(env)
      /\ requests' = requests \ {env}
      /\ UNCHANGED <<session, keygen, saved, unsent, outbox, composed>>
      /\ \/ op' = op
         \/ waiting /\ op' = [op EXCEPT ![p].phase = "answered"]
  BY DEF Accept, disk
<1>2. /\ store' \in Seq(Envelope)
      /\ Stored' = Stored \cup {env}
      /\ env \in Envelope
      /\ p \in Party
  BY <1>1, InsertEffect
<1>3. WireInv'
  <2>1. OnTheWire' \subseteq OnTheWire
    BY <1>1, <1>2 DEF OnTheWire, Stored
  <2>2. QED
    BY <1>1, <2>1, WireShrinks DEF IInv
<1>4. \A q \in Party : RowsOK(q)'
  BY <1>1, <1>2, RowsKept DEF IInv
<1>5. Types /\ op \in [Party -> OpType]
  BY DEF IInv, Types
<1>6. CASE op' = op
  <2>1. Types'
    BY <1>1, <1>2, <1>5, <1>6 DEF Types
  <2>2. \A q \in Party : OpOK(q)'
    BY <1>1, <1>2, <1>6, OpKept DEF IInv
  <2>3. QED
    BY <1>3, <1>4, <2>1, <2>2 DEF IInv
<1>7. CASE waiting /\ op' = [op EXCEPT ![p].phase = "answered"]
  <2> DEFINE o == [r EXCEPT !.phase = "answered"]
  <2>1. r \in PostType /\ r.todo # {} /\ r.todo \subseteq outbox[p]
    BY <1>2, <1>7, CurrentIsOldest DEF IInv, OpOK
  <2>2. /\ o \in PostType
        /\ o.kind = "post"
        /\ o.todo = r.todo
    BY <2>1 DEF PostType
  <2>3. op' = [op EXCEPT ![p] = o]
    BY <1>7
  <2>4. Current(o) = env
    BY <1>7, <2>2 DEF Current
  <2> HIDE DEF p, r, o, waiting
  <2>5. o \in OpType
    BY <2>2 DEF OpType
  <2>6. op'[p] = o /\ \A q \in Party : q # p => op'[q] = op[q]
    BY <1>2, <1>5, <2>3
  <2>7. Types'
    BY <1>1, <1>2, <1>5, <2>3, <2>5 DEF Types
  <2>8. env.id \in Ids(Stored')
    BY <1>2 DEF Ids
  <2>9. OpOK(p)'
    BY <1>1, <2>1, <2>2, <2>4, <2>6, <2>8 DEF OpOK
  <2>10. ASSUME NEW q \in Party, q # p
         PROVE  OpOK(q)'
    BY <1>1, <1>2, <2>6, <2>10, OpKept DEF IInv
  <2>11. QED
    BY <1>3, <1>4, <2>7, <2>9, <2>10 DEF IInv
<1>8. QED
  BY <1>1, <1>6, <1>7

LEMMA LoseInv ==
    ASSUME IInv, NEW env \in requests, Lose(env)
    PROVE  IInv'
<1>1. requests' = requests \ {env} /\ UNCHANGED <<disk, store, op>>
  BY DEF Lose
<1>2. Types'
  BY <1>1 DEF IInv, Types, disk
<1>3. WireInv'
  <2>1. OnTheWire' \subseteq OnTheWire
    BY <1>1 DEF OnTheWire, Stored, disk
  <2>2. QED
    BY <1>1, <2>1, WireShrinks DEF IInv, disk
<1>4. \A q \in Party : RowsOK(q)' /\ OpOK(q)'
  BY <1>1, RowsKept, OpKept DEF IInv, disk, Stored
<1>5. QED
  BY <1>2, <1>3, <1>4 DEF IInv

LEMMA DeleteInv ==
    ASSUME IInv, NEW p \in Party, DeleteConversation(p)
    PROVE  IInv'
<1>1. /\ saved' = [saved EXCEPT ![p] = {}]
      /\ unsent' = [unsent EXCEPT ![p] = {}]
      /\ UNCHANGED <<session, keygen, outbox, composed, store, requests, op>>
  BY DEF DeleteConversation
<1>2. Types'
  BY <1>1 DEF IInv, Types
<1>3. WireInv'
  <2>1. OnTheWire' \subseteq OnTheWire
    BY <1>1 DEF OnTheWire, Stored
  <2>2. QED
    BY <1>1, <2>1, WireShrinks DEF IInv
<1>4. Stored' = Stored
  BY <1>1 DEF Stored
<1>5. ASSUME NEW q \in Party
      PROVE  OpOK(q)'
  BY <1>1, <1>4, OpKept DEF IInv
<1>6. ASSUME NEW q \in Party
      PROVE  RowsOK(q)'
  <2>1. /\ saved'[q] = IF q = p THEN {} ELSE saved[q]
        /\ unsent'[q] = IF q = p THEN {} ELSE unsent[q]
    BY <1>1 DEF IInv, Types
  <2>2. CASE q = p
    BY <2>1, <2>2 DEF RowsOK
  <2>3. CASE q # p
    BY <1>1, <1>4, <2>1, <2>3, RowsKept DEF IInv
  <2>4. QED
    BY <2>2, <2>3
<1>7. QED
  BY <1>2, <1>3, <1>5, <1>6 DEF IInv

LEMMA FreshType ==
    ASSUME Types, NEW p \in Party
    PROVE  Fresh(p) \in PublicKey /\ session[p] \in Session
BY DEF Types, Fresh, PublicKey

LEMMA SaveSessionEffect ==
    ASSUME Types, NEW p \in Party, NEW s \in Session, SaveSession(p, s)
    PROVE  /\ session' \in [Party -> Session]
           /\ keygen' \in [Party -> Nat]
           /\ session'[p] = s
           /\ \A q \in Party : q # p => session'[q] = session[q]
BY DEF Types, SaveSession

LEMMA OldestAdded ==
    ASSUME NEW S \in SUBSET Envelope, NEW env \in Envelope, HasOldest(S),
           \A e \in S : e.id[2] =< env.id[2]
    PROVE  HasOldest(S \cup {env})
<1>1. \A e \in Envelope : e.id[2] \in Nat
  BY DEF Envelope, Id
<1>2. ASSUME NEW T \in SUBSET (S \cup {env}), T # {}
      PROVE  \E e \in T : \A f \in T : e.id[2] =< f.id[2]
  <2> DEFINE U == T \ {env}
  <2>1. CASE U = {}
    BY <1>1, <1>2, <2>1
  <2>2. CASE U # {}
    <3>1. PICK e \in U : \A f \in U : e.id[2] =< f.id[2]
      BY <1>2, <2>2 DEF HasOldest
    <3>2. e.id[2] =< env.id[2]
      BY <3>1
    <3>3. QED
      BY <3>1, <3>2
  <2>3. QED
    BY <2>1, <2>2
<1>3. QED
  BY <1>2 DEF HasOldest

LEMMA SendEnvelope ==
    ASSUME IInv, NEW p \in Party, Send(p)
    PROVE  \E env \in Envelope :
               /\ env.id = <<p, composed[p] + 1>>
               /\ env.header = SendHeader(session[p], Fresh(p))
               /\ env.key = SendKey(session[p], Fresh(p))
               /\ SaveSession(p, AfterSend(session[p], Fresh(p)))
               /\ session'[p] = AfterSend(session[p], Fresh(p))
               /\ \A q \in Party : q # p => session'[q] = session[q]
               /\ session' \in [Party -> Session]
               /\ keygen' \in [Party -> Nat]
               /\ saved' = [saved EXCEPT ![p] = @ \cup {env.id}]
               /\ unsent' = [unsent EXCEPT ![p] = @ \cup {env.id}]
               /\ outbox' = [outbox EXCEPT ![p] = @ \cup {env}]
               /\ composed' = [composed EXCEPT ![p] = @ + 1]
               /\ op' = [op EXCEPT ![p] = Post({env}, "ready")]
               /\ UNCHANGED <<store, requests, deletes>>
<1> DEFINE t == AfterSend(session[p], Fresh(p))
           env == [ id     |-> <<p, composed[p] + 1>>,
                    header |-> SendHeader(session[p], Fresh(p)),
                    key    |-> SendKey(session[p], Fresh(p)) ]
<1>1. /\ CommitOutgoing(p, t, env)
      /\ composed' = [composed EXCEPT ![p] = @ + 1]
      /\ op' = [op EXCEPT ![p] = Post({env}, "ready")]
      /\ UNCHANGED <<store, requests, deletes>>
  BY DEF Send, bounds
<1>2. /\ t \in Session
      /\ SendHeader(session[p], Fresh(p)) \in Header
      /\ SendKey(session[p], Fresh(p)) \in Key
  BY FreshType, SendType DEF IInv
<1>3. <<p, composed[p] + 1>> \in Id
  BY DEF IInv, Types, Id
<1>4. env \in Envelope
  BY <1>2, <1>3 DEF Envelope
<1>5. /\ env.id = <<p, composed[p] + 1>>
      /\ env.header = SendHeader(session[p], Fresh(p))
      /\ env.key = SendKey(session[p], Fresh(p))
  OBVIOUS
<1> HIDE DEF t, env
<1>6. SaveSession(p, t)
  BY <1>1 DEF CommitOutgoing
<1>7. /\ session' \in [Party -> Session]
      /\ keygen' \in [Party -> Nat]
      /\ session'[p] = t
      /\ \A q \in Party : q # p => session'[q] = session[q]
  BY <1>2, <1>6, SaveSessionEffect DEF IInv
<1>8. /\ saved' = [saved EXCEPT ![p] = @ \cup {env.id}]
      /\ unsent' = [unsent EXCEPT ![p] = @ \cup {env.id}]
      /\ outbox' = [outbox EXCEPT ![p] = @ \cup {env}]
  BY <1>1 DEF CommitOutgoing
<1>9. /\ session'[p] = AfterSend(session[p], Fresh(p))
      /\ SaveSession(p, AfterSend(session[p], Fresh(p)))
  BY <1>6, <1>7 DEF t
<1>10. QED
  BY <1>1, <1>4, <1>5, <1>7, <1>8, <1>9

LEMMA SendInv ==
    ASSUME IInv, NEW p \in Party, Send(p)
    PROVE  IInv'
<1>1. PICK env \in Envelope :
          /\ env.id = <<p, composed[p] + 1>>
          /\ session' \in [Party -> Session]
          /\ keygen' \in [Party -> Nat]
          /\ saved' = [saved EXCEPT ![p] = @ \cup {env.id}]
          /\ unsent' = [unsent EXCEPT ![p] = @ \cup {env.id}]
          /\ outbox' = [outbox EXCEPT ![p] = @ \cup {env}]
          /\ composed' = [composed EXCEPT ![p] = @ + 1]
          /\ op' = [op EXCEPT ![p] = Post({env}, "ready")]
          /\ UNCHANGED <<store, requests>>
  BY SendEnvelope
<1>2. Types
  BY DEF IInv
<1>3. /\ composed[p] \in Nat
      /\ env.id \in Id
      /\ env.id[2] = composed[p] + 1
      /\ Author(env.id) = p
  <2>1. env.id = <<p, composed[p] + 1>>
    BY <1>1
  <2>2. composed[p] \in Nat
    BY <1>2 DEF Types
  <2>3. env.id \in Id
    BY DEF Envelope
  <2>4. QED
    BY <2>1, <2>2, <2>3 DEF Author
<1>4. /\ saved'[p] = saved[p] \cup {env.id}
      /\ unsent'[p] = unsent[p] \cup {env.id}
      /\ outbox'[p] = outbox[p] \cup {env}
      /\ composed'[p] = composed[p] + 1
      /\ op'[p] = Post({env}, "ready")
      /\ \A q \in Party : q # p => /\ saved'[q] = saved[q]
                                   /\ unsent'[q] = unsent[q]
                                   /\ outbox'[q] = outbox[q]
                                   /\ composed'[q] = composed[q]
                                   /\ op'[q] = op[q]
  BY <1>1, <1>2 DEF Types
<1>5. Stored' = Stored
  BY <1>1 DEF Stored
<1>6. OnTheWire' = OnTheWire \cup {env}
  BY <1>1, <1>4, <1>5 DEF OnTheWire, Stored
<1>7. \A e \in OnTheWire :
          /\ e.id \in Id
          /\ Author(e.id) \in Party
          /\ e.id[2] \in 1 .. composed[Author(e.id)]
  BY <1>2, WireType DEF IInv, WireInv
<1>8. \A e \in OnTheWire : e.id # env.id
  <2>1. SUFFICES ASSUME NEW e \in OnTheWire, e.id = env.id
                 PROVE  FALSE
    OBVIOUS
  <2>2. e.id[2] \in 1 .. composed[p]
    BY <1>3, <1>7, <2>1
  <2>3. QED
    BY <1>3, <2>1, <2>2
<1>9. Types'
  <2>1. Post({env}, "ready") \in OpType
    BY DEF OpType, PostType, Post
  <2>2. /\ saved' \in [Party -> SUBSET Id]
        /\ unsent' \in [Party -> SUBSET Id]
    BY <1>1, <1>2, <1>3 DEF Types
  <2>3. outbox' \in [Party -> SUBSET Envelope]
    BY <1>1, <1>2 DEF Types
  <2>4. composed' \in [Party -> Nat]
    <3>1. composed' = [composed EXCEPT ![p] = composed[p] + 1]
      BY <1>1
    <3>2. composed[p] + 1 \in Nat
      BY <1>3
    <3>3. QED
      BY <1>2, <3>1, <3>2 DEF Types
  <2>5. op' \in [Party -> OpType]
    BY <1>1, <1>2, <2>1 DEF Types
  <2>6. QED
    BY <1>1, <1>2, <2>2, <2>3, <2>4, <2>5 DEF Types
<1>10. WireInv'
  <2>1. \A e \in OnTheWire' : e.id[2] \in 1 .. composed'[Author(e.id)]
    <3>1. \A q \in Party : composed[q] \in Nat /\ composed'[q] >= composed[q]
      <4>1. \A q \in Party : composed[q] \in Nat
        BY <1>2 DEF Types
      <4>2. /\ composed'[p] = composed[p] + 1
            /\ \A q \in Party : q # p => composed'[q] = composed[q]
        BY <1>4
      <4>3. QED
        BY <4>1, <4>2
    <3>2. \A e \in OnTheWire : e.id[2] \in 1 .. composed'[Author(e.id)]
      <4>1. \A q \in Party : composed'[q] \in Nat
        BY <1>9 DEF Types
      <4>2. \A q \in Party : \A n \in 1 .. composed[q] :
                n \in 1 .. composed'[q]
        BY <3>1, <4>1
      <4>3. QED
        BY <1>7, <4>2
    <3>3. env.id[2] \in 1 .. composed'[Author(env.id)]
      <4>1. composed[p] + 1 \in 1 .. (composed[p] + 1)
        BY <1>3
      <4>2. QED
        BY <1>3, <1>4, <4>1
    <3>4. QED
      BY <1>6, <3>2, <3>3
  <2>2. \A e, f \in OnTheWire' : e.id = f.id => e = f
    BY <1>6, <1>8 DEF IInv, WireInv
  <2>3. ASSUME NEW q \in Party
        PROVE  /\ \A e \in outbox'[q] : Author(e.id) = q
               /\ HasOldest(outbox'[q])
    <3>1. (\A e \in outbox[q] : Author(e.id) = q) /\ HasOldest(outbox[q])
      BY DEF IInv, WireInv
    <3>2. CASE q # p
      BY <1>4, <3>1, <3>2
    <3>3. CASE q = p
      <4>1. \A e \in outbox[p] : e.id[2] =< env.id[2]
        <5>1. outbox[p] \subseteq OnTheWire
          BY DEF OnTheWire
        <5>2. QED
          BY <1>3, <1>7, <3>1, <3>3, <5>1
      <4>2. outbox[p] \in SUBSET Envelope
        BY <1>2 DEF Types
      <4>3. HasOldest(outbox[p] \cup {env})
        BY <3>1, <3>3, <4>1, <4>2, OldestAdded
      <4>4. QED
        BY <1>3, <1>4, <3>1, <3>3, <4>3
    <3>4. QED
      BY <3>2, <3>3
  <2>4. QED
    BY <2>1, <2>2, <2>3 DEF WireInv
<1>11. RowsOK(p)' /\ OpOK(p)'
  <2>1. RowsOK(p)
    BY DEF IInv
  <2>2. RowsOK(p)'
    BY <1>4, <1>5, <2>1 DEF RowsOK, Ids
  <2>3. /\ op'[p].kind = "post"
        /\ op'[p].todo = {env}
        /\ op'[p].phase = "ready"
    BY <1>4 DEF Post
  <2>4. OpOK(p)'
    BY <1>4, <2>3 DEF OpOK
  <2>5. QED
    BY <2>2, <2>4
<1>12. ASSUME NEW q \in Party, q # p
       PROVE  RowsOK(q)' /\ OpOK(q)'
  BY <1>4, <1>5, <1>12, RowsKept, OpKept DEF IInv
<1>13. QED
  BY <1>9, <1>10, <1>11, <1>12 DEF IInv

\* What each turn of the loop over the fetched messages does to the rows.
LEMMA ApplyRows ==
    ASSUME IInv, NEW p \in Party, ApplyNext(p)
    PROVE  LET env == Head(op[p].todo) IN
           /\ op[p] \in ApplyType
           /\ op[p].todo # <<>>
           /\ env \in Stored
           /\ env \in Envelope
           /\ env.id \in Id
           /\ \/ /\ RewriteOwn(p, env)
                 /\ UNCHANGED <<session, keygen>>
              \/ /\ SkipKnown(p, env)
                 /\ UNCHANGED <<session, keygen, saved, unsent>>
              \/ /\ Receive(p, env)
                 /\ Author(env.id) # p
                 /\ saved' = [saved EXCEPT ![p] = @ \cup {env.id}]
                 /\ UNCHANGED unsent
                 /\ session'[p] = AfterReceive(session[p], env.header, Fresh(p))
                 /\ session' \in [Party -> Session]
                 /\ keygen' \in [Party -> Nat]
                 /\ \A q \in Party : q # p => session'[q] = session[q]
<1> DEFINE env == Head(op[p].todo)
           t == AfterReceive(session[p], env.header, Fresh(p))
<1>1. /\ op[p].kind = "apply"
      /\ op[p].todo # <<>>
      /\ RewriteOwn(p, env) \/ SkipKnown(p, env) \/ Receive(p, env)
  BY DEF ApplyNext
<1>2. op[p] \in ApplyType /\ Entries(op[p].todo) \subseteq Stored
  BY <1>1, OpCases DEF IInv, OpOK, Types
<1>3. op[p].todo \in Seq(Envelope)
  BY <1>2 DEF ApplyType
<1>4. env \in Stored /\ env \in Envelope
  BY <1>1, <1>2, <1>3, EntriesTail
<1> HIDE DEF env
<1>5. env.id \in Id /\ env.header \in Header
  BY <1>4 DEF Envelope
<1>6. CASE RewriteOwn(p, env)
  <2>1. UNCHANGED <<session, keygen>>
    BY <1>6 DEF RewriteOwn
  <2>2. QED
    BY <1>1, <1>2, <1>4, <1>5, <1>6, <2>1 DEF env
<1>7. CASE SkipKnown(p, env)
  <2>1. UNCHANGED <<session, keygen, saved, unsent>>
    BY <1>7 DEF SkipKnown
  <2>2. QED
    BY <1>1, <1>2, <1>4, <1>5, <1>7, <2>1 DEF env
<1>8. CASE Receive(p, env)
  <2>1. /\ Author(env.id) # p
        /\ CommitReceived(p, t, env)
        /\ UNCHANGED unsent
    BY <1>8 DEF Receive
  <2>2. SaveSession(p, t) /\ saved' = [saved EXCEPT ![p] = @ \cup {env.id}]
    BY <2>1 DEF CommitReceived
  <2>3. t \in Session
    BY <1>5, FreshType, ReceiveType DEF IInv
  <2> HIDE DEF t
  <2>4. /\ session' \in [Party -> Session]
        /\ keygen' \in [Party -> Nat]
        /\ session'[p] = t
        /\ \A q \in Party : q # p => session'[q] = session[q]
    BY <2>2, <2>3, SaveSessionEffect DEF IInv
  <2>5. session'[p] = AfterReceive(session[p], env.header, Fresh(p))
    BY <2>4 DEF t
  <2>6. QED
    BY <1>1, <1>2, <1>4, <1>5, <1>8, <2>1, <2>2, <2>4, <2>5 DEF env
<1>9. QED
  BY <1>1, <1>6, <1>7, <1>8

LEMMA ApplyNextInv ==
    ASSUME IInv, NEW p \in Party, ApplyNext(p)
    PROVE  IInv'
<1> DEFINE r == op[p]
           o == [r EXCEPT !.todo = Tail(@)]
<1>1. PICK env \in Envelope :
          /\ r \in ApplyType
          /\ r.todo # <<>>
          /\ env \in Stored
          /\ env.id \in Id
          /\ \/ RewriteOwn(p, env) /\ UNCHANGED <<session, keygen>>
             \/ UNCHANGED <<session, keygen, saved, unsent>>
             \/ /\ Author(env.id) # p
                /\ saved' = [saved EXCEPT ![p] = @ \cup {env.id}]
                /\ UNCHANGED unsent
                /\ session' \in [Party -> Session]
                /\ keygen' \in [Party -> Nat]
  BY ApplyRows
<1>2. /\ op' = [op EXCEPT ![p] = o]
      /\ UNCHANGED <<outbox, composed, store, requests>>
  BY DEF ApplyNext
<1>3. Types /\ RowsOK(p)
  BY DEF IInv
<1>4. /\ r.todo \in Seq(Envelope)
      /\ Entries(r.todo) \subseteq Stored
      /\ r.kind = "apply"
      /\ r.pending \subseteq Ids(outbox[p])
      /\ r.known \subseteq r.pending \cup Ids(Stored)
  BY <1>1 DEF ApplyType, IInv, OpOK
<1>5. /\ Tail(r.todo) \in Seq(Envelope)
      /\ Entries(Tail(r.todo)) \subseteq Stored
  BY <1>1, <1>4, EntriesTail
<1>6. /\ o \in ApplyType
      /\ o.kind = "apply"
      /\ o.todo = Tail(r.todo)
      /\ o.known = r.known
      /\ o.pending = r.pending
  BY <1>1, <1>5 DEF ApplyType
<1> HIDE DEF o
<1>7. o \in OpType
  BY <1>6 DEF OpType
<1>8. op'[p] = o /\ \A q \in Party : q # p => op'[q] = op[q]
  BY <1>2, <1>3 DEF Types
<1>9. Stored' = Stored
  BY <1>2 DEF Stored
<1>10. OpOK(p)'
  BY <1>2, <1>4, <1>5, <1>6, <1>8, <1>9 DEF OpOK
<1>11. WireInv'
  <2>1. OnTheWire' \subseteq OnTheWire
    BY <1>2, <1>9 DEF OnTheWire, Stored
  <2>2. QED
    BY <1>2, <2>1, WireShrinks DEF IInv
<1>12. /\ session' \in [Party -> Session]
       /\ keygen' \in [Party -> Nat]
  BY <1>1, <1>3 DEF Types
<1>13. /\ saved' \in [Party -> SUBSET Id]
       /\ unsent' \in [Party -> SUBSET Id]
       /\ RowsOK(p)'
       /\ \A q \in Party : q # p => /\ saved'[q] = saved[q]
                                    /\ unsent'[q] = unsent[q]
  <2>1. /\ saved \in [Party -> SUBSET Id]
        /\ unsent \in [Party -> SUBSET Id]
    BY <1>3 DEF Types
  <2>2. env.id \in Ids(Stored)
    BY <1>1 DEF Ids
  <2>3. CASE UNCHANGED <<saved, unsent>>
    BY <1>2, <1>3, <1>9, <2>1, <2>3, RowsKept
  <2>4. CASE /\ Author(env.id) # p
             /\ saved' = [saved EXCEPT ![p] = @ \cup {env.id}]
             /\ UNCHANGED unsent
    <3>1. /\ saved'[p] = saved[p] \cup {env.id}
          /\ \A q \in Party : q # p => saved'[q] = saved[q]
          /\ saved' \in [Party -> SUBSET Id]
      BY <1>1, <2>1, <2>4
    <3>2. RowsOK(p)'
      BY <1>2, <1>3, <1>9, <2>2, <2>4, <3>1 DEF RowsOK
    <3>3. QED
      BY <2>1, <2>4, <3>1, <3>2
  <2>5. CASE /\ RewriteOwn(p, env)
             /\ ~UNCHANGED <<saved, unsent>>
    <3> DEFINE rows == IF env.id \in r.pending THEN unsent[p] \cup {env.id}
                       ELSE unsent[p] \ {env.id}
    <3>1. /\ Author(env.id) = p
          /\ saved' = [saved EXCEPT ![p] = @ \cup {env.id}]
          /\ unsent' = [unsent EXCEPT ![p] = rows]
      BY <2>5 DEF RewriteOwn
    <3>2. rows \in SUBSET Id
      BY <1>1, <2>1
    <3>3. /\ env.id \in r.pending => env.id \in Ids(outbox[p])
          /\ rows \subseteq unsent[p] \cup {env.id}
          /\ unsent[p] \subseteq rows \cup {env.id}
          /\ env.id \in rows => env.id \in r.pending
      BY <1>4
    <3> HIDE DEF rows
    <3>4. /\ saved'[p] = saved[p] \cup {env.id}
          /\ unsent'[p] = rows
          /\ \A q \in Party : q # p => /\ saved'[q] = saved[q]
                                       /\ unsent'[q] = unsent[q]
          /\ saved' \in [Party -> SUBSET Id]
          /\ unsent' \in [Party -> SUBSET Id]
      BY <1>1, <2>1, <3>1, <3>2
    <3>5. RowsOK(p)'
      <4>1. rows \subseteq saved'[p]
        BY <1>3, <3>3, <3>4 DEF RowsOK
      <4>2. rows \subseteq Ids(outbox[p])
        BY <1>3, <3>3 DEF RowsOK
      <4>3. saved'[p] \subseteq rows \cup Ids(Stored)
        BY <1>3, <2>2, <3>3, <3>4 DEF RowsOK
      <4>4. QED
        BY <1>2, <1>9, <3>4, <4>1, <4>2, <4>3 DEF RowsOK
    <3>6. QED
      BY <3>4, <3>5
  <2>6. QED
    BY <1>1, <2>3, <2>4, <2>5
<1>14. Types'
  BY <1>2, <1>3, <1>7, <1>12, <1>13 DEF Types
<1>15. ASSUME NEW q \in Party, q # p
       PROVE  RowsOK(q)' /\ OpOK(q)'
  <2>1. OpOK(q)'
    BY <1>2, <1>8, <1>9, <1>15, OpKept DEF IInv
  <2>2. RowsOK(q)'
    BY <1>2, <1>9, <1>13, <1>15, RowsKept DEF IInv
  <2>3. QED
    BY <2>1, <2>2
<1>16. QED
  BY <1>10, <1>11, <1>13, <1>14, <1>15 DEF IInv

-----------------------------------------------------------------------------
\* The invariant

LEMMA InitInv == Init => IInv
<1> SUFFICES ASSUME Init PROVE IInv
  OBVIOUS
<1>1. Entries(<<>>) = {} /\ Stored = {} /\ OnTheWire = {}
  BY DEF Entries, Stored, OnTheWire, Init
<1>2. Types
  <2>1. \A p \in Party : session[p] \in Session
    BY InitSound DEF Init
  <2>2. QED
    BY <2>1 DEF Init, Types, OpType
<1>3. WireInv
  BY <1>1 DEF Init, WireInv, HasOldest
<1>4. \A p \in Party : RowsOK(p) /\ OpOK(p)
  BY DEF Init, RowsOK, OpOK, Idle, Ids
<1>5. QED
  BY <1>2, <1>3, <1>4 DEF IInv

LEMMA StutterInv ==
    ASSUME IInv, UNCHANGED vars
    PROVE  IInv'
<1>1. Types' /\ Stored' = Stored /\ OnTheWire' = OnTheWire
  BY DEF IInv, Types, Stored, OnTheWire, vars, disk
<1>2. WireInv'
  BY <1>1, WireShrinks DEF IInv, vars, disk
<1>3. \A q \in Party : RowsOK(q)' /\ OpOK(q)'
  BY <1>1, RowsKept, OpKept DEF IInv, vars, disk
<1>4. QED
  BY <1>1, <1>2, <1>3 DEF IInv

LEMMA Inductive == IInv /\ [Next]_vars => IInv'
<1> SUFFICES ASSUME IInv, [Next]_vars PROVE IInv'
  OBVIOUS
<1>1. ASSUME NEW p \in Party, Send(p) PROVE IInv'
  BY <1>1, SendInv
<1>2. ASSUME NEW p \in Party, Retry(p) PROVE IInv'
  BY <1>2, RetryInv
<1>3. ASSUME NEW p \in Party, Transmit(p) PROVE IInv'
  BY <1>3, TransmitInv
<1>4. ASSUME NEW p \in Party, Acknowledge(p) PROVE IInv'
  BY <1>4, AcknowledgeInv
<1>5. ASSUME NEW p \in Party, StartSync(p) PROVE IInv'
  BY <1>5, StartSyncInv
<1>6. ASSUME NEW p \in Party, FetchPage(p) PROVE IInv'
  BY <1>6, FetchPageInv
<1>7. ASSUME NEW p \in Party, ApplyNext(p) PROVE IInv'
  BY <1>7, ApplyNextInv
<1>8. ASSUME NEW p \in Party,
             GiveUp(p) \/ ApplyFails(p) \/ EndSync(p) \/ Interrupt(p)
      PROVE  IInv'
  BY <1>8, EndsInv DEF GiveUp, ApplyFails, EndSync, Interrupt
<1>9. ASSUME NEW p \in Party, DeleteConversation(p) PROVE IInv'
  BY <1>9, DeleteInv
<1>10. ASSUME NEW env \in requests, Accept(env) PROVE IInv'
  BY <1>10, AcceptInv
<1>11. ASSUME NEW env \in requests, Lose(env) PROVE IInv'
  BY <1>11, LoseInv
<1>12. CASE UNCHANGED vars
  BY <1>12, StutterInv
<1>13. QED
  BY <1>1, <1>2, <1>3, <1>4, <1>5, <1>6, <1>7, <1>8, <1>9, <1>10, <1>11,
     <1>12 DEF Next

LEMMA Invariance == Spec => []IInv
BY InitInv, Inductive, PTL DEF Spec

\* The database of each device, its running operation, the requests under way
\* and the messages table are well formed, and a row is only ever marked as
\* unsent while it is there.
THEOREM TypeCorrect == Spec => []TypeOK
<1>1. IInv => TypeOK
  <2> SUFFICES ASSUME IInv PROVE TypeOK
    OBVIOUS
  <2>1. Types /\ \A p \in Party : unsent[p] \subseteq saved[p]
    BY DEF IInv, RowsOK
  <2>2. \A p \in Party : Ids(outbox[p]) \subseteq Id
    BY <2>1 DEF Types, Ids, Envelope
  <2>3. Ids(Entries(store)) \cup Ids(requests) \subseteq Id
    BY <2>1, WireType DEF Ids, OnTheWire, Stored
  <2>4. \A p \in Party : op[p].kind \in {"idle", "post", "fetch", "apply"}
    BY <2>1, OpCases DEF Types
  <2>5. QED
    BY <2>1, <2>2, <2>3, <2>4 DEF TypeOK, Types
<1>2. QED
  BY Invariance, <1>1, PTL

\* An own row that MessagingService shows as sent is in the messages table of
\* the server, whatever timeouts, crashes and retries there were, when a sync
\* writes its snapshot back, and when the conversation is deleted half-way.
THEOREM SentIsStored == Spec => []SentMeansStored
<1>1. IInv => SentMeansStored
  BY DEF IInv, RowsOK, SentMeansStored, Stored
<1>2. QED
  BY Invariance, <1>1, PTL

\* An own row that is shown as unsent still has its retry ciphertext, and the
\* 409 of POST /messages is never met: an id names one ciphertext for good.
THEOREM RetryIsPossible == Spec => []PendingCanBeRetried
<1>1. IInv => PendingCanBeRetried
  <2> SUFFICES ASSUME IInv PROVE PendingCanBeRetried
    OBVIOUS
  <2>1. \A p \in Party : unsent[p] \subseteq Ids(outbox[p])
    BY DEF IInv, RowsOK
  <2>2. \A e \in OnTheWire : ~Conflicts(e)
    BY DEF IInv, WireInv, Conflicts, OnTheWire
  <2>3. QED
    BY <2>1, <2>2 DEF PendingCanBeRetried
<1>2. QED
  BY Invariance, <1>1, PTL

-----------------------------------------------------------------------------
\* No message key seals two envelopes

Wire(p) == {e \in OnTheWire : Author(e.id) = p}
WireKeys(p) == {e.key.dh : e \in Wire(p)}

\* The session of a device is ahead of every key it has put on the wire.
KeysInv ==
    /\ \A p \in Party : SendSound(p, session[p], WireKeys(p))
    /\ WireKeysDistinct

LEMMA WireKeysType ==
    ASSUME Types, NEW p \in Party
    PROVE  WireKeys(p) \in SUBSET DhKey
<1>1. OnTheWire \subseteq Envelope
  BY WireType
<1>2. QED
  BY <1>1 DEF WireKeys, Wire, Envelope, Key

LEMMA SoundForFewer ==
    ASSUME NEW p, NEW s, NEW keys, NEW fewer \in SUBSET keys,
           SendSound(p, s, keys)
    PROVE  SendSound(p, s, fewer)
BY DEF SendSound

\* Deliveries, answers, losses and syncs add nothing to the wire.
LEMMA KeysKept ==
    ASSUME KeysInv, OnTheWire' \subseteq OnTheWire,
           \A p \in Party : SendSound(p, session'[p], WireKeys(p))
    PROVE  KeysInv'
<1>1. \A p \in Party : WireKeys(p)' \subseteq WireKeys(p)
  BY DEF WireKeys, Wire
<1>2. \A p \in Party : SendSound(p, session'[p], WireKeys(p)')
  BY <1>1, SoundForFewer
<1>3. QED
  BY <1>2 DEF KeysInv, WireKeysDistinct

LEMMA KeysAcrossParties ==
    ASSUME Types, KeysInv, NEW p \in Party, NEW e \in OnTheWire,
           Author(e.id) # p, NEW key \in DhKey, SentChain(p, key.chain)
    PROVE  e.key.dh # key
<1> DEFINE q == Author(e.id)
<1>1. q \in Party /\ e \in Envelope
  BY WireType
<1>2. q = Peer(p)
  BY <1>1 DEF Party, Peer
<1>3. e.key.dh \in WireKeys(q)
  BY DEF WireKeys, Wire
<1>4. SentChain(Peer(p), e.key.dh.chain)
  BY <1>1, <1>2, <1>3 DEF KeysInv, SendSound
<1>5. key.chain \in Chain
  BY DEF DhKey
<1>6. QED
  BY <1>4, <1>5, SentIsHeard

LEMMA SendKeys ==
    ASSUME IInv, KeysInv, NEW p \in Party, Send(p)
    PROVE  KeysInv'
<1> DEFINE s == session[p]
           dh == SendKey(s, Fresh(p)).dh
<1>1. PICK env \in Envelope :
          /\ env.id = <<p, composed[p] + 1>>
          /\ env.key = SendKey(s, Fresh(p))
          /\ session'[p] = AfterSend(s, Fresh(p))
          /\ \A q \in Party : q # p => session'[q] = session[q]
          /\ outbox' = [outbox EXCEPT ![p] = @ \cup {env}]
          /\ UNCHANGED <<store, requests>>
  BY SendEnvelope
<1>2. Author(env.id) = p /\ env.key.dh = dh
  BY <1>1 DEF Author
<1>3. OnTheWire' = OnTheWire \cup {env}
  <2>1. /\ outbox'[p] = outbox[p] \cup {env}
        /\ \A q \in Party : q # p => outbox'[q] = outbox[q]
    BY <1>1 DEF IInv, Types
  <2>2. Stored' = Stored /\ requests' = requests
    BY <1>1 DEF Stored
  <2>3. QED
    BY <2>1, <2>2 DEF OnTheWire, Stored
<1>4. Types
  BY DEF IInv
<1>5. s \in Session /\ Fresh(p) \in PublicKey /\ WireKeys(p) \in SUBSET DhKey
  BY <1>4, FreshType, WireKeysType
<1>6. /\ dh \in DhKey
      /\ dh \notin WireKeys(p)
      /\ SendSound(p, session'[p], WireKeys(p) \cup {dh})
  <2>1. SendSound(p, s, WireKeys(p))
    BY DEF KeysInv
  <2>2. QED
    BY <1>1, <1>5, <2>1, SendKeepsSendSound
<1> HIDE DEF s, dh
<1>7. ASSUME NEW q \in Party
      PROVE  WireKeys(q)' = IF q = p THEN WireKeys(q) \cup {dh} ELSE WireKeys(q)
  <2>1. Wire(q)' = IF q = p THEN Wire(q) \cup {env} ELSE Wire(q)
    BY <1>2, <1>3 DEF Wire
  <2>2. QED
    BY <1>2, <2>1 DEF WireKeys
<1>8. ASSUME NEW q \in Party
      PROVE  SendSound(q, session'[q], WireKeys(q)')
  <2>1. CASE q = p
    BY <1>6, <1>7, <2>1
  <2>2. CASE q # p
    BY <1>1, <1>7, <2>2 DEF KeysInv
  <2>3. QED
    BY <2>1, <2>2
<1>9. ASSUME NEW e \in OnTheWire
      PROVE  e.key # env.key
  <2>1. CASE Author(e.id) = p
    <3>1. e.key.dh \in WireKeys(p)
      BY <2>1 DEF WireKeys, Wire
    <3>2. QED
      BY <1>2, <1>6, <3>1
  <2>2. CASE Author(e.id) # p
    <3>1. SentChain(p, dh.chain)
      BY <1>6 DEF SendSound
    <3>2. QED
      BY <1>2, <1>4, <1>6, <2>2, <3>1, KeysAcrossParties
  <2>3. QED
    BY <2>1, <2>2
<1>10. WireKeysDistinct'
  BY <1>3, <1>9 DEF KeysInv, WireKeysDistinct
<1>11. QED
  BY <1>8, <1>10 DEF KeysInv

LEMMA ApplyKeys ==
    ASSUME IInv, KeysInv, NEW p \in Party, ApplyNext(p)
    PROVE  KeysInv'
<1>1. Types
  BY DEF IInv
<1>2. OnTheWire' = OnTheWire
  BY DEF ApplyNext, OnTheWire
<1>3. PICK env \in Envelope :
          \/ UNCHANGED session
          \/ /\ session'[p] = AfterReceive(session[p], env.header, Fresh(p))
             /\ \A q \in Party : q # p => session'[q] = session[q]
  BY ApplyRows
<1>4. ASSUME NEW q \in Party
      PROVE  SendSound(q, session'[q], WireKeys(q))
  <2>1. SendSound(q, session[q], WireKeys(q))
    BY DEF KeysInv
  <2>2. /\ env.header \in Header
        /\ session[q] \in Session
        /\ Fresh(q) \in PublicKey
        /\ WireKeys(q) \in SUBSET DhKey
    BY <1>1, FreshType, WireKeysType DEF Envelope
  <2>3. SendSound(q, AfterReceive(session[q], env.header, Fresh(q)), WireKeys(q))
    BY <2>1, <2>2, ReceiveKeepsSendSound
  <2>4. QED
    BY <1>3, <2>1, <2>3
<1>5. QED
  BY <1>2, <1>4, KeysKept

LEMMA QuietKeys ==
    ASSUME KeysInv, session' = session, OnTheWire' \subseteq OnTheWire
    PROVE  KeysInv'
BY KeysKept DEF KeysInv

LEMMA KeysInductive == IInv /\ KeysInv /\ [Next]_vars => KeysInv'
<1> SUFFICES ASSUME IInv, KeysInv, [Next]_vars PROVE KeysInv'
  OBVIOUS
<1>1. ASSUME NEW p \in Party, Send(p) PROVE KeysInv'
  BY <1>1, SendKeys
<1>2. ASSUME NEW p \in Party, ApplyNext(p) PROVE KeysInv'
  BY <1>2, ApplyKeys
<1>3. ASSUME NEW p \in Party, Transmit(p) PROVE KeysInv'
  <2>1. Current(op[p]) \in outbox[p]
    BY <1>3, CurrentIsOldest DEF Transmit
  <2>2. requests' = requests \cup {Current(op[p])} /\ UNCHANGED <<disk, store>>
    BY <1>3 DEF Transmit
  <2>3. OnTheWire' \subseteq OnTheWire
    BY <2>1, <2>2 DEF OnTheWire, disk
  <2>4. QED
    BY <2>2, <2>3, QuietKeys DEF disk
<1>4. ASSUME NEW p \in Party, Acknowledge(p) PROVE KeysInv'
  <2>1. /\ outbox' = [outbox EXCEPT ![p] =
                          {e \in @ : e.id # Current(op[p]).id}]
        /\ UNCHANGED <<session, store, requests>>
    BY <1>4 DEF Acknowledge, CommitSent
  <2>2. \A q \in Party : outbox'[q] \subseteq outbox[q]
    BY <2>1 DEF IInv, Types
  <2>3. OnTheWire' \subseteq OnTheWire
    BY <2>1, <2>2 DEF OnTheWire
  <2>4. QED
    BY <2>1, <2>3, QuietKeys
<1>5. ASSUME NEW p \in Party,
             \/ Retry(p) \/ GiveUp(p) \/ StartSync(p) \/ FetchPage(p)
             \/ ApplyFails(p) \/ EndSync(p) \/ Interrupt(p)
             \/ DeleteConversation(p)
      PROVE  KeysInv'
  <2>1. UNCHANGED <<session, outbox, store, requests>>
    BY <1>5 DEF Retry, GiveUp, StartSync, FetchPage, ApplyFails, EndSync,
                Interrupt, DeleteConversation, disk
  <2>2. OnTheWire' = OnTheWire
    BY <2>1 DEF OnTheWire
  <2>3. QED
    BY <2>1, <2>2, QuietKeys
<1>6. ASSUME NEW env \in requests, Accept(env) PROVE KeysInv'
  <2>1. /\ Insert(env)
        /\ requests' = requests \ {env}
        /\ UNCHANGED <<session, outbox>>
    BY <1>6 DEF Accept, disk
  <2>2. Stored' = Stored \cup {env}
    BY <2>1, InsertEffect
  <2>3. OnTheWire' \subseteq OnTheWire
    BY <2>1, <2>2 DEF OnTheWire, Stored
  <2>4. QED
    BY <2>1, <2>3, QuietKeys
<1>7. ASSUME NEW env \in requests, Lose(env) PROVE KeysInv'
  <2>1. requests' = requests \ {env} /\ UNCHANGED <<session, outbox, store>>
    BY <1>7 DEF Lose, disk
  <2>2. OnTheWire' \subseteq OnTheWire
    BY <2>1 DEF OnTheWire
  <2>3. QED
    BY <2>1, <2>2, QuietKeys
<1>8. CASE UNCHANGED vars
  <2>1. UNCHANGED <<session, outbox, store, requests>>
    BY <1>8 DEF vars, disk
  <2>2. OnTheWire' = OnTheWire
    BY <2>1 DEF OnTheWire
  <2>3. QED
    BY <2>1, <2>2, QuietKeys
<1>9. QED
  BY <1>1, <1>2, <1>3, <1>4, <1>5, <1>6, <1>7, <1>8 DEF Next

LEMMA KeysInit == Init => KeysInv
<1> SUFFICES ASSUME Init PROVE KeysInv
  OBVIOUS
<1>1. OnTheWire = {}
  BY DEF Init, OnTheWire, Entries
<1>2. \A p \in Party : WireKeys(p) = {}
  BY <1>1 DEF WireKeys, Wire
<1>3. \A p \in Party : SendSound(p, session[p], WireKeys(p))
  BY <1>2, InitSound DEF Init
<1>4. QED
  BY <1>1, <1>3 DEF KeysInv, WireKeysDistinct

\* No AES-GCM key seals two envelopes of the conversation that a device, the
\* network or the server holds, across crashes between commitOutgoingMessage
\* and POST /messages, retries, DH ratchets and deleted conversations.
THEOREM NoKeyTwice == Spec => []WireKeysDistinct
<1>1. KeysInv => WireKeysDistinct
  BY DEF KeysInv
<1>2. QED
  BY Invariance, KeysInit, KeysInductive, <1>1, PTL DEF Spec

-----------------------------------------------------------------------------
\* No key is consumed in vain

\* The messages of the peer among the rows of p.
Shown(p) == {e \in Wire(Peer(p)) : e.id \in saved[p]}
ShownKeys(p) == {e.key.dh : e \in Shown(p)}

\* The two sessions are in step with what the devices have written and with
\* what they show, and await no more than was written.
PairOK(p) ==
    /\ session[p].our[2] = keygen[p]
    /\ ReceiveSound(p, session[p], ShownKeys(p))
    /\ Counted(session[p], session[Peer(p)], composed[Peer(p)])
    /\ InStep(p, session[p], session[Peer(p)], Wire(p), Wire(Peer(p)),
              Shown(p), Shown(Peer(p)))

\* What is still under way is in its author's outbox or on the server, so no
\* envelope is ever lost; and until somebody deletes the conversation the rows
\* are all that was opened.
SyncInv ==
    /\ deletes \in Nat
    /\ \A p \in Party : composed[p] =< SendLimit[p]
    /\ \A e \in requests : e \in Stored \cup outbox[Author(e.id)]
    /\ deletes = 0 => \A p \in Party : PairOK(p)

LEMMA PairTypes ==
    ASSUME IInv, NEW p \in Party
    PROVE  /\ Types
           /\ Peer(p) \in Party /\ Peer(Peer(p)) = p /\ Peer(p) # p
           /\ \A q \in Party : q = p \/ q = Peer(p)
           /\ session[p] \in Session /\ session[Peer(p)] \in Session
           /\ Envelopes(Wire(p)) /\ Envelopes(Wire(Peer(p)))
           /\ ShownKeys(p) \in SUBSET DhKey
           /\ Fresh(p) \in PublicKey
           /\ composed[p] \in Nat /\ composed[Peer(p)] \in Nat
<1>1. /\ Peer(p) \in Party /\ Peer(Peer(p)) = p /\ Peer(p) # p
      /\ \A q \in Party : q = p \/ q = Peer(p)
  BY PeerPeer DEF Party, Peer
<1>2. Types
  BY DEF IInv
<1>3. OnTheWire \subseteq Envelope
  BY <1>2, WireType
<1>4. Envelopes(Wire(p)) /\ Envelopes(Wire(Peer(p)))
  BY <1>3 DEF Envelopes, IsEnvelope, Wire, Envelope
<1>5. ShownKeys(p) \in SUBSET DhKey
  BY <1>3 DEF ShownKeys, Shown, Wire, Envelope, Key
<1>6. composed[p] \in Nat /\ composed[Peer(p)] \in Nat
  BY <1>1, <1>2 DEF Types
<1>7. QED
  BY <1>1, <1>2, <1>4, <1>5, <1>6, FreshType

LEMMA PairFresh ==
    ASSUME IInv, NEW p \in Party, PairOK(p)
    PROVE  /\ Fresh(p)[1] = p
           /\ Fresh(p)[2] = session[p].our[2] + 1
           /\ session[p].our # Fresh(p)
<1>1. session[p].our[2] = keygen[p] /\ keygen[p] \in Nat
  BY DEF PairOK, IInv, Types
<1>2. Fresh(p)[1] = p /\ Fresh(p)[2] = keygen[p] + 1
  BY DEF Fresh
<1>3. QED
  BY <1>1, <1>2

\* A new session of one device is in step with the unchanged one of the other.
LEMMA PairStep ==
    ASSUME IInv, \A q \in Party : PairOK(q),
           NEW p \in Party, NEW x, SaveSession(p, x),
           x.our = session[p].our \/ x.our = Fresh(p),
           ReceiveSound(p, x, ShownKeys(p)'),
           ShownKeys(Peer(p))' = ShownKeys(Peer(p)),
           InStep(p, x, session[Peer(p)], Wire(p)', Wire(Peer(p))',
                  Shown(p)', Shown(Peer(p))'),
           Counted(x, session[Peer(p)], composed'[Peer(p)]),
           Counted(session[Peer(p)], x, composed'[p])
    PROVE  \A q \in Party : PairOK(q)'
<1>1. /\ Peer(p) \in Party /\ Peer(Peer(p)) = p /\ Peer(p) # p
      /\ \A q \in Party : q = p \/ q = Peer(p)
  BY PairTypes
<1>2. /\ session[p].our # Fresh(p)
      /\ session[p].our[2] = keygen[p]
      /\ session[Peer(p)].our[2] = keygen[Peer(p)]
      /\ Fresh(p)[2] = session[p].our[2] + 1
  BY <1>1, PairFresh DEF PairOK
<1>3. session \in [Party -> Session] /\ keygen \in [Party -> Nat]
  BY DEF IInv, Types
<1>4. /\ session'[p] = x
      /\ session'[Peer(p)] = session[Peer(p)]
      /\ keygen'[p] = IF x.our = Fresh(p) THEN keygen[p] + 1 ELSE keygen[p]
      /\ keygen'[Peer(p)] = keygen[Peer(p)]
  BY <1>1, <1>3 DEF SaveSession
<1>5. x.our[2] = keygen'[p]
  BY <1>2, <1>4
<1>6. PairOK(p)'
  BY <1>1, <1>4, <1>5 DEF PairOK
<1>7. PairOK(Peer(p))'
  <2>1. InStep(Peer(p), session[Peer(p)], x, Wire(Peer(p))', Wire(p)',
               Shown(Peer(p))', Shown(p)')
    BY InStepSymmetric
  <2>2. session'[Peer(p)].our[2] = keygen'[Peer(p)]
    BY <1>2, <1>4
  <2>3. ReceiveSound(Peer(p), session'[Peer(p)], ShownKeys(Peer(p))')
    BY <1>1, <1>4 DEF PairOK
  <2>4. QED
    BY <1>1, <1>4, <2>1, <2>2, <2>3 DEF PairOK
<1>8. QED
  BY <1>1, <1>6, <1>7

\* A step after which the wire, the sessions and the shown rows of the peers
\* are what they were.
LEMMA PairsKept ==
    ASSUME \A q \in Party : PairOK(q), UNCHANGED <<session, keygen, composed>>,
           OnTheWire' = OnTheWire,
           \A q \in Party : Shown(q)' = Shown(q)
    PROVE  \A q \in Party : PairOK(q)'
<1>1. \A q \in Party : Wire(q)' = Wire(q)
  BY DEF Wire
<1>2. ASSUME NEW q \in Party
      PROVE  PairOK(q)'
  <2>1. Peer(q) \in Party
    BY PeerPeer
  <2>2. ShownKeys(q)' = ShownKeys(q)
    BY DEF ShownKeys
  <2>3. PairOK(q)
    OBVIOUS
  <2>4. QED
    BY <1>1, <2>1, <2>2, <2>3 DEF PairOK
<1>3. QED
  BY <1>2

LEMMA SyncSend ==
    ASSUME IInv, KeysInv, SyncInv, NEW p \in Party, Send(p)
    PROVE  SyncInv'
<1> DEFINE s == session[p]
           x == AfterSend(s, Fresh(p))
           o == Peer(p)
<1>1. PICK env \in Envelope :
          /\ env.id = <<p, composed[p] + 1>>
          /\ env.header = SendHeader(s, Fresh(p))
          /\ env.key = SendKey(s, Fresh(p))
          /\ SaveSession(p, x)
          /\ saved' = [saved EXCEPT ![p] = @ \cup {env.id}]
          /\ outbox' = [outbox EXCEPT ![p] = @ \cup {env}]
          /\ composed' = [composed EXCEPT ![p] = @ + 1]
          /\ UNCHANGED <<store, requests, deletes>>
  BY SendEnvelope
<1>2. /\ Types
      /\ o \in Party /\ Peer(o) = p /\ o # p
      /\ \A q \in Party : q = p \/ q = o
      /\ s \in Session /\ session[o] \in Session
      /\ Envelopes(Wire(p)) /\ Envelopes(Wire(o))
      /\ ShownKeys(p) \in SUBSET DhKey
      /\ Fresh(p) \in PublicKey
      /\ composed[p] \in Nat /\ composed[o] \in Nat
  BY PairTypes
<1>3. /\ outbox'[p] = outbox[p] \cup {env}
      /\ outbox'[o] = outbox[o]
      /\ saved'[p] = saved[p] \cup {env.id}
      /\ saved'[o] = saved[o]
      /\ composed'[p] = composed[p] + 1
      /\ composed'[o] = composed[o]
  BY <1>1, <1>2 DEF Types
<1>4. Stored' = Stored /\ requests' = requests
  BY <1>1 DEF Stored
<1>5. Author(env.id) = p /\ OnTheWire' = OnTheWire \cup {env}
  <2>1. Author(env.id) = p
    BY <1>1 DEF Author
  <2>2. OnTheWire' = OnTheWire \cup {env}
    BY <1>2, <1>3, <1>4 DEF OnTheWire, Stored
  <2>3. QED
    BY <2>1, <2>2
<1>6. \A e \in requests' : e \in Stored' \cup outbox'[Author(e.id)]
  <2>1. \A q \in Party : outbox[q] \subseteq outbox'[q]
    BY <1>2, <1>3
  <2>2. \A e \in requests : Author(e.id) \in Party
    BY <1>2, WireType DEF OnTheWire
  <2>3. QED
    BY <1>4, <2>1, <2>2 DEF SyncInv
<1>7. ASSUME deletes' = 0
      PROVE  \A q \in Party : PairOK(q)'
  <2>1. \A q \in Party : PairOK(q)
    BY <1>1, <1>7 DEF SyncInv
  <2>2. Wire(p)' = Wire(p) \cup {env} /\ Wire(o)' = Wire(o)
    BY <1>2, <1>5 DEF Wire
  <2>3. env.id \notin saved[o]
    <3>1. saved[o] \subseteq unsent[o] \cup Ids(Stored)
      BY <1>2 DEF IInv, RowsOK
    <3>2. unsent[o] \subseteq Ids(outbox[o])
      BY <1>2 DEF IInv, RowsOK
    <3>3. Ids(OnTheWire) = {e.id : e \in OnTheWire}
      BY DEF Ids
    <3>4. unsent[o] \cup Ids(Stored) \subseteq Ids(OnTheWire)
      BY <1>2, <3>2 DEF Ids, OnTheWire, Stored
    <3>5. env.id \notin Ids(OnTheWire)
      <4>1. SUFFICES ASSUME NEW e \in OnTheWire, e.id = env.id
                     PROVE  FALSE
        BY <3>3
      <4>2. e.id[2] \in 1 .. composed[p]
        BY <1>5, <4>1 DEF IInv, WireInv
      <4>3. e.id[2] = composed[p] + 1 /\ composed[p] \in Nat
        BY <1>1, <1>2, <4>1 DEF Types
      <4>4. QED
        BY <4>2, <4>3
    <3>6. QED
      BY <3>1, <3>4, <3>5
  <2>4. Shown(p)' = Shown(p) /\ Shown(o)' = Shown(o)
    <3>1. \A e \in Wire(o) : e.id # env.id
      BY <1>2, <1>5 DEF Wire
    <3>2. Shown(p)' = Shown(p)
      BY <1>3, <2>2, <3>1 DEF Shown
    <3>3. Shown(o)' = Shown(o)
      BY <1>2, <1>3, <2>2, <2>3 DEF Shown
    <3>4. QED
      BY <3>2, <3>3
  <2>5. ShownKeys(p)' = ShownKeys(p) /\ ShownKeys(o)' = ShownKeys(o)
    BY <2>4 DEF ShownKeys
  <2>6. PairOK(p)
    BY <2>1
  <2>7. Fresh(p)[1] = p /\ Fresh(p)[2] = s.our[2] + 1
    BY <2>6, PairFresh
  <2>8. ReceiveSound(p, x, ShownKeys(p)')
    BY <1>2, <2>5, <2>6, SendKeepsReceiveSound DEF PairOK
  <2>9. x.our = s.our \/ x.our = Fresh(p)
    <3> HIDE DEF s
    <3>1. QED
      BY <1>2, AfterSendOur
  <2>10. InStep(p, x, session[o], Wire(p) \cup {env}, Wire(o),
                Shown(p), Shown(o))
    <3>1. InStep(p, s, session[o], Wire(p), Wire(o), Shown(p), Shown(o))
      BY <2>6 DEF PairOK
    <3>2. IsEnvelope(env)
      BY DEF Envelope, IsEnvelope
    <3>3. env.header = SendHeader(s, Fresh(p)) /\ env.key = SendKey(s, Fresh(p))
      BY <1>1
    <3> HIDE DEF s, o
    <3>4. QED
      BY <1>2, <2>7, <3>1, <3>2, <3>3, SendInStep
  <2>11. /\ Counted(x, session[o], composed'[o])
         /\ Counted(session[o], x, composed'[p])
    <3>1. /\ Counted(s, session[o], composed[o])
          /\ Counted(session[o], s, composed[p])
      BY <1>2, <2>1 DEF PairOK
    <3>2. InStep(p, s, session[o], Wire(p), Wire(o), Shown(p), Shown(o))
      BY <2>6 DEF PairOK
    <3> HIDE DEF s, o
    <3>3. QED
      BY <1>2, <1>3, <2>7, <3>1, <3>2, SendCounted
  <2> HIDE DEF x, s
  <2>12. QED
    BY <1>1, <2>1, <2>2, <2>4, <2>5, <2>8, <2>9, <2>10, <2>11, PairStep DEF s
<1>8. \A q \in Party : composed'[q] =< SendLimit[q]
  <2>1. composed[p] < SendLimit[p]
    BY DEF Send
  <2>2. SendLimit[p] \in Nat
    BY DirectAssumption
  <2>3. composed'[p] =< SendLimit[p]
    BY <1>2, <1>3, <2>1, <2>2
  <2>4. QED
    BY <1>2, <1>3, <2>3 DEF SyncInv
<1>9. QED
  BY <1>1, <1>6, <1>7, <1>8 DEF SyncInv

\* What a device opens is new to it: the key is not one of a shown message.
LEMMA OpensIsNew ==
    ASSUME IInv, KeysInv, NEW p \in Party, PairOK(p), NEW env \in Wire(Peer(p)),
           Opens(session[p], env, Fresh(p))
    PROVE  /\ env \notin Shown(p)
           /\ ReceiveSound(p, AfterReceive(session[p], env.header, Fresh(p)),
                           ShownKeys(p) \cup {env.key.dh})
<1> DEFINE s == session[p]
           h == env.header
           key == ReceiveKey(s, h, Fresh(p)).dh
<1>1. /\ Types
      /\ Peer(p) \in Party /\ Peer(Peer(p)) = p
      /\ s \in Session
      /\ ShownKeys(p) \in SUBSET DhKey
      /\ Fresh(p) \in PublicKey
      /\ Envelopes(Wire(Peer(p)))
  BY PairTypes
<1>2. h \in Header /\ env.key.dh.chain \in Chain
  BY <1>1, EnvelopeFields DEF Envelopes
<1>3. key = env.key.dh
  BY DEF Opens
<1>4. HeardChain(p, env.key.dh.chain)
  <2>1. env.key.dh \in WireKeys(Peer(p))
    BY DEF WireKeys
  <2>2. SentChain(Peer(p), env.key.dh.chain)
    BY <1>1, <2>1 DEF KeysInv, SendSound
  <2>3. QED
    BY <1>2, <2>2, SentIsHeard
<1>5. ReceiveSound(p, s, ShownKeys(p))
  BY DEF PairOK
<1>6. /\ key \notin ShownKeys(p)
      /\ ReceiveSound(p, AfterReceive(s, h, Fresh(p)), ShownKeys(p) \cup {key})
  <2>1. HeardChain(p, ReceiveKey(s, h, Fresh(p)).dh.chain)
    BY <1>3, <1>4
  <2> HIDE DEF s, h
  <2>2. QED
    BY <1>1, <1>2, <1>5, <2>1, ReceiveKeepsReceiveSound
<1> HIDE DEF key
<1>7. env \notin Shown(p)
  BY <1>3, <1>6 DEF ShownKeys
<1>8. QED
  BY <1>3, <1>6, <1>7

LEMMA SyncReceive ==
    ASSUME IInv, KeysInv, SyncInv, NEW p \in Party, NEW env \in Stored,
           Receive(p, env), UNCHANGED <<outbox, composed, store, requests, deletes>>
    PROVE  SyncInv'
<1> DEFINE s == session[p]
           x == AfterReceive(s, env.header, Fresh(p))
           o == Peer(p)
<1>1. /\ Author(env.id) # p
      /\ Opens(s, env, Fresh(p))
      /\ SaveSession(p, x)
      /\ saved' = [saved EXCEPT ![p] = @ \cup {env.id}]
  BY DEF Receive, CommitReceived
<1>2. /\ Types
      /\ o \in Party /\ Peer(o) = p /\ o # p
      /\ \A q \in Party : q = p \/ q = o
      /\ s \in Session /\ session[o] \in Session
      /\ Envelopes(Wire(p)) /\ Envelopes(Wire(o))
      /\ Fresh(p) \in PublicKey
      /\ composed[p] \in Nat /\ composed[o] \in Nat
  BY PairTypes
<1>3. OnTheWire' = OnTheWire /\ Stored' = Stored
  BY DEF OnTheWire, Stored
<1>4. \A e \in requests' : e \in Stored' \cup outbox'[Author(e.id)]
  BY <1>3 DEF SyncInv
<1>5. env \in OnTheWire /\ Author(env.id) = o /\ env \in Wire(o)
  <2>1. env \in OnTheWire /\ Author(env.id) \in Party
    BY <1>2, WireType
  <2>2. QED
    BY <1>1, <1>2, <2>1 DEF Wire
<1>6. ASSUME deletes' = 0
      PROVE  \A q \in Party : PairOK(q)'
  <2>1. \A q \in Party : PairOK(q)
    BY <1>6 DEF SyncInv
  <2>2. Wire(p)' = Wire(p) /\ Wire(o)' = Wire(o)
    BY <1>3 DEF Wire
  <2>3. saved'[p] = saved[p] \cup {env.id} /\ saved'[o] = saved[o]
    BY <1>1, <1>2 DEF Types
  <2>4. \A e \in Wire(o) : e.id = env.id => e = env
    BY <1>5 DEF Wire, IInv, WireInv
  <2>5. Shown(p)' = Shown(p) \cup {env} /\ Shown(o)' = Shown(o)
    <3>1. Shown(p)' = Shown(p) \cup {env}
      BY <1>5, <2>2, <2>3, <2>4 DEF Shown
    <3>2. Shown(o)' = Shown(o)
      BY <1>2, <2>2, <2>3 DEF Shown
    <3>3. QED
      BY <3>1, <3>2
  <2>6. ShownKeys(p)' = ShownKeys(p) \cup {env.key.dh}
        /\ ShownKeys(o)' = ShownKeys(o)
    BY <2>5 DEF ShownKeys
  <2>7. PairOK(p)
    BY <2>1
  <2>8. env \notin Shown(p) /\ ReceiveSound(p, x, ShownKeys(p)')
    BY <1>1, <1>5, <2>6, <2>7, OpensIsNew
  <2>9. Fresh(p)[1] = p /\ Fresh(p)[2] = s.our[2] + 1
    BY <2>7, PairFresh
  <2>10. x.our = s.our \/ x.our = Fresh(p)
    <3>1. env.header \in Header
      BY <1>2, <1>5, EnvelopeFields DEF Envelopes
    <3> HIDE DEF s
    <3>2. QED
      BY <1>2, <3>1, AfterReceiveOur
  <2>11. InStep(p, x, session[o], Wire(p), Wire(o),
                Shown(p) \cup {env}, Shown(o))
    <3>1. InStep(p, s, session[o], Wire(p), Wire(o), Shown(p), Shown(o))
      BY <2>7 DEF PairOK
    <3>2. Accepts(s, env.header, Fresh(p))
      BY <1>1 DEF Opens
    <3> HIDE DEF s, o
    <3>3. QED
      BY <1>2, <1>5, <2>8, <2>9, <3>1, <3>2, ReceiveInStep
  <2>12. /\ Counted(x, session[o], composed'[o])
         /\ Counted(session[o], x, composed'[p])
    <3>1. /\ Counted(s, session[o], composed[o])
          /\ Counted(session[o], s, composed[p])
      BY <1>2, <2>1 DEF PairOK
    <3>2. InStep(p, s, session[o], Wire(p), Wire(o), Shown(p), Shown(o))
      BY <2>7 DEF PairOK
    <3>3. Accepts(s, env.header, Fresh(p))
      BY <1>1 DEF Opens
    <3> HIDE DEF s, o
    <3>4. QED
      BY <1>2, <1>5, <2>8, <2>9, <3>1, <3>2, <3>3, ReceiveCounted
  <2> HIDE DEF x, s
  <2>13. QED
    BY <1>1, <2>1, <2>2, <2>5, <2>6, <2>8, <2>10, <2>11, <2>12, PairStep DEF s
<1>7. QED
  BY <1>4, <1>6 DEF SyncInv

\* A step that takes nothing off the wire, opens nothing, and saves own rows
\* only.
LEMMA SyncQuiet ==
    ASSUME IInv, SyncInv, OnTheWire' = OnTheWire,
           UNCHANGED <<session, keygen, composed, deletes>>,
           \A e \in requests' : e \in Stored' \cup outbox'[Author(e.id)],
           \A p \in Party : {id \in saved'[p] : Author(id) # p}
                                = {id \in saved[p] : Author(id) # p}
    PROVE  SyncInv'
<1>1. ASSUME NEW p \in Party
      PROVE  Shown(p)' = Shown(p)
  <2>1. Wire(Peer(p))' = Wire(Peer(p))
    BY DEF Wire
  <2>2. \A e \in Wire(Peer(p)) : e.id \in saved'[p] <=> e.id \in saved[p]
    <3>1. \A e \in Wire(Peer(p)) : Author(e.id) # p
      BY PeerPeer DEF Wire
    <3>2. QED
      BY <3>1
  <2>3. QED
    BY <2>1, <2>2 DEF Shown
<1>2. ASSUME deletes' = 0
      PROVE  \A q \in Party : PairOK(q)'
  <2>1. \A q \in Party : PairOK(q)
    BY <1>2 DEF SyncInv
  <2>2. QED
    BY <1>1, <2>1, PairsKept
<1>3. QED
  BY <1>2 DEF SyncInv

LEMMA SyncApply ==
    ASSUME IInv, KeysInv, SyncInv, NEW p \in Party, ApplyNext(p)
    PROVE  SyncInv'
<1>1. PICK env \in Envelope :
          /\ env \in Stored
          /\ \/ RewriteOwn(p, env) /\ UNCHANGED <<session, keygen>>
             \/ UNCHANGED <<session, keygen, saved, unsent>>
             \/ Receive(p, env)
  BY ApplyRows
<1>2. UNCHANGED <<outbox, composed, store, requests, deletes>>
  BY DEF ApplyNext, bounds
<1>3. OnTheWire' = OnTheWire /\ Stored' = Stored
  BY <1>2 DEF OnTheWire, Stored
<1>4. \A e \in requests' : e \in Stored' \cup outbox'[Author(e.id)]
  BY <1>2, <1>3 DEF SyncInv
<1>5. CASE RewriteOwn(p, env) /\ UNCHANGED <<session, keygen>>
  <2>1. /\ Author(env.id) = p
        /\ saved' \in {saved, [saved EXCEPT ![p] = @ \cup {env.id}]}
    BY <1>5 DEF RewriteOwn
  <2>2. \A q \in Party : {id \in saved'[q] : Author(id) # q}
                             = {id \in saved[q] : Author(id) # q}
    <3>1. \A q \in Party : q # p => saved'[q] = saved[q]
      BY <2>1 DEF IInv, Types
    <3>2. saved'[p] \in {saved[p], saved[p] \cup {env.id}}
      BY <2>1 DEF IInv, Types
    <3>3. QED
      BY <2>1, <3>1, <3>2
  <2>3. QED
    BY <1>2, <1>3, <1>4, <1>5, <2>2, SyncQuiet
<1>6. CASE UNCHANGED <<session, keygen, saved, unsent>>
  BY <1>2, <1>3, <1>4, <1>6, SyncQuiet
<1>7. CASE Receive(p, env)
  BY <1>1, <1>2, <1>7, SyncReceive
<1>8. QED
  BY <1>1, <1>5, <1>6, <1>7

LEMMA SyncAcknowledge ==
    ASSUME IInv, SyncInv, NEW p \in Party, Acknowledge(p)
    PROVE  SyncInv'
<1> DEFINE env == Current(op[p])
<1>1. /\ op[p].kind = "post"
      /\ op[p].phase = "answered"
      /\ CommitSent(p, env)
      /\ UNCHANGED <<session, keygen, composed, store, requests, deletes>>
  BY DEF Acknowledge, Answered, bounds
<1>2. env \in outbox[p] /\ Author(env.id) = p
  BY <1>1, CurrentIsOldest
<1>3. env.id \in Ids(Stored)
  BY <1>1 DEF IInv, OpOK
<1> HIDE DEF env
<1>4. env \in Stored
  BY <1>2, <1>3 DEF Ids, IInv, WireInv, OnTheWire, Stored
<1>5. /\ saved' = [saved EXCEPT ![p] = @ \cup {env.id}]
      /\ outbox' = [outbox EXCEPT ![p] = {e \in @ : e.id # env.id}]
  BY <1>1 DEF CommitSent
<1>6. Types
  BY DEF IInv
<1>7. /\ saved'[p] = saved[p] \cup {env.id}
      /\ outbox'[p] = {e \in outbox[p] : e.id # env.id}
      /\ \A q \in Party : q # p => saved'[q] = saved[q] /\ outbox'[q] = outbox[q]
  BY <1>5, <1>6 DEF Types
<1>8. outbox[p] \subseteq outbox'[p] \cup Stored
  <2>1. \A e \in outbox[p] : e.id = env.id => e = env
    BY <1>2 DEF IInv, WireInv, OnTheWire
  <2>2. QED
    BY <1>4, <1>7, <2>1
<1>9. Stored' = Stored /\ requests' = requests
  BY <1>1 DEF Stored
<1>10. OnTheWire' = OnTheWire
  BY <1>7, <1>8, <1>9 DEF OnTheWire, Stored
<1>11. \A e \in requests' : e \in Stored' \cup outbox'[Author(e.id)]
  <2>1. \A e \in requests : Author(e.id) \in Party
    BY <1>6, WireType DEF OnTheWire
  <2>2. QED
    BY <1>7, <1>8, <1>9, <2>1 DEF SyncInv
<1>12. \A q \in Party : {id \in saved'[q] : Author(id) # q}
                            = {id \in saved[q] : Author(id) # q}
  BY <1>2, <1>7
<1>13. QED
  BY <1>1, <1>10, <1>11, <1>12, SyncQuiet

LEMMA SyncInductive == IInv /\ KeysInv /\ SyncInv /\ [Next]_vars => SyncInv'
<1> SUFFICES ASSUME IInv, KeysInv, SyncInv, [Next]_vars PROVE SyncInv'
  OBVIOUS
<1>1. \A e \in requests : Author(e.id) \in Party
  BY WireType DEF IInv, OnTheWire
<1>2. ASSUME NEW p \in Party, Transmit(p) PROVE SyncInv'
  <2>1. Current(op[p]) \in outbox[p] /\ Author(Current(op[p]).id) = p
    BY <1>2, CurrentIsOldest DEF Transmit
  <2>2. /\ requests' = requests \cup {Current(op[p])}
        /\ UNCHANGED <<session, keygen, saved, outbox, composed, store, deletes>>
    BY <1>2 DEF Transmit, disk, bounds
  <2>3. OnTheWire' = OnTheWire /\ Stored' = Stored
    BY <2>1, <2>2 DEF OnTheWire, Stored
  <2>4. \A e \in requests' : e \in Stored' \cup outbox'[Author(e.id)]
    BY <2>1, <2>2, <2>3 DEF SyncInv
  <2>5. QED
    BY <2>2, <2>3, <2>4, SyncQuiet
<1>3. ASSUME NEW p \in Party,
             \/ Retry(p) \/ GiveUp(p) \/ StartSync(p) \/ FetchPage(p)
             \/ ApplyFails(p) \/ EndSync(p) \/ Interrupt(p)
      PROVE  SyncInv'
  <2>1. UNCHANGED <<session, keygen, saved, outbox, composed, store, requests,
                    deletes>>
    BY <1>3 DEF Retry, GiveUp, StartSync, FetchPage, ApplyFails, EndSync,
                Interrupt, disk, bounds
  <2>2. OnTheWire' = OnTheWire /\ Stored' = Stored
    BY <2>1 DEF OnTheWire, Stored
  <2>3. \A e \in requests' : e \in Stored' \cup outbox'[Author(e.id)]
    BY <2>1, <2>2 DEF SyncInv
  <2>4. QED
    BY <2>1, <2>2, <2>3, SyncQuiet
<1>4. ASSUME NEW p \in Party, DeleteConversation(p) PROVE SyncInv'
  <2>1. /\ deletes' = deletes + 1
        /\ UNCHANGED <<outbox, composed, store, requests>>
    BY <1>4 DEF DeleteConversation
  <2>2. \A e \in requests' : e \in Stored' \cup outbox'[Author(e.id)]
    BY <2>1 DEF SyncInv, Stored
  <2>3. deletes' \in Nat /\ deletes' # 0
    BY <2>1 DEF SyncInv
  <2>4. QED
    BY <2>1, <2>2, <2>3 DEF SyncInv
<1>5. ASSUME NEW env \in requests, Accept(env) PROVE SyncInv'
  <2>1. /\ Insert(env)
        /\ requests' = requests \ {env}
        /\ UNCHANGED <<session, keygen, saved, outbox, composed, deletes>>
    BY <1>5 DEF Accept, disk, bounds
  <2>2. Stored' = Stored \cup {env}
    BY <2>1, InsertEffect
  <2>3. OnTheWire' = OnTheWire
    BY <2>1, <2>2 DEF OnTheWire, Stored
  <2>4. \A e \in requests' : e \in Stored' \cup outbox'[Author(e.id)]
    BY <2>1, <2>2 DEF SyncInv
  <2>5. QED
    BY <2>1, <2>3, <2>4, SyncQuiet
<1>6. ASSUME NEW env \in requests, Lose(env) PROVE SyncInv'
  <2>1. /\ requests' = requests \ {env}
        /\ UNCHANGED <<session, keygen, saved, outbox, composed, store, deletes>>
    BY <1>6 DEF Lose, disk
  <2>2. Stored' = Stored
    BY <2>1 DEF Stored
  <2>3. env \in Stored \cup outbox[Author(env.id)] /\ Author(env.id) \in Party
    BY <1>1 DEF SyncInv
  <2>4. OnTheWire' = OnTheWire
    BY <2>1, <2>2, <2>3 DEF OnTheWire, Stored
  <2>5. \A e \in requests' : e \in Stored' \cup outbox'[Author(e.id)]
    BY <2>1, <2>2 DEF SyncInv
  <2>6. QED
    BY <2>1, <2>4, <2>5, SyncQuiet
<1>7. CASE UNCHANGED vars
  <2>1. UNCHANGED <<session, keygen, saved, outbox, composed, store, requests,
                    deletes>>
    BY <1>7 DEF vars, disk, bounds
  <2>2. OnTheWire' = OnTheWire /\ Stored' = Stored
    BY <2>1 DEF OnTheWire, Stored
  <2>3. \A e \in requests' : e \in Stored' \cup outbox'[Author(e.id)]
    BY <2>1, <2>2 DEF SyncInv
  <2>4. QED
    BY <2>1, <2>2, <2>3, SyncQuiet
<1>8. QED
  BY <1>2, <1>3, <1>4, <1>5, <1>6, <1>7, SyncSend, SyncApply,
     SyncAcknowledge DEF Next

LEMMA SyncInit == Init => SyncInv
<1> SUFFICES ASSUME Init PROVE SyncInv
  OBVIOUS
<1>1. OnTheWire = {}
  BY DEF Init, OnTheWire, Entries
<1>2. ASSUME NEW p \in Party
      PROVE  PairOK(p)
  <2>1. Peer(p) \in Party
    BY PeerPeer
  <2>2. /\ Wire(p) = {} /\ Wire(Peer(p)) = {}
        /\ Shown(p) = {} /\ Shown(Peer(p)) = {} /\ ShownKeys(p) = {}
    BY <1>1 DEF Wire, Shown, ShownKeys
  <2>3. /\ session[p] = InitSession(p, Peer(p), p = Initiator)
        /\ session[Peer(p)] =
               InitSession(Peer(p), Peer(Peer(p)), Peer(p) = Initiator)
        /\ keygen[p] = 0
        /\ composed[Peer(p)] = 0
    BY <2>1 DEF Init
  <2>4. session[p].our[2] = 0
    <3>1. session[p].our = <<p, 0>>
      BY <2>3 DEF InitSession
    <3>2. QED
      BY <3>1
  <2>5. ReceiveSound(p, session[p], ShownKeys(p))
    BY <2>2, <2>3, InitSound
  <2>6. QED
    BY <2>2, <2>3, <2>4, <2>5, InitInStep, InitCounted DEF PairOK
<1>3. \A p \in Party : composed[p] =< SendLimit[p]
  BY DirectAssumption DEF Init
<1>4. QED
  BY <1>2, <1>3 DEF SyncInv, Init

\* No message that a device still lacks is beyond a skip limit of it.
WithinSkipLimits ==
    \A p \in Party : \A e \in Entries(store) :
        Author(e.id) # p /\ e.id \notin saved[p] =>
            ~OverLimit(session[p], e.header, Fresh(p))

LEMMA Lacking ==
    ASSUME IInv, SyncInv, deletes = 0, NEW p \in Party, NEW e \in Stored,
           Author(e.id) # p, e.id \notin saved[p]
    PROVE  /\ e \in Wire(Peer(p)) /\ e \notin Shown(p)
           /\ InStep(p, session[p], session[Peer(p)], Wire(p), Wire(Peer(p)),
                     Shown(p), Shown(Peer(p)))
           /\ Counted(session[p], session[Peer(p)], composed[Peer(p)])
<1>1. e \in OnTheWire /\ Author(e.id) \in Party
  BY PairTypes, WireType
<1>2. e \in Wire(Peer(p)) /\ e \notin Shown(p)
  BY <1>1, PairTypes DEF Wire, Shown
<1>3. QED
  BY <1>2 DEF SyncInv, PairOK

LEMMA LackingOpens ==
    ASSUME IInv, SyncInv, WithinSkipLimits
    PROVE  NoKeyConsumedInVain
<1> SUFFICES ASSUME deletes = 0, NEW p \in Party, NEW e \in Stored,
                    Author(e.id) # p, e.id \notin saved[p]
             PROVE  Opens(session[p], e, Fresh(p))
  BY DEF NoKeyConsumedInVain, MaySyncAgain, Stored
<1>1. ~OverLimit(session[p], e.header, Fresh(p))
  BY DEF WithinSkipLimits, Stored
<1>2. QED
  BY <1>1, PairTypes, Lacking, InStepOpens

LEMMA FewAreWithinLimits ==
    ASSUME IInv, SyncInv, deletes = 0,
           \A p \in Party :
               SendLimit[p] =< MaxSkip /\ SendLimit[p] =< MaxSkippedTotal
    PROVE  WithinSkipLimits
<1> SUFFICES ASSUME NEW p \in Party, NEW e \in Stored,
                    Author(e.id) # p, e.id \notin saved[p]
             PROVE  ~OverLimit(session[p], e.header, Fresh(p))
  BY DEF WithinSkipLimits, Stored
<1>1. /\ composed[Peer(p)] \in Nat
      /\ composed[Peer(p)] =< MaxSkip
      /\ composed[Peer(p)] =< MaxSkippedTotal
  <2>1. Peer(p) \in Party /\ composed[Peer(p)] \in Nat
    BY PairTypes
  <2>2. /\ composed[Peer(p)] =< SendLimit[Peer(p)]
        /\ SendLimit[Peer(p)] =< MaxSkip
        /\ SendLimit[Peer(p)] =< MaxSkippedTotal
    BY <2>1 DEF SyncInv
  <2>3. /\ SendLimit[Peer(p)] \in Nat
        /\ MaxSkip \in Nat /\ MaxSkippedTotal \in Nat
    BY <2>1, DirectAssumption, LimitsAssumption
  <2>4. QED
    BY <2>1, <2>2, <2>3
<1>2. QED
  BY <1>1, PairTypes, Lacking, CountedWithinLimits

LEMMA SyncInvariance == Spec => [](IInv /\ SyncInv)
BY Invariance, KeysInit, KeysInductive, SyncInit, SyncInductive, PTL DEF Spec

\* As long as nobody deletes the conversation, whatever crashed, was retried
\* or came late, a stored message that its recipient does not show yet opens
\* with codec.decrypt in the next sync, unless maxSkip or maxSkippedTotal is
\* what refuses it: commitReceivedMessage never consumes a key without
\* preserving its message.
THEOREM NothingLostWithinLimits ==
    Spec => [](WithinSkipLimits => NoKeyConsumedInVain)
<1>1. IInv /\ SyncInv => (WithinSkipLimits => NoKeyConsumedInVain)
  BY LackingOpens
<1>2. QED
  BY SyncInvariance, <1>1, PTL

\* The limits refuse nothing, and every such message opens, when a device
\* composes no more messages than maxSkip and maxSkippedTotal admit: what
\* DoubleRatchet.decrypt has skipped and what it has still to skip are
\* distinct messages of the peer.
THEOREM NothingLostInSync ==
    ASSUME \A p \in Party :
               SendLimit[p] =< MaxSkip /\ SendLimit[p] =< MaxSkippedTotal
    PROVE  Spec => []NoKeyConsumedInVain
<1>1. IInv /\ SyncInv => NoKeyConsumedInVain
  <2> SUFFICES ASSUME IInv, SyncInv, deletes = 0
               PROVE  NoKeyConsumedInVain
    BY DEF NoKeyConsumedInVain
  <2>1. QED
    BY FewAreWithinLimits, LackingOpens
<1>2. QED
  BY SyncInvariance, <1>1, PTL

-----------------------------------------------------------------------------
\* The system implements the ledger

Listing == [i \in DOMAIN store |-> store[i].id]
Received == [p \in Party |-> {id \in saved[p] : Author(id) # p}]

LEMMA ListingIsIds ==
    ASSUME Types
    PROVE  {Listing[i] : i \in DOMAIN Listing} = Ids(Stored)
BY DEF Types, Listing, Ids, Stored, Entries

\* A step that neither inserts a row on the server, nor saves or deletes a row
\* of the peer, nor composes a message is a stutter of the ledger.
LEMMA LedgerStutters ==
    ASSUME UNCHANGED <<composed, store>>,
           \A p \in Party : {id \in saved'[p] : Author(id) # p}
                                = {id \in saved[p] : Author(id) # p}
    PROVE  UNCHANGED <<composed, Listing, Received>>
BY DEF Listing, Received

LEMMA SendLedger ==
    ASSUME IInv, NEW p \in Party, Send(p)
    PROVE  Ledger!Next
<1>1. PICK env \in Envelope :
          /\ env.id = <<p, composed[p] + 1>>
          /\ saved' = [saved EXCEPT ![p] = @ \cup {env.id}]
          /\ composed' = [composed EXCEPT ![p] = @ + 1]
          /\ UNCHANGED <<store, requests>>
  BY SendEnvelope
<1>2. Author(env.id) = p
  BY <1>1 DEF Author
<1>3. \A q \in Party : saved'[q] = IF q = p THEN saved[q] \cup {env.id}
                                   ELSE saved[q]
  BY <1>1 DEF IInv, Types
<1>4. Received' = Received
  BY <1>2, <1>3 DEF Received
<1>5. Listing' = Listing
  BY <1>1 DEF Listing
<1>6. Ledger!Compose(p)
  BY <1>1, <1>4, <1>5 DEF Ledger!Compose, Listing, Received
<1>7. QED
  BY <1>6 DEF Ledger!Next

LEMMA AcceptLedger ==
    ASSUME IInv, NEW env \in requests, Accept(env)
    PROVE  Ledger!Next \/ UNCHANGED <<composed, Listing, Received>>
<1> DEFINE p == Author(env.id)
           n == env.id[2]
<1>1. Insert(env) /\ UNCHANGED <<saved, composed>>
  BY DEF Accept, disk
<1>2. env \in OnTheWire /\ Types
  BY DEF OnTheWire, IInv
<1>3. /\ env.id \in Id
      /\ p \in Party
      /\ env.id = <<p, n>>
      /\ n \in 1 .. composed[p]
  BY <1>2, WireType, IdFields DEF IInv, WireInv
<1>4. CASE env.id \in Ids(Stored)
  <2>1. store' = store
    BY <1>1, <1>4 DEF Insert, Stored
  <2>2. QED
    BY <1>1, <2>1, LedgerStutters
<1>5. CASE env.id \notin Ids(Stored)
  <2>1. store' = Append(store, env) /\ store \in Seq(Envelope)
    BY <1>1, <1>2, <1>5 DEF Insert, Stored, Types
  <2>2. Listing' = Append(Listing, env.id)
    <3>1. /\ Len(store') = Len(store) + 1
          /\ Len(store) \in Nat
          /\ \A i \in 1 .. Len(store) : store'[i] = store[i]
          /\ store'[Len(store) + 1] = env
          /\ DOMAIN store' = 1 .. (Len(store) + 1)
          /\ DOMAIN store = 1 .. Len(store)
      BY <1>2, <2>1 DEF OnTheWire, Types
    <3>2. Listing \in Seq(Id) /\ Len(Listing) = Len(store)
      <4>1. \A i \in DOMAIN store : store[i].id \in Id
        <5>1. Stored \subseteq Envelope
          BY <1>2, WireType
        <5>2. QED
          BY <5>1 DEF Stored, Entries, Envelope
      <4>2. /\ DOMAIN Listing = 1 .. Len(store)
            /\ Listing = [i \in DOMAIN Listing |-> Listing[i]]
            /\ \A i \in 1 .. Len(store) : Listing[i] \in Id
        BY <3>1, <4>1 DEF Listing
      <4>3. Listing \in [1 .. Len(store) -> Id]
        BY <4>2
      <4>4. QED
        BY <3>1, <4>3, SeqOfLength
    <3>3. Append(Listing, env.id) =
              [i \in 1 .. (Len(store) + 1) |->
                   IF i = Len(store) + 1 THEN env.id ELSE Listing[i]]
      BY <1>3, <3>1, <3>2
    <3>4. ASSUME NEW i \in 1 .. (Len(store) + 1)
          PROVE  store'[i].id =
                     IF i = Len(store) + 1 THEN env.id ELSE Listing[i]
      BY <3>1 DEF Listing
    <3>5. Listing' = [i \in 1 .. (Len(store) + 1) |-> store'[i].id]
      BY <3>1 DEF Listing
    <3>6. QED
      BY <3>3, <3>4, <3>5
  <2>3. env.id \notin {Listing[i] : i \in DOMAIN Listing}
    BY <1>2, <1>5, ListingIsIds
  <2>4. Received' = Received /\ composed' = composed
    BY <1>1 DEF Received
  <2>5. Ledger!List(p)
    <3>1. <<p, n>> \notin Ledger!Listed
      BY <1>3, <2>3 DEF Ledger!Listed, Listing
    <3>2. Listing' = Append(Listing, <<p, n>>)
      BY <1>3, <2>2
    <3> HIDE DEF p, n
    <3>3. QED
      BY <1>3, <2>4, <3>1, <3>2 DEF Ledger!List, Listing, Received
  <2>6. QED
    BY <1>3, <2>5 DEF Ledger!Next
<1>6. QED
  BY <1>4, <1>5

LEMMA ApplyLedger ==
    ASSUME IInv, NEW p \in Party, ApplyNext(p)
    PROVE  Ledger!Next \/ UNCHANGED <<composed, Listing, Received>>
<1>1. PICK env \in Envelope :
          /\ env \in Stored
          /\ \/ RewriteOwn(p, env)
             \/ UNCHANGED saved
             \/ /\ Author(env.id) # p
                /\ saved' = [saved EXCEPT ![p] = @ \cup {env.id}]
  BY ApplyRows
<1>2. UNCHANGED <<composed, store>> /\ Types
  BY DEF ApplyNext, IInv
<1>3. \A q \in Party : q # p => saved'[q] = saved[q]
  BY <1>1, <1>2 DEF RewriteOwn, Types
<1>4. saved'[p] \in {saved[p], saved[p] \cup {env.id}}
  BY <1>1, <1>2 DEF RewriteOwn, Types
<1>5. CASE \/ saved'[p] = saved[p]
           \/ Author(env.id) = p
           \/ env.id \in saved[p]
  BY <1>2, <1>3, <1>4, <1>5, LedgerStutters
<1>6. CASE /\ saved'[p] = saved[p] \cup {env.id}
           /\ Author(env.id) # p
           /\ env.id \notin saved[p]
  <2>1. env.id \in Ledger!Listed
    <3>1. env.id \in Ids(Stored)
      BY <1>1 DEF Ids
    <3>2. QED
      BY <1>2, <3>1, ListingIsIds DEF Ledger!Listed, Listing
  <2>2. env.id[1] # p /\ env.id \notin Received[p]
    BY <1>6 DEF Author, Received
  <2>3. Received' = [Received EXCEPT ![p] = @ \cup {env.id}]
    BY <1>3, <1>6 DEF Received
  <2>4. Listing' = Listing
    BY <1>2 DEF Listing
  <2>5. Ledger!Receive(p)
    BY <1>2, <2>1, <2>2, <2>3, <2>4 DEF Ledger!Receive, Listing, Received
  <2>6. QED
    BY <2>5 DEF Ledger!Next
<1>7. QED
  BY <1>4, <1>5, <1>6

LEMMA DeleteLedger ==
    ASSUME IInv, NEW p \in Party, DeleteConversation(p)
    PROVE  Ledger!Next
<1>1. saved' = [saved EXCEPT ![p] = {}] /\ UNCHANGED <<composed, store>>
  BY DEF DeleteConversation
<1>2. \A q \in Party : saved'[q] = IF q = p THEN {} ELSE saved[q]
  BY <1>1 DEF IInv, Types
<1>3. Received' = [Received EXCEPT ![p] = {}]
  BY <1>2 DEF Received
<1>4. Listing' = Listing
  BY <1>1 DEF Listing
<1>5. Ledger!Forget(p)
  BY <1>1, <1>3, <1>4 DEF Ledger!Forget, Listing, Received
<1>6. QED
  BY <1>5 DEF Ledger!Next

LEMMA AcknowledgeLedger ==
    ASSUME IInv, NEW p \in Party, Acknowledge(p)
    PROVE  UNCHANGED <<composed, Listing, Received>>
<1>1. Author(Current(op[p]).id) = p
  BY CurrentIsOldest DEF Acknowledge, Answered
<1>2. /\ saved' = [saved EXCEPT ![p] = @ \cup {Current(op[p]).id}]
      /\ UNCHANGED <<composed, store>>
  BY DEF Acknowledge, CommitSent
<1>3. \A q \in Party :
          saved'[q] = IF q = p THEN saved[q] \cup {Current(op[p]).id}
                      ELSE saved[q]
  BY <1>2 DEF IInv, Types
<1>4. QED
  BY <1>1, <1>2, <1>3, LedgerStutters

LEMMA LedgerStep ==
    IInv /\ [Next]_vars => Ledger!Next \/ UNCHANGED <<composed, Listing, Received>>
<1> SUFFICES ASSUME IInv, [Next]_vars
             PROVE  Ledger!Next \/ UNCHANGED <<composed, Listing, Received>>
  OBVIOUS
<1>1. ASSUME NEW p \in Party,
             \/ Retry(p) \/ GiveUp(p) \/ StartSync(p) \/ FetchPage(p)
             \/ ApplyFails(p) \/ EndSync(p) \/ Interrupt(p) \/ Transmit(p)
      PROVE  UNCHANGED <<composed, Listing, Received>>
  <2>1. UNCHANGED <<saved, composed, store>>
    BY <1>1 DEF Retry, GiveUp, StartSync, FetchPage, ApplyFails, EndSync,
                Interrupt, Transmit, disk
  <2>2. QED
    BY <2>1, LedgerStutters
<1>2. ASSUME NEW env \in requests, Lose(env)
      PROVE  UNCHANGED <<composed, Listing, Received>>
  BY <1>2, LedgerStutters DEF Lose, disk
<1>3. CASE UNCHANGED vars
  BY <1>3, LedgerStutters DEF vars, disk
<1>4. QED
  BY <1>1, <1>2, <1>3, SendLedger, AcceptLedger, ApplyLedger, DeleteLedger,
     AcknowledgeLedger DEF Next

\* Two MessagingService devices, their databases and the messages table
\* implement the ledger: the server lists each composed message at most once,
\* in an order that never changes, and a device gets what it shows from that
\* list only, and forgets it only when its user deletes the conversation.
THEOREM ImplementsLedger == Spec => LedgerSpec
<1>1. Init => Ledger!Init
  <2> SUFFICES ASSUME Init PROVE Ledger!Init
    OBVIOUS
  <2>1. Listing = <<>> /\ Received = [p \in Party |-> {}]
    BY DEF Init, Listing, Received
  <2>2. QED
    BY <2>1 DEF Init, Ledger!Init, Listing, Received
<1>2. IInv /\ [Next]_vars => [Ledger!Next]_(Ledger!vars)
  BY LedgerStep DEF Ledger!vars, Listing, Received
<1>3. QED
  BY Invariance, <1>1, <1>2, PTL DEF Spec, LedgerSpec, Ledger!Spec

=============================================================================
