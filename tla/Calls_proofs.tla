----------------------------- MODULE Calls_proofs -----------------------------
(***************************************************************************)
(* Calls for every set of call ids, whatever users and network do.         *)
(*                                                                         *)
(* The types need AcceptsShown: accept() changes the screen it runs under. *)
(*                                                                         *)
(* That an ended call is released follows by device (DeviceOK): what       *)
(* the fields hold at each await of call() and accept(), which may find    *)
(* that end() has reset them.  It holds as long as all goes orderly on the *)
(* device; one on which it once did not is never orderly again             *)
(* (OrderlyBefore), so nothing is claimed of it any more.                  *)
(*                                                                         *)
(* That no candidate is dropped needs an argument across the devices: a    *)
(* call is at one place on its way from call() to the dialog (OnePlace),   *)
(* and a device that the peer has heard of in a call has entered it for    *)
(* good (HeardEntered), so a candidate never comes too early.  Every step  *)
(* only moves calls on (Follows).                                          *)
(***************************************************************************)
EXTENDS Calls, FiniteSetTheorems, TLAPS

\* An accept() runs while HomeShell accepts the call it shows.
AcceptsShown ==
    \A s \in Side : \A o \in ops[s] : o.kind = "accept" =>
        /\ incoming[s] # None
        /\ incoming[s].at = "accepting"
        /\ incoming[s].id = o.id
        /\ \A q \in ops[s] : q.kind = "accept" => q = o

TInv == TypeOK /\ AcceptsShown

\* What the device holds while call() or accept() waits at each await.
AtAwait(s, o) ==
    /\ o.at = "peer" => callId[s] = None /\ Released(s)
    /\ o.at \in {"key", "media"} => local[s] = None
    /\ o.at \in {"peer", "key", "media", "pc"} => pc[s] = None /\ ~ready[s]
    /\ callId[s] # None => callId[s] = o.id
    /\ callId[s] # None /\ o.at \notin {"peer", "key"} => key[s] = callId[s]

\* The fields of a device fit together.
FieldsFit(s) ==
    /\ live[s] \subseteq {local[s]}
    /\ ready[s] => pc[s] # None /\ pc[s].remote
    /\ callId[s] # None => key[s] \in {None, callId[s]}
    /\ pc[s] # None /\ callId[s] # None => key[s] = callId[s]

\* No stream comes while end() closes another one.
EndsFit(s) ==
    \A e \in ending[s] : e.stream # None =>
        /\ local[s] \in {e.stream, None}
        /\ \A o \in ops[s] : o.at \notin {"peer", "key", "media"}

\* A device without a call that is not in an operation has released it all,
\* or is about to because its operation failed.
Rests(s) ==
    callId[s] = None /\ ops[s] = {} /\ (\A e \in ending[s] : e.by # "op")
        => Released(s)

DeviceOK(s) ==
    /\ \A o, q \in ops[s] : o = q
    /\ \A o \in ops[s] : AtAwait(s, o)
    /\ FieldsFit(s)
    /\ EndsFit(s)
    /\ Rests(s)

DInv == TInv /\ \A s \in Side : Orderly(s) => DeviceOK(s)

AllOrderly == \A s \in Side : Orderly(s)

-----------------------------------------------------------------------------
\* The way of a call: call() of the caller, the offer, the dialog.

Calling(s, c) == \E o \in ops[s] : o.kind = "call" /\ o.id = c
Offered(s, c) == Signal("offer", c, c, s) \in relay
Opening(s, c) ==
    handling[s] # None /\ handling[s].type = "offer" /\ handling[s].id = c
Known(s, c) == incoming[s] # None /\ incoming[s].id = c
Dialog(s, c) == Shows(s, "dialog") /\ incoming[s].id = c

\* An id that was not drawn is used nowhere.
DrawnOnce ==
    \A c \in CallId : c \notin drawn =>
        /\ \A m \in relay : m.id # c
        /\ \A s \in Side :
              /\ \A o \in ops[s] : o.id # c
              /\ callId[s] # c
              /\ handling[s] # None => handling[s].id # c
              /\ ~Known(s, c)

\* A call is at one place on its way.
OnePlace ==
    \A s \in Side, c \in CallId :
        /\ Calling(s, c) =>
              /\ ~Calling(Peer(s), c)
              /\ \A t \in Side : ~Offered(t, c) /\ ~Opening(t, c) /\ ~Known(t, c)
        /\ Offered(s, c) => ~Opening(Peer(s), c) /\ ~Known(Peer(s), c)
        /\ Opening(s, c) => ~Known(s, c)

\* The device may still enter the call ...
Coming(s, c) ==
    \/ c \notin drawn
    \/ \E o \in ops[s] : o.id = c /\ o.at = "peer"
    \/ Calling(Peer(s), c)
    \/ Offered(Peer(s), c)
    \/ Opening(s, c)
    \/ Dialog(s, c)

\* ... or is in it with all it takes to handle its signals, or has left it.
Entered(s, c) == ~Coming(s, c) /\ (callId[s] = c => key[s] = c)

\* Whoever the peer has heard of in a call has entered it.
HeardEntered ==
    \A s \in Side, c \in CallId :
        \/ Offered(s, c)
        \/ Opening(Peer(s), c)
        \/ Known(Peer(s), c)
        \/ Signal("answer", c, c, s) \in relay
        \/ Signal("ice-candidate", c, c, Peer(s)) \in relay
        \/ answered[Peer(s)] /\ callId[Peer(s)] = c
        => Entered(s, c)

\* The candidate of p waits, travels, got lost, or came to a peer that keeps
\* it if it is still in the call.
Gathered(p) == pc[p] # None /\ pc[p].gathered
Waits(p) == outbox[p] /\ ~answered[p]
Travels(p, c) == Signal("ice-candidate", c, c, p) \in relay \cup lost
Has(s) ==
    \/ candidates[s] /\ ~ready[s]
    \/ pc[s] # None /\ pc[s].added

Kept(p, c) ==
    callId[p] = c /\ Gathered(p) =>
        \/ Waits(p)
        \/ Travels(p, c)
        \/ Entered(Peer(p), c) /\ (callId[Peer(p)] = c => Has(Peer(p)))

WayOK == DrawnOnce /\ OnePlace /\ HeardEntered
AllOK == TInv /\ \A s \in Side : DeviceOK(s)

CInv ==
    /\ DInv
    /\ AllOrderly => WayOK /\ \A p \in Side, c \in CallId : Kept(p, c)

-----------------------------------------------------------------------------
\* Lemmas about the two devices and about running operations

LEMMA PeerFacts ==
    ASSUME NEW s \in Side
    PROVE  /\ Peer(s) \in Side
           /\ Peer(s) # s
           /\ Peer(Peer(s)) = s
           /\ \A t \in Side : t # s => t = Peer(s)
<1>1. IsFiniteSet(Side \ {s}) /\ Cardinality(Side \ {s}) = 1
  BY CallsAssumption, FS_RemoveElement
<1>2. PICK x : Side \ {s} = {x}
  BY <1>1, FS_Singleton
<1>3. x \in Side /\ x # s /\ \A t \in Side : t # s => t = x
  BY <1>2
<1>4. Peer(s) = x
  BY <1>3 DEF Peer
<1>5. \A t \in Side : t # x => t = s
  BY <1>3
<1>6. Peer(x) = s
  BY <1>3, <1>5 DEF Peer
<1>7. QED
  BY <1>3, <1>4, <1>6

-----------------------------------------------------------------------------
\* Types

Connections ==
    [ call : CallId, local : BOOLEAN, remote : BOOLEAN,
      gathered : BOOLEAN, added : BOOLEAN ]
Ends == [ by : {"user", "timer", "op", "peer"}, id : CallId \cup {None},
          stream : CallId \cup {None} ]
Ops == [ kind : {"call", "accept"}, id : CallId,
         at : {"peer", "key", "media", "pc", "offer", "send"} ]
Shown == [id : CallId, at : {"dialog", "accepting", "screen", "failed"}]

FieldTypes ==
    /\ callId \in [Side -> CallId \cup {None}]
    /\ key \in [Side -> CallId \cup {None}]
    /\ answered \in [Side -> BOOLEAN]
    /\ outbox \in [Side -> BOOLEAN]
    /\ ready \in [Side -> BOOLEAN]
    /\ candidates \in [Side -> BOOLEAN]
    /\ local \in [Side -> CallId \cup {None}]
    /\ pc \in [Side -> Connections \cup {None}]
    /\ timer \in [Side -> BOOLEAN]

RunTypes ==
    /\ drawn \subseteq CallId
    /\ live \in [Side -> SUBSET CallId]
    /\ ops \in [Side -> SUBSET Ops]
    /\ ending \in [Side -> SUBSET Ends]
    /\ handling \in [Side -> Signals \cup {None}]

ScreenTypes ==
    /\ calling \in [Side -> CallId \cup {None}]
    /\ incoming \in [Side -> Shown \cup {None}]

RelayTypes ==
    /\ relay \subseteq Signals
    /\ lost \subseteq Signals
    /\ scenario \in Scenarios

CallTypes == FieldTypes /\ RunTypes /\ ScreenTypes /\ RelayTypes

HistoryTypes ==
    /\ abandoned \in [Side -> SUBSET CallId]
    /\ rushed \in [Side -> BOOLEAN]

LEMMA TypeParts == TypeOK <=> CallTypes /\ HistoryTypes
BY DEF TypeOK, CallTypes, HistoryTypes, FieldTypes, RunTypes, ScreenTypes,
       RelayTypes, Connections, Ends, Ops, Shown

LEMMA TypePartsNext == TypeOK' <=> CallTypes' /\ HistoryTypes'
BY TypeParts, PTL

LEMMA SignalTypes ==
    ASSUME TypeOK, NEW s \in Side, NEW type \in SignalType
    PROVE  /\ \A c \in CallId : Signal(type, c, c, s) \in Signals
           /\ CanSend(s) => Signal(type, callId[s], key[s], s) \in Signals
BY DEF TypeOK, Signal, Signals, CanSend

LEMMA BeginEndTypes ==
    ASSUME TypeOK, NEW s \in Side, NEW by \in {"user", "timer", "op", "peer"},
           NEW c \in CallId \cup {None}, NEW notify \in BOOLEAN,
           BeginEnd(s, by, c, notify)
    PROVE  /\ ending' \in [Side -> SUBSET Ends]
           /\ live' \in [Side -> SUBSET CallId]
           /\ relay' \subseteq Signals
<1>1. ending' \in [Side -> SUBSET Ends]
  <2>1. End(s, by, c) \in Ends
    BY DEF TypeOK, End, Ends
  <2>2. QED
    BY <2>1 DEF TypeOK, BeginEnd, Ends
<1>2. live' \in [Side -> SUBSET CallId]
  BY DEF TypeOK, BeginEnd, Stop
<1>3. relay' \subseteq Signals
  BY SignalTypes DEF TypeOK, BeginEnd, Send, SignalType
<1>4. QED
  BY <1>1, <1>2, <1>3

LEMMA ResetTypes ==
    ASSUME FieldTypes, NEW s \in Side, Reset(s)
    PROVE  FieldTypes'
BY DEF FieldTypes, Reset

LEMMA InitTypes == Init => TInv
<1>1. SUFFICES ASSUME Init PROVE TInv
  OBVIOUS
<1>2. TypeOK
  BY <1>1 DEF Init, TypeOK
<1>3. AcceptsShown
  BY <1>1 DEF Init, AcceptsShown
<1>4. QED
  BY <1>2, <1>3 DEF TInv

LEMMA UserTypes ==
    ASSUME TypeOK, NEW s \in Side, scenario' = scenario,
           Call(s) \/ Accept(s) \/ Decline(s) \/ PressEnd(s) \/ RingTimeout(s)
    PROVE  CallTypes'
<1>a. FieldTypes /\ RunTypes /\ ScreenTypes /\ RelayTypes
  BY TypeParts DEF CallTypes
<1>b. "call-end" \in SignalType
  BY DEF SignalType
<1>1. CASE Call(s)
  <2>1. FieldTypes'
    BY <1>a, <1>1 DEF FieldTypes, Call, fields
  <2>2. RunTypes' /\ relay' \subseteq Signals
    <3>0. scenario.calls[s] \subseteq CallId
      BY <1>a, CallsAssumption DEF RelayTypes
    <3>1. drawn' \subseteq CallId
      <4>1. drawn' = drawn \/ \E c \in CallId : drawn' = drawn \cup {c}
        BY <1>1, <3>0 DEF Call
      <4>2. QED
        BY <1>a, <4>1 DEF RunTypes
    <3>2. handling' \in [Side -> Signals \cup {None}]
      BY <1>a, <1>1 DEF RunTypes, Call
    <3>3. ops' \in [Side -> SUBSET Ops]
      <4>1. \/ ops' = ops
            \/ \E c \in CallId :
                  ops' = [ops EXCEPT ![s] = @ \cup {Op("call", c)}]
        BY <1>1, <3>0 DEF Call
      <4>2. \A c \in CallId : Op("call", c) \in Ops
        BY DEF Op, Ops
      <4>3. QED
        BY <1>a, <4>1, <4>2 DEF RunTypes
    <3>4. /\ ending' \in [Side -> SUBSET Ends]
          /\ live' \in [Side -> SUBSET CallId]
          /\ relay' \subseteq Signals
      <4>1. CASE \E c \in CallId : BeginEnd(s, "op", c, FALSE)
        BY <4>1, BeginEndTypes
      <4>2. CASE UNCHANGED <<live, ending, relay>>
        BY <4>2, <1>a DEF RunTypes, RelayTypes
      <4>3. QED
        BY <4>1, <4>2, <1>1, <3>0 DEF Call
    <3>5. QED
      BY <3>1, <3>2, <3>3, <3>4 DEF RunTypes
  <2>3. ScreenTypes'
    <3>1. PICK c \in CallId : calling' = [calling EXCEPT ![s] = c]
      BY <1>a, <1>1, CallsAssumption DEF RelayTypes, Call
    <3>2. QED
      BY <1>a, <1>1, <3>1 DEF ScreenTypes, Call
  <2>4. RelayTypes'
    BY <1>a, <1>1, <2>2 DEF RelayTypes, Call
  <2>5. QED
    BY <2>1, <2>2, <2>3, <2>4 DEF CallTypes
<1>2. CASE Accept(s)
  <2>0. incoming[s] \in Shown
    BY <1>a, <1>2 DEF Accept, Shows, ScreenTypes
  <2>1. FieldTypes'
    BY <1>a, <1>2 DEF FieldTypes, Accept, fields
  <2>2. RunTypes' /\ relay' \subseteq Signals
    <3>1. ops' \in [Side -> SUBSET Ops]
      <4>1. Op("accept", incoming[s].id) \in Ops
        BY <2>0 DEF Op, Ops, Shown
      <4>2. \/ ops' = ops
            \/ ops' = [ops EXCEPT ![s] = @ \cup {Op("accept", incoming[s].id)}]
        BY <1>2 DEF Accept
      <4>3. QED
        BY <1>a, <4>1, <4>2 DEF RunTypes
    <3>2. /\ ending' \in [Side -> SUBSET Ends]
          /\ live' \in [Side -> SUBSET CallId]
          /\ relay' \subseteq Signals
      <4>1. CASE BeginEnd(s, "op", incoming[s].id, FALSE)
        BY <4>1, <2>0, BeginEndTypes DEF Shown
      <4>2. CASE UNCHANGED <<live, ending, relay>>
        BY <4>2, <1>a DEF RunTypes, RelayTypes
      <4>3. QED
        BY <4>1, <4>2, <1>2 DEF Accept
    <3>3. QED
      BY <1>a, <1>2, <3>1, <3>2 DEF RunTypes, Accept
  <2>3. ScreenTypes'
    <3>1. \A at \in {"accepting", "failed"} :
             [incoming EXCEPT ![s].at = at] \in [Side -> Shown \cup {None}]
      BY <1>a, <2>0 DEF ScreenTypes, Shown
    <3>2. QED
      BY <1>a, <1>2, <3>1 DEF ScreenTypes, Accept
  <2>4. RelayTypes'
    BY <1>a, <1>2, <2>2 DEF RelayTypes, Accept
  <2>5. QED
    BY <2>1, <2>2, <2>3, <2>4 DEF CallTypes
<1>3. CASE Decline(s)
  <2>0. incoming[s].id \in CallId
    BY <1>a, <1>3 DEF Decline, Shows, ScreenTypes, Shown
  <2>1. FieldTypes' /\ RunTypes'
    BY <1>a, <1>3 DEF FieldTypes, RunTypes, Decline, fields
  <2>2. ScreenTypes'
    BY <1>a, <1>3 DEF ScreenTypes, Decline
  <2>3. RelayTypes'
    <3>1. Refusal(s) \in Signals
      BY <1>b, <2>0, SignalTypes DEF Refusal
    <3>2. QED
      BY <1>a, <1>3, <3>1 DEF RelayTypes, Decline
  <2>4. QED
    BY <2>1, <2>2, <2>3 DEF CallTypes
<1>4. CASE PressEnd(s) \/ RingTimeout(s)
  <2>1. FieldTypes' /\ ScreenTypes'
    BY <1>a, <1>4 DEF FieldTypes, ScreenTypes, PressEnd, RingTimeout, fields,
       screens
  <2>2. /\ ending' \in [Side -> SUBSET Ends]
        /\ live' \in [Side -> SUBSET CallId]
        /\ relay' \subseteq Signals
    <3>1. callId[s] \in CallId \cup {None}
      BY <1>a DEF FieldTypes
    <3>2. \/ BeginEnd(s, "user", callId[s], TRUE)
          \/ BeginEnd(s, "timer", callId[s], TRUE)
      BY <1>4 DEF PressEnd, RingTimeout
    <3>3. QED
      BY <3>1, <3>2, BeginEndTypes
  <2>3. RunTypes' /\ RelayTypes'
    BY <1>a, <1>4, <2>2 DEF RunTypes, RelayTypes, PressEnd, RingTimeout
  <2>4. QED
    BY <2>1, <2>3 DEF CallTypes
<1>5. QED
  BY <1>1, <1>2, <1>3, <1>4

LEMMA FinishEndTypes ==
    ASSUME TypeOK, NEW s \in Side, NEW e \in ending[s], scenario' = scenario,
           FinishEnd(s, e)
    PROVE  CallTypes'
<1>a. FieldTypes /\ RunTypes /\ ScreenTypes /\ RelayTypes
  BY TypeParts DEF CallTypes
<1>1. FieldTypes'
  BY <1>a, ResetTypes DEF FinishEnd
<1>2. RunTypes'
  BY <1>a DEF FinishEnd, Stop, RunTypes
<1>3. ScreenTypes'
  BY <1>a DEF FinishEnd, PopScreen, ScreenTypes, screens
<1>4. relay' \subseteq Signals
  <2>1. Shows(s, "dialog") => Refusal(s) \in Signals
    BY <1>a, SignalTypes DEF Shows, ScreenTypes, Shown, SignalType, Refusal
  <2>2. QED
    BY <1>a, <2>1 DEF FinishEnd, PopScreen, RelayTypes
<1>5. QED
  BY <1>a, <1>1, <1>2, <1>3, <1>4 DEF CallTypes, RelayTypes, FinishEnd

\* What makes call() or accept() throw.
Throws(s, o) == Fail(s, o) \/ NoStream(s, o) \/ NoCall(s, o)

LEMMA OpTypes ==
    ASSUME TInv, NEW s \in Side,
           UNCHANGED <<scenario, drawn, handling, calling, lost, rushed>>,
           NEW o \in ops[s],
           \/ Claim(s, o) \/ SetKey(s, o) \/ Capture(s, o) \/ CreatePc(s, o)
           \/ TakeOffer(s, o) \/ SendDescription(s, o) \/ Throws(s, o)
    PROVE  CallTypes'
<1>a. TypeOK /\ FieldTypes /\ RunTypes /\ ScreenTypes /\ RelayTypes
  BY TypeParts DEF TInv, CallTypes
<1>b. o \in Ops
  BY <1>a DEF RunTypes
<1>c. \A at \in {"peer", "key", "media", "pc", "offer", "send"} :
         [o EXCEPT !.at = at] \in Ops
  BY <1>b DEF Ops
<1>d. o.kind = "accept" => incoming[s] \in Shown
  BY <1>a DEF TInv, AcceptsShown, ScreenTypes
<1>e. o.id \in CallId
  BY <1>b DEF Ops
<1>1. CASE \/ Claim(s, o) \/ SetKey(s, o) \/ Capture(s, o) \/ CreatePc(s, o)
           \/ TakeOffer(s, o)
  <2>1. ScreenTypes' /\ RelayTypes'
    BY <1>a, <1>1 DEF ScreenTypes, RelayTypes, Claim, SetKey, Capture,
       CreatePc, TakeOffer, aside
  <2>2. PICK at \in {"key", "media", "pc", "offer", "send"} : Move(s, o, at)
    BY <1>1 DEF Claim, SetKey, Capture, CreatePc, TakeOffer
  <2>3. ops' \in [Side -> SUBSET Ops]
    BY <1>a, <1>c, <2>2 DEF RunTypes, Move
  <2>4. live' \in [Side -> SUBSET CallId]
    BY <1>a, <1>e, <1>1 DEF RunTypes, Claim, SetKey, Capture, CreatePc, TakeOffer
  <2>5. RunTypes'
    BY <1>a, <1>1, <2>3, <2>4 DEF RunTypes, Claim, SetKey, Capture, CreatePc,
       TakeOffer, aside
  <2>6. FieldTypes'
    <3>1. CASE Claim(s, o)
      BY <1>a, <1>e, <3>1 DEF FieldTypes, Claim
    <3>2. CASE SetKey(s, o)
      BY <1>a, <1>e, <3>2 DEF FieldTypes, SetKey
    <3>3. CASE Capture(s, o)
      BY <1>a, <1>e, <3>3 DEF FieldTypes, Capture
    <3>4. CASE CreatePc(s, o)
      <4>1. [NewPc(o.id) EXCEPT !.local = (o.kind = "call")] \in Connections
        BY <1>e DEF NewPc, Connections
      <4>2. QED
        BY <1>a, <3>4, <4>1 DEF FieldTypes, CreatePc
    <3>5. CASE TakeOffer(s, o)
      <4>1. pc[s] \in Connections
        BY <1>a, <3>5 DEF FieldTypes, TakeOffer
      <4>2. pc' \in [Side -> Connections \cup {None}]
        BY <1>a, <3>5, <4>1 DEF FieldTypes, TakeOffer, Connections
      <4>3. QED
        BY <1>a, <3>5, <4>2 DEF FieldTypes, TakeOffer
    <3>6. QED
      BY <1>1, <3>1, <3>2, <3>3, <3>4, <3>5
  <2>7. QED
    BY <2>1, <2>5, <2>6 DEF CallTypes
<1>2. CASE SendDescription(s, o)
  <2>1. FieldTypes'
    BY <1>a, <1>2 DEF FieldTypes, SendDescription
  <2>2. RunTypes'
    BY <1>a, <1>2 DEF RunTypes, SendDescription, Done
  <2>3. ScreenTypes'
    BY <1>a, <1>2, <1>d DEF ScreenTypes, SendDescription, Shown
  <2>4. RelayTypes'
    <3>1. \A type \in {"offer", "answer"} :
             Signal(type, callId[s], key[s], s) \in Signals
      BY <1>a, <1>2, SignalTypes DEF SendDescription, SignalType
    <3>2. QED
      BY <1>a, <1>2, <3>1 DEF RelayTypes, SendDescription, Send
  <2>5. QED
    BY <2>1, <2>2, <2>3, <2>4 DEF CallTypes
<1>3. CASE Throws(s, o)
  <2>0. Throw(s, o)
    BY <1>3 DEF Throws, Fail, NoStream, NoCall
  <2>1. FieldTypes'
    <3>1. CASE UNCHANGED fields
      BY <1>a, <3>1 DEF FieldTypes, fields
    <3>2. CASE NoStream(s, o)
      <4>1. NewPc(o.id) \in Connections
        BY <1>e DEF NewPc, Connections
      <4>2. QED
        BY <1>a, <3>2, <4>1 DEF FieldTypes, NoStream
    <3>3. QED
      BY <1>3, <3>1, <3>2 DEF Throws, Fail, NoCall
  <2>2. /\ ending' \in [Side -> SUBSET Ends]
        /\ live' \in [Side -> SUBSET CallId]
        /\ relay' \subseteq Signals
    <3>1. CASE BeginEnd(s, "op", o.id, FALSE)
      BY <1>a, <1>e, <3>1, BeginEndTypes
    <3>2. CASE UNCHANGED <<live, ending, relay>>
      BY <1>a, <3>2 DEF RunTypes, RelayTypes
    <3>3. QED
      BY <2>0, <3>1, <3>2 DEF Throw, ThrowCall, ThrowAccept
  <2>3. RunTypes' /\ RelayTypes'
    BY <1>a, <2>0, <2>2 DEF RunTypes, RelayTypes, Throw, Done
  <2>4. ScreenTypes'
    <3>1. \/ incoming' = incoming
          \/ /\ o.kind = "accept"
             /\ incoming' = [incoming EXCEPT ![s].at = "failed"]
      BY <2>0 DEF Throw, ThrowCall, ThrowAccept
    <3>2. UNCHANGED calling
      OBVIOUS
    <3>3. QED
      BY <1>a, <1>d, <3>1, <3>2 DEF ScreenTypes, Shown
  <2>5. QED
    BY <2>1, <2>3, <2>4 DEF CallTypes
<1>4. QED
  BY <1>1, <1>2, <1>3

LEMMA SignalledTypes ==
    ASSUME TypeOK, NEW s \in Side, scenario' = scenario,
           \/ Gather(s) \/ ShowIncoming(s) \/ TakeAnswer(s)
           \/ Receive(s) \/ \E m \in relay : Lose(m)
    PROVE  CallTypes'
<1>a. FieldTypes /\ RunTypes /\ ScreenTypes /\ RelayTypes
  BY TypeParts DEF CallTypes
<1>b. CanSend(s) => Signal("ice-candidate", callId[s], key[s], s) \in Signals
  BY SignalTypes DEF SignalType
<1>1. CASE Gather(s)
  <2>1. pc' \in [Side -> Connections \cup {None}]
    <3>1. pc[s] \in Connections
      BY <1>a, <1>1 DEF Gather, FieldTypes
    <3>2. [pc[s] EXCEPT !.gathered = TRUE] \in Connections
      BY <3>1 DEF Connections
    <3>3. pc' = [pc EXCEPT ![s] = [pc[s] EXCEPT !.gathered = TRUE]]
      BY <1>1 DEF Gather
    <3>4. QED
      BY <1>a, <3>2, <3>3 DEF FieldTypes
  <2>2. FieldTypes'
    BY <1>a, <1>1, <2>1 DEF Gather, FieldTypes
  <2>3. RunTypes' /\ ScreenTypes' /\ RelayTypes'
    BY <1>a, <1>b, <1>1 DEF Gather, RunTypes, ScreenTypes, RelayTypes, Send, screens
  <2>4. QED
    BY <2>2, <2>3 DEF CallTypes
<1>2. CASE ShowIncoming(s)
  <2>1. handling[s] \in Signals
    BY <1>a, <1>2 DEF ShowIncoming, RunTypes
  <2>2. FieldTypes' /\ RunTypes' /\ RelayTypes'
    BY <1>a, <1>2 DEF ShowIncoming, FieldTypes, RunTypes, RelayTypes, fields
  <2>3. ScreenTypes'
    BY <1>a, <1>2, <2>1 DEF ShowIncoming, ScreenTypes, Shown, Signals
  <2>4. QED
    BY <2>2, <2>3 DEF CallTypes
<1>3. CASE TakeAnswer(s)
  <2>1. pc' \in [Side -> Connections \cup {None}]
    <3>1. CASE pc[s] = None
      BY <1>a, <1>3, <3>1 DEF TakeAnswer, FieldTypes
    <3>2. CASE pc[s] # None
      <4>1. pc[s] \in Connections /\ candidates[s] \in BOOLEAN
        BY <1>a, <3>2 DEF FieldTypes
      <4>2. [pc[s] EXCEPT !.remote = TRUE, !.added = @ \/ candidates[s]]
                \in Connections
        BY <4>1 DEF Connections
      <4>3. pc' = [pc EXCEPT ![s] = [pc[s] EXCEPT !.remote = TRUE,
                                                  !.added = @ \/ candidates[s]]]
        BY <1>a, <1>3, <3>2 DEF TakeAnswer, FieldTypes
      <4>4. QED
        BY <1>a, <4>2, <4>3 DEF FieldTypes
    <3>3. QED
      BY <3>1, <3>2
  <2>2. FieldTypes'
    BY <1>a, <1>3, <2>1 DEF TakeAnswer, FieldTypes
  <2>3. RunTypes' /\ ScreenTypes' /\ RelayTypes'
    BY <1>a, <1>3 DEF TakeAnswer, RunTypes, ScreenTypes, RelayTypes, screens
  <2>4. QED
    BY <2>2, <2>3 DEF CallTypes
<1>4. ASSUME NEW m \in relay,
             \/ ReceiveOffer(s, m) \/ ReceiveAnswer(s, m)
             \/ ReceiveCandidate(s, m) \/ ReceiveEnd(s, m)
      PROVE  CallTypes'
  <2>a. m \in Signals
    BY <1>a DEF RelayTypes
  <2>1. CASE ReceiveOffer(s, m)
    BY <1>a, <2>a, <2>1 DEF CallTypes, ReceiveOffer, Take, FieldTypes,
       RunTypes, ScreenTypes, RelayTypes, fields, screens
  <2>2. CASE ReceiveAnswer(s, m)
    <3>1. ScreenTypes' /\ FieldTypes'
      BY <1>a, <2>2 DEF ReceiveAnswer, FieldTypes, ScreenTypes, screens
    <3>a. RunTypes'
      BY <1>a, <2>a, <2>2 DEF ReceiveAnswer, RunTypes
    <3>2. Current(s, m) => Signal("ice-candidate", callId[s], key[s], s) \in Signals
      <4>1. Current(s, m) => CanSend(s)
        BY <2>a, CallsAssumption DEF Current, CanSend, Signals
      <4>2. QED
        BY <4>1, SignalTypes DEF SignalType
    <3>3. RelayTypes'
      BY <1>a, <2>2, <3>2 DEF ReceiveAnswer, RelayTypes, Take
    <3>4. QED
      BY <3>1, <3>a, <3>3 DEF CallTypes
  <2>3. CASE ReceiveCandidate(s, m)
    <3>1. pc' \in [Side -> Connections \cup {None}]
      <4>1. CASE pc' = pc
        BY <1>a, <4>1 DEF FieldTypes
      <4>2. CASE pc[s] # None /\ pc' = [pc EXCEPT ![s].added = TRUE]
        <5>1. pc[s] \in Connections
          BY <1>a, <4>2 DEF FieldTypes
        <5>2. [pc[s] EXCEPT !.added = TRUE] \in Connections
          BY <5>1 DEF Connections
        <5>3. QED
          BY <1>a, <4>2, <5>2 DEF FieldTypes
      <4>3. QED
        BY <2>3, <4>1, <4>2 DEF ReceiveCandidate
    <3>2. FieldTypes'
      BY <1>a, <2>3, <3>1 DEF ReceiveCandidate, FieldTypes
    <3>3. RunTypes' /\ ScreenTypes' /\ RelayTypes'
      BY <1>a, <2>3 DEF ReceiveCandidate, Take, RunTypes, ScreenTypes,
         RelayTypes, screens
    <3>4. QED
      BY <3>2, <3>3 DEF CallTypes
  <2>4. CASE ReceiveEnd(s, m)
    <3>1. End(s, "peer", m.id) \in Ends
      BY <1>a, <2>a DEF End, Ends, FieldTypes, Signals
    <3>2. ending' \in [Side -> SUBSET Ends]
      BY <1>a, <2>4, <3>1 DEF ReceiveEnd, RunTypes
    <3>3. QED
      BY <1>a, <2>a, <2>4, <3>2 DEF CallTypes, ReceiveEnd, Take, Stop,
         FieldTypes, RunTypes, ScreenTypes, RelayTypes, fields, screens
  <2>5. QED
    BY <1>4, <2>1, <2>2, <2>3, <2>4
<1>5. ASSUME NEW m \in relay, Lose(m)
      PROVE  CallTypes'
  BY <1>a, <1>5 DEF CallTypes, Lose, FieldTypes, RunTypes, ScreenTypes,
     RelayTypes, fields, screens
<1>6. QED
  BY <1>1, <1>2, <1>3, <1>4, <1>5 DEF Receive

LEMMA HistoryTyped ==
    ASSUME TInv, [Next]_vars
    PROVE  HistoryTypes'
<1>a. HistoryTypes /\ RunTypes
  BY TypeParts DEF TInv, CallTypes
<1>1. ASSUME UNCHANGED history
      PROVE  HistoryTypes'
  BY <1>a, <1>1 DEF history, HistoryTypes
<1>2. ASSUME NEW s \in Side, Call(s) \/ Accept(s)
      PROVE  HistoryTypes'
  <2>1. abandoned' = abandoned /\ rushed' = [rushed EXCEPT ![s] = @ \/ Busy(s)]
    BY <1>2 DEF Call, Accept, Start
  <2>2. (rushed[s] \/ Busy(s)) \in BOOLEAN
    BY <1>a DEF HistoryTypes, Busy
  <2>3. QED
    BY <1>a, <2>1, <2>2 DEF HistoryTypes
<1>3. ASSUME NEW s \in Side, OpStep(s)
      PROVE  HistoryTypes'
  <2>1. PICK o \in ops[s] :
           abandoned' = abandoned
               \/ abandoned' = [abandoned EXCEPT ![s] = @ \cup {o.id}]
    BY <1>3 DEF OpStep, Claim, SetKey, Capture, CreatePc, TakeOffer,
       SendDescription, Fail, NoStream, NoCall, Throw, ThrowCall, ThrowAccept,
       aside
  <2>2. o.id \in CallId
    BY <1>a DEF RunTypes, Ops
  <2>3. QED
    BY <1>a, <1>3, <2>1, <2>2 DEF OpStep, HistoryTypes
<1>4. CASE UNCHANGED vars
  BY <1>1, <1>4 DEF vars
<1>5. ASSUME NEW s \in Side,
             \/ Decline(s) \/ PressEnd(s) \/ RingTimeout(s)
             \/ \E e \in ending[s] : FinishEnd(s, e)
             \/ Gather(s) \/ Receive(s) \/ ShowIncoming(s) \/ TakeAnswer(s)
      PROVE  UNCHANGED history
  BY <1>5 DEF Decline, PressEnd, RingTimeout, FinishEnd, Gather, Receive,
     ReceiveOffer, ReceiveAnswer, ReceiveCandidate, ReceiveEnd, ShowIncoming,
     TakeAnswer
<1>6. ASSUME NEW m \in relay, Lose(m)
      PROVE  UNCHANGED history
  BY <1>6 DEF Lose
<1>7. QED
  BY <1>1, <1>2, <1>3, <1>4, <1>5, <1>6 DEF Next

LEMMA TypesKept ==
    ASSUME TInv, [Next]_vars
    PROVE  TypeOK'
<1>1. CASE UNCHANGED vars
  <2>1. FieldTypes /\ RunTypes /\ ScreenTypes /\ RelayTypes
    BY TypeParts DEF TInv, CallTypes
  <2>2. CallTypes'
    BY <1>1, <2>1 DEF vars, fields, screens, CallTypes, FieldTypes,
       RunTypes, ScreenTypes, RelayTypes
  <2>3. QED
    BY <2>2, HistoryTyped, TypePartsNext
<1>2. ASSUME NEW s \in Side, scenario' = scenario,
             Call(s) \/ Accept(s) \/ Decline(s) \/ PressEnd(s) \/ RingTimeout(s)
      PROVE  CallTypes'
  BY <1>2, UserTypes DEF TInv
<1>3. ASSUME NEW s \in Side, scenario' = scenario, OpStep(s)
      PROVE  CallTypes'
  <2>1. UNCHANGED <<scenario, drawn, handling, calling, lost, rushed>>
    BY <1>3 DEF OpStep
  <2>2. PICK o \in ops[s] :
           \/ Claim(s, o) \/ SetKey(s, o) \/ Capture(s, o) \/ CreatePc(s, o)
           \/ TakeOffer(s, o) \/ SendDescription(s, o) \/ Throws(s, o)
    BY <1>3 DEF OpStep, Throws
  <2>3. QED
    BY <2>1, <2>2, OpTypes
<1>4. ASSUME NEW s \in Side, scenario' = scenario,
             \E e \in ending[s] : FinishEnd(s, e)
      PROVE  CallTypes'
  BY <1>4, FinishEndTypes DEF TInv
<1>5. ASSUME NEW s \in Side, scenario' = scenario,
             Gather(s) \/ Receive(s) \/ ShowIncoming(s) \/ TakeAnswer(s)
      PROVE  CallTypes'
  BY <1>5, SignalledTypes DEF TInv
<1>6. ASSUME scenario' = scenario, \E m \in relay : Lose(m)
      PROVE  CallTypes'
  <2>1. \E s : s \in Side
    BY CallsAssumption, FS_EmptySet
  <2>2. QED
    BY <1>6, <2>1, SignalledTypes DEF TInv
<1>7. QED
  BY <1>1, <1>2, <1>3, <1>4, <1>5, <1>6, HistoryTyped, TypePartsNext DEF Next

LEMMA AcceptsShownKept ==
    ASSUME TInv, [Next]_vars
    PROVE  AcceptsShown'
<1>a. RunTypes /\ ScreenTypes /\ AcceptsShown
  BY TypeParts DEF CallTypes, TInv
<1>1. CASE UNCHANGED vars
  BY <1>a, <1>1 DEF vars, screens, AcceptsShown
<1>2. ASSUME NEW s \in Side, Call(s)
      PROVE  AcceptsShown'
  <2>1. incoming' = incoming
    BY <1>2 DEF Call
  <2>2. \A t \in Side : \A o \in ops'[t] : o.kind = "accept" => o \in ops[t]
    <3>1. \/ ops' = ops
          \/ \E c : ops' = [ops EXCEPT ![s] = @ \cup {Op("call", c)}]
      BY <1>2 DEF Call
    <3>2. QED
      BY <1>a, <3>1 DEF Op, RunTypes
  <2>3. QED
    BY <1>a, <2>1, <2>2 DEF AcceptsShown
<1>3. ASSUME NEW s \in Side, Accept(s)
      PROVE  AcceptsShown'
  <2>1. incoming[s] \in Shown /\ incoming[s].at = "dialog"
    BY <1>a, <1>3 DEF Accept, Shows, ScreenTypes
  <2>2. \A o \in ops[s] : o.kind # "accept"
    BY <1>a, <2>1 DEF AcceptsShown
  <2>3. \A t \in Side : t # s => ops'[t] = ops[t] /\ incoming'[t] = incoming[t]
    BY <1>a, <1>3 DEF Accept, RunTypes, ScreenTypes
  <2>4. \/ ops'[s] = ops[s]
        \/ /\ ops'[s] = ops[s] \cup {Op("accept", incoming[s].id)}
           /\ incoming'[s] = [incoming[s] EXCEPT !.at = "accepting"]
    BY <1>a, <1>3 DEF Accept, RunTypes, ScreenTypes
  <2>5. LET i == [incoming[s] EXCEPT !.at = "accepting"] IN
        i # None /\ i.at = "accepting" /\ i.id = incoming[s].id
    BY <2>1, CallsAssumption DEF Shown
  <2>6. \A o \in ops'[s] : o.kind = "accept" =>
           /\ incoming'[s] # None
           /\ incoming'[s].at = "accepting"
           /\ incoming'[s].id = o.id
           /\ \A q \in ops'[s] : q.kind = "accept" => q = o
    <3>1. SUFFICES ASSUME NEW o \in ops'[s], o.kind = "accept"
                   PROVE  /\ incoming'[s] # None
                          /\ incoming'[s].at = "accepting"
                          /\ incoming'[s].id = o.id
                          /\ \A q \in ops'[s] : q.kind = "accept" => q = o
      OBVIOUS
    <3>2. /\ ops'[s] = ops[s] \cup {Op("accept", incoming[s].id)}
          /\ incoming'[s] = [incoming[s] EXCEPT !.at = "accepting"]
      BY <2>2, <2>4, <3>1
    <3>3. \A q \in ops'[s] :
             q.kind = "accept" => q = Op("accept", incoming[s].id)
      BY <2>2, <3>2
    <3>4. o.id = incoming[s].id
      BY <3>1, <3>3 DEF Op
    <3>5. QED
      BY <2>5, <3>1, <3>2, <3>3, <3>4
  <2>7. QED
    BY <1>a, <2>3, <2>6 DEF AcceptsShown
<1>4. ASSUME NEW s \in Side,
             \/ Decline(s) \/ \E e \in ending[s] : FinishEnd(s, e)
             \/ ShowIncoming(s)
      PROVE  AcceptsShown'
  <2>1. ops' = ops
    BY <1>4 DEF Decline, FinishEnd, ShowIncoming
  <2>2. \A t \in Side : t # s => incoming'[t] = incoming[t]
    BY <1>a, <1>4 DEF Decline, FinishEnd, ShowIncoming, PopScreen,
       ScreenTypes, screens
  <2>3. incoming[s] # None /\ incoming[s].at = "accepting" =>
          incoming'[s] = incoming[s]
    BY <1>a, <1>4 DEF Decline, FinishEnd, ShowIncoming, PopScreen, Shows,
       ScreenTypes, screens
  <2>4. QED
    BY <1>a, <2>1, <2>2, <2>3 DEF AcceptsShown
<1>5. ASSUME NEW s \in Side,
             \/ PressEnd(s) \/ RingTimeout(s) \/ Gather(s) \/ Receive(s)
             \/ TakeAnswer(s) \/ \E m \in relay : Lose(m)
      PROVE  AcceptsShown'
  <2>1. ops' = ops /\ incoming' = incoming
    BY <1>5 DEF PressEnd, RingTimeout, Gather, Receive, ReceiveOffer,
       ReceiveAnswer, ReceiveCandidate, ReceiveEnd, TakeAnswer, Lose, screens
  <2>2. QED
    BY <1>a, <2>1 DEF AcceptsShown
<1>6. ASSUME NEW s \in Side, NEW o \in ops[s],
             \/ Claim(s, o) \/ SetKey(s, o) \/ Capture(s, o) \/ CreatePc(s, o)
             \/ TakeOffer(s, o)
      PROVE  AcceptsShown'
  <2>1. incoming' = incoming
    BY <1>6 DEF Claim, SetKey, Capture, CreatePc, TakeOffer, aside
  <2>2. PICK at : Move(s, o, at)
    BY <1>6 DEF Claim, SetKey, Capture, CreatePc, TakeOffer
  <2>3. \A t \in Side : t # s => ops'[t] = ops[t]
    BY <1>a, <2>2 DEF Move, RunTypes
  <2>4. PICK n : /\ n.kind = o.kind /\ n.id = o.id
                 /\ ops'[s] = (ops[s] \ {o}) \cup {n}
    <3>1. o \in Ops
      BY <1>a DEF RunTypes
    <3>2. LET n == [o EXCEPT !.at = at] IN n.kind = o.kind /\ n.id = o.id
      BY <3>1 DEF Ops
    <3>3. QED
      BY <1>a, <2>2, <3>2 DEF Move, RunTypes
  <2>5. QED
    BY <1>a, <2>1, <2>3, <2>4 DEF AcceptsShown
<1>7. ASSUME NEW s \in Side, NEW o \in ops[s],
             SendDescription(s, o) \/ Throws(s, o)
      PROVE  AcceptsShown'
  <2>a. Done(s, o)
    BY <1>7 DEF SendDescription, Throws, Fail, NoStream, NoCall, Throw
  <2>b. \/ incoming' = incoming
        \/ /\ o.kind = "accept"
           /\ \E at : incoming' = [incoming EXCEPT ![s].at = at]
    BY <1>7 DEF SendDescription, Throws, Fail, NoStream, NoCall, Throw,
       ThrowCall, ThrowAccept
  <2>1. \A t \in Side : t # s => ops'[t] = ops[t] /\ incoming'[t] = incoming[t]
    BY <1>a, <2>a, <2>b DEF Done, RunTypes, ScreenTypes
  <2>2. ops'[s] = ops[s] \ {o}
    BY <1>a, <2>a DEF Done, RunTypes
  <2>3. o.kind # "accept" => incoming'[s] = incoming[s]
    BY <2>b
  <2>4. QED
    BY <1>a, <2>1, <2>2, <2>3 DEF AcceptsShown
<1>8. \E s : s \in Side
  BY CallsAssumption, FS_EmptySet
<1>9. QED
  BY <1>1, <1>2, <1>3, <1>4, <1>5, <1>6, <1>7, <1>8 DEF Next, OpStep, Throws

\* The type invariant of the runs: fields, operations, screens and signals of
\* both devices stay well formed, whatever users and network do.  The screen
\* that accept() reports to is there until it has done so, although end()
\* pops screens and offers arrive meanwhile (AcceptsShown).
THEOREM TypeCorrect == Spec => []TypeOK
<1>1. Init => TInv
  BY InitTypes
<1>2. TInv /\ [Next]_vars => TInv'
  BY TypesKept, AcceptsShownKept DEF TInv
<1>3. TInv => TypeOK
  BY DEF TInv
<1>4. QED
  BY <1>1, <1>2, <1>3, PTL DEF Spec

-----------------------------------------------------------------------------
\* One device at a time

LEMMA OrderlyBefore ==
    ASSUME TInv, [Next]_vars, NEW s \in Side, Orderly(s)'
    PROVE  Orderly(s)
<1>a. HistoryTypes
  BY TypeParts DEF TInv
<1>1. UNCHANGED history => Orderly(s)
  BY DEF history, Orderly
<1>2. ASSUME NEW t \in Side, Call(t) \/ Accept(t)
      PROVE  Orderly(s)
  <2>1. abandoned' = abandoned /\ rushed' = [rushed EXCEPT ![t] = @ \/ Busy(t)]
    BY <1>2 DEF Call, Accept, Start
  <2>2. rushed[s] => rushed'[s]
    BY <1>a, <2>1 DEF HistoryTypes
  <2>3. QED
    BY <2>1, <2>2 DEF Orderly
<1>3. ASSUME NEW t \in Side, OpStep(t)
      PROVE  Orderly(s)
  <2>1. PICK o \in ops[t] :
           abandoned' = abandoned
               \/ abandoned' = [abandoned EXCEPT ![t] = @ \cup {o.id}]
    BY <1>3 DEF OpStep, Claim, SetKey, Capture, CreatePc, TakeOffer,
       SendDescription, Fail, NoStream, NoCall, Throw, ThrowCall, ThrowAccept,
       aside
  <2>2. abandoned[s] \subseteq abandoned'[s] /\ rushed' = rushed
    BY <1>a, <1>3, <2>1 DEF OpStep, HistoryTypes
  <2>3. QED
    BY <2>2 DEF Orderly
<1>4. ASSUME NEW t \in Side,
             \/ Decline(t) \/ PressEnd(t) \/ RingTimeout(t)
             \/ \E e \in ending[t] : FinishEnd(t, e)
             \/ Gather(t) \/ Receive(t) \/ ShowIncoming(t) \/ TakeAnswer(t)
      PROVE  UNCHANGED history
  BY <1>4 DEF Decline, PressEnd, RingTimeout, FinishEnd, Gather, Receive,
     ReceiveOffer, ReceiveAnswer, ReceiveCandidate, ReceiveEnd, ShowIncoming,
     TakeAnswer
<1>5. ASSUME NEW m \in relay, Lose(m)
      PROVE  UNCHANGED history
  BY <1>5 DEF Lose
<1>6. UNCHANGED vars => UNCHANGED history
  BY DEF vars
<1>7. QED
  BY <1>1, <1>2, <1>3, <1>4, <1>5, <1>6 DEF Next

LEMMA InitDevice == Init => \A s \in Side : DeviceOK(s)
BY DEF Init, DeviceOK, FieldsFit, EndsFit, Rests, Released

LEMMA MoveFacts ==
    ASSUME RunTypes, NEW s \in Side, NEW o \in ops[s],
           \A q, r \in ops[s] : q = r,
           NEW at \in {"peer", "key", "media", "pc", "offer", "send"},
           Move(s, o, at)
    PROVE  \E n \in Ops : /\ n.kind = o.kind /\ n.id = o.id /\ n.at = at
                          /\ ops'[s] = {n}
<1>1. o \in Ops /\ ops[s] = {o}
  BY DEF RunTypes
<1>2. LET n == [o EXCEPT !.at = at] IN
      n \in Ops /\ n.kind = o.kind /\ n.id = o.id /\ n.at = at
  BY <1>1 DEF Ops
<1>3. ops'[s] = {[o EXCEPT !.at = at]}
  BY <1>1 DEF Move, RunTypes
<1>4. QED
  BY <1>2, <1>3

\* What starts end(), and most signals, only close tracks and stop timers.
SettingDown(s) ==
    /\ callId'[s] = callId[s]
    /\ key'[s] = key[s]
    /\ answered'[s] = answered[s]
    /\ outbox'[s] = outbox[s]
    /\ ready'[s] = ready[s]
    /\ candidates'[s] = candidates[s]
    /\ local'[s] = local[s]
    /\ pc'[s] = pc[s]
    /\ timer'[s] = timer[s] \/ ~timer'[s]
    /\ live'[s] \subseteq live[s]
    /\ ops'[s] = ops[s]
    /\ ending[s] \subseteq ending'[s]
    /\ \A e \in ending'[s] : e \in ending[s] \/ e.stream = local[s]

LEMMA SettingDownOK ==
    ASSUME NEW s \in Side, DeviceOK(s), SettingDown(s)
    PROVE  DeviceOK(s)'
<1>1. Released(s) => Released(s)'
  BY DEF SettingDown, Released
<1>2. \A o \in ops'[s] : AtAwait(s, o)'
  BY <1>1 DEF DeviceOK, AtAwait, SettingDown
<1>3. FieldsFit(s)' /\ Rests(s)'
  BY <1>1 DEF DeviceOK, FieldsFit, Rests, SettingDown
<1>4. EndsFit(s)'
  <2>1. local[s] # None => \A o \in ops[s] : o.at \notin {"peer", "key", "media"}
    BY DEF DeviceOK, AtAwait, Released
  <2>2. QED
    BY <2>1 DEF DeviceOK, EndsFit, SettingDown
<1>5. QED
  BY <1>2, <1>3, <1>4 DEF DeviceOK, SettingDown

LEMMA BeginEndFacts ==
    ASSUME RunTypes, NEW s \in Side, NEW by, NEW c, NEW notify,
           BeginEnd(s, by, c, notify)
    PROVE  /\ \A t \in Side : t # s => /\ live'[t] = live[t]
                                       /\ ending'[t] = ending[t]
           /\ live'[s] \subseteq live[s]
           /\ ending[s] \subseteq ending'[s]
           /\ \A e \in ending'[s] : e \in ending[s] \/ e.stream = local[s]
           /\ \E e \in ending'[s] : e.by = by
<1>1. /\ \A t \in Side : t # s => /\ live'[t] = live[t]
                                  /\ ending'[t] = ending[t]
      /\ live'[s] \subseteq live[s]
      /\ ending'[s] = ending[s] \cup {End(s, by, c)}
  BY DEF BeginEnd, Stop, RunTypes
<1>2. End(s, by, c).by = by /\ End(s, by, c).stream = local[s]
  BY DEF End
<1>3. QED
  BY <1>1, <1>2

LEMMA UserDevice ==
    ASSUME TInv, NEW s \in Side,
           Call(s) \/ Accept(s) \/ Decline(s) \/ PressEnd(s) \/ RingTimeout(s)
    PROVE  /\ Orderly(s)' /\ DeviceOK(s) => DeviceOK(s)'
           /\ \A t \in Side : t # s => SettingDown(t)
<1>a. FieldTypes /\ RunTypes /\ HistoryTypes
  BY TypeParts DEF CallTypes, TInv
<1>b. UNCHANGED <<live, ending>> \/ \E by, c, notify : BeginEnd(s, by, c, notify)
  <2>1. CASE Call(s)
    BY <2>1 DEF Call
  <2>2. CASE Accept(s)
    BY <2>2 DEF Accept
  <2>3. CASE Decline(s)
    BY <2>3 DEF Decline
  <2>4. CASE PressEnd(s) \/ RingTimeout(s)
    BY <2>4 DEF PressEnd, RingTimeout
  <2>5. QED
    BY <2>1, <2>2, <2>3, <2>4
<1>c. /\ \A t \in Side : t # s => live'[t] = live[t] /\ ending'[t] = ending[t]
      /\ live'[s] \subseteq live[s]
      /\ ending[s] \subseteq ending'[s]
      /\ \A e \in ending'[s] : e \in ending[s] \/ e.stream = local[s]
  BY <1>a, <1>b, BeginEndFacts
<1>1. \A t \in Side : t # s => SettingDown(t)
  <2>1. \A t \in Side : t # s => ops'[t] = ops[t] /\ timer'[t] = timer[t]
    BY <1>a DEF Call, Accept, Decline, PressEnd, RingTimeout, fields,
       RunTypes, FieldTypes
  <2>2. UNCHANGED <<callId, key, answered, outbox, ready, candidates, local, pc>>
    BY DEF Call, Accept, Decline, PressEnd, RingTimeout, fields
  <2>3. QED
    BY <1>c, <2>1, <2>2 DEF SettingDown
<1>2. CASE Decline(s) \/ PressEnd(s) \/ RingTimeout(s)
  <2>1. SettingDown(s)
    BY <1>a, <1>c, <1>2 DEF Decline, PressEnd, RingTimeout, fields,
       RunTypes, FieldTypes, SettingDown
  <2>2. QED
    BY <1>1, <2>1, SettingDownOK
<1>3. CASE Call(s) \/ Accept(s)
  <2>a. SUFFICES ASSUME Orderly(s)', DeviceOK(s)
                 PROVE  DeviceOK(s)'
    BY <1>1
  <2>1. ops[s] = {} /\ ending[s] = {}
    <3>1. rushed' = [rushed EXCEPT ![s] = @ \/ Busy(s)] /\ ~rushed'[s]
      BY <1>3, <2>a DEF Call, Accept, Start, Orderly
    <3>2. ~Busy(s)
      BY <1>a, <3>1 DEF HistoryTypes
    <3>3. QED
      BY <3>2 DEF Busy
  <2>2. UNCHANGED fields
    BY <1>3 DEF Call, Accept
  <2>3. CASE callId[s] = None /\ live' = live /\ ending' = ending
    <3>1. Released(s)'
      BY <2>a, <2>1, <2>2, <2>3 DEF DeviceOK, Rests, Released, fields
    <3>2. \E n : ops'[s] = {n} /\ n.at = "peer"
      <4>1. \E kind, c : ops' = [ops EXCEPT ![s] = @ \cup {Op(kind, c)}]
        <5>1. CASE Call(s)
          <6>1. PICK c : ops' = [ops EXCEPT ![s] = @ \cup {Op("call", c)}]
            BY <5>1, <2>3 DEF Call
          <6>2. QED
            BY <6>1
        <5>2. CASE Accept(s)
          <6>1. ops' = [ops EXCEPT ![s] = @ \cup {Op("accept", incoming[s].id)}]
            BY <5>2, <2>3 DEF Accept
          <6>2. QED
            BY <6>1
        <5>3. QED
          BY <1>3, <5>1, <5>2
      <4>2. PICK kind, c : ops' = [ops EXCEPT ![s] = @ \cup {Op(kind, c)}]
        BY <4>1
      <4>3. ops'[s] = {Op(kind, c)}
        BY <1>a, <2>1, <4>2 DEF RunTypes
      <4>4. Op(kind, c).at = "peer"
        BY DEF Op
      <4>5. QED
        BY <4>3, <4>4
    <3>3. callId'[s] = None /\ ending'[s] = {}
      BY <2>1, <2>2, <2>3 DEF fields
    <3>4. QED
      BY <3>1, <3>2, <3>3 DEF DeviceOK, AtAwait, FieldsFit, EndsFit, Rests, Released
  <2>4. CASE callId[s] # None
    <3>1. ops' = ops
      BY <1>3, <2>4 DEF Call, Accept
    <3>2. SettingDown(s)
      BY <1>c, <2>2, <3>1 DEF fields, SettingDown
    <3>3. QED
      BY <2>a, <3>2, SettingDownOK
  <2>5. QED
    BY <1>3, <2>3, <2>4 DEF Call, Accept
<1>4. QED
  BY <1>2, <1>3

LEMMA FinishEndDevice ==
    ASSUME TInv, NEW s \in Side, NEW e \in ending[s], FinishEnd(s, e)
    PROVE  /\ Orderly(s)' /\ DeviceOK(s) => DeviceOK(s)'
           /\ \A t \in Side : t # s => SettingDown(t)
<1>a. FieldTypes /\ RunTypes
  BY TypeParts DEF CallTypes, TInv
<1>1. \A t \in Side : t # s => SettingDown(t)
  BY <1>a DEF FinishEnd, Stop, Reset, RunTypes, FieldTypes, SettingDown
<1>2. SUFFICES ASSUME DeviceOK(s)
               PROVE  DeviceOK(s)'
  BY <1>1
<1>3. ops' = ops /\ ending'[s] \subseteq ending[s]
  BY <1>a DEF FinishEnd, RunTypes
<1>4. live'[s] = {}
  <2>1. CASE Stop(s)
    BY <1>a, <1>2, <2>1 DEF Stop, RunTypes, DeviceOK, FieldsFit
  <2>2. CASE e.stream # None /\ local[s] # e.stream /\ UNCHANGED live
    <3>1. local[s] = None
      BY <1>2, <2>2 DEF DeviceOK, EndsFit
    <3>2. QED
      BY <1>a, <1>2, <2>2, <3>1, CallsAssumption DEF DeviceOK, FieldsFit, RunTypes
  <2>3. QED
    BY <2>1, <2>2 DEF FinishEnd
<1>5. Released(s)' /\ callId'[s] = None
  BY <1>a, <1>4 DEF FinishEnd, Reset, FieldTypes, Released
<1>6. \A q \in ops[s] : AtAwait(s, q)'
  BY <1>2, <1>3, <1>5 DEF DeviceOK, AtAwait, Released
<1>7. EndsFit(s)'
  BY <1>2, <1>3, <1>5 DEF DeviceOK, EndsFit, Released
<1>8. FieldsFit(s)' /\ Rests(s)'
  BY <1>5 DEF FieldsFit, Rests, Released
<1>9. QED
  BY <1>2, <1>3, <1>6, <1>7, <1>8 DEF DeviceOK

LEMMA ThrowFacts ==
    ASSUME RunTypes, HistoryTypes, NEW s \in Side, NEW o \in ops[s], Throws(s, o)
    PROVE  /\ UNCHANGED fields \/ NoStream(s, o)
           /\ ops' = [ops EXCEPT ![s] = @ \ {o}]
           /\ \A t \in Side : t # s => /\ live'[t] = live[t]
                                       /\ ending'[t] = ending[t]
           /\ live'[s] \subseteq live[s]
           /\ ending[s] \subseteq ending'[s]
           /\ \A e \in ending'[s] : e \in ending[s] \/ e.stream = local[s]
           /\ abandoned'[s] = {} => \E e \in ending'[s] : e.by = "op"
           /\ relay' = relay
           /\ \/ incoming' = incoming
              \/ /\ o.kind = "accept"
                 /\ incoming' = [incoming EXCEPT ![s].at = "failed"]
<1>1. Throw(s, o) /\ (UNCHANGED fields \/ NoStream(s, o))
  BY DEF Throws, Fail, NoStream, NoCall
<1>2. CASE BeginEnd(s, "op", o.id, FALSE)
  <2>1. relay' = relay
    BY <1>2 DEF BeginEnd
  <2>2. QED
    BY <1>1, <1>2, <2>1, BeginEndFacts
       DEF Throw, ThrowCall, ThrowAccept, Done
<1>3. CASE /\ abandoned' = [abandoned EXCEPT ![s] = @ \cup {o.id}]
           /\ UNCHANGED <<live, ending, relay, incoming>>
  <2>1. abandoned'[s] # {}
    BY <1>3 DEF HistoryTypes
  <2>2. QED
    BY <1>1, <1>3, <2>1 DEF Throw, Done
<1>4. QED
  BY <1>1, <1>2, <1>3 DEF Throw, ThrowCall, ThrowAccept

LEMMA OpDevice ==
    ASSUME TInv, NEW s \in Side, NEW o \in ops[s],
           \/ Claim(s, o) \/ SetKey(s, o) \/ Capture(s, o) \/ CreatePc(s, o)
           \/ TakeOffer(s, o) \/ SendDescription(s, o) \/ Throws(s, o)
    PROVE  /\ Orderly(s)' /\ DeviceOK(s) => DeviceOK(s)'
           /\ \A t \in Side : t # s => SettingDown(t)
<1>a. FieldTypes /\ RunTypes /\ HistoryTypes
  BY TypeParts DEF CallTypes, TInv
<1>1. \A t \in Side : t # s => SettingDown(t)
  <2>1. CASE Throws(s, o)
    <3>1. \A t \in Side : t # s => pc'[t] = pc[t]
      BY <1>a, <2>1, ThrowFacts DEF fields, NoStream, FieldTypes
    <3>2. UNCHANGED <<callId, key, answered, outbox, ready, candidates,
                      local, timer>>
      BY <1>a, <2>1, ThrowFacts DEF fields, NoStream
    <3>3. QED
      BY <1>a, <2>1, <3>1, <3>2, ThrowFacts DEF RunTypes, SettingDown
  <2>2. CASE \/ Claim(s, o) \/ SetKey(s, o) \/ Capture(s, o) \/ CreatePc(s, o)
             \/ TakeOffer(s, o) \/ SendDescription(s, o)
    BY <1>a, <2>2 DEF Claim, SetKey, Capture, CreatePc, TakeOffer,
       SendDescription, Move, Done, aside, RunTypes, FieldTypes, SettingDown
  <2>3. QED
    BY <2>1, <2>2
<1>f. SUFFICES ASSUME Orderly(s)', DeviceOK(s)
               PROVE  DeviceOK(s)'
  BY <1>1
<1>b. /\ o \in Ops /\ ops[s] = {o} /\ AtAwait(s, o) /\ FieldsFit(s)
      /\ EndsFit(s)
  BY <1>a, <1>f DEF RunTypes, DeviceOK
<1>c. o.id # None /\ o.id \in CallId
  BY <1>b, CallsAssumption DEF Ops
\* No end() that found a stream runs while the operation is before Capture.
<1>d. o.at \in {"peer", "key", "media"} => \A e \in ending[s] : e.stream = None
  BY <1>b DEF EndsFit
<1>2. CASE Claim(s, o)
  <2>1. PICK n : n.id = o.id /\ n.at = "key" /\ ops'[s] = {n}
    BY <1>a, <1>f, <1>2, MoveFacts DEF Claim, DeviceOK
  <2>2. callId'[s] = o.id /\ key'[s] = None
    BY <1>a, <1>b, <1>2 DEF Claim, FieldTypes, AtAwait, Released
  <2>3. /\ local'[s] = None /\ pc'[s] = None /\ ~ready'[s]
        /\ live'[s] = {}
    BY <1>a, <1>b, <1>2 DEF Claim, AtAwait, Released
  <2>4. EndsFit(s)'
    BY <1>d, <1>2 DEF Claim, aside, EndsFit
  <2>5. QED
    BY <1>c, <2>1, <2>2, <2>3, <2>4 DEF DeviceOK, AtAwait, FieldsFit, Rests
<1>3. CASE SetKey(s, o)
  <2>1. PICK n : n.id = o.id /\ n.at = "media" /\ ops'[s] = {n}
    BY <1>a, <1>f, <1>3, MoveFacts DEF SetKey, DeviceOK
  <2>2. key'[s] = o.id /\ UNCHANGED <<callId, local, pc, ready, live>>
    BY <1>a, <1>3 DEF SetKey, FieldTypes
  <2>3. local[s] = None /\ pc[s] = None /\ ~ready[s]
    BY <1>b, <1>3 DEF SetKey, AtAwait
  <2>4. EndsFit(s)'
    BY <1>d, <1>3 DEF SetKey, aside, EndsFit
  <2>5. QED
    BY <1>b, <2>1, <2>2, <2>3, <2>4 DEF DeviceOK, AtAwait, FieldsFit, Rests
<1>4. CASE Capture(s, o)
  <2>1. PICK n : n.id = o.id /\ n.at = "pc" /\ ops'[s] = {n}
    BY <1>a, <1>f, <1>4, MoveFacts DEF Capture, DeviceOK
  <2>2. local[s] = None /\ pc[s] = None /\ ~ready[s] /\ o.at = "media"
    BY <1>b, <1>4 DEF Capture, AtAwait
  <2>3. local'[s] = o.id /\ UNCHANGED <<callId, key, pc, ready>>
    BY <1>a, <1>4 DEF Capture, FieldTypes
  <2>4. live[s] = {}
    BY <1>a, <1>b, <2>2, CallsAssumption DEF FieldsFit, RunTypes
  <2>5. live'[s] = {o.id}
    BY <1>a, <1>4, <2>4 DEF Capture, RunTypes
  <2>6. EndsFit(s)'
    BY <1>d, <1>4, <2>2 DEF Capture, aside, EndsFit
  <2>7. QED
    BY <1>b, <2>1, <2>2, <2>3, <2>5, <2>6 DEF DeviceOK, AtAwait, FieldsFit, Rests
<1>5. CASE CreatePc(s, o)
  <2>1. PICK n : /\ n.id = o.id /\ n.at \in {"send", "offer"} /\ ops'[s] = {n}
    BY <1>a, <1>f, <1>5, MoveFacts DEF CreatePc, DeviceOK
  <2>2. UNCHANGED <<callId, key, local, live, ready>> /\ ~ready[s] /\ o.at = "pc"
    BY <1>b, <1>5 DEF CreatePc, AtAwait
  <2>3. EndsFit(s)'
    BY <1>b, <1>5, <2>1, <2>2 DEF CreatePc, aside, EndsFit
  <2>4. QED
    BY <1>b, <2>1, <2>2, <2>3 DEF DeviceOK, AtAwait, FieldsFit, Rests
<1>6. CASE TakeOffer(s, o)
  <2>1. PICK n : n.id = o.id /\ n.at = "send" /\ ops'[s] = {n}
    BY <1>a, <1>f, <1>6, MoveFacts DEF TakeOffer, DeviceOK
  <2>2. UNCHANGED <<callId, key, local, live>> /\ o.at = "offer"
    BY <1>6 DEF TakeOffer
  <2>3. pc[s] # None /\ pc'[s] # None /\ pc'[s].remote
    <3>1. pc[s] \in Connections /\ candidates[s] \in BOOLEAN
      BY <1>a, <1>6 DEF TakeOffer, FieldTypes
    <3>2. LET r == [pc[s] EXCEPT !.remote = TRUE, !.local = TRUE,
                                 !.added = @ \/ candidates[s]] IN
          r \in Connections /\ r.remote
      BY <3>1 DEF Connections
    <3>3. pc'[s] = [pc[s] EXCEPT !.remote = TRUE, !.local = TRUE,
                                 !.added = @ \/ candidates[s]]
      BY <1>a, <1>6 DEF TakeOffer, FieldTypes
    <3>4. QED
      BY <1>6, <3>2, <3>3, CallsAssumption DEF TakeOffer, Connections
  <2>4. EndsFit(s)'
    BY <1>b, <1>6, <2>1, <2>2 DEF TakeOffer, aside, EndsFit
  <2>5. QED
    BY <1>b, <2>1, <2>2, <2>3, <2>4 DEF DeviceOK, AtAwait, FieldsFit, Rests
<1>7. CASE SendDescription(s, o)
  <2>1. ops'[s] = {} /\ callId[s] # None
    BY <1>a, <1>b, <1>7 DEF SendDescription, Done, RunTypes, CanSend
  <2>2. UNCHANGED <<callId, key, local, live, pc, ready, ending>>
    BY <1>7 DEF SendDescription
  <2>3. QED
    BY <1>b, <2>1, <2>2 DEF DeviceOK, FieldsFit, EndsFit, Rests
<1>8. CASE Throws(s, o)
  <2>1. /\ ops'[s] = {}
        /\ live'[s] \subseteq live[s]
        /\ \E e \in ending'[s] : e.by = "op"
        /\ \A e \in ending'[s] : e \in ending[s] \/ e.stream = local[s]
    BY <1>a, <1>b, <1>f, <1>8, ThrowFacts DEF RunTypes, Orderly
  <2>2. UNCHANGED <<callId, key, local, ready>>
    BY <1>a, <1>8, ThrowFacts DEF fields, NoStream
  <2>3. /\ ready[s] => pc'[s] # None /\ pc'[s].remote
        /\ callId[s] # None => key[s] \in {None, callId[s]}
        /\ pc'[s] # None /\ callId[s] # None => key[s] = callId[s]
    <3>1. CASE UNCHANGED fields
      BY <1>b, <3>1 DEF FieldsFit, fields
    <3>2. CASE NoStream(s, o)
      BY <1>b, <3>2 DEF FieldsFit, AtAwait, NoStream
    <3>3. QED
      BY <1>a, <1>8, <3>1, <3>2, ThrowFacts
  <2>4. FieldsFit(s)'
    BY <1>b, <2>1, <2>2, <2>3 DEF FieldsFit
  <2>5. EndsFit(s)'
    BY <1>b, <2>1, <2>2 DEF EndsFit
  <2>6. QED
    BY <2>1, <2>4, <2>5 DEF DeviceOK, Rests
<1>9. QED
  BY <1>2, <1>3, <1>4, <1>5, <1>6, <1>7, <1>8

LEMMA SignalDevice ==
    ASSUME TInv, NEW s \in Side,
           \/ Gather(s) \/ ShowIncoming(s) \/ TakeAnswer(s)
           \/ Receive(s) \/ \E m \in relay : Lose(m)
    PROVE  /\ DeviceOK(s) => DeviceOK(s)'
           /\ \A t \in Side : t # s => SettingDown(t)
<1>a. FieldTypes /\ RunTypes /\ RelayTypes
  BY TypeParts DEF CallTypes, TInv
<1>1. \A t \in Side : t # s => SettingDown(t)
  <2>1. CASE ShowIncoming(s) \/ \E m \in relay : Lose(m)
    BY <2>1 DEF ShowIncoming, Lose, fields, SettingDown
  <2>2. CASE Gather(s) \/ TakeAnswer(s)
    BY <1>a, <2>2 DEF Gather, TakeAnswer, FieldTypes, SettingDown
  <2>3. CASE Receive(s)
    <3>1. PICK m : \/ ReceiveOffer(s, m) \/ ReceiveAnswer(s, m)
                   \/ ReceiveCandidate(s, m) \/ ReceiveEnd(s, m)
      BY <2>3 DEF Receive
    <3>2. CASE ReceiveOffer(s, m)
      BY <3>2 DEF ReceiveOffer, fields, SettingDown
    <3>3. CASE ReceiveAnswer(s, m)
      BY <1>a, <3>3 DEF ReceiveAnswer, FieldTypes, SettingDown
    <3>4. CASE ReceiveCandidate(s, m)
      BY <1>a, <3>4 DEF ReceiveCandidate, FieldTypes, SettingDown
    <3>5. CASE ReceiveEnd(s, m)
      BY <1>a, <3>5 DEF ReceiveEnd, Stop, fields, RunTypes, SettingDown
    <3>6. QED
      BY <3>1, <3>2, <3>3, <3>4, <3>5
  <2>4. QED
    BY <2>1, <2>2, <2>3
<1>f. SUFFICES ASSUME DeviceOK(s)
               PROVE  DeviceOK(s)'
  BY <1>1
<1>b. FieldsFit(s) /\ EndsFit(s) /\ \A o \in ops[s] : AtAwait(s, o)
  BY <1>f DEF DeviceOK
<1>c. SettingDown(s) => DeviceOK(s)'
  BY <1>f, SettingDownOK
<1>2. ASSUME pc[s] # None, ops' = ops, callId' = callId, key' = key,
             local' = local, live' = live, ending' = ending,
             pc'[s] # None, ready[s] => pc'[s].remote,
             ready'[s] => pc'[s].remote
      PROVE  DeviceOK(s)'
  <2>1. ~Released(s) /\ \A o \in ops[s] : o.at \notin {"peer", "key", "media", "pc"}
    BY <1>b, <1>2 DEF Released, AtAwait
  <2>2. callId[s] = None /\ ops[s] = {} => \E e \in ending[s] : e.by = "op"
    BY <1>f, <2>1 DEF DeviceOK, Rests
  <2>3. \A o \in ops[s] : AtAwait(s, o)'
    BY <1>b, <1>2, <2>1 DEF AtAwait
  <2>4. FieldsFit(s)' /\ EndsFit(s)' /\ Rests(s)'
    BY <1>b, <1>2, <2>2 DEF FieldsFit, EndsFit, Rests
  <2>5. QED
    BY <1>f, <1>2, <2>3, <2>4 DEF DeviceOK
<1>3. CASE ShowIncoming(s) \/ \E m \in relay : Lose(m)
  <2>1. SettingDown(s)
    BY <1>3 DEF ShowIncoming, Lose, fields, SettingDown
  <2>2. QED
    BY <1>c, <2>1
<1>4. CASE Gather(s)
  <2>1. pc[s] \in Connections
    BY <1>a, <1>4 DEF Gather, FieldTypes
  <2>2. pc'[s] = [pc[s] EXCEPT !.gathered = TRUE]
    BY <1>a, <1>4 DEF Gather, FieldTypes
  <2>3. pc'[s] \in Connections /\ pc'[s].remote = pc[s].remote
    BY <2>1, <2>2 DEF Connections
  <2>4. pc'[s] # None
    BY <2>3, CallsAssumption DEF Connections
  <2>5. QED
    BY <1>b, <1>2, <1>4, <2>3, <2>4 DEF Gather, FieldsFit
<1>5. CASE TakeAnswer(s)
  <2>1. CASE pc[s] = None
    <3>1. SettingDown(s)
      BY <1>5, <2>1 DEF TakeAnswer, SettingDown
    <3>2. QED
      BY <1>c, <3>1
  <2>2. CASE pc[s] # None
    <3>1. pc[s] \in Connections /\ candidates[s] \in BOOLEAN
      BY <1>a, <2>2 DEF FieldTypes
    <3>2. LET r == [pc[s] EXCEPT !.remote = TRUE, !.added = @ \/ candidates[s]] IN
          r \in Connections /\ r.remote
      BY <3>1 DEF Connections
    <3>3. pc'[s] = [pc[s] EXCEPT !.remote = TRUE, !.added = @ \/ candidates[s]]
      BY <1>a, <1>5, <2>2 DEF TakeAnswer, FieldTypes
    <3>4. pc'[s] # None /\ pc'[s].remote
      BY <3>2, <3>3, CallsAssumption DEF Connections
    <3>5. QED
      BY <1>2, <1>5, <2>2, <3>4 DEF TakeAnswer
  <2>3. QED
    BY <2>1, <2>2
<1>6. ASSUME NEW m \in relay,
             \/ ReceiveOffer(s, m) \/ ReceiveAnswer(s, m)
             \/ ReceiveCandidate(s, m) \/ ReceiveEnd(s, m)
      PROVE  DeviceOK(s)'
  <2>a. m.id # None
    BY <1>a, CallsAssumption DEF RelayTypes, Signals
  <2>1. CASE ReceiveOffer(s, m)
    <3>1. SettingDown(s)
      BY <2>1 DEF ReceiveOffer, fields, SettingDown
    <3>2. QED
      BY <1>c, <3>1
  <2>2. CASE ReceiveEnd(s, m)
    <3>1. End(s, "peer", m.id).stream = local[s]
      BY DEF End
    <3>2. /\ live'[s] \subseteq live[s]
          /\ ending[s] \subseteq ending'[s]
          /\ \A e \in ending'[s] : e \in ending[s] \/ e.stream = local[s]
      BY <1>a, <2>2, <3>1 DEF ReceiveEnd, Stop, RunTypes
    <3>3. SettingDown(s)
      BY <2>2, <3>2 DEF ReceiveEnd, fields, SettingDown
    <3>4. QED
      BY <1>c, <3>3
  <2>3. CASE ReceiveAnswer(s, m)
    <3>1. UNCHANGED <<callId, key, ready, local, pc, live, ops, ending>>
      BY <2>3 DEF ReceiveAnswer
    <3>2. CASE ~Current(s, m)
      <4>1. SettingDown(s)
        BY <2>3, <3>2 DEF ReceiveAnswer, SettingDown
      <4>2. QED
        BY <1>c, <4>1
    <3>3. CASE Current(s, m)
      <4>1. callId[s] # None
        BY <2>a, <3>3 DEF Current
      <4>2. \A o \in ops[s] : AtAwait(s, o)'
        BY <1>b, <3>1, <4>1 DEF AtAwait
      <4>3. QED
        BY <1>f, <1>b, <3>1, <4>1, <4>2 DEF DeviceOK, FieldsFit, EndsFit, Rests
    <3>4. QED
      BY <3>2, <3>3
  <2>4. CASE ReceiveCandidate(s, m)
    <3>1. CASE ~Current(s, m)
      <4>1. candidates'[s] = candidates[s] /\ pc' = pc
        BY <1>a, <2>4, <3>1 DEF ReceiveCandidate, FieldTypes
      <4>2. SettingDown(s)
        BY <2>4, <4>1 DEF ReceiveCandidate, SettingDown
      <4>3. QED
        BY <1>c, <4>2
    <3>2. CASE Current(s, m)
      <4>1. callId[s] # None
        BY <2>a, <3>2 DEF Current
      <4>2. UNCHANGED <<callId, key, ready, local, live, ops, ending>>
        BY <2>4 DEF ReceiveCandidate
      <4>3. CASE pc' = pc
        <5>1. \A o \in ops[s] : AtAwait(s, o)'
          BY <1>b, <4>1, <4>2, <4>3 DEF AtAwait
        <5>2. QED
          BY <1>f, <1>b, <4>1, <4>2, <4>3, <5>1
             DEF DeviceOK, FieldsFit, EndsFit, Rests
      <4>4. CASE pc' # pc
        <5>1. pc[s] # None /\ pc[s].remote /\ pc' = [pc EXCEPT ![s].added = TRUE]
          BY <2>4, <4>4 DEF ReceiveCandidate
        <5>2. pc[s] \in Connections
          BY <1>a, <5>1 DEF FieldTypes
        <5>3. pc'[s] = [pc[s] EXCEPT !.added = TRUE]
          BY <1>a, <5>1 DEF FieldTypes
        <5>4. pc'[s] \in Connections /\ pc'[s].remote = pc[s].remote
          BY <5>2, <5>3 DEF Connections
        <5>5. pc'[s] # None
          BY <5>4, CallsAssumption DEF Connections
        <5>6. QED
          BY <1>2, <4>2, <5>1, <5>4, <5>5
      <4>5. QED
        BY <4>3, <4>4
    <3>3. QED
      BY <3>1, <3>2
  <2>5. QED
    BY <1>6, <2>1, <2>2, <2>3, <2>4
<1>7. QED
  BY <1>3, <1>4, <1>5, <1>6 DEF Receive

LEMMA DeviceKept ==
    ASSUME DInv, [Next]_vars
    PROVE  DInv'
<1>a. TInv /\ \A s \in Side : Orderly(s)' => DeviceOK(s)
  BY OrderlyBefore DEF DInv
<1>1. ASSUME NEW s \in Side, Orderly(s)' /\ DeviceOK(s) => DeviceOK(s)',
             \A t \in Side : t # s => SettingDown(t)
      PROVE  \A t \in Side : Orderly(t)' => DeviceOK(t)'
  BY <1>a, <1>1, SettingDownOK
<1>2. ASSUME UNCHANGED vars
      PROVE  \A t \in Side : Orderly(t)' => DeviceOK(t)'
  <2>1. \A t \in Side : SettingDown(t)
    BY <1>2 DEF vars, fields, SettingDown
  <2>2. QED
    BY <1>a, <2>1, SettingDownOK
<1>3. ASSUME NEW s \in Side,
             Call(s) \/ Accept(s) \/ Decline(s) \/ PressEnd(s) \/ RingTimeout(s)
      PROVE  \A t \in Side : Orderly(t)' => DeviceOK(t)'
  BY <1>a, <1>1, <1>3, UserDevice
<1>4. ASSUME NEW s \in Side, \E e \in ending[s] : FinishEnd(s, e)
      PROVE  \A t \in Side : Orderly(t)' => DeviceOK(t)'
  BY <1>a, <1>1, <1>4, FinishEndDevice
<1>5. ASSUME NEW s \in Side, OpStep(s)
      PROVE  \A t \in Side : Orderly(t)' => DeviceOK(t)'
  <2>1. PICK o \in ops[s] :
           \/ Claim(s, o) \/ SetKey(s, o) \/ Capture(s, o) \/ CreatePc(s, o)
           \/ TakeOffer(s, o) \/ SendDescription(s, o) \/ Throws(s, o)
    BY <1>5 DEF OpStep, Throws
  <2>2. QED
    BY <1>a, <1>1, <2>1, OpDevice
<1>6. ASSUME NEW s \in Side,
             \/ Gather(s) \/ ShowIncoming(s) \/ TakeAnswer(s)
             \/ Receive(s) \/ \E m \in relay : Lose(m)
      PROVE  \A t \in Side : Orderly(t)' => DeviceOK(t)'
  BY <1>a, <1>1, <1>6, SignalDevice
<1>7. \E s : s \in Side
  BY CallsAssumption, FS_EmptySet
<1>8. \A t \in Side : Orderly(t)' => DeviceOK(t)'
  BY <1>2, <1>3, <1>4, <1>5, <1>6, <1>7 DEF Next
<1>9. TInv'
  BY TypesKept, AcceptsShownKept DEF DInv, TInv
<1>10. QED
  BY <1>8, <1>9 DEF DInv

\* However a call ended, a device at rest has closed microphone and
\* connection and has nothing left over for the next call, for every order of
\* call(), accept(), end(), signals and timeouts, as long as all goes orderly
\* on it.  The code enforces neither part of that: the user may start an
\* operation while another one runs, and a call() that throws after its
\* CallScreen was popped is not ended.
THEOREM EndedReleases == Spec => []EndedIsReleased
<1>1. Init => DInv
  BY InitTypes, InitDevice DEF DInv
<1>2. DInv /\ [Next]_vars => DInv'
  BY DeviceKept
<1>3. DInv => EndedIsReleased
  BY DEF DInv, DeviceOK, Rests, EndedIsReleased, AtRest
<1>4. QED
  BY <1>1, <1>2, <1>3, PTL DEF Spec

-----------------------------------------------------------------------------
\* What a step may do to a call that is on its way.  A call moves on from one
\* place to the next, and leaves the one it was at.

OpsFollow ==
    /\ drawn \subseteq drawn'
    /\ \A t \in Side : \A o \in ops'[t] :
          \/ \E q \in ops[t] : /\ q.kind = o.kind /\ q.id = o.id
                               /\ o.at = "peer" => q.at = "peer"
          \/ o.kind = "accept" /\ Dialog(t, o.id)
          \/ /\ o.kind = "call" /\ o.id \in drawn' \ drawn
             /\ ops'[Peer(t)] = ops[Peer(t)]

\* The operation that sends is done and in the call.
Sent(m) ==
    /\ ops'[m.from] = {}
    /\ key'[m.from] = m.id

NewSignal(m) ==
    \/ m.type = "call-end" /\ m.id \in drawn
    \/ m.type = "offer" /\ Calling(m.from, m.id) /\ Sent(m)
    \/ /\ m.type = "answer" /\ Known(m.from, m.id) /\ Sent(m)
       /\ ~Dialog(m.from, m.id)'
    \/ /\ m.type = "ice-candidate"
       /\ \/ answered[m.from] /\ callId[m.from] = m.id
          \/ Signal("answer", m.id, m.id, Peer(m.from)) \in relay

RelayFollow == \A m \in relay' : m \in relay \/ NewSignal(m)

HandlingFollow ==
    \A t \in Side : handling'[t] # None =>
        \/ handling'[t] = handling[t]
        \/ /\ handling'[t] \in relay
           /\ handling'[t].from = Peer(t)
           /\ handling'[t].type = "offer" =>
                 /\ handling'[t] \notin relay'
                 /\ handling'[t].key = handling'[t].id

ScreenFollow ==
    \A t \in Side : incoming'[t] # None =>
        \/ /\ incoming[t] # None
           /\ incoming'[t].id = incoming[t].id
           /\ incoming'[t].at = "dialog" => incoming[t].at = "dialog"
        \/ Opening(t, incoming'[t].id) /\ handling'[t] = None

FieldsFollow ==
    \A t \in Side : callId'[t] # None =>
        \/ /\ callId'[t] = callId[t]
           /\ key[t] = callId[t] => key'[t] = callId[t]
           /\ answered'[t] =>
                 \/ answered[t]
                 \/ Known(t, callId[t])
                 \/ Signal("answer", callId[t], callId[t], Peer(t)) \in relay
        \/ /\ \E o \in ops[t] : o.at = "peer" /\ o.id = callId'[t]
           /\ ~answered'[t]

Follows ==
    OpsFollow /\ RelayFollow /\ HandlingFollow /\ ScreenFollow /\ FieldsFollow

\* Every step is one of these.
LEMMA Steps ==
    ASSUME [Next]_vars
    PROVE  \/ UNCHANGED vars
           \/ \E s \in Side :
                 \/ Call(s) \/ Accept(s) \/ Decline(s) \/ PressEnd(s)
                 \/ RingTimeout(s)
                 \/ \E e \in ending[s] : FinishEnd(s, e)
                 \/ \E o \in ops[s] :
                       /\ UNCHANGED <<drawn, handling, calling, lost, rushed>>
                       /\ \/ Claim(s, o) \/ SetKey(s, o)
                          \/ Capture(s, o) \/ CreatePc(s, o)
                          \/ TakeOffer(s, o)
                          \/ SendDescription(s, o)
                          \/ Throws(s, o)
                 \/ Gather(s) \/ ShowIncoming(s) \/ TakeAnswer(s)
                 \/ \E m \in relay : \/ ReceiveOffer(s, m) \/ ReceiveAnswer(s, m)
                                     \/ ReceiveCandidate(s, m) \/ ReceiveEnd(s, m)
                                     \/ Lose(m)
<1>1. \E s : s \in Side
  BY CallsAssumption, FS_EmptySet
<1>2. QED
  BY <1>1 DEF Next, OpStep, Receive, Throws

LEMMA OpsFollowStep ==
    ASSUME AllOK, [Next]_vars
    PROVE  OpsFollow
<1>a. RunTypes /\ TypeOK /\ \A s \in Side : \A o, q \in ops[s] : o = q
  BY TypeParts DEF CallTypes, AllOK, TInv, DeviceOK
<1>1. ASSUME ops' = ops, drawn \subseteq drawn'
      PROVE  OpsFollow
  BY <1>1 DEF OpsFollow
<1>2. CASE UNCHANGED vars
  BY <1>1, <1>2 DEF vars
<1>3. ASSUME NEW s \in Side,
             \/ Decline(s) \/ PressEnd(s) \/ RingTimeout(s)
             \/ \E e \in ending[s] : FinishEnd(s, e)
             \/ Gather(s) \/ ShowIncoming(s) \/ TakeAnswer(s)
             \/ \E m \in relay : \/ ReceiveOffer(s, m) \/ ReceiveAnswer(s, m)
                                 \/ ReceiveCandidate(s, m) \/ ReceiveEnd(s, m)
                                 \/ Lose(m)
      PROVE  OpsFollow
  BY <1>1, <1>3 DEF Decline, PressEnd, RingTimeout, FinishEnd, Gather,
     ShowIncoming, TakeAnswer, ReceiveOffer, ReceiveAnswer, ReceiveCandidate,
     ReceiveEnd, Lose
<1>4. ASSUME NEW s \in Side, Call(s)
      PROVE  OpsFollow
  <2>1. CASE ops' = ops
    <3>1. drawn \subseteq drawn'
      BY <1>4 DEF Call
    <3>2. QED
      BY <1>1, <2>1, <3>1
  <2>2. CASE \E c \in scenario.calls[s] \ drawn :
                /\ drawn' = drawn \cup {c}
                /\ ops' = [ops EXCEPT ![s] = @ \cup {Op("call", c)}]
    <3>1. PICK c : /\ c \notin drawn
                   /\ drawn' = drawn \cup {c}
                   /\ ops' = [ops EXCEPT ![s] = @ \cup {Op("call", c)}]
      BY <2>2
    <3>2. ops'[s] = ops[s] \cup {Op("call", c)} /\ ops'[Peer(s)] = ops[Peer(s)]
      BY <1>a, <3>1, PeerFacts DEF RunTypes
    <3>3. \A t \in Side : t # s => ops'[t] = ops[t]
      BY <1>a, <3>1 DEF RunTypes
    <3>4. Op("call", c).kind = "call" /\ Op("call", c).id = c
      BY DEF Op
    <3>5. QED
      BY <3>1, <3>2, <3>3, <3>4 DEF OpsFollow
  <2>3. QED
    BY <1>4, <2>1, <2>2 DEF Call
<1>5. ASSUME NEW s \in Side, Accept(s)
      PROVE  OpsFollow
  <2>1. drawn' = drawn /\ Dialog(s, incoming[s].id)
    BY <1>5 DEF Accept, Dialog
  <2>2. \/ ops' = ops
        \/ ops' = [ops EXCEPT ![s] = @ \cup {Op("accept", incoming[s].id)}]
    BY <1>5 DEF Accept
  <2>3. /\ Op("accept", incoming[s].id).kind = "accept"
        /\ Op("accept", incoming[s].id).id = incoming[s].id
    BY DEF Op
  <2>4. \A t \in Side : t # s => ops'[t] = ops[t]
    BY <1>a, <2>2 DEF RunTypes
  <2>5. \A o \in ops'[s] : o \in ops[s] \/ o = Op("accept", incoming[s].id)
    BY <1>a, <2>2 DEF RunTypes
  <2>6. QED
    BY <2>1, <2>3, <2>4, <2>5 DEF OpsFollow
<1>6. ASSUME NEW s \in Side, NEW o \in ops[s], UNCHANGED drawn,
             \/ Claim(s, o) \/ SetKey(s, o) \/ Capture(s, o) \/ CreatePc(s, o)
             \/ TakeOffer(s, o)
      PROVE  OpsFollow
  <2>1. PICK at \in {"key", "media", "pc", "offer", "send"} : Move(s, o, at)
    BY <1>6 DEF Claim, SetKey, Capture, CreatePc, TakeOffer
  <2>2. PICK n \in Ops : n.kind = o.kind /\ n.id = o.id /\ n.at = at /\ ops'[s] = {n}
    BY <1>a, <2>1, MoveFacts
  <2>3. \A t \in Side : t # s => ops'[t] = ops[t]
    BY <1>a, <2>1 DEF Move, RunTypes
  <2>4. QED
    BY <1>6, <2>2, <2>3 DEF OpsFollow
<1>7. ASSUME NEW s \in Side, NEW o \in ops[s], UNCHANGED drawn,
             SendDescription(s, o) \/ Throws(s, o)
      PROVE  OpsFollow
  <2>1. Done(s, o)
    BY <1>7 DEF SendDescription, Throws, Fail, NoStream, NoCall, Throw
  <2>2. \A t \in Side : ops'[t] \subseteq ops[t]
    BY <1>a, <2>1 DEF Done, RunTypes
  <2>3. QED
    BY <1>7, <2>2 DEF OpsFollow
<1>8. QED
  BY <1>2, <1>3, <1>4, <1>5, <1>6, <1>7, Steps

LEMMA HandlingFollowStep ==
    ASSUME AllOK, [Next]_vars
    PROVE  HandlingFollow
<1>a. RunTypes /\ RelayTypes
  BY TypeParts DEF CallTypes, AllOK, TInv
<1>1. ASSUME handling' = handling
      PROVE  HandlingFollow
  BY <1>1 DEF HandlingFollow
<1>2. CASE UNCHANGED vars
  BY <1>1, <1>2 DEF vars
<1>3. ASSUME NEW s \in Side,
             \/ Call(s) \/ Accept(s) \/ Decline(s) \/ PressEnd(s) \/ RingTimeout(s)
             \/ Gather(s) \/ UNCHANGED <<drawn, handling, calling, lost, rushed>>
             \/ \E m \in relay : ReceiveCandidate(s, m) \/ Lose(m)
      PROVE  HandlingFollow
  BY <1>1, <1>3 DEF Call, Accept, Decline, PressEnd, RingTimeout, Gather,
     ReceiveCandidate, Lose
<1>4. ASSUME NEW s \in Side,
             \/ \E e \in ending[s] : FinishEnd(s, e)
             \/ ShowIncoming(s) \/ TakeAnswer(s)
      PROVE  HandlingFollow
  <2>1. handling' = handling \/ handling' = [handling EXCEPT ![s] = None]
    BY <1>4 DEF FinishEnd, ShowIncoming, TakeAnswer
  <2>2. QED
    BY <1>a, <2>1 DEF HandlingFollow, RunTypes
<1>5. ASSUME NEW s \in Side, NEW m \in relay,
             \/ ReceiveOffer(s, m) \/ ReceiveAnswer(s, m) \/ ReceiveEnd(s, m)
      PROVE  HandlingFollow
  <2>1. handling' = handling \/ handling' = [handling EXCEPT ![s] = m]
    BY <1>5 DEF ReceiveOffer, ReceiveAnswer, ReceiveEnd
  <2>2. m.from = Peer(s)
    BY <1>5 DEF ReceiveOffer, ReceiveAnswer, ReceiveEnd, Arrives
  <2>3. m.type = "offer" =>
           m \notin relay' /\ (handling' = handling \/ m.key = m.id)
    BY <1>5 DEF ReceiveOffer, ReceiveAnswer, ReceiveEnd, Arrives, Take
  <2>4. QED
    BY <1>a, <2>1, <2>2, <2>3 DEF HandlingFollow, RunTypes
<1>6. QED
  BY <1>2, <1>3, <1>4, <1>5, Steps

LEMMA ScreenFollowStep ==
    ASSUME AllOK, [Next]_vars
    PROVE  ScreenFollow
<1>a. RunTypes /\ ScreenTypes
  BY TypeParts DEF CallTypes, AllOK, TInv
<1>1. ASSUME incoming' = incoming
      PROVE  ScreenFollow
  BY <1>1 DEF ScreenFollow
<1>2. CASE UNCHANGED vars
  BY <1>1, <1>2 DEF vars, screens
<1>3. ASSUME NEW s \in Side,
             \/ Call(s) \/ PressEnd(s) \/ RingTimeout(s)
             \/ Gather(s) \/ TakeAnswer(s)
             \/ \E o \in ops[s] : \/ Claim(s, o) \/ SetKey(s, o) \/ Capture(s, o)
                                  \/ CreatePc(s, o) \/ TakeOffer(s, o)
             \/ \E m \in relay : \/ ReceiveOffer(s, m) \/ ReceiveAnswer(s, m)
                                 \/ ReceiveCandidate(s, m) \/ ReceiveEnd(s, m)
                                 \/ Lose(m)
      PROVE  ScreenFollow
  BY <1>1, <1>3 DEF Call, PressEnd, RingTimeout, Gather, TakeAnswer, Claim,
     SetKey, Capture, CreatePc, TakeOffer, ReceiveOffer, ReceiveAnswer,
     ReceiveCandidate, ReceiveEnd, Lose, aside, screens
<1>4. ASSUME NEW s \in Side,
             Decline(s) \/ \E e \in ending[s] : FinishEnd(s, e)
      PROVE  ScreenFollow
  <2>1. incoming' = incoming \/ incoming' = [incoming EXCEPT ![s] = None]
    BY <1>4 DEF Decline, FinishEnd, PopScreen, screens
  <2>2. QED
    BY <1>a, <2>1 DEF ScreenFollow, ScreenTypes
<1>5. ASSUME NEW s \in Side, NEW at \in {"accepting", "screen", "failed"},
             incoming[s] # None, incoming' = [incoming EXCEPT ![s].at = at]
      PROVE  ScreenFollow
  <2>1. incoming[s] \in Shown
    BY <1>a, <1>5 DEF ScreenTypes
  <2>2. LET i == [incoming[s] EXCEPT !.at = at] IN
        i.id = incoming[s].id /\ i.at # "dialog"
    BY <2>1 DEF Shown
  <2>3. incoming'[s] = [incoming[s] EXCEPT !.at = at]
    BY <1>a, <1>5 DEF ScreenTypes
  <2>4. \A t \in Side : t # s => incoming'[t] = incoming[t]
    BY <1>a, <1>5 DEF ScreenTypes
  <2>5. QED
    BY <1>5, <2>2, <2>3, <2>4 DEF ScreenFollow
<1>6. ASSUME NEW s \in Side,
             Accept(s) \/ \E o \in ops[s] : SendDescription(s, o) \/ Throws(s, o)
      PROVE  ScreenFollow
  <2>a. \/ incoming' = incoming
        \/ /\ incoming[s] # None
           /\ \E at \in {"accepting", "screen", "failed"} :
                 incoming' = [incoming EXCEPT ![s].at = at]
    <3>1. CASE Accept(s)
      BY <3>1 DEF Accept, Shows
    <3>2. CASE \E o \in ops[s] : SendDescription(s, o)
      BY <3>2 DEF SendDescription, AllOK, TInv, AcceptsShown
    <3>3. CASE \E o \in ops[s] : Throws(s, o)
      BY <3>3 DEF Throws, Fail, NoStream, NoCall, Throw, ThrowCall,
         ThrowAccept, AllOK, TInv, AcceptsShown
    <3>4. QED
      BY <1>6, <3>1, <3>2, <3>3
  <2>1. CASE incoming' = incoming
    BY <1>1, <2>1
  <2>2. QED
    BY <1>5, <2>1, <2>a
<1>7. ASSUME NEW s \in Side, ShowIncoming(s)
      PROVE  ScreenFollow
  <2>1. CASE incoming' = incoming
    BY <1>1, <2>1
  <2>2. CASE incoming' = [incoming EXCEPT ![s] =
                             [id |-> handling[s].id, at |-> "dialog"]]
    <3>1. Opening(s, handling[s].id) /\ handling'[s] = None
      BY <1>a, <1>7 DEF ShowIncoming, Opening, RunTypes
    <3>2. incoming'[s].id = handling[s].id
      BY <1>a, <2>2 DEF ScreenTypes
    <3>3. \A t \in Side : t # s => incoming'[t] = incoming[t]
      BY <1>a, <2>2 DEF ScreenTypes
    <3>4. QED
      BY <3>1, <3>2, <3>3 DEF ScreenFollow
  <2>3. QED
    BY <1>7, <2>1, <2>2 DEF ShowIncoming
<1>8. QED
  BY <1>2, <1>3, <1>4, <1>6, <1>7, Steps

LEMMA SignalFields ==
    ASSUME NEW type, NEW c, NEW k, NEW s
    PROVE  /\ Signal(type, c, k, s).type = type
           /\ Signal(type, c, k, s).id = c
           /\ Signal(type, c, k, s).key = k
           /\ Signal(type, c, k, s).from = s
BY DEF Signal

LEMMA SignalIs ==
    ASSUME NEW m \in Signals
    PROVE  m = Signal(m.type, m.id, m.key, m.from)
BY DEF Signal, Signals

\* A signal that opens was sealed with the key of the call it belongs to.
LEMMA CurrentIs ==
    ASSUME AllOK, NEW s \in Side, NEW m \in relay, Current(s, m)
    PROVE  m = Signal(m.type, callId[s], callId[s], m.from)
<1>1. m \in Signals
  BY TypeParts DEF CallTypes, RelayTypes, AllOK, TInv
<1>2. m.id # None /\ m.key # None
  BY <1>1, CallsAssumption DEF Signals
<1>3. key[s] = callId[s]
  BY <1>2 DEF Current, AllOK, DeviceOK, FieldsFit
<1>4. QED
  BY <1>1, <1>3, SignalIs DEF Current

LEMMA FieldsFollowStep ==
    ASSUME AllOK, [Next]_vars
    PROVE  FieldsFollow
<1>a. RunTypes /\ FieldTypes /\ RelayTypes
  BY TypeParts DEF CallTypes, AllOK, TInv
<1>1. ASSUME UNCHANGED <<callId, key, answered>>
      PROVE  FieldsFollow
  BY <1>1 DEF FieldsFollow
<1>2. CASE UNCHANGED vars
  BY <1>1, <1>2 DEF vars, fields
<1>3. ASSUME NEW s \in Side,
             \/ Call(s) \/ Accept(s) \/ Decline(s) \/ PressEnd(s)
             \/ RingTimeout(s) \/ Gather(s) \/ ShowIncoming(s) \/ TakeAnswer(s)
             \/ \E o \in ops[s] : \/ Capture(s, o) \/ CreatePc(s, o)
                                  \/ TakeOffer(s, o) \/ SendDescription(s, o)
                                  \/ Throws(s, o)
             \/ \E m \in relay : \/ ReceiveOffer(s, m) \/ ReceiveCandidate(s, m)
                                 \/ ReceiveEnd(s, m) \/ Lose(m)
      PROVE  FieldsFollow
  BY <1>1, <1>3 DEF Call, Accept, Decline, PressEnd, RingTimeout, Gather,
     ShowIncoming, TakeAnswer, Capture, CreatePc, TakeOffer, SendDescription,
     Throws, Fail, NoStream, NoCall, ReceiveOffer, ReceiveCandidate,
     ReceiveEnd, Lose, fields
<1>4. ASSUME NEW s \in Side, \E e \in ending[s] : FinishEnd(s, e)
      PROVE  FieldsFollow
  BY <1>a, <1>4 DEF FinishEnd, Reset, FieldsFollow, FieldTypes
<1>5. ASSUME NEW s \in Side, NEW o \in ops[s], Claim(s, o)
      PROVE  FieldsFollow
  <2>1. ~answered[s] /\ o.at = "peer"
    BY <1>5 DEF Claim, AllOK, DeviceOK, AtAwait, Released
  <2>2. QED
    BY <1>a, <1>5, <2>1 DEF Claim, FieldsFollow, FieldTypes
<1>6. ASSUME NEW s \in Side, NEW o \in ops[s], SetKey(s, o)
      PROVE  FieldsFollow
  <2>1. callId[s] # None => callId[s] = o.id
    BY <1>6 DEF AllOK, DeviceOK, AtAwait
  <2>2. o.kind = "accept" => Known(s, o.id)
    BY <1>6 DEF AllOK, TInv, AcceptsShown, Known
  <2>3. answered'[s] => answered[s] \/ o.kind = "accept"
    BY <1>a, <1>6 DEF SetKey, FieldTypes
  <2>4. key'[s] = o.id /\ callId' = callId
    BY <1>a, <1>6 DEF SetKey, FieldTypes
  <2>5. \A t \in Side : t # s => answered'[t] = answered[t] /\ key'[t] = key[t]
    BY <1>a, <1>6 DEF SetKey, FieldTypes
  <2>6. QED
    BY <2>1, <2>2, <2>3, <2>4, <2>5 DEF FieldsFollow
<1>7. ASSUME NEW s \in Side, NEW m \in relay, ReceiveAnswer(s, m)
      PROVE  FieldsFollow
  <2>1. CASE ~Current(s, m)
    BY <1>1, <1>7, <2>1 DEF ReceiveAnswer
  <2>2. CASE Current(s, m)
    <3>1. m = Signal("answer", callId[s], callId[s], Peer(s))
      BY <1>a, <1>7, <2>2, CurrentIs DEF ReceiveAnswer, Arrives
    <3>2. UNCHANGED <<callId, key>>
      BY <1>7 DEF ReceiveAnswer
    <3>3. \A t \in Side : t # s => answered'[t] = answered[t]
      BY <1>a, <1>7, <2>2 DEF ReceiveAnswer, FieldTypes
    <3>4. QED
      BY <3>1, <3>2, <3>3 DEF FieldsFollow
  <2>3. QED
    BY <2>1, <2>2
<1>8. QED
  BY <1>2, <1>3, <1>4, <1>5, <1>6, <1>7, Steps

LEMMA RelayFollowStep ==
    ASSUME AllOK, DrawnOnce, [Next]_vars
    PROVE  RelayFollow
<1>a. RunTypes /\ FieldTypes /\ RelayTypes /\ ScreenTypes
  BY TypeParts DEF CallTypes, AllOK, TInv
<1>1. ASSUME relay' \subseteq relay
      PROVE  RelayFollow
  BY <1>1 DEF RelayFollow
<1>2. CASE UNCHANGED vars
  BY <1>1, <1>2 DEF vars
<1>3. ASSUME NEW s \in Side,
             \/ Call(s) \/ Accept(s) \/ ShowIncoming(s) \/ TakeAnswer(s)
             \/ \E o \in ops[s] : \/ Claim(s, o) \/ SetKey(s, o) \/ Capture(s, o)
                                  \/ CreatePc(s, o) \/ TakeOffer(s, o)
                                  \/ Throws(s, o)
             \/ \E m \in relay : \/ ReceiveOffer(s, m) \/ ReceiveCandidate(s, m)
                                 \/ ReceiveEnd(s, m) \/ Lose(m)
      PROVE  RelayFollow
  <2>1. relay' \subseteq relay
    BY <1>3 DEF Call, Accept, ShowIncoming, TakeAnswer, Claim, SetKey, Capture,
       CreatePc, TakeOffer, Throws, Fail, NoStream, NoCall, Throw, ThrowCall,
       ThrowAccept, BeginEnd, ReceiveOffer, ReceiveCandidate, ReceiveEnd,
       Lose, Take, aside
  <2>2. QED
    BY <1>1, <2>1
<1>4. ASSUME NEW s \in Side, NEW c \in CallId, c \in drawn,
             NEW k, relay' \subseteq relay \cup {Signal("call-end", c, k, s)}
      PROVE  RelayFollow
  BY <1>4, SignalFields DEF RelayFollow, NewSignal
<1>5. ASSUME NEW s \in Side, incoming[s] # None
      PROVE  incoming[s].id \in CallId /\ incoming[s].id \in drawn
  <2>1. incoming[s].id \in CallId
    BY <1>a, <1>5 DEF ScreenTypes, Shown
  <2>2. QED
    BY <1>5, <2>1 DEF DrawnOnce, Known
<1>6. ASSUME NEW s \in Side, callId[s] # None
      PROVE  callId[s] \in CallId /\ callId[s] \in drawn
  BY <1>a, <1>6 DEF FieldTypes, DrawnOnce
<1>7. ASSUME NEW s \in Side,
             Decline(s) \/ \E e \in ending[s] : FinishEnd(s, e)
      PROVE  RelayFollow
  <2>1. \/ relay' = relay
        \/ /\ incoming[s] # None
           /\ relay' = relay \cup {Refusal(s)}
    BY <1>7 DEF Decline, FinishEnd, PopScreen, Shows
  <2>2. QED
    BY <1>1, <1>4, <1>5, <2>1 DEF Refusal
<1>8. ASSUME NEW s \in Side, PressEnd(s) \/ RingTimeout(s)
      PROVE  RelayFollow
  <2>1. \/ relay' = relay
        \/ /\ callId[s] # None
           /\ relay' = relay \cup {Signal("call-end", callId[s], key[s], s)}
    BY <1>8 DEF PressEnd, RingTimeout, BeginEnd, CanSend, Send
  <2>2. QED
    BY <1>1, <1>4, <1>6, <2>1
<1>9. ASSUME NEW s \in Side, NEW o \in ops[s], SendDescription(s, o)
      PROVE  RelayFollow
  <2>1. callId[s] # None /\ key[s] # None /\ key' = key
    BY <1>9 DEF SendDescription, CanSend
  <2>2. callId[s] = o.id /\ key[s] = o.id
    BY <2>1 DEF AllOK, DeviceOK, AtAwait, FieldsFit
  <2>3. ops'[s] = {}
    <3>1. ops[s] = {o}
      BY DEF AllOK, DeviceOK
    <3>2. QED
      BY <1>a, <1>9, <3>1 DEF SendDescription, Done, RunTypes
  <2>4. CASE o.kind = "call"
    <3>1. relay' = relay \cup {Signal("offer", o.id, o.id, s)}
      BY <1>9, <2>2, <2>4 DEF SendDescription, Send
    <3>2. Calling(s, o.id)
      BY <2>4 DEF Calling
    <3>3. NewSignal(Signal("offer", o.id, o.id, s))
      BY <2>1, <2>2, <2>3, <3>2, SignalFields DEF NewSignal, Sent
    <3>4. QED
      BY <3>1, <3>3 DEF RelayFollow
  <2>5. CASE o.kind # "call"
    <3>1. relay' = relay \cup {Signal("answer", o.id, o.id, s)}
      BY <1>9, <2>2, <2>5 DEF SendDescription, Send
    <3>2. o.kind = "accept"
      BY <1>a, <2>5 DEF RunTypes, Ops
    <3>3. incoming[s] # None /\ incoming[s].id = o.id
      BY <3>2 DEF AllOK, TInv, AcceptsShown
    <3>4. ~Dialog(s, o.id)'
      <4>1. incoming[s] \in Shown
        BY <1>a, <3>3 DEF ScreenTypes
      <4>2. [incoming[s] EXCEPT !.at = "screen"].at = "screen"
        BY <4>1 DEF Shown
      <4>3. incoming'[s] = [incoming[s] EXCEPT !.at = "screen"]
        BY <1>a, <1>9, <3>2 DEF SendDescription, ScreenTypes
      <4>4. QED
        BY <4>2, <4>3 DEF Dialog, Shows
    <3>5. Known(s, o.id)
      BY <3>3 DEF Known
    <3>6. NewSignal(Signal("answer", o.id, o.id, s))
      BY <2>1, <2>2, <2>3, <3>4, <3>5, SignalFields DEF NewSignal, Sent
    <3>7. QED
      BY <3>1, <3>6 DEF RelayFollow
  <2>6. QED
    BY <2>4, <2>5
<1>10. ASSUME NEW s \in Side, Gather(s)
       PROVE  RelayFollow
  <2>1. \/ relay' = relay
        \/ /\ answered[s]
           /\ relay' = relay \cup {Signal("ice-candidate", callId[s], key[s], s)}
    BY <1>10 DEF Gather, Send
  <2>2. answered[s] => NewSignal(Signal("ice-candidate", callId[s], key[s], s))
    BY SignalFields DEF NewSignal
  <2>3. QED
    BY <2>1, <2>2 DEF RelayFollow
<1>11. ASSUME NEW s \in Side, NEW m \in relay, ReceiveAnswer(s, m)
       PROVE  RelayFollow
  <2>1. CASE ~Current(s, m)
    BY <1>1, <1>11, <2>1 DEF ReceiveAnswer, Take
  <2>2. CASE Current(s, m)
    <3>1. m = Signal("answer", callId[s], callId[s], Peer(s))
      BY <1>a, <1>11, <2>2, CurrentIs DEF ReceiveAnswer, Arrives
    <3>2. relay' \subseteq relay \cup {Signal("ice-candidate", callId[s], key[s], s)}
      BY <1>11, <2>2 DEF ReceiveAnswer
    <3>3. NewSignal(Signal("ice-candidate", callId[s], key[s], s))
      BY <3>1, SignalFields DEF NewSignal
    <3>4. QED
      BY <3>2, <3>3 DEF RelayFollow
  <2>3. QED
    BY <2>1, <2>2
<1>12. QED
  BY <1>2, <1>3, <1>7, <1>8, <1>9, <1>10, <1>11, Steps

LEMMA Moves ==
    ASSUME Follows, RelayTypes, RunTypes', NEW t \in Side, NEW c \in CallId
    PROVE  /\ Calling(t, c)' =>
                 \/ Calling(t, c)
                 \/ c \in drawn' \ drawn /\ ops'[Peer(t)] = ops[Peer(t)]
           /\ Offered(t, c)' =>
                 \/ Offered(t, c)
                 \/ Calling(t, c) /\ ops'[t] = {} /\ key'[t] = c
           /\ Opening(t, c)' =>
                 \/ Opening(t, c)
                 \/ Offered(Peer(t), c) /\ ~Offered(Peer(t), c)'
           /\ Known(t, c)' =>
                 \/ Known(t, c)
                 \/ Opening(t, c) /\ ~Opening(t, c)'
           /\ Dialog(t, c)' => Dialog(t, c) \/ Opening(t, c)
<1>1. Calling(t, c)' =>
          \/ Calling(t, c)
          \/ c \in drawn' \ drawn /\ ops'[Peer(t)] = ops[Peer(t)]
  BY DEF Calling, Follows, OpsFollow
<1>2. Offered(t, c)' =>
          \/ Offered(t, c)
          \/ Calling(t, c) /\ ops'[t] = {} /\ key'[t] = c
  <2>1. SUFFICES ASSUME Signal("offer", c, c, t) \in relay', ~Offered(t, c)
                 PROVE  Calling(t, c) /\ ops'[t] = {} /\ key'[t] = c
    BY DEF Offered
  <2>2. NewSignal(Signal("offer", c, c, t))
    BY <2>1 DEF Follows, RelayFollow, Offered
  <2>3. QED
    BY <2>2, SignalFields DEF NewSignal, Sent
<1>3. Opening(t, c)' =>
          \/ Opening(t, c)
          \/ Offered(Peer(t), c) /\ ~Offered(Peer(t), c)'
  <2>1. SUFFICES ASSUME handling'[t] # None, handling'[t].type = "offer",
                        handling'[t].id = c, ~Opening(t, c)
                 PROVE  Offered(Peer(t), c) /\ ~Offered(Peer(t), c)'
    BY DEF Opening
  <2>2. /\ handling'[t] \in relay
        /\ handling'[t].from = Peer(t)
        /\ handling'[t] \notin relay'
        /\ handling'[t].key = handling'[t].id
    BY <2>1 DEF Follows, HandlingFollow, Opening
  <2>3. handling'[t] = Signal("offer", c, c, Peer(t))
    BY <2>1, <2>2, SignalIs DEF RelayTypes
  <2>4. QED
    BY <2>2, <2>3 DEF Offered
<1>4. /\ Known(t, c)' =>
            \/ Known(t, c)
            \/ Opening(t, c) /\ ~Opening(t, c)'
      /\ Dialog(t, c)' => Dialog(t, c) \/ Opening(t, c)
  BY DEF Known, Dialog, Shows, Follows, ScreenFollow, Opening
<1>5. QED
  BY <1>1, <1>2, <1>3, <1>4

LEMMA DrawnOnceKept ==
    ASSUME DrawnOnce, Follows, FieldTypes, RunTypes, RelayTypes,
           TypeOK'
    PROVE  DrawnOnce'
<1>a. FieldTypes' /\ RunTypes' /\ ScreenTypes' /\ RelayTypes'
  BY TypePartsNext DEF CallTypes
<1>1. SUFFICES ASSUME NEW c \in CallId, c \notin drawn'
               PROVE  /\ \A m \in relay' : m.id # c
                      /\ \A s \in Side :
                            /\ \A o \in ops'[s] : o.id # c
                            /\ callId'[s] # c
                            /\ handling'[s] # None => handling'[s].id # c
                            /\ ~Known(s, c)'
  BY DEF DrawnOnce
<1>2. c \notin drawn
  BY <1>1 DEF Follows, OpsFollow
<1>3. /\ \A m \in relay : m.id # c
      /\ \A s \in Side :
            /\ \A o \in ops[s] : o.id # c
            /\ callId[s] # c
            /\ handling[s] # None => handling[s].id # c
            /\ ~Known(s, c)
  BY <1>2 DEF DrawnOnce
<1>4. \A s \in Side : ~Calling(s, c) /\ ~Opening(s, c) /\ ~Dialog(s, c)
  BY <1>3 DEF Calling, Opening, Dialog, Known, Shows
<1>5. ASSUME NEW m \in relay', m.id = c
      PROVE  FALSE
  <2>1. NewSignal(m)
    BY <1>3, <1>5 DEF Follows, RelayFollow
  <2>2. m.from \in Side
    BY <1>a DEF RelayTypes, Signals
  <2>3. Signal("answer", c, c, Peer(m.from)) \notin relay
    BY <1>3, SignalFields
  <2>4. QED
    BY <1>2, <1>3, <1>4, <1>5, <2>1, <2>2, <2>3 DEF NewSignal
<1>6. ASSUME NEW s \in Side
      PROVE  /\ \A o \in ops'[s] : o.id # c
             /\ callId'[s] # c
             /\ handling'[s] # None => handling'[s].id # c
             /\ ~Known(s, c)'
  <2>1. \A o \in ops'[s] : o.id # c
    BY <1>1, <1>3, <1>4 DEF Follows, OpsFollow
  <2>2. callId'[s] # c
    BY <1>3, CallsAssumption DEF Follows, FieldsFollow
  <2>3. handling'[s] # None => handling'[s].id # c
    BY <1>3 DEF Follows, HandlingFollow
  <2>4. ~Known(s, c)'
    BY <1>3, <1>4 DEF Follows, ScreenFollow, Known
  <2>5. QED
    BY <2>1, <2>2, <2>3, <2>4
<1>7. QED
  BY <1>5, <1>6

LEMMA Undrawn ==
    ASSUME DrawnOnce, NEW c \in CallId, c \notin drawn, NEW s \in Side
    PROVE  ~Calling(s, c) /\ ~Offered(s, c) /\ ~Opening(s, c) /\ ~Known(s, c)
BY SignalFields DEF DrawnOnce, Calling, Offered, Opening, Known

LEMMA OnePlaceKept ==
    ASSUME DrawnOnce, OnePlace, Follows, RelayTypes, RunTypes'
    PROVE  OnePlace'
<1>1. SUFFICES ASSUME NEW s \in Side, NEW c \in CallId
               PROVE  /\ Calling(s, c)' =>
                            /\ ~Calling(Peer(s), c)'
                            /\ \A t \in Side :
                                  /\ ~Offered(t, c)'
                                  /\ ~Opening(t, c)'
                                  /\ ~Known(t, c)'
                      /\ Offered(s, c)' =>
                            ~Opening(Peer(s), c)' /\ ~Known(Peer(s), c)'
                      /\ Opening(s, c)' => ~Known(s, c)'
  BY PeerFacts DEF OnePlace
<1>2. /\ Peer(s) \in Side
      /\ Peer(Peer(s)) = s
      /\ \A t \in Side : t = s \/ t = Peer(s)
  BY PeerFacts
<1>3. ASSUME Calling(s, c)'
      PROVE  /\ ~Calling(Peer(s), c)'
             /\ \A t \in Side : ~Offered(t, c)' /\ ~Opening(t, c)' /\ ~Known(t, c)'
  <2>1. CASE c \in drawn
    <3>1. Calling(s, c)
      BY <1>3, <2>1, Moves
    <3>2. /\ ~Calling(Peer(s), c)
          /\ \A t \in Side : ~Offered(t, c) /\ ~Opening(t, c) /\ ~Known(t, c)
      BY <3>1 DEF OnePlace
    <3>3. ~Calling(Peer(s), c)'
      BY <1>2, <2>1, <3>2, Moves
    <3>4. ops'[s] # {}
      BY <1>3 DEF Calling
    <3>5. \A t \in Side : ~Offered(t, c)'
      BY <1>2, <3>2, <3>4, Moves
    <3>6. \A t \in Side : ~Opening(t, c)' /\ ~Known(t, c)'
      BY <1>2, <3>2, Moves, PeerFacts
    <3>7. QED
      BY <3>3, <3>5, <3>6
  <2>2. CASE c \notin drawn
    <3>1. \A t \in Side :
             ~Calling(t, c) /\ ~Offered(t, c) /\ ~Opening(t, c) /\ ~Known(t, c)
      BY <2>2, Undrawn
    <3>2. ops'[Peer(s)] = ops[Peer(s)]
      BY <1>3, <3>1, Moves
    <3>3. ~Calling(Peer(s), c)'
      BY <1>2, <3>1, <3>2 DEF Calling
    <3>4. \A t \in Side : ~Offered(t, c)' /\ ~Opening(t, c)' /\ ~Known(t, c)'
      BY <3>1, Moves, PeerFacts
    <3>5. QED
      BY <3>3, <3>4
  <2>3. QED
    BY <2>1, <2>2
<1>4. ASSUME Offered(s, c)'
      PROVE  ~Opening(Peer(s), c)' /\ ~Known(Peer(s), c)'
  <2>1. Offered(s, c) \/ Calling(s, c)
    BY <1>4, Moves
  <2>2. ~Opening(Peer(s), c) /\ ~Known(Peer(s), c)
    BY <1>2, <2>1 DEF OnePlace
  <2>3. QED
    BY <1>2, <1>4, <2>2, Moves
<1>5. ASSUME Opening(s, c)'
      PROVE  ~Known(s, c)'
  <2>1. Opening(s, c) \/ Offered(Peer(s), c)
    BY <1>5, Moves
  <2>2. ~Known(s, c)
    BY <1>2, <2>1 DEF OnePlace
  <2>3. QED
    BY <1>5, <2>2, Moves
<1>6. QED
  BY <1>3, <1>4, <1>5

\* Entering a call is for good.
LEMMA EnteredKept ==
    ASSUME DrawnOnce, Follows, RelayTypes, RunTypes',
           NEW s \in Side, NEW c \in CallId, Entered(s, c)
    PROVE  Entered(s, c)'
<1>1. Peer(s) \in Side /\ Peer(Peer(s)) = s
  BY PeerFacts
<1>2. /\ c \in drawn
      /\ \A o \in ops[s] : o.id = c => o.at # "peer"
      /\ ~Calling(Peer(s), c) /\ ~Offered(Peer(s), c)
      /\ ~Opening(s, c) /\ ~Dialog(s, c)
      /\ callId[s] = c => key[s] = c
  BY DEF Entered, Coming
<1>3. c \in drawn'
  BY <1>2 DEF Follows, OpsFollow
<1>4. \A o \in ops'[s] : o.id = c => o.at # "peer"
  BY <1>2 DEF Follows, OpsFollow
<1>5. ~Calling(Peer(s), c)' /\ ~Offered(Peer(s), c)'
  BY <1>1, <1>2, Moves
<1>6. ~Opening(s, c)' /\ ~Dialog(s, c)'
  BY <1>2, Moves
<1>7. callId'[s] = c => key'[s] = c
  BY <1>2, CallsAssumption DEF Follows, FieldsFollow
<1>8. QED
  BY <1>3, <1>4, <1>5, <1>6, <1>7 DEF Entered, Coming

LEMMA HeardEnteredKept ==
    ASSUME DrawnOnce, OnePlace, HeardEntered, Follows, RelayTypes, RunTypes'
    PROVE  HeardEntered'
<1>1. SUFFICES ASSUME NEW s \in Side, NEW c \in CallId,
                      \/ Offered(s, c)'
                      \/ Opening(Peer(s), c)'
                      \/ Known(Peer(s), c)'
                      \/ Signal("answer", c, c, s) \in relay'
                      \/ Signal("ice-candidate", c, c, Peer(s)) \in relay'
                      \/ answered'[Peer(s)] /\ callId'[Peer(s)] = c
               PROVE  Entered(s, c)'
  BY DEF HeardEntered
<1> DEFINE p == Peer(s)
<1>2. p \in Side /\ p # s /\ Peer(p) = s
  BY PeerFacts
<1> HIDE DEF p
<1>3. \/ Offered(s, c)
      \/ Opening(p, c)
      \/ Known(p, c)
      \/ Signal("answer", c, c, s) \in relay
      \/ Signal("ice-candidate", c, c, p) \in relay
      \/ answered[p] /\ callId[p] = c
      => Entered(s, c)'
  BY EnteredKept DEF HeardEntered, p
\* What is sent now is sent by an operation that is in the call.
<1>4. ASSUME Calling(s, c) \/ Known(s, c), ops'[s] = {}, key'[s] = c, ~Dialog(s, c)'
      PROVE  Entered(s, c)'
  <2>1. c \in drawn'
    BY <1>4, Undrawn DEF Follows, OpsFollow
  <2>2. c \in drawn
    BY <1>4, Undrawn
  <2>3. ~Calling(p, c) /\ ~Offered(p, c) /\ ~Opening(s, c)
    BY <1>2, <1>4 DEF OnePlace, p
  <2>4. ~Calling(p, c)' /\ ~Offered(p, c)'
    BY <1>2, <2>2, <2>3, Moves
  <2>5. ~Opening(s, c)'
    BY <2>3, Moves DEF p
  <2>6. QED
    BY <1>4, <2>1, <2>4, <2>5 DEF Entered, Coming, p
<1>5. CASE Offered(s, c)'
  <2>1. CASE Offered(s, c)
    BY <1>3, <2>1
  <2>2. CASE ~Offered(s, c)
    <3>1. Calling(s, c) /\ ops'[s] = {} /\ key'[s] = c
      BY <1>5, <2>2, Moves
    <3>2. ~Dialog(s, c) /\ ~Opening(s, c)
      BY <3>1 DEF OnePlace, Dialog, Shows, Known
    <3>3. ~Dialog(s, c)'
      BY <3>2, Moves
    <3>4. QED
      BY <1>4, <3>1, <3>3
  <2>3. QED
    BY <2>1, <2>2
<1>6. CASE Opening(p, c)'
  BY <1>2, <1>3, <1>6, Moves
<1>7. CASE Known(p, c)'
  BY <1>2, <1>3, <1>7, Moves
<1>8. CASE Signal("answer", c, c, s) \in relay'
  <2>1. CASE Signal("answer", c, c, s) \in relay
    BY <1>3, <2>1
  <2>2. CASE Signal("answer", c, c, s) \notin relay
    <3>1. NewSignal(Signal("answer", c, c, s))
      BY <1>8, <2>2 DEF Follows, RelayFollow
    <3>2. Known(s, c) /\ ops'[s] = {} /\ key'[s] = c /\ ~Dialog(s, c)'
      BY <3>1, SignalFields DEF NewSignal, Sent
    <3>3. QED
      BY <1>4, <3>2
  <2>3. QED
    BY <2>1, <2>2
<1>9. CASE Signal("ice-candidate", c, c, p) \in relay'
  <2>1. CASE Signal("ice-candidate", c, c, p) \in relay
    BY <1>3, <2>1
  <2>2. CASE Signal("ice-candidate", c, c, p) \notin relay
    <3>1. NewSignal(Signal("ice-candidate", c, c, p))
      BY <1>9, <2>2 DEF Follows, RelayFollow
    <3>2. \/ answered[p] /\ callId[p] = c
          \/ Signal("answer", c, c, s) \in relay
      BY <1>2, <3>1, SignalFields DEF NewSignal
    <3>3. QED
      BY <1>3, <3>2
  <2>3. QED
    BY <2>1, <2>2
<1>10. CASE answered'[p] /\ callId'[p] = c
  <2>1. callId'[p] # None
    BY <1>10, CallsAssumption
  <2>2. /\ callId[p] = c
        /\ \/ answered[p]
           \/ Known(p, c)
           \/ Signal("answer", c, c, s) \in relay
    BY <1>2, <1>10, <2>1 DEF Follows, FieldsFollow
  <2>3. QED
    BY <1>3, <2>2
<1>11. QED
  BY <1>1, <1>5, <1>6, <1>7, <1>8, <1>9, <1>10 DEF p

LEMMA WayKept ==
    ASSUME AllOK, WayOK, [Next]_vars
    PROVE  Follows /\ WayOK'
<1>1. FieldTypes /\ RunTypes /\ RelayTypes
  BY TypeParts DEF CallTypes, AllOK, TInv
<1>2. TypeOK' /\ RunTypes'
  BY TypesKept, TypePartsNext DEF CallTypes, AllOK
<1>3. Follows
  BY OpsFollowStep, RelayFollowStep, HandlingFollowStep, ScreenFollowStep,
     FieldsFollowStep DEF WayOK, Follows
<1>4. DrawnOnce'
  BY <1>1, <1>2, <1>3, DrawnOnceKept DEF WayOK
<1>5. OnePlace'
  BY <1>1, <1>2, <1>3, OnePlaceKept DEF WayOK
<1>6. HeardEntered'
  BY <1>1, <1>2, <1>3, HeardEnteredKept DEF WayOK
<1>7. QED
  BY <1>3, <1>4, <1>5, <1>6 DEF WayOK

LEMMA InitWay == Init => WayOK
<1>1. SUFFICES ASSUME Init PROVE WayOK
  OBVIOUS
<1>2. DrawnOnce
  BY <1>1, CallsAssumption DEF Init, DrawnOnce, Known
<1>3. OnePlace
  BY <1>1, PeerFacts DEF Init, OnePlace, Calling, Offered, Opening, Known
<1>4. HeardEntered
  BY <1>1, PeerFacts DEF Init, HeardEntered, Offered, Opening, Known
<1>5. QED
  BY <1>2, <1>3, <1>4 DEF WayOK

-----------------------------------------------------------------------------
\* Candidates

GatherFollow ==
    \A p \in Side : callId'[p] # None /\ Gathered(p)' =>
        /\ callId'[p] = callId[p]
        /\ \/ Waits(p)'
           \/ Travels(p, callId[p])'
           \/ Gathered(p) /\ ~Waits(p)

TravelFollow ==
    \A p \in Side, c \in CallId : Travels(p, c) =>
        \/ Travels(p, c)'
        \/ callId[Peer(p)] = c /\ key[Peer(p)] = c => Has(Peer(p))'

HasFollow ==
    \A s \in Side :
        Has(s) /\ callId'[s] # None /\ callId'[s] = callId[s] => Has(s)'

LEMMA ConnectionIsSome ==
    ASSUME NEW r \in Connections
    PROVE  r # None
BY CallsAssumption DEF Connections

\* What each step that changes a connection does to it.
LEMMA ConnectionSteps ==
    ASSUME AllOK, NEW s \in Side
    PROVE  /\ TakeAnswer(s) =>
                 /\ \A t \in Side : t # s => pc'[t] = pc[t] /\ ready'[t] = ready[t]
                                             /\ candidates'[t] = candidates[t]
                 /\ pc[s] = None => UNCHANGED <<pc, ready, candidates>>
                 /\ pc[s] # None =>
                       /\ pc'[s] # None
                       /\ pc'[s].gathered = pc[s].gathered
                       /\ pc'[s].added = (pc[s].added \/ candidates[s])
           /\ \A o \in ops[s] : TakeOffer(s, o) =>
                 /\ \A t \in Side : t # s => pc'[t] = pc[t] /\ ready'[t] = ready[t]
                                             /\ candidates'[t] = candidates[t]
                 /\ pc[s] # None
                 /\ pc'[s] # None
                 /\ pc'[s].gathered = pc[s].gathered
                 /\ pc'[s].added = (pc[s].added \/ candidates[s])
           /\ Gather(s) =>
                 /\ \A t \in Side : t # s => pc'[t] = pc[t]
                 /\ pc[s] # None
                 /\ pc'[s] # None
                 /\ pc'[s].added = pc[s].added
           /\ \A m \in relay : ReceiveCandidate(s, m) =>
                 /\ \A t \in Side : t # s => /\ pc'[t] = pc[t]
                                             /\ candidates'[t] = candidates[t]
                 /\ \/ pc' = pc
                    \/ /\ pc[s] # None
                       /\ pc'[s] # None
                       /\ pc'[s].gathered = pc[s].gathered
                       /\ pc'[s].added
<1>a. FieldTypes
  BY TypeParts DEF CallTypes, AllOK, TInv
<1>b. pc[s] # None => pc[s] \in Connections /\ candidates[s] \in BOOLEAN
  BY <1>a DEF FieldTypes
<1>1. ASSUME TakeAnswer(s)
      PROVE  /\ \A t \in Side : t # s => pc'[t] = pc[t] /\ ready'[t] = ready[t]
                                         /\ candidates'[t] = candidates[t]
             /\ pc[s] = None => UNCHANGED <<pc, ready, candidates>>
             /\ pc[s] # None =>
                   /\ pc'[s] # None
                   /\ pc'[s].gathered = pc[s].gathered
                   /\ pc'[s].added = (pc[s].added \/ candidates[s])
  <2>1. \A t \in Side : t # s => pc'[t] = pc[t] /\ ready'[t] = ready[t]
                                 /\ candidates'[t] = candidates[t]
    BY <1>a, <1>1 DEF TakeAnswer, FieldTypes
  <2>2. pc[s] # None =>
           pc'[s] = [pc[s] EXCEPT !.remote = TRUE, !.added = @ \/ candidates[s]]
    BY <1>a, <1>1 DEF TakeAnswer, FieldTypes
  <2>3. pc[s] = None => UNCHANGED <<pc, ready, candidates>>
    BY <1>1 DEF TakeAnswer
  <2>4. pc[s] # None =>
           /\ pc'[s] \in Connections
           /\ pc'[s].gathered = pc[s].gathered
           /\ pc'[s].added = (pc[s].added \/ candidates[s])
    BY <1>b, <2>2 DEF Connections
  <2>5. QED
    BY <2>1, <2>3, <2>4, ConnectionIsSome
<1>2. ASSUME NEW o \in ops[s], TakeOffer(s, o)
      PROVE  /\ \A t \in Side : t # s => pc'[t] = pc[t] /\ ready'[t] = ready[t]
                                         /\ candidates'[t] = candidates[t]
             /\ pc[s] # None
             /\ pc'[s] # None
             /\ pc'[s].gathered = pc[s].gathered
             /\ pc'[s].added = (pc[s].added \/ candidates[s])
  <2>1. \A t \in Side : t # s => pc'[t] = pc[t] /\ ready'[t] = ready[t]
                                 /\ candidates'[t] = candidates[t]
    BY <1>a, <1>2 DEF TakeOffer, FieldTypes
  <2>2. pc'[s] = [pc[s] EXCEPT !.remote = TRUE, !.local = TRUE,
                               !.added = @ \/ candidates[s]]
    BY <1>a, <1>2 DEF TakeOffer, FieldTypes
  <2>3. pc[s] # None
    BY <1>2 DEF TakeOffer
  <2>4. /\ pc'[s] \in Connections
        /\ pc'[s].gathered = pc[s].gathered
        /\ pc'[s].added = (pc[s].added \/ candidates[s])
    BY <1>b, <2>2, <2>3 DEF Connections
  <2>5. QED
    BY <2>1, <2>3, <2>4, ConnectionIsSome
<1>3. ASSUME Gather(s)
      PROVE  /\ \A t \in Side : t # s => pc'[t] = pc[t]
             /\ pc[s] # None
             /\ pc'[s] # None
             /\ pc'[s].added = pc[s].added
  <2>1. /\ \A t \in Side : t # s => pc'[t] = pc[t]
        /\ pc[s] # None
        /\ pc'[s] = [pc[s] EXCEPT !.gathered = TRUE]
    BY <1>a, <1>3 DEF Gather, FieldTypes
  <2>2. pc'[s] \in Connections /\ pc'[s].added = pc[s].added
    BY <1>b, <2>1 DEF Connections
  <2>3. QED
    BY <2>1, <2>2, ConnectionIsSome
<1>4. ASSUME NEW m \in relay, ReceiveCandidate(s, m)
      PROVE  /\ \A t \in Side : t # s => /\ pc'[t] = pc[t]
                                         /\ candidates'[t] = candidates[t]
             /\ \/ pc' = pc
                \/ /\ pc[s] # None
                   /\ pc'[s] # None
                   /\ pc'[s].gathered = pc[s].gathered
                   /\ pc'[s].added
  <2>1. \A t \in Side : t # s => candidates'[t] = candidates[t]
    BY <1>a, <1>4 DEF ReceiveCandidate, FieldTypes
  <2>2. pc' # pc => pc[s] # None /\ pc' = [pc EXCEPT ![s].added = TRUE]
    BY <1>4 DEF ReceiveCandidate
  <2>3. pc' # pc => /\ \A t \in Side : t # s => pc'[t] = pc[t]
                    /\ pc'[s] = [pc[s] EXCEPT !.added = TRUE]
    BY <1>a, <2>2 DEF FieldTypes
  <2>4. pc' # pc => /\ pc'[s] \in Connections
                    /\ pc'[s].gathered = pc[s].gathered
                    /\ pc'[s].added
    BY <1>b, <2>2, <2>3 DEF Connections
  <2>5. QED
    BY <2>1, <2>2, <2>3, <2>4, ConnectionIsSome
<1>5. QED
  BY <1>1, <1>2, <1>3, <1>4

LEMMA GatherFollowStep ==
    ASSUME AllOK, [Next]_vars
    PROVE  GatherFollow
<1>a. FieldTypes /\ RelayTypes
  BY TypeParts DEF CallTypes, AllOK, TInv
<1>1. ASSUME UNCHANGED <<callId, pc, outbox, answered>>
      PROVE  GatherFollow
  BY <1>1 DEF GatherFollow, Gathered, Waits
<1>2. CASE UNCHANGED vars
  BY <1>1, <1>2 DEF vars, fields
<1>3. ASSUME NEW s \in Side,
             \/ Call(s) \/ Accept(s) \/ Decline(s) \/ PressEnd(s)
             \/ RingTimeout(s) \/ ShowIncoming(s)
             \/ \E o \in ops[s] : \/ Capture(s, o) \/ SendDescription(s, o)
                                  \/ Fail(s, o) \/ NoCall(s, o)
             \/ \E m \in relay : \/ ReceiveOffer(s, m) \/ ReceiveEnd(s, m)
                                 \/ Lose(m)
      PROVE  GatherFollow
  BY <1>1, <1>3 DEF Call, Accept, Decline, PressEnd, RingTimeout,
     ShowIncoming, Capture, SendDescription, Fail, NoCall, ReceiveOffer,
     ReceiveEnd, Lose, fields
\* All but the device itself stay as they are.
<1>4. ASSUME NEW s \in Side,
             \A t \in Side : t # s =>
                /\ callId'[t] = callId[t]
                /\ pc'[t] = pc[t]
                /\ outbox'[t] = outbox[t]
                /\ answered'[t] = answered[t],
             callId'[s] # None /\ Gathered(s)' =>
                /\ callId'[s] = callId[s]
                /\ \/ Waits(s)'
                   \/ Travels(s, callId[s])'
                   \/ Gathered(s) /\ ~Waits(s)
      PROVE  GatherFollow
  <2>1. \A t \in Side : t # s => (Gathered(t)' <=> Gathered(t))
                                 /\ (Waits(t)' <=> Waits(t))
    BY <1>4 DEF Gathered, Waits
  <2>2. QED
    BY <1>4, <2>1 DEF GatherFollow
<1>5. ASSUME NEW s \in Side, \E e \in ending[s] : FinishEnd(s, e)
      PROVE  GatherFollow
  <2>1. callId'[s] = None
    BY <1>a, <1>5 DEF FinishEnd, Reset, FieldTypes
  <2>2. QED
    BY <1>a, <1>4, <1>5, <2>1 DEF FinishEnd, Reset, FieldTypes
<1>6. ASSUME NEW s \in Side, NEW o \in ops[s],
             Claim(s, o) \/ SetKey(s, o) \/ CreatePc(s, o) \/ NoStream(s, o)
      PROVE  GatherFollow
  <2>1. ~Gathered(s)'
    <3>1. CASE Claim(s, o) \/ SetKey(s, o)
      BY <3>1 DEF Claim, SetKey, AllOK, DeviceOK, AtAwait, Gathered
    <3>2. CASE CreatePc(s, o)
      <4>1. pc'[s] = [NewPc(o.id) EXCEPT !.local = (o.kind = "call")]
        BY <1>a, <3>2 DEF CreatePc, FieldTypes
      <4>2. ~pc'[s].gathered
        BY <4>1 DEF NewPc
      <4>3. QED
        BY <4>2 DEF Gathered
    <3>3. CASE NoStream(s, o)
      BY <1>a, <3>3 DEF NoStream, FieldTypes, Gathered, NewPc
    <3>4. QED
      BY <1>6, <3>1, <3>2, <3>3
  <2>2. \A t \in Side : t # s => /\ callId'[t] = callId[t]
                                 /\ pc'[t] = pc[t]
                                 /\ outbox'[t] = outbox[t]
                                 /\ answered'[t] = answered[t]
    BY <1>a, <1>6 DEF Claim, SetKey, CreatePc, NoStream, FieldTypes
  <2>3. QED
    BY <1>4, <2>1, <2>2
<1>7. ASSUME NEW s \in Side,
             \/ \E o \in ops[s] : TakeOffer(s, o)
             \/ TakeAnswer(s)
             \/ \E m \in relay : ReceiveCandidate(s, m)
      PROVE  GatherFollow
  <2>1. UNCHANGED <<callId, outbox, answered>>
    BY <1>7 DEF TakeOffer, TakeAnswer, ReceiveCandidate
  <2>2. /\ \A t \in Side : t # s => pc'[t] = pc[t]
        /\ \/ pc'[s] = pc[s]
           \/ pc[s] # None /\ pc'[s] # None /\ pc'[s].gathered = pc[s].gathered
    BY <1>7, ConnectionSteps
  <2>3. (Gathered(s)' <=> Gathered(s)) /\ (Waits(s)' <=> Waits(s))
    BY <2>1, <2>2 DEF Gathered, Waits
  <2>4. QED
    BY <1>4, <2>1, <2>2, <2>3
<1>8. ASSUME NEW s \in Side, Gather(s)
      PROVE  GatherFollow
  <2>1. UNCHANGED <<callId, answered>> /\ pc[s] # None
    BY <1>8 DEF Gather
  <2>2. callId[s] # None => key[s] = callId[s]
    BY <2>1 DEF AllOK, DeviceOK, FieldsFit
  <2>3. CASE answered[s]
    <3>1. callId[s] # None => Travels(s, callId[s])'
      BY <1>8, <2>1, <2>2, <2>3 DEF Gather, CanSend, Send, Travels
    <3>2. QED
      BY <1>a, <1>4, <1>8, <2>1, <3>1, ConnectionSteps DEF Gather, FieldTypes
  <2>4. CASE ~answered[s]
    <3>1. Waits(s)'
      BY <1>a, <1>8, <2>1, <2>4 DEF Gather, FieldTypes, Waits
    <3>2. QED
      BY <1>a, <1>4, <1>8, <2>1, <3>1, ConnectionSteps DEF Gather, FieldTypes
  <2>5. QED
    BY <2>3, <2>4
<1>9. ASSUME NEW s \in Side, NEW m \in relay, ReceiveAnswer(s, m)
      PROVE  GatherFollow
  <2>1. CASE ~Current(s, m)
    BY <1>1, <1>9, <2>1 DEF ReceiveAnswer
  <2>2. CASE Current(s, m)
    <3>1. UNCHANGED <<callId, pc>> /\ (Gathered(s)' <=> Gathered(s))
      BY <1>9 DEF ReceiveAnswer, Gathered
    <3>2. outbox[s] => Travels(s, callId[s])'
      <4>1. key[s] = callId[s]
        BY <2>2, CurrentIs, SignalFields DEF Current
      <4>2. QED
        BY <1>9, <2>2, <4>1 DEF ReceiveAnswer, Travels
    <3>3. ~outbox[s] => ~Waits(s)
      BY DEF Waits
    <3>4. \A t \in Side : t # s => outbox'[t] = outbox[t] /\ answered'[t] = answered[t]
      BY <1>a, <1>9, <2>2 DEF ReceiveAnswer, FieldTypes
    <3>5. QED
      BY <1>4, <3>1, <3>2, <3>3, <3>4
  <2>3. QED
    BY <2>1, <2>2
<1>10. QED
  BY <1>2, <1>3, <1>5, <1>6, <1>7, <1>8, <1>9, Steps DEF Throws

LEMMA HasFollowStep ==
    ASSUME AllOK, [Next]_vars
    PROVE  HasFollow
<1>a. FieldTypes /\ RelayTypes
  BY TypeParts DEF CallTypes, AllOK, TInv
<1>1. ASSUME UNCHANGED <<candidates, ready, pc>>
      PROVE  HasFollow
  BY <1>1 DEF HasFollow, Has
<1>2. CASE UNCHANGED vars
  BY <1>1, <1>2 DEF vars, fields
<1>3. ASSUME NEW s \in Side,
             \/ Call(s) \/ Accept(s) \/ Decline(s) \/ PressEnd(s)
             \/ RingTimeout(s) \/ ShowIncoming(s)
             \/ \E o \in ops[s] : \/ Claim(s, o) \/ SetKey(s, o) \/ Capture(s, o)
                                  \/ SendDescription(s, o)
                                  \/ Fail(s, o) \/ NoCall(s, o)
             \/ \E m \in relay : \/ ReceiveOffer(s, m) \/ ReceiveAnswer(s, m)
                                 \/ ReceiveEnd(s, m) \/ Lose(m)
      PROVE  HasFollow
  BY <1>1, <1>3 DEF Call, Accept, Decline, PressEnd, RingTimeout,
     ShowIncoming, Claim, SetKey, Capture, SendDescription, Fail, NoCall,
     ReceiveOffer, ReceiveAnswer, ReceiveEnd, Lose, fields
<1>4. ASSUME NEW s \in Side, \E e \in ending[s] : FinishEnd(s, e)
      PROVE  HasFollow
  <2>1. callId'[s] = None
    BY <1>a, <1>4 DEF FinishEnd, Reset, FieldTypes
  <2>2. \A t \in Side : t # s => /\ candidates'[t] = candidates[t]
                                 /\ ready'[t] = ready[t]
                                 /\ pc'[t] = pc[t]
    BY <1>a, <1>4 DEF FinishEnd, Reset, FieldTypes
  <2>3. QED
    BY <2>1, <2>2 DEF HasFollow, Has
<1>5. ASSUME NEW s \in Side, NEW o \in ops[s], CreatePc(s, o) \/ NoStream(s, o)
      PROVE  HasFollow
  <2>1. pc[s] = None
    BY <1>5 DEF CreatePc, NoStream, AllOK, DeviceOK, AtAwait
  <2>2. /\ UNCHANGED <<candidates, ready>>
        /\ \A t \in Side : t # s => pc'[t] = pc[t]
    BY <1>a, <1>5 DEF CreatePc, NoStream, FieldTypes
  <2>3. QED
    BY <2>1, <2>2 DEF HasFollow, Has
<1>6. ASSUME NEW s \in Side,
             TakeAnswer(s) \/ \E o \in ops[s] : TakeOffer(s, o)
      PROVE  HasFollow
  <2>1. CASE UNCHANGED <<pc, ready, candidates>>
    BY <1>1, <2>1
  <2>2. CASE ~UNCHANGED <<pc, ready, candidates>>
    <3>1. /\ \A t \in Side : t # s => /\ pc'[t] = pc[t]
                                      /\ ready'[t] = ready[t]
                                      /\ candidates'[t] = candidates[t]
          /\ pc'[s] # None
          /\ pc[s] # None
          /\ pc'[s].added = (pc[s].added \/ candidates[s])
      BY <1>6, <2>2, ConnectionSteps
    <3>2. QED
      BY <3>1 DEF HasFollow, Has
  <2>3. QED
    BY <2>1, <2>2
<1>7. ASSUME NEW s \in Side, Gather(s)
      PROVE  HasFollow
  <2>1. UNCHANGED <<candidates, ready>>
    BY <1>7 DEF Gather
  <2>2. QED
    BY <1>7, <2>1, ConnectionSteps DEF HasFollow, Has
<1>8. ASSUME NEW s \in Side, NEW m \in relay, ReceiveCandidate(s, m)
      PROVE  HasFollow
  <2>1. UNCHANGED ready /\ (candidates[s] => candidates'[s])
    BY <1>a, <1>8 DEF ReceiveCandidate, FieldTypes
  <2>2. /\ \A t \in Side : t # s => pc'[t] = pc[t] /\ candidates'[t] = candidates[t]
        /\ pc' = pc \/ (pc'[s] # None /\ pc'[s].added)
    BY <1>8, ConnectionSteps
  <2>3. QED
    BY <2>1, <2>2 DEF HasFollow, Has
<1>9. QED
  BY <1>2, <1>3, <1>4, <1>5, <1>6, <1>7, <1>8, Steps DEF Throws

LEMMA TravelFollowStep ==
    ASSUME AllOK, [Next]_vars
    PROVE  TravelFollow
<1>a. FieldTypes /\ RelayTypes
  BY TypeParts DEF CallTypes, AllOK, TInv
<1>1. ASSUME relay \cup lost \subseteq relay' \cup lost'
      PROVE  TravelFollow
  BY <1>1 DEF TravelFollow, Travels
<1>2. CASE UNCHANGED vars
  BY <1>1, <1>2 DEF vars
<1>3. ASSUME NEW s \in Side,
             \/ Call(s) \/ Accept(s) \/ Decline(s) \/ PressEnd(s)
             \/ RingTimeout(s) \/ ShowIncoming(s) \/ TakeAnswer(s) \/ Gather(s)
             \/ \E e \in ending[s] : FinishEnd(s, e)
      PROVE  TravelFollow
  <2>1. relay \subseteq relay' /\ lost' = lost
    BY <1>3 DEF Call, Accept, Decline, PressEnd, RingTimeout, ShowIncoming,
       TakeAnswer, Gather, FinishEnd, PopScreen, BeginEnd, Send
  <2>2. QED
    BY <1>1, <2>1
<1>4. ASSUME NEW s \in Side, NEW o \in ops[s], UNCHANGED lost,
             \/ Claim(s, o) \/ SetKey(s, o) \/ Capture(s, o) \/ CreatePc(s, o)
             \/ TakeOffer(s, o) \/ SendDescription(s, o) \/ Throws(s, o)
      PROVE  TravelFollow
  <2>1. relay \subseteq relay'
    BY <1>4 DEF Claim, SetKey, Capture, CreatePc, TakeOffer, SendDescription,
       Throws, Fail, NoStream, NoCall, Throw, ThrowCall, ThrowAccept, BeginEnd,
       Send, aside
  <2>2. QED
    BY <1>1, <1>4, <2>1
<1>5. ASSUME NEW s \in Side, NEW m \in relay,
             \/ ReceiveOffer(s, m) \/ ReceiveAnswer(s, m) \/ ReceiveEnd(s, m)
      PROVE  TravelFollow
  <2>1. relay \ {m} \subseteq relay' /\ lost' = lost /\ m.type # "ice-candidate"
    BY <1>5 DEF ReceiveOffer, ReceiveAnswer, ReceiveEnd, Arrives, Take
  <2>2. \A p, c : Signal("ice-candidate", c, c, p) # m
    BY <2>1, SignalFields
  <2>3. QED
    BY <2>1, <2>2 DEF TravelFollow, Travels
<1>6. ASSUME NEW s \in Side, NEW m \in relay, ReceiveCandidate(s, m)
      PROVE  TravelFollow
  <2>1. relay' = relay \ {m} /\ lost' = lost /\ m.from = Peer(s)
    BY <1>6 DEF ReceiveCandidate, Arrives, Take
  <2>2. SUFFICES ASSUME NEW p \in Side, NEW c \in CallId, Travels(p, c),
                        ~Travels(p, c)', callId[Peer(p)] = c, key[Peer(p)] = c
                 PROVE  Has(Peer(p))'
    BY DEF TravelFollow
  <2>3. m = Signal("ice-candidate", c, c, p)
    BY <2>1, <2>2 DEF Travels
  <2>4. Peer(p) = s /\ m.id = c /\ m.key = c
    BY <2>1, <2>3, SignalFields, PeerFacts
  <2>5. Current(s, m)
    BY <2>2, <2>4 DEF Current
  <2>6. UNCHANGED ready
    BY <1>6 DEF ReceiveCandidate
  <2>7. CASE ~ready[s]
    <3>1. candidates'[s]
      BY <1>a, <1>6, <2>5, <2>7 DEF ReceiveCandidate, FieldTypes
    <3>2. QED
      BY <2>4, <2>6, <2>7, <3>1 DEF Has
  <2>8. CASE ready[s]
    <3>1. pc[s] # None /\ pc[s].remote
      BY <2>8 DEF AllOK, DeviceOK, FieldsFit
    <3>2. pc' = [pc EXCEPT ![s].added = TRUE]
      BY <1>6, <2>5, <2>8, <3>1 DEF ReceiveCandidate
    <3>3. pc[s] \in Connections /\ pc'[s] = [pc[s] EXCEPT !.added = TRUE]
      BY <1>a, <3>1, <3>2 DEF FieldTypes
    <3>4. pc'[s] \in Connections /\ pc'[s].added
      BY <3>3 DEF Connections
    <3>5. QED
      BY <2>4, <3>4, ConnectionIsSome DEF Has
  <2>9. QED
    BY <2>7, <2>8
<1>7. ASSUME NEW m \in relay, Lose(m)
      PROVE  TravelFollow
  <2>1. /\ relay' = relay \ {m}
        /\ lost' = lost \cup ({m} \cap Candidates)
    BY <1>7 DEF Lose
  <2>2. \A p \in Side, c \in CallId : Signal("ice-candidate", c, c, p) \in Candidates
    BY DEF Candidates
  <2>3. QED
    BY <2>1, <2>2 DEF TravelFollow, Travels
<1>8. QED
  BY <1>2, <1>3, <1>4, <1>5, <1>6, <1>7, Steps

LEMMA LostGrows ==
    ASSUME [Next]_vars
    PROVE  lost \subseteq lost'
<1>1. ASSUME NEW s \in Side,
             \/ Call(s) \/ Accept(s) \/ Decline(s) \/ PressEnd(s)
             \/ RingTimeout(s) \/ ShowIncoming(s) \/ TakeAnswer(s) \/ Gather(s)
             \/ \E e \in ending[s] : FinishEnd(s, e)
             \/ \E m \in relay : \/ ReceiveOffer(s, m) \/ ReceiveAnswer(s, m)
                                 \/ ReceiveCandidate(s, m) \/ ReceiveEnd(s, m)
      PROVE  lost' = lost
  BY <1>1 DEF Call, Accept, Decline, PressEnd, RingTimeout, ShowIncoming,
     TakeAnswer, Gather, FinishEnd, ReceiveOffer, ReceiveAnswer,
     ReceiveCandidate, ReceiveEnd
<1>2. ASSUME NEW m \in relay, Lose(m)
      PROVE  lost \subseteq lost'
  BY <1>2 DEF Lose
<1>3. UNCHANGED vars => lost' = lost
  BY DEF vars
<1>4. QED
  BY <1>1, <1>2, <1>3, Steps

LEMMA KeptStep ==
    ASSUME AllOK, WayOK, [Next]_vars, NEW p \in Side, NEW c \in CallId, Kept(p, c)
    PROVE  Kept(p, c)'
<1>1. SUFFICES ASSUME callId'[p] = c, Gathered(p)', ~Waits(p)', ~Travels(p, c)'
               PROVE  /\ Entered(Peer(p), c)'
                      /\ callId'[Peer(p)] = c => Has(Peer(p))'
  BY DEF Kept
<1> DEFINE s == Peer(p)
<1>2. s \in Side /\ Peer(s) = p
  BY PeerFacts
<1>3. c # None
  BY CallsAssumption
<1>4. Follows /\ GatherFollow /\ TravelFollow /\ HasFollow
  BY WayKept, GatherFollowStep, TravelFollowStep, HasFollowStep
<1>5. FieldTypes /\ RunTypes /\ RelayTypes /\ RunTypes'
  BY TypeParts, TypesKept, TypePartsNext DEF CallTypes, AllOK, TInv
<1> HIDE DEF s
<1>6. callId[p] = c /\ Gathered(p) /\ ~Waits(p)
  BY <1>1, <1>3, <1>4 DEF GatherFollow
<1>7. Entered(s, c)
  <2>1. CASE Travels(p, c) /\ Signal("ice-candidate", c, c, p) \in relay
    BY <1>2, <2>1 DEF WayOK, HeardEntered
  <2>2. CASE ~Travels(p, c)
    BY <1>6, <2>2 DEF Kept, s
  <2>3. CASE Signal("ice-candidate", c, c, p) \in lost
    BY <1>1, <2>3, LostGrows DEF Travels
  <2>4. QED
    BY <2>1, <2>2, <2>3 DEF Travels
<1>8. Entered(s, c)'
  BY <1>2, <1>4, <1>5, <1>7, EnteredKept DEF WayOK
<1>9. ASSUME callId'[s] = c
      PROVE  Has(s)'
  <2>1. callId[s] = c
    BY <1>2, <1>3, <1>4, <1>7, <1>9 DEF Follows, FieldsFollow, Entered, Coming
  <2>2. key[s] = c
    BY <1>7, <2>1 DEF Entered
  <2>3. CASE Travels(p, c)
    BY <1>1, <1>4, <2>1, <2>2, <2>3 DEF TravelFollow, s
  <2>4. CASE ~Travels(p, c)
    <3>1. Has(s)
      BY <1>6, <2>1, <2>4 DEF Kept, s
    <3>2. QED
      BY <1>2, <1>3, <1>4, <1>9, <2>1, <3>1 DEF HasFollow
  <2>5. QED
    BY <2>3, <2>4
<1>10. QED
  BY <1>8, <1>9 DEF s

\* No client drops a candidate of a call that both are in, whatever order
\* offer, answer and candidates arrive in, and whichever get lost, as long as
\* all goes orderly on both devices.
THEOREM CandidatesKept == Spec => []CandidateKept
<1>1. Init => CInv
  <2>1. Init => DInv /\ WayOK
    BY InitTypes, InitDevice, InitWay DEF DInv
  <2>2. Init => \A p \in Side, c \in CallId : Kept(p, c)
    BY CallsAssumption DEF Init, Kept
  <2>3. QED
    BY <2>1, <2>2 DEF CInv
<1>2. CInv /\ [Next]_vars => CInv'
  <2>1. SUFFICES ASSUME CInv, [Next]_vars
                 PROVE  CInv'
    OBVIOUS
  <2>2. DInv'
    BY <2>1, DeviceKept DEF CInv
  <2>3. ASSUME AllOrderly'
        PROVE  WayOK' /\ \A p \in Side, c \in CallId : Kept(p, c)'
    <3>1. AllOrderly
      BY <2>1, <2>3, OrderlyBefore DEF CInv, DInv, AllOrderly
    <3>2. AllOK /\ WayOK /\ \A p \in Side, c \in CallId : Kept(p, c)
      BY <2>1, <3>1 DEF CInv, DInv, AllOK, AllOrderly
    <3>3. QED
      BY <2>1, <3>2, WayKept, KeptStep
  <2>4. QED
    BY <2>2, <2>3 DEF CInv
<1>3. CInv => CandidateKept
  <2>1. SUFFICES ASSUME CInv, AllOrderly, NEW s \in Side, NEW c \in CallId,
                        Shared(s, c), pc[Peer(s)].gathered
                 PROVE  \/ outbox[Peer(s)] /\ ~answered[Peer(s)]
                        \/ Signal("ice-candidate", c, c, Peer(s)) \in relay \cup lost
                        \/ candidates[s] /\ ~ready[s]
                        \/ pc[s].added
    BY DEF CandidateKept, AllOrderly
  <2>2. Peer(s) \in Side /\ Peer(Peer(s)) = s
    BY PeerFacts
  <2>3. /\ callId[Peer(s)] = c /\ Gathered(Peer(s))
        /\ callId[s] = c
    BY <2>1, <2>2 DEF Shared, Gathered
  <2>4. Kept(Peer(s), c)
    BY <2>1, <2>2 DEF CInv
  <2>5. QED
    BY <2>2, <2>3, <2>4 DEF Kept, Waits, Travels, Has
<1>4. QED
  BY <1>1, <1>2, <1>3, PTL DEF Spec

=============================================================================
