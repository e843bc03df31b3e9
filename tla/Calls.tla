--------------------------------- MODULE Calls ---------------------------------
(***************************************************************************)
(* Calls between the devices of two accounts: CallService with the two     *)
(* screens that drive it, CallScreen and the call dialog of HomeShell.     *)
(*                                                                         *)
(* call(), accept() and end() are sequences of awaited steps over shared   *)
(* fields; they interleave with each other, with the handling of signals,  *)
(* which is serial on a device, and with the ring timer.  An operation is  *)
(* "at" the step it runs when its await returns; it may fail there (no     *)
(* server, locked identity, refused microphone), and it fails when a field *)
(* it needs has been reset meanwhile.                                      *)
(*                                                                         *)
(* The relay (Signaling) handles messages of one socket at the same time,  *)
(* so signals overtake each other; those of an unseated sender or receiver *)
(* are dropped.  What is sent without a socket is lost like them, or makes *)
(* the operation that sends it fail.  Each side gathers one ICE candidate  *)
(* per call.  The peer is verified and in the conversation; envelopes of   *)
(* another call or sender do not open.                                     *)
(***************************************************************************)
EXTENDS Integers, FiniteSets

CONSTANTS
    Side,      \* the two devices
    CallId,    \* call ids; one is drawn for each CallScreen of an outgoing call
    Scenarios, \* bound: what users and network may do in one behaviour
    None

ASSUME CallsAssumption ==
    /\ IsFiniteSet(Side) /\ Cardinality(Side) = 2
    /\ Scenarios \subseteq
           [ calls : [Side -> SUBSET CallId], patient : SUBSET Side,
             enders : SUBSET Side, failing : SUBSET Side,
             online : SUBSET Side, lossy : BOOLEAN ]
    /\ None \notin CallId
    /\ None \notin [id : CallId, at : {"dialog", "accepting", "screen", "failed"}]
    /\ None \notin [ call : CallId, local : BOOLEAN, remote : BOOLEAN,
                     gathered : BOOLEAN, added : BOOLEAN ]

VARIABLES
    drawn,      \* call ids in use
    callId,     \* _callId
    key,        \* _signalKey: the call it was derived for
    answered,   \* _peerAnswered
    outbox,     \* _candidateOutbox holds the own candidate
    ready,      \* _remoteReady
    candidates, \* _candidates holds the peer's candidate
    local,      \* _local: the call its stream was captured for
    live,       \* streams whose tracks run
    pc,         \* _pc
    timer,      \* _ringTimeout is running
    ops,        \* running call() and accept()
    ending,     \* running end(), by who called it
    handling,   \* the signal _handle waits with
    calling,    \* the outgoing call whose CallScreen is shown
    incoming,   \* the incoming call HomeShell shows
    relay,      \* signals on their way
    lost,       \* candidates the relay dropped
    abandoned,  \* history: calls whose call() threw after their screen was gone
    rushed,     \* history: an operation started before another one was through
    scenario    \* the calls each device starts, where the user waits with
                \* the next operation and where the user ends calls, where
                \* operations fail, whether it is there to receive signals,
                \* whether signals get lost

fields == <<callId, key, answered, outbox, ready, candidates, local, pc, timer>>
screens == <<calling, incoming>>
history == <<abandoned, rushed>>
vars == <<drawn, fields, live, ops, ending, handling, screens, relay,
          lost, history, scenario>>

Init ==
    /\ drawn = {}
    /\ callId = [s \in Side |-> None]
    /\ key = [s \in Side |-> None]
    /\ answered = [s \in Side |-> FALSE]
    /\ outbox = [s \in Side |-> FALSE]
    /\ ready = [s \in Side |-> FALSE]
    /\ candidates = [s \in Side |-> FALSE]
    /\ local = [s \in Side |-> None]
    /\ live = [s \in Side |-> {}]
    /\ pc = [s \in Side |-> None]
    /\ timer = [s \in Side |-> FALSE]
    /\ ops = [s \in Side |-> {}]
    /\ ending = [s \in Side |-> {}]
    /\ handling = [s \in Side |-> None]
    /\ calling = [s \in Side |-> None]
    /\ incoming = [s \in Side |-> None]
    /\ relay = {}
    /\ lost = {}
    /\ abandoned = [s \in Side |-> {}]
    /\ rushed = [s \in Side |-> FALSE]
    /\ scenario \in Scenarios

Peer(s) == CHOOSE t \in Side : t # s

\* Mutation: call id and sender are mixed up.
SignalSwapped(type, c, k, s) == [type |-> type, id |-> s, key |-> k, from |-> c]

\* A signal of call c, sealed with the key of call k.
Signal(type, c, k, s) == [type |-> type, id |-> c, key |-> k, from |-> s]

\* A new peer connection: are the local and the remote description set, was
\* the own candidate gathered and the peer's one added.
NewPc(c) == [call |-> c, local |-> FALSE, remote |-> FALSE,
             gathered |-> FALSE, added |-> FALSE]

Shows(s, at) == incoming[s] # None /\ incoming[s].at = at

\* _send has what it needs; it takes the call that is current by then.
CanSend(s) == callId[s] # None /\ key[s] # None
Send(s, type) == relay' = relay \cup {Signal(type, callId[s], key[s], s)}

-----------------------------------------------------------------------------
\* end()

\* The tracks of a stream stop, or the stream is disposed.
Stop(s) == live' = [live EXCEPT ![s] = @ \ {local[s]}]

\* An end(): who called it, for which call, and the stream it found.
End(s, by, c) == [by |-> by, id |-> c, stream |-> local[s]]

\* end() up to its awaits: the call-end is sent, the tracks are stopped.
BeginEnd(s, by, c, notify) ==
    /\ ending' = [ending EXCEPT ![s] = @ \cup {End(s, by, c)}]
    /\ Stop(s)
    /\ IF notify /\ CanSend(s) THEN Send(s, "call-end") ELSE UNCHANGED relay

\* Mutation: the candidates received are not cleared.
ResetSome(s) ==
    /\ callId' = [callId EXCEPT ![s] = None]
    /\ key' = [key EXCEPT ![s] = None]
    /\ answered' = [answered EXCEPT ![s] = FALSE]
    /\ outbox' = [outbox EXCEPT ![s] = FALSE]
    /\ local' = [local EXCEPT ![s] = None]
    /\ pc' = [pc EXCEPT ![s] = None]
    /\ timer' = [timer EXCEPT ![s] = FALSE]
    /\ UNCHANGED <<ready, candidates>>

Reset(s) ==
    /\ callId' = [callId EXCEPT ![s] = None]
    /\ key' = [key EXCEPT ![s] = None]
    /\ answered' = [answered EXCEPT ![s] = FALSE]
    /\ outbox' = [outbox EXCEPT ![s] = FALSE]
    /\ ready' = [ready EXCEPT ![s] = FALSE]
    /\ candidates' = [candidates EXCEPT ![s] = FALSE]
    /\ local' = [local EXCEPT ![s] = None]
    /\ pc' = [pc EXCEPT ![s] = None]
    /\ timer' = [timer EXCEPT ![s] = FALSE]

\* reject() seals its call-end with the key of the call it refuses.
Refusal(s) == Signal("call-end", incoming[s].id, incoming[s].id, s)

\* Navigator.pop takes the topmost screen away; a dialog counts as declined.
PopScreen(s) ==
    /\ incoming' = IF Shows(s, "dialog") \/ Shows(s, "screen")
                   THEN [incoming EXCEPT ![s] = None] ELSE incoming
    /\ calling' = IF Shows(s, "dialog") \/ Shows(s, "screen")
                  THEN calling ELSE [calling EXCEPT ![s] = None]
    /\ relay' = IF Shows(s, "dialog") THEN relay \cup {Refusal(s)} ELSE relay

\* The rest of end(): stream and connection are closed, whichever they are
\* by now, and forgotten; a stream that came while end() was closing another
\* one may be forgotten only.  The screen whose button was pressed is popped;
\* after a failed accept() HomeShell takes incoming calls again.
FinishEnd(s, e) ==
    /\ e \in ending[s]
    /\ ending' = [ending EXCEPT ![s] = @ \ {e}]
    /\ \/ Stop(s)
       \/ e.stream # None /\ local[s] # e.stream /\ UNCHANGED live
    /\ Reset(s)
    /\ CASE e.by = "user" -> PopScreen(s)
         [] e.by = "op" /\ Shows(s, "failed") /\ incoming[s].id = e.id ->
               /\ incoming' = [incoming EXCEPT ![s] = None]
               /\ UNCHANGED <<calling, relay>>
         [] OTHER -> UNCHANGED <<screens, relay>>
    /\ handling' = IF e.by = "peer" THEN [handling EXCEPT ![s] = None] ELSE handling
    /\ UNCHANGED <<drawn, ops, lost, history>>

\* The End button of a CallScreen, or its back gesture.
PressEnd(s) ==
    /\ s \in scenario.enders
    /\ Shows(s, "screen") \/ (calling[s] # None /\ ~Shows(s, "dialog"))
    /\ \A e \in ending[s] : e.by # "user"
    /\ BeginEnd(s, "user", callId[s], TRUE)
    /\ UNCHANGED <<drawn, fields, ops, handling, screens, lost, history>>

\* Nobody answered within 60 seconds.
RingTimeout(s) ==
    /\ timer[s]
    /\ timer' = [timer EXCEPT ![s] = FALSE]
    /\ BeginEnd(s, "timer", callId[s], TRUE)
    /\ UNCHANGED <<drawn, callId, key, answered, outbox, ready, candidates,
                   local, pc, ops, handling, screens, lost, history>>

-----------------------------------------------------------------------------
\* call() and accept()

Op(kind, c) == [kind |-> kind, id |-> c, at |-> "peer"]
Move(s, o, at) == ops' = [ops EXCEPT ![s] = (@ \ {o}) \cup {[o EXCEPT !.at = at]}]
Done(s, o) == ops' = [ops EXCEPT ![s] = @ \ {o}]

Busy(s) == ops[s] # {} \/ ending[s] # {}

\* The code lets a user start an operation while another one is not through
\* yet; a patient user does not.
Start(s) ==
    /\ s \in scenario.patient => ~Busy(s)
    /\ rushed' = [rushed EXCEPT ![s] = @ \/ Busy(s)]

\* A CallScreen opens and calls.  What call() throws makes it end() whatever
\* call there is.
Call(s) ==
    /\ calling[s] = None
    /\ ~Shows(s, "dialog") /\ ~Shows(s, "screen")
    /\ \E c \in scenario.calls[s] \ drawn :
          /\ drawn' = drawn \cup {c}
          /\ calling' = [calling EXCEPT ![s] = c]
          /\ \/ /\ callId[s] = None
                /\ ops' = [ops EXCEPT ![s] = @ \cup {Op("call", c)}]
                /\ UNCHANGED <<live, ending, relay>>
             \/ /\ callId[s] # None
                /\ BeginEnd(s, "op", c, FALSE)
                /\ UNCHANGED ops
    /\ Start(s)
    /\ UNCHANGED <<fields, handling, incoming, lost, abandoned>>

\* The user accepts in the dialog.
Accept(s) ==
    /\ Shows(s, "dialog")
    /\ \/ /\ callId[s] = None
          /\ incoming' = [incoming EXCEPT ![s].at = "accepting"]
          /\ ops' = [ops EXCEPT ![s] = @ \cup {Op("accept", incoming[s].id)}]
          /\ UNCHANGED <<live, ending, relay>>
       \/ /\ callId[s] # None
          /\ incoming' = [incoming EXCEPT ![s].at = "failed"]
          /\ BeginEnd(s, "op", incoming[s].id, FALSE)
          /\ UNCHANGED ops
    /\ Start(s)
    /\ UNCHANGED <<drawn, fields, handling, calling, lost, abandoned>>

\* The user declines: reject() tells the caller, unless a call is active.
Decline(s) ==
    /\ Shows(s, "dialog")
    /\ incoming' = [incoming EXCEPT ![s] = None]
    /\ relay' = IF callId[s] = None THEN relay \cup {Refusal(s)} ELSE relay
    /\ UNCHANGED <<drawn, fields, live, ops, ending, handling, calling,
                   lost, history>>

aside == <<ending, incoming, relay, abandoned>>

\* After _peer, and ensureConnected in call().
Claim(s, o) ==
    /\ o.at = "peer"
    /\ callId' = [callId EXCEPT ![s] = o.id]
    /\ Move(s, o, "key")
    /\ UNCHANGED <<key, answered, outbox, ready, candidates, local, pc, timer,
                   live, aside>>

\* After _key.  accept() counts the peer as answered.
SetKey(s, o) ==
    /\ o.at = "key"
    /\ key' = [key EXCEPT ![s] = o.id]
    /\ answered' = [answered EXCEPT ![s] = @ \/ o.kind = "accept"]
    /\ Move(s, o, "media")
    /\ UNCHANGED <<callId, outbox, ready, candidates, local, pc, timer, live, aside>>

\* After getUserMedia.
Capture(s, o) ==
    /\ o.at = "media"
    /\ local' = [local EXCEPT ![s] = o.id]
    /\ live' = [live EXCEPT ![s] = @ \cup {o.id}]
    /\ Move(s, o, "pc")
    /\ UNCHANGED <<callId, key, answered, outbox, ready, candidates, pc, timer,
                   aside>>

\* After createPeerConnection and, in call(), setLocalDescription; adding the
\* tracks needs the stream.
CreatePc(s, o) ==
    /\ o.at = "pc"
    /\ local[s] # None
    /\ pc' = [pc EXCEPT ![s] = [NewPc(o.id) EXCEPT !.local = (o.kind = "call")]]
    /\ Move(s, o, IF o.kind = "call" THEN "send" ELSE "offer")
    /\ UNCHANGED <<callId, key, answered, outbox, ready, candidates, local,
                   timer, live, aside>>

\* accept(), after setRemoteDescription: the waiting candidates are added,
\* the answer is set.
TakeOffer(s, o) ==
    /\ o.at = "offer"
    /\ pc[s] # None
    /\ pc' = [pc EXCEPT ![s].remote = TRUE, ![s].local = TRUE,
                        ![s].added = @ \/ candidates[s]]
    /\ ready' = [ready EXCEPT ![s] = TRUE]
    /\ candidates' = [candidates EXCEPT ![s] = FALSE]
    /\ Move(s, o, "send")
    /\ UNCHANGED <<callId, key, answered, outbox, local, timer, live, aside>>

\* Mutation: an offer starts no timer.
SendDescriptionOnly(s, o) ==
    /\ o.at = "send"
    /\ CanSend(s)
    /\ Send(s, IF o.kind = "call" THEN "offer" ELSE "answer")
    /\ incoming' = IF o.kind = "accept"
                   THEN [incoming EXCEPT ![s].at = "screen"] ELSE incoming
    /\ Done(s, o)
    /\ UNCHANGED <<fields, live, ending, abandoned>>

\* The offer starts the ring timer; after the answer the CallScreen opens.
SendDescription(s, o) ==
    /\ o.at = "send"
    /\ CanSend(s)
    /\ Send(s, IF o.kind = "call" THEN "offer" ELSE "answer")
    /\ timer' = [timer EXCEPT ![s] = @ \/ o.kind = "call"]
    /\ incoming' = IF o.kind = "accept"
                   THEN [incoming EXCEPT ![s].at = "screen"] ELSE incoming
    /\ Done(s, o)
    /\ UNCHANGED <<callId, key, answered, outbox, ready, candidates, local, pc,
                   live, ending, abandoned>>

\* What call() throws makes its CallScreen call end(); a screen that was
\* popped meanwhile cannot read callServiceProvider any more, and throws
\* itself.
ThrowCall(s, o) ==
    /\ o.kind = "call"
    /\ \/ /\ calling[s] = o.id
          /\ BeginEnd(s, "op", o.id, FALSE)
          /\ UNCHANGED abandoned
       \/ /\ calling[s] # o.id
          /\ abandoned' = [abandoned EXCEPT ![s] = @ \cup {o.id}]
          /\ UNCHANGED <<live, ending, relay>>
    /\ UNCHANGED incoming

\* What accept() throws makes HomeShell call end().
ThrowAccept(s, o) ==
    /\ o.kind = "accept"
    /\ incoming' = [incoming EXCEPT ![s].at = "failed"]
    /\ BeginEnd(s, "op", o.id, FALSE)
    /\ UNCHANGED abandoned

Throw(s, o) == Done(s, o) /\ (ThrowCall(s, o) \/ ThrowAccept(s, o))

\* An await throws.
Fail(s, o) ==
    /\ s \in scenario.failing
    /\ Throw(s, o)
    /\ UNCHANGED fields

\* The stream is gone when the peer connection has come.
NoStream(s, o) ==
    /\ o.at = "pc"
    /\ local[s] = None
    /\ pc' = [pc EXCEPT ![s] = NewPc(o.id)]
    /\ Throw(s, o)
    /\ UNCHANGED <<callId, key, answered, outbox, ready, candidates, local, timer>>

\* The connection was closed, or there is nothing to send with any more.
NoCall(s, o) ==
    /\ \/ o.at = "offer" /\ pc[s] = None
       \/ o.at = "send" /\ ~CanSend(s)
    /\ Throw(s, o)
    /\ UNCHANGED fields

OpStep(s) ==
    /\ \E o \in ops[s] :
          \/ Claim(s, o) \/ SetKey(s, o) \/ Capture(s, o) \/ CreatePc(s, o)
          \/ TakeOffer(s, o) \/ SendDescription(s, o)
          \/ Fail(s, o) \/ NoStream(s, o) \/ NoCall(s, o)
    /\ UNCHANGED <<drawn, handling, calling, lost, rushed>>

-----------------------------------------------------------------------------
\* Signals

\* Mutation: candidates are sent before the peer has answered.
GatherAndSend(s) ==
    /\ pc[s] # None
    /\ pc[s].local
    /\ ~pc[s].gathered
    /\ pc' = [pc EXCEPT ![s].gathered = TRUE]
    /\ IF CanSend(s) THEN Send(s, "ice-candidate") ELSE UNCHANGED relay
    /\ UNCHANGED <<drawn, callId, key, answered, outbox, ready, candidates,
                   local, timer, live, ops, ending, handling, screens, lost,
                   history>>

\* onIceCandidate: until the peer has answered the candidate waits.
Gather(s) ==
    /\ pc[s] # None
    /\ pc[s].local
    /\ ~pc[s].gathered
    /\ pc' = [pc EXCEPT ![s].gathered = TRUE]
    /\ outbox' = [outbox EXCEPT ![s] = @ \/ ~answered[s]]
    /\ IF answered[s] /\ CanSend(s) THEN Send(s, "ice-candidate")
       ELSE UNCHANGED relay
    /\ UNCHANGED <<drawn, callId, key, answered, ready, candidates, local,
                   timer, live, ops, ending, handling, screens, lost,
                   history>>

\* _handle gets the next signal.
Arrives(s, m, type) ==
    /\ s \in scenario.online
    /\ m \in relay
    /\ m.from = Peer(s)
    /\ m.type = type
    /\ handling[s] = None

Take(m) == relay' = relay \ {m}

\* The signal belongs to the current call, and its envelope opens.
Current(s, m) == m.id = callId[s] /\ m.key = key[s]

\* An offer while no call is active is opened with the key of its call, which
\* takes a while.
ReceiveOffer(s, m) ==
    /\ Arrives(s, m, "offer")
    /\ Take(m)
    /\ handling' = IF callId[s] = None /\ m.key = m.id
                   THEN [handling EXCEPT ![s] = m] ELSE handling
    /\ UNCHANGED <<drawn, fields, live, ops, ending, screens, lost,
                   history>>

\* The dialog comes up, unless there is another one or its call screen.
ShowIncoming(s) ==
    /\ handling[s] # None
    /\ handling[s].type = "offer"
    /\ handling' = [handling EXCEPT ![s] = None]
    /\ incoming' = IF incoming[s] = None
                   THEN [incoming EXCEPT ![s] =
                            [id |-> handling[s].id, at |-> "dialog"]]
                   ELSE incoming
    /\ UNCHANGED <<drawn, fields, live, ops, ending, calling, relay, lost,
                   history>>

\* The answer: the timer stops and the waiting candidate is sent, while the
\* remote description is being set.
ReceiveAnswer(s, m) ==
    /\ Arrives(s, m, "answer")
    /\ IF Current(s, m)
       THEN /\ timer' = [timer EXCEPT ![s] = FALSE]
            /\ answered' = [answered EXCEPT ![s] = TRUE]
            /\ outbox' = [outbox EXCEPT ![s] = FALSE]
            /\ relay' = (relay \ {m}) \cup
                   (IF outbox[s] THEN {Signal("ice-candidate", callId[s], key[s], s)}
                    ELSE {})
            /\ handling' = [handling EXCEPT ![s] = m]
       ELSE Take(m) /\ UNCHANGED <<timer, answered, outbox, handling>>
    /\ UNCHANGED <<drawn, callId, key, ready, candidates, local, pc, live,
                   ops, ending, screens, lost,
                   history>>

\* After setRemoteDescription, which fails when the connection was closed.
TakeAnswer(s) ==
    /\ handling[s] # None
    /\ handling[s].type = "answer"
    /\ handling' = [handling EXCEPT ![s] = None]
    /\ IF pc[s] # None
       THEN /\ pc' = [pc EXCEPT ![s].remote = TRUE,
                                ![s].added = @ \/ candidates[s]]
            /\ ready' = [ready EXCEPT ![s] = TRUE]
            /\ candidates' = [candidates EXCEPT ![s] = FALSE]
       ELSE UNCHANGED <<pc, ready, candidates>>
    /\ UNCHANGED <<drawn, callId, key, answered, outbox, local, timer, live,
                   ops, ending, screens, relay, lost, history>>

\* A candidate waits for the remote description; without one the connection
\* does not take it.
ReceiveCandidate(s, m) ==
    /\ Arrives(s, m, "ice-candidate")
    /\ Take(m)
    /\ candidates' = [candidates EXCEPT ![s] = @ \/ (Current(s, m) /\ ~ready[s])]
    /\ pc' = IF Current(s, m) /\ ready[s] /\ pc[s] # None /\ pc[s].remote
             THEN [pc EXCEPT ![s].added = TRUE] ELSE pc
    /\ UNCHANGED <<drawn, callId, key, answered, outbox, ready, local, timer,
                   live, ops, ending, handling, screens, lost,
                   history>>

\* A call-end of the current call ends it; one that comes while the dialog
\* is up is forgotten.
ReceiveEnd(s, m) ==
    /\ Arrives(s, m, "call-end")
    /\ Take(m)
    /\ IF Current(s, m)
       THEN /\ handling' = [handling EXCEPT ![s] = m]
            /\ ending' = [ending EXCEPT ![s] = @ \cup {End(s, "peer", m.id)}]
            /\ Stop(s)
       ELSE UNCHANGED <<handling, ending, live>>
    /\ UNCHANGED <<drawn, fields, ops, screens, lost,
                   history>>

Receive(s) ==
    \E m \in relay : \/ ReceiveOffer(s, m) \/ ReceiveAnswer(s, m)
                     \/ ReceiveCandidate(s, m) \/ ReceiveEnd(s, m)

Candidates == {Signal("ice-candidate", c, c, s) : c \in CallId, s \in Side}

\* The relay drops a signal: sender or receiver is not seated.
Lose(m) ==
    /\ scenario.lossy
    /\ relay' = relay \ {m}
    /\ lost' = lost \cup ({m} \cap Candidates)
    /\ UNCHANGED <<drawn, fields, live, ops, ending, handling, screens,
                   history>>

-----------------------------------------------------------------------------

Next ==
    /\ \/ \E s \in Side :
             \/ Call(s) \/ Accept(s) \/ Decline(s) \/ PressEnd(s)
             \/ OpStep(s)
             \/ RingTimeout(s)
             \/ \E e \in ending[s] : FinishEnd(s, e)
             \/ Gather(s) \/ Receive(s) \/ ShowIncoming(s) \/ TakeAnswer(s)
       \/ \E m \in relay : Lose(m)
    /\ UNCHANGED scenario

Spec == Init /\ [][Next]_vars

\* Awaits return, with a result or an error, and the timer fires.
Fairness ==
    \A s \in Side :
        /\ WF_vars(UNCHANGED scenario /\ OpStep(s))
        /\ WF_vars(UNCHANGED scenario /\ \E e \in ending[s] : FinishEnd(s, e))
        /\ WF_vars(UNCHANGED scenario /\ RingTimeout(s))

FairSpec == Spec /\ Fairness

-----------------------------------------------------------------------------
\* Properties

SignalType == {"offer", "answer", "ice-candidate", "call-end"}
Signals == [type : SignalType, id : CallId, key : CallId, from : Side]

\* Fields, operations and signals are well formed.
TypeOK ==
    /\ drawn \subseteq CallId
    /\ callId \in [Side -> CallId \cup {None}]
    /\ \A f \in {key, calling} : f \in [Side -> CallId \cup {None}]
    /\ \A f \in {answered, outbox, ready, candidates, timer, rushed} :
          f \in [Side -> BOOLEAN]
    /\ local \in [Side -> CallId \cup {None}]
    /\ live \in [Side -> SUBSET CallId]
    /\ pc \in [Side ->
           [ call : CallId, local : BOOLEAN, remote : BOOLEAN,
             gathered : BOOLEAN, added : BOOLEAN ] \cup {None}]
    /\ ops \in [Side -> SUBSET
           [ kind : {"call", "accept"}, id : CallId,
             at : {"peer", "key", "media", "pc", "offer", "send"} ]]
    /\ ending \in [Side -> SUBSET
           [ by : {"user", "timer", "op", "peer"}, id : CallId \cup {None},
             stream : CallId \cup {None} ]]
    /\ handling \in [Side -> Signals \cup {None}]
    /\ incoming \in [Side ->
           [id : CallId, at : {"dialog", "accepting", "screen", "failed"}] \cup {None}]
    /\ relay \subseteq Signals
    /\ lost \subseteq Signals
    /\ abandoned \in [Side -> SUBSET CallId]
    /\ scenario \in Scenarios

\* Nothing runs on the device and no call is active.
AtRest(s) == callId[s] = None /\ ops[s] = {} /\ ending[s] = {}

\* Microphone and connection are closed, and no field is left set.
Released(s) ==
    /\ live[s] = {}
    /\ local[s] = None
    /\ pc[s] = None
    /\ key[s] = None /\ ~answered[s] /\ ~outbox[s] /\ ~ready[s]
    /\ ~candidates[s] /\ ~timer[s]

\* The user started no operation before another one was through, and no
\* call() threw after its CallScreen was gone.
Orderly(s) == ~rushed[s] /\ abandoned[s] = {}

\* However a call ended, when the device is at rest its microphone and
\* connection are released and nothing is left over for the next call, if all
\* went orderly on it.
EndedIsReleased ==
    \A s \in Side : Orderly(s) /\ AtRest(s) => Released(s)

\* Both sides are in this call.
Shared(s, c) ==
    \A t \in Side : callId[t] = c /\ pc[t] # None /\ pc[t].call = c

\* No client drops a candidate of a call both are in, whatever order offer,
\* answer and candidates arrive in, if all went orderly: it waits at the
\* sender until the peer has answered and at the receiver until the remote
\* description is set.
CandidateKept ==
    (\A s \in Side : Orderly(s)) =>
    \A s \in Side, c \in CallId : Shared(s, c) /\ pc[Peer(s)].gathered =>
        \/ outbox[Peer(s)] /\ ~answered[Peer(s)]
        \/ Signal("ice-candidate", c, c, Peer(s)) \in relay \cup lost
        \/ candidates[s] /\ ~ready[s]
        \/ pc[s].added

\* A device is in a call nobody has answered, and the call() that made it
\* did not throw after its CallScreen was gone.
Rings(s, c) == callId[s] = c /\ ~answered[s] /\ c \notin abandoned[s]

\* A call nobody answers stops ringing everywhere, also when its offer was
\* lost, both sides call each other or its screen was closed: the 60 seconds
\* of the ring timer, a hang-up, a failure or the answer end it.
RingEnds ==
    \A c \in CallId :
        (\E s \in Side : Rings(s, c)) ~> (\A s \in Side : ~Rings(s, c))

=============================================================================
