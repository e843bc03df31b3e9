---------------------------- MODULE MessageLedger ----------------------------
(***************************************************************************)
(* What direct messaging promises, without keys, envelopes, retries, pages *)
(* or faults: the server lists every message at most once, in an order     *)
(* that never changes, and only messages that were composed; a device gets *)
(* a message only from that list, and keeps it until its user deletes the  *)
(* conversation.                                                           *)
(***************************************************************************)
EXTENDS Integers, Sequences

CONSTANT Party

VARIABLES
    composed,  \* how many messages each party has composed
    listed,    \* the ids the server lists, in order
    received   \* the ids of others' messages each party has

vars == <<composed, listed, received>>

Listed == {listed[i] : i \in DOMAIN listed}

Init ==
    /\ composed = [p \in Party |-> 0]
    /\ listed = <<>>
    /\ received = [p \in Party |-> {}]

Compose(p) ==
    /\ composed' = [composed EXCEPT ![p] = @ + 1]
    /\ UNCHANGED <<listed, received>>

List(p) ==
    /\ \E n \in 1 .. composed[p] :
          /\ <<p, n>> \notin Listed
          /\ listed' = Append(listed, <<p, n>>)
    /\ UNCHANGED <<composed, received>>

Receive(p) ==
    /\ \E id \in Listed :
          /\ id[1] # p
          /\ id \notin received[p]
          /\ received' = [received EXCEPT ![p] = @ \cup {id}]
    /\ UNCHANGED <<composed, listed>>

Forget(p) ==
    /\ received' = [received EXCEPT ![p] = {}]
    /\ UNCHANGED <<composed, listed>>

Next == \E p \in Party : Compose(p) \/ List(p) \/ Receive(p) \/ Forget(p)

Spec == Init /\ [][Next]_vars

=============================================================================
