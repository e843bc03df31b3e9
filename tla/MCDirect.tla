------------------------------ MODULE MCDirect ------------------------------
(* Small instances of DirectMessaging for TLC. *)
EXTENDS DirectMessaging

\* Both sides write.
TwoWay == [p \in Party |-> IF p = Initiator THEN 2 ELSE 1]
\* One side writes more than a page while the other is away.
OneWay == [p \in Party |-> IF p = Initiator THEN 0 ELSE 4]
\* One side writes more than a page, the other one message of its own.
Answering == [p \in Party |-> IF p = Initiator THEN 1 ELSE 3]
=============================================================================
