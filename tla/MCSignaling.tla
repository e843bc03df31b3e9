----------------------------- MODULE MCSignaling -----------------------------
(* A small instance of Signaling for TLC. *)
EXTENDS Signaling, TLC

CONSTANTS alice, bob, s1, s2

\* A device of alice and one of bob, who share a conversation.
OneEach == s1 :> alice @@ s2 :> bob
OneConversation == {<<alice, bob>>, <<bob, alice>>}
=============================================================================
