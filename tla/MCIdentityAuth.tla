---------------------------- MODULE MCIdentityAuth ----------------------------
(* A small instance of IdentityAuth for TLC. *)
EXTENDS IdentityAuth, TLC

\* Keys, devices and requests are interchangeable: each is only compared
\* for equality.
Symmetry == Permutations(Key) \cup Permutations(Device) \cup Permutations(Request)
=============================================================================
