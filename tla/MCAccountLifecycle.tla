------------------------- MODULE MCAccountLifecycle -------------------------
(* A small instance of AccountLifecycle for TLC. Identities and seeds are only
   compared for equality. *)
EXTENDS AccountLifecycle, TLC

Symmetry == Permutations(Identity) \cup Permutations(Seed) \cup Permutations(Slot)
=============================================================================
