--------------------------- MODULE MCRequestGuard ---------------------------
(* Symmetry of the instances of RequestGuard. *)
EXTENDS RequestGuard, TLC

\* Clients differ in nothing but their key.
Symmetry == Permutations(Client)
=============================================================================
