--------------------------- MODULE MCWorkspaceSeal ---------------------------
(* TLC instance of WorkspaceSeal. *)
EXTENDS WorkspaceSeal, TLC

Symmetry == Permutations(Conns) \cup Permutations(Users)
=============================================================================
