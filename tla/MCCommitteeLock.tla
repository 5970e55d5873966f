--------------------------- MODULE MCCommitteeLock ---------------------------
(* TLC instance of CommitteeLock: sessions are interchangeable. *)
EXTENDS CommitteeLock, TLC

Symmetry == Permutations(Sessions)
=============================================================================
