---------------------------- MODULE MCAuditChain ----------------------------
(* TLC instance of AuditChain: the sessions of a kind are interchangeable,   *)
(* and so are the items.                                                     *)
EXTENDS AuditChain, TLC

MCSymmetry == Permutations(Writers) \cup Permutations(Items)
=============================================================================
