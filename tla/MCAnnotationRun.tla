--------------------------- MODULE MCAnnotationRun ---------------------------
(* TLC instance of AnnotationRun: the request threads are interchangeable,   *)
(* of three requests the last has the run to itself, and so has any request  *)
(* after a second restart.                                                   *)
EXTENDS AnnotationRun, TLC

MCSymmetry == Permutations(Reqs)

MCLastAlone ==
    (calls = 3 \/ restarts = 2) => Cardinality({r \in Reqs : req[r] # Idle}) <= 1
=============================================================================
