---------------------------- MODULE MCPipelineV5 ----------------------------
(* TLC instance of PipelineV5: the requests are interchangeable; the last of *)
(* three is not a run, and finds the others past their extraction.           *)
EXTENDS PipelineV5, TLC

MCSymmetry == Permutations(Procs)

MCLastBridges ==
    calls = 3 =>
        \A p \in Procs :
            /\ proc[p].at \notin {"extract", "assemble"}
            /\ proc[p] # Idle => ~proc[p].alone \/ proc[p].op # "run"
=============================================================================
