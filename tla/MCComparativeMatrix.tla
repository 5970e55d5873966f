------------------------ MODULE MCComparativeMatrix ------------------------
EXTENDS ComparativeMatrix

CONSTANTS Reviewed,  \* bound: the one vendor whose file is not yet complete
          MaxUnknown \* bound: scores that are not known at first

MCComplete == [scorable |-> TRUE, readable |-> TRUE, found |-> Leaves,
               declared |-> {}, overridden |-> {}]

\* A vendor has declared all its blocking documents or none.
MCFiles == {f \in [scorable : BOOLEAN, readable : BOOLEAN, found : SUBSET Leaves,
                   declared : {{}, Blocking}, overridden : SUBSET Blocking] :
              /\ f.found # {} => f.readable
              /\ f.scorable \/ f.found \cup f.overridden = {}}

\* Only technical scores have two values to choose from.
MCScores == {s \in [Pillars -> Scores] : s["comm"] <= 1 /\ s["sust"] <= 1}

MCInit ==
    /\ file \in {[v \in Vendors |-> IF v = Reviewed THEN f ELSE MCComplete] : f \in MCFiles}
    /\ score \in [Vendors -> MCScores]
    /\ Cardinality({vp \in Vendors \X Pillars : score[vp[1]][vp[2]] = None}) <= MaxUnknown
    /\ dao \in [mode : Modes, threshold : {None, MaxScore}]
    /\ dao.mode = "INFORMATIVE" => dao.threshold = MaxScore
    /\ rows = [v \in Vendors |-> RowOf(file[v], score[v], dao)]
    /\ ranking = Ranking(rows)
    /\ cohort = CohortStatus(rows)

MCSpec == MCInit /\ [][Next]_vars

\* Overrides are for the file under review, where they change something.
MCBounds == \A v \in Vendors :
    /\ score[v] \in MCScores
    /\ file[v].overridden \subseteq (IF v = Reviewed THEN Blocking ELSE {})
=============================================================================
