------------------------- MODULE ComparativeMatrix -------------------------
(***************************************************************************)
(* The comparative matrix: from the gate's verdicts and the scores of M14  *)
(* to ranks, row statuses and the status of the cohort                     *)
(* (src/services/matrix_builder_service.py).                               *)
(*                                                                         *)
(* A run computes the whole matrix from what it is given and keeps nothing *)
(* else.  A step is one change of that, a document that arrives, a         *)
(* committee's override or a score that becomes known, and the run after   *)
(* it.  A score of NULL is None, the others are positive (the lowest one   *)
(* stands for 0).  Row flags, codes and explanations are left out.         *)
(***************************************************************************)
EXTENDS EligibilityGate

CONSTANTS Vendors,  \* the offers, numbered in the order of their bundle ids
          MaxScore  \* bound: the highest score of a pillar

ASSUME MatrixAssumption ==
    /\ Vendors \subseteq Nat /\ IsFiniteSet(Vendors)
    /\ MaxScore \in Nat \ {0}

VARIABLES file,    \* the file of each vendor
          score,   \* technical, commercial and sustainability score
          dao,     \* the threshold of the call for tenders and how it is used
          rows,    \* the rows of the last run, before they are ranked
          ranking, \* rank and rank status of each
          cohort   \* status of the cohort

matrix == <<rows, ranking, cohort>>
vars == <<file, score, dao, matrix>>

None == 0
Scores == 0..MaxScore
Pillars == {"tech", "comm", "sust"}

-----------------------------------------------------------------------------
(* The rows: build_matrix_rows, before any is ranked. *)

\* A row reads the vendor's file f, its scores s and the tender's settings d.
Qualified(s, d) ==
    IF s["tech"] = None \/ d.threshold = None THEN "unknown"
    ELSE IF s["tech"] >= d.threshold THEN "yes" ELSE "no"

Total(s) ==
    IF \E pillar \in Pillars : s[pillar] = None THEN None
    ELSE s["tech"] + s["comm"] + s["sust"]

Comparability(s) ==
    IF s["tech"] = None \/ s["comm"] = None THEN "NON_COMPARABLE"
    ELSE IF s["sust"] = None THEN "INCOMPLETE" ELSE "COMPARABLE"

\* An ineligible row has no scores, is MANDATORY and has no qualification.
IneligibleRow == [status |-> "INELIGIBLE", mode |-> "MANDATORY", qualified |-> "unknown",
                  scores |-> [pillar \in Pillars |-> None], total |-> None,
                  comparability |-> "NON_COMPARABLE"]

\* Mutant: the comparability of an unqualified offer is that of its scores.
RowOfScores(f, s, d) ==
    LET status == Eligibility(f)
    IN  IF status = "INELIGIBLE" THEN IneligibleRow
        ELSE [status |-> status, mode |-> d.mode, qualified |-> Qualified(s, d),
              scores |-> s, total |-> Total(s), comparability |-> Comparability(s)]

RowOf(f, s, d) ==
    LET status == Eligibility(f)
    IN  IF status = "INELIGIBLE" THEN IneligibleRow
        ELSE [status |-> status, mode |-> d.mode, qualified |-> Qualified(s, d),
              scores |-> s, total |-> Total(s),
              comparability |->
                 IF status = "ELIGIBLE" /\ d.mode = "MANDATORY" /\ Qualified(s, d) = "no"
                 THEN "NON_COMPARABLE" ELSE Comparability(s)]

-----------------------------------------------------------------------------
(* The ranking: _apply_ranking. *)

IsRankable(row) ==
    row.status = "ELIGIBLE" /\ (row.mode = "MANDATORY" => row.qualified = "yes")

Rankable(rs) == {v \in Vendors : IsRankable(rs[v])}

\* Mutant: offers that cannot be ranked count among those without a score.
LacksAnywhere(rs, pillar) == {v \in Vendors : rs[v].scores[pillar] = None}
Lacks(rs, pillar) == {v \in Rankable(rs) : rs[v].scores[pillar] = None}
Mixed(rs, pillar) == Lacks(rs, pillar) # {} /\ Lacks(rs, pillar) # Rankable(rs)

AsymmetricCommercial(rs) == Mixed(rs, "comm")
PartialSustainability(rs) == Mixed(rs, "sust")

\* Mutant: the offers that have a price are ranked among themselves (the
\* option P5.2 rejects).
RankedPriced(rs) == {v \in Rankable(rs) : rs[v].total # None}

Ranked(rs) ==
    IF AsymmetricCommercial(rs) THEN {}
    ELSE IF PartialSustainability(rs)
         THEN {v \in Rankable(rs) \ Lacks(rs, "sust") : rs[v].total # None}
    ELSE IF Lacks(rs, "comm") # {} \/ Lacks(rs, "sust") # {} THEN {}
    ELSE Rankable(rs)

\* Mutant: ties are left as they are.
BeforeByTotal(rs, u, v) == rs[u].total > rs[v].total

\* Sorted by descending total, a missing one counting as 0, then bundle id.
Before(rs, u, v) ==
    rs[u].total > rs[v].total \/ (rs[u].total = rs[v].total /\ u < v)

Unranked(rs, v) ==
    IF rs[v].status = "INELIGIBLE" THEN "EXCLUDED"
    ELSE IF rs[v].status # "ELIGIBLE" THEN "PENDING"
    ELSE IF rs[v].mode = "MANDATORY" /\ rs[v].qualified = "no" THEN "EXCLUDED"
    ELSE IF ~IsRankable(rs[v]) THEN "PENDING"
    ELSE IF \/ AsymmetricCommercial(rs)
            \/ ~PartialSustainability(rs) /\ Lacks(rs, "comm") # {} THEN "NOT_COMPARABLE"
    ELSE IF v \in Lacks(rs, "sust") THEN "INCOMPLETE" ELSE "PENDING"

Ranking(rs) ==
    LET ranked == Ranked(rs) IN
    [v \in Vendors |->
       [rank |-> IF v \in ranked THEN 1 + Cardinality({u \in ranked : Before(rs, u, v)})
                 ELSE None,
        status |-> IF v \in ranked THEN "RANKED" ELSE Unranked(rs, v)]]

-----------------------------------------------------------------------------
(* A run, and what changes between two runs. *)

\* build_matrix_summary: _cohort_comparability.
CohortStatus(rs) ==
    LET eligible == {v \in Vendors : rs[v].status = "ELIGIBLE"}
        Are(comparability) == {v \in eligible : rs[v].comparability = comparability}
    IN  IF eligible = {} THEN "NOT_COMPARABLE"
        ELSE IF Are("COMPARABLE") = Vendors THEN "FULLY_COMPARABLE"
        ELSE IF Are("COMPARABLE") # {} THEN "PARTIALLY_COMPARABLE"
        ELSE IF Are("NON_COMPARABLE") # {} THEN "NOT_COMPARABLE"
        ELSE "PARTIALLY_COMPARABLE"

Init ==
    /\ file \in [Vendors -> {f \in File : f.found # {} => f.readable}]
    /\ score \in [Vendors -> [Pillars -> Scores]]
    /\ dao \in [mode : {"MANDATORY", "INFORMATIVE"}, threshold : Scores]
    /\ rows = [v \in Vendors |-> RowOf(file[v], score[v], dao)]
    /\ ranking = Ranking(rows)
    /\ cohort = CohortStatus(rows)

\* The run after a change to v: every other row is built from what it was
\* built from before.
Run(v) ==
    /\ UNCHANGED dao
    /\ rows' = [rows EXCEPT ![v] = RowOf(file'[v], score'[v], dao)]
    /\ ranking' = Ranking(rows')
    /\ cohort' = CohortStatus(rows')

\* Mutant: the text of a document is not what makes a file readable.
DepositUnread(v, tokens) ==
    /\ file' = [file EXCEPT ![v].found = @ \cup tokens]
    /\ UNCHANGED score
    /\ Run(v)

\* A readable document arrives; the token it holds, if any, is found in it.
Deposit(v, tokens) ==
    /\ LET f == file[v]
       IN  file' = [file EXCEPT ![v] = [f EXCEPT !.readable = TRUE, !.found = f.found \cup tokens]]
    /\ UNCHANGED score
    /\ Run(v)

\* An entry of committee_overrides, which needs a justification.
Override(v, c) ==
    /\ file' = [file EXCEPT ![v].overridden = @ \cup {c}]
    /\ UNCHANGED score
    /\ Run(v)

\* A score that was NULL is known (an ambiguous price is resolved).
Known(v, pillar, s) ==
    /\ score[v][pillar] = None /\ s # None
    /\ score' = [score EXCEPT ![v][pillar] = s]
    /\ UNCHANGED file
    /\ Run(v)

Next == \E v \in Vendors :
    \/ \E tokens \in SUBSET Leaves : Cardinality(tokens) <= 1 /\ Deposit(v, tokens)
    \/ \E c \in Leaves : Override(v, c)
    \/ \E pillar \in Pillars, s \in Scores : Known(v, pillar, s)

Spec == Init /\ [][Next]_vars

-----------------------------------------------------------------------------
(* Properties. *)

Statuses == {"ELIGIBLE", "INELIGIBLE", "PENDING", "REGULARIZATION_PENDING"}
Modes == {"MANDATORY", "INFORMATIVE"}
Grade(status) == IF status = "INELIGIBLE" THEN 0 ELSE IF status = "ELIGIBLE" THEN 2 ELSE 1

RowType == [status : Statuses, mode : Modes, qualified : {"unknown", "yes", "no"},
            scores : [Pillars -> Scores], total : Nat,
            comparability : {"COMPARABLE", "NON_COMPARABLE", "INCOMPLETE"}]
RankStatuses == {"RANKED", "EXCLUDED", "PENDING", "NOT_COMPARABLE", "INCOMPLETE"}

\* Files, scores, settings and rows stay well formed, and no token is found
\* where nothing can be read.
TypeOK ==
    /\ file \in [Vendors -> File]
    /\ \A v \in Vendors : file[v].found # {} => file[v].readable
    /\ score \in [Vendors -> [Pillars -> Scores]]
    /\ dao \in [mode : Modes, threshold : Scores]
    /\ rows \in [Vendors -> RowType]
    /\ ranking \in [Vendors -> [rank : Nat, status : RankStatuses]]
    /\ cohort \in {"FULLY_COMPARABLE", "PARTIALLY_COMPARABLE", "NOT_COMPARABLE"}

RankedVendors == {v \in Vendors : ranking[v].status = "RANKED"}

\* The ranks given are 1, 2, ... without a gap or a tie, a better total is
\* never behind a worse one, and a row has a rank exactly when its status says
\* so (_apply_ranking; I2 of matrix_models.py, which model_copy never checks).
RankingSound ==
    /\ {ranking[v].rank : v \in RankedVendors} = 1..Cardinality(RankedVendors)
    /\ \A u, v \in RankedVendors :
          ranking[u].rank < ranking[v].rank => rows[u].total >= rows[v].total
    /\ \A v \in Vendors \ RankedVendors : ranking[v].rank = None

\* Nobody is ranked while an offer that could be ranked has no price (R9: a
\* first place could be that offer's), nor, where the technical threshold is
\* mandatory, without all three scores.
NoFalseWinner ==
    RankedVendors # {} =>
       /\ \A v \in Rankable(rows) : rows[v].scores["comm"] # None
       /\ dao.mode = "MANDATORY" => \A v \in RankedVendors : rows[v].total # None

\* The summary and the rows tell the same story: a cohort said to be fully
\* comparable is ranked to the last row, unless a mandatory threshold is not
\* known, when nobody is; and where the threshold is mandatory, a cohort said
\* not to be comparable has no ranked row (_cohort_comparability).
SummaryMatchesRows ==
    /\ cohort = "FULLY_COMPARABLE" =>
          \/ RankedVendors = Vendors
          \/ RankedVendors = {} /\ dao.mode = "MANDATORY" /\ dao.threshold = None
    /\ cohort = "NOT_COMPARABLE" /\ dao.mode = "MANDATORY" => RankedVendors = {}

\* R6 of decisions/p34_opening_preflight.md: a row is ranked when all its
\* scores are calculated.
RankedHaveTotals == \A v \in RankedVendors : rows[v].total # None

\* A document that arrives or an override of the committee never makes any
\* vendor less eligible, whatever the order they come in.
NeverWorse ==
    [][\A v \in Vendors : Grade(rows'[v].status) >= Grade(rows[v].status)]_vars

\* What happens to an offer that cannot be ranked, before or after, changes
\* nothing for the others; and what happens to any offer never reverses two
\* others that are ranked both before and after.
OthersKeepTheirOrder ==
    [][\A v \in Vendors :
         (\A u \in Vendors \ {v} : file'[u] = file[u] /\ score'[u] = score[u]) =>
            /\ ~IsRankable(rows[v]) /\ ~IsRankable(rows'[v]) =>
                  \A u \in Vendors \ {v} : ranking'[u] = ranking[u]
            /\ \A u, w \in (RankedVendors \cap RankedVendors') \ {v} :
                  ranking[u].rank < ranking[w].rank => ranking'[u].rank < ranking'[w].rank]_vars
=============================================================================
