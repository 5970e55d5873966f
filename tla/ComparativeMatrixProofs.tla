---------------------- MODULE ComparativeMatrixProofs ----------------------
(***************************************************************************)
(* Proofs about the eligibility gate and the comparative matrix, for every *)
(* catalogue, every set of vendors and every range of scores.              *)
(***************************************************************************)
EXTENDS ComparativeMatrix, FiniteSetTheorems, TLAPS

Verdicts == {"NOT_SUBMITTED", "GATE_B_NON_SCORABLE", "BLOCKING_FAIL",
             "PENDING_REGULARIZATION_OR_REVIEW", "WEAK_DOCUMENTARY", "PASS"}

LEMMA VerdictCases == ASSUME NEW f PROVE Verdict(f) \in Verdicts
  BY DEF Verdict, Verdicts

LEMMA EligibilityCases == ASSUME NEW f PROVE Eligibility(f) \in Statuses
  BY VerdictCases DEF Eligibility, Verdicts, Statuses

LEMMA EligibilityOf ==
  ASSUME NEW f
  PROVE  /\ Eligibility(f) = "INELIGIBLE" <=>
               Verdict(f) \in {"NOT_SUBMITTED", "GATE_B_NON_SCORABLE", "BLOCKING_FAIL"}
         /\ Eligibility(f) = "ELIGIBLE" <=> Verdict(f) = "PASS"
  BY VerdictCases DEF Eligibility, Verdicts

-----------------------------------------------------------------------------
(* The gate. *)

LEMMA AnySubset ==
  ASSUME NEW S \in SUBSET Blocking
  PROVE  IsFiniteSet(S) /\ Cardinality(S) \in Nat /\ Cardinality(S) <= Cardinality(Blocking)
                        /\ Cardinality(Blocking) \in Nat
  <1>1. IsFiniteSet(Blocking)
    BY CatalogueAssumption, FS_Subset DEF Blocking
  <1> QED
    BY <1>1, FS_Subset, FS_CardinalityType

\* The counts of _documentary_strength: once one blocking leaf is documented,
\* more documented leaves never bring the strength back to LOW.
LEMMA StrengthNotLow ==
  ASSUME NEW f
  PROVE  LET documented == {c \in Blocking : Documented(f, c)}
         IN  Strength(f) = "LOW" <=> documented = {}
  <1> DEFINE documented == {c \in Blocking : Documented(f, c)}
  <1> DEFINE n == Cardinality(documented)
  <1> DEFINE total == Cardinality(Blocking)
  <1>1. n \in Nat /\ total \in Nat /\ n <= total /\ IsFiniteSet(documented)
    BY AnySubset
  <1>2. n = 0 <=> documented = {}
    BY <1>1, FS_EmptySet
  <1>3. Strength(f) = IF total = 0 THEN "LOW"
                      ELSE IF 10 * n >= 9 * total /\ n > total - n THEN "HIGH"
                      ELSE IF 10 * n >= 7 * total \/ (n > 0 /\ total - n > 0) THEN "MEDIUM"
                      ELSE "LOW"
    BY DEF Strength
  <1> HIDE DEF n, total
  <1>4. Strength(f) = "LOW" <=> n = 0
    <2>1. CASE n = 0
      BY <1>1, <1>3, <2>1
    <2>2. CASE n # 0 /\ total = n
      BY <1>1, <1>3, <2>2
    <2>3. CASE n # 0 /\ total # n
      <3>1. n > 0 /\ total - n > 0 /\ total # 0
        BY <1>1, <2>3
      <3> QED
        BY <1>3, <3>1
    <2> QED
      BY <2>1, <2>2, <2>3
  <1> QED
    BY <1>2, <1>4

LEMMA LeafImproves ==
  ASSUME NEW f \in File, NEW g \in File, NEW c \in Leaves,
         f.scorable, f.readable, g.scorable, g.readable, f.declared = g.declared,
         f.found \subseteq g.found, f.overridden \subseteq g.overridden
  PROVE  /\ Result(f, c) = "PASS_CONFIRMED" => Result(g, c) = "PASS_CONFIRMED"
         /\ Result(f, c) # "FAIL_CONFIRMED" => Result(g, c) # "FAIL_CONFIRMED"
         /\ Documented(f, c) => Documented(g, c)
         /\ Result(g, c) # "NOT_SUBMITTED"
  BY DEF Result, Documented, File

LEMMA Submitted ==
  ASSUME NEW f \in File, Eligibility(f) # "INELIGIBLE"
  PROVE  f.scorable /\ f.readable /\ Leaves # {}
  <1>1. Verdict(f) \notin {"NOT_SUBMITTED", "GATE_B_NON_SCORABLE"}
    BY EligibilityOf
  <1>2. f.scorable
    BY <1>1 DEF Verdict
  <1>3. ~(Results(f) \subseteq {"NOT_SUBMITTED"})
    BY <1>1 DEF Verdict
  <1>4. Leaves # {}
    BY <1>3, CatalogueAssumption DEF Results
  <1>5. f.readable
    <2>1. SUFFICES ASSUME ~f.readable PROVE FALSE
      OBVIOUS
    <2>2. \A c \in Leaves : Result(f, c) = "NOT_SUBMITTED"
      BY <1>2, <2>1 DEF Result
    <2>3. Q5Result(f) = "NOT_SUBMITTED"
      BY <2>2, CatalogueAssumption DEF Q5Result
    <2> QED
      BY <1>3, <2>2, <2>3 DEF Results
  <1> QED
    BY <1>2, <1>4, <1>5

\* What a deposit or an override does to a file never lowers its grade.
LEMMA GradeImproves ==
  ASSUME NEW f \in File, NEW g \in File,
         g.scorable = f.scorable, g.declared = f.declared, f.readable => g.readable,
         f.found \subseteq g.found, f.overridden \subseteq g.overridden
  PROVE  Grade(Eligibility(g)) >= Grade(Eligibility(f))
  <1>1. CASE Eligibility(f) = "INELIGIBLE"
    BY <1>1 DEF Grade
  <1>2. CASE Eligibility(f) # "INELIGIBLE"
    <2>1. f.scorable /\ f.readable /\ g.scorable /\ g.readable /\ Leaves # {}
      BY <1>2, Submitted
    <2>2. \A c \in Leaves :
             /\ Result(f, c) = "PASS_CONFIRMED" => Result(g, c) = "PASS_CONFIRMED"
             /\ Result(f, c) # "FAIL_CONFIRMED" => Result(g, c) # "FAIL_CONFIRMED"
             /\ Documented(f, c) => Documented(g, c)
             /\ Result(g, c) # "NOT_SUBMITTED"
      BY <2>1, LeafImproves
    <2>3. \A c \in Blocking : Result(f, c) # "FAIL_CONFIRMED"
      <3>1. Verdict(f) \notin {"NOT_SUBMITTED", "GATE_B_NON_SCORABLE", "BLOCKING_FAIL"}
        BY <1>2, EligibilityOf
      <3> QED
        BY <3>1 DEF Verdict
    <2>4. \A c \in Blocking : Result(g, c) # "FAIL_CONFIRMED"
      BY <2>2, <2>3 DEF Blocking
    <2>5. Q5 # {} => Q5Result(g) # "FAIL_CONFIRMED"
      BY <2>4 DEF Q5Result
    <2>6. ~(Results(g) \subseteq {"NOT_SUBMITTED"})
      BY <2>1, <2>2 DEF Results
    <2>7. Verdict(g) \notin {"NOT_SUBMITTED", "GATE_B_NON_SCORABLE", "BLOCKING_FAIL"}
      BY <2>1, <2>4, <2>5, <2>6 DEF Verdict
    <2>8. Eligibility(g) # "INELIGIBLE"
      BY <2>7, EligibilityOf
    <2>9. CASE Eligibility(f) # "ELIGIBLE"
      BY <1>2, <2>8, <2>9 DEF Grade
    <2>10. CASE Eligibility(f) = "ELIGIBLE"
      <3>1. Verdict(f) = "PASS"
        BY <2>10, EligibilityOf
      <3>2. "PENDING_REVIEW" \notin Results(f) /\ Strength(f) # "LOW"
        BY <3>1 DEF Verdict
      <3>3. \A c \in Leaves : Result(f, c) = "PASS_CONFIRMED"
        <4> SUFFICES ASSUME NEW c \in Leaves PROVE Result(f, c) = "PASS_CONFIRMED"
          OBVIOUS
        <4>1. Result(f, c) # "PENDING_REVIEW"
          BY <3>2 DEF Results
        <4>2. c \in Blocking => Result(f, c) # "FAIL_CONFIRMED"
          BY <2>3
        <4> QED
          BY <2>1, <4>1, <4>2 DEF Result, Blocking
      <3>4. \A c \in Leaves : Result(g, c) = "PASS_CONFIRMED"
        BY <2>2, <3>3
      <3>5. Q5 # {} => Q5Result(g) = "PASS_CONFIRMED"
        BY <3>4, <2>1, CatalogueAssumption DEF Q5Result, Blocking
      <3>6. "PENDING_REVIEW" \notin Results(g)
        BY <3>4, <3>5 DEF Results
      <3>7. {c \in Blocking : Documented(f, c)} # {}
        BY <3>2, StrengthNotLow
      <3>8. {c \in Blocking : Documented(g, c)} # {}
        BY <2>2, <3>7 DEF Blocking
      <3>9. Strength(g) # "LOW"
        BY <3>8, StrengthNotLow
      <3>10. Verdict(g) = "PASS"
        BY <2>1, <2>4, <2>5, <2>6, <3>6, <3>9 DEF Verdict
      <3> QED
        BY <3>10, <2>10, EligibilityOf DEF Grade
    <2> QED
      BY <2>9, <2>10
  <1> QED
    BY <1>1, <1>2

-----------------------------------------------------------------------------
(* The ranks. *)

RowTable == [Vendors -> RowType]
Beats(rs, v) == {u \in Ranked(rs) : Before(rs, u, v)}

LEMMA RankedRankable ==
  ASSUME NEW rs \in RowTable
  PROVE  /\ Ranked(rs) \subseteq Rankable(rs)
         /\ Rankable(rs) \subseteq Vendors
  BY DEF Ranked, Rankable, Lacks

LEMMA BeforeOrder ==
  ASSUME NEW rs \in RowTable, NEW u \in Vendors, NEW v \in Vendors, NEW w \in Vendors
  PROVE  /\ ~Before(rs, u, u)
         /\ Before(rs, u, v) /\ Before(rs, v, w) => Before(rs, u, w)
         /\ u # v => Before(rs, u, v) \/ Before(rs, v, u)
         /\ Before(rs, u, v) => rs[u].total >= rs[v].total
  <1>1. /\ rs[u].total \in Nat /\ rs[v].total \in Nat /\ rs[w].total \in Nat
        /\ u \in Nat /\ v \in Nat /\ w \in Nat
    BY MatrixAssumption DEF RowTable, RowType
  <1> QED
    BY <1>1 DEF Before

LEMMA BeatsCount ==
  ASSUME NEW rs \in RowTable, NEW v \in Vendors
  PROVE  /\ IsFiniteSet(Ranked(rs)) /\ Cardinality(Ranked(rs)) \in Nat
         /\ IsFiniteSet(Beats(rs, v)) /\ Cardinality(Beats(rs, v)) \in Nat
  <1>1. IsFiniteSet(Ranked(rs))
    BY MatrixAssumption, RankedRankable, FS_Subset
  <1>2. Beats(rs, v) \subseteq Ranked(rs)
    BY DEF Beats
  <1> QED
    BY <1>1, <1>2, FS_Subset, FS_CardinalityType

\* A ranked offer is beaten by fewer than the offers that are ranked.
LEMMA BeatsBounded ==
  ASSUME NEW rs \in RowTable, NEW v \in Ranked(rs)
  PROVE  1 + Cardinality(Beats(rs, v)) \in 1..Cardinality(Ranked(rs))
  <1>1. v \in Vendors
    BY RankedRankable
  <1>2. v \notin Beats(rs, v) /\ Beats(rs, v) \cup {v} \subseteq Ranked(rs)
    BY <1>1, BeforeOrder DEF Beats
  <1>3. Cardinality(Beats(rs, v) \cup {v}) = Cardinality(Beats(rs, v)) + 1
    BY <1>1, <1>2, BeatsCount, FS_AddElement
  <1>4. Cardinality(Beats(rs, v) \cup {v}) <= Cardinality(Ranked(rs))
    BY <1>1, <1>2, BeatsCount, FS_Subset
  <1> QED
    BY <1>1, <1>3, <1>4, BeatsCount

\* Whoever comes before is beaten by strictly fewer.
LEMMA BeatsGrow ==
  ASSUME NEW rs \in RowTable, NEW u \in Ranked(rs), NEW v \in Ranked(rs), Before(rs, u, v)
  PROVE  Cardinality(Beats(rs, u)) < Cardinality(Beats(rs, v))
  <1>1. u \in Vendors /\ v \in Vendors /\ Ranked(rs) \subseteq Vendors
    BY RankedRankable
  <1>2. u \notin Beats(rs, u)
    BY <1>1, BeforeOrder DEF Beats
  <1>3. Beats(rs, u) \cup {u} \subseteq Beats(rs, v)
    BY <1>1, BeforeOrder DEF Beats
  <1>4. Cardinality(Beats(rs, u) \cup {u}) = Cardinality(Beats(rs, u)) + 1
    BY <1>1, <1>2, BeatsCount, FS_AddElement
  <1>5. Cardinality(Beats(rs, u) \cup {u}) <= Cardinality(Beats(rs, v))
    BY <1>1, <1>3, BeatsCount, FS_Subset
  <1> QED
    BY <1>1, <1>4, <1>5, BeatsCount

LEMMA RankingOf ==
  ASSUME NEW rs \in RowTable, NEW v \in Vendors
  PROVE  /\ Ranking(rs)[v].rank = IF v \in Ranked(rs) THEN 1 + Cardinality(Beats(rs, v)) ELSE None
         /\ Ranking(rs)[v].status = IF v \in Ranked(rs) THEN "RANKED" ELSE Unranked(rs, v)
         /\ Unranked(rs, v) \in RankStatuses \ {"RANKED"}
  BY DEF Ranking, Beats, Unranked, RankStatuses

LEMMA RankingTyped ==
  ASSUME NEW rs \in RowTable
  PROVE  Ranking(rs) \in [Vendors -> [rank : Nat, status : RankStatuses]]
  <1> SUFFICES ASSUME NEW v \in Vendors
               PROVE  Ranking(rs)[v] \in [rank : Nat, status : RankStatuses]
    BY DEF Ranking
  <1>1. Ranking(rs)[v].rank \in Nat
    BY RankingOf, BeatsCount DEF None
  <1>2. Ranking(rs)[v].status \in RankStatuses
    BY RankingOf DEF RankStatuses
  <1> QED
    BY <1>1, <1>2 DEF Ranking

\* The order of the ranks is the order of the offers.
LEMMA RankOrder ==
  ASSUME NEW rs \in RowTable, NEW u \in Ranked(rs), NEW v \in Ranked(rs)
  PROVE  Ranking(rs)[u].rank < Ranking(rs)[v].rank <=> Before(rs, u, v)
  <1>1. u \in Vendors /\ v \in Vendors
    BY RankedRankable
  <1>2. /\ Ranking(rs)[u].rank = 1 + Cardinality(Beats(rs, u))
        /\ Ranking(rs)[v].rank = 1 + Cardinality(Beats(rs, v))
        /\ Cardinality(Beats(rs, u)) \in Nat /\ Cardinality(Beats(rs, v)) \in Nat
    BY <1>1, RankingOf, BeatsCount
  <1>3. CASE Before(rs, u, v)
    BY <1>2, <1>3, BeatsGrow
  <1>4. CASE Before(rs, v, u)
    <2>1. ~Before(rs, u, v)
      BY <1>1, <1>4, BeforeOrder
    <2>2. Cardinality(Beats(rs, v)) < Cardinality(Beats(rs, u))
      BY <1>4, BeatsGrow
    <2> QED
      BY <1>2, <2>1, <2>2
  <1>5. CASE u = v
    BY <1>1, <1>2, <1>5, BeforeOrder
  <1> QED
    BY <1>1, <1>3, <1>4, <1>5, BeforeOrder

\* Ranks are distinct numbers among 1..k for k ranked offers: all of them.
LEMMA RanksFill ==
  ASSUME NEW rs \in RowTable
  PROVE  {Ranking(rs)[v].rank : v \in Ranked(rs)} = 1..Cardinality(Ranked(rs))
  <1> DEFINE S == Ranked(rs)
  <1> DEFINE k == Cardinality(S)
  <1> DEFINE r == [v \in S |-> Ranking(rs)[v].rank]
  <1>1. S \subseteq Vendors
    BY RankedRankable
  <1>2. IsFiniteSet(S) /\ k \in Nat
    <2>1. IsFiniteSet(S)
      BY <1>1, MatrixAssumption, FS_Subset
    <2> QED
      BY <2>1, FS_CardinalityType
  <1>3. IsFiniteSet(1..k) /\ Cardinality(1..k) = k
    BY <1>2, FS_Interval
  <1>4. r \in [S -> 1..k]
    BY <1>1, RankingOf, BeatsBounded
  <1>5. \A u, v \in S : r[u] = r[v] => u = v
    <2> SUFFICES ASSUME NEW u \in S, NEW v \in S, r[u] = r[v], u # v PROVE FALSE
      OBVIOUS
    <2>1. Before(rs, u, v) \/ Before(rs, v, u)
      BY <1>1, BeforeOrder
    <2>2. r[u] < r[v] \/ r[v] < r[u]
      BY <2>1, RankOrder
    <2>3. r[u] \in 1..k /\ r[v] \in 1..k
      BY <1>4
    <2> QED
      BY <1>2, <2>2, <2>3
  <1>6. r \in Injection(S, 1..k)
    BY <1>4, <1>5 DEF Injection, IsInjective
  <1>7. r \in Surjection(S, 1..k)
    BY <1>2, <1>3, <1>6, FS_Injection
  <1>8. \A n \in 1..k : \E v \in S : r[v] = n
    BY <1>7 DEF Surjection
  <1>9. {r[v] : v \in S} = 1..k
    BY <1>4, <1>8
  <1> QED
    BY <1>9

-----------------------------------------------------------------------------
(* The invariant: the matrix is what the last run builds from its input. *)

Settings == [mode : Modes, threshold : Scores]
Inputs == /\ file \in [Vendors -> File]
          /\ \A v \in Vendors : file[v].found # {} => file[v].readable
          /\ score \in [Vendors -> [Pillars -> Scores]]
          /\ dao \in Settings

Built == /\ rows = [v \in Vendors |-> RowOf(file[v], score[v], dao)]
         /\ ranking = Ranking(rows)
         /\ cohort = CohortStatus(rows)

Inv == Inputs /\ Built

LEMMA ScoresAreNat == Scores \subseteq Nat /\ None \in Scores
  BY MatrixAssumption DEF Scores, None

LEMMA RowTyped ==
  ASSUME NEW f, NEW s \in [Pillars -> Scores], NEW d \in Settings
  PROVE  RowOf(f, s, d) \in RowType
  <1>1. s["tech"] \in Nat /\ s["comm"] \in Nat /\ s["sust"] \in Nat
    BY ScoresAreNat DEF Pillars
  <1>2. Total(s) \in Nat
    BY <1>1 DEF Total, None
  <1>3. IneligibleRow \in RowType
    <2>1. [pillar \in Pillars |-> None] \in [Pillars -> Scores] /\ None \in Nat
      BY ScoresAreNat
    <2> QED
      BY <2>1 DEF IneligibleRow, RowType, Statuses, Modes
  <1>4. Qualified(s, d) \in {"unknown", "yes", "no"}
    BY DEF Qualified
  <1>5. Comparability(s) \in {"COMPARABLE", "NON_COMPARABLE", "INCOMPLETE"}
    BY DEF Comparability
  <1> QED
    BY <1>2, <1>3, <1>4, <1>5, EligibilityCases DEF RowOf, RowType, Settings

LEMMA CohortTyped ==
  ASSUME NEW rs
  PROVE  CohortStatus(rs) \in {"FULLY_COMPARABLE", "PARTIALLY_COMPARABLE", "NOT_COMPARABLE"}
  BY DEF CohortStatus

LEMMA InvTable == Inv => rows \in RowTable
  BY RowTyped DEF Inv, Inputs, Built, RowTable

LEMMA InvInit == Init => Inv
  BY DEF Init, Inv, Inputs, Built, Settings, Modes

LEMMA BuiltByRun ==
  ASSUME Inv, NEW v \in Vendors, Run(v), file' \in [Vendors -> File],
         score' \in [Vendors -> [Pillars -> Scores]],
         \A u \in Vendors \ {v} : file'[u] = file[u] /\ score'[u] = score[u]
  PROVE  Built'
  <1>1. rows' = [u \in Vendors |-> RowOf(file'[u], score'[u], dao')]
    BY DEF Run, Inv, Built
  <1> QED
    BY <1>1 DEF Run, Built

LEMMA StepInputs ==
  ASSUME Inv, NEW v \in Vendors,
         \/ \E tokens \in SUBSET Leaves : Deposit(v, tokens)
         \/ \E c \in Leaves : Override(v, c)
         \/ \E pillar \in Pillars, s \in Scores : Known(v, pillar, s)
  PROVE  /\ Inputs'
         /\ \A u \in Vendors \ {v} : file'[u] = file[u] /\ score'[u] = score[u]
         /\ Run(v)
  <1>1. CASE \E tokens \in SUBSET Leaves : Deposit(v, tokens)
    <2> PICK tokens \in SUBSET Leaves : Deposit(v, tokens)
      BY <1>1
    <2> DEFINE g == [file[v] EXCEPT !.readable = TRUE, !.found = file[v].found \cup tokens]
    <2>0. g \in File /\ g.readable
      BY DEF Inv, Inputs, File
    <2> HIDE DEF g
    <2>1. file' = [file EXCEPT ![v] = g]
      BY DEF Deposit, g
    <2>2. file'[v] \in File /\ file'[v].readable
      BY <2>0, <2>1 DEF Inv, Inputs
    <2> QED
      BY <2>1, <2>2 DEF Deposit, Run, Inv, Inputs
  <1>2. CASE \E c \in Leaves : Override(v, c)
    <2> PICK c \in Leaves : Override(v, c)
      BY <1>2
    <2>1. file'[v] = [file[v] EXCEPT !.overridden = @ \cup {c}]
      BY DEF Override, Inv, Inputs
    <2>2. file'[v] \in File /\ file'[v].readable = file[v].readable
             /\ file'[v].found = file[v].found
      BY <2>1 DEF Inv, Inputs, File
    <2> QED
      BY <2>2 DEF Override, Run, Inv, Inputs
  <1>3. CASE \E pillar \in Pillars, s \in Scores : Known(v, pillar, s)
    BY <1>3 DEF Known, Run, Inv, Inputs
  <1> QED
    BY <1>1, <1>2, <1>3

LEMMA InvNext == Inv /\ [Next]_vars => Inv'
  <1> SUFFICES ASSUME Inv, [Next]_vars PROVE Inv'
    OBVIOUS
  <1>1. CASE Next
    <2> PICK v \in Vendors :
             \/ \E tokens \in SUBSET Leaves : Deposit(v, tokens)
             \/ \E c \in Leaves : Override(v, c)
             \/ \E pillar \in Pillars, s \in Scores : Known(v, pillar, s)
      BY <1>1 DEF Next
    <2>1. Inputs'
      BY StepInputs
    <2>2. Built'
      BY <2>1, StepInputs, BuiltByRun DEF Inputs
    <2> QED
      BY <2>1, <2>2 DEF Inv
  <1>2. CASE UNCHANGED vars
    BY <1>2 DEF vars, matrix, Inv, Inputs, Built
  <1> QED
    BY <1>1, <1>2

\* The matrix is always that of the last run's input.
THEOREM MatrixInv == Spec => []Inv
  BY InvInit, InvNext, PTL DEF Spec

\* Inputs, rows and ranking stay well formed.
THEOREM MatrixTypes == Spec => []TypeOK
  <1>1. Inv => TypeOK
    <2> SUFFICES ASSUME Inv PROVE TypeOK
      OBVIOUS
    <2>1. rows \in [Vendors -> RowType]
      BY InvTable DEF RowTable
    <2>2. ranking \in [Vendors -> [rank : Nat, status : RankStatuses]]
      BY InvTable, RankingTyped DEF Inv, Built
    <2> QED
      BY <2>1, <2>2, CohortTyped DEF TypeOK, Inv, Inputs, Built, Settings
  <1> QED
    BY <1>1, MatrixInv, PTL

LEMMA RankedAre == Inv => RankedVendors = Ranked(rows)
  <1> SUFFICES ASSUME Inv PROVE RankedVendors = Ranked(rows)
    OBVIOUS
  <1>1. rows \in RowTable /\ ranking = Ranking(rows)
    BY InvTable DEF Inv, Built
  <1>2. \A v \in Vendors : ranking[v].status = "RANKED" <=> v \in Ranked(rows)
    BY <1>1, RankingOf
  <1>3. Ranked(rows) \subseteq Vendors
    BY <1>1, RankedRankable
  <1> QED
    BY <1>2, <1>3 DEF RankedVendors

\* Ranks have neither gaps nor ties and follow the totals.
THEOREM RankingAlwaysSound == Spec => []RankingSound
  <1>1. Inv => RankingSound
    <2> SUFFICES ASSUME Inv PROVE RankingSound
      OBVIOUS
    <2>1. rows \in RowTable /\ ranking = Ranking(rows) /\ RankedVendors = Ranked(rows)
             /\ Ranked(rows) \subseteq Vendors
      BY InvTable, RankedAre, RankedRankable DEF Inv, Built
    <2>2. {ranking[v].rank : v \in RankedVendors} = 1..Cardinality(RankedVendors)
      BY <2>1, RanksFill
    <2>3. \A u, v \in RankedVendors :
             ranking[u].rank < ranking[v].rank => rows[u].total >= rows[v].total
      BY <2>1, RankOrder, BeforeOrder
    <2>4. \A v \in Vendors \ RankedVendors : ranking[v].rank = None
      BY <2>1, RankingOf
    <2> QED
      BY <2>2, <2>3, <2>4 DEF RankingSound
  <1> QED
    BY <1>1, MatrixInv, PTL

-----------------------------------------------------------------------------
(* Who is ranked. *)

LEMMA TotalOf ==
  ASSUME NEW s \in [Pillars -> Scores]
  PROVE  /\ Total(s) # None <=> s["tech"] # None /\ s["comm"] # None /\ s["sust"] # None
         /\ Comparability(s) = "COMPARABLE" <=> Total(s) # None
  <1>1. s["tech"] \in Nat /\ s["comm"] \in Nat /\ s["sust"] \in Nat
    BY ScoresAreNat DEF Pillars
  <1> QED
    BY <1>1 DEF Total, None, Pillars, Comparability

\* What an eligible row tells of the settings and of its own scores.
LEMMA EligibleRow ==
  ASSUME NEW f, NEW s \in [Pillars -> Scores], NEW d \in Settings,
         NEW r, r = RowOf(f, s, d), r.status = "ELIGIBLE"
  PROVE  /\ r.mode = d.mode
         /\ r.total # None <=> r.scores["tech"] # None /\ r.scores["comm"] # None
                                  /\ r.scores["sust"] # None
         /\ r.qualified = "yes" => r.scores["tech"] # None
         /\ r.qualified = "unknown" <=> r.scores["tech"] = None \/ d.threshold = None
         /\ r.comparability = "COMPARABLE" <=>
               r.total # None /\ ~(d.mode = "MANDATORY" /\ r.qualified = "no")
         /\ r.qualified \in {"yes", "no", "unknown"}
  <1>1. Eligibility(f) # "INELIGIBLE" /\ Eligibility(f) = "ELIGIBLE"
    BY DEF RowOf, IneligibleRow
  <1>2. /\ r.mode = d.mode /\ r.qualified = Qualified(s, d) /\ r.scores = s /\ r.total = Total(s)
        /\ r.comparability = IF d.mode = "MANDATORY" /\ Qualified(s, d) = "no"
                             THEN "NON_COMPARABLE" ELSE Comparability(s)
    BY <1>1 DEF RowOf
  <1>3. Qualified(s, d) = "yes" => s["tech"] # None
    BY DEF Qualified
  <1>4. Qualified(s, d) = "unknown" <=> s["tech"] = None \/ d.threshold = None
    BY DEF Qualified
  <1>5. Qualified(s, d) \in {"yes", "no", "unknown"}
    BY DEF Qualified
  <1> QED
    BY <1>2, <1>3, <1>4, <1>5, TotalOf

LEMMA RowFacts ==
  ASSUME Inv, NEW v \in Vendors, rows[v].status = "ELIGIBLE"
  PROVE  /\ rows[v].mode = dao.mode
         /\ rows[v].total # None <=> rows[v].scores["tech"] # None
               /\ rows[v].scores["comm"] # None /\ rows[v].scores["sust"] # None
         /\ rows[v].qualified = "yes" => rows[v].scores["tech"] # None
         /\ rows[v].qualified = "unknown" <=>
               rows[v].scores["tech"] = None \/ dao.threshold = None
         /\ rows[v].comparability = "COMPARABLE" <=>
               rows[v].total # None /\ ~(dao.mode = "MANDATORY" /\ rows[v].qualified = "no")
         /\ rows[v].qualified \in {"yes", "no", "unknown"}
  <1>1. rows[v] = RowOf(file[v], score[v], dao)
    BY DEF Inv, Built
  <1>2. score[v] \in [Pillars -> Scores] /\ dao \in Settings
    BY DEF Inv, Inputs
  <1> QED
    BY <1>1, <1>2, EligibleRow

\* Where anyone is ranked, everyone who can be has a price.
LEMMA PricesKnown ==
  ASSUME Inv, Ranked(rows) # {}
  PROVE  Lacks(rows, "comm") = {}
  <1>1. ~AsymmetricCommercial(rows)
    BY DEF Ranked
  <1>2. CASE PartialSustainability(rows)
    <2>1. PICK v \in Ranked(rows) : TRUE
      OBVIOUS
    <2>2. v \in Rankable(rows) /\ rows[v].total # None
      BY <1>1, <1>2, <2>1 DEF Ranked
    <2>3. v \in Vendors /\ rows[v].status = "ELIGIBLE"
      BY <2>2 DEF Rankable, IsRankable
    <2>4. v \notin Lacks(rows, "comm")
      BY <2>2, <2>3, RowFacts DEF Lacks
    <2> QED
      BY <1>1, <2>2, <2>4 DEF AsymmetricCommercial, Mixed
  <1>3. CASE ~PartialSustainability(rows)
    BY <1>1, <1>3 DEF Ranked
  <1> QED
    BY <1>2, <1>3

\* Under a mandatory threshold, whoever is ranked has all three scores.
LEMMA MandatoryTotals ==
  ASSUME Inv, dao.mode = "MANDATORY", NEW v \in Ranked(rows)
  PROVE  /\ v \in Vendors /\ rows[v].status = "ELIGIBLE" /\ rows[v].qualified = "yes"
         /\ rows[v].total # None
  <1>1. v \in Rankable(rows)
    BY InvTable, RankedRankable
  <1>2. v \in Vendors /\ rows[v].status = "ELIGIBLE"
    BY <1>1 DEF Rankable, IsRankable
  <1>3. rows[v].qualified = "yes"
    BY <1>1, <1>2, RowFacts DEF Rankable, IsRankable
  <1>4. rows[v].total # None
    <2>1. CASE PartialSustainability(rows)
      BY <2>1 DEF Ranked
    <2>2. CASE ~PartialSustainability(rows)
      <3>1. Lacks(rows, "comm") = {} /\ Lacks(rows, "sust") = {}
        BY <2>2 DEF Ranked
      <3>2. rows[v].scores["comm"] # None /\ rows[v].scores["sust"] # None
        BY <1>1, <3>1 DEF Lacks
      <3> QED
        BY <1>2, <1>3, <3>2, RowFacts
    <2> QED
      BY <2>1, <2>2
  <1> QED
    BY <1>2, <1>3, <1>4

\* Nobody wins while a possible winner's price is missing.
THEOREM NeverFalseWinner == Spec => []NoFalseWinner
  <1>1. Inv => NoFalseWinner
    <2> SUFFICES ASSUME Inv, RankedVendors # {} PROVE
                   /\ \A v \in Rankable(rows) : rows[v].scores["comm"] # None
                   /\ dao.mode = "MANDATORY" => \A v \in RankedVendors : rows[v].total # None
      BY DEF NoFalseWinner
    <2>1. RankedVendors = Ranked(rows)
      BY RankedAre
    <2>2. Lacks(rows, "comm") = {}
      BY <2>1, PricesKnown
    <2>3. \A v \in Rankable(rows) : rows[v].scores["comm"] # None
      BY <2>2 DEF Lacks
    <2> QED
      BY <2>1, <2>3, MandatoryTotals
  <1> QED
    BY <1>1, MatrixInv, PTL

LEMMA FullyRanked ==
  ASSUME Inv, cohort = "FULLY_COMPARABLE"
  PROVE  \/ Ranked(rows) = Vendors
         \/ Ranked(rows) = {} /\ dao.mode = "MANDATORY" /\ dao.threshold = None
  <1>1. \A v \in Vendors : rows[v].status = "ELIGIBLE" /\ rows[v].comparability = "COMPARABLE"
    BY DEF Inv, Built, CohortStatus
  <1>2. \A v \in Vendors :
           /\ rows[v].total # None /\ rows[v].scores["tech"] # None
           /\ rows[v].scores["comm"] # None /\ rows[v].scores["sust"] # None
           /\ rows[v].mode = dao.mode
           /\ ~(dao.mode = "MANDATORY" /\ rows[v].qualified = "no")
           /\ rows[v].qualified = "unknown" <=> dao.threshold = None
           /\ rows[v].qualified \in {"yes", "no", "unknown"}
    BY <1>1, RowFacts
  <1>3. Lacks(rows, "comm") = {} /\ Lacks(rows, "sust") = {}
    BY <1>2 DEF Lacks, Rankable
  <1>4. Ranked(rows) = Rankable(rows)
    BY <1>3 DEF Ranked, AsymmetricCommercial, PartialSustainability, Mixed
  <1>5. CASE dao.mode = "MANDATORY" /\ dao.threshold = None
    <2>1. Rankable(rows) = {}
      BY <1>2, <1>5 DEF Rankable, IsRankable
    <2> QED
      BY <1>4, <1>5, <2>1
  <1>6. CASE ~(dao.mode = "MANDATORY" /\ dao.threshold = None)
    <2>1. Rankable(rows) = Vendors
      BY <1>1, <1>2, <1>6 DEF Rankable, IsRankable
    <2> QED
      BY <1>4, <2>1
  <1> QED
    BY <1>5, <1>6

LEMMA NotComparableUnranked ==
  ASSUME Inv, cohort = "NOT_COMPARABLE", dao.mode = "MANDATORY"
  PROVE  Ranked(rows) = {}
  <1> SUFFICES ASSUME NEW v \in Ranked(rows) PROVE FALSE
    OBVIOUS
  <1>1. /\ v \in Vendors /\ rows[v].status = "ELIGIBLE" /\ rows[v].qualified = "yes"
        /\ rows[v].total # None
    BY MandatoryTotals
  <1>2. rows[v].comparability = "COMPARABLE"
    BY <1>1, RowFacts
  <1> QED
    BY <1>1, <1>2 DEF Inv, Built, CohortStatus

\* The cohort's status never contradicts the ranks.
THEOREM SummaryAlwaysMatches == Spec => []SummaryMatchesRows
  <1>1. Inv => SummaryMatchesRows
    BY RankedAre, FullyRanked, NotComparableUnranked DEF SummaryMatchesRows
  <1> QED
    BY <1>1, MatrixInv, PTL

-----------------------------------------------------------------------------
(* Steps. *)

LEMMA RowStatus ==
  ASSUME NEW f, NEW s, NEW d
  PROVE  RowOf(f, s, d).status = Eligibility(f)
  BY DEF RowOf, IneligibleRow

LEMMA FileGrows ==
  ASSUME Inv, NEW v \in Vendors,
         \/ \E tokens \in SUBSET Leaves : Deposit(v, tokens)
         \/ \E c \in Leaves : Override(v, c)
         \/ \E pillar \in Pillars, s \in Scores : Known(v, pillar, s)
  PROVE  /\ file'[v].scorable = file[v].scorable /\ file'[v].declared = file[v].declared
         /\ file[v].readable => file'[v].readable
         /\ file[v].found \subseteq file'[v].found
         /\ file[v].overridden \subseteq file'[v].overridden
  <1>1. CASE \E tokens \in SUBSET Leaves : Deposit(v, tokens)
    <2> PICK tokens \in SUBSET Leaves : Deposit(v, tokens)
      BY <1>1
    <2> DEFINE g == [file[v] EXCEPT !.readable = TRUE, !.found = file[v].found \cup tokens]
    <2>0. /\ g.scorable = file[v].scorable /\ g.declared = file[v].declared /\ g.readable
          /\ g.found = file[v].found \cup tokens /\ g.overridden = file[v].overridden
      BY DEF Inv, Inputs, File
    <2> HIDE DEF g
    <2>1. file'[v] = g
      BY DEF Deposit, g, Inv, Inputs
    <2> QED
      BY <2>0, <2>1
  <1>2. CASE \E c \in Leaves : Override(v, c)
    <2> PICK c \in Leaves : Override(v, c)
      BY <1>2
    <2>1. file'[v] = [file[v] EXCEPT !.overridden = @ \cup {c}]
      BY DEF Override, Inv, Inputs
    <2> QED
      BY <2>1 DEF Inv, Inputs, File
  <1>3. CASE \E pillar \in Pillars, s \in Scores : Known(v, pillar, s)
    BY <1>3 DEF Known
  <1> QED
    BY <1>1, <1>2, <1>3

LEMMA StepNeverWorse ==
  ASSUME Inv, Inv', [Next]_vars, NEW v \in Vendors
  PROVE  Grade(rows'[v].status) >= Grade(rows[v].status)
  <1>1. rows[v].status = Eligibility(file[v]) /\ rows'[v].status = Eligibility(file'[v])
    BY RowStatus DEF Inv, Built
  <1>2. file[v] \in File /\ file'[v] \in File
    BY DEF Inv, Inputs
  <1>3. CASE file'[v] = file[v]
    BY <1>1, <1>3 DEF Grade
  <1>4. CASE file'[v] # file[v]
    <2>1. Next
      BY <1>4 DEF vars
    <2>2. PICK w \in Vendors :
             \/ \E tokens \in SUBSET Leaves : Deposit(w, tokens)
             \/ \E c \in Leaves : Override(w, c)
             \/ \E pillar \in Pillars, s \in Scores : Known(w, pillar, s)
      BY <2>1 DEF Next
    <2>3. w = v
      BY <1>4, <2>2, StepInputs
    <2>4. /\ file'[v].scorable = file[v].scorable /\ file'[v].declared = file[v].declared
          /\ file[v].readable => file'[v].readable
          /\ file[v].found \subseteq file'[v].found
          /\ file[v].overridden \subseteq file'[v].overridden
      BY <2>2, <2>3, FileGrows
    <2>5. Grade(Eligibility(file'[v])) >= Grade(Eligibility(file[v]))
      BY <1>2, <2>4, GradeImproves
    <2> QED
      BY <1>1, <2>5
  <1> QED
    BY <1>3, <1>4

\* Documents and overrides only ever help the vendor they are for.
THEOREM VerdictsNeverWorse == Spec => NeverWorse
  <1>1. Inv /\ Inv' /\ [Next]_vars =>
           [\A v \in Vendors : Grade(rows'[v].status) >= Grade(rows[v].status)]_vars
    BY StepNeverWorse
  <1> QED
    BY <1>1, MatrixInv, PTL DEF Spec, NeverWorse

\* An offer that cannot be ranked is not in any of the sets a ranking reads.
LEMMA BystanderRanking ==
  ASSUME NEW rs \in RowTable, NEW ts \in RowTable, NEW v \in Vendors,
         \A u \in Vendors \ {v} : ts[u] = rs[u],
         ~IsRankable(rs[v]), ~IsRankable(ts[v])
  PROVE  \A u \in Vendors \ {v} : Ranking(ts)[u] = Ranking(rs)[u]
  <1>1. Rankable(ts) = Rankable(rs) /\ v \notin Rankable(rs)
    BY DEF Rankable
  <1>2. \A pillar : Lacks(ts, pillar) = Lacks(rs, pillar)
    BY <1>1 DEF Lacks, Rankable
  <1>3. /\ AsymmetricCommercial(ts) = AsymmetricCommercial(rs)
        /\ PartialSustainability(ts) = PartialSustainability(rs)
    BY <1>1, <1>2 DEF AsymmetricCommercial, PartialSustainability, Mixed
  <1>4. Ranked(ts) = Ranked(rs)
    <2>1. {u \in Rankable(rs) \ Lacks(rs, "sust") : ts[u].total # None}
             = {u \in Rankable(rs) \ Lacks(rs, "sust") : rs[u].total # None}
      BY <1>1 DEF Rankable
    <2> QED
      BY <1>1, <1>2, <1>3, <2>1 DEF Ranked
  <1>5. v \notin Ranked(rs) /\ Ranked(rs) \subseteq Vendors
    BY <1>1, RankedRankable
  <1> SUFFICES ASSUME NEW u \in Vendors \ {v} PROVE Ranking(ts)[u] = Ranking(rs)[u]
    OBVIOUS
  <1>6. {w \in Ranked(rs) : Before(ts, w, u)} = {w \in Ranked(rs) : Before(rs, w, u)}
    BY <1>5 DEF Before
  <1>7. Unranked(ts, u) = Unranked(rs, u)
    BY <1>2, <1>3 DEF Unranked
  <1> QED
    BY <1>4, <1>6, <1>7 DEF Ranking

LEMMA StepOrder ==
  ASSUME Inv, Inv', [Next]_vars, NEW v \in Vendors,
         \A u \in Vendors \ {v} : file'[u] = file[u] /\ score'[u] = score[u]
  PROVE  /\ ~IsRankable(rows[v]) /\ ~IsRankable(rows'[v]) =>
               \A u \in Vendors \ {v} : ranking'[u] = ranking[u]
         /\ \A u, w \in (RankedVendors \cap RankedVendors') \ {v} :
               ranking[u].rank < ranking[w].rank => ranking'[u].rank < ranking'[w].rank
  <1>1. dao' = dao
    BY DEF Next, Deposit, Override, Known, Run, vars
  <1>2. \A u \in Vendors \ {v} : rows'[u] = rows[u]
    BY <1>1 DEF Inv, Built
  <1>3. rows \in RowTable /\ rows' \in RowTable
    <2>1. (Inv => rows \in RowTable)'
      BY InvTable, PTL
    <2> QED
      BY <2>1, InvTable DEF RowTable
  <1>4. ranking = Ranking(rows) /\ ranking' = Ranking(rows')
    BY DEF Inv, Built
  <1>5. ~IsRankable(rows[v]) /\ ~IsRankable(rows'[v]) =>
           \A u \in Vendors \ {v} : ranking'[u] = ranking[u]
    BY <1>2, <1>3, <1>4, BystanderRanking
  <1>6. RankedVendors = Ranked(rows) /\ RankedVendors' = Ranked(rows')
    <2>1. (Inv => RankedVendors = Ranked(rows))'
      BY RankedAre, PTL
    <2> QED
      BY <2>1, RankedAre
  <1>7. ASSUME NEW u \in (RankedVendors \cap RankedVendors') \ {v},
               NEW w \in (RankedVendors \cap RankedVendors') \ {v},
               ranking[u].rank < ranking[w].rank
        PROVE  ranking'[u].rank < ranking'[w].rank
    <2>1. u \in Vendors \ {v} /\ w \in Vendors \ {v}
      BY DEF RankedVendors
    <2>2. Before(rows, u, w)
      BY <1>3, <1>4, <1>6, <1>7, RankOrder
    <2>3. Before(rows', u, w)
      BY <1>2, <2>1, <2>2 DEF Before
    <2> QED
      BY <1>3, <1>4, <1>6, <2>3, RankOrder
  <1> QED
    BY <1>5, <1>7

\* One offer's changes never reorder the others.
THEOREM OthersAlwaysKeepTheirOrder == Spec => OthersKeepTheirOrder
  <1>1. Inv /\ Inv' /\ [Next]_vars =>
           [\A v \in Vendors :
              (\A u \in Vendors \ {v} : file'[u] = file[u] /\ score'[u] = score[u]) =>
                 /\ ~IsRankable(rows[v]) /\ ~IsRankable(rows'[v]) =>
                       \A u \in Vendors \ {v} : ranking'[u] = ranking[u]
                 /\ \A u, w \in (RankedVendors \cap RankedVendors') \ {v} :
                       ranking[u].rank < ranking[w].rank =>
                          ranking'[u].rank < ranking'[w].rank]_vars
    BY StepOrder
  <1> QED
    BY <1>1, MatrixInv, PTL DEF Spec, OthersKeepTheirOrder
=============================================================================
