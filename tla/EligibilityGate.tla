-------------------------- MODULE EligibilityGate --------------------------
(***************************************************************************)
(* The verdict of the eligibility gate on one offer, a function of what is *)
(* in the supplier's file: src/procurement/eligibility_gate.py.            *)
(*                                                                         *)
(* The catalogue is the standard one: each leaf expects one token, looked  *)
(* for in the documents; a leaf is blocking or can be regularised, and the *)
(* leaves under sci_q5 are also aggregated.  It has no leaf answered by a  *)
(* declaration, so no result is PASS_DECLARED.  Confidences, review        *)
(* priorities and traces are left out: no verdict reads them.              *)
(***************************************************************************)
EXTENDS Naturals, FiniteSets

CONSTANTS Leaves,        \* the leaf criteria of the catalogue
          Regularizable, \* those whose severity is not BLOCKING
          Q5             \* those under sci_q5

ASSUME CatalogueAssumption ==
    IsFiniteSet(Leaves) /\ Regularizable \subseteq Leaves /\ Q5 \subseteq Leaves

Blocking == Leaves \ Regularizable

\* scorable: Gate B. readable: some document has text. found: the tokens in
\* it. declared: claimed without proof. overridden: by the committee.
File == [scorable : BOOLEAN, readable : BOOLEAN, found : SUBSET Leaves,
         declared : SUBSET Leaves, overridden : SUBSET Leaves]

\* An override turns a confirmed failure, and nothing else, into a pass; it
\* is not looked at when the bundle or the submission already decides.
Result(f, c) ==
    IF ~f.scorable THEN "FAIL_CONFIRMED"
    ELSE IF ~f.readable THEN "NOT_SUBMITTED"
    ELSE IF c \in f.found THEN "PASS_CONFIRMED"
    ELSE IF c \in Regularizable THEN "PENDING_REVIEW"
    ELSE IF c \in f.overridden THEN "PASS_CONFIRMED" ELSE "FAIL_CONFIRMED"

\* Mutant: an overridden document no longer counts as documented.
DocumentedUntouched(f, c) == Result(f, c) = "PASS_CONFIRMED" /\ c \notin f.overridden

\* A missing document the vendor never claimed to have leaves the proof level
\* DOCUMENTED, and the override keeps it.
Documented(f, c) == Result(f, c) = "PASS_CONFIRMED" /\ (c \in f.found \/ c \notin f.declared)

Q5Result(f) ==
    IF \A c \in Q5 : Result(f, c) = "NOT_SUBMITTED" THEN "NOT_SUBMITTED"
    ELSE IF \E c \in Q5 \cap Blocking : Result(f, c) = "FAIL_CONFIRMED" THEN "FAIL_CONFIRMED"
    ELSE IF \A c \in Q5 : Result(f, c) = "PASS_CONFIRMED" THEN "PASS_CONFIRMED"
    ELSE "PENDING_REVIEW"

\* The results a verdict reads; the aggregate is there when it has leaves.
Results(f) == {Result(f, c) : c \in Leaves} \cup (IF Q5 = {} THEN {} ELSE {Q5Result(f)})

\* _documentary_strength, the ratios over the blocking leaves in tenths.
Strength(f) ==
    LET documented == Cardinality({c \in Blocking : Documented(f, c)})
        total == Cardinality(Blocking)
        declared == total - documented
    IN  IF total = 0 THEN "LOW"
        ELSE IF 10 * documented >= 9 * total /\ documented > declared THEN "HIGH"
        ELSE IF 10 * documented >= 7 * total \/ (documented > 0 /\ declared > 0) THEN "MEDIUM"
        ELSE "LOW"

Verdict(f) ==
    LET results == Results(f)
        aggregate == IF Q5 = {} THEN "none" ELSE Q5Result(f)
    IN  IF results \subseteq {"NOT_SUBMITTED"} THEN "NOT_SUBMITTED"
        ELSE IF ~f.scorable THEN "GATE_B_NON_SCORABLE"
        ELSE IF \/ \E c \in Blocking : Result(f, c) = "FAIL_CONFIRMED"
                \/ aggregate = "FAIL_CONFIRMED" THEN "BLOCKING_FAIL"
        ELSE IF "PENDING_REVIEW" \in results THEN "PENDING_REGULARIZATION_OR_REVIEW"
        ELSE IF Strength(f) = "LOW" THEN "WEAK_DOCUMENTARY"
        ELSE "PASS"

\* _eligibility_status of matrix_builder_service.py.
Eligibility(f) ==
    LET verdict == Verdict(f)
    IN  CASE verdict \in {"NOT_SUBMITTED", "GATE_B_NON_SCORABLE", "BLOCKING_FAIL"} -> "INELIGIBLE"
          [] verdict = "PENDING_REGULARIZATION_OR_REVIEW" -> "REGULARIZATION_PENDING"
          [] verdict = "WEAK_DOCUMENTARY" -> "PENDING"
          [] verdict = "PASS" -> "ELIGIBLE"
=============================================================================
