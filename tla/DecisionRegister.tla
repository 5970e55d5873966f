--------------------------- MODULE DecisionRegister ---------------------------
(***************************************************************************)
(* What a committee promises about its decision, whatever requests race:   *)
(* proposals are tabled, then one award names the proposal that is newest  *)
(* at that moment, and from then on nothing is tabled, withdrawn or        *)
(* awarded again.  CommitteeLock implements it.                            *)
(***************************************************************************)
EXTENDS Naturals

CONSTANT Ids  \* proposals, positive numbers in the order they were made

VARIABLES tabled,  \* the proposals that stand
          verdict  \* the awarded proposal, 0 before the award

vars == <<tabled, verdict>>

Init == tabled = {} /\ verdict = 0

Table(d) ==
    /\ verdict = 0
    /\ d \notin tabled
    /\ tabled' = tabled \cup {d}
    /\ UNCHANGED verdict

Award(d) ==
    /\ verdict = 0
    /\ d \in tabled /\ \A e \in tabled : e <= d
    /\ verdict' = d
    /\ UNCHANGED tabled

Next == \E d \in Ids : Table(d) \/ Award(d)

Spec == Init /\ [][Next]_vars

=============================================================================
