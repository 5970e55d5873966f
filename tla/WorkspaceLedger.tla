--------------------------- MODULE WorkspaceLedger ---------------------------
(***************************************************************************)
(* What the sealing of a workspace promises, whatever requests race: at    *)
(* most one record (the PV) is ever made, at the moment the workspace is   *)
(* sealed; it never changes; a sealed workspace can only be closed, and a  *)
(* closed one never moves again.  WorkspaceSeal implements it.             *)
(***************************************************************************)
CONSTANTS Records,  \* the records that can be made
          NoRecord

VARIABLES phase,  \* "working", "sealed" or "closed"
          record

vars == <<phase, record>>

Init == phase = "working" /\ record = NoRecord

Seal(r) ==
    /\ phase = "working"
    /\ record = NoRecord
    /\ phase' = "sealed"
    /\ record' = r

Close == phase # "closed" /\ phase' = "closed" /\ UNCHANGED record

Next == Close \/ \E r \in Records : Seal(r)

Spec == Init /\ [][Next]_vars

=============================================================================
