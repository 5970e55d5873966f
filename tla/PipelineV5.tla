----------------------------- MODULE PipelineV5 -----------------------------
(***************************************************************************)
(* The comparative evaluation of one workspace: run_pipeline_v5, from the  *)
(* extraction of the offers to the assessments                             *)
(* (src/services/pipeline_v5_service.py), the bridge from M14 to M16 that  *)
(* it shares with POST m16/sync-from-m14 (m14_bridge.py), and POST         *)
(* m16/initialize-from-m14 (m16_backfill.py), called while others run.     *)
(*                                                                         *)
(* A run commits after every stage, so a run that stops (an error that is  *)
(* answered, an exception, a lost process) leaves what it has written, and *)
(* another run may begin between two of its stages.  The bridge is one     *)
(* transaction that writes one cell after the other, in the key order of   *)
(* the JSONB matrix; a cell it has written is locked until it ends.        *)
(*                                                                         *)
(* Abstractions: the criteria of a bundle are written in a row and behave  *)
(* alike, so a cell is a bundle.  Of an extraction only its readiness      *)
(* matters, of M12, M13, Gate B, the eligibility gate and M14 the bundles  *)
(* they let through.  save_evaluation takes the next version, with its     *)
(* retries, in one step.  All criteria are those of the DAO, so the        *)
(* bridge's DELETE of rows under other keys finds none.                    *)
(***************************************************************************)
EXTENDS Naturals, Sequences

CONSTANTS Procs,    \* requests being served
          NBundles, \* SCORABLE bundles of the workspace
          MaxCalls  \* bound: requests ever begun

ASSUME BoundsAssumption == NBundles \in Nat \ {0} /\ MaxCalls \in Nat

VARIABLES offer,   \* newest row of offer_extractions of each bundle
          docs,    \* evaluation_documents, by version
          assess,  \* criterion_assessments
          proc,    \* the requests
          result,  \* how each last ended
          calls

rows == <<offer, docs, assess>>
vars == <<rows, proc, result, calls>>

Bundles == 1..NBundles
Readiness == {"ok", "not_ok"}

\* listed: whether matrix_participants is in the document.
Document == [cells : SUBSET Bundles, listed : BOOLEAN, participants : SUBSET Bundles]
NoCell == [doc |-> 0]
Cells == [doc : Nat \ {0}, scored : BOOLEAN, by : {"run", "sync", "init"}]

Idle == [at |-> "idle"]
Ats == {"extract", "assemble", "evaluate", "save", "check", "bridge", "cells", "commit"}
Active == [op : {"run", "sync", "init"}, at : Ats, force : BOOLEAN,
           sent : SUBSET Bundles, eligible : SUBSET Bundles, own : Nat,
           doc : Nat, next : 1..(NBundles + 1), wrote : SUBSET Bundles,
           alone : BOOLEAN, muted : BOOLEAN]

Init ==
    /\ offer = [b \in Bundles |-> "none"]
    /\ docs = <<>>
    /\ assess = [b \in Bundles |-> NoCell]
    /\ proc = [p \in Procs |-> Idle]
    /\ result = [p \in Procs |-> "none"]
    /\ calls = 0

-----------------------------------------------------------------------------
Becomes(p, r) == proc' = [proc EXCEPT ![p] = r]
Goes(p, at) == Becomes(p, [proc[p] EXCEPT !.at = at])

Ends(p, how) ==
    /\ Becomes(p, Idle)
    /\ result' = [result EXCEPT ![p] = how]

\* No two requests are kept apart: whoever was alone is no longer.
Begin(p, op, force) ==
    /\ proc[p] = Idle /\ calls < MaxCalls
    /\ calls' = calls + 1
    /\ LET others == {q \in Procs : proc[q] # Idle}
           new == [op |-> op, at |-> IF op = "run" THEN "extract" ELSE "bridge",
                   force |-> force, sent |-> {}, eligible |-> {}, own |-> 0, doc |-> 0,
                   next |-> 1, wrote |-> {}, alone |-> others = {}, muted |-> FALSE]
       IN  proc' = [q \in Procs |-> CASE q = p -> new
                                      [] q \in others -> [proc[q] EXCEPT !.alone = FALSE]
                                      [] OTHER -> proc[q]]
    /\ UNCHANGED <<rows, result>>

\* Any stage may end the request; an open transaction is rolled back.
Stop(p) ==
    /\ proc[p] # Idle
    /\ Ends(p, "stopped")
    /\ UNCHANGED <<rows, calls>>

-----------------------------------------------------------------------------
(* The run. *)

\* extract_offers_from_bundles: an extraction that fails is persisted as a
\* fallback row that is not ok, or leaves the row as it is.
Extract(p) ==
    /\ proc[p].at = "extract"
    /\ \E done \in SUBSET Bundles, good \in SUBSET Bundles :
          /\ good \subseteq done /\ done # {}
          /\ offer' = [b \in Bundles |-> IF b \in good THEN "ok"
                                         ELSE IF b \in done THEN "not_ok" ELSE offer[b]]
    /\ Goes(p, "assemble")
    /\ UNCHANGED <<docs, assess, result, calls>>

\* build_m14_offers_for_workspace: one row that is not ready, or a document
\* for a run that is not forced, refuses the workspace.
Refused(p) == (\E b \in Bundles : offer[b] = "not_ok") \/ (docs # <<>> /\ ~proc[p].force)

Assemble(p) ==
    /\ proc[p].at = "assemble"
    /\ IF Refused(p) THEN Ends(p, "refused")
       ELSE /\ \E sent \in SUBSET {b \in Bundles : offer[b] = "ok"} :
                  \E eligible \in SUBSET sent :
                     /\ sent # {}
                     /\ Becomes(p, [proc[p] EXCEPT !.at = "evaluate",
                                                   !.sent = sent, !.eligible = eligible])
            /\ UNCHANGED result
    /\ UNCHANGED <<rows, calls>>

\* save_evaluation returns None when it fails, and nobody asks.
Saves(p, at, document) ==
    /\ \/ /\ docs' = Append(docs, document)
          /\ Becomes(p, [proc[p] EXCEPT !.at = at, !.own = Len(docs) + 1])
       \/ /\ UNCHANGED docs
          /\ Becomes(p, [proc[p] EXCEPT !.at = at, !.muted = TRUE])
    /\ UNCHANGED <<offer, assess, result, calls>>

\* EvaluationEngine.evaluate saves its report, without the participants.
Evaluate(p) ==
    /\ proc[p].at = "evaluate"
    /\ Saves(p, "save", [cells |-> proc[p].sent, listed |-> FALSE, participants |-> {}])

Save(p) ==
    /\ proc[p].at = "save"
    /\ Saves(p, "check", [cells |-> proc[p].sent, listed |-> TRUE,
                          participants |-> proc[p].eligible])

\* no_eligible_matrix_participants.
CheckParticipants(p) ==
    /\ proc[p].at = "check"
    /\ IF proc[p].eligible = {} THEN Ends(p, "refused")
       ELSE Goes(p, "bridge") /\ UNCHANGED result
    /\ UNCHANGED <<rows, calls>>

-----------------------------------------------------------------------------
(* The bridge: populate_assessments_from_m14, strict in a run, and           *)
(* initialize_criterion_assessments_from_m14.                                *)

\* Mutant of Admits: strict mode lets a document without participants pass.
AdmitsLegacy(op, d) == TRUE

\* matrix_participant_bundle_ids.
Admits(op, d) == op = "run" => d.listed

\* Mutant of ReadDocument: the oldest document is read.
ReadOldestDocument(p) ==
    /\ proc[p].at = "bridge" /\ docs # <<>>
    /\ IF Admits(proc[p].op, docs[1])
       THEN Becomes(p, [proc[p] EXCEPT !.at = "cells", !.doc = 1]) /\ UNCHANGED result
       ELSE Ends(p, "stopped")
    /\ UNCHANGED <<rows, calls>>

ReadDocument(p) ==
    /\ proc[p].at = "bridge" /\ docs # <<>>
    /\ IF Admits(proc[p].op, docs[Len(docs)])
       THEN Becomes(p, [proc[p] EXCEPT !.at = "cells", !.doc = Len(docs)]) /\ UNCHANGED result
       ELSE Ends(p, "stopped")
    /\ UNCHANGED <<rows, calls>>

\* Without any document the bridge has nothing to do.
NoDocument(p) ==
    /\ proc[p].at = "bridge" /\ docs = <<>>
    /\ Ends(p, "completed")
    /\ UNCHANGED <<rows, calls>>

\* initialize does not look at the participants, and without a list neither
\* does the bridge.
Concerns(p, b) ==
    LET d == docs[proc[p].doc]
    IN  b \in d.cells /\ (proc[p].op = "init" \/ ~d.listed \/ b \in d.participants)

Wrote(q) == IF proc[q] = Idle THEN {} ELSE proc[q].wrote
RowFree(p, b) == \A q \in Procs \ {p} : b \notin Wrote(q)

\* Mutant of Writable: the UPDATE has no WHERE on the score.
WritableAnyway(op, cell) == cell = NoCell \/ op # "init"

\* _upsert_assessment: INSERT ... ON CONFLICT DO NOTHING, then an UPDATE of a
\* cell without a score; initialize only inserts.
Writable(op, cell) == cell = NoCell \/ (op # "init" /\ ~cell.scored)

\* Mutant of CellOf: initialize goes through the cells the other way round.
CellOfReversed(p) ==
    IF proc[p].op = "init" THEN NBundles + 1 - proc[p].next ELSE proc[p].next

CellOf(p) == proc[p].next

Advances(p, written) ==
    /\ Becomes(p, [proc[p] EXCEPT !.next = @ + 1, !.wrote = @ \cup written])
    /\ UNCHANGED <<rows, result, calls>>

WriteCell(p) ==
    /\ proc[p].at = "cells" /\ proc[p].next <= NBundles
    /\ LET b == CellOf(p)
       IN  IF ~Concerns(p, b) THEN Advances(p, {})
           ELSE /\ RowFree(p, b)
                /\ Advances(p, IF Writable(proc[p].op, assess[b]) THEN {b} ELSE {})

\* A statement that raises is logged and the bridge goes on in a transaction
\* that PostgreSQL has aborted, whose COMMIT is a silent ROLLBACK; initialize
\* lets the exception through.
CellFails(p) ==
    /\ proc[p].at = "cells" /\ proc[p].next <= NBundles
    /\ Concerns(p, CellOf(p))
    /\ proc[p].op # "init"
    /\ Becomes(p, [proc[p] EXCEPT !.at = "commit", !.wrote = {}, !.muted = TRUE])
    /\ UNCHANGED <<rows, result, calls>>

LastCell(p) ==
    /\ proc[p].at = "cells" /\ proc[p].next > NBundles
    /\ Goes(p, "commit")
    /\ UNCHANGED <<rows, result, calls>>

\* Mutant of CommitBridge: evaluation_document_id is left out.
CommitBridgeUnlinked(p) ==
    /\ proc[p].at = "commit"
    /\ assess' = [b \in Bundles |->
                     IF b \in proc[p].wrote
                     THEN [doc |-> 0, scored |-> FALSE, by |-> proc[p].op]
                     ELSE assess[b]]
    /\ Ends(p, "completed")
    /\ UNCHANGED <<offer, docs, calls>>

CommitBridge(p) ==
    /\ proc[p].at = "commit"
    /\ assess' = [b \in Bundles |->
                     IF b \in proc[p].wrote
                     THEN [doc |-> proc[p].doc, scored |-> FALSE, by |-> proc[p].op]
                     ELSE assess[b]]
    /\ Ends(p, "completed")
    /\ UNCHANGED <<offer, docs, calls>>

\* An evaluator sets the score of a cell, in a transaction of its own.
SetScore(b) ==
    /\ assess[b] # NoCell /\ \A p \in Procs : b \notin Wrote(p)
    /\ assess' = [assess EXCEPT ![b].scored = TRUE]
    /\ UNCHANGED <<offer, docs, proc, result, calls>>

Bridge(p) ==
    \/ ReadDocument(p) \/ NoDocument(p)
    \/ WriteCell(p) \/ CellFails(p) \/ LastCell(p) \/ CommitBridge(p)

Step(p) ==
    \/ Extract(p) \/ Assemble(p) \/ Evaluate(p) \/ Save(p) \/ CheckParticipants(p)
    \/ Bridge(p)

Next ==
    \/ \E p \in Procs : \/ \E force \in BOOLEAN : Begin(p, "run", force)
                        \/ \E op \in {"sync", "init"} : Begin(p, op, FALSE)
                        \/ Step(p) \/ Stop(p)
    \/ \E b \in Bundles : SetScore(b)

Spec == Init /\ [][Next]_vars

-----------------------------------------------------------------------------
(* Properties. *)

\* Every value a row or a request can hold.
TypeOK ==
    /\ offer \in [Bundles -> Readiness \cup {"none"}]
    /\ docs \in Seq(Document)
    /\ assess \in [Bundles -> Cells \cup {NoCell}]
    /\ proc \in [Procs -> Active \cup {Idle}]
    /\ result \in [Procs -> {"none", "completed", "refused", "stopped"}]
    /\ calls \in 0..MaxCalls

\* RULE-R1 of m14_bridge.py: whatever bridges run at once, a score that an
\* evaluator has set stays, with the document it was set on.
ScoresStand ==
    [][\A b \in Bundles :
         (assess[b] # NoCell /\ assess[b].scored) => assess'[b] = assess[b]]_vars

\* What a run writes cites a document in which the bundle is a participant:
\* neither a save that failed, nor a run that stopped between its two saves,
\* nor the run next to it makes a supplier without eligibility assessed.
RunsAssessParticipants ==
    \A b \in Bundles : (assess[b] # NoCell /\ assess[b].by = "run") =>
        b \in docs[assess[b].doc].participants

\* A run that completes, alone and without a failure nobody told of, has
\* assessed all its participants on its own evaluation, or left the score an
\* evaluator had set.
CompletedIsAssessed ==
    [][\A p \in Procs :
         (/\ proc[p] # Idle /\ proc'[p] = Idle /\ result'[p] = "completed"
          /\ proc[p].op = "run" /\ proc[p].alone /\ ~proc[p].muted)
         => /\ proc[p].eligible # {}
            /\ \A b \in proc[p].eligible :
                  assess'[b] # NoCell /\ (assess'[b].doc = proc[p].own \/ assess'[b].scored)]_vars

\* The cell a bridge or initialize is about to write is locked by q.
WaitsFor(p, q) ==
    /\ proc[p].at = "cells" /\ proc[p].next <= NBundles
    /\ q # p /\ CellOf(p) \in Wrote(q)

\* Requests never wait for each other in a circle, however many of them write
\* the same cells: PostgreSQL would kill one, and the bridge would swallow it.
NoCircularWait ==
    \A S \in SUBSET Procs : S # {} => \E p \in S : \A q \in S : ~WaitsFor(p, q)

\* test_pipeline_v5_integration.py:315-317 runs the pipeline again without
\* force_m14 and expects it to complete.  Offers that are all ready are refused
\* because of the document of the first run.
RerunCompletes ==
    [][\A p \in Procs :
         (proc[p].at = "assemble" /\ proc'[p] = Idle /\ result'[p] = "refused")
         => \E b \in Bundles : offer[b] = "not_ok"]_vars

=============================================================================
