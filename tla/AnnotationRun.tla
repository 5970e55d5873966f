---------------------------- MODULE AnnotationRun ----------------------------
(***************************************************************************)
(* One annotation run: the checkpoint file of a document and task, and the *)
(* Label Studio predict requests that work on it (AnnotationOrchestrator,  *)
(* src/annotation/orchestrator.py; predict, annotation-backend/backend.py).*)
(* run_id is a function of document and task, so every request for the     *)
(* task shares the file; requests run in a thread pool, and nothing        *)
(* serializes two of them.                                                 *)
(*                                                                         *)
(* Passes 1..4 are 1A to 1D, pass 5 is 2A.  An output is known by the      *)
(* request that computed it and the request that computed the output of    *)
(* the pass before it that it was computed from; the pass itself, with its *)
(* retries, is one step that gives an output or fails.  save_run is three  *)
(* steps (truncate the .tmp file, write it, rename it), because the .tmp   *)
(* name is shared too.  A restart kills every request, may change the      *)
(* switches and may bring a code whose models refuse a stored output.      *)
(*                                                                         *)
(* Left out: the transition log, case_documents_1a (no caller passes any), *)
(* the LLM router of pass 1 (the backend gives none), a save that raises.  *)
(***************************************************************************)
EXTENDS Integers, FiniteSets

CONSTANTS Reqs,        \* request threads
          MaxCalls,    \* bound: requests ever begun
          MaxRestarts, \* bound: restarts of the service
          MaxRefused   \* bound: outputs that a restart makes unreadable

ASSUME BoundsAssumption == MaxCalls \in Nat /\ MaxRestarts \in Nat /\ MaxRefused \in Nat

VARIABLES doc,      \* the task: quality of its text, whether it has a case
          m12, p2a, \* ANNOTATION_USE_M12_SUBPASSES, ANNOTATION_USE_PASS_2A
          file,     \* the checkpoint file
          tmp,      \* its .tmp file
          req,      \* the requests
          answer,   \* what each thread last answered
          calls, restarts,
          overlap   \* history: two requests have been in progress at once

settings == <<doc, m12, p2a>>
disk == <<file, tmp>>
counts == <<calls, restarts, overlap>>
vars == <<settings, disk, req, answer, counts>>

Passes == 1..5
Done == [k \in 0..5 |-> CASE k = 0 -> "quality_assessed" [] k = 1 -> "pass_1a_done"
           [] k = 2 -> "pass_1b_done" [] k = 3 -> "pass_1c_done"
           [] k = 4 -> "pass_1d_done" [] k = 5 -> "pass_2a_done"]
Resumable == {Done[k] : k \in 0..3}
Terminal == {Done[4], Done[5], "dead_letter", "review_required", "routed",
             "llm_preannotation_pending"}
States == Resumable \cup Terminal
Rank(s) == IF \E k \in 0..5 : Done[k] = s THEN CHOOSE k \in 0..5 : Done[k] = s ELSE -1
M12Terminal(s) == s \in Terminal /\ (s = Done[4] => ~p2a)

\* Outputs without a value: missing, refused by the model, failed, skipped.
Missing == [kind |-> "missing"]
Corrupt == [kind |-> "corrupt"]
Failed == [kind |-> "failed"]
Skipped == [kind |-> "skipped"]
Given == [kind : {"given"}, by : 1..MaxCalls, from : 0..MaxCalls]
Outputs == Given \cup {Missing, Corrupt, Failed, Skipped}
AuthorOf(o) == IF o.kind = "given" THEN o.by ELSE 0

Records == [state : States, outs : [Passes -> Outputs]]
NewRecord == [state |-> Done[0], outs |-> [k \in Passes |-> Missing]]
NoFile == [state |-> "none"]
Torn == [state |-> "torn"]
Contents == Records \cup {Torn}

Ats == {"load", "reload", "pass", "open", "write", "rename"}
Idle == [at |-> "idle"]
Active == [at : Ats, call : 1..MaxCalls, rec : Records, entry : {"none"} \cup States, k : 1..6,
           case : BOOLEAN, inode : {"none", "tmp", "final", "gone"}]

Init ==
    /\ doc \in [quality : {"good", "poor", "ocr_failed"}, case : BOOLEAN]
    /\ m12 \in BOOLEAN /\ p2a \in BOOLEAN
    /\ file = NoFile /\ tmp = NoFile
    /\ req = [r \in Reqs |-> Idle]
    /\ answer = [r \in Reqs |-> "none"]
    /\ calls = 0 /\ restarts = 0 /\ overlap = FALSE

Blocked == doc.quality \in {"poor", "ocr_failed"}

-----------------------------------------------------------------------------
Becomes(r, q) == req' = [req EXCEPT ![r] = q]

Replies(r, what) ==
    /\ Becomes(r, Idle)
    /\ answer' = [answer EXCEPT ![r] = what]

\* Mutant of Reply: the state pass 2A ends in was not added to the list.
ReplyWithout2A(s) ==
    CASE s \in {"dead_letter", "review_required", "routed"} -> "empty"
      [] s \in {"llm_preannotation_pending", Done[4]} -> "llm"
      [] OTHER -> "unexpected"

\* _orchestrator_skip_mistral_reason: whether Mistral is called on the state.
Reply(s) ==
    CASE s \in {"dead_letter", "review_required", "routed"} -> "empty"
      [] s \in {"llm_preannotation_pending", Done[4], Done[5]} -> "llm"
      [] OTHER -> "unexpected"

Returns(r, s) == Replies(r, Reply(s))

\* save_run follows, then pass k, or the answer when k is 6.
Saves(r, rec, k) ==
    Becomes(r, [req[r] EXCEPT !.at = "open", !.rec = rec, !.k = k])

Begin(r) ==
    /\ req[r] = Idle /\ calls < MaxCalls
    /\ calls' = calls + 1
    /\ overlap' = (overlap \/ \E q \in Reqs : req[q] # Idle)
    /\ Becomes(r, [at |-> "load", call |-> calls + 1, rec |-> NewRecord, entry |-> "none", k |-> 1,
                   case |-> doc.case, inode |-> "none"])
    /\ UNCHANGED <<settings, disk, answer, restarts>>

\* run_passes_0_to_1, first the record that exists.
LoadRun(r) ==
    /\ req[r].at = "load" /\ file # NoFile
    /\ CASE file = Torn -> Replies(r, "error")
         [] file.state \in Terminal -> Returns(r, file.state)
         [] file.state \in Resumable /\ m12 ->
               \* the resumed call passes no case_id
               /\ Becomes(r, [req[r] EXCEPT !.at = "reload", !.case = FALSE])
               /\ UNCHANGED answer
         [] file.state \in Resumable /\ ~m12 -> Replies(r, "error")
         [] OTHER -> Returns(r, file.state)
    /\ UNCHANGED <<settings, disk, counts>>

\* Mutant of FirstPasses: a checkpoint after pass 0 too.
FirstPassesSaveEarly(r) ==
    /\ req[r].at = "load" /\ file = NoFile
    /\ Saves(r, [NewRecord EXCEPT !.state = "pass_0_done"], 1)
    /\ UNCHANGED <<settings, disk, answer, counts>>

\* Passes 0, 0.5 and, without the sub-passes, 1: nothing is saved in between.
FirstPasses(r) ==
    /\ req[r].at = "load" /\ file = NoFile
    /\ LET stop(s) == Saves(r, [NewRecord EXCEPT !.state = s], 6)
       IN  \/ stop("dead_letter")
           \/ doc.quality = "ocr_failed" /\ stop("review_required")
           \/ doc.quality # "ocr_failed" /\ m12 /\ Saves(r, NewRecord, 1)
           \/ /\ doc.quality # "ocr_failed" /\ ~m12
              /\ stop(IF Blocked THEN "routed" ELSE "llm_preannotation_pending")
    /\ UNCHANGED <<settings, disk, answer, counts>>

\* run_passes_1a_to_1d loads the record again.
ReloadRun(r) ==
    /\ req[r].at = "reload"
    /\ CASE file = Torn -> Replies(r, "error")
         [] file # Torn /\ M12Terminal(file.state) -> Returns(r, file.state)
         [] OTHER ->
               /\ Becomes(r, [req[r] EXCEPT !.at = "pass", !.k = 1,
                                            !.rec = file, !.entry = file.state])
               /\ UNCHANGED answer
    /\ UNCHANGED <<settings, disk, counts>>

-----------------------------------------------------------------------------
(* The sub-passes, on the record in memory. *)

\* _is_done compares with the state the record had on entry.
CheckpointHit(r) ==
    /\ req[r].at = "pass" /\ req[r].k <= 4
    /\ Rank(req[r].entry) >= req[r].k
    /\ req[r].rec.outs[req[r].k].kind \notin {"missing", "corrupt"}
    /\ Becomes(r, [req[r] EXCEPT !.k = @ + 1])
    /\ UNCHANGED <<settings, disk, answer, counts>>

\* Mutant of ResetFrom: the outputs downstream stay in the record.
ResetFromKeeps(rec, k) == [rec EXCEPT !.state = Done[k - 1]]

\* _reset_from: the state before the pass, and no output downstream of it.
ResetFrom(rec, k) ==
    [state |-> Done[k - 1], outs |-> [i \in Passes |-> IF i > k THEN Missing ELSE rec.outs[i]]]

Produces(rec, k, out, s) == [state |-> s, outs |-> [rec.outs EXCEPT ![k] = out]]

RunPass(r) ==
    /\ req[r].at = "pass" /\ req[r].k <= 4
    /\ LET k == req[r].k
           old == req[r].rec
           reached == Rank(req[r].entry) >= k
           rec == IF reached THEN ResetFrom(old, k) ELSE old
           out == [kind |-> "given", by |-> req[r].call,
                   from |-> IF k = 1 THEN 0 ELSE AuthorOf(rec.outs[k - 1])]
       IN  /\ reached => old.outs[k].kind \in {"missing", "corrupt"}
           /\ \/ Saves(r, Produces(rec, k, Failed, "dead_letter"), 6)
              \/ Saves(r, Produces(rec, k, out, Done[k]), k + 1)
    /\ UNCHANGED <<settings, disk, answer, counts>>

\* After 1D: the answer, or pass 2A, which a request without a case skips.
Pass2A(r) ==
    /\ req[r].at = "pass" /\ req[r].k = 5
    /\ LET rec == req[r].rec
           out == [kind |-> "given", by |-> req[r].call, from |-> AuthorOf(rec.outs[4])]
       IN  IF ~p2a THEN Returns(r, Done[4])
           ELSE /\ UNCHANGED answer
                /\ IF ~req[r].case THEN Saves(r, Produces(rec, 5, Skipped, rec.state), 6)
                   ELSE \/ Saves(r, Produces(rec, 5, Failed, "dead_letter"), 6)
                        \/ Saves(r, Produces(rec, 5, out, Done[5]), 6)
    /\ UNCHANGED <<settings, disk, counts>>

-----------------------------------------------------------------------------
(* save_run. *)

\* Mutant of OpenTmp: the record is written to the file itself, as by a
\* save_run without the rename.
OpenInPlace(r) ==
    /\ req[r].at = "open"
    /\ file' = Torn
    /\ Becomes(r, [req[r] EXCEPT !.at = "write", !.inode = "final"])
    /\ UNCHANGED <<settings, tmp, answer, counts>>

\* tmp.write_text truncates the .tmp file, or makes it, and then writes.
OpenTmp(r) ==
    /\ req[r].at = "open"
    /\ tmp' = Torn
    /\ Becomes(r, [req[r] EXCEPT !.at = "write", !.inode = "tmp"])
    /\ UNCHANGED <<settings, file, answer, counts>>

\* Written from the start over what another request may have put there since:
\* a longer record leaves its tail.
Written(old, rec) == IF old = Torn THEN {rec} ELSE {rec, Torn}

WriteTmp(r) ==
    /\ req[r].at = "write"
    /\ IF req[r].inode = "tmp" THEN tmp' \in Written(tmp, req[r].rec) ELSE UNCHANGED tmp
    /\ IF req[r].inode = "final" THEN file' \in Written(file, req[r].rec) ELSE UNCHANGED file
    /\ Becomes(r, [req[r] EXCEPT !.at = "rename"])
    /\ UNCHANGED <<settings, answer, counts>>

\* os.replace: whoever has the .tmp file open now has the file itself open.
Moved(q) ==
    IF q = Idle THEN q
    ELSE [q EXCEPT !.inode = CASE @ = "tmp" -> "final" [] @ = "final" -> "gone" [] OTHER -> @]

\* After the save: the answer, the second load, or the next pass.
Continues(q) ==
    IF q.k = 1 THEN [q EXCEPT !.at = "reload", !.inode = "none"]
    ELSE [q EXCEPT !.at = "pass", !.inode = "none"]

\* The state that is returned is the record's, "pass_1d_done" when 2A is skipped.
RenameTmp(r) ==
    /\ req[r].at = "rename" /\ tmp # NoFile
    /\ file' = tmp /\ tmp' = NoFile
    /\ LET moved == [q \in Reqs |-> Moved(req[q])]
           ends == req[r].k = 6
       IN  /\ req' = [moved EXCEPT ![r] = IF ends THEN Idle ELSE Continues(req[r])]
           /\ answer' = [answer EXCEPT ![r] = IF ends THEN Reply(req[r].rec.state) ELSE @]
    /\ UNCHANGED <<settings, counts>>

\* The .tmp file was renamed by another request.
RenameFails(r) ==
    /\ req[r].at = "rename" /\ tmp = NoFile
    /\ Replies(r, "error")
    /\ UNCHANGED <<settings, disk, counts>>

-----------------------------------------------------------------------------
\* The service stops, at any point, and starts again.
Invalidated(c) ==
    IF c \notin Records THEN {c}
    ELSE {[c EXCEPT !.outs = [k \in Passes |-> IF k \in bad THEN Corrupt ELSE c.outs[k]]] :
             bad \in {b \in SUBSET {k \in Passes : c.outs[k].kind = "given"} : Cardinality(b) <= MaxRefused}}

Restart ==
    /\ restarts < MaxRestarts
    /\ restarts' = restarts + 1
    /\ req' = [r \in Reqs |-> Idle]
    /\ m12' \in BOOLEAN /\ p2a' \in BOOLEAN
    /\ file' \in Invalidated(file)
    /\ UNCHANGED <<doc, tmp, answer, calls, overlap>>

Step(r) ==
    \/ LoadRun(r) \/ FirstPasses(r) \/ ReloadRun(r)
    \/ CheckpointHit(r) \/ RunPass(r) \/ Pass2A(r)
    \/ OpenTmp(r) \/ WriteTmp(r) \/ RenameTmp(r) \/ RenameFails(r)

Next == Restart \/ \E r \in Reqs : Begin(r) \/ Step(r)

Spec == Init /\ [][Next]_vars

-----------------------------------------------------------------------------
(* Properties. *)

\* Every value the checkpoint, its .tmp file and the requests can hold.
TypeOK ==
    /\ doc \in [quality : {"good", "poor", "ocr_failed"}, case : BOOLEAN]
    /\ m12 \in BOOLEAN /\ p2a \in BOOLEAN
    /\ file \in Contents \cup {NoFile} /\ tmp \in Contents \cup {NoFile}
    /\ req \in [Reqs -> Active \cup {Idle}]
    /\ answer \in [Reqs -> {"none", "empty", "llm", "error", "unexpected"}]
    /\ calls \in 0..MaxCalls /\ restarts \in 0..MaxRestarts /\ overlap \in BOOLEAN

\* A checkpoint can be resumed from: it has, or had before a restart refused
\* it, the output of every pass its state says is done.
HasOutputs(rec) ==
    \A k \in 1..Rank(rec.state) : rec.outs[k].kind \in {"given", "corrupt"}

\* No output is read with another one than the one it was computed from.
OneLineage(rec) ==
    \A k \in 2..5 : (rec.outs[k].kind = "given" /\ rec.outs[k - 1].kind = "given")
        => rec.outs[k].from = rec.outs[k - 1].by

\* Whatever was interrupted, refused or run twice at the same time, a
\* checkpoint on disk is whole: no pass that ran again leaves an older result
\* downstream of it (_reset_from), and no request mixes another's into its own.
CheckpointCoherent == file \in Records => HasOutputs(file) /\ OneLineage(file)

\* As long as requests for the task follow one another, a crash at any point
\* of a save costs nothing: the checkpoint stays readable, an ended run stays
\* as it is, and the others lose no pass but for a refused output.
AloneIsDurable ==
    [][(file # NoFile /\ ~overlap') =>
          /\ file # Torn /\ file' \in Records
          /\ M12Terminal(file.state) => file'.state = file.state
          /\ \/ Rank(file'.state) >= Rank(file.state)
             \/ file'.state = "dead_letter"
             \/ \E k \in Passes : file.outs[k] = Corrupt]_vars

\* A request alone with its run, in a service that was not restarted, gets a
\* prediction or a traced refusal; and no request ends in a state that
\* _orchestrator_skip_mistral_reason does not know.
AnswersAreExplained ==
    \A r \in Reqs :
        /\ answer[r] # "unexpected"
        /\ answer[r] = "error" => overlap \/ restarts > 0

\* orchestrator.py:222, "atomic on POSIX and Windows NTFS": a checkpoint is
\* never seen half written.  Two requests share the name of the .tmp file, and
\* the slower one goes on writing into the file the other has just renamed.
CheckpointReadable == file # Torn

\* PASS_0_5_QUALITY_GATE_CONTRACT.md:45, with block_llm the document gets no
\* LLM call.  With the sub-passes it ends in pass_1d_done, for which predict
\* calls Mistral.
BlockedNoLLM == Blocked => \A r \in Reqs : answer[r] # "llm"

=============================================================================
