--------------------------- MODULE ExtractionJobs ---------------------------
(***************************************************************************)
(* Text extraction of Couche A: documents.extraction_status, the queue     *)
(* extraction_jobs with the state machine of migration 012, the rows of    *)
(* extractions and of extraction_errors, worked on by HTTP requests and by *)
(* queue workers (src/extraction/engine.py, src/api/routes/extractions.py).*)
(*                                                                         *)
(* get_db_cursor commits after every block, so each statement is a         *)
(* transaction of its own and anything may run between two of them.  A     *)
(* statement can raise; a process can be lost at any point, which also     *)
(* stands for a statement that raises outside the try, or inside the       *)
(* except.                                                                 *)
(*                                                                         *)
(* Abstractions: the text itself and its confidence; the OCR call with its *)
(* three attempts is one step that succeeds or raises.  A document whose   *)
(* method the CHECK of extraction_jobs.method refuses never gets a row and *)
(* is left out.  Nothing moves a failed job back to pending, although the  *)
(* trigger would let it.                                                   *)
(***************************************************************************)
EXTENDS Naturals

CONSTANTS Procs,       \* HTTP requests and queue workers
          Docs,        \* documents
          NoDoc,       \* the document of a job without a row
          NativeDocs,  \* those with an SLA-A method, extracted in the request
          MaxJobs,     \* bound: queue requests ever begun
          MaxCrashes   \* bound: processes ever lost

ASSUME DocsAssumption == NativeDocs \subseteq Docs /\ NoDoc \notin Docs
ASSUME BoundsAssumption == MaxJobs \in Nat /\ MaxCrashes \in Nat

VARIABLES docStatus,  \* documents.extraction_status
          job,        \* extraction_jobs, status "none" without a row
          extracted,  \* documents with a row in extractions
          errors,     \* (document_id, job_id) of extraction_errors, job 0 for NULL
          asked,      \* queue requests begun
          crashes,    \* processes lost
          proc        \* what each process is doing

rows == <<docStatus, job, extracted, errors>>
vars == <<rows, asked, crashes, proc>>

DocStatuses == {"pending", "processing", "done", "failed"}
JobIds == 1..MaxJobs
JobRows == [doc : Docs, status : DocStatuses]
NoJob == [doc |-> NoDoc, status |-> "none"]

TrySteps == {"extract", "store", "verdict", "finish", "timeout", "timeout_doc"}
ExceptSteps == {"raise", "raise_doc", "report"}
Steps == {"insert", "claim", "mark"} \cup TrySteps \cup ExceptSteps
Idle == [op |-> "idle", at |-> "none", doc |-> NoDoc, job |-> 0]
Calls == [op : {"queue", "work"}, at : Steps, doc : Docs, job : JobIds]
    \cup [op : {"sync"}, at : Steps, doc : Docs, job : {0}]

Init ==
    /\ docStatus = [d \in Docs |-> "pending"]
    /\ job = [j \in JobIds |-> NoJob]
    /\ extracted = {}
    /\ errors = {}
    /\ asked = 0
    /\ crashes = 0
    /\ proc = [p \in Procs |-> Idle]

-----------------------------------------------------------------------------
At(p, op, step) == proc[p].op = op /\ proc[p].at = step
Becomes(p, r) == proc' = [proc EXCEPT ![p] = r]
Goes(p, step) == Becomes(p, [proc[p] EXCEPT !.at = step])
Starts(p, op, step, d, j) ==
    proc[p] = Idle /\ Becomes(p, [op |-> op, at |-> step, doc |-> d, job |-> j])
Ends(p) == Becomes(p, Idle)

\* The except clause: a job is marked failed first, a document directly.
Raises(p) == Goes(p, IF proc[p].op = "work" THEN "raise" ELSE "raise_doc")

\* enforce_extraction_job_fsm, which only fires when the status changes.
Transitions == {<<"pending", "processing">>, <<"pending", "failed">>,
                <<"processing", "done">>, <<"processing", "failed">>,
                <<"failed", "pending">>}

\* Mutant of FsmPasses: the trigger is disabled.
FsmDisabled(j, new) == TRUE
FsmPasses(j, new) == job[j].status = new \/ <<job[j].status, new>> \in Transitions

SetDoc(p, new) ==
    /\ docStatus' = [docStatus EXCEPT ![proc[p].doc] = new]
    /\ UNCHANGED <<job, extracted, errors, asked, crashes>>
SetJob(p, new) ==
    /\ job' = [job EXCEPT ![proc[p].job].status = new]
    /\ UNCHANGED <<docStatus, extracted, errors, asked, crashes>>
Report(p) ==
    /\ errors' = errors \cup {<<proc[p].doc, proc[p].job>>}
    /\ UNCHANGED <<docStatus, job, extracted, asked, crashes>>

-----------------------------------------------------------------------------
(* Requests: trigger_extraction refuses a document that is already done. *)

BeginSync(p, d) ==
    /\ d \in NativeDocs /\ docStatus[d] # "done"
    /\ Starts(p, "sync", "mark", d, 0)
    /\ UNCHANGED <<rows, asked, crashes>>

BeginQueue(p, d) ==
    /\ d \notin NativeDocs /\ docStatus[d] # "done"
    /\ asked < MaxJobs
    /\ asked' = asked + 1
    /\ Starts(p, "queue", "insert", d, asked + 1)
    /\ UNCHANGED <<rows, crashes>>

\* extract_async: INSERT INTO extraction_jobs.
InsertJob(p) ==
    /\ At(p, "queue", "insert")
    /\ job' = [job EXCEPT ![proc[p].job] = [doc |-> proc[p].doc, status |-> "pending"]]
    /\ Ends(p)
    /\ UNCHANGED <<docStatus, extracted, errors, asked, crashes>>

\* process_extraction_job reads the job and refuses one that is not pending.
BeginWork(p, j) ==
    /\ job[j].status = "pending"
    /\ Starts(p, "work", "claim", job[j].doc, j)
    /\ UNCHANGED <<rows, asked, crashes>>

\* UPDATE to processing, without a condition on the status that was read.
ClaimJob(p) ==
    /\ At(p, "work", "claim")
    /\ IF FsmPasses(proc[p].job, "processing")
       THEN SetJob(p, "processing") /\ Goes(p, "mark")
       ELSE Ends(p) /\ UNCHANGED <<rows, asked, crashes>>

MarkDoc(p) ==
    /\ proc[p].at = "mark"
    /\ SetDoc(p, "processing")
    /\ Goes(p, "extract")

-----------------------------------------------------------------------------
(* The try clause. *)

\* _dispatch_extraction; extract_sync measures its duration afterwards.
Extract(p) ==
    /\ proc[p].at = "extract"
    /\ Goes(p, "store") \/ (proc[p].op = "sync" /\ Goes(p, "timeout"))
    /\ UNCHANGED <<rows, asked, crashes>>

AfterStore(p) == IF proc[p].op = "work" THEN "verdict" ELSE "finish"

\* Mutant of Store: an INSERT that raises is only logged.
StoreSwallows(p) ==
    /\ proc[p].at = "store"
    /\ extracted' \in {extracted, extracted \cup {proc[p].doc}}
    /\ Goes(p, AfterStore(p))
    /\ UNCHANGED <<docStatus, job, errors, asked, crashes>>

\* _store_extraction.
Store(p) ==
    /\ proc[p].at = "store"
    /\ extracted' = extracted \cup {proc[p].doc}
    /\ Goes(p, AfterStore(p))
    /\ UNCHANGED <<docStatus, job, errors, asked, crashes>>

\* UPDATE to done.
Succeed(p) ==
    /\ At(p, "work", "verdict")
    /\ IF FsmPasses(proc[p].job, "done")
       THEN SetJob(p, "done") /\ Goes(p, "finish")
       ELSE Raises(p) /\ UNCHANGED <<rows, asked, crashes>>

FinishDoc(p) ==
    /\ proc[p].at = "finish"
    /\ SetDoc(p, "done")
    /\ Ends(p)

\* extract_sync past its 60 s: the error first, then the status; the
\* TimeoutError goes through the except clause untouched.
ReportTimeout(p) ==
    /\ proc[p].at = "timeout"
    /\ Report(p)
    /\ Goes(p, "timeout_doc")

FailTimedOutDoc(p) ==
    /\ proc[p].at = "timeout_doc"
    /\ SetDoc(p, "failed")
    /\ Ends(p)

\* The statement of the step raises.
RaiseInTry(p) ==
    /\ proc[p].at \in TrySteps
    /\ Raises(p)
    /\ UNCHANGED <<rows, asked, crashes>>

-----------------------------------------------------------------------------
(* The except clause. *)

\* Mutant of FailJob: the except clause leaves the job as it is.
FailJobForgotten(p) ==
    At(p, "work", "raise") /\ Goes(p, "raise_doc") /\ UNCHANGED <<rows, asked, crashes>>

\* UPDATE to failed; refused by the trigger, it leaves the clause at once.
FailJob(p) ==
    /\ At(p, "work", "raise")
    /\ IF FsmPasses(proc[p].job, "failed")
       THEN SetJob(p, "failed") /\ Goes(p, "raise_doc")
       ELSE Ends(p) /\ UNCHANGED <<rows, asked, crashes>>

\* Mutant of FailDoc: a status the CHECK of documents does not know.
FailDocOtherStatus(p) ==
    /\ proc[p].at = "raise_doc"
    /\ SetDoc(p, "error")
    /\ Goes(p, "report")

FailDoc(p) ==
    /\ proc[p].at = "raise_doc"
    /\ SetDoc(p, "failed")
    /\ Goes(p, "report")

\* _store_error.
ReportError(p) ==
    /\ proc[p].at = "report"
    /\ Report(p)
    /\ Ends(p)

Crash(p) ==
    /\ proc[p] # Idle
    /\ crashes < MaxCrashes
    /\ crashes' = crashes + 1
    /\ Ends(p)
    /\ UNCHANGED <<rows, asked>>

Begin(p) ==
    \/ \E d \in Docs : BeginSync(p, d) \/ BeginQueue(p, d)
    \/ \E j \in JobIds : BeginWork(p, j)

Step(p) ==
    \/ InsertJob(p) \/ ClaimJob(p) \/ MarkDoc(p)
    \/ Extract(p) \/ Store(p) \/ Succeed(p) \/ FinishDoc(p)
    \/ ReportTimeout(p) \/ FailTimedOutDoc(p) \/ RaiseInTry(p)
    \/ FailJob(p) \/ FailDoc(p) \/ ReportError(p)

Next == \E p \in Procs : Begin(p) \/ Step(p) \/ Crash(p)

Safety == Init /\ [][Next]_vars

\* A process that is running goes on.
Spec == Safety /\ \A p \in Procs : WF_vars(Step(p))

-----------------------------------------------------------------------------
(* Properties. *)

\* Every value a row or a process can hold.
TypeOK ==
    /\ docStatus \in [Docs -> DocStatuses]
    /\ job \in [JobIds -> JobRows \cup {NoJob}]
    /\ extracted \subseteq Docs
    /\ errors \subseteq Docs \X (0..MaxJobs)
    /\ asked \in 0..MaxJobs
    /\ crashes \in 0..MaxCrashes
    /\ proc \in [Procs -> Calls \cup {Idle}]

\* Whoever reads "done" finds a text: of a document or of a job, however many
\* workers extract it and wherever they fail.
DoneHasText ==
    /\ \A d \in Docs : docStatus[d] = "done" => d \in extracted
    /\ \A j \in JobIds : job[j].status = "done" => job[j].doc \in extracted

\* No job is both a success and an error: two workers that both took the job
\* while it was pending may disagree on its outcome, and only the trigger
\* stops the second.
OneVerdict ==
    \A d \in Docs, j \in JobIds : <<d, j>> \in errors => job[j] = [doc |-> d, status |-> "failed"]

\* The promise of ExtractionLedger, read off the job rows.
Ledger == INSTANCE ExtractionLedger WITH
    Jobs <- JobIds,
    Docs <- Docs \cup {NoDoc},
    subject <- [j \in JobIds |-> job[j].doc],
    verdict <- [j \in JobIds |->
                   IF job[j].status \in {"pending", "processing"} THEN "open" ELSE job[j].status],
    texts <- extracted,
    reported <- {j \in JobIds : \E d \in Docs : <<d, j>> \in errors}

\* The queue implements the ledger: one final verdict, backed by a text.
LedgerSpec == Ledger!Spec

\* A job that is taken gets its verdict, unless a process was lost: no refused
\* transition leaves it in processing.
TakenJobsSettle ==
    \A j \in JobIds :
        job[j].status = "processing" ~> (job[j].status \in {"done", "failed"} \/ crashes > 0)

\* engine.py:766, "§9 : échec explicite, jamais silencieux": a process that
\* raises and is not lost leaves an error row.  A worker whose extraction
\* fails after another worker finished the same job leaves none, and leaves
\* the document in processing.
NeverSilent ==
    [][\A p \in Procs :
         proc[p].at \in ExceptSteps /\ proc'[p] = Idle /\ crashes' = crashes
             => <<proc[p].doc, proc[p].job>> \in errors']_vars

=============================================================================
