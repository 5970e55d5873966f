--------------------------- MODULE ExtractionLedger ---------------------------
(***************************************************************************)
(* What the extraction queue promises: a job gets at most one verdict,     *)
(* which is final; it succeeds only once its document has a text, and only *)
(* failed jobs are reported as errors.                                     *)
(***************************************************************************)
CONSTANTS Jobs, Docs

VARIABLES subject,   \* the document of each job
          verdict,   \* of each job: "none", "open", "done" or "failed"
          texts,     \* documents that have an extraction
          reported   \* jobs with an error report

ledger == <<subject, verdict, texts, reported>>

LedgerInit ==
    /\ subject \in [Jobs -> Docs]
    /\ verdict = [j \in Jobs |-> "none"]
    /\ texts = {}
    /\ reported = {}

Queue(j, d) ==
    /\ verdict[j] = "none"
    /\ subject' = [subject EXCEPT ![j] = d]
    /\ verdict' = [verdict EXCEPT ![j] = "open"]
    /\ UNCHANGED <<texts, reported>>

Record(d) == texts' = texts \cup {d} /\ UNCHANGED <<subject, verdict, reported>>

Decide(j, v) ==
    /\ verdict[j] = "open"
    /\ v = "done" => subject[j] \in texts
    /\ verdict' = [verdict EXCEPT ![j] = v]
    /\ UNCHANGED <<subject, texts, reported>>

Report(j) ==
    /\ verdict[j] = "failed"
    /\ reported' = reported \cup {j}
    /\ UNCHANGED <<subject, verdict, texts>>

LedgerNext ==
    \/ \E j \in Jobs, d \in Docs : Queue(j, d)
    \/ \E d \in Docs : Record(d)
    \/ \E j \in Jobs, v \in {"done", "failed"} : Decide(j, v)
    \/ \E j \in Jobs : Report(j)

Spec == LedgerInit /\ [][LedgerNext]_ledger
=============================================================================
