------------------------- MODULE ExtractionJobsProofs -------------------------
(***************************************************************************)
(* For any number of processes, documents, jobs and losses: whoever reads  *)
(* done finds a text, the queue implements the ledger of verdicts, and a   *)
(* taken job is in the hands of a worker on its way to one.                *)
(***************************************************************************)
EXTENDS ExtractionJobs, TLAPS

\* What is true of a process at each of its steps.
Facts(r) ==
    /\ r.op = "queue" <=> r.at = "insert"
    /\ r.at \in {"claim", "verdict", "raise"} => r.op = "work"
    /\ r.at \in {"timeout", "timeout_doc"} => r.op = "sync"
    /\ r.op = "work" => job[r.job].status # "none" /\ job[r.job].doc = r.doc
    /\ r.op = "queue" => r.job <= asked /\ job[r.job] = NoJob
    /\ r.at \in {"verdict", "finish"} => r.doc \in extracted
    /\ r.op = "work" /\ r.at \in {"raise_doc", "report"} => job[r.job].status = "failed"

ProcInv == \A p \in Procs : Facts(proc[p])

\* Two requests never insert one job, and a number not given has no row.
NumberInv ==
    /\ \A p, q \in Procs : p # q /\ proc[p].op = "queue" /\ proc[q].op = "queue"
                              => proc[p].job # proc[q].job
    /\ \A j \in JobIds : j > asked => job[j] = NoJob

IndInv == TypeOK /\ ProcInv /\ NumberInv /\ DoneHasText /\ OneVerdict

-----------------------------------------------------------------------------
LEMMA InitInv == Init => IndInv
  <1> SUFFICES ASSUME Init PROVE IndInv
    OBVIOUS
  <1> USE DocsAssumption, BoundsAssumption DEF Init
  <1>1. TypeOK
    BY DEF TypeOK, DocStatuses, JobIds
  <1>2. ProcInv /\ NumberInv
    BY DEF ProcInv, NumberInv, Facts, Idle, JobIds
  <1>3. DoneHasText /\ OneVerdict
    BY DEF DoneHasText, OneVerdict, NoJob
  <1> QED BY <1>1, <1>2, <1>3 DEF IndInv

LEMMA Typed ==
  ASSUME IndInv, NEW p \in Procs
  PROVE  /\ proc[p] \in Calls \cup {Idle}
         /\ proc[p] # Idle => proc[p] \in Calls /\ proc[p].doc \in Docs
         /\ proc[p].op \in {"queue", "work"} => proc[p].job \in JobIds
         /\ proc[p].op = "sync" => proc[p].job = 0
         /\ proc[p].op \in {"queue", "work", "sync", "idle"}
         /\ proc[p].at # "none" => proc[p] # Idle
         /\ Facts(proc[p])
  BY DEF IndInv, TypeOK, ProcInv, Calls, Idle

\* A process that goes on keeps what it works on.
LEMMA GoesTyped ==
  ASSUME NEW r \in Calls, NEW step \in Steps
  PROVE  LET q == [r EXCEPT !.at = step] IN
         q \in Calls /\ q.op = r.op /\ q.at = step /\ q.doc = r.doc /\ q.job = r.job
  BY DEF Calls

LEMMA IdleFacts == Facts(Idle) /\ Idle.op = "idle"
  BY DEF Facts, Idle

LEMMA OneChanges ==
  ASSUME IndInv, NEW p \in Procs, NEW r, Becomes(p, r)
  PROVE  \A q \in Procs : proc'[q] = IF q = p THEN r ELSE proc[q]
  BY DEF Becomes, IndInv, TypeOK

-----------------------------------------------------------------------------
(* The kinds of steps. *)

\* A step that leaves the rows alone.
LEMMA QuietStep ==
  ASSUME IndInv, NEW p \in Procs, NEW r \in Calls \cup {Idle}, Becomes(p, r),
         UNCHANGED <<rows, asked>>, crashes' \in 0..MaxCrashes,
         Facts(r), r.op # "queue"
  PROVE  IndInv'
  <1>1. \A q \in Procs : proc'[q] = IF q = p THEN r ELSE proc[q]
    BY OneChanges
  <1>2. UNCHANGED <<docStatus, job, extracted, errors, asked>>
    BY DEF rows
  <1>3. TypeOK'
    BY <1>2 DEF IndInv, TypeOK, Becomes
  <1>4. ProcInv'
    BY <1>1, <1>2 DEF IndInv, ProcInv, Facts
  <1>5. NumberInv'
    BY <1>1, <1>2 DEF IndInv, NumberInv
  <1>6. DoneHasText' /\ OneVerdict'
    BY <1>2 DEF IndInv, DoneHasText, OneVerdict
  <1> QED BY <1>3, <1>4, <1>5, <1>6 DEF IndInv

\* A statement on the document: done only where there is a text.
LEMMA DocStep ==
  ASSUME IndInv, NEW p \in Procs, NEW r \in Calls \cup {Idle}, Becomes(p, r),
         NEW new \in DocStatuses, SetDoc(p, new), new = "done" => proc[p].doc \in extracted,
         Facts(r), r.op # "queue"
  PROVE  IndInv'
  <1>1. \A q \in Procs : proc'[q] = IF q = p THEN r ELSE proc[q]
    BY OneChanges
  <1>2. UNCHANGED <<job, extracted, errors, asked, crashes>>
        /\ docStatus' = [docStatus EXCEPT ![proc[p].doc] = new]
    BY DEF SetDoc
  <1>3. TypeOK'
    BY <1>2 DEF IndInv, TypeOK, Becomes
  <1>4. ProcInv'
    BY <1>1, <1>2 DEF IndInv, ProcInv, Facts
  <1>5. NumberInv'
    BY <1>1, <1>2 DEF IndInv, NumberInv
  <1>6. DoneHasText' /\ OneVerdict'
    BY <1>2 DEF IndInv, TypeOK, DoneHasText, OneVerdict
  <1> QED BY <1>3, <1>4, <1>5, <1>6 DEF IndInv

\* A statement on a job that has a row, as the trigger lets it pass.
LEMMA JobStep ==
  ASSUME IndInv, NEW p \in Procs, NEW r \in Calls, Becomes(p, r),
         NEW new \in {"processing", "done", "failed"}, SetJob(p, new),
         FsmPasses(proc[p].job, new), proc[p].op = "work",
         new = "done" => proc[p].doc \in extracted,
         r.op = "work", r.job = proc[p].job, r.doc = proc[p].doc,
         r.at = "mark" \/ (r.at = "finish" /\ new = "done") \/ (r.at = "raise_doc" /\ new = "failed")
  PROVE  IndInv'
  <1> DEFINE k == proc[p].job
  <1>1. \A q \in Procs : proc'[q] = IF q = p THEN r ELSE proc[q]
    BY OneChanges
  <1>2. UNCHANGED <<docStatus, extracted, errors, asked, crashes>>
        /\ job' = [job EXCEPT ![k].status = new]
    BY DEF SetJob
  <1>3. k \in JobIds /\ job[k].status # "none" /\ job[k].doc = proc[p].doc
    BY Typed DEF Facts
  <1>4. job[k] \in JobRows /\ job \in [JobIds -> JobRows \cup {NoJob}]
    BY <1>3 DEF IndInv, TypeOK, NoJob
  <1>5. job'[k] \in JobRows /\ job'[k].doc = job[k].doc /\ job'[k].status = new
    BY <1>2, <1>3, <1>4 DEF JobRows, DocStatuses
  <1>6. \A j \in JobIds : j # k => job'[j] = job[j]
    BY <1>2, <1>4
  <1>7. job[k].status = "failed" => new = "failed"
    BY DEF FsmPasses, Transitions
  <1>8. job' \in [JobIds -> JobRows \cup {NoJob}]
    BY <1>2, <1>4, <1>5, <1>6
  <1> HIDE DEF k
  <1>9. TypeOK'
    BY <1>2, <1>8 DEF IndInv, TypeOK, Becomes
  <1>10. ProcInv'
    <2> SUFFICES ASSUME NEW q \in Procs PROVE Facts(proc[q])'
      BY DEF ProcInv
    <2>1. CASE q = p
      BY <1>1, <1>2, <1>3, <1>5, <2>1 DEF Facts, k
    <2>2. CASE q # p
      <3>1. proc'[q] = proc[q] /\ Facts(proc[q])
        BY <1>1, <2>2, Typed
      <3>2. proc[q].op = "queue" => proc[q].job \in JobIds /\ proc[q].job # k
        <4>1. proc[q].op = "queue" => proc[q].job \in JobIds /\ job[proc[q].job].status = "none"
          BY <3>1, Typed DEF Facts, NoJob
        <4> QED BY <1>3, <4>1
      <3>3. proc[q].op = "work" => proc[q].job \in JobIds
        BY Typed
      <3> QED BY <1>2, <1>3, <1>5, <1>6, <1>7, <3>1, <3>2, <3>3 DEF Facts
    <2> QED BY <2>1, <2>2
  <1>11. NumberInv'
    <2>1. job[k] # NoJob
      BY <1>3 DEF NoJob
    <2> QED BY <1>1, <1>2, <1>3, <1>6, <2>1 DEF IndInv, NumberInv
  <1>12. DoneHasText'
    BY <1>2, <1>3, <1>5, <1>6 DEF IndInv, DoneHasText
  <1>13. OneVerdict'
    <2> SUFFICES ASSUME NEW d \in Docs, NEW j \in JobIds, <<d, j>> \in errors
                 PROVE  job'[j] = [doc |-> d, status |-> "failed"]
      BY <1>2 DEF OneVerdict
    <2>1. job[j] = [doc |-> d, status |-> "failed"]
      BY DEF IndInv, OneVerdict
    <2>2. CASE j = k
      <3>1. job'[k].doc = d /\ job'[k].status = "failed"
        BY <1>5, <1>7, <2>1, <2>2
      <3> QED BY <1>5, <2>2, <3>1 DEF JobRows
    <2> QED BY <1>6, <2>1, <2>2
  <1> QED BY <1>9, <1>10, <1>11, <1>12, <1>13 DEF IndInv

\* A row of extraction_errors, for a failed job or for none.
LEMMA ReportStep ==
  ASSUME IndInv, NEW p \in Procs, NEW r \in Calls \cup {Idle}, Becomes(p, r), Report(p),
         proc[p].op = "sync" \/ (proc[p].op = "work" /\ job[proc[p].job].status = "failed"),
         Facts(r), r.op # "queue"
  PROVE  IndInv'
  <1>1. \A q \in Procs : proc'[q] = IF q = p THEN r ELSE proc[q]
    BY OneChanges
  <1>2. UNCHANGED <<docStatus, job, extracted, asked, crashes>>
        /\ errors' = errors \cup {<<proc[p].doc, proc[p].job>>}
    BY DEF Report
  <1>3. /\ proc[p].doc \in Docs
        /\ proc[p].op = "sync" => proc[p].job = 0
        /\ proc[p].op = "work" => proc[p].job \in JobIds /\ job[proc[p].job].doc = proc[p].doc
    BY Typed DEF Idle, Facts
  <1>4. proc[p].job \in 0..MaxJobs
    BY <1>3, BoundsAssumption DEF JobIds
  <1>5. TypeOK'
    BY <1>2, <1>3, <1>4 DEF IndInv, TypeOK, Becomes
  <1>6. ProcInv'
    BY <1>1, <1>2 DEF IndInv, ProcInv, Facts
  <1>7. NumberInv'
    BY <1>1, <1>2 DEF IndInv, NumberInv
  <1>8. DoneHasText'
    BY <1>2 DEF IndInv, DoneHasText
  <1>9. OneVerdict'
    <2> SUFFICES ASSUME NEW d \in Docs, NEW j \in JobIds, <<d, j>> \in errors'
                 PROVE  job[j] = [doc |-> d, status |-> "failed"]
      BY <1>2 DEF OneVerdict
    <2>1. CASE <<d, j>> \in errors
      BY <2>1 DEF IndInv, OneVerdict
    <2>2. CASE d = proc[p].doc /\ j = proc[p].job
      <3>1. proc[p].op = "work"
        BY <1>3, <2>2, BoundsAssumption DEF JobIds
      <3>2. job[j].doc = d /\ job[j].status = "failed"
        BY <1>3, <2>2, <3>1
      <3>3. job[j] \in JobRows
        BY <3>2 DEF IndInv, TypeOK, NoJob
      <3> QED BY <3>2, <3>3 DEF JobRows
    <2> QED BY <1>2, <2>1, <2>2
  <1> QED BY <1>5, <1>6, <1>7, <1>8, <1>9 DEF IndInv

-----------------------------------------------------------------------------
(* One lemma per action. *)

LEMMA BeginInv == ASSUME IndInv, NEW p \in Procs, Begin(p) PROVE IndInv'
  <1>1. ASSUME NEW d \in Docs, BeginSync(p, d) PROVE IndInv'
    <2> DEFINE r == [op |-> "sync", at |-> "mark", doc |-> d, job |-> 0]
    <2>1. r \in Calls /\ Facts(r) /\ r.op # "queue"
      BY DEF Calls, Steps, Facts
    <2>2. Becomes(p, r) /\ UNCHANGED <<rows, asked>> /\ crashes' \in 0..MaxCrashes
      BY <1>1 DEF BeginSync, Starts, IndInv, TypeOK
    <2> HIDE DEF r
    <2> QED BY <2>1, <2>2, QuietStep
  <1>2. ASSUME NEW j \in JobIds, BeginWork(p, j) PROVE IndInv'
    <2> DEFINE r == [op |-> "work", at |-> "claim", doc |-> job[j].doc, job |-> j]
    <2>1. job[j].status = "pending" /\ job[j].doc \in Docs
      BY <1>2 DEF BeginWork, IndInv, TypeOK, JobRows, NoJob
    <2>2. r \in Calls /\ Facts(r) /\ r.op # "queue"
      BY <2>1 DEF Calls, Steps, Facts
    <2>3. Becomes(p, r) /\ UNCHANGED <<rows, asked>> /\ crashes' \in 0..MaxCrashes
      BY <1>2 DEF BeginWork, Starts, IndInv, TypeOK
    <2> HIDE DEF r
    <2> QED BY <2>2, <2>3, QuietStep
  <1>3. ASSUME NEW d \in Docs, BeginQueue(p, d) PROVE IndInv'
    <2> DEFINE r == [op |-> "queue", at |-> "insert", doc |-> d, job |-> asked + 1]
    <2>1. /\ UNCHANGED <<docStatus, job, extracted, errors, crashes>> /\ asked' = asked + 1
          /\ Becomes(p, r)
      BY <1>3 DEF BeginQueue, Starts, rows
    <2>2. asked \in 0..MaxJobs /\ asked + 1 \in JobIds /\ asked + 1 \in 0..MaxJobs
      BY <1>3, BoundsAssumption DEF BeginQueue, IndInv, TypeOK, JobIds
    <2>3. r \in Calls /\ r.op = "queue" /\ r.at = "insert" /\ r.job = asked + 1
      BY <2>2 DEF Calls, Steps
    <2>4. \A q \in Procs : proc'[q] = IF q = p THEN r ELSE proc[q]
      BY <2>1, OneChanges
    <2> HIDE DEF r
    <2>5. TypeOK'
      BY <2>1, <2>2, <2>3 DEF IndInv, TypeOK, Becomes
    <2>6. job[asked + 1] = NoJob
      BY <2>2 DEF IndInv, NumberInv
    <2>7. ProcInv'
      <3> SUFFICES ASSUME NEW q \in Procs PROVE Facts(proc[q])'
        BY DEF ProcInv
      <3>1. CASE q = p
        BY <2>1, <2>2, <2>3, <2>4, <2>6, <3>1 DEF Facts
      <3>2. CASE q # p
        <4>1. proc'[q] = proc[q] /\ Facts(proc[q])
          BY <2>4, <3>2, Typed
        <4>2. proc[q].op = "queue" => proc[q].job \in JobIds
          BY Typed
        <4> QED BY <2>1, <2>2, <4>1, <4>2 DEF Facts, JobIds
      <3> QED BY <3>1, <3>2
    <2>8. NumberInv'
      <3>1. \A q \in Procs : proc[q].op = "queue" => proc[q].job <= asked
        BY DEF IndInv, ProcInv, Facts
      <3>2. \A q \in Procs : proc[q].op = "queue" => proc[q].job # asked + 1
        BY <3>1, <2>2
      <3> QED BY <2>1, <2>2, <2>3, <2>4, <3>2 DEF IndInv, NumberInv, JobIds
    <2>9. DoneHasText' /\ OneVerdict'
      BY <2>1 DEF IndInv, DoneHasText, OneVerdict
    <2> QED BY <2>5, <2>7, <2>8, <2>9 DEF IndInv
  <1> QED BY <1>1, <1>2, <1>3 DEF Begin

\* The only step that gives a job its row.
LEMMA InsertInv == ASSUME IndInv, NEW p \in Procs, InsertJob(p) PROVE IndInv'
  <1> DEFINE k == proc[p].job
             row == [doc |-> proc[p].doc, status |-> "pending"]
  <1>1. proc[p].op = "queue" /\ k \in JobIds /\ proc[p].doc \in Docs /\ k <= asked /\ job[k] = NoJob
    BY Typed DEF InsertJob, At, Facts
  <1>2. /\ job' = [job EXCEPT ![k] = row] /\ Becomes(p, Idle)
        /\ UNCHANGED <<docStatus, extracted, errors, asked, crashes>>
    BY DEF InsertJob, Ends
  <1>3. \A q \in Procs : proc'[q] = IF q = p THEN Idle ELSE proc[q]
    BY <1>2, OneChanges
  <1>4. row \in JobRows /\ row.status = "pending" /\ row.doc = proc[p].doc
    BY <1>1 DEF JobRows, DocStatuses
  <1>5. \A j \in JobIds : job'[j] = IF j = k THEN row ELSE job[j]
    BY <1>1, <1>2 DEF IndInv, TypeOK
  <1> HIDE DEF row, k
  <1>6. TypeOK'
    BY <1>2, <1>4 DEF IndInv, TypeOK, Becomes
  <1>7. ProcInv'
    <2> SUFFICES ASSUME NEW q \in Procs PROVE Facts(proc[q])'
      BY DEF ProcInv
    <2>1. CASE q = p
      BY <1>3, <2>1 DEF Facts, Idle
    <2>2. CASE q # p
      <3>1. proc'[q] = proc[q] /\ Facts(proc[q])
        BY <1>3, <2>2, Typed
      <3>2. proc[q].op = "queue" => proc[q].job \in JobIds /\ proc[q].job # k
        BY <1>1, <2>2, Typed DEF IndInv, NumberInv, k
      <3>3. proc[q].op = "work" => proc[q].job \in JobIds /\ proc[q].job # k
        <4>1. proc[q].op = "work" => proc[q].job \in JobIds /\ job[proc[q].job].status # "none"
          BY <3>1, Typed DEF Facts
        <4> QED BY <1>1, <4>1 DEF NoJob
      <3> QED BY <1>2, <1>5, <3>1, <3>2, <3>3 DEF Facts
    <2> QED BY <2>1, <2>2
  <1>8. NumberInv'
    <2>1. k \in Nat /\ asked \in Nat
      BY <1>1, BoundsAssumption DEF IndInv, TypeOK, JobIds
    <2>2. \A j \in JobIds : j > asked => j # k
      BY <1>1, <2>1
    <2> QED BY <1>2, <1>3, <1>5, <2>2, IdleFacts DEF IndInv, NumberInv
  <1>9. DoneHasText'
    BY <1>2, <1>4, <1>5 DEF IndInv, DoneHasText
  <1>10. OneVerdict'
    BY <1>1, <1>2, <1>5 DEF IndInv, OneVerdict, NoJob
  <1> QED BY <1>6, <1>7, <1>8, <1>9, <1>10 DEF IndInv

LEMMA StoreInv == ASSUME IndInv, NEW p \in Procs, Store(p) PROVE IndInv'
  <1> DEFINE r == [proc[p] EXCEPT !.at = AfterStore(p)]
  <1>1. proc[p] \in Calls /\ proc[p].doc \in Docs /\ Facts(proc[p]) /\ proc[p].at = "store"
    BY Typed DEF Store
  <1>2. AfterStore(p) \in Steps
    BY DEF AfterStore, Steps, TrySteps
  <1>3. r \in Calls /\ r.op = proc[p].op /\ r.at = AfterStore(p) /\ r.doc = proc[p].doc /\ r.job = proc[p].job
    BY <1>1, <1>2, GoesTyped
  <1>4. /\ extracted' = extracted \cup {proc[p].doc} /\ Becomes(p, r)
        /\ UNCHANGED <<docStatus, job, errors, asked, crashes>>
    BY DEF Store, Goes
  <1> HIDE DEF r
  <1>5. \A q \in Procs : proc'[q] = IF q = p THEN r ELSE proc[q]
    BY <1>4, OneChanges
  <1>6. TypeOK'
    BY <1>1, <1>3, <1>4 DEF IndInv, TypeOK, Becomes
  <1>7. r.op # "queue" /\ r.at \in {"verdict", "finish"} /\ (r.at = "verdict" => r.op = "work")
    BY <1>1, <1>3 DEF AfterStore, Facts
  <1>8. ProcInv'
    <2> SUFFICES ASSUME NEW q \in Procs PROVE Facts(proc[q])'
      BY DEF ProcInv
    <2>1. CASE q = p
      BY <1>1, <1>3, <1>4, <1>5, <1>7, <2>1 DEF Facts
    <2>2. CASE q # p
      BY <1>4, <1>5, <2>2, Typed DEF Facts
    <2> QED BY <2>1, <2>2
  <1>9. NumberInv'
    BY <1>4, <1>5, <1>7 DEF IndInv, NumberInv
  <1>10. DoneHasText' /\ OneVerdict'
    BY <1>4 DEF IndInv, DoneHasText, OneVerdict
  <1> QED BY <1>6, <1>8, <1>9, <1>10 DEF IndInv

LEMMA CrashInv == ASSUME IndInv, NEW p \in Procs, Crash(p) PROVE IndInv'
  <1>1. Becomes(p, Idle) /\ UNCHANGED <<rows, asked>> /\ crashes' \in 0..MaxCrashes
    BY BoundsAssumption DEF Crash, Ends, IndInv, TypeOK
  <1> QED BY <1>1, QuietStep, IdleFacts

\* The process of a step is a request that is under way.
LEMMA Going ==
  ASSUME IndInv, NEW p \in Procs, proc[p] # Idle, NEW step \in Steps
  PROVE  LET r == [proc[p] EXCEPT !.at = step] IN
         r \in Calls /\ r.op = proc[p].op /\ r.at = step /\ r.doc = proc[p].doc /\ r.job = proc[p].job
  <1>1. proc[p] \in Calls
    BY Typed
  <1> QED BY <1>1, GoesTyped

LEMMA StepInv == ASSUME IndInv, NEW p \in Procs, Step(p) PROVE IndInv'
  <1> DEFINE r(step) == [proc[p] EXCEPT !.at = step]
  <1>1. Facts(proc[p]) /\ proc[p].op \in {"queue", "work", "sync", "idle"} /\ (proc[p].at # "none" => proc[p] # Idle)
    BY Typed
  <1>2. proc[p].op = "idle" => proc[p] = Idle
    BY Typed DEF Calls
  <1>3. crashes \in 0..MaxCrashes
    BY DEF IndInv, TypeOK
  <1>4. \A step \in Steps : proc[p] # Idle =>
          /\ r(step) \in Calls /\ r(step).op = proc[p].op /\ r(step).at = step
          /\ r(step).doc = proc[p].doc /\ r(step).job = proc[p].job
    BY Going
  <1>5. Idle.at = "none" /\ \A step \in Steps : step # "none"
    BY DEF Idle, Steps, TrySteps, ExceptSteps
  <1> HIDE DEF r
  <1>6. \A step \in Steps : Goes(p, step) <=> Becomes(p, r(step))
    BY DEF Goes, r
  <1>10. CASE InsertJob(p)
    BY <1>10, InsertInv
  <1>11. CASE ClaimJob(p)
    <2>1. proc[p].op = "work" /\ proc[p] # Idle /\ "mark" \in Steps
      BY <1>1, <1>11 DEF ClaimJob, At, Idle, Steps
    <2>2. CASE FsmPasses(proc[p].job, "processing")
      <3>1. SetJob(p, "processing") /\ Becomes(p, r("mark"))
        BY <1>6, <1>11, <2>1, <2>2 DEF ClaimJob
      <3> QED BY <1>4, <2>1, <2>2, <3>1, JobStep
    <2>3. CASE ~FsmPasses(proc[p].job, "processing")
      <3>1. Becomes(p, Idle) /\ UNCHANGED <<rows, asked>> /\ crashes' = crashes
        BY <1>11, <2>3 DEF ClaimJob, Ends
      <3> QED BY <1>3, <3>1, QuietStep, IdleFacts
    <2> QED BY <2>2, <2>3
  <1>12. CASE MarkDoc(p)
    <2>1. SetDoc(p, "processing") /\ Becomes(p, r("extract")) /\ "extract" \in Steps /\ proc[p].at = "mark"
      BY <1>6, <1>12 DEF MarkDoc, Steps, TrySteps
    <2>2. r("extract") \in Calls /\ Facts(r("extract")) /\ r("extract").op # "queue"
      BY <1>1, <1>4, <2>1 DEF Facts
    <2>3. "processing" \in DocStatuses
      BY DEF DocStatuses
    <2> QED BY <2>1, <2>2, <2>3, DocStep
  <1>13. CASE Extract(p)
    <2>1. proc[p].at = "extract" /\ "store" \in Steps /\ "timeout" \in Steps
      BY <1>13 DEF Extract, Steps, TrySteps
    <2>2. UNCHANGED <<rows, asked>> /\ crashes' = crashes
      BY <1>13 DEF Extract
    <2>3. r("store") \in Calls /\ Facts(r("store")) /\ r("store").op # "queue"
      BY <1>1, <1>4, <2>1 DEF Facts
    <2>4. proc[p].op = "sync" => r("timeout") \in Calls /\ Facts(r("timeout")) /\ r("timeout").op # "queue"
      BY <1>1, <1>4, <2>1 DEF Facts
    <2>5. Becomes(p, r("store")) \/ (proc[p].op = "sync" /\ Becomes(p, r("timeout")))
      BY <1>6, <1>13, <2>1 DEF Extract
    <2> QED BY <1>3, <2>2, <2>3, <2>4, <2>5, QuietStep
  <1>14. CASE Store(p)
    BY <1>14, StoreInv
  <1>15. CASE Succeed(p)
    <2>1. proc[p].op = "work" /\ proc[p].at = "verdict" /\ "finish" \in Steps /\ "raise" \in Steps
      BY <1>15 DEF Succeed, At, Steps, TrySteps, ExceptSteps
    <2>2. CASE FsmPasses(proc[p].job, "done")
      <3>1. SetJob(p, "done") /\ Becomes(p, r("finish")) /\ proc[p].doc \in extracted
        BY <1>1, <1>6, <1>15, <2>1, <2>2 DEF Succeed, Facts
      <3> QED BY <1>1, <1>4, <2>1, <2>2, <3>1, JobStep
    <2>3. CASE ~FsmPasses(proc[p].job, "done")
      <3>1. Becomes(p, r("raise")) /\ UNCHANGED <<rows, asked>> /\ crashes' = crashes
        BY <1>6, <1>15, <2>1, <2>3 DEF Succeed, Raises
      <3>2. r("raise") \in Calls /\ Facts(r("raise")) /\ r("raise").op # "queue"
        BY <1>1, <1>4, <2>1 DEF Facts
      <3> QED BY <1>3, <3>1, <3>2, QuietStep
    <2> QED BY <2>2, <2>3
  <1>16. CASE FinishDoc(p)
    <2>1. SetDoc(p, "done") /\ Becomes(p, Idle) /\ proc[p].doc \in extracted /\ "done" \in DocStatuses
      BY <1>1, <1>16 DEF FinishDoc, Ends, Facts, DocStatuses
    <2> QED BY <2>1, DocStep, IdleFacts
  <1>17. CASE ReportTimeout(p)
    <2>1. Report(p) /\ Becomes(p, r("timeout_doc")) /\ proc[p].at = "timeout" /\ "timeout_doc" \in Steps
      BY <1>6, <1>17 DEF ReportTimeout, Steps, TrySteps
    <2>2. proc[p].op = "sync" /\ r("timeout_doc") \in Calls /\ Facts(r("timeout_doc")) /\ r("timeout_doc").op # "queue"
      BY <1>1, <1>4, <2>1 DEF Facts
    <2> QED BY <2>1, <2>2, ReportStep
  <1>18. CASE FailTimedOutDoc(p)
    <2>1. SetDoc(p, "failed") /\ Becomes(p, Idle) /\ "failed" \in DocStatuses
      BY <1>18 DEF FailTimedOutDoc, Ends, DocStatuses
    <2> QED BY <2>1, DocStep, IdleFacts
  <1>19. CASE RaiseInTry(p)
    <2>1. proc[p].at \in TrySteps /\ "raise" \in Steps /\ "raise_doc" \in Steps /\ "insert" \notin TrySteps /\ "none" \notin TrySteps
      BY <1>19 DEF RaiseInTry, Steps, TrySteps, ExceptSteps
    <2>2. UNCHANGED <<rows, asked>> /\ crashes' = crashes
      BY <1>19 DEF RaiseInTry
    <2>3. CASE proc[p].op = "work"
      <3>1. Becomes(p, r("raise"))
        BY <1>6, <1>19, <2>1, <2>3 DEF RaiseInTry, Raises
      <3>2. r("raise") \in Calls /\ Facts(r("raise")) /\ r("raise").op # "queue"
        BY <1>1, <1>4, <2>1, <2>3 DEF Facts
      <3> QED BY <1>3, <2>2, <3>1, <3>2, QuietStep
    <2>4. CASE proc[p].op # "work"
      <3>1. Becomes(p, r("raise_doc"))
        BY <1>6, <1>19, <2>1, <2>4 DEF RaiseInTry, Raises
      <3>2. proc[p].op = "sync"
        BY <1>1, <1>2, <1>5, <2>1, <2>4 DEF Facts
      <3>3. r("raise_doc") \in Calls /\ Facts(r("raise_doc")) /\ r("raise_doc").op # "queue"
        BY <1>1, <1>4, <2>1, <3>2 DEF Facts
      <3> QED BY <1>3, <2>2, <3>1, <3>3, QuietStep
    <2> QED BY <2>3, <2>4
  <1>20. CASE FailJob(p)
    <2>1. proc[p].op = "work" /\ proc[p].at = "raise" /\ "raise_doc" \in Steps
      BY <1>20 DEF FailJob, At, Steps, ExceptSteps
    <2>2. CASE FsmPasses(proc[p].job, "failed")
      <3>1. SetJob(p, "failed") /\ Becomes(p, r("raise_doc"))
        BY <1>6, <1>20, <2>1, <2>2 DEF FailJob
      <3> QED BY <1>1, <1>4, <2>1, <2>2, <3>1, JobStep
    <2>3. CASE ~FsmPasses(proc[p].job, "failed")
      <3>1. Becomes(p, Idle) /\ UNCHANGED <<rows, asked>> /\ crashes' = crashes
        BY <1>20, <2>3 DEF FailJob, Ends
      <3> QED BY <1>3, <3>1, QuietStep, IdleFacts
    <2> QED BY <2>2, <2>3
  <1>21. CASE FailDoc(p)
    <2>1. SetDoc(p, "failed") /\ Becomes(p, r("report")) /\ "report" \in Steps /\ proc[p].at = "raise_doc"
      BY <1>6, <1>21 DEF FailDoc, Steps, ExceptSteps
    <2>2. r("report") \in Calls /\ Facts(r("report")) /\ r("report").op # "queue"
      BY <1>1, <1>4, <2>1 DEF Facts
    <2>3. "failed" \in DocStatuses
      BY DEF DocStatuses
    <2> QED BY <2>1, <2>2, <2>3, DocStep
  <1>22. CASE ReportError(p)
    <2>1. Report(p) /\ Becomes(p, Idle) /\ proc[p].at = "report"
      BY <1>22 DEF ReportError, Ends
    <2>2. proc[p].op = "sync" \/ (proc[p].op = "work" /\ job[proc[p].job].status = "failed")
      <3>1. proc[p] # Idle /\ proc[p].op # "idle"
        BY <1>2, <1>5, <2>1
      <3> QED BY <1>1, <2>1, <3>1 DEF Facts
    <2> QED BY <2>1, <2>2, ReportStep, IdleFacts
  <1> QED BY <1>10, <1>11, <1>12, <1>13, <1>14, <1>15, <1>16, <1>17, <1>18, <1>19, <1>20,
             <1>21, <1>22 DEF Step

LEMMA Inductive == IndInv /\ [Next]_vars => IndInv'
  <1> SUFFICES ASSUME IndInv, [Next]_vars PROVE IndInv'
    OBVIOUS
  <1>1. CASE \E p \in Procs : Begin(p)
    BY <1>1, BeginInv
  <1>2. CASE \E p \in Procs : Step(p)
    BY <1>2, StepInv
  <1>3. CASE \E p \in Procs : Crash(p)
    BY <1>3, CrashInv
  <1>4. CASE UNCHANGED vars
    BY <1>4 DEF vars, rows, IndInv, TypeOK, ProcInv, NumberInv, Facts, DoneHasText, OneVerdict
  <1> QED BY <1>1, <1>2, <1>3, <1>4 DEF Next

LEMMA InvHolds == Safety => []IndInv
  BY InitInv, Inductive, PTL DEF Safety

-----------------------------------------------------------------------------
(* The ledger. *)

\* What the refinement mapping reads of the tables.
LEMMA RowsKept ==
  ASSUME UNCHANGED <<job, extracted, errors>> PROVE UNCHANGED Ledger!ledger
  BY DEF Ledger!ledger

LEMMA InsertQueues ==
  ASSUME IndInv, NEW p \in Procs, InsertJob(p)
  PROVE  \E j \in JobIds, d \in Docs : Ledger!Queue(j, d)
  <1>1. PICK k \in JobIds, d \in Docs : k = proc[p].job /\ d = proc[p].doc /\ job[k] = NoJob
    BY Typed DEF InsertJob, At, Facts
  <1> DEFINE row == [doc |-> d, status |-> "pending"]
  <1>2. job' = [job EXCEPT ![k] = row] /\ UNCHANGED <<extracted, errors>>
    BY <1>1 DEF InsertJob
  <1>3. \A j \in JobIds : job'[j] = IF j = k THEN row ELSE job[j]
    BY <1>1, <1>2 DEF IndInv, TypeOK
  <1>4. job[k].status = "none"
    BY <1>1 DEF NoJob
  <1>5. row.doc = d /\ row.status = "pending"
    OBVIOUS
  <1>6. UNCHANGED <<extracted, errors>>
    BY <1>2
  <1> HIDE DEF row
  <1>7. [j \in JobIds |-> job'[j].doc] = [[j \in JobIds |-> job[j].doc] EXCEPT ![k] = d]
    BY <1>3, <1>5
  <1>8. [j \in JobIds |-> IF job'[j].status \in {"pending", "processing"} THEN "open" ELSE job'[j].status]
        = [[j \in JobIds |-> IF job[j].status \in {"pending", "processing"} THEN "open" ELSE job[j].status]
              EXCEPT ![k] = "open"]
    BY <1>3, <1>5
  <1>9. Ledger!Queue(k, d)
    BY <1>4, <1>6, <1>7, <1>8 DEF Ledger!Queue
  <1> QED BY <1>9

\* The trigger lets a verdict be written on an open job or repeated.
LEMMA JobDecides ==
  ASSUME IndInv, NEW p \in Procs, proc[p].op = "work",
         NEW new \in {"processing", "done", "failed"},
         SetJob(p, new), FsmPasses(proc[p].job, new), new = "done" => proc[p].doc \in extracted
  PROVE  \/ \E j \in JobIds, v \in {"done", "failed"} : Ledger!Decide(j, v)
         \/ UNCHANGED Ledger!ledger
  <1> DEFINE k == proc[p].job
  <1>1. k \in JobIds /\ job[k].status # "none" /\ job[k].doc = proc[p].doc
    BY Typed DEF Facts
  <1>2. job[k] \in JobRows /\ job \in [JobIds -> JobRows \cup {NoJob}]
    BY <1>1 DEF IndInv, TypeOK, NoJob
  <1>3. job' = [job EXCEPT ![k].status = new] /\ UNCHANGED <<extracted, errors>>
    BY DEF SetJob
  <1>4. /\ \A j \in JobIds : j # k => job'[j] = job[j]
        /\ job'[k].doc = job[k].doc /\ job'[k].status = new
    BY <1>1, <1>2, <1>3 DEF JobRows
  <1>5. \/ new = job[k].status
        \/ new = "processing" /\ job[k].status = "pending"
        \/ new = "failed" /\ job[k].status = "pending"
        \/ new \in {"done", "failed"} /\ job[k].status = "processing"
    BY DEF FsmPasses, Transitions
  <1> HIDE DEF k
  <1>6. [j \in JobIds |-> job'[j].doc] = [j \in JobIds |-> job[j].doc]
    BY <1>4
  <1>7. CASE new = job[k].status \/ (new = "processing" /\ job[k].status = "pending")
    <2>1. [j \in JobIds |-> IF job'[j].status \in {"pending", "processing"} THEN "open" ELSE job'[j].status]
          = [j \in JobIds |-> IF job[j].status \in {"pending", "processing"} THEN "open" ELSE job[j].status]
      BY <1>4, <1>7
    <2> QED BY <1>3, <1>6, <2>1 DEF Ledger!ledger
  <1>8. CASE new \in {"done", "failed"} /\ job[k].status \in {"pending", "processing"}
    <2>1. [j \in JobIds |-> IF job'[j].status \in {"pending", "processing"} THEN "open" ELSE job'[j].status]
          = [[j \in JobIds |-> IF job[j].status \in {"pending", "processing"} THEN "open" ELSE job[j].status]
                EXCEPT ![k] = new]
      BY <1>1, <1>4, <1>8
    <2>2. new = "done" => job[k].doc \in extracted
      BY <1>1
    <2>3. Ledger!Decide(k, new)
      BY <1>1, <1>3, <1>6, <1>8, <2>1, <2>2 DEF Ledger!Decide
    <2> QED BY <1>1, <1>8, <2>3
  <1> QED BY <1>5, <1>7, <1>8

LEMMA StoreRecords ==
  ASSUME IndInv, NEW p \in Procs, Store(p)
  PROVE  \E d \in Docs : Ledger!Record(d)
  <1>1. proc[p].doc \in Docs
    BY Typed DEF Store
  <1>2. Ledger!Record(proc[p].doc)
    BY DEF Store, Ledger!Record
  <1> QED BY <1>1, <1>2

LEMMA ReportReports ==
  ASSUME IndInv, NEW p \in Procs, Report(p),
         proc[p].op = "sync" \/ (proc[p].op = "work" /\ job[proc[p].job].status = "failed")
  PROVE  (\E j \in JobIds : Ledger!Report(j)) \/ UNCHANGED Ledger!ledger
  <1>1. PICK k, d : k = proc[p].job /\ d = proc[p].doc
    OBVIOUS
  <1>2. d \in Docs
    BY <1>1, Typed DEF Idle
  <1>5. errors' = errors \cup {<<d, k>>} /\ UNCHANGED <<job, extracted>>
    BY <1>1 DEF Report
  <1>3. CASE proc[p].op = "sync"
    <2>1. k \notin JobIds
      BY <1>1, <1>3, Typed, BoundsAssumption DEF JobIds
    <2>2. {j \in JobIds : \E x \in Docs : <<x, j>> \in errors'}
            = {j \in JobIds : \E x \in Docs : <<x, j>> \in errors}
      BY <1>5, <2>1
    <2> QED BY <1>5, <2>2 DEF Ledger!ledger
  <1>4. CASE proc[p].op = "work" /\ job[k].status = "failed"
    <2>1. k \in JobIds
      BY <1>1, <1>4, Typed
    <2>2. {j \in JobIds : \E x \in Docs : <<x, j>> \in errors'}
            = {j \in JobIds : \E x \in Docs : <<x, j>> \in errors} \cup {k}
      BY <1>2, <1>5, <2>1
    <2>3. Ledger!Report(k)
      BY <1>4, <1>5, <2>1, <2>2 DEF Ledger!Report
    <2> QED BY <2>1, <2>3
  <1> QED BY <1>1, <1>3, <1>4

LEMMA StepImplements ==
  ASSUME IndInv, [Next]_vars
  PROVE  Ledger!LedgerNext \/ UNCHANGED Ledger!ledger
  <1> USE DEF Ledger!LedgerNext
  <1>1. CASE \E p \in Procs : Begin(p) \/ Crash(p)
    BY <1>1, RowsKept DEF Begin, BeginSync, BeginQueue, BeginWork, Crash, rows
  <1>2. ASSUME NEW p \in Procs, Step(p)
        PROVE  Ledger!LedgerNext \/ UNCHANGED Ledger!ledger
    <2>1. CASE InsertJob(p)
      <3>1. PICK j \in JobIds, d \in Docs : Ledger!Queue(j, d)
        BY <2>1, InsertQueues
      <3> QED BY <3>1
    <2>2. CASE Store(p)
      <3>1. PICK d \in Docs : Ledger!Record(d)
        BY <2>2, StoreRecords
      <3> QED BY <3>1
    <2>3. CASE ClaimJob(p) \/ Succeed(p) \/ FailJob(p)
      <3>1. proc[p].op = "work"
        BY <2>3 DEF ClaimJob, Succeed, FailJob, At
      <3>2. CASE UNCHANGED rows
        BY <3>2, RowsKept DEF rows
      <3>3. CASE ~UNCHANGED rows
        <4>1. PICK new \in {"processing", "done", "failed"} :
                SetJob(p, new) /\ FsmPasses(proc[p].job, new) /\ (new = "done" => Succeed(p))
          BY <2>3, <3>3 DEF ClaimJob, Succeed, FailJob
        <4>2. new = "done" => proc[p].doc \in extracted
          BY <4>1, Typed DEF Succeed, At, Facts
        <4> QED BY <3>1, <4>1, <4>2, JobDecides
      <3> QED BY <3>2, <3>3
    <2>4. CASE ReportTimeout(p) \/ ReportError(p)
      <3>1. Report(p) /\ proc[p].at \in {"timeout", "report"}
        BY <2>4 DEF ReportTimeout, ReportError
      <3>2. proc[p].op = "sync" \/ (proc[p].op = "work" /\ job[proc[p].job].status = "failed")
        BY <3>1, Typed DEF Facts, Calls
      <3> QED BY <3>1, <3>2, ReportReports
    <2>5. CASE MarkDoc(p) \/ FinishDoc(p) \/ FailTimedOutDoc(p) \/ FailDoc(p)
      BY <2>5, RowsKept DEF MarkDoc, FinishDoc, FailTimedOutDoc, FailDoc, SetDoc
    <2>6. CASE Extract(p) \/ RaiseInTry(p)
      BY <2>6, RowsKept DEF Extract, RaiseInTry, rows
    <2> QED BY <1>2, <2>1, <2>2, <2>3, <2>4, <2>5, <2>6 DEF Step
  <1>3. CASE UNCHANGED vars
    BY <1>3, RowsKept DEF vars, rows
  <1> QED BY <1>1, <1>2, <1>3 DEF Next

LEMMA InitImplements == Init => Ledger!LedgerInit
  <1> SUFFICES ASSUME Init PROVE Ledger!LedgerInit
    OBVIOUS
  <1>1. \A j \in JobIds : job[j].doc = NoDoc /\ job[j].status = "none"
    BY DEF Init, NoJob
  <1> QED BY <1>1 DEF Init, Ledger!LedgerInit

-----------------------------------------------------------------------------
\* Every row of the extraction tables and every process keeps its type.
THEOREM ExtractionTypes == Spec => []TypeOK
  <1>1. IndInv => TypeOK
    BY DEF IndInv
  <1> QED BY <1>1, InvHolds, PTL DEF Spec

\* A document or a job that reads done has a text, however many workers
\* extract it and wherever they fail.
THEOREM DoneAlwaysHasText == Spec => []DoneHasText
  <1>1. IndInv => DoneHasText
    BY DEF IndInv
  <1> QED BY <1>1, InvHolds, PTL DEF Spec

\* The queue implements the ledger: one verdict for each job, final, a success
\* only with a text, an error report only for a failure.
THEOREM QueueImplements == Spec => LedgerSpec
  <1>1. Init => Ledger!LedgerInit
    BY InitImplements
  <1>2. IndInv /\ [Next]_vars => [Ledger!LedgerNext]_(Ledger!ledger)
    BY StepImplements
  <1> QED BY <1>1, <1>2, InvHolds, PTL DEF Spec, Safety, LedgerSpec, Ledger!Spec

-----------------------------------------------------------------------------
(* Why a taken job gets its verdict: it is always in the hands of a worker *)
(* on the way to one, and every statement brings its process nearer its    *)
(* end.                                                                    *)

\* The steps of a worker between its claim and its verdict.
BeforeVerdict == {"mark", "extract", "store", "verdict", "raise"}
Works(r, j) == r.op = "work" /\ r.job = j /\ r.at \in BeforeVerdict

\* No job stays in processing behind the back of all workers, however many of
\* them took it and whatever the trigger refuses them, unless one was lost.
TakenIsHeld ==
    \A j \in JobIds : job[j].status = "processing" => crashes > 0 \/ \E p \in Procs : Works(proc[p], j)

\* The statements that a process has before it, at most.
Left(r) ==
    CASE r.at \in {"insert", "report"} -> 1
      [] r.at = "raise_doc" -> 2
      [] r.at \in {"raise", "timeout_doc"} -> 3
      [] r.at \in {"finish", "timeout"} -> 4
      [] r.at = "verdict" -> 5
      [] r.at = "store" -> 6
      [] r.at = "extract" -> 7
      [] r.at = "mark" -> 8
      [] r.at = "claim" -> 9
      [] OTHER -> 0

\* No process tries anything again: a refused verdict or an error only leads
\* towards the end of the except clause.
StepsAdvance == [][\A p \in Procs : Step(p) => Left(proc'[p]) < Left(proc[p])]_vars

\* A step of p leaves no job behind: what is in processing after it is in the
\* hands of p, or was and stays in those of another one.
LEMMA HeldStep ==
  ASSUME IndInv, TakenIsHeld, NEW p \in Procs, NEW r, Becomes(p, r), crashes' = crashes,
         \A j \in JobIds : job'[j].status = "processing" =>
            Works(r, j) \/ (job[j].status = "processing" /\ ~Works(proc[p], j))
  PROVE  TakenIsHeld'
  <1>1. \A q \in Procs : proc'[q] = IF q = p THEN r ELSE proc[q]
    BY OneChanges
  <1> SUFFICES ASSUME NEW j \in JobIds, job'[j].status = "processing", ~(crashes > 0)
               PROVE  \E q \in Procs : Works(proc'[q], j)
    BY DEF TakenIsHeld, Works
  <1>2. CASE Works(r, j)
    BY <1>1, <1>2
  <1>3. CASE job[j].status = "processing" /\ ~Works(proc[p], j)
    BY <1>1, <1>3 DEF TakenIsHeld
  <1> QED BY <1>2, <1>3

\* A statement that goes on to another one before the verdict, or that belongs
\* to no job, keeps the jobs.
LEMMA KeptHeld ==
  ASSUME IndInv, TakenIsHeld, NEW p \in Procs, NEW r, Becomes(p, r), UNCHANGED <<job, crashes>>,
         \A j \in JobIds : Works(proc[p], j) => Works(r, j)
  PROVE  TakenIsHeld'
  BY HeldStep

LEMMA StepHolds ==
  ASSUME IndInv, TakenIsHeld, NEW p \in Procs, Step(p)
  PROVE  TakenIsHeld'
  <1> DEFINE k == proc[p].job
             go(x) == [proc[p] EXCEPT !.at = x]
  <1>1. /\ proc[p] # Idle => proc[p] \in Calls
        /\ proc[p].op = "work" => k \in JobIds
        /\ Facts(proc[p])
        /\ job \in [JobIds -> JobRows \cup {NoJob}]
    BY Typed DEF IndInv, TypeOK
  <1>2. ASSUME NEW x \in Steps, proc[p] # Idle
        PROVE  go(x).op = proc[p].op /\ go(x).job = k /\ go(x).at = x
    BY <1>1, <1>2, GoesTyped
  <1>3. ASSUME NEW x \in BeforeVerdict, Goes(p, x), proc[p] # Idle, UNCHANGED <<job, crashes>>
        PROVE  TakenIsHeld'
    <2>1. x \in Steps
      BY DEF BeforeVerdict, Steps, TrySteps, ExceptSteps
    <2>2. Becomes(p, go(x)) /\ \A j \in JobIds : Works(proc[p], j) => Works(go(x), j)
      BY <1>2, <1>3, <2>1 DEF Goes, Works
    <2> HIDE DEF go
    <2> QED BY <1>3, <2>2, KeptHeld
  <1>4. ASSUME NEW r, Becomes(p, r), UNCHANGED <<job, crashes>>,
               proc[p].op # "work" \/ proc[p].at \notin BeforeVerdict
        PROVE  TakenIsHeld'
    BY <1>4, KeptHeld DEF Works
  <1>5. proc[p].at # "none" => proc[p] # Idle
    BY DEF Idle
  <1>6. CASE InsertJob(p)
    <2>1. /\ Becomes(p, Idle) /\ crashes' = crashes /\ proc[p].op = "queue"
          /\ job' = [job EXCEPT ![k] = [doc |-> proc[p].doc, status |-> "pending"]]
      BY <1>6 DEF InsertJob, Ends, At
    <2>2. \A j \in JobIds : job'[j].status = "processing" => job[j].status = "processing"
      BY <1>1, <2>1
    <2> QED BY <2>1, <2>2, HeldStep DEF Works
  <1>7. ASSUME NEW new, SetJob(p, new), proc[p].op = "work"
        PROVE  /\ crashes' = crashes
               /\ \A j \in JobIds : job'[j].status = IF j = k THEN new ELSE job[j].status
    <2>1. job' = [job EXCEPT ![k].status = new] /\ crashes' = crashes
      BY <1>7 DEF SetJob
    <2>2. \A j \in JobIds \ {k} : job'[j] = job[j]
      BY <1>1, <2>1
    <2>3. job'[k] = [job[k] EXCEPT !.status = new] /\ job[k] \in JobRows \cup {NoJob}
      BY <1>1, <1>7, <2>1
    <2>4. job'[k].status = new
      BY <2>3 DEF JobRows, NoJob
    <2> QED BY <2>1, <2>2, <2>4
  <1>8. CASE ClaimJob(p)
    <2>1. proc[p].op = "work" /\ proc[p].at = "claim"
      BY <1>8 DEF ClaimJob, At
    <2>2. CASE SetJob(p, "processing") /\ Goes(p, "mark")
      <3>1. Becomes(p, go("mark")) /\ Works(go("mark"), k)
        BY <1>2, <1>5, <2>1, <2>2 DEF Goes, Works, Steps, BeforeVerdict
      <3>2. \A j \in JobIds : ~Works(proc[p], j)
        BY <2>1 DEF Works, BeforeVerdict
      <3> HIDE DEF go, k
      <3> QED BY <1>7, <2>1, <2>2, <3>1, <3>2, HeldStep
    <2>3. CASE Ends(p) /\ UNCHANGED <<rows, asked, crashes>>
      BY <1>4, <2>1, <2>3 DEF Ends, rows, BeforeVerdict
    <2> QED BY <1>8, <2>2, <2>3 DEF ClaimJob
  <1>9. CASE MarkDoc(p)
    BY <1>3, <1>5, <1>9 DEF MarkDoc, SetDoc, BeforeVerdict
  <1>10. CASE Extract(p)
    <2>1. CASE Goes(p, "store")
      BY <1>3, <1>5, <1>10, <2>1 DEF Extract, rows, BeforeVerdict
    <2>2. CASE proc[p].op = "sync" /\ Goes(p, "timeout")
      BY <1>4, <1>10, <2>2 DEF Extract, Goes, rows
    <2> QED BY <1>10, <2>1, <2>2 DEF Extract
  <1>11. CASE Store(p)
    <2>1. CASE proc[p].op = "work"
      BY <1>3, <1>5, <1>11, <2>1 DEF Store, AfterStore, BeforeVerdict
    <2>2. CASE proc[p].op # "work"
      BY <1>4, <1>11, <2>2 DEF Store, Goes
    <2> QED BY <2>1, <2>2
  <1>12. CASE Succeed(p)
    <2>1. proc[p].op = "work" /\ proc[p].at = "verdict"
      BY <1>12 DEF Succeed, At
    <2>2. CASE SetJob(p, "done") /\ Goes(p, "finish")
      <3>1. Becomes(p, go("finish"))
        BY <2>2 DEF Goes
      <3>2. \A j \in JobIds : Works(proc[p], j) => j = k
        BY DEF Works
      <3> HIDE DEF go, k
      <3> QED BY <1>7, <2>1, <2>2, <3>1, <3>2, HeldStep
    <2>3. CASE Raises(p) /\ UNCHANGED <<rows, asked, crashes>>
      BY <1>3, <1>5, <2>1, <2>3 DEF Raises, rows, BeforeVerdict
    <2> QED BY <1>12, <2>2, <2>3 DEF Succeed
  <1>13. CASE RaiseInTry(p)
    <2>1. CASE proc[p].op = "work"
      BY <1>3, <1>5, <1>13, <2>1 DEF RaiseInTry, Raises, rows, BeforeVerdict, TrySteps
    <2>2. CASE proc[p].op # "work"
      BY <1>4, <1>13, <2>2 DEF RaiseInTry, Raises, Goes, rows
    <2> QED BY <2>1, <2>2
  <1>14. CASE FailJob(p)
    <2>1. proc[p].op = "work" /\ proc[p].at = "raise"
      BY <1>14 DEF FailJob, At
    <2>2. \A j \in JobIds : Works(proc[p], j) => j = k
      BY DEF Works
    <2>3. CASE SetJob(p, "failed") /\ Goes(p, "raise_doc")
      <3>1. Becomes(p, go("raise_doc"))
        BY <2>3 DEF Goes
      <3> HIDE DEF go, k
      <3> QED BY <1>7, <2>1, <2>2, <2>3, <3>1, HeldStep
    <2>4. CASE ~FsmPasses(k, "failed") /\ Ends(p) /\ UNCHANGED <<rows, asked, crashes>>
      <3>1. job[k].status # "processing"
        BY <2>4 DEF FsmPasses, Transitions
      <3>2. Becomes(p, Idle) /\ UNCHANGED <<job, crashes>>
        BY <2>4 DEF Ends, rows
      <3> HIDE DEF k
      <3> QED BY <2>2, <3>1, <3>2, HeldStep
    <2> QED BY <1>14, <2>3, <2>4 DEF FailJob
  <1>15. CASE FinishDoc(p) \/ FailTimedOutDoc(p)
    BY <1>4, <1>15 DEF FinishDoc, FailTimedOutDoc, SetDoc, Ends, BeforeVerdict
  <1>16. CASE FailDoc(p)
    BY <1>4, <1>16 DEF FailDoc, SetDoc, Goes, BeforeVerdict
  <1>17. CASE ReportTimeout(p) \/ ReportError(p)
    BY <1>4, <1>17 DEF ReportTimeout, ReportError, Report, Goes, Ends, BeforeVerdict
  <1> QED BY <1>6, <1>8, <1>9, <1>10, <1>11, <1>12, <1>13, <1>14, <1>15, <1>16, <1>17 DEF Step

LEMMA NextHolds == IndInv /\ TakenIsHeld /\ [Next]_vars => TakenIsHeld'
  <1> SUFFICES ASSUME IndInv, TakenIsHeld, [Next]_vars PROVE TakenIsHeld'
    OBVIOUS
  <1>1. ASSUME NEW p \in Procs, Begin(p) PROVE TakenIsHeld'
    <2>1. proc[p] = Idle /\ UNCHANGED <<job, crashes>> /\ \E r : Becomes(p, r)
      BY <1>1 DEF Begin, BeginSync, BeginQueue, BeginWork, Starts, rows
    <2> QED BY <2>1, KeptHeld DEF Works, Idle
  <1>2. ASSUME NEW p \in Procs, Crash(p) PROVE TakenIsHeld'
    BY <1>2 DEF Crash, IndInv, TypeOK, TakenIsHeld
  <1>3. CASE UNCHANGED vars
    BY <1>3 DEF vars, rows, TakenIsHeld, Works
  <1> QED BY <1>1, <1>2, <1>3, StepHolds DEF Next

\* The statement after this one is nearer the end.
LEMMA StepAdvances ==
  ASSUME IndInv, NEW p \in Procs, Step(p)
  PROVE  Left(proc'[p]) < Left(proc[p])
  <1>1. proc[p].at # "none" => proc[p] \in Calls
    BY Typed DEF Idle
  <1>2. Facts(proc[p]) /\ p \in DOMAIN proc
    BY Typed DEF IndInv, TypeOK
  <1>3. Left(Idle) = 0
    BY DEF Left, Idle
  <1>4. ASSUME Ends(p), proc[p].at \in Steps PROVE Left(proc'[p]) < Left(proc[p])
    <2>1. proc'[p] = Idle
      BY <1>2, <1>4 DEF Ends, Becomes
    <2>2. 0 < Left(proc[p])
      BY <1>4 DEF Left, Steps, TrySteps, ExceptSteps
    <2> QED BY <1>3, <2>1, <2>2
  <1>5. ASSUME NEW x \in Steps, Goes(p, x), proc[p].at # "none" PROVE proc'[p].at = x
    <2>1. proc'[p] = [proc[p] EXCEPT !.at = x]
      BY <1>2, <1>5 DEF Goes, Becomes
    <2> QED BY <1>1, <1>5, <2>1, GoesTyped
  <1> USE DEF Steps, TrySteps, ExceptSteps
  <1>6. CASE InsertJob(p) \/ FinishDoc(p) \/ FailTimedOutDoc(p) \/ ReportError(p)
    BY <1>4, <1>6 DEF InsertJob, FinishDoc, FailTimedOutDoc, ReportError, At
  <1>7. CASE ClaimJob(p)
    BY <1>4, <1>5, <1>7 DEF ClaimJob, At, Left
  <1>8. CASE MarkDoc(p) \/ Extract(p)
    BY <1>5, <1>8 DEF MarkDoc, Extract, Left
  <1>9. CASE Store(p)
    BY <1>5, <1>9 DEF Store, AfterStore, Left
  <1>10. CASE Succeed(p)
    BY <1>5, <1>10 DEF Succeed, Raises, At, Left
  <1>11. CASE ReportTimeout(p) \/ FailDoc(p)
    BY <1>5, <1>11 DEF ReportTimeout, FailDoc, Left
  <1>12. CASE RaiseInTry(p)
    BY <1>2, <1>5, <1>12 DEF RaiseInTry, Raises, Facts, Left
  <1>13. CASE FailJob(p)
    BY <1>4, <1>5, <1>13 DEF FailJob, At, Left
  <1> QED BY <1>6, <1>7, <1>8, <1>9, <1>10, <1>11, <1>12, <1>13 DEF Step

\* A job in processing is in the hands of a worker that has not reached its
\* verdict, unless a process was lost.
THEOREM TakenAlwaysHeld == Spec => []TakenIsHeld
  <1>1. Init => TakenIsHeld
    BY DEF Init, TakenIsHeld, NoJob
  <1> QED BY <1>1, NextHolds, InvHolds, PTL DEF Spec, Safety

\* Every statement brings its process nearer its end, which is at most nine
\* statements away.
THEOREM EveryStepAdvances == Spec => StepsAdvance
  <1>1. IndInv => [\A p \in Procs : Step(p) => Left(proc'[p]) < Left(proc[p])]_vars
    BY StepAdvances
  <1> QED BY <1>1, InvHolds, PTL DEF Spec, Safety, StepsAdvance
=============================================================================
