------------------------- MODULE AnnotationRunProofs -------------------------
(***************************************************************************)
(* Proofs about AnnotationRun, for any number of requests, calls, restarts *)
(* and refused outputs.                                                    *)
(*                                                                         *)
(* The argument: every record, on disk or in memory, has the outputs its   *)
(* state promises and none ahead of it, so that the pass that runs next is *)
(* computed from what stays in the record.  A request that was never       *)
(* overlapped owns the .tmp file from open to rename, and what it works on *)
(* is what the checkpoint holds.                                           *)
(***************************************************************************)
EXTENDS AnnotationRun, TLAPS

Saving == {"open", "write", "rename"}

\* No output ahead of the state; 2A is skipped without a change of state.
NothingAhead(rec) ==
    Rank(rec.state) # -1 =>
        \A i \in Passes : i > Rank(rec.state) =>
            rec.outs[i] = Missing \/ (i = 5 /\ rec.outs[i] = Skipped)

Sound(rec) == HasOutputs(rec) /\ OneLineage(rec) /\ NothingAhead(rec)

\* A request about to run pass k has the outputs before it, and either what
\* its record had on entry or, after a reset, nothing from k on.
Looping(q) ==
    /\ q.k \in 1..5 /\ Rank(q.entry) <= 4
    /\ Rank(q.rec.state) \in {q.k - 1, Rank(q.entry)} /\ Rank(q.rec.state) >= q.k - 1
    /\ \A i \in 1..(q.k - 1) : q.rec.outs[i].kind = "given"

\* What is saved: the first record, the one of the pass before k, or the last.
Saved(q) ==
    /\ q.k = 1 => q.rec = NewRecord
    /\ q.k \in 2..5 => /\ q.rec.state = Done[q.k - 1] /\ Rank(q.entry) <= 4
                       /\ \A i \in 1..(q.k - 1) : q.rec.outs[i].kind = "given"
    /\ q.k = 6 => q.rec.state \in Terminal

\* Until the first restart, without the sub-passes nothing is ever resumable.
NoSubpass(q) ==
    /\ q.at \notin {"reload", "pass"}
    /\ q.at \in Saving => q.k = 6 /\ q.rec.state \notin Resumable

RequestFacts(q) ==
    /\ q.at = "reload" => file # NoFile
    /\ q.at = "pass" => Sound(q.rec) /\ Looping(q)
    /\ q.at \in Saving => Sound(q.rec) /\ Saved(q)
    /\ restarts = 0 /\ ~m12 => NoSubpass(q)

FileFacts(c) ==
    c \in Records =>
        /\ Sound(c)
        /\ restarts = 0 /\ ~m12 => c.state \notin Resumable

RunInv ==
    /\ FileFacts(file) /\ FileFacts(tmp)
    /\ \A r \in Reqs : req[r] # Idle => RequestFacts(req[r])

\* rec can take the place of the checkpoint and lose nothing.
Durable(rec) ==
    /\ ~M12Terminal(file.state)
    /\ \/ Rank(rec.state) >= Rank(file.state)
       \/ rec.state = "dead_letter"
       \/ \E k \in Passes : file.outs[k] = Corrupt

\* A request that has met no other.
Solo(q) ==
    /\ q.inode = IF q.at \in {"write", "rename"} THEN "tmp" ELSE "none"
    /\ q.at = "write" => tmp = Torn
    /\ q.at = "rename" => tmp = q.rec
    /\ q.at = "pass" => file = q.rec /\ (M12Terminal(file.state) => q.k = 5 /\ ~p2a)
    /\ q.at \in Saving => file = NoFile \/ Durable(q.rec)

SoloInv ==
    ~overlap =>
        /\ file # Torn
        /\ \A r, q \in Reqs : req[r] # Idle /\ req[q] # Idle => r = q
        /\ \A r \in Reqs : req[r] # Idle => Solo(req[r])

\* What a thread can be told.
Told(a) ==
    /\ a \in {"none", "empty", "llm", "error"}
    /\ a = "error" => overlap \/ restarts > 0

IInv == TypeOK /\ RunInv /\ SoloInv /\ \A r \in Reqs : Told(answer[r])

-----------------------------------------------------------------------------
(* States. *)

LEMMA DoneStates ==
    /\ Done[0] = "quality_assessed" /\ Done[1] = "pass_1a_done" /\ Done[2] = "pass_1b_done"
    /\ Done[3] = "pass_1c_done" /\ Done[4] = "pass_1d_done" /\ Done[5] = "pass_2a_done"
BY DEF Done

LEMMA RankDone == \A k \in 0..5 : Rank(Done[k]) = k
<1> SUFFICES ASSUME NEW k \in 0..5 PROVE Rank(Done[k]) = k  OBVIOUS
<1>1. \A j \in 0..5 : Done[j] = Done[k] => j = k
  <2>1. \A j \in 0..5 : j = 0 \/ j = 1 \/ j = 2 \/ j = 3 \/ j = 4 \/ j = 5  OBVIOUS
  <2>2. QED  BY <2>1, DoneStates
<1>2. (CHOOSE j \in 0..5 : Done[j] = Done[k]) = k  BY <1>1
<1>3. QED  BY <1>2 DEF Rank

LEMMA RankIs ==
    ASSUME NEW s
    PROVE  /\ Rank(s) \in -1..5
           /\ Rank(s) # -1 => s = Done[Rank(s)]
           /\ Rank(s) = -1 => \A k \in 0..5 : s # Done[k]
<1>1. CASE \E k \in 0..5 : Done[k] = s
  <2>1. PICK k \in 0..5 : Done[k] = s  BY <1>1
  <2>2. Rank(s) = k  BY <2>1, RankDone
  <2>3. QED  BY <2>1, <2>2
<1>2. CASE ~\E k \in 0..5 : Done[k] = s  BY <1>2 DEF Rank
<1>3. QED  BY <1>1, <1>2

LEMMA StateSets ==
    /\ States = {"quality_assessed", "pass_1a_done", "pass_1b_done", "pass_1c_done",
                 "pass_1d_done", "pass_2a_done", "dead_letter", "review_required",
                 "routed", "llm_preannotation_pending"}
    /\ Resumable = {"quality_assessed", "pass_1a_done", "pass_1b_done", "pass_1c_done"}
    /\ Terminal = {"pass_1d_done", "pass_2a_done", "dead_letter", "review_required",
                   "routed", "llm_preannotation_pending"}
<1>1. Resumable = {Done[0], Done[1], Done[2], Done[3]}
  <2>1. 0..3 = {0, 1, 2, 3}  OBVIOUS
  <2>2. QED  BY <2>1 DEF Resumable
<1>2. QED  BY <1>1, DoneStates DEF Terminal, States

LEMMA TerminalRank ==
    ASSUME NEW s \in States
    PROVE  /\ s \in Terminal => Rank(s) \in {-1, 4, 5}
           /\ s \in Resumable <=> Rank(s) \in 0..3
           /\ s \in Resumable <=> s \notin Terminal
           /\ Rank(s) = 4 <=> s = Done[4]
           /\ ~M12Terminal(s) => Rank(s) \in 0..4
<1>1. \A k \in 0..5 : k = 0 \/ k = 1 \/ k = 2 \/ k = 3 \/ k = 4 \/ k = 5  OBVIOUS
<1>2. s = Done[0] \/ s = Done[1] \/ s = Done[2] \/ s = Done[3] \/ s = Done[4] \/ s = Done[5]
      \/ Rank(s) = -1
  BY <1>1, RankIs
<1>3. /\ Rank(Done[0]) = 0 /\ Rank(Done[1]) = 1 /\ Rank(Done[2]) = 2
      /\ Rank(Done[3]) = 3 /\ Rank(Done[4]) = 4 /\ Rank(Done[5]) = 5
  BY RankDone
<1>4. Rank(s) = -1 =>
         s \in {"dead_letter", "review_required", "routed", "llm_preannotation_pending"}
  BY DoneStates, StateSets, RankIs
<1>5. QED  BY <1>2, <1>3, <1>4, DoneStates, StateSets DEF M12Terminal

LEMMA EndStates ==
    /\ \A k \in 0..5 : Done[k] \in States
    /\ \A s \in Terminal : s \in States /\ Reply(s) \in {"empty", "llm"}
    /\ {Done[4], Done[5], "dead_letter", "review_required",
        "routed", "llm_preannotation_pending"} = Terminal
    /\ Rank("dead_letter") = -1 /\ Rank("review_required") = -1
    /\ Rank("routed") = -1 /\ Rank("llm_preannotation_pending") = -1
<1>1. \A k \in 0..5 : k = 0 \/ k = 1 \/ k = 2 \/ k = 3 \/ k = 4 \/ k = 5  OBVIOUS
<1>2. \A k \in 0..5 : Done[k] \in States  BY <1>1, DoneStates, StateSets
<1>3. \A s \in Terminal : s \in States /\ Reply(s) \in {"empty", "llm"}
  BY DoneStates, StateSets DEF Reply
<1>4. \A s \in {"dead_letter", "review_required", "routed", "llm_preannotation_pending"} :
         \A k \in 0..5 : s # Done[k]
  BY <1>1, DoneStates
<1>5. QED  BY <1>2, <1>3, <1>4 DEF Rank, Terminal

-----------------------------------------------------------------------------
(* Records. *)

LEMMA RecordTypes ==
    /\ NewRecord \in Records
    /\ Missing \in Outputs /\ Corrupt \in Outputs /\ Failed \in Outputs /\ Skipped \in Outputs
    /\ NoFile \notin Contents /\ Torn \notin Records
    /\ \A rec \in Records : rec.state \in States /\ rec.outs \in [Passes -> Outputs]
<1>1. /\ Missing \in Outputs /\ Corrupt \in Outputs /\ Failed \in Outputs /\ Skipped \in Outputs
  BY DEF Outputs
<1>2. NewRecord \in Records  BY <1>1, EndStates DEF NewRecord, Records
<1>3. "none" \notin States /\ "torn" \notin States  BY StateSets
<1>4. \A rec \in Records : rec.state \in States /\ rec.outs \in [Passes -> Outputs]
  BY DEF Records
<1>5. NoFile.state = "none" /\ Torn.state = "torn"  BY DEF NoFile, Torn
<1>6. QED  BY <1>1, <1>2, <1>3, <1>4, <1>5 DEF Contents

LEMMA Kinds ==
    /\ Missing.kind = "missing" /\ Corrupt.kind = "corrupt"
    /\ Failed.kind = "failed" /\ Skipped.kind = "skipped"
    /\ \A o \in Outputs : o.kind = "given" => o \in Given
    /\ \A o \in Outputs : o.kind = "corrupt" => o = Corrupt
    /\ \A o \in Outputs : o.kind = "missing" => o = Missing
    /\ \A o \in Outputs : o.kind \in {"given", "missing", "corrupt", "failed", "skipped"}
BY DEF Outputs, Given, Missing, Corrupt, Failed, Skipped

LEMMA ProducesFields ==
    ASSUME NEW rec \in Records, NEW k \in Passes, NEW out \in Outputs, NEW s \in States
    PROVE  /\ Produces(rec, k, out, s) \in Records
           /\ Produces(rec, k, out, s).state = s
           /\ Produces(rec, k, out, s).outs[k] = out
           /\ \A i \in Passes \ {k} : Produces(rec, k, out, s).outs[i] = rec.outs[i]
BY DEF Produces, Records

LEMMA ResetFields ==
    ASSUME NEW rec \in Records, NEW k \in 1..4
    PROVE  /\ ResetFrom(rec, k) \in Records
           /\ ResetFrom(rec, k).state = Done[k - 1]
           /\ \A i \in Passes : ResetFrom(rec, k).outs[i] = IF i > k THEN Missing ELSE rec.outs[i]
<1>1. Done[k - 1] \in States  BY EndStates
<1>2. QED  BY <1>1, RecordTypes DEF ResetFrom, Records

LEMMA NewRecordSound == Sound(NewRecord) /\ NewRecord.state = Done[0] /\ Rank(NewRecord.state) = 0
<1>1. NewRecord.state = Done[0] /\ \A i \in Passes : NewRecord.outs[i] = Missing
  BY DEF NewRecord
<1>2. Rank(NewRecord.state) = 0  BY <1>1, RankDone
<1>3. HasOutputs(NewRecord)  BY <1>2 DEF HasOutputs
<1>4. OneLineage(NewRecord)  BY <1>1, Kinds DEF OneLineage, Passes
<1>5. NothingAhead(NewRecord)  BY <1>1 DEF NothingAhead
<1>6. QED  BY <1>1, <1>2, <1>3, <1>4, <1>5 DEF Sound

\* Pass k ran on a record that has the outputs before it and none from k on,
\* or none after k: the result is sound.
LEMMA PassSound ==
    ASSUME NEW rec \in Records, OneLineage(rec), NEW k \in Passes,
           \A i \in 1..(k - 1) : rec.outs[i].kind = "given",
           \A i \in Passes : i > k => rec.outs[i].kind # "given",
           \A i \in Passes : i > k => rec.outs[i] = Missing \/ (i = 5 /\ rec.outs[i] = Skipped),
           NEW out \in Outputs, out.kind = "given",
           out.from = IF k = 1 THEN 0 ELSE AuthorOf(rec.outs[k - 1])
    PROVE  Sound(Produces(rec, k, out, Done[k]))
<1> DEFINE new == Produces(rec, k, out, Done[k])
<1>1. Done[k] \in States /\ Rank(Done[k]) = k  BY EndStates, RankDone DEF Passes
<1>2. /\ new.state = Done[k] /\ new.outs[k] = out
      /\ \A i \in Passes \ {k} : new.outs[i] = rec.outs[i]
  BY <1>1, ProducesFields
<1> HIDE DEF new
<1>3. HasOutputs(new)
  <2>1. \A i \in 1..k : new.outs[i].kind = "given"  BY <1>2 DEF Passes
  <2>2. QED  BY <1>1, <1>2, <2>1 DEF HasOutputs
<1>4. OneLineage(new)
  <2> SUFFICES ASSUME NEW j \in 2..5, new.outs[j].kind = "given", new.outs[j - 1].kind = "given"
               PROVE  new.outs[j].from = new.outs[j - 1].by
    BY DEF OneLineage
  <2>1. j \in Passes /\ j - 1 \in Passes  BY DEF Passes
  <2>2. CASE j = k
    <3>1. new.outs[j] = out /\ new.outs[j - 1] = rec.outs[j - 1]  BY <1>2, <2>1, <2>2
    <3>2. QED  BY <2>2, <3>1 DEF AuthorOf
  <2>3. CASE j < k
    <3>1. new.outs[j] = rec.outs[j] /\ new.outs[j - 1] = rec.outs[j - 1]  BY <1>2, <2>1, <2>3
    <3>2. QED  BY <3>1 DEF OneLineage
  <2>4. CASE j > k  BY <1>2, <2>1, <2>4
  <2>5. QED  BY <2>2, <2>3, <2>4 DEF Passes
<1>5. NothingAhead(new)
  <2>1. \A i \in Passes : i > k => i \in Passes \ {k}  BY DEF Passes
  <2>2. QED  BY <1>1, <1>2, <2>1 DEF NothingAhead
<1>6. QED  BY <1>3, <1>4, <1>5 DEF Sound, new

\* A record that gets an output without a value and a state without a rank,
\* or that skips 2A.
LEMMA EndSound ==
    ASSUME NEW rec \in Records, NEW k \in Passes, NEW out \in Outputs, out.kind # "given",
           OneLineage(rec), NEW s \in States, Rank(s) = -1
    PROVE  Sound(Produces(rec, k, out, s))
<1> DEFINE new == Produces(rec, k, out, s)
<1>1. /\ new.state = s /\ new.outs[k] = out
      /\ \A i \in Passes \ {k} : new.outs[i] = rec.outs[i]
  BY ProducesFields
<1> HIDE DEF new
<1>2. HasOutputs(new) /\ NothingAhead(new)  BY <1>1 DEF HasOutputs, NothingAhead
<1>3. OneLineage(new)
  <2> SUFFICES ASSUME NEW j \in 2..5, new.outs[j].kind = "given", new.outs[j - 1].kind = "given"
               PROVE  new.outs[j].from = new.outs[j - 1].by
    BY DEF OneLineage
  <2>1. j \in Passes /\ j - 1 \in Passes /\ j # k /\ j - 1 # k  BY <1>1 DEF Passes
  <2>2. QED  BY <1>1, <2>1 DEF OneLineage
<1>4. QED  BY <1>2, <1>3 DEF Sound, new

LEMMA SkipSound ==
    ASSUME NEW rec \in Records, Sound(rec), rec.state = Done[4]
    PROVE  Sound(Produces(rec, 5, Skipped, rec.state))
<1> DEFINE new == Produces(rec, 5, Skipped, rec.state)
<1>1. rec.state \in States /\ Rank(rec.state) = 4  BY RecordTypes, RankDone
<1>2. /\ new.state = rec.state /\ new.outs[5] = Skipped
      /\ \A i \in Passes \ {5} : new.outs[i] = rec.outs[i]
  <2>1. 5 \in Passes  BY DEF Passes
  <2>2. QED  BY <1>1, <2>1, ProducesFields, RecordTypes
<1> HIDE DEF new
<1>3. HasOutputs(new)  BY <1>1, <1>2 DEF HasOutputs, Sound, Passes
<1>4. NothingAhead(new)  BY <1>1, <1>2 DEF NothingAhead, Passes
<1>5. OneLineage(new)
  <2> SUFFICES ASSUME NEW j \in 2..5, new.outs[j].kind = "given", new.outs[j - 1].kind = "given"
               PROVE  new.outs[j].from = new.outs[j - 1].by
    BY DEF OneLineage
  <2>1. j # 5  BY <1>2, Kinds
  <2>2. QED  BY <1>2, <2>1 DEF OneLineage, Sound, Passes
<1>6. QED  BY <1>3, <1>4, <1>5 DEF Sound, new

\* A restart takes values away, nothing else.
LEMMA InvalidatedSound ==
    ASSUME NEW c \in Records, Sound(c), NEW d \in Invalidated(c)
    PROVE  d \in Records /\ d.state = c.state /\ Sound(d)
<1>1. PICK bad \in {b \in SUBSET {k \in Passes : c.outs[k].kind = "given"} :
                       Cardinality(b) <= MaxRefused} :
         d = [c EXCEPT !.outs = [k \in Passes |-> IF k \in bad THEN Corrupt ELSE c.outs[k]]]
  BY DEF Invalidated
<1>2. /\ d \in Records /\ d.state = c.state
      /\ \A k \in Passes : d.outs[k] = IF k \in bad THEN Corrupt ELSE c.outs[k]
  BY <1>1, RecordTypes DEF Records
<1>3. \A k \in bad : k \in Passes /\ c.outs[k].kind = "given"  BY <1>1
<1>4. HasOutputs(d)
  <2>1. \A k \in 1..Rank(d.state) : k \in Passes  BY RankIs DEF Passes
  <2>2. QED  BY <1>2, <2>1, Kinds DEF HasOutputs, Sound
<1>5. OneLineage(d)
  <2>1. \A k \in 2..5 : k \in Passes /\ k - 1 \in Passes  BY DEF Passes
  <2>2. QED  BY <1>2, <2>1, Kinds DEF OneLineage, Sound
<1>6. NothingAhead(d)  BY <1>2, <1>3, Kinds DEF NothingAhead, Sound
<1>7. QED  BY <1>2, <1>4, <1>5, <1>6 DEF Sound

-----------------------------------------------------------------------------
(* Steps of one request that leave the disk alone. *)

Good(q) == q \in Active /\ RequestFacts(q) /\ (~overlap => Solo(q))

LEMMA InvReq ==
    ASSUME IInv, NEW r \in Reqs, req[r] # Idle
    PROVE  Good(req[r])
BY DEF IInv, TypeOK, RunInv, SoloInv, Good

LEMMA ActiveFields ==
    ASSUME NEW q \in Active
    PROVE  /\ q # Idle /\ q.at \in Ats /\ q.call \in 1..MaxCalls /\ q.rec \in Records
           /\ q.entry \in {"none"} \cup States /\ q.k \in 1..6
           /\ q.inode \in {"none", "tmp", "final", "gone"}
           /\ q.rec.state \in States
<1>1. Idle.at = "idle" /\ "idle" \notin Ats  BY DEF Idle, Ats
<1>2. QED  BY <1>1, RecordTypes DEF Active

\* What a step makes of a request.
LEMMA EnterFields ==
    ASSUME NEW p \in Active, NEW rec \in Records, rec.state \in States
    PROVE  LET q == [p EXCEPT !.at = "pass", !.k = 1, !.rec = rec, !.entry = rec.state]
           IN  /\ q \in Active /\ q.at = "pass" /\ q.inode = p.inode
               /\ q.k = 1 /\ q.rec = rec /\ q.entry = rec.state
<1>1. "pass" \in Ats /\ rec.state \in {"none"} \cup States /\ 1 \in 1..6  BY DEF Ats
<1>2. QED  BY <1>1 DEF Active

Kept(p, rec, k) == [p EXCEPT !.at = "open", !.rec = rec, !.k = k]

LEMMA SavesFields ==
    ASSUME NEW p \in Active, NEW rec \in Records, NEW k, k \in 1..6
    PROVE  /\ Kept(p, rec, k) \in Active
           /\ Kept(p, rec, k).at = "open" /\ Kept(p, rec, k).inode = p.inode
           /\ Kept(p, rec, k).k = k /\ Kept(p, rec, k).rec = rec
           /\ Kept(p, rec, k).entry = p.entry
<1>1. "open" \in Ats  BY DEF Ats
<1>2. QED  BY <1>1 DEF Active, Kept

LEMMA QuietStep ==
    ASSUME IInv, NEW r \in Reqs, req[r] # Idle, NEW q, Becomes(r, q), q = Idle \/ Good(q),
           answer' = answer \/ \E a : Told(a) /\ answer' = [answer EXCEPT ![r] = a],
           UNCHANGED <<settings, disk, counts>>
    PROVE  IInv'
<1>u. UNCHANGED <<doc, m12, p2a, file, tmp, calls, restarts, overlap>>
  BY DEF settings, disk, counts
<1>1. \A x \in Reqs : req'[x] = IF x = r THEN q ELSE req[x]
  BY DEF Becomes, IInv, TypeOK
<1>2. TypeOK'
  <2>1. req' \in [Reqs -> Active \cup {Idle}]  BY DEF Becomes, IInv, TypeOK, Good
  <2>2. answer' \in [Reqs -> {"none", "empty", "llm", "error", "unexpected"}]
    BY DEF IInv, TypeOK, Told
  <2>3. QED  BY <1>u, <2>1, <2>2 DEF IInv, TypeOK
<1>3. RunInv'
  BY <1>u, <1>1 DEF IInv, RunInv, Good, FileFacts, RequestFacts, NoSubpass
<1>4. SoloInv'
  BY <1>u, <1>1 DEF IInv, SoloInv, Good, Solo, Durable, M12Terminal
<1>5. (\A x \in Reqs : Told(answer[x]))'
  <2>1. \A x \in Reqs : Told(answer'[x])  BY DEF IInv, TypeOK
  <2>2. QED  BY <1>u, <2>1 DEF Told
<1>6. QED  BY <1>2, <1>3, <1>4, <1>5 DEF IInv

\* The answer of a request that ends on a checkpoint or with an error.
LEMMA EndStep ==
    ASSUME IInv, NEW r \in Reqs, req[r] # Idle, NEW a, Told(a), Replies(r, a),
           UNCHANGED <<settings, disk, counts>>
    PROVE  IInv'
BY QuietStep DEF Replies

LEMMA EndTold ==
    ASSUME NEW s \in Terminal PROVE Told(Reply(s))
BY EndStates DEF Told

LEMMA NotNoFile ==
    ASSUME IInv, file # NoFile, file # Torn PROVE file \in Records /\ file.state \in States
BY RecordTypes DEF IInv, TypeOK, Contents

LEMMA LoadRunInv ==
    ASSUME IInv, NEW r \in Reqs, LoadRun(r) PROVE IInv'
<1>u. UNCHANGED <<settings, disk, counts>>  BY DEF LoadRun
<1>1. req[r] # Idle /\ req[r].at = "load" /\ Good(req[r]) /\ file # NoFile
  BY InvReq DEF Idle, LoadRun
<1>2. CASE file = Torn
  <2>1. Replies(r, "error")
    <3>1. file.state \notin Terminal /\ file.state \notin Resumable  BY <1>2, StateSets DEF Torn
    <3>2. QED  BY <1>2, <3>1 DEF LoadRun
  <2>2. Told("error")  BY <1>2 DEF IInv, SoloInv, Told
  <2>3. QED  BY <1>u, <1>1, <2>1, <2>2, EndStep
<1>3. CASE file # Torn
  <2>1. file \in Records /\ file.state \in States  BY <1>1, <1>3, NotNoFile
  <2>2. file.state \in Resumable <=> file.state \notin Terminal  BY <2>1, TerminalRank
  <2>3. CASE file.state \in Terminal
    <3>1. Replies(r, Reply(file.state))  BY <1>1, <1>3, <2>2, <2>3 DEF Returns, LoadRun
    <3>2. QED  BY <1>u, <1>1, <2>3, <3>1, EndTold, EndStep
  <2>4. CASE file.state \in Resumable /\ m12
    <3> DEFINE q == [req[r] EXCEPT !.at = "reload", !.case = FALSE]
    <3>1. Becomes(r, q) /\ answer' = answer  BY <1>1, <1>3, <2>2, <2>4 DEF LoadRun
    <3>2. q \in Active /\ q.at = "reload" /\ q.inode = req[r].inode
      BY <1>1 DEF Good, Active, Ats
    <3> HIDE DEF q
    <3>3. RequestFacts(q)  BY <1>1, <2>4, <3>2 DEF RequestFacts, Saving
    <3>4. ~overlap => Solo(q)  BY <1>1, <3>2 DEF Good, Solo, Saving
    <3>5. QED  BY <1>u, <1>1, <3>1, <3>2, <3>3, <3>4, QuietStep DEF Good
  <2>5. CASE file.state \in Resumable /\ ~m12
    <3>1. Replies(r, "error")  BY <1>1, <1>3, <2>2, <2>5 DEF LoadRun
    <3>2. restarts > 0  BY <2>1, <2>5 DEF IInv, TypeOK, RunInv, FileFacts
    <3>3. Told("error")  BY <3>2 DEF Told
    <3>4. QED  BY <1>u, <1>1, <3>1, <3>3, EndStep
  <2>6. QED  BY <2>2, <2>3, <2>4, <2>5
<1>4. QED  BY <1>2, <1>3

LEMMA ReloadRunInv ==
    ASSUME IInv, NEW r \in Reqs, ReloadRun(r) PROVE IInv'
<1>u. UNCHANGED <<settings, disk, counts>>  BY DEF ReloadRun
<1>1. req[r] # Idle /\ req[r].at = "reload" /\ Good(req[r])
  BY InvReq DEF Idle, ReloadRun
<1>2. file # NoFile  BY <1>1 DEF Good, RequestFacts
<1>3. CASE file = Torn
  <2>1. Replies(r, "error")  BY <1>3 DEF ReloadRun
  <2>2. Told("error")  BY <1>3 DEF IInv, SoloInv, Told
  <2>3. QED  BY <1>u, <1>1, <2>1, <2>2, EndStep
<1>4. CASE file # Torn
  <2>1. file \in Records /\ file.state \in States  BY <1>2, <1>4, NotNoFile
  <2>2. CASE M12Terminal(file.state)
    <3>1. Replies(r, Reply(file.state)) /\ file.state \in Terminal
      BY <1>4, <2>2 DEF Returns, M12Terminal, ReloadRun
    <3>2. QED  BY <1>u, <1>1, <3>1, EndTold, EndStep
  <2>3. CASE ~M12Terminal(file.state)
    <3> DEFINE q == [req[r] EXCEPT !.at = "pass", !.k = 1, !.rec = file, !.entry = file.state]
    <3>1. Becomes(r, q) /\ answer' = answer  BY <1>4, <2>3 DEF ReloadRun
    <3>2. /\ q \in Active /\ q.at = "pass" /\ q.inode = req[r].inode
          /\ q.k = 1 /\ q.rec = file /\ q.entry = file.state
      BY <1>1, <2>1, EnterFields DEF Good
    <3> HIDE DEF q
    <3>3. Rank(file.state) \in 0..4  BY <2>1, <2>3, TerminalRank
    <3>4. Looping(q)  BY <3>2, <3>3 DEF Looping
    <3>5. RequestFacts(q)
      BY <1>1, <2>1, <3>2, <3>4 DEF RequestFacts, Saving, NoSubpass, Good, IInv, RunInv, FileFacts
    <3>6. ~overlap => Solo(q)  BY <1>1, <2>3, <3>2 DEF Good, Solo, Saving
    <3>7. QED  BY <1>u, <1>1, <3>1, <3>2, <3>5, <3>6, QuietStep DEF Good
  <2>4. QED  BY <2>2, <2>3
<1>5. QED  BY <1>3, <1>4

\* A request that will save: its record is sound, and loses nothing alone.
LEMMA SavesStep ==
    ASSUME IInv, NEW r \in Reqs, req[r].at \in {"load", "pass"}, req[r] # Idle,
           NEW rec \in Records, NEW k, k \in 1..6, Saves(r, rec, k),
           Sound(rec), Saved(Kept(req[r], rec, k)),
           restarts = 0 /\ ~m12 => k = 6 /\ rec.state \notin Resumable,
           ~overlap => file = NoFile \/ Durable(rec),
           UNCHANGED <<settings, disk, answer, counts>>
    PROVE  IInv'
<1> DEFINE q == Kept(req[r], rec, k)
<1>1. Good(req[r])  BY InvReq
<1>2. Becomes(r, q)  BY DEF Saves, Kept
<1>3. /\ q \in Active /\ q.at = "open" /\ q.inode = req[r].inode
      /\ q.k = k /\ q.rec = rec /\ q.entry = req[r].entry
  <2>1. req[r] \in Active  BY <1>1 DEF Good
  <2>2. QED  BY <2>1, SavesFields
<1>4. Saved(q)  OBVIOUS
<1> HIDE DEF q
<1>5. RequestFacts(q)  BY <1>3, <1>4 DEF RequestFacts, Saving, NoSubpass
<1>6. ~overlap => Solo(q)  BY <1>1, <1>3 DEF Good, Solo, Saving
<1>7. QED  BY <1>2, <1>3, <1>5, <1>6, QuietStep DEF Good

LEMMA FirstPassesInv ==
    ASSUME IInv, NEW r \in Reqs, FirstPasses(r) PROVE IInv'
<1>u. UNCHANGED <<settings, disk, answer, counts>>  BY DEF FirstPasses
<1>1. req[r] # Idle /\ req[r].at = "load" /\ file = NoFile
  BY DEF FirstPasses, Idle
<1> DEFINE rec(s) == [NewRecord EXCEPT !.state = s]
           Ends == {"dead_letter", "review_required", "routed", "llm_preannotation_pending"}
<1>2. ASSUME NEW s \in Ends, Saves(r, rec(s), 6) PROVE IInv'
  <2>1. s \in States /\ s \in Terminal /\ s \notin Resumable /\ Rank(s) = -1
    BY StateSets, EndStates
  <2>2. rec(s) \in Records /\ rec(s).state = s /\ rec(s).outs = NewRecord.outs
    BY <2>1, RecordTypes DEF NewRecord, Records
  <2>3. Sound(rec(s))
    BY <2>1, <2>2, NewRecordSound DEF Sound, HasOutputs, NothingAhead, OneLineage
  <2> HIDE DEF rec
  <2>4. Saved(Kept(req[r], rec(s), 6))
    <3>1. Kept(req[r], rec(s), 6).k = 6 /\ Kept(req[r], rec(s), 6).rec = rec(s)
      BY <1>1, <2>2, InvReq, SavesFields DEF Good
    <3>2. QED  BY <2>1, <2>2, <3>1 DEF Saved
  <2>5. QED  BY <1>u, <1>1, <1>2, <2>1, <2>2, <2>3, <2>4, SavesStep
<1>3. ASSUME m12, Saves(r, NewRecord, 1) PROVE IInv'
  <2>1. Saved(Kept(req[r], NewRecord, 1))
    <3>1. Kept(req[r], NewRecord, 1).k = 1 /\ Kept(req[r], NewRecord, 1).rec = NewRecord
      BY <1>1, InvReq, SavesFields, RecordTypes DEF Good
    <3>2. QED  BY <3>1 DEF Saved
  <2>2. QED  BY <1>u, <1>1, <1>3, <2>1, RecordTypes, NewRecordSound, SavesStep
<1>4. \/ \E s \in Ends : Saves(r, rec(s), 6)
      \/ m12 /\ Saves(r, NewRecord, 1)
  BY DEF FirstPasses
<1>5. QED  BY <1>2, <1>3, <1>4

LEMMA CheckpointHitInv ==
    ASSUME IInv, NEW r \in Reqs, CheckpointHit(r) PROVE IInv'
<1> DEFINE p == req[r]
           q == [p EXCEPT !.k = p.k + 1]
<1>1. /\ p # Idle /\ p.at = "pass" /\ p.k <= 4 /\ Rank(p.entry) >= p.k
      /\ p.rec.outs[p.k].kind \notin {"missing", "corrupt"}
      /\ UNCHANGED <<settings, disk, answer, counts>>
  BY DEF CheckpointHit, Idle
<1>2. Good(p)  BY <1>1, InvReq
<1>3. Becomes(r, q)  BY DEF CheckpointHit
<1>4. p \in Active /\ p.k \in 1..4 /\ p.rec \in Records
  BY <1>1, <1>2, ActiveFields DEF Good
<1>5. q \in Active /\ q.at = "pass" /\ q.inode = p.inode /\ q.k = p.k + 1
      /\ q.rec = p.rec /\ q.entry = p.entry
  <2>1. p.k + 1 \in 1..6  BY <1>4
  <2>2. QED  BY <1>1, <1>4, <2>1 DEF Active
<1>6. Sound(p.rec) /\ Looping(p)  BY <1>1, <1>2 DEF Good, RequestFacts
<1> HIDE DEF p, q
<1>7. Rank(p.rec.state) \in {p.k - 1, Rank(p.entry)} /\ Rank(p.entry) \in 1..4
      /\ \A i \in 1..(p.k - 1) : p.rec.outs[i].kind = "given"
  BY <1>1, <1>4, <1>6, RankIs DEF Looping
<1>8. p.k \in Passes /\ p.rec.outs[p.k] \in Outputs  BY <1>4, RecordTypes DEF Passes
<1>9. Rank(p.rec.state) = Rank(p.entry)
  <2>1. SUFFICES ASSUME Rank(p.rec.state) = p.k - 1 PROVE FALSE  BY <1>7
  <2>2. p.rec.outs[p.k] = Missing
    BY <1>4, <1>6, <1>8, <2>1 DEF Sound, NothingAhead
  <2>3. QED  BY <1>1, <2>2, Kinds
<1>10. p.rec.outs[p.k].kind = "given"
  BY <1>1, <1>4, <1>6, <1>7, <1>9 DEF Sound, HasOutputs
<1>11. Looping(q)
  <2>1. \A i \in 1..(q.k - 1) : q.rec.outs[i].kind = "given"
    BY <1>4, <1>5, <1>7, <1>10
  <2>2. QED  BY <1>1, <1>4, <1>5, <1>7, <1>9, <2>1 DEF Looping
<1>12. RequestFacts(q)
  BY <1>1, <1>2, <1>5, <1>6, <1>11 DEF Good, RequestFacts, Saving, NoSubpass
<1>13. ~overlap => Solo(q)  BY <1>1, <1>2, <1>4, <1>5 DEF Good, Solo, Saving
<1>14. req[r] # Idle  BY <1>1 DEF p
<1>15. QED  BY <1>1, <1>3, <1>5, <1>12, <1>13, <1>14, QuietStep DEF Good

\* The record pass k runs on: what it had before k, and nothing after k.
LEMMA BaseRecord ==
    ASSUME NEW old \in Records, Sound(old), NEW e, Rank(e) <= 4, NEW k, k \in 1..4,
           Rank(old.state) \in {k - 1, Rank(e)}, Rank(old.state) >= k - 1,
           \A i \in 1..(k - 1) : old.outs[i].kind = "given",
           NEW rec, rec = IF Rank(e) >= k THEN ResetFrom(old, k) ELSE old
    PROVE  /\ rec \in Records /\ OneLineage(rec)
           /\ \A i \in 1..(k - 1) : rec.outs[i].kind = "given"
           /\ \A i \in Passes : i > k => rec.outs[i] = Missing \/ (i = 5 /\ rec.outs[i] = Skipped)
<1>0. \A i \in 1..(k - 1) : i \in Passes  BY DEF Passes
<1>1. CASE Rank(e) >= k
  <2>1. /\ rec \in Records
        /\ \A i \in Passes : rec.outs[i] = IF i > k THEN Missing ELSE old.outs[i]
    BY <1>1, ResetFields
  <2>2. OneLineage(rec)
    <3> SUFFICES ASSUME NEW j \in 2..5, rec.outs[j].kind = "given", rec.outs[j - 1].kind = "given"
                 PROVE  rec.outs[j].from = rec.outs[j - 1].by
      BY DEF OneLineage
    <3>1. j \in Passes /\ j - 1 \in Passes  BY DEF Passes
    <3>2. rec.outs[j] = old.outs[j] /\ rec.outs[j - 1] = old.outs[j - 1]
      BY <2>1, <3>1, Kinds
    <3>3. QED  BY <3>2 DEF Sound, OneLineage
  <2>3. QED  BY <1>0, <2>1, <2>2
<1>2. CASE ~(Rank(e) >= k)
  <2>1. rec = old /\ Rank(old.state) = k - 1  BY <1>2, RankIs
  <2>2. \A i \in Passes : i > k => rec.outs[i] = Missing \/ (i = 5 /\ rec.outs[i] = Skipped)
    BY <2>1 DEF Sound, NothingAhead, Passes
  <2>3. QED  BY <2>1, <2>2 DEF Sound
<1>3. QED  BY <1>1, <1>2

LEMMA AuthorIs ==
    ASSUME NEW o \in Outputs PROVE AuthorOf(o) \in 0..MaxCalls
BY Kinds, BoundsAssumption DEF AuthorOf, Given

LEMMA RunPassInv ==
    ASSUME IInv, NEW r \in Reqs, RunPass(r) PROVE IInv'
<1> DEFINE k == req[r].k
           old == req[r].rec
           reached == Rank(req[r].entry) >= k
           rec == IF reached THEN ResetFrom(old, k) ELSE old
           out == [kind |-> "given", by |-> req[r].call,
                   from |-> IF k = 1 THEN 0 ELSE AuthorOf(rec.outs[k - 1])]
           failed == Produces(rec, k, Failed, "dead_letter")
           done == Produces(rec, k, out, Done[k])
<1>1. /\ req[r] # Idle /\ req[r].at = "pass" /\ k <= 4
      /\ reached => old.outs[k].kind \in {"missing", "corrupt"}
      /\ Saves(r, failed, 6) \/ Saves(r, done, k + 1)
      /\ UNCHANGED <<settings, disk, answer, counts>>
  BY DEF RunPass, Idle
<1>2. Good(req[r])  BY <1>1, InvReq
<1>3. /\ req[r] \in Active /\ k \in 1..4 /\ old \in Records /\ old.state \in States
      /\ req[r].call \in 1..MaxCalls
  BY <1>1, <1>2, ActiveFields DEF Good
<1>4. Sound(old) /\ Looping(req[r]) /\ ~(restarts = 0 /\ ~m12)
  BY <1>1, <1>2 DEF Good, RequestFacts, NoSubpass
<1>5. /\ Rank(req[r].entry) <= 4 /\ Rank(old.state) \in {k - 1, Rank(req[r].entry)}
      /\ Rank(old.state) >= k - 1 /\ \A i \in 1..(k - 1) : old.outs[i].kind = "given"
  BY <1>4 DEF Looping
<1> HIDE DEF k, old
<1>6. /\ rec \in Records /\ OneLineage(rec)
      /\ \A i \in 1..(k - 1) : rec.outs[i].kind = "given"
      /\ \A i \in Passes : i > k => rec.outs[i] = Missing \/ (i = 5 /\ rec.outs[i] = Skipped)
  BY <1>3, <1>4, <1>5, BaseRecord
<1> HIDE DEF rec, reached
<1>7. k \in Passes /\ Done[k] \in States /\ Rank(Done[k]) = k /\ k + 1 \in 2..5
  BY <1>3, EndStates, RankDone DEF Passes
<1>8. out \in Outputs /\ out.kind = "given"
      /\ out.from = IF k = 1 THEN 0 ELSE AuthorOf(rec.outs[k - 1])
  <2>1. (IF k = 1 THEN 0 ELSE AuthorOf(rec.outs[k - 1])) \in 0..MaxCalls
    <3>1. CASE k = 1  BY <3>1, BoundsAssumption
    <3>2. CASE k # 1
      <4>1. k - 1 \in Passes  BY <1>3, <3>2 DEF Passes
      <4>2. QED  BY <1>6, <3>2, <4>1, RecordTypes, AuthorIs
    <3>3. QED  BY <3>1, <3>2
  <2>2. QED  BY <1>3, <2>1 DEF Outputs, Given
<1> HIDE DEF out
<1>9. ~overlap => file = old /\ ~M12Terminal(file.state)
  BY <1>1, <1>2, <1>3 DEF Good, Solo, old, k
<1>10. CASE Saves(r, failed, 6)
  <2>1. "dead_letter" \in States /\ "dead_letter" \in Terminal /\ "dead_letter" \notin Resumable
        /\ Rank("dead_letter") = -1
    BY StateSets, EndStates
  <2>2. failed \in Records /\ failed.state = "dead_letter"
    BY <1>6, <1>7, <2>1, ProducesFields, RecordTypes
  <2>3. Sound(failed)
    BY <1>6, <1>7, <2>1, EndSound, RecordTypes, Kinds
  <2> HIDE DEF failed
  <2>4. Saved(Kept(req[r], failed, 6))
    <3>1. Kept(req[r], failed, 6).k = 6 /\ Kept(req[r], failed, 6).rec = failed
      BY <1>3, <2>2, SavesFields
    <3>2. QED  BY <2>1, <2>2, <3>1 DEF Saved
  <2>5. ~overlap => Durable(failed)  BY <1>9, <2>2 DEF Durable
  <2>6. QED  BY <1>1, <1>4, <1>10, <2>2, <2>3, <2>4, <2>5, SavesStep
<1>11. CASE Saves(r, done, k + 1)
  <2>1. /\ done \in Records /\ done.state = Done[k] /\ done.outs[k] = out
        /\ \A i \in Passes \ {k} : done.outs[i] = rec.outs[i]
    BY <1>6, <1>7, <1>8, ProducesFields
  <2>2. Sound(done)
    <3>1. \A i \in Passes : i > k => rec.outs[i].kind # "given"  BY <1>6, Kinds
    <3>2. QED  BY <1>6, <1>7, <1>8, <3>1, PassSound
  <2> HIDE DEF done
  <2>3. \A i \in 1..k : done.outs[i].kind = "given"
    BY <1>3, <1>6, <1>8, <2>1 DEF Passes
  <2>4. Saved(Kept(req[r], done, k + 1))
    <3> DEFINE q == Kept(req[r], done, k + 1)
    <3>1. q.k = k + 1 /\ q.rec = done /\ q.entry = req[r].entry
      BY <1>3, <2>1, SavesFields
    <3> HIDE DEF q
    <3>2. q.k \in 2..5 /\ q.k - 1 = k  BY <1>3, <3>1
    <3>3. Saved(q)  BY <1>5, <2>1, <2>3, <3>1, <3>2 DEF Saved
    <3>4. QED  BY <3>3 DEF q
  <2>5. ~overlap => Durable(done)
    <3> SUFFICES ASSUME ~overlap PROVE Durable(done)  OBVIOUS
    <3>1. CASE Rank(old.state) <= k
      <4>1. Rank(done.state) = k /\ file.state = old.state  BY <1>7, <1>9, <2>1
      <4>2. Rank(done.state) >= Rank(file.state)  BY <1>3, <3>1, <4>1, RankIs
      <4>3. QED  BY <1>9, <4>2 DEF Durable
    <3>2. CASE Rank(old.state) > k
      <4>1. reached  BY <1>3, <1>5, <3>2, RankIs DEF reached
      <4>2. old.outs[k].kind \in {"given", "corrupt"}
        BY <1>3, <1>4, <3>2, RankIs DEF Sound, HasOutputs
      <4>3. old.outs[k] = Corrupt
        BY <1>1, <1>3, <1>7, <4>1, <4>2, Kinds, RecordTypes
      <4>4. QED  BY <1>7, <1>9, <4>3 DEF Durable
    <3>3. QED  BY <1>3, <3>1, <3>2, RankIs
  <2>6. k + 1 \in 1..6  BY <1>3
  <2>7. QED  BY <1>1, <1>4, <1>11, <2>1, <2>2, <2>4, <2>5, <2>6, SavesStep
<1>12. QED  BY <1>1, <1>10, <1>11

LEMMA Pass2AInv ==
    ASSUME IInv, NEW r \in Reqs, Pass2A(r) PROVE IInv'
<1> DEFINE p == req[r]
           rec == p.rec
           out == [kind |-> "given", by |-> p.call, from |-> AuthorOf(rec.outs[4])]
           skipped == Produces(rec, 5, Skipped, rec.state)
           failed == Produces(rec, 5, Failed, "dead_letter")
           done == Produces(rec, 5, out, Done[5])
<1>1. /\ p # Idle /\ p.at = "pass" /\ p.k = 5
      /\ UNCHANGED <<settings, disk, counts>>
      /\ \/ ~p2a /\ Returns(r, Done[4])
         \/ /\ p2a /\ UNCHANGED answer
            /\ Saves(r, skipped, 6) \/ Saves(r, failed, 6) \/ Saves(r, done, 6)
  BY DEF Pass2A, Idle
<1>2. Good(p)  BY <1>1, InvReq
<1>3. p \in Active /\ rec \in Records /\ rec.state \in States /\ p.call \in 1..MaxCalls
  BY <1>2, ActiveFields DEF Good
<1>4. Sound(rec) /\ Looping(p) /\ ~(restarts = 0 /\ ~m12)
  BY <1>1, <1>2 DEF Good, RequestFacts, NoSubpass
<1>5. Rank(rec.state) = 4 /\ \A i \in 1..4 : rec.outs[i].kind = "given"
  BY <1>1, <1>4, RankIs DEF Looping
<1>6. rec.state = Done[4]  BY <1>3, <1>5, TerminalRank
<1>7. /\ 5 \in Passes /\ 4 \in Passes /\ Done[5] \in States /\ Rank(Done[5]) = 5
      /\ "dead_letter" \in States /\ Rank("dead_letter") = -1
      /\ Skipped \in Outputs /\ Failed \in Outputs
  BY EndStates, RankDone, StateSets, RecordTypes DEF Passes
<1>8. out \in Outputs /\ out.kind = "given" /\ out.from = AuthorOf(rec.outs[4])
  <2>1. AuthorOf(rec.outs[4]) \in 0..MaxCalls  BY <1>3, <1>7, AuthorIs, RecordTypes
  <2>2. QED  BY <1>3, <2>1 DEF Outputs, Given
<1>9. ~overlap /\ p2a => file = rec /\ ~M12Terminal(file.state)
  BY <1>1, <1>2 DEF Good, Solo
<1>10. ASSUME NEW new \in Records, Sound(new), new.state \in Terminal, p2a,
              Rank(new.state) >= 4 \/ new.state = "dead_letter",
              Saves(r, new, 6), UNCHANGED answer
       PROVE  IInv'
  <2>1. Saved(Kept(p, new, 6))
    <3>1. Kept(p, new, 6).k = 6 /\ Kept(p, new, 6).rec = new  BY <1>3, SavesFields
    <3>2. QED  BY <1>10, <3>1 DEF Saved
  <2>2. ~overlap => Durable(new)  BY <1>5, <1>9, <1>10 DEF Durable
  <2>3. QED  BY <1>1, <1>4, <1>10, <2>1, <2>2, SavesStep
<1> HIDE DEF rec, out
<1>11. CASE Returns(r, Done[4]) /\ ~p2a
  <2>1. Done[4] \in Terminal  BY DEF Terminal
  <2>2. QED  BY <1>1, <1>11, <2>1, EndTold, EndStep DEF Returns
<1>12. CASE p2a /\ UNCHANGED answer /\ Saves(r, skipped, 6)
  <2>1. skipped \in Records /\ skipped.state = rec.state
    BY <1>3, <1>7, ProducesFields
  <2>2. Sound(skipped)  BY <1>3, <1>4, <1>6, SkipSound
  <2>3. rec.state \in Terminal  BY <1>6 DEF Terminal
  <2> HIDE DEF skipped
  <2>4. QED  BY <1>5, <1>10, <1>12, <2>1, <2>2, <2>3
<1>13. CASE p2a /\ UNCHANGED answer /\ Saves(r, failed, 6)
  <2>1. failed \in Records /\ failed.state = "dead_letter"
    BY <1>3, <1>7, ProducesFields
  <2>2. Sound(failed)  BY <1>3, <1>4, <1>7, EndSound, RecordTypes, Kinds DEF Sound
  <2> HIDE DEF failed
  <2>3. QED  BY <1>10, <1>13, <2>1, <2>2 DEF Terminal
<1>14. CASE p2a /\ UNCHANGED answer /\ Saves(r, done, 6)
  <2>1. done \in Records /\ done.state = Done[5]
    <3>1. out \in Outputs /\ 5 \in Passes /\ Done[5] \in States /\ rec \in Records
      BY <1>3, <1>7, <1>8
    <3>2. QED  BY ONLY <3>1, ProducesFields
  <2>2. Sound(done)
    <3>1. \A i \in Passes : ~(i > 5)  BY DEF Passes
    <3>2. /\ \A i \in 1..(5 - 1) : rec.outs[i].kind = "given"
          /\ out.from = IF 5 = 1 THEN 0 ELSE AuthorOf(rec.outs[5 - 1])
      BY <1>5, <1>8
    <3>3. OneLineage(rec)  BY <1>4 DEF Sound
    <3>4. QED  BY <1>3, <1>7, <1>8, <3>1, <3>2, <3>3, PassSound
  <2> HIDE DEF done
  <2>3. Done[5] \in Terminal  BY DEF Terminal
  <2>4. QED  BY <1>7, <1>10, <1>14, <2>1, <2>2, <2>3
<1>15. QED  BY <1>1, <1>11, <1>12, <1>13, <1>14

LEMMA RenameFailsInv ==
    ASSUME IInv, NEW r \in Reqs, RenameFails(r) PROVE IInv'
<1>1. /\ req[r] # Idle /\ req[r].at = "rename" /\ tmp = NoFile
      /\ Replies(r, "error") /\ UNCHANGED <<settings, disk, counts>>
  BY DEF RenameFails, Idle
<1>2. Good(req[r])  BY <1>1, InvReq
<1>3. overlap
  <2>1. ~overlap => tmp = req[r].rec  BY <1>1, <1>2 DEF Good, Solo
  <2>2. req[r].rec \in Records  BY <1>2, ActiveFields DEF Good
  <2>3. QED  BY <1>1, <2>1, <2>2, RecordTypes DEF Contents
<1>4. Told("error")  BY <1>3 DEF Told
<1>5. QED  BY <1>1, <1>4, EndStep

LEMMA BeginInv ==
    ASSUME IInv, NEW r \in Reqs, Begin(r) PROVE IInv'
<1> DEFINE q == [at |-> "load", call |-> calls + 1, rec |-> NewRecord, entry |-> "none",
                 k |-> 1, case |-> doc.case, inode |-> "none"]
<1>1. /\ req[r] = Idle /\ calls < MaxCalls /\ calls' = calls + 1
      /\ overlap' = (overlap \/ \E x \in Reqs : req[x] # Idle)
      /\ Becomes(r, q)
      /\ UNCHANGED <<doc, m12, p2a, file, tmp, answer, restarts>>
  BY DEF Begin, settings, disk
<1>2. calls + 1 \in 1..MaxCalls  BY <1>1, BoundsAssumption DEF IInv, TypeOK
<1>3. q \in Active /\ q.at = "load" /\ q.inode = "none"
  <2>1. doc.case \in BOOLEAN  BY DEF IInv, TypeOK
  <2>2. "load" \in Ats  BY DEF Ats
  <2>3. QED  BY <1>2, <2>1, <2>2, RecordTypes DEF Active
<1> HIDE DEF q
<1>4. \A x \in Reqs : req'[x] = IF x = r THEN q ELSE req[x]
  BY <1>1 DEF Becomes, IInv, TypeOK
<1>5. TypeOK'
  <2>1. req' \in [Reqs -> Active \cup {Idle}]  BY <1>1, <1>3 DEF Becomes, IInv, TypeOK
  <2>2. overlap' \in BOOLEAN /\ calls' \in 0..MaxCalls
    BY <1>1, <1>2 DEF IInv, TypeOK
  <2>3. QED  BY <1>1, <2>1, <2>2 DEF IInv, TypeOK
<1>6. RunInv'
  BY <1>1, <1>3, <1>4 DEF IInv, RunInv, FileFacts, RequestFacts, NoSubpass, Saving
<1>7. SoloInv'
  <2>1. CASE \E x \in Reqs : req[x] # Idle  BY <1>1, <2>1 DEF SoloInv
  <2>2. CASE \A x \in Reqs : req[x] = Idle
    BY <1>1, <1>3, <1>4, <2>2 DEF IInv, SoloInv, Solo, Saving
  <2>3. QED  BY <2>1, <2>2
<1>8. (\A x \in Reqs : Told(answer[x]))'  BY <1>1 DEF IInv, Told
<1>9. QED  BY <1>5, <1>6, <1>7, <1>8 DEF IInv

-----------------------------------------------------------------------------
(* Saves and restarts. *)

LEMMA OpenTmpInv ==
    ASSUME IInv, NEW r \in Reqs, OpenTmp(r) PROVE IInv'
<1> DEFINE p == req[r]
<1>q. PICK q : q = [p EXCEPT !.at = "write", !.inode = "tmp"]  OBVIOUS
<1>1. /\ p # Idle /\ p.at = "open" /\ tmp' = Torn /\ Becomes(r, q)
      /\ UNCHANGED <<doc, m12, p2a, file, answer, calls, restarts, overlap>>
  BY <1>q DEF OpenTmp, Idle, settings, counts
<1>2. Good(p)  BY <1>1, InvReq
<1>3. /\ q \in Active /\ q.at = "write" /\ q.inode = "tmp"
      /\ q.k = p.k /\ q.rec = p.rec /\ q.entry = p.entry
  <2>1. p \in Active /\ "write" \in Ats  BY <1>2 DEF Good, Ats
  <2>2. QED  BY <1>q, <2>1 DEF Active
<1>4. \A x \in Reqs : req'[x] = IF x = r THEN q ELSE req[x]
  BY <1>1 DEF Becomes, IInv, TypeOK
<1>5. TypeOK'
  <2>1. req' \in [Reqs -> Active \cup {Idle}]  BY <1>1, <1>3 DEF Becomes, IInv, TypeOK
  <2>2. QED  BY <1>1, <2>1 DEF IInv, TypeOK, Contents
<1>6. RequestFacts(q)
  BY <1>1, <1>2, <1>3 DEF Good, RequestFacts, Saving, NoSubpass, Saved
<1>7. RunInv'
  BY <1>1, <1>4, <1>6, RecordTypes DEF IInv, RunInv, FileFacts, RequestFacts, NoSubpass
<1>8. SoloInv'
  <2> SUFFICES ASSUME ~overlap PROVE SoloInv'  BY <1>1 DEF SoloInv
  <2>1. \A x \in Reqs : x # r => req[x] = Idle  BY <1>1 DEF IInv, SoloInv
  <2>2. file = NoFile \/ Durable(q.rec)  BY <1>1, <1>2, <1>3 DEF Good, Solo, Saving
  <2>3. Solo(q)'  BY <1>1, <1>3, <2>2 DEF Solo, Durable, M12Terminal
  <2>4. QED  BY <1>1, <1>4, <2>1, <2>3 DEF IInv, SoloInv
<1>9. (\A x \in Reqs : Told(answer[x]))'  BY <1>1 DEF IInv, Told
<1>10. QED  BY <1>5, <1>7, <1>8, <1>9 DEF IInv

LEMMA WriteTmpInv ==
    ASSUME IInv, NEW r \in Reqs, WriteTmp(r) PROVE IInv'
<1> DEFINE p == req[r]
<1>q. PICK q : q = [p EXCEPT !.at = "rename"]  OBVIOUS
<1>1. /\ p # Idle /\ p.at = "write" /\ Becomes(r, q)
      /\ tmp' = tmp \/ tmp' \in Written(tmp, p.rec)
      /\ file' = file \/ file' \in Written(file, p.rec)
      /\ p.inode = "tmp" => tmp' \in Written(tmp, p.rec) /\ file' = file
      /\ UNCHANGED <<doc, m12, p2a, answer, calls, restarts, overlap>>
  BY <1>q DEF WriteTmp, Idle, settings, counts
<1>2. Good(p)  BY <1>1, InvReq
<1>3. p \in Active /\ p.rec \in Records /\ p.rec.state \in States
  BY <1>2, ActiveFields DEF Good
<1>4. /\ q \in Active /\ q.at = "rename" /\ q.inode = p.inode
      /\ q.k = p.k /\ q.rec = p.rec /\ q.entry = p.entry
  <2>1. "rename" \in Ats  BY DEF Ats
  <2>2. QED  BY <1>q, <1>3, <2>1 DEF Active
<1>5. \A x \in Reqs : req'[x] = IF x = r THEN q ELSE req[x]
  BY <1>1 DEF Becomes, IInv, TypeOK
<1>6. Sound(p.rec) /\ (restarts = 0 /\ ~m12 => p.rec.state \notin Resumable)
  BY <1>1, <1>2 DEF Good, RequestFacts, Saving, NoSubpass
<1>7. /\ tmp' = tmp \/ tmp' = p.rec \/ tmp' = Torn
      /\ file' = file \/ file' = p.rec \/ file' = Torn
  BY <1>1 DEF Written
<1>8. TypeOK'
  <2>1. req' \in [Reqs -> Active \cup {Idle}]  BY <1>1, <1>4 DEF Becomes, IInv, TypeOK
  <2>2. file' \in Contents \cup {NoFile} /\ tmp' \in Contents \cup {NoFile}
    BY <1>3, <1>7 DEF IInv, TypeOK, Contents
  <2>3. QED  BY <1>1, <2>1, <2>2 DEF IInv, TypeOK
<1>9. /\ FileFacts(file)' /\ FileFacts(tmp)'
      /\ file # NoFile => file' # NoFile
  BY <1>1, <1>3, <1>6, <1>7, RecordTypes DEF IInv, RunInv, FileFacts, Contents
<1>10. RequestFacts(q)
  BY <1>1, <1>2, <1>4 DEF Good, RequestFacts, Saving, NoSubpass, Saved
<1>11. RunInv'
  <2>1. \A x \in Reqs : req'[x] # Idle => RequestFacts(req'[x])
    BY <1>5, <1>10 DEF IInv, RunInv
  <2>2. \A x \in Reqs : req'[x] # Idle => RequestFacts(req[x])'
    BY <1>1, <1>9, <2>1 DEF RequestFacts, NoSubpass
  <2>3. QED  BY <1>9, <2>2 DEF RunInv
<1>12. SoloInv'
  <2> SUFFICES ASSUME ~overlap PROVE SoloInv'  BY <1>1 DEF SoloInv
  <2>1. \A x \in Reqs : x # r => req[x] = Idle  BY <1>1 DEF IInv, SoloInv
  <2>2. p.inode = "tmp" /\ tmp = Torn /\ (file = NoFile \/ Durable(p.rec))
    BY <1>1, <1>2 DEF Good, Solo, Saving
  <2>3. tmp' = p.rec /\ file' = file  BY <1>1, <2>2 DEF Written
  <2>4. Solo(q)'  BY <1>1, <1>4, <2>2, <2>3 DEF Solo, Durable, M12Terminal
  <2>5. QED  BY <1>1, <1>5, <2>1, <2>3, <2>4 DEF IInv, SoloInv
<1>13. (\A x \in Reqs : Told(answer[x]))'  BY <1>1 DEF IInv, Told
<1>14. QED  BY <1>8, <1>11, <1>12, <1>13 DEF IInv

LEMMA MovedFields ==
    ASSUME NEW q \in Active \cup {Idle}
    PROVE  /\ Moved(q) \in Active \cup {Idle} /\ (Moved(q) = Idle <=> q = Idle)
           /\ q # Idle => /\ Moved(q).at = q.at /\ Moved(q).rec = q.rec
                          /\ Moved(q).entry = q.entry /\ Moved(q).k = q.k
<1>1. CASE q = Idle  BY <1>1 DEF Moved
<1>2. CASE q # Idle
  <2> DEFINE to == CASE q.inode = "tmp" -> "final" [] q.inode = "final" -> "gone"
                     [] OTHER -> q.inode
             m == [q EXCEPT !.inode = to]
  <2>1. q \in Active /\ q.inode \in {"none", "tmp", "final", "gone"}
    BY <1>2, ActiveFields
  <2>2. Moved(q) = m  BY <1>2 DEF Moved
  <2>3. to \in {"none", "tmp", "final", "gone"}  BY <2>1
  <2> HIDE DEF to
  <2>4. m \in Active /\ m.at = q.at /\ m.rec = q.rec /\ m.entry = q.entry /\ m.k = q.k
    BY <2>1, <2>3 DEF Active
  <2> HIDE DEF m
  <2>5. QED  BY <1>2, <2>2, <2>4, ActiveFields
<1>3. QED  BY <1>1, <1>2

LEMMA ContinuesFields ==
    ASSUME NEW q \in Active
    PROVE  LET n == Continues(q) IN
           /\ n \in Active /\ n.at = IF q.k = 1 THEN "reload" ELSE "pass"
           /\ n.inode = "none" /\ n.rec = q.rec /\ n.entry = q.entry /\ n.k = q.k
<1>1. "reload" \in Ats /\ "pass" \in Ats  BY DEF Ats
<1>2. CASE q.k = 1  BY <1>1, <1>2 DEF Continues, Active
<1>3. CASE q.k # 1  BY <1>1, <1>3 DEF Continues, Active
<1>4. QED  BY <1>2, <1>3

\* What the checkpoint's owner goes on with after the rename.
LEMMA RenamedFacts ==
    ASSUME NEW p \in Active, p.at = "rename", p.k # 6, RequestFacts(p),
           file' # NoFile, UNCHANGED <<m12, p2a, restarts>>
    PROVE  /\ RequestFacts(Continues(p))'
           /\ p.rec.state \in Terminal => p.k = 5
<1> PICK n : n = Continues(p)  OBVIOUS
<1>1. /\ n \in Active /\ n.at = IF p.k = 1 THEN "reload" ELSE "pass"
      /\ n.inode = "none" /\ n.rec = p.rec /\ n.entry = p.entry /\ n.k = p.k
  BY ContinuesFields
<1>2. Sound(p.rec) /\ Saved(p) /\ ~(restarts = 0 /\ ~m12) /\ p.k \in 1..5
        /\ p.rec.state \in States
  BY ActiveFields DEF RequestFacts, Saving, NoSubpass
<1>3. p.k \in 2..5 => /\ p.rec.state = Done[p.k - 1] /\ Rank(p.entry) <= 4
                      /\ \A i \in 1..(p.k - 1) : p.rec.outs[i].kind = "given"
  BY <1>2 DEF Saved
<1>4. p.k \in 2..5 => Rank(p.rec.state) = p.k - 1
  <2>1. p.k \in 2..5 => p.k - 1 \in 0..5  OBVIOUS
  <2>2. QED  BY <1>3, <2>1, RankDone
<1>5. p.k \in 2..5 => Looping(n)  BY <1>1, <1>3, <1>4 DEF Looping
<1>6. RequestFacts(n)'
  BY <1>1, <1>2, <1>5 DEF RequestFacts, Saving, NoSubpass
<1>7. p.rec.state \in Terminal => p.k = 5
  <2>1. CASE p.k = 1
    <3>1. p.rec.state = Done[0]  BY <1>2, <2>1, NewRecordSound DEF Saved
    <3>2. QED  BY <3>1, DoneStates, StateSets
  <2>2. CASE p.k \in 2..5
    <3>1. p.rec.state \in Terminal => Rank(p.rec.state) \in {-1, 4, 5}  BY <1>2, TerminalRank
    <3>2. QED  BY <1>4, <2>2, <3>1
  <2>3. QED  BY <1>2, <2>1, <2>2
<1>8. QED  BY <1>6, <1>7

LEMMA RenameTmpInv ==
    ASSUME IInv, NEW r \in Reqs, RenameTmp(r) PROVE IInv'
<1>q. PICK p : p = req[r]  OBVIOUS
<1>1. /\ p # Idle /\ p.at = "rename" /\ tmp # NoFile /\ file' = tmp /\ tmp' = NoFile
      /\ answer' = [answer EXCEPT ![r] = IF p.k = 6 THEN Reply(p.rec.state) ELSE answer[r]]
      /\ UNCHANGED <<doc, m12, p2a, calls, restarts, overlap>>
  BY <1>q DEF RenameTmp, Idle, settings, counts
<1>2. Good(p)  BY <1>1, <1>q, InvReq
<1>3. p \in Active /\ p.rec \in Records /\ p.k \in 1..6 /\ RequestFacts(p)
  BY <1>2, ActiveFields DEF Good
<1>4. file' # NoFile  BY <1>1
<1>5. PICK n : n = IF p.k = 6 THEN Idle ELSE Continues(p)  OBVIOUS
<1>6. \A x \in Reqs : req'[x] = IF x = r THEN n ELSE Moved(req[x])
  <2>1. req' = [[x \in Reqs |-> Moved(req[x])] EXCEPT ![r] = n]
    BY <1>q, <1>5 DEF RenameTmp
  <2>2. QED  BY <2>1
<1>7. n = Idle \/ (n \in Active /\ n = Continues(p) /\ p.k # 6)
  BY <1>3, <1>5, ContinuesFields
<1>8. \A x \in Reqs : Moved(req[x]) \in Active \cup {Idle}
  BY MovedFields DEF IInv, TypeOK
<1>9. TypeOK'
  <2>1. req' \in [Reqs -> Active \cup {Idle}]
    <3>1. req' = [[x \in Reqs |-> Moved(req[x])] EXCEPT ![r] = n]
      BY <1>q, <1>5 DEF RenameTmp
    <3>2. QED  BY <1>7, <1>8, <3>1
  <2>2. \A a \in {"none", "empty", "llm", "error", "unexpected"} :
           [answer EXCEPT ![r] = a] \in [Reqs -> {"none", "empty", "llm", "error", "unexpected"}]
    BY DEF IInv, TypeOK
  <2>3. Reply(p.rec.state) \in {"empty", "llm", "unexpected"}  BY DEF Reply
  <2>4. answer[r] \in {"none", "empty", "llm", "error", "unexpected"}  BY DEF IInv, TypeOK
  <2>5. answer' \in [Reqs -> {"none", "empty", "llm", "error", "unexpected"}]
    BY <1>1, <2>2, <2>3, <2>4
  <2>6. QED  BY <1>1, <2>1, <2>5 DEF IInv, TypeOK
<1>10. RunInv'
  <2>1. FileFacts(file)' /\ FileFacts(tmp)'
    BY <1>1, RecordTypes DEF IInv, RunInv, FileFacts, Contents
  <2>2. ASSUME NEW x \in Reqs, x # r, req'[x] # Idle PROVE RequestFacts(req[x])'
    <3>1. PICK m : m = req[x]  OBVIOUS
    <3>2. req'[x] = Moved(m) /\ m \in Active \cup {Idle}
      BY <1>6, <2>2, <3>1 DEF IInv, TypeOK
    <3>3. /\ m # Idle /\ Moved(m).at = m.at /\ Moved(m).rec = m.rec
          /\ Moved(m).entry = m.entry /\ Moved(m).k = m.k
      BY <2>2, <3>2, MovedFields
    <3>4. RequestFacts(m)  BY <3>1, <3>3 DEF IInv, RunInv
    <3>5. QED
      BY <1>1, <1>4, <3>2, <3>3, <3>4 DEF RequestFacts, NoSubpass, Looping, Saved
  <2>3. req'[r] # Idle => RequestFacts(req[r])'
    <3> SUFFICES ASSUME req'[r] # Idle PROVE RequestFacts(req[r])'  OBVIOUS
    <3>1. req'[r] = n /\ n = Continues(p) /\ p.k # 6  BY <1>6, <1>7
    <3>2. RequestFacts(Continues(p))'  BY <1>1, <1>3, <1>4, <3>1, RenamedFacts
    <3>3. QED  BY <3>1, <3>2 DEF RequestFacts, NoSubpass
  <2>4. QED  BY <2>1, <2>2, <2>3 DEF RunInv
<1>11. SoloInv'
  <2> SUFFICES ASSUME ~overlap PROVE SoloInv'  BY <1>1 DEF SoloInv
  <2>1. \A x \in Reqs : x # r => req'[x] = Idle
    BY <1>1, <1>6, <1>q DEF IInv, SoloInv, Moved
  <2>2. file' = p.rec  BY <1>1, <1>2 DEF Good, Solo
  <2>3. file' # Torn  BY <1>3, <2>2, RecordTypes
  <2>4. n # Idle => Solo(n)'
    <3> SUFFICES ASSUME n # Idle PROVE Solo(n)'  OBVIOUS
    <3>1. n = Continues(p) /\ p.k # 6  BY <1>7
    <3>2. /\ n.at = IF p.k = 1 THEN "reload" ELSE "pass"
          /\ n.inode = "none" /\ n.rec = p.rec /\ n.k = p.k
      BY <1>3, <3>1, ContinuesFields
    <3>3. p.rec.state \in Terminal => p.k = 5
      BY <1>1, <1>3, <1>4, <3>1, RenamedFacts
    <3>4. p.k = 5 => p.rec.state = Done[4]
      BY <1>1, <1>3 DEF RequestFacts, Saved, Saving
    <3>5. M12Terminal(file.state)' => n.k = 5 /\ ~p2a'
      BY <1>1, <2>2, <3>2, <3>3, <3>4 DEF M12Terminal
    <3>6. QED  BY <2>2, <3>2, <3>5 DEF Solo, Saving
  <2>5. req'[r] # Idle => Solo(req[r])'  BY <1>6, <2>4 DEF Solo, Durable
  <2>6. QED  BY <2>1, <2>3, <2>5 DEF SoloInv
<1>12. (\A x \in Reqs : Told(answer[x]))'
  <2>1. p.k = 6 => p.rec.state \in Terminal
    BY <1>1, <1>3 DEF RequestFacts, Saved, Saving
  <2>2. p.k = 6 => Told(Reply(p.rec.state))  BY <2>1, EndTold
  <2>3. \A x \in Reqs : Told(answer'[x])  BY <1>1, <2>2 DEF IInv, TypeOK
  <2>4. QED  BY <1>1, <2>3 DEF Told
<1>13. QED  BY <1>9, <1>10, <1>11, <1>12 DEF IInv

LEMMA RestartInv ==
    ASSUME IInv, Restart PROVE IInv'
<1>1. /\ restarts < MaxRestarts /\ restarts' = restarts + 1
      /\ req' = [r \in Reqs |-> Idle]
      /\ m12' \in BOOLEAN /\ p2a' \in BOOLEAN /\ file' \in Invalidated(file)
      /\ UNCHANGED <<doc, tmp, answer, calls, overlap>>
  BY DEF Restart
<1>2. file' = file \/ (file \in Records /\ file' \in Records /\ Sound(file'))
  <2>1. CASE file \in Records
    BY <1>1, <2>1, InvalidatedSound DEF IInv, RunInv, FileFacts
  <2>2. CASE file \notin Records  BY <1>1, <2>2 DEF Invalidated
  <2>3. QED  BY <2>1, <2>2
<1>3. restarts' > 0 /\ restarts' \in 0..MaxRestarts
  BY <1>1, BoundsAssumption DEF IInv, TypeOK
<1>4. TypeOK'  BY <1>1, <1>2, <1>3 DEF IInv, TypeOK, Contents
<1>5. RunInv'  BY <1>1, <1>2, <1>3 DEF IInv, RunInv, FileFacts
<1>6. SoloInv'  BY <1>1, <1>2, RecordTypes DEF IInv, SoloInv
<1>7. (\A x \in Reqs : Told(answer[x]))'  BY <1>1, <1>3 DEF IInv, Told
<1>8. QED  BY <1>4, <1>5, <1>6, <1>7 DEF IInv

-----------------------------------------------------------------------------
LEMMA InitInv == Init => IInv
<1> SUFFICES ASSUME Init PROVE IInv  OBVIOUS
<1>1. TypeOK
  <2>1. 0 \in 0..MaxCalls /\ 0 \in 0..MaxRestarts  BY BoundsAssumption
  <2>2. /\ req \in [Reqs -> Active \cup {Idle}]
        /\ answer \in [Reqs -> {"none", "empty", "llm", "error", "unexpected"}]
    BY DEF Init
  <2>3. QED  BY <2>1, <2>2, Zenon DEF Init, TypeOK
<1>2. NoFile \notin Records  BY RecordTypes DEF Contents
<1>3. RunInv  BY <1>2 DEF Init, RunInv, FileFacts
<1>4. NoFile # Torn  BY DEF NoFile, Torn
<1>5. SoloInv  BY <1>4 DEF Init, SoloInv
<1>6. \A r \in Reqs : Told(answer[r])  BY DEF Init, Told
<1>7. QED  BY <1>1, <1>3, <1>5, <1>6 DEF IInv

LEMMA NextInv == IInv /\ [Next]_vars => IInv'
<1> SUFFICES ASSUME IInv, [Next]_vars PROVE IInv'  OBVIOUS
<1>1. CASE Restart  BY <1>1, RestartInv
<1>2. ASSUME NEW r \in Reqs, Begin(r) PROVE IInv'  BY <1>2, BeginInv
<1>3. ASSUME NEW r \in Reqs, Step(r) PROVE IInv'
  BY <1>3, LoadRunInv, FirstPassesInv, ReloadRunInv, CheckpointHitInv, RunPassInv, Pass2AInv,
     OpenTmpInv, WriteTmpInv, RenameTmpInv, RenameFailsInv DEF Step
<1>4. CASE UNCHANGED vars
  <2>1. UNCHANGED <<doc, m12, p2a, file, tmp, req, answer, calls, restarts, overlap>>
    BY <1>4 DEF vars, settings, disk, counts
  <2>2. TypeOK'  BY <2>1 DEF IInv, TypeOK
  <2>3. RunInv'  BY <2>1 DEF IInv, RunInv, FileFacts, RequestFacts, NoSubpass
  <2>4. SoloInv'  BY <2>1 DEF IInv, SoloInv, Solo, Durable, M12Terminal
  <2>5. (\A r \in Reqs : Told(answer[r]))'  BY <2>1 DEF IInv, Told
  <2>6. QED  BY <2>2, <2>3, <2>4, <2>5 DEF IInv
<1>5. QED  BY <1>1, <1>2, <1>3, <1>4 DEF Next

LEMMA AlwaysInv == Spec => []IInv
BY InitInv, NextInv, PTL DEF Spec

\* The checkpoint, its .tmp file and the requests stay typed.
THEOREM RunTypes == Spec => []TypeOK
<1>1. IInv => TypeOK  BY DEF IInv
<1>2. QED  BY <1>1, AlwaysInv, PTL

\* Whatever runs at once, stops, or is refused after a restart, a checkpoint
\* that can be read has the outputs its state promises, each computed from the
\* one before it.
THEOREM CheckpointAlwaysCoherent == Spec => []CheckpointCoherent
<1>1. IInv => CheckpointCoherent
  BY DEF IInv, RunInv, FileFacts, Sound, CheckpointCoherent
<1>2. QED  BY <1>1, AlwaysInv, PTL

\* predict knows every state a run ends in, and fails only after two requests
\* or a restart.
THEOREM AnswersAlwaysExplained == Spec => []AnswersAreExplained
<1>1. IInv => AnswersAreExplained  BY DEF IInv, Told, AnswersAreExplained
<1>2. QED  BY <1>1, AlwaysInv, PTL

\* One step from a checkpoint, when no two requests have ever met.
LEMMA StepDurable ==
    ASSUME IInv, Next, file # NoFile, ~overlap'
    PROVE  /\ file # Torn /\ file' \in Records
           /\ M12Terminal(file.state) => file'.state = file.state
           /\ \/ Rank(file'.state) >= Rank(file.state)
              \/ file'.state = "dead_letter"
              \/ \E k \in Passes : file.outs[k] = Corrupt
<1>1. ~overlap
  BY DEF Next, Restart, Begin, Step, LoadRun, FirstPasses, ReloadRun, CheckpointHit, RunPass,
         Pass2A, OpenTmp, WriteTmp, RenameTmp, RenameFails, counts
<1>2. file # Torn  BY <1>1 DEF IInv, SoloInv
<1>3. file \in Records /\ Rank(file.state) \in -1..5  BY <1>2, NotNoFile, RankIs
<1>4. ASSUME NEW r \in Reqs, RenameTmp(r)
      PROVE  file' \in Records /\ Durable(file')
  <2>1. req[r] # Idle /\ req[r].at = "rename" /\ file' = tmp
    BY <1>4 DEF RenameTmp, Idle
  <2>2. Good(req[r])  BY <2>1, InvReq
  <2>3. file' = req[r].rec /\ (file = NoFile \/ Durable(req[r].rec))
    BY <1>1, <2>1, <2>2 DEF Good, Solo, Saving
  <2>4. req[r].rec \in Records  BY <2>2, ActiveFields DEF Good
  <2>5. QED  BY <2>3, <2>4
<1>5. ASSUME NEW r \in Reqs, WriteTmp(r) PROVE file' = file
  <2>1. req[r] # Idle /\ req[r].at = "write"  BY <1>5 DEF WriteTmp, Idle
  <2>2. req[r].inode = "tmp"  BY <1>1, <2>1, InvReq DEF Good, Solo
  <2>3. QED  BY <1>5, <2>2 DEF WriteTmp
<1>6. \/ file' = file
      \/ Restart
      \/ \E r \in Reqs : RenameTmp(r)
  BY <1>5 DEF Next, Begin, Step, LoadRun, FirstPasses, ReloadRun, CheckpointHit, RunPass,
         Pass2A, OpenTmp, RenameFails, disk
<1>7. CASE file' = file  BY <1>2, <1>3, <1>7
<1>8. CASE Restart
  <2>1. file' \in Invalidated(file)  BY <1>8 DEF Restart
  <2>2. file' \in Records /\ file'.state = file.state
    BY <1>3, <2>1, InvalidatedSound DEF IInv, RunInv, FileFacts
  <2>3. QED  BY <1>2, <1>3, <2>2
<1>9. CASE \E r \in Reqs : RenameTmp(r)
  BY <1>2, <1>4, <1>9 DEF Durable
<1>10. QED  BY <1>6, <1>7, <1>8, <1>9

\* Requests that follow one another lose nothing to a crash at any point.
THEOREM AloneAlwaysDurable == Spec => AloneIsDurable
<1> DEFINE Lasts == (file # NoFile /\ ~overlap') =>
              /\ file # Torn /\ file' \in Records
              /\ M12Terminal(file.state) => file'.state = file.state
              /\ \/ Rank(file'.state) >= Rank(file.state)
                 \/ file'.state = "dead_letter"
                 \/ \E k \in Passes : file.outs[k] = Corrupt
<1>1. IInv /\ [Next]_vars => [Lasts]_vars
  BY StepDurable
<1>2. Spec => [][Lasts]_vars  BY <1>1, AlwaysInv, PTL DEF Spec
<1>3. QED  BY <1>2 DEF AloneIsDurable

=============================================================================
