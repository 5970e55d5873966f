-------------------------- MODULE PipelineV5Proofs --------------------------
(***************************************************************************)
(* Proofs about PipelineV5, for any number of requests and bundles.        *)
(*                                                                         *)
(* The argument: the document a bridge has read stays the same, a run has  *)
(* read one with participants, and the cells a bridge has written are      *)
(* locked, so that nobody gives them a score before it commits.  A bridge  *)
(* has locked only cells before the one it is about to write, so the one   *)
(* that is furthest waits for nobody.                                      *)
(***************************************************************************)
EXTENDS PipelineV5, WellFoundedInduction, TLAPS

\* What holds of a request.
Sound(r) ==
    /\ \A b \in r.wrote : b < r.next /\ (assess[b] = NoCell \/ ~assess[b].scored)
    /\ r.at \in {"cells", "commit"} =>
          /\ r.doc \in 1..Len(docs)
          /\ r.op = "run" => r.wrote \subseteq docs[r.doc].participants
          /\ r.op = "run" => docs[r.doc].listed
    /\ r.at \notin {"cells", "commit"} => r.wrote = {}

CellsCite ==
    \A b \in Bundles : assess[b] # NoCell =>
        /\ assess[b].doc \in 1..Len(docs)
        /\ assess[b].by = "run" => b \in docs[assess[b].doc].participants

Locked == \A p, q \in Procs : p # q => Wrote(p) \cap Wrote(q) = {}

BridgeInv ==
    /\ CellsCite
    /\ Locked
    /\ \A p \in Procs : proc[p] # Idle => Sound(proc[p])

Inv == TypeOK /\ BridgeInv

\* Documents are only added.
DocsGrow == docs' = docs \/ \E d \in Document : docs' = Append(docs, d)

-----------------------------------------------------------------------------
LEMMA LeastNatural ==
    ASSUME NEW T \in SUBSET Nat, T # {} PROVE \E m \in T : \A n \in T : m <= n
<1>1. PICK m \in T : \A n \in T : <<n, m>> \notin OpToRel(<, Nat)
  BY NatLessThanWellFounded, WFMin
<1>2. \A n \in T : ~ (n < m)  BY <1>1 DEF OpToRel
<1>3. QED  BY <1>2

\* A request that is at a stage is one of the records.
LEMMA AtStage ==
    ASSUME TypeOK, NEW p \in Procs, proc[p].at # "idle"
    PROVE  proc[p] \in Active /\ proc[p] # Idle
BY DEF TypeOK, Idle

LEMMA ActiveNotIdle == ASSUME NEW r \in Active PROVE r # Idle /\ r.at # "idle"
BY DEF Active, Ats, Idle

LEMMA ProcSet ==
    ASSUME TypeOK, NEW p \in Procs, NEW r \in Active \cup {Idle}, Becomes(p, r)
    PROVE  /\ proc' \in [Procs -> Active \cup {Idle}]
           /\ proc'[p] = r
           /\ \A q \in Procs : q # p => proc'[q] = proc[q]
BY DEF TypeOK, Becomes

LEMMA DocsStay ==
    ASSUME TypeOK, DocsGrow
    PROVE  /\ docs' \in Seq(Document)
           /\ Len(docs') >= Len(docs)
           /\ \A i \in 1..Len(docs) : i \in 1..Len(docs') /\ docs'[i] = docs[i]
<1>1. CASE docs' = docs  BY <1>1 DEF TypeOK
<1>2. CASE \E d \in Document : docs' = Append(docs, d)
  <2>1. PICK d \in Document : docs' = Append(docs, d)  BY <1>2
  <2>2. docs \in Seq(Document)  BY DEF TypeOK
  <2>3. QED  BY <2>1, <2>2
<1>3. QED  BY <1>1, <1>2 DEF DocsGrow

\* What holds of a request keeps holding while documents are added and the
\* cells it has written stay.
LEMMA SoundStays ==
    ASSUME TypeOK, DocsGrow, NEW r \in Active, Sound(r),
           \A b \in r.wrote : assess'[b] = assess[b]
    PROVE  /\ \A b \in r.wrote : b < r.next /\ (assess'[b] = NoCell \/ ~assess'[b].scored)
           /\ r.at \in {"cells", "commit"} =>
                 /\ r.doc \in 1..Len(docs')
                 /\ r.op = "run" => r.wrote \subseteq docs'[r.doc].participants
                 /\ r.op = "run" => docs'[r.doc].listed
           /\ r.at \notin {"cells", "commit"} => r.wrote = {}
<1>1. \A i \in 1..Len(docs) : i \in 1..Len(docs') /\ docs'[i] = docs[i]  BY DocsStay
<1>2. QED  BY <1>1 DEF Sound

LEMMA CellsStay ==
    ASSUME TypeOK, DocsGrow, CellsCite, assess' = assess PROVE CellsCite'
<1>1. \A i \in 1..Len(docs) : i \in 1..Len(docs') /\ docs'[i] = docs[i]  BY DocsStay
<1>2. QED  BY <1>1 DEF CellsCite

\* A step of one request p, that becomes r, keeps the invariant when what r
\* has written is locked by nobody else.
LEMMA StepKeeps ==
    ASSUME Inv, DocsGrow, NEW p \in Procs, NEW r \in Active \cup {Idle}, Becomes(p, r),
           CellsCite', r # Idle => Sound(proc[p])',
           \A q \in Procs \ {p} : \A b \in Wrote(q) :
               assess'[b] = assess[b] /\ (r # Idle => b \notin r.wrote)
    PROVE  BridgeInv'
<1>1. proc'[p] = r /\ \A q \in Procs : q # p => proc'[q] = proc[q]  BY ProcSet DEF Inv
<1>2. \A q \in Procs : q # p => Wrote(q)' = Wrote(q)  BY <1>1 DEF Wrote
<1>3. Wrote(p)' = IF r = Idle THEN {} ELSE r.wrote  BY <1>1 DEF Wrote
<1>4. Locked'
  <2>1. \A q \in Procs \ {p} : Wrote(p)' \cap Wrote(q)' = {}  BY <1>2, <1>3
  <2>2. QED  BY <1>2, <2>1 DEF Locked, Inv, BridgeInv
<1>5. ASSUME NEW q \in Procs, q # p, proc'[q] # Idle PROVE Sound(proc[q])'
  <2>1. proc'[q] = proc[q] /\ proc[q] # Idle  BY <1>1, <1>5
  <2>2. proc[q] \in Active  BY <2>1 DEF Inv, TypeOK
  <2>3. Sound(proc[q])  BY <2>1 DEF Inv, BridgeInv
  <2>4. Wrote(q) = proc[q].wrote  BY <2>1 DEF Wrote
  <2>5. \A b \in proc[q].wrote : assess'[b] = assess[b]  BY <2>4, <1>5
  <2>6. QED
    <3>1. TypeOK  BY DEF Inv
    <3> DEFINE x == proc[q]
    <3>2. x \in Active /\ Sound(x) /\ (\A b \in x.wrote : assess'[b] = assess[b]) /\ proc'[q] = x
      BY <2>1, <2>2, <2>3, <2>5
    <3> HIDE DEF x
    <3>3. /\ \A b \in x.wrote : b < x.next /\ (assess'[b] = NoCell \/ ~assess'[b].scored)
          /\ x.at \in {"cells", "commit"} =>
                /\ x.doc \in 1..Len(docs')
                /\ x.op = "run" => x.wrote \subseteq docs'[x.doc].participants
                /\ x.op = "run" => docs'[x.doc].listed
          /\ x.at \notin {"cells", "commit"} => x.wrote = {}
      BY <3>1, <3>2, SoundStays
    <3>4. QED  BY <3>2, <3>3 DEF Sound
<1>6. QED  BY <1>1, <1>4, <1>5 DEF BridgeInv

-----------------------------------------------------------------------------
\* A step that leaves the cells, and the request with none written.
LEMMA QuietStep ==
    ASSUME Inv, DocsGrow, NEW p \in Procs, NEW r \in Active \cup {Idle}, Becomes(p, r),
           assess' = assess,
           r # Idle => r.wrote = {} /\ r.at \notin {"cells", "commit"}
    PROVE  BridgeInv'
<1>1. CellsCite'  BY CellsStay DEF Inv, BridgeInv
<1>2. r # Idle => Sound(proc[p])'
  <2>1. proc'[p] = r  BY ProcSet DEF Inv
  <2>2. QED  BY <2>1 DEF Sound
<1>3. QED  BY <1>1, <1>2, StepKeeps

LEMMA EndsKeeps ==
    ASSUME Inv, NEW p \in Procs, Becomes(p, Idle), UNCHANGED <<docs, assess>>
    PROVE  BridgeInv'
<1>1. Idle \in Active \cup {Idle} /\ DocsGrow  BY DEF DocsGrow
<1>2. QED  BY <1>1, QuietStep

\* Before the bridge a request has written nothing.
LEMMA EarlyGoes ==
    ASSUME Inv, NEW p \in Procs, DocsGrow, assess' = assess,
           proc[p].at \in Ats \ {"cells", "commit"}, NEW at \in Ats \ {"cells", "commit"},
           NEW sent \in SUBSET Bundles, NEW eligible \in SUBSET Bundles, NEW own \in Nat,
           NEW muted \in BOOLEAN,
           Becomes(p, [proc[p] EXCEPT !.at = at, !.sent = sent, !.eligible = eligible,
                                      !.own = own, !.muted = muted])
    PROVE  BridgeInv' /\ proc' \in [Procs -> Active \cup {Idle}]
<1> DEFINE r == [proc[p] EXCEPT !.at = at, !.sent = sent, !.eligible = eligible,
                                !.own = own, !.muted = muted]
<1>1. proc[p] \in Active /\ proc[p] # Idle  BY AtStage DEF Inv, Ats
<1>2. r \in Active /\ r.wrote = proc[p].wrote /\ r.at = at  BY <1>1 DEF Active
<1>3. proc[p].wrote = {}  BY <1>1 DEF Inv, BridgeInv, Sound
<1>4. Becomes(p, r)  OBVIOUS
<1>5. QED
  <2>1. r \in Active \cup {Idle} /\ r.wrote = {} /\ r.at \notin {"cells", "commit"}
    BY <1>2, <1>3
  <2>2. TypeOK  BY DEF Inv
  <2> HIDE DEF r
  <2>3. QED  BY <1>4, <2>1, <2>2, QuietStep, ProcSet

LEMMA SameDocs == docs' = docs => DocsGrow
BY DEF DocsGrow

LEMMA BeginKeeps ==
    ASSUME Inv, NEW p \in Procs, NEW op \in {"run", "sync", "init"}, NEW force \in BOOLEAN,
           Begin(p, op, force)
    PROVE  BridgeInv' /\ proc' \in [Procs -> Active \cup {Idle}]
<1> DEFINE others == {q \in Procs : proc[q] # Idle}
           new == [op |-> op, at |-> IF op = "run" THEN "extract" ELSE "bridge",
                   force |-> force, sent |-> {}, eligible |-> {}, own |-> 0, doc |-> 0,
                   next |-> 1, wrote |-> {}, alone |-> others = {}, muted |-> FALSE]
           Alone(q) == [proc[q] EXCEPT !.alone = FALSE]
<1>1. /\ proc' = [q \in Procs |-> CASE q = p -> new
                                    [] q \in others -> Alone(q)
                                    [] OTHER -> proc[q]]
      /\ proc[p] = Idle /\ UNCHANGED <<docs, assess>>
  BY DEF Begin, rows
<1>2. new \in Active
  <2>1. (others = {}) \in BOOLEAN /\ 1 \in 1..(NBundles + 1)  BY BoundsAssumption
  <2>2. QED  BY <2>1 DEF Active, Ats
<1>3. new.wrote = {} /\ new.at \notin {"cells", "commit"}  OBVIOUS
<1>4. proc'[p] = new
  <2>1. p \notin others  BY <1>1
  <2> HIDE DEF new, others, Alone
  <2>2. QED  BY <1>1, <2>1
<1>5. ASSUME NEW q \in Procs, q \in others
      PROVE  /\ proc'[q] = Alone(q) /\ Alone(q) \in Active /\ q # p
             /\ Alone(q).wrote = proc[q].wrote
             /\ Sound(proc[q])' /\ Sound(proc[q])
  <2>1. q # p /\ proc[q] # Idle  BY <1>1, <1>5
  <2>2. proc'[q] = Alone(q)
    <3> HIDE DEF new, Alone
    <3>1. QED  BY <1>1, <1>5, <2>1
  <2>3. proc[q] \in Active  BY <2>1 DEF Inv, TypeOK
  <2>4. /\ Alone(q) \in Active
        /\ Alone(q).wrote = proc[q].wrote /\ Alone(q).at = proc[q].at
        /\ Alone(q).doc = proc[q].doc /\ Alone(q).op = proc[q].op /\ Alone(q).next = proc[q].next
    BY <2>3 DEF Active
  <2>5. Sound(proc[q])  BY <2>1 DEF Inv, BridgeInv
  <2>6. Sound(proc[q])'
    <3> HIDE DEF Alone
    <3>1. QED  BY <2>2, <2>4, <2>5, <1>1 DEF Sound
  <2>7. QED  BY <2>1, <2>2, <2>4, <2>5, <2>6
<1>6. ASSUME NEW q \in Procs, q # p, q \notin others PROVE proc'[q] = Idle
  <2> HIDE DEF new, Alone
  <2>1. proc[q] = Idle  BY <1>6
  <2>2. QED  BY <2>1, <1>1, <1>6
<1>7. \A q \in Procs : proc'[q] \in Active \cup {Idle} /\ (proc'[q] # Idle => Sound(proc[q])')
  <2>1. Sound(proc[p])'  BY <1>3, <1>4 DEF Sound
  <2> HIDE DEF new, others, Alone
  <2>2. QED  BY <2>1, <1>2, <1>4, <1>5, <1>6
<1>8. \A q \in Procs : Wrote(q)' = Wrote(q)
  <2>1. Wrote(p) = {}  BY <1>1 DEF Wrote
  <2>2. Wrote(p)' = {}  BY <1>3, <1>4 DEF Wrote
  <2>3. ASSUME NEW q \in Procs, q \in others PROVE Wrote(q)' = Wrote(q)
    <3>1. proc[q] # Idle  BY <2>3
    <3>2. Alone(q) # Idle  BY <1>5, <2>3, ActiveNotIdle
    <3> HIDE DEF Alone
    <3>3. QED  BY <3>1, <3>2, <1>5, <2>3 DEF Wrote
  <2>4. ASSUME NEW q \in Procs, q # p, q \notin others PROVE Wrote(q)' = Wrote(q)
    <3>1. proc[q] = Idle  BY <2>4
    <3>2. QED  BY <3>1, <1>6, <2>4 DEF Wrote
  <2>5. QED  BY <2>1, <2>2, <2>3, <2>4
<1>9. CellsCite'  BY <1>1 DEF Inv, BridgeInv, CellsCite
<1>10. Locked'  BY <1>8 DEF Inv, BridgeInv, Locked
<1>11. proc' \in [Procs -> Active \cup {Idle}]
  <2> HIDE DEF new, others, Alone
  <2>1. DOMAIN proc' = Procs /\ proc' = [q \in Procs |-> proc'[q]]  BY <1>1
  <2>2. QED  BY <1>7, <2>1
<1>12. QED  BY <1>7, <1>9, <1>10, <1>11 DEF BridgeInv

-----------------------------------------------------------------------------
\* A request that ends without touching the rows.
LEMMA StopKeeps ==
    ASSUME Inv, NEW p \in Procs, NEW how \in {"completed", "refused", "stopped"},
           Ends(p, how), UNCHANGED <<rows, calls>>
    PROVE  Inv'
<1>1. Becomes(p, Idle) /\ UNCHANGED <<docs, assess, offer>>
      /\ result' = [result EXCEPT ![p] = how]
  BY DEF Ends, rows
<1>2. BridgeInv'  BY <1>1, EndsKeeps
<1>3. proc' \in [Procs -> Active \cup {Idle}]  BY <1>1, ProcSet DEF Inv
<1>4. QED  BY <1>1, <1>2, <1>3 DEF Inv, TypeOK

LEMMA ExtractKeeps == ASSUME Inv, NEW p \in Procs, Extract(p) PROVE Inv'
<1>1. /\ proc[p].at = "extract" /\ Becomes(p, [proc[p] EXCEPT !.at = "assemble"])
      /\ UNCHANGED <<docs, assess, result, calls>>
  BY DEF Extract, Goes
<1>2. proc[p] \in Active  BY <1>1, AtStage DEF Inv
<1>3. Becomes(p, [proc[p] EXCEPT !.at = "assemble", !.sent = proc[p].sent,
                    !.eligible = proc[p].eligible, !.own = proc[p].own, !.muted = proc[p].muted])
  BY <1>1, <1>2 DEF Active
<1>4. BridgeInv' /\ proc' \in [Procs -> Active \cup {Idle}]
  <2>1. /\ proc[p].at \in Ats \ {"cells", "commit"} /\ "assemble" \in Ats \ {"cells", "commit"}
        /\ proc[p].sent \in SUBSET Bundles /\ proc[p].eligible \in SUBSET Bundles
        /\ proc[p].own \in Nat /\ proc[p].muted \in BOOLEAN
    BY <1>1, <1>2 DEF Active, Ats
  <2>2. QED  BY <1>1, <1>3, <2>1, SameDocs, EarlyGoes
<1>5. offer' \in [Bundles -> Readiness \cup {"none"}]
  BY DEF Extract, Inv, TypeOK, Readiness
<1>6. QED  BY <1>1, <1>4, <1>5 DEF Inv, TypeOK

LEMMA AssembleKeeps == ASSUME Inv, NEW p \in Procs, Assemble(p) PROVE Inv'
<1>0. proc[p].at = "assemble" /\ UNCHANGED <<rows, calls>>  BY DEF Assemble
<1>1. CASE Ends(p, "refused")  BY <1>0, <1>1, StopKeeps
<1>2. CASE ~Refused(p)
  <2>1. PICK sent \in SUBSET {b \in Bundles : offer[b] = "ok"} : \E eligible \in SUBSET sent :
           Becomes(p, [proc[p] EXCEPT !.at = "evaluate", !.sent = sent, !.eligible = eligible])
    BY <1>2 DEF Assemble
  <2>2. PICK eligible \in SUBSET sent :
           Becomes(p, [proc[p] EXCEPT !.at = "evaluate", !.sent = sent, !.eligible = eligible])
    BY <2>1
  <2>3. proc[p] \in Active  BY <1>0, AtStage DEF Inv
  <2>4. Becomes(p, [proc[p] EXCEPT !.at = "evaluate", !.sent = sent, !.eligible = eligible,
                                   !.own = proc[p].own, !.muted = proc[p].muted])
    BY <2>2, <2>3 DEF Active
  <2>5. BridgeInv' /\ proc' \in [Procs -> Active \cup {Idle}]
    <3>1. /\ proc[p].at \in Ats \ {"cells", "commit"} /\ "evaluate" \in Ats \ {"cells", "commit"}
          /\ sent \in SUBSET Bundles /\ eligible \in SUBSET Bundles
          /\ proc[p].own \in Nat /\ proc[p].muted \in BOOLEAN
      BY <1>0, <2>3 DEF Active, Ats
    <3>2. docs' = docs /\ assess' = assess  BY <1>0 DEF rows
    <3>3. QED  BY <2>4, <3>1, <3>2, SameDocs, EarlyGoes
  <2>6. result' = result  BY <1>2 DEF Assemble
  <2>7. QED  BY <1>0, <2>5, <2>6 DEF Inv, TypeOK, rows
<1>3. QED  BY <1>1, <1>2 DEF Assemble

LEMMA SavesKeeps ==
    ASSUME Inv, NEW p \in Procs, NEW at \in Ats \ {"cells", "commit"}, NEW d \in Document,
           proc[p].at \in Ats \ {"cells", "commit"}, Saves(p, at, d)
    PROVE  Inv'
<1>0. UNCHANGED <<offer, assess, result, calls>>  BY DEF Saves
<1>1. proc[p] \in Active  BY AtStage DEF Inv, Ats
<1>2. /\ proc[p].sent \in SUBSET Bundles /\ proc[p].eligible \in SUBSET Bundles
      /\ proc[p].own \in Nat /\ proc[p].muted \in BOOLEAN
  BY <1>1 DEF Active
<1>3. BridgeInv' /\ proc' \in [Procs -> Active \cup {Idle}] /\ docs' \in Seq(Document)
  <2>1. CASE /\ docs' = Append(docs, d)
             /\ Becomes(p, [proc[p] EXCEPT !.at = at, !.own = Len(docs) + 1])
    <3>1. Len(docs) + 1 \in Nat /\ DocsGrow  BY <2>1 DEF Inv, TypeOK, DocsGrow
    <3>2. Becomes(p, [proc[p] EXCEPT !.at = at, !.sent = proc[p].sent,
                        !.eligible = proc[p].eligible, !.own = Len(docs) + 1,
                        !.muted = proc[p].muted])
      BY <1>1, <2>1 DEF Active
    <3>3. BridgeInv' /\ proc' \in [Procs -> Active \cup {Idle}]
      BY <1>0, <1>2, <3>1, <3>2, EarlyGoes
    <3>4. QED  BY <3>1, <3>3, DocsStay DEF Inv
  <2>2. CASE docs' = docs /\ Becomes(p, [proc[p] EXCEPT !.at = at, !.muted = TRUE])
    <3>1. Becomes(p, [proc[p] EXCEPT !.at = at, !.sent = proc[p].sent,
                        !.eligible = proc[p].eligible, !.own = proc[p].own, !.muted = TRUE])
      BY <1>1, <2>2 DEF Active
    <3>2. BridgeInv' /\ proc' \in [Procs -> Active \cup {Idle}]
      BY <1>0, <1>2, <2>2, <3>1, SameDocs, EarlyGoes
    <3>3. QED  BY <2>2, <3>2 DEF Inv, TypeOK
  <2>3. QED  BY <2>1, <2>2 DEF Saves
<1>4. QED  BY <1>0, <1>3 DEF Inv, TypeOK

LEMMA EvaluateKeeps == ASSUME Inv, NEW p \in Procs, Evaluate(p) \/ Save(p) PROVE Inv'
<1>1. proc[p].at \in {"evaluate", "save"}  BY DEF Evaluate, Save
<1>2. proc[p] \in Active  BY <1>1, AtStage DEF Inv
<1>3. /\ [cells |-> proc[p].sent, listed |-> FALSE, participants |-> {}] \in Document
      /\ [cells |-> proc[p].sent, listed |-> TRUE,
          participants |-> proc[p].eligible] \in Document
  BY <1>2 DEF Active, Document
<1>4. proc[p].at \in Ats \ {"cells", "commit"} /\ {"save", "check"} \subseteq Ats \ {"cells", "commit"}
  BY <1>1 DEF Ats
<1>5. QED  BY <1>3, <1>4, SavesKeeps DEF Evaluate, Save

LEMMA CheckKeeps == ASSUME Inv, NEW p \in Procs, CheckParticipants(p) PROVE Inv'
<1>0. proc[p].at = "check" /\ UNCHANGED <<rows, calls>>  BY DEF CheckParticipants
<1>1. CASE Ends(p, "refused")  BY <1>0, <1>1, StopKeeps
<1>2. CASE Goes(p, "bridge") /\ UNCHANGED result
  <2>1. proc[p] \in Active  BY <1>0, AtStage DEF Inv
  <2>2. Becomes(p, [proc[p] EXCEPT !.at = "bridge", !.sent = proc[p].sent,
                      !.eligible = proc[p].eligible, !.own = proc[p].own,
                      !.muted = proc[p].muted])
    BY <1>2, <2>1 DEF Active, Goes
  <2>3. BridgeInv' /\ proc' \in [Procs -> Active \cup {Idle}]
    <3>1. /\ proc[p].at \in Ats \ {"cells", "commit"} /\ "bridge" \in Ats \ {"cells", "commit"}
          /\ proc[p].sent \in SUBSET Bundles /\ proc[p].eligible \in SUBSET Bundles
          /\ proc[p].own \in Nat /\ proc[p].muted \in BOOLEAN
      BY <1>0, <2>1 DEF Active, Ats
    <3>2. docs' = docs /\ assess' = assess  BY <1>0 DEF rows
    <3>3. QED  BY <2>2, <3>1, <3>2, SameDocs, EarlyGoes
  <2>4. QED  BY <1>0, <1>2, <2>3 DEF Inv, TypeOK, rows
<1>3. QED  BY <1>1, <1>2 DEF CheckParticipants

-----------------------------------------------------------------------------
\* A bridge that goes on without touching the rows, having written wrote.
LEMMA BridgeGoes ==
    ASSUME Inv, NEW p \in Procs, NEW r \in Active, Becomes(p, r),
           UNCHANGED <<rows, result, calls>>,
           Sound(r), \A q \in Procs \ {p} : r.wrote \cap Wrote(q) = {}
    PROVE  Inv'
<1>1. UNCHANGED <<offer, docs, assess>>  BY DEF rows
<1>2. proc'[p] = r /\ proc' \in [Procs -> Active \cup {Idle}]  BY ProcSet DEF Inv
<1>3. Sound(proc[p])'  BY <1>1, <1>2 DEF Sound
<1>4. CellsCite'  BY <1>1, SameDocs, CellsStay DEF Inv, BridgeInv
<1>5. \A q \in Procs \ {p} : \A b \in Wrote(q) : assess'[b] = assess[b] /\ b \notin r.wrote
  BY <1>1
<1>6. BridgeInv'  BY <1>1, <1>3, <1>4, <1>5, SameDocs, StepKeeps
<1>7. QED  BY <1>1, <1>2, <1>6 DEF Inv, TypeOK

LEMMA ReadKeeps == ASSUME Inv, NEW p \in Procs, ReadDocument(p) PROVE Inv'
<1>0. proc[p].at = "bridge" /\ docs # <<>> /\ UNCHANGED <<rows, calls>>  BY DEF ReadDocument
<1>1. CASE Admits(proc[p].op, docs[Len(docs)])
  <2> DEFINE r == [proc[p] EXCEPT !.at = "cells", !.doc = Len(docs)]
  <2>1. Becomes(p, r) /\ result' = result  BY <1>1 DEF ReadDocument
  <2>2. proc[p] \in Active /\ proc[p] # Idle  BY <1>0, AtStage DEF Inv
  <2>3. docs \in Seq(Document) /\ Len(docs) \in 1..Len(docs)  BY <1>0 DEF Inv, TypeOK
  <2>4. r \in Active /\ r.wrote = proc[p].wrote /\ r.doc = Len(docs) /\ r.op = proc[p].op
    <3>1. PICK n \in Nat : n = Len(docs)  BY <2>3
    <3>2. QED  BY <2>2, <3>1 DEF Active, Ats
  <2>5. r.wrote = {}  BY <1>0, <2>2, <2>4 DEF Inv, BridgeInv, Sound
  <2>6. Sound(r)
    <3> HIDE DEF r
    <3>1. QED  BY <1>1, <2>3, <2>4, <2>5 DEF Sound, Admits
  <2>7. UNCHANGED <<rows, result, calls>>  BY <1>0, <2>1
  <2>8. QED
    <3> HIDE DEF r
    <3>1. QED  BY <2>1, <2>4, <2>5, <2>6, <2>7, BridgeGoes
<1>2. CASE ~Admits(proc[p].op, docs[Len(docs)])
  <2>1. Ends(p, "stopped")  BY <1>2 DEF ReadDocument
  <2>2. QED  BY <1>0, <2>1, StopKeeps
<1>3. QED  BY <1>1, <1>2

LEMMA NoDocumentKeeps == ASSUME Inv, NEW p \in Procs, NoDocument(p) PROVE Inv'
<1>1. Ends(p, "completed") /\ UNCHANGED <<rows, calls>>  BY DEF NoDocument
<1>2. QED  BY <1>1, StopKeeps

LEMMA WriteKeeps == ASSUME Inv, NEW p \in Procs, WriteCell(p) PROVE Inv'
<1>0. proc[p].at = "cells" /\ proc[p].next <= NBundles  BY DEF WriteCell
<1>1. proc[p] \in Active /\ proc[p] # Idle /\ Sound(proc[p])
  BY <1>0, AtStage DEF Inv, BridgeInv
<1> DEFINE x == proc[p]
           b == CellOf(p)
<1>2. b = x.next /\ b \in Bundles
  BY <1>0, <1>1 DEF Active, CellOf, Bundles
<1>3. PICK w \in SUBSET {b} :
          /\ Advances(p, w)
          /\ w # {} => RowFree(p, b) /\ Concerns(p, b) /\ Writable(x.op, assess[b])
  <2>1. CASE ~Concerns(p, b)
    <3>1. Advances(p, {})  BY <2>1 DEF WriteCell
    <3>2. QED  BY <3>1
  <2>2. CASE Concerns(p, b)
    <3>1. RowFree(p, b) /\ Advances(p, IF Writable(x.op, assess[b]) THEN {b} ELSE {})
      BY <2>2 DEF WriteCell
    <3>2. QED  BY <2>2, <3>1
  <2>3. QED  BY <2>1, <2>2
<1> DEFINE r == [proc[p] EXCEPT !.next = proc[p].next + 1, !.wrote = proc[p].wrote \cup w]
<1>4. Becomes(p, r) /\ UNCHANGED <<rows, result, calls>>  BY <1>3 DEF Advances
<1>5. /\ r \in Active /\ r.next = x.next + 1 /\ r.wrote = x.wrote \cup w
      /\ r.at = "cells" /\ r.doc = x.doc /\ r.op = x.op
  <2>1. x.next + 1 \in 1..(NBundles + 1) /\ x.wrote \cup w \in SUBSET Bundles
    BY <1>0, <1>1, <1>2, BoundsAssumption DEF Active
  <2>2. QED  BY <1>0, <1>1, <2>1 DEF Active
<1>6. x.next \in Nat /\ \A c \in x.wrote : c \in Nat  BY <1>1 DEF Active, Bundles
<1>7. Sound(r)
  <2>1. \A c \in w : c = x.next /\ (assess[c] = NoCell \/ ~assess[c].scored)
    BY <1>2, <1>3 DEF Writable
  <2>2. x.op = "run" => \A c \in w : c \in docs[x.doc].participants
    <3>1. x.op = "run" => docs[x.doc].listed  BY <1>0, <1>1 DEF Sound
    <3>2. QED  BY <3>1, <1>3 DEF Concerns
  <2>3. \A c \in x.wrote : c < x.next /\ (assess[c] = NoCell \/ ~assess[c].scored)
    BY <1>1 DEF Sound
  <2>4. /\ x.doc \in 1..Len(docs)
        /\ x.op = "run" => x.wrote \subseteq docs[x.doc].participants
        /\ x.op = "run" => docs[x.doc].listed
    BY <1>0, <1>1 DEF Sound
  <2> HIDE DEF r, x
  <2>5. \A c \in r.wrote : c < r.next
    BY <1>5, <1>6, <2>1, <2>3
  <2>6. QED  BY <1>5, <2>1, <2>2, <2>3, <2>4, <2>5 DEF Sound
<1>8. \A q \in Procs \ {p} : r.wrote \cap Wrote(q) = {}
  <2>1. Wrote(p) = x.wrote  BY <1>1 DEF Wrote
  <2>2. \A q \in Procs \ {p} : x.wrote \cap Wrote(q) = {}  BY <2>1 DEF Inv, BridgeInv, Locked
  <2>3. \A q \in Procs \ {p} : w \cap Wrote(q) = {}  BY <1>3 DEF RowFree
  <2> HIDE DEF r, x, b
  <2>4. QED  BY <2>2, <2>3, <1>5
<1>9. QED
  <2> HIDE DEF r
  <2>1. QED  BY <1>4, <1>5, <1>7, <1>8, BridgeGoes

LEMMA CellFailsKeeps == ASSUME Inv, NEW p \in Procs, CellFails(p) PROVE Inv'
<1> DEFINE r == [proc[p] EXCEPT !.at = "commit", !.wrote = {}, !.muted = TRUE]
<1>0. proc[p].at = "cells" /\ Becomes(p, r) /\ UNCHANGED <<rows, result, calls>>
  BY DEF CellFails
<1>1. proc[p] \in Active /\ proc[p] # Idle /\ Sound(proc[p])
  BY <1>0, AtStage DEF Inv, BridgeInv
<1>2. /\ r \in Active /\ r.wrote = {} /\ r.at = "commit" /\ r.doc = proc[p].doc
      /\ r.op = proc[p].op
  BY <1>1 DEF Active, Ats
<1> HIDE DEF r
<1>3. Sound(r)  BY <1>0, <1>1, <1>2 DEF Sound
<1>4. QED  BY <1>0, <1>2, <1>3, BridgeGoes

LEMMA LastKeeps == ASSUME Inv, NEW p \in Procs, LastCell(p) PROVE Inv'
<1> DEFINE r == [proc[p] EXCEPT !.at = "commit"]
<1>0. proc[p].at = "cells" /\ Becomes(p, r) /\ UNCHANGED <<rows, result, calls>>
  BY DEF LastCell, Goes
<1>1. proc[p] \in Active /\ proc[p] # Idle /\ Sound(proc[p])
  BY <1>0, AtStage DEF Inv, BridgeInv
<1>2. /\ r \in Active /\ r.wrote = proc[p].wrote /\ r.at = "commit" /\ r.doc = proc[p].doc
      /\ r.op = proc[p].op /\ r.next = proc[p].next
  BY <1>1 DEF Active, Ats
<1>3. Wrote(p) = proc[p].wrote  BY <1>1 DEF Wrote
<1>4. \A q \in Procs \ {p} : r.wrote \cap Wrote(q) = {}
  BY <1>2, <1>3 DEF Inv, BridgeInv, Locked
<1> HIDE DEF r
<1>5. Sound(r)  BY <1>0, <1>1, <1>2 DEF Sound
<1>6. QED  BY <1>0, <1>2, <1>4, <1>5, BridgeGoes

LEMMA CommitKeeps == ASSUME Inv, NEW p \in Procs, CommitBridge(p) PROVE Inv'
<1> DEFINE x == proc[p]
           cell == [doc |-> x.doc, scored |-> FALSE, by |-> x.op]
<1>0. /\ x.at = "commit" /\ Becomes(p, Idle) /\ UNCHANGED <<offer, docs, calls>>
      /\ result' = [result EXCEPT ![p] = "completed"]
      /\ assess' = [b \in Bundles |-> IF b \in x.wrote THEN cell ELSE assess[b]]
  BY DEF CommitBridge, Ends
<1>1. x \in Active /\ x # Idle /\ Sound(x)  BY <1>0, AtStage DEF Inv, BridgeInv
<1>2. /\ x.doc \in 1..Len(docs) /\ x.wrote \subseteq Bundles
      /\ x.op = "run" => x.wrote \subseteq docs[x.doc].participants
  BY <1>0, <1>1 DEF Sound, Active
<1>3. cell \in Cells /\ cell.doc = x.doc /\ cell.by = x.op
  <2>1. x.doc \in Nat \ {0}  BY <1>2 DEF Inv, TypeOK
  <2>2. QED  BY <1>1, <2>1 DEF Cells, Active
<1>4. assess' \in [Bundles -> Cells \cup {NoCell}]
  <2> HIDE DEF cell
  <2>1. QED  BY <1>0, <1>3 DEF Inv, TypeOK
<1>5. CellsCite'
  <2>1. \A b \in Bundles : assess[b] # NoCell =>
           /\ assess[b].doc \in 1..Len(docs)
           /\ assess[b].by = "run" => b \in docs[assess[b].doc].participants
    BY DEF Inv, BridgeInv, CellsCite
  <2>2. docs' = docs  BY <1>0
  <2> HIDE DEF cell, x
  <2>3. QED  BY <1>0, <1>2, <1>3, <2>1, <2>2 DEF CellsCite
<1>6. \A q \in Procs \ {p} : \A b \in Wrote(q) : assess'[b] = assess[b]
  <2>1. ASSUME NEW q \in Procs \ {p}, NEW b \in Wrote(q) PROVE assess'[b] = assess[b]
    <3>1. b \in Bundles
      <4>1. CASE proc[q] = Idle  BY <4>1, <2>1 DEF Wrote
      <4>2. CASE proc[q] # Idle
        <5>1. proc[q] \in Active  BY <4>2 DEF Inv, TypeOK
        <5>2. QED  BY <4>2, <5>1, <2>1 DEF Wrote, Active
      <4>3. QED  BY <4>1, <4>2
    <3>2. Wrote(p) = x.wrote  BY <1>1 DEF Wrote
    <3>3. b \notin x.wrote  BY <2>1, <3>2 DEF Inv, BridgeInv, Locked
    <3> HIDE DEF cell, x
    <3>4. QED  BY <3>1, <3>3, <1>0
  <2>2. QED  BY <2>1
<1>7. BridgeInv'
  <2>1. Idle \in Active \cup {Idle} /\ DocsGrow  BY <1>0 DEF DocsGrow
  <2>2. Becomes(p, Idle)  BY <1>0
  <2> HIDE DEF cell, x
  <2>3. QED  BY <2>1, <2>2, <1>5, <1>6, StepKeeps
<1>8. proc' \in [Procs -> Active \cup {Idle}]
  <2>1. Becomes(p, Idle)  BY <1>0
  <2>2. QED  BY <2>1, ProcSet DEF Inv
<1>9. QED
  <2> HIDE DEF cell, x
  <2>1. QED  BY <1>0, <1>4, <1>7, <1>8 DEF Inv, TypeOK

LEMMA ScoreKeeps == ASSUME Inv, NEW b \in Bundles, SetScore(b) PROVE Inv'
<1>1. /\ assess[b] # NoCell /\ \A p \in Procs : b \notin Wrote(p)
      /\ assess' = [assess EXCEPT ![b].scored = TRUE]
      /\ UNCHANGED <<offer, docs, proc, result, calls>>
  BY DEF SetScore
<1>2. assess[b] \in Cells /\ assess \in [Bundles -> Cells \cup {NoCell}]
  BY <1>1 DEF Inv, TypeOK
<1> DEFINE c == [assess[b] EXCEPT !.scored = TRUE]
<1>3. c \in Cells /\ c.doc = assess[b].doc /\ c.by = assess[b].by  BY <1>2 DEF Cells
<1>4. assess'[b] = c /\ \A a \in Bundles \ {b} : assess'[a] = assess[a]  BY <1>1, <1>2
<1>5. assess' \in [Bundles -> Cells \cup {NoCell}]
  <2>1. assess' = [assess EXCEPT ![b] = c]  BY <1>1, <1>2
  <2> HIDE DEF c
  <2>2. QED  BY <2>1, <1>2, <1>3
<1>6. CellsCite'
  <2>1. \A a \in Bundles : assess[a] # NoCell =>
           /\ assess[a].doc \in 1..Len(docs)
           /\ assess[a].by = "run" => a \in docs[assess[a].doc].participants
    BY DEF Inv, BridgeInv, CellsCite
  <2>2. docs' = docs  BY <1>1
  <2> HIDE DEF c
  <2>3. QED  BY <1>1, <1>3, <1>4, <2>1, <2>2 DEF CellsCite
<1>7. \A q \in Procs : Wrote(q)' = Wrote(q)  BY <1>1 DEF Wrote
<1>8. Locked'  BY <1>7 DEF Inv, BridgeInv, Locked
<1>9. ASSUME NEW q \in Procs, proc'[q] # Idle PROVE Sound(proc[q])'
  <2>1. proc[q] # Idle /\ Sound(proc[q])  BY <1>1, <1>9 DEF Inv, BridgeInv
  <2>2. proc[q] \in Active  BY <2>1 DEF Inv, TypeOK
  <2>3. b \notin proc[q].wrote  BY <1>1, <2>1 DEF Wrote
  <2>4. \A a \in proc[q].wrote : assess'[a] = assess[a]
    <3>1. proc[q].wrote \subseteq Bundles \ {b}  BY <2>2, <2>3 DEF Active
    <3>2. QED  BY <3>1, <1>4
  <2>5. docs' = docs /\ proc' = proc  BY <1>1
  <2>6. QED  BY <2>1, <2>4, <2>5 DEF Sound
<1>10. QED  BY <1>1, <1>5, <1>6, <1>8, <1>9 DEF Inv, TypeOK, BridgeInv

-----------------------------------------------------------------------------
LEMMA InitInv == Init => Inv
<1> SUFFICES ASSUME Init PROVE Inv  OBVIOUS
<1>1. /\ \A p \in Procs : proc[p] = Idle
      /\ \A b \in Bundles : assess[b] = NoCell
  BY DEF Init
<1>2. TypeOK  BY BoundsAssumption DEF Init, TypeOK
<1>3. CellsCite  BY <1>1 DEF CellsCite
<1>4. Locked  BY <1>1 DEF Locked, Wrote
<1>5. QED  BY <1>1, <1>2, <1>3, <1>4 DEF Inv, BridgeInv

LEMMA NextInv == Inv /\ [Next]_vars => Inv'
<1> SUFFICES ASSUME Inv, [Next]_vars PROVE Inv'  OBVIOUS
<1>1. ASSUME NEW p \in Procs, NEW op \in {"run", "sync", "init"}, NEW force \in BOOLEAN,
             Begin(p, op, force)
      PROVE  Inv'
  <2>1. BridgeInv' /\ proc' \in [Procs -> Active \cup {Idle}]  BY <1>1, BeginKeeps
  <2>2. calls' \in 0..MaxCalls /\ UNCHANGED <<offer, docs, assess, result>>
    BY <1>1, BoundsAssumption DEF Begin, rows, Inv, TypeOK
  <2>3. QED  BY <2>1, <2>2 DEF Inv, TypeOK
<1>2. ASSUME NEW p \in Procs, Stop(p) PROVE Inv'
  BY <1>2, StopKeeps DEF Stop
<1>3. ASSUME NEW p \in Procs, Step(p) PROVE Inv'
  <2>1. CASE Extract(p) \/ Assemble(p) \/ Evaluate(p) \/ Save(p) \/ CheckParticipants(p)
    BY <2>1, ExtractKeeps, AssembleKeeps, EvaluateKeeps, CheckKeeps
  <2>2. CASE Bridge(p)
    BY <2>2, ReadKeeps, NoDocumentKeeps, WriteKeeps, CellFailsKeeps, LastKeeps, CommitKeeps
       DEF Bridge
  <2>3. QED  BY <1>3, <2>1, <2>2 DEF Step
<1>4. ASSUME NEW b \in Bundles, SetScore(b) PROVE Inv'
  BY <1>4, ScoreKeeps
<1>5. CASE UNCHANGED vars
  <2>1. UNCHANGED <<offer, docs, assess, proc, result, calls>>  BY <1>5 DEF vars, rows
  <2>2. \A q \in Procs : Wrote(q)' = Wrote(q)  BY <2>1 DEF Wrote
  <2>3. \A q \in Procs : Sound(proc[q])' <=> Sound(proc[q])  BY <2>1 DEF Sound
  <2>4. QED  BY <2>1, <2>2, <2>3 DEF Inv, TypeOK, BridgeInv, CellsCite, Locked
<1>6. QED
  <2>1. CASE Next
    <3>1. CASE \E p \in Procs : \E force \in BOOLEAN : Begin(p, "run", force)
      BY <3>1, <1>1
    <3>2. CASE \E p \in Procs : \E op \in {"sync", "init"} : Begin(p, op, FALSE)
      BY <3>2, <1>1
    <3>3. CASE \E p \in Procs : Step(p) \/ Stop(p)  BY <3>3, <1>2, <1>3
    <3>4. CASE \E b \in Bundles : SetScore(b)  BY <3>4, <1>4
    <3>5. QED  BY <2>1, <3>1, <3>2, <3>3, <3>4 DEF Next
  <2>2. QED  BY <1>5, <2>1

\* The inductive invariant: documents stay, a run has read one with
\* participants, and what a bridge has written is its own until it commits.
THEOREM InvHolds == Spec => []Inv
BY InitInv, NextInv, PTL DEF Spec

\* Every value a row or a request of pipeline_v5_service.py can hold.
THEOREM PipelineTypes == Spec => []TypeOK
<1>1. Inv => TypeOK  BY DEF Inv
<1>2. QED  BY <1>1, InvHolds, PTL

\* What run_pipeline_v5 writes cites a document in which the bundle is a
\* participant, whatever fails and whoever runs next to it.
THEOREM RunsAlwaysAssessParticipants == Spec => []RunsAssessParticipants
<1>1. Inv => RunsAssessParticipants  BY DEF Inv, BridgeInv, CellsCite, RunsAssessParticipants
<1>2. QED  BY <1>1, InvHolds, PTL

\* The bridges of m14_bridge.py and m16_backfill.py lock the cells in one
\* order: of any requests, however many, one waits for no other.
LEMMA NoCircle == Inv => NoCircularWait
<1> SUFFICES ASSUME Inv, NEW S \in SUBSET Procs, S # {}
             PROVE  \E p \in S : \A q \in S : ~WaitsFor(p, q)
  BY DEF NoCircularWait
<1> DEFINE Left(p) == IF proc[p] = Idle THEN NBundles + 2 ELSE NBundles + 1 - proc[p].next
           T == {Left(p) : p \in S}
<1>1. \A p \in S : Left(p) \in Nat
  <2>1. \A p \in S : proc[p] # Idle => proc[p].next \in 1..(NBundles + 1)
    BY DEF Inv, TypeOK, Active
  <2>2. QED  BY <2>1, BoundsAssumption
<1>2. T \in SUBSET Nat /\ T # {}  BY <1>1
<1>3. PICK m \in T : \A n \in T : m <= n
  <2> HIDE DEF T
  <2>1. QED  BY <1>2, LeastNatural
<1>4. PICK p \in S : m = Left(p)  BY <1>3
<1>5. \A q \in S : Left(p) <= Left(q)  BY <1>3, <1>4
<1>6. ASSUME NEW q \in S, WaitsFor(p, q) PROVE FALSE
  <2>1. /\ proc[p].at = "cells" /\ q # p /\ proc[p].next \in Wrote(q)
    BY <1>6 DEF WaitsFor, CellOf
  <2>2. proc[p] \in Active /\ proc[p] # Idle  BY <2>1, AtStage DEF Inv
  <2>3. proc[q] # Idle /\ proc[p].next \in proc[q].wrote  BY <2>1 DEF Wrote
  <2>4. proc[q] \in Active /\ Sound(proc[q])  BY <2>3 DEF Inv, TypeOK, BridgeInv
  <2>5. proc[p].next < proc[q].next  BY <2>3, <2>4 DEF Sound
  <2>6. proc[p].next \in 1..(NBundles + 1) /\ proc[q].next \in 1..(NBundles + 1)
    BY <2>2, <2>4 DEF Active
  <2>7. Left(p) = NBundles + 1 - proc[p].next /\ Left(q) = NBundles + 1 - proc[q].next
    BY <2>2, <2>3
  <2>8. Left(p) <= Left(q)  BY <1>5
  <2> HIDE DEF Left
  <2>9. QED  BY <2>5, <2>6, <2>7, <2>8, BoundsAssumption
<1>7. QED  BY <1>6

\* However many requests write the same cells, they never wait for each other
\* in a circle.
THEOREM NeverCircularWait == Spec => []NoCircularWait
BY InvHolds, NoCircle, PTL

LEMMA ScoreStep ==
    ASSUME Inv, [Next]_vars, NEW b \in Bundles, assess[b] # NoCell, assess[b].scored
    PROVE  assess'[b] = assess[b]
<1>1. assess[b] \in Cells  BY DEF Inv, TypeOK
<1>2. ASSUME NEW p \in Procs, CommitBridge(p) PROVE assess'[b] = assess[b]
  <2>1. proc[p].at = "commit"  BY <1>2 DEF CommitBridge
  <2>2. Sound(proc[p])  BY <2>1, AtStage DEF Inv, BridgeInv
  <2>3. b \notin proc[p].wrote  BY <2>2 DEF Sound
  <2>4. QED  BY <1>2, <2>3 DEF CommitBridge
<1>3. ASSUME NEW a \in Bundles, SetScore(a) PROVE assess'[b] = assess[b]
  <2>1. assess' = [assess EXCEPT ![a].scored = TRUE]  BY <1>3 DEF SetScore
  <2>2. assess \in [Bundles -> Cells \cup {NoCell}]  BY DEF Inv, TypeOK
  <2>3. CASE a # b  BY <2>1, <2>2, <2>3
  <2>4. CASE a = b
    <3>1. assess'[b] = [assess[b] EXCEPT !.scored = TRUE]  BY <2>1, <2>2, <2>4
    <3>2. assess[b].scored = TRUE  BY <1>1 DEF Cells
    <3>3. [assess[b] EXCEPT !.scored = TRUE] = assess[b]  BY <1>1, <3>2 DEF Cells
    <3>4. QED  BY <3>1, <3>3
  <2>5. QED  BY <2>3, <2>4
<1>4. ASSUME NEW p \in Procs, Step(p), ~CommitBridge(p) PROVE assess' = assess
  BY <1>4 DEF Step, Bridge, Extract, Assemble, Evaluate, Save, Saves, CheckParticipants,
     ReadDocument, NoDocument, WriteCell, Advances, CellFails, LastCell, rows
<1>5. QED
  BY <1>2, <1>3, <1>4 DEF Next, Begin, Stop, vars, rows

\* RULE-R1 of m14_bridge.py: whatever bridges run at once, a score that an
\* evaluator has set stays, with the document it was set on.
THEOREM ScoresAlwaysStand == Spec => ScoresStand
<1>1. Inv /\ [Next]_vars
      => [\A b \in Bundles :
            (assess[b] # NoCell /\ assess[b].scored) => assess'[b] = assess[b]]_vars
  BY ScoreStep
<1>2. QED  BY <1>1, InvHolds, PTL DEF Spec, ScoresStand

-----------------------------------------------------------------------------
(* A run that is alone, and whose saves and cells have not failed, is about  *)
(* its own evaluation.                                                       *)

AloneRun(x) == x # Idle /\ x.op = "run" /\ x.alone

Faithful(x) ==
    /\ x.eligible \subseteq x.sent
    /\ x.at \notin {"cells", "commit"} => x.next = 1
    /\ x.at \in {"check", "bridge", "cells", "commit"} =>
          /\ x.own \in 1..Len(docs)
          /\ docs[x.own] = [cells |-> x.sent, listed |-> TRUE, participants |-> x.eligible]
    /\ x.at \in {"check", "bridge"} => x.own = Len(docs)
    /\ x.at \in {"bridge", "cells", "commit"} => x.eligible # {}
    /\ x.at \in {"cells", "commit"} =>
          /\ x.doc = x.own
          /\ \A b \in x.eligible : b < x.next =>
                b \in x.wrote \/ (assess[b] # NoCell /\ assess[b].scored)
    /\ x.at = "commit" => x.next = NBundles + 1

AloneInv ==
    \A p \in Procs : AloneRun(proc[p]) =>
        /\ \A q \in Procs \ {p} : proc[q] = Idle
        /\ ~proc[p].muted => Faithful(proc[p])

\* A step of p that becomes r: if p was not alone, nobody is.
LEMMA AloneStep ==
    ASSUME Inv, AloneInv, NEW p \in Procs, proc[p] # Idle,
           NEW r \in Active \cup {Idle}, Becomes(p, r),
           AloneRun(r) => AloneRun(proc[p]) /\ (~r.muted => Faithful(proc[p])')
    PROVE  AloneInv'
<1>1. proc'[p] = r /\ \A q \in Procs : q # p => proc'[q] = proc[q]  BY ProcSet DEF Inv
<1>2. ASSUME NEW q \in Procs, q # p PROVE ~AloneRun(proc'[q])
  BY <1>1, <1>2 DEF AloneInv
<1>3. AloneRun(r) => \A q \in Procs \ {p} : proc'[q] = Idle
  BY <1>1 DEF AloneInv
<1>4. QED  BY <1>1, <1>2, <1>3 DEF AloneInv

LEMMA AloneEnds ==
    ASSUME Inv, AloneInv, NEW p \in Procs, proc[p] # Idle, Becomes(p, Idle) PROVE AloneInv'
BY AloneStep DEF AloneRun

LEMMA BeginAlone ==
    ASSUME Inv, AloneInv, NEW p \in Procs, NEW op \in {"run", "sync", "init"},
           NEW force \in BOOLEAN, Begin(p, op, force)
    PROVE  AloneInv'
<1> DEFINE others == {q \in Procs : proc[q] # Idle}
           new == [op |-> op, at |-> IF op = "run" THEN "extract" ELSE "bridge",
                   force |-> force, sent |-> {}, eligible |-> {}, own |-> 0, doc |-> 0,
                   next |-> 1, wrote |-> {}, alone |-> others = {}, muted |-> FALSE]
           Alone(q) == [proc[q] EXCEPT !.alone = FALSE]
<1>1. /\ proc' = [q \in Procs |-> CASE q = p -> new
                                    [] q \in others -> Alone(q)
                                    [] OTHER -> proc[q]]
      /\ p \notin others
  BY DEF Begin
<1>2. proc'[p] = new
  <2> HIDE DEF new, others, Alone
  <2>1. QED  BY <1>1
<1>3. ASSUME NEW q \in Procs, q # p
      PROVE  /\ q \in others => ~AloneRun(proc'[q])
             /\ q \notin others => proc'[q] = Idle
  <2>1. CASE q \in others
    <3>1. proc'[q] = Alone(q)
      <4> HIDE DEF new, others, Alone
      <4>1. QED  BY <1>1, <1>3, <2>1
    <3>2. proc[q] \in Active  BY <2>1 DEF Inv, TypeOK
    <3>3. Alone(q).alone = FALSE  BY <3>2 DEF Active
    <3>4. QED  BY <2>1, <3>1, <3>3 DEF AloneRun
  <2>2. CASE q \notin others
    <3>1. proc[q] = Idle  BY <2>2
    <3>2. proc'[q] = proc[q]
      <4> HIDE DEF new, others, Alone
      <4>1. QED  BY <1>1, <1>3, <2>2
    <3>3. QED  BY <2>2, <3>1, <3>2
  <2>3. QED  BY <2>1, <2>2
<1>4. AloneRun(new) => others = {} /\ new.at = "extract"  BY DEF AloneRun
<1>5. new.at = "extract" => Faithful(proc[p])'  BY <1>2 DEF Faithful
<1>6. ASSUME AloneRun(proc'[p])
      PROVE  /\ \A q \in Procs \ {p} : proc'[q] = Idle
             /\ Faithful(proc[p])'
  <2>1. others = {} /\ new.at = "extract"  BY <1>2, <1>4, <1>6
  <2> HIDE DEF others, new
  <2>2. QED  BY <2>1, <1>3, <1>5
<1>7. ASSUME NEW q \in Procs, q # p PROVE ~AloneRun(proc'[q])
  BY <1>3, <1>7 DEF AloneRun
<1>8. QED  BY <1>6, <1>7 DEF AloneInv

LEMMA RunGoes ==
    ASSUME Inv, AloneInv, NEW p \in Procs, proc[p] # Idle, NEW r \in Active, Becomes(p, r),
           r.op = proc[p].op, r.alone = proc[p].alone,
           (AloneRun(proc[p]) /\ ~r.muted) => Faithful(proc[p])'
    PROVE  AloneInv'
<1>1. AloneRun(r) => AloneRun(proc[p])  BY DEF AloneRun
<1>2. QED  BY <1>1, AloneStep

\* Up to the participants a run is faithful when what it keeps was eligible.
LEMMA EarlyAlone ==
    ASSUME Inv, AloneInv, NEW p \in Procs, NEW at \in {"assemble", "evaluate", "save"},
           proc[p].at \in {"extract", "assemble", "evaluate"},
           NEW sent \in SUBSET Bundles, NEW eligible \in SUBSET Bundles, NEW own \in Nat,
           NEW muted \in BOOLEAN,
           Becomes(p, [proc[p] EXCEPT !.at = at, !.sent = sent, !.eligible = eligible,
                                      !.own = own, !.muted = muted]),
           (AloneRun(proc[p]) /\ ~muted) => (eligible \subseteq sent /\ proc[p].next = 1)
    PROVE  AloneInv'
<1> DEFINE r == [proc[p] EXCEPT !.at = at, !.sent = sent, !.eligible = eligible,
                                !.own = own, !.muted = muted]
<1>1. proc[p] \in Active /\ proc[p] # Idle  BY AtStage DEF Inv
<1>2. /\ r \in Active /\ r.at = at /\ r.sent = sent /\ r.eligible = eligible
      /\ r.op = proc[p].op /\ r.alone = proc[p].alone /\ r.muted = muted
      /\ r.next = proc[p].next
  BY <1>1 DEF Active, Ats
<1>3. Becomes(p, r)  OBVIOUS
<1> HIDE DEF r
<1>4. proc'[p] = r  BY <1>2, <1>3, ProcSet DEF Inv
<1>5. (AloneRun(proc[p]) /\ ~r.muted) => Faithful(proc[p])'
  <2>1. /\ proc'[p].at = at /\ proc'[p].sent = sent /\ proc'[p].eligible = eligible
        /\ proc'[p].next = proc[p].next
    BY <1>2, <1>4
  <2>2. (eligible \subseteq sent /\ proc[p].next = 1) => Faithful(proc[p])'
    BY <2>1 DEF Faithful
  <2>3. r.muted = muted  BY <1>2
  <2>4. QED  BY <2>2, <2>3
<1>6. QED  BY <1>1, <1>2, <1>3, <1>5, RunGoes

LEMMA ExtractAlone == ASSUME Inv, AloneInv, NEW p \in Procs, Extract(p) PROVE AloneInv'
<1>1. proc[p].at = "extract" /\ Becomes(p, [proc[p] EXCEPT !.at = "assemble"])
  BY DEF Extract, Goes
<1>2. proc[p] \in Active /\ proc[p] # Idle  BY <1>1, AtStage DEF Inv
<1>3. Becomes(p, [proc[p] EXCEPT !.at = "assemble", !.sent = proc[p].sent,
                    !.eligible = proc[p].eligible, !.own = proc[p].own, !.muted = proc[p].muted])
  BY <1>1, <1>2 DEF Active
<1>4. /\ proc[p].sent \in SUBSET Bundles /\ proc[p].eligible \in SUBSET Bundles
      /\ proc[p].own \in Nat /\ proc[p].muted \in BOOLEAN
  BY <1>2 DEF Active
<1>5. (AloneRun(proc[p]) /\ ~proc[p].muted)
      => (proc[p].eligible \subseteq proc[p].sent /\ proc[p].next = 1)
  BY <1>1 DEF AloneInv, Faithful
<1>6. QED  BY <1>1, <1>3, <1>4, <1>5, EarlyAlone

LEMMA AssembleAlone == ASSUME Inv, AloneInv, NEW p \in Procs, Assemble(p) PROVE AloneInv'
<1>0. proc[p].at = "assemble"  BY DEF Assemble
<1>1. proc[p] \in Active /\ proc[p] # Idle  BY <1>0, AtStage DEF Inv
<1>2. CASE Ends(p, "refused")  BY <1>1, <1>2, AloneEnds DEF Ends
<1>3. CASE ~Refused(p)
  <2>1. PICK sent \in SUBSET {b \in Bundles : offer[b] = "ok"} : \E eligible \in SUBSET sent :
           Becomes(p, [proc[p] EXCEPT !.at = "evaluate", !.sent = sent, !.eligible = eligible])
    BY <1>3 DEF Assemble
  <2>2. PICK eligible \in SUBSET sent :
           Becomes(p, [proc[p] EXCEPT !.at = "evaluate", !.sent = sent, !.eligible = eligible])
    BY <2>1
  <2>3. Becomes(p, [proc[p] EXCEPT !.at = "evaluate", !.sent = sent, !.eligible = eligible,
                                   !.own = proc[p].own, !.muted = proc[p].muted])
    BY <2>2, <1>1 DEF Active
  <2>4. /\ sent \in SUBSET Bundles /\ eligible \in SUBSET Bundles /\ eligible \subseteq sent
        /\ proc[p].own \in Nat /\ proc[p].muted \in BOOLEAN
    BY <1>1 DEF Active
  <2>5. PICK own \in Nat, muted \in BOOLEAN : own = proc[p].own /\ muted = proc[p].muted
    BY <2>4
  <2>6. Becomes(p, [proc[p] EXCEPT !.at = "evaluate", !.sent = sent, !.eligible = eligible,
                                   !.own = own, !.muted = muted])
    BY <2>3, <2>5
  <2>7. proc[p].at \in {"extract", "assemble", "evaluate"}  BY <1>0
  <2>8. (AloneRun(proc[p]) /\ ~muted) => (eligible \subseteq sent /\ proc[p].next = 1)
    BY <1>0, <2>4, <2>5 DEF AloneInv, Faithful
  <2>9. QED  BY <2>4, <2>6, <2>7, <2>8, EarlyAlone
<1>4. QED  BY <1>2, <1>3 DEF Assemble

LEMMA EvaluateAlone == ASSUME Inv, AloneInv, NEW p \in Procs, Evaluate(p) PROVE AloneInv'
<1>0. proc[p].at = "evaluate"  BY DEF Evaluate
<1>1. proc[p] \in Active /\ proc[p] # Idle  BY <1>0, AtStage DEF Inv
<1>2. PICK own \in Nat, muted \in BOOLEAN :
        /\ Becomes(p, [proc[p] EXCEPT !.at = "save", !.sent = proc[p].sent,
                         !.eligible = proc[p].eligible, !.own = own, !.muted = muted])
        /\ proc[p].muted => muted
  <2>1. CASE Becomes(p, [proc[p] EXCEPT !.at = "save", !.own = Len(docs) + 1])
    <3>1. Becomes(p, [proc[p] EXCEPT !.at = "save", !.sent = proc[p].sent,
                        !.eligible = proc[p].eligible, !.own = Len(docs) + 1,
                        !.muted = proc[p].muted])
      BY <1>1, <2>1 DEF Active
    <3>2. PICK own \in Nat, muted \in BOOLEAN : own = Len(docs) + 1 /\ muted = proc[p].muted
      BY <1>1 DEF Inv, TypeOK, Active
    <3>3. Becomes(p, [proc[p] EXCEPT !.at = "save", !.sent = proc[p].sent,
                        !.eligible = proc[p].eligible, !.own = own, !.muted = muted])
      BY <3>1, <3>2
    <3>4. QED  BY <3>2, <3>3
  <2>2. CASE Becomes(p, [proc[p] EXCEPT !.at = "save", !.muted = TRUE])
    <3>1. Becomes(p, [proc[p] EXCEPT !.at = "save", !.sent = proc[p].sent,
                        !.eligible = proc[p].eligible, !.own = proc[p].own, !.muted = TRUE])
      BY <1>1, <2>2 DEF Active
    <3>2. proc[p].own \in Nat  BY <1>1 DEF Active
    <3>3. QED  BY <3>1, <3>2
  <2>3. QED  BY <2>1, <2>2 DEF Evaluate, Saves
<1>3. proc[p].sent \in SUBSET Bundles /\ proc[p].eligible \in SUBSET Bundles
  BY <1>1 DEF Active
<1>4. (AloneRun(proc[p]) /\ ~muted)
      => (proc[p].eligible \subseteq proc[p].sent /\ proc[p].next = 1)
  BY <1>0, <1>2 DEF AloneInv, Faithful
<1>5. QED  BY <1>0, <1>2, <1>3, <1>4, EarlyAlone

LEMMA SaveAlone == ASSUME Inv, AloneInv, NEW p \in Procs, Save(p) PROVE AloneInv'
<1>0. proc[p].at = "save"  BY DEF Save
<1> DEFINE x == proc[p]
           d == [cells |-> x.sent, listed |-> TRUE, participants |-> x.eligible]
<1>1. x \in Active /\ x # Idle  BY <1>0, AtStage DEF Inv
<1>2. (AloneRun(x) /\ ~x.muted) => (x.eligible \subseteq x.sent /\ x.next = 1)
  BY <1>0 DEF AloneInv, Faithful
<1>3. CASE docs' = Append(docs, d) /\ Becomes(p, [x EXCEPT !.at = "check", !.own = Len(docs) + 1])
  <2>1. docs \in Seq(Document) /\ d \in Document
    BY <1>1 DEF Inv, TypeOK, Active, Document
  <2> HIDE DEF d
  <2>2. PICK n \in Nat : n = Len(docs) + 1  BY <2>1
  <2>3. n \in 1..Len(docs') /\ n = Len(docs') /\ docs'[n] = d  BY <1>3, <2>1, <2>2
  <2> DEFINE r == [x EXCEPT !.at = "check", !.own = n]
  <2>4. /\ r \in Active /\ r.at = "check" /\ r.own = n /\ r.sent = x.sent
        /\ r.eligible = x.eligible /\ r.op = x.op /\ r.alone = x.alone /\ r.muted = x.muted
        /\ r.next = x.next
    BY <1>1 DEF Active, Ats
  <2>5. Becomes(p, r)  BY <1>3, <2>2
  <2> HIDE DEF r
  <2>6. proc'[p] = r  BY <2>4, <2>5, ProcSet DEF Inv
  <2>7. (AloneRun(proc[p]) /\ ~r.muted) => Faithful(proc[p])'
    <3>1. /\ proc'[p].at = "check" /\ proc'[p].own = n /\ proc'[p].sent = x.sent
          /\ proc'[p].eligible = x.eligible /\ proc'[p].next = x.next
      BY <2>4, <2>6
    <3>2. (x.eligible \subseteq x.sent /\ x.next = 1) => Faithful(proc[p])'
      BY <2>3, <3>1 DEF Faithful, d
    <3>3. r.muted = proc[p].muted  BY <2>4
    <3>4. QED  BY <1>2, <3>2, <3>3
  <2>8. r.op = proc[p].op /\ r.alone = proc[p].alone /\ proc[p] # Idle  BY <1>1, <2>4
  <2>9. QED  BY <2>4, <2>5, <2>7, <2>8, RunGoes
<1>4. CASE Becomes(p, [x EXCEPT !.at = "check", !.muted = TRUE])
  <2> DEFINE r == [x EXCEPT !.at = "check", !.muted = TRUE]
  <2>1. r \in Active /\ r.op = x.op /\ r.alone = x.alone /\ r.muted = TRUE
    BY <1>1 DEF Active, Ats
  <2>2. Becomes(p, r)  BY <1>4
  <2> HIDE DEF r
  <2>3. r.op = proc[p].op /\ r.alone = proc[p].alone /\ proc[p] # Idle  BY <1>1, <2>1
  <2>4. QED  BY <2>1, <2>2, <2>3, RunGoes
<1>5. QED  BY <1>3, <1>4 DEF Save, Saves

LEMMA CheckAlone == ASSUME Inv, AloneInv, NEW p \in Procs, CheckParticipants(p) PROVE AloneInv'
<1>0. proc[p].at = "check" /\ UNCHANGED <<docs, assess>>  BY DEF CheckParticipants, rows
<1> DEFINE x == proc[p]
<1>1. x \in Active /\ x # Idle  BY <1>0, AtStage DEF Inv
<1>2. CASE Ends(p, "refused")  BY <1>1, <1>2, AloneEnds DEF Ends
<1>3. CASE x.eligible # {} /\ Goes(p, "bridge")
  <2> DEFINE r == [x EXCEPT !.at = "bridge"]
  <2>1. /\ r \in Active /\ r.at = "bridge" /\ r.own = x.own /\ r.sent = x.sent
        /\ r.eligible = x.eligible /\ r.op = x.op /\ r.alone = x.alone /\ r.muted = x.muted
        /\ r.next = x.next
    BY <1>1 DEF Active, Ats
  <2>2. Becomes(p, r)  BY <1>3 DEF Goes
  <2> HIDE DEF r
  <2>3. proc'[p] = r  BY <2>1, <2>2, ProcSet DEF Inv
  <2>4. (AloneRun(proc[p]) /\ ~r.muted) => Faithful(proc[p])'
    <3>1. /\ proc'[p].at = "bridge" /\ proc'[p].own = x.own /\ proc'[p].sent = x.sent
          /\ proc'[p].eligible = x.eligible /\ docs' = docs /\ proc'[p].next = x.next
      BY <1>0, <2>1, <2>3
    <3>2. Faithful(proc[p]) => Faithful(proc[p])'
      BY <1>0, <1>3, <3>1 DEF Faithful
    <3>3. r.muted = proc[p].muted  BY <2>1
    <3>4. QED  BY <3>2, <3>3 DEF AloneInv
  <2>5. r.op = proc[p].op /\ r.alone = proc[p].alone /\ proc[p] # Idle  BY <1>1, <2>1
  <2>6. QED  BY <2>1, <2>2, <2>4, <2>5, RunGoes
<1>4. QED  BY <1>2, <1>3 DEF CheckParticipants

LEMMA ReadAlone == ASSUME Inv, AloneInv, NEW p \in Procs, ReadDocument(p) PROVE AloneInv'
<1>0. proc[p].at = "bridge" /\ docs # <<>> /\ UNCHANGED <<docs, assess>>
  BY DEF ReadDocument, rows
<1> DEFINE x == proc[p]
<1>1. x \in Active /\ x # Idle  BY <1>0, AtStage DEF Inv
<1>2. CASE Ends(p, "stopped")  BY <1>1, <1>2, AloneEnds DEF Ends
<1>3. CASE Becomes(p, [x EXCEPT !.at = "cells", !.doc = Len(docs)])
  <2>1. PICK n \in Nat : n = Len(docs)  BY DEF Inv, TypeOK
  <2> DEFINE r == [x EXCEPT !.at = "cells", !.doc = n]
  <2>2. /\ r \in Active /\ r.at = "cells" /\ r.own = x.own /\ r.sent = x.sent /\ r.doc = n
        /\ r.eligible = x.eligible /\ r.op = x.op /\ r.alone = x.alone /\ r.muted = x.muted
        /\ r.next = x.next /\ r.wrote = x.wrote
    BY <1>1 DEF Active, Ats
  <2>3. Becomes(p, r)  BY <1>3, <2>1
  <2> HIDE DEF r
  <2>4. proc'[p] = r  BY <2>2, <2>3, ProcSet DEF Inv
  <2>5. (AloneRun(proc[p]) /\ ~r.muted) => Faithful(proc[p])'
    <3>1. /\ proc'[p].at = "cells" /\ proc'[p].own = x.own /\ proc'[p].sent = x.sent
          /\ proc'[p].eligible = x.eligible /\ proc'[p].doc = n /\ docs' = docs
          /\ proc'[p].next = x.next
      BY <1>0, <2>2, <2>4
    <3>2. \A b \in x.eligible : b \in Nat /\ b >= 1  BY <1>1 DEF Active, Bundles
    <3>3. Faithful(proc[p]) => Faithful(proc[p])'
      BY <1>0, <2>1, <3>1, <3>2 DEF Faithful
    <3>4. r.muted = proc[p].muted  BY <2>2
    <3>5. QED  BY <3>3, <3>4 DEF AloneInv
  <2>6. r.op = proc[p].op /\ r.alone = proc[p].alone /\ proc[p] # Idle  BY <1>1, <2>2
  <2>7. QED  BY <2>2, <2>3, <2>5, <2>6, RunGoes
<1>4. QED  BY <1>2, <1>3 DEF ReadDocument

LEMMA WriteAlone == ASSUME Inv, AloneInv, NEW p \in Procs, WriteCell(p) PROVE AloneInv'
<1>0. proc[p].at = "cells" /\ proc[p].next <= NBundles /\ UNCHANGED <<docs, assess>>
  BY DEF WriteCell, Advances, rows
<1> DEFINE x == proc[p]
<1>1. x \in Active /\ x # Idle /\ Sound(x)  BY <1>0, AtStage DEF Inv, BridgeInv
<1>2. x.next \in Bundles /\ x.next \in Nat  BY <1>0, <1>1 DEF Active, Bundles
<1>3. PICK w \in SUBSET {x.next} :
          /\ Advances(p, w)
          /\ Concerns(p, x.next) => w # {} \/ ~Writable(x.op, assess[x.next])
  <2>1. CASE ~Concerns(p, x.next)
    <3>1. Advances(p, {})  BY <2>1 DEF WriteCell, CellOf
    <3>2. QED  BY <2>1, <3>1
  <2>2. CASE Writable(x.op, assess[x.next]) /\ Concerns(p, x.next)
    <3>1. Advances(p, {x.next})  BY <2>2 DEF WriteCell, CellOf
    <3>2. QED  BY <3>1
  <2>3. CASE ~Writable(x.op, assess[x.next]) /\ Concerns(p, x.next)
    <3>1. Advances(p, {})  BY <2>3 DEF WriteCell, CellOf
    <3>2. QED  BY <2>3, <3>1
  <2>4. QED  BY <2>1, <2>2, <2>3
<1> DEFINE r == [x EXCEPT !.next = x.next + 1, !.wrote = x.wrote \cup w]
<1>4. Becomes(p, r)  BY <1>3 DEF Advances
<1>5. /\ r \in Active /\ r.at = "cells" /\ r.own = x.own /\ r.sent = x.sent /\ r.doc = x.doc
      /\ r.eligible = x.eligible /\ r.op = x.op /\ r.alone = x.alone /\ r.muted = x.muted
      /\ r.next = x.next + 1 /\ r.wrote = x.wrote \cup w
  <2>1. x.next + 1 \in 1..(NBundles + 1) /\ x.wrote \cup w \in SUBSET Bundles
    BY <1>0, <1>1, <1>2, BoundsAssumption DEF Active
  <2>2. QED  BY <1>0, <1>1, <2>1 DEF Active
<1> HIDE DEF r
<1>6. proc'[p] = r  BY <1>4, <1>5, ProcSet DEF Inv
<1>7. (AloneRun(proc[p]) /\ ~r.muted) => Faithful(proc[p])'
  <2> SUFFICES ASSUME AloneRun(proc[p]), ~r.muted PROVE Faithful(proc[p])'  OBVIOUS
  <2>1. Faithful(x) /\ x.op = "run"  BY <1>5 DEF AloneInv, AloneRun
  <2>2. x.next \in x.eligible =>
           x.next \in w \/ (assess[x.next] # NoCell /\ assess[x.next].scored)
    <3>1. docs[x.doc] = [cells |-> x.sent, listed |-> TRUE, participants |-> x.eligible]
      BY <1>0, <2>1 DEF Faithful
    <3>2. x.eligible \subseteq x.sent  BY <2>1 DEF Faithful
    <3>3. x.next \in x.eligible => Concerns(p, x.next)  BY <3>1, <3>2 DEF Concerns
    <3>4. ~Writable(x.op, assess[x.next]) =>
             assess[x.next] # NoCell /\ assess[x.next].scored
      BY <2>1 DEF Writable
    <3>5. QED  BY <1>3, <3>3, <3>4
  <2>3. \A b \in x.eligible : b < x.next + 1 => b < x.next \/ b = x.next
    BY <1>1, <1>2 DEF Active, Bundles
  <2>4. \A b \in x.eligible : b < x.next + 1 =>
           b \in x.wrote \cup w \/ (assess[b] # NoCell /\ assess[b].scored)
    BY <1>0, <2>1, <2>2, <2>3 DEF Faithful
  <2>5. /\ proc'[p].at = "cells" /\ proc'[p].own = x.own /\ proc'[p].sent = x.sent
        /\ proc'[p].eligible = x.eligible /\ proc'[p].doc = x.doc
        /\ proc'[p].next = x.next + 1 /\ proc'[p].wrote = x.wrote \cup w
        /\ docs' = docs /\ assess' = assess
    BY <1>0, <1>5, <1>6
  <2>6. QED
    <3>1. x.at = "cells"  BY <1>0
    <3> HIDE DEF x
    <3>2. QED  BY <3>1, <2>1, <2>4, <2>5 DEF Faithful
<1>8. r.op = proc[p].op /\ r.alone = proc[p].alone /\ proc[p] # Idle  BY <1>1, <1>5
<1>9. QED  BY <1>4, <1>5, <1>7, <1>8, RunGoes

LEMMA CellFailsAlone == ASSUME Inv, AloneInv, NEW p \in Procs, CellFails(p) PROVE AloneInv'
<1> DEFINE r == [proc[p] EXCEPT !.at = "commit", !.wrote = {}, !.muted = TRUE]
<1>0. proc[p].at = "cells" /\ Becomes(p, r)  BY DEF CellFails
<1>1. proc[p] \in Active /\ proc[p] # Idle  BY <1>0, AtStage DEF Inv
<1>2. r \in Active /\ r.op = proc[p].op /\ r.alone = proc[p].alone /\ r.muted = TRUE
  BY <1>1 DEF Active, Ats
<1> HIDE DEF r
<1>3. QED  BY <1>0, <1>1, <1>2, RunGoes

LEMMA LastAlone == ASSUME Inv, AloneInv, NEW p \in Procs, LastCell(p) PROVE AloneInv'
<1> DEFINE x == proc[p]
           r == [x EXCEPT !.at = "commit"]
<1>0. x.at = "cells" /\ x.next > NBundles /\ Becomes(p, r) /\ UNCHANGED <<docs, assess>>
  BY DEF LastCell, Goes, rows
<1>1. x \in Active /\ x # Idle  BY <1>0, AtStage DEF Inv
<1>2. x.next = NBundles + 1  BY <1>0, <1>1, BoundsAssumption DEF Active
<1>3. /\ r \in Active /\ r.at = "commit" /\ r.own = x.own /\ r.sent = x.sent /\ r.doc = x.doc
      /\ r.eligible = x.eligible /\ r.op = x.op /\ r.alone = x.alone /\ r.muted = x.muted
      /\ r.next = x.next /\ r.wrote = x.wrote
  BY <1>1 DEF Active, Ats
<1> HIDE DEF r
<1>4. proc'[p] = r  BY <1>0, <1>3, ProcSet DEF Inv
<1>5. (AloneRun(proc[p]) /\ ~r.muted) => Faithful(proc[p])'
  <2>1. /\ proc'[p].at = "commit" /\ proc'[p].own = x.own /\ proc'[p].sent = x.sent
        /\ proc'[p].eligible = x.eligible /\ proc'[p].doc = x.doc
        /\ proc'[p].next = x.next /\ proc'[p].wrote = x.wrote
        /\ docs' = docs /\ assess' = assess
    BY <1>0, <1>3, <1>4
  <2>2. Faithful(proc[p]) => Faithful(proc[p])'  BY <1>0, <1>2, <2>1 DEF Faithful
  <2>3. r.muted = proc[p].muted  BY <1>3
  <2>4. QED  BY <2>2, <2>3 DEF AloneInv
<1>6. r.op = proc[p].op /\ r.alone = proc[p].alone /\ proc[p] # Idle  BY <1>1, <1>3
<1>7. QED  BY <1>0, <1>3, <1>5, <1>6, RunGoes

LEMMA ScoreAlone == ASSUME Inv, AloneInv, NEW b \in Bundles, SetScore(b) PROVE AloneInv'
<1>1. /\ assess[b] # NoCell /\ assess' = [assess EXCEPT ![b].scored = TRUE]
      /\ UNCHANGED <<docs, proc>>
  BY DEF SetScore
<1>2. assess[b] \in Cells /\ assess \in [Bundles -> Cells \cup {NoCell}]
  BY <1>1 DEF Inv, TypeOK
<1>3. assess'[b] = [assess[b] EXCEPT !.scored = TRUE] /\ \A a \in Bundles \ {b} : assess'[a] = assess[a]
  BY <1>1, <1>2
<1>4. assess'[b].scored /\ assess'[b] # NoCell
  <2>1. assess'[b] \in Cells /\ assess'[b].scored  BY <1>2, <1>3 DEF Cells
  <2>2. QED  BY <2>1 DEF Cells, NoCell
<1>5. ASSUME NEW a \in Bundles, assess[a] # NoCell /\ assess[a].scored
      PROVE  assess'[a] # NoCell /\ assess'[a].scored
  BY <1>3, <1>4, <1>5
<1>6. ASSUME NEW p \in Procs, AloneRun(proc[p]), Faithful(proc[p]) PROVE Faithful(proc[p])'
  <2>1. proc[p] \in Active  BY <1>6 DEF AloneRun, Inv, TypeOK
  <2>2. proc[p].eligible \subseteq Bundles  BY <2>1 DEF Active
  <2>3. \A a \in proc[p].eligible : (assess[a] # NoCell /\ assess[a].scored) =>
           (assess'[a] # NoCell /\ assess'[a].scored)
    BY <2>2, <1>5
  <2>4. proc' = proc /\ docs' = docs  BY <1>1
  <2>5. QED  BY <1>6, <2>3, <2>4 DEF Faithful
<1>7. proc' = proc  BY <1>1
<1>8. QED  BY <1>6, <1>7 DEF AloneInv

LEMMA NextAlone == Inv /\ AloneInv /\ [Next]_vars => AloneInv'
<1> SUFFICES ASSUME Inv, AloneInv, [Next]_vars PROVE AloneInv'  OBVIOUS
<1>1. ASSUME NEW p \in Procs, Stop(p) PROVE AloneInv'
  BY <1>1, AloneEnds DEF Stop, Ends
<1>2. ASSUME NEW p \in Procs, NoDocument(p) \/ CommitBridge(p) PROVE AloneInv'
  <2>1. proc[p].at \in {"bridge", "commit"} /\ Becomes(p, Idle)
    BY <1>2 DEF NoDocument, CommitBridge, Ends
  <2>2. proc[p] # Idle  BY <2>1, AtStage DEF Inv
  <2>3. QED  BY <2>1, <2>2, AloneEnds
<1>3. ASSUME NEW p \in Procs, Step(p) PROVE AloneInv'
  BY <1>2, <1>3, ExtractAlone, AssembleAlone, EvaluateAlone, SaveAlone, CheckAlone,
     ReadAlone, WriteAlone, CellFailsAlone, LastAlone DEF Step, Bridge
<1>4. CASE UNCHANGED vars
  <2>1. UNCHANGED <<docs, assess, proc>>  BY <1>4 DEF vars, rows
  <2>2. \A q \in Procs : Faithful(proc[q])' <=> Faithful(proc[q])  BY <2>1 DEF Faithful
  <2>3. QED  BY <2>1, <2>2 DEF AloneInv
<1>5. CASE Next
  <2>1. CASE \E p \in Procs : \E force \in BOOLEAN : Begin(p, "run", force)
    BY <2>1, BeginAlone
  <2>2. CASE \E p \in Procs : \E op \in {"sync", "init"} : Begin(p, op, FALSE)
    BY <2>2, BeginAlone
  <2>3. CASE \E p \in Procs : Step(p) \/ Stop(p)  BY <2>3, <1>1, <1>3
  <2>4. CASE \E b \in Bundles : SetScore(b)  BY <2>4, ScoreAlone
  <2>5. QED  BY <1>5, <2>1, <2>2, <2>3, <2>4 DEF Next
<1>6. QED  BY <1>4, <1>5

\* The step at which a request completes.
LEMMA CompletingStep ==
    ASSUME Inv, [Next]_vars, NEW p \in Procs, proc[p] # Idle, proc'[p] = Idle,
           result'[p] = "completed"
    PROVE  NoDocument(p) \/ CommitBridge(p)
<1>1. ASSUME NEW q \in Procs, NEW op \in {"run", "sync", "init"}, NEW force \in BOOLEAN,
             Begin(q, op, force)
      PROVE  FALSE
  <2> DEFINE others == {o \in Procs : proc[o] # Idle}
             new == [op |-> op, at |-> IF op = "run" THEN "extract" ELSE "bridge",
                     force |-> force, sent |-> {}, eligible |-> {}, own |-> 0, doc |-> 0,
                     next |-> 1, wrote |-> {}, alone |-> others = {}, muted |-> FALSE]
             Alone(o) == [proc[o] EXCEPT !.alone = FALSE]
  <2>1. /\ proc' = [o \in Procs |-> CASE o = q -> new
                                      [] o \in others -> Alone(o)
                                      [] OTHER -> proc[o]]
        /\ p # q /\ p \in others
    BY <1>1 DEF Begin
  <2>2. proc'[p] = Alone(p)
    <3> HIDE DEF new, others, Alone
    <3>1. QED  BY <2>1
  <2>3. proc[p] \in Active  BY DEF Inv, TypeOK
  <2>4. Alone(p) \in Active  BY <2>3 DEF Active
  <2> HIDE DEF Alone
  <2>5. QED  BY <2>2, <2>4, ActiveNotIdle
<1>2. ASSUME NEW q \in Procs, NEW how \in {"refused", "stopped"}, Ends(q, how) PROVE FALSE
  <2>1. CASE q = p
    <3>1. result' = [result EXCEPT ![p] = how]  BY <1>2, <2>1 DEF Ends
    <3>2. result'[p] = how  BY <3>1 DEF Inv, TypeOK
    <3>3. QED  BY <3>2
  <2>2. CASE q # p
    <3>1. proc' = [proc EXCEPT ![q] = Idle]  BY <1>2 DEF Ends, Becomes
    <3>2. proc'[p] = proc[p]  BY <2>2, <3>1
    <3>3. QED  BY <3>2
  <2>3. QED  BY <2>1, <2>2
<1>3. ASSUME proc'[p] = proc[p] \/ proc'[p].at # "idle" PROVE FALSE  BY <1>3 DEF Idle
<1>4. ASSUME NEW q \in Procs, q # p, Step(q) PROVE FALSE
  <2>1. \E r : proc' = [proc EXCEPT ![q] = r]
    BY <1>4 DEF Step, Bridge, Extract, Assemble, Evaluate, Save, Saves, CheckParticipants,
       ReadDocument, NoDocument, WriteCell, Advances, CellFails, LastCell, CommitBridge,
       Goes, Ends, Becomes
  <2>2. proc'[p] = proc[p]  BY <1>4, <2>1
  <2>3. QED  BY <2>2, <1>3
<1>5. ASSUME Step(p), ~NoDocument(p), ~CommitBridge(p) PROVE FALSE
  <2>1. proc[p] \in Active  BY DEF Inv, TypeOK
  <2>2. ASSUME NEW r, r.at # "idle", Becomes(p, r) PROVE FALSE
    <3>1. proc'[p] = r  BY <2>2 DEF Becomes, Inv, TypeOK
    <3>2. QED  BY <2>2, <3>1 DEF Idle
  <2>3. CASE Extract(p)
    <3>1. Becomes(p, [proc[p] EXCEPT !.at = "assemble"])  BY <2>3 DEF Extract, Goes
    <3>2. [proc[p] EXCEPT !.at = "assemble"].at # "idle"  BY <2>1 DEF Active
    <3>3. QED  BY <2>2, <3>1, <3>2
  <2>4. CASE Assemble(p)
    <3>1. CASE Ends(p, "refused")  BY <1>2, <3>1
    <3>2. CASE ~Refused(p)
      <4>1. PICK sent, eligible :
              Becomes(p, [proc[p] EXCEPT !.at = "evaluate", !.sent = sent, !.eligible = eligible])
        BY <2>4, <3>2 DEF Assemble
      <4>2. [proc[p] EXCEPT !.at = "evaluate", !.sent = sent, !.eligible = eligible].at # "idle"
        BY <2>1 DEF Active
      <4>3. QED  BY <2>2, <4>1, <4>2
    <3>3. QED  BY <2>4, <3>1, <3>2 DEF Assemble
  <2>5. ASSUME NEW at \in {"save", "check"}, NEW d, Saves(p, at, d) PROVE FALSE
    <3>1. \/ Becomes(p, [proc[p] EXCEPT !.at = at, !.own = Len(docs) + 1])
          \/ Becomes(p, [proc[p] EXCEPT !.at = at, !.muted = TRUE])
      BY <2>5 DEF Saves
    <3>2. /\ [proc[p] EXCEPT !.at = at, !.own = Len(docs) + 1].at = at
          /\ [proc[p] EXCEPT !.at = at, !.muted = TRUE].at = at
      BY <2>1 DEF Active
    <3>3. at # "idle"  BY <2>5
    <3>4. QED  BY <2>2, <3>1, <3>2, <3>3
  <2>6. CASE CheckParticipants(p)
    <3>1. CASE Ends(p, "refused")  BY <1>2, <3>1
    <3>2. CASE Goes(p, "bridge")
      <4>1. [proc[p] EXCEPT !.at = "bridge"].at # "idle"  BY <2>1 DEF Active
      <4>2. QED  BY <2>2, <3>2, <4>1 DEF Goes
    <3>3. QED  BY <2>6, <3>1, <3>2 DEF CheckParticipants
  <2>7. CASE ReadDocument(p)
    <3>1. CASE Ends(p, "stopped")  BY <1>2, <3>1
    <3>2. CASE Becomes(p, [proc[p] EXCEPT !.at = "cells", !.doc = Len(docs)])
      <4>1. [proc[p] EXCEPT !.at = "cells", !.doc = Len(docs)].at # "idle"  BY <2>1 DEF Active
      <4>2. QED  BY <2>2, <3>2, <4>1
    <3>3. QED  BY <2>7, <3>1, <3>2 DEF ReadDocument
  <2>8. CASE WriteCell(p)
    <3>1. PICK w : /\ proc[p].at = "cells"
                   /\ Becomes(p, [proc[p] EXCEPT !.next = proc[p].next + 1,
                                                 !.wrote = proc[p].wrote \cup w])
      BY <2>8 DEF WriteCell, Advances
    <3>2. [proc[p] EXCEPT !.next = proc[p].next + 1, !.wrote = proc[p].wrote \cup w].at
          = proc[p].at
      BY <2>1 DEF Active
    <3>3. QED  BY <2>2, <3>1, <3>2
  <2>9. CASE CellFails(p)
    <3>1. Becomes(p, [proc[p] EXCEPT !.at = "commit", !.wrote = {}, !.muted = TRUE])
      BY <2>9 DEF CellFails
    <3>2. [proc[p] EXCEPT !.at = "commit", !.wrote = {}, !.muted = TRUE].at # "idle"
      BY <2>1 DEF Active
    <3>3. QED  BY <2>2, <3>1, <3>2
  <2>10. CASE LastCell(p)
    <3>1. [proc[p] EXCEPT !.at = "commit"].at # "idle"  BY <2>1 DEF Active
    <3>2. QED  BY <2>2, <2>10, <3>1 DEF LastCell, Goes
  <2>11. CASE Evaluate(p) \/ Save(p)  BY <2>5, <2>11 DEF Evaluate, Save
  <2>12. QED
    BY <1>5, <2>3, <2>4, <2>6, <2>7, <2>8, <2>9, <2>10, <2>11 DEF Step, Bridge
<1>6. CASE Next
  <2>1. CASE \E q \in Procs : \E force \in BOOLEAN : Begin(q, "run", force)
    BY <2>1, <1>1
  <2>2. CASE \E q \in Procs : \E op \in {"sync", "init"} : Begin(q, op, FALSE)
    BY <2>2, <1>1
  <2>3. CASE \E q \in Procs : Step(q) \/ Stop(q)
    BY <2>3, <1>2, <1>4, <1>5 DEF Stop
  <2>4. CASE \E b \in Bundles : SetScore(b)
    BY <2>4, <1>3 DEF SetScore
  <2>5. QED  BY <1>6, <2>1, <2>2, <2>3, <2>4 DEF Next
<1>7. CASE UNCHANGED vars  BY <1>7, <1>3 DEF vars
<1>8. QED  BY <1>6, <1>7

LEMMA CompletedStep ==
    ASSUME Inv, AloneInv, [Next]_vars, NEW p \in Procs, proc[p] # Idle, proc'[p] = Idle,
           result'[p] = "completed", proc[p].op = "run", proc[p].alone, ~proc[p].muted
    PROVE  /\ proc[p].eligible # {}
           /\ \A b \in proc[p].eligible :
                 assess'[b] # NoCell /\ (assess'[b].doc = proc[p].own \/ assess'[b].scored)
<1> DEFINE x == proc[p]
<1>1. x \in Active /\ Faithful(x)  BY DEF Inv, TypeOK, AloneInv, AloneRun
<1>2. NoDocument(p) \/ CommitBridge(p)  BY CompletingStep
<1>3. ~NoDocument(p)
  <2>1. SUFFICES ASSUME NoDocument(p) PROVE FALSE  OBVIOUS
  <2>2. x.own \in 1..Len(docs)  BY <1>1, <2>1 DEF NoDocument, Faithful
  <2>3. Len(docs) = 0  BY <2>1 DEF NoDocument
  <2>4. QED  BY <2>2, <2>3
<1>4. /\ x.at = "commit"
      /\ assess' = [b \in Bundles |->
                      IF b \in x.wrote
                      THEN [doc |-> x.doc, scored |-> FALSE, by |-> x.op] ELSE assess[b]]
  BY <1>2, <1>3 DEF CommitBridge
<1>5. x.eligible # {} /\ x.doc = x.own  BY <1>1, <1>4 DEF Faithful
<1>6. ASSUME NEW b \in x.eligible
      PROVE  assess'[b] # NoCell /\ (assess'[b].doc = x.own \/ assess'[b].scored)
  <2>1. b \in Bundles /\ b < x.next
    <3>1. x.next = NBundles + 1  BY <1>1, <1>4 DEF Faithful
    <3>2. b \in 1..NBundles  BY <1>1, <1>6 DEF Active, Bundles
    <3>3. QED  BY <3>1, <3>2, BoundsAssumption DEF Bundles
  <2>2. b \in x.wrote \/ (assess[b] # NoCell /\ assess[b].scored)
    BY <1>1, <1>4, <1>6, <2>1 DEF Faithful
  <2>3. CASE b \in x.wrote
    <3>1. assess'[b] = [doc |-> x.doc, scored |-> FALSE, by |-> x.op]
      BY <1>4, <2>1, <2>3
    <3>2. assess'[b].doc = x.own  BY <3>1, <1>5
    <3>3. assess'[b] # NoCell
      <4>1. x.own \in 1..Len(docs)  BY <1>1, <1>4 DEF Faithful
      <4>2. x.own # 0  BY <4>1
      <4>3. QED  BY <3>2, <4>2 DEF NoCell
    <3>4. QED  BY <3>2, <3>3
  <2>4. CASE b \notin x.wrote
    <3>1. assess'[b] = assess[b]  BY <1>4, <2>1, <2>4
    <3>2. QED  BY <2>2, <2>4, <3>1
  <2>5. QED  BY <2>3, <2>4
<1>7. QED  BY <1>5, <1>6

\* A run of run_pipeline_v5 that completes, alone and without a failure nobody
\* told of, has assessed all its participants on its own evaluation, or left
\* the score an evaluator had set.
THEOREM CompletedAlwaysAssessed == Spec => CompletedIsAssessed
<1>1. Init => AloneInv
  <2>1. Init => \A p \in Procs : proc[p] = Idle  BY DEF Init
  <2>2. QED  BY <2>1 DEF AloneInv, AloneRun
<1>2. Inv /\ AloneInv /\ [Next]_vars =>
        [\A p \in Procs :
           (/\ proc[p] # Idle /\ proc'[p] = Idle /\ result'[p] = "completed"
            /\ proc[p].op = "run" /\ proc[p].alone /\ ~proc[p].muted)
           => /\ proc[p].eligible # {}
              /\ \A b \in proc[p].eligible :
                    assess'[b] # NoCell /\ (assess'[b].doc = proc[p].own \/ assess'[b].scored)]_vars
  BY CompletedStep
<1>3. QED  BY <1>1, <1>2, NextAlone, InvHolds, PTL DEF Spec, CompletedIsAssessed

=============================================================================
