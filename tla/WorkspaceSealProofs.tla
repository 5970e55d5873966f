-------------------------- MODULE WorkspaceSealProofs --------------------------
(***************************************************************************)
(* Proofs about WorkspaceSeal, for any number of connections, users, roles *)
(* and seals.  A step either is quiet, and replaces one request's record   *)
(* by another one that still satisfies what is assumed of it, or commits,  *)
(* and then the facts of every other request survive the new rows.  Two    *)
(* more parts: why every request ends, and what the quorum counts.         *)
(***************************************************************************)
EXTENDS WorkspaceSeal, FiniteSetTheorems, TLAPS

-----------------------------------------------------------------------------
(* Records. *)

\* The record of an idle connection satisfies every fact and holds no lock.
LEMMA IdleIsTxn == Idle \in Txns
BY BoundsAssumption DEF Idle, Txns, Nobody, NoPv, Rosters, NoRole

LEMMA IdleFacts == Facts(Idle)
BY DEF Idle, Facts, RequestFacts, SessionFacts, WriterFacts, HoldsSession, HoldsWs

LEMMA IdleCompatible == ASSUME NEW q PROVE Compatible(Idle, q) /\ Compatible(q, Idle)
BY DEF Idle, Compatible, HoldsSession, HoldsWs, HoldsRoster

LEMMA CompatibleIsMutual ==
    ASSUME NEW r, NEW q, Compatible(r, q)
    PROVE  Compatible(q, r)
BY DEF Compatible

\* A connection's new record replaces only its own.
LEMMA OnlyOwn ==
    ASSUME TypeOK, NEW c \in Conns, NEW r \in Txns, Becomes(c, r)
    PROVE  /\ txn' \in [Conns -> Txns]
           /\ txn'[c] = r
           /\ \A d \in Conns \ {c} : txn'[d] = txn[d]
BY DEF Becomes, TypeOK

\* A list of members written over another one is a list of members.
LEMMA UpsertedIsRoster ==
    ASSUME TypeOK, NEW w \in Rosters
    PROVE  Upserted(w) \in Rosters
BY DEF Upserted, Rosters, TypeOK

\* Moving on to another step changes nothing else.
LEMMA StepIsTxn ==
    ASSUME NEW r \in Txns, NEW x \in Steps
    PROVE  /\ [r EXCEPT !.step = x] \in Txns
           /\ [r EXCEPT !.step = x].step = x
           /\ [r EXCEPT !.step = x].op = r.op
           /\ [r EXCEPT !.step = x].target = r.target
           /\ [r EXCEPT !.step = x].saw = r.saw
           /\ [r EXCEPT !.step = x].creates = r.creates
           /\ [r EXCEPT !.step = x].writes = r.writes
           /\ [r EXCEPT !.step = x].pv = r.pv
BY DEF Txns

-----------------------------------------------------------------------------
(* The locks once one record has been replaced. *)

LEMMA LocksAfter ==
    ASSUME TypeOK, LockInv, NEW c \in Conns, NEW r \in Txns, Becomes(c, r),
           \A d \in Conns \ {c} : Compatible(r, txn[d])
    PROVE  LockInv'
<1>1. txn'[c] = r /\ \A d \in Conns \ {c} : txn'[d] = txn[d]
  BY OnlyOwn
<1>2. ASSUME NEW d \in Conns, NEW e \in Conns, d # e
      PROVE  Compatible(txn'[d], txn'[e])
  <2>1. CASE d = c
    BY <1>1, <1>2, <2>1
  <2>2. CASE e = c
    BY <1>1, <1>2, <2>2, CompatibleIsMutual
  <2>3. CASE d # c /\ e # c
    BY <1>1, <1>2, <2>3 DEF LockInv
  <2>4. QED
    BY <2>1, <2>2, <2>3
<1>3. \A d, e \in Conns : d # e => Compatible(txn[d], txn[e])'
  BY <1>2 DEF Compatible, HoldsSession, HoldsWs, HoldsRoster
<1>4. QED
  BY <1>3 DEF LockInv

\* A quiet step keeps the rows; its new record satisfies the facts.
LEMMA QuietStep ==
    ASSUME IndInv, NEW c \in Conns, NEW r \in Txns, Becomes(c, r), UNCHANGED <<rows, jobs>>,
           r.step # "answered", Facts(r), \A d \in Conns \ {c} : Compatible(r, txn[d])
    PROVE  LockInv' /\ RecordInv' /\ JobInv' /\ SealedTogether' /\ PvMembersStand' /\ ProjectedOnce'
<1>1. txn'[c] = r /\ \A d \in Conns \ {c} : txn'[d] = txn[d]
  BY OnlyOwn DEF IndInv
<1>2. LockInv'
  BY LocksAfter DEF IndInv
<1>3. \A d \in Conns : Facts(txn'[d])
  BY <1>1 DEF IndInv, RecordInv
<1>4. RecordInv'
  BY <1>3 DEF RecordInv, Facts, RequestFacts, SessionFacts, WriterFacts, rows, HoldsSession,
              HoldsWs, Upserted
<1>5. JobInv' /\ SealedTogether' /\ PvMembersStand'
  BY DEF IndInv, JobInv, SealedTogether, PvMembersStand, rows
<1>6. ProjectedOnce'
  BY <1>1 DEF IndInv, ProjectedOnce, At
<1>7. QED
  BY <1>2, <1>4, <1>5, <1>6

\* A rollback is quiet.
LEMMA RollbackStep ==
    ASSUME IndInv, NEW c \in Conns, Becomes(c, Idle), UNCHANGED <<rows, jobs>>
    PROVE  LockInv' /\ RecordInv' /\ JobInv' /\ SealedTogether' /\ PvMembersStand' /\ ProjectedOnce'
<1>1. Idle.step # "answered"
  BY DEF Idle
<1>2. QED
  BY <1>1, QuietStep, IdleIsTxn, IdleFacts, IdleCompatible

-----------------------------------------------------------------------------
(* The quiet steps. *)

Kept == LockInv' /\ RecordInv' /\ JobInv' /\ SealedTogether' /\ PvMembersStand' /\ ProjectedOnce'

\* A request begins without a lock, with what it read.
LEMMA BeginStep ==
    ASSUME IndInv, NEW c \in Conns, Begin(c)
    PROVE  \E r \in Txns :
              /\ Becomes(c, r) /\ UNCHANGED <<rows, jobs>> /\ seals' \in 0..MaxSeals
              /\ r.step = "read" /\ Facts(r)
              /\ \A q : Compatible(r, q)
<1> USE BoundsAssumption
<1>1. Idle \in Txns
  BY IdleIsTxn
<1>2. ASSUME NEW target \in Statuses \ {"sealed"}, BeginPatch(c, target)
      PROVE  [Idle EXCEPT !.op = "patch", !.step = "read", !.target = target] \in Txns
  BY <1>1 DEF Txns, Ops, Steps
<1>3. CASE \E target \in Statuses \ {"sealed"} : BeginPatch(c, target)
  <2>1. PICK target \in Statuses \ {"sealed"} : BeginPatch(c, target)
    BY <1>3
  <2>2. QED
    BY <2>1, <1>2 DEF BeginPatch, Starts, Idle, Facts, RequestFacts, SessionFacts, WriterFacts,
          Compatible, HoldsSession, HoldsWs, HoldsRoster, IndInv, TypeOK
<1>4. CASE BeginOpen(c)
  <2>1. [Idle EXCEPT !.op = "open", !.step = "read"] \in Txns
    BY <1>1 DEF Txns, Ops, Steps
  <2>2. QED
    BY <2>1, <1>4 DEF BeginOpen, Starts, Idle, Facts, RequestFacts, SessionFacts, WriterFacts,
          Compatible, HoldsSession, HoldsWs, HoldsRoster, IndInv, TypeOK
<1>5. CASE \E u \in Users, x \in Roles : BeginAdd(c, u, x)
  <2>1. PICK u \in Users, x \in Roles : BeginAdd(c, u, x)
    BY <1>5
  <2>2. [Nobody EXCEPT ![u] = x] \in Rosters
    BY DEF Nobody, Rosters
  <2>3. [Idle EXCEPT !.op = "add", !.step = "read", !.writes = [Nobody EXCEPT ![u] = x]] \in Txns
    BY <1>1, <2>2 DEF Txns, Ops, Steps
  <2>4. QED
    BY <2>1, <2>3 DEF BeginAdd, Starts, Idle, Facts, RequestFacts, SessionFacts, WriterFacts,
          Compatible, HoldsSession, HoldsWs, HoldsRoster, IndInv, TypeOK
<1>6. CASE \E auto \in BOOLEAN : BeginSeal(c, auto)
  <2>1. PICK auto \in BOOLEAN : BeginSeal(c, auto)
    BY <1>6
  <2>2. seals + 1 \in 1..MaxSeals
    BY <2>1 DEF BeginSeal, IndInv, TypeOK
  <2>3. Nobody \in Rosters
    BY DEF Nobody, Rosters
  <2>4. [seal |-> seals + 1, members |-> Nobody] \in [seal : 0..MaxSeals, members : Rosters]
    BY <2>2, <2>3
  <2>5. [Idle EXCEPT !.op = "seal", !.step = "read", !.pv = [seal |-> seals + 1, members |-> Nobody]]
           \in Txns
    BY <1>1, <2>4 DEF Txns, Ops, Steps
  <2> DEFINE r == [Idle EXCEPT !.op = "seal", !.step = "read",
                               !.pv = [seal |-> seals + 1, members |-> Nobody]]
  <2>6. /\ r.op = "seal" /\ r.step = "read" /\ r.saw = "none" /\ r.creates = FALSE
        /\ r.pv.seal = seals + 1
    BY DEF Idle
  <2>7. Facts(r) /\ \A q : Compatible(r, q)
    BY <2>2, <2>6 DEF Facts, RequestFacts, SessionFacts, WriterFacts, Compatible, HoldsSession,
          HoldsWs, HoldsRoster
  <2>8. Becomes(c, r) /\ UNCHANGED <<rows, jobs>> /\ seals' \in 0..MaxSeals
    BY <2>1, <2>2 DEF BeginSeal, Starts
  <2>9. QED
    BY <2>5, <2>6, <2>7, <2>8
<1>7. QED
  BY <1>3, <1>4, <1>5, <1>6 DEF Begin

\* A request that is done reads and writes: each quiet step of Step(c) either
\* rolls back or goes on with a record that is compatible with the others.
Quiet(c) ==
    \/ WritePatch(c) \/ WriteOpen(c) \/ WriteAdd(c)
    \/ SealReadsSession(c) \/ SealChecksQuorum(c) \/ SealChecksFlags(c) \/ SealFails(c)
    \/ SealOpensSession(c) \/ SealBuildsPv(c) \/ SealWritesSession(c) \/ SealWritesWs(c)
    \/ RecoverWrites(c)

\* The record that a quiet step leads to.
GoesOn(c, r) ==
    /\ Becomes(c, r)
    /\ r.step # "answered" /\ Facts(r)
    /\ \A d \in Conns \ {c} : Compatible(r, txn[d])

LEMMA MoveGoesOn ==
    ASSUME IndInv, NEW c \in Conns, NEW x \in Steps \ {"answered"}, Moves(c, x),
           Facts([txn[c] EXCEPT !.step = x]),
           \A d \in Conns \ {c} : Compatible([txn[c] EXCEPT !.step = x], txn[d])
    PROVE  \E r \in Txns : GoesOn(c, r)
<1>1. txn[c] \in Txns
  BY DEF IndInv, TypeOK
<1>2. QED
  BY <1>1, StepIsTxn DEF Moves, GoesOn

\* What a quiet step does.
Outcome(c) ==
    /\ Becomes(c, Idle) \/ \E r \in Txns : GoesOn(c, r)
    /\ UNCHANGED <<rows, world, jobs, seals>>

LEMMA RollbackOutcome == ASSUME NEW c \in Conns, Rollback(c) PROVE Outcome(c)
BY DEF Rollback, Outcome

LEMMA MoveOutcome ==
    ASSUME IndInv, NEW c \in Conns, NEW x \in Steps \ {"answered"}, Moves(c, x),
           Facts([txn[c] EXCEPT !.step = x]),
           \A d \in Conns \ {c} : Compatible([txn[c] EXCEPT !.step = x], txn[d])
    PROVE  Outcome(c)
BY MoveGoesOn DEF Outcome, Moves

\* A lock is taken when it is free, and what its trigger let through is a fact
\* of the record from then on.
LEMMA WritePatchOutcome ==
    ASSUME IndInv, NEW c \in Conns, WritePatch(c)
    PROVE  Outcome(c)
<1>1. CASE Rollback(c)
  BY <1>1, RollbackOutcome
<1>2. CASE WsTriggerPasses(txn[c].target) /\ Moves(c, "written")
  <2> DEFINE r == [txn[c] EXCEPT !.step = "written"]
  <2>1. txn[c] \in Txns /\ Facts(txn[c]) /\ txn[c].op = "patch" /\ txn[c].step = "read"
    BY DEF IndInv, TypeOK, RecordInv, WritePatch, At
  <2>2. /\ r.step = "written" /\ r.op = "patch" /\ r.target = txn[c].target
        /\ r.saw = txn[c].saw /\ r.creates = txn[c].creates
    BY <2>1 DEF Txns
  <2>3. Facts(r)
    BY <1>2, <2>1, <2>2 DEF Facts, RequestFacts, SessionFacts, WriterFacts, HoldsSession,
          HoldsWs, WsTriggerPasses
  <2>4. \A d \in Conns \ {c} : Compatible(r, txn[d])
    BY <2>1, <2>2 DEF WritePatch, WsFree, Compatible, HoldsSession, HoldsRoster, HoldsWs, IndInv, LockInv
  <2>5. QED
    BY <1>2, <2>3, <2>4, MoveOutcome DEF Steps
<1>3. QED
  BY <1>1, <1>2 DEF WritePatch

LEMMA WriteOpenOutcome ==
    ASSUME IndInv, NEW c \in Conns, WriteOpen(c)
    PROVE  Outcome(c)
<1>1. CASE Rollback(c)
  BY <1>1, RollbackOutcome
<1>2. CASE /\ session = "none"
           /\ Becomes(c, [txn[c] EXCEPT !.step = "written", !.creates = TRUE])
           /\ UNCHANGED <<rows, world, jobs, seals>>
  <2> DEFINE r == [txn[c] EXCEPT !.step = "written", !.creates = TRUE]
  <2>1. txn[c] \in Txns /\ Facts(txn[c]) /\ txn[c].op = "open" /\ txn[c].step = "read"
    BY DEF IndInv, TypeOK, RecordInv, WriteOpen, At
  <2>2. r \in Txns
    BY <2>1 DEF Txns, Steps
  <2>3. r.step = "written" /\ r.op = "open" /\ r.saw = txn[c].saw /\ r.creates
    BY <2>1 DEF Txns
  <2>4. Facts(r)
    BY <1>2, <2>1, <2>3 DEF Facts, RequestFacts, SessionFacts, WriterFacts, HoldsSession, HoldsWs
  <2>5. \A d \in Conns \ {c} : Compatible(r, txn[d])
    BY <2>1, <2>3 DEF WriteOpen, SessionKeyFree, Compatible, HoldsSession, HoldsRoster, HoldsWs, IndInv, LockInv
  <2>6. QED
    BY <1>2, <2>2, <2>3, <2>4, <2>5 DEF Outcome, GoesOn
<1>3. QED
  BY <1>1, <1>2 DEF WriteOpen

LEMMA WriteAddOutcome ==
    ASSUME IndInv, NEW c \in Conns, WriteAdd(c)
    PROVE  Outcome(c)
<1> DEFINE w == [u \in Users |-> IF roster[u] = NoRole THEN txn[c].writes[u] ELSE NoRole]
<1> DEFINE r == [txn[c] EXCEPT !.step = "written", !.writes = w]
<1>1. /\ txn[c] \in Txns /\ Facts(txn[c]) /\ txn[c].op = "add" /\ txn[c].step = "read"
      /\ \A u \in Users : txn[c].writes[u] # NoRole => RosterFree(c, u)
  BY DEF IndInv, TypeOK, RecordInv, WriteAdd, At
<1>2. Becomes(c, r) /\ UNCHANGED <<rows, world, jobs, seals>>
  BY <1>1 DEF WriteAdd, Txns
<1>3. w \in Rosters /\ \A u \in Users : w[u] # NoRole => w[u] = txn[c].writes[u] /\ roster[u] = NoRole
  BY <1>1 DEF Txns, Rosters
<1>4. r \in Txns
  BY <1>1, <1>3 DEF Txns, Steps
<1> HIDE DEF w
<1>5. /\ r.step = "written" /\ r.op = "add" /\ r.saw = txn[c].saw /\ r.creates = txn[c].creates
      /\ r.writes = w
  BY <1>1 DEF Txns
<1>6. Facts(r)
  BY <1>1, <1>3, <1>5 DEF Facts, RequestFacts, SessionFacts, WriterFacts, HoldsSession, HoldsWs
<1>7. \A d \in Conns \ {c} : ~(r.creates /\ txn[d].creates)
  <2>1. ~(txn[c].creates) \/ \A d \in Conns \ {c} : ~txn[d].creates
    BY DEF IndInv, LockInv, Compatible
  <2>2. QED
    BY <1>5, <2>1
<1>8. ASSUME NEW d \in Conns \ {c}, NEW u \in Users
      PROVE  ~(HoldsRoster(r, u) /\ HoldsRoster(txn[d], u))
  BY <1>1, <1>3, <1>5, <1>8 DEF RosterFree, HoldsRoster
<1>9. \A d \in Conns \ {c} : Compatible(r, txn[d])
  BY <1>5, <1>7, <1>8 DEF Compatible, HoldsSession, HoldsWs
<1>10. QED
  BY <1>2, <1>4, <1>5, <1>6, <1>9 DEF Outcome, GoesOn

\* A seal that only checks holds what it held before.
LEMMA ChecksOutcome ==
    ASSUME IndInv, NEW c \in Conns, txn[c].op = "seal",
           txn[c].step \in {"found", "quorate"},
           NEW x \in {"quorate", "checked", "aborted"}, Moves(c, x)
    PROVE  Outcome(c)
<1> DEFINE r == [txn[c] EXCEPT !.step = x]
<1>1. txn[c] \in Txns /\ Facts(txn[c])
  BY DEF IndInv, TypeOK, RecordInv
<1>2. /\ r.step = x /\ r.op = "seal" /\ r.saw = txn[c].saw /\ r.creates = txn[c].creates
      /\ r.pv = txn[c].pv
  BY <1>1 DEF Txns
<1>3. Facts(r)
  BY <1>1, <1>2 DEF Facts, RequestFacts, SessionFacts, WriterFacts, HoldsSession, HoldsWs
<1>4. \A d \in Conns \ {c} : Compatible(r, txn[d])
  BY <1>1, <1>2 DEF Compatible, HoldsSession, HoldsWs, HoldsRoster, IndInv, LockInv
<1>5. QED
  BY <1>3, <1>4, MoveOutcome DEF Steps

LEMMA SealChecksOutcome ==
    ASSUME IndInv, NEW c \in Conns, SealChecksQuorum(c) \/ SealChecksFlags(c) \/ SealFails(c)
    PROVE  Outcome(c)
BY ChecksOutcome, RollbackOutcome DEF SealChecksQuorum, SealChecksFlags, SealFails, At

LEMMA SealReadsSessionOutcome ==
    ASSUME IndInv, NEW c \in Conns, SealReadsSession(c)
    PROVE  Outcome(c)
<1>1. txn[c] \in Txns /\ Facts(txn[c]) /\ txn[c].op = "seal" /\ txn[c].step = "read"
  BY DEF IndInv, TypeOK, RecordInv, SealReadsSession, At
<1>2. session \in {"none", "active", "sealed"} /\ UNCHANGED <<rows, world, jobs, seals>>
  BY DEF IndInv, TypeOK, SealReadsSession
<1>3. CASE session = "sealed"
  <2> DEFINE r == [txn[c] EXCEPT !.op = "recover", !.step = "found"]
  <2>1. r \in Txns
    BY <1>1 DEF Txns, Steps, Ops
  <2>2. r.step = "found" /\ r.op = "recover" /\ r.saw = txn[c].saw /\ r.creates = txn[c].creates
    BY <1>1 DEF Txns
  <2>3. Facts(r)
    BY <1>1, <1>3, <2>2 DEF Facts, RequestFacts, SessionFacts, WriterFacts, HoldsSession, HoldsWs
  <2>4. \A d \in Conns \ {c} : Compatible(r, txn[d])
    BY <1>1, <2>2 DEF Compatible, HoldsSession, HoldsWs, HoldsRoster, IndInv, LockInv
  <2>5. QED
    BY <1>2, <1>3, <2>1, <2>2, <2>3, <2>4 DEF SealReadsSession, Outcome, GoesOn
<1>4. CASE session # "sealed"
  <2> DEFINE r == [txn[c] EXCEPT !.step = "found", !.saw = session]
  <2>1. r \in Txns
    BY <1>1, <1>2, <1>4 DEF Txns, Steps
  <2>2. /\ r.step = "found" /\ r.op = "seal" /\ r.saw = session /\ r.creates = txn[c].creates
        /\ r.pv = txn[c].pv
    BY <1>1 DEF Txns
  <2>3. Facts(r)
    BY <1>1, <1>4, <2>2 DEF Facts, RequestFacts, SessionFacts, WriterFacts, HoldsSession, HoldsWs
  <2>4. \A d \in Conns \ {c} : Compatible(r, txn[d])
    BY <1>1, <2>2 DEF Compatible, HoldsSession, HoldsWs, HoldsRoster, IndInv, LockInv
  <2>5. QED
    BY <1>2, <1>4, <2>1, <2>2, <2>3, <2>4 DEF SealReadsSession, Outcome, GoesOn
<1>5. QED
  BY <1>3, <1>4

LEMMA SealOpensSessionOutcome ==
    ASSUME IndInv, NEW c \in Conns, SealOpensSession(c)
    PROVE  Outcome(c)
<1>1. CASE Rollback(c)
  BY <1>1, RollbackOutcome
<1>2. CASE /\ session = "none"
           /\ Becomes(c, [txn[c] EXCEPT !.step = "opened", !.creates = TRUE])
           /\ UNCHANGED <<rows, world, jobs, seals>>
  <2> DEFINE r == [txn[c] EXCEPT !.step = "opened", !.creates = TRUE]
  <2>1. txn[c] \in Txns /\ Facts(txn[c]) /\ txn[c].op = "seal" /\ txn[c].step = "checked"
    BY DEF IndInv, TypeOK, RecordInv, SealOpensSession, At
  <2>2. r \in Txns
    BY <2>1 DEF Txns, Steps
  <2>3. /\ r.step = "opened" /\ r.op = "seal" /\ r.saw = txn[c].saw /\ r.creates
        /\ r.pv = txn[c].pv
    BY <2>1 DEF Txns
  <2>4. Facts(r)
    BY <1>2, <2>1, <2>3 DEF Facts, RequestFacts, SessionFacts, WriterFacts, HoldsSession, HoldsWs
  <2>5. \A d \in Conns \ {c} : Compatible(r, txn[d])
    BY <2>1, <2>3 DEF SealOpensSession, SessionKeyFree, Compatible, HoldsSession, HoldsRoster, HoldsWs
  <2>6. QED
    BY <1>2, <2>2, <2>3, <2>4, <2>5 DEF Outcome, GoesOn
<1>3. QED
  BY <1>1, <1>2 DEF SealOpensSession

\* The PV lists exactly what the rows of the session will be.
LEMMA SealBuildsPvOutcome ==
    ASSUME IndInv, NEW c \in Conns, SealBuildsPv(c)
    PROVE  Outcome(c)
<1>1. PICK w \in Rosters :
         /\ \A u \in Users : w[u] # NoRole => RosterFree(c, u)
         /\ Becomes(c, [txn[c] EXCEPT !.step = "pv_built", !.writes = w,
                                      !.pv = [seal |-> txn[c].pv.seal, members |-> Upserted(w)]])
  BY DEF SealBuildsPv
<1> DEFINE p == [seal |-> txn[c].pv.seal, members |-> Upserted(w)]
<1> DEFINE r == [txn[c] EXCEPT !.step = "pv_built", !.writes = w, !.pv = p]
<1>2. /\ txn[c] \in Txns /\ Facts(txn[c]) /\ txn[c].op = "seal"
      /\ txn[c].step = "opened" \/ (txn[c].step = "checked" /\ txn[c].saw = "active")
  BY DEF IndInv, TypeOK, RecordInv, SealBuildsPv, At
<1>3. p \in [seal : 0..MaxSeals, members : Rosters]
  BY <1>2, UpsertedIsRoster DEF IndInv, Txns
<1>4. p.seal = txn[c].pv.seal /\ p.members = Upserted(w)
  OBVIOUS
<1> HIDE DEF p
<1>5. r \in Txns
  BY <1>2, <1>3 DEF Txns, Steps
<1>6. /\ r.step = "pv_built" /\ r.op = "seal" /\ r.saw = txn[c].saw /\ r.creates = txn[c].creates
      /\ r.writes = w /\ r.pv = p
  BY <1>2 DEF Txns
<1>7. Facts(r)
  <2>1. RequestFacts(r)
    BY <1>2, <1>4, <1>6 DEF Facts, RequestFacts
  <2>2. SessionFacts(r)
    BY <1>2, <1>6 DEF Facts, SessionFacts
  <2>3. WriterFacts(r)
    BY <1>4, <1>6 DEF WriterFacts, HoldsSession, HoldsWs
  <2>4. QED
    BY <2>1, <2>2, <2>3 DEF Facts
<1>8. ASSUME NEW d \in Conns \ {c}
      PROVE  Compatible(r, txn[d])
  <2>1. ~(r.creates /\ txn[d].creates)
    BY <1>6, <1>8 DEF IndInv, LockInv, Compatible
  <2>2. \A u \in Users : ~(HoldsRoster(r, u) /\ HoldsRoster(txn[d], u))
    BY <1>1, <1>6, <1>8 DEF RosterFree, HoldsRoster
  <2>3. QED
    BY <1>6, <2>1, <2>2 DEF Compatible, HoldsSession, HoldsWs
<1>9. Becomes(c, r)
  BY <1>1 DEF p
<1>10. GoesOn(c, r)
  BY <1>6, <1>7, <1>8, <1>9 DEF GoesOn
<1>11. UNCHANGED <<rows, world, jobs, seals>>
  BY DEF SealBuildsPv
<1>12. QED
  BY <1>5, <1>10, <1>11 DEF Outcome

LEMMA SealWritesSessionOutcome ==
    ASSUME IndInv, NEW c \in Conns, SealWritesSession(c)
    PROVE  Outcome(c)
<1>1. CASE Rollback(c)
  BY <1>1, RollbackOutcome
<1>2. CASE PvTriggerPasses /\ Moves(c, "session_written")
  <2> DEFINE r == [txn[c] EXCEPT !.step = "session_written"]
  <2>1. txn[c] \in Txns /\ Facts(txn[c]) /\ txn[c].op = "seal" /\ txn[c].step = "pv_built"
    BY DEF IndInv, TypeOK, RecordInv, SealWritesSession, At
  <2>2. /\ r.step = "session_written" /\ r.op = "seal" /\ r.pv = txn[c].pv
        /\ r.saw = txn[c].saw /\ r.creates = txn[c].creates /\ r.writes = txn[c].writes
    BY <2>1 DEF Txns
  <2>3. Facts(r)
    BY <1>2, <2>1, <2>2 DEF Facts, RequestFacts, SessionFacts, WriterFacts, HoldsSession,
          HoldsWs, PvTriggerPasses
  <2>4. ASSUME NEW d \in Conns \ {c}
        PROVE  Compatible(r, txn[d])
    <3>1. Compatible(txn[c], txn[d]) /\ ~HoldsSession(txn[d])
      BY <2>4 DEF SealWritesSession, SessionFree, IndInv, LockInv
    <3>2. QED
      BY <2>1, <2>2, <3>1 DEF Compatible, HoldsRoster, HoldsWs
  <2>5. QED
    BY <1>2, <2>3, <2>4, MoveOutcome DEF Steps
<1>3. QED
  BY <1>1, <1>2 DEF SealWritesSession

LEMMA SealWritesWsOutcome ==
    ASSUME IndInv, NEW c \in Conns, SealWritesWs(c)
    PROVE  Outcome(c)
<1>1. CASE Rollback(c)
  BY <1>1, RollbackOutcome
<1>2. CASE WsTriggerPasses("sealed") /\ Moves(c, "written")
  <2> DEFINE r == [txn[c] EXCEPT !.step = "written"]
  <2>1. txn[c] \in Txns /\ Facts(txn[c]) /\ txn[c].op = "seal" /\ txn[c].step = "session_written"
    BY DEF IndInv, TypeOK, RecordInv, SealWritesWs, At
  <2>2. /\ r.step = "written" /\ r.op = "seal" /\ r.pv = txn[c].pv
        /\ r.saw = txn[c].saw /\ r.creates = txn[c].creates /\ r.writes = txn[c].writes
    BY <2>1 DEF Txns
  <2>3. Facts(r)
    BY <1>2, <2>1, <2>2 DEF Facts, RequestFacts, SessionFacts, WriterFacts, HoldsSession,
          HoldsWs, WsTriggerPasses
  <2>4. ASSUME NEW d \in Conns \ {c}
        PROVE  Compatible(r, txn[d])
    <3>1. Compatible(txn[c], txn[d]) /\ ~HoldsWs(txn[d])
      BY <2>4 DEF SealWritesWs, WsFree, IndInv, LockInv
    <3>2. QED
      BY <2>1, <2>2, <3>1 DEF Compatible, HoldsRoster, HoldsSession
  <2>5. QED
    BY <1>2, <2>3, <2>4, MoveOutcome DEF Steps
<1>3. QED
  BY <1>1, <1>2 DEF SealWritesWs

LEMMA RecoverWritesOutcome ==
    ASSUME IndInv, NEW c \in Conns, RecoverWrites(c)
    PROVE  Outcome(c)
<1>1. CASE Rollback(c)
  BY <1>1, RollbackOutcome
<1>2. CASE WsTriggerPasses("sealed") /\ Moves(c, "written")
  <2> DEFINE r == [txn[c] EXCEPT !.step = "written"]
  <2>1. txn[c] \in Txns /\ Facts(txn[c]) /\ txn[c].op = "recover" /\ txn[c].step = "found"
    BY DEF IndInv, TypeOK, RecordInv, RecoverWrites, At
  <2>2. /\ r.step = "written" /\ r.op = "recover"
        /\ r.saw = txn[c].saw /\ r.creates = txn[c].creates
    BY <2>1 DEF Txns
  <2>3. Facts(r)
    BY <1>2, <2>1, <2>2 DEF Facts, RequestFacts, SessionFacts, WriterFacts, HoldsSession,
          HoldsWs, WsTriggerPasses
  <2>4. ASSUME NEW d \in Conns \ {c}
        PROVE  Compatible(r, txn[d])
    <3>1. Compatible(txn[c], txn[d]) /\ ~HoldsWs(txn[d])
      BY <2>4 DEF RecoverWrites, WsFree, IndInv, LockInv
    <3>2. QED
      BY <2>1, <2>2, <3>1 DEF Compatible, HoldsRoster, HoldsSession
  <2>5. QED
    BY <1>2, <2>3, <2>4, MoveOutcome DEF Steps
<1>3. QED
  BY <1>1, <1>2 DEF RecoverWrites

LEMMA QuietOutcome ==
    ASSUME IndInv, NEW c \in Conns, Quiet(c)
    PROVE  Outcome(c)
BY WritePatchOutcome, WriteOpenOutcome, WriteAddOutcome, SealReadsSessionOutcome,
   SealChecksOutcome, SealOpensSessionOutcome, SealBuildsPvOutcome,
   SealWritesSessionOutcome, SealWritesWsOutcome, RecoverWritesOutcome DEF Quiet

-----------------------------------------------------------------------------
(* The commits. *)

\* A record that holds no lock, and the facts of the others in the new rows.
LEMMA RecordsAfter ==
    ASSUME TypeOK, LockInv, RecordInv, NEW c \in Conns, NEW r \in Txns, Becomes(c, r), Facts(r)',
           \A q \in Txns : Facts(q) /\ Compatible(txn[c], q) => Facts(q)'
    PROVE  RecordInv'
<1>1. txn'[c] = r /\ \A d \in Conns \ {c} : txn'[d] = txn[d]
  BY OnlyOwn
<1>2. ASSUME NEW d \in Conns \ {c}
      PROVE  Facts(txn[d])'
  <2>1. txn[d] \in Txns /\ Facts(txn[d]) /\ Compatible(txn[c], txn[d])
    BY <1>2 DEF TypeOK, RecordInv, LockInv
  <2>2. txn'[d] = txn[d]
    BY <1>1
  <2>3. PICK q \in Txns : q = txn[d]
    BY <2>1
  <2>4. Facts(q)'
    BY <2>1, <2>3
  <2>5. QED
    BY <2>2, <2>3, <2>4 DEF Facts, RequestFacts, SessionFacts, WriterFacts, HoldsSession, HoldsWs,
          Upserted
<1>3. Facts(txn[c])'
  BY <1>1 DEF Facts, RequestFacts, SessionFacts, WriterFacts, HoldsSession, HoldsWs, Upserted
<1>4. QED
  BY <1>2, <1>3 DEF RecordInv

LEMMA IdleFactsNext == Facts(Idle)'
BY DEF Idle, Facts, RequestFacts, SessionFacts, WriterFacts, HoldsSession, HoldsWs

\* No step but the seal's answer makes a request one that may enqueue.
LEMMA ProjectedKept ==
    ASSUME TypeOK, ProjectedOnce, NEW c \in Conns, Becomes(c, Idle), UNCHANGED jobs
    PROVE  ProjectedOnce'
<1>1. txn'[c] = Idle /\ \A d \in Conns \ {c} : txn'[d] = txn[d]
  BY OnlyOwn, IdleIsTxn
<1>2. Idle.op # "seal"
  BY DEF Idle
<1>3. QED
  BY <1>1, <1>2 DEF ProjectedOnce, At

LEMMA CommitPatchKeeps ==
    ASSUME IndInv, NEW c \in Conns, CommitPatch(c)
    PROVE  Kept /\ ws' \in Statuses
<1>1. /\ Becomes(c, Idle) /\ ws' = txn[c].target
      /\ UNCHANGED <<session, pv, roster, sealLog, jobs>>
  BY DEF CommitPatch
<1>2. HoldsWs(txn[c]) /\ txn[c].op = "patch" /\ Facts(txn[c])
  BY DEF CommitPatch, At, HoldsWs, IndInv, RecordInv
<1>3. ws' \in Statuses \ {"sealed"} /\ ws # "closed" /\ (ws = "sealed" => ws' = "closed")
  BY <1>1, <1>2 DEF Facts, RequestFacts, WriterFacts
<1>4. LockInv'
  BY <1>1, LocksAfter, IdleIsTxn, IdleCompatible DEF IndInv
<1>5. ASSUME NEW q \in Txns, Facts(q), Compatible(txn[c], q)
      PROVE  Facts(q)'
  BY <1>1, <1>2, <1>5 DEF Facts, RequestFacts, SessionFacts, WriterFacts, HoldsSession, Compatible,
        Upserted, HoldsWs
<1>6. RecordInv'
  BY <1>1, <1>5, RecordsAfter, IdleIsTxn, IdleFactsNext DEF IndInv
<1>7. JobInv' /\ SealedTogether' /\ PvMembersStand'
  BY <1>1, <1>3 DEF IndInv, JobInv, SealedTogether, PvMembersStand
<1>8. ProjectedOnce'
  BY <1>1, ProjectedKept DEF IndInv
<1>9. QED
  BY <1>3, <1>4, <1>6, <1>7, <1>8 DEF Kept

LEMMA CommitOpenKeeps ==
    ASSUME IndInv, NEW c \in Conns, CommitOpen(c)
    PROVE  Kept
<1>1. /\ Becomes(c, Idle) /\ session' = "active"
      /\ UNCHANGED <<ws, pv, roster, sealLog, jobs>>
  BY DEF CommitOpen
<1>2. txn[c].creates /\ session = "none"
  BY DEF CommitOpen, At, IndInv, RecordInv, Facts, SessionFacts
<1>3. LockInv'
  BY <1>1, LocksAfter, IdleIsTxn, IdleCompatible DEF IndInv
<1>4. ASSUME NEW q \in Txns, Facts(q), Compatible(txn[c], q)
      PROVE  Facts(q)'
  BY <1>1, <1>2, <1>4 DEF Facts, RequestFacts, SessionFacts, WriterFacts, HoldsSession, HoldsWs,
        Compatible, Upserted
<1>5. RecordInv'
  BY <1>1, <1>4, RecordsAfter, IdleIsTxn, IdleFactsNext DEF IndInv
<1>6. JobInv' /\ SealedTogether' /\ PvMembersStand'
  BY <1>1, <1>2 DEF IndInv, JobInv, SealedTogether, PvMembersStand
<1>7. ProjectedOnce'
  BY <1>1, ProjectedKept DEF IndInv
<1>8. QED
  BY <1>3, <1>5, <1>6, <1>7 DEF Kept

LEMMA CommitAddKeeps ==
    ASSUME IndInv, NEW c \in Conns, CommitAdd(c)
    PROVE  Kept /\ roster' \in Rosters
<1>1. /\ Becomes(c, Idle) /\ roster' = Upserted(txn[c].writes)
      /\ UNCHANGED <<ws, session, pv, sealLog, jobs>>
  BY DEF CommitAdd
<1>2. /\ txn[c].op = "add" /\ txn[c].step = "written" /\ txn[c] \in Txns /\ txn[c].writes \in Rosters
      /\ \A u \in Users : txn[c].writes[u] # NoRole => roster[u] = NoRole
  BY DEF CommitAdd, At, IndInv, TypeOK, RecordInv, Facts, WriterFacts, Txns
<1>3. roster' \in Rosters
  BY <1>1, <1>2, UpsertedIsRoster DEF IndInv
<1>4. /\ \A u \in Users : roster[u] # NoRole => roster'[u] = roster[u]
      /\ \A u \in Users : ~HoldsRoster(txn[c], u) => roster'[u] = roster[u]
  BY <1>1, <1>2 DEF Upserted, HoldsRoster
<1>5. LockInv'
  BY <1>1, LocksAfter, IdleIsTxn, IdleCompatible DEF IndInv
<1>6. ASSUME NEW q \in Txns, Facts(q), Compatible(txn[c], q)
      PROVE  Facts(q)'
  <2>1. RequestFacts(q)' /\ SessionFacts(q)'
    BY <1>1, <1>6 DEF Facts, RequestFacts, SessionFacts
  <2>2. ASSUME q.op = "add", q.step = "written", NEW u \in Users, q.writes[u] # NoRole
        PROVE  roster'[u] = NoRole
    BY <1>4, <1>6, <2>2 DEF Facts, WriterFacts, Compatible, HoldsRoster
  <2>3. ASSUME NEW u \in Users, q.pv.members[u] # NoRole, Upserted(q.writes)[u] = q.pv.members[u]
        PROVE  Upserted(q.writes)'[u] = q.pv.members[u]
    BY <1>4, <2>3 DEF Upserted
  <2>4. WriterFacts(q)'
    BY <1>1, <1>6, <2>2, <2>3 DEF Facts, WriterFacts, HoldsSession, HoldsWs
  <2>5. QED
    BY <2>1, <2>4 DEF Facts
<1>7. RecordInv'
  BY <1>1, <1>6, RecordsAfter, IdleIsTxn, IdleFactsNext DEF IndInv
<1>8. JobInv' /\ SealedTogether'
  BY <1>1 DEF IndInv, JobInv, SealedTogether
<1>9. PvMembersStand'
  BY <1>1, <1>4 DEF IndInv, PvMembersStand
<1>10. ProjectedOnce'
  BY <1>1, ProjectedKept DEF IndInv
<1>11. QED
  BY <1>3, <1>5, <1>7, <1>8, <1>9, <1>10 DEF Kept

LEMMA CommitRecoverKeeps ==
    ASSUME IndInv, NEW c \in Conns, CommitRecover(c)
    PROVE  Kept
<1>1. /\ Becomes(c, Idle) /\ ws' = "sealed"
      /\ UNCHANGED <<session, pv, roster, sealLog, jobs>>
  BY DEF CommitRecover
<1>2. HoldsWs(txn[c]) /\ session = "sealed"
  BY DEF CommitRecover, At, HoldsWs, IndInv, RecordInv, Facts, SessionFacts
<1>3. LockInv'
  BY <1>1, LocksAfter, IdleIsTxn, IdleCompatible DEF IndInv
<1>4. ASSUME NEW q \in Txns, Facts(q), Compatible(txn[c], q)
      PROVE  Facts(q)'
  BY <1>1, <1>2, <1>4 DEF Facts, RequestFacts, SessionFacts, WriterFacts, HoldsSession, Compatible,
        Upserted, HoldsWs
<1>5. RecordInv'
  BY <1>1, <1>4, RecordsAfter, IdleIsTxn, IdleFactsNext DEF IndInv
<1>6. JobInv' /\ SealedTogether' /\ PvMembersStand'
  BY <1>1, <1>2 DEF IndInv, JobInv, SealedTogether, PvMembersStand
<1>7. ProjectedOnce'
  BY <1>1, ProjectedKept DEF IndInv
<1>8. QED
  BY <1>3, <1>5, <1>6, <1>7 DEF Kept

LEMMA EnqueueKeeps ==
    ASSUME IndInv, NEW c \in Conns, Enqueue(c)
    PROVE  Kept /\ jobs' \in 0..MaxSeals
<1> USE BoundsAssumption
<1>1. Becomes(c, Idle) /\ jobs' \in {jobs, jobs + 1} /\ UNCHANGED rows
  BY DEF Enqueue
<1>2. jobs = 0 /\ session = "sealed" /\ \A d \in Conns \ {c} : ~At(d, "seal", "answered")
  BY DEF Enqueue, At, IndInv, RecordInv, Facts, SessionFacts, ProjectedOnce
<1>3. jobs' \in {0, 1}
  BY <1>1, <1>2
<1>4. sealLog = 1 /\ sealLog \in 0..MaxSeals
  BY <1>2 DEF IndInv, SealedTogether, TypeOK
<1>5. LockInv'
  BY <1>1, LocksAfter, IdleIsTxn, IdleCompatible DEF IndInv
<1>6. ASSUME NEW q \in Txns, Facts(q), Compatible(txn[c], q)
      PROVE  Facts(q)'
  BY <1>1, <1>6 DEF Facts, RequestFacts, SessionFacts, WriterFacts, HoldsSession, HoldsWs,
        Upserted, rows
<1>7. RecordInv'
  BY <1>1, <1>6, RecordsAfter, IdleIsTxn, IdleFactsNext DEF IndInv
<1>8. JobInv' /\ SealedTogether' /\ PvMembersStand'
  BY <1>1, <1>2 DEF IndInv, JobInv, SealedTogether, PvMembersStand, rows
<1>9. ProjectedOnce'
  <2>1. \A d \in Conns : ~At(d, "seal", "answered")'
    BY <1>1, <1>2, OnlyOwn, IdleIsTxn DEF IndInv, At, Idle
  <2>2. QED
    BY <1>3, <2>1 DEF ProjectedOnce
<1>10. QED
  BY <1>3, <1>4, <1>5, <1>7, <1>8, <1>9 DEF Kept

\* The seal commits all its rows at once: nobody sealed before, nobody is
\* creating a session, and the rows it wrote were its own.
LEMMA CommitSealKeeps ==
    ASSUME IndInv, NEW c \in Conns, CommitSeal(c)
    PROVE  Kept /\ pv' \in Pvs /\ roster' \in Rosters /\ sealLog' \in 0..MaxSeals /\ txn'[c] \in Txns
<1> USE BoundsAssumption
<1> DEFINE r == [Idle EXCEPT !.op = "seal", !.step = "answered"]
<1>1. /\ Becomes(c, r) /\ ws' = "sealed" /\ session' = "sealed" /\ pv' = txn[c].pv
      /\ roster' = Upserted(txn[c].writes) /\ sealLog' = sealLog + 1 /\ UNCHANGED jobs
  BY DEF CommitSeal
<1>2. /\ txn[c].op = "seal" /\ txn[c].step = "written" /\ txn[c] \in Txns /\ Facts(txn[c])
      /\ HoldsSession(txn[c]) /\ HoldsWs(txn[c])
  BY DEF CommitSeal, At, IndInv, TypeOK, RecordInv, HoldsSession, HoldsWs
<1>3. pv = NoPv /\ session # "sealed" /\ ws \notin {"sealed", "closed"} /\ sealLog = 0 /\ jobs = 0
  BY <1>2 DEF Facts, WriterFacts, IndInv, SealedTogether, JobInv
<1>4. pv'.seal \in 1..MaxSeals /\ pv'.members \in Rosters /\ pv' \in Pvs /\ pv' # NoPv
  <2>1. txn[c].pv \in [seal : 0..MaxSeals, members : Rosters] /\ txn[c].pv.seal \in 1..MaxSeals
    BY <1>2 DEF Txns, Facts, RequestFacts
  <2>2. NoPv.seal = 0
    BY DEF NoPv
  <2>3. QED
    BY <1>1, <2>1, <2>2 DEF Pvs
<1>5. roster' \in Rosters
  BY <1>1, <1>2, UpsertedIsRoster DEF IndInv, Txns
<1>6. /\ r \in Txns /\ r.op = "seal" /\ r.step = "answered" /\ r.saw = "none" /\ r.creates = FALSE
  BY IdleIsTxn DEF Txns, Idle, Ops, Steps
<1> HIDE DEF r
<1>7. txn'[c] = r /\ \A d \in Conns \ {c} : txn'[d] = txn[d]
  BY <1>1, <1>6, OnlyOwn DEF IndInv
<1>8. LockInv'
  <2>1. \A q : Compatible(r, q)
    BY <1>6 DEF Compatible, HoldsSession, HoldsWs, HoldsRoster
  <2>2. QED
    BY <1>1, <1>6, <2>1, LocksAfter DEF IndInv
<1>9. Facts(r)'
  BY <1>1, <1>6 DEF Facts, RequestFacts, SessionFacts, WriterFacts, HoldsSession, HoldsWs
<1>10. ASSUME NEW q \in Txns, Facts(q), Compatible(txn[c], q)
       PROVE  Facts(q)'
  <2>1. ~q.creates
    BY <1>2, <1>10 DEF Facts, SessionFacts, Compatible
  <2>2. RequestFacts(q)' /\ SessionFacts(q)'
    BY <1>1, <1>10, <2>1 DEF Facts, RequestFacts, SessionFacts
  <2>3. ~HoldsSession(q) /\ ~HoldsWs(q)
    BY <1>2, <1>10 DEF Compatible
  <2>4. ASSUME q.op = "add", q.step = "written", NEW u \in Users, q.writes[u] # NoRole
        PROVE  roster'[u] = NoRole
    <3>1. roster[u] = NoRole /\ HoldsRoster(q, u)
      BY <1>10, <2>4 DEF Facts, WriterFacts, HoldsRoster
    <3>2. txn[c].writes[u] = NoRole
      BY <1>2, <1>10, <3>1 DEF Compatible, HoldsRoster
    <3>3. QED
      BY <1>1, <3>1, <3>2 DEF Upserted
  <2>5. WriterFacts(q)'
    BY <1>4, <2>3, <2>4 DEF WriterFacts, HoldsSession, HoldsWs, NoPv, Nobody
  <2>6. QED
    BY <2>2, <2>5 DEF Facts
<1>11. RecordInv'
  BY <1>1, <1>6, <1>9, <1>10, RecordsAfter DEF IndInv
<1>12. JobInv' /\ SealedTogether'
  BY <1>1, <1>3, <1>4 DEF JobInv, SealedTogether, NoPv, Nobody
<1>13. PvMembersStand'
  <2>1. \A u \in Users : txn[c].pv.members[u] # NoRole =>
                           Upserted(txn[c].writes)[u] = txn[c].pv.members[u]
    BY <1>2, <1>3 DEF Facts, WriterFacts
  <2>2. QED
    BY <1>1, <2>1 DEF PvMembersStand
<1>14. ProjectedOnce'
  <2>1. \A d \in Conns \ {c} : ~At(d, "seal", "answered")'
    BY <1>3, <1>7 DEF IndInv, RecordInv, Facts, SessionFacts, At
  <2>2. QED
    BY <1>1, <1>3, <2>1 DEF ProjectedOnce
<1>15. sealLog' \in 0..MaxSeals
  BY <1>1, <1>3, <1>4
<1>16. QED
  BY <1>4, <1>5, <1>6, <1>7, <1>8, <1>11, <1>12, <1>13, <1>14, <1>15 DEF Kept

-----------------------------------------------------------------------------
(* The inductive invariant. *)

LEMMA InitHolds == Init => IndInv
<1> SUFFICES ASSUME Init PROVE IndInv
  OBVIOUS
<1> USE BoundsAssumption
<1>1. \A c \in Conns : txn[c] = Idle
  BY DEF Init
<1>2. Nobody \in Rosters /\ \A u \in Users : Nobody[u] = NoRole
  BY DEF Nobody, Rosters
<1>3. TypeOK
  <2>1. ws \in Statuses /\ session \in {"none", "active", "sealed"} /\ pv \in Pvs \cup {NoPv}
    BY DEF Init, Statuses
  <2>2. memberships \subseteq Users \X Roles /\ flagged \in BOOLEAN /\ legacy \in BOOLEAN
    BY DEF Init
  <2>3. /\ sealLog \in 0..MaxSeals /\ jobs \in 0..MaxSeals /\ seals \in 0..MaxSeals
        /\ changes \in 0..MaxChanges
    BY DEF Init
  <2>4. roster \in Rosters /\ txn \in [Conns -> Txns]
    BY <1>2, IdleIsTxn DEF Init
  <2>5. QED
    BY <2>1, <2>2, <2>3, <2>4 DEF TypeOK
<1>4. LockInv /\ RecordInv
  BY <1>1, IdleFacts, IdleCompatible DEF LockInv, RecordInv
<1>5. JobInv /\ SealedTogether /\ PvMembersStand
  BY <1>2 DEF Init, JobInv, SealedTogether, PvMembersStand, NoPv
<1>6. ProjectedOnce
  BY <1>1 DEF Init, ProjectedOnce, At, Idle
<1>7. QED
  BY <1>3, <1>4, <1>5, <1>6 DEF IndInv

\* A quiet step keeps everything.
LEMMA OutcomeKeeps ==
    ASSUME IndInv, NEW c \in Conns, Outcome(c)
    PROVE  IndInv'
<1>1. UNCHANGED <<rows, jobs>> /\ UNCHANGED <<world, seals>>
  BY DEF Outcome
<1>2. CASE Becomes(c, Idle)
  <2>1. txn' \in [Conns -> Txns]
    BY <1>2, OnlyOwn, IdleIsTxn DEF IndInv
  <2>2. Kept
    BY <1>1, <1>2, RollbackStep DEF Kept
  <2>3. TypeOK'
    BY <1>1, <2>1 DEF IndInv, TypeOK, rows, world
  <2>4. QED
    BY <2>2, <2>3 DEF IndInv, Kept
<1>3. CASE \E r \in Txns : GoesOn(c, r)
  <2>1. PICK r \in Txns : GoesOn(c, r)
    BY <1>3
  <2>2. txn' \in [Conns -> Txns]
    BY <2>1, OnlyOwn DEF IndInv, GoesOn
  <2>3. Kept
    BY <1>1, <2>1, QuietStep DEF Kept, GoesOn
  <2>4. TypeOK'
    BY <1>1, <2>2 DEF IndInv, TypeOK, rows, world
  <2>5. QED
    BY <2>3, <2>4 DEF IndInv, Kept
<1>4. QED
  BY <1>2, <1>3 DEF Outcome

LEMMA BeginKeeps ==
    ASSUME IndInv, NEW c \in Conns, Begin(c)
    PROVE  IndInv'
<1>1. PICK r \in Txns :
         /\ Becomes(c, r) /\ UNCHANGED <<rows, jobs>> /\ seals' \in 0..MaxSeals
         /\ r.step = "read" /\ Facts(r)
         /\ \A q : Compatible(r, q)
  BY BeginStep
<1>2. Kept
  BY <1>1, QuietStep DEF Kept
<1>3. UNCHANGED world
  BY DEF Begin, BeginPatch, BeginOpen, BeginAdd, BeginSeal, world
<1>4. txn' \in [Conns -> Txns]
  BY <1>1, OnlyOwn DEF IndInv
<1>5. TypeOK'
  BY <1>1, <1>3, <1>4 DEF IndInv, TypeOK, rows, world
<1>6. QED
  BY <1>2, <1>5 DEF IndInv, Kept

LEMMA StepKeeps ==
    ASSUME IndInv, NEW c \in Conns, Step(c)
    PROVE  IndInv'
<1>1. CASE Quiet(c)
  BY <1>1, QuietOutcome, OutcomeKeeps
<1>2. CASE CommitPatch(c)
  <2>1. txn' \in [Conns -> Txns]
    BY <1>2, OnlyOwn, IdleIsTxn DEF IndInv, CommitPatch
  <2>2. TypeOK'
    BY <1>2, <2>1, CommitPatchKeeps DEF IndInv, TypeOK, CommitPatch, world
  <2>3. QED
    BY <1>2, <2>2, CommitPatchKeeps DEF IndInv, Kept
<1>3. CASE CommitOpen(c)
  <2>1. txn' \in [Conns -> Txns]
    BY <1>3, OnlyOwn, IdleIsTxn DEF IndInv, CommitOpen
  <2>2. TypeOK'
    BY <1>3, <2>1 DEF IndInv, TypeOK, CommitOpen, world
  <2>3. QED
    BY <1>3, <2>2, CommitOpenKeeps DEF IndInv, Kept
<1>4. CASE CommitAdd(c)
  <2>1. txn' \in [Conns -> Txns]
    BY <1>4, OnlyOwn, IdleIsTxn DEF IndInv, CommitAdd
  <2>2. TypeOK'
    BY <1>4, <2>1, CommitAddKeeps DEF IndInv, TypeOK, CommitAdd, world
  <2>3. QED
    BY <1>4, <2>2, CommitAddKeeps DEF IndInv, Kept
<1>5. CASE CommitSeal(c)
  <2>1. [Idle EXCEPT !.op = "seal", !.step = "answered"] \in Txns
    BY IdleIsTxn DEF Txns, Ops, Steps
  <2>2. txn' \in [Conns -> Txns]
    BY <1>5, <2>1, OnlyOwn DEF IndInv, CommitSeal
  <2>3. TypeOK'
    BY <1>5, <2>2, CommitSealKeeps DEF IndInv, TypeOK, CommitSeal, world, Statuses
  <2>4. QED
    BY <1>5, <2>3, CommitSealKeeps DEF IndInv, Kept
<1>6. CASE Enqueue(c)
  <2>1. txn' \in [Conns -> Txns]
    BY <1>6, OnlyOwn, IdleIsTxn DEF IndInv, Enqueue
  <2>2. TypeOK'
    BY <1>6, <2>1, EnqueueKeeps DEF IndInv, TypeOK, Enqueue, rows, world
  <2>3. QED
    BY <1>6, <2>2, EnqueueKeeps DEF IndInv, Kept
<1>7. CASE CommitRecover(c)
  <2>1. txn' \in [Conns -> Txns]
    BY <1>7, OnlyOwn, IdleIsTxn DEF IndInv, CommitRecover
  <2>2. TypeOK'
    BY <1>7, <2>1 DEF IndInv, TypeOK, CommitRecover, world, Statuses
  <2>3. QED
    BY <1>7, <2>2, CommitRecoverKeeps DEF IndInv, Kept
<1>8. QED
  BY <1>1, <1>2, <1>3, <1>4, <1>5, <1>6, <1>7 DEF Step, Quiet

\* What others change is read by the checks only.
LEMMA OthersKeep ==
    ASSUME IndInv, Others
    PROVE  IndInv'
<1> USE BoundsAssumption
<1>1. Changes /\ memberships' \subseteq Users \X Roles /\ flagged' \in BOOLEAN
  <2>1. memberships \subseteq Users \X Roles /\ flagged \in BOOLEAN
    BY DEF IndInv, TypeOK
  <2>2. CASE \E u \in Users, r \in Roles : InviteMember(u, r)
    BY <2>1, <2>2 DEF InviteMember
  <2>3. CASE \E u \in Users : RevokeMember(u)
    <3>1. PICK u \in Users : RevokeMember(u)
      BY <2>3
    <3>2. memberships' \subseteq memberships
      BY <3>1 DEF RevokeMember
    <3>3. QED
      BY <2>1, <3>1, <3>2 DEF RevokeMember
  <2>4. CASE RaiseFlag \/ ResolveFlag
    BY <2>1, <2>4 DEF RaiseFlag, ResolveFlag
  <2>5. QED
    BY <2>2, <2>3, <2>4 DEF Others
<1>2. UNCHANGED <<rows, jobs, seals, txn, legacy>> /\ changes' \in 0..MaxChanges
  BY <1>1 DEF Changes, IndInv, TypeOK
<1>3. TypeOK'
  BY <1>1, <1>2 DEF IndInv, TypeOK, rows
<1>4. LockInv' /\ RecordInv'
  BY <1>2 DEF IndInv, LockInv, RecordInv, Compatible, Facts, RequestFacts, SessionFacts, WriterFacts,
        HoldsSession, HoldsWs, HoldsRoster, Upserted, rows
<1>5. JobInv' /\ SealedTogether' /\ PvMembersStand' /\ ProjectedOnce'
  BY <1>2 DEF IndInv, JobInv, SealedTogether, PvMembersStand, ProjectedOnce, At, rows
<1>6. QED
  BY <1>3, <1>4, <1>5 DEF IndInv

LEMMA StutterKeeps ==
    ASSUME IndInv, UNCHANGED vars
    PROVE  IndInv'
BY DEF IndInv, TypeOK, LockInv, RecordInv, Compatible, Facts, RequestFacts, SessionFacts, WriterFacts,
   HoldsSession, HoldsWs, HoldsRoster, Upserted, JobInv, SealedTogether, PvMembersStand, ProjectedOnce,
   At, vars, rows, world

LEMMA AbortKeeps ==
    ASSUME IndInv, NEW c \in Conns, Abort(c)
    PROVE  IndInv'
BY RollbackOutcome, OutcomeKeeps DEF Abort

\* Every state of the workspace satisfies the inductive invariant.
THEOREM Inductive == Safety => []IndInv
<1>1. IndInv /\ [Next]_vars => IndInv'
  BY BeginKeeps, StepKeeps, AbortKeeps, OthersKeep, StutterKeeps DEF Next
<1>2. QED
  BY <1>1, InitHolds, PTL DEF Safety

\* Every value a row or a request can hold has its type.
THEOREM TypeCorrect == Safety => []TypeOK
<1>1. IndInv => TypeOK
  BY DEF IndInv
<1>2. QED
  BY <1>1, Inductive, PTL

\* No orphan: session, PV, journal and workspace are sealed together, once.
THEOREM NoOrphan == Safety => []SealedTogether
<1>1. IndInv => SealedTogether
  BY DEF IndInv
<1>2. QED
  BY <1>1, Inductive, PTL

\* Whoever the sealed PV lists stays in the session with that role.
THEOREM MembersStand == Safety => []PvMembersStand
<1>1. IndInv => PvMembersStand
  BY DEF IndInv
<1>2. QED
  BY <1>1, Inductive, PTL

\* At most one projection job is ever enqueued.
THEOREM OneProjection == Safety => []ProjectedOnce
<1>1. IndInv => ProjectedOnce
  BY DEF IndInv
<1>2. QED
  BY <1>1, Inductive, PTL

-----------------------------------------------------------------------------
(* The workspace implements the ledger. *)

\* A commit of a status moves the ledger to closed or leaves it alone.
LEMMA PatchIsClose ==
    ASSUME IndInv, NEW c \in Conns, CommitPatch(c)
    PROVE  Ledger!Close \/ UNCHANGED Ledger!vars
<1>1. ws' = txn[c].target /\ pv' = pv
  BY DEF CommitPatch
<1>2. txn[c].target \in Statuses \ {"sealed"} /\ ws # "closed" /\ (ws = "sealed" => txn[c].target = "closed")
  BY DEF CommitPatch, At, HoldsWs, IndInv, RecordInv, Facts, RequestFacts, WriterFacts
<1>3. QED
  BY <1>1, <1>2 DEF Ledger!Close, Ledger!vars, Statuses

LEMMA SealIsSeal ==
    ASSUME IndInv, NEW c \in Conns, CommitSeal(c)
    PROVE  \E p \in Pvs : Ledger!Seal(p)
<1>1. ws' = "sealed" /\ pv' = txn[c].pv /\ pv' \in Pvs
  BY CommitSealKeeps DEF CommitSeal
<1>2. pv = NoPv /\ ws \notin {"sealed", "closed"}
  BY DEF CommitSeal, At, HoldsWs, HoldsSession, IndInv, RecordInv, Facts, WriterFacts, SealedTogether
<1>3. QED
  BY <1>1, <1>2 DEF Ledger!Seal

LEMMA RecoverIsNothing ==
    ASSUME IndInv, NEW c \in Conns, CommitRecover(c)
    PROVE  UNCHANGED Ledger!vars
<1>1. ws' = "sealed" /\ pv' = pv
  BY DEF CommitRecover
<1>2. ws = "sealed"
  BY DEF CommitRecover, At, HoldsWs, IndInv, RecordInv, Facts, SessionFacts, WriterFacts, SealedTogether
<1>3. QED
  BY <1>1, <1>2 DEF Ledger!vars

LEMMA RowsKeptIsNothing ==
    ASSUME UNCHANGED <<ws, pv>>
    PROVE  UNCHANGED Ledger!vars
BY DEF Ledger!vars

LEMMA StepImplements ==
    ASSUME IndInv, [Next]_vars
    PROVE  Ledger!Next \/ UNCHANGED Ledger!vars
<1>1. CASE \E c \in Conns : CommitPatch(c)
  BY <1>1, PatchIsClose DEF Ledger!Next
<1>2. CASE \E c \in Conns : CommitSeal(c)
  BY <1>2, SealIsSeal DEF Ledger!Next
<1>3. CASE \E c \in Conns : CommitRecover(c)
  BY <1>3, RecoverIsNothing
<1>4. CASE \E c \in Conns : Quiet(c)
  BY <1>4, QuietOutcome, RowsKeptIsNothing DEF Outcome, rows
<1>5. CASE \E c \in Conns : CommitOpen(c) \/ CommitAdd(c) \/ Enqueue(c)
  BY <1>5, RowsKeptIsNothing DEF CommitOpen, CommitAdd, Enqueue, rows
<1>6. CASE \E c \in Conns : Begin(c) \/ Abort(c)
  BY <1>6, RowsKeptIsNothing DEF Begin, BeginPatch, BeginOpen, BeginAdd, BeginSeal, Abort, Rollback, rows
<1>7. CASE Others
  BY <1>7, RowsKeptIsNothing DEF Others, RevokeMember, InviteMember, RaiseFlag, ResolveFlag, Changes, rows
<1>8. CASE UNCHANGED vars
  BY <1>8, RowsKeptIsNothing DEF vars, rows
<1>9. QED
  BY <1>1, <1>2, <1>3, <1>4, <1>5, <1>6, <1>7, <1>8 DEF Next, Step, Quiet

\* One PV, made by the seal, never altered; no way back from sealed or closed.
THEOREM Implements == Safety => LedgerSpec
<1>1. Init => Ledger!Init
  BY DEF Init, Ledger!Init
<1>2. IndInv /\ [Next]_vars => [Ledger!Next]_(Ledger!vars)
  BY StepImplements
<1>3. QED
  BY <1>1, <1>2, Inductive, PTL DEF Safety, LedgerSpec, Ledger!Spec

-----------------------------------------------------------------------------
(* Why every request ends: it is always at a stage that has a next         *)
(* statement, a statement brings it nearer its end, and the locks that its *)
(* statements wait for make no circle.                                     *)

Stage(r) ==
    \/ r.op = "idle" /\ r.step = "none"
    \/ r.op \in {"patch", "open", "add"} /\ r.step \in {"read", "written"}
    \/ r.op = "recover" /\ r.step \in {"found", "written"}
    \/ r.op = "seal" /\ r.step \in Steps

\* The stages at which an uncommitted committee_sessions row is held.
Creating(r) ==
    \/ r.op = "open" /\ r.step = "written"
    \/ r.op = "seal" /\ r.step \in {"opened", "pv_built", "session_written", "written"}

Placed(r) == Stage(r) /\ (r.creates => Creating(r))
StageInv == \A c \in Conns : Placed(txn[c])

\* The locks that the next statement of c needs and d holds.
WaitsFor(c, d) ==
    /\ c # d
    /\ \/ At(c, "open", "read") /\ txn[d].creates
       \/ At(c, "seal", "checked") /\ txn[c].saw = "none" /\ txn[d].creates
       \/ At(c, "add", "read") /\ \E u \in Users : txn[c].writes[u] # NoRole /\ HoldsRoster(txn[d], u)
       \/ /\ At(c, "seal", "opened") \/ (At(c, "seal", "checked") /\ txn[c].saw = "active")
          /\ \E u \in Users : (\E r \in Roles : <<u, r>> \in memberships) /\ HoldsRoster(txn[d], u)
       \/ At(c, "seal", "pv_built") /\ HoldsSession(txn[d])
       \/ At(c, "seal", "session_written") /\ HoldsWs(txn[d])
       \/ (At(c, "patch", "read") \/ At(c, "recover", "found")) /\ HoldsWs(txn[d])

\* Of any requests that are open at the same time, one waits for no other:
\* PostgreSQL never has to kill one to end a deadlock.
NoCircularWait ==
    \A S \in SUBSET Conns : S # {} => \E c \in S : \A d \in S : ~WaitsFor(c, d)

\* The statements and the end of the transaction that a request has before it.
Left(r) ==
    CASE r.op = "idle" -> 0
      [] r.step = "answered" -> 1
      [] r.step = "written" -> 2
      [] r.step = "session_written" -> 3
      [] r.step = "pv_built" -> 4
      [] r.step = "opened" -> 5
      [] r.step \in {"checked", "aborted"} -> 6
      [] r.step = "quorate" -> 7
      [] r.step = "found" -> 8
      [] OTHER -> 9

\* No handler goes back to an earlier statement: a request that meets the
\* other endpoint's session or a refused UPDATE ends, it does not try again.
StepsAdvance == [][\A c \in Conns : Step(c) => Left(txn'[c]) < Left(txn[c])]_vars

LEMMA PlacedStep ==
    ASSUME StageInv, TypeOK, NEW c \in Conns, NEW r, Becomes(c, r), Placed(r)
    PROVE  StageInv'
BY DEF StageInv, TypeOK, Becomes, Placed, Stage, Creating

LEMMA IdlePlaced == Placed(Idle)
BY DEF Placed, Stage, Idle

LEMMA BeginPlaces ==
    ASSUME StageInv, TypeOK, NEW c \in Conns, Begin(c)
    PROVE  StageInv'
<1> USE DEF Placed, Stage, Idle
<1>1. CASE \E target \in Statuses \ {"sealed"} : BeginPatch(c, target)
  BY <1>1, PlacedStep DEF BeginPatch, Starts
<1>2. CASE BeginOpen(c)
  BY <1>2, PlacedStep DEF BeginOpen, Starts
<1>3. CASE \E u \in Users, r \in Roles : BeginAdd(c, u, r)
  BY <1>3, PlacedStep DEF BeginAdd, Starts
<1>4. CASE \E autoCreate \in BOOLEAN : BeginSeal(c, autoCreate)
  BY <1>4, PlacedStep DEF BeginSeal, Starts, Steps
<1>5. QED
  BY <1>1, <1>2, <1>3, <1>4 DEF Begin

\* What a statement does to the record of its request: it ends, or goes on
\* at a later stage.
LEMMA StepGoesOn ==
    ASSUME StageInv, TypeOK, NEW c \in Conns, Step(c)
    PROVE  \E r : Becomes(c, r) /\ Placed(r) /\ Left(r) < Left(txn[c])
<1> DEFINE Goal == \E r : Becomes(c, r) /\ Placed(r) /\ Left(r) < Left(txn[c])
<1> SUFFICES Goal
  OBVIOUS
<1>1. Placed(txn[c]) /\ txn[c] \in Txns
  BY DEF StageInv, TypeOK
<1>2. ASSUME Becomes(c, Idle), txn[c].op # "idle" PROVE Goal
  <2>1. Left(Idle) = 0
    BY DEF Left, Idle
  <2>2. 0 < Left(txn[c])
    BY <1>2 DEF Left
  <2>3. QED
    BY <1>2, <2>1, <2>2, IdlePlaced
<1>3. ASSUME Rollback(c), txn[c].op # "idle" PROVE Goal
  BY <1>2, <1>3 DEF Rollback
<1>4. ASSUME NEW x \in Steps, Moves(c, x), txn[c].op # "idle",
             Placed([txn[c] EXCEPT !.step = x]),
             Left([txn[c] EXCEPT !.step = x]) < Left(txn[c])
      PROVE  Goal
  BY <1>4 DEF Moves
<1>5. \A x \in Steps : /\ [txn[c] EXCEPT !.step = x].op = txn[c].op
                       /\ [txn[c] EXCEPT !.step = x].step = x
                       /\ [txn[c] EXCEPT !.step = x].creates = txn[c].creates
  BY <1>1, StepIsTxn
<1> HIDE DEF Goal
<1> USE DEF At, Placed, Stage, Creating, Left, Steps
<1>6. CASE WritePatch(c)
  BY <1>1, <1>3, <1>4, <1>5, <1>6 DEF WritePatch
<1>7. CASE CommitPatch(c) \/ CommitOpen(c) \/ CommitAdd(c) \/ Enqueue(c) \/ CommitRecover(c)
  BY <1>2, <1>7 DEF CommitPatch, CommitOpen, CommitAdd, Enqueue, CommitRecover
<1>8. CASE WriteOpen(c)
  <2> DEFINE r == [txn[c] EXCEPT !.step = "written", !.creates = TRUE]
  <2>1. r.op = txn[c].op /\ r.step = "written"
    BY <1>1 DEF Txns
  <2>2. CASE Becomes(c, r)
    <3>1. Placed(r) /\ Left(r) < Left(txn[c])
      BY <1>8, <2>1 DEF WriteOpen
    <3>2. QED
      BY <2>2, <3>1 DEF Goal
  <2>3. QED
    BY <1>3, <1>8, <2>2 DEF WriteOpen
<1>9. CASE WriteAdd(c)
  <2>1. PICK w : Becomes(c, [txn[c] EXCEPT !.step = "written", !.writes = w])
    BY <1>9 DEF WriteAdd
  <2> DEFINE r == [txn[c] EXCEPT !.step = "written", !.writes = w]
  <2>2. r.op = txn[c].op /\ r.step = "written" /\ r.creates = txn[c].creates
    BY <1>1 DEF Txns
  <2>3. Placed(r) /\ Left(r) < Left(txn[c])
    BY <1>1, <1>9, <2>2 DEF WriteAdd
  <2>4. QED
    BY <2>1, <2>3 DEF Goal
<1>10. CASE SealReadsSession(c)
  <2> DEFINE r == [txn[c] EXCEPT !.op = "recover", !.step = "found"]
             q == [txn[c] EXCEPT !.step = "found", !.saw = session]
  <2>1. /\ r.op = "recover" /\ r.step = "found" /\ r.creates = txn[c].creates
        /\ q.op = txn[c].op /\ q.step = "found" /\ q.creates = txn[c].creates
    BY <1>1 DEF Txns
  <2>2. Placed(r) /\ Left(r) < Left(txn[c])
    BY <1>1, <1>10, <2>1 DEF SealReadsSession
  <2>3. Placed(q) /\ Left(q) < Left(txn[c])
    BY <1>1, <1>10, <2>1 DEF SealReadsSession
  <2>4. QED
    BY <1>10, <2>2, <2>3 DEF SealReadsSession, Goal
<1>11. CASE SealChecksQuorum(c)
  BY <1>1, <1>3, <1>4, <1>5, <1>11 DEF SealChecksQuorum
<1>12. CASE SealChecksFlags(c)
  BY <1>1, <1>3, <1>4, <1>5, <1>12 DEF SealChecksFlags
<1>13. CASE SealFails(c)
  BY <1>3, <1>13 DEF SealFails
<1>14. CASE SealOpensSession(c)
  <2> DEFINE r == [txn[c] EXCEPT !.step = "opened", !.creates = TRUE]
  <2>1. r.op = txn[c].op /\ r.step = "opened"
    BY <1>1 DEF Txns
  <2>2. Placed(r) /\ Left(r) < Left(txn[c])
    BY <1>14, <2>1 DEF SealOpensSession
  <2>3. QED
    BY <1>3, <1>14, <2>2 DEF SealOpensSession, Goal
<1>15. CASE SealBuildsPv(c)
  <2>1. PICK w, p : Becomes(c, [txn[c] EXCEPT !.step = "pv_built", !.writes = w, !.pv = p])
    BY <1>15 DEF SealBuildsPv
  <2> DEFINE r == [txn[c] EXCEPT !.step = "pv_built", !.writes = w, !.pv = p]
  <2>2. r.op = txn[c].op /\ r.step = "pv_built" /\ r.creates = txn[c].creates
    BY <1>1 DEF Txns
  <2>3. Placed(r) /\ Left(r) < Left(txn[c])
    BY <1>15, <2>2 DEF SealBuildsPv
  <2>4. QED
    BY <2>1, <2>3 DEF Goal
<1>16. CASE SealWritesSession(c)
  BY <1>1, <1>3, <1>4, <1>5, <1>16 DEF SealWritesSession
<1>17. CASE SealWritesWs(c)
  BY <1>1, <1>3, <1>4, <1>5, <1>17 DEF SealWritesWs
<1>18. CASE CommitSeal(c)
  <2> DEFINE r == [Idle EXCEPT !.op = "seal", !.step = "answered"]
  <2>1. r.op = "seal" /\ r.step = "answered" /\ r.creates = FALSE
    BY DEF Idle
  <2>2. Becomes(c, r) /\ Placed(r) /\ Left(r) < Left(txn[c])
    BY <1>18, <2>1 DEF CommitSeal
  <2>3. QED
    BY <2>2 DEF Goal
<1>19. CASE RecoverWrites(c)
  BY <1>1, <1>3, <1>4, <1>5, <1>19 DEF RecoverWrites
<1>20. QED
  BY <1>6, <1>7, <1>8, <1>9, <1>10, <1>11, <1>12, <1>13, <1>14, <1>15, <1>16, <1>17, <1>18, <1>19
     DEF Step, Goal

LEMMA NextPlaces ==
    ASSUME StageInv, TypeOK, [Next]_vars
    PROVE  StageInv'
<1>1. CASE \E c \in Conns : Begin(c)
  BY <1>1, BeginPlaces
<1>2. CASE \E c \in Conns : Step(c)
  BY <1>2, StepGoesOn, PlacedStep
<1>3. CASE \E c \in Conns : Abort(c)
  BY <1>3, IdlePlaced, PlacedStep DEF Abort, Rollback
<1>4. CASE Others \/ UNCHANGED vars
  <2>1. txn' = txn
    BY <1>4 DEF Others, RevokeMember, InviteMember, RaiseFlag, ResolveFlag, Changes, vars
  <2>2. QED
    BY <2>1 DEF StageInv, Placed, Stage, Creating
<1>5. QED
  BY <1>1, <1>2, <1>3, <1>4 DEF Next

\* Whoever holds a lock is nearer its end than whoever waits for it.
LEMMA HolderIsAhead ==
    ASSUME StageInv, TypeOK, NEW c \in Conns, NEW d \in Conns, WaitsFor(c, d)
    PROVE  Left(txn[d]) < Left(txn[c])
<1>1. Placed(txn[c]) /\ Placed(txn[d]) /\ txn[c] \in Txns /\ txn[d] \in Txns
  BY DEF StageInv, TypeOK
<1> DEFINE r == txn[c]
           q == txn[d]
<1>2. q.creates => Left(q) <= 5
  BY <1>1 DEF Placed, Creating, Left
<1>3. \A u \in Users : HoldsRoster(q, u) => Left(q) <= 4
  BY DEF HoldsRoster, Left
<1>4. HoldsSession(q) => Left(q) <= 3
  BY DEF HoldsSession, Left
<1>5. HoldsWs(q) => Left(q) <= 2
  BY DEF HoldsWs, Left
<1>6. /\ At(c, "seal", "session_written") => Left(r) = 3
      /\ At(c, "seal", "pv_built") => Left(r) = 4
      /\ At(c, "seal", "opened") => Left(r) = 5
      /\ At(c, "seal", "checked") => Left(r) = 6
      /\ At(c, "recover", "found") => Left(r) = 8
      /\ At(c, "patch", "read") \/ At(c, "add", "read") => Left(r) = 9
      /\ At(c, "open", "read") => Left(r) = 9
  BY DEF At, Left
<1>7. Left(q) \in Nat /\ Left(r) \in Nat
  BY DEF Left
<1> HIDE DEF r, q
<1>8. QED
  BY <1>2, <1>3, <1>4, <1>5, <1>6, <1>7 DEF WaitsFor, r, q

LEMMA NoCircle ==
    ASSUME StageInv, TypeOK
    PROVE  NoCircularWait
<1> SUFFICES ASSUME NEW S \in SUBSET Conns, S # {}
             PROVE  \E c \in S : \A d \in S : ~WaitsFor(c, d)
  BY DEF NoCircularWait
<1>1. \A c \in S : Left(txn[c]) \in 0..9
  BY DEF Left
<1>2. PICK c \in S : \A d \in S : Left(txn[c]) <= Left(txn[d])
  BY <1>1
<1>3. \A d \in S : ~WaitsFor(c, d)
  BY <1>1, <1>2, HolderIsAhead
<1>4. QED
  BY <1>3

\* Every request is at a stage that its handler has, and holds the session it
\* creates only where the handler does.
LEMMA AlwaysPlaced == Safety => []StageInv
<1>1. Init => StageInv
  BY IdlePlaced DEF Init, StageInv
<1>2. QED
  BY <1>1, NextPlaces, TypeCorrect, PTL DEF Safety

\* Any requests whatever, seals, recoveries, status changes, sessions opened
\* and members added, never wait for each other in a circle.
THEOREM NeverCircularWait == Safety => []NoCircularWait
BY AlwaysPlaced, TypeCorrect, NoCircle, PTL

\* Every statement brings its request nearer to its end, which is at most nine
\* statements away.
THEOREM EveryStepAdvances == Safety => StepsAdvance
<1>1. ASSUME StageInv, TypeOK, NEW c \in Conns, Step(c)
      PROVE  Left(txn'[c]) < Left(txn[c])
  BY <1>1, StepGoesOn DEF Becomes, TypeOK
<1>2. StageInv /\ TypeOK => [\A c \in Conns : Step(c) => Left(txn'[c]) < Left(txn[c])]_vars
  BY <1>1
<1>3. QED
  BY <1>2, AlwaysPlaced, TypeCorrect, PTL DEF StepsAdvance

-----------------------------------------------------------------------------
(* What the quorum counts.                                                 *)

\* The membership rows that check_quorum counts: rows, not people.
Counted == {m \in memberships : m[2] # Observer}

\* UNIQUE (workspace_id, user_id, role) lets one user have every role, and with
\* enough roles that user alone is a quorum.
THEOREM QuorumOfOne ==
    ASSUME NEW u \in Users, memberships = {u} \X Roles, IsFiniteSet(Roles),
           Observer \notin Critical, Cardinality(Roles \ {Observer}) >= QuorumMin
    PROVE  Quorate
<1> DEFINE Held == Roles \ {Observer}
           row == [r \in Held |-> <<u, r>>]
<1>1. IsFiniteSet(Held)
  BY FS_Subset
<1>2. row \in Injection(Held, Counted) /\ row \in Surjection(Held, Counted)
  BY DEF Injection, Surjection, IsInjective, Counted
<1>3. ExistsBijection(Held, Counted)
  BY <1>2 DEF ExistsBijection, Bijection
<1>4. Cardinality(Counted) >= QuorumMin
  BY <1>1, <1>3, FS_Bijection
<1>5. \A r \in Critical : <<u, r>> \in Counted
  BY RolesAssumption DEF Counted
<1>6. QED
  BY <1>4, <1>5 DEF Quorate, Counted

=============================================================================
