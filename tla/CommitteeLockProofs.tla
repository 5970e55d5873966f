-------------------------- MODULE CommitteeLockProofs --------------------------
(***************************************************************************)
(* Proofs about CommitteeLock, for any number of sessions, members,        *)
(* decisions and seals.                                                    *)
(***************************************************************************)
EXTENDS CommitteeLock, TLAPS

-----------------------------------------------------------------------------
(* Facts about the operators. *)

\* The newest element of a set, when there is one, is an element of it.
LEMMA NewestIsElement ==
    ASSUME NEW D, Newest(D) # 0
    PROVE  IsNewest(Newest(D), D)
BY DEF Newest

\* No newest in an empty set; the newest of a single number is that number.
LEMMA NewestOfNone == Newest({}) = 0
BY DEF Newest, IsNewest

LEMMA NewestOfOne ==
    ASSUME NEW d \in Nat
    PROVE  Newest({d}) = d
<1>1. IsNewest(d, {d}) /\ \A e : IsNewest(e, {d}) => e = d
  BY DEF IsNewest
<1>2. QED
  BY <1>1 DEF Newest

\* The candidate decision, when there is one, is a row that stands.
LEMMA CandidateStands ==
    ASSUME Candidate # 0
    PROVE  Candidate \in DecisionIds /\ Candidate \in Standing
BY NewestIsElement DEF Candidate, Standing, IsNewest

\* A session's new transaction replaces only its own.
LEMMA OnlyOwn ==
    ASSUME TypeOK, NEW s \in Sessions, NEW r \in Txns, Becomes(s, r)
    PROVE  /\ txn' \in [Sessions -> Txns]
           /\ txn'[s] = r
           /\ \A t \in Sessions \ {s} : txn'[t] = txn[t]
BY DEF Becomes, TypeOK

\* The transactions that requests begin with, and an idle session.
LEMMA IdleIsTxn == Idle \in Txns
BY BoundsAssumption DEF Idle, Txns, Steps

LEMMA RequestIsTxn ==
    ASSUME NEW op \in Ops, NEW step \in Steps, NEW on \in Members \cup 0..MaxDecisions,
           NEW row \in DecisionRows \cup {NoRow}, NEW seal \in 0..MaxSeals
    PROVE  Request(op, step, on, row, seal) \in Txns
BY DEF Request, Txns

\* A transaction that goes on to another step.
LEMMA StepIsTxn ==
    ASSUME TypeOK, NEW s \in Sessions, NEW x \in Steps
    PROVE  [txn[s] EXCEPT !.step = x] \in Txns
BY DEF TypeOK, Txns

LEMMA ChoiceIsTxn ==
    ASSUME TypeOK, NEW s \in Sessions, NEW d \in DecisionIds
    PROVE  [txn[s] EXCEPT !.step = "written", !.on = d] \in Txns
<1>1. d \in 0..MaxDecisions
  BY BoundsAssumption DEF DecisionIds
<1>2. QED
  BY <1>1 DEF TypeOK, Txns, Steps

-----------------------------------------------------------------------------
(* What each kind of step does to the transactions. *)

\* A request begins: its session was idle and the rows stay as they are.
LEMMA BeginShape ==
    ASSUME TypeOK, NEW s \in Sessions, Begin(s)
    PROVE  /\ UNCHANGED rows
           /\ begun' \in 0..MaxDecisions /\ seals' \in 0..MaxSeals
           /\ \E r \in Txns : Starts(s, r) /\ r.step # "written"
<1> USE BoundsAssumption
<1>1. NoRow \in DecisionRows \cup {NoRow} /\ 0 \in Members \cup 0..MaxDecisions /\ 0 \in 0..MaxSeals
  OBVIOUS
<1>2. CASE \E op \in StatusOps : BeginStatusChange(s, op)
  <2>1. PICK op \in StatusOps : BeginStatusChange(s, op)
    BY <1>2
  <2>2. Request(op, "read", 0, NoRow, 0) \in Txns
    BY <1>1, RequestIsTxn DEF Ops, Steps
  <2>3. QED
    BY <2>1, <2>2 DEF BeginStatusChange, rows, TypeOK, Request
<1>3. CASE \E op \in MemberOps, m \in Members : BeginMemberChange(s, op, m)
  <2>1. PICK op \in MemberOps, m \in Members : BeginMemberChange(s, op, m)
    BY <1>3
  <2>2. Request(op, "read", m, NoRow, 0) \in Txns
    BY <1>1, RequestIsTxn DEF Ops, Steps
  <2>3. QED
    BY <2>1, <2>2 DEF BeginMemberChange, rows, TypeOK, Request
<1>4. CASE \E row \in NewRows : BeginSetDecision(s, row)
  <2>1. PICK row \in NewRows : BeginSetDecision(s, row)
    BY <1>4
  <2>2. row \in DecisionRows
    BY DEF NewRows, DecisionRows
  <2>3. begun + 1 \in 0..MaxDecisions
    BY <2>1 DEF BeginSetDecision, TypeOK
  <2>4. Request("set_decision", "read", begun + 1, row, 0) \in Txns
    BY <1>1, <2>2, <2>3, RequestIsTxn DEF Ops, Steps
  <2>5. QED
    BY <2>1, <2>3, <2>4 DEF BeginSetDecision, rows, TypeOK, Request
<1>5. CASE BeginSeal(s)
  <2>1. seals + 1 \in 0..MaxSeals
    BY <1>5 DEF BeginSeal, TypeOK
  <2>2. Request("seal", "status_ok", 0, NoRow, seals + 1) \in Txns
    BY <1>1, <2>1, RequestIsTxn DEF Ops, Steps
  <2>3. QED
    BY <1>5, <2>1, <2>2 DEF BeginSeal, rows, TypeOK, Request
<1>6. QED
  BY <1>2, <1>3, <1>4, <1>5 DEF Begin

\* A transaction reads or writes: only its own record changes.  Once it has
\* written, the row lock was granted, the triggers passed, and a seal holds
\* the candidate.
LEMMA WriteShape ==
    ASSUME TypeOK, NEW s \in Sessions, Write(s)
    PROVE  /\ UNCHANGED <<rows, begun, seals>>
           /\ txn[s].op \in Ops
           /\ \/ Becomes(s, Idle)
              \/ /\ txn[s].op \in Ops \ {"seal"}
                 /\ Becomes(s, [txn[s] EXCEPT !.step = "written"])
                 /\ LockGranted(s)
                 /\ txn[s].op # "remove_member" => status # "sealed"
              \/ /\ txn[s].op = "seal"
                 /\ \E x \in {"decision_ok", "quorate"} :
                       Becomes(s, [txn[s] EXCEPT !.step = x])
              \/ /\ txn[s].op = "seal"
                 /\ LockGranted(s)
                 /\ Candidate # 0 /\ IsSealTransition(Candidate)
                 /\ Becomes(s, [txn[s] EXCEPT !.step = "written", !.on = Candidate])
<1>1. CASE WriteStatus(s)
  BY <1>1 DEF WriteStatus, Moves, Rollback, TerminalTriggerPasses, StatusAfter, Ops, StatusOps
<1>2. CASE WriteAddMember(s)
  BY <1>2 DEF WriteAddMember, Moves, Rollback, LockTriggerPasses, Ops, MemberOps
<1>3. CASE WriteRemoveMember(s)
  BY <1>3 DEF WriteRemoveMember, Moves, Ops, MemberOps
<1>4. CASE WriteDecision(s)
  BY <1>4 DEF WriteDecision, Moves, Rollback, LockTriggerPasses, Ops
<1>5. CASE SealReadsDecision(s)
  BY <1>5 DEF SealReadsDecision, Moves, Rollback, Ops
<1>6. CASE SealReadsMembers(s)
  BY <1>6 DEF SealReadsMembers, Moves, Rollback, Ops
<1>7. CASE SealWrites(s)
  BY <1>7 DEF SealWrites, Rollback, Ops
<1>8. QED
  BY <1>1, <1>2, <1>3, <1>4, <1>5, <1>6, <1>7 DEF Write

-----------------------------------------------------------------------------
(* Type correctness. *)

\* Every step keeps every row and every transaction in its type.
LEMMA TypePreserved ==
    ASSUME TypeOK, RequestInv, WriterInv, [Next]_vars
    PROVE  TypeOK'
<1>1. ASSUME NEW s \in Sessions, Begin(s)
      PROVE  TypeOK'
  <2>1. txn' \in [Sessions -> Txns]
    BY <1>1, BeginShape, OnlyOwn DEF Starts
  <2>2. QED
    BY <1>1, <2>1, BeginShape DEF TypeOK, rows
<1>2. ASSUME NEW s \in Sessions, Write(s)
      PROVE  TypeOK'
  <2>1. \E r \in Txns : Becomes(s, r)
    BY <1>2, WriteShape, IdleIsTxn, StepIsTxn, ChoiceIsTxn, CandidateStands DEF Steps
  <2>2. txn' \in [Sessions -> Txns]
    BY <2>1, OnlyOwn
  <2>3. QED
    BY <1>2, <2>2, WriteShape DEF TypeOK, rows
<1>3. ASSUME NEW s \in Sessions, Commit(s)
      PROVE  TypeOK'
  <2>1. Becomes(s, Idle) /\ UNCHANGED <<begun, seals>>
    BY <1>3 DEF Commit, CommitStatus, CommitMember, CommitDecision, CommitSeal, Closes
  <2>2. txn' \in [Sessions -> Txns]
    BY <2>1, OnlyOwn, IdleIsTxn
  <2>3. CASE CommitStatus(s)
    BY <2>1, <2>2, <2>3 DEF TypeOK, CommitStatus, StatusAfter, Statuses, StatusOps, EventTypes
  <2>4. CASE CommitMember(s)
    <3>1. member' \in [Members -> MemberStatuses]
      BY <2>4 DEF TypeOK, CommitMember, MemberStatuses
    <3>2. events' \subseteq EventTypes
      BY <2>4 DEF TypeOK, CommitMember, EventTypes
    <3>3. QED
      BY <2>1, <2>2, <2>4, <3>1, <3>2 DEF TypeOK, CommitMember
  <2>5. CASE CommitDecision(s)
    <3>1. txn[s].row \in DecisionRows
      BY <2>5, BoundsAssumption DEF CommitDecision, RequestInv, NewRows, DecisionRows
    <3>2. decision' \in [DecisionIds -> DecisionRows \cup {NoRow}]
      BY <2>5, <3>1 DEF TypeOK, CommitDecision
    <3>3. QED
      BY <2>1, <2>2, <2>5, <3>2 DEF TypeOK, CommitDecision
  <2>6. CASE CommitSeal(s)
    <3>1. /\ txn[s].seal \in SealIds /\ txn[s].seal \in 0..MaxSeals
          /\ txn[s].on \in DecisionIds
      BY <2>6, CandidateStands, BoundsAssumption DEF CommitSeal, RequestInv, WriterInv, SealIds
    <3>2. decision[txn[s].on] \in DecisionRows
      BY <2>6, <3>1, CandidateStands DEF CommitSeal, WriterInv, TypeOK, Standing, NoRow
    <3>3. decision' \in [DecisionIds -> DecisionRows \cup {NoRow}]
      BY <2>6, <3>1, <3>2 DEF TypeOK, CommitSeal, DecisionRows, DecisionStatuses
    <3>4. QED
      BY <2>1, <2>2, <2>6, <3>1, <3>3 DEF TypeOK, CommitSeal, Statuses, EventTypes
  <2>7. QED
    BY <1>3, <2>3, <2>4, <2>5, <2>6 DEF Commit
<1>4. ASSUME NEW s \in Sessions, Abort(s)
      PROVE  TypeOK'
  BY <1>4, OnlyOwn, IdleIsTxn DEF Abort, Rollback, rows, TypeOK
<1>5. ASSUME NEW m \in Members, NEW new \in {"active", "absent"}, SetMemberStatus(m, new)
      PROVE  TypeOK'
  BY <1>5 DEF SetMemberStatus, MemberStatuses, TypeOK
<1>6. CASE UNCHANGED vars
  BY <1>6 DEF vars, rows, TypeOK
<1>7. QED
  BY <1>1, <1>2, <1>3, <1>4, <1>5, <1>6 DEF Next

-----------------------------------------------------------------------------
(* Locks and writers. *)

\* Lock compatibility is symmetric.
LEMMA ConflictsAreMutual ==
    ASSUME NEW a, NEW b
    PROVE  ModeOf(a) \in ConflictsWith(ModeOf(b)) <=> ModeOf(b) \in ConflictsWith(ModeOf(a))
BY DEF ModeOf, ConflictsWith

\* FOR UPDATE conflicts with every lock another writer can hold, and a
\* proposal's share lock with a seal.
LEMMA SealExcludes ==
    ASSUME NEW a, NEW b
    PROVE  /\ a = "seal" => ModeOf(b) \in ConflictsWith(ModeOf(a))
           /\ b = "seal" => ModeOf(b) \in ConflictsWith(ModeOf(a))
BY DEF ModeOf, ConflictsWith, StatusOps

\* While a seal has written and not committed, no other session has.
LEMMA SealWritesAlone ==
    ASSUME TypeOK, LockInv, NEW s \in Sessions, NEW t \in Sessions \ {s},
           txn[s].step = "written", txn[t].step = "written"
    PROVE  txn[s].op # "seal" /\ txn[t].op # "seal"
BY SealExcludes DEF LockInv, Holds

\* Begin, Commit and Abort never leave their own session written.
LEMMA CloseShape ==
    ASSUME NEW s \in Sessions, Commit(s) \/ Abort(s)
    PROVE  Becomes(s, Idle) /\ UNCHANGED <<begun, seals>>
BY DEF Commit, CommitStatus, CommitMember, CommitDecision, CommitSeal, Closes, Abort, Rollback

LEMMA LockPreserved ==
    ASSUME TypeOK, LockInv, [Next]_vars
    PROVE  LockInv'
<1>1. ASSUME NEW s \in Sessions, NEW r \in Txns, Becomes(s, r), r.step # "written"
      PROVE  LockInv'
  <2>1. txn'[s] = r /\ \A t \in Sessions \ {s} : txn'[t] = txn[t]
    BY <1>1, OnlyOwn
  <2>2. QED
    BY <1>1, <2>1 DEF LockInv, Holds
<1>2. ASSUME NEW s \in Sessions, NEW r \in Txns, Becomes(s, r), r.op = txn[s].op,
             LockGranted(s)
      PROVE  LockInv'
  <2>1. txn'[s] = r /\ \A t \in Sessions \ {s} : txn'[t] = txn[t]
    BY <1>2, OnlyOwn
  <2>2. ASSUME NEW t \in Sessions \ {s}, txn[t].step = "written"
        PROVE  /\ ModeOf(txn[t].op) \notin ConflictsWith(ModeOf(r.op))
               /\ ModeOf(r.op) \notin ConflictsWith(ModeOf(txn[t].op))
    BY <1>2, <2>2, ConflictsAreMutual DEF LockGranted, Holds
  <2>3. QED
    BY <1>2, <2>1, <2>2 DEF LockInv, Holds
<1>3. Idle.step # "written"
  BY DEF Idle
<1>4. ASSUME NEW s \in Sessions, Begin(s)
      PROVE  LockInv'
  BY <1>1, <1>4, BeginShape DEF Starts
<1>5. ASSUME NEW s \in Sessions, Write(s)
      PROVE  LockInv'
  <2>1. CASE Becomes(s, Idle)
    BY <1>1, <1>3, <2>1, IdleIsTxn
  <2>2. CASE /\ Becomes(s, [txn[s] EXCEPT !.step = "written"])
             /\ LockGranted(s)
    <3>1. [txn[s] EXCEPT !.step = "written"] \in Txns
      BY StepIsTxn DEF Steps
    <3>2. [txn[s] EXCEPT !.step = "written"].op = txn[s].op
      BY DEF TypeOK, Txns
    <3>3. QED
      BY <1>2, <2>2, <3>1, <3>2
  <2>3. CASE \E x \in {"decision_ok", "quorate"} : Becomes(s, [txn[s] EXCEPT !.step = x])
    <3>1. PICK x \in {"decision_ok", "quorate"} : Becomes(s, [txn[s] EXCEPT !.step = x])
      BY <2>3
    <3>2. [txn[s] EXCEPT !.step = x] \in Txns
      BY StepIsTxn DEF Steps
    <3>3. [txn[s] EXCEPT !.step = x].step # "written"
      BY DEF TypeOK, Txns
    <3>4. QED
      BY <1>1, <3>1, <3>2, <3>3
  <2>4. CASE /\ LockGranted(s)
             /\ Candidate # 0
             /\ Becomes(s, [txn[s] EXCEPT !.step = "written", !.on = Candidate])
    <3>1. [txn[s] EXCEPT !.step = "written", !.on = Candidate] \in Txns
      BY <2>4, ChoiceIsTxn, CandidateStands
    <3>2. [txn[s] EXCEPT !.step = "written", !.on = Candidate].op = txn[s].op
      BY DEF TypeOK, Txns
    <3>3. QED
      BY <1>2, <2>4, <3>1, <3>2
  <2>5. QED
    BY <1>5, <2>1, <2>2, <2>3, <2>4, WriteShape
<1>6. ASSUME NEW s \in Sessions, Commit(s) \/ Abort(s)
      PROVE  LockInv'
  BY <1>1, <1>3, <1>6, IdleIsTxn, CloseShape
<1>7. ASSUME UNCHANGED txn
      PROVE  LockInv'
  BY <1>7 DEF LockInv, Holds
<1>8. QED
  BY <1>4, <1>5, <1>6, <1>7 DEF Next, SetMemberStatus, vars

\* A sealed committee's candidate is the decision that carries the seal, so
\* the lock trigger refuses to seal it again.
LEMMA NoSecondSeal ==
    ASSUME TypeOK, SealRecord, SealedIsNewest, status = "sealed"
    PROVE  ~IsSealTransition(Candidate)
<1>1. Candidate \in DecisionIds /\ decision[Candidate].seal = sealedAs
  BY CandidateStands DEF SealedIsNewest
<1>2. PICK d \in DecisionIds :
         /\ decision[d].status = "sealed"
         /\ \A e \in DecisionIds \ {d} : decision[e].seal = 0
         /\ sealedAs # 0
  BY DEF SealRecord
<1>3. QED
  BY <1>1, <1>2 DEF IsSealTransition

LEMMA WriterPreserved ==
    ASSUME TypeOK, LockInv, WriterInv, SealRecord, SealedIsNewest, [Next]_vars
    PROVE  WriterInv'
<1> DEFINE Ok(r) == r.step = "written" =>
                      /\ r.op # "remove_member" => status # "sealed"
                      /\ r.op = "seal" => r.on = Candidate /\ Candidate # 0
<1>1. ASSUME NEW s \in Sessions, NEW r \in Txns, Becomes(s, r), UNCHANGED <<status, decision>>, Ok(r)
      PROVE  WriterInv'
  <2>1. txn'[s] = r /\ \A t \in Sessions \ {s} : txn'[t] = txn[t]
    BY <1>1, OnlyOwn
  <2>2. Candidate' = Candidate
    BY <1>1 DEF Candidate, Standing
  <2>3. QED
    BY <1>1, <2>1, <2>2 DEF WriterInv
<1>2. Ok(Idle)
  BY DEF Idle
<1>3. ASSUME NEW s \in Sessions, Begin(s)
      PROVE  WriterInv'
  BY <1>1, <1>3, BeginShape DEF Starts, rows
<1>4. ASSUME NEW s \in Sessions, Write(s)
      PROVE  WriterInv'
  <2> USE DEF rows
  <2>1. CASE Becomes(s, Idle)
    BY <1>1, <1>2, <1>4, <2>1, IdleIsTxn, WriteShape
  <2>2. CASE /\ txn[s].op \in Ops \ {"seal"}
             /\ Becomes(s, [txn[s] EXCEPT !.step = "written"])
             /\ txn[s].op # "remove_member" => status # "sealed"
    <3>1. [txn[s] EXCEPT !.step = "written"] \in Txns
      BY StepIsTxn DEF Steps
    <3>2. Ok([txn[s] EXCEPT !.step = "written"])
      BY <2>2 DEF TypeOK, Txns
    <3>3. QED
      BY <1>1, <1>4, <2>2, <3>1, <3>2, WriteShape
  <2>3. CASE \E x \in {"decision_ok", "quorate"} : Becomes(s, [txn[s] EXCEPT !.step = x])
    <3>1. PICK x \in {"decision_ok", "quorate"} : Becomes(s, [txn[s] EXCEPT !.step = x])
      BY <2>3
    <3>2. [txn[s] EXCEPT !.step = x] \in Txns
      BY StepIsTxn DEF Steps
    <3>3. Ok([txn[s] EXCEPT !.step = x])
      BY DEF TypeOK, Txns
    <3>4. QED
      BY <1>1, <1>4, <3>1, <3>2, <3>3, WriteShape
  <2>4. CASE /\ Candidate # 0 /\ IsSealTransition(Candidate)
             /\ Becomes(s, [txn[s] EXCEPT !.step = "written", !.on = Candidate])
    <3>1. [txn[s] EXCEPT !.step = "written", !.on = Candidate] \in Txns
      BY <2>4, ChoiceIsTxn, CandidateStands
    <3>2. Ok([txn[s] EXCEPT !.step = "written", !.on = Candidate])
      BY <2>4, NoSecondSeal DEF TypeOK, Txns
    <3>3. QED
      BY <1>1, <1>4, <2>4, <3>1, <3>2, WriteShape
  <2>5. QED
    BY <1>4, <2>1, <2>2, <2>3, <2>4, WriteShape
<1>5. ASSUME NEW s \in Sessions, Commit(s)
      PROVE  WriterInv'
  <2>1. txn'[s] = Idle /\ \A t \in Sessions \ {s} : txn'[t] = txn[t]
    BY <1>5, CloseShape, OnlyOwn, IdleIsTxn
  <2>2. CASE CommitStatus(s)
    <3>1. status' # "sealed" /\ Candidate' = Candidate
      BY <2>2 DEF CommitStatus, StatusAfter, Candidate, Standing
    <3>2. QED
      BY <1>2, <2>1, <3>1 DEF WriterInv
  <2>3. CASE CommitMember(s)
    BY <1>1, <1>2, <1>5, <2>3, CloseShape, IdleIsTxn DEF CommitMember
  <2>4. CASE CommitDecision(s)
    <3>1. status' = status /\ txn[s].step = "written" /\ txn[s].op = "set_decision"
      BY <2>4 DEF CommitDecision
    <3>2. \A t \in Sessions \ {s} : txn[t].step = "written" => txn[t].op # "seal"
      BY <3>1, SealWritesAlone
    <3>3. QED
      BY <2>1, <3>1, <3>2 DEF WriterInv, Idle
  <2>5. CASE CommitSeal(s)
    <3>1. \A t \in Sessions \ {s} : txn[t].step # "written"
      BY <2>5, SealWritesAlone DEF CommitSeal
    <3>2. QED
      BY <1>2, <2>1, <3>1 DEF WriterInv, Idle
  <2>6. QED
    BY <1>5, <2>2, <2>3, <2>4, <2>5 DEF Commit
<1>6. ASSUME NEW s \in Sessions, Abort(s)
      PROVE  WriterInv'
  BY <1>1, <1>2, <1>6, CloseShape, IdleIsTxn DEF Abort, Rollback, rows
<1>7. ASSUME UNCHANGED <<txn, status, decision>>
      PROVE  WriterInv'
  BY <1>7 DEF WriterInv, Candidate, Standing
<1>8. QED
  BY <1>3, <1>4, <1>5, <1>6, <1>7 DEF Next, SetMemberStatus, vars, rows

-----------------------------------------------------------------------------
(* Requests and the numbers of decisions. *)

\* A transaction that has gone on keeps its request; an idle session has none.
LEMMA RequestKept ==
    ASSUME TypeOK, NEW s \in Sessions, Write(s)
    PROVE  \/ txn'[s] = Idle
           \/ /\ txn'[s].op = txn[s].op /\ txn'[s].row = txn[s].row /\ txn'[s].seal = txn[s].seal
              /\ txn[s].op # "seal" => txn'[s].on = txn[s].on
<1>1. txn[s] \in Txns /\ DOMAIN txn = Sessions
  BY DEF TypeOK
<1>2. ASSUME NEW r, Becomes(s, r)
      PROVE  txn'[s] = r
  BY <1>1, <1>2 DEF Becomes
<1>3. CASE Becomes(s, Idle)
  BY <1>2, <1>3
<1>4. CASE \E x \in Steps : Becomes(s, [txn[s] EXCEPT !.step = x])
  <2>1. PICK x \in Steps : txn'[s] = [txn[s] EXCEPT !.step = x]
    BY <1>2, <1>4
  <2>2. QED
    BY <1>1, <2>1 DEF Txns
<1>5. CASE txn[s].op = "seal" /\ Becomes(s, [txn[s] EXCEPT !.step = "written", !.on = Candidate])
  <2>1. txn'[s] = [txn[s] EXCEPT !.step = "written", !.on = Candidate]
    BY <1>2, <1>5
  <2>2. QED
    BY <1>1, <1>5, <2>1 DEF Txns
<1>6. QED
  BY <1>3, <1>4, <1>5, WriteShape DEF Steps

LEMMA RequestPreserved ==
    ASSUME TypeOK, RequestInv, [Next]_vars
    PROVE  RequestInv'
<1> DEFINE Ok(r) == /\ r.op = "seal" => r.seal \in SealIds
                    /\ r.op \in MemberOps => r.on \in Members
                    /\ r.op = "set_decision" => r.on \in DecisionIds /\ r.row \in NewRows
<1>1. ASSUME NEW s \in Sessions, \A t \in Sessions \ {s} : txn'[t] = txn[t], Ok(txn'[s])
      PROVE  RequestInv'
  BY <1>1 DEF RequestInv
<1>2. Ok(Idle)
  BY DEF Idle, MemberOps
<1>3. ASSUME NEW s \in Sessions, Begin(s)
      PROVE  RequestInv'
  <2>1. \A t \in Sessions \ {s} : txn'[t] = txn[t]
    BY <1>3, BeginShape, OnlyOwn DEF Starts
  <2>2. DOMAIN txn = Sessions
    BY DEF TypeOK
  <2>3. CASE \E op \in StatusOps : BeginStatusChange(s, op)
    BY <1>1, <2>1, <2>2, <2>3
       DEF BeginStatusChange, Starts, Becomes, Request, StatusOps, MemberOps
  <2>4. CASE \E op \in MemberOps, m \in Members : BeginMemberChange(s, op, m)
    BY <1>1, <2>1, <2>2, <2>4 DEF BeginMemberChange, Starts, Becomes, Request, MemberOps
  <2>5. CASE \E row \in NewRows : BeginSetDecision(s, row)
    <3>1. begun + 1 \in DecisionIds
      BY <2>5, BoundsAssumption DEF BeginSetDecision, TypeOK, DecisionIds
    <3>2. QED
      BY <1>1, <2>1, <2>2, <2>5, <3>1 DEF BeginSetDecision, Starts, Becomes, Request, MemberOps
  <2>6. CASE BeginSeal(s)
    <3>1. seals + 1 \in SealIds
      BY <2>6, BoundsAssumption DEF BeginSeal, TypeOK, SealIds
    <3>2. QED
      BY <1>1, <2>1, <2>2, <2>6, <3>1 DEF BeginSeal, Starts, Becomes, Request, MemberOps
  <2>7. QED
    BY <1>3, <2>3, <2>4, <2>5, <2>6 DEF Begin
<1>4. ASSUME NEW s \in Sessions, Write(s)
      PROVE  RequestInv'
  <2>1. \A t \in Sessions \ {s} : txn'[t] = txn[t]
    BY <1>4, WriteShape, IdleIsTxn, StepIsTxn, ChoiceIsTxn, CandidateStands, OnlyOwn DEF Steps
  <2>2. Ok(txn'[s])
    BY <1>2, <1>4, RequestKept DEF RequestInv, MemberOps
  <2>3. QED
    BY <1>1, <2>1, <2>2
<1>5. ASSUME NEW s \in Sessions, Commit(s) \/ Abort(s)
      PROVE  RequestInv'
  BY <1>1, <1>2, <1>5, CloseShape, IdleIsTxn, OnlyOwn
<1>6. ASSUME UNCHANGED txn
      PROVE  RequestInv'
  BY <1>6 DEF RequestInv
<1>7. QED
  BY <1>3, <1>4, <1>5, <1>6 DEF Next, SetMemberStatus, vars

\* A proposal's row is new: nobody else writes the row of its number.
LEMMA NumberPreserved ==
    ASSUME TypeOK, RequestInv, WriterInv, NumberInv, [Next]_vars
    PROVE  NumberInv'
<1>1. \A d \in DecisionIds : d \in Nat
  BY BoundsAssumption DEF DecisionIds
<1>2. ASSUME NEW s \in Sessions, \A t \in Sessions \ {s} : txn'[t] = txn[t],
             UNCHANGED <<decision, begun>>,
             txn'[s].op = "set_decision" => txn[s].op = "set_decision" /\ txn'[s].on = txn[s].on
      PROVE  NumberInv'
  BY <1>2 DEF NumberInv
<1>3. Idle.op # "set_decision"
  BY DEF Idle
<1>4. ASSUME NEW s \in Sessions, Begin(s)
      PROVE  NumberInv'
  <2>1. \A t \in Sessions \ {s} : txn'[t] = txn[t]
    BY <1>4, BeginShape, OnlyOwn DEF Starts
  <2>2. DOMAIN txn = Sessions
    BY DEF TypeOK
  <2>3. CASE \E op \in StatusOps : BeginStatusChange(s, op)
    BY <1>2, <2>1, <2>2, <2>3
       DEF BeginStatusChange, Starts, Becomes, Request, StatusOps, rows
  <2>4. CASE \E op \in MemberOps, m \in Members : BeginMemberChange(s, op, m)
    BY <1>2, <2>1, <2>2, <2>4 DEF BeginMemberChange, Starts, Becomes, Request, MemberOps, rows
  <2>5. CASE \E row \in NewRows : BeginSetDecision(s, row)
    <3>1. /\ txn'[s].on = begun + 1 /\ begun' = begun + 1 /\ begun + 1 \in DecisionIds
          /\ UNCHANGED decision /\ begun \in Nat
      BY <2>2, <2>5, BoundsAssumption
         DEF BeginSetDecision, Starts, Becomes, Request, rows, TypeOK, DecisionIds
    <3>2. \A t \in Sessions \ {s} : txn[t].op = "set_decision" =>
             txn[t].on \in Nat /\ txn[t].on <= begun
      BY <1>1 DEF NumberInv, RequestInv
    <3>3. QED
      BY <1>1, <2>1, <3>1, <3>2 DEF NumberInv
  <2>6. CASE BeginSeal(s)
    BY <1>2, <2>1, <2>2, <2>6 DEF BeginSeal, Starts, Becomes, Request, rows
  <2>7. QED
    BY <1>4, <2>3, <2>4, <2>5, <2>6 DEF Begin
<1>5. ASSUME NEW s \in Sessions, Write(s)
      PROVE  NumberInv'
  <2>1. \A t \in Sessions \ {s} : txn'[t] = txn[t]
    BY <1>5, WriteShape, IdleIsTxn, StepIsTxn, ChoiceIsTxn, CandidateStands, OnlyOwn DEF Steps
  <2>2. QED
    BY <1>2, <1>3, <1>5, <2>1, RequestKept, WriteShape DEF rows
<1>6. ASSUME NEW s \in Sessions, Commit(s)
      PROVE  NumberInv'
  <2>1. txn'[s] = Idle /\ \A t \in Sessions \ {s} : txn'[t] = txn[t]
    BY <1>6, CloseShape, IdleIsTxn, OnlyOwn
  <2>2. begun' = begun
    BY <1>6, CloseShape
  <2>3. CASE UNCHANGED decision
    BY <1>2, <1>3, <2>1, <2>2, <2>3
  <2>4. CASE CommitDecision(s)
    <3>1. \A d \in DecisionIds \ {txn[s].on} : decision'[d] = decision[d]
      BY <2>4 DEF CommitDecision, TypeOK
    <3>2. txn[s].op = "set_decision" /\ txn[s].on \in DecisionIds /\ txn[s].on <= begun
      BY <2>4 DEF CommitDecision, NumberInv, RequestInv
    <3>3. \A d \in DecisionIds : d > begun => d # txn[s].on
      BY <1>1, <3>2 DEF TypeOK
    <3>4. \A t \in Sessions \ {s} : txn[t].op = "set_decision" =>
             txn[t].on # txn[s].on /\ txn[t].on \in DecisionIds
      BY <3>2 DEF NumberInv, RequestInv
    <3>5. QED
      BY <1>3, <2>1, <2>2, <3>1, <3>3, <3>4 DEF NumberInv
  <2>5. CASE CommitSeal(s)
    <3>1. decision[txn[s].on] # NoRow
      BY <2>5, CandidateStands DEF CommitSeal, WriterInv, Standing, NoRow
    <3>2. \A d \in DecisionIds \ {txn[s].on} : decision'[d] = decision[d]
      BY <2>5 DEF CommitSeal, TypeOK
    <3>3. \A t \in Sessions \ {s} : txn[t].op = "set_decision" =>
             txn[t].on # txn[s].on /\ txn[t].on \in DecisionIds
      BY <3>1 DEF NumberInv, RequestInv
    <3>4. \A d \in DecisionIds : d > begun => d # txn[s].on
      BY <3>1 DEF NumberInv
    <3>5. QED
      BY <1>3, <2>1, <2>2, <3>2, <3>3, <3>4 DEF NumberInv
  <2>6. QED
    BY <1>6, <2>3, <2>4, <2>5 DEF Commit, CommitStatus, CommitMember
<1>7. ASSUME NEW s \in Sessions, Abort(s)
      PROVE  NumberInv'
  <2>1. txn'[s] = Idle /\ \A t \in Sessions \ {s} : txn'[t] = txn[t]
    BY <1>7, CloseShape, IdleIsTxn, OnlyOwn
  <2>2. QED
    BY <1>2, <1>3, <1>7, <2>1 DEF Abort, Rollback, rows
<1>8. ASSUME UNCHANGED <<txn, decision, begun>>
      PROVE  NumberInv'
  BY <1>8 DEF NumberInv
<1>9. QED
  BY <1>4, <1>5, <1>6, <1>7, <1>8 DEF Next, SetMemberStatus, vars, rows

-----------------------------------------------------------------------------
(* The seal. *)

\* Only a proposal and a seal change the decisions; a status handler leaves a
\* sealed committee alone; snapshots and the seal come from seals.
LEMMA SealColumns ==
    ASSUME TypeOK, WriterInv, [Next]_vars
    PROVE  \/ UNCHANGED <<sealedAs, decision, snapshots>>
              /\ (status' # status => status # "sealed" /\ status' # "sealed")
           \/ \E s \in Sessions : CommitDecision(s)
           \/ \E s \in Sessions : CommitSeal(s)
<1>1. ASSUME NEW s \in Sessions, Commit(s), ~CommitDecision(s), ~CommitSeal(s)
      PROVE  /\ UNCHANGED <<sealedAs, decision, snapshots>>
             /\ (status' # status => status # "sealed" /\ status' # "sealed")
  <2>1. CASE CommitStatus(s)
    BY <2>1 DEF CommitStatus, WriterInv, StatusAfter, StatusOps
  <2>2. CASE CommitMember(s)
    BY <2>2 DEF CommitMember
  <2>3. QED
    BY <1>1, <2>1, <2>2 DEF Commit
<1>2. ASSUME NEW s \in Sessions, Begin(s) \/ Write(s) \/ Abort(s)
      PROVE  UNCHANGED rows
  BY <1>2, BeginShape, WriteShape DEF Abort, Rollback
<1>3. QED
  BY <1>1, <1>2 DEF Next, SetMemberStatus, vars, rows

\* A seal commits on an unsealed committee and marks its candidate.
LEMMA SealCommit ==
    ASSUME TypeOK, WriterInv, RequestInv, SealRecord, NEW s \in Sessions, CommitSeal(s)
    PROVE  /\ status # "sealed" /\ status' = "sealed"
           /\ Candidate \in DecisionIds /\ Candidate \in Standing
           /\ sealedAs' \in SealIds /\ sealedAs' # 0
           /\ decision'[Candidate].status = "sealed" /\ decision'[Candidate].seal = sealedAs'
           /\ \A d \in DecisionIds \ {Candidate} : decision'[d] = decision[d]
           /\ \A d \in DecisionIds : decision[d].seal = 0
           /\ snapshots' = {[seal |-> sealedAs', decision |-> Candidate]}
           /\ Standing' = Standing
<1>1. txn[s].on = Candidate /\ Candidate # 0 /\ status # "sealed"
  BY DEF CommitSeal, WriterInv
<1>2. Candidate \in DecisionIds /\ Candidate \in Standing
  BY <1>1, CandidateStands
<1>3. sealedAs' \in SealIds /\ sealedAs' # 0
  BY BoundsAssumption DEF CommitSeal, RequestInv, SealIds
<1>4. decision \in [DecisionIds -> DecisionRows \cup {NoRow}]
  BY DEF TypeOK
<1>5. decision[Candidate] \in DecisionRows
  BY <1>2, <1>4 DEF Standing, NoRow
<1>6. /\ decision'[Candidate] = [decision[Candidate] EXCEPT !.status = "sealed", !.seal = sealedAs']
      /\ \A d \in DecisionIds \ {Candidate} : decision'[d] = decision[d]
  BY <1>1, <1>2, <1>4 DEF CommitSeal
<1>7. decision'[Candidate].status = "sealed" /\ decision'[Candidate].seal = sealedAs'
  BY <1>5, <1>6 DEF DecisionRows
<1>8. \A d \in DecisionIds : decision[d].seal = 0
  BY <1>1 DEF SealRecord
<1>9. snapshots' = {[seal |-> sealedAs', decision |-> Candidate]}
  BY <1>1 DEF CommitSeal, SealRecord
<1>10. Standing' = Standing
  BY <1>2, <1>6, <1>7 DEF Standing
<1>11. QED
  BY <1>1, <1>2, <1>3, <1>6, <1>7, <1>8, <1>9, <1>10 DEF CommitSeal

LEMMA SealPreserved ==
    ASSUME TypeOK, WriterInv, RequestInv, SealRecord, SealedIsNewest, [Next]_vars
    PROVE  SealRecord' /\ SealedIsNewest'
<1>1. CASE /\ UNCHANGED <<sealedAs, decision, snapshots>>
           /\ (status' # status => status # "sealed" /\ status' # "sealed")
  BY <1>1 DEF SealRecord, SealedIsNewest, Candidate, Standing
<1>2. ASSUME NEW s \in Sessions, CommitDecision(s)
      PROVE  SealRecord' /\ SealedIsNewest'
  <2>1. status # "sealed" /\ status' # "sealed" /\ txn[s].row.seal = 0
    BY <1>2 DEF CommitDecision, WriterInv, RequestInv, NewRows
  <2>2. \A d \in DecisionIds : decision'[d].seal = 0
    BY <1>2, <2>1 DEF CommitDecision, SealRecord, TypeOK
  <2>3. QED
    BY <1>2, <2>1, <2>2 DEF SealRecord, SealedIsNewest, CommitDecision
<1>3. ASSUME NEW s \in Sessions, CommitSeal(s)
      PROVE  SealRecord' /\ SealedIsNewest'
  <2>1. SealRecord'
    BY <1>3, SealCommit DEF SealRecord
  <2>2. Candidate' = Candidate
    BY <1>3, SealCommit DEF Candidate
  <2>3. QED
    BY <1>3, <2>1, <2>2, SealCommit, CandidateStands, BoundsAssumption
       DEF SealedIsNewest, DecisionIds
<1>4. QED
  BY <1>1, <1>2, <1>3, SealColumns

-----------------------------------------------------------------------------
(* The meeting comes before the seal. *)

\* A request that needs an opened committee begins only when it reads one.
LEMMA BeginReadsOpened ==
    ASSUME TypeOK, OpenedInv, NEW s \in Sessions, Begin(s), txn'[s].op \in {"seal", "set_in_review"}
    PROVE  "meeting_opened" \in events
<1>1. ASSUME NEW op, NEW step, NEW on, NEW row, NEW seal, Becomes(s, Request(op, step, on, row, seal))
      PROVE  txn'[s].op = op
  BY <1>1 DEF Becomes, Request, TypeOK
<1>2. CASE \E op \in StatusOps : BeginStatusChange(s, op)
  <2>1. PICK op \in StatusOps : BeginStatusChange(s, op)
    BY <1>2
  <2>2. txn'[s].op = op
    BY <1>1, <2>1 DEF BeginStatusChange, Starts
  <2>3. op = "set_in_review"
    BY <2>2 DEF StatusOps
  <2>4. QED
    BY <2>1, <2>3 DEF BeginStatusChange, StatusAllowed, OpenedInv
<1>3. CASE \E op \in MemberOps, m \in Members : BeginMemberChange(s, op, m)
  BY <1>1, <1>3 DEF BeginMemberChange, Starts, MemberOps
<1>4. CASE \E row \in NewRows : BeginSetDecision(s, row)
  BY <1>1, <1>4 DEF BeginSetDecision, Starts
<1>5. CASE BeginSeal(s)
  BY <1>5 DEF BeginSeal, OpenedInv
<1>6. QED
  BY <1>2, <1>3, <1>4, <1>5 DEF Begin

LEMMA OpenedPreserved ==
    ASSUME TypeOK, OpenedInv, [Next]_vars
    PROVE  OpenedInv'
<1>1. ASSUME NEW s \in Sessions, Begin(s)
      PROVE  OpenedInv'
  <2>1. \A t \in Sessions \ {s} : txn'[t] = txn[t]
    BY <1>1, BeginShape, OnlyOwn DEF Starts
  <2>2. QED
    BY <1>1, <2>1, BeginShape, BeginReadsOpened DEF OpenedInv, rows
<1>2. ASSUME NEW s \in Sessions, Write(s)
      PROVE  OpenedInv'
  <2>1. \A t \in Sessions : txn'[t].op \in {txn[t].op, "idle"}
    <3>1. ASSUME NEW r \in Txns, Becomes(s, r), r.op \in {txn[s].op, "idle"}
          PROVE  \A t \in Sessions : txn'[t].op \in {txn[t].op, "idle"}
      BY <3>1, OnlyOwn
    <3>2. CASE Becomes(s, Idle)
      BY <3>1, <3>2, IdleIsTxn DEF Idle
    <3>3. ASSUME NEW x \in Steps, Becomes(s, [txn[s] EXCEPT !.step = x])
          PROVE  \A t \in Sessions : txn'[t].op \in {txn[t].op, "idle"}
      <4>1. [txn[s] EXCEPT !.step = x].op = txn[s].op
        BY DEF TypeOK, Txns
      <4>2. QED
        BY <3>1, <3>3, <4>1, StepIsTxn
    <3>4. CASE /\ Candidate # 0
               /\ Becomes(s, [txn[s] EXCEPT !.step = "written", !.on = Candidate])
      <4>1. [txn[s] EXCEPT !.step = "written", !.on = Candidate].op = txn[s].op
        BY DEF TypeOK, Txns
      <4>2. QED
        BY <3>1, <3>4, <4>1, ChoiceIsTxn, CandidateStands
    <3>5. "written" \in Steps /\ {"decision_ok", "quorate"} \subseteq Steps
      BY DEF Steps
    <3>6. QED
      BY <1>2, <3>2, <3>3, <3>4, <3>5, WriteShape
  <2>2. QED
    BY <1>2, <2>1, WriteShape DEF OpenedInv, rows
<1>3. ASSUME NEW s \in Sessions, Commit(s)
      PROVE  OpenedInv'
  <2>1. \A t \in Sessions : txn'[t].op \in {txn[t].op, "idle"}
    BY <1>3, CloseShape, OnlyOwn, IdleIsTxn DEF Idle
  <2>2. events \subseteq events'
    BY <1>3 DEF Commit, CommitStatus, CommitMember, CommitDecision, CommitSeal
  <2>3. status' \in {"open", "in_review", "sealed"} => "meeting_opened" \in events'
    <3>1. CASE CommitStatus(s)
      BY <3>1, <2>2 DEF CommitStatus, StatusAfter, StatusOps, OpenedInv
    <3>2. CASE CommitSeal(s)
      BY <3>2, <2>2 DEF CommitSeal, OpenedInv
    <3>3. CASE CommitMember(s) \/ CommitDecision(s)
      BY <3>3, <2>2 DEF CommitMember, CommitDecision, OpenedInv
    <3>4. QED
      BY <1>3, <3>1, <3>2, <3>3 DEF Commit
  <2>4. QED
    BY <2>1, <2>2, <2>3 DEF OpenedInv
<1>4. ASSUME NEW s \in Sessions, Abort(s)
      PROVE  OpenedInv'
  <2>1. \A t \in Sessions : txn'[t].op \in {txn[t].op, "idle"}
    BY <1>4, CloseShape, OnlyOwn, IdleIsTxn DEF Idle
  <2>2. QED
    BY <1>4, <2>1 DEF Abort, Rollback, rows, OpenedInv
<1>5. ASSUME NEW m \in Members, NEW new \in {"active", "absent"}, SetMemberStatus(m, new)
      PROVE  OpenedInv'
  BY <1>5 DEF SetMemberStatus, OpenedInv
<1>6. CASE UNCHANGED vars
  BY <1>6 DEF vars, rows, OpenedInv
<1>7. QED
  BY <1>1, <1>2, <1>3, <1>4, <1>5, <1>6 DEF Next

-----------------------------------------------------------------------------
(* The theorems. *)

LEMMA InitIndInv == Init => IndInv
<1> SUFFICES ASSUME Init PROVE IndInv
  OBVIOUS
<1>2. TypeOK
  <2>1. NoRow \in DecisionRows \cup {NoRow}
    OBVIOUS
  <2>2. QED
    BY <2>1, IdleIsTxn, BoundsAssumption DEF Init, TypeOK, Statuses, MemberStatuses, EventTypes
<1>3. LockInv /\ WriterInv /\ RequestInv
  BY DEF Init, LockInv, WriterInv, RequestInv, Idle, MemberOps
<1>4. NumberInv
  BY DEF Init, NumberInv, Idle
<1>5. SealRecord /\ SealedIsNewest
  BY DEF Init, SealRecord, SealedIsNewest, NoRow
<1>6. QED
  BY <1>2, <1>3, <1>4, <1>5 DEF IndInv

LEMMA NextIndInv == IndInv /\ [Next]_vars => IndInv'
BY TypePreserved, LockPreserved, WriterPreserved, RequestPreserved, NumberPreserved,
   SealPreserved DEF IndInv

\* The inductive invariant holds in every reachable state.
THEOREM Inductive == Spec => []IndInv
<1>1. Init => IndInv
  BY InitIndInv
<1>2. IndInv /\ [Next]_vars => IndInv'
  BY NextIndInv
<1>3. QED
  BY <1>1, <1>2, PTL DEF Spec

\* Rows and transactions always have their types.
THEOREM TypeCorrect == Spec => []TypeOK
<1>1. IndInv => TypeOK
  BY DEF IndInv
<1>2. QED
  BY <1>1, Inductive, PTL

\* However many requests race, a committee is sealed at most once and its
\* three records of the seal agree.
THEOREM SealedOnce == Spec => []SealRecord
<1>1. IndInv => SealRecord
  BY DEF IndInv
<1>2. QED
  BY <1>1, Inductive, PTL

\* The decision sealed is the newest that stands.
THEOREM NewestSealed == Spec => []SealedIsNewest
<1>1. IndInv => SealedIsNewest
  BY DEF IndInv
<1>2. QED
  BY <1>1, Inductive, PTL

\* No interleaving of stale status reads seals a committee whose meeting was
\* never opened.
THEOREM OpenedFirst == Spec => []OpenedBeforeSealed
<1>1. Init => OpenedInv
  BY DEF Init, OpenedInv, Idle
<1>2. TypeOK /\ OpenedInv /\ [Next]_vars => OpenedInv'
  BY OpenedPreserved
<1>3. OpenedInv => OpenedBeforeSealed
  BY DEF OpenedInv, OpenedBeforeSealed
<1>4. QED
  BY <1>1, <1>2, <1>3, TypeCorrect, PTL DEF Spec

\* Nothing the triggers of migrations 030 and 031 guard changes after the seal.
THEOREM Frozen == Spec => FrozenAfterSeal
<1> DEFINE Freeze == status = "sealed" =>
              /\ status' = "sealed" /\ sealedAs' = sealedAs
              /\ decision' = decision /\ snapshots' = snapshots
              /\ \A m \in Members : member'[m] \in {member[m], "none"}
<1>1. ASSUME IndInv, [Next]_vars, status = "sealed"
      PROVE  Freeze
  <2> USE <1>1 DEF IndInv
  <2>1. /\ status' = "sealed" /\ sealedAs' = sealedAs
        /\ decision' = decision /\ snapshots' = snapshots
    BY SealColumns, SealCommit DEF CommitDecision, WriterInv
  <2>2. ASSUME NEW s \in Sessions, CommitMember(s)
        PROVE  \A m \in Members : member'[m] \in {member[m], "none"}
    BY <2>2 DEF CommitMember, WriterInv, MemberOps, TypeOK
  <2>3. ASSUME NEW s \in Sessions, Begin(s) \/ Write(s) \/ Abort(s)
        PROVE  member' = member
    BY <2>3, BeginShape, WriteShape DEF Abort, Rollback, rows
  <2>4. ASSUME NEW s \in Sessions, Commit(s), ~CommitMember(s)
        PROVE  member' = member
    BY <2>4 DEF Commit, CommitStatus, CommitDecision, CommitSeal
  <2>5. \A m \in Members : member'[m] \in {member[m], "none"}
    BY <2>2, <2>3, <2>4 DEF Next, SetMemberStatus, LockTriggerPasses, vars, rows
  <2>6. QED
    BY <2>1, <2>5
<1>2. IndInv /\ [Next]_vars => [Freeze]_vars
  BY <1>1
<1>3. QED
  BY <1>2, Inductive, PTL DEF Spec, FrozenAfterSeal

\* The committee implements the register of decisions: one award, of the
\* newest proposal, and silence after it.
THEOREM Implements == Spec => RegisterSpec
<1>1. ASSUME Init
      PROVE  Register!Init
  <2>1. Standing = {} /\ {x.decision : x \in snapshots} = {}
    BY <1>1 DEF Init, Standing, NoRow
  <2>2. QED
    BY <2>1, NewestOfNone DEF Register!Init
<1>2. ASSUME IndInv, [Next]_vars
      PROVE  [Register!Next]_(Register!vars)
  <2> USE <1>2 DEF IndInv
  <2>1. CASE UNCHANGED <<sealedAs, decision, snapshots>>
    BY <2>1 DEF Register!vars, Standing
  <2>2. ASSUME NEW s \in Sessions, CommitDecision(s)
        PROVE  [Register!Next]_(Register!vars)
    <3>1. status # "sealed" /\ snapshots = {} /\ snapshots' = {}
      BY <2>2 DEF CommitDecision, WriterInv, SealRecord
    <3>2. txn[s].on \in DecisionIds /\ decision[txn[s].on] = NoRow
      BY <2>2 DEF CommitDecision, RequestInv, NumberInv
    <3>3. Standing' = Standing \/ Standing' = Standing \cup {txn[s].on}
      BY <2>2, <3>2 DEF CommitDecision, Standing, TypeOK, NoRow
    <3>4. txn[s].on \notin Standing
      BY <3>2 DEF Standing, NoRow
    <3>5. Newest({x.decision : x \in snapshots}) = 0
      BY <3>1, NewestOfNone
    <3>6. QED
      BY <3>1, <3>2, <3>3, <3>4, <3>5 DEF Register!Next, Register!Table, Register!vars
  <2>3. ASSUME NEW s \in Sessions, CommitSeal(s)
        PROVE  [Register!Next]_(Register!vars)
    <3>1. snapshots = {} /\ snapshots' = {[seal |-> sealedAs', decision |-> Candidate]}
          /\ Standing' = Standing /\ Candidate \in DecisionIds
      BY <2>3, SealCommit DEF SealRecord
    <3>2. /\ Newest({x.decision : x \in snapshots}) = 0
          /\ Newest({x.decision : x \in snapshots'}) = Candidate
      <4>1. {x.decision : x \in snapshots} = {} /\ {x.decision : x \in snapshots'} = {Candidate}
        BY <3>1
      <4>2. Candidate \in Nat
        BY <3>1, BoundsAssumption DEF DecisionIds
      <4>3. QED
        BY <4>1, <4>2, NewestOfNone, NewestOfOne
    <3>3. Candidate \in Standing /\ \A e \in Standing : e <= Candidate
      BY <2>3, NewestIsElement DEF Candidate, IsNewest, WriterInv, CommitSeal
    <3>4. Register!Award(Candidate)
      BY <3>1, <3>2, <3>3 DEF Register!Award
    <3>5. QED
      BY <3>1, <3>4 DEF Register!Next
  <2>4. QED
    BY <2>1, <2>2, <2>3, SealColumns
<1>3. QED
  BY <1>1, <1>2, Inductive, PTL DEF Spec, RegisterSpec, Register!Spec

================================================================================
