---------------------------- MODULE CommitteeLock ----------------------------
(***************************************************************************)
(* The procurement committee of Couche A: one row of public.committees     *)
(* with its members, decisions, events and snapshots, worked on by         *)
(* concurrent HTTP requests.                                               *)
(*                                                                         *)
(* Every request is one PostgreSQL transaction at READ COMMITTED           *)
(* (router.py, _get_conn): it SELECTs the committee without a lock, checks *)
(* the status it read, writes under row locks with the triggers of         *)
(* migrations 030 and 031, and publishes its writes at COMMIT.  Other      *)
(* requests run between any two of these steps.  A transaction that has    *)
(* written but not committed keeps its locks; Holds gives the strongest    *)
(* lock it has on the committees row.                                      *)
(*                                                                         *)
(* Abstractions: users, texts and prices are left out; a decision is       *)
(* "sound" when it passes the rationale, supplier and case_id checks of    *)
(* _assert_committee_sealable; a seal is identified by its number, which   *)
(* stands for the values that one request writes in sealed_by, sealed_at   *)
(* and seal_id.  A "signed" member counts as an active one and a           *)
(* "validated" decision as a proposed one everywhere; "recused", which     *)
(* nothing writes, is left out.                                            *)
(***************************************************************************)
EXTENDS Naturals, FiniteSets

CONSTANTS Sessions,      \* concurrent database connections
          Members,       \* user_ref values
          Voters,        \* those added with can_vote
          Mandatory,     \* those added with is_mandatory
          MaxDecisions,  \* bound: set_decision requests ever begun
          MaxSeals       \* bound: seal requests ever begun

ASSUME BoundsAssumption == MaxDecisions \in Nat /\ MaxSeals \in Nat
ASSUME RolesAssumption == Voters \subseteq Members /\ Mandatory \subseteq Members

VARIABLES status,     \* committees.status
          sealedAs,   \* committees.sealed_by / sealed_at, 0 when NULL
          member,     \* committee_members.status by user_ref
          decision,   \* committee_decisions by created_at rank
          snapshots,  \* decision_snapshots
          events,     \* event types present in committee_events
          begun,      \* set_decision requests begun: the clock of created_at
          seals,      \* seal requests begun
          txn         \* the open transaction of each session

rows == <<status, sealedAs, member, decision, snapshots, events>>
vars == <<rows, begun, seals, txn>>

Statuses == {"draft", "open", "in_review", "sealed", "cancelled"}
MemberStatuses == {"none", "invited", "active", "absent"}
DecisionStatuses == {"proposed", "no_award", "rejected", "sealed"}
EventTypes == {"committee_created", "meeting_opened", "review_opened", "member_added",
               "member_removed", "seal_completed", "snapshot_emitted", "committee_cancelled"}
DecisionIds == 1..MaxDecisions
SealIds == 1..MaxSeals

NoRow == [status |-> "none", sound |-> FALSE, seal |-> 0]
DecisionRows == [status : DecisionStatuses, sound : BOOLEAN, seal : 0..MaxSeals]

StatusOps == {"open_session", "set_in_review", "cancel"}
MemberOps == {"add_member", "remove_member"}
Ops == StatusOps \cup MemberOps \cup {"set_decision", "seal"}
Steps == {"none", "read", "status_ok", "decision_ok", "quorate", "written"}
Txns == [op : Ops \cup {"idle"}, step : Steps, on : Members \cup 0..MaxDecisions,
         row : DecisionRows \cup {NoRow}, seal : 0..MaxSeals]
Idle == [op |-> "idle", step |-> "none", on |-> 0, row |-> NoRow, seal |-> 0]
Request(op, step, on, row, seal) ==
    [op |-> op, step |-> step, on |-> on, row |-> row, seal |-> seal]

Init ==
    /\ status = "draft"
    /\ sealedAs = 0
    /\ member = [m \in Members |-> "none"]
    /\ decision = [d \in DecisionIds |-> NoRow]
    /\ snapshots = {}
    /\ events = {"committee_created"}
    /\ begun = 0
    /\ seals = 0
    /\ txn = [s \in Sessions |-> Idle]

-----------------------------------------------------------------------------
(* Row locks on the committees row. *)

\* FOR UPDATE by seal, the UPDATE of the status handlers, FOR SHARE by the
\* lock trigger, and FOR KEY SHARE by the foreign key of committee_events.
ModeOf(op) ==
    CASE op = "seal" -> "update"
      [] op \in StatusOps -> "no_key_update"
      [] op \in {"add_member", "set_decision"} -> "share"
      [] OTHER -> "key_share"

Holds(s) == IF txn[s].step = "written" THEN ModeOf(txn[s].op) ELSE "nothing"

ConflictsWith(mode) ==
    CASE mode = "update" -> {"update", "no_key_update", "share", "key_share"}
      [] mode = "no_key_update" -> {"update", "no_key_update", "share"}
      [] mode = "share" -> {"update", "no_key_update"}
      [] OTHER -> {"update"}

LockGranted(s) ==
    \A t \in Sessions \ {s} : Holds(t) \notin ConflictsWith(ModeOf(txn[s].op))

\* The member row or its unique index entry is held by an uncommitted write.
MemberBusy(s, m) ==
    \E t \in Sessions \ {s} :
        txn[t].op \in MemberOps /\ txn[t].step = "written" /\ txn[t].on = m

-----------------------------------------------------------------------------
(* What the statements read. *)

\* _get_decision_candidate_or_raise: newest created_at among the rows that
\* are not rejected, 0 when there is none.
Standing == {d \in DecisionIds : decision[d].status \notin {"none", "rejected"}}
IsNewest(d, D) == d \in D /\ \A e \in D : e <= d
Newest(D) == IF \E d \in D : IsNewest(d, D) THEN CHOOSE d \in D : IsNewest(d, D) ELSE 0
\* Mutant of Candidate: ORDER BY created_at ASC.
OldestStanding == Newest({d \in Standing : \A e \in Standing : d <= e})
Candidate == Newest(Standing)

\* _count_active_voters >= 1 and no _get_mandatory_absent_members.
Quorate ==
    /\ \E m \in Voters : member[m] = "active"
    /\ \A m \in Mandatory : member[m] \in {"none", "active"}

\* Mutant of the three conditions below: the trigger is disabled.
TriggerDisabled == TRUE
StatusTriggerDisabled(new) == TRUE
ResealAllowed(d) == TRUE

\* enforce_committee_lock (030) lets an INSERT or UPDATE through.
LockTriggerPasses == status # "sealed"

\* enforce_committee_terminal_status (031) on a status UPDATE.
TerminalTriggerPasses(new) == status = "sealed" => new = "sealed"

\* The exception enforce_committee_lock grants to the UPDATE that seals.
IsSealTransition(d) == decision[d].status # "sealed"

-----------------------------------------------------------------------------
(* Requests: the first statements read the committee and check its status. *)

Becomes(s, r) == txn' = [txn EXCEPT ![s] = r]
Starts(s, r) == txn[s] = Idle /\ Becomes(s, r)
Rollback(s) == Becomes(s, Idle) /\ UNCHANGED <<rows, begun, seals>>

\* open_session needs draft, set_in_review needs open, cancel_committee
\* refuses only sealed.
StatusAllowed(op) ==
    CASE op = "open_session" -> {"draft"}
      [] op = "set_in_review" -> {"open"}
      [] OTHER -> Statuses \ {"sealed"}

BeginStatusChange(s, op) ==
    /\ status \in StatusAllowed(op)
    /\ Starts(s, Request(op, "read", 0, NoRow, 0))
    /\ UNCHANGED <<rows, begun, seals>>

MemberChangeAllowed(op) == IF op = "add_member" THEN {"draft", "open"} ELSE {"draft"}

BeginMemberChange(s, op, m) ==
    /\ status \in MemberChangeAllowed(op)
    /\ Starts(s, Request(op, "read", m, NoRow, 0))
    /\ UNCHANGED <<rows, begun, seals>>

\* created_at is NOW(), the start of the transaction.  The request chooses
\* decision_status, which nothing validates.
BeginSetDecision(s, row) ==
    /\ status \in {"draft", "open", "in_review"}
    /\ begun < MaxDecisions
    /\ begun' = begun + 1
    /\ Starts(s, Request("set_decision", "read", begun + 1, row, 0))
    /\ UNCHANGED <<rows, seals>>

\* Mutant of BeginSeal: a draft committee is sealable.
BeginSealOfDraft(s) ==
    /\ status \in {"draft", "open", "in_review"}
    /\ seals < MaxSeals
    /\ seals' = seals + 1
    /\ Starts(s, Request("seal", "status_ok", 0, NoRow, seals + 1))
    /\ UNCHANGED <<rows, begun>>

\* _assert_committee_sealable, first statement.
BeginSeal(s) ==
    /\ status \in {"open", "in_review"}
    /\ seals < MaxSeals
    /\ seals' = seals + 1
    /\ Starts(s, Request("seal", "status_ok", 0, NoRow, seals + 1))
    /\ UNCHANGED <<rows, begun>>

-----------------------------------------------------------------------------
(* Requests: the writes, once the row lock is granted. *)

Moves(s, step) ==
    Becomes(s, [txn[s] EXCEPT !.step = step]) /\ UNCHANGED <<rows, begun, seals>>

\* Mutant of StatusAfter: the status name that migration 036 expects.
StatusAfterWith036(op) ==
    CASE op = "open_session" -> "open"
      [] op = "set_in_review" -> "locked"
      [] OTHER -> "cancelled"

StatusAfter(op) ==
    CASE op = "open_session" -> "open"
      [] op = "set_in_review" -> "in_review"
      [] OTHER -> "cancelled"

\* UPDATE committees SET status=... without a condition on the old status.
WriteStatus(s) ==
    /\ txn[s].op \in StatusOps /\ txn[s].step = "read"
    /\ LockGranted(s)
    /\ IF TerminalTriggerPasses(StatusAfter(txn[s].op))
       THEN Moves(s, "written")
       ELSE Rollback(s)

\* INSERT INTO committee_members: the lock trigger, then the unique index.
WriteAddMember(s) ==
    /\ txn[s].op = "add_member" /\ txn[s].step = "read"
    /\ LockGranted(s)
    /\ ~MemberBusy(s, txn[s].on)
    /\ IF LockTriggerPasses /\ member[txn[s].on] = "none"
       THEN Moves(s, "written")
       ELSE Rollback(s)

\* DELETE FROM committee_members has no trigger; the event row needs the
\* foreign key's lock on the committee.
WriteRemoveMember(s) ==
    /\ txn[s].op = "remove_member" /\ txn[s].step = "read"
    /\ LockGranted(s)
    /\ ~MemberBusy(s, txn[s].on)
    /\ Moves(s, "written")

\* INSERT INTO committee_decisions.
WriteDecision(s) ==
    /\ txn[s].op = "set_decision" /\ txn[s].step = "read"
    /\ LockGranted(s)
    /\ IF LockTriggerPasses
       THEN Moves(s, "written")
       ELSE Rollback(s)

\* _assert_committee_sealable: the case (another component's row, which may
\* pass or fail) and the candidate decision.
SealReadsDecision(s) ==
    /\ txn[s].op = "seal" /\ txn[s].step = "status_ok"
    /\ \/ /\ Candidate # 0
          /\ decision[Candidate].sound
          /\ Moves(s, "decision_ok")
       \/ Rollback(s)

\* _assert_committee_sealable: voters and mandatory members.
SealReadsMembers(s) ==
    /\ txn[s].op = "seal" /\ txn[s].step = "decision_ok"
    /\ IF Quorate
       THEN Moves(s, "quorate")
       ELSE Rollback(s)

\* SELECT FOR UPDATE, the candidate read again, then both UPDATEs.  The
\* status is not checked again, nor the decision.
SealWrites(s) ==
    /\ txn[s].op = "seal" /\ txn[s].step = "quorate"
    /\ LockGranted(s)
    /\ IF Candidate # 0 /\ IsSealTransition(Candidate)
       THEN /\ Becomes(s, [txn[s] EXCEPT !.step = "written", !.on = Candidate])
            /\ UNCHANGED <<rows, begun, seals>>
       ELSE Rollback(s)

-----------------------------------------------------------------------------
(* COMMIT publishes the writes and the events, and frees the locks. *)

Closes(s) == Becomes(s, Idle) /\ UNCHANGED <<begun, seals>>

CommitStatus(s) ==
    /\ txn[s].op \in StatusOps /\ txn[s].step = "written"
    /\ status' = StatusAfter(txn[s].op)
    /\ events' = events \cup
            {CASE txn[s].op = "open_session" -> "meeting_opened"
               [] txn[s].op = "set_in_review" -> "review_opened"
               [] OTHER -> "committee_cancelled"}
    /\ Closes(s)
    /\ UNCHANGED <<sealedAs, member, decision, snapshots>>

CommitMember(s) ==
    /\ txn[s].op \in MemberOps /\ txn[s].step = "written"
    /\ member' = [member EXCEPT ![txn[s].on] =
                     IF txn[s].op = "add_member" THEN "invited" ELSE "none"]
    /\ events' = events \cup
            {IF txn[s].op = "add_member" THEN "member_added" ELSE "member_removed"}
    /\ Closes(s)
    /\ UNCHANGED <<status, sealedAs, decision, snapshots>>

CommitDecision(s) ==
    /\ txn[s].op = "set_decision" /\ txn[s].step = "written"
    /\ decision' = [decision EXCEPT ![txn[s].on] = txn[s].row]
    /\ Closes(s)
    /\ UNCHANGED <<status, sealedAs, member, snapshots, events>>

CommitSeal(s) ==
    /\ txn[s].op = "seal" /\ txn[s].step = "written"
    /\ status' = "sealed"
    /\ sealedAs' = txn[s].seal
    /\ decision' = [decision EXCEPT ![txn[s].on].status = "sealed",
                                    ![txn[s].on].seal = txn[s].seal]
    /\ snapshots' = snapshots \cup {[seal |-> txn[s].seal, decision |-> txn[s].on]}
    /\ events' = events \cup {"seal_completed", "snapshot_emitted"}
    /\ Closes(s)
    /\ UNCHANGED member

\* The connection or the worker is lost, or a later statement fails.
Abort(s) == txn[s] # Idle /\ Rollback(s)

-----------------------------------------------------------------------------
\* committee_members.status has no endpoint; an operator's UPDATE fires the
\* lock trigger, which waits for a seal or a status change to commit.
SetMemberStatus(m, new) ==
    /\ member[m] \notin {"none", new}
    /\ \A t \in Sessions : Holds(t) \notin ConflictsWith("share")
    /\ \A t \in Sessions : ~(txn[t].op \in MemberOps /\ txn[t].step = "written" /\ txn[t].on = m)
    /\ LockTriggerPasses
    /\ member' = [member EXCEPT ![m] = new]
    /\ UNCHANGED <<status, sealedAs, decision, snapshots, events, begun, seals, txn>>

NewRows == {[status |-> st, sound |-> ok, seal |-> 0] : st \in DecisionStatuses, ok \in BOOLEAN}

Begin(s) ==
    \/ \E op \in StatusOps : BeginStatusChange(s, op)
    \/ \E op \in MemberOps, m \in Members : BeginMemberChange(s, op, m)
    \/ \E row \in NewRows : BeginSetDecision(s, row)
    \/ BeginSeal(s)

Write(s) ==
    \/ WriteStatus(s)
    \/ WriteAddMember(s)
    \/ WriteRemoveMember(s)
    \/ WriteDecision(s)
    \/ SealReadsDecision(s)
    \/ SealReadsMembers(s)
    \/ SealWrites(s)

Commit(s) == CommitStatus(s) \/ CommitMember(s) \/ CommitDecision(s) \/ CommitSeal(s)

Next ==
    \/ \E s \in Sessions : Begin(s) \/ Write(s) \/ Commit(s) \/ Abort(s)
    \/ \E m \in Members, new \in {"active", "absent"} : SetMemberStatus(m, new)

Spec == Init /\ [][Next]_vars

-----------------------------------------------------------------------------
(* Properties. *)

\* Every value a row or a transaction can hold.
TypeOK ==
    /\ status \in Statuses
    /\ sealedAs \in 0..MaxSeals
    /\ member \in [Members -> MemberStatuses]
    /\ decision \in [DecisionIds -> DecisionRows \cup {NoRow}]
    /\ snapshots \subseteq [seal : SealIds, decision : DecisionIds]
    /\ events \subseteq EventTypes
    /\ begun \in 0..MaxDecisions
    /\ seals \in 0..MaxSeals
    /\ txn \in [Sessions -> Txns]

\* The three tables that record a seal never disagree: a committee is sealed
\* exactly when one decision carries the seal in committees and one snapshot
\* says so, and an unsealed committee leaves no trace of a seal.  Two seal
\* requests that both passed the checks put this at risk (service.py:346).
SealRecord ==
    IF status = "sealed"
    THEN \E d \in DecisionIds :
            /\ decision[d].status = "sealed" /\ decision[d].seal = sealedAs
            /\ \A e \in DecisionIds \ {d} : decision[e].seal = 0
            /\ snapshots = {[seal |-> sealedAs, decision |-> d]}
            /\ sealedAs # 0
    ELSE /\ sealedAs = 0 /\ snapshots = {}
         /\ \A d \in DecisionIds : decision[d].seal = 0

\* The sealed decision is the newest one that is not rejected: no proposal
\* slips in between the second candidate read of the seal and its commit.
SealedIsNewest ==
    status = "sealed" => Candidate # 0 /\ decision[Candidate].seal = sealedAs

\* A sealed committee was opened at some time: no interleaving of stale
\* status reads seals a committee whose meeting never took place.
OpenedBeforeSealed == status = "sealed" => "meeting_opened" \in events

\* The lock of migrations 030 and 031: after the seal the status, the seal,
\* the decisions and the snapshots stay as they are and nobody joins.
FrozenAfterSeal ==
    [][status = "sealed" =>
         /\ status' = "sealed" /\ sealedAs' = sealedAs
         /\ decision' = decision /\ snapshots' = snapshots
         /\ \A m \in Members : member'[m] \in {member[m], "none"}]_vars

\* README.md:57, "une fois LOCK, la composition ne change plus (interdiction
\* totale de remplacement/ajout/suppression)".  A DELETE that read 'draft'
\* before the meeting was opened breaks it: no trigger guards DELETE.
RosterFrozen == [][status = "sealed" => member' = member]_vars

\* service.py:36-41, the FOR UPDATE read and the terminal trigger are said to
\* exclude the race of two simultaneous requests: what
\* _assert_committee_sealable required of the committee and of its decision
\* still holds when the seal commits.  A cancellation, or a newer decision
\* that would not pass, committed after the check breaks it.
SealedWhenSealable ==
    [][status # "sealed" /\ status' = "sealed" =>
         status \in {"open", "in_review"} /\ decision[Candidate].sound]_vars

\* The promise of DecisionRegister, read off the decisions and the snapshot.
Register == INSTANCE DecisionRegister WITH
    Ids <- DecisionIds,
    tabled <- Standing,
    verdict <- Newest({x.decision : x \in snapshots})

\* The committee implements the register: one award, of the newest proposal,
\* and nothing tabled or withdrawn after it.
RegisterSpec == Register!Spec

\* The inductive strengthening of SealRecord and SealedIsNewest: two
\* transactions that have written hold compatible locks; a writer the lock
\* excludes from a sealed committee sees it unsealed; a pending seal names the
\* newest proposal, and a pending proposal has a number of its own.
LockInv ==
    \A s, t \in Sessions :
        s # t /\ txn[s].step = "written" /\ txn[t].step = "written"
            => Holds(t) \notin ConflictsWith(Holds(s))

WriterInv ==
    \A s \in Sessions : txn[s].step = "written" =>
        /\ txn[s].op # "remove_member" => status # "sealed"
        /\ txn[s].op = "seal" => txn[s].on = Candidate /\ Candidate # 0

RequestInv ==
    \A s \in Sessions :
        /\ txn[s].op = "seal" => txn[s].seal \in SealIds
        /\ txn[s].op \in MemberOps => txn[s].on \in Members
        /\ txn[s].op = "set_decision" => txn[s].on \in DecisionIds /\ txn[s].row \in NewRows

NumberInv ==
    /\ \A d \in DecisionIds : d > begun => decision[d] = NoRow
    /\ \A s \in Sessions : txn[s].op = "set_decision" =>
          /\ txn[s].on <= begun
          /\ decision[txn[s].on] = NoRow
          /\ \A t \in Sessions \ {s} : txn[t].op = "set_decision" => txn[t].on # txn[s].on

\* The strengthening of OpenedBeforeSealed: the status a request read implies
\* the event, whatever the committee's status has become since.
OpenedInv ==
    /\ status \in {"open", "in_review", "sealed"} => "meeting_opened" \in events
    /\ \A s \in Sessions :
          txn[s].op \in {"seal", "set_in_review"} => "meeting_opened" \in events

IndInv == TypeOK /\ LockInv /\ WriterInv /\ RequestInv /\ NumberInv /\ SealRecord /\ SealedIsNewest

=============================================================================
