---------------------------- MODULE WorkspaceSeal ----------------------------
(***************************************************************************)
(* The sealing of one workspace (W3): its row in process_workspaces, its   *)
(* committee session with the PV, the session's members, the memberships   *)
(* and flags the preconditions read, and the projection job.               *)
(*                                                                         *)
(* As in CommitteeLock, a request is one READ COMMITTED transaction: it    *)
(* reads without locks, decides on what it read, writes under the row      *)
(* locks and the triggers of migrations 069, 071 and v52_p1_001, and       *)
(* publishes at COMMIT.                                                    *)
(*                                                                         *)
(* Abstractions: "preparing" stands for draft, assembling, assembled,      *)
(* in_analysis and analysis_complete, which no trigger tells apart; the    *)
(* facts that guard the moves between them and in_deliberation belong to   *)
(* other tables and may allow or refuse any time; a PV is its list of      *)
(* members and the number of the request that built it, which stands for   *)
(* its timestamp and its hash.                                             *)
(***************************************************************************)
EXTENDS Naturals, FiniteSets

CONSTANTS Conns,      \* concurrent database connections
          Users,
          Roles,      \* membership roles, once the legacy names are mapped
          Observer,   \* the role the quorum does not count
          Critical,   \* CRITICAL_ROLES
          QuorumMin,  \* QUORUM_MINIMUM_MEMBERS
          MaxSeals,   \* bound: seal requests ever begun
          MaxChanges  \* bound: memberships and flags changed by others

ASSUME RolesAssumption == Critical \subseteq Roles
ASSUME BoundsAssumption == QuorumMin \in Nat /\ MaxSeals \in Nat /\ MaxChanges \in Nat

VARIABLES ws,           \* process_workspaces.status
          session,      \* committee_sessions.session_status, "none" without a row
          pv,           \* committee_sessions.pv_snapshot
          roster,       \* committee_session_members: role by user
          memberships,  \* workspace_memberships not revoked
          flagged,      \* some assessment_comments row is an unresolved flag
          legacy,       \* process_workspaces.legacy_case_id IS NOT NULL
          sealLog,      \* session_sealed rows of committee_deliberation_events
          jobs,         \* project_sealed_workspace jobs enqueued
          seals,        \* seal requests begun
          changes,      \* changes by others so far
          txn           \* the request that each connection serves

rows == <<ws, session, pv, roster, sealLog>>
world == <<memberships, flagged, legacy, changes>>
vars == <<rows, world, jobs, seals, txn>>

Statuses == {"preparing", "in_deliberation", "sealed", "closed", "cancelled"}
NoRole == "none"
Rosters == [Users -> Roles \cup {NoRole}]
Nobody == [u \in Users |-> NoRole]
Pvs == [seal : 1..MaxSeals, members : Rosters]
NoPv == [seal |-> 0, members |-> Nobody]

Ops == {"seal", "recover", "patch", "open", "add"}
Steps == {"read", "found", "quorate", "checked", "aborted", "opened", "pv_built",
          "session_written", "written", "answered"}
Idle == [op |-> "idle", step |-> "none", target |-> "none", saw |-> "none",
         creates |-> FALSE, writes |-> Nobody, pv |-> NoPv]
Txns == [op : Ops \cup {"idle"}, step : Steps \cup {"none"}, target : Statuses \cup {"none"},
         saw : {"none", "active"}, creates : BOOLEAN, writes : Rosters,
         pv : [seal : 0..MaxSeals, members : Rosters]]

Init ==
    /\ ws = "preparing"
    /\ session = "none"
    /\ pv = NoPv
    /\ roster = Nobody
    /\ memberships \in SUBSET (Users \X Roles)
    /\ flagged = FALSE
    /\ legacy \in BOOLEAN
    /\ sealLog = 0
    /\ jobs = 0
    /\ seals = 0
    /\ changes = 0
    /\ txn = [c \in Conns |-> Idle]

-----------------------------------------------------------------------------
(* Locks that a request holds from the write to the end of the transaction. *)

HoldsRoster(r, u) ==
    /\ r.op \in {"seal", "add"} /\ r.step \in {"pv_built", "session_written", "written"}
    /\ r.writes[u] # NoRole
HoldsSession(r) == r.op = "seal" /\ r.step \in {"session_written", "written"}
HoldsWs(r) == r.op \in {"seal", "patch", "recover"} /\ r.step = "written"

RosterFree(c, u) == \A d \in Conns \ {c} : ~HoldsRoster(txn[d], u)
SessionFree(c) == \A d \in Conns \ {c} : ~HoldsSession(txn[d])
WsFree(c) == \A d \in Conns \ {c} : ~HoldsWs(txn[d])

\* UNIQUE(workspace_id) makes an INSERT wait for another one to end.
SessionKeyFree(c) == \A d \in Conns \ {c} : ~txn[d].creates

-----------------------------------------------------------------------------
(* Triggers and checks. *)

\* Mutant of WsTriggerPasses: the trigger is disabled.
WsTriggerDisabled(new) == TRUE

\* fn_workspace_sealed_final on an UPDATE of the workspace.
WsTriggerPasses(new) == (ws = "sealed" => new \in {"sealed", "closed"}) /\ ws # "closed"

\* trg_fn_pv_snapshot_immutable on the UPDATE that seals: a second PV never
\* equals the first, it has its own sealed_at.
PvTriggerPasses == pv = NoPv

\* check_quorum on the membership rows.
Quorate ==
    LET active == {m \in memberships : m[2] # Observer}
    IN  /\ Cardinality(active) >= QuorumMin
        /\ \A r \in Critical : \E u \in Users : <<u, r>> \in active

\* sync_committee_members_from_workspace: one role for every user who has any
\* membership (the one granted first).
Synced(w) ==
    \A u \in Users :
        IF \E r \in Roles : <<u, r>> \in memberships
        THEN <<u, w[u]>> \in memberships
        ELSE w[u] = NoRole

Upserted(w) == [u \in Users |-> IF w[u] # NoRole THEN w[u] ELSE roster[u]]

-----------------------------------------------------------------------------
Becomes(c, r) == txn' = [txn EXCEPT ![c] = r]
Starts(c, r) == txn[c] = Idle /\ Becomes(c, r)
Moves(c, step) == Becomes(c, [txn[c] EXCEPT !.step = step]) /\ UNCHANGED <<rows, world, jobs, seals>>
Rollback(c) == Becomes(c, Idle) /\ UNCHANGED <<rows, world, jobs, seals>>
At(c, op, step) == txn[c].op = op /\ txn[c].step = step

(* PATCH /workspaces/{id}/status with a target other than sealed. *)

\* The status is read without a lock; validate_transition lets every target
\* through whose facts hold, from any status.
BeginPatch(c, target) ==
    /\ target # ws
    /\ Starts(c, [Idle EXCEPT !.op = "patch", !.step = "read", !.target = target])
    /\ UNCHANGED <<rows, world, jobs, seals>>

\* Mutant of WritePatch: a refused UPDATE leaves the transaction open.
WritePatchLeaks(c) ==
    At(c, "patch", "read") /\ WsFree(c) /\ WsTriggerPasses(txn[c].target) /\ Moves(c, "written")

WritePatch(c) ==
    /\ At(c, "patch", "read")
    /\ WsFree(c)
    /\ IF WsTriggerPasses(txn[c].target) THEN Moves(c, "written") ELSE Rollback(c)

CommitPatch(c) ==
    /\ At(c, "patch", "written")
    /\ ws' = txn[c].target
    /\ Becomes(c, Idle)
    /\ UNCHANGED <<session, pv, roster, sealLog, world, jobs, seals>>

(* POST /workspaces/{id}/committee/open-session. *)

BeginOpen(c) ==
    /\ session = "none"
    /\ Starts(c, [Idle EXCEPT !.op = "open", !.step = "read"])
    /\ UNCHANGED <<rows, world, jobs, seals>>

WriteOpen(c) ==
    /\ At(c, "open", "read")
    /\ SessionKeyFree(c)
    /\ IF session = "none"
       THEN /\ Becomes(c, [txn[c] EXCEPT !.step = "written", !.creates = TRUE])
            /\ UNCHANGED <<rows, world, jobs, seals>>
       ELSE Rollback(c)

\* Mutant of CommitOpen: the column keeps its default.
CommitOpenAsDraft(c) ==
    /\ At(c, "open", "written")
    /\ session' = "draft"
    /\ Becomes(c, Idle)
    /\ UNCHANGED <<ws, pv, roster, sealLog, world, jobs, seals>>

CommitOpen(c) ==
    /\ At(c, "open", "written")
    /\ session' = "active"
    /\ Becomes(c, Idle)
    /\ UNCHANGED <<ws, pv, roster, sealLog, world, jobs, seals>>

(* POST /workspaces/{id}/committee/add-member. *)

BeginAdd(c, u, r) ==
    /\ session = "active"
    /\ Starts(c, [Idle EXCEPT !.op = "add", !.step = "read", !.writes = [Nobody EXCEPT ![u] = r]])
    /\ UNCHANGED <<rows, world, jobs, seals>>

\* Mutant of WriteAdd: DO UPDATE instead of DO NOTHING.
WriteAddOverwrites(c) ==
    /\ At(c, "add", "read")
    /\ \A u \in Users : txn[c].writes[u] # NoRole => RosterFree(c, u)
    /\ Moves(c, "written")

\* INSERT ... ON CONFLICT (session_id, user_id) DO NOTHING: no trigger looks
\* at the session.
WriteAdd(c) ==
    /\ At(c, "add", "read")
    /\ \A u \in Users : txn[c].writes[u] # NoRole => RosterFree(c, u)
    /\ Becomes(c, [txn[c] EXCEPT !.step = "written",
                       !.writes = [u \in Users |-> IF roster[u] = NoRole THEN @[u] ELSE NoRole]])
    /\ UNCHANGED <<rows, world, jobs, seals>>

CommitAdd(c) ==
    /\ At(c, "add", "written")
    /\ roster' = Upserted(txn[c].writes)
    /\ Becomes(c, Idle)
    /\ UNCHANGED <<ws, session, pv, sealLog, world, jobs, seals>>

-----------------------------------------------------------------------------
(* Sealing: PATCH status=sealed or POST .../committee/seal, then           *)
(* finalize_workspace_irr_seal.                                            *)

\* Both endpoints read the workspace in in_deliberation; the committee
\* endpoint, which creates no session, needs one that is not sealed.
BeginSeal(c, autoCreate) ==
    /\ ws = "in_deliberation"
    /\ autoCreate \/ session = "active"
    /\ seals < MaxSeals
    /\ seals' = seals + 1
    /\ Starts(c, [Idle EXCEPT !.op = "seal", !.step = "read",
                             !.pv = [seal |-> seals + 1, members |-> Nobody]])
    /\ UNCHANGED <<rows, world, jobs>>

\* The session is read again, after the workspace: it may be sealed by now,
\* and the request then only repairs the workspace.
SealReadsSession(c) ==
    /\ At(c, "seal", "read")
    /\ IF session = "sealed"
       THEN Becomes(c, [txn[c] EXCEPT !.op = "recover", !.step = "found"])
       ELSE Becomes(c, [txn[c] EXCEPT !.step = "found", !.saw = session])
    /\ UNCHANGED <<rows, world, jobs, seals>>

\* run_all_seal_checks, quorum and criteria weights (another table's rows,
\* which may be valid or not).
SealChecksQuorum(c) ==
    /\ At(c, "seal", "found")
    /\ \/ Quorate /\ Moves(c, "quorate")
       \/ Rollback(c)

\* run_all_seal_checks, open flags, then the Couche A committee of a legacy
\* case: the comparison of committees.case_id (TEXT) with a UUID fails, the
\* exception is swallowed and PostgreSQL aborts the transaction.
SealChecksFlags(c) ==
    /\ At(c, "seal", "quorate")
    /\ IF flagged THEN Rollback(c) ELSE Moves(c, IF legacy THEN "aborted" ELSE "checked")

\* The next statement of an aborted transaction raises.
SealFails(c) == At(c, "seal", "aborted") /\ Rollback(c)

\* _open_committee_session_auto; a session once seen never goes away, so
\* only the PATCH endpoint comes here.
SealOpensSession(c) ==
    /\ At(c, "seal", "checked") /\ txn[c].saw = "none"
    /\ SessionKeyFree(c)
    /\ IF session = "none"
       THEN /\ Becomes(c, [txn[c] EXCEPT !.step = "opened", !.creates = TRUE])
            /\ UNCHANGED <<rows, world, jobs, seals>>
       ELSE Rollback(c)

\* sync_committee_members_from_workspace, then build_pv_snapshot, which lists
\* the committed members and the ones just written.
SealBuildsPv(c) ==
    /\ \/ At(c, "seal", "opened")
       \/ At(c, "seal", "checked") /\ txn[c].saw = "active"
    /\ \E w \in Rosters :
         /\ Synced(w)
         /\ \A u \in Users : w[u] # NoRole => RosterFree(c, u)
         /\ Becomes(c, [txn[c] EXCEPT !.step = "pv_built", !.writes = w,
                                      !.pv = [seal |-> txn[c].pv.seal, members |-> Upserted(w)]])
    /\ UNCHANGED <<rows, world, jobs, seals>>

SealWritesSession(c) ==
    /\ At(c, "seal", "pv_built")
    /\ SessionFree(c)
    /\ IF PvTriggerPasses THEN Moves(c, "session_written") ELSE Rollback(c)

\* UPDATE process_workspaces without a condition on the old status.
SealWritesWs(c) ==
    /\ At(c, "seal", "session_written")
    /\ WsFree(c)
    /\ IF WsTriggerPasses("sealed") THEN Moves(c, "written") ELSE Rollback(c)

CommitSeal(c) ==
    /\ At(c, "seal", "written")
    /\ ws' = "sealed"
    /\ session' = "sealed"
    /\ pv' = txn[c].pv
    /\ roster' = Upserted(txn[c].writes)
    /\ sealLog' = sealLog + 1
    /\ Becomes(c, [Idle EXCEPT !.op = "seal", !.step = "answered"])
    /\ UNCHANGED <<world, jobs, seals>>

\* The background task after the response: Redis may be absent or fail.
Enqueue(c) ==
    /\ At(c, "seal", "answered")
    /\ Becomes(c, Idle)
    /\ jobs' \in {jobs, jobs + 1}
    /\ UNCHANGED <<rows, world, seals>>

\* The recovery branch, on the status read at the start of the request.
RecoverWrites(c) ==
    /\ At(c, "recover", "found")
    /\ WsFree(c)
    /\ IF WsTriggerPasses("sealed") THEN Moves(c, "written") ELSE Rollback(c)

\* Mutant of CommitRecover: a recovered seal is projected as well.
CommitRecoverProjects(c) ==
    /\ At(c, "recover", "written")
    /\ ws' = "sealed"
    /\ Becomes(c, [Idle EXCEPT !.op = "seal", !.step = "answered"])
    /\ UNCHANGED <<session, pv, roster, sealLog, world, jobs, seals>>

CommitRecover(c) ==
    /\ At(c, "recover", "written")
    /\ ws' = "sealed"
    /\ Becomes(c, Idle)
    /\ UNCHANGED <<session, pv, roster, sealLog, world, jobs, seals>>

-----------------------------------------------------------------------------
\* The connection or the process is lost.
Abort(c) == txn[c] # Idle /\ Rollback(c)

(* Requests of one statement that matters, which hold no lock anyone needs. *)
Changes == changes < MaxChanges /\ changes' = changes + 1 /\ UNCHANGED <<rows, legacy, jobs, seals, txn>>

InviteMember(u, r) ==
    /\ <<u, r>> \notin memberships
    /\ memberships' = memberships \cup {<<u, r>>}
    /\ Changes /\ UNCHANGED flagged

RevokeMember(u) ==
    /\ \E r \in Roles : <<u, r>> \in memberships
    /\ memberships' = {m \in memberships : m[1] # u}
    /\ Changes /\ UNCHANGED flagged

\* add_smart_comment with is_flag: the status of the workspace is not read.
RaiseFlag == ~flagged /\ flagged' = TRUE /\ Changes /\ UNCHANGED memberships
\* resolve_comment of the last open flag.
ResolveFlag == flagged /\ flagged' = FALSE /\ Changes /\ UNCHANGED memberships

Begin(c) ==
    \/ \E target \in Statuses \ {"sealed"} : BeginPatch(c, target)
    \/ BeginOpen(c)
    \/ \E u \in Users, r \in Roles : BeginAdd(c, u, r)
    \/ \E autoCreate \in BOOLEAN : BeginSeal(c, autoCreate)

\* What a begun request does next, once the locks it needs are free.
Step(c) ==
    \/ WritePatch(c) \/ CommitPatch(c)
    \/ WriteOpen(c) \/ CommitOpen(c)
    \/ WriteAdd(c) \/ CommitAdd(c)
    \/ SealReadsSession(c) \/ SealChecksQuorum(c) \/ SealChecksFlags(c) \/ SealFails(c)
    \/ SealOpensSession(c) \/ SealBuildsPv(c) \/ SealWritesSession(c) \/ SealWritesWs(c)
    \/ CommitSeal(c) \/ Enqueue(c)
    \/ RecoverWrites(c) \/ CommitRecover(c)

Others ==
    \/ \E u \in Users : RevokeMember(u) \/ \E r \in Roles : InviteMember(u, r)
    \/ RaiseFlag \/ ResolveFlag

Next == Others \/ \E c \in Conns : Begin(c) \/ Step(c) \/ Abort(c)

Safety == Init /\ [][Next]_vars

\* PostgreSQL grants a lock in the order of the queue, so a request that can
\* go on again and again does go on.
Spec == Safety /\ \A c \in Conns : SF_vars(Step(c))

-----------------------------------------------------------------------------
(* Properties. *)

\* Every value a row or a request can hold.
TypeOK ==
    /\ ws \in Statuses
    /\ session \in {"none", "active", "sealed"}
    /\ pv \in Pvs \cup {NoPv}
    /\ roster \in Rosters
    /\ memberships \subseteq Users \X Roles
    /\ flagged \in BOOLEAN /\ legacy \in BOOLEAN
    /\ sealLog \in 0..MaxSeals
    /\ jobs \in 0..MaxSeals
    /\ seals \in 0..MaxSeals
    /\ changes \in 0..MaxChanges
    /\ txn \in [Conns -> Txns]

\* No orphan (ADR-V51-WORKSPACE-SEAL-VS-COMMITTEE-PV): the session, its PV,
\* its journal and the workspace are sealed together and exactly once,
\* whichever of the two endpoints, the recovery branch and the status changes
\* race.
SealedTogether ==
    /\ session = "sealed" <=> pv # NoPv
    /\ session = "sealed" => ws \in {"sealed", "closed"} /\ sealLog = 1
    /\ session # "sealed" => ws # "sealed" /\ sealLog = 0

\* Whoever the sealed PV lists stays in the session with the role the PV
\* gives, even while another seal has rewritten the same rows.
PvMembersStand ==
    \A u \in Users : pv.members[u] # NoRole => roster[u] = pv.members[u]

\* The projection inserts its signals again each time it runs, so at most one
\* job is ever enqueued: a request that only recovers enqueues none.
ProjectedOnce ==
    /\ jobs <= 1
    /\ \A c, d \in Conns : At(c, "seal", "answered") =>
          jobs = 0 /\ (At(d, "seal", "answered") => c = d)

\* The promise of WorkspaceLedger, read off the workspace and the PV.
Ledger == INSTANCE WorkspaceLedger WITH
    Records <- Pvs,
    NoRecord <- NoPv,
    phase <- IF ws \in {"sealed", "closed"} THEN ws ELSE "working",
    record <- pv

\* The workspace implements the ledger: one PV, made by the seal, never
\* altered, and no way back from sealed or closed.
LedgerSpec == Ledger!Spec

\* Every request ends: the locks are taken in one order (members, session,
\* workspace), so no two requests wait for each other.
RequestsEnd == \A c \in Conns : txn[c] # Idle ~> txn[c] = Idle

\* docs/freeze/DMS_CANON_V5.1.0_FREEZE.md:1909 (INV-W02) and
\* committee_sessions.py:321, "Après scellement : aucune modification
\* possible": the members of a sealed session do not change.  An add-member
\* that read the session before the seal breaks it.
SealedRosterFrozen == [][session = "sealed" => roster' = roster]_vars

\* seal_checks.py:6-9: the quorum and the absence of open flags hold when the
\* workspace is sealed.  A revocation or a flag committed after the check
\* breaks it.
SealedUnderChecks ==
    [][session # "sealed" /\ session' = "sealed" => Quorate /\ ~flagged]_vars

\* seal_checks.py:11-12, "Invariants optionnels (WARNING)": the state of the
\* Couche A committee never stops a seal whose blocking checks passed.  The
\* swallowed SQL error leaves it in a transaction that can only fail.
WarningNeverBlocks == \A c \in Conns : txn[c].step # "aborted"

-----------------------------------------------------------------------------
(* The inductive invariant. *)

\* No two open transactions hold the same lock.
Compatible(r, q) ==
    /\ ~(HoldsSession(r) /\ HoldsSession(q))
    /\ ~(HoldsWs(r) /\ HoldsWs(q))
    /\ \A u \in Users : ~(HoldsRoster(r, u) /\ HoldsRoster(q, u))
    /\ ~(r.creates /\ q.creates)

LockInv == \A c, d \in Conns : c # d => Compatible(txn[c], txn[d])

\* What an open transaction r may count on while it waits: the session it saw
\* or will create, and the rows its locks keep from changing.
SessionFacts(r) ==
    /\ r.creates => session = "none"
    /\ r.saw = "active" => session # "none"
    /\ r.op = "open" /\ r.step = "written" => r.creates
    /\ r.op = "seal" /\ r.step \in {"opened", "pv_built", "session_written", "written"}
          => r.creates \/ r.saw = "active"
    /\ r.op = "recover" \/ r.step = "answered" => session = "sealed"

RequestFacts(r) ==
    /\ r.op = "seal" /\ r.step # "answered" => r.pv.seal \in 1..MaxSeals
    /\ r.op = "patch" => r.target \in Statuses \ {"sealed"}

WriterFacts(r) ==
    /\ HoldsSession(r) => pv = NoPv
    /\ HoldsWs(r) => ws # "closed" /\ (r.op = "patch" /\ ws = "sealed" => r.target = "closed")
    /\ r.op = "add" /\ r.step = "written" =>
          \A u \in Users : r.writes[u] # NoRole => roster[u] = NoRole
    /\ r.op = "seal" /\ r.step \in {"pv_built", "session_written", "written"} /\ pv = NoPv =>
          \A u \in Users : r.pv.members[u] # NoRole => Upserted(r.writes)[u] = r.pv.members[u]

Facts(r) == RequestFacts(r) /\ SessionFacts(r) /\ WriterFacts(r)
RecordInv == \A c \in Conns : Facts(txn[c])

JobInv == jobs # 0 => session = "sealed"

IndInv == TypeOK /\ LockInv /\ RecordInv /\ JobInv /\ SealedTogether /\ PvMembersStand /\ ProjectedOnce

=============================================================================
