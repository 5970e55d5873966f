--------------------------- MODULE WorkspaceEvents ---------------------------
(***************************************************************************)
(* The journal workspace_events of one workspace: the requests that write  *)
(* it together with a membership or the status, and the WebSockets that    *)
(* read it by increasing id.                                               *)
(*                                                                         *)
(* An id is drawn from the sequence when the INSERT runs and becomes       *)
(* visible at COMMIT, so that the journal does not grow by its end: that   *)
(* is what the readers and the replay of the journal have to live with.    *)
(*                                                                         *)
(* Abstractions: preparing stands for every status before in_deliberation  *)
(* and for cancelled, which the trigger does not tell apart; the facts     *)
(* validate_transition asks for belong to other tables and may hold or     *)
(* not; of the journal, the events of memberships and status are kept;     *)
(* any active membership opens a socket; who sends a request is left out,  *)
(* as an administrator may send any, but a listener is a member.           *)
(***************************************************************************)
EXTENDS Naturals, FiniteSets

CONSTANTS Conns,      \* concurrent database connections
          Users,
          Roles,
          Lead,       \* the creator of the workspace
          LeadRole,   \* supply_chain
          Sockets,
          Limit,      \* MAX_EVENTS_PER_POLL
          MaxTxns     \* bound: transactions ever begun

ASSUME LeadAssumption == Lead \in Users /\ LeadRole \in Roles
ASSUME BoundsAssumption == Limit \in Nat \ {0} /\ MaxTxns \in Nat

VARIABLES status,   \* process_workspaces.status
          member,   \* workspace_memberships, by user and role
          journal,  \* workspace_events, as committed
          lastId,   \* the sequence of workspace_events.id
          begun,    \* transactions begun: the clock of NOW()
          commits,  \* transactions committed: the order of visibility
          txn,      \* the request that each connection serves
          socket    \* the state of each WebSocket handler

counters == <<lastId, begun, commits>>
vars == <<status, member, journal, counters, txn, socket>>

Statuses == {"preparing", "in_deliberation", "sealed", "closed"}
Grants == {"none", "active", "revoked"}
NoUser == "nobody"
NoRole == "none"

\* A row; rank is not a column, it is the commit that made the row visible.
Event(kind, u, r, to, id, at, rank) ==
    [kind |-> kind, user |-> u, role |-> r, to |-> to, id |-> id, at |-> at, rank |-> rank]

Events == [kind : {"created", "invited", "revoked", "status"}, user : Users \cup {NoUser},
           role : Roles \cup {NoRole}, to : Statuses \cup {"none"},
           id : Nat, at : Nat, rank : Nat]

Idle == [op |-> "idle", step |-> "none", user |-> NoUser, role |-> NoRole, to |-> "none",
         rows |-> {}, id |-> 0, at |-> 0]
Txns == [op : {"idle", "invite", "revoke", "patch"}, step : {"none", "read", "written", "logged"},
         user : Users \cup {NoUser}, role : Roles \cup {NoRole}, to : Statuses \cup {"none"},
         rows : SUBSET Roles, id : Nat, at : Nat]

Closed == [user |-> NoUser, seen |-> 0, batch |-> {}, sent |-> {}]

\* create_workspace has run: the lead is a member and two events say so.
Init ==
    /\ status = "preparing"
    /\ member = [m \in Users \X Roles |-> IF m = <<Lead, LeadRole>> THEN "active" ELSE "none"]
    /\ journal = {Event("created", NoUser, NoRole, "none", 1, 0, 0),
                  Event("invited", Lead, LeadRole, "none", 2, 0, 0)}
    /\ lastId = 2
    /\ begun = 0
    /\ commits = 0
    /\ txn = [c \in Conns |-> Idle]
    /\ socket = [s \in Sockets |-> Closed]

-----------------------------------------------------------------------------
(* Row locks, held from the write to the end of the transaction. *)

Writing(r) == r.step \in {"written", "logged"}
HoldsRow(r, m) == Writing(r) /\ r.user = m[1] /\ m[2] \in r.rows

\* Mutant of HoldsStatus: the UPDATE is committed before the event is written.
HoldsStatusBriefly(r) == r.op = "patch" /\ r.step = "written"

HoldsStatus(r) == r.op = "patch" /\ Writing(r)

RowFree(c, m) == \A d \in Conns \ {c} : ~HoldsRow(txn[d], m)
StatusFree(c) == \A d \in Conns \ {c} : ~HoldsStatus(txn[d])

-----------------------------------------------------------------------------
(* The requests. *)

Becomes(c, r) == txn' = [txn EXCEPT ![c] = r]

Begin(c, r) ==
    /\ txn[c] = Idle
    /\ begun < MaxTxns
    /\ begun' = begun + 1
    /\ Becomes(c, [r EXCEPT !.step = "read", !.at = begun + 1])
    /\ UNCHANGED <<status, member, journal, lastId, commits, socket>>

Moves(c, r) == Becomes(c, r) /\ UNCHANGED <<status, member, journal, counters, socket>>

\* The connection or the process is lost, or a statement fails: the id that
\* was drawn is lost with the row.
Abort(c) == txn[c] # Idle /\ Moves(c, Idle)

\* POST /members: 409 when the membership is active in a first SELECT.
BeginInvite(c, u, r) ==
    /\ member[<<u, r>>] # "active"
    /\ Begin(c, [Idle EXCEPT !.op = "invite", !.user = u, !.role = r])

\* The upsert waits for the row, and makes it active whatever it has become.
WriteInvite(c) ==
    LET r == txn[c] IN
    /\ r.op = "invite" /\ r.step = "read"
    /\ RowFree(c, <<r.user, r.role>>)
    /\ Moves(c, [r EXCEPT !.step = "written", !.rows = {r.role}])

\* DELETE /members: one UPDATE over the rows of the user that are active when
\* it starts; 404 when there is none.
BeginRevoke(c, u) ==
    LET active == {r \in Roles : member[<<u, r>>] = "active"} IN
    /\ active # {}
    /\ Begin(c, [Idle EXCEPT !.op = "revoke", !.user = u, !.rows = active])

\* It waits for these rows and drops those that are not active any more.
WriteRevoke(c) ==
    LET r == txn[c]
        left == {x \in r.rows : member[<<r.user, x>>] = "active"} IN
    /\ r.op = "revoke" /\ r.step = "read"
    /\ \A x \in r.rows : RowFree(c, <<r.user, x>>)
    /\ Moves(c, IF left = {} THEN Idle ELSE [r EXCEPT !.step = "written", !.rows = left])

\* PATCH /status, the seal included: decided on a status read without a lock.
BeginPatch(c, to) ==
    /\ to = status => status = "preparing"
    /\ to = "sealed" => status = "in_deliberation"
    /\ Begin(c, [Idle EXCEPT !.op = "patch", !.to = to])

\* fn_workspace_sealed_final: sealed leads to closed only, closed to nothing.
TriggerPasses(to) == status # "closed" /\ (status = "sealed" => to \in {"sealed", "closed"})

WritePatch(c) ==
    LET r == txn[c] IN
    /\ r.op = "patch" /\ r.step = "read"
    /\ StatusFree(c)
    /\ Moves(c, IF TriggerPasses(r.to) THEN [r EXCEPT !.step = "written"] ELSE Idle)

\* INSERT INTO workspace_events: the id is drawn, the row is not visible.
Log(c) ==
    /\ txn[c].step = "written"
    /\ lastId' = lastId + 1
    /\ Becomes(c, [txn[c] EXCEPT !.step = "logged", !.id = lastId + 1])
    /\ UNCHANGED <<status, member, journal, begun, commits, socket>>

Kind(op) == CASE op = "invite" -> "invited" [] op = "revoke" -> "revoked" [] OTHER -> "status"

\* Mutant of Commit: every request sets the status.
CommitSetsStatus(c) ==
    LET r == txn[c] IN
    /\ r.step = "logged"
    /\ commits' = commits + 1
    /\ journal' = journal \cup {Event(Kind(r.op), r.user, r.role, r.to, r.id, r.at, commits + 1)}
    /\ status' = r.to
    /\ Becomes(c, Idle)
    /\ UNCHANGED <<member, lastId, begun, socket>>

Commit(c) ==
    LET r == txn[c] IN
    /\ r.step = "logged"
    /\ commits' = commits + 1
    /\ journal' = journal \cup {Event(Kind(r.op), r.user, r.role, r.to, r.id, r.at, commits + 1)}
    /\ member' = [m \in Users \X Roles |->
                    IF HoldsRow(r, m) THEN IF r.op = "invite" THEN "active" ELSE "revoked"
                                      ELSE member[m]]
    /\ status' = IF r.op = "patch" THEN r.to ELSE status
    /\ Becomes(c, Idle)
    /\ UNCHANGED <<lastId, begun, socket>>

-----------------------------------------------------------------------------
(* workspace_events_ws. *)

Handles(s, h) ==
    /\ socket' = [socket EXCEPT ![s] = h]
    /\ UNCHANGED <<status, member, journal, counters, txn>>

\* Access is checked before accept(), and last_seen_id starts at 0.
Connect(s, u) ==
    /\ socket[s].user = NoUser
    /\ \E r \in Roles : member[<<u, r>>] = "active"
    /\ Handles(s, [Closed EXCEPT !.user = u])

Disconnect(s) == socket[s].user # NoUser /\ Handles(s, Closed)

Fresh(s) == {e \in journal : e.id > socket[s].seen}

\* ORDER BY id ASC LIMIT :lim.
FirstOf(batch, rows) ==
    /\ batch \subseteq rows
    /\ batch # {}
    /\ Cardinality(batch) <= Limit
    /\ batch # rows => Cardinality(batch) = Limit
    /\ \A e \in batch, f \in rows \ batch : e.id < f.id

\* Mutant of Poll: without ORDER BY.
PollUnordered(s) ==
    /\ socket[s].user # NoUser
    /\ socket[s].batch = {}
    /\ \E e \in Fresh(s) : Handles(s, [socket[s] EXCEPT !.batch = {e}])

\* Mutant of Poll: off by one after the first event.
PollSkips(s) ==
    /\ socket[s].user # NoUser
    /\ socket[s].batch = {}
    /\ \E e \in Fresh(s) : /\ socket[s].seen > 0 => e.id > socket[s].seen + 1
                           /\ Handles(s, [socket[s] EXCEPT !.batch = {e}])

\* Without a row the handler sends a heartbeat, which changes nothing here.
Poll(s) ==
    /\ socket[s].user # NoUser
    /\ socket[s].batch = {}
    /\ \E batch \in SUBSET Fresh(s) :
          /\ FirstOf(batch, Fresh(s))
          /\ Handles(s, [socket[s] EXCEPT !.batch = batch])

Send(s) ==
    \E e \in socket[s].batch :
        /\ \A f \in socket[s].batch : e.id <= f.id
        /\ Handles(s, [socket[s] EXCEPT !.batch = @ \ {e}, !.sent = @ \cup {e}, !.seen = e.id])

-----------------------------------------------------------------------------
Request(c) ==
    \/ \E u \in Users, r \in Roles : BeginInvite(c, u, r)
    \/ \E u \in Users : BeginRevoke(c, u)
    \/ \E to \in Statuses : BeginPatch(c, to)
    \/ WriteInvite(c) \/ WriteRevoke(c) \/ WritePatch(c)
    \/ Log(c) \/ Commit(c) \/ Abort(c)

Listen(s) ==
    \/ \E u \in Users : Connect(s, u)
    \/ Disconnect(s) \/ Poll(s) \/ Send(s)

Next == (\E c \in Conns : Request(c)) \/ (\E s \in Sockets : Listen(s))

Spec == Init /\ [][Next]_vars

\* The loop of the handler polls every two seconds for as long as the client
\* stays; nothing is assumed of the requests.
Fairness == \A s \in Sockets : WF_vars(Poll(s)) /\ WF_vars(Send(s))
FairSpec == Spec /\ Fairness

-----------------------------------------------------------------------------
(* Properties. *)

\* Every variable keeps its type.
TypeOK ==
    /\ status \in Statuses
    /\ member \in [Users \X Roles -> Grants]
    /\ journal \subseteq Events
    /\ lastId \in Nat /\ begun \in Nat /\ commits \in Nat
    /\ txn \in [Conns -> Txns]
    /\ socket \in [Sockets -> [user : Users \cup {NoUser}, seen : Nat,
                               batch : SUBSET journal, sent : SUBSET journal]]

\* Read by increasing id, the journal ends with the status of the workspace,
\* although the ids are drawn before the commits: an id is drawn under the
\* lock of the row that the event is about.
StatusTold ==
    LET changes == {e \in journal : e.kind = "status"} IN
    \/ changes = {} /\ status = "preparing"
    \/ \E e \in changes : e.to = status /\ \A f \in changes : f.id <= e.id

\* Nobody loses a membership without a trace: a revoked row has a revocation
\* of its user numbered after every invitation to that role.
RevocationsTold ==
    \A u \in Users, r \in Roles :
        member[<<u, r>>] = "revoked" =>
            \E e \in journal :
                /\ e.kind = "revoked" /\ e.user = u
                /\ \A f \in journal : f.kind = "invited" /\ f.user = u /\ f.role = r => f.id < e.id

JournalTellsState == StatusTold /\ RevocationsTold

\* A socket passes over an event only when a later-numbered one that it has
\* already sent was committed first; all others are sent, whatever the
\* batches, the limit and the commits between two polls.
MissedOnlyIfLate ==
    \A s \in Sockets, e \in journal :
        socket[s].user # NoUser /\ e.id <= socket[s].seen /\ e \notin socket[s].sent =>
            \E f \in socket[s].sent : f.id > e.id /\ f.rank < e.rank

\* An event whose id respects the order of the commits reaches every client
\* that stays connected.
InOrder(e) == \A f \in journal : f.rank < e.rank => f.id < e.id
EventsArrive ==
    \A s \in Sockets, i \in 1..(2 + MaxTxns) :
        (socket[s].user # NoUser /\ \E e \in journal : e.id = i /\ InOrder(e))
            ~> (socket[s].user = NoUser \/ \E e \in socket[s].sent : e.id = i)

\* What the handler's documentation says: each new event is sent. It is not:
\* an event that commits after a later-numbered one was sent is never read.
EveryEventSent ==
    \A s \in Sockets, e \in journal :
        socket[s].user # NoUser /\ e.id <= socket[s].seen => e \in socket[s].sent

\* Not promised, and not so: the journal replayed by id gives the memberships.
\* A revocation leaves alone a role whose invitation is not committed yet but
\* already numbered.
GrantsTold ==
    \A u \in Users, r \in Roles :
        member[<<u, r>>] = "active" =>
            \E f \in journal :
                /\ f.kind = "invited" /\ f.user = u /\ f.role = r
                /\ \A e \in journal : e.kind = "revoked" /\ e.user = u => e.id < f.id

\* Not so either: access is checked when the socket opens and not again.
ListenersAreMembers ==
    \A s \in Sockets : socket[s].user # NoUser =>
        \E r \in Roles : member[<<socket[s].user, r>>] = "active"

\* Nor does event-timeline, which sorts by emitted_at, end with the status:
\* emitted_at is the time its transaction began.
TimelineTold ==
    LET changes == {e \in journal : e.kind = "status"} IN
    \A e \in changes : (\A f \in changes : f.at <= e.at) => e.to = status
=============================================================================
