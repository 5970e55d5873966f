------------------------ MODULE WorkspaceEventsProofs ------------------------
(***************************************************************************)
(* For any number of connections, users, roles, sockets and events: the    *)
(* journal read by id tells the status and the revocations, and a socket   *)
(* passes over late events only, in increasing order.                      *)
(***************************************************************************)
EXTENDS WorkspaceEvents, TLAPS

\* What each step of a request has filled in.
ShapeInv ==
    \A c \in Conns :
        LET r == txn[c] IN
        /\ r.op = "idle" <=> r.step = "none"
        /\ r.op = "patch" => r.rows = {} /\ r.to \in Statuses
        /\ r.op = "invite" => r.user \in Users /\ r.role \in Roles
        /\ r.op = "invite" /\ Writing(r) => r.rows = {r.role}
        /\ r.op = "revoke" => r.user \in Users

\* No two transactions hold one row.
LockInv ==
    \A c, d \in Conns : c # d =>
        /\ ~(HoldsStatus(txn[c]) /\ HoldsStatus(txn[d]))
        /\ \A m \in Users \X Roles : ~(HoldsRow(txn[c], m) /\ HoldsRow(txn[d], m))

\* An id is drawn once, and ranks follow the commits.
IdInv ==
    /\ \A e \in journal : e.id \in 1..lastId /\ e.rank <= commits
    /\ \A e, f \in journal : e.id = f.id => e = f
    /\ \A c \in Conns : txn[c].step = "logged" =>
          /\ txn[c].id \in 1..lastId
          /\ \A e \in journal : e.id # txn[c].id
          /\ \A d \in Conns : d # c /\ txn[d].step = "logged" => txn[d].id # txn[c].id

\* An event that waits for its commit is numbered after all that its row has
\* in the journal, for it holds the lock of the row since it was numbered.
NumberInv ==
    \A c \in Conns : txn[c].step = "logged" =>
        /\ txn[c].op = "patch" => \A e \in journal : e.kind = "status" => e.id < txn[c].id
        /\ \A m \in Users \X Roles : HoldsRow(txn[c], m) =>
              \A e \in journal : e.kind = "invited" /\ e.user = m[1] /\ e.role = m[2]
                                    => e.id < txn[c].id

\* What is read and not sent yet starts the unread part of the journal, but
\* for what was committed since.
SocketInv ==
    \A s \in Sockets :
        LET h == socket[s] IN
        /\ h.seen = 0 \/ \E g \in h.sent : g.id = h.seen
        /\ \A b \in h.batch : b.id > h.seen
        /\ \A b \in h.batch, e \in journal \ h.batch :
              h.seen < e.id /\ e.id < b.id => b.rank < e.rank
        /\ \A e \in journal : e.id <= h.seen /\ e \notin h.sent =>
              \E f \in h.sent : f.id > e.id /\ f.rank < e.rank

RowInv == TypeOK /\ ShapeInv /\ LockInv /\ IdInv /\ NumberInv /\ JournalTellsState
IndInv == RowInv /\ SocketInv

rowVars == <<status, member, journal, lastId, begun, commits, txn>>

-----------------------------------------------------------------------------
LEMMA InitRow == Init => RowInv
  <1> SUFFICES ASSUME Init PROVE RowInv
    OBVIOUS
  <1> USE LeadAssumption, BoundsAssumption DEF Init
  <1>1. TypeOK
    BY DEF TypeOK, Events, Event, Statuses, Grants, Txns, Idle, Closed
  <1>2. ShapeInv /\ LockInv /\ NumberInv
    BY DEF ShapeInv, LockInv, NumberInv, Idle, Writing, HoldsStatus, HoldsRow
  <1>3. IdInv
    BY DEF IdInv, Idle, Event
  <1>4. JournalTellsState
    BY DEF JournalTellsState, StatusTold, RevocationsTold, Event
  <1> QED BY <1>1, <1>2, <1>3, <1>4 DEF RowInv

\* Steps that replace one request's record and neither rows nor counters of
\* the journal keep the invariant, if the record is well formed and its locks
\* are free and it is not numbered.
LEMMA QuietStep ==
  ASSUME RowInv, NEW c \in Conns, NEW r \in Txns,
         txn' = [txn EXCEPT ![c] = r],
         UNCHANGED <<status, member, journal, lastId, commits, socket>>,
         begun' \in Nat,
         r.step # "logged",
         r.op = "idle" <=> r.step = "none",
         r.op = "patch" => r.rows = {} /\ r.to \in Statuses,
         r.op = "invite" => r.user \in Users /\ r.role \in Roles,
         r.op = "invite" /\ Writing(r) => r.rows = {r.role},
         r.op = "revoke" => r.user \in Users,
         HoldsStatus(r) => StatusFree(c),
         \A m \in Users \X Roles : HoldsRow(r, m) => RowFree(c, m)
  PROVE RowInv'
  <1>1. TypeOK'
    BY DEF RowInv, TypeOK
  <1>0. \A d \in Conns : txn'[d] = IF d = c THEN r ELSE txn[d]
    BY DEF RowInv, TypeOK
  <1>2. ShapeInv'
    <2> SUFFICES ASSUME NEW d \in Conns
                 PROVE LET q == txn'[d] IN
                       /\ q.op = "idle" <=> q.step = "none"
                       /\ q.op = "patch" => q.rows = {} /\ q.to \in Statuses
                       /\ q.op = "invite" => q.user \in Users /\ q.role \in Roles
                       /\ q.op = "invite" /\ Writing(q) => q.rows = {q.role}
                       /\ q.op = "revoke" => q.user \in Users
      BY DEF ShapeInv, Writing
    <2> QED BY <1>0 DEF RowInv, ShapeInv, Writing
  <1>3. LockInv'
    <2> SUFFICES ASSUME NEW d \in Conns, NEW e \in Conns, d # e, NEW m \in Users \X Roles
                 PROVE /\ ~(HoldsStatus(txn'[d]) /\ HoldsStatus(txn'[e]))
                       /\ ~(HoldsRow(txn'[d], m) /\ HoldsRow(txn'[e], m))
      <3>1. CASE Users \X Roles = {}
        <4> SUFFICES ASSUME NEW d \in Conns, NEW e \in Conns, d # e
                     PROVE ~(HoldsStatus(txn'[d]) /\ HoldsStatus(txn'[e]))
          BY <3>1 DEF LockInv, HoldsStatus, HoldsRow, Writing
        <4> QED BY <1>0 DEF RowInv, LockInv, StatusFree
      <3>2. CASE Users \X Roles # {}
        BY <3>2 DEF LockInv, HoldsStatus, HoldsRow, Writing
      <3> QED BY <3>1, <3>2
    <2>1. CASE d # c /\ e # c
      BY <1>0, <2>1 DEF RowInv, LockInv
    <2>2. CASE d = c
      BY <1>0, <2>2 DEF StatusFree, RowFree
    <2>3. CASE e = c
      BY <1>0, <2>3 DEF StatusFree, RowFree
    <2> QED BY <2>1, <2>2, <2>3
  <1>4. IdInv' /\ NumberInv'
    BY <1>0 DEF RowInv, IdInv, NumberInv, HoldsRow, Writing
  <1>5. JournalTellsState'
    BY DEF RowInv, JournalTellsState, StatusTold, RevocationsTold
  <1> QED BY <1>1, <1>2, <1>3, <1>4, <1>5 DEF RowInv

-----------------------------------------------------------------------------
(* One lemma per action of a request. *)

LEMMA IdleTyped == Idle \in Txns
  BY DEF Idle, Txns

LEMMA StartedTyped ==
  ASSUME NEW r \in Txns, NEW n \in Nat
  PROVE  LET q == [r EXCEPT !.step = "read", !.at = n] IN
         /\ q \in Txns /\ q.step = "read" /\ q.op = r.op /\ q.rows = r.rows /\ q.to = r.to
         /\ q.user = r.user /\ q.role = r.role
  BY DEF Txns

LEMMA LoggedTyped ==
  ASSUME NEW r \in Txns, NEW n \in Nat
  PROVE  LET q == [r EXCEPT !.step = "logged", !.id = n] IN
         /\ q \in Txns /\ q.step = "logged" /\ q.id = n /\ q.op = r.op
         /\ q.rows = r.rows /\ q.user = r.user /\ q.role = r.role /\ q.to = r.to
  BY DEF Txns

LEMMA AbortRow == ASSUME RowInv, NEW c \in Conns, Abort(c) PROVE RowInv'
  <1> DEFINE q == Idle
  <1>1. q \in Txns /\ ~Writing(q) /\ q.step = "none" /\ q.op = "idle"
    BY IdleTyped DEF Writing, Idle
  <1>2. /\ txn' = [txn EXCEPT ![c] = q]
        /\ UNCHANGED <<status, member, journal, lastId, commits, socket>>
        /\ begun' \in Nat
    BY DEF Abort, Moves, Becomes, counters, RowInv, TypeOK
  <1> HIDE DEF q
  <1> QED BY <1>1, <1>2, QuietStep DEF HoldsStatus, HoldsRow

LEMMA BeginRow ==
  ASSUME RowInv, NEW c \in Conns, NEW r \in Txns, Begin(c, r), r.step = "none",
         r.op \in {"invite", "revoke", "patch"},
         r.op = "patch" => r.rows = {} /\ r.to \in Statuses,
         r.op = "invite" => r.user \in Users /\ r.role \in Roles,
         r.op = "revoke" => r.user \in Users
  PROVE RowInv'
  <1> DEFINE q == [r EXCEPT !.step = "read", !.at = begun + 1]
  <1>1. /\ q \in Txns /\ q.step = "read" /\ q.op = r.op /\ q.rows = r.rows /\ q.to = r.to
        /\ q.user = r.user /\ q.role = r.role
    <2>1. begun + 1 \in Nat
      BY DEF RowInv, TypeOK
    <2> QED BY <2>1, StartedTyped
  <1>2. /\ txn' = [txn EXCEPT ![c] = q]
        /\ UNCHANGED <<status, member, journal, lastId, commits, socket>>
        /\ begun' \in Nat
    BY DEF Begin, Becomes, RowInv, TypeOK
  <1>3. ~Writing(q)
    BY <1>1 DEF Writing
  <1> HIDE DEF q
  <1> QED BY <1>1, <1>2, <1>3, QuietStep DEF HoldsStatus, HoldsRow

LEMMA BeginInviteRow ==
  ASSUME RowInv, NEW c \in Conns, NEW u \in Users, NEW r \in Roles, BeginInvite(c, u, r)
  PROVE RowInv'
  <1> DEFINE q == [Idle EXCEPT !.op = "invite", !.user = u, !.role = r]
  <1>1. q \in Txns /\ q.step = "none" /\ q.op = "invite" /\ q.user = u /\ q.role = r
    BY DEF Idle, Txns
  <1>2. Begin(c, q)
    BY DEF BeginInvite
  <1> HIDE DEF q
  <1> QED BY <1>1, <1>2, BeginRow

LEMMA BeginRevokeRow ==
  ASSUME RowInv, NEW c \in Conns, NEW u \in Users, BeginRevoke(c, u)
  PROVE RowInv'
  <1> DEFINE active == {r \in Roles : member[<<u, r>>] = "active"}
             q == [Idle EXCEPT !.op = "revoke", !.user = u, !.rows = active]
  <1>1. q \in Txns /\ q.step = "none" /\ q.op = "revoke" /\ q.user = u
    BY DEF Idle, Txns
  <1>2. Begin(c, q)
    BY DEF BeginRevoke
  <1> HIDE DEF q
  <1> QED BY <1>1, <1>2, BeginRow

LEMMA BeginPatchRow ==
  ASSUME RowInv, NEW c \in Conns, NEW to \in Statuses, BeginPatch(c, to)
  PROVE RowInv'
  <1> DEFINE q == [Idle EXCEPT !.op = "patch", !.to = to]
  <1>1. q \in Txns /\ q.step = "none" /\ q.op = "patch" /\ q.rows = {} /\ q.to = to
    BY DEF Idle, Txns
  <1>2. Begin(c, q)
    BY DEF BeginPatch
  <1> HIDE DEF q
  <1> QED BY <1>1, <1>2, BeginRow

LEMMA WriteInviteRow == ASSUME RowInv, NEW c \in Conns, WriteInvite(c) PROVE RowInv'
  <1> DEFINE r == txn[c]
             q == [r EXCEPT !.step = "written", !.rows = {r.role}]
  <1>1. r \in Txns /\ r.op = "invite" /\ r.user \in Users /\ r.role \in Roles
    BY DEF WriteInvite, RowInv, TypeOK, ShapeInv
  <1>2. /\ q \in Txns /\ q.step = "written" /\ q.op = "invite" /\ q.rows = {r.role}
        /\ q.user = r.user /\ q.role = r.role
    BY <1>1 DEF Txns
  <1>3. /\ txn' = [txn EXCEPT ![c] = q]
        /\ UNCHANGED <<status, member, journal, lastId, commits, socket>>
        /\ begun' \in Nat
        /\ RowFree(c, <<r.user, r.role>>)
    BY DEF WriteInvite, Moves, Becomes, counters, RowInv, TypeOK
  <1>4. ~HoldsStatus(q)
    BY <1>2 DEF HoldsStatus
  <1>5. ASSUME NEW m \in Users \X Roles, HoldsRow(q, m) PROVE RowFree(c, m)
    <2>1. m = <<r.user, r.role>>
      BY <1>2, <1>5 DEF HoldsRow
    <2> QED BY <2>1, <1>3
  <1> HIDE DEF q, r
  <1> QED BY <1>1, <1>2, <1>3, <1>4, <1>5, QuietStep

LEMMA WriteRevokeRow == ASSUME RowInv, NEW c \in Conns, WriteRevoke(c) PROVE RowInv'
  <1> DEFINE r == txn[c]
             left == {x \in r.rows : member[<<r.user, x>>] = "active"}
             q == [r EXCEPT !.step = "written", !.rows = left]
  <1>0. CASE left = {}
    <2>1. Abort(c)
      BY <1>0 DEF WriteRevoke, Abort, Idle
    <2> QED BY <2>1, AbortRow
  <1>1. r \in Txns /\ r.op = "revoke" /\ r.user \in Users
    BY DEF WriteRevoke, RowInv, TypeOK, ShapeInv
  <1>2. /\ q \in Txns /\ q.step = "written" /\ q.op = "revoke" /\ q.rows \subseteq r.rows
        /\ q.user = r.user
    BY <1>1 DEF Txns
  <1>3. /\ left # {} => txn' = [txn EXCEPT ![c] = q]
        /\ UNCHANGED <<status, member, journal, lastId, commits, socket>>
        /\ begun' \in Nat
        /\ \A x \in r.rows : RowFree(c, <<r.user, x>>)
    BY DEF WriteRevoke, Moves, Becomes, counters, RowInv, TypeOK
  <1>4. ~HoldsStatus(q)
    BY <1>2 DEF HoldsStatus
  <1>5. ASSUME NEW m \in Users \X Roles, HoldsRow(q, m) PROVE RowFree(c, m)
    <2>1. m[2] \in r.rows /\ m = <<r.user, m[2]>>
      BY <1>2, <1>5 DEF HoldsRow
    <2> QED BY <2>1, <1>3
  <1> HIDE DEF q, r, left
  <1> QED BY <1>0, <1>1, <1>2, <1>3, <1>4, <1>5, QuietStep

LEMMA WritePatchRow == ASSUME RowInv, NEW c \in Conns, WritePatch(c) PROVE RowInv'
  <1> DEFINE r == txn[c]
             q == [r EXCEPT !.step = "written"]
  <1>0. CASE ~TriggerPasses(r.to)
    <2>1. Abort(c)
      BY <1>0 DEF WritePatch, Abort, Idle
    <2> QED BY <2>1, AbortRow
  <1>1. r \in Txns /\ r.op = "patch" /\ r.rows = {} /\ r.to \in Statuses
    BY DEF WritePatch, RowInv, TypeOK, ShapeInv
  <1>2. q \in Txns /\ q.step = "written" /\ q.op = "patch" /\ q.rows = {} /\ q.to = r.to
    BY <1>1 DEF Txns
  <1>3. /\ TriggerPasses(r.to) => txn' = [txn EXCEPT ![c] = q]
        /\ UNCHANGED <<status, member, journal, lastId, commits, socket>>
        /\ begun' \in Nat
        /\ StatusFree(c)
    BY DEF WritePatch, Moves, Becomes, counters, RowInv, TypeOK
  <1>4. \A m \in Users \X Roles : ~HoldsRow(q, m)
    BY <1>2 DEF HoldsRow
  <1> HIDE DEF q, r
  <1> QED BY <1>0, <1>1, <1>2, <1>3, <1>4, QuietStep

LEMMA LogRow == ASSUME RowInv, NEW c \in Conns, Log(c) PROVE RowInv'
  <1> DEFINE r == txn[c]
             q == [r EXCEPT !.step = "logged", !.id = lastId + 1]
  <1>1. r \in Txns /\ r.step = "written" /\ lastId \in Nat /\ lastId' = lastId + 1
    BY DEF Log, RowInv, TypeOK
  <1>2. /\ q \in Txns /\ q.step = "logged" /\ q.id = lastId + 1 /\ q.op = r.op
        /\ q.rows = r.rows /\ q.user = r.user /\ q.role = r.role /\ q.to = r.to
    <2>1. lastId + 1 \in Nat
      BY <1>1
    <2> QED BY <1>1, <2>1, LoggedTyped
  <1>3. /\ txn' = [txn EXCEPT ![c] = q]
        /\ UNCHANGED <<status, member, journal, begun, commits, socket>>
    BY DEF Log, Becomes
  <1>4. Writing(q) /\ Writing(r)
    BY <1>1, <1>2 DEF Writing
  <1>5. /\ HoldsStatus(q) <=> HoldsStatus(r)
        /\ \A m \in Users \X Roles : HoldsRow(q, m) <=> HoldsRow(r, m)
    BY <1>2, <1>4 DEF HoldsStatus, HoldsRow
  <1> HIDE DEF q
  <1>6. \A d \in Conns : txn'[d] = IF d = c THEN q ELSE txn[d]
    BY <1>3 DEF RowInv, TypeOK
  <1>7. \A d \in Conns : /\ HoldsStatus(txn'[d]) <=> HoldsStatus(txn[d])
                         /\ \A m \in Users \X Roles : HoldsRow(txn'[d], m) <=> HoldsRow(txn[d], m)
    BY <1>5, <1>6
  <1>8. TypeOK'
    BY <1>1, <1>2, <1>3 DEF RowInv, TypeOK
  <1>9. ShapeInv'
    <2> SUFFICES ASSUME NEW d \in Conns
                 PROVE LET p == txn'[d] IN
                       /\ p.op = "idle" <=> p.step = "none"
                       /\ p.op = "patch" => p.rows = {} /\ p.to \in Statuses
                       /\ p.op = "invite" => p.user \in Users /\ p.role \in Roles
                       /\ p.op = "invite" /\ Writing(p) => p.rows = {p.role}
                       /\ p.op = "revoke" => p.user \in Users
      BY DEF ShapeInv, Writing
    <2> QED BY <1>1, <1>2, <1>4, <1>6 DEF RowInv, ShapeInv
  <1>10. LockInv'
    <2>1. LockInv
      BY DEF RowInv
    <2> QED BY <1>7, <2>1 DEF LockInv, HoldsStatus, HoldsRow, Writing
  <1>11. IdInv'
    BY <1>1, <1>2, <1>3, <1>6 DEF RowInv, IdInv, TypeOK
  <1>12. NumberInv'
    <2>1. \A e \in journal : e.id < lastId + 1
      BY <1>1 DEF RowInv, IdInv
    <2> SUFFICES ASSUME NEW d \in Conns, txn'[d].step = "logged"
                 PROVE /\ txn'[d].op = "patch" =>
                              \A e \in journal : e.kind = "status" => e.id < txn'[d].id
                       /\ \A m \in Users \X Roles : HoldsRow(txn'[d], m) =>
                              \A e \in journal :
                                  e.kind = "invited" /\ e.user = m[1] /\ e.role = m[2]
                                     => e.id < txn'[d].id
      BY <1>3 DEF NumberInv, HoldsRow, Writing
    <2> QED BY <1>2, <1>6, <2>1 DEF RowInv, NumberInv
  <1>13. JournalTellsState'
    BY <1>3 DEF RowInv, JournalTellsState, StatusTold, RevocationsTold
  <1> QED BY <1>8, <1>9, <1>10, <1>11, <1>12, <1>13 DEF RowInv

\* The event a commit adds, and the request it comes from.
New(c) == LET r == txn[c] IN
          Event(Kind(r.op), r.user, r.role, r.to, r.id, r.at, commits + 1)

LEMMA CommitFacts ==
  ASSUME RowInv, NEW c \in Conns, Commit(c)
  PROVE  /\ txn[c] \in Txns /\ txn[c].step = "logged" /\ Writing(txn[c])
         /\ txn[c].op \in {"invite", "revoke", "patch"}
         /\ New(c) \in Events
         /\ New(c).kind = Kind(txn[c].op) /\ New(c).user = txn[c].user
         /\ New(c).role = txn[c].role /\ New(c).to = txn[c].to
         /\ New(c).id = txn[c].id /\ New(c).rank = commits + 1
         /\ journal' = journal \cup {New(c)}
         /\ commits' = commits + 1
         /\ \A d \in Conns : txn'[d] = IF d = c THEN Idle ELSE txn[d]
  <1>1. /\ txn[c] \in Txns /\ txn[c].step = "logged" /\ commits + 1 \in Nat
        /\ commits' = commits + 1 /\ txn' = [txn EXCEPT ![c] = Idle]
    BY DEF Commit, Becomes, RowInv, TypeOK
  <1>2. txn[c].op \in {"invite", "revoke", "patch"} /\ Writing(txn[c])
    BY <1>1 DEF RowInv, ShapeInv, Txns, Writing
  <1>3. journal' = journal \cup {New(c)}
    BY DEF Commit, New
  <1>4. Kind(txn[c].op) \in {"invited", "revoked", "status"}
    BY <1>2 DEF Kind
  <1>5. /\ New(c).kind = Kind(txn[c].op) /\ New(c).user = txn[c].user
        /\ New(c).role = txn[c].role /\ New(c).to = txn[c].to
        /\ New(c).id = txn[c].id /\ New(c).rank = commits + 1
    BY DEF New, Event
  <1>6. New(c) \in Events
    BY <1>1, <1>4 DEF New, Event, Events, Txns
  <1>7. \A d \in Conns : txn'[d] = IF d = c THEN Idle ELSE txn[d]
    BY <1>1 DEF RowInv, TypeOK
  <1> QED BY <1>1, <1>2, <1>3, <1>5, <1>6, <1>7

LEMMA CommitRow == ASSUME RowInv, NEW c \in Conns, Commit(c) PROVE RowInv'
  <1> DEFINE r == txn[c]
  <1>1. /\ r \in Txns /\ r.step = "logged" /\ Writing(r)
        /\ r.op \in {"invite", "revoke", "patch"}
        /\ New(c) \in Events
        /\ New(c).kind = Kind(r.op) /\ New(c).user = r.user
        /\ New(c).role = r.role /\ New(c).to = r.to
        /\ New(c).id = r.id /\ New(c).rank = commits + 1
        /\ journal' = journal \cup {New(c)}
        /\ commits' = commits + 1
        /\ \A d \in Conns : txn'[d] = IF d = c THEN Idle ELSE txn[d]
    BY CommitFacts
  <1>2. /\ member' = [m \in Users \X Roles |->
                         IF HoldsRow(r, m) THEN IF r.op = "invite" THEN "active" ELSE "revoked"
                                           ELSE member[m]]
        /\ status' = IF r.op = "patch" THEN r.to ELSE status
        /\ UNCHANGED <<lastId, begun, socket>>
    BY DEF Commit
  <1>3. r.op = "patch" => r.rows = {} /\ r.to \in Statuses
    BY DEF RowInv, ShapeInv
  <1>4. r.op = "invite" => r.user \in Users /\ r.role \in Roles /\ r.rows = {r.role}
    BY <1>1 DEF RowInv, ShapeInv
  <1>5. ~Writing(Idle) /\ Idle.step = "none" /\ Idle.op = "idle"
    BY DEF Writing, Idle
  <1>6. Kind(r.op) = IF r.op = "invite" THEN "invited" ELSE
                     IF r.op = "revoke" THEN "revoked" ELSE "status"
    BY <1>1 DEF Kind
  <1>7. /\ r.id \in 1..lastId
        /\ \A e \in journal : e.id # r.id
        /\ \A e, f \in journal : e.id = f.id => e = f
        /\ \A e \in journal : e.id \in 1..lastId /\ e.rank <= commits
    BY <1>1 DEF RowInv, IdInv
  <1>8. lastId \in Nat /\ commits \in Nat /\ journal \subseteq Events
    BY DEF RowInv, TypeOK
  <1>9. HoldsStatus(r) <=> r.op = "patch"
    BY <1>1 DEF HoldsStatus
  <1>10. \A m \in Users \X Roles : HoldsRow(r, m) <=> r.user = m[1] /\ m[2] \in r.rows
    BY <1>1 DEF HoldsRow
  <1>11. /\ r.op = "patch" => \A e \in journal : e.kind = "status" => e.id < r.id
         /\ \A m \in Users \X Roles : HoldsRow(r, m) =>
              \A e \in journal : e.kind = "invited" /\ e.user = m[1] /\ e.role = m[2]
                                    => e.id < r.id
    BY <1>1 DEF RowInv, NumberInv
  <1> HIDE DEF r
  <1>12. TypeOK'
    <2>1. member' \in [Users \X Roles -> Grants] /\ status' \in Statuses
      BY <1>2, <1>3 DEF RowInv, TypeOK, Grants
    <2>2. txn' \in [Conns -> Txns]
      BY IdleTyped DEF Commit, Becomes, RowInv, TypeOK
    <2>3. commits' \in Nat
      BY <1>1, <1>8
    <2>4. socket' \in [Sockets -> [user : Users \cup {NoUser}, seen : Nat,
                                  batch : SUBSET journal', sent : SUBSET journal']]
      <3>1. SUBSET journal \subseteq SUBSET journal'
        BY <1>1
      <3>2. socket \in [Sockets -> [user : Users \cup {NoUser}, seen : Nat,
                                   batch : SUBSET journal, sent : SUBSET journal]]
        BY DEF RowInv, TypeOK
      <3> QED BY <3>1, <3>2, <1>2
    <2> QED BY <1>1, <1>2, <1>8, <2>1, <2>2, <2>3, <2>4 DEF RowInv, TypeOK
  <1>13. ShapeInv'
    <2> SUFFICES ASSUME NEW d \in Conns
                 PROVE LET p == txn'[d] IN
                       /\ p.op = "idle" <=> p.step = "none"
                       /\ p.op = "patch" => p.rows = {} /\ p.to \in Statuses
                       /\ p.op = "invite" => p.user \in Users /\ p.role \in Roles
                       /\ p.op = "invite" /\ Writing(p) => p.rows = {p.role}
                       /\ p.op = "revoke" => p.user \in Users
      BY DEF ShapeInv, Writing
    <2> QED BY <1>1, <1>5 DEF RowInv, ShapeInv
  <1>14. \A d \in Conns : /\ HoldsStatus(txn'[d]) => d # c /\ HoldsStatus(txn[d])
                          /\ \A m \in Users \X Roles :
                                HoldsRow(txn'[d], m) => d # c /\ HoldsRow(txn[d], m)
    BY <1>1, <1>5 DEF HoldsStatus, HoldsRow
  <1>15. LockInv'
    <2>1. LockInv
      BY DEF RowInv
    <2> QED BY <1>14, <2>1 DEF LockInv, HoldsStatus, HoldsRow, Writing
  <1>16. IdInv'
    <2>1. \A e \in journal' : e.id \in 1..lastId' /\ e.rank <= commits'
      BY <1>1, <1>2, <1>7, <1>8 DEF Events
    <2>2. \A e, f \in journal' : e.id = f.id => e = f
      BY <1>1, <1>7
    <2>3. ASSUME NEW d \in Conns, txn'[d].step = "logged"
          PROVE  /\ txn'[d].id \in 1..lastId'
                 /\ \A e \in journal' : e.id # txn'[d].id
                 /\ \A x \in Conns : x # d /\ txn'[x].step = "logged" => txn'[x].id # txn'[d].id
      BY <1>1, <1>2, <1>5, <2>3 DEF RowInv, IdInv, r
    <2> QED BY <2>1, <2>2, <2>3 DEF IdInv
  <1>17. NumberInv'
    <2> SUFFICES ASSUME NEW d \in Conns, txn'[d].step = "logged"
                 PROVE /\ txn'[d].op = "patch" =>
                              \A e \in journal' : e.kind = "status" => e.id < txn'[d].id
                       /\ \A m \in Users \X Roles : HoldsRow(txn'[d], m) =>
                              \A e \in journal' :
                                  e.kind = "invited" /\ e.user = m[1] /\ e.role = m[2]
                                     => e.id < txn'[d].id
      BY DEF NumberInv, HoldsRow, Writing
    <2>1. d # c /\ txn'[d] = txn[d] /\ txn[d].step = "logged"
      BY <1>1, <1>5
    <2>2. /\ ~(HoldsStatus(r) /\ HoldsStatus(txn[d]))
          /\ \A m \in Users \X Roles : ~(HoldsRow(r, m) /\ HoldsRow(txn[d], m))
      BY <2>1 DEF RowInv, LockInv, r
    <2>3. txn[d].op = "patch" => New(c).kind # "status"
      BY <1>1, <1>6, <1>9, <2>1, <2>2 DEF HoldsStatus, Writing
    <2>4. ASSUME NEW m \in Users \X Roles, HoldsRow(txn[d], m)
          PROVE ~(New(c).kind = "invited" /\ New(c).user = m[1] /\ New(c).role = m[2])
      BY <1>1, <1>4, <1>6, <1>10, <2>2, <2>4
    <2>5. /\ txn[d].op = "patch" => \A e \in journal : e.kind = "status" => e.id < txn[d].id
          /\ \A m \in Users \X Roles : HoldsRow(txn[d], m) =>
                \A e \in journal : e.kind = "invited" /\ e.user = m[1] /\ e.role = m[2]
                                      => e.id < txn[d].id
      BY <2>1 DEF RowInv, NumberInv
    <2> QED BY <1>1, <2>1, <2>3, <2>4, <2>5
  <1>18. JournalTellsState'
    <2>1. StatusTold'
      <3>1. CASE r.op = "patch"
        <4>1. New(c) \in journal' /\ New(c).kind = "status" /\ New(c).to = status'
          BY <1>1, <1>2, <1>6, <3>1
        <4>2. \A f \in journal' : f.kind = "status" => f.id <= New(c).id
          BY <1>1, <1>7, <1>8, <1>11, <3>1 DEF Events
        <4> QED BY <4>1, <4>2 DEF StatusTold
      <3>2. CASE r.op # "patch"
        <4>1. status' = status /\ New(c).kind # "status"
          BY <1>1, <1>2, <1>6, <3>2
        <4> QED BY <1>1, <4>1 DEF RowInv, JournalTellsState, StatusTold
      <3> QED BY <3>1, <3>2
    <2>2. RevocationsTold'
      <3> SUFFICES ASSUME NEW u \in Users, NEW x \in Roles, member'[<<u, x>>] = "revoked"
                   PROVE \E e \in journal' :
                           /\ e.kind = "revoked" /\ e.user = u
                           /\ \A f \in journal' :
                                f.kind = "invited" /\ f.user = u /\ f.role = x => f.id < e.id
        BY DEF RevocationsTold
      <3>1. CASE HoldsRow(r, <<u, x>>)
        <4>1. r.op = "revoke" /\ r.user = u
          BY <1>1, <1>2, <1>3, <1>10, <3>1
        <4>2. New(c).kind = "revoked" /\ New(c).user = u
          BY <1>1, <1>6, <4>1
        <4>3. \A f \in journal' : f.kind = "invited" /\ f.user = u /\ f.role = x => f.id < New(c).id
          BY <1>1, <1>11, <3>1, <4>2
        <4> QED BY <1>1, <4>2, <4>3
      <3>2. CASE ~HoldsRow(r, <<u, x>>)
        <4>1. member[<<u, x>>] = "revoked"
          BY <1>2, <3>2
        <4>2. ~(New(c).kind = "invited" /\ New(c).user = u /\ New(c).role = x)
          BY <1>1, <1>4, <1>6, <1>10, <3>2
        <4> QED BY <1>1, <4>1, <4>2 DEF RowInv, JournalTellsState, RevocationsTold
      <3> QED BY <3>1, <3>2
    <2> QED BY <2>1, <2>2 DEF JournalTellsState
  <1> QED BY <1>12, <1>13, <1>15, <1>16, <1>17, <1>18 DEF RowInv

\* The steps of a socket change nothing else.
LEMMA ListenRow == ASSUME RowInv, NEW s \in Sockets, Listen(s) PROVE RowInv' /\ UNCHANGED rowVars
  <1> DEFINE H == [user : Users \cup {NoUser}, seen : Nat,
                   batch : SUBSET journal, sent : SUBSET journal]
  <1>1. \E h \in H : Handles(s, h)
    <2>1. socket[s] \in H
      BY DEF RowInv, TypeOK
    <2>2. ASSUME NEW u \in Users, Connect(s, u) PROVE \E h \in H : Handles(s, h)
      <3>1. [Closed EXCEPT !.user = u] \in H
        BY DEF Closed
      <3> QED BY <2>2, <3>1 DEF Connect
    <2>3. CASE Disconnect(s)
      <3>1. Closed \in H
        BY DEF Closed
      <3> QED BY <2>3, <3>1 DEF Disconnect
    <2>4. CASE Poll(s)
      <3>1. PICK batch \in SUBSET journal : Handles(s, [socket[s] EXCEPT !.batch = batch])
        BY <2>4 DEF Poll, Fresh
      <3>2. [socket[s] EXCEPT !.batch = batch] \in H
        BY <2>1
      <3> QED BY <3>1, <3>2
    <2>5. CASE Send(s)
      <3>1. PICK e \in socket[s].batch :
              Handles(s, [socket[s] EXCEPT !.batch = @ \ {e}, !.sent = @ \cup {e}, !.seen = e.id])
        BY <2>5 DEF Send
      <3>2. e \in journal /\ e.id \in Nat
        BY <2>1 DEF RowInv, TypeOK, Events
      <3>3. ASSUME NEW n \in Nat
            PROVE  [socket[s] EXCEPT !.batch = @ \ {e}, !.sent = @ \cup {e}, !.seen = n] \in H
        BY <2>1, <3>2
      <3> QED BY <3>1, <3>2, <3>3
    <2> QED BY <2>2, <2>3, <2>4, <2>5 DEF Listen
  <1> HIDE DEF H
  <1>2. UNCHANGED rowVars
    BY <1>1 DEF Handles, rowVars, counters
  <1>3. TypeOK'
    BY <1>1, <1>2 DEF Handles, RowInv, TypeOK, rowVars, H
  <1>4. ShapeInv' /\ LockInv' /\ IdInv' /\ NumberInv' /\ JournalTellsState'
    BY <1>2 DEF rowVars, RowInv, ShapeInv, LockInv, IdInv, NumberInv, JournalTellsState,
                StatusTold, RevocationsTold, Writing, HoldsRow, HoldsStatus
  <1> QED BY <1>2, <1>3, <1>4 DEF RowInv

LEMMA RequestRow == ASSUME RowInv, NEW c \in Conns, Request(c) PROVE RowInv'
  <1>1. ASSUME NEW u \in Users, NEW r \in Roles, BeginInvite(c, u, r) PROVE RowInv'
    BY <1>1, BeginInviteRow
  <1>2. ASSUME NEW u \in Users, BeginRevoke(c, u) PROVE RowInv'
    BY <1>2, BeginRevokeRow
  <1>3. ASSUME NEW to \in Statuses, BeginPatch(c, to) PROVE RowInv'
    BY <1>3, BeginPatchRow
  <1>4. CASE WriteInvite(c)
    BY <1>4, WriteInviteRow
  <1>5. CASE WriteRevoke(c)
    BY <1>5, WriteRevokeRow
  <1>6. CASE WritePatch(c)
    BY <1>6, WritePatchRow
  <1>7. CASE Log(c)
    BY <1>7, LogRow
  <1>8. CASE Commit(c)
    BY <1>8, CommitRow
  <1>9. CASE Abort(c)
    BY <1>9, AbortRow
  <1> QED BY <1>1, <1>2, <1>3, <1>4, <1>5, <1>6, <1>7, <1>8, <1>9 DEF Request

-----------------------------------------------------------------------------
(* The sockets. *)

\* What SocketInv says of one handler.
HandlerOK(h, rows) ==
    /\ h.seen = 0 \/ \E g \in h.sent : g.id = h.seen
    /\ \A b \in h.batch : b.id > h.seen
    /\ \A b \in h.batch, e \in rows \ h.batch :
          h.seen < e.id /\ e.id < b.id => b.rank < e.rank
    /\ \A e \in rows : e.id <= h.seen /\ e \notin h.sent =>
          \E f \in h.sent : f.id > e.id /\ f.rank < e.rank

LEMMA SocketsAlone == SocketInv <=> \A s \in Sockets : HandlerOK(socket[s], journal)
  BY DEF SocketInv, HandlerOK

LEMMA ClosedOK == ASSUME RowInv, NEW u PROVE HandlerOK([Closed EXCEPT !.user = u], journal)
  <1>1. \A e \in journal : ~(e.id <= 0)
    BY DEF RowInv, IdInv, TypeOK
  <1> QED BY <1>1 DEF HandlerOK, Closed

LEMMA PollOK ==
  ASSUME RowInv, SocketInv, NEW s \in Sockets, socket[s].batch = {},
         NEW batch \in SUBSET Fresh(s), FirstOf(batch, Fresh(s))
  PROVE  HandlerOK([socket[s] EXCEPT !.batch = batch], journal)
  <1> DEFINE h == socket[s]
  <1>1. HandlerOK(h, journal)
    BY SocketsAlone
  <1>2. h \in [user : Users \cup {NoUser}, seen : Nat, batch : SUBSET journal, sent : SUBSET journal]
    BY DEF RowInv, TypeOK
  <1>3. \A e \in journal : e.id \in Nat
    BY DEF RowInv, TypeOK, Events
  <1>4. /\ \A b \in batch : b \in journal /\ b.id > h.seen
        /\ \A b \in batch, e \in journal \ batch : e.id > h.seen => b.id < e.id
    BY DEF FirstOf, Fresh
  <1>5. /\ [h EXCEPT !.batch = batch].seen = h.seen
        /\ [h EXCEPT !.batch = batch].batch = batch
        /\ [h EXCEPT !.batch = batch].sent = h.sent
    BY <1>2
  <1>6. ASSUME NEW b \in batch, NEW e \in journal \ batch PROVE ~(h.seen < e.id /\ e.id < b.id)
    BY <1>2, <1>3, <1>4
  <1> HIDE DEF h
  <1> QED BY <1>1, <1>4, <1>5, <1>6 DEF HandlerOK, h

LEMMA SendOK ==
  ASSUME RowInv, SocketInv, NEW s \in Sockets, NEW e \in socket[s].batch,
         \A f \in socket[s].batch : e.id <= f.id
  PROVE  HandlerOK([socket[s] EXCEPT !.batch = @ \ {e}, !.sent = @ \cup {e}, !.seen = e.id], journal)
  <1> DEFINE h == socket[s]
             k == [h EXCEPT !.batch = @ \ {e}, !.sent = @ \cup {e}, !.seen = e.id]
  <1>1. HandlerOK(h, journal)
    BY SocketsAlone
  <1>2. h \in [user : Users \cup {NoUser}, seen : Nat, batch : SUBSET journal, sent : SUBSET journal]
    BY DEF RowInv, TypeOK
  <1>3. /\ \A x \in journal : x.id \in Nat
        /\ \A x, y \in journal : x.id = y.id => x = y
    BY DEF RowInv, TypeOK, IdInv, Events
  <1>4. k.seen = e.id /\ k.batch = h.batch \ {e} /\ k.sent = h.sent \cup {e}
    BY <1>2
  <1>5. /\ e \in h.batch /\ \A f \in h.batch : f \in journal /\ e.id <= f.id
        /\ h.seen \in Nat
    BY <1>2
  <1> HIDE DEF h, k
  <1>6. h.seen < e.id
    BY <1>1, <1>3, <1>5 DEF HandlerOK
  <1>7. \A b \in k.batch : b.id > k.seen
    BY <1>3, <1>4, <1>5
  <1>8. ASSUME NEW b \in k.batch, NEW x \in journal \ k.batch, k.seen < x.id, x.id < b.id
        PROVE  b.rank < x.rank
    <2>1. b \in h.batch /\ x \in journal \ h.batch /\ h.seen < x.id
      BY <1>3, <1>4, <1>5, <1>6, <1>8
    <2> QED BY <1>1, <1>8, <2>1 DEF HandlerOK
  <1>9. ASSUME NEW x \in journal, x.id <= k.seen, x \notin k.sent
        PROVE  \E f \in k.sent : f.id > x.id /\ f.rank < x.rank
    <2>1. CASE x.id <= h.seen
      <3>1. PICK f \in h.sent : f.id > x.id /\ f.rank < x.rank
        BY <1>1, <1>4, <1>9, <2>1 DEF HandlerOK
      <3> QED BY <1>4, <3>1
    <2>2. CASE ~(x.id <= h.seen)
      <3>1. h.seen < x.id /\ x.id < e.id /\ x \notin h.batch
        BY <1>3, <1>4, <1>5, <1>9, <2>2
      <3>2. e.rank < x.rank
        BY <1>1, <1>5, <3>1 DEF HandlerOK
      <3> QED BY <1>3, <1>4, <1>5, <3>1, <3>2
    <2> QED BY <2>1, <2>2
  <1>10. \E g \in k.sent : g.id = k.seen
    BY <1>4
  <1>11. HandlerOK(k, journal)
    BY <1>7, <1>8, <1>9, <1>10 DEF HandlerOK
  <1> QED BY <1>11 DEF k, h

LEMMA ListenSocket == ASSUME RowInv, SocketInv, NEW s \in Sockets, Listen(s) PROVE SocketInv'
  <1>1. ASSUME NEW h, Handles(s, h), HandlerOK(h, journal) PROVE SocketInv'
    <2>1. \A x \in Sockets : socket'[x] = IF x = s THEN h ELSE socket[x]
      BY <1>1 DEF Handles, RowInv, TypeOK
    <2>2. journal' = journal
      BY <1>1 DEF Handles
    <2>3. \A x \in Sockets : HandlerOK(socket'[x], journal)
      BY <1>1, <2>1, SocketsAlone
    <2> QED BY <2>2, <2>3 DEF SocketInv, HandlerOK
  <1>2. ASSUME NEW u \in Users, Connect(s, u) PROVE SocketInv'
    BY <1>1, <1>2, ClosedOK DEF Connect
  <1>3. CASE Disconnect(s)
    <2>1. Closed = [Closed EXCEPT !.user = NoUser]
      BY DEF Closed
    <2>2. HandlerOK(Closed, journal)
      BY <2>1, ClosedOK
    <2> QED BY <1>1, <1>3, <2>2 DEF Disconnect
  <1>4. CASE Poll(s)
    BY <1>1, <1>4, PollOK DEF Poll
  <1>5. CASE Send(s)
    BY <1>1, <1>5, SendOK DEF Send
  <1> QED BY <1>2, <1>3, <1>4, <1>5 DEF Listen

\* A commit adds an event of the highest rank, which may be numbered before
\* what a socket has sent: a late event.
LEMMA CommitSocket == ASSUME RowInv, SocketInv, NEW c \in Conns, Commit(c) PROVE SocketInv'
  <1>1. /\ journal' = journal \cup {New(c)} /\ New(c).rank = commits + 1
        /\ New(c).id = txn[c].id /\ txn[c].step = "logged" /\ New(c) \in Events
    BY CommitFacts
  <1>2. /\ New(c).id \in Nat /\ New(c).id # 0
        /\ \A e \in journal : e.id \in Nat /\ e.id # New(c).id /\ e.rank < New(c).rank
    BY <1>1 DEF RowInv, TypeOK, IdInv, Events
  <1>3. UNCHANGED socket
    BY DEF Commit
  <1> SUFFICES ASSUME NEW s \in Sockets PROVE HandlerOK(socket[s], journal')
    BY <1>3 DEF SocketInv, HandlerOK
  <1> DEFINE h == socket[s]
  <1>4. h.seen \in Nat /\ h.batch \subseteq journal /\ h.sent \subseteq journal
    BY DEF RowInv, TypeOK
  <1>5. HandlerOK(h, journal)
    BY SocketsAlone
  <1> HIDE DEF h
  <1>6. ASSUME NEW b \in h.batch, NEW e \in journal' \ h.batch, h.seen < e.id, e.id < b.id
        PROVE  b.rank < e.rank
    BY <1>1, <1>2, <1>4, <1>5, <1>6 DEF HandlerOK
  <1>7. ASSUME NEW e \in journal', e.id <= h.seen, e \notin h.sent
        PROVE  \E f \in h.sent : f.id > e.id /\ f.rank < e.rank
    <2>1. CASE e \in journal
      BY <1>5, <1>7, <2>1 DEF HandlerOK
    <2>2. CASE e = New(c)
      <3>1. PICK g \in h.sent : g.id = h.seen
        BY <1>2, <1>4, <1>5, <1>7, <2>2 DEF HandlerOK
      <3>2. g.id > e.id /\ g.rank < e.rank
        BY <1>2, <1>4, <1>7, <2>2, <3>1
      <3> QED BY <3>2
    <2> QED BY <1>1, <2>1, <2>2
  <1>8. HandlerOK(h, journal')
    BY <1>5, <1>6, <1>7 DEF HandlerOK
  <1> QED BY <1>8 DEF h

LEMMA RequestSocket == ASSUME RowInv, SocketInv, NEW c \in Conns, Request(c) PROVE SocketInv'
  <1>1. CASE Commit(c)
    BY <1>1, CommitSocket
  <1>2. CASE ~Commit(c)
    <2>1. UNCHANGED <<journal, socket>>
      BY <1>2 DEF Request, BeginInvite, BeginRevoke, BeginPatch, Begin, WriteInvite, WriteRevoke,
                  WritePatch, Log, Abort, Moves
    <2> QED BY <2>1 DEF SocketInv
  <1> QED BY <1>1, <1>2

LEMMA Inductive == IndInv /\ [Next]_vars => IndInv'
  <1> SUFFICES ASSUME IndInv, [Next]_vars PROVE IndInv'
    OBVIOUS
  <1>1. ASSUME NEW c \in Conns, Request(c) PROVE IndInv'
    BY <1>1, RequestRow, RequestSocket DEF IndInv
  <1>2. ASSUME NEW s \in Sockets, Listen(s) PROVE IndInv'
    BY <1>2, ListenRow, ListenSocket DEF IndInv
  <1>3. CASE UNCHANGED vars
    BY <1>3 DEF vars, counters, IndInv, RowInv, TypeOK, ShapeInv, LockInv, IdInv, NumberInv,
                JournalTellsState, StatusTold, RevocationsTold, SocketInv, Writing, HoldsRow,
                HoldsStatus
  <1> QED BY <1>1, <1>2, <1>3 DEF Next

LEMMA InitInv == Init => IndInv
  <1> SUFFICES ASSUME Init PROVE IndInv
    OBVIOUS
  <1>1. RowInv
    BY InitRow
  <1>2. SocketInv
    BY DEF Init, SocketInv, Closed, Event
  <1> QED BY <1>1, <1>2 DEF IndInv

LEMMA InvHolds == Spec => []IndInv
  BY InitInv, Inductive, PTL DEF Spec

-----------------------------------------------------------------------------
\* Every variable of the journal model keeps its type.
THEOREM EventsTypes == Spec => []TypeOK
  <1>1. IndInv => TypeOK
    BY DEF IndInv, RowInv
  <1> QED BY <1>1, InvHolds, PTL

\* Read by increasing id, the journal always ends with the status of the
\* workspace and accounts for every revoked membership, whatever requests
\* overlap: the locks of the rows order the ids that matter.
THEOREM JournalAlwaysTellsState == Spec => []JournalTellsState
  <1>1. IndInv => JournalTellsState
    BY DEF IndInv, RowInv
  <1> QED BY <1>1, InvHolds, PTL

\* An event that a connected client never gets was committed after one of a
\* higher number that the client did get: there is no other way to lose one.
THEOREM MissedAlwaysLate == Spec => []MissedOnlyIfLate
  <1>1. IndInv => MissedOnlyIfLate
    BY DEF IndInv, SocketInv, MissedOnlyIfLate
  <1> QED BY <1>1, InvHolds, PTL

-----------------------------------------------------------------------------
(* What a client gets, and in which order.                                 *)

\* An event whose id respects the order of the commits is never passed over:
\* what EventsArrive rests on.
InOrderIsSent ==
    \A s \in Sockets, e \in journal :
        socket[s].user # NoUser /\ InOrder(e) /\ e.id <= socket[s].seen => e \in socket[s].sent

\* The cursor of the handler is not behind anything it has sent.
SentBehind == \A s \in Sockets : \A f \in socket[s].sent : f.id <= socket[s].seen

\* A connected client gets the events by strictly increasing id: none twice,
\* none after a later-numbered one.
SentInOrder ==
    [][\A s \in Sockets : Send(s) =>
          \E e \in journal :
             /\ socket'[s].sent = socket[s].sent \cup {e}
             /\ \A f \in socket[s].sent : f.id < e.id]_vars

LEMMA SendRises ==
  ASSUME IndInv, SentBehind, NEW s \in Sockets, Send(s)
  PROVE  \E e \in journal :
            /\ socket'[s].sent = socket[s].sent \cup {e} /\ socket'[s].seen = e.id
            /\ e.id > socket[s].seen
            /\ \A f \in socket[s].sent : f.id < e.id
  <1>1. PICK e \in socket[s].batch :
           Handles(s, [socket[s] EXCEPT !.batch = @ \ {e}, !.sent = @ \cup {e}, !.seen = e.id])
    BY DEF Send
  <1>2. socket[s] \in [user : Users \cup {NoUser}, seen : Nat, batch : SUBSET journal, sent : SUBSET journal]
    BY DEF IndInv, RowInv, TypeOK
  <1>3. socket'[s] = [socket[s] EXCEPT !.batch = @ \ {e}, !.sent = @ \cup {e}, !.seen = e.id]
    BY <1>1 DEF Handles, IndInv, RowInv, TypeOK
  <1>4. socket'[s].sent = socket[s].sent \cup {e} /\ socket'[s].seen = e.id
    BY <1>2, <1>3
  <1>5. e \in journal /\ socket[s].seen \in Nat /\ e.id > socket[s].seen
    BY <1>2 DEF IndInv, SocketInv
  <1>6. \A f \in socket[s].sent : f.id \in Nat /\ f.id <= socket[s].seen
    BY <1>2 DEF IndInv, RowInv, TypeOK, Events, SentBehind
  <1>7. e.id \in Nat
    BY <1>5 DEF IndInv, RowInv, TypeOK, Events
  <1> QED BY <1>4, <1>5, <1>6, <1>7

LEMMA NextBehind == IndInv /\ SentBehind /\ [Next]_vars => SentBehind'
  <1> SUFFICES ASSUME IndInv, SentBehind, [Next]_vars PROVE SentBehind'
    OBVIOUS
  <1>1. ASSUME NEW s \in Sockets, NEW h, Handles(s, h), \A f \in h.sent : f.id <= h.seen
        PROVE  SentBehind'
    BY <1>1 DEF Handles, IndInv, RowInv, TypeOK, SentBehind
  <1>2. ASSUME NEW s \in Sockets, NEW u \in Users, Connect(s, u) PROVE SentBehind'
    BY <1>1, <1>2 DEF Connect, Closed
  <1>3. ASSUME NEW s \in Sockets, Disconnect(s) PROVE SentBehind'
    BY <1>1, <1>3 DEF Disconnect, Closed
  <1>4. ASSUME NEW s \in Sockets, Poll(s) PROVE SentBehind'
    <2>1. PICK batch : Handles(s, [socket[s] EXCEPT !.batch = batch])
      BY <1>4 DEF Poll
    <2>2. /\ [socket[s] EXCEPT !.batch = batch].sent = socket[s].sent
          /\ [socket[s] EXCEPT !.batch = batch].seen = socket[s].seen
      BY DEF IndInv, RowInv, TypeOK
    <2> QED BY <1>1, <2>1, <2>2 DEF SentBehind
  <1>5. ASSUME NEW s \in Sockets, Send(s) PROVE SentBehind'
    <2>1. PICK e \in journal :
             /\ socket'[s].sent = socket[s].sent \cup {e} /\ socket'[s].seen = e.id
             /\ \A f \in socket[s].sent : f.id < e.id
      BY <1>5, SendRises
    <2>2. e.id \in Nat /\ \A f \in socket[s].sent : f.id \in Nat
      BY DEF IndInv, RowInv, TypeOK, Events
    <2>3. \A x \in Sockets \ {s} : socket'[x] = socket[x]
      BY <1>5 DEF Send, Handles, IndInv, RowInv, TypeOK
    <2> QED BY <2>1, <2>2, <2>3 DEF SentBehind
  <1>6. CASE UNCHANGED socket
    BY <1>6 DEF SentBehind
  <1>7. ASSUME NEW c \in Conns, Request(c) PROVE UNCHANGED socket
    <2>1. ASSUME NEW r, Begin(c, r) PROVE UNCHANGED socket
      BY <2>1 DEF Begin
    <2>2. ASSUME NEW r, Moves(c, r) PROVE UNCHANGED socket
      BY <2>2 DEF Moves
    <2>3. ASSUME NEW u \in Users, NEW r \in Roles, BeginInvite(c, u, r) PROVE UNCHANGED socket
      BY <2>1, <2>3, Zenon DEF BeginInvite
    <2>4. ASSUME NEW u \in Users, BeginRevoke(c, u) PROVE UNCHANGED socket
      BY <2>1, <2>4, Zenon DEF BeginRevoke
    <2>5. ASSUME NEW to \in Statuses, BeginPatch(c, to) PROVE UNCHANGED socket
      BY <2>1, <2>5, Zenon DEF BeginPatch
    <2>6. CASE WriteInvite(c) \/ WriteRevoke(c) \/ WritePatch(c)
      BY <2>2, <2>6, Zenon DEF WriteInvite, WriteRevoke, WritePatch
    <2>7. CASE Log(c) \/ Abort(c)
      BY <2>2, <2>7, Zenon DEF Log, Abort
    <2>8. CASE Commit(c)
      BY <2>8, Zenon DEF Commit
    <2> QED BY <1>7, <2>3, <2>4, <2>5, <2>6, <2>7, <2>8 DEF Request
  <1> QED BY <1>2, <1>3, <1>4, <1>5, <1>6, <1>7 DEF Next, Listen, vars

\* An event that commits in the order of the ids is sent before the cursor of
\* any connected client passes it.
THEOREM InOrderAlwaysSent == Spec => []InOrderIsSent
  <1>1. ASSUME IndInv, MissedOnlyIfLate PROVE InOrderIsSent
    <2>1. \A s \in Sockets : socket[s].sent \subseteq journal
      BY <1>1 DEF IndInv, RowInv, TypeOK
    <2>2. \A e, f \in journal : ~(f.id > e.id /\ f.id < e.id)
      BY <1>1 DEF IndInv, RowInv, TypeOK, Events
    <2> QED BY <1>1, <2>1, <2>2 DEF MissedOnlyIfLate, InOrderIsSent, InOrder
  <1> QED BY <1>1, InvHolds, MissedAlwaysLate, PTL

\* Clients get the events by strictly increasing id.
THEOREM AlwaysSentInOrder == Spec => SentInOrder
  <1>1. Init => SentBehind
    BY DEF Init, SentBehind, Closed
  <1>2. IndInv /\ SentBehind => [\A s \in Sockets : Send(s) =>
          \E e \in journal :
             /\ socket'[s].sent = socket[s].sent \cup {e}
             /\ \A f \in socket[s].sent : f.id < e.id]_vars
    BY SendRises
  <1> QED BY <1>1, <1>2, NextBehind, InvHolds, PTL DEF Spec, SentInOrder
=============================================================================
