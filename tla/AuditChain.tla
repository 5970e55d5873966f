----------------------------- MODULE AuditChain -----------------------------
(***************************************************************************)
(* The audit log and its hash chain: write_event                           *)
(* (src/couche_a/audit/logger.py), the trigger that audits the updates of  *)
(* dictionary items (migration m7_3) and fn_verify_audit_chain.            *)
(*                                                                         *)
(* A writer is a database session: a transaction of several events, or, if *)
(* it is in Autocommit, statements each in a transaction of its own, which *)
(* release the advisory lock as soon as they took it.  A transaction can   *)
(* be rolled back at any point, by its caller, by an error or as the       *)
(* victim of a deadlock (an update locks the row of its item before the    *)
(* trigger waits for the advisory lock).                                   *)
(*                                                                         *)
(* A digest is of a text: entity, entity_id, action, actor_id,             *)
(* payload_canonical and timestamp, the number and the previous hash,      *)
(* written one after the other without a delimiter.  The body of a row is  *)
(* the part of that text before the number; a hash is the tuple of the     *)
(* three parts (SHA-256 has no collisions here).  The parts can be told    *)
(* apart, for a timestamp ends in Z, a number has only digits and what     *)
(* follows it is 64 digits or GENESIS.  The columns within the body cannot *)
(* be, and payload, ip_address and id are in no part: "other" says         *)
(* whether these are as they were written.                                 *)
(***************************************************************************)
EXTENDS Naturals, FiniteSets

CONSTANTS Writers,     \* database sessions
          Autocommit,  \* those that call write_event outside a transaction
          Items,       \* rows of procurement_dict_items
          Event,       \* the body of a row written by write_event
          Genesis,     \* the hash before the first row
          MaxSeq       \* bound: numbers drawn from the sequence

ASSUME WritersAssumption == Autocommit \subseteq Writers /\ Event \notin Items
ASSUME MaxSeqAssumption == MaxSeq \in Nat

VARIABLES log,      \* committed rows of audit_log
          drawn,    \* last value of audit_log_chain_seq_seq
          holder,   \* set of at most one writer: who holds the advisory lock
          txn,      \* the writers' transactions
          version,  \* updates committed on each item
          altered   \* rows changed behind the triggers, before and after

vars == <<log, drawn, holder, txn, version, altered>>

Bodies == Items \cup {Event}
\* "recut": the same text divided otherwise into columns; "aside": another
\* payload, ip_address or id.
Others == {"written", "recut", "aside"}
Hash(body, seq, prev) == <<body, seq, prev>>
Row(body, seq, prev) == [body |-> body, other |-> "written", seq |-> seq, prev |-> prev,
                         hash |-> Hash(body, seq, prev)]

Ats == {"idle", "lock", "seq", "last", "insert"}
NoTxn == [at |-> "idle", body |-> Event, seq |-> 0, prev |-> Genesis,
          rows |-> {}, updates |-> [i \in Items |-> 0]]

Init ==
    /\ log = {}
    /\ drawn = 0
    /\ holder = {}
    /\ txn = [w \in Writers |-> NoTxn]
    /\ version = [i \in Items |-> 0]
    /\ altered = {}

-----------------------------------------------------------------------------
\* h is the hash before number n in S: that of the row below n with the
\* largest number.
Precedes(S, n, h) ==
    \/ (\A q \in S : q.seq >= n) /\ h = Genesis
    \/ \E q \in S : /\ q.seq < n /\ h = q.hash
                    /\ \A p \in S : p.seq < n => p.seq <= q.seq

\* Mutant of Verifies: a range begins at Genesis, as in migration 038.
VerifiesFromGenesis(S, from, to) ==
    LET range == {r \in S : r.seq \in from..to}
    IN  \A r \in range :
            Precedes(range, r.seq, r.prev) /\ r.hash = Hash(r.body, r.seq, r.prev)

\* Mutant of Verifies: prev_hash itself is not compared.
VerifiesHashOnly(S, from, to) ==
    \A r \in S : r.seq \in from..to =>
        \/ (\A q \in S : q.seq >= r.seq) /\ r.hash = Hash(r.body, r.seq, Genesis)
        \/ \E q \in S : Precedes(S, r.seq, q.hash) /\ r.hash = Hash(r.body, r.seq, q.hash)

\* fn_verify_audit_chain: the rows of the range against the hash before each,
\* for the first one that of the last row below the range.
Verifies(S, from, to) ==
    \A r \in S : r.seq \in from..to =>
        Precedes(S, r.seq, r.prev) /\ r.hash = Hash(r.body, r.seq, r.prev)

\* What a session sees: the committed rows and its own.
Seen(w) == log \cup txn[w].rows

Sets(w, t) == txn' = [txn EXCEPT ![w] = t]
Goes(w, at) == Sets(w, [txn[w] EXCEPT !.at = at])

\* Both writers draw a number and read the last hash, in opposite orders.
AfterLock(body) == IF body = Event THEN "seq" ELSE "last"
AfterSeq(body) == IF body = Event THEN "last" ELSE "insert"
AfterLast(body) == IF body = Event THEN "insert" ELSE "seq"

\* Items a transaction has updated, locked until it ends.
Updated(w) == {i \in Items : txn[w].updates[i] > 0}

-----------------------------------------------------------------------------
(* The writers. *)

\* A call of write_event, or an UPDATE of an item, which locks its row first.
Begin(w, b) ==
    /\ txn[w].at = "idle"
    /\ b = Event \/ (w \notin Autocommit /\ \A v \in Writers \ {w} : b \notin Updated(v))
    /\ Sets(w, [txn[w] EXCEPT !.at = "lock", !.body = b,
           !.updates = [i \in Items |-> IF i = b THEN @[i] + 1 ELSE @[i]]])
    /\ UNCHANGED <<log, drawn, holder, version, altered>>

\* Mutant of Lock: the trigger does not take the lock.
LockEventOnly(w) ==
    /\ txn[w].at = "lock"
    /\ txn[w].body = Event => holder \subseteq {w}
    /\ holder' = IF txn[w].body = Event THEN {w} ELSE holder
    /\ Goes(w, AfterLock(txn[w].body))
    /\ UNCHANGED <<log, drawn, version, altered>>

\* Mutant of Lock: the call does not wait.
LockWithoutWaiting(w) ==
    /\ txn[w].at = "lock"
    /\ holder' = holder \cup {w}
    /\ Goes(w, AfterLock(txn[w].body))
    /\ UNCHANGED <<log, drawn, version, altered>>

\* pg_advisory_xact_lock, held to the end of the transaction.
Lock(w) ==
    /\ txn[w].at = "lock"
    /\ holder \subseteq {w}
    /\ holder' = IF w \in Autocommit THEN {} ELSE {w}
    /\ Goes(w, AfterLock(txn[w].body))
    /\ UNCHANGED <<log, drawn, version, altered>>

\* nextval: a number drawn is not given back by a rollback.
Draw(w) ==
    /\ txn[w].at = "seq" /\ drawn < MaxSeq
    /\ drawn' = drawn + 1
    /\ Sets(w, [txn[w] EXCEPT !.at = AfterSeq(txn[w].body), !.seq = drawn + 1])
    /\ UNCHANGED <<log, holder, version, altered>>

\* SELECT event_hash ... ORDER BY chain_seq DESC LIMIT 1.
ReadLast(w) ==
    /\ txn[w].at = "last"
    /\ \/ /\ Seen(w) = {}
          /\ Sets(w, [txn[w] EXCEPT !.at = AfterLast(txn[w].body), !.prev = Genesis])
       \/ \E q \in Seen(w) :
             /\ \A p \in Seen(w) : p.seq <= q.seq
             /\ Sets(w, [txn[w] EXCEPT !.at = AfterLast(txn[w].body), !.prev = q.hash])
    /\ UNCHANGED <<log, drawn, holder, version, altered>>

NewRow(w) == Row(txn[w].body, txn[w].seq, txn[w].prev)

\* The transaction is between two events.
Between(w, rows) == [NoTxn EXCEPT !.rows = rows, !.updates = txn[w].updates]

\* Mutant of Insert: an INSERT that fails is only logged.
InsertSwallowed(w) ==
    /\ txn[w].at = "insert"
    /\ Sets(w, Between(w, txn[w].rows)) \/ Sets(w, Between(w, txn[w].rows \cup {NewRow(w)}))
    /\ UNCHANGED <<log, drawn, holder, version, altered>>

Insert(w) ==
    /\ txn[w].at = "insert"
    /\ IF w \in Autocommit
       THEN log' = log \cup {NewRow(w)} /\ Sets(w, NoTxn)
       ELSE Sets(w, Between(w, txn[w].rows \cup {NewRow(w)})) /\ UNCHANGED log
    /\ UNCHANGED <<drawn, holder, version, altered>>

Commit(w) ==
    /\ txn[w].at = "idle" /\ txn[w].rows # {}
    /\ log' = log \cup txn[w].rows
    /\ version' = [i \in Items |-> version[i] + txn[w].updates[i]]
    /\ holder' = holder \ {w}
    /\ Sets(w, NoTxn)
    /\ UNCHANGED <<drawn, altered>>

Rollback(w) ==
    /\ txn[w] # NoTxn
    /\ holder' = holder \ {w}
    /\ Sets(w, NoTxn)
    /\ UNCHANGED <<log, drawn, version, altered>>

-----------------------------------------------------------------------------
\* A row is changed with the triggers off: its text or its previous hash, with
\* the hash left as it was or computed anew; its hash; what is outside the digest.
Changed(r, body, other, prev, hash) ==
    [body |-> body, other |-> other, seq |-> r.seq, prev |-> prev, hash |-> hash]
NotOf(h) == Hash(Event, 0, h)
Alterations(r) ==
    {Changed(r, r.body, o, r.prev, r.hash) : o \in Others \ {"written"}}
    \cup {Changed(r, b, r.other, r.prev, r.hash) : b \in Bodies \ {r.body}}
    \cup {Changed(r, b, r.other, r.prev, Hash(b, r.seq, r.prev)) : b \in Bodies \ {r.body}}
    \cup {Changed(r, r.body, r.other, NotOf(r.prev), r.hash),
          Changed(r, r.body, r.other, NotOf(r.prev), Hash(r.body, r.seq, NotOf(r.prev))),
          Changed(r, r.body, r.other, r.prev, NotOf(r.hash))}

Alter ==
    /\ altered = {}
    /\ \E r \in log : \E q \in Alterations(r) :
          /\ log' = (log \ {r}) \cup {q}
          /\ altered' = {[was |-> r, now |-> q]}
    /\ UNCHANGED <<drawn, holder, txn, version>>

Write(w) ==
    \/ Lock(w) \/ Draw(w) \/ ReadLast(w) \/ Insert(w)
    \/ Commit(w) \/ Rollback(w)

Next ==
    \/ \E w \in Writers : Write(w) \/ \E b \in Bodies : Begin(w, b)
    \/ Alter

Spec == Init /\ [][Next]_vars

-----------------------------------------------------------------------------
(* Properties. *)

IsRow(r) == r.body \in Bodies /\ r.other \in Others /\ r.seq \in 1..MaxSeq

\* The types of the tables, the sequence, the lock and the sessions.
TypeOK ==
    /\ \A r \in log : IsRow(r)
    /\ drawn \in 0..MaxSeq
    /\ holder \subseteq Writers /\ Cardinality(holder) <= 1
    /\ \A w \in Writers :
          /\ txn[w].at \in Ats /\ txn[w].body \in Bodies /\ txn[w].seq \in 0..MaxSeq
          /\ txn[w].updates \in [Items -> Nat]
          /\ \A r \in txn[w].rows : IsRow(r)
    /\ version \in [Items -> Nat]
    /\ \A a \in altered : IsRow(a.was) /\ IsRow(a.now)

\* What the verification reads of a row, besides its number.
Digested(r) == <<r.body, r.prev, r.hash>>
Intact == \A a \in altered : Digested(a.now) = Digested(a.was)

\* Whatever the writers interleave, roll back and commit, every range verifies
\* as long as what is digested stays as it was written: no two rows follow the
\* same one, numbers lost to rollbacks break nothing, a range need not begin at
\* the first row, and a change outside the digest is not seen.
ChainVerifies == Intact => \A from, to \in 0..MaxSeq : Verifies(log, from, to)

\* A range that verifies has its rows' text, previous hash and hash as they were
\* written, but for a row whose hash was changed too and that no row of the
\* range follows: whatever was written after a row vouches for it.
VerifiedAsWritten ==
    \A a \in altered, from, to \in 0..MaxSeq :
        a.was.seq \in from..to /\ Verifies(log, from, to) =>
            \/ Digested(a.now) = Digested(a.was)
            \/ /\ a.now.hash # a.was.hash
               /\ \A q \in log : q.seq \in (a.was.seq + 1)..to => q.prev # a.was.hash

\* Every alteration of audit_log is detectable by fn_verify_audit_chain (ADR-M1B-001,
\* line 219).  It is not outside the digest, nor in a last row that is digested anew.
AlterationDetectable == \A a \in altered : ~Verifies(log, 0, MaxSeq)

\* Rows are committed in the order of their numbers, and stay: a range that was
\* verified keeps its verdict, and no late row appears inside it.
GrowsAtTheEnd ==
    [][altered' = altered =>
          log \subseteq log' /\ \A r \in log' \ log, q \in log : q.seq < r.seq]_vars

\* An item has as many audit rows as committed updates: neither an update
\* without its trace, nor the trace of an update that was rolled back.
UpdatesAreTraced ==
    altered = {} =>
        \A i \in Items : version[i] = Cardinality({r \in log : r.body = i})

=============================================================================
