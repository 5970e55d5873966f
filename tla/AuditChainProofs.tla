-------------------------- MODULE AuditChainProofs --------------------------
(***************************************************************************)
(* Proofs about AuditChain, for any number of sessions, items and rows:    *)
(* types and what a verified range vouches for whatever the writers do,    *)
(* the chain and the trace of updates when every writer is in a            *)
(* transaction.                                                            *)
(*                                                                         *)
(* The argument: only the holder of the advisory lock has a number, a hash *)
(* it has read or rows of its own, and its rows come after all committed   *)
(* ones.  So its rows continue the chain it sees, and stay its only        *)
(* continuation until it commits.                                          *)
(***************************************************************************)
EXTENDS AuditChain, FiniteSetTheorems, TLAPS

Chained(S) ==
    \A r \in S : Precedes(S, r.seq, r.prev) /\ r.hash = Hash(r.body, r.seq, r.prev)

\* h is the hash the next row must point to.
LastHash(S, h) ==
    \/ S = {} /\ h = Genesis
    \/ \E q \in S : h = q.hash /\ \A p \in S : p.seq <= q.seq

Numbered(S) == \A r \in S : r.seq \in Nat /\ r.seq <= drawn
HasNumber(w) == txn[w].at = "insert" \/ (txn[w].at = "last" /\ txn[w].body = Event)
HasHash(w) == txn[w].at = "insert" \/ (txn[w].at = "seq" /\ txn[w].body # Event)

\* What holds of one session.
Session(w) ==
    /\ Numbered(txn[w].rows)
    /\ (txn[w].at \in {"seq", "last", "insert"} \/ txn[w].rows # {}) => holder = {w}
    /\ \A r \in txn[w].rows, q \in log : q.seq < r.seq
    /\ HasNumber(w) =>
          txn[w].seq \in Nat /\ txn[w].seq <= drawn /\ \A q \in Seen(w) : q.seq < txn[w].seq
    /\ Intact =>
          Chained(Seen(w)) /\ (HasHash(w) => LastHash(Seen(w), txn[w].prev))

ChainInv ==
    /\ drawn \in Nat
    /\ Numbered(log)
    /\ DOMAIN txn = Writers
    /\ Intact => Chained(log)
    /\ \A w \in Writers : Session(w)

-----------------------------------------------------------------------------
\* A row numbered after all others leaves their predecessors as they are.
LEMMA AppendKeeps ==
    ASSUME NEW S, NEW n, n.seq \in Nat,
           \A q \in S : q.seq \in Nat /\ q.seq < n.seq,
           Chained(S), LastHash(S, n.prev), n.hash = Hash(n.body, n.seq, n.prev)
    PROVE  Chained(S \cup {n})
<1> DEFINE T == S \cup {n}
<1>1. ASSUME NEW r \in S PROVE Precedes(T, r.seq, r.prev) /\ r.hash = Hash(r.body, r.seq, r.prev)
  <2>1. Precedes(S, r.seq, r.prev) /\ r.hash = Hash(r.body, r.seq, r.prev)  BY <1>1 DEF Chained
  <2>2. CASE (\A q \in S : q.seq >= r.seq) /\ r.prev = Genesis
    <3>1. \A q \in T : q.seq >= r.seq  BY <2>2, <1>1
    <3>2. QED  BY <3>1, <2>1, <2>2 DEF Precedes
  <2>3. CASE \E q \in S : /\ q.seq < r.seq /\ r.prev = q.hash
                          /\ \A p \in S : p.seq < r.seq => p.seq <= q.seq
    <3>1. PICK q \in S : /\ q.seq < r.seq /\ r.prev = q.hash
                         /\ \A p \in S : p.seq < r.seq => p.seq <= q.seq
      BY <2>3
    <3>2. \A p \in T : p.seq < r.seq => p.seq <= q.seq  BY <3>1, <1>1
    <3>3. QED  BY <3>1, <3>2, <2>1 DEF Precedes
  <2>4. QED  BY <2>1, <2>2, <2>3 DEF Precedes
<1>2. Precedes(T, n.seq, n.prev)
  <2>1. CASE S = {} /\ n.prev = Genesis
    <3>1. \A q \in T : q.seq >= n.seq  BY <2>1
    <3>2. QED  BY <3>1, <2>1 DEF Precedes
  <2>2. CASE \E q \in S : n.prev = q.hash /\ \A p \in S : p.seq <= q.seq
    <3>1. PICK q \in S : n.prev = q.hash /\ \A p \in S : p.seq <= q.seq  BY <2>2
    <3>2. \A p \in T : p.seq < n.seq => p.seq <= q.seq  BY <3>1
    <3>3. QED  BY <3>1, <3>2 DEF Precedes
  <2>3. QED  BY <2>1, <2>2 DEF LastHash
<1>3. QED  BY <1>1, <1>2 DEF Chained

\* A chain verifies in every range.
LEMMA ChainedVerifies ==
    ASSUME NEW S, Chained(S) PROVE \A from, to \in 0..MaxSeq : Verifies(S, from, to)
BY DEF Chained, Verifies

LEMMA InitChain == Init => ChainInv
<1> SUFFICES ASSUME Init PROVE ChainInv  OBVIOUS
<1>1. log = {} /\ drawn = 0 /\ txn = [w \in Writers |-> NoTxn]  BY DEF Init
<1>2. ASSUME NEW w \in Writers PROVE Session(w)
  <2>1. txn[w] = NoTxn /\ txn[w].at = "idle" /\ txn[w].rows = {}  BY <1>1 DEF NoTxn
  <2>2. Seen(w) = {}  BY <2>1, <1>1 DEF Seen
  <2>3. QED  BY <2>1, <2>2, <1>1 DEF Session, Numbered, HasNumber, HasHash, Chained
<1>3. QED  BY <1>1, <1>2 DEF ChainInv, Numbered, Chained

-----------------------------------------------------------------------------
\* A session that does nothing, in a step where the log stays and numbers are
\* drawn or the lock is passed on by a session that had it, stays as it is.
LEMMA OthersStay ==
    ASSUME NEW v, Session(v), drawn \in Nat, drawn' \in Nat, drawn' >= drawn,
           txn'[v] = txn[v], log' = log, altered' = altered,
           holder = {v} => holder' = {v}
    PROVE  Session(v)'
<1>1. Seen(v)' = Seen(v)  BY DEF Seen
<1>2. HasNumber(v)' = HasNumber(v) /\ HasHash(v)' = HasHash(v)  BY DEF HasNumber, HasHash
<1>3. Numbered(txn[v].rows)'  BY DEF Session, Numbered
<1>4. Chained(Seen(v)') = Chained(Seen(v))  BY <1>1
<1>5. QED  BY <1>1, <1>2, <1>3, <1>4 DEF Session, Intact

\* Under the lock no other session has rows, a number or a hash.
LEMMA HolderAlone ==
    ASSUME NEW v, NEW w, v # w, Session(v), holder \subseteq {w}
    PROVE  txn[v].rows = {} /\ txn[v].at \notin {"seq", "last", "insert"}
BY DEF Session

LEMMA BeginKeeps ==
    ASSUME ChainInv, NEW w \in Writers, NEW b \in Bodies, Begin(w, b) PROVE ChainInv'
<1> DEFINE t == [txn[w] EXCEPT !.at = "lock", !.body = b,
                   !.updates = [i \in Items |-> IF i = b THEN @[i] + 1 ELSE @[i]]]
<1>0. txn' = [txn EXCEPT ![w] = t] /\ UNCHANGED <<log, drawn, holder, version, altered>>
  BY DEF Begin, Sets
<1>1. txn'[w] = t /\ DOMAIN txn' = Writers
  <2>1. HIDE DEF t
  <2>2. QED  BY <1>0 DEF ChainInv
<1>2. ASSUME NEW v \in Writers, v # w PROVE Session(v)'
  <2>1. txn'[v] = txn[v]
    <3>1. HIDE DEF t
    <3>2. QED  BY <1>0, <1>2
  <2>2. UNCHANGED <<log, drawn, holder, version, altered>>  BY <1>0
  <2>3. QED  BY <2>1, <2>2, OthersStay DEF ChainInv
<1>3. txn'[w].at = "lock" /\ txn'[w].rows = txn[w].rows
  BY <1>1
<1>4. Session(w)'
  <2>1. Seen(w)' = Seen(w)  BY <1>3, <1>0 DEF Seen
  <2>2. ~HasNumber(w)' /\ ~HasHash(w)'  BY <1>3 DEF HasNumber, HasHash
  <2>3. QED  BY <2>1, <2>2, <1>3, <1>0 DEF Session, ChainInv, Numbered, Chained, Intact
<1>5. QED  BY <1>0, <1>1, <1>2, <1>4 DEF ChainInv, Numbered, Chained, Intact

LEMMA LockKeeps ==
    ASSUME ChainInv, Autocommit = {}, NEW w \in Writers, Lock(w) PROVE ChainInv'
<1> DEFINE t == [txn[w] EXCEPT !.at = AfterLock(txn[w].body)]
<1>0. txn' = [txn EXCEPT ![w] = t] /\ holder \subseteq {w} /\ holder' = {w}
      /\ UNCHANGED <<log, drawn, version, altered>> /\ txn[w].at = "lock"
  BY DEF Lock, Goes, Sets
<1>1. txn'[w] = t /\ DOMAIN txn' = Writers  BY <1>0 DEF ChainInv
<1>2. ASSUME NEW v \in Writers, v # w PROVE Session(v)'
  <2>1. holder # {v}  BY <1>0, <1>2
  <2>2. txn'[v] = txn[v]  BY <1>0, <1>2
  <2>3. QED  BY <1>0, <2>1, <2>2, OthersStay DEF ChainInv
<1>3. /\ txn'[w].at = AfterLock(txn[w].body) /\ txn'[w].body = txn[w].body
      /\ txn'[w].rows = txn[w].rows
  BY <1>1
<1>4. Session(w)'
  <2>1. Seen(w)' = Seen(w)  BY <1>3, <1>0 DEF Seen
  <2>2. ~HasNumber(w)' /\ ~HasHash(w)'  BY <1>3 DEF HasNumber, HasHash, AfterLock
  <2>3. QED  BY <2>1, <2>2, <1>3, <1>0 DEF Session, ChainInv, Numbered, Chained, Intact
<1>5. QED  BY <1>0, <1>1, <1>2, <1>4 DEF ChainInv, Numbered, Chained, Intact

LEMMA DrawKeeps ==
    ASSUME ChainInv, NEW w \in Writers, Draw(w) PROVE ChainInv'
<1> DEFINE t == [txn[w] EXCEPT !.at = AfterSeq(txn[w].body), !.seq = drawn + 1]
<1>0. txn' = [txn EXCEPT ![w] = t] /\ drawn' = drawn + 1 /\ txn[w].at = "seq"
      /\ UNCHANGED <<log, holder, version, altered>>
  BY DEF Draw, Sets
<1>1. txn'[w] = t /\ DOMAIN txn' = Writers  BY <1>0 DEF ChainInv
<1>n. drawn \in Nat /\ drawn' \in Nat /\ drawn' >= drawn  BY <1>0 DEF ChainInv
<1>2. ASSUME NEW v \in Writers, v # w PROVE Session(v)'
  <2>2. txn'[v] = txn[v]  BY <1>0, <1>2
  <2>3. QED  BY <1>0, <1>n, <2>2, OthersStay DEF ChainInv
<1>3. /\ txn'[w].at = AfterSeq(txn[w].body) /\ txn'[w].body = txn[w].body
      /\ txn'[w].rows = txn[w].rows /\ txn'[w].seq = drawn + 1 /\ txn'[w].prev = txn[w].prev
  BY <1>1
<1>4. Session(w)'
  <2>1. Seen(w)' = Seen(w)  BY <1>3, <1>0 DEF Seen
  <2>2. \A q \in Seen(w) : q.seq \in Nat /\ q.seq <= drawn
    BY DEF Seen, ChainInv, Session, Numbered
  <2>3. \A q \in Seen(w)' : q.seq < txn'[w].seq  BY <2>1, <2>2, <1>3, <1>n
  <2>4. txn'[w].seq \in Nat /\ txn'[w].seq <= drawn'  BY <1>0, <1>3, <1>n
  <2>5. Numbered(txn[w].rows)'  BY <1>3, <1>0, <1>n DEF ChainInv, Session, Numbered
  <2>6. HasHash(w)' => HasHash(w)  BY <1>0, <1>3 DEF HasHash, AfterSeq
  <2>7. Intact' => Chained(Seen(w)') /\ (HasHash(w)' => LastHash(Seen(w)', txn'[w].prev))
    BY <2>1, <2>6, <1>0, <1>3 DEF ChainInv, Session, Intact
  <2>8. holder' = {w}  BY <1>0 DEF ChainInv, Session
  <2>9. \A r \in txn'[w].rows, q \in log' : q.seq < r.seq
    BY <1>0, <1>3 DEF ChainInv, Session
  <2>10. QED  BY <2>3, <2>4, <2>5, <2>7, <2>8, <2>9 DEF Session
<1>5. QED  BY <1>0, <1>1, <1>2, <1>4, <1>n DEF ChainInv, Numbered, Chained, Intact

LEMMA ReadLastKeeps ==
    ASSUME ChainInv, NEW w \in Writers, ReadLast(w) PROVE ChainInv'
<1> DEFINE t(h) == [txn[w] EXCEPT !.at = AfterLast(txn[w].body), !.prev = h]
<1>0. PICK h : txn' = [txn EXCEPT ![w] = t(h)] /\ LastHash(Seen(w), h)
  BY DEF ReadLast, LastHash, Sets
<1>u. UNCHANGED <<log, drawn, holder, version, altered>> /\ txn[w].at = "last"
  BY DEF ReadLast
<1>1. txn'[w] = t(h) /\ DOMAIN txn' = Writers  BY <1>0 DEF ChainInv
<1>2. ASSUME NEW v \in Writers, v # w PROVE Session(v)'
  <2>2. txn'[v] = txn[v]  BY <1>0, <1>2
  <2>3. QED  BY <1>u, <2>2, OthersStay DEF ChainInv
<1>3. /\ txn'[w].at = AfterLast(txn[w].body) /\ txn'[w].body = txn[w].body
      /\ txn'[w].rows = txn[w].rows /\ txn'[w].seq = txn[w].seq /\ txn'[w].prev = h
  BY <1>1
<1>4. Session(w)'
  <2>1. Seen(w)' = Seen(w)  BY <1>3, <1>u DEF Seen
  <2>2. HasNumber(w)' => HasNumber(w)  BY <1>u, <1>3 DEF HasNumber, AfterLast
  <2>3. LastHash(Seen(w)', txn'[w].prev)  BY <1>0, <2>1, <1>3
  <2>4. holder' = {w}  BY <1>u DEF ChainInv, Session
  <2>5. Numbered(txn[w].rows)'  BY <1>3, <1>u DEF ChainInv, Session, Numbered
  <2>6. \A r \in txn'[w].rows, q \in log' : q.seq < r.seq
    BY <1>u, <1>3 DEF ChainInv, Session
  <2>7. Intact' => Chained(Seen(w)')  BY <2>1, <1>u DEF ChainInv, Session, Intact
  <2>8. HasNumber(w)' => /\ txn'[w].seq \in Nat /\ txn'[w].seq <= drawn'
                         /\ \A q \in Seen(w)' : q.seq < txn'[w].seq
    BY <2>1, <2>2, <1>u, <1>3 DEF ChainInv, Session
  <2>10. QED  BY <2>3, <2>4, <2>5, <2>6, <2>7, <2>8 DEF Session
<1>5. QED  BY <1>u, <1>1, <1>2, <1>4 DEF ChainInv, Numbered, Chained, Intact

LEMMA InsertKeeps ==
    ASSUME ChainInv, Autocommit = {}, NEW w \in Writers, Insert(w) PROVE ChainInv'
<1> DEFINE n == NewRow(w)
           t == Between(w, txn[w].rows \cup {n})
<1>0. txn' = [txn EXCEPT ![w] = t] /\ txn[w].at = "insert"
      /\ UNCHANGED <<log, drawn, holder, version, altered>>
  BY DEF Insert, Sets
<1>1. txn'[w] = t /\ DOMAIN txn' = Writers  BY <1>0 DEF ChainInv
<1>2. ASSUME NEW v \in Writers, v # w PROVE Session(v)'
  <2>2. txn'[v] = txn[v]  BY <1>0, <1>2
  <2>3. QED  BY <1>0, <2>2, OthersStay DEF ChainInv
<1>3. txn'[w].at = "idle" /\ txn'[w].rows = txn[w].rows \cup {n}
  BY <1>1 DEF Between, NoTxn
<1>n. /\ n.seq = txn[w].seq /\ n.prev = txn[w].prev /\ n.body = txn[w].body
      /\ n.hash = Hash(n.body, n.seq, n.prev)
  BY DEF NewRow, Row
<1>s. Session(w) /\ HasNumber(w) /\ HasHash(w)  BY <1>0 DEF ChainInv, HasNumber, HasHash
<1>p. n.seq \in Nat /\ n.seq <= drawn /\ \A q \in Seen(w) : q.seq < n.seq
  BY <1>s, <1>n DEF Session
<1>4. Session(w)'
  <2>1. Seen(w)' = Seen(w) \cup {n}  BY <1>3, <1>0 DEF Seen
  <2>2. \A q \in Seen(w) : q.seq \in Nat  BY DEF Seen, ChainInv, Session, Numbered
  <2>3. Intact' => Chained(Seen(w)')
    <3>1. SUFFICES ASSUME Intact PROVE Chained(Seen(w) \cup {n})  BY <1>0, <2>1 DEF Intact
    <3>2. Chained(Seen(w)) /\ LastHash(Seen(w), n.prev)  BY <3>1, <1>s, <1>n DEF Session
    <3>3. HIDE DEF n
    <3>4. QED  BY <3>2, <2>2, <1>p, <1>n, AppendKeeps
  <2>4. holder' = {w}  BY <1>0, <1>s DEF Session
  <2>5. Numbered(txn[w].rows)'  BY <1>3, <1>0, <1>p, <1>s DEF Session, Numbered
  <2>6. \A r \in txn'[w].rows, q \in log' : q.seq < r.seq
    BY <1>0, <1>3, <1>p, <1>s DEF Session, Seen
  <2>7. ~HasNumber(w)' /\ ~HasHash(w)'  BY <1>3 DEF HasNumber, HasHash
  <2>8. QED  BY <2>3, <2>4, <2>5, <2>6, <2>7 DEF Session
<1>5. QED  BY <1>0, <1>1, <1>2, <1>4 DEF ChainInv, Numbered, Chained, Intact

\* A session that ends gives up the lock, which no other one held.
LEMMA EndKeepsOthers ==
    ASSUME ChainInv, NEW w \in Writers, NEW v \in Writers, v # w,
           txn'[v] = txn[v], holder' = holder \ {w},
           UNCHANGED <<log, drawn, altered>>
    PROVE  Session(v)'
<1>1. holder = {v} => holder' = {v}  OBVIOUS
<1>2. QED  BY <1>1, OthersStay DEF ChainInv

LEMMA RollbackKeeps ==
    ASSUME ChainInv, NEW w \in Writers, Rollback(w) PROVE ChainInv'
<1>0. txn' = [txn EXCEPT ![w] = NoTxn] /\ holder' = holder \ {w}
      /\ UNCHANGED <<log, drawn, version, altered>>
  BY DEF Rollback, Sets
<1>1. txn'[w] = NoTxn /\ DOMAIN txn' = Writers  BY <1>0 DEF ChainInv
<1>2. ASSUME NEW v \in Writers, v # w PROVE Session(v)'
  <2>1. txn'[v] = txn[v]  BY <1>0, <1>2
  <2>2. QED  BY <1>0, <1>2, <2>1, EndKeepsOthers
<1>4. Session(w)'
  <2>1. txn'[w].at = "idle" /\ txn'[w].rows = {}  BY <1>1 DEF NoTxn
  <2>2. Seen(w)' = log  BY <2>1, <1>0 DEF Seen
  <2>3. Intact' => Chained(Seen(w)')  BY <2>2, <1>0 DEF ChainInv, Intact
  <2>4. QED  BY <2>1, <2>3 DEF Session, Numbered, HasNumber, HasHash
<1>5. QED  BY <1>0, <1>1, <1>2, <1>4 DEF ChainInv, Numbered, Chained, Intact

LEMMA CommitKeeps ==
    ASSUME ChainInv, NEW w \in Writers, Commit(w) PROVE ChainInv'
<1>0. /\ txn' = [txn EXCEPT ![w] = NoTxn] /\ holder' = holder \ {w}
      /\ log' = Seen(w) /\ txn[w].rows # {}
      /\ UNCHANGED <<drawn, altered>>
  BY DEF Commit, Sets, Seen
<1>h. holder = {w} /\ Session(w)  BY <1>0 DEF ChainInv, Session
<1>1. txn'[w] = NoTxn /\ DOMAIN txn' = Writers  BY <1>0 DEF ChainInv
<1>n. Numbered(log)' /\ drawn' \in Nat
  BY <1>0, <1>h DEF ChainInv, Session, Numbered, Seen
<1>c. Intact' => Chained(log')  BY <1>0, <1>h DEF Session, Intact
<1>2. ASSUME NEW v \in Writers PROVE Session(v)'
  <2>1. txn'[v].rows = {} /\ txn'[v].at \notin {"seq", "last", "insert"}
    <3>1. CASE v = w  BY <1>1, <3>1 DEF NoTxn
    <3>2. CASE v # w
      <4>1. txn'[v] = txn[v]  BY <1>0, <3>2
      <4>2. QED  BY <4>1, <3>2, <1>h, HolderAlone DEF ChainInv
    <3>3. QED  BY <3>1, <3>2
  <2>2. Seen(v)' = log'  BY <2>1 DEF Seen
  <2>3. QED  BY <2>1, <2>2, <1>c DEF Session, Numbered, HasNumber, HasHash
<1>5. QED  BY <1>1, <1>n, <1>c, <1>2 DEF ChainInv

\* A log whose rows have the same numbers and digests is the same chain.
LEMMA TwinChain ==
    ASSUME NEW S, NEW T,
           \A p \in T : \E o \in S : o.seq = p.seq /\ Digested(o) = Digested(p),
           \A o \in S : \E p \in T : o.seq = p.seq /\ Digested(o) = Digested(p)
    PROVE  /\ Chained(S) => Chained(T)
           /\ \A h : LastHash(S, h) => LastHash(T, h)
<1> DEFINE Same(o, p) == o.seq = p.seq /\ o.body = p.body /\ o.prev = p.prev /\ o.hash = p.hash
<1>1. \A p \in T : \E o \in S : Same(o, p)  BY DEF Digested
<1>2. \A o \in S : \E p \in T : Same(o, p)  BY DEF Digested
<1>3. ASSUME Chained(S), NEW p \in T
      PROVE  Precedes(T, p.seq, p.prev) /\ p.hash = Hash(p.body, p.seq, p.prev)
  <2>1. PICK o \in S : Same(o, p)  BY <1>1
  <2>2. Precedes(S, p.seq, p.prev) /\ p.hash = Hash(p.body, p.seq, p.prev)
    BY <1>3, <2>1 DEF Chained
  <2>3. CASE (\A q \in S : q.seq >= p.seq) /\ p.prev = Genesis
    <3>1. \A q \in T : q.seq >= p.seq  BY <1>1, <2>3
    <3>2. QED  BY <2>2, <2>3, <3>1 DEF Precedes
  <2>4. CASE \E q \in S : /\ q.seq < p.seq /\ p.prev = q.hash
                          /\ \A r \in S : r.seq < p.seq => r.seq <= q.seq
    <3>1. PICK q \in S : /\ q.seq < p.seq /\ p.prev = q.hash
                         /\ \A r \in S : r.seq < p.seq => r.seq <= q.seq
      BY <2>4
    <3>2. PICK t \in T : Same(q, t)  BY <1>2
    <3>3. \A r \in T : r.seq < p.seq => r.seq <= t.seq  BY <1>1, <3>1, <3>2
    <3>4. QED  BY <2>2, <3>1, <3>2, <3>3 DEF Precedes
  <2>5. QED  BY <2>2, <2>3, <2>4 DEF Precedes
<1>4. ASSUME NEW h, LastHash(S, h) PROVE LastHash(T, h)
  <2>1. CASE S = {} /\ h = Genesis
    <3>1. T = {}  BY <1>1, <2>1
    <3>2. QED  BY <2>1, <3>1 DEF LastHash
  <2>2. CASE \E q \in S : h = q.hash /\ \A p \in S : p.seq <= q.seq
    <3>1. PICK q \in S : h = q.hash /\ \A p \in S : p.seq <= q.seq  BY <2>2
    <3>2. PICK t \in T : Same(q, t)  BY <1>2
    <3>3. \A p \in T : p.seq <= t.seq  BY <1>1, <3>1, <3>2
    <3>4. QED  BY <3>1, <3>2, <3>3 DEF LastHash
  <2>3. QED  BY <1>4, <2>1, <2>2 DEF LastHash
<1>5. QED  BY <1>3, <1>4 DEF Chained

\* An alteration keeps the number; outside the digest it keeps the chain.
LEMMA AlterKeeps ==
    ASSUME ChainInv, Alter PROVE ChainInv'
<1>0. PICK r \in log : \E q \in Alterations(r) :
         log' = (log \ {r}) \cup {q} /\ altered' = {[was |-> r, now |-> q]}
  BY DEF Alter
<1>1. PICK q \in Alterations(r) :
         log' = (log \ {r}) \cup {q} /\ altered' = {[was |-> r, now |-> q]}
  BY <1>0
<1>u. UNCHANGED <<drawn, holder, txn, version>>  BY DEF Alter
<1>2. q.seq = r.seq  BY DEF Alterations, Changed
<1>3. \A p \in log' : \E o \in log : p.seq = o.seq  BY <1>1, <1>2
<1>4. Intact  BY DEF Alter, Intact
<1>5. Numbered(log)'  BY <1>3, <1>u DEF ChainInv, Numbered
<1>6. Intact' => Digested(q) = Digested(r)
  <2>1. SUFFICES ASSUME Intact' PROVE Digested(q) = Digested(r)  OBVIOUS
  <2>2. [was |-> r, now |-> q] \in altered'  BY <1>1
  <2>3. \A a \in altered' : Digested(a.now) = Digested(a.was)  BY <2>1 DEF Intact, Digested
  <2>4. Digested([was |-> r, now |-> q].now) = Digested([was |-> r, now |-> q].was)
    BY <2>2, <2>3
  <2>5. QED  BY <2>4 DEF Digested
<1>7. ASSUME Intact', NEW rows PROVE
         /\ Chained(log \cup rows) => Chained(log' \cup rows)
         /\ \A h : LastHash(log \cup rows, h) => LastHash(log' \cup rows, h)
  <2> DEFINE S == log \cup rows  T == log' \cup rows
  <2>1. Digested(q) = Digested(r)  BY <1>6, <1>7
  <2>2. \A p \in T : \E o \in S : o.seq = p.seq /\ Digested(o) = Digested(p)
    BY <1>1, <1>2, <2>1
  <2>3. \A o \in S : \E p \in T : o.seq = p.seq /\ Digested(o) = Digested(p)
    BY <1>1, <1>2, <2>1
  <2> HIDE DEF S, T
  <2>4. (Chained(S) => Chained(T)) /\ \A h : LastHash(S, h) => LastHash(T, h)
    BY <2>2, <2>3, TwinChain
  <2>5. QED  BY <2>4 DEF S, T
<1>8. Intact' => Chained(log')
  <2>1. Chained(log \cup {})  BY <1>4 DEF ChainInv, Chained
  <2>2. Intact' => Chained(log' \cup {})  BY <1>7, <2>1
  <2>3. log' \cup {} = log'  OBVIOUS
  <2>4. QED  BY <2>2, <2>3
<1>9. ASSUME NEW v \in Writers PROVE Session(v)'
  <2>1. Session(v) /\ txn'[v] = txn[v]  BY <1>u DEF ChainInv
  <2>2. Numbered(txn[v].rows)'  BY <2>1, <1>u DEF Session, Numbered
  <2>3. \A p \in Seen(v)' : \E o \in Seen(v) : p.seq = o.seq  BY <1>3, <2>1 DEF Seen
  <2>4. HasNumber(v)' = HasNumber(v) /\ HasHash(v)' = HasHash(v)
    BY <2>1 DEF HasNumber, HasHash
  <2>5. HasNumber(v)' => /\ txn'[v].seq \in Nat /\ txn'[v].seq <= drawn'
                         /\ \A p \in Seen(v)' : p.seq < txn'[v].seq
    BY <2>1, <2>3, <2>4, <1>u DEF Session
  <2>6. \A p \in txn'[v].rows, o \in log' : o.seq < p.seq  BY <2>1, <1>3 DEF Session
  <2>7. Intact' => Chained(Seen(v)') /\ (HasHash(v)' => LastHash(Seen(v)', txn'[v].prev))
    <3>1. Seen(v) = log \cup txn[v].rows /\ Seen(v)' = log' \cup txn[v].rows
      BY <2>1 DEF Seen
    <3>2. Chained(Seen(v)) /\ (HasHash(v) => LastHash(Seen(v), txn[v].prev))
      BY <2>1, <1>4 DEF Session
    <3>3. QED  BY <3>1, <3>2, <2>1, <2>4, <1>7
  <2>8. QED  BY <2>1, <2>2, <2>4, <2>5, <2>6, <2>7, <1>u DEF Session
<1>10. QED  BY <1>5, <1>8, <1>9, <1>u DEF ChainInv

LEMMA NextChain ==
    ASSUME ChainInv, Autocommit = {}, [Next]_vars PROVE ChainInv'
<1>1. ASSUME NEW w \in Writers, Write(w) PROVE ChainInv'
  BY <1>1, LockKeeps, DrawKeeps, ReadLastKeeps, InsertKeeps, CommitKeeps, RollbackKeeps
  DEF Write
<1>2. CASE UNCHANGED vars
  <2>1. \A v \in Writers : Seen(v)' = Seen(v) /\ HasNumber(v)' = HasNumber(v)
                             /\ HasHash(v)' = HasHash(v)
    BY <1>2 DEF vars, Seen, HasNumber, HasHash
  <2>2. \A v \in Writers : Session(v)'
    BY <2>1, <1>2 DEF ChainInv, Session, Numbered, vars, Chained, Intact
  <2>3. QED  BY <2>2, <1>2 DEF ChainInv, Numbered, vars, Chained, Intact
<1>3. QED  BY <1>1, <1>2, BeginKeeps, AlterKeeps DEF Next

\* Without sessions in autocommit, every range of an untouched log verifies:
\* the advisory lock (logger.py:133, fn_dict_write_audit) is enough.
THEOREM ChainAlwaysVerifies == 
    ASSUME Autocommit = {} PROVE Spec => []ChainVerifies
<1>1. ChainInv => ChainVerifies
  BY ChainedVerifies DEF ChainInv, ChainVerifies
<1>2. Init => ChainInv  BY InitChain
<1>3. ChainInv /\ [Next]_vars => ChainInv'  BY NextChain
<1>4. QED  BY <1>1, <1>2, <1>3, PTL DEF Spec

\* Committed rows stay, and new ones come after them.
THEOREM LogGrowsAtTheEnd == 
    ASSUME Autocommit = {} PROVE Spec => GrowsAtTheEnd
<1> DEFINE Grows == altered' = altered =>
          log \subseteq log' /\ \A r \in log' \ log, q \in log : q.seq < r.seq
<1>1. ASSUME ChainInv, [Next]_vars PROVE Grows
  <2>1. SUFFICES ASSUME altered' = altered PROVE log \subseteq log' /\
                    \A r \in log' \ log, q \in log : q.seq < r.seq
    OBVIOUS
  <2>2. CASE log' = log  BY <2>2
  <2>3. ASSUME NEW w \in Writers, Commit(w)
        PROVE log \subseteq log' /\ \A r \in log' \ log, q \in log : q.seq < r.seq
    <3>1. log' = log \cup txn[w].rows /\ Session(w)  BY <1>1, <2>3 DEF Commit, ChainInv
    <3>2. QED  BY <3>1 DEF Session
  <2>4. ~Alter
    <3>1. SUFFICES ASSUME Alter PROVE FALSE  OBVIOUS
    <3>2. altered = {} /\ altered' # {}  BY <3>1 DEF Alter
    <3>3. QED  BY <3>2, <2>1
  <2>5. ASSUME NEW w \in Writers, Write(w), ~Commit(w) PROVE log' = log
    BY <2>5 DEF Write, Lock, Draw, ReadLast, Insert, Rollback
  <2>6. ASSUME NEW w \in Writers, NEW b \in Bodies, Begin(w, b) PROVE log' = log
    BY <2>6 DEF Begin
  <2>7. UNCHANGED vars => log' = log  BY DEF vars
  <2>8. QED  BY <1>1, <2>2, <2>3, <2>4, <2>5, <2>6, <2>7 DEF Next
<1>2. Init => ChainInv  BY InitChain
<1>3. ChainInv /\ [Next]_vars => ChainInv'  BY NextChain
<1>4. ChainInv /\ [Next]_vars => [Grows]_vars  BY <1>1
<1>5. QED  BY <1>2, <1>3, <1>4, PTL DEF Spec, GrowsAtTheEnd

-----------------------------------------------------------------------------
(* Types. *)

TxnTyped(t) ==
    /\ t.at \in Ats /\ t.body \in Bodies /\ t.seq \in 0..MaxSeq
    /\ t.updates \in [Items -> Nat]
    /\ \A r \in t.rows : IsRow(r)
    /\ (t.at = "insert" \/ (t.at = "last" /\ t.body = Event)) => t.seq >= 1

TypeInv ==
    /\ \A r \in log : IsRow(r)
    /\ drawn \in 0..MaxSeq
    /\ holder = {} \/ \E w \in Writers : holder = {w}
    /\ DOMAIN txn = Writers /\ \A w \in Writers : TxnTyped(txn[w])
    /\ version \in [Items -> Nat]
    /\ \A a \in altered : IsRow(a.was) /\ IsRow(a.now)

LEMMA TypeInvOK == TypeInv => TypeOK
<1> SUFFICES ASSUME TypeInv PROVE TypeOK  OBVIOUS
<1>1. holder \subseteq Writers /\ Cardinality(holder) <= 1
  <2>1. CASE holder = {}
    <3>1. Cardinality(holder) = 0  BY <2>1, FS_EmptySet
    <3>2. QED  BY <2>1, <3>1
  <2>2. ASSUME NEW w \in Writers, holder = {w} PROVE holder \subseteq Writers /\ Cardinality(holder) <= 1
    <3>1. Cardinality(holder) = 1  BY <2>2, FS_Singleton
    <3>2. QED  BY <2>2, <3>1
  <2>3. QED  BY <2>1, <2>2 DEF TypeInv
<1>2. QED  BY <1>1 DEF TypeInv, TypeOK, TxnTyped

\* A step of one session, whose transaction stays typed.
LEMMA SessionTyped ==
    ASSUME TypeInv, NEW w \in Writers, NEW t, TxnTyped(t), Sets(w, t)
    PROVE  DOMAIN txn' = Writers /\ \A v \in Writers : TxnTyped(txn'[v])
BY DEF TypeInv, Sets

LEMMA NoTxnTyped == TxnTyped(NoTxn)
BY MaxSeqAssumption DEF TxnTyped, NoTxn, Ats, Bodies

LEMMA NextTypes == TypeInv /\ [Next]_vars => TypeInv'
<1> SUFFICES ASSUME TypeInv, [Next]_vars PROVE TypeInv'  OBVIOUS
<1> USE MaxSeqAssumption
<1>r. ASSUME NEW w \in Writers, txn[w].at = "insert" PROVE IsRow(NewRow(w))
  <2>1. txn[w].seq \in 1..MaxSeq /\ txn[w].body \in Bodies  BY <1>r DEF TypeInv, TxnTyped
  <2>2. /\ NewRow(w).seq = txn[w].seq /\ NewRow(w).body = txn[w].body
        /\ NewRow(w).other = "written"
    BY DEF NewRow, Row
  <2>3. QED  BY <2>1, <2>2 DEF IsRow, Others
<1>h. ASSUME NEW w \in Writers PROVE holder \ {w} = {} \/ \E v \in Writers : holder \ {w} = {v}
  BY DEF TypeInv
<1>1. ASSUME NEW w \in Writers, NEW b \in Bodies, Begin(w, b) PROVE TypeInv'
  <2> DEFINE u == [i \in Items |-> IF i = b THEN txn[w].updates[i] + 1 ELSE txn[w].updates[i]]
             t == [txn[w] EXCEPT !.at = "lock", !.body = b, !.updates = u]
  <2>1. Sets(w, t) /\ UNCHANGED <<log, drawn, holder, version, altered>>
    BY <1>1 DEF Begin
  <2>2. u \in [Items -> Nat]  BY DEF TypeInv, TxnTyped
  <2>3. TxnTyped(t)
    <3>1. HIDE DEF u
    <3>2. QED  BY <2>2 DEF TypeInv, TxnTyped, Ats
  <2>4. HIDE DEF t
  <2>5. QED  BY <2>1, <2>3, SessionTyped DEF TypeInv
<1>2. ASSUME NEW w \in Writers, Lock(w) PROVE TypeInv'
  <2> DEFINE t == [txn[w] EXCEPT !.at = AfterLock(txn[w].body)]
  <2>1. /\ Sets(w, t) /\ UNCHANGED <<log, drawn, version, altered>>
        /\ holder' = {} \/ holder' = {w}
    BY <1>2 DEF Lock, Goes
  <2>2. TxnTyped(t)  BY DEF TypeInv, TxnTyped, Ats, AfterLock
  <2>3. HIDE DEF t
  <2>4. QED  BY <2>1, <2>2, SessionTyped DEF TypeInv
<1>3. ASSUME NEW w \in Writers, Draw(w) PROVE TypeInv'
  <2> DEFINE t == [txn[w] EXCEPT !.at = AfterSeq(txn[w].body), !.seq = drawn + 1]
  <2>1. Sets(w, t) /\ UNCHANGED <<log, holder, version, altered>> /\ drawn' = drawn + 1
        /\ drawn' \in 1..MaxSeq
    BY <1>3 DEF Draw, TypeInv
  <2>2. TxnTyped(t)  BY <2>1 DEF TypeInv, TxnTyped, Ats, AfterSeq
  <2>3. HIDE DEF t
  <2>4. QED  BY <2>1, <2>2, SessionTyped DEF TypeInv
<1>4. ASSUME NEW w \in Writers, ReadLast(w) PROVE TypeInv'
  <2> DEFINE t(h) == [txn[w] EXCEPT !.at = AfterLast(txn[w].body), !.prev = h]
  <2>1. PICK h : Sets(w, t(h))  BY <1>4 DEF ReadLast
  <2>2. UNCHANGED <<log, drawn, holder, version, altered>> /\ txn[w].at = "last"
    BY <1>4 DEF ReadLast
  <2>3. TxnTyped(t(h))  BY <2>2 DEF TypeInv, TxnTyped, Ats, AfterLast
  <2>4. HIDE DEF t
  <2>5. QED  BY <2>1, <2>2, <2>3, SessionTyped DEF TypeInv
<1>5. ASSUME NEW w \in Writers, Insert(w) PROVE TypeInv'
  <2>1. IsRow(NewRow(w))  BY <1>5, <1>r DEF Insert
  <2>2. UNCHANGED <<drawn, holder, version, altered>>  BY <1>5 DEF Insert
  <2>3. CASE w \in Autocommit
    <3>1. log' = log \cup {NewRow(w)} /\ Sets(w, NoTxn)  BY <1>5, <2>3 DEF Insert
    <3>2. QED  BY <2>1, <2>2, <3>1, NoTxnTyped, SessionTyped DEF TypeInv
  <2>4. CASE w \notin Autocommit
    <3> DEFINE t == Between(w, txn[w].rows \cup {NewRow(w)})
    <3>1. Sets(w, t) /\ log' = log  BY <1>5, <2>4 DEF Insert
    <3>2. /\ t.at = "idle" /\ t.body = Event /\ t.seq = 0
          /\ t.rows = txn[w].rows \cup {NewRow(w)} /\ t.updates = txn[w].updates
      BY DEF Between, NoTxn
    <3>3. HIDE DEF t
    <3>4. TxnTyped(t)  BY <2>1, <3>2 DEF TypeInv, TxnTyped, Ats, Bodies
    <3>5. QED  BY <2>2, <3>1, <3>4, SessionTyped DEF TypeInv
  <2>5. QED  BY <2>3, <2>4
<1>6. ASSUME NEW w \in Writers, Commit(w) PROVE TypeInv'
  <2>1. /\ log' = log \cup txn[w].rows /\ holder' = holder \ {w} /\ Sets(w, NoTxn)
        /\ version' = [i \in Items |-> version[i] + txn[w].updates[i]]
        /\ UNCHANGED <<drawn, altered>>
    BY <1>6 DEF Commit
  <2>2. version' \in [Items -> Nat]  BY <2>1 DEF TypeInv, TxnTyped
  <2>3. \A r \in log' : IsRow(r)  BY <2>1 DEF TypeInv, TxnTyped
  <2>4. QED  BY <1>h, <2>1, <2>2, <2>3, NoTxnTyped, SessionTyped DEF TypeInv
<1>7. ASSUME NEW w \in Writers, Rollback(w) PROVE TypeInv'
  <2>1. Sets(w, NoTxn) /\ holder' = holder \ {w} /\ UNCHANGED <<log, drawn, version, altered>>
    BY <1>7 DEF Rollback
  <2>2. QED  BY <1>h, <2>1, NoTxnTyped, SessionTyped DEF TypeInv
<1>8. CASE Alter
  <2>1. PICK r \in log : \E q \in Alterations(r) :
           log' = (log \ {r}) \cup {q} /\ altered' = {[was |-> r, now |-> q]}
    BY <1>8 DEF Alter
  <2>q. PICK q \in Alterations(r) :
           log' = (log \ {r}) \cup {q} /\ altered' = {[was |-> r, now |-> q]}
    BY <2>1
  <2>2. IsRow(r) /\ IsRow(q)
    BY DEF Alterations, Changed, Others, IsRow, TypeInv
  <2>3. \A o \in log' : IsRow(o)  BY <2>q, <2>2 DEF TypeInv
  <2>4. \A a \in altered' : IsRow(a.was) /\ IsRow(a.now)
    <3>1. \A a \in altered' : a.was = r /\ a.now = q  BY <2>q
    <3>2. QED  BY <2>2, <3>1
  <2>5. QED  BY <2>3, <2>4, <1>8 DEF Alter, TypeInv
<1>9. CASE UNCHANGED vars  BY <1>9 DEF vars, TypeInv
<1>10. QED  BY <1>1, <1>2, <1>3, <1>4, <1>5, <1>6, <1>7, <1>8, <1>9 DEF Next, Write

\* The audit tables stay typed, autocommit or not.
THEOREM AuditTypes == Spec => []TypeOK
<1>1. Init => TypeInv
  <2> SUFFICES ASSUME Init PROVE TypeInv  OBVIOUS
  <2>1. \A w \in Writers : txn[w] = NoTxn  BY DEF Init
  <2>2. QED  BY <2>1, NoTxnTyped, MaxSeqAssumption DEF Init, TypeInv
<1>2. QED  BY <1>1, NextTypes, TypeInvOK, PTL DEF Spec

-----------------------------------------------------------------------------
(* What a range that verifies vouches for. *)

\* A row that carries the hash of its contents.
Computed(r) == r.hash = Hash(r.body, r.seq, r.prev)

\* The number a transaction has drawn for its next row, and all its numbers.
Pends(t) == t.at = "insert" \/ (t.at = "last" /\ t.body = Event)
Uses(t, n) == (\E r \in t.rows : r.seq = n) \/ (Pends(t) /\ t.seq = n)
Unique(S) == \A r, q \in S : r.seq = q.seq => r = q
Distinct(t) == Unique(t.rows) /\ (Pends(t) => \A r \in t.rows : r.seq # t.seq)

\* No number is used twice, with or without the lock.
NumberInv ==
    /\ Unique(log) /\ \A r \in log : r.seq <= drawn
    /\ \A w \in Writers :
          /\ Distinct(txn[w])
          /\ \A n \in Nat : Uses(txn[w], n) => n <= drawn /\ \A r \in log : r.seq # n
    /\ \A w, v \in Writers : w # v => \A n \in Nat : Uses(txn[w], n) => ~Uses(txn[v], n)

\* The changed row, one at most, is in the log; every other row carries the hash
\* of its contents.
AlterInv ==
    /\ \A a \in altered : a.now \in log /\ a.now.seq = a.was.seq /\ Computed(a.was)
    /\ \A a, b \in altered : a = b
    /\ \A r \in log : Computed(r) \/ \E a \in altered : r = a.now
    /\ \A w \in Writers : \A r \in txn[w].rows : Computed(r)

\* A step of one session: the numbers it takes are drawn by it, the rows it
\* commits are its own.
LEMMA SessionNumbers ==
    ASSUME NumberInv, DOMAIN txn = Writers, drawn \in Nat, drawn' \in Nat, drawn' >= drawn,
           NEW w \in Writers, NEW t, Sets(w, t), Distinct(t),
           \A n \in Nat : Uses(t, n) => Uses(txn[w], n) \/ (n > drawn /\ n <= drawn'),
           Unique(log'), \A r \in log' : r.seq \in Nat,
           \A r \in log' : r \in log \/ (Uses(txn[w], r.seq) /\ ~Uses(t, r.seq))
    PROVE  NumberInv'
<1>1. txn'[w] = t /\ \A v \in Writers : v # w => txn'[v] = txn[v]  BY DEF Sets
<1>2. \A r \in log' : r.seq <= drawn'
  <2>1. \A r \in log : r.seq <= drawn  BY DEF NumberInv
  <2>2. \A n \in Nat : Uses(txn[w], n) => n <= drawn  BY DEF NumberInv
  <2>3. QED  BY <2>1, <2>2
<1>3. ASSUME NEW v \in Writers
      PROVE  /\ Distinct(txn'[v])
             /\ \A n \in Nat : Uses(txn'[v], n) => n <= drawn' /\ \A r \in log' : r.seq # n
  <2>1. CASE v = w
    <3>1. txn'[v] = t  BY <1>1, <2>1
    <3>2. ASSUME NEW n \in Nat, Uses(t, n)
          PROVE  n <= drawn' /\ \A r \in log : r.seq # n
      <4>1. \A r \in log : r.seq <= drawn /\ r.seq \in Nat => r.seq # n \/ Uses(txn[w], n)
        BY <3>2
      <4>2. Uses(txn[w], n) => n <= drawn /\ \A r \in log : r.seq # n  BY DEF NumberInv
      <4>3. Uses(txn[w], n) \/ (n > drawn /\ n <= drawn')  BY <3>2
      <4>4. n > drawn => \A r \in log : r.seq # n  BY DEF NumberInv
      <4>5. QED  BY <4>2, <4>3, <4>4
    <3>3. ASSUME NEW n \in Nat, Uses(t, n), NEW r \in log' PROVE r.seq # n
      BY <3>2, <3>3
    <3>4. QED  BY <3>1, <3>2, <3>3
  <2>2. CASE v # w
    <3>1. txn'[v] = txn[v]  BY <1>1, <2>2
    <3>2. ASSUME NEW n \in Nat, Uses(txn[v], n)
          PROVE  n <= drawn /\ ~Uses(txn[w], n) /\ \A r \in log : r.seq # n
      BY <2>2, <3>2 DEF NumberInv
    <3>3. Distinct(txn[v])  BY DEF NumberInv
    <3>4. ASSUME NEW n \in Nat, Uses(txn[v], n), NEW r \in log' PROVE r.seq # n
      BY <3>2, <3>4
    <3>5. QED  BY <3>1, <3>2, <3>3, <3>4
  <2>3. QED  BY <2>1, <2>2
<1>4. ASSUME NEW u \in Writers, NEW v \in Writers, u # v, NEW n \in Nat,
             Uses(txn'[u], n), Uses(txn'[v], n)
      PROVE  FALSE
  <2>1. \A x \in Writers : x # w => (Uses(txn[x], n) => n <= drawn /\ ~Uses(txn[w], n))
    BY DEF NumberInv
  <2>2. Uses(t, n) => Uses(txn[w], n) \/ n > drawn  OBVIOUS
  <2>3. CASE u = w
    <3>1. Uses(t, n) /\ Uses(txn[v], n)  BY <1>1, <1>4, <2>3
    <3>2. QED  BY <1>4, <2>1, <2>2, <2>3, <3>1
  <2>4. CASE v = w
    <3>1. Uses(t, n) /\ Uses(txn[u], n)  BY <1>1, <1>4, <2>4
    <3>2. QED  BY <1>4, <2>1, <2>2, <2>4, <3>1
  <2>5. CASE u # w /\ v # w
    <3>1. Uses(txn[u], n) /\ Uses(txn[v], n)  BY <1>1, <1>4, <2>5
    <3>2. QED  BY <1>4, <3>1 DEF NumberInv
  <2>6. QED  BY <2>3, <2>4, <2>5
<1>5. QED  BY <1>2, <1>3, <1>4 DEF NumberInv, Unique

\* A step of one session that changes no committed row but adds some.
LEMMA SessionComputes ==
    ASSUME AlterInv, DOMAIN txn = Writers, NEW w \in Writers, NEW t, Sets(w, t),
           altered' = altered, \A r \in t.rows : Computed(r),
           log \subseteq log', \A r \in log' \ log : Computed(r)
    PROVE  AlterInv'
<1>1. \A v \in Writers : txn'[v] = t \/ txn'[v] = txn[v]  BY DEF Sets
<1>2. \A v \in Writers : \A r \in txn'[v].rows : Computed(r)  BY <1>1 DEF AlterInv
<1>3. \A r \in log' : Computed(r) \/ \E a \in altered : r = a.now  BY DEF AlterInv
<1>4. \A a \in altered : a.now \in log' /\ a.now.seq = a.was.seq /\ Computed(a.was)
  BY DEF AlterInv
<1>5. \A a, b \in altered : a = b  BY DEF AlterInv
<1>6. QED  BY <1>2, <1>3, <1>4, <1>5 DEF AlterInv, Computed

LEMMA NextNumbers == TypeInv /\ NumberInv /\ [Next]_vars => NumberInv'
<1> SUFFICES ASSUME TypeInv, NumberInv, [Next]_vars PROVE NumberInv'  OBVIOUS
<1>d. DOMAIN txn = Writers /\ drawn \in Nat /\ \A r \in log : r.seq \in Nat
  BY MaxSeqAssumption DEF TypeInv, IsRow
<1>u. Unique(log) /\ \A w \in Writers : Distinct(txn[w])  BY DEF NumberInv
<1>z. Distinct(NoTxn) /\ \A n : ~Uses(NoTxn, n)
  BY DEF NoTxn, Distinct, Unique, Pends, Uses
<1>s. ASSUME NEW w \in Writers, NEW t, Sets(w, t), UNCHANGED <<log, drawn>>, Distinct(t),
             \A n \in Nat : Uses(t, n) => Uses(txn[w], n)
      PROVE  NumberInv'
  BY <1>d, <1>u, <1>s, SessionNumbers
<1>e. ASSUME NEW w \in Writers, Sets(w, NoTxn), drawn' = drawn, Unique(log'),
             \A r \in log' : r.seq \in Nat,
             \A r \in log' : r \in log \/ Uses(txn[w], r.seq)
      PROVE  NumberInv'
  <2>1. drawn' \in Nat /\ drawn' >= drawn  BY <1>d, <1>e
  <2>2. \A r \in log' : r \in log \/ (Uses(txn[w], r.seq) /\ ~Uses(NoTxn, r.seq))
    BY <1>e, <1>z
  <2>3. \A n \in Nat : Uses(NoTxn, n) => Uses(txn[w], n) \/ (n > drawn /\ n <= drawn')
    BY <1>z
  <2>4. DOMAIN txn = Writers /\ drawn \in Nat /\ Distinct(NoTxn)  BY <1>d, <1>z
  <2>5. QED  BY <1>e, <2>1, <2>2, <2>3, <2>4, SessionNumbers
<1>1. ASSUME NEW w \in Writers, NEW b \in Bodies, Begin(w, b) PROVE NumberInv'
  <2> DEFINE u == [i \in Items |-> IF i = b THEN txn[w].updates[i] + 1 ELSE txn[w].updates[i]]
             t == [txn[w] EXCEPT !.at = "lock", !.body = b, !.updates = u]
  <2>1. Sets(w, t) /\ UNCHANGED <<log, drawn>>  BY <1>1 DEF Begin
  <2>2. Distinct(t) /\ \A n : Uses(t, n) => Uses(txn[w], n)
    BY <1>u DEF Distinct, Uses, Pends, TypeInv, TxnTyped
  <2>3. HIDE DEF t
  <2>4. QED  BY <1>s, <2>1, <2>2
<1>2. ASSUME NEW w \in Writers, Lock(w) PROVE NumberInv'
  <2> DEFINE t == [txn[w] EXCEPT !.at = AfterLock(txn[w].body)]
  <2>1. Sets(w, t) /\ UNCHANGED <<log, drawn>>  BY <1>2 DEF Lock, Goes
  <2>2. Distinct(t) /\ \A n : Uses(t, n) => Uses(txn[w], n)
    BY <1>u DEF Distinct, Uses, Pends, AfterLock, TypeInv, TxnTyped
  <2>3. HIDE DEF t
  <2>4. QED  BY <1>s, <2>1, <2>2
<1>3. ASSUME NEW w \in Writers, Draw(w) PROVE NumberInv'
  <2> DEFINE t == [txn[w] EXCEPT !.at = AfterSeq(txn[w].body), !.seq = drawn + 1]
  <2>1. Sets(w, t) /\ log' = log /\ drawn' = drawn + 1  BY <1>3 DEF Draw
  <2>r. t.rows = txn[w].rows /\ t.seq = drawn + 1  BY DEF TypeInv, TxnTyped
  <2>n. \A r \in txn[w].rows : r.seq \in Nat  BY MaxSeqAssumption DEF TypeInv, TxnTyped, IsRow
  <2> HIDE DEF t
  <2>2. \A r \in txn[w].rows : r.seq <= drawn  BY <2>n DEF NumberInv, Uses
  <2>3. Distinct(t)  BY <1>d, <1>u, <2>r, <2>n, <2>2 DEF Distinct, Unique
  <2>4. \A n \in Nat : Uses(t, n) => Uses(txn[w], n) \/ (n > drawn /\ n <= drawn')
    BY <1>d, <2>1, <2>r DEF Uses
  <2>5. drawn' \in Nat /\ drawn' >= drawn  BY <1>d, <2>1
  <2>6. QED  BY <1>d, <1>u, <2>1, <2>3, <2>4, <2>5, SessionNumbers
<1>4. ASSUME NEW w \in Writers, ReadLast(w) PROVE NumberInv'
  <2> DEFINE t(h) == [txn[w] EXCEPT !.at = AfterLast(txn[w].body), !.prev = h]
  <2>1. PICK h : Sets(w, t(h))  BY <1>4 DEF ReadLast
  <2>2. UNCHANGED <<log, drawn>> /\ txn[w].at = "last"  BY <1>4 DEF ReadLast
  <2>3. Distinct(t(h)) /\ \A n : Uses(t(h), n) => Uses(txn[w], n)
    BY <1>u, <2>2 DEF Distinct, Uses, Pends, AfterLast, TypeInv, TxnTyped
  <2>4. HIDE DEF t
  <2>5. QED  BY <1>s, <2>1, <2>2, <2>3
<1>5. ASSUME NEW w \in Writers, Insert(w) PROVE NumberInv'
  <2> DEFINE m == NewRow(w)
  <2>1. txn[w].at = "insert" /\ drawn' = drawn  BY <1>5 DEF Insert
  <2>2. m.seq = txn[w].seq  BY DEF NewRow, Row
  <2>3. m.seq \in Nat  BY <2>2, MaxSeqAssumption DEF TypeInv, TxnTyped
  <2>i. (w \in Autocommit /\ log' = log \cup {m} /\ Sets(w, NoTxn))
        \/ (log' = log /\ Sets(w, Between(w, txn[w].rows \cup {m})))
    BY <1>5 DEF Insert
  <2>b. /\ Between(w, txn[w].rows \cup {m}).at = "idle"
        /\ Between(w, txn[w].rows \cup {m}).rows = txn[w].rows \cup {m}
    BY DEF Between, NoTxn
  <2> HIDE DEF m
  <2>4. Uses(txn[w], m.seq) /\ \A r \in txn[w].rows : r.seq # m.seq
    BY <1>u, <2>1, <2>2 DEF Uses, Pends, Distinct
  <2>5. \A r \in log : r.seq # m.seq  BY <2>3, <2>4 DEF NumberInv
  <2>6. CASE log' = log \cup {m} /\ Sets(w, NoTxn)
    <3>1. Unique(log')  BY <1>u, <2>5, <2>6 DEF Unique
    <3>2. \A r \in log' : r.seq \in Nat  BY <1>d, <2>3, <2>6
    <3>3. \A r \in log' : r \in log \/ Uses(txn[w], r.seq)  BY <2>4, <2>6
    <3>4. QED  BY <1>e, <2>1, <2>6, <3>1, <3>2, <3>3
  <2>7. CASE log' = log /\ Sets(w, Between(w, txn[w].rows \cup {m}))
    <3> DEFINE t == Between(w, txn[w].rows \cup {m})
    <3>1. t.at = "idle" /\ t.rows = txn[w].rows \cup {m}  BY <2>b
    <3>2. Sets(w, t)  BY <2>7
    <3> HIDE DEF t
    <3>3. Distinct(t)  BY <1>u, <2>4, <3>1 DEF Distinct, Unique, Pends
    <3>4. \A n \in Nat : Uses(t, n) => Uses(txn[w], n)  BY <2>4, <3>1 DEF Uses, Pends
    <3>5. QED  BY <1>s, <2>1, <2>7, <3>2, <3>3, <3>4
  <2>8. QED  BY <2>i, <2>6, <2>7
<1>6. ASSUME NEW w \in Writers, Commit(w) PROVE NumberInv'
  <2>1. log' = log \cup txn[w].rows /\ Sets(w, NoTxn) /\ drawn' = drawn
    BY <1>6 DEF Commit
  <2>2. \A r \in txn[w].rows : r.seq \in Nat /\ Uses(txn[w], r.seq)
    BY MaxSeqAssumption DEF TypeInv, TxnTyped, IsRow, Uses
  <2>3. \A r \in txn[w].rows, q \in log : q.seq # r.seq  BY <2>2 DEF NumberInv
  <2>4. Unique(log')  BY <1>u, <2>1, <2>3 DEF Unique, Distinct
  <2>5. \A r \in log' : r.seq \in Nat  BY <1>d, <2>1, <2>2
  <2>6. \A r \in log' : r \in log \/ Uses(txn[w], r.seq)  BY <2>1, <2>2
  <2>7. QED  BY <1>e, <2>1, <2>4, <2>5, <2>6
<1>7. ASSUME NEW w \in Writers, Rollback(w) PROVE NumberInv'
  <2>1. Sets(w, NoTxn) /\ UNCHANGED <<log, drawn>>  BY <1>7 DEF Rollback
  <2>2. QED  BY <1>s, <1>z, <2>1
<1>8. CASE Alter
  <2>1. PICK r \in log : \E q \in Alterations(r) : log' = (log \ {r}) \cup {q}
    BY <1>8 DEF Alter
  <2>q. PICK q \in Alterations(r) : log' = (log \ {r}) \cup {q}  BY <2>1
  <2>2. q.seq = r.seq  BY DEF Alterations, Changed
  <2>3. UNCHANGED <<drawn, txn>>  BY <1>8 DEF Alter
  <2>4. \A o \in log' : \E p \in log : p.seq = o.seq  BY <2>q, <2>2
  <2>5. Unique(log')  BY <1>u, <2>q, <2>2 DEF Unique
  <2>6. \A n : (\A o \in log : o.seq # n) => (\A o \in log' : o.seq # n)  BY <2>4
  <2>7. \A o \in log' : o.seq <= drawn  BY <2>4 DEF NumberInv
  <2>8. QED  BY <2>3, <2>5, <2>6, <2>7 DEF NumberInv, Unique
<1>9. CASE UNCHANGED vars  BY <1>9 DEF vars, NumberInv, Unique
<1>10. QED  BY <1>1, <1>2, <1>3, <1>4, <1>5, <1>6, <1>7, <1>8, <1>9 DEF Next, Write

LEMMA NextAlters == TypeInv /\ AlterInv /\ [Next]_vars => AlterInv'
<1> SUFFICES ASSUME TypeInv, AlterInv, [Next]_vars PROVE AlterInv'  OBVIOUS
<1>d. DOMAIN txn = Writers  BY DEF TypeInv
<1>r. \A w \in Writers : Computed(NewRow(w))  BY DEF NewRow, Row, Computed
<1>s. ASSUME NEW w \in Writers, NEW t, Sets(w, t), UNCHANGED <<log, altered>>,
             \A r \in t.rows : r \in txn[w].rows \/ r = NewRow(w)
      PROVE  AlterInv'
  <2>1. \A r \in t.rows : Computed(r)  BY <1>r, <1>s DEF AlterInv
  <2>2. QED  BY <1>d, <1>s, <2>1, SessionComputes
<1>1. ASSUME NEW w \in Writers, NEW b \in Bodies, Begin(w, b) PROVE AlterInv'
  <2> DEFINE u == [i \in Items |-> IF i = b THEN txn[w].updates[i] + 1 ELSE txn[w].updates[i]]
             t == [txn[w] EXCEPT !.at = "lock", !.body = b, !.updates = u]
  <2>1. Sets(w, t) /\ UNCHANGED <<log, altered>>  BY <1>1 DEF Begin
  <2>2. t.rows = txn[w].rows  OBVIOUS
  <2>3. HIDE DEF t
  <2>4. QED  BY <1>s, <2>1, <2>2
<1>2. ASSUME NEW w \in Writers, Lock(w) PROVE AlterInv'
  <2> DEFINE t == [txn[w] EXCEPT !.at = AfterLock(txn[w].body)]
  <2>1. Sets(w, t) /\ UNCHANGED <<log, altered>>  BY <1>2 DEF Lock, Goes
  <2>2. t.rows = txn[w].rows  OBVIOUS
  <2>3. HIDE DEF t
  <2>4. QED  BY <1>s, <2>1, <2>2
<1>3. ASSUME NEW w \in Writers, Draw(w) PROVE AlterInv'
  <2> DEFINE t == [txn[w] EXCEPT !.at = AfterSeq(txn[w].body), !.seq = drawn + 1]
  <2>1. Sets(w, t) /\ UNCHANGED <<log, altered>>  BY <1>3 DEF Draw
  <2>2. t.rows = txn[w].rows  OBVIOUS
  <2>3. HIDE DEF t
  <2>4. QED  BY <1>s, <2>1, <2>2
<1>4. ASSUME NEW w \in Writers, ReadLast(w) PROVE AlterInv'
  <2> DEFINE t(h) == [txn[w] EXCEPT !.at = AfterLast(txn[w].body), !.prev = h]
  <2>1. PICK h : Sets(w, t(h))  BY <1>4 DEF ReadLast
  <2>2. UNCHANGED <<log, altered>>  BY <1>4 DEF ReadLast
  <2>3. t(h).rows = txn[w].rows  OBVIOUS
  <2>4. HIDE DEF t
  <2>5. QED  BY <1>s, <2>1, <2>2, <2>3
<1>z. NoTxn.rows = {}  BY DEF NoTxn
<1>5. ASSUME NEW w \in Writers, Insert(w) PROVE AlterInv'
  <2>1. altered' = altered  BY <1>5 DEF Insert
  <2>2. CASE log' = log \cup {NewRow(w)} /\ Sets(w, NoTxn)
    <3>1. \A r \in log' \ log : Computed(r)  BY <1>r, <2>2
    <3>2. QED  BY <1>d, <1>z, <2>1, <2>2, <3>1, SessionComputes
  <2>3. CASE log' = log /\ Sets(w, Between(w, txn[w].rows \cup {NewRow(w)}))
    <3> DEFINE t == Between(w, txn[w].rows \cup {NewRow(w)})
    <3>1. t.rows = txn[w].rows \cup {NewRow(w)} /\ Sets(w, t)
      BY <2>3 DEF Between, NoTxn
    <3>2. HIDE DEF t
    <3>3. QED  BY <1>s, <2>1, <2>3, <3>1
  <2>4. QED  BY <1>5, <2>2, <2>3 DEF Insert
<1>6. ASSUME NEW w \in Writers, Commit(w) PROVE AlterInv'
  <2>1. log' = log \cup txn[w].rows /\ Sets(w, NoTxn) /\ altered' = altered
    BY <1>6 DEF Commit
  <2>2. \A r \in log' \ log : Computed(r)  BY <2>1 DEF AlterInv
  <2>3. QED  BY <1>d, <1>z, <2>1, <2>2, SessionComputes
<1>7. ASSUME NEW w \in Writers, Rollback(w) PROVE AlterInv'
  BY <1>7, <1>s, <1>z DEF Rollback
<1>8. CASE Alter
  <2>1. PICK r \in log : \E q \in Alterations(r) :
           log' = (log \ {r}) \cup {q} /\ altered' = {[was |-> r, now |-> q]}
    BY <1>8 DEF Alter
  <2>q. PICK q \in Alterations(r) :
           log' = (log \ {r}) \cup {q} /\ altered' = {[was |-> r, now |-> q]}
    BY <2>1
  <2>2. altered = {} /\ UNCHANGED txn  BY <1>8 DEF Alter
  <2>3. q.seq = r.seq  BY DEF Alterations, Changed
  <2>4. \A o \in log : Computed(o)  BY <2>2 DEF AlterInv
  <2>5. \A a \in altered' : a.was = r /\ a.now = q  BY <2>q
  <2>6. \E a \in altered' : q = a.now  BY <2>q
  <2>7. \A o \in log' : Computed(o) \/ \E a \in altered' : o = a.now
    BY <2>q, <2>4, <2>6
  <2>8. \A a \in altered' : a.now \in log' /\ a.now.seq = a.was.seq /\ Computed(a.was)
    BY <2>q, <2>3, <2>4, <2>5
  <2>9. \A a, b \in altered' : a = b  BY <2>q
  <2>10. QED  BY <2>2, <2>7, <2>8, <2>9 DEF AlterInv, Computed
<1>9. CASE UNCHANGED vars  BY <1>9 DEF vars, AlterInv, Computed
<1>10. QED  BY <1>1, <1>2, <1>3, <1>4, <1>5, <1>6, <1>7, <1>8, <1>9 DEF Next, Write

\* A hash that a row of the range points to is still the hash of the row it was
\* computed of: no other row has that number.
LEMMA FollowerVouches ==
    ASSUME TypeInv, NumberInv, AlterInv, NEW a \in altered, NEW from, NEW to \in 0..MaxSeq,
           Verifies(log, from, to), a.was.seq \in from..to, from \in Nat,
           NEW q \in log, q.seq \in (a.was.seq + 1)..to, q.prev = a.was.hash
    PROVE  a.now.hash = a.was.hash
<1>1. /\ a.now \in log /\ a.now.seq = a.was.seq /\ Computed(a.was)
  BY DEF AlterInv
<1>2. a.was.seq \in Nat /\ q.seq \in Nat /\ a.was.seq < q.seq /\ q.seq \in from..to
  BY MaxSeqAssumption DEF TypeInv, IsRow
<1>3. Precedes(log, q.seq, q.prev)  BY <1>2 DEF Verifies
<1>4. ~(\A p \in log : p.seq >= q.seq)  BY <1>1, <1>2
<1>5. PICK p \in log : p.seq < q.seq /\ q.prev = p.hash  BY <1>3, <1>4 DEF Precedes
<1>6. CASE Computed(p)
  <2>1. p.seq = a.was.seq  BY <1>1, <1>5, <1>6 DEF Computed, Hash
  <2>2. p = a.now  BY <1>1, <2>1 DEF NumberInv, Unique
  <2>3. QED  BY <1>5, <2>2
<1>7. CASE ~Computed(p)
  <2>1. PICK b \in altered : p = b.now  BY <1>7 DEF AlterInv
  <2>2. a = b  BY DEF AlterInv
  <2>3. QED  BY <1>5, <2>1, <2>2
<1>8. QED  BY <1>6, <1>7

\* Whoever writes in whatever mode, a verified range has what is digested as
\* it was written, but for a row with another hash that none of it follows.
THEOREM AlwaysVerifiedAsWritten == Spec => []VerifiedAsWritten
<1>1. Init => TypeInv /\ NumberInv /\ AlterInv
  <2> SUFFICES ASSUME Init PROVE TypeInv /\ NumberInv /\ AlterInv  OBVIOUS
  <2>1. \A w \in Writers : txn[w] = NoTxn  BY DEF Init
  <2>2. TypeInv  BY <2>1, NoTxnTyped, MaxSeqAssumption DEF Init, TypeInv
  <2>3. NoTxn.rows = {} /\ Distinct(NoTxn) /\ \A n : ~Uses(NoTxn, n)
    BY DEF NoTxn, Distinct, Unique, Pends, Uses
  <2>4. NumberInv  BY <2>1, <2>3 DEF Init, NumberInv, Unique
  <2>5. AlterInv  BY <2>1, <2>3 DEF Init, AlterInv
  <2>6. QED  BY <2>2, <2>4, <2>5
<1>2. TypeInv /\ NumberInv /\ AlterInv => VerifiedAsWritten
  <2> SUFFICES ASSUME TypeInv, NumberInv, AlterInv, NEW a \in altered,
                      NEW from \in 0..MaxSeq, NEW to \in 0..MaxSeq,
                      a.was.seq \in from..to, Verifies(log, from, to)
               PROVE  \/ Digested(a.now) = Digested(a.was)
                      \/ /\ a.now.hash # a.was.hash
                         /\ \A q \in log : q.seq \in (a.was.seq + 1)..to => q.prev # a.was.hash
    BY DEF VerifiedAsWritten
  <2>1. a.now \in log /\ a.now.seq = a.was.seq /\ Computed(a.was)  BY DEF AlterInv
  <2>2. Computed(a.now)  BY <2>1 DEF Verifies, Computed
  <2>3. a.now.hash = a.was.hash => Digested(a.now) = Digested(a.was)
    BY <2>1, <2>2 DEF Computed, Hash, Digested
  <2>4. from \in Nat  BY MaxSeqAssumption
  <2>5. \A q \in log : q.seq \in (a.was.seq + 1)..to /\ q.prev = a.was.hash
                        => a.now.hash = a.was.hash
    BY <2>4, FollowerVouches
  <2>6. QED  BY <2>3, <2>5
<1>3. TypeInv /\ NumberInv /\ AlterInv /\ [Next]_vars => (TypeInv /\ NumberInv /\ AlterInv)'
  BY NextTypes, NextNumbers, NextAlters
<1>4. QED  BY <1>1, <1>2, <1>3, PTL DEF Spec

-----------------------------------------------------------------------------
(* Every committed update of an item has its row. *)

About(S, i) == {r \in S : r.body = i}
Pending(w, i) == IF txn[w].at # "idle" /\ txn[w].body = i THEN 1 ELSE 0

TraceInv ==
    /\ IsFiniteSet(log)
    /\ altered = {} => \A i \in Items : version[i] = Cardinality(About(log, i))
    /\ \A w \in Writers :
          /\ IsFiniteSet(txn[w].rows)
          /\ \A i \in Items :
                txn[w].updates[i] = Cardinality(About(txn[w].rows, i)) + Pending(w, i)

LEMMA AboutFinite ==
    ASSUME NEW S, IsFiniteSet(S), NEW i
    PROVE  IsFiniteSet(About(S, i)) /\ Cardinality(About(S, i)) \in Nat
<1>1. About(S, i) \in SUBSET S  BY DEF About
<1>2. QED  BY <1>1, FS_Subset, FS_CardinalityType

LEMMA AboutAdd ==
    ASSUME NEW S, IsFiniteSet(S), NEW i, NEW r, r \notin S
    PROVE  Cardinality(About(S \cup {r}, i)) =
             Cardinality(About(S, i)) + (IF r.body = i THEN 1 ELSE 0)
<1>1. IsFiniteSet(About(S, i)) /\ Cardinality(About(S, i)) \in Nat  BY AboutFinite
<1>2. CASE r.body = i
  <2>1. About(S \cup {r}, i) = About(S, i) \cup {r}  BY <1>2 DEF About
  <2>2. r \notin About(S, i)  BY DEF About
  <2>3. QED  BY <1>1, <1>2, <2>1, <2>2, FS_AddElement
<1>3. CASE r.body # i
  <2>1. About(S \cup {r}, i) = About(S, i)  BY <1>3 DEF About
  <2>2. QED  BY <1>1, <1>3, <2>1
<1>4. QED  BY <1>2, <1>3

LEMMA AboutUnion ==
    ASSUME NEW S, NEW T, IsFiniteSet(S), IsFiniteSet(T), NEW i, S \cap T = {}
    PROVE  Cardinality(About(S \cup T, i)) = Cardinality(About(S, i)) + Cardinality(About(T, i))
<1>1. About(S \cup T, i) = About(S, i) \cup About(T, i)  BY DEF About
<1>2. About(S, i) \cap About(T, i) = {}  BY DEF About
<1>3. IsFiniteSet(About(S, i)) /\ IsFiniteSet(About(T, i))  BY AboutFinite
<1>4. Cardinality(About(S, i)) \in Nat /\ Cardinality(About(T, i)) \in Nat  BY AboutFinite
<1> DEFINE A == About(S, i)  B == About(T, i)
<1>5. Cardinality(A \cap B) = 0
  <2>1. A \cap B = {}  BY <1>2
  <2>2. QED  BY <2>1, FS_EmptySet
<1>6. IsFiniteSet(A) /\ IsFiniteSet(B) /\ Cardinality(A) \in Nat /\ Cardinality(B) \in Nat
  BY <1>3, <1>4
<1>7. Cardinality(A \cup B) = Cardinality(A) + Cardinality(B)
  <2> HIDE DEF A, B
  <2>1. Cardinality(A \cup B) = Cardinality(A) + Cardinality(B) - Cardinality(A \cap B)
    BY <1>6, FS_Union
  <2>2. QED  BY <1>5, <1>6, <2>1
<1>8. QED  BY <1>1, <1>7

\* A session that begins has written and updated nothing.
LEMMA NoTxnTraced ==
    /\ IsFiniteSet(NoTxn.rows)
    /\ \A i \in Items : NoTxn.updates[i] = Cardinality(About(NoTxn.rows, i))
                             + (IF NoTxn.at # "idle" /\ NoTxn.body = i THEN 1 ELSE 0)
<1> DEFINE t == NoTxn
<1>1. t.at = "idle" /\ t.rows = {} /\ t.updates = [i \in Items |-> 0]  BY DEF NoTxn
<1> HIDE DEF t
<1>2. IsFiniteSet(t.rows)  BY <1>1, FS_EmptySet
<1>3. \A i \in Items : About(t.rows, i) = {}  BY <1>1 DEF About
<1>4. \A i \in Items : Cardinality(About(t.rows, i)) = 0  BY <1>3, FS_EmptySet
<1>5. \A i \in Items : t.updates[i] = Cardinality(About(t.rows, i))
                            + (IF t.at # "idle" /\ t.body = i THEN 1 ELSE 0)
  BY <1>1, <1>4
<1> USE DEF t
<1>6. QED  BY <1>2, <1>5

LEMMA NextTraces ==
    ASSUME Autocommit = {}, TypeInv, ChainInv, TraceInv, [Next]_vars PROVE TraceInv'
<1> USE DEF TypeInv, TxnTyped
<1>0. ASSUME NEW w \in Writers, NEW t, Sets(w, t), UNCHANGED <<log, version, altered>>,
             IsFiniteSet(t.rows),
             \A i \in Items : t.updates[i] = Cardinality(About(t.rows, i))
                              + (IF t.at # "idle" /\ t.body = i THEN 1 ELSE 0)
      PROVE  TraceInv'
  <2>1. txn'[w] = t /\ \A v \in Writers \ {w} : txn'[v] = txn[v]  BY <1>0 DEF Sets
  <2>2. \A v \in Writers : /\ IsFiniteSet(txn'[v].rows)
                            /\ \A i \in Items : txn'[v].updates[i] =
                                  Cardinality(About(txn'[v].rows, i)) + Pending(v, i)'
    BY <1>0, <2>1 DEF TraceInv, Pending
  <2>3. QED  BY <1>0, <2>2 DEF TraceInv
<1>1. ASSUME NEW w \in Writers, NEW b \in Bodies, Begin(w, b) PROVE TraceInv'
  <2> DEFINE u == [i \in Items |-> IF i = b THEN txn[w].updates[i] + 1 ELSE txn[w].updates[i]]
             t == [txn[w] EXCEPT !.at = "lock", !.body = b, !.updates = u]
  <2>1. Sets(w, t) /\ UNCHANGED <<log, version, altered>> /\ txn[w].at = "idle"
    BY <1>1 DEF Begin
  <2>2. t.rows = txn[w].rows /\ t.updates = u /\ t.at = "lock" /\ t.body = b  OBVIOUS
  <2>3. HIDE DEF t
  <2>4. \A i \in Items : u[i] = txn[w].updates[i] + (IF i = b THEN 1 ELSE 0)  OBVIOUS
  <2>5. \A i \in Items : txn[w].updates[i] = Cardinality(About(txn[w].rows, i))
    <3>1. \A i \in Items : Cardinality(About(txn[w].rows, i)) \in Nat
      BY AboutFinite DEF TraceInv
    <3>2. QED  BY <3>1, <2>1 DEF TraceInv, Pending
  <2>6. QED  BY <1>0, <2>1, <2>2, <2>4, <2>5 DEF TraceInv
<1>2. ASSUME NEW w \in Writers, NEW t, Sets(w, t), UNCHANGED <<log, version, altered>>,
             t.rows = txn[w].rows, t.updates = txn[w].updates, t.body = txn[w].body,
             t.at # "idle", txn[w].at # "idle"
      PROVE  TraceInv'
  BY <1>0, <1>2 DEF TraceInv, Pending
<1>3. ASSUME NEW w \in Writers, Lock(w) PROVE TraceInv'
  <2> DEFINE t == [txn[w] EXCEPT !.at = AfterLock(txn[w].body)]
  <2>1. Sets(w, t) /\ UNCHANGED <<log, version, altered>> /\ txn[w].at = "lock"
    BY <1>3 DEF Lock, Goes
  <2>2. t.rows = txn[w].rows /\ t.updates = txn[w].updates /\ t.body = txn[w].body
        /\ t.at # "idle"
    BY DEF AfterLock
  <2>3. HIDE DEF t
  <2>4. QED  BY <1>2, <2>1, <2>2
<1>4. ASSUME NEW w \in Writers, Draw(w) PROVE TraceInv'
  <2> DEFINE t == [txn[w] EXCEPT !.at = AfterSeq(txn[w].body), !.seq = drawn + 1]
  <2>1. Sets(w, t) /\ UNCHANGED <<log, version, altered>> /\ txn[w].at = "seq"
    BY <1>4 DEF Draw
  <2>2. t.rows = txn[w].rows /\ t.updates = txn[w].updates /\ t.body = txn[w].body
        /\ t.at # "idle"
    BY DEF AfterSeq
  <2>3. HIDE DEF t
  <2>4. QED  BY <1>2, <2>1, <2>2
<1>5. ASSUME NEW w \in Writers, ReadLast(w) PROVE TraceInv'
  <2> DEFINE t(h) == [txn[w] EXCEPT !.at = AfterLast(txn[w].body), !.prev = h]
  <2>1. PICK h : Sets(w, t(h))  BY <1>5 DEF ReadLast
  <2>2. UNCHANGED <<log, version, altered>> /\ txn[w].at = "last"
    BY <1>5 DEF ReadLast
  <2>3. t(h).rows = txn[w].rows /\ t(h).updates = txn[w].updates /\ t(h).body = txn[w].body
        /\ t(h).at # "idle"
    BY DEF AfterLast
  <2>4. HIDE DEF t
  <2>5. QED  BY <1>2, <2>1, <2>2, <2>3
<1>6. ASSUME NEW w \in Writers, Insert(w) PROVE TraceInv'
  <2> DEFINE n == NewRow(w)
             t == Between(w, txn[w].rows \cup {n})
  <2>1. Sets(w, t) /\ UNCHANGED <<log, version, altered>> /\ txn[w].at = "insert"
    BY <1>6 DEF Insert
  <2>2. t.at = "idle" /\ t.rows = txn[w].rows \cup {n} /\ t.updates = txn[w].updates
    BY DEF Between, NoTxn
  <2>3. n.seq = txn[w].seq /\ n.body = txn[w].body  BY DEF NewRow, Row
  <2>4. \A r \in txn[w].rows : r.seq \in Nat /\ r.seq < n.seq
    BY <2>1, <2>3 DEF ChainInv, Session, HasNumber, Seen, Numbered
  <2>5. n.seq \in Nat  BY <2>3, MaxSeqAssumption
  <2>6. n \notin txn[w].rows  BY <2>4, <2>5
  <2>7. HIDE DEF n, t
  <2>8. ASSUME NEW i \in Items PROVE t.updates[i] = Cardinality(About(t.rows, i))
    <3>1. Cardinality(About(t.rows, i)) =
             Cardinality(About(txn[w].rows, i)) + (IF n.body = i THEN 1 ELSE 0)
      BY <2>2, <2>6, AboutAdd DEF TraceInv
    <3>2. QED  BY <3>1, <2>1, <2>2, <2>3 DEF TraceInv, Pending
  <2>9. IsFiniteSet(t.rows)
    <3>1. IsFiniteSet(txn[w].rows)  BY DEF TraceInv
    <3>2. IsFiniteSet(txn[w].rows \cup {n})  BY <3>1, FS_AddElement
    <3>3. QED  BY <2>2, <3>2
  <2>10. \A i \in Items : Cardinality(About(t.rows, i)) \in Nat  BY <2>9, AboutFinite
  <2>11. \A i \in Items : t.updates[i] = Cardinality(About(t.rows, i))
                               + (IF t.at # "idle" /\ t.body = i THEN 1 ELSE 0)
    <3>1. \A i \in Items : (IF t.at # "idle" /\ t.body = i THEN 1 ELSE 0) = 0
      BY <2>2
    <3>2. QED  BY <3>1, <2>8, <2>10
  <2>12. QED  BY <1>0, <2>1, <2>9, <2>11
<1>n. /\ IsFiniteSet(NoTxn.rows)
      /\ \A i \in Items : NoTxn.updates[i] = Cardinality(About(NoTxn.rows, i))
                               + (IF NoTxn.at # "idle" /\ NoTxn.body = i THEN 1 ELSE 0)
  BY NoTxnTraced
<1>7. ASSUME NEW w \in Writers, Sets(w, NoTxn), UNCHANGED <<log, version, altered>> PROVE TraceInv'
  BY <1>0, <1>7, <1>n
<1>8. ASSUME NEW w \in Writers, Commit(w) PROVE TraceInv'
  <2>1. /\ Sets(w, NoTxn) /\ log' = log \cup txn[w].rows /\ altered' = altered
        /\ version' = [i \in Items |-> version[i] + txn[w].updates[i]] /\ txn[w].at = "idle"
    BY <1>8 DEF Commit
  <2>2. log \cap txn[w].rows = {}
    BY MaxSeqAssumption DEF ChainInv, Session, IsRow
  <2>3. IsFiniteSet(log')  BY <2>1, FS_Union DEF TraceInv
  <2>4. ASSUME altered = {}, NEW i \in Items PROVE version'[i] = Cardinality(About(log', i))
    <3>1. Cardinality(About(log', i)) = Cardinality(About(log, i)) + Cardinality(About(txn[w].rows, i))
      BY <2>1, <2>2, AboutUnion DEF TraceInv
    <3>2. txn[w].updates[i] = Cardinality(About(txn[w].rows, i))
      <4>1. Cardinality(About(txn[w].rows, i)) \in Nat  BY AboutFinite DEF TraceInv
      <4>2. QED  BY <4>1, <2>1 DEF TraceInv, Pending
    <3>3. QED  BY <3>1, <3>2, <2>1, <2>4 DEF TraceInv
  <2>5. txn'[w] = NoTxn /\ \A v \in Writers \ {w} : txn'[v] = txn[v]  BY <2>1 DEF Sets
  <2>8. \A v \in Writers : /\ IsFiniteSet(txn'[v].rows)
                            /\ \A i \in Items : txn'[v].updates[i] =
                                  Cardinality(About(txn'[v].rows, i)) + Pending(v, i)'
    BY <1>n, <2>5 DEF TraceInv, Pending
  <2>9. QED  BY <2>1, <2>3, <2>4, <2>8 DEF TraceInv
<1>9. ASSUME NEW w \in Writers, Rollback(w) PROVE TraceInv'
  BY <1>7, <1>9 DEF Rollback
<1>10. CASE Alter
  <2>1. PICK r \in log : \E q \in Alterations(r) :
           log' = (log \ {r}) \cup {q} /\ altered' = {[was |-> r, now |-> q]}
    BY <1>10 DEF Alter
  <2>2. IsFiniteSet(log')
    <3>1. PICK q : log' = (log \ {r}) \cup {q}  BY <2>1
    <3>2. IsFiniteSet(log \ {r})  BY FS_RemoveElement DEF TraceInv
    <3> DEFINE rest == log \ {r}
    <3>3. IsFiniteSet(rest \cup {q})
      <4> HIDE DEF rest
      <4>1. IsFiniteSet(rest)  BY <3>2 DEF rest
      <4>2. QED  BY <4>1, FS_AddElement
    <3>4. QED  BY <3>1, <3>3
  <2>3. altered' # {}  BY <2>1
  <2>4. QED  BY <1>10, <2>2, <2>3 DEF Alter, TraceInv, Pending
<1>11. CASE UNCHANGED vars  BY <1>11 DEF vars, TraceInv, Pending
<1>12. QED
  BY <1>1, <1>3, <1>4, <1>5, <1>6, <1>8, <1>9, <1>10, <1>11 DEF Next, Write

\* Without sessions in autocommit, an item has as many rows in an untouched log
\* as committed updates.
THEOREM UpdatesAlwaysTraced ==
    ASSUME Autocommit = {} PROVE Spec => []UpdatesAreTraced
<1> DEFINE Inv == TypeInv /\ ChainInv /\ TraceInv
<1>1. Init => Inv
  <2> SUFFICES ASSUME Init PROVE Inv  OBVIOUS
  <2>1. \A w \in Writers : txn[w] = NoTxn  BY DEF Init
  <2>2. TypeInv  BY <2>1, NoTxnTyped, MaxSeqAssumption DEF Init, TypeInv
  <2>3. \A i \in Items : About({}, i) = {}  BY DEF About
  <2>4. IsFiniteSet(log) /\ \A i \in Items : version[i] = Cardinality(About(log, i))
    <3>1. Cardinality({}) = 0 /\ IsFiniteSet({})  BY FS_EmptySet
    <3>2. QED  BY <2>3, <3>1 DEF Init
  <2>5. TraceInv  BY <2>1, <2>4, NoTxnTraced DEF TraceInv, Pending
  <2>6. QED  BY <2>2, <2>5, InitChain
<1>2. Inv /\ [Next]_vars => Inv'  BY NextTypes, NextChain, NextTraces
<1>3. Inv => UpdatesAreTraced  BY DEF TraceInv, UpdatesAreTraced, About
<1>4. QED  BY <1>1, <1>2, <1>3, PTL DEF Spec

=============================================================================
