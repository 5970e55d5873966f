# Verification of the Decision Memory System

TLA+ models of the parts of this repository where several requests, workers or
files meet, TLC runs on small instances of them, and TLAPS proofs for every size.
The code is the reference: each definition translates the lines that
`PROJECT.json` (`map`) gives for it.

## 1. The system

DMS follows a procurement from the reception of offers to a sealed decision.
It is a FastAPI application over PostgreSQL; each request is one transaction at
READ COMMITTED (`src/db/core.py` `get_connection`, `src/couche_a/committee/router.py`
`_get_conn`): commit when the handler returns, rollback when it raises. Handlers
read without locks, decide, and write; what protects the rows are row locks,
unique indexes and about forty-five migrations that install triggers. ARQ workers
on Redis run after the commit; the annotation backend is a second service that
keeps its runs in files. So most of the difficulty is in *stale reads* (a decision
taken on a row that another request has changed by the time of the write), in
*swallowed errors* (an exception caught inside a transaction PostgreSQL has
aborted), and in *work cut in pieces* (several commits or files for one operation).

### Inventory

| Component | State | Operations | Hard behaviours | What makes it correct | Model |
|---|---|---|---|---|---|
| **Couche A committee** `couche_a/committee/`, migrations 028-031 | `committees`, members, decisions, events, snapshots | create, open, review, add/remove member, set decision, seal, cancel | checks before the lock, triggers at write time, two seals at once, DELETE without trigger | one seal told alike by all tables; newest decision sealed; frozen afterwards | `CommitteeLock` |
| **Workspace seal (W3)** `services/workspace_irr_seal_service.py`, `api/routers/workspaces.py`, `committee_sessions.py`, `seal_checks.py`, `quorum_service.py`, migrations 069, 071, v52_p1_001 | `process_workspaces.status`, `committee_sessions` with the PV, its members, memberships, flags, journals | PATCH status, open session, add member, seal (two endpoints), recovery, enqueue | two endpoints and a recovery branch racing, upserts of the same rows, checks read early, enqueue after commit | session, PV and workspace sealed together and once; PV and members agree; no way back | `WorkspaceSeal` |
| **PV builder** `services/pv_builder.py` | none (reads) | build, validate, hash | reads many tables in several statements | the PV is what the rows say when it is sealed | members and identity in `WorkspaceSeal` |
| **Event journal, WebSocket** `api/routers/workspace_members.py`, `workspaces.py`, `api/ws/workspace_events.py`, migration 069 | `workspace_memberships`, `workspace_events`, one cursor per socket | invite, revoke, change status; poll, send | ids drawn before the commit, a cursor that only grows, access checked once | the journal tells the state; a client misses no event without a reason | `WorkspaceEvents` |
| **Deliberation** `services/comments_service.py`, `api/routers/workspaces_comments.py` | threads, messages, comments, history | comment, flag, resolve | find-or-create threads, swallowed SQL errors | one thread per cell; a flag is recorded or refused | flags as the seal reads them |
| **Sealed projection** `workers/arq_sealed_workspace.py` | `vendor_market_signals` | project a sealed workspace | redelivery by ARQ, INSERTs that are not idempotent, errors swallowed in an aborted transaction | signals of each bundle once | its job, in `WorkspaceSeal` |
| **Pipeline V5 and bridge** `services/pipeline_v5_service.py`, `m14_bridge.py`, `m16_backfill.py`, `procurement/m14_*.py`, `couche_a/extraction/persistence.py` | evaluation documents, `criterion_assessments`, extracted offers | run, synchronise, initialise, score | partial failure between stages, two documents per run, a loop of upserts in one transaction | a cell is of a participant; nobody waits in a circle; a score stays | `PipelineV5` |
| **Eligibility gate, comparative matrix** `procurement/eligibility_gate.py`, `services/matrix_builder_service.py` | none (functions of the file, the scores and the tender) | verdict of an offer, rows, ranks, status of the cohort | missing prices and scores, exclusion after the fact, ties | no false winner; ranks follow totals; the summary says what the rows say | `EligibilityGate`, `ComparativeMatrix` |
| **Annotation orchestrator** `annotation/orchestrator.py`, `services/annotation-backend/backend.py` | a JSON file per run: state, pass outputs; switches | run passes 0 to 1, 1A to 1D, 2A; resume; answer | crash between saves, two requests on one file, switches changed by a restart | the file belongs to the state reached; what is refused is explained | `AnnotationRun` |
| **Extraction jobs** `extraction/engine.py`, `api/routes/extractions.py`, migration 012 | documents, `extractions`, `extraction_jobs`, `extraction_errors` | extract, enqueue, process | two workers on a job, crash in processing, refused UPDATE in the error path, three commits for one result | one verdict for a job, final, and a text behind each success | `ExtractionJobs` |
| **Audit log** `couche_a/audit/logger.py`, migrations 038, m7_3 | `audit_log` chain, its sequence | write event, dictionary trigger, verify | concurrent writers, rollbacks that burn numbers, autocommit callers | one chain, verifiable on every range | `AuditChain` |
| **DB access and resilience** `db/core.py`, `db/async_pool.py`, `resilience.py` | breaker counters | connect, execute, retry | retries inside aborted transactions, breaker shared by all | a statement is applied once or the request fails | transactions in every model; the decorators not |
| **Scoring, criteria, Couche A pipeline** `couche_a/scoring`, `criteria`, `pipeline` | criteria, scores, pipeline runs | weigh, score, rank | tolerances over decimals, partial runs | weights sum to 100 % | not modelled |
| **M12, M13, M16 services** `procurement/m13_engine.py`, `services/m16_evaluation_service.py` | reports | classify, derive rules, assemble answers | rule tables and text heuristics | | not modelled |
| **Market signals, Couche B** `couche_a/market`, `couche_b`, `workers/arq_projector_couche_b.py`, `services/market_delta.py` | mercuriale, IMC, signals, deltas | import, match, aggregate, project | formulas over floats, refreshes that overlap | a delta belongs to its amount | not modelled |
| **Agent, MQL, memory** `agent`, `mql`, `memory` | contexts, embeddings | route, answer, retrieve | language model answers, I/O | | not modelled |
| **Auth, tenancy, rate limits** `auth`, `couche_a/auth`, `ratelimit.py`, `middleware` | tokens, RLS variables, counters | filter requests | | | not modelled |
| **Assembly and OCR** `assembler` | bundles, documents | unzip, OCR, classify | external services | | not modelled |
| **Front ends, deployment, scripts** `src/services`, `src/scripts` at the root | | | | | not modelled |

Interactions: the workspace seal reads what members, comments, criteria and the
Couche A committee wrote, and hands the result to the projection by a job; its
requests write the journal the sockets read. The pipeline takes extracted offers
through the gate to the evaluation and the matrix, and writes the cells that
comments point to and that the PV copies; extraction and annotation feed it.

## 2. Modules

```
DecisionRegister   <-- refined by --  CommitteeLock      <-- MCCommitteeLock,    CommitteeLockProofs
WorkspaceLedger    <-- refined by --  WorkspaceSeal      <-- MCWorkspaceSeal,    WorkspaceSealProofs
ExtractionLedger   <-- refined by --  ExtractionJobs     <-- MCExtractionJobs,   ExtractionJobsProofs
                                      AnnotationRun      <-- MCAnnotationRun,    AnnotationRunProofs
                                      AuditChain         <-- MCAuditChain,       AuditChainProofs
                                      PipelineV5         <-- MCPipelineV5,       PipelineV5Proofs
EligibilityGate    <-- extended by -- ComparativeMatrix  <-- MCComparativeMatrix, ComparativeMatrixProofs
                                      WorkspaceEvents    <-- MCWorkspaceEvents,  WorkspaceEventsProofs
```

### Requests as transactions

The models of database components describe a request as a record in `txn` with
the step it has reached:

- the first statements read committed rows and check them (`Begin...`); the
  handler's early returns (404, 409, 422) are the guards;
- a write waits for the locks other open transactions hold
  (`LockGranted`, `WsFree`, `RowFree`, ...), then runs the trigger on the row
  as committed *at that moment*; a refused write rolls the transaction back;
- the rows change at `Commit...`; until then the lock is what others notice;
- `Abort` loses the connection or the process at any step.

Lock modes, lock waiting, sequences and the visibility of commits are PostgreSQL's
and are marked external in the map; the triggers are translated from the migrations.

### CommitteeLock

`status` and `sealedAs` are the row of `committees`; `member`, `decision`,
`snapshots` and `events` the four other tables. Handlers of one shape share an
action (`BeginStatusChange`, `WriteStatus`, `CommitStatus` for open, review and
cancel). `seal_committee_decision` keeps its order: status, candidate decision,
members, then `FOR UPDATE`, candidate again, both UPDATEs under the triggers, and
snapshot and events at the commit. `SetMemberStatus` is the UPDATE of a member's
status that the tests make and no endpoint offers; without it no committee could
ever be sealed.

Abstractions: a decision is `sound` when it passes the rationale, supplier and
case checks; `signed` counts as `active`, `validated` as `proposed`, and
`recused`, which nothing writes, is left out; a seal's number stands for the
values only one request can write.

### WorkspaceSeal

`ws`, `session`, `pv`, `roster`, `sealLog` are the rows of the workspace;
`memberships`, `flagged`, `legacy` what the preconditions read; `jobs` the queue.
`finalize_workspace_irr_seal` is the chain `SealReadsSession`, `SealChecksQuorum`,
`SealChecksFlags`, `SealOpensSession`, `SealBuildsPv`, `SealWritesSession`,
`SealWritesWs`, `CommitSeal`, `Enqueue`, with `RecoverWrites` and `CommitRecover`
for the recovery branch. The two endpoints differ in whether a missing session is
created (`autoCreate`).

Abstractions: the statuses before `in_deliberation` are one, `preparing`: no
trigger tells them apart, and the facts that guard the moves between them may hold
or not at any time; criteria weights and the other contents of the PV belong to
other tables, so those checks may pass or fail; a session never becomes `closed`,
as no code writes that.

### ExtractionJobs

`docStatus`, `job`, `extracted` and `errors` are the four tables; `proc` is what an
HTTP request (`extract_document`, the queueing of a job) or a worker
(`process_extraction_job`) has reached. `get_db_cursor` commits after every block,
so each statement is a step of its own, and a step may raise, be refused by the
trigger of migration 012, or be the last one of a lost process. `Proceed` gives the
statement that follows each; a `TimeoutError` has its own way out, as in the code.

Facts that shape the model: the CHECK on the job's method refuses `mistral_ocr` and
`llamaparse`, so such a document never gets a job; nothing under `src/` calls
`process_extraction_job` or puts a failed job back to pending; `post_correction`
writes a column that migration 019 dropped, so corrections are left out.

### AnnotationRun

`file` and `tmp` are the checkpoint and its temporary name, shared by all requests
for a document and task; `req` is the orchestrator's loop in each thread of the
backend, and `answer` what Label Studio got. `save_run` is three steps, open with
truncation, write and rename, and each request knows which *inode* it is writing:
the file another request has renamed meanwhile is still open. An output records
which request computed it and from whose output, which is all the properties need.
`Restart` kills the requests, may flip both switches, and may bring models that
refuse a stored output (`Corrupt`).

A resumed run passes no case identifier to pass 2A, so a run stopped between 1D and
2A stays without it; this is modelled (`case`) and no property forbids it.

### AuditChain

`log` holds the committed rows, `drawn` the sequence, `holder` the advisory lock and
`txn` the sessions, whose rows are their own until `Commit`. `write_event` draws
its number before it reads the last hash and the dictionary trigger of m7_3 after;
both are steps. `Verifies` is `fn_verify_audit_chain`, its start value included. In this
commit only the dictionary trigger and the tests write events; `write_event` has no
caller under `src/`.

The digest is of a text: `entity`, `entity_id`, `action`, `actor_id`,
`payload_canonical`, `timestamp`, `chain_seq` and the previous hash, written one after
the other without a delimiter. A hash in the model is the tuple of what can be told
apart in that text: what comes before the number (`body`), the number, the previous
hash. A timestamp has a fixed width and ends in Z and what follows the number is 64
hexadecimal digits or GENESIS, so those three can be; the columns within the body
cannot, and `payload`, `ip_address` and `id` are not in the text. The field `other` stands
for both: it tells whether the same text is divided as it was written, and whether
the columns outside it are. `Alter` changes one row behind the triggers: the body or
the previous hash, with the hash left or computed anew; the hash; or `other`. It does
not delete or renumber rows, and does not change several.

### PipelineV5

One workspace: `offer` (readiness of the newest extraction), `docs` (evaluation
documents by version), `assess` (cells) and `proc`, the requests: runs, POST
`sync-from-m14` and POST `initialize-from-m14`. A run commits after `Extract`,
`Assemble`, `Evaluate` (the engine saves its own report), `Save` (the one with the
participants) and the bridge; it can stop at each. The bridge writes one cell after
the other in one transaction; `CellFails` is the upsert whose exception is swallowed,
after which COMMIT is a rollback that nobody is told of.

What the model does and no property forbids, because the code promises nothing
there: `initialize` has no Gate C filter, and `sync` reads an intermediate document
without participants; cells of a supplier that a later forced run excludes stay; an
older document can overwrite the cells of a newer one; a failed re-extraction hides
the good row; `run-pipeline` has no guard for sealed workspaces, unlike the M16
endpoints.

### EligibilityGate and ComparativeMatrix

The gate is a function of one file (documents found, declarations, overrides,
readability): results of leaves, aggregation under `sci_q5`, verdict. The matrix
extends it: `RowOf`, `Rank` and `Cohort` are `build_matrix_rows`, `_apply_ranking`
and `_cohort_comparability`, over all offers. A step changes one input and computes
everything again, as every run does; this is what relates two runs, which no unit
test of the code does.

Declarations and overrides are parameters of the code that nothing under `src/`
fills yet, and nothing emits the flags the commercial and sustainability pillars are
read from: in production today `comm` is missing everywhere and the cohort is
NOT_COMPARABLE. The models cover the code for any input, not only for that one.

### WorkspaceEvents

`status`, `member` and `journal` are the rows, `txn` the requests, `socket` the
WebSocket handlers (user, last id, rows fetched and not sent, rows sent). The id of an
event is drawn at the INSERT (`Log`) and the row is visible at `Commit`; `rank`, the
order of commits, is not a column but what the properties compare the ids with.
`Poll` and `Send` are the two halves of the loop.

Abstractions: the early statuses are one, as in `WorkspaceSeal`; the seal is a status
change here, its own rows are that module's; only the events written together with a
membership or the status are kept; who may send a request is left out (an
administrator may send any), and a listener is a member.

## 3. Runs

| Run | Instance | Distinct states | What it shows |
|---|---|---|---|
| `CommitteeLock` | 2 sessions, 1 voting mandatory member, 2 decisions, 2 seals | 1 195 000 | The seal of a committee is recorded alike by its tables, names the newest decision, is final, and only follows an opened meeting; the committee implements `DecisionRegister` |
| `CommitteeSealable` | same | | violated: the seal does not repeat its checks after `FOR UPDATE` |
| `WorkspaceSeal` | 2 connections, 2 users, 2 roles (one critical, one observer), quorum 1, 2 seals, 1 change by others | 1 446 000 | No orphan seal, the PV agrees with the session's members, at most one projection job; the workspace implements `WorkspaceLedger` |
| `WorkspaceProgress` | 2 connections, 1 user, 1 role; 2 changes by others | 187 000 | Every request ends |
| `WorkspaceChecks` | 2 connections, 2 users, 1 role | | violated: a revocation or a flag committed during the seal is ignored |
| `ExtractionJobs` | 2 processes, a native and a scanned document, 2 jobs, 1 crash | 205 000 | A finished job or document has its text; the queue implements `ExtractionLedger` (one final verdict); a job that is taken gets its verdict unless a process is lost |
| `AnnotationRun` | 3 calls in 2 threads, 2 restarts | 2 954 000 | A checkpoint is coherent whatever was interrupted or run twice; a request alone loses nothing; refusals are explained |
| `AuditChain` | 3 sessions, 2 items, 4 numbers | 516 000 | Every range verifies of a log in which what is digested is as it was written; a range that verifies has its rows as they were digested, but for one with a new hash that none of it follows; rows come at the end; updates have their rows |
| `PipelineV5` | 2 requests at a time, 2 bundles, 3 calls | 2 272 000 | Runs assess participants only; bridges do not wait in a circle; evaluators' scores stand; a run that completes alone has assessed everybody |
| `PipelineRerun` | same | | violated: a second run without `force_m14` is refused |
| `ComparativeMatrix` | 3 offers, 3 leaves (one blocking, two aggregated), scores to 2, at most 2 unknown | 115 000 | Ranks are sound, nobody wins while a price is missing, the summary agrees, verdicts do not fall and others keep their order |
| `WorkspaceEvents` | 2 connections, 1 user with 2 roles, 1 socket, batches of 2, 3 transactions | 117 000 | Read by id the journal tells the status and the revocations; a socket misses late commits only; all other events arrive |

Further configurations, each of which TLC finds violated, are kept for what they
document (section 4): `CommitteeRoster`, `WorkspaceRoster`, `WorkspaceWarning`,
`ExtractionSilence`, `AnnotationTorn`, `AnnotationBlocked`, `AuditDigest`, `AuditAutocommit`,
`MatrixInformative`, `EventsGap`, `EventsReplay`, `EventsListeners`, `EventsTimeline`.

**Bounds.** Two concurrent requests suffice for the races above: each needs one
stale reader and one committer, and a third only repeats the part of either (the
proofs cover any number). A bound counts requests when they *begin*, so that it never
cuts one short.

- *Committee, workspace.* Two decisions are the candidate and a newer one; two seals
  are the racing pair. Two users let one be upserted by the seal while the other is
  added by hand, one change lets a member or a flag move under a seal. The committee
  has a single member, mandatory and voting, so that it decides the quorum in both
  of the code's conditions.
- *Extraction.* Two jobs may be for the same document; two workers may take the same
  job; one crash leaves a job behind while the other process goes on.
- *Annotation.* Three calls are a run, one that races or resumes it, and one that meets
  what both left; two restarts flip a switch on and off again. `MCLastAlone` explores
  the third call, and whatever follows a second restart, only where one request at
  most is in progress: it is the observer of what the two others left. `MaxRefused` = 1:
  one output at a time is refused after a restart.
- *Audit.* Three sessions are a holder, a waiter and one that is rolled back; four
  numbers leave a gap in the middle and one at the end.
- *Pipeline.* Two bundles are enough for two lock orders; three calls are a document,
  a newer one and a reader of either. `MCLastBridges` explores states after the third
  call only where every request is past the assembly and no run has been alone, so
  that the third call is a bridge.
- *Matrix.* Three offers are two that are compared and one that changes; scores 1 and 2
  give ties and order. `MCInit` gives one offer any file (its blocking documents all
  declared or none) and the others a complete one, with at most two unknown scores,
  technical scores up to 2 and the other pillars 0 or 1, and a threshold of 2 or
  none; `MCBounds` keeps overrides to the offer with the open file.
- *Events.* Three transactions are an invitation, a revocation and one that commits
  between them; a batch of two out of five events makes the limit matter.

**Symmetry** is used for connections, requests and writers in runs without liveness
properties only.

**Deadlock** is checked in the runs of `WorkspaceSeal` and `ComparativeMatrix`, where
some step is always possible. The others really stop: a sealed committee refuses every
request, extraction ends when every document is done, and in the others no request is
left once the bound on them is reached.

**Fairness.** `RequestsEnd` assumes `SF_vars(Step(c))`: PostgreSQL queues the
waiters of a lock in order and a handler has no loop, so a request that can go on
again and again does go on. `TakenJobsSettle` assumes `WF_vars(Step(p))`: a process
that is not lost goes on, and no step of it waits for another. `EventsArrive` assumes
`WF` of `Poll` and `Send`: the handler's loop comes round every two seconds as long
as the client stays. Nothing is assumed of new requests, crashes, aborts,
disconnections or of what others change.

**Mutants.** Each property of a passing run has a mutated definition in the module
(a disabled trigger, an overwriting upsert, a missing ORDER BY, a lock released too
early, ...) that makes it fail.

## 4. What disagrees with the documents

Properties that are stated as a document, a comment or a test states them, and do not
hold. The first three are findings in `PROJECT.json`, which quotes the lines.

1. `SealedWhenSealable` (`CommitteeSealable`): `FOR UPDATE` in `seal_committee_decision`
   serialises two seals but nothing is checked under it. A cancelled committee becomes
   sealed, or the decision that is sealed is not the one that was checked.
2. `SealedUnderChecks` (`WorkspaceChecks`): the quorum and the flags are read before the
   PV is built and are not read again.
3. `RerunCompletes` (`PipelineRerun`): `tests/pipeline/test_pipeline_v5_integration.py`
   runs the pipeline again without `force_m14` and asserts that it completes; the
   assembler refuses any workspace that has an evaluation document. The branch of
   `run_pipeline_v5` that skips M14 is reached in a race only, and then raises.
4. `AlterationDetectable` (`AuditDigest`): `ADR-M1B-001_audit_hash_chain.md:219`, "Toute
   altération de `audit_log` est détectable par `fn_verify_audit_chain()`". The digest
   leaves out `payload`, `ip_address` and `id`, and joins the other columns without a
   delimiter, so that the same text may be divided otherwise; and no row vouches for
   the last one. `VerifiedAsWritten` states what a verified range does vouch for.
5. `RosterFrozen` (`CommitteeRoster`): README.md promises that a locked committee's
   composition never changes. `remove_member` reads `draft`, another request opens and a
   third seals, then the DELETE runs: migration 030 guards INSERT and UPDATE only.
6. `SealedRosterFrozen` (`WorkspaceRoster`): "Après scellement : aucune modification
   possible". add-member checks the session without a lock and no trigger guards the members.
7. `WarningNeverBlocks` (`WorkspaceWarning`): the optional check compares TEXT with UUID,
   its exception is swallowed, and the transaction is already aborted.
8. `NeverSilent` (`ExtractionSilence`): `engine.py:766`, "échec explicite, jamais
   silencieux". A worker that fails after another finished the job is refused by the
   trigger inside its `except`, before it writes the error row.
9. `CheckpointReadable` (`AnnotationTorn`): `orchestrator.py:222` calls the save atomic. The
   rename is; the temporary name (217) is shared, and a slower request goes on writing
   into the file that another has renamed.
10. `BlockedNoLLM` (`AnnotationBlocked`): `PASS_0_5_QUALITY_GATE_CONTRACT.md:45` promises no
   model call on a blocked document. With the sub-passes the run ends in
   `pass_1d_done`, for which `predict` calls Mistral (`backend.py` 183-200).
11. `ChainVerifies` with a session in autocommit (`AuditAutocommit`): `logger.py:117-125`
    allows it, but the advisory lock then ends with the statement that takes it.
12. `RankedHaveTotals` (`MatrixInformative`): R6 of `decisions/p34_opening_preflight.md`. With
    an informative threshold a row without a technical score is ranked, its total
    counted as 0.
13. `EveryEventSent` (`EventsGap`): `workspace_events.py:47`, "Envoie chaque nouvel event". An
    event that commits after a later-numbered one was sent is never read.

Three more configurations show what nobody promises and a reader might assume:
`EventsReplay` (the journal replayed by id does not give the memberships: a revocation
leaves a role whose invitation is numbered but not committed), `EventsListeners` (a
socket outlives the membership it was opened with) and `EventsTimeline`
(`event-timeline` sorts by the start of the transactions, so its last status need not
be the workspace's).

## 5. Proofs

Eight modules hold proofs, for every value of the constants: any number of sessions,
members, users, roles, documents, offers, numbers, sockets. The only assumptions are
the named ones of the modules: bounds are natural numbers (`BoundsAssumption`,
`MaxSeqAssumption`), role sets are subsets and the lead is a user with a role
(`RolesAssumption`, `LeadAssumption`), no marker is a document or an item
(`DocsAssumption`, `WritersAssumption`), and a catalogue is finite (`CatalogueAssumption`,
`MatrixAssumption`). The theorems about the chain assume `Autocommit = {}`, since the
chain does not verify otherwise (section 4, 11); `AuditTypes` and
`AlwaysVerifiedAsWritten` hold with any writers.

Few of the properties are inductive: they speak of committed rows, while a
transaction that has written will change rows by a commit that no guard protects any
more. Each module therefore strengthens them by what an open transaction may count
on, and each strengthening was model-checked before it was proved.

| Module | Proved of the runs' properties | Strengthening |
|---|---|---|
| `CommitteeLockProofs` | `TypeOK`, `SealRecord`, `SealedIsNewest`, `FrozenAfterSeal`, `OpenedBeforeSealed`, refinement of `DecisionRegister` | `IndInv`, `OpenedInv` |
| `WorkspaceSealProofs` | `TypeOK`, `SealedTogether`, `PvMembersStand`, `ProjectedOnce`, refinement of `WorkspaceLedger` | `IndInv`, `StageInv` |
| `ExtractionJobsProofs` | `TypeOK`, `DoneHasText`, refinement of `ExtractionLedger` | `IndInv`, `TakenIsHeld` |
| `AnnotationRunProofs` | `TypeOK`, `CheckpointCoherent`, `AnswersAreExplained`, `AloneIsDurable` | `RunInv`, `SoloInv`, `Told` |
| `AuditChainProofs` | `TypeOK`, `ChainVerifies`, `GrowsAtTheEnd`, `VerifiedAsWritten`, `UpdatesAreTraced` | `ChainInv`, `NumberInv`, `AlterInv`, `TraceInv` |
| `PipelineV5Proofs` | `TypeOK`, `RunsAssessParticipants`, `NoCircularWait`, `ScoresStand`, `CompletedIsAssessed` | `BridgeInv`, `AloneInv` |
| `ComparativeMatrixProofs` | `TypeOK`, `RankingSound`, `NoFalseWinner`, `SummaryMatchesRows`, `NeverWorse`, `OthersKeepTheirOrder` | `Inv` |
| `WorkspaceEventsProofs` | `TypeOK`, `JournalTellsState`, `MissedOnlyIfLate` | `ShapeInv`, `LockInv`, `IdInv`, `NumberInv`, `SocketInv`, `SentBehind` |

- *Committee.* `LockInv`: transactions that have written hold compatible locks.
  `WriterInv`: a transaction whose lock conflicts with a seal sees an unsealed
  committee, and a seal about to commit names the current candidate. `RequestInv`
  and `NumberInv`: requests carry sensible values, and each decision its own number.
  `OpenedInv`: while a request that has read a status after the opening is in
  progress, the event of the opening is in the table, whatever the status has become.
- *Workspace.* `LockInv` again. `RecordInv` collects the facts of one request:
  who creates the session finds none (`SessionFacts`), who has written the session
  saw no PV, who has written the workspace saw it open, who is adding a member found
  no row, and a PV about to be committed agrees with the rows it writes
  (`WriterFacts`). `JobInv`: jobs exist only after the seal. Most steps are treated at
  once: a *quiet* step replaces one record and no row, so it is enough that the new
  record has its facts and its locks are compatible (`QuietStep`, `QuietOutcome`).
- *Extraction.* `Facts` says at each statement what the process may count on, and
  nothing but the trigger and the primary key protects it: a text read before the
  verdict is never deleted, a verdict is never taken back.
- *Annotation.* Every record, on disk, in a `.tmp` file or in a thread, has the outputs its
  state promises and none ahead of it (`Sound`); that "none ahead" is what makes the next
  pass compute from what stays in the record, and `_reset_from` is what keeps it true when
  a pass runs again. `RunInv` says so of each request at each step of its loop, and of
  the file that `open` has truncated. `SoloInv` holds until a request overlaps another:
  it alone writes to `.tmp` from `open` to `rename`, and what it saves can take the place
  of the checkpoint and lose nothing (`Durable`). `Told` lists what a caller may be told.
- *Audit.* Only the holder of the advisory lock has a number, a hash it has read or
  rows of its own, and these come after all committed rows; so what a session sees is
  a chain (`Chained(Seen(w))`), and appending keeps it one. `TraceInv` counts:
  a committed version is the number of its rows, and a session's updates are its own
  rows and the one it is about to insert. A change outside the digest leaves a log with
  the same numbers and digests, which is the same chain (`TwinChain`). What a verified
  range vouches for does not need the lock: no number is used twice (`NumberInv`), and
  every row but the altered one carries the hash of its contents (`AlterInv`), so a row
  that points to the old hash of the altered row finds no other row with that hash
  (`FollowerVouches`).
- *Pipeline.* A cell cites a document that exists and has the cell's bundle; the cells
  written by open bridges are disjoint and not scored (`Sound`). A bridge holds cells
  below the one it waits for, so among those that wait the one that is furthest waits
  for nobody: `NoCircularWait` follows from a least element. For a run that stays alone
  and sees no swallowed error, `AloneInv` says that it bridges its own document and that
  the cells behind its position are written by it or scored.
- *Matrix.* `Inv` says that the matrix is the one built from the current input; the
  rest is about functions. An injection into `1..k` from a set of `k` elements is onto,
  so ranks have no gap; verdicts are compared leaf by leaf.
- *Events.* An event that waits for its commit is numbered after all that its row has in
  the journal, for its request has held the lock of that row since the number was
  drawn (`NumberInv`); what a socket has passed over, or would by its batch, was committed
  after an event with a greater number (`SocketInv`).

Some theorems are about no property of a run, but about what the runs cannot reach:

- *Liveness.* `RequestsEnd`, `TakenJobsSettle` and `EventsArrive` are model-checked only:
  liveness under fairness is out of the prover's reach. What each of them rests on is
  proved for any number of processes. A request of the workspace seal waits only for
  requests that are nearer their end (`HolderIsAhead`), so no set of them waits in a
  circle (`NeverCircularWait`), and each statement brings it nearer its own
  (`EveryStepAdvances`). A job in processing is in the hands of a worker before its
  verdict, unless a process was lost (`TakenAlwaysHeld`), and each statement brings that
  worker nearer its end (`EveryStepAdvances`). An event that commits in the order of the
  ids is never passed over (`InOrderAlwaysSent`), and each event sent moves the cursor
  forward (`AlwaysSentInOrder`). What is left to TLC is the step from these to "eventually".
- *Quorum.* `check_quorum` counts rows, not people. `QuorumOfOne`: the unique index allows
  one user to have every role, and with at least `QuorumMin` roles besides the observer
  that user is a quorum alone.

These definitions stand in the proof modules; they were checked with TLC on the instances
above, with three connections or processes for the seal and the queue.

## 6. Not modelled, and plan

The map covers a small part of the lines of the repository. Most of the rest has no
state to interleave: endpoints that read and format, scripts and data loads, rule
tables and text heuristics, prompts and answers of language models, OCR, front ends.
A model of those would restate them. What remains and is worth a model, in this order:

1. *Deliberation* (`comments_service.py`): two comments on one cell create two threads
   (no unique index; `created_at` is the start of the transaction, so which thread is
   the oldest may change by a later commit); the history INSERT's failure is caught
   inside the transaction it has aborted.
2. *Projection worker* (`arq_sealed_workspace.py`): ARQ redelivers, the INSERTs are not
   idempotent, and a caught SQL error leaves counters of rows that roll back.
3. *Price lines and market delta* (`market_delta.py`, `m16_comparative.py`): overlapping
   refreshes, where the older read may be written last and stay.
4. *Resilience* (`resilience.py`, `db/core.py`): retries in an aborted transaction hide
   the first error, and the breaker counts each of them.
5. *Couche A scoring, criteria, pipeline service*: weights and tolerances as pure
   functions, partial runs.
6. *Couche B event projector*: its cursor is the greatest id it has read, and an event
   that fails or commits late is skipped. Nothing emits the events it reads nor
   enqueues it, so it comes last.
7. *Proofs*: what of `SealedUnderChecks` and `SealedWhenSealable` does hold, at the time
   of the checks; a bound on what `RosterFrozen` and `SealedRosterFrozen` lose.

Left out for good: the M12, M13 and M16 rule tables and text heuristics, the agent, MQL
and memory (language model answers), authentication, tenancy and rate limits (filters
in front of the requests), assembly and OCR (external services in sequence), Couche B's
numeric aggregates (floating point), front ends, deployment services and scripts.

## 7. How to run

```
tlc -workers 2 -config CommitteeLock.cfg MCCommitteeLock
tlc -workers 2 -config WorkspaceSeal.cfg MCWorkspaceSeal       # also WorkspaceProgress.cfg
tlc -workers 2 -config ExtractionJobs.cfg MCExtractionJobs
tlc -workers 2 -config AnnotationRun.cfg MCAnnotationRun
tlc -workers 2 -config AuditChain.cfg MCAuditChain
tlc -workers 2 -config PipelineV5.cfg MCPipelineV5
tlc -workers 2 -config ComparativeMatrix.cfg MCComparativeMatrix
tlc -workers 2 -config WorkspaceEvents.cfg MCWorkspaceEvents
tlapm CommitteeLockProofs.tla                                  # and the seven other *Proofs.tla
```

The configurations of section 4 run with the MC module of the same component:
`Committee*`, `Workspace*` (WorkspaceSeal), `Extraction*`, `Annotation*`, `Audit*`,
`PipelineRerun`, `MatrixInformative`, and `Events*` (WorkspaceEvents).
