# Formal models of PIA-OS

PIA-OS is a FastAPI / SQLAlchemy / PostgreSQL backend (`src/backend/app`) in which
people hand work to AI services under control: ordered Schedules of handoffs,
single-use delegations and approvals, governed memory, versioned cognitive objects.
Its state lives in PostgreSQL rows written by concurrent requests, one transaction
per request, READ COMMITTED, with row locks, `INSERT ... ON CONFLICT` and triggers.
Nothing else coordinates the requests, so what can go wrong is in the
interleavings of transactions, in commits that fail or lose their confirmation, in
retries, and in values read before a lock and used after it. That is what this
directory models.

Contents: [inventory](#1-inventory), [plan](#2-plan), [modules](#3-modules-and-the-code),
[runs](#4-runs), [where code and documents disagree](#5-where-code-and-documents-disagree),
[theorems](#6-theorems), [limits](#7-abstractions-and-limits).

## 1. Inventory

`PROJECT.json` lists every component with its files; this table is the summary.

| Component (`backend/app/...`) | State | Operations | Hard behaviour | Correct when | Modules |
|---|---|---|---|---|---|
| Destructive approval and execution (`memory/services/destructive_execution_service.py`, `memory/repositories/approval_record_repository.py`, `erasure_record_repository.py`) | `approval_records` (state, binding columns, `consumed_at`), `erasure_records` | `append_approved`, `consume_once`, `revoke_once`, `execute` in phases A, B, C | executors and revokers dispute one row; commit of unknown result; effect without receipt; two instants in one statement; targets that change after they were resolved | at most one effect per approved target; consumed before any effect, by a `WHERE` that found it unexpired; what a call reports is what is durable | `DestructiveExecution` |
| Destructive approval: values and rows (`memory/schemas/destructive_approval.py`, `erasure_target.py`, `erasure_effect.py`, `destructive_execution.py`, the migration of `approval_records`) | three tables of one envelope, `erasure_records` | constructors; store, read back, recognise, revoke; the values on the way to a receipt | an envelope has some forty fields in a header and two child tables, compared by a generated WHERE; who loses reads why in later statements | the rows are the envelope, for the WHERE and for the reader; what is built after the consumption can be built | `Approval`, `DestructiveApproval` |
| Orchestration: schedules, handoffs, delegations, control (`orchestration/services`, `repositories`, `models`, three migrations) | `schedules`, `schedule_steps`, `handoff_attempts`, `handoff_results`, `handoff_attributions`, `execution_observations`, `service_delegations`, `orchestration_control_events` | create, seal, grant, revoke, export, register a block, import a return, activate / pause / resume / cancel | commands under the Schedule's lock against commands without it; `now()` older than the lock; retries; completion against control; checks repeated by several layers | one OPEN attempt per step, steps in order, one ACTIVE delegation, consumed in time, terminal states final, no unobserved change of provider, the events tell the state, no command dies on a constraint | `Handoff`, `OrchestrationRows` |
| Orchestration: envelopes, audit opinions, queries (`orchestration/schemas`, `adapters`, `audit_service.py`) | appended opinions | build an envelope, accept an output, issue an opinion, project rows | the same rule in the request schema, the value object and the database | the layers agree | `ScheduleContracts` (partly) |
| Orchestration: idempotent commands (`command_receipt_service.py`, `routers/orchestration.py`) | `command_receipts` | `claim_command`, replay, effect, `finalize` in one transaction | duplicated and retried requests, also in flight together; lost confirmation; key reused for something else | one effect per key, one answer per key, a replay is never refused | `CommandReceipts` |
| Programmatic access (`api/dependencies.py`, `security/programmatic_access.py`, `security/rate_limit.py`, `repositories/programmatic_access_repository.py`, `scripts/programmatic_principal.py`) | `programmatic_service_principals`, `programmatic_quota_buckets`, limiter in memory | rate limit, authenticate, scope, quota, provision, revoke | requests at the edge of the quota and of a window; revocation while requests are authenticated; lost confirmation | the quota and the rate hold; refusals are free; a dead credential is refused | `Access` |
| Cognitive kernel: versions and lineage (`cognitive/services/version_manager.py`, `clid_manager.py`, `lineage_manager.py`, `multi_input_transformation_manager.py`) | `cognitive_objects` (CLID, revision status), `lineage_edges`, `transformation_records` | add, derive, revise, derive_many | two revisions of one lineage; sources read before another session gives them an identity | one CURRENT object per CLID, no fork, continuity follows the lineage | `Patrimony` (partly) |
| Cognitive kernel: synchronization and causal histories (`synchronization_manager.py`, `causal_history_manager.py`) | the tables of an instance, a package in transit | export, import, record an event | a package read table by table while others commit; imports into an instance that goes on | lineage arrives whole; one CURRENT object per CLID | `Synchronization` (partly) |
| Memory: governance and safety boundary (`governance_manager.py`, `platform_safety_boundary.py`, `context_manager.py`) | `governance_policies` versions | publish a version, resolve a request | precedence of rules, absent versus denied, overlapping versions | a denial is never lost on the way | `Governance` |
| Memory: accessibility policies, retrieval, isolation | `accessibility_policies` versions, memberships of domains, accessibility of objects | transition, retrieve, retrieve isolated | policies published between the readings of one call; pages by offset; a state read before its lock | every change of state has both authorities; an isolated view holds what one version admits domain by domain | `GovernedMemory` (partly) |
| Memory: retention and compliance (`retention_evaluator.py`, `compliance_evaluator.py`) | `retention_policies` versions | publish, assess a candidate, review an operation, a transition or a candidate | judging before everything is observed; ages against the limit of dates; overlapping versions | no answer has to be taken back | `Retention`, `Compliance` |
| Memory: consolidation, persistence (`consolidation_manager.py`, `persistence_manager.py`) | the kernel's tables, read back | consolidate through a port, assess continuity | the port has written before its receipt is verified | a result stands for a whole consolidation | `Consolidation`, `MemoryContinuity` |
| Memory: validated experiences (`validated_experience_repository.py`, its schema and migration) | `validated_experiences`, append-only | append, reconcile | two sessions append under one identity | an answered entry is on record as asked; a conflict is a real one | `ValidatedExperience`, `MemoryContinuity` |
| Predictive accessibility (`predictive_accessibility`, `predictive_evaluation_service.py`) | `predictive_reconfiguration_events`, append-only | evaluate, promote, roll back, route; the public evaluation | versions read before the insertion that decides; waits between transactions; claims that contradict one another | every version has one authorised event; answers hold; a route is covered by what was decided | `PredictiveRouting`, `PublicEvaluation`, `Reconfiguration` |
| Human protection and authorization (`authorization`, `orchestration/protection`, `human_protection_composition.py`) | `human_protection_events` | ask a classifier, resolve, apply a gate, resume | retries of a gate; validity that runs out; pauses and cancellations meanwhile | one immutable application per decision; nothing open under a cancelled Schedule | `HumanProtection`, `SupervisedExport` |
| Connections; MCP supervised export (`connections`, `mcp`) | profiles, claims, snapshots, `connection_execution_receipts` | ensure the manual profile, export through a channel, import | two channels compete for a step; one profile per principal | every attempt is accounted for by its gate, its key and its receipt | `Connections`, `SupervisedExport` (partly) |
| Cognitive kernel: provenance, relationships, integrity, indexes | append-only rows | append, check | none of its own | rows agree with their subjects | not modelled |
| Request validation and secrets; domains and ports of memory; infrastructure; migrations; Python SDK | none beyond the session | wiring, generic CRUD, HTTP client | its retries are the duplicated requests of `CommandReceipts` | | not modelled |

How they interact. A public route passes `Access` (rate limit, credential, scope,
quota, committed before the answer), then claims its command (`CommandReceipts`) and
runs one orchestration service in the same transaction (`Handoff`), whose commit is
the router's. Delegations and approvals are the two consumables: a conditional
`UPDATE` decides who spends them. The destructive pipeline is the only one that
commits in the middle (phase B) because its effects are outside the database. The
cognitive kernel's managers flush and leave the commit to their caller's
`UnitOfWork`. The human gates of the MCP path and the manual export
meet on the same steps (`SupervisedExport`). The memory layer reaches the cognitive
kernel through ports and verifies what comes back (`Consolidation`). All meet only in
PostgreSQL rows; the rate limiter is the only state
of a process, and it is lost with it.

Every hazard, at the line where it bites and with the properties aimed at it, is in
`PROJECT.json` under `hazards`.

## 2. Plan

In the order of importance; a line is done when its modules and runs exist, and its
theorems where they are named.

1. `DestructiveExecution`, implementing `SingleUseGrant`. **Done**; every property of its
   run is proved.
2. `Handoff`, the Schedule under concurrent commands, with the rows and events it leaves
   (`OrchestrationRows`, `ScheduleContracts`). **Done**; every property of its run is proved.
3. `CommandReceipts`, implementing `OnceOnly`. **Done**; everything but its
   liveness is proved.
4. `Access`. **Done**; every property of its run is proved.
5. `Patrimony`, implementing `RevisionLine`. **Done**; safety and refinement proved.
6. `Synchronization`. **Done** for objects, lineage, transformations and causal
   histories; the property of its run is proved.
7. `Governance`, `GovernedMemory`. **Done**, every property of the run proved, without the
   candidate gate of a retrieval.
8. `Retention`, `Compliance`. **Done**, every property of the run proved.
9. `Approval`, `DestructiveApproval`. **Done**; every property of its run is proved.
10. `Consolidation`, `ValidatedExperience`, `MemoryContinuity`. **Done**; every property of
    the run is proved.
11. `PredictiveRouting`, `PublicEvaluation`, `Reconfiguration`. **Done**; every property of
    the run is proved.
12. `Connections`, `HumanProtection`, `SupervisedExport`. **Done** for one step, every
    property of the run proved; next: two Schedules of one principal, which race for its
    manual profile.
13. Left: which locks every orchestration command takes in which order (`LOCK_ORDER` in
    `orchestration_repository.py`, with the key-share locks of foreign keys); predecessors of
    causal events in packages; provenance and relationships.

Modules keep what proofs need: constants with named assumptions, one action per
operation, no `RECURSIVE` operator, type invariants and safety invariants that are
conjunctions of named parts.

## 3. Modules and the code

`PROJECT.json` maps every definition to its lines. An operation keeps its name from
the code; a session's program counter names what it does next. Definitions marked
*Mutant* are plausible faults of the definition that follows them; no specification
uses them.

The database is the same everywhere. A transaction that holds the row lock of all
it touches is one atomic step; one that reads before it locks is split where another
can commit in between. `UPDATE ... WHERE` and `INSERT ... ON CONFLICT` wait for the
holder of the row and evaluate again what it left; an insertion under a unique key
waits for the transaction that inserted the same key. A commit that raises has either
taken effect or not. Locks end with their transaction. `now()` is the first instant
of the transaction, `clock_timestamp()` the instant of evaluation. A value object is a
record, and its constructor is the set or the predicate of what it accepts.

**`DestructiveExecution`.** `envelope`, `state`, `consumed_at` are the columns of
`approval_records`; `lock` its row locks; `effects` counts calls of the
effect port and `recibos` committed `erasure_records`. A process runs `execute`
(`execute`; `resolve_target` per target, where the resolver may answer anything;
the UPDATE of `consume_once`; `EffectObserved` / `EffectNotStarted` / `EffectUnknown`,
`registrar_recibo`) or `revoke_once`, crashes at any point (`Crash`) and may call again
(`NextCall`). The UPDATE is four moments: its `WHERE` (`Transicionar`, with `Condicoes`),
its `SET` (`EvaluateSet`), the row lock (`LockRow`) and the `Commit`. `WHERE` and `SET`
call the volatile `clock_timestamp()` once each: `agora` is the instant compared,
`carimbo` the one written. A call whose UPDATE finds no row reads why in two later
statements (`diagnosticar`, `consultar_vencida`). `ValidarLote` and
`ReferenciaCorresponde` are the comparisons of phase A. `SingleUseGrant` is what the
pipeline promises: a grant is spent or withdrawn, never both, and each item of it is
attempted at most once.

**`Approval`, `DestructiveApproval`.** The same pipeline with the data instead of the
interleavings. `Approval` has the value objects (`DestructiveApprovalProposal`,
`DestructiveApprovalEnvelope` and their parts), the three tables an envelope becomes
(`Rows`: `ApprovalRecord`, `ApprovalRecordTarget`, `itens_de_governanca`), the WHERE that
recognises it (`condicoes_de_binding`, `condicoes_das_filhas`) and the way back
(`reconstruir`, which orders child rows by their positions, `InOrder`, and finds one by its
position, `RowAt`). `DestructiveApproval` runs `append_approved`, `get_materialized`,
`revoke_once` and `execute`, with the refusals of phase A, the values built
after the consumption and the receipts. A call that wins its UPDATE is one step, over which
time may pass. One that loses (`Loses`) is kept in `defeated` until its two reads
(`diagnosticar`, `consultar_vencida`) tell it why, and others commit between the three.
`BindingIsWhole` (section 6) is why
`DestructiveExecution` may compare envelopes as values.

**`Handoff`.** One Schedule: the state columns of its rows, `created_at` and
`valid_until` where they are compared, `observed` for the observations of a changed
provider. `Begin` captures `now()`; the command may run much later. `seal_step` /
`seal_commit` and `revoke` / `revoke_active_delegations` are the commands that read
without the Schedule's lock and so take two steps. `Blocked` and `Preflight` are the
refusals of an export, `apply` the control commands with `Transitions` as the table
of states, `complete_if_all_returned` and `observar_troca_de_provedor` are part of
`import_return`. Whatever raises is `Rollback`.

**`ScheduleContracts`.** What the schemas and value objects of orchestration accept
(`StepInput`, `validate_gate_keys`, `canonical_constraints`, `gate_requirement`,
`validate_output`, `issue`, `assert_opinion_matrix`), and beside each what the tables
accept (`gate_marker_is_valid`, `context_refs_canonical`, `audit_opinion_matrix_is_valid`,
`stop_category_matrix`). A text is its length and what it is made of.

**`OrchestrationRows`.** `Handoff` with the records it leaves: `control_events` is the table
of control events, written by the commands that `applyWithEvent`, `registerBlockWithEvent`
and `importWithEvent` extend; the rows of the other tables are functions of the state of
`Handoff` (`StepRows`, `AttemptRows`, `HandoffResultRows`, ...). `TablesAdmit` are the
constraints and unique indexes of the three migrations over those rows,
`GuardServiceDelegation` and `AppendsOnly` the triggers.

**`CommandReceipts`.** `receipt` is the committed row of a key, `claimer` who holds
it uncommitted, `effects` the committed effects. The export route looks for a replay
(`PhaseZero`), locks the Schedule, looks again (`Recheck`), runs its preflight, and
claims; the other commands claim at once. `WriteEffect` commits effect and receipt
together. `OnceOnly` is the promise: the first request performed under a key owns it.

**`Access`.** `hits` is the limiter's deque per client and `passes` the history of what it
let through; `is_allowed` drops what left the window (`Pops`) and compares the rest with
`Limit`. `row` are the principals, `used` the committed quota counters and `holder` the lock
on a counter. A request passes `dispatch` (the limiter), `authenticate` (row and scope),
`consume_quota`, `commit`;
`RevokeRead` and `RevokeWrite` are the two statements of the revoke command.

**`Patrimony`.** `object` holds CLID and revision status, `records` the
transformation records with their edges, `lock` the `FOR UPDATE` locks. `Refresh` is
`refresh_for_update`, `Check` the checks of `revise`, `FlushCurrent` the insertion
of the CURRENT object against the partial unique index, `Load` one unlocked read of
a merge; `derive`, `revise`, `derive_many` are the commits. `RevisionLine` is the
promise: the versions of a CLID form one sequence and only its head is revised.

**`Synchronization`.** `db` holds the tables of each instance and `package` what an
export has read of them; `read`, `importing` and `report` are the progress of an
export, the classification an import has made, and its outcome. `derive`, `revise` and
`record` are committed writes of other sessions (`ensure_history` is part of
`record`). `ExportBegins` and `read_table` read one table per step in the order of the
foreign keys; `classify` splits a package into new, identical and conflicting rows;
`ImportEnds` inserts the new ones, later, under the primary keys, unique indexes and
foreign keys of the destination, whose violation fails the whole import.

**`Governance`.** Pure: a rule `matches` a request, `assess_capability` is the safety
boundary, `effective_version_at` the greatest version in force, `evaluate` the
precedence of denials, `resolve` their composition. `Coherent` is what the constructor
of a resolution refuses to build. `AccessibilityRule` is the rule of the other policy.

**`GovernedMemory`.** `governance` and `accessibility` hold the published versions,
`object`, `membership` and `causal_events` the rows others commit (`Environment`). A
session makes one call. A transition resolves the governance policy
(`resolve_transition`), locks and reads its subject (`refresh_for_update`), evaluates
the accessibility policy (`evaluate_transition`) and writes (`transition_write`). A
retrieval resolves the whole context (`resolve_read`), reads the memberships of its
domains (`resolver_escopo`) and collects pages (`coletar`); an isolated one first
resolves each domain alone (`decidir_dominio`), reads its memberships
(`snapshot_autorizado`), and in the end compares (`verificar_resultado`). Each step is
one statement, because policies are published between them.

**`Retention`, `Compliance`.** `avaliar_retencao` is the evaluation of one candidate by the
rules that reach it, `effective_retention_at` the version in force. `Compliance` publishes
retention versions (`add_policy`), lets days pass, and reviews an operation
(`avaliar_governanca`), a transition (`avaliar_acessibilidade`) or a candidate
(`avaliar_conformidade_retencao`, which asks the evaluator of retention).
`CoerenciaDoDesfecho` is what the constructor of a report refuses.

**`Consolidation`, `ValidatedExperience`, `MemoryContinuity`.** `derive_many` gives the
rows and the receipt of a merge, `assess` what `PersistenceManager` reads back of the new
object, `Verified` what `ConsolidationManager` and the constructor of its result accept of
the two. `ValidatedExperienceAppend` is an entry, `Materializar` its row,
`ExperienceTableAccepts` the table. In `MemoryContinuity` sessions `consolidate`, `record`
first causal events (`ensure_history`) and `append` / `insert` entries (a version beyond its
INTEGER column is an error of the statement, `insert_refused`) inside units of work
that end by `commit` or `rollback`; `PortAnswers` are answers of the port that differ
from the kernel's in one respect, and `Deadlock` is the cycle of two waiting insertions.
`Canonical` sorts what is asked as the code does before it derives (`Sorted`).

**`PredictiveRouting`, `PublicEvaluation`, `Reconfiguration`.** `predictive_evaluate_item`
takes a claim to an outcome, `predictive_protection_set`,
`predictive_validate_guidance` and `escolher_alternativa` judge its branches, guidance and
burdens, `rotas` and `_CONSERVADORISMO` give and order the routes. What raises is a
predicate: `validates` and `PredictiveCounterfactualSet` of an item, `routable` of a
decision, `Evaluates` of a batch.
`PublicEvaluation` is the chain from bytes (`deserialize_piap_envelope`,
`to_internal_request`) to an answer, a refusal or an exception. In `Reconfiguration` the
committed `events` are the log, `mine` what a transaction inserted; the expiry of an
approval is no column of it, so events that differ in it only are the same event
(`same_event`). A call evaluates
its batch, passes a gate per item (`predictive_reconfiguration_gate`,
`predictive_rollback_gate`), waits for rivals of the same key (`Waits`, `append`,
`DeadlockVictim`), routes and commits.

**`Connections`, `HumanProtection`, `SupervisedExport`.** `Connections` has the rows,
indexes and triggers of profiles, catalog, claims, snapshots and receipts.
`HumanProtection` goes from the text of a classifier (`interpret_classification_text`,
`authorize`) over the resolution (`resolver`, on `Governance`) and its validity to the
event (`HumanProtectionApplication`, the checks of the table, `confirmar_vencedor`).
`SupervisedExport` runs the transactions: `exportar` with G2, the command key, `lock_step`,
G3 and the seal; the manual export with `ensure_manual_profile`; gates on their own
(`aplicar`), `retomar`, `cancelar` and `import_return`. A caller of `aplicar` may say which
effects it has had already (`efeitos`, one of `Vouched`); a pause it vouches for is not asked
of the port. The ports that pause, revoke and resume (`WorkPausePort`,
`DelegationRevocationPort`, `WorkResumePort`) have no implementation in the repository; the
nearest code, `ControlService.register_pause`, returns None on a terminal Schedule
(`control_service.py:240-241`). `PortWrites` therefore lets a port write the state of the
Schedule in the transaction of the gate, whatever that state was, or write nothing, and
`PortFails` lets it raise. That a recorded block leaves the work paused is not claimed.

## 4. Runs

| Run | Shows | Bounds and why they are enough |
|---|---|---|
| `destructive` | an effect only by the authority of its row, compared in time; effects, receipts and reports agree; no lock outlives its transaction; implements `SingleUseGrant` | two executors and a revoker on one approval of two targets: every pair of disputants meets, and the first target can succeed while the second fails. An envelope that cites another version of a target, a batch that names one target twice. Three instants: an approval can expire between the `WHERE` and the `SET`, the lock or the commit of one UPDATE. |
| `approval` | rows, envelopes, refusals and receipts say the same (`ApprovalsStand`); a record changes once, for the holder of its envelope, and the holder who loses is told there is no record or another envelope only if the UPDATE came before the record (`TransitionsBound`) | eleven candidates, a confirmed envelope and others that differ from it in one thing each, some of which a constructor or a table refuses; batches right, of another controller and too short; the resolver and the port answer everything of their small vocabularies. One call between its UPDATE and its two reads, while every other call commits: one is enough, because the reads concern no other loser. Two instants: before an approval expires and at its expiry, so a row can be stamped at its expiry |
| `handoff` | one return per step, delegations spent once and in time, changes of provider observed when attempts are created in order, events and rows that agree with every layer, terminal states final, no trigger hit | two sessions; an open step that may also be sealed on its own, and a delegated one; two attempts (a retry) and two delegations (a renewal) per step; a declared provider and none; one tick (an expiry); three control events (a pause, a resume, an end) |
| `command_receipts` | one effect and one answer per key, replays not refused, every request ends | three requests over three keys, one of them used for two Schedules: a winner, a waiter and a latecomer |
| `access` | the quota and the rate hold, refusals are free, dead credentials are refused | three requests against a quota of one; windows of two instants on four, so a window ends and another begins |
| `patrimony` | one CURRENT object per CLID, no fork, CLIDs follow the lineage, implements `RevisionLine`, calls end | two sessions, four objects: a root, two branches of it revised at once, and a merge |
| `synchronization` | lineage arrives whole and no CLID gets two heads, whatever is committed between the statements of an export or of an import | one exporter and one importer that share an object and may make three more, so that both can revise branches of one lineage; events about the shared object and about a new one |
| `governed_memory` | every change of accessibility has both authorities and its evidence; an isolated view is admitted domain by domain by one version; results are well formed | two calls of either kind, so that two transitions or a transition and a view meet; two versions of each policy, the second stricter or of another authority; two objects, two domains, pages of one object so that a view needs several |
| `compliance` | reports are ones their constructors accept; what a review decides survives seeing what was left open; rules and days never bring a due date forward | three retention versions, overlapping: rules of different ages, one of them longer than the calendar, and a version closed early; every observation with any part unseen; six days |
| `predictive` | one authorised event per version; what was answered of an item agrees with the log; routes rest on what was decided | two sessions over twelve batches, five rollbacks and twelve public requests: rivals for one version, two subjects inserted in either order (a deadlock), the same event under a longer approval, an item that cites the wrong subject, contradicting claims, branches that exclude each other, an approval of something else, and what makes the evaluation raise: an empty scope, a version below one, alternatives that cannot be compared |
| `supervised_export` | attempts, applications of gates, keys and receipts account for each other; nothing stays open under a cancelled Schedule, whatever the ports write | two sessions on one step, two attempts (a retry), one key (a replay), answers that allow, block or say nothing, callers that vouch for a pause or not, one tick (a validity that ends) |
| `memory_records` | what a consolidation answered is whole, in its session and once committed; answered entries are on record | two sessions, three objects and two merged from them or from each other, four requests, a port wrong in one respect; three entries under one identity, one of them beyond its column, and six malformed ones |

`CHECK_DEADLOCK FALSE` is said where the system stops because its bounds are used up
(all requests answered, the clock at its end, no object left); `DestructiveExecution`
and `Reconfiguration` go on for ever and are checked for deadlock.

Fairness is stated where a liveness property needs it, in `CommandReceipts`
(`RequestsEnd`) and `Patrimony` (`CallsEnd`). A request that can take its next statement
takes it: weak fairness where nothing disables it, strong fairness where it waits for a
row, because PostgreSQL queues the waiters of a row or of an index entry and the holder's
end wakes them. Time, arrivals, failures and crashes are never
fair. Both properties say that a call ends; they fail if a lock outlives its transaction.
For the destructive pipeline the same hazard is a safety property, `LockHoldersCommit`,
which is proved.

## 5. Where code and documents disagree

Met while modelling, read off the code and reachable in the models unless said otherwise.
The properties are stated so that they hold of the code as it is.

*Orchestration.*
- A change of provider can pass unobserved: the previous attribution is looked for by
  `created_at`, which is `now()` (`orchestration_repository.py:1198`). A retry whose
  transaction began before the first attempt's sees no predecessor. `SwitchObservedInOrder`
  speaks of attempts created in order and claims nothing of the others.
- Completion is looked for only when a return is imported and only while ACTIVE
  (`control_service.py:272`). The last return imported while PAUSED leaves a Schedule that
  is ACTIVE for ever after its resume, with every step RETURNED.
- `seal_handoff_once`, which no route calls, checks without the Schedule's lock
  (`handoff_service.py:188`): it can add an OPEN attempt to a step returned or cancelled
  meanwhile, and one without a delegation to a delegated step. `ReturnedByLastAttempt` and
  `TerminalHasNoOpenWork` except the steps of `SealedSteps`, and `OneDelegationPerAttempt`
  speaks of the others.
- Events are listed by `occurred_at`, the beginning of their transactions
  (`orchestration_repository.py:1086`), which need not be the order of their commits.
- The branch for an already paused Schedule in `register_block` cannot be reached from the
  route, whose preflight requires ACTIVE. The reason `DELEGATION_EXPIRED` is never given.
- Python's `$` lets a digest followed by a line feed pass the value object; the request
  schema and the table refuse it. NUL characters pass the application and not PostgreSQL
  (`Text` has none).

*Destructive pipeline.*
- `execute` catches only `TransactionError` around the receipt
  (`destructive_execution_service.py:302`), but a failing flush surfaces as
  `PersistenceError` (`base_repository.py:77`): a material effect without a receipt and
  without the error that is documented for it.
- The port may answer a failure code of 65 to 512 characters, which the receipt refuses
  after the effect (run `approval`). A volume beyond INTEGER cannot be stored as an approval.
- `LOST_CONCURRENT_RACE` is never answered for an approval, although the vocabulary
  (`approval_lifecycle_enums.py:136`) and the repository (`approval_record_repository.py:40-42`)
  document it for whoever loses and then reads the record as active: `_diagnosticar` answers
  BINDING_MISMATCH (line 669), also to the holder of the confirmed envelope whose UPDATE ran
  before the record was committed. `TransitionsBound` excepts that one case.
- The repository describes the expiry as decided by the server's clock in the statement
  (`approval_record_repository.py:20-23`). `WHERE` and `SET` each call `clock_timestamp()`,
  no constraint relates `consumed_at` to `expires_at`, and the statement may then wait for
  the row: a row may be stamped, and committed, at or after its expiry. `EffectsAuthorised`
  claims the instant that was compared, and that the stamp is not before it.
- A failed `BaseRepository.add` rolls the whole session back, although its docstring leaves
  the transaction to the caller (`base_repository.py:56`).

*Gates and supervised export.*
- `GovernanceBinding` refuses a classifier version longer than 16 characters
  (`binding.py:39`), and both classifiers of `authorization` build longer ones
  (`openai_classifier.py:136`, `ollama_classifier.py:148`): composed as they are, every gate
  raises. The instance has a classifier of either kind.
- The supervised export does not ask `ScheduleService.advance`, documented as the single
  point that authorises the next step (`schedule_service.py:198`).
- The ports a gate pauses, revokes and resumes with have no implementation; a caller that
  passes `pause_applied=True` records a block without a pause
  (`human_protection_composition.py:352-353`).
- A block of G2 or G3 through MCP raises, and the rollback takes its own pause and event
  with it. A replayed import answers `accepted=False`. A resume decided before a later
  block can undo that block's pause.

*Others.*
- Some `ValueError`s of evaluation and routing escape `evaluate_and_route`
  (`predictive_evaluation_service.py:117`), outside the handlers that turn them into a
  refusal.
- The credential is checked before the wait for the quota counter and not after it
  (`programmatic_access.py:149`): a request of a principal revoked or expired meanwhile is
  admitted. `DeadCredentialRefused` speaks of credentials dead when the request arrives.
- The constructor of a criterion takes any positive version (`validated_experience.py:298-304`),
  its column an INTEGER (migration `e7c25a91f4b3`, line 201): beyond it `append` raises the
  database's error.
- Of two concurrent revocations of a principal the second overwrites the instant of the
  first, although revoking is documented to keep it (`RevokeRead`, `RevokeWrite`).
- An import of only new rows may fail with a raw error of the database where the docstring
  lists three results per record.
- A search is paged by offset with one statement per page: an object deleted in between
  makes a retrieval skip an admissible object, and one inserted with an earlier
  `created_at` makes it fail with a duplicate, although the search calls its paging stable.
- What the consolidation cannot see of its port: the input references of the record, the
  predecessor of its event, whether the target is new. `Whole` states what it can.

## 6. Theorems

Proved by TLAPS for every value of the constants that meets the named assumptions. These
say that model values differ (`None` or `Null` is no row, answer or error), that bounds are naturals,
that what is asked, published or answered has the form its schema gives it, and, where
something is counted or a least or greatest one is taken, that the set is finite. TLC
evaluates each assumption in the runs. An invariant that is not inductive is strengthened
to one that is; TLC checked each strengthening before its proof. A proof has one lemma per
action, and under it one step per conjunct the action can disturb.

Every property of every run is stated by a theorem, except the liveness of
`command_receipts` and `patrimony`. Eight modules hold the proofs; a module that holds
those of two components extends both, which share no constant and no variable.

**`DestructiveExecution_proofs`**: every property of the run. `AtMostOneEffect` is not
inductive: a second executor in phase C would break it. The inductive invariant adds
`LockInv` (a lock is held by the process about to commit), `BatchInv` (positions lie in
the batch), `OwnerInv` (at most one process is in phase C under an approval, and only once
it is CONSUMED; a row not consumed has no effects), `EffectInv` (targets from the
owner's position on are not yet attempted), `AuthInv` (who got past the WHERE of a row
presents its envelope, compared in time and stamped no earlier, with its targets resolved) and
`AccountInv` (effects and receipts agree up to the owner's position, and
there is no receipt after it). A crashed owner keeps its approval
consumed, so nobody replaces it. `ExpiryHeld` (`ComparedBeforeExpiry`) is about the instant
of the `WHERE`; of the stamp it says only that it is not earlier.
`SingleUse` maps each commit to `Spend` or `Withdraw` and each effect to an attempt of the grant.

The same module proves the run `memory_records`, for any number of sessions, objects, entries
and requests: `RowsStayCommittable` (`ContinuityTypeOK`), `ResultsStayWhole`
(`ConsolidationsWhole`), `ExperiencesStayAgreed` (`ExperiencesAgree`).
- About the operators, for every set of rows: a request that passes has a canonical order
  (`SourcesInOrder`, `PredecessorsInOrder`: two or three sources and at most two
  predecessors, so no induction is needed); an answer that is verified is whole, whatever the
  port wrote (`VerifiedIsWhole`); and the kernel's own answer is always verified
  (`DeriveVerified`). `RowsAccepted` takes each row from its constructor to the constraints of
  its table.
- About the sessions: what one sees being well formed is not inductive, because what another
  commits is added to it. The invariant therefore speaks of all rows, committed or not:
  they are typed and their keys hold even between sessions (`TypedRows`, `UniqueRows` over
  `Everywhere`), which an insertion that waits for its rival keeps. What rows refer to is
  seen with them (`RefersTo`). Sessions write about different objects and subjects
  (`ApartInv`), so a commit of one adds nothing about what another was answered
  (`CommittedExtends`) and every answer stays on record (`Borne`). `PendingInv` is what an
  insertion that waits still rests on when it runs.

**`Approval_proofs`**, on the data of the same pipeline.
- `BindingIsWhole`: the header, the targets and the items of governance of two envelopes are
  equal exactly if the envelopes are: each field has a column or a place in an ordered child
  row, and lists are told apart by their positions.
- `ApprovalsHold` (`ApprovalsStand`), `TransitionsAreBound` (`TransitionsBound`). The
  inductive invariant is `Stored` (there is no record, or its rows are `Rows` of the
  confirmed envelope and the table accepts them), `ValuesForm` and `Accounts` (each receipt
  `Cites` a CONSUMED record and one target of its envelope, and no subject has two). The
  proof needs that rows read back as the envelope they were written from (`RowsReadBack`),
  that the WHERE holds of that envelope only (`ConditionsHold`), and that what is refused,
  resolved and receipted is what the constructors accept (`RefusalsForm`,
  `TargetsResolved`, `ReceiptBuilt`, `Effects`). `Doubts` is what is known of a call between
  its UPDATE and its reads: it holds another envelope, or its record has moved for good, or
  it has expired for good; records and time only move on, so a later read finds it.

**`OrchestrationRows_proofs`**, on `Handoff` and the rows it leaves. `RowsImplementHandoff`:
the rows implement the life they record, so what is proved of `Handoff` holds of the run's
specification.
- `HandoffTyped`, `SingleOpenAttempt`, `SequentialDispatch`, `DelegationInTime`,
  `SingleActiveDelegation`: `IInv`, these with `Created` (no step exists before its Schedule
  does), is inductive: each needs only the type, the guards under the lock and, for the
  delegations, that a consumption stamps the `now()` it compared.
- `TerminalStaysFinal`, `ReturnsOnce`, `DelegationsPaidOnce`: what steps, attempts and
  delegations owe each other needs more. `WorkInv` adds that an OPEN attempt is the last
  one of its step (`OpenIsLast`: else a return of an earlier one would not be the last
  verdict), that the steps are all there (`StepsExist`: else a cancellation would leave one
  out), that what consumed a delegation exists (`ConsumersExist`: else the next attempt
  could find its number taken), and that only `SealedSteps` are sealed on their own
  (`SealingSealed`). A Schedule that completes leaves nothing open because a returned step
  that is never sealed has no OPEN attempt (`ReturnedIsClosed`).
- `EventsTell`, `TriggersNeverHit`: every move of the Schedule is recorded by one event and
  every event goes with a move (`EveryMoveRecorded`), from a state the kind can be written
  in (`Before`). `Moves` says how one transaction moves steps, attempts, attributions and
  delegations; with `AttributionInv` (attributed attempts are closed, and observations are
  about attributed ones) nothing the triggers protect is ever written twice.
- `SwitchesObserved` (`SwitchObservedInOrder`): the observation is written by the
  transaction that attributes the later attempt, and nothing it compares changes after it.
- `LayersAlwaysAgree`, `RowsAlwaysAgree` (`RowsAgree`): the tables admit every row the
  commands write, so a constraint never turns a command into an error, and schemas, value
  objects and tables agree on what they accept. Beside the invariants above it needs `Rooted`
  (before the Schedule nothing of its steps exists and nobody is sealing) and that the step
  an event names was there.

The same module proves the run `predictive`, for any number of sessions, batches and
rollbacks: `ReconfigurationTypes`, `HistoryIsSound`, `RoutesAreSound`. Each event is
`Grounded` in the rows its session sees: the version it follows, the approval bound to it
and, for a rollback, the event made active again. Rows only grow, so it stays grounded when
it is committed (`LogInv`). Two sessions never hold the same row uncommitted, because the
insertion of a version waits for its rival (`MineInv`, which is what makes uniqueness in the
log inductive). `AppendingInv` is what a gate knows of the event before its insertion: only
rivals may have its version, since it is newer than all the session has inserted itself.
`DecisionInv` (what was told is what the rows say, for those who see them), `ProgressInv`
(one decision per claim, and the routes are those of the decisions) and `CallInv` carry the
answers. A transaction that loses a race or rolls back takes back the decisions with the rows.

**`CommandReceipts_proofs`** (`ReceiptsTyped`, `KeyedOnce`, `SameAnswer`, `OneAnswer`,
`OnceOnlyRefined`, `ReplaysAreNotRefused`). `ClaimInv` (who claimed and may write the effect is the claimer of
a key without a committed receipt) makes `ExactlyOnce` inductive, and the refinement
maps each commit with a claim to `Perform` and everything else to a stutter. A replay is not
refused because the second search for it is made under the lock of the Schedule, which a rival
with the same fingerprint needs to commit (`ReplayInv`).

The same module proves `PatrimonyStaysWhole` (`PatrimonyWhole`, run `synchronization`) for
any number of instances, exporters, importers and sessions. `TablesInv` is what one instance
has of its own: every object has an origin, every transformation its edge, every SUPERSEDED
object the revision that superseded it, and a CLID one CURRENT object. `OneOrigin` says that
a transformation is the same record wherever it arrived, and `EventsAtHome` that an instance
has every event made there, so a new one gets a number no package can bring. `PackageInv`
grows table by table: objects are read first, so whatever is read later covers them, and an
object read as SUPERSEDED is covered by the transformations read after it. `PlanInv` is what
an import has classified and not yet inserted: each new row is in some instance as it is in
the package. The constraints of the destination decide the rest when it is inserted.

**`Access_proofs`** (`QuotaKept`, `AdmissionsAreSound`, `RowsAreKept`). The quota needs that
the transaction about to commit holds its bucket and that no other does, so that a place
found free under the lock still is (`HolderInv`). A credential that was dead when its request
arrived stays dead until it is authenticated, and then there is none (`DeadInv`). The rate
needs `WindowInv`: the deque is the end of what was let through, what it forgot is before the
window, and an instant and the one `MaxRequests` later are more than `WindowSeconds` apart.

**`Patrimony_proofs`** (`LineagesHold`, `IdentityHolds`, `RevisionLineRefined`,
`LineagesHaveOneHistory`). The lineages are sound because a row is as read while it is locked
and of a row read without a lock only the CLID is used, which never changes once it is there
(`ReadInv`); because a lineage with a superseded object has its CURRENT one (`LineInv`); and
because a revision past the unique index is alone under its CLID (`RevisionInv`). The
refinement maps the commit of a revision to a step of `RevisionLine`.

**`GovernedMemory_proofs`**, on `Governance` and its callers, and on `Compliance`.
- `AuthorizedByVersion`, `ResolutionsCoherent` speak of the operators for every set of
  policies: the version found is one in force because bounded versions have a greatest, the
  rule cited one that applies because identifiers have a least (`LeastNumber`, from the
  well-foundedness of the naturals). Nothing is authorized without a published version that
  admits it.
- `TransitionsAdmitted`, `ViewsIsolated`: `IInv` is one predicate per session, and rests on
  three facts: policies and memberships only grow, so an authority found stays (`Governed`,
  `Decides`); the row read under the lock is still the row (`Held`); and a version has one
  content, so that equal identities are one policy, which is why comparing identities in the
  end (`SameIdentity`) is enough although each domain was decided at a different moment.
  `OthersKept` is the frame: what a step must leave alone for the invariant of another
  session to survive it.
- `GovernedTyped`: results are well formed. A view is collected in the order of the search,
  page by page, and each place in it comes after the one before (`Ranks`, `PlacesGrow`,
  `PageSize`); what a transition is judged by is a decision (`AvaliarJudges`).
- `ReportsAccepted`, `ReviewsHold`: the invariant says that the last report answers the last
  question and that the question could be posed (`ReviewInv`); the rest is about the
  evaluators. What they answer is well formed (`ReviewSound`). What a review decided it
  decides of every finer observation, and what it left open some finer one decides
  (`ReviewDecides`), unless a rule's age is longer than the calendar: then every anchor
  overflows (`RetentionOpen`). An assessment informs exactly when the version is in force and
  every rule that reaches the unprotected candidate is due (`InformsExactly`; the last due
  date exists because dates are bounded, `LatestDue`), so later days and fewer rules keep it
  (`AssessmentStands`).

**`SupervisedExport_proofs`** (`TypeCorrect`, `ExportsAreAccounted`, `CancelledStaysClosed`).
A transaction writes nothing before its commit, so the invariant speaks of
what it is about to write: what it has by the statement it is at (`WorkInv`), that this is not
there yet and that its locks keep the Schedule it read (`AheadInv`), and that two transactions
write different things (`ApartInv`), because they wait for each other on the Schedule, the key
or the identity of an event. An export, its gate, its key and its receipt are then committed
together or not at all.

Only model-checked:
- liveness, `CallsEnd` and `RequestsEnd`: fairness and ENABLED are out of the prover's reach;
- that the situations the theorems speak of are reached: every action of every run fires, and
  each property fails under a plausible fault of the code (`mutants` in `PROJECT.json`).

No module declares a RECURSIVE operator; induction over data (what a recursive definition
computes for every input) is out of the prover's reach as well, which is why sequences are
walked by actions and quantifiers.

## 7. Abstractions and limits

- Data that no property tells apart is gone: payloads, hashes, names, audit texts.
  Identifiers are model values or small numbers; a text is its length and kind where its
  limits matter, a digest the value it digests, a failure code its length.
- `DestructiveExecution`: phase A's reads are one step per target; of the two instants a
  `SET` writes only `consumed_at` is kept. `append_approved` is its commit. In
  `DestructiveApproval` a call that wins its UPDATE is one step, over which time may pass:
  its statements, locks and failing commits are those of `DestructiveExecution`.
- `Handoff`: one Schedule, because no command touches two. Attempts and delegations
  are numbered in the order of creation. Commands that take the Schedule's lock first
  are atomic: whatever they read is read under it. A step behind the human gate can never be
  exported (the port that would allow it denies everything), so the instance has none. Opinions are accepted or refused, not kept.
- `Access`: BEGIN and the first SELECT of a request are one step, so `now()` is the
  instant of authentication. The limiter is one process's; several workers each have
  their own, so `RateHeld` is per worker.
- `Patrimony`: one service call per transaction. A generated CLID is named after the
  new object. A record stands for itself and its edges. The key-share locks of a
  merge's edges are modelled by waiting for the holders at its commit.
- `Synchronization`: malformed envelopes, the preflight of causal cycles (no package the
  code exports has one), predecessors of events, and the sections of provenance and
  relationships, which travel like the lineage, are left out. `updated_at` stands for the
  last write of a row. What is new is decided in one step and inserted in another.
- `GovernedMemory`: one call per session; the optional candidate gate and search criteria
  beyond "not deleted" are left out; the memberships of all domains of a call are one
  read. Objects are numbered in the order of the search. A reason is there or not.
  What may be published, joined and asked are the constants of the instance.
- `Compliance`: observations are given; nobody in the code makes them. A due date beyond the
  last datetime is an overflow, as in the code.
- `PredictiveRouting`: what the estimators compute (floating point over histories) enters as
  its result. The only caller of the chain in the application is the public evaluation,
  which promotes nothing; gates and rollbacks are the domain's interface, used by its tests.
- `SupervisedExport`: one step of one Schedule; the protocol, tokens and rate limits of the
  MCP server decide only whether a call arrives. Pause, revocation and resumption are ports
  without an implementation, so what they do is any of what a port could. The HTTP
  calls of classifiers are the texts they may answer. `import_return` is the return service, without its content.
- PostgreSQL (row locks, unique-index waits, `ON CONFLICT`, READ COMMITTED) is external
  and modelled from what the code relies on; triggers that constrain a row are guards of
  the actions that write it, or predicates the rows are checked against.
- Not modelled: request validation and secrets (checks of one request in isolation), creation
  of memory domains and ports, provenance, relationships, integrity checks and structural
  indexes (append-only rows nothing reads to decide), infrastructure, upgrades and downgrades
  of the database, and the Python SDK (an HTTP client whose retries are duplicated requests).
