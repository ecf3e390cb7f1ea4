# RNFE: a TLA+ verification project

RNFE ("red neuro-fractal evolutiva") runs *episodes*: a small simulated world is
observed, a chain of reasoning families interprets it, an intervention is
chosen, the outcome is evaluated, certified by a court, remembered, and written
to an audited storage. Around that loop sit a controller of the representational
scale (MSRC), a hybrid SQLite/PostgreSQL storage, a homeostasis layer and a
generation of older, quarantined infrastructure.

This directory holds the specifications of the parts whose behaviour is hard to
test: what each guarantees under every estimate, failure, crash and
interleaving, model-checked with TLC on small instances and, where stated,
proved with TLAPS for every value of the constants. Paths below are relative to
the repository.

Contents

1. Inventory of the system
2. Plan: modules, order, abstract specifications, theorems
3. The modules and the code they model
4. Runs: questions, results, bounds
5. Proofs
6. Fairness, and what is only model-checked
7. Disagreements between code and documents
8. What is not modelled

## 1. Inventory of the system

| Component | State it keeps | Operations | Interacts with | Hard behaviour | What makes it correct |
|---|---|---|---|---|---|
| **Multi-scale resolution controller** `runtime/control/msrc`, driven by `runtime/reality/msrc_policy_benchmark.py` | current scale, evidence counters, cooldown, lock, probe in flight, regret/oscillation counters | `MSRCController.step`: estimate, decide, audit, execute, probe | driver loop (hands the probe result back one step later), storage events, scale catalogue | decisions act on a probe result of an earlier step; a move is written in two places; an executor or the storage may raise between two effects | a probe is answered once and for its own target, no move during a lock, the audit ledger gives the scale, it implements a switch with hysteresis |
| **Hybrid storage** `runtime/storage/backends/hybrid_store.py` | two stores (PostgreSQL, SQLite) | every write to both, every read from one then the other | facade, all components | two halves without common lock, one of them failing or a crash in between, stale store answering reads | acknowledged writes survive; reads show them; stores agree when nothing failed |
| **Event ledger and migration** `runtime/core/event_log_sqlite.py`, `runtime/storage/migrations` | tables `events`, backup table, `ledger_events` | open (with rebuild of an old table), log, paged copy | several processes on one file | DDL that commits statement by statement, stop in the middle, pages by OFFSET over a growing table | no event destroyed, the copy complete and under the right ids |
| **Storage facade, SQLite, PostgreSQL, artifacts** `runtime/storage` | rows, artifact files | upserts, queries, artifact put | everything | file written before its row | a row has its file |
| **Certification and promotion gate** `runtime/certification`, `runtime/memory/mfm_lite` | certificates, decisions, memory records, the risk series in memory | `PromotionGate.process_episode` | court, storage, risk tracker, scenario runner | up to a dozen separate writes, a stop between any two; a certificate first written and then overwritten by the court's verdict; a tracker seeded from storage after a restart; a closing event looked for among a limited number of events | certificate, decision, memory, rules and events of an episode agree at every moment; a valid episode is certified |
| **Organism court** `runtime/organism/court_runtime.py` and the engines it calls | trajectory, risks and flow calibration in memory; snapshots, windows, flow reports, chained risk states and failure events in storage | `ingest_episode` | gate, storage | a dozen writes per episode, to two stores of which either may raise; a new runner continues a run with a trajectory of its own and the risks of the storage, under ids that repeat | risk states chain without gap, the risk goes on over new runners, a ruling has its evidence in storage |
| **Organism life: autoevolution, lineage, self-modification, ecology** `runtime/organism` | lineage, active proposal, checkpoint, knobs | observe an episode: propose, monitor, keep, roll back | runner, storage, court | proposals monitored over several episodes; rollback to a checkpoint | a trial is judged on its window or undone; the organism goes back only on record |
| **Reality service and laboratories** `runtime/reality` | assessments, benchmark runs | run, evaluate, gate, persist | runner, storage | partial persistence of a benchmark | a benchmark row counts its assessments |
| **World: scenarios, runner** `runtime/world` | world of one episode, previous belief | `run_episode` | all of the above, in a fixed order | order of its fifteen steps, certificate attached after it is needed | the court sees the certificate |
| **Reasoning** `runtime/reasoning` | evidence of the selector, plan of the episode, executed families | select, validate, run families, observe a reward; external thinker call | world signals, storage, local model server | a sequence filled, cut, corrected and stopped early under competing rules; evidence kept in memory and rebuilt from the ledger | what ran closes the episode; directives are obeyed; every reward counts once |
| **Homeostasis** `runtime/control/homeostasis`, `runtime/memory/persistence` | phase of the shutdown, counters of bad samples, cooldown | sample, degrade, shut down in phases, save state | operating system, state preserver | nothing live creates it; its emergency path calls functions with arguments they do not take | - |
| **Core infrastructure** `runtime/core/infrastructure.py`, `event_bus.py`, `hook_manager.py`, `quarantine_manager.py` | queue per severity, router task, closing shutdown, subscriptions | publish, route, shut down | runner, training loop, vitals watch | bounded queues that fill while their reader is gone, sentinels, a shutdown that waits | no severity starves; a shutdown that found room returns |
| **Orchestration** `runtime/core/orchestration` | lifecycle state, tasks of one event loop, an executor thread, the shutdown flag | run forever, train, watch the vitals, stop | bus, trainer, orchestrator | cancellation inside any await, exceptions in a cycle, a step still in the executor when its loop is cancelled, an executor released under the loop | legal lifecycle moves; told to stop, it stops and leaves nothing running |
| **Core cognition, evolution, symbolic/EML, LOTF, SMG, telemetry** | numeric state | scores, searches, snapshots | runner | real arithmetic | - |
| **Exocortex, lab, scripts, engines, hnet, mamba_ssm, archive, contracts, docs** | - | tools, vendored models, older code, documents | - | - | - |

The live path is scenario runner -> reasoning -> court and promotion gate ->
storage, with the MSRC controller beside it; `docs/analysis/LEGACY_QUARANTINE.md`
lists the core infrastructure that nothing live imports any more.

## 2. Plan

Order: the most important decision loop first, then what all components stand
on, then the rest of the live path, then the runtime's concurrency.

1. **MSRC** (done): `ScaleCatalog`, `MSRC`, `MSRCProperties`,
   `ScaleScoring`, `MSRCDefault`, `MSRCDowngrade`; abstract specification
   `ScaleHysteresis`. Theorems: types, step invariant, the three safety properties,
   the refinement, and that the default catalogue never lowers the scale.
2. **Storage** (done): `HybridStorage`; theorems `StrictReads`, `Kept`.
3. **Event ledger** (done): `EventLedger` with the abstract log `AppendLog`;
   theorems: types, `EventsSurvive`, `EverythingVisible`, `FaithfulCopy`, and the
   refinement (`LedgerIsALog`).
4. **Organism life** (done but for the posterior): `OrganismVitality`,
   `AutoEvolution`, abstract specification `KnobTrial`. Theorems: types, trial
   invariant, how trials end and are judged, the clock, the refinement.
5. **Promotion gate** (done): `EpisodeGate`, abstract specification
   `CertificateLife`. Theorems: what is stored of an episode agrees (`Gate`), the
   refinement (`Lives`), valid episodes are certified (`Valid`), the series
   follows the ledger (`TailSurvives`), types.
6. **Reasoning** (done but for the external thinker): `ReasoningPolicy` (the
   selection, a pure algorithm) and `ReasoningRun` (evidence, plan, families).
   Theorems: the evidence is the ledger (`EvidenceCounted`), what closes has the
   core (`ClosureKept`), one correction is enough (`OneCorrection`), directives are
   obeyed (`DirectivesObeyed`), types (`TypeCorrect`).
7. **Runtime** (done but for construction): `EventBus`, `RuntimeRunner`, abstract
   specification `Lifecycle`; liveness. Theorems: `Quiet`, `Lifecycles`, types
   with the capacity of the queues.
8. **Court** (done but for the edge between regimes): `ConstitutionalRisk`,
   `OrganismCourt`, abstract specification `RiskProcess`. Theorems: types, the
   chain of risk states (`Chain`), the refinement (`RiskIsAProcess`), a ruling's
   evidence (`Evidence`), a block after a new runner (`BlocksLast`).
9. **Left**: the event identity of the storage facade in the hybrid mode; the
   posterior of the organism; the edge scope of the court. Of the proofs: only
   liveness, which section 6 leaves to TLC.

How the modules stand on one another: `MSRC` instantiates over `ScaleCatalog`,
`MSRCDefault` composes it with `ScaleScoring`; `AutoEvolution` extends
`OrganismVitality`; `OrganismCourt` extends `ConstitutionalRisk`; `ReasoningRun` extends `ReasoningPolicy`; `RuntimeRunner`
composes `EventBus` and `Lifecycle` on one event loop. Each abstract
specification (`ScaleHysteresis`, `AppendLog`, `KnobTrial`, `CertificateLife`,
`Lifecycle`, `RiskProcess`) is a property of a run. The components meet in the storage: the
gate's court ruling, the court's impression of an episode and the reasoning's
signals are inputs there, any value of
which the other component might give.

## 3. The modules and the code they model

### Multi-scale controller

`ScaleCatalog` is the catalogue (`scale_catalog.py`): ranks, executable scales
and `nearest_executable` with its tie to the coarser scale.

`MSRC` is one run of the driver `run_policy` with one `MSRCController.step` per
iteration. The policy state (`ScalePolicyState` of `contracts.py`) is `scale`
(`current_scale_id`), the two evidence counters, `cooldown`, `lock`
(`scale_lock_remaining`), `inflight` (`probe_inflight_target`), `last_action`
and the two audit counters. `phase` walks through the points at which a step's
effects leave the process: the decision, the audit events
(`log_probe_started`, `_completed`/`_committed`/`_discarded`, `log_decision`,
`log_transition`) and the execution of the action. `Abort` is an exception of
the storage or the episode anywhere. One action per outcome of
`ScalePolicyEngine.decide`: the handling of a probe result (`CommitProbe`,
`DiscardProbe`) before lock and cooldown (`HoldLock`, `HoldCooldown`), then
`KeepOptimal`, the upgrade branch (`AccumulateUpgrade`, `ForkProbe`,
`UpgradeScale`) and the downgrade branch (`RefuseDowngrade`,
`AccumulateDowngrade`, `DowngradeScale`). What an estimate tells the control
flow is a `Reading`: regime, selected scale, upgrade signal, probe advice,
"still useful". All three engines (baseline, aggressive, regime_v3) share the
control flow; they differ in profiles and in `RegimeAware`.

`ScaleScoring` is the arithmetic behind a reading, from component scores to
demand, candidates, cognitive scores, lexicographic choice and signals, for all
three engines, with the floats of the code scaled to integers so that every sum
is exact. `MSRCDefault` feeds the readings it computes to `MSRC`, and
`MSRCDowngrade` is its baseline policy in a run of low demand, with the number of
decisions since the scale last moved as a history variable (`stayed`).
The run evaluates the arithmetic for the baseline engine; for the other two it is
what `DefaultNeverFalls` is proved from.

`MSRCProperties` states types, safety, the step invariant and the refinement;
`ScaleHysteresis` is the abstract switch.

### Hybrid storage

`HybridStorage` models `_dual_write` and `_read_with_fallback`, the only two
shapes of `HybridStorageBackend`'s methods. A record is the version last written
under its primary key, both stores upsert. A write is four steps (begin, first
half, second half, return or raise); a half may raise before or after its
commit. A read asks the preferred store and, if that has no row or raises, the
other. `Crash` stops the process between any two steps. `strict`, chosen at the
start, and the constant `PreferPrimary` are the two configuration flags.

### Event ledger

`EventLedger` models `_ensure_schema` statement by statement. Python's `sqlite3`
(legacy transaction control) commits DDL at once, and the `INSERT ... SELECT`
together with the rest at `commit()`; a table is a function from row ids to
events, `sequence` the AUTOINCREMENT counter. Several openers interleave on one
file. `orderly`, chosen at the start, tells the two uses apart: openers that
take turns and end in order, or openers at once that may stop anywhere. The migration reads pages by
OFFSET from whichever table it finds and writes rows into `ledger_events` keyed
by the old id (`ON CONFLICT DO NOTHING`), fails and is run again at any time.
`AppendLog` is the abstract growing log with a replica that only ever holds a
part of it.

### Organism life

`OrganismVitality` holds the pure part: the transition of the organism by an
episode (`TrajectoryStateMachine.advance_state`), the constitution's violations
and verdict, the margin of `ViabilityKernel.assess` and the thresholds read from
it. The decimals of the code have fixed coefficients, so the model computes with
integers in units of 1/100000; the rounding of the margin to four digits is left
out. A belief is its composite confidence and the number of hard invariants it
breaks.

`AutoEvolution` is the life of one organism. One action is one episode as
`run_episode` ends it: transition, certificate (`certificates`, which is also
the clock), evidence, then the branch `observe_episode` takes, in the order of
the code: `Rollback`, `Watch`/`Revert`/`Commit`, `Rest`, `Endure`, `Blocked`,
`NoCandidate`, `Quarantined`, `Apply`. `knobs` are the two parameters of the
runner, `checkpoint` and `monitor` the records of the controller, `lineage` the
counts of accepted modifications and rollbacks. `NextBlock` is the life loop: a
new runner and controller with default knobs, the old organism and lineage.
`trial_ioc` is a history variable. The verdict of a certificate is written and
read by nothing here, which is the point of the run `auto_certified`.

`KnobTrial` is the abstract specification: knobs are tightened a step at a time,
one trial at a time, watched for its window, and otherwise only put back.

### Certification and promotion gate

`EpisodeGate` is the run of a scenario runner as its gate sees it: `Close` is
`run_episode` up to the event that closes the episode, then one action per
storage write of `PromotionGate.process_episode` (`Propose`, `Issue`,
`Overrule`, `Decide`, `WriteMicro`, `WriteMeso`, `WriteMacro`, `Report`), and
`Reward` for the rest of the episode. `Assess` is everything the gate computes
before its first write: the closure, which needs the closing event among the
events `list_events` gives, continuity, indicator, risk and the certificate of
the builder; the tracker counts the episode there, before it has a certificate.
`Replace` ends runner and process between any two writes, and a new runner, of
another world perhaps, takes the run up from what is stored: its tracker is
seeded from the certificates, or, where the listing fails, from none
(`risk_engine.py` swallows the failure); the history variable `missed` counts the
certificates so lost. Scores are exact (hundredths, 1/10000). What an
episode shows and what the court rules are inputs; `sovereign` is the mode of
the court. `NewestFirst` is the order in which the storage lists events, which
differs between SQLite and PostgreSQL. Left out: the obstruction tracker, whose
block only goes into the metadata of the certificate (shadow mode), and the rows
the court writes on its own, which the gate does not read back.

`CertificateLife` is what a reader of the records may rely on: one verdict,
lowered at most until a decision stands on it, and nothing taken back after.

### Reasoning

`ReasoningPolicy` is the selection of `policy.py` as operators: the profiles, the
budget of steps, the groups of families the signals trigger, the proposal, its
filling, cutting and governing by the selector's directives, the structural
checks, the one correction and the safe profile. `ReasoningRun` runs it: `Begin`
asks the selector (`reward_guided.py`) for directives from its evidence and plans
an episode, `RunFamily` runs the next family or stops early, `Observe` gives the
reward to the selector, `Report` writes it to the ledger (`scenario_runner.py`
does them in this order), `Replace` starts a new runner, seeded from the ledger at
its first episode. What the seeding gives (`Readings`) is the rewards among 256
events of every type, the newest with SQLite and the oldest with PostgreSQL, or
nothing when the listing fails, which the selector takes for an empty ledger and
never repeats; the history variable `reading` keeps which stretch it was. A context is a record of signals in hundredths. The operators
were compared with the Python functions on some 1500 random contexts.

Left out: the kill switch
`RNFE_EXECUTE_PROPOSED_SEQUENCE`; a custom sequence given by the caller; evidence
shared between ecologies; the entropy term of the reward, an input here. The
scenario runner supplies only some of the signals, so that on the live path the
budget grants six or seven steps; the runs allow the whole range.

### Runtime

`RuntimeRunner` is `run_forever` with the tasks it starts. They share one asyncio
loop, so that one action is what a task does between two awaits that suspend it:
`get` and `put` on a queue with an item, or with room, do not. The executor is a
thread, and while the runner waits for it (`closing`) no task runs. The runner
starts (`Start`), cancels its tasks when the flag is set (`BeginStop`), gathers
them and stops; the training loop goes through `BeginCycle`, the executor's step,
`NoResult` or `Result`, `Adapted`, `Heartbeat`, `EndCycle`, or `Fail`s anywhere,
and can be cancelled in any of its waits; the watch publishes a batch of alarms.
The loop's `head` exists only for reading: whoever is there decides at once.
`Released` is what `Orchestrator.shutdown` does to the executor.

`EventBus` has a bounded queue per severity, a router and a shutdown that puts a
sentinel into each queue and waits for the router. Handlers only log and are left
out, as is the worker pool, which nothing creates. `Lifecycle` is the table of
transitions with the marks that ignore a state they do not apply to, and, as the
specification `LifecycleSpec`, what the runner implements.

### Organism court

`ConstitutionalRisk` is the arithmetic in units of 1/10000: the classes of failure
an episode shows (`Failures`), what they add to a risk (`Rise`, `Gamma`, with the
decay of 0.92) and what the risks let the organism do (`CanonicalScope`).

`OrganismCourt` is `ingest_episode`, one action per call of the storage: `Advance`
puts the episode on the trajectory, `WriteSnapshot`, `WriteWindow` and `WriteFlow`
record it, and then for each scope `Assess` moves the risk (taken from storage if
the runner knows none), `Link` reads the row to follow, `WriteRow` and `WriteAtlas`
write; `Rule` is the ruling. `points` is the length of the trajectory, from which
windows and reports take their ids, `known` the risks in memory. The storage is one
store, or two in the lenient or strict mode of `HybridStorage`; here its calls are
single steps in which each store may raise, before or after its commit, or the
process stop between the two. No caller catches, so that an error ends the runner
as `Stop` does: memory is gone, rows stay. What an episode shows is an input,
with nothing to compare on the first point of a trajectory. The failure events of
a row are one call; a runner has one scenario, hence no scope "edge" and no
renormalization.

`RiskProcess` is what remains when runners are forgotten: a number per scope that
each update moves from where the last one left it.

## 4. Runs

Deadlock checking is off only where the modelled system really stops: the end
of `run_policy`, of a life of two blocks, of the episodes of a run under its
bound, and of the runtime, which ends when it has stopped, while a bus whose
shutdown found a full queue and no router stays where it is.

| Run | Question | Result |
|---|---|---|
| `msrc_regime` | three executable scales, regime profiles, every estimate and probe outcome, failures of the storage anywhere | types, fresh probe results, ledger gives the scale, probes answered, refinement of `ScaleHysteresis` (no switch under a lock) |
| `msrc_baseline_downgrade` | the same arithmetic, baseline engine, every episode with low demand under high pressure | `LowDemandComesDown` violated, see section 7 |
| `hybrid_dual_write` | one writer, one reader, both modes, failures and crashes | strict reads show acknowledged writes; writes are kept: undamaged stores agree, an acknowledged write is in one store |
| `ledger_life` | two processes, orderly or stopping anywhere, repeated and failing migrations | nothing destroyed; if orderly events are visible, the copy faithful, complete and under the right ids; refines `AppendLog` |
| `ledger_stopped_rebuild` | stop in the middle of the rebuild | violated, see section 7 |
| `auto_life` | two runners of an organism that falls ill, any sequence of four kinds of episodes, both memory modes | types and trial invariant of the proofs, trials judged on the whole window and undone by rollbacks, the clock goes back only on record, refines `KnobTrial` |
| `auto_certified` | does a certificate help the organism | violated, see section 7 |
| `episode_gate` | three episodes in two worlds, both modes of the court, runner replaced between any two writes; the two worlds are interchangeable (only whether their formulas differ is ever asked), so the run is taken up to their symmetry | types, what is stored of an episode agrees, the risk series survives as far as the listing works, valid episodes are certified, refines `CertificateLife` |
| `gate_oldest_events` | the same with the oldest events listed first | violated, see section 7 |
| `reasoning_run` | one episode of each of 600 kinds of context under each profile, four under profiles the selector governs, runners replaced anywhere, listings of the newest rewards, of the oldest and failing | types, what ran closes, one correction suffices, directives rule, the evidence is what was listed and every episode since |
| `runtime_runner` | two queue places, two cycles, shutdown of runner and bus at any moment, failing or empty steps | types, a stopped runner is quiet, refines `Lifecycle`; told to stop it stops, no severity starves, a bounded run ends, a bus shutdown that found room returns |
| `organism_court` | five episodes in two scopes, one store or two in either mode, errors, stops and new runners anywhere | risk states chain without gap, rulings have their evidence, the risk is one process (`RiskProcess`), a block outlives its runner |

### Bounds, and why they are enough

- **Episodes** (MSRC): 10 under arbitrary readings and 14 in the run of low demand: three go up, and ten stay
  (lock 3, cooldown 2, evidence 5) before a downgrade is overdue.
  The longest causal chain a property speaks of is: accumulate evidence, fork,
  failed or measured probe, its handling, lock and cooldown, and the same again.
  10 iterations hold two such cycles of the regime profiles and a third
  executable scale. The proofs do without the bound.
- **ProbeDelta** has one value on each side of each threshold the code compares
  a gain with: a loss, less than the measuring threshold, between it and the
  commit thresholds, above them.
- **Inputs** (`MCMSRCDefault`): a grid with values on both sides of each
  threshold of the estimator and the classifier; `LowDemand` is the part of it
  with the demand of `tests/msrc/test_scale_policy_engine.py:80`.
  `DefaultNeverFalls` is proved for all inputs.
- **Writes** (hybrid): 3 versions over two keys with one writer and one reader. A
  stale answer needs one missed write and one read, a divergence two writes; the
  third write checks that a later success repairs nothing silently. `StoresAgree`
  and `ReadSeesAck` are claims about one writing thread, and the second about the
  strict mode: without it a write that one store missed is acknowledged and a
  later read may be answered from that store, and two threads that write one key
  may reach the stores in opposite orders. `StrictReads` is proved for any number
  of writes, keys and readers.
- **LastEvent** (ledger) 6 (5 in `ledger_stopped_rebuild`) with old rows 1 and 3,
  a gap in their ids, a page of 2 rows and two processes: several pages, a page
  that ends exactly at the table's end, appends between pages, a rebuild under
  another opener's feet.
- **Life** (`MCAutoEvolution`): two blocks of four episodes from the age of 24,
  reached by 24 good episodes with nothing retrieved. Younger organisms are healthy with good episodes
  and cannot be on trial; at 28 the margin of a good life falls below the
  trigger. Window and cooldown are 2 instead of 3 and 4, the patience is the
  code's: one block holds a degraded pair, an applied modification and its whole
  window, or a healthy point, a trial and a rollback during it; the second block
  repeats it with another organism, and finds no candidate in strict mode. Four
  kinds of episodes are enough for each branch: good, poor without violation, one
  violation (quarantine) and four (rollback). The indicator has two values: only
  the sign of a difference matters. `Earned` is the evidence (4) below which the
  lower confidence bound cannot reach 0.60 for a degraded organism; above it
  acceptance is open.
- **Verdicts** is the single value "certified": nothing else in the model reads
  it, and `CertifiedImproves` speaks of it alone.
- **Gate**: three episodes, the fewest at which a rule (`Support` 2) can be made,
  then supported again, and a series (`MaxHistory` 2) is trimmed. An episode
  writes four events; `EventLimit` is 4, so that the closing event is in the
  window by one place once the run is longer, and the rows of the episode before
  push it out when the oldest are listed. `MesoLimit` is 2 where the code lists 500
  records: a third one leaves the oldest out of the support. Five impressions, in a run
  whose court rules and in one whose court does not: between them each branch of
  builder, ruling, decision and rule is taken. The theorems hold for any number of
  each.
- **Reasoning**: each signal on both sides of the thresholds the policy compares
  it with, crossed, 600 kinds with fifteen profiles and two modes; three adaptive
  episodes with `MinObs` 1 let the evidence turn families on and off; a listing
  holds one reward or two (`SeedSizes`) or, when it fails, none, so that after two
  episodes the newest, the oldest, both and nothing are different readings; the
  fixed run has a fourth episode, which may list two of three.
- **Runtime**: `Capacity` 2 and `MaxCycles` 2. Two heartbeats or one batch of
  alarms fill a queue; two cycles let a cycle without result be the one that
  meets the limit.
- **Court**: five episodes, two scopes, two mishaps (errors of a store, stops,
  changes of runner). A gap or a branch in the chain needs a missed write and one
  read after it, in a runner that still knows the risk or in a new one; a block
  needs four episodes that stain the memory, and a restart before the fifth.
  Two windows of one number need two runners. The scopes are treated alike, and
  the organism is the first: two are enough for a scope that was reached and one
  that was not. Two impressions: calm, and one with a critical failure. The
  theorems hold for any number of each.

## 5. Proofs

All theorems are of the specifications as TLC checks them, with only the named
assumptions of the modules on their constants. No bound appears in them.

- **`MSRCProofs`**. From `CatalogAssumption` and `MSRCAssumption` (scales with
  natural ranks, profiles of naturals and integers, readings that are readings):
  `TypeCorrect`; `StepInvariant`, the invariant `StepInv`; from it
  `FreshPending`, `LedgerScale`, `LedgerAnswers`, `LockIsRespected`,
  `CommitsAreUpgrades`, and `Refinement`: every step of the controller is a step
  of `ScaleHysteresis` or stutters. None of the safety properties is inductive:
  that a pending result belongs to the probe in flight is only true because, all
  through the step that forked it, the fork was in flight at a finer scale and
  out of lock (`ForkIsInFlight`), the result was that fork's (`ResultIsOfTheFork`),
  the scale had moved exactly when the action said so (`MoveIsMade`), the old
  result had been consumed (`ResultIsConsumed`) and the ledger had followed
  (`LedgerFollowsStep`). `StepInv` is the conjunction.
  `DefaultNeverFalls` instantiates it: over the default catalogue, for
  *every* input of the estimator (`Observed \subseteq Input`) and each engine, a
  reading selects 5x5, hence no action lowers the scale. The lemma bounds the difference of two cognitive
  scores below by more than the equivalence margin.
- **`HybridStorageProofs`**. `StrictReads`: in strict mode with one writer,
  `ReadSeesAck` for any keys, readers, failures and crashes. The strengthening
  `OneWriterInv` says that both stores hold what was acknowledged
  (`AckIsInBoth`), the write in progress is the newest and is where it did not
  raise (`WriteIsNewest`), and a read's floor is acknowledged (`FloorIsAcked`);
  without the second conjunct the return of a write would not be inductive.
  `Kept`: with one writer, in both modes, `WritesAreKept`. Its invariant `KeptInv`
  says besides that no store is ahead of the newest write, that what was
  acknowledged is in one of them (`AckIsInOne`), and that undamaged stores differ
  by exactly the half written of the call in progress (`HalfWritten`). Two writers
  of one key are outside the theorem as they are outside the property.
- **`EventLedgerProofs`**. `EventsSurvive`: for any number of openers that stop
  anywhere, `NothingDestroyed`. The strengthening `FileInv` relates the tables
  to the openers in the middle of a rebuild. `TypeInvariant` adds that the newest
  event is no older than the old table's (`TypesInv`). When the openers take turns
  and end in order, `EverythingVisible` (`VisibleIfOrderly`), `FaithfulCopy`
  (`CopyIsFaithful`) and `LedgerIsALog` (`ImplementsLog`) follow from `OrderlyInv`:
  the rows are in the backup during a rebuild and in `events` otherwise
  (`RebuildIsWhole`), in the order of their ids (`RowsInOrder`), and the rows up to
  the migration's OFFSET are copied or in the page in hand, under their ids
  (`CopyIsPrefix`). That is why pages by OFFSET miss nothing although the table
  grows between them: appended rows rank after every offset.
- **`AutoEvolutionProofs`**. From `ConstantsAssumption` (positive window,
  cooldown and evidence threshold; a start whose organism is not of the
  future): `TypeInvariant`, which rests on `AdvanceType`, the transition stays
  in its ranges for every experience; `TrialInvariant`; from it `TrialsEnd`, and
  with the types `ClockGoesBack` and `Refinement`. That a rollback undoes the
  trial is not inductive by itself: a checkpoint may be older than several kept
  modifications, so the invariant orders the knobs, checkpoint no tighter than
  backup, backup strictly looser than the trial (`OnTrial`, `InReserve`).
  `WholeWindow` (`JudgedOnTheWholeWindow`) rests on the same invariant: the gains
  collected add up to the change of the indicator since the trial began, and the
  clocks of healthy point, trial and episode differ, so that an organism that comes
  back is the trial's and no other. The
  theorems hold for any length of block, window and cooldown. The arithmetic of
  the viability margin stays closed: the proofs only need that a checkpoint was
  not itself due for a rollback.
- **`EpisodeGateProofs`**. From `GateAssumption`: `Gate` (`GateInv`), `Lives`
  (every step is a step of `CertificateLife` or stutters) and `Valid` (with
  `NewestFirst`, `ValidIsCertified` for any limit of the listing). The invariant
  `IInv` adds to `GateInv` the types and `InGate`, how far the episode in the gate
  is: later episodes have nothing on record, the one in the gate has nothing but
  its certificate until it is decided, and from then on the draft is what is
  stored. Neither `RulingStands` nor `DecisionOnRecord` is inductive without it;
  `MemoryOnRecord` needs that later episodes have no record, so that the support
  a rule counted stands. `Valid` rests on one more invariant: while an episode is
  assessed the last event of the run is the one that closed it, and it is among
  the newest however few are listed.
  `TailSurvives` (`SeriesFollowsLedger`) holds whether listings work or fail, from
  the first certificate that the runner could read or made itself. It rests on
  `TailInv`: every certificate has its place in the ledger and a score, so that one more certificate appends one
  element to the ledger (`LedgerGrows`), and the tail of the newest goes on with
  it (`KeptGoesOn`). With it `TypeInvariant` follows, with the bound on the series.
- **`RuntimeRunnerProofs`**. From the assumptions on capacity and cycles: `Quiet`
  (`StoppedIsQuiet`) and `Lifecycles`. The invariant `RunInv` says which states of
  the lifecycle go with each place of the runner (`StateOfRunner`) and which tasks
  are over there (`TasksOfRunner`); the lemma `TrainStep` reduces the training
  loop to what it can do to the lifecycle: degrade it while the runner waits.
  `TypeInvariant` has the bounded queues: the watch publishes as many of its alarms
  as find room, the heartbeat waits for its queue, a shutdown stops at the first
  full queue and the router leaves no more than it found (lemmas `PublishFits`,
  `HeartbeatFits`, `SentinelsFit`, `LeftIsShorter`).
- **`ReasoningRunProofs`**. From `ReasoningAssumption` (setups name a profile, a
  mode and a regime the code has, contexts have their ranges, the selector governs
  optional families): `EvidenceCounted` (`EvidenceIsTheLedger`), `ClosureKept`
  (`ClosureHolds`), `OneCorrection` (`CorrectionSuffices`), `DirectivesObeyed`
  (`DirectivesRule`) and `TypeCorrect`, for all contexts and every number in their
  ranges, where the run has 600 kinds of them.
  For the evidence, bags are compared by the copies they hold (`SameBag`), and the
  copies in the bag of a sequence are its places (`Sown`). The theorem assumes no
  order of the backend and no working listing: it says that the bag is that of the
  stretch that was read, whichever, and of all that was appended since. The
  invariant `SelectorInv` adds where that stretch lies (`Placed`): within what the
  ledger held, so that appending leaves it as it is and lengthens the rest by the
  event that was pending (`StretchGoesOn`, `OneMore`).
  For the plans, the argument is about the policy. Each family has a place
  (`Place`) in the validated order, and a composed sequence is one by growing
  place (`InOrder`): an overlay comes behind its anchor, before its limit, and
  nothing that is already there has a place between (`HasRoom`), so that putting
  it in keeps the order (`PutIn`, `Composition`), and order and anchors hold
  (`OrderIsKept`). Which overlays are dropped first is a strict order
  (`SoonerIsAnOrder`), so those kept have room in the steps, and none is dropped
  while all have (`KeptHasRoom`): the corrected sequence passes (`ComposedPasses`).
  `FixedIs`, `AdaptiveIs` and `Composition` say what each kind of profile
  proposes, filling, cutting and forcing prob to the end included; `ValidatedIs`
  and `SelectIs` put them together. `EpisodeInv` (what is run is the beginning of
  a plan that was let through) and `ToldInv` (what is told are observations) are
  then inductive: `FamilyRuns` shows that an early stop never leaves before the
  end, as prob is last and runs once.
- **`OrganismCourtProofs`**. From `CourtAssumption`: `TypeInvariant`, `Chain`
  (`ChainHasNoGap`) and `RiskIsAProcess` (`ImplementsProcess`), for any impressions
  and any number of scopes, episodes and mishaps. The types are not inductive alone: that `Newest` is a
  row needs that the rows of a scope have a newest one (`RowsAreOrdered`). An id,
  once on record, is never lost (lemma `IdsStay`); the chain needs besides that the
  row to follow is on record until its successor is written (`LastOnRecord`),
  whatever store it was read from. For the refinement, `RowsAreMemory`: while the
  store that answers is reliable it has the newest row of each scope, the runner's
  memory is that row's score or empty, and between the update and its row it is one
  step ahead. The lemma `NewestWritten` says that the row written is the newest.
  `Evidence` (`EvidenceIsKept`) rests on `EvidenceInv`: rulings are of the past,
  snapshots stay, a window that no later runner replaced has its report, for every
  ruled episode each scope has a row that all the stores that count have under one
  id (`RowsAreShared`), and the row in hand comes after all of those (`RowIsNew`),
  so that writing it replaces none. `BlocksLast` (`BlockOutlivesRunner`) adds
  `RowsSinceRuling`, what the newest row has become since the last ruling: the row
  after one that blocked comes from at least 8500, decayed, so has at least 7820,
  which keeps the organism in quarantine whoever rules next.

## 6. Fairness, and what is only model-checked

The runtime assumes weak fairness of the runner, the training loop, the watch,
the router, a bus shutdown in progress and the executor. The first five are tasks
of one asyncio loop, which runs each ready callback in the order it became ready:
none is passed over for ever. Of the executor it is assumed that a step of the
trainer ends. Nobody has to ask for a shutdown, of the runner or of the bus: those
two actions have no fairness. When the runner is done its event loop may end with
it, so that what the bus promises is promised until then.

The other specifications assume none: their properties are safety, and the code
gives no scheduling guarantee to build on. The MSRC driver is a `for` loop over
a finite number of episodes that an exception or the operator may end anywhere;
a storage call blocks for as long as its database does; whoever migrates the
ledger may never run the script again; a runner may be the last of its run.

Only model-checked, and why:

- the liveness of the runtime (`EveryEventIsRouted`, `ShutdownCompletes`,
  `BoundedRunEnds`, `BusCloses`): liveness under fairness and ENABLED are out of
  the prover's reach;
- the four properties expected to be violated, of which the runs show the
  counterexample. What the first of them rests on, that the resolution of the
  default catalogue never falls, is proved for every input (`DefaultNeverFalls`).

Every other invariant and action property of a run is stated by a theorem of
section 5. No module declares a RECURSIVE operator.

## 7. Disagreements between code and documents

Each is the counterexample of one run; `PROJECT.json` quotes the line.

- **`msrc_baseline_downgrade`** (`LowDemandComesDown`, `runtime/control/msrc/scale_policy_engine.py:1188`). Governance/adr/ADR_MSRC_MULTISCALE_RESOLUTION.md:37 promises a 'Política con hysteresis, probe mode, downgrade con evidencia y antioscilación', and tests/msrc/test_scale_policy_engine.py:80-96 (test_policy_downgrade_requires_persistent_evidence) expects five decisions of low demand under high pressure to bring the scale from 5x5 to 1x1. The test writes its estimate by hand, with 1x1 as the only candidate. ScaleEstimator never gives such a one: 5x5 is a candidate of every estimate, and _select_lexicographic prefers it by more than the equivalence margin, its prior being 0.72 against 0.35. So the selected scale is never below the current one and _decide_downgrade is never called. In the run every episode asks for at most 0.15 of resolution; the baseline policy goes up to 5x5 after three of them and stays there, past its lock, its cooldown and the five decisions of evidence.
- **`ledger_stopped_rebuild`** (`EventsAreVisible`, `runtime/core/event_log_sqlite.py:46`). The rename, the new table and the copy are three statements, and sqlite3 commits a statement like ALTER TABLE or CREATE TABLE at once; a stop after the rename leaves events_legacy_eve_type behind, the next opening creates an empty table events and finds nothing to migrate, and the old events are read by nobody again. governance/adr/ADR_STORAGE_HYBRID_RNFE.md:31 says "`SQLite` mantiene compatibilidad legacy del ledger (`eve_type -> event_type`)." and docs/analysis/03_core.md:126 calls the migration "idempotente". The run shows a ledger opened without its old events.
- **`auto_certified`** (`CertifiedImproves`, `runtime/organism/trajectory_state_machine.py:34`). The transition of the organism reads episode_result["certification"], which runtime/world/scenario_runner.py adds only to its return value (line 705), after it has called the transition (line 546) and before the episode is certified at all (line 590); so every live episode, certified or not, costs the organism margin and adds degradation and recovery debt, and a life ends in rollbacks after some thirty episodes. tests/organism/test_organism_state.py:229 says "# Certified should improve viability vs rejected", and holds only because the test puts the verdict into the dictionary itself. The run shows a certified episode that leaves the organism as a rejected one would.
- **`gate_oldest_events`** (`ValidIsCertified`, `runtime/storage/backends/postgres_store.py:128`). PostgresStorageBackend.list_events orders the events of the run by time ascending and then applies LIMIT, so it gives the oldest: once a run has 500 events, _has_episode_closed_event (runtime/reality/evaluator.py:85) no longer finds the event of the episode that has just closed, and every later episode is rejected. tests/regression/test_list_events_run_id_filter.py:5-7 says of this very failure that 'como `trace_integrity` / certificación dependen de encontrar el evento `episode.closed` del run, un episodio válido podía fallar por un artefacto de storage', takes PostgreSQL to be free of it ('Postgres ya filtraba en SQL'), and calls what list_events gives 'los más recientes hasta el limit' (line 39), which is what SQLite gives. The run closes three episodes with a limit of four events: the second or third, valid as the first, is rejected.

Disagreements met while modelling that no run keeps, because another run asks more
of the same code:

- the transition event of the controller records source = target, as the state is
  moved before it is logged (`runtime/control/msrc/controller.py:103`), where
  `governance/adr/ADR_MSRC_MULTISCALE_RESOLUTION.md:81` wants decisions
  reconstructible from the ledger: only the decisions and commits allow that;
- a macro rule of one world may be supported by records of another with the same
  formula (`runtime/memory/mfm_lite/promotion.py:28`), where
  `canon/normative/MEMORY_COMPATIBILITY_POLICY_v1.md:157` keeps memories of
  another scenario from the macro level (the two worlds of the run have different
  formulas);
- a shutdown of the bus that finds a full queue and no router does not return
  (`runtime/core/infrastructure.py:100`), where
  `runtime/core/module_orchestrator.py:379` calls the shutdown robust; the property `BusCloses` speaks of the others;
- a training cycle without result is counted and not compared with the limit of
  cycles, and an exception before the loop's `while` leaves the runner waiting
  for a flag nobody sets: `BoundedRunEnds` asks for cycles that give losses;
- the adaptive profile in use takes no directives of the selector
  (`runtime/reasoning/scheduler_meta/policy.py:965`): a family turned off may run,
  where `reward_guided.py:4` of the same directory speaks of governing the optional
  ecology; the property `DirectivesRule` speaks of the other profiles;
- court, lenient mode with an unreliable primary store: a row may follow an older
  one of the store that answers, replace a row of the same id or begin from an old
  risk. `ChainHasNoGap` holds all the same, `ImplementsProcess` is claimed for one
  store or a reliable primary. In the strict mode a row may be written to the
  second store alone, and a later failure of the first one makes it the answer;
- court: an episode that was judged in part moves the risk of the scopes it reached
  (decay included), and the next one moves them again; a new runner begins a
  trajectory of its own and forgets the calibration of the flow and its obligation
  to roll back, while the risk goes on; its windows and flow reports replace those
  of the runner before, so that `EvidenceIsKept` asks for a report only while the
  window is there.

## 8. What is not modelled

- **Court**: the digest of the trajectory, the flow invariants and their
  calibration are real arithmetic, whose results are inputs; the scope "edge" and
  the renormalization (a change of scenario within a runner), the pending
  modification (nothing sets it on this path), the lineage registry and the
  older court are left out. In the gate the ruling is an input, any for any episode.
- **Homeostasis**: the layer is reached through import shims, its protocol
  actions only log, and nothing live creates the monitor or the phased shutdown.
  `life_monitor.py` calls `save_critical_state` and `_emergency_protocol` with
  arguments that their definitions do not take, so that a crisis with a state
  preserver ends in the emergency stop whatever its phases say: a model would
  describe a TypeError.
- **External thinker**: a subprocess with a time-out and at most one repetition on
  the CPU, without state between calls, used in the laboratory only; parsing and
  validating its answer is stateless.
- **Storage facade, SQLite and PostgreSQL backends**: an upsert or a query per
  method; the other modules stand on what they promise (upsert by key, a commit
  per call). The script that migrates tables other than the ledger and pure
  queries (`get_events`) are left out; a list query is abstracted to the set of
  keys it asks for. An artifact's file is written before its row: not modelled.
- **Orchestrator construction, hooks, quarantine, synchronous event bus**:
  registries filled once, with optional dependencies.
- **Worlds, loss, planner, EML search, posteriors**: real arithmetic that only
  feeds a decision as a score, with nothing concurrent; laboratories and
  benchmarks compute statistics over finished episodes.
- **Vendored networks, import shims, archived code, telemetry, dashboards and
  campaign scripts**: no state whose order or interleaving matters, or none of
  this project's own. They are most of the repository's lines: the engines,
  scripts, laboratories and worlds together outweigh the modelled components
  several times.
