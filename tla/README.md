# skillranker in TLA+

`sr` ranks the skills an agent could use next. One invocation reads a
transcript and a skill roster, asks a model provider twice (a *wide* pass over
all skills, a *rerank* of the shortlist) and prints the answer. Much of its
code is text processing. What is hard is what lies between the invocations:
every `sr` process of a user, several at once and any of them killed at any
moment, spends one durable allowance, heeds one circuit breaker, shares one
response cache with its leases, and records itself in one ledger, while the
user, the agent and the harness change the configuration, the transcript and
the settings beside it. Around the ranking stand commands that edit files they
share with their user or judge what was recorded.

## 1. Inventory

### Components with state

| component | state | operations | correct when |
|---|---|---|---|
| allowance (`src/src/allowance.rs`) | guard file; accounting database (generation, last clock, charges and receipts per origin and window); a flock | `apply_setup`, `admit`, `inspect` | no window exceeds its limit, a debit is made under the policy in force, an interrupted setup can be resumed |
| circuit breaker (`breaker.rs`) | one row per origin: generation, failure streak, open-until, retry-until, probe token and lease; a process-local row when the store is unusable | `admit`, `settle` | late results are fenced, no circuit stays closed to requests for good |
| attempt coordinator (`jev/admission.rs`) | ceilings, current stage, the active attempt, a cost receipt | `admit_attempt`, `record_sent`, `record_response`, discard | every attempt is accounted once |
| provider session (`jev/retry.rs`, `jev/client.rs`) | the retry loop of one stage, the circuit ticket, the flight guard | `send_stage_observed` | each attempt is authorized, debited and counted before its exchange, and journaled where a journal is held; the invocation ends |
| leases (`cache/coordination.rs`) | one row per request: owner, fence, acquired, expires, done | `acquire`, `force_reacquire`, `check`, `complete`, `lookup` | leaders succeed one another only by expiry, fences reject a superseded one |
| response cache (`cache/response.rs`, `storage/`) | wide and rerank rows with receipt times on two clocks; a store generation | lookup, publish an evaluation, clear | a served pair is one evaluation, within its lifetime, and not one that was cleared |
| configuration and consent (`config.rs`, `privacy/mod.rs`) | four layers: user file, project file, environment, command line | load, merge, validate, receipt and its comparison | a repository's file never widens what the user allowed |
| rank pipeline (`pipeline.rs`) | where the invocation is, the policy it used, its estimates and decision | ingest, anchor, admit, send, rerank, revalidate, publish, emit | what is sent, printed and explained accords with policy, roster and snoozes |
| observation ledger (`storage/ledger.rs`) | events, candidates, attempts, snapshots, observations, cursors, judgments, proposals, a data generation | in-flight row, attempt journal, final write, emission, observe, feedback, prune, clear, migrate, stats | every paid request is evidenced, a recorded answer stands, only printed answers count, evidence is faithful, no reference dangles |
| transcript (`context/jsonl.rs`) | a file that grows, is trimmed to a tail, replaced | bounded read from a cursor | no load is skipped, each is read in the end |
| lineage (`context/branch/lineage.rs`) | an index of delivered events | index, select a leaf, trace | the resolved conversation is whole and does not depend on delivery |
| hook counters (`storage/hook_entries.rs`) | two counter files | count an entry, a non-turn, compact, align | no lost hook is reported that was not lost |
| snoozes (`snooze.rs`) | one file, its backups, a flock | set, clear, list, controls | a mute lasts, an edit loses nothing |
| hook installer (`installer.rs`) | the harness's settings file, backups, a lock | install, uninstall, classify | foreign entries stand, the hook stops before the harness kills it |
| replay (`replay.rs`) | a saved case | save, validate, replay under a policy | the second implementation decides as the first |
| learning (`learning.rs`) | `config.toml`'s ranking policy, priors, revision records, monitor state | calibrate, apply, roll back, observe | a rollback restores what was replaced, spent alpha stays spent |
| evaluation (`evaluation/`) | frames, labels, previews, a request budget | sample, preview, rank, score, compare | nothing is sent that was not previewed or budgeted, the reports agree |

Interaction is by calls inside one process and by SQLite files, renamed files
and flocks between processes. There is no message passing and no shared memory,
so an atomic step is a transaction, a file operation or one provider exchange.

### What is hard

* **Two stores, no common transaction.** Guard file and accounting database;
  ledger and counter files; revision record, priors and configuration: each
  pair is updated one after the other, and a kill or a power cut falls between.
* **Late results.** A request settles after the circuit was opened, probed or
  closed by another process; a leader publishes after its successor did; an
  observation pass records what it read before another pass moved the cursor.
* **Stale decisions.** Policy, snoozes and roster are read, used and read again;
  a preview binds a send that happens much later; an installer classifies a file
  before it holds the lock.
* **Clocks.** Wall time moves backwards; allowance, cache, leases, circuit and
  snoozes compare stored wall times with it.
* **Dropped futures.** The provider exchange is cancelled at any await.
* **Degradation.** Most stores are optional: absent, busy or lost, the program
  continues with less.
* **Redelivery.** Two runs of one turn write one ledger event; a harness
  delivers one record twice, or a child before its parent.
* **Waiting and progress.** A follower waits on a process that may be dead; an
  exchange may never be answered; a bounded read may return to where it began.
* **Second implementations.** Replay, trace, baselines and reports each decide
  again what another part decided.

The list at its lines is under `hazards` in `PROJECT.json`.

## 2. Modules

| module | models | kind |
|---|---|---|
| `Allowance` | `allowance.rs`: both stores, the flock, setup, admission, inspection, faults | state machine |
| `AllowanceProofs` | theorems about `Allowance` | proofs |
| `BreakerRow` | the pure transitions of one circuit row | operators |
| `BreakerRowProofs` | lemmas about `BreakerRow` | proofs |
| `Breaker` | the shared store, degradation, several processes | state machine over `BreakerRow` |
| `BreakerProofs` | theorems about `Breaker` | proofs |
| `AttemptAdmission` | the attempt coordinator's checks and receipt | operators |
| `ProviderStage` | `send_stage_observed` as `provider_stage` drives it; composes coordinator, circuit row and an abstract allowance | state machine |
| `Metered` | what the users of the provider stage are promised about its cost | abstract specification |
| `ProviderStageProofs` | theorems about `ProviderStage`, the refinement of `Metered` among them | proofs |
| `Lease` | the transaction primitives of the lease table | operators |
| `ResponseCache` | freshness, rows of an evaluation, what a lookup selects | operators |
| `Coordination` | the pipeline over leases and cache | state machine over `Lease`, `ResponseCache` |
| `CoordinationProofs` | theorems about `Coordination` | proofs |
| `Recording` | how runs write themselves into the ledger, prune and clear | state machine |
| `Transcript` | bounded reads of a transcript | operators |
| `Observing` | passes of `sr observe`, their cursor and rows | state machine over `Transcript` |
| `Lineage` | index, selection and trace of a conversation | operators |
| `Session` | every history a session delivers | state machine over `Lineage` |
| `Feedback` | verdicts, paired corrections, revisions, acknowledgements | state machine |
| `ConversationProofs` | theorems about `Observing` and `Feedback` | proofs |
| `Policy` | layers, trust, merge, consent, receipts | operators |
| `Rank` | one invocation from its command to its output, edits beside it | state machine over `Policy` |
| `RankProofs` | theorems about `Rank` | proofs |
| `Replay` | the saved case and its replay | operators over `Rank`'s state |
| `Snooze`, `Installer` | the commands that edit the user's files | state machines |
| `Stats` | the figures of a report | operators |
| `Maintenance` | the ledger's life cycle and the hook counters | state machine over `Stats` |
| `Learning` | calibration, promotion, rollback, monitor | state machine |
| `Sampling`, `Frame` | samples and their verification; labels, losses, baselines, review | operators |
| `LiveEvaluation` | `sr eval`, recorded and live | state machine over `Frame`, `Sampling` |
| `UserCommands` | the five state machines of the commands beside the ranking, side by side | composition |
| `PersistenceProofs` | theorems about `Recording` and `UserCommands` | proofs |
| `MC…` | constants, compositions and symmetry sets for the runs | TLC |

`map` in `PROJECT.json` gives the source lines of every definition.

### Allowance

`guard` is what a reader of the guard file sees and `durable` what a power loss
would leave: a rename changes the first, the directory sync copies it to the
second. `acct`, `charges` and `receipts` are the tables of the accounting
database; SQLite commits durably, so they have one copy. Per process, `pc` is
the point inside `apply_setup` or `admit`, `seen` the guard it read, `want` the
limit asked for and the generation planned, `req` the origin and the window it
charged.

`apply_setup` is `SetupStart`, `SetupLock`, `SetupPlan` (or `SetupUnchanged`
when the policy in force is the one asked for), `PublishIntent`, `SyncIntent`,
`SetupAccount`, `PublishReady`, `SyncReady`; any of its steps may end in
`SetupFails`. `admit` is `AdmitPeek` (the unlocked read, after which an absent
guard means no accounting), `AdmitLock`, `AdmitRead`, `AdmitCommit` (one
transaction: clock check, prune, totals against receipts, limit, debit),
`AdmitUnlock`, `AdmitGrant`, or `AdmitFails`; `Send` is the exchange that
follows. `Health` is `inspect`. The environment kills a process (`Crash`), cuts
the power, moves the clock either way, deletes the cache directory, alters a
stored total, or deletes the guard file. Deleting the guard is how a user ends
an activation: the history variables (`debited`, `grants`, `faults`) start anew.

### Breaker

`BreakerRow` holds the row arithmetic: admission, the ticket, the fence that a
settlement must pass, opening and the growing cooldown. `Breaker` adds the
store: present, absent or unusable, `degraded` processes and their `local` rows.
Each of admission and settlement has three forms: on the shared row, on the
local one, or with the failing transaction that turns the first into the
second.

### ProviderStage

An invocation goes `check → policy → breaker → debit → permit → local →
started → wire`, with `backoff` before a retry: the order in which
`send_stage_observed` takes time, policy, circuit ticket, debit, permit, local
checks and `on_start`, and then transmits. `FailTransiently` decides between
retry and failure, `Respond` accepts or rejects an answer, `DropFuture` is a
cancelled future, after which the flight guard closes the attempt and the
ticket is settled as cancelled; `Kill` runs nothing. The circuit is its row;
that its store may fail is `Breaker`'s subject. The allowance is the durable
count and the refusal that `Allowance` promises. There are two clocks. `now` is
the monotonic one, by which invocations end; the circuit is given `Wall`, which
`SetClock` moves against it, so a lease is time left on the first stored as a
reading of the second. That both are read in one step is an abstraction (`clock`
and `now()` are read one after the other at `pipeline.rs:4722`), and so is a wall
clock that never reads before 1970 (`unwrap_or(0)`). The attempt journal is
optional and best-effort in the code, and nothing here waits for it; it is the
subject of `Recording`. A consent withdrawn between `authorize_send` and the
exchange of the same attempt stops nothing, in the code as in the model:
`SendsAreWarranted` says only that no attempt rides on an earlier one's check.

### Coordination

`gen`, `lease` and `rows` are the tables of `cache.sqlite3`; `wall` and `boot`
are its two clocks. A run opens the store (`Open`), reads the wide and then the
rerank row (`LookupWide`, `LookupRerank`, one read view: `moved` tells that it
changed between), and on a miss acquires (`Acquire`), refreshes a completed
lease (`Refresh`), waits (`Wait`) or goes on uncoordinated. A run that
evaluates sends (`SendWide`, `CheckLead`, `SendRerank`), publishes rows and
completion in one transaction (`Publish`), and releases a lease it still leads
(`Finish`, `Release`). `Kill` stops it anywhere, `AdvanceGeneration` clears the
cache, `Tick` and `StepBack` move the clocks.

### Recording

`rows`, `cands`, `att` and `snaps` are the tables `ranking_events`,
`ranking_candidates`, `provider_attempts` and `roster_snapshots`. `turn` and
`roster` are the event and the snapshot a run resolved: two runs of one turn are
a redelivery. A decision that sends nothing goes straight to its final write
(`local`); any other run is at one of six writes: `RecordInFlight` before the first
send, `AdmitAttempt` and `MarkSent` around each attempt (the journal, held only
when the in-flight row is known to be there), `RecordSuccess` or `RecordFailure`
at its end, `RecordEmission` after `Publish` has written to stdout. Each write is
two steps. `Open` takes the data generation as a stamp; the write compares it in
its transaction, and a `stale` stamp refuses. `Outcomes` also lets the store fail
any write, and lets one that landed be reported as failed: a blocking leaf may
outlive the deadline of its caller. `Prune` deletes events older than a cutoff
with what depends on them and the old snapshots no remaining event names;
`Clear` deletes all. Both, and an emission, advance the generation. `Kill` stops
a run anywhere.

History variables say what the tables cannot: attempts that reached the `wire`,
runs that `printed`, failed to journal (`gaps`), wrote an ending (`ended`), have a
success in the table (`won`), had their event `swept`, or were in flight, their
row written, at a clear (`fenced`).

A run's candidates are represented by the run, and a row's creation time is that
of its commit. `delivered` stands for the decisions `ranked`, `explicit` and
`abstain`. A sweep is one step. Rows of runs that fail before their context is
known have identities of their own and are left out. Observations, judgments and
their cursors and proposals are in `Observing` and `Feedback`.

### Metered

The abstract specification that `ProviderStage` implements: invocations draw on
one allowance; `Pay` debits, `Emit` puts a request on the wire, `Bill` names one
in the receipt, `Stop` and `Lose` end an invocation. The refinement mapping
takes `charged` for `spent`, the debits of a process for `paid`, the completed
and unknown attempts of its receipt for `billed`. That each wire has a debit of
its own, that the ceiling spans both stages and that no receipt ends short are
consequences of `MeteredSpec`, so one refinement (`SendsAreMetered`, proved as
`StageIsMetered`) stands for them.

### Transcript and Observing

A file is its complete lines and its length; a length past the last line is a
record still being written. `ReadObservation` is the whole bounded read: where it
starts (the cursor rewound by an overlap), whether the content before the start
proves that this is still the file of the cursor, what a window of bytes and of
records holds, and the read from the watermark itself when the rewind made the
window end there. `Observing` runs it in passes: `ReadResume`, `Snapshot`,
`ReadExpected` (the cursor read again, whose generation fences the write),
`Record` (rows and cursor in one transaction, each load attributed to the ranking
created last before it among those emitted), beside an agent that writes,
half-writes or replaces the transcript, rankings, `Prune` and `Clear`. A ranking's
row is created by `Begin`, with the time of the in-flight row, which nothing updates
afterwards; `Emit` shows it, in whatever order the runs end, and only what was shown
takes part in attribution. `known` in a row is for the property: the creation times
of the rankings that were emitted when the row was written.

### Lineage and Session

`Lineage` has the index of delivered events (conflicting and ambiguous ones set
aside, severed side chains), the leaves a conversation may go on from, the rules
that choose among them (notices, answered parallel calls, a compaction boundary
that lost its parent) and the trace to the root. `Session` delivers every history
up to a length, records delivered twice included; a state is a history, and the
properties are about what `Resolve` makes of it.

### Feedback

Users are processes that open the ledger (taking a stamp) and submit. A reference
is a stable id or an invocation name, resolved through the roster snapshot the
event retained. `Single`, `Paired`, `Propose`, `Revise`, `Remove` and
`Acknowledge` are transactions that compare the stamp; `Rank`, `PruneEvent` and
`ClearEvents` come between.

### Policy, Rank and Replay

`KEY_SPECS` is the table of what each of the four layers may do with each key;
`Resolve` merges and validates them, `Consent` and `AdmitAttempt` are the effect
policy, a receipt is the projection that `Changed` compares. `Rank` is one
invocation, `inv`, from `BeginRank` or `BeginHook` through ingestion, anchoring,
roster, explicit requests, admission, retrieval, rendering, the reuse of a cached
pair, two sends, the three validations before publication, to what the command
prints. Users, projects, snoozes, rosters and priors are edited beside it, and
`Expire` makes the deadline pass. `since` remembers what has held at every moment
since validation (or printing) began. `Replay` takes `inv` at its end for the case
that was saved and decides it again from what the case retained.

### Snooze and Installer

Both edit a file that a person edits too, by the same protocol with a different
order: `Snooze` takes its lock, reads, plans, backs up, stages, compares and
renames; `Installer` reads and classifies first and takes its lock then.
`raced` and `overtaken` mark the processes that an outside edit overtook between
comparison and rename, the window no lock can close. `StartHook` is the harness,
which holds the hook to the timeout of the entry it read; `ClampHook` is the hook,
which reads the file again, after whatever was written in between, and clamps its
deadline to the entry of its command. If that entry was rewritten between the two
reads, the hook goes by another timeout than the harness: `HookOutlived` is stated
of hooks that find the entry they were started from.

### Stats and Maintenance

`Stats` computes a report from rows. `Maintenance` has the commands that open the
store and act later (init, migrate, status, prune, clear, stats), the hooks that
count themselves and record one row, the alignment of the two counter files after
a prune or clear, the space each operation is admitted by, and the replacement of
the database file under an open command. `store` is the database, `copies` the
migration backups beside it, `entries` and `nonturns` the counter files, `hooks`
and `cmds` where each turn and command is, `time` the wall clock. `report` carries
the hooks that really had not accounted for themselves in its span beside the
figure it gives. Two history variables say what the code does not guard against:
`harm` that a counter was `"full"`, that the rewriting of the counters was
`"stopped"` or the store moved away, or that it was `"raced"` by an entry or by
another command's rewriting; `overrun` that a write raced the space check of a
migration's copy, or that more rows were admitted at once than the reserves hold.

### Learning

A command evaluates an artifact (`Calibrate`: splits, coverage, separation,
losses of the candidate policies), promotes (`RecordRevision`, `SavePriors`,
`CompareConfig`, `WriteConfig`), rolls back, or runs the monitor. Probabilities
and fits are small integers, log odds are kept to their sign, and evidence is a
score that flagged units raise.

### Sampling, Frame and LiveEvaluation

`Sampling` allocates and verifies a stratified sample with the code's integer
arithmetic. `Frame` joins cases with the latest label, classifies a decision, and
scores the four baselines beside the blend. `LiveEvaluation` runs `sr eval`:
select, preview without network, freeze, rank each admitted case, its
latest-request arm and its variants on one budget and one deadline, report.
`todo` is what a loop has left, pairs of a case and an arm, taken in the order of
their keys (`IsNext`).

### UserCommands

`sr snooze`, `sr install-hook`, `sr ledger` with the hooks and `sr stats`,
`sr calibrate` and `sr eval` write different files, so a step of one leaves the
state of the others alone. `UserCommands` is that composition, each command by
any number of processes at once; the properties of the commands are stated there
as conjunctions of what their modules say.

### Abstractions

A key, an origin, a model, a shortlist or a skill is a model value or a small
number. Owner tokens are the runs and probe tokens the processes: both are fresh
random values in the code. One cache namespace and one endpoint origin per
instance. A
tick of `Coordination` is one second, the unit of a takeover's reserve. Digests
are the values they are taken of. Agents, harnesses and users are the actions
marked external in `map`.

## 3. Runs

| run | instance | shows |
|---|---|---|
| `allowance` | 2 processes, 1 origin, limits 1 and 2, two windows, two generations, one kind of loss per activation | `DebitWithinLimit`, `DebitUnderCurrentGuard`, `GenerationNamesLimit`, `AccountingFollowsGuard`, `HealthPredictsAdmission`, `TypeOK` |
| `breaker` | 2 processes, opens after 2 failures, one `Retry-After` longer than its cap | `CircuitNeverStuck`, `OpenCircuitFenced`, `EvidenceIsCurrent`, `SharedMeansShared` |
| `provider_stage` | 2 invocations, 3 attempts each, allowance of 3, two models, a wall clock that is on time or one tick ahead | `SendsAreMetered`, `SendsAreWarranted`, `CostAccounted`, `LeaseCoversInvocation` |
| `coordination` | 3 runs within one tick, or 2 over a clock stepped back once and a cache cleared once; a store that fails | `PairNeverMixed`, `LeadershipAfterExpiry`, `SuccessorPairStands`, `NotServedPastTtl`, `ClearedStaysCleared` |
| `recording` | 2 runs, 2 turns, 1 snapshot, 1 attempt each, one sweep, two times | `InFlightHonest`, `SuccessStands`, `EmittedWasPrinted`, `PaidIsEvidenced`, `ReferencesHold` |
| `live` | one of four components at a time: 1 process and 3 generations; 2 invocations of 2 attempts; 2 runs of one request; 1 observer and 3 records, or 2 records and a transcript replaced once | `IntentIsResumed`, `InvocationEnds`, `RunEnds`, `EveryLoadObserved` |
| `conversation` | one at a time: 2 passes over 3 records; 1 over 4; attribution with 2 rankings, 3 times and a window of one tick; a replaced transcript; 2 users on one event; histories of 4 deliveries | `EvidenceFaithful`, `CorrectionIsWhole`, `ConversationWhole` |
| `rank` | 7 commands, 3 skills, 5 user and 3 project files, 4 rosters, 3 snooze states, 7 replay overrides, one edit | `PolicyStillHolds`, `AdviceIsWelcome`, `ProjectNeverWidens`, `AccountsAgree` |
| `upkeep` | one at a time: 2 snooze writers; 2 installers; 2 ledger commands beside 2 hooks; 2 calibrations; one evaluation | `SettingsHold`, `EditsStand`, `CountsAreReal`, `ConsentHolds`, `FiguresAgree` |
| `follower_takeover`, `clear_repopulated`, `policy_absorbed` | see section 5 | violations |

`MCLive`, `MCConversation` and `MCUpkeep` put several components that share no
state side by side: a variable `part`, chosen in `Init`, names the one that runs.
Their properties hold of each part; a conjunction (`SettingsHold`, `EditsStand`,
`CountsAreReal`, `ConsentHolds`, `FiguresAgree`, `EvidenceFaithful`,
`AccountsAgree`) names the properties of its parts, each stated in its component's
module. `MCUpkeep` takes one step of `UserCommands` at a time from the part
chosen, since the parts cannot disturb each other; the theorems are about
`UserCommands` itself, where they interleave.

Bounds and why they suffice.

* *Processes.* Two suffice for the flocks, a circuit, an allowance, a cursor and
  a settings file: every conflict is between one process and what some other
  did. Three are used for leases, where a superseded leader, its successor and a
  third reader meet. Processes are interchangeable, so symmetry is used wherever
  no liveness property is checked.
* *`MaxGen`* stands for the last value SQLite can hold, and reaching it is a
  case the code handles: small values make it happen.
* *`MaxFaultKinds`*. One activation may lose its cache directory or a rename,
  each any number of times, and not both (section 6).
* *Windows and clocks.* Two windows let a debit fall before, in and after the
  current one. `RETAINED_WINDOWS = 0` makes pruning happen at once. `MaxTime`
  of `Breaker` exceeds the longest cooldown and lease, that of `Coordination`
  exceeds a lease, a cached pair's life and a work budget; `ProviderStage`'s
  lets a second invocation begin a tick after the first, and ends with its deadline.
  `SETTLE = 1` makes a hook's entry and its end one instant, so the edge of a span
  between the two is not reached by TLC; `CountsAreKept` is proved for any.
* *`MaxFence = 3`* allows two successions. *`MaxGeneration`, `MaxStepBack`* are
  used by the instance of two runs, which starts at the beginning of the clock;
  three runs start within the last work budget, where a lease still expires.
* *Recording.* Two runs of two turns give both the redelivery (one turn) and the
  shared snapshot (two turns). One sweep falls between any two steps of either.
* *Transcripts.* A window holds 3 bytes and 2 records and the overlap is 2, so
  that 3 records of one byte exceed the window, a rewind can fill it, and a
  record in progress can end it; 4 records need two more passes.
* *Histories.* Four deliveries hold a prompt, a parallel pair of calls or two
  forks, and a boundary or a duplicate. A boundary may name a parent that comes later or never.
* *Policies.* The layers offered set one key of each trust rule; the built-in
  values stand at the low end so that both directions of a change exist.
* *`upkeep`.* Durations are out of range below and above and in range; a counter
  file holds two records and two hooks enter; the first two artifacts promote
  and refuse, two more do not qualify; a budget of 2, 4 or 5 requests ends
  within the main loop, within an arm and not at all. The ledger part is
  followed up to its first report and up to a command that died between the
  counters; a database is moved away while a command has it open and one hook has
  entered. The theorem `CountsAreKept` has none of these bounds.

`CHECK_DEADLOCK FALSE` is set where what is modelled ends: generations are
capped (`Breaker`), runs finish (`Coordination`, `Recording`, `Rank`), histories
and files reach their bound (`conversation`, `live`, `upkeep`).

Fairness (`MCLive`). *Retries*: a user whose setup left an intent runs it again
with the same limit, and not every one of its attempts is killed or fails (strong
fairness of its steps); the conclusion is only that a retried setup cannot be
refused for ever. *Polled*: time passes, and the async runtime polls a future
that is ready. *Scheduled*: time passes, and a run that is not killed is
scheduled. Neither says anything of the provider, which may never answer, nor of
a leader, which may be killed. *Repeated*: `sr observe` goes on being run and a
pass ends; it says nothing of the agent, which may stop writing in the middle of
a record. The guarantee is stated for `Anchored` cursors, whose watermark record
has an id within reach of the content proof (section 6), and cursor generations
start over at their bound so that no pass is stopped by the bound itself.

## 4. Theorems

A module `XProofs` holds the theorems about module `X`, except that the lemmas
about `BreakerRow` are in `BreakerRowProofs`, that `ConversationProofs` is about
both `Observing` and `Feedback`, that `PersistenceProofs` is about `Recording` and
`UserCommands`, and that `RankProofs` is about `Rank` and `Replay`. Every theorem holds for every value of the
constants that satisfies the assumptions of its modules (listed at the end).
Below, *checked* names a property that a run of section 3 checks on a small
instance and a theorem states in general.

### Allowance

* `TypeCorrect`: `Spec => []TypeOK`.
* `AccountingNeverAhead`: `Spec => []AccountingFollowsGuard`. The property is not
  inductive. A power loss replaces the guard by its durable copy, so the
  accounting must also not be ahead of that copy (`DurableFollows`); the
  accounting is moved to a planned generation, so the guard must carry that
  plan durably by then (`SetupInv`); and all this is disturbed unless one
  process at a time is inside the flock (`LockInv`). With `TypeOK` and
  `ChargeInv` these make up `IInv`.
* `DebitsAreCurrent`: `Spec => DebitUnderCurrentGuard`, the action property,
  from `IInv`: between the locked read of the guard and the debit no setup can
  publish.
* `GenerationsNameLimits`: `Spec => []GenerationNamesLimit`. Its invariant,
  `PolicyInv`, adds to `IInv` that each policy in sight (in the guard file, in
  its durable copy, planned by a setup, read by an admission) *covers* the
  debits made: none was made under a later generation, and those of its own
  generation were made under its limit.
* `LimitsHold`: `Spec => []DebitWithinLimit`, for `MaxFaultKinds <= 1`. The
  hypothesis is the property's own bound: with a lost rename *and* a cleared cache
  in one activation it is false (section 6). Its invariant, `LimitInv`, adds to
  `IInv` that the receipts hold every debit of the windows that can still be
  charged (`Intact`), unless the accounting was lost and no setup has made it ready
  again; that a first intent which no lost rename brought back precedes every
  debit; and, per process, that a setup about to make an accounting ready resumes
  the activation whose receipts it holds (`ProcLimit`). The limit then follows
  from the transaction, which refuses a window whose total and receipts differ.

### Breaker

The lemmas of `BreakerRowProofs` say what a row operation returns and preserves:
types, that a settlement follows its row (`SettleFollows`), that a closed row
stays closed without a transient failure (`ClosedStaysClosed`), that a ticket of
another generation or a probe without its lease changes nothing (`FenceHolds`). `Breaker` and `ProviderStage` both cite
them.

* `TypeCorrect`: `Spec => [](TypeOK /\ StoreInv)`; a store that is not ready holds
  no circuit, and a process that would use it never opened one of its own.
* `LateResponsesAreFenced` (`OpenCircuitFenced`) and `StaleEvidenceIsIgnored`
  (`EvidenceIsCurrent`), from `FenceInv`: the probe of the shared row is the
  process last admitted as one (`ProbeInv`), a ticket names its own process or
  none (`ProbeIsOwn`), and evidence in flight is of the row's generation or
  older, strictly older once the circuit advanced (`TicketInv`).
* `SharedProtectionHolds` (`SharedMeansShared`), from `StoreInv`.
* `CircuitsRecover` (`CircuitNeverStuck`): the delays of every row end within
  their caps after the highest reading of the clock (`HorizonInv`), shared and
  local ones, whatever the clock does.

### ProviderStage

* `TypeCorrect`: `Spec => []TypeOK`.
* `ReceiptAccounts` (`CostAccounted`), from `ReceiptInv`: the coordinator's active
  attempt is the one the session's place stands for (`FlightOf`), the receipt adds
  up (`CostOf`), and every admitted attempt has its debit while the one exchange
  that the receipt does not name yet is on the wire (`PaidOf`).
* `StageIsMetered` (`SendsAreMetered`): `Spec` implements `MeteredSpec`. The initial
  state maps to an initial state and every step to a step of `Metered` or a
  stutter, one lemma per action; `ReceiptInv` is what makes `Emit` and `Bill`
  enabled where the session transmits and settles.
* `StageIsWarranted` (`SendsAreWarranted`), from `WarrantInv`: from the policy check
  to the wire, policy granted at some moment since the top of the attempt. It does
  not say that consent still stands as the bytes leave.
* `LeasesEnd` (`LeaseCoversInvocation`), from `ProbeInv`: unless the wall clock was
  set since the ticket was taken, a stored lease ends with the deadline of the
  invocation that the row names, and an invocation that may still send its probe of
  the present opening is the one the row names. Where the clock was set the code
  promises neither, and `stepped` exempts it.

### Coordination

* `TypeCorrect`, `PairsAreWhole` (`PairNeverMixed`), `LeadersAreApart`
  (`LeadershipAfterExpiry`), `SuccessorsPrevail` (`SuccessorPairStands`),
  `LifetimesEnd` (`NotServedPastTtl`), `ClearedForGood` (`ClearedStaysCleared`).
  The invariant: a run that leads holds the key's lease, or a successor acquired it
  no earlier than its expiry (`LeaderInv`); a row of a led evaluation is no younger
  than the key's lease, which is completed if the row is its own, and the rows of
  one evaluation were written at once (`RowInv`); between the two reads of a lookup
  the wide row is fresh by the clock that the lookup began with, and still there
  unless the run noticed a change (`PairInv`). `LifetimesEnd` bounds an answer's age
  on both clocks: since its receipt on the wall clock, as the lookup of its pair read
  it, and since it was written on the boot clock, whatever the wall clock does.

### Recording

* `TypeCorrect`, `InFlightIsHonest` (`InFlightHonest`), `SuccessIsFinal`
  (`SuccessStands`), `EmissionsArePrinted` (`EmittedWasPrinted`), `PaidIsOnRecord`
  (`PaidIsEvidenced`), `ReferencesStand` (`ReferencesHold`). The five are inductive
  only together: a success stands because an emission finds a delivered event, and
  an emitted event was printed because a run emits what it recorded. `RunInv`
  relates each run's place to its history: what it believes recorded was recorded
  or swept, and its wire is within the attempts it counted.

### Observing and Feedback

* `EvidenceIsFaithful` (`EvidenceFaithful`): no load behind the watermark is
  unrecorded, a load and its result are joined, an attribution is to the ranking
  created last before the load among those emitted when the row was written. A read is shown to be a stretch of whole lines between two line ends
  (`ReadFrom`, lemma `ObservationRead`) that reaches back to every invocation
  whose result it may hold (`ReachesBack`). Then: the loads behind a watermark that
  is stored, resumed from or about to be stored are recorded or in the window
  (`CoverInv`); such a load and its result are joined or both in the window
  (`JoinInv`); a write that passes the generation fence is no older than any row
  (`FenceInv`); no ranking that was emitted by then was created between an attributed load and
  its ranking (`AttrInv`).
  `TypeInv`, `FileInv` (lines are contiguous), `RowInv`, `IdInv` and `SnapInv` carry
  these.
* `CorrectionsAreWhole` (`CorrectionIsWhole`), an action property that needs no
  invariant: whichever transaction writes the harmful verdict of a correction
  leaves its useful counterpart beside it, an eligible skill of the same event.

### Rank

* `InvariantHolds`: `Spec => []IInv`, with `AdviceStaysWelcome` (`AdviceIsWelcome`),
  `ProjectsNarrow` (`ProjectNeverWidens`) and `PolicyIsHeld` (`PolicyStillHolds`).
  The last is about every advisory field only for a decision that sent nothing; after a
  send it is about those that `authorize_send` compares, and for the others it is
  false (`policy_absorbed`).
  `PolicyInv` says that the policy in use and the receipt are those of files that
  existed, and that a receipt refreshed by a send kept every field the send
  compares; `AdviceInv` follows the candidates from roster to advice; `SinceInv`
  says that what was muted since validation began still is. The lemmas `Project…`
  show, key by key of `KEY_SPECS`, that a project's layer can only narrow, and
  `EveryPlaceIsTaken` that the places of an invocation are the ones named.
* `AccountsHold` (`AccountsAgree`): `--why-not` says of each skill what the
  admission decided, the saved case validates, its replay reaches the published
  decision, and a complete replay under another policy reaches what a ranking
  under that policy would have. The replay is computed from what the record
  retained, so `AccountInv` relates the two: a decision was made from the
  estimates, shortlist and scores that the record keeps (`Declined`, `Shortlisted`,
  `Decided`), at every place between the first answer and the output; what is
  admitted depends on roster, command and policy of the record only
  (`SameAdmission`), and the two implementations of the ranking order agree.

### User commands

The theorems are about `CommandSpec`, and `CommandsInv` is the conjunction of five
invariants. A step of one command preserves its own and leaves the variables of
the others alone, so each is inductive by itself.

* `SettingsAreKept` (`SettingsHold`). Snoozes, from `SnoozeInv`: a reading of the
  clock in use is no later than the latest (`ClockInv`), one command holds the lock
  (`LockInv`), from the re-read to the rename the file is the one planned for unless
  an edit overtook it, in which case nothing is upheld (`WriterInv`), and what is
  upheld and not over stands in a file that decodes (`FileInv`). The hook, from
  `InstallerInv`: a file has at most one entry that runs `sr` (`Tidy`), a command
  that goes on accepted the file it classified (`RequestInv`), one holds the lock
  (`HeldInv`), and the entry a hook was started from, if it finds it, leaves it the
  reserve (`HookInv`).
* `EditsAreContained` (`EditsStand`), the action property, from `SnoozeInv`,
  `InstallerInv` and `LearningInv`: revisions are unique, and what one replaced is
  what its record keeps (`RevisionInv`); an apply owns the base that it compares
  with, and a restore undoes the revision it names (`Known`).
* `ConsentIsKept` (`ConsentHolds`), from `LiveInv`: what was charged covers what was
  made and stays within the limit (`BudgetInv`), every loop's `todo` is of cases that
  may be sent before the freeze and of previewed ones after it (`TodoInv`), and a
  preview is of a judged case of the frozen roster in its full context
  (`PreviewInv`). What is bound to the very request of the preview are the main, roster and
  wire arms; the latest-request arms and those of rewritten texts (`batch.rs:1356`,
  `cli.rs:4620`) are bound to a case that has a preview and to the frozen roster,
  and what else they send is left open.
* `CountsAreKept` (`CountsAreReal`), from `MaintenanceInv`. Stats subtracts the sizes
  of three sets read at different times, so the proof maps each entry it counts to
  a row, to a non-turn, or to a hook that owed one, and no two entries to one
  (`EachAccounted`, `CountIsReal`). That every entry has such a place is
  `CountersCover`: a turn that left its row is found in the rows of the store, in
  every snapshot that a report took after it, or its entry is about to be dropped
  with its row (`Doomed`); one command at a time rewrites the counters, and what it
  read is what they hold. It holds while nothing befell the counters. `SpaceInv`
  says that the rows still to come (`Coming`) and a backup that is about to be copied
  leave a prune its room.

### Assumptions

Those of the modules, as weak as the code justifies. `Allowance`: `NoProc` is no
process, there is an origin, limits are positive, the window is not empty, bounds
are naturals, and `MaxFaultKinds` is any of 0, 1 and 2. `BreakerRow`, `Breaker`:
`NoProc` is no process, a circuit opens after at least one failure, the base
cooldown is positive and within its cap, and there is a longest lease, as
invocations are bounded. `AttemptAdmission`, `ProviderStage`: the ceilings are
positive, and HTTP attempts are no fewer than logical requests. `Coordination`:
lifetimes, the work budget and the highest fence are positive. `Recording`: sentinels are
no rows or snapshots. `Feedback`: none. `Policy`: the built-in values of the
numeric keys are of their own types. `Rank`: skills are finitely many numbers, rosters and snoozes
are sets of such. `Observing`: the overlap is positive and no larger than the byte
window (1 MiB of `jsonl.rs:50` within 8 MiB of `limits.rs:338`), the record cap is
positive, records have a size; `Wraps`, a bound of the liveness run, allows one
pass only. `Snooze`: no set of entries is the absent or the malformed file, limits
are naturals and the clock has two readings. `Installer`: seconds are whole, and a
timeout that may be installed covers the startup reserve (`check_hook_timeout`).
`LiveEvaluation`: request limits are naturals. `Maintenance`: a command is one of the
six operations, the clock, the settle time and the counter bound are naturals, turns
are finitely many, and what a prune asks for is less than the two reserves together
and less than the quota (2 MiB within 16 and 4 and 256 MiB: `ledger.rs:38`, `ledger.rs:3012`). `LimitsHold` alone has
a hypothesis of its own, `MaxFaultKinds <= 1`.

### Only model-checked

* Every liveness property (`IntentIsResumed`, `InvocationEnds`, `RunEnds`,
  `EveryLoadObserved`): fairness is outside the prover's reach.
* `HealthPredictsAdmission` says that an admission is `ENABLED`, which is too.
* `ConversationWhole` is about what a recursion over the parents of a history
  computes (`up`, `line` of `Lineage`): induction over data.
* `FiguresAgree` compares sums folded over rows, epochs and cases (the channels
  of a report, the alpha of a monitor, the losses of an evaluation and of its
  baselines): induction over data again.

## 5. Findings

* **A follower does not take over from a leader that failed**
  (`follower_takeover`, `src/src/pipeline.rs:2942`). The comments at lines 678
  and 2915 say that a follower sends itself if the leader fails. A failed leader
  completes its lease on release; the follower then misses in the cache, asks
  for the lease with plain `acquire`, is told `AlreadyCompleted`, and is treated
  as deferred: it fails with the message of an active leader although there is
  none and it has time left.
* **A cleared ledger is repopulated by older work** (`clear_repopulated`,
  `src/src/storage/ledger.rs:6347`). `src/README.md:1932` says that clearing
  keeps in-flight older work from repopulating the history. The generation that
  the clear advances does refuse a write that was already open. But a run opens
  the ledger anew for every write (`pipeline.rs:865`, `pipeline.rs:5413`) and
  takes the new generation as its stamp, so a run that recorded itself before
  the clear writes its event back at its end. In the trace a run has
  written its in-flight row and reached its answer when the history is cleared, and
  its success row is inserted afterwards.
* **A change of the thresholds is absorbed by a send** (`policy_absorbed`,
  `src/src/pipeline.rs:4651`). `docs/config-contract.md:123` lists the fields
  whose change withholds a CLI publication: top, shortlist, gate, fits and
  weights among them. `authorize_send` compares only the fields of the admission
  boundary and then stores the receipt it has just read, so a change of the
  others before a send becomes the base that `validate_advisory_publication`
  compares with, and a decision made under the old gate is published. A ranking
  that sends nothing finds the change, and so does the hook, which keeps a
  fingerprint from its entry (`cli.rs:5595`).

## 6. Observations outside the runs

Allowance, provider and cache.

* With `MaxFaultKinds = 2` (a power loss undoes a rename *and* the cache is
  deleted in one activation) `DebitWithinLimit` fails: the first intent comes
  back after debits were made, and its retry creates an empty accounting
  database. The comment at `allowance.rs:615` assumes that an intent of the
  first generation precedes every debit.
* `src/README.md:1564` says a permit binds the guard's generation;
  `jev/admission.rs:758` always binds `DEFAULT_GUARD_GENERATION`.
* A concurrent refresh does not follow (`pipeline.rs:2951`): `force_reacquire`
  answers `Following` to the second of two refreshing runs, as
  `docs/coordination-leases.md:30` says it should, but the caller looks for
  `Leading` only and sends uncoordinated.
* A publication that commits and then fails its own verification is followed by
  a release that finds its lease completed and reports it superseded: a valid
  answer is discarded (`pipeline.rs:684`).
* A row's boot receipt is a saturating difference (`storage/publication.rs`); a
  wall clock stepped back between answer and publication moves it forward by
  the step. On the boot clock `NotServedPastTtl` therefore measures an answer's life
  from its write; on the wall clock, from its receipt.
* A lease ends at a wall-clock reading (`pipeline.rs:4723`). A clock that is set
  ahead ends a running probe's lease early, so that another invocation probes beside
  it; one that is set back keeps the circuit closed past the invocation's deadline.
  `LeaseCoversInvocation` exempts both (`stepped`).

Ledger.

* A second delivery inserts its candidates into the event of a first delivery
  whose answer stands (`storage/ledger.rs:4593`; the comment at 4567 is about the
  event row).
* Attribution goes by the creation time of an event, which is that of its in-flight
  row, and not by its emission (`storage/ledger.rs:4993`). The comment at 4988 says
  that a newer emission supersedes the old one; of two overlapping runs, one that
  began first and is shown last does not supersede the other, whose ranking the
  agent saw earlier. `AttributedToLatest` states what the query does. An event also
  keeps the creation time of a first delivery that failed or was killed, so a load
  before the redelivery's emission may be attributed to it.
* After a prune or clear under a run, that run's emission may mark another
  delivery's fresh in-flight row as emitted; the other delivery's answer is then
  discarded and the event stays unavailable and emitted. This is the case that
  `Swept` exempts in `SuccessStands` and `EmittedWasPrinted`.
* A crash between the commit of a sweep and the replacement of the hook counters,
  or an entry between the two replacements, leaves counters that do not match the
  rows, and stats then invents lost hooks (`ledger.rs:4086`, `ledger.rs:4236`; the
  comment at `hook_entries.rs:21` says it cannot). `UnrecordedIsReal` exempts
  these (`harm`).
* Two prunes or clears that align the counters at once do the same: each reads a
  counter and renames its own copy over it with nothing held (`hook_entries.rs:186`),
  so the later rename can put back entries that the earlier one had dropped, whose
  rows are gone. This came up as a counterexample to the induction of
  `CountsAreKept`: one rewriter at a time is a conjunct of `CountersCover`, and
  `harm` records the other case as `"raced"`.
* A burst of hooks admitted before any of them writes its row can use up the
  reserves, since each is admitted by what is stored, not by what was admitted
  (`recording_capacity`, `ledger.rs:2025`; also `overrun`).
* Stats compares an event's creation time with the entry time of its hook, which
  differ at the edges of a span (`docs/output-contract.md:414`).
* A recording between a migration's space check and its copy may take the
  reserve (`overrun` in `MaintenanceAdmitted`).

Transcripts.

* A cursor cannot be proven again when more than a window of bytes, or a
  window of records without ids, lies behind its last event
  (`context/jsonl.rs:275`): the read starts at the beginning, and on a long
  transcript every pass may read the same windows, although the comment at 311
  says that progress is not negotiable. `Anchored` exempts it.
* A read that starts at the watermark with no rewind skips the content proof
  (`jsonl.rs:286`), so a replaced transcript of the same length or more can be
  read from its middle.
* A clear restarts cursor generations, so a pass that read before it can pass the
  fence afterwards. So can, once the transcript was replaced, a pass that read the
  old one beside a pass that read the new: its older reading is written over a
  newer one. `PairJoined` is stated for a ledger that was not cut, and for a
  replaced transcript only with one pass (`swaps = 0 \/ Alone`).
* A record longer than the byte window less the overlap cannot be read after a
  rewind, so the read starts at the watermark (`jsonl.rs:311`) without the
  invocation before it, and a result found there is not joined with it.
  `PairJoined` asks that the records between the two fit (`Fitting`). The proof
  of `EvidenceIsFaithful` needs both conditions: without either TLC finds the
  behaviour described here.
* A pass that met no event stores the id `event-0`.
* A ranking reads the oldest records of the tail when the tail holds more than
  the record cap, and of a message with several tool blocks only the last.

Rank, replay and evaluation.

* `--why-not` counts a skill as loaded that the ranking did not treat as loaded
  (`pipeline.rs:2074`, `pipeline.rs:6178`; `README.md:1025`).
* The priors are read twice, for the saved case and for the scoring
  (`pipeline.rs:2627`, `pipeline.rs:3651`); a promotion between makes the case
  disagree with the decision (`docs/capabilities.md:113`).
* A correction or restart of the risk monitor erases an alarm that was raised
  (`learning.rs:1262`, `learning.rs:1861`; `README.md:1473`).
* Applying one evaluation twice overwrites the revision record it wrote first;
  priors are saved before the configuration is written; a policy with a prior
  weight and no snapshot keeps the earlier priors. A hand edit between comparison
  and rename is lost. A promotion reads the configuration twice, for the base it
  compares with and for the policy it replaces (`learning.rs:1274`, `learning.rs:1281`):
  one step in `Promote`, so an edit between the two, which the comparison before
  the write then finds, is not explored.
* An evaluated case whose ranking was unavailable does not count as missed
  (`evaluation.rs:764`; `README.md:1268`).
* A case that the preview decided locally may send when it is ranked after the
  workspace changed (`batch.rs:1337`, `cli.rs:4620`; the comment at `batch.rs:937`).
* An ablation or robustness arm refused because the roster moved is scored as a
  failure with the largest loss; case files with equal keys are accepted.

## 7. Not modelled

Text, formats and numbers whose meaning is not discrete: redaction, profiles,
rendering, frontmatter and lexical retrieval, wire codecs, URL canonicalization,
documents and tables, bootstrap intervals and design-weighted estimates. File
walks and engine qualification, whose outcome the modules take as an input. The
runtime's blocking leaves and subprocess ownership: their effect on the shared
state (a write whose confirmation is lost, a deadline that passes) is in
`Recording`, `ProviderStage` and `Coordination`. The statements of a schema upgrade. The reports of `sr doctor`,
`sr gaps` and the viewer.

## 8. Plan

1. Theorems: the parts of `FiguresAgree` that need no sum (`adoption` and `coverage`
   at most one, a report's window inside its rows); the least ceiling under which
   `DebitWithinLimit` holds for two kinds of faults.
2. A single flight with at most one fenced publisher per lease as an abstract
   specification that `Coordination` implements, and a bounded counter that
   `Allowance` implements.
3. Roster resolution and name collisions against a reference definition.
