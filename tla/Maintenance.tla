----------------------------- MODULE Maintenance -----------------------------
(***************************************************************************)
(* The ledger's life cycle: `sr ledger init | migrate | status | prune |   *)
(* clear`, `sr stats`, and the hook entry counters kept beside the         *)
(* database (src/src/storage/ledger.rs, hook_entries.rs, src/src/cli.rs).  *)
(* Commands are processes that open the store, and act on what they opened *)
(* later; hooks are turns that are counted at entry and record one row.    *)
(* A prune or clear rewrites the two counter files after its transaction   *)
(* committed, each by a read and a rename with nothing held in between.    *)
(***************************************************************************)
EXTENDS Stats

CONSTANTS
  Operations,      \* per command, the operations it may be
  Turns,           \* hook invocations, which are also the ids of their rows
  Shapes,          \* what a turn may record: event rows without id, at, channel
  Labels,          \* feedback labels offered
  Versions,        \* schema versions the store may start with; 0 is no store
  TARGET_SCHEMA_VERSION,
  QUOTA, MAINTENANCE_RESERVE, MUTATION_RESERVE,
  PRUNE_BYTES,     \* worst_case_maintenance_bytes of prune and clear, and the
                   \* margin a migration asks for besides the copy
  COUNTER_MAX,     \* records a counter file may hold
  SETTLE,          \* HOOK_ENTRY_SETTLE_MS: no hook runs longer
  RETENTION,
  MaxNow, MaxReplace

\* What a command may be, the bounds of the clock and of the space, and room in the
\* reserves for what a prune or clear asks for and one row beside it.
ASSUME OperationsAssumption ==
  \A c \in DOMAIN Operations : Operations[c] \subseteq {"init", "migrate", "prune", "clear", "status", "stats"}
ASSUME ClockAssumption == SETTLE \in Nat \ {0} /\ MaxNow \in Nat /\ COUNTER_MAX \in Nat /\ IsFiniteSet(Turns)
ASSUME SpaceAssumption ==
  /\ {QUOTA, MAINTENANCE_RESERVE, MUTATION_RESERVE, PRUNE_BYTES} \subseteq Nat
  /\ PRUNE_BYTES < MAINTENANCE_RESERVE + MUTATION_RESERVE
  /\ PRUNE_BYTES < QUOTA

VARIABLES
  store,           \* the database at the ledger path, or NoStore
  copies,          \* bytes of the migration backups in the ledger directory
  entries,         \* hook-entries.log
  nonturns,        \* hook-non-turns.log
  hooks,           \* per turn: pc, and when it entered
  cmds,            \* per command
  time,            \* the wall clock
  report,          \* the last stats report, with what was really lost
  harm,            \* what befell the counters: "full", "stopped" or "raced"
  overrun,         \* a write raced the space check of a migration's copy, or more rows
                   \* were admitted at once than the reserves hold
  replaced         \* external replacements so far

maintenanceVars == <<store, copies, entries, nonturns, hooks, cmds, time, report, harm, overrun, replaced>>

Commands == DOMAIN Operations
NoStore == [file |-> "none"]
NoReport == [turns |-> Unreported]

Fresh(n) == [file |-> n, version |-> 1, schema |-> 1, data |-> 1,
             events |-> {}, labels |-> {}, loads |-> {}]

MaintenanceInit ==
  /\ \E v \in Versions : store = IF v = 0 THEN NoStore ELSE [Fresh(0) EXCEPT !.version = v]
  /\ copies = 0 /\ entries = {} /\ nonturns = {}
  /\ hooks = [t \in Turns |-> [pc |-> "none"]]
  /\ cmds = [c \in Commands |-> [pc |-> "idle"]]
  /\ time = 0 /\ report = NoReport /\ harm = {} /\ overrun = FALSE /\ replaced = 0

\* inspect_files: the database with its sidecars, and every backup beside it.
DatabaseBytes == IF store = NoStore THEN 0 ELSE 1 + Cardinality(store.events)
Occupied == DatabaseBytes + copies

\* recording_capacity, and preflight_maintenance_with_bytes.
\* Mutant of RecordingAdmitted: the maintenance reserve forgotten.
RecordingToQuota == Occupied <= QUOTA - MUTATION_RESERVE
RecordingAdmitted == Occupied <= QUOTA - MAINTENANCE_RESERVE - MUTATION_RESERVE
WorstCase(kind) == IF kind = "migrate" THEN DatabaseBytes + PRUNE_BYTES ELSE PRUNE_BYTES
Preflight(kind) == Occupied + WorstCase(kind) <= QUOTA

\* verify_database_file: the path still names the file that was opened.
SameFile(c) == store # NoStore /\ store.file = cmds[c].file

Finish(c, outcome) == cmds' = [cmds EXCEPT ![c] = [pc |-> "done", outcome |-> outcome]]
KeepStore == UNCHANGED <<store, copies, entries, nonturns, hooks, time, report, harm, overrun, replaced>>

\* `sr ledger init`: create a store at version 1, or leave a compatible one alone.
InitLedger(c) ==
  /\ cmds[c].pc = "idle" /\ "init" \in Operations[c]
  /\ CASE ~RecordingAdmitted -> Finish(c, "quota") /\ UNCHANGED store
       [] RecordingAdmitted /\ store = NoStore -> Finish(c, "created") /\ store' = Fresh(replaced)
       [] OTHER -> Finish(c, "already-current") /\ UNCHANGED store
  /\ UNCHANGED <<copies, entries, nonturns, hooks, time, report, harm, overrun, replaced>>

\* --older-than of a prune, --since of stats, and the retention status reports on.
Cutoffs(op) == CASE op = "prune" -> 1..time [] op = "stats" -> 0..1 [] op = "status" -> {time - RETENTION} [] OTHER -> {0}

\* open_blocking: a newer schema opens read-only, and its mutations are refused.
OpenStore(c) ==
  /\ cmds[c].pc = "idle"
  /\ \E op \in Operations[c] \ {"init"} :
       CASE store = NoStore -> Finish(c, "missing")
         [] store # NoStore /\ store.version > TARGET_SCHEMA_VERSION /\ op \in {"migrate", "prune", "clear"} ->
              Finish(c, "read-only")
         [] OTHER ->
              \E before \in Cutoffs(op) :
                cmds' = [cmds EXCEPT ![c] = [pc |-> op, file |-> store.file, schema |-> store.schema,
                                             data |-> store.data, before |-> before,
                                             at |-> IF op = "stats" THEN time ELSE 0]]
  /\ KeepStore

\* ledger_status, with the debt of rows past their retention.
StatusOf(s, cutoff) ==
  [status |-> IF s.version > TARGET_SCHEMA_VERSION THEN "read_only" ELSE "ready",
   upgrade |-> s.version < TARGET_SCHEMA_VERSION,
   retained |-> RetainedStats(s.events, s.labels, s.loads, cutoff),
   debt |-> CleanupDebt(s.events, s.labels, s.loads, cutoff)]
Status(c) ==
  /\ cmds[c].pc = "status"
  /\ IF SameFile(c)
     THEN cmds' = [cmds EXCEPT ![c] = [pc |-> "done", outcome |-> "status", answer |-> StatusOf(store, @.before)]]
     ELSE Finish(c, "replaced")
  /\ KeepStore

\* check_stamp inside the immediate transaction.
StampHolds(c) == store.schema = cmds[c].schema /\ store.data = cmds[c].data
Refused(c) == ~(SameFile(c) /\ StampHolds(c))

Refuse(c) ==
  /\ cmds[c].pc \in {"prune", "clear"}
  /\ ~(~Refused(c) /\ Preflight(cmds[c].pc))
  /\ Finish(c, "refused") /\ KeepStore

\* The rows a cutoff leaves: what hangs on a pruned event goes with it.
PrunedTo(s, before) ==
  LET kept == {e \in s.events : e.at >= before}
      gone(id) == \E e \in s.events \ kept : e.id = id
  IN  [s EXCEPT !.events = kept, !.data = @ + 1,
                !.labels = {j \in @ : ~gone(j.event)},
                !.loads = {l \in @ : ~gone(l.event) /\ ~(l.event = Unattributed /\ l.at < before)}]
Cleared(s) == [s EXCEPT !.events = {}, !.labels = {}, !.loads = {}, !.data = @ + 1]

\* prune_apply and clear_apply up to their commit; a clear keeps no entry.  Another
\* command that still aligns the counters may put back what this one drops.
Aligning(c) == cmds[c].pc \in {"read-entries", "write-entries", "read-nonturns", "write-nonturns"}
Purge(c) ==
  /\ cmds[c].pc \in {"prune", "clear"} /\ ~Refused(c) /\ Preflight(cmds[c].pc)
  /\ store' = IF cmds[c].pc = "clear" THEN Cleared(store) ELSE PrunedTo(store, cmds[c].before)
  /\ cmds' = [cmds EXCEPT ![c] = [pc |-> "read-entries", before |-> IF @.pc = "clear" THEN MaxNow + 1 ELSE @.before]]
  /\ harm' = harm \cup IF \E d \in Commands : Aligning(d) THEN {"raced"} ELSE {}
  /\ UNCHANGED <<copies, entries, nonturns, hooks, time, report, overrun, replaced>>

\* prune_hook_entries and clear_hook_entries, one counter after the other: read
\* the file, and rename a filtered copy over it when something was dropped.
KeptRecords(counter, before) == {n \in counter : n.at >= before}
ReadCounter(c) ==
  /\ cmds[c].pc \in {"read-entries", "read-nonturns"}
  /\ LET counter == IF cmds[c].pc = "read-entries" THEN entries ELSE nonturns
     IN  cmds' = [cmds EXCEPT ![c] = [pc |-> IF @.pc = "read-entries" THEN "write-entries" ELSE "write-nonturns",
                                      before |-> @.before, seen |-> counter]]
  /\ KeepStore
WriteEntries(c) ==
  /\ cmds[c].pc = "write-entries"
  /\ cmds' = [cmds EXCEPT ![c] = [pc |-> "read-nonturns", before |-> @.before]]
  /\ LET kept == KeptRecords(cmds[c].seen, cmds[c].before)
     IN  entries' = IF kept = cmds[c].seen THEN entries ELSE kept
  /\ UNCHANGED <<store, copies, nonturns, hooks, time, report, harm, overrun, replaced>>
WriteNonTurns(c) ==
  /\ cmds[c].pc = "write-nonturns"
  /\ LET kept == KeptRecords(cmds[c].seen, cmds[c].before)
     IN  nonturns' = IF kept = cmds[c].seen THEN nonturns ELSE kept
  /\ Finish(c, "aligned")
  /\ UNCHANGED <<store, copies, entries, hooks, time, report, harm, overrun, replaced>>

\* A counter that cannot be rewritten, or a command that dies, stops there.
StopEarly(c) ==
  /\ Aligning(c) /\ Finish(c, "stopped") /\ harm' = harm \cup {"stopped"}
  /\ UNCHANGED <<store, copies, entries, nonturns, hooks, time, report, overrun, replaced>>

\* migrate_apply: preflight, copy into the ledger directory, then the steps in one
\* transaction that checks the schema generation it opened.
MigrateVerdict(c) ==
  CASE ~SameFile(c) -> "replaced"
    [] SameFile(c) /\ store.version = TARGET_SCHEMA_VERSION -> "up-to-date"
    [] SameFile(c) /\ store.version # TARGET_SCHEMA_VERSION /\ ~Preflight("migrate") -> "quota"
    [] OTHER -> "copy"
MigratePreflight(c) ==
  /\ cmds[c].pc = "migrate"
  /\ IF MigrateVerdict(c) = "copy" THEN cmds' = [cmds EXCEPT ![c].pc = "copy"] ELSE Finish(c, MigrateVerdict(c))
  /\ KeepStore
MigrateCopy(c) ==
  /\ cmds[c].pc = "copy"
  /\ IF SameFile(c) /\ Occupied + DatabaseBytes <= QUOTA
     THEN cmds' = [cmds EXCEPT ![c].pc = "upgrade"] /\ copies' = copies + DatabaseBytes
     ELSE Finish(c, "refused") /\ UNCHANGED copies
  /\ overrun' = (overrun \/ (\E d \in Commands \ {c} : cmds[d].pc = "copy")
                         \/ \E t \in Turns : hooks[t].pc = "admitted")
  /\ UNCHANGED <<store, entries, nonturns, hooks, time, report, harm, replaced>>
MigrateUpgrade(c) ==
  /\ cmds[c].pc = "upgrade"
  /\ IF SameFile(c) /\ store.schema = cmds[c].schema
     THEN store' = [store EXCEPT !.version = TARGET_SCHEMA_VERSION, !.schema = @ + 1] /\ Finish(c, "migrated")
     ELSE Finish(c, "stale") /\ UNCHANGED store
  /\ UNCHANGED <<copies, entries, nonturns, hooks, time, report, harm, overrun, replaced>>

\* query_value_stats: one read transaction for every figure.  The turns come
\* first, the provider and judgment figures from later statements, and the hook
\* counters are files the transaction does not cover.
StatsBegin(c) ==
  /\ cmds[c].pc = "stats"
  /\ IF SameFile(c)
     THEN cmds' = [cmds EXCEPT ![c] =
            [pc |-> "figures", before |-> @.before, at |-> @.at, rows |-> store,
             turns |-> TurnMetrics(Window(store.events, @.before, @.at)),
             channels |-> ByChannel(Window(store.events, @.before, @.at))]]
     ELSE Finish(c, "replaced")
  /\ KeepStore
LaterStatements(c) == IF store = NoStore THEN cmds[c].rows ELSE store
SnapshotRows(c) == cmds[c].rows
\* The turns that entered in a span: those that never left a row, and those that
\* had not accounted for themselves when the span ended.
EnteredIn(since, until) == {t \in Turns : hooks[t].pc # "none" /\ InWindow(hooks[t].at, since, until)}
Lost(since, until) == {t \in EnteredIn(since, until) : hooks[t].pc = "lost"}
Unaccounted(since, until) == {t \in EnteredIn(since, until) : hooks[t].pc = "lost" \/ hooks[t].ended > until}
StatsEnd(c) ==
  /\ cmds[c].pc = "figures"
  /\ LET rows == SnapshotRows(c)
         w == Window(rows.events, cmds[c].before, cmds[c].at)
     IN  report' = [turns |-> cmds[c].turns, channels |-> cmds[c].channels,
                    latency |-> LatencySummary(w),
                    observations |-> ObservationMetrics(w, rows.loads, cmds[c].before, cmds[c].at),
                    judgments |-> JudgmentMetrics(w, rows.labels),
                    provider |-> ProviderMetrics(w, rows.labels),
                    skills |-> BySkill(w, rows.labels, rows.loads, cmds[c].before, cmds[c].at),
                    hooks |-> HookEntryReport(cmds[c].rows.events, entries, nonturns, cmds[c].before,
                                              cmds[c].at - SETTLE),
                    lost |-> Cardinality(Lost(cmds[c].before, cmds[c].at - SETTLE)),
                    unaccounted |-> Cardinality(Unaccounted(cmds[c].before, cmds[c].at - SETTLE)),
                    harm |-> harm \cup IF \E d \in Commands : Aligning(d) THEN {"stopped"} ELSE {}]
  /\ Finish(c, "reported")
  /\ UNCHANGED <<store, copies, entries, nonturns, hooks, time, harm, overrun, replaced>>

\* try_record: only beside an existing ledger, and never past the size bound.
CanCount(counter) == store # NoStore /\ Cardinality(counter) < COUNTER_MAX
Counted(counter, t) == IF CanCount(counter) THEN counter \cup {[turn |-> t, at |-> time]} ELSE counter

Befell(counter) == (IF CanCount(counter) THEN {} ELSE {"full"}) \cup
                   (IF \E c \in Commands : Aligning(c) THEN {"raced"} ELSE {})

\* A hook starts, is counted before it reads its input, and then either turns out
\* to be a notification inside a turn, records its row, or is lost.
Enter(t) ==
  /\ hooks[t].pc = "none" /\ store # NoStore
  /\ hooks' = [hooks EXCEPT ![t] = [pc |-> "running", at |-> time]]
  /\ entries' = Counted(entries, t)
  /\ harm' = harm \cup Befell(entries)
  /\ UNCHANGED <<store, copies, nonturns, cmds, time, report, overrun, replaced>>
NonTurn(t) ==
  /\ hooks[t].pc = "running"
  /\ hooks' = [hooks EXCEPT ![t] = [pc |-> "notification", at |-> @.at, ended |-> time]]
  /\ nonturns' = Counted(nonturns, t)
  /\ harm' = harm \cup Befell(nonturns)
  /\ UNCHANGED <<store, copies, entries, cmds, time, report, overrun, replaced>>
Lose(t) ==
  /\ hooks[t].pc \in {"running", "admitted"}
  /\ hooks' = [hooks EXCEPT ![t].pc = "lost"]
  /\ UNCHANGED <<store, copies, entries, nonturns, cmds, time, report, harm, overrun, replaced>>

\* Every recording checks the space before it takes the write lock, and the stamp
\* it opened with inside the transaction.
Admitted == {t \in Turns : hooks[t].pc = "admitted"}
Admit(t) ==
  /\ hooks[t].pc = "running" /\ store # NoStore /\ store.version <= TARGET_SCHEMA_VERSION
  /\ RecordingAdmitted
  /\ hooks' = [hooks EXCEPT ![t] = [pc |-> "admitted", at |-> @.at, file |-> store.file,
                                  schema |-> store.schema, data |-> store.data]]
  /\ overrun' = (overrun \/ Cardinality(Admitted) >= MAINTENANCE_RESERVE + MUTATION_RESERVE - PRUNE_BYTES)
  /\ UNCHANGED <<store, copies, entries, nonturns, cmds, time, report, harm, replaced>>
HookRow(t, shape) ==
  [id |-> t, at |-> time, channel |-> "hook", decision |-> shape.decision, exposure |-> shape.exposure,
   unfinished |-> shape.unfinished, elapsed |-> shape.elapsed, attempts |-> shape.attempts, skills |-> shape.skills]
Record(t) ==
  /\ hooks[t].pc = "admitted" /\ store # NoStore /\ store.file = hooks[t].file
  /\ store.schema = hooks[t].schema /\ store.data = hooks[t].data
  /\ \E shape \in Shapes : store' = [store EXCEPT !.events = @ \cup {HookRow(t, shape)}]
  /\ hooks' = [hooks EXCEPT ![t] = [pc |-> "recorded", at |-> @.at, ended |-> time]]
  /\ overrun' = (overrun \/ \E c \in Commands : cmds[c].pc = "copy")
  /\ UNCHANGED <<copies, entries, nonturns, cmds, time, report, harm, replaced>>

\* Feedback and observation of a recorded turn; both advance the data generation.
Label(t) ==
  /\ store # NoStore /\ store.version <= TARGET_SCHEMA_VERSION /\ RecordingAdmitted
  /\ \E e \in store.events, l \in Labels :
       /\ e.id = t /\ Named(e) # {} /\ ~\E j \in store.labels : j.event = t
       /\ store' = [store EXCEPT !.labels = @ \cup {[event |-> t, skill |-> k, label |-> l] : k \in Named(e)},
                                 !.data = @ + 1]
  /\ UNCHANGED <<copies, entries, nonturns, hooks, cmds, time, report, harm, overrun, replaced>>
Load(t) ==
  /\ store # NoStore /\ store.version <= TARGET_SCHEMA_VERSION /\ RecordingAdmitted
  /\ \E e \in store.events :
       /\ e.id = t /\ Named(e) # {} /\ ~\E l \in store.loads : l.event = t
       /\ store' = [store EXCEPT !.loads = @ \cup {[event |-> t, skill |-> Head(e.skills), at |-> time,
                                                    state |-> "loaded"]},
                                 !.data = @ + 1]
  /\ UNCHANGED <<copies, entries, nonturns, hooks, cmds, time, report, harm, overrun, replaced>>

\* The user moves the database away; the counters beside it stay.
Replace ==
  /\ replaced < MaxReplace /\ store # NoStore
  /\ store' = NoStore /\ replaced' = replaced + 1 /\ harm' = harm \cup {"stopped"}
  /\ UNCHANGED <<copies, entries, nonturns, hooks, cmds, time, report, overrun>>

\* No hook outlives its deadline, so none is still running SETTLE after it entered.
TimePasses ==
  /\ time < MaxNow /\ time' = time + 1
  /\ \A t \in Turns : hooks[t].pc \in {"running", "admitted"} => time' - hooks[t].at < SETTLE
  /\ UNCHANGED <<store, copies, entries, nonturns, hooks, cmds, report, harm, overrun, replaced>>

MaintenanceNext ==
  \/ \E c \in Commands :
       \/ InitLedger(c) \/ OpenStore(c) \/ Status(c) \/ Refuse(c) \/ Purge(c)
       \/ ReadCounter(c) \/ WriteEntries(c) \/ WriteNonTurns(c) \/ StopEarly(c)
       \/ MigratePreflight(c) \/ MigrateCopy(c) \/ MigrateUpgrade(c) \/ StatsBegin(c) \/ StatsEnd(c)
  \/ \E t \in Turns : Enter(t) \/ NonTurn(t) \/ Lose(t) \/ Admit(t) \/ Record(t) \/ Label(t) \/ Load(t)
  \/ Replace
  \/ TimePasses

(* The figures of one stats report agree with each other although they are *)
(* read by many statements while hooks record, labels arrive and histories *)
(* are pruned: channels sum to the total, every rate is at most one, and   *)
(* the judged turns' attempts are among all attempts of the window.        *)
StatsAgree ==
  report # NoReport =>
    LET r == report
        atMost(rate) == rate[1] <= rate[2]
        sum == FoldSet(LAMBDA c, n : n + r.channels[c].total, 0, DOMAIN r.channels)
    IN  /\ sum = r.turns.total
        /\ r.latency.measured + r.latency.excluded = r.turns.total
        /\ r.observations.adoption[2] = r.turns.emitted
        /\ atMost(r.observations.adoption) /\ atMost(r.judgments.coverage) /\ atMost(r.provider.hits)
        /\ r.provider.cohort.attempts <= r.provider.total
        /\ r.turns.emitted + r.turns.abstained + r.turns.muted + r.turns.failed + r.turns.unfinished <= r.turns.total

(* Recording stops early enough that a prune or a clear always passes its  *)
(* own quota preflight, migration backups in the ledger directory included *)
(* (a write that raced the space check of a migration's copy, and a burst  *)
(* of recordings larger than the reserves, excepted).                      *)
MaintenanceAdmitted ==
  store # NoStore /\ ~overrun => Preflight("prune") /\ Preflight("clear")

(* While the counters and the rows cover the same history, stats reports   *)
(* no more unrecorded hook turns than hooks that entered in the compared   *)
(* span and had left neither a row nor a non-turn record by its end.       *)
UnrecordedIsReal ==
  report # NoReport /\ report.hooks # Unreported /\ report.harm = {} =>
    report.hooks.unrecorded <= report.unaccounted
=============================================================================
