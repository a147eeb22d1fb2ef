------------------------------ MODULE Installer ------------------------------
(***************************************************************************)
(* The Claude hook installer (src/src/installer.rs), the install-hook and  *)
(* uninstall-hook commands, and the hook's own use of the installed entry  *)
(* (src/src/cli.rs).  A command reads and classifies the settings BEFORE   *)
(* it takes the installers' lock; under the lock it backs up the bytes it  *)
(* read, compares the file with them once more and renames its copy over   *)
(* it.  The harness reads the same file to start hooks, a person edits it, *)
(* and the configured deadline may change after the installation.          *)
(* The timeouts of entries are whole seconds, deadlines are in ticks.      *)
(***************************************************************************)
EXTENDS Integers, Sequences, SequencesExt

CONSTANTS
  Installers,     \* install-hook and uninstall-hook processes
  HookCommands,       \* command lines that run `sr hook claude`
  Foreign,        \* any other command line
  Timeouts,       \* values of --timeout-secs
  Deadlines,      \* configured timeout_ms values, in ticks
  TICKS,          \* ticks in a second
  DEFAULT_HOOK_TIMEOUT_SECS, HOOK_STARTUP_RESERVE_SECS,
  MaxUserEdits,   \* bound on outside edits and configuration changes
  NoSettings, BadFile, NoHook

\* Whole seconds, and no entry that is killed as it starts: an installed timeout
\* covers at least the reserve (check_hook_timeout).
ASSUME TimeoutAssumption ==
  /\ HOOK_STARTUP_RESERVE_SECS \in Nat /\ TICKS \in Nat \ {0} /\ Deadlines \subseteq Nat
  /\ DEFAULT_HOOK_TIMEOUT_SECS \in Nat
  /\ Timeouts \subseteq {t \in Nat : t >= HOOK_STARTUP_RESERVE_SECS}

VARIABLES
  settings,       \* NoSettings, BadFile or the UserPromptSubmit entries in order
  saved,          \* contents kept by write_backup
  held,           \* holders of the settings lock
  inst,           \* per installer: its request and where it stands
  deadline,       \* the effective timeout_ms
  userEdits,
  overtaken,      \* installers an outside edit overtook after their comparison
  hook            \* a hook the harness started, or NoHook

installerVars == <<settings, saved, held, inst, deadline, userEdits, overtaken, hook>>

Requests == [op : {"install", "uninstall"}, command : HookCommands, timeout : Timeouts, apply : BOOLEAN]

CeilSeconds(ticks) == (ticks + TICKS - 1) \div TICKS

\* minimum_hook_timeout_secs and check_hook_timeout.
MinimumTimeout(d) == CeilSeconds(d) + 1
CoversDeadline(timeout, d) == timeout >= MinimumTimeout(d)

\* make_managed_entry: no matcher, one hook.
ManagedEntry(r) == [command |-> r.command, timeout |-> r.timeout, plain |-> TRUE]

IsSr(e) == e.command # Foreign

\* classify_existing_entry: the first entry with an sr hook decides.
FirstSr(file) == SelectInSeq(file, IsSr)
Classify(file, r) ==
  LET i == FirstSr(file)
  IN  CASE i = 0 -> "none"
        [] i > 0 /\ file[i] = ManagedEntry(r) -> "exact"
        [] OTHER -> "conflict"

\* read_and_parse_settings: an absent file reads as an empty object.
Parsed(file) == IF file = NoSettings THEN <<>> ELSE file

\* The settings an applied request publishes.
Installed(file, r) == Append(Parsed(file), ManagedEntry(r))
Uninstalled(file) == RemoveAt(file, FirstSr(file))
Edited(file, r) == IF r.op = "install" THEN Installed(file, r) ELSE Uninstalled(file)

Waiting == [pc |-> "idle"]

InstallerInit ==
  /\ settings \in {NoSettings, BadFile, <<>>, <<[command |-> Foreign, timeout |-> 1, plain |-> TRUE]>>}
  /\ saved = {} /\ held = {} /\ userEdits = 0 /\ overtaken = {} /\ hook = NoHook
  /\ inst = [p \in Installers |-> Waiting]
  /\ deadline \in Deadlines

Ends(p, outcome) ==
  /\ inst' = [inst EXCEPT ![p] = [pc |-> "done", outcome |-> outcome]]
  /\ held' = held \ {p}
  /\ overtaken' = overtaken \ {p}
Stops(p, outcome) == Ends(p, outcome) /\ UNCHANGED <<settings, saved, deadline, userEdits, hook>>

\* What install_hook and uninstall_hook answer without writing; "publish" when
\* they go on.
Written(r) == IF r.apply THEN "publish" ELSE "preview"
InstallVerdict(r, file) ==
  CASE file = BadFile -> "malformed"
    [] file # BadFile /\ Classify(Parsed(file), r) = "exact" -> "already-installed"
    [] file # BadFile /\ Classify(Parsed(file), r) = "conflict" -> "conflict"
    [] OTHER -> Written(r)
UninstallVerdict(r, file) ==
  CASE file = BadFile -> "malformed"
    [] file # BadFile /\ Classify(Parsed(file), r) = "none" -> "not-installed"
    [] file # BadFile /\ Classify(Parsed(file), r) = "conflict" -> "conflict"
    [] OTHER -> Written(r)

\* The commands: an install whose harness timeout cannot cover the deadline stops.
Prerequisites(r) == CoversDeadline(r.timeout, deadline)
InstallCommand(r, file) == IF Prerequisites(r) THEN InstallVerdict(r, file) ELSE "timeout-too-tight"
UninstallCommand(r, file) == UninstallVerdict(r, file)
Verdict(r, file) == IF r.op = "install" THEN InstallCommand(r, file) ELSE UninstallCommand(r, file)

\* Read, parse and classify, with no lock held.
Prepare(p) ==
  /\ inst[p].pc = "idle"
  /\ \E r \in Requests :
       IF Verdict(r, settings) # "publish"
       THEN Stops(p, Verdict(r, settings))
       ELSE /\ inst' = [inst EXCEPT ![p] = [pc |-> "classified", request |-> r, base |-> settings]]
            /\ UNCHANGED <<settings, saved, held, deadline, userEdits, overtaken, hook>>

\* The lock is non-blocking; then the bytes read earlier are backed up.
Exclusive(p) == held = {}
TakeLock(p) ==
  /\ inst[p].pc = "classified"
  /\ IF ~Exclusive(p) THEN Stops(p, "lock-busy")
     ELSE /\ saved' = saved \cup {inst[p].base}
          /\ \/ /\ held' = held \cup {p}
                /\ inst' = [inst EXCEPT ![p].pc = "locked"]
                /\ UNCHANGED overtaken
             \/ Ends(p, "storage-failure")
          /\ UNCHANGED <<settings, deadline, userEdits, hook>>

\* publish_settings_atomically: modified, removed and newly appeared files stop it.
SameBase(p) == settings = inst[p].base
Compare(p) ==
  /\ inst[p].pc = "locked"
  /\ IF SameBase(p)
     THEN /\ inst' = [inst EXCEPT ![p].pc = "compared"]
          /\ UNCHANGED <<settings, saved, held, deadline, userEdits, overtaken, hook>>
     ELSE Stops(p, "external-modification")

PublishSettings(p) ==
  /\ inst[p].pc = "compared"
  /\ settings' = Edited(inst[p].base, inst[p].request)
  /\ Ends(p, "applied")
  /\ UNCHANGED <<saved, deadline, userEdits, hook>>

Killed(p) == inst[p].pc \notin {"idle", "done"} /\ Stops(p, "killed")

\* A person writes the file: adds an entry of theirs, drops one, retimes ours,
\* gives it a matcher, or removes the file; or changes the configured deadline.
\* A hook that has fixed its deadline is over by then.
UserEdit ==
  /\ userEdits < MaxUserEdits /\ userEdits' = userEdits + 1
  /\ settings # BadFile
  /\ settings' \in {NoSettings, Append(Parsed(settings), [command |-> Foreign, timeout |-> 1, plain |-> TRUE])}
       \cup {RemoveAt(settings, i) : i \in DOMAIN Parsed(settings)}
       \cup {[settings EXCEPT ![i].timeout = t] : i \in DOMAIN Parsed(settings), t \in Timeouts}
       \cup {[settings EXCEPT ![i].plain = FALSE] : i \in DOMAIN Parsed(settings)}
  /\ overtaken' = overtaken \cup {p \in Installers : inst[p].pc = "compared"}
  /\ hook' = IF hook # NoHook /\ hook.pc = "clamped" THEN NoHook ELSE hook
  /\ UNCHANGED <<saved, held, inst, deadline>>

Retime ==
  /\ userEdits < MaxUserEdits /\ userEdits' = userEdits + 1
  /\ deadline' \in Deadlines \ {deadline}
  /\ UNCHANGED <<settings, saved, held, inst, overtaken, hook>>

\* installed_hook_budget_ms: the first entry with this command, less the reserve.
Budget(file, command) ==
  LET i == IF file = BadFile THEN 0 ELSE SelectInSeq(Parsed(file), LAMBDA e : e.command = command)
      secs == (IF i = 0 THEN DEFAULT_HOOK_TIMEOUT_SECS ELSE Parsed(file)[i].timeout) - HOOK_STARTUP_RESERVE_SECS
  IN  (IF secs < 0 THEN 0 ELSE secs) * TICKS

\* The harness reads the settings and starts the hook of an entry.  The file may
\* be rewritten while the process starts up.
StartHook ==
  /\ hook = NoHook /\ settings \notin {NoSettings, BadFile}
  /\ \E i \in DOMAIN settings :
       /\ IsSr(settings[i])
       /\ hook' = [pc |-> "started", command |-> settings[i].command, outer |-> settings[i].timeout]
  /\ UNCHANGED <<settings, saved, held, inst, deadline, userEdits, overtaken>>

\* The hook loads its configuration and clamps its own deadline to the entry it
\* finds for its command.  `kept' tells whether the entry it was started from is
\* in the file it reads.
EntryKept ==
  \E e \in ToSet(IF settings = BadFile THEN <<>> ELSE Parsed(settings)) :
    e.command = hook.command /\ e.timeout = hook.outer
ClampHook ==
  /\ hook # NoHook /\ hook.pc = "started"
  /\ LET b == Budget(settings, hook.command)
     IN  hook' = [pc |-> "clamped", outer |-> hook.outer, kept |-> EntryKept,
                  inner |-> IF deadline > b THEN b ELSE deadline]
  /\ UNCHANGED <<settings, saved, held, inst, deadline, userEdits, overtaken>>

InstallerNext ==
  \/ \E p \in Installers : Prepare(p) \/ TakeLock(p) \/ Compare(p) \/ PublishSettings(p) \/ Killed(p)
  \/ UserEdit
  \/ Retime
  \/ StartHook
  \/ ClampHook

(* A publication changes the settings by its one managed entry and by      *)
(* nothing else that stands in the file at that moment, and a backup holds *)
(* what it replaced, although it classified the file before it took the    *)
(* lock - unless an outside edit fell between its comparison and rename.   *)
OnlyTheManagedEntry ==
  \A p \in Installers :
    inst[p].pc = "compared" /\ inst'[p].pc = "done" /\ inst'[p].outcome = "applied" /\ p \notin overtaken =>
      /\ settings' = Edited(settings, inst[p].request)
      /\ settings \in saved

(* A hook that reads the entry it was started from stops by itself,        *)
(* startup reserve included, before the harness kills it, even when the    *)
(* entry was retimed or the configured deadline raised after the           *)
(* installation, and whatever else was written to the file since it was    *)
(* started.  One whose entry was rewritten as it started up reads another  *)
(* budget than the one that the harness holds it to.                       *)
HookOutlived ==
  hook # NoHook /\ hook.pc = "clamped" /\ hook.kept =>
    hook.inner + HOOK_STARTUP_RESERVE_SECS * TICKS <= hook.outer * TICKS

=============================================================================
