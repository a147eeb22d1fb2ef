------------------------------- MODULE Snooze -------------------------------
(***************************************************************************)
(* The trusted snooze file (src/src/snooze.rs) and the `sr snooze` command *)
(* that edits it (src/src/cli.rs).  Commands are processes: each reads the *)
(* wall clock and resolves its scope from a recorded event first, and only *)
(* then takes the lock, reads the file, plans, backs the old bytes up,     *)
(* re-reads the target and renames its staged copy over it.  A person may  *)
(* edit the file at any moment, the wall clock may step either way, and a  *)
(* command may die anywhere (the kernel then drops its flock).             *)
(***************************************************************************)
EXTENDS Integers, FiniteSets

CONSTANTS
  Writers,        \* `sr snooze` processes
  Scopes,         \* resolved (workspace, session, branch) scopes
  NoSession,      \* the scope of an event with a placeholder session or branch
  Skills,         \* skills a snooze can name
  Everything,     \* the target of `--all`
  Durations,      \* durations offered with --for, some of them out of range
  MIN_SNOOZE_MS, MAX_SNOOZE_MS, MAX_SNOOZES,
  MaxClock,       \* bound on the wall clock
  MaxFileEdits,   \* bound on external edits
  Absent, Malformed

VARIABLES
  snoozes,        \* the file: Absent, Malformed or a set of entries
  backups,        \* contents kept by write_backup
  lock,           \* flock holders of snoozes.toml.sr-lock
  cmd,            \* per writer: its change and where it stands
  clock,          \* the wall clock; -1 reads before 1970
  fileEdits,      \* external edits so far
  latest,         \* the latest clock reading there ever was
  raced,          \* writers whose re-read an external edit overtook
  upheld          \* applied snoozes nothing has since replaced, cleared or edited

snoozeVars == <<snoozes, backups, lock, cmd, clock, fileEdits, latest, raced, upheld>>

Targets == Skills \cup {Everything}
Changes == [kind : {"snooze"}, scope : Scopes \cup {NoSession}, target : Targets,
            duration : Durations, apply : BOOLEAN]
             \cup [kind : {"clear"}, scope : Scopes \cup {NoSession}, apply : {TRUE}]

Idle == [pc |-> "idle"]

\* The entries a file may hold: written at a reading of the clock for a duration
\* that is offered (parse_duration).
InRange(d) == d \in MIN_SNOOZE_MS..MAX_SNOOZE_MS
Entry ==
  {[scope |-> s, target |-> t, created |-> at, expires |-> at + d] :
     s \in Scopes, t \in Targets, at \in 0..MaxClock, d \in {n \in Durations : InRange(n)}}

\* No set of entries is mistaken for the absence of a file or for a broken one.
ASSUME FileAssumption == \A file \in SUBSET Entry : file \notin {Absent, Malformed}
ASSUME SnoozeLimits == MAX_SNOOZES \in Nat /\ MaxClock \in Nat \ {0}

InScope(e, scope) == e.scope = scope

\* An entry whose creation the clock reads before has an uncertain expiry, and
\* so has every entry when the clock is unreadable: both keep muting.
SnoozeStatusForward(e, now) == IF 0 <= now /\ now \in e.created..(e.expires - 1) THEN "active" ELSE "expired"
SnoozeStatus(e, now) == CASE now < 0 -> "uncertain-expiry"
                    [] now < e.created -> "uncertain-expiry"
                    [] now < e.expires -> "active"
                    [] OTHER -> "expired"

Mutes(e, now) == SnoozeStatus(e, now) # "expired"

\* What SnoozeSet::decode accepts.
Decodes(file) ==
  \/ file = Absent
  \/ /\ file # Malformed
     /\ Cardinality(file) <= MAX_SNOOZES
     /\ \A e \in file : InRange(e.expires - e.created)
     /\ \A e, f \in file : e.scope = f.scope /\ e.target = f.target => e = f

Entries(file) == IF file = Absent THEN {} ELSE file

\* The targets muted in one scope at one time.
Controls(file, scope, now) ==
  {e.target : e \in {f \in Entries(file) : InScope(f, scope) /\ Mutes(f, now)}}

\* parse_duration, and the grammar's own rules, refuse a change before any I/O.
Offered(change) == change.kind = "clear" \/ InRange(change.duration)

\* from_event: a mute needs a fully attributed scope.
FromEvent(change) == change.scope # NoSession

NewEntry(change, now) ==
  [scope |-> change.scope, target |-> change.target, created |-> now, expires |-> now + change.duration]

\* The entries of `file` a change leaves in place.
Kept(file, change, now) ==
  {e \in Entries(file) : /\ SnoozeStatus(e, now) # "expired"
                         /\ change.kind = "clear" => ~InScope(e, change.scope)
                         /\ change.kind = "snooze" => ~(InScope(e, change.scope) /\ e.target = change.target)}

\* plan: whether it succeeds, and the file it proposes.
TooMany(file, change, now) ==
  change.kind = "snooze" /\ Cardinality(Kept(file, change, now)) >= MAX_SNOOZES
Plan(file, change, now) ==
  Kept(file, change, now) \cup (IF change.kind = "snooze" THEN {NewEntry(change, now)} ELSE {})

SnoozeInit ==
  /\ snoozes = Absent /\ backups = {} /\ lock = {} /\ fileEdits = 0
  /\ cmd = [w \in Writers |-> Idle]
  /\ clock \in 0..1 /\ latest = clock
  /\ raced = {} /\ upheld = {}

\* A writer ends: it leaves the lock, and its staged file, if any, is unlinked.
End(w, outcome) ==
  /\ cmd' = [cmd EXCEPT ![w] = [pc |-> "done", outcome |-> outcome]]
  /\ lock' = lock \ {w}
  /\ raced' = raced \ {w}

Fail(w, outcome) == End(w, outcome) /\ UNCHANGED <<snoozes, backups, clock, fileEdits, latest, upheld>>

\* snooze_command up to its first touch of the file: usage, clock, ledger lookup.
BeginSnooze(w) ==
  /\ cmd[w].pc = "idle"
  /\ \E change \in Changes :
       IF Offered(change) /\ clock >= 0 /\ FromEvent(change)
       THEN /\ cmd' = [cmd EXCEPT ![w] = [pc |-> "resolved", change |-> change, now |-> clock]]
            /\ UNCHANGED <<snoozes, backups, lock, clock, fileEdits, latest, raced, upheld>>
       ELSE Fail(w, "refused")

\* Without --apply: load and plan, and nothing is written.
PreviewSnooze(w) ==
  /\ cmd[w].pc = "resolved" /\ ~cmd[w].change.apply
  /\ Fail(w, IF ~Decodes(snoozes) \/ TooMany(snoozes, cmd[w].change, cmd[w].now)
             THEN "refused" ELSE "previewed")

\* SnoozeLock::acquire never waits.
LockFree(w) == lock = {}
Acquire(w) ==
  /\ cmd[w].pc = "resolved" /\ cmd[w].change.apply
  /\ IF LockFree(w)
     THEN /\ lock' = lock \cup {w}
          /\ cmd' = [cmd EXCEPT ![w].pc = "locked"]
          /\ UNCHANGED <<snoozes, backups, clock, fileEdits, latest, raced, upheld>>
     ELSE Fail(w, "lock-busy")

\* Read, decode, plan, back up and stage; any of the writes may fail.
Stage(w) ==
  /\ cmd[w].pc = "locked"
  /\ IF ~Decodes(snoozes) \/ TooMany(snoozes, cmd[w].change, cmd[w].now)
     THEN Fail(w, "refused")
     ELSE /\ backups' = IF snoozes = Absent THEN backups ELSE backups \cup {snoozes}
          /\ \/ cmd' = [cmd EXCEPT ![w] = [pc |-> "staged", change |-> @.change, now |-> @.now,
                                          original |-> snoozes,
                                          next |-> Plan(snoozes, @.change, @.now)]]
                /\ UNCHANGED <<lock, raced>>
             \/ End(w, "storage-failure")
          /\ UNCHANGED <<snoozes, clock, fileEdits, latest, upheld>>

\* The re-read before the rename.
Unmodified(w) == snoozes = cmd[w].original
Recheck(w) ==
  /\ cmd[w].pc = "staged"
  /\ IF Unmodified(w)
     THEN /\ cmd' = [cmd EXCEPT ![w].pc = "checked"]
          /\ UNCHANGED <<snoozes, backups, lock, clock, fileEdits, latest, raced, upheld>>
     ELSE Fail(w, "external-modification")

Superseded(u, change) ==
  u.scope = change.scope /\ (change.kind = "clear" \/ u.target = change.target)

Rename(w) ==
  /\ cmd[w].pc = "checked"
  /\ LET change == cmd[w].change
     IN  /\ snoozes' = cmd[w].next
         /\ upheld' = {u \in upheld : ~Superseded(u, change)} \cup
                        (IF change.kind = "snooze" THEN {NewEntry(change, cmd[w].now)} ELSE {})
  /\ End(w, "applied")
  /\ UNCHANGED <<backups, clock, fileEdits, latest>>

\* The command dies: the kernel drops its lock; a staged file is left behind.
Die(w) == cmd[w].pc \notin {"idle", "done"} /\ Fail(w, "died")

\* A person, or a program outside this repository, replaces the file.
Edit ==
  /\ fileEdits < MaxFileEdits /\ fileEdits' = fileEdits + 1
  /\ snoozes' \in ({Absent, Malformed} \cup {{e} : e \in Entries(IF Decodes(snoozes) THEN snoozes ELSE Absent)})
                    \ {snoozes}
  /\ raced' = raced \cup {w \in Writers : cmd[w].pc = "checked"}
  /\ upheld' = {}
  /\ UNCHANGED <<backups, lock, cmd, clock, latest>>

SnoozeTick ==
  /\ clock' \in (-1..MaxClock) \ {clock}
  /\ latest' = IF clock' > latest THEN clock' ELSE latest
  /\ UNCHANGED <<snoozes, backups, lock, cmd, fileEdits, raced, upheld>>

SnoozeNext ==
  \/ \E w \in Writers : \/ BeginSnooze(w) \/ PreviewSnooze(w) \/ Acquire(w) \/ Stage(w)
                        \/ Recheck(w) \/ Rename(w) \/ Die(w)
  \/ Edit
  \/ SnoozeTick

(* An applied snooze keeps muting its target in its scope until some clock *)
(* reading reaches its expiry, whatever other writers do meanwhile and     *)
(* however the clock steps back, unless a later command for the same scope *)
(* replaced or cleared it or the file was edited from outside.             *)
SnoozeHolds ==
  \A u \in upheld : latest < u.expires =>
     Decodes(snoozes) /\ u.target \in Controls(snoozes, u.scope, clock)

(* A rename drops no entry but the ones its own plan removes from what the *)
(* file holds at that moment, and what it replaces is in a backup, unless  *)
(* an outside edit fell between its re-read and its rename.                *)
RenameLosesNothing ==
  \A w \in Writers : cmd[w].pc = "checked" /\ cmd'[w].pc = "done" /\ cmd'[w].outcome = "applied"
                       /\ w \notin raced =>
    /\ Kept(snoozes, cmd[w].change, cmd[w].now) \subseteq snoozes'
    /\ snoozes = Absent \/ snoozes \in backups

=============================================================================
