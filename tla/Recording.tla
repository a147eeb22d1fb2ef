----------------------------- MODULE Recording -----------------------------
(***************************************************************************)
(* How ranking runs write themselves into the observation ledger.          *)
(*                                                                         *)
(* A run records itself as in flight before the first send, journals each  *)
(* provider attempt when it is admitted and again just before its request  *)
(* reaches the wire, settles event, candidates, roster snapshot and        *)
(* attempts in one final transaction, prints its answer, and only then     *)
(* marks the event emitted.  Every write opens the ledger anew, takes the  *)
(* generation it finds as its stamp and checks it in its transaction.      *)
(* `sr ledger prune` and `sr ledger clear` sweep rows beside running runs; *)
(* deliveries of one turn share one event; a run may be killed between any *)
(* two steps.                                                              *)
(***************************************************************************)
EXTENDS Naturals, FiniteSets

CONSTANTS
  Runs,          \* ranking invocations
  Events,        \* turn identities: two runs of one turn are a redelivery
  Snapshots,     \* content-addressed roster snapshots
  NoRow, NoSnap, \* absent row, absent snapshot reference
  MaxAttempts,   \* provider attempts of one run
  MaxTime,       \* bound on the wall clock
  MaxSweeps      \* bound on prunes and clears

ASSUME RecordingAssumption ==
  /\ MaxAttempts \in Nat
  /\ MaxTime \in Nat
  /\ MaxSweeps \in Nat
  /\ NoSnap \notin Snapshots

VARIABLES
  rows,     \* ranking_events: event -> row or NoRow
  cands,    \* ranking_candidates: event -> the runs whose candidates it holds
  att,      \* provider_attempts: run -> attempt -> status, owned by turn[run]
  snaps,    \* roster_snapshots: snapshot -> its creation time, or NoRow
  pc,       \* where each run stands
  turn,     \* the event each run records
  roster,   \* the snapshot each run resolved
  stamp,    \* the open store's view of the data generation
  journal,  \* does the run hold an attempt journal?
  count,    \* attempts the run has admitted
  recorded, \* Evaluated.ledger_recorded
  now,      \* wall clock
  sweeps,   \* prunes and clears so far
  \* history, read by the properties only
  wire,     \* attempts whose request may have reached the provider
  printed,  \* runs whose answer was written to stdout
  gaps,     \* runs that failed to journal an attempt
  ended,    \* runs whose final write landed, as an answer or as a failure
  won,      \* runs whose success is in the table
  swept,    \* runs whose event was swept after they began
  fenced    \* runs in flight at a clear whose event was in the table

tables == <<rows, cands, att, snaps>>
inputs == <<turn, roster>>
history == <<wire, printed, gaps, ended, won, swept, fenced>>
vars == <<tables, pc, inputs, stamp, journal, count, recorded, now, sweeps, history>>

Attempts == 1..MaxAttempts
Times == 0..MaxTime

\* The writes a run can be at, in the order a full run makes them; "local" is the
\* final write of a decision that sends nothing.
Writes == {"inflight", "admit", "mark", "local", "success", "failure", "emit"}
Stopped == {"done", "dead"}
Running(r) == pc[r] \notin {"idle"} \cup Stopped
InFlight(r) == pc[r] \in {"ready", "admit", "sending", "mark", "success"}

\* Decisions and exposures are those of DecisionKind and ExposureState that the
\* program writes; "delivered" stands for ranked, explicit and abstain.
Rows == [decision : {"unavailable", "delivered"},
         exposure : {"generated", "prepared", "emitted"},
         created  : Times,
         snap     : Snapshots \cup {NoSnap}]

\* An absent row is none that the ledger could hold.
ASSUME NoRowAssumption == NoRow \notin Rows \cup Times

Row(decision, exposure, snap) ==
  [decision |-> decision, exposure |-> exposure, created |-> now, snap |-> snap]

InFlightRow == Row("unavailable", "generated", NoSnap)
FailureRow == Row("unavailable", "prepared", NoSnap)
SuccessRow(r) == Row("delivered", "prepared", roster[r])

-----------------------------------------------------------------------------
(* record_ranking_event_with_attempts *)

\* Mutants of Replaceable: an unfinished row stands; any prepared row is replaced.
ReplaceFailuresOnly(row) == row.exposure = "prepared" /\ row.decision = "unavailable"
ReplacePrepared(row) == row.exposure \in {"generated", "prepared"}

\* A running delivery's row, or a finished failure: a later delivery replaces it.
Replaceable(row) ==
  \/ row.exposure = "generated"
  \/ row.exposure = "prepared" /\ row.decision = "unavailable"

\* The stored row after writing `new` under e; creation time is never updated.
Stored(e, new) ==
  IF rows[e] = NoRow THEN new
  ELSE IF Replaceable(rows[e]) THEN [new EXCEPT !.created = rows[e].created]
  ELSE rows[e]

\* Candidates are inserted even when the stored row stands.
InsertCandidates(r) == [cands EXCEPT ![turn[r]] = @ \cup {r}]

\* insert_snapshot keeps an existing snapshot and its creation time.
InsertSnapshot(s) == IF snaps[s] = NoRow THEN [snaps EXCEPT ![s] = now] ELSE snaps

\* advance_provider_attempt: the run's attempts, each settled.
SettleAttempts(r) ==
  [att EXCEPT ![r] = [n \in Attempts |-> IF n <= count[r] THEN "settled" ELSE @[n]]]

-----------------------------------------------------------------------------
(* One write: open_blocking takes the stamp, check_stamp compares it in the  *)
(* transaction, and run_blocking_leaf may lose the confirmation of a commit. *)

\* Every stamp taken before this commit is stale after it.
Bump(stamps) == [r \in Runs |-> IF stamps[r] = "current" THEN "stale" ELSE stamps[r]]

Closed(r) == [stamp EXCEPT ![r] = "closed"]

Open(r) ==
  /\ pc[r] \in Writes
  /\ stamp[r] = "closed"
  /\ stamp' = [stamp EXCEPT ![r] = "current"]
  /\ UNCHANGED <<tables, pc, inputs, journal, count, recorded, now, sweeps, history>>

\* The write lands, unless its generation is stale or the store fails it; a
\* write that landed may still be reported as failed.
Outcomes(r) == {o \in [landed : BOOLEAN, told : BOOLEAN] :
                  /\ o.told => o.landed
                  /\ stamp[r] = "stale" => ~o.landed}

At(r, write) == pc[r] = write /\ stamp[r] # "closed"
Ending(r, o) == ended' = IF o.landed THEN ended \cup {r} ELSE ended
Goto(r, where) == pc' = [pc EXCEPT ![r] = where]

-----------------------------------------------------------------------------
(* The run *)

\* A local decision goes straight to its final write; any other run records
\* itself as in flight first.
Begin(r) ==
  /\ pc[r] = "idle"
  /\ \E first \in {"inflight", "local"} : Goto(r, first)
  /\ UNCHANGED <<tables, inputs, stamp, journal, count, recorded, now, sweeps, history>>

\* record_inflight_ranking: the journal exists only if the row is known to be there.
RecordInFlight(r) ==
  /\ At(r, "inflight")
  /\ \E o \in Outcomes(r) :
       /\ rows' = IF o.landed THEN [rows EXCEPT ![turn[r]] = Stored(turn[r], InFlightRow)]
                  ELSE rows
       /\ journal' = [journal EXCEPT ![r] = o.told]
  /\ stamp' = Closed(r)
  /\ Goto(r, "ready")
  /\ UNCHANGED <<cands, att, snaps, inputs, count, recorded, now, sweeps, history>>

\* A provider attempt is admitted.
StartAttempt(r) ==
  /\ pc[r] = "ready"
  /\ count[r] < MaxAttempts
  /\ count' = [count EXCEPT ![r] = @ + 1]
  /\ Goto(r, IF journal[r] THEN "admit" ELSE "sending")
  /\ UNCHANGED <<tables, inputs, stamp, journal, recorded, now, sweeps, history>>

\* LedgerAttemptJournal::admitted: a plain insert that its owner's row must support.
AdmitAttempt(r) ==
  /\ At(r, "admit")
  /\ \E o \in Outcomes(r) :
       /\ o.landed => rows[turn[r]] # NoRow /\ att[r][count[r]] = "none"
       /\ att' = IF o.landed THEN [att EXCEPT ![r][count[r]] = "admitted"] ELSE att
       /\ gaps' = IF o.landed THEN gaps ELSE gaps \cup {r}
  /\ stamp' = Closed(r)
  /\ Goto(r, "sending")
  /\ UNCHANGED <<rows, cands, snaps, inputs, journal, count, recorded, now, sweeps,
                 wire, printed, ended, won, swept, fenced>>

\* Mutant of Send: the journal is told once the request is on the wire.
SendThenMark(r) ==
  /\ pc[r] = "sending"
  /\ Goto(r, IF journal[r] THEN "mark" ELSE "ready")
  /\ wire' = [wire EXCEPT ![r] = @ \cup {count[r]}]
  /\ UNCHANGED <<tables, inputs, stamp, journal, count, recorded, now, sweeps,
                 printed, gaps, ended, won, swept, fenced>>

\* An attempt is discarded before its send, or starts; without a journal it
\* goes on the wire at once.
Send(r) ==
  /\ pc[r] = "sending"
  /\ \/ /\ Goto(r, "ready")
        /\ UNCHANGED wire
     \/ /\ journal[r]
        /\ Goto(r, "mark")
        /\ UNCHANGED wire
     \/ /\ ~journal[r]
        /\ Goto(r, "ready")
        /\ wire' = [wire EXCEPT ![r] = @ \cup {count[r]}]
  /\ UNCHANGED <<tables, inputs, stamp, journal, count, recorded, now, sweeps,
                 printed, gaps, ended, won, swept, fenced>>

\* LedgerAttemptJournal::reached_wire: only an admitted row advances, and the
\* request goes out whether or not the write landed.
MarkSent(r) ==
  /\ At(r, "mark")
  /\ \E o \in Outcomes(r) :
       /\ o.landed => att[r][count[r]] = "admitted"
       /\ att' = IF o.landed THEN [att EXCEPT ![r][count[r]] = "sent"] ELSE att
       /\ gaps' = IF o.landed THEN gaps ELSE gaps \cup {r}
  /\ wire' = [wire EXCEPT ![r] = @ \cup {count[r]}]
  /\ stamp' = Closed(r)
  /\ Goto(r, "ready")
  /\ UNCHANGED <<rows, cands, snaps, inputs, journal, count, recorded, now, sweeps,
                 printed, ended, won, swept, fenced>>

\* prepare_ledger_record on an answer; any failure before its final write, a
\* suppressed late answer included, finalizes as unavailable instead.
Conclude(r) ==
  /\ \/ pc[r] = "ready" /\ Goto(r, "success")
     \/ pc[r] \in {"ready", "success", "local"} /\ stamp[r] = "closed" /\ Goto(r, "failure")
  /\ UNCHANGED <<tables, inputs, stamp, journal, count, recorded, now, sweeps, history>>

\* The final write of an answer takes pending_ledger.  Unless it is known to have
\* landed the answer carries a warning, and one that no longer fits its contract is
\* a failure: recorded as one where failed_recording was armed before a send, and
\* not at all of a local decision.
RecordSuccess(r) ==
  /\ At(r, "success") \/ At(r, "local")
  /\ \E o \in Outcomes(r) :
       /\ IF o.landed
          THEN /\ rows' = [rows EXCEPT ![turn[r]] = Stored(turn[r], SuccessRow(r))]
               /\ cands' = InsertCandidates(r)
               /\ snaps' = InsertSnapshot(roster[r])
               /\ att' = SettleAttempts(r)
               /\ won' = won \cup {r}
          ELSE UNCHANGED <<tables, won>>
       /\ recorded' = [recorded EXCEPT ![r] = o.told]
       /\ Ending(r, o)
       /\ \/ Goto(r, "print")
          \/ ~o.told /\ Goto(r, IF pc[r] = "success" THEN "failure" ELSE "done")
  /\ stamp' = Closed(r)
  /\ UNCHANGED <<inputs, journal, count, now, sweeps, wire, printed, gaps, swept, fenced>>

\* record_failed_attempts: no candidates, no snapshot.
RecordFailure(r) ==
  /\ At(r, "failure")
  /\ \E o \in Outcomes(r) :
       /\ IF o.landed
          THEN /\ rows' = [rows EXCEPT ![turn[r]] = Stored(turn[r], FailureRow)]
               /\ att' = SettleAttempts(r)
          ELSE UNCHANGED <<rows, att>>
       /\ Ending(r, o)
  /\ stamp' = Closed(r)
  /\ Goto(r, "done")
  /\ UNCHANGED <<cands, snaps, inputs, journal, count, recorded, now, sweeps,
                 wire, printed, gaps, won, swept, fenced>>

\* Mutant of Publish: the emission is recorded before the outcome of the write
\* to stdout is known.
PublishBlindly(r) ==
  /\ pc[r] = "print"
  /\ Goto(r, IF recorded[r] THEN "emit" ELSE "done")
  /\ \E out \in {{}, {r}} : printed' = printed \cup out
  /\ UNCHANGED <<tables, inputs, stamp, journal, count, recorded, now, sweeps,
                 wire, gaps, ended, won, swept, fenced>>

\* stdout: a late, shadowed, fenced or failed write prints nothing.
Publish(r) ==
  /\ pc[r] = "print"
  /\ \/ /\ printed' = printed \cup {r}
        /\ Goto(r, IF recorded[r] THEN "emit" ELSE "done")
     \/ Goto(r, "done") /\ UNCHANGED printed
  /\ UNCHANGED <<tables, inputs, stamp, journal, count, recorded, now, sweeps,
                 wire, gaps, ended, won, swept, fenced>>

\* record_emission: it needs the event's row, and advances the generation only
\* when it changes it.
RecordEmission(r) ==
  /\ At(r, "emit")
  /\ \E o \in Outcomes(r) :
       /\ o.landed => rows[turn[r]] # NoRow
       /\ IF o.landed /\ rows[turn[r]].exposure # "emitted"
          THEN /\ rows' = [rows EXCEPT ![turn[r]].exposure = "emitted"]
               /\ stamp' = Bump(Closed(r))
          ELSE /\ stamp' = Closed(r)
               /\ UNCHANGED rows
  /\ Goto(r, "done")
  /\ UNCHANGED <<cands, att, snaps, inputs, journal, count, recorded, now, sweeps,
                 history>>

\* The harness kills a run that exceeds its outer timeout, at any point.
Kill(r) ==
  /\ Running(r)
  /\ Goto(r, "dead")
  /\ stamp' = Closed(r)
  /\ count' = [count EXCEPT ![r] = 0]
  /\ recorded' = [recorded EXCEPT ![r] = FALSE]
  /\ UNCHANGED <<tables, inputs, journal, now, sweeps, history>>

-----------------------------------------------------------------------------
(* Retention *)

\* Deletes the events in gone with what depends on them, and the snapshots in
\* spent.
Sweep(gone, spent) ==
  /\ rows' = [e \in Events |-> IF e \in gone THEN NoRow ELSE rows[e]]
  /\ cands' = [e \in Events |-> IF e \in gone THEN {} ELSE cands[e]]
  /\ att' = [r \in Runs |-> IF turn[r] \in gone THEN [n \in Attempts |-> "none"] ELSE att[r]]
  /\ snaps' = [s \in Snapshots |-> IF s \in spent THEN NoRow ELSE snaps[s]]
  /\ stamp' = Bump(stamp)
  /\ won' = {r \in won : turn[r] \notin gone}
  /\ swept' = swept \cup {r \in Runs : pc[r] # "idle" /\ turn[r] \in gone}

Present == {e \in Events : rows[e] # NoRow}

\* Mutant of SpentSnapshots: age alone decides.
SpentByAge(kept, cutoff) == {s \in Snapshots : snaps[s] # NoRow /\ snaps[s] < cutoff}

\* Snapshots older than the cutoff that no kept event refers to.
SpentSnapshots(kept, cutoff) ==
  {s \in Snapshots : /\ snaps[s] # NoRow
                     /\ snaps[s] < cutoff
                     /\ \A e \in kept : rows[e].snap # s}

\* prune_apply
Prune(cutoff) ==
  LET gone == {e \in Present : rows[e].created < cutoff} IN
  /\ sweeps < MaxSweeps
  /\ sweeps' = sweeps + 1
  /\ Sweep(gone, SpentSnapshots(Present \ gone, cutoff))
  /\ UNCHANGED <<pc, inputs, journal, count, recorded, now, wire, printed, gaps, ended, fenced>>

\* clear_apply
Clear ==
  /\ sweeps < MaxSweeps
  /\ sweeps' = sweeps + 1
  /\ Sweep(Events, Snapshots)
  /\ fenced' = fenced \cup {r \in Runs : InFlight(r) /\ rows[turn[r]] # NoRow}
  /\ UNCHANGED <<pc, inputs, journal, count, recorded, now, wire, printed, gaps, ended>>

Tick ==
  /\ now < MaxTime
  /\ now' = now + 1
  /\ UNCHANGED <<tables, pc, inputs, stamp, journal, count, recorded, sweeps, history>>

-----------------------------------------------------------------------------

Init ==
  /\ rows = [e \in Events |-> NoRow]
  /\ cands = [e \in Events |-> {}]
  /\ att = [r \in Runs |-> [n \in Attempts |-> "none"]]
  /\ snaps = [s \in Snapshots |-> NoRow]
  /\ pc = [r \in Runs |-> "idle"]
  /\ turn \in [Runs -> Events]
  /\ roster \in [Runs -> Snapshots]
  /\ stamp = [r \in Runs |-> "closed"]
  /\ journal = [r \in Runs |-> FALSE]
  /\ count = [r \in Runs |-> 0]
  /\ recorded = [r \in Runs |-> FALSE]
  /\ now = 0
  /\ sweeps = 0
  /\ wire = [r \in Runs |-> {}]
  /\ printed = {}
  /\ gaps = {}
  /\ ended = {}
  /\ won = {}
  /\ swept = {}
  /\ fenced = {}

Step(r) ==
  \/ Begin(r) \/ Open(r)
  \/ RecordInFlight(r)
  \/ StartAttempt(r) \/ AdmitAttempt(r) \/ Send(r) \/ MarkSent(r)
  \/ Conclude(r) \/ RecordSuccess(r) \/ RecordFailure(r)
  \/ Publish(r) \/ RecordEmission(r)
  \/ Kill(r)

Next ==
  \/ \E r \in Runs : Step(r)
  \/ \E cutoff \in 1..(MaxTime + 1) : Prune(cutoff)
  \/ Clear
  \/ Tick

Spec == Init /\ [][Next]_vars

-----------------------------------------------------------------------------
(* Properties *)

\* Every table and every run's state has its declared shape.
TypeOK ==
  /\ rows \in [Events -> Rows \cup {NoRow}]
  /\ cands \in [Events -> SUBSET Runs]
  /\ att \in [Runs -> [Attempts -> {"none", "admitted", "sent", "settled"}]]
  /\ snaps \in [Snapshots -> Times \cup {NoRow}]
  /\ pc \in [Runs -> Writes \cup Stopped \cup {"idle", "ready", "sending", "print"}]
  /\ turn \in [Runs -> Events]
  /\ roster \in [Runs -> Snapshots]
  /\ stamp \in [Runs -> {"closed", "current", "stale"}]
  /\ journal \in [Runs -> BOOLEAN]
  /\ count \in [Runs -> 0..MaxAttempts]
  /\ recorded \in [Runs -> BOOLEAN]
  /\ now \in Times
  /\ sweeps \in 0..MaxSweeps
  /\ wire \in [Runs -> SUBSET Attempts]
  /\ printed \subseteq Runs
  /\ gaps \subseteq Runs
  /\ ended \subseteq Runs
  /\ won \subseteq Runs
  /\ swept \subseteq Runs
  /\ fenced \subseteq Runs

\* A row that says a run is in flight is explained by a delivery of that turn
\* that has begun and has written no ending: a run that recorded how it ended
\* never leaves its turn reading as died in flight, whatever the other
\* deliveries of the turn did in between.
InFlightHonest ==
  \A e \in Present : rows[e].exposure = "generated" =>
    \E r \in Runs \ ended : turn[r] = e /\ pc[r] # "idle"

\* Retention swept the event away under a run that had begun: what follows for
\* the event is then not a plain redelivery.
Swept(e) == \E r \in swept : turn[r] = e

\* Once a delivery's answer is recorded, no other delivery of the turn turns
\* the event back into an unfinished or failed one; only retention removes it.
SuccessStands ==
  \A r \in won : \/ /\ rows[turn[r]] # NoRow
                     /\ rows[turn[r]].decision = "delivered"
                     /\ rows[turn[r]].exposure # "generated"
                  \/ Swept(turn[r])

\* An event counts as an exposure only if some delivery of it wrote its answer
\* to stdout; and, unless retention swept it under a run, what it exposed was an
\* answer and not an unavailable turn.
EmittedWasPrinted ==
  \A e \in Present : rows[e].exposure = "emitted" =>
    /\ \E r \in printed : turn[r] = e
    /\ rows[e].decision = "delivered" \/ Swept(e)

\* A request that may have reached the provider is on record.  While the run
\* holds a journal that is true from before the send, so that a kill cannot
\* hide the cost; without one it is true once the run has written its ending.
\* Writes that did not land and retention are the only exceptions.
PaidIsEvidenced ==
  \A r \in Runs \ swept : \A n \in wire[r] :
    /\ journal[r] /\ r \notin gaps => att[r][n] \in {"sent", "settled"}
    /\ r \in ended => att[r][n] = "settled"

\* Nothing refers to a row that is gone: attempts and candidates to their
\* event, an event to the roster snapshot its corrections are checked against,
\* although runs share snapshots and retention deletes them by age.
ReferencesHold ==
  /\ \A r \in Runs, n \in Attempts : att[r][n] # "none" => rows[turn[r]] # NoRow
  /\ \A e \in Events : cands[e] # {} => rows[e] # NoRow
  /\ \A e \in Present : rows[e].snap # NoSnap => snaps[rows[e].snap] # NoRow

\* The README's claim: clearing history keeps work that was in flight at the
\* clear, and had said so in the table, from repopulating it.
OlderWorkStaysOut ==
  \A e \in Present : \E r \in Runs : turn[r] = e /\ r \notin fenced
=============================================================================
