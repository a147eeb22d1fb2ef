--------------------------- MODULE PersistenceProofs ---------------------------
(***************************************************************************)
(* Theorems about what commands leave behind: the rows of the ledger       *)
(* (Recording) and the files of its user (UserCommands), for every set of  *)
(* runs, turns, writers, installers and calibrators, and every bound.      *)
(*                                                                         *)
(* The ledger.  The five invariants that the runs check are inductive      *)
(* together, with the types and with what each run knows of itself         *)
(* (RunInv): which of its attempts are admitted and on the wire, that only *)
(* a run past its ending has ended, and that only a printed and recorded   *)
(* answer is emitted.                                                      *)
(*                                                                         *)
(* The files.  Between its comparison and its rename a command's base is   *)
(* what stands in the file, unless an edit overtook it (WriterInv,         *)
(* RequestInv); a snooze that is upheld stands in a file that decodes      *)
(* (FileInv); a settings file has at most one entry that runs sr (OneSr);  *)
(* a revision's record keeps what its apply replaced (RevisionInv).        *)
(*                                                                         *)
(* The counters.  While nothing befell them, every hook they count is in   *)
(* the rows, among the non-turns, or owed (CountersCover), and rows that   *)
(* were admitted still find room beside what a prune needs (SpaceInv).     *)
(*                                                                         *)
(* The live batch.  Every loop takes only cases that were previewed, or    *)
(* may be (TodoInv, PreviewInv), and what was charged covers what was sent *)
(* and stays within the limit (BudgetInv).                                 *)
(***************************************************************************)
EXTENDS Recording, UserCommands, FiniteSetTheorems, SequenceTheorems, TLAPS

-----------------------------------------------------------------------------
(* The inductive invariant                                                 *)

\* Where a run is once it may have written how it ended.
Past == {"failure", "print", "emit", "done", "dead"}

\* The attempt under way is counted, and so is every attempt on the wire; a run
\* that ended is past its ending; what a run believes recorded was recorded; a run
\* marks its answer as emitted only after it recorded and printed it.
RunOf(r) ==
  /\ pc[r] \in {"admit", "sending", "mark"} => count[r] \in Attempts
  /\ pc[r] \in {"idle", "inflight"} => wire[r] = {}
  /\ pc[r] # "dead" => \A n \in wire[r] : n <= count[r]
  /\ r \in won => r \in ended
  /\ r \in ended => pc[r] \in Past
  /\ recorded[r] => r \in won \cup swept
  /\ pc[r] = "emit" => recorded[r] /\ r \in printed

RunInv == \A r \in Runs : RunOf(r)

\* The evidence invariants, which hold together or not at all: a success stands
\* because an emitted event is a delivered one, and conversely.
EvidenceInv ==
  InFlightHonest /\ SuccessStands /\ EmittedWasPrinted /\ PaidIsEvidenced /\ ReferencesHold

IInv == TypeOK /\ RunInv /\ EvidenceInv

\* The assumptions on the constants, gathered under one name that proofs cite.
RecordingConstants ==
  /\ MaxAttempts \in Nat /\ MaxTime \in Nat /\ MaxSweeps \in Nat
  /\ NoSnap \notin Snapshots /\ NoRow \notin Rows /\ NoRow \notin Times

\* The constants of recording satisfy what is assumed of them.
LEMMA RecordingConstantsHold == RecordingConstants
BY RecordingAssumption, NoRowAssumption DEF RecordingConstants

-----------------------------------------------------------------------------
(* What a write leaves in the table of events                              *)

\* The rows a run writes are rows.
LEMMA NewRows ==
  ASSUME TypeOK, NEW r \in Runs
  PROVE  /\ InFlightRow \in Rows /\ FailureRow \in Rows /\ SuccessRow(r) \in Rows
         /\ InFlightRow.exposure = "generated" /\ InFlightRow.snap = NoSnap
         /\ FailureRow.exposure = "prepared" /\ FailureRow.decision = "unavailable"
         /\ FailureRow.snap = NoSnap
         /\ SuccessRow(r).exposure = "prepared" /\ SuccessRow(r).decision = "delivered"
         /\ SuccessRow(r).snap = roster[r]
BY DEF TypeOK, Rows, Row, InFlightRow, FailureRow, SuccessRow

\* A stored row is the new one, but for its creation time, where there was none or
\* one that may be replaced; any other row stands (the upsert of ranking_events).
LEMMA StoredRow ==
  ASSUME TypeOK, NEW e \in Events, NEW new \in Rows
  PROVE  LET row == Stored(e, new)
         IN /\ row \in Rows /\ row # NoRow
            /\ \/ rows[e] # NoRow /\ ~Replaceable(rows[e]) /\ row = rows[e]
               \/ /\ rows[e] = NoRow \/ Replaceable(rows[e])
                  /\ row.decision = new.decision /\ row.exposure = new.exposure
                  /\ row.snap = new.snap
<1>1. rows[e] # NoRow => rows[e] \in Rows
  BY DEF TypeOK
<1>2. CASE rows[e] = NoRow
  BY <1>2, RecordingConstantsHold DEF Stored, RecordingConstants
<1>3. CASE rows[e] # NoRow /\ Replaceable(rows[e])
  <2> DEFINE row == [new EXCEPT !.created = rows[e].created]
  <2>1. /\ row \in Rows /\ row.decision = new.decision /\ row.exposure = new.exposure
        /\ row.snap = new.snap
    BY <1>1, <1>3 DEF Rows
  <2>2. Stored(e, new) = row
    BY <1>3 DEF Stored
  <2> HIDE DEF row
  <2> QED BY <1>3, <2>1, <2>2, RecordingConstantsHold DEF RecordingConstants
<1>4. CASE rows[e] # NoRow /\ ~Replaceable(rows[e])
  BY <1>1, <1>4 DEF Stored
<1> QED BY <1>2, <1>3, <1>4

-----------------------------------------------------------------------------
(* What one step of a run does to the event of its turn, and to the others *)

\* The event of the run's turn is written, as the upsert leaves it.
Wrote(r, new) == rows' = [rows EXCEPT ![turn[r]] = Stored(turn[r], new)]

\* The event of the run's turn is marked as emitted.
Emits(r) ==
  /\ pc[r] = "emit" /\ rows[turn[r]] # NoRow
  /\ rows' = [rows EXCEPT ![turn[r]].exposure = "emitted"]

\* The four writes that reach the table of events, each at its place in a run.
LEMMA RowSteps ==
  ASSUME TypeOK, NEW r \in Runs, Step(r)
  PROVE  \/ rows' = rows
         \/ pc[r] = "inflight" /\ Wrote(r, InFlightRow) /\ pc'[r] = "ready"
         \/ pc[r] = "failure" /\ Wrote(r, FailureRow) /\ r \in ended'
         \/ /\ pc[r] \in {"local", "success"} /\ Wrote(r, SuccessRow(r)) /\ r \in ended'
            /\ snaps' = InsertSnapshot(roster[r])
         \/ Emits(r)
<1> USE DEF At, Goto, tables
<1>1. CASE RecordInFlight(r)
  BY <1>1 DEF RecordInFlight, Wrote, TypeOK
<1>2. CASE RecordFailure(r)
  BY <1>2 DEF RecordFailure, Wrote, Ending
<1>3. CASE RecordSuccess(r)
  BY <1>3 DEF RecordSuccess, Wrote, Ending
<1>4. CASE RecordEmission(r)
  BY <1>4 DEF RecordEmission, Emits
<1>5. CASE Begin(r) \/ Open(r) \/ StartAttempt(r) \/ AdmitAttempt(r) \/ Send(r)
           \/ MarkSent(r) \/ Conclude(r) \/ Publish(r) \/ Kill(r)
  BY <1>5
     DEF Begin, Open, StartAttempt, AdmitAttempt, Send, MarkSent, Conclude, Publish, Kill
<1> QED BY <1>1, <1>2, <1>3, <1>4, <1>5 DEF Step

\* Of the event of another turn a step of a run changes nothing, and that of its
\* own turn it does not delete.
LEMMA EventSteps ==
  ASSUME TypeOK, NEW r \in Runs, Step(r), NEW e \in Events
  PROVE  /\ rows[e] # NoRow => rows'[e] # NoRow
         /\ e # turn[r] => rows'[e] = rows[e]
<1>1. turn[r] \in Events /\ rows \in [Events -> Rows \cup {NoRow}]
  BY DEF TypeOK
<1>2. ASSUME NEW new \in Rows, Wrote(r, new)
      PROVE  rows'[turn[r]] # NoRow /\ (e # turn[r] => rows'[e] = rows[e])
  <2>1. Stored(turn[r], new) # NoRow
    BY <1>1, StoredRow
  <2> QED BY <1>1, <1>2, <2>1 DEF Wrote
<1>3. ASSUME Emits(r)
      PROVE  rows'[turn[r]] # NoRow /\ (e # turn[r] => rows'[e] = rows[e])
  <2>1. [rows[turn[r]] EXCEPT !.exposure = "emitted"] \in Rows
    BY <1>1, <1>3 DEF Emits, Rows
  <2> QED BY <1>1, <1>3, <2>1, RecordingConstantsHold DEF Emits, RecordingConstants
<1> QED BY <1>2, <1>3, RowSteps, NewRows

\* Runs share the tables, the sweeps and the clock, and nothing else.
LEMMA OthersKept ==
  ASSUME TypeOK, NEW r \in Runs, Step(r), NEW q \in Runs \ {r}
  PROVE  /\ pc'[q] = pc[q] /\ count'[q] = count[q] /\ journal'[q] = journal[q]
         /\ recorded'[q] = recorded[q] /\ wire'[q] = wire[q] /\ att'[q] = att[q]
         /\ (q \in won' <=> q \in won) /\ (q \in ended' <=> q \in ended)
         /\ (q \in printed' <=> q \in printed) /\ (q \in gaps' <=> q \in gaps)
<1> USE DEF At, Goto, tables, history
<1>1. CASE Begin(r) \/ Open(r) \/ RecordInFlight(r) \/ StartAttempt(r)
  BY <1>1 DEF Begin, Open, RecordInFlight, StartAttempt, TypeOK
<1>2. CASE AdmitAttempt(r) \/ Send(r) \/ MarkSent(r)
  BY <1>2 DEF AdmitAttempt, Send, MarkSent, TypeOK
<1>3. CASE Conclude(r) \/ Publish(r) \/ RecordEmission(r) \/ Kill(r)
  BY <1>3 DEF Conclude, Publish, RecordEmission, Kill, TypeOK
<1>4. CASE RecordSuccess(r)
  BY <1>4 DEF RecordSuccess, SettleAttempts, Ending, TypeOK
<1>5. CASE RecordFailure(r)
  BY <1>5 DEF RecordFailure, SettleAttempts, Ending, TypeOK
<1> QED BY <1>1, <1>2, <1>3, <1>4, <1>5 DEF Step

\* A step of a run moves neither the turns nor the snapshots runs resolved, and is
\* no sweep.
LEMMA InputsKept ==
  ASSUME NEW r \in Runs, Step(r)
  PROVE  UNCHANGED <<turn, roster, now, sweeps, swept, fenced>>
BY DEF Step, Begin, Open, RecordInFlight, StartAttempt, AdmitAttempt, Send, MarkSent,
       Conclude, RecordSuccess, RecordFailure, Publish, RecordEmission, Kill, inputs, history

-----------------------------------------------------------------------------
(* Type correctness                                                        *)

\* A step of a run keeps the table of events well-typed.
LEMMA RowsType ==
  ASSUME TypeOK, NEW r \in Runs, Step(r)
  PROVE  rows' \in [Events -> Rows \cup {NoRow}]
<1>1. turn[r] \in Events /\ rows \in [Events -> Rows \cup {NoRow}]
  BY DEF TypeOK
<1>2. ASSUME NEW new \in Rows, Wrote(r, new) PROVE rows' \in [Events -> Rows \cup {NoRow}]
  <2>1. Stored(turn[r], new) \in Rows
    BY <1>1, StoredRow
  <2> QED BY <1>1, <1>2, <2>1 DEF Wrote
<1>3. ASSUME Emits(r) PROVE rows' \in [Events -> Rows \cup {NoRow}]
  <2>1. [rows[turn[r]] EXCEPT !.exposure = "emitted"] \in Rows
    BY <1>1, <1>3 DEF Emits, Rows
  <2> QED BY <1>1, <1>3, <2>1 DEF Emits
<1> QED BY <1>1, <1>2, <1>3, RowSteps, NewRows

\* A settled journal, and a snapshot kept or created, have their types.
LEMMA FinalWriteType ==
  ASSUME TypeOK, NEW r \in Runs
  PROVE  /\ SettleAttempts(r) \in [Runs -> [Attempts -> {"none", "admitted", "sent", "settled"}]]
         /\ InsertSnapshot(roster[r]) \in [Snapshots -> Times \cup {NoRow}]
         /\ InsertCandidates(r) \in [Events -> SUBSET Runs]
<1>1. [n \in Attempts |-> IF n <= count[r] THEN "settled" ELSE att[r][n]]
        \in [Attempts -> {"none", "admitted", "sent", "settled"}]
  BY DEF TypeOK
<1> QED BY <1>1 DEF TypeOK, SettleAttempts, InsertSnapshot, InsertCandidates

\* A step of a run keeps the state well-typed.
LEMMA TypeStep ==
  ASSUME TypeOK, RunInv, NEW r \in Runs, Step(r)
  PROVE  TypeOK'
<1> USE DEF At, Goto, tables, history, inputs, Closed, Writes, Stopped
<1>1. rows' \in [Events -> Rows \cup {NoRow}]
  BY RowsType
<1>2. count[r] \in 0 .. MaxAttempts /\ MaxAttempts \in Nat /\ RunOf(r)
  BY RecordingConstantsHold DEF TypeOK, RunInv, RecordingConstants
<1>3. ASSUME NEW o \in Outcomes(r) PROVE o.landed \in BOOLEAN /\ o.told \in BOOLEAN
  BY DEF Outcomes
<1>4. CASE Begin(r) \/ Open(r)
  BY <1>4 DEF Begin, Open, TypeOK
<1>5. CASE RecordInFlight(r)
  <2>1. PICK o \in Outcomes(r) : journal' = [journal EXCEPT ![r] = o.told]
    BY <1>5 DEF RecordInFlight
  <2>2. journal' \in [Runs -> BOOLEAN]
    BY <1>3, <2>1 DEF TypeOK
  <2>3. pc' = [pc EXCEPT ![r] = "ready"] /\ stamp' = [stamp EXCEPT ![r] = "closed"]
    BY <1>5 DEF RecordInFlight
  <2> QED BY <1>1, <1>5, <2>2, <2>3 DEF RecordInFlight, TypeOK
<1>6. CASE StartAttempt(r)
  BY <1>2, <1>6 DEF StartAttempt, TypeOK
<1>7. CASE AdmitAttempt(r)
  <2>1. att' = att \/ att' = [att EXCEPT ![r][count[r]] = "admitted"]
    BY <1>7 DEF AdmitAttempt
  <2>2. [att[r] EXCEPT ![count[r]] = "admitted"]
          \in [Attempts -> {"none", "admitted", "sent", "settled"}]
    BY DEF TypeOK
  <2>3. att' \in [Runs -> [Attempts -> {"none", "admitted", "sent", "settled"}]]
    BY <2>1, <2>2 DEF TypeOK
  <2> QED BY <1>7, <2>3 DEF AdmitAttempt, TypeOK
<1>8. ASSUME count[r] \in Attempts,
             wire' = [wire EXCEPT ![r] = @ \cup {count[r]}] \/ wire' = wire
      PROVE  wire' \in [Runs -> SUBSET Attempts]
  <2>1. wire[r] \cup {count[r]} \in SUBSET Attempts
    BY <1>8 DEF TypeOK
  <2> QED BY <1>8, <2>1 DEF TypeOK
<1>9. CASE Send(r)
  BY <1>2, <1>8, <1>9 DEF Send, TypeOK, RunOf
<1>10. CASE MarkSent(r)
  BY <1>2, <1>8, <1>10 DEF MarkSent, TypeOK, RunOf
<1>11. CASE Conclude(r) \/ Publish(r)
  BY <1>11 DEF Conclude, Publish, TypeOK
<1>12. CASE RecordSuccess(r)
  <2>1. /\ cands' \in [Events -> SUBSET Runs]
        /\ att' \in [Runs -> [Attempts -> {"none", "admitted", "sent", "settled"}]]
        /\ snaps' \in [Snapshots -> Times \cup {NoRow}]
        /\ won' \subseteq Runs /\ ended' \subseteq Runs
    BY <1>12, FinalWriteType DEF RecordSuccess, Ending, TypeOK
  <2>2. recorded' \in [Runs -> BOOLEAN]
    BY <1>3, <1>12 DEF RecordSuccess, TypeOK
  <2> QED BY <1>1, <1>12, <2>1, <2>2 DEF RecordSuccess, TypeOK
<1>13. CASE RecordFailure(r)
  <2>1. /\ att' \in [Runs -> [Attempts -> {"none", "admitted", "sent", "settled"}]]
        /\ ended' \subseteq Runs
    BY <1>13, FinalWriteType DEF RecordFailure, Ending, TypeOK
  <2> QED BY <1>1, <1>13, <2>1 DEF RecordFailure, TypeOK
<1>14. CASE RecordEmission(r)
  BY <1>1, <1>14 DEF RecordEmission, Bump, TypeOK
<1>15. CASE Kill(r)
  BY <1>2, <1>15 DEF Kill, TypeOK
<1> QED BY <1>4, <1>5, <1>6, <1>7, <1>9, <1>10, <1>11, <1>12, <1>13, <1>14, <1>15 DEF Step

\* What a sweep does, whatever it deletes: it takes events with all that depends on
\* them, and snapshots that no event it leaves refers to.
SweepOf(gone, orphans) ==
  /\ Sweep(gone, orphans)
  /\ gone \subseteq Events /\ orphans \subseteq Snapshots
  /\ \A e \in Present \ gone : rows[e].snap \notin orphans
  /\ UNCHANGED <<pc, inputs, journal, count, recorded, now, wire, printed, gaps, ended>>
  /\ sweeps' \in 0 .. MaxSweeps /\ fenced' \subseteq Runs

\* A prune and a clear are sweeps (prune_apply, clear_apply).
LEMMA Sweeps ==
  ASSUME TypeOK, (\E cutoff \in 1 .. (MaxTime + 1) : Prune(cutoff)) \/ Clear
  PROVE  \E gone, orphans : SweepOf(gone, orphans)
<1>1. MaxSweeps \in Nat /\ sweeps \in 0 .. MaxSweeps
  BY RecordingConstantsHold DEF TypeOK, RecordingConstants
<1>2. ASSUME NEW cutoff \in 1 .. (MaxTime + 1), Prune(cutoff)
      PROVE  \E gone, orphans : SweepOf(gone, orphans)
  <2> DEFINE gone == {e \in Present : rows[e].created < cutoff}
             orphans == SpentSnapshots(Present \ gone, cutoff)
  <2>1. /\ Sweep(gone, orphans) /\ sweeps' = sweeps + 1 /\ sweeps < MaxSweeps
        /\ UNCHANGED <<pc, inputs, journal, count, recorded, now, wire, printed, gaps, ended, fenced>>
    BY <1>2 DEF Prune
  <2>2. /\ gone \subseteq Events /\ orphans \subseteq Snapshots
        /\ \A e \in Present \ gone : rows[e].snap \notin orphans
    BY DEF Present, SpentSnapshots
  <2> HIDE DEF gone, orphans
  <2>3. SweepOf(gone, orphans)
    BY <1>1, <2>1, <2>2 DEF SweepOf, TypeOK
  <2> QED BY <2>3
<1>3. CASE Clear
  <2>1. SweepOf(Events, Snapshots)
    BY <1>1, <1>3 DEF Clear, SweepOf, TypeOK, Present
  <2> QED BY <2>1
<1> QED BY <1>2, <1>3

\* A sweep keeps the state well-typed.
LEMMA TypeSweep ==
  ASSUME TypeOK, NEW gone, NEW orphans, SweepOf(gone, orphans)
  PROVE  TypeOK'
BY DEF SweepOf, Sweep, Bump, TypeOK, inputs

-----------------------------------------------------------------------------
(* What a run knows of itself                                              *)

\* A step of a run keeps what it knows of itself.
LEMMA RunOfActor ==
  ASSUME TypeOK, RunInv, NEW r \in Runs, Step(r)
  PROVE  RunOf(r)'
<1> USE DEF At, Goto, tables, history, RunOf, Past
<1>1. /\ RunOf(r) /\ count[r] \in 0 .. MaxAttempts /\ MaxAttempts \in Nat
      /\ wire[r] \subseteq Attempts
  BY RecordingConstantsHold DEF TypeOK, RunInv, RecordingConstants
<1>2. CASE Begin(r) \/ Open(r) \/ Conclude(r)
  BY <1>1, <1>2 DEF Begin, Open, Conclude, Writes, TypeOK
<1>3. CASE RecordInFlight(r)
  BY <1>1, <1>3 DEF RecordInFlight, TypeOK
<1>4. CASE StartAttempt(r)
  <2>1. count'[r] = count[r] + 1 /\ count[r] + 1 \in Attempts
    BY <1>1, <1>4 DEF StartAttempt, Attempts, TypeOK
  <2>2. pc[r] = "ready" /\ pc'[r] \in {"admit", "sending"}
    BY <1>4 DEF StartAttempt, TypeOK
  <2>3. \A n \in wire[r] : n <= count[r] + 1
    BY <1>1, <2>2 DEF Attempts
  <2> QED BY <1>1, <1>4, <2>1, <2>2, <2>3 DEF StartAttempt
<1>5. CASE AdmitAttempt(r)
  BY <1>1, <1>5 DEF AdmitAttempt, TypeOK
<1>6. CASE Send(r)
  <2>1. wire'[r] \subseteq wire[r] \cup {count[r]}
    BY <1>6 DEF Send, TypeOK
  <2> QED BY <1>1, <1>6, <2>1 DEF Send, TypeOK
<1>7. CASE MarkSent(r)
  <2>1. wire'[r] = wire[r] \cup {count[r]}
    BY <1>7 DEF MarkSent, TypeOK
  <2> QED BY <1>1, <1>7, <2>1 DEF MarkSent, TypeOK
<1>8. CASE RecordSuccess(r)
  <2>1. PICK o \in Outcomes(r) :
          /\ recorded'[r] = o.told
          /\ IF o.landed THEN won' = won \cup {r} ELSE won' = won
          /\ ended' = IF o.landed THEN ended \cup {r} ELSE ended
    BY <1>8 DEF RecordSuccess, Ending, TypeOK
  <2>2. o.told \in BOOLEAN /\ o.landed \in BOOLEAN /\ (o.told => o.landed)
    BY DEF Outcomes
  <2>3. /\ pc[r] \in {"local", "success"} /\ pc'[r] \in {"print", "failure", "done"} /\ wire' = wire
        /\ count' = count /\ swept' = swept
    BY <1>8 DEF RecordSuccess, TypeOK
  <2> QED BY <1>1, <2>1, <2>2, <2>3
<1>9. CASE RecordFailure(r)
  BY <1>1, <1>9 DEF RecordFailure, Ending, TypeOK
<1>10. CASE Publish(r)
  BY <1>1, <1>10 DEF Publish, TypeOK
<1>11. CASE RecordEmission(r)
  BY <1>1, <1>11 DEF RecordEmission, TypeOK
<1>12. CASE Kill(r)
  BY <1>1, <1>12 DEF Kill, TypeOK
<1> QED BY <1>2, <1>3, <1>4, <1>5, <1>6, <1>7, <1>8, <1>9, <1>10, <1>11, <1>12 DEF Step

\* Every step keeps it: a sweep remembers whose success it deleted.
LEMMA RunStep ==
  ASSUME TypeOK, RunInv, [Next]_vars
  PROVE  RunInv'
<1>1. ASSUME NEW r \in Runs, Step(r) PROVE RunInv'
  BY <1>1, RunOfActor, OthersKept, InputsKept DEF RunInv, RunOf
<1>2. ASSUME NEW gone, NEW orphans, SweepOf(gone, orphans), NEW r \in Runs PROVE RunOf(r)'
  <2>1. /\ UNCHANGED <<pc, count, wire, recorded, ended, printed>> /\ RunOf(r)
        /\ won' = {q \in won : turn[q] \notin gone}
        /\ swept' = swept \cup {q \in Runs : pc[q] # "idle" /\ turn[q] \in gone}
    BY <1>2 DEF SweepOf, Sweep, RunInv
  <2> QED BY <2>1 DEF RunOf, Past
<1>3. CASE Tick \/ UNCHANGED vars
  BY <1>3 DEF Tick, vars, history, RunInv, RunOf
<1> QED BY <1>1, <1>2, <1>3, Sweeps DEF Next, RunInv

-----------------------------------------------------------------------------
(* References                                                              *)

\* A write of a run refers to nothing that is not there: its attempts and
\* candidates to the event it writes, the event to the snapshot it inserts.
LEMMA ReferencesOfRun ==
  ASSUME IInv, NEW r \in Runs, Step(r)
  PROVE  ReferencesHold'
<1> USE DEF At, Goto, tables, history
<1>1. /\ TypeOK /\ ReferencesHold /\ turn[r] \in Events /\ roster[r] \in Snapshots
      /\ turn' = turn /\ NoSnap \notin Snapshots /\ NoRow \notin Rows /\ NoRow \notin Times
  BY InputsKept, RecordingConstantsHold DEF IInv, EvidenceInv, TypeOK, RecordingConstants
<1>2. \A n \in Attempts : att'[r][n] # "none" => rows'[turn[r]] # NoRow
  <2>1. CASE rows'[turn[r]] = NoRow
    <3>1. rows[turn[r]] = NoRow
      BY <1>1, <2>1, EventSteps
    <3>2. \A n \in Attempts : att[r][n] = "none"
      BY <1>1, <3>1 DEF ReferencesHold
    <3>3. CASE AdmitAttempt(r)
      BY <3>1, <3>2, <3>3 DEF AdmitAttempt
    <3>4. CASE MarkSent(r)
      <4>1. count[r] \in Attempts
        BY <3>4 DEF MarkSent, IInv, RunInv, RunOf
      <4> QED BY <3>2, <3>4, <4>1 DEF MarkSent
    <3>5. CASE RecordSuccess(r) \/ RecordFailure(r)
      <4>1. Stored(turn[r], SuccessRow(r)) # NoRow /\ Stored(turn[r], FailureRow) # NoRow
        BY <1>1, NewRows, StoredRow
      <4>2. att' = att
        BY <1>1, <2>1, <3>5, <4>1 DEF RecordSuccess, RecordFailure, TypeOK
      <4> QED BY <3>2, <4>2
    <3>6. CASE Begin(r) \/ Open(r) \/ RecordInFlight(r) \/ StartAttempt(r) \/ Send(r)
               \/ Conclude(r) \/ Publish(r) \/ RecordEmission(r) \/ Kill(r)
      BY <3>2, <3>6
         DEF Begin, Open, RecordInFlight, StartAttempt, Send, Conclude, Publish,
             RecordEmission, Kill
    <3> QED BY <3>3, <3>4, <3>5, <3>6 DEF Step
  <2> QED BY <2>1
<1>3. \A q \in Runs : \A n \in Attempts : att'[q][n] # "none" => rows'[turn[q]] # NoRow
  <2> SUFFICES ASSUME NEW q \in Runs \ {r}, NEW n \in Attempts, att'[q][n] # "none"
               PROVE  rows'[turn[q]] # NoRow
    BY <1>2
  <2>1. att[q][n] # "none" /\ turn[q] \in Events
    BY <1>1, OthersKept DEF TypeOK
  <2> QED BY <1>1, <2>1, EventSteps DEF ReferencesHold
<1>4. \A e \in Events : cands'[e] # {} => rows'[e] # NoRow
  <2>1. CASE cands' = cands
    BY <1>1, <2>1, EventSteps DEF ReferencesHold
  <2>2. CASE RecordSuccess(r) /\ cands' # cands
    <3>1. cands' = InsertCandidates(r) /\ Wrote(r, SuccessRow(r))
      BY <2>2 DEF RecordSuccess, Wrote
    <3>2. Stored(turn[r], SuccessRow(r)) # NoRow
      BY <1>1, NewRows, StoredRow
    <3>3. rows'[turn[r]] # NoRow
      BY <1>1, <3>1, <3>2 DEF Wrote, TypeOK
    <3> QED BY <1>1, <3>1, <3>3, EventSteps DEF InsertCandidates, ReferencesHold, TypeOK
  <2>3. RecordSuccess(r) \/ cands' = cands
    BY DEF Step, Begin, Open, RecordInFlight, StartAttempt, AdmitAttempt, Send, MarkSent,
           Conclude, RecordFailure, Publish, RecordEmission, Kill
  <2> QED BY <2>1, <2>2, <2>3
<1>5. \A s \in Snapshots : snaps[s] # NoRow => snaps'[s] # NoRow
  <2>1. RecordSuccess(r) \/ snaps' = snaps
    BY DEF Step, Begin, Open, RecordInFlight, StartAttempt, AdmitAttempt, Send, MarkSent,
           Conclude, RecordFailure, Publish, RecordEmission, Kill
  <2>2. snaps' = snaps \/ snaps' = InsertSnapshot(roster[r])
    BY <2>1 DEF RecordSuccess
  <2> QED BY <1>1, <2>2 DEF InsertSnapshot, TypeOK
<1>6. \A e \in Events : rows'[e] # NoRow /\ rows'[e].snap # NoSnap => snaps'[rows'[e].snap] # NoRow
  <2> SUFFICES ASSUME NEW e \in Events, rows'[e] # NoRow, rows'[e].snap # NoSnap
               PROVE  snaps'[rows'[e].snap] # NoRow
    OBVIOUS
  <2>1. CASE rows[e] # NoRow /\ rows'[e].snap = rows[e].snap
    BY <1>1, <1>5, <2>1 DEF ReferencesHold, Present, TypeOK, Rows
  <2>2. ASSUME NEW new \in Rows, Wrote(r, new), e = turn[r],
               new.snap # NoSnap => snaps'[new.snap] # NoRow
        PROVE  snaps'[rows'[e].snap] # NoRow
    <3>1. rows'[e] = Stored(e, new)
      BY <1>1, <2>2 DEF Wrote, TypeOK
    <3>2. rows'[e].snap = new.snap \/ (rows[e] # NoRow /\ rows'[e] = rows[e])
      BY <2>2, <3>1, <1>1, StoredRow
    <3> QED BY <2>1, <2>2, <3>2
  <2>3. CASE Emits(r) /\ e = turn[r]
    <3>1. rows'[e] = [rows[e] EXCEPT !.exposure = "emitted"] /\ rows[e] \in Rows
      BY <1>1, <2>3 DEF Emits, TypeOK
    <3>2. rows'[e].snap = rows[e].snap
      BY <3>1 DEF Rows
    <3> QED BY <2>1, <2>3, <3>2 DEF Emits
  <2>4. snaps' = InsertSnapshot(roster[r]) => snaps'[roster[r]] # NoRow
    BY <1>1 DEF InsertSnapshot, TypeOK
  <2>5. CASE e # turn[r] \/ rows' = rows
    BY <1>1, <2>1, <2>5, EventSteps
  <2> QED BY <1>1, <2>2, <2>3, <2>4, <2>5, RowSteps, NewRows
<1> QED BY <1>1, <1>3, <1>4, <1>6 DEF ReferencesHold, Present

\* A sweep takes with an event what refers to it, and no snapshot an event it
\* leaves refers to.
LEMMA ReferencesOfSweep ==
  ASSUME IInv, NEW gone, NEW orphans, SweepOf(gone, orphans)
  PROVE  ReferencesHold'
<1>1. /\ TypeOK /\ ReferencesHold /\ turn' = turn
      /\ rows' = [e \in Events |-> IF e \in gone THEN NoRow ELSE rows[e]]
      /\ cands' = [e \in Events |-> IF e \in gone THEN {} ELSE cands[e]]
      /\ att' = [r \in Runs |-> IF turn[r] \in gone THEN [n \in Attempts |-> "none"] ELSE att[r]]
      /\ snaps' = [s \in Snapshots |-> IF s \in orphans THEN NoRow ELSE snaps[s]]
      /\ \A e \in Present \ gone : rows[e].snap \notin orphans
  BY DEF SweepOf, Sweep, inputs, IInv, EvidenceInv
<1>2. \A e \in Events : rows'[e] # NoRow => e \notin gone /\ rows[e] # NoRow /\ rows'[e] = rows[e]
  BY <1>1
<1>3. \A r \in Runs : \A n \in Attempts : att'[r][n] # "none" => rows'[turn[r]] # NoRow
  BY <1>1 DEF ReferencesHold, TypeOK
<1>4. \A e \in Events : cands'[e] # {} => rows'[e] # NoRow
  BY <1>1 DEF ReferencesHold, TypeOK
<1>5. \A e \in Events : rows'[e] # NoRow /\ rows'[e].snap # NoSnap => snaps'[rows'[e].snap] # NoRow
  BY <1>1, <1>2 DEF ReferencesHold, Present, TypeOK, Rows
<1> QED BY <1>1, <1>3, <1>4, <1>5 DEF ReferencesHold, Present

-----------------------------------------------------------------------------
(* The event of a turn                                                     *)

\* There was no row, or one that a later delivery replaces.
Yields(e) == rows[e] = NoRow \/ Replaceable(rows[e])

\* What a step of a run does to its event: nothing, one of the three upserts over a
\* row that yields, or the mark of the emission.
LEMMA EventAfter ==
  ASSUME TypeOK, NEW r \in Runs, Step(r)
  PROVE  LET e == turn[r]
         IN \/ rows'[e] = rows[e]
            \/ /\ pc[r] = "inflight" /\ pc'[r] = "ready" /\ Yields(e)
               /\ rows'[e].exposure = "generated"
            \/ /\ pc[r] = "failure" /\ Yields(e)
               /\ rows'[e].exposure = "prepared" /\ rows'[e].decision = "unavailable"
            \/ /\ pc[r] \in {"local", "success"} /\ Yields(e)
               /\ rows'[e].exposure = "prepared" /\ rows'[e].decision = "delivered"
            \/ /\ pc[r] = "emit" /\ rows[e] # NoRow
               /\ rows'[e].exposure = "emitted" /\ rows'[e].decision = rows[e].decision
<1>1. turn[r] \in Events /\ rows \in [Events -> Rows \cup {NoRow}]
  BY DEF TypeOK
<1>2. ASSUME NEW new \in Rows, Wrote(r, new)
      PROVE  \/ rows'[turn[r]] = rows[turn[r]]
             \/ /\ Yields(turn[r]) /\ rows'[turn[r]].exposure = new.exposure
                /\ rows'[turn[r]].decision = new.decision
  <2>1. rows'[turn[r]] = Stored(turn[r], new)
    BY <1>1, <1>2 DEF Wrote
  <2> QED BY <1>1, <2>1, StoredRow DEF Yields
<1>3. CASE Emits(r)
  <2>1. rows'[turn[r]] = [rows[turn[r]] EXCEPT !.exposure = "emitted"] /\ rows[turn[r]] \in Rows
    BY <1>1, <1>3 DEF Emits
  <2>2. rows'[turn[r]].exposure = "emitted" /\ rows'[turn[r]].decision = rows[turn[r]].decision
    BY <2>1 DEF Rows
  <2> QED BY <1>3, <2>2 DEF Emits
<1> QED BY <1>2, <1>3, RowSteps, NewRows

\* A run that ends leaves no unfinished row behind; one that succeeds leaves its
\* own success, or a row that stands.
LEMMA EndingAfter ==
  ASSUME TypeOK, NEW r \in Runs, Step(r)
  PROVE  LET row == rows'[turn[r]]
         IN /\ r \in ended' \ ended => row # NoRow /\ row.exposure # "generated"
            /\ r \in won' \ won =>
                 /\ row # NoRow
                 /\ \/ row.exposure = "prepared" /\ row.decision = "delivered"
                    \/ row = rows[turn[r]] /\ ~Replaceable(row)
<1>1. turn[r] \in Events /\ rows \in [Events -> Rows \cup {NoRow}]
  BY DEF TypeOK
<1>2. ASSUME NEW new \in Rows, Wrote(r, new), new.exposure = "prepared"
      PROVE  LET row == rows'[turn[r]]
             IN /\ row # NoRow /\ row.exposure # "generated"
                /\ \/ row.exposure = "prepared" /\ row.decision = new.decision
                   \/ row = rows[turn[r]] /\ ~Replaceable(row)
  <2>1. rows'[turn[r]] = Stored(turn[r], new)
    BY <1>1, <1>2 DEF Wrote
  <2> QED BY <1>1, <1>2, <2>1, StoredRow DEF Replaceable
<1>3. r \in ended' \ ended => Wrote(r, SuccessRow(r)) \/ Wrote(r, FailureRow)
  BY DEF Step, Begin, Open, RecordInFlight, StartAttempt, AdmitAttempt, Send, MarkSent,
         Conclude, RecordSuccess, RecordFailure, Publish, RecordEmission, Kill, history,
         Ending, Wrote
<1>4. r \in won' \ won => Wrote(r, SuccessRow(r))
  BY DEF Step, Begin, Open, RecordInFlight, StartAttempt, AdmitAttempt, Send, MarkSent,
         Conclude, RecordSuccess, RecordFailure, Publish, RecordEmission, Kill, history,
         Wrote
<1> QED BY <1>2, <1>3, <1>4, NewRows

\* A run that began stays begun, and histories only grow.
LEMMA HistoryGrows ==
  ASSUME TypeOK, NEW r \in Runs, Step(r)
  PROVE  pc'[r] # "idle" /\ printed \subseteq printed' /\ won \subseteq won' /\ ended \subseteq ended'
<1>1. pc'[r] # "idle"
  BY DEF Step, Begin, Open, RecordInFlight, StartAttempt, AdmitAttempt, Send, MarkSent,
         Conclude, RecordSuccess, RecordFailure, Publish, RecordEmission, Kill, Goto, TypeOK,
         At, Writes
<1>2. printed \subseteq printed' /\ won \subseteq won' /\ ended \subseteq ended'
  BY DEF Step, Begin, Open, RecordInFlight, StartAttempt, AdmitAttempt, Send, MarkSent,
         Conclude, RecordSuccess, RecordFailure, Publish, RecordEmission, Kill, history,
         Ending, tables
<1> QED BY <1>1, <1>2

\* A row that says in flight is explained by a delivery under way.
LEMMA InFlightOfRun ==
  ASSUME IInv, NEW r \in Runs, Step(r)
  PROVE  InFlightHonest'
<1> SUFFICES ASSUME NEW e \in Events, rows'[e] # NoRow, rows'[e].exposure = "generated"
             PROVE  \E q \in Runs \ ended' : turn'[q] = e /\ pc'[q] # "idle"
  BY DEF InFlightHonest, Present
<1>1. TypeOK /\ InFlightHonest /\ turn' = turn /\ RunOf(r)
  BY InputsKept DEF IInv, EvidenceInv, RunInv
<1>2. CASE rows'[e] = rows[e]
  <2>1. PICK q \in Runs \ ended : turn[q] = e /\ pc[q] # "idle"
    BY <1>1, <1>2 DEF InFlightHonest, Present
  <2>2. CASE q # r
    BY <1>1, <2>1, <2>2, OthersKept
  <2>3. CASE q = r
    BY <1>1, <2>1, <2>3, EndingAfter, HistoryGrows
  <2> QED BY <2>2, <2>3
<1>3. CASE e = turn[r] /\ pc[r] = "inflight" /\ pc'[r] = "ready"
  <2>1. r \notin ended'
    BY <1>1, <1>3 DEF RunOf, Past, Step, Begin, Open, RecordInFlight, StartAttempt,
       AdmitAttempt, Send, MarkSent, Conclude, RecordSuccess, RecordFailure, Publish,
       RecordEmission, Kill, At, history
  <2> QED BY <1>1, <1>3, <2>1
<1> QED BY <1>1, <1>2, <1>3, EventSteps, EventAfter

\* A recorded answer stands whatever the other deliveries of its turn write.
LEMMA SuccessOfRun ==
  ASSUME IInv, NEW r \in Runs, Step(r)
  PROVE  SuccessStands'
<1> SUFFICES ASSUME NEW q \in won', ~Swept(turn[q])
             PROVE  /\ rows'[turn[q]] # NoRow /\ rows'[turn[q]].decision = "delivered"
                    /\ rows'[turn[q]].exposure # "generated"
  BY InputsKept DEF SuccessStands, Swept
<1>1. /\ TypeOK /\ SuccessStands /\ EmittedWasPrinted /\ q \in Runs
  <2>1. won' \subseteq won \cup {r}
    BY OthersKept, TypeStep DEF IInv, TypeOK
  <2> QED BY <2>1 DEF IInv, EvidenceInv, TypeOK
<1>2. turn[q] \in Events
  BY <1>1 DEF TypeOK
<1>3. CASE q \in won
  <2>1. /\ rows[turn[q]] # NoRow /\ rows[turn[q]].decision = "delivered"
        /\ rows[turn[q]].exposure # "generated" /\ ~Replaceable(rows[turn[q]])
    BY <1>1, <1>3 DEF SuccessStands, Replaceable
  <2> QED BY <1>1, <1>2, <2>1, EventSteps, EventAfter DEF Yields
<1>4. CASE q = r /\ r \notin won
  <2>1. CASE rows'[turn[r]] = rows[turn[r]] /\ ~Replaceable(rows[turn[r]]) /\ rows[turn[r]] # NoRow
    <3>1. rows[turn[r]].exposure = "emitted" => rows[turn[r]].decision = "delivered"
      BY <1>1, <1>2, <1>4, <2>1 DEF EmittedWasPrinted, Present
    <3>2. rows[turn[r]] \in Rows
      BY <1>1, <1>2, <1>4, <2>1 DEF TypeOK
    <3> QED BY <1>4, <2>1, <3>1, <3>2 DEF Replaceable, Rows
  <2> QED BY <1>1, <1>4, <2>1, EndingAfter
<1>5. q \in won \/ q = r
  BY <1>1, OthersKept
<1> QED BY <1>3, <1>4, <1>5

\* A run that marks an emission printed its answer and had recorded it.
LEMMA EmittedOfRun ==
  ASSUME IInv, NEW r \in Runs, Step(r)
  PROVE  EmittedWasPrinted'
<1> SUFFICES ASSUME NEW e \in Events, rows'[e] # NoRow, rows'[e].exposure = "emitted"
             PROVE  /\ \E q \in printed' : turn[q] = e
                    /\ rows'[e].decision = "delivered" \/ Swept(e)
  BY InputsKept DEF EmittedWasPrinted, Present, Swept
<1>1. TypeOK /\ EmittedWasPrinted /\ SuccessStands /\ RunOf(r)
  BY DEF IInv, EvidenceInv, RunInv
<1>2. CASE rows'[e] = rows[e]
  BY <1>1, <1>2, HistoryGrows DEF EmittedWasPrinted, Present
<1>3. CASE e = turn[r] /\ pc[r] = "emit" /\ rows'[e].decision = rows[e].decision
  <2>1. r \in printed' /\ (r \in won \/ r \in swept)
    BY <1>1, <1>3, HistoryGrows DEF RunOf
  <2> QED BY <1>1, <1>3, <2>1 DEF SuccessStands, Swept
<1> QED BY <1>1, <1>2, <1>3, EventSteps, EventAfter

-----------------------------------------------------------------------------
(* What was paid                                                           *)

\* What the journal owes a run for its attempts on the wire.
PaidOf(r) ==
  r \notin swept =>
    \A n \in wire[r] :
      /\ journal[r] /\ r \notin gaps => att[r][n] \in {"sent", "settled"}
      /\ r \in ended => att[r][n] = "settled"

\* A run journals an attempt before it sends it, or remembers that it could not; its
\* final write settles every attempt it counted.
LEMMA PaidOfActor ==
  ASSUME IInv, NEW r \in Runs, Step(r)
  PROVE  PaidOf(r)'
<1> USE DEF At, Goto, tables, history
<1>1. /\ TypeOK /\ RunOf(r) /\ PaidOf(r) /\ swept' = swept
      /\ wire[r] \subseteq Attempts /\ Attempts \subseteq Nat
  BY InputsKept DEF IInv, RunInv, EvidenceInv, PaidIsEvidenced, PaidOf, TypeOK, Attempts
<1>2. CASE UNCHANGED <<att, wire, journal, gaps, ended>>
  BY <1>1, <1>2 DEF PaidOf
<1>3. CASE RecordInFlight(r)
  <2>1. wire'[r] = {}
    BY <1>1, <1>3 DEF RecordInFlight, RunOf
  <2> QED BY <2>1 DEF PaidOf
<1>4. CASE AdmitAttempt(r)
  <2>1. /\ wire' = wire /\ journal' = journal /\ ended' = ended /\ r \notin ended
        /\ \/ r \in gaps'
           \/ /\ att[r][count[r]] = "none" /\ gaps' = gaps
              /\ att' = [att EXCEPT ![r][count[r]] = "admitted"]
    BY <1>1, <1>4 DEF AdmitAttempt, RunOf, Past
  <2>2. \A n \in Attempts \ {count[r]} :
          att' = [att EXCEPT ![r][count[r]] = "admitted"] => att'[r][n] = att[r][n]
    BY <1>1 DEF TypeOK
  <2> QED BY <1>1, <2>1, <2>2 DEF PaidOf
<1>5. CASE Send(r)
  <2>1. /\ att' = att /\ journal' = journal /\ ended' = ended /\ gaps' = gaps
        /\ r \notin ended /\ (journal[r] => wire' = wire)
    BY <1>1, <1>5 DEF Send, RunOf, Past
  <2> QED BY <1>1, <2>1 DEF PaidOf
<1>6. CASE MarkSent(r)
  <2>1. /\ wire'[r] = wire[r] \cup {count[r]} /\ journal' = journal /\ ended' = ended
        /\ r \notin ended /\ count[r] \in Attempts
        /\ \/ r \in gaps'
           \/ att' = [att EXCEPT ![r][count[r]] = "sent"] /\ gaps' = gaps
    BY <1>1, <1>6 DEF MarkSent, RunOf, Past, TypeOK
  <2>2. att' = [att EXCEPT ![r][count[r]] = "sent"] =>
          /\ att'[r][count[r]] = "sent"
          /\ \A n \in Attempts \ {count[r]} : att'[r][n] = att[r][n]
    BY <1>1, <2>1 DEF TypeOK
  <2> QED BY <1>1, <2>1, <2>2 DEF PaidOf
<1>7. CASE att' = SettleAttempts(r) /\ wire' = wire /\ pc[r] # "dead"
  <2>1. \A n \in wire[r] : n <= count[r] /\ n \in Attempts
    BY <1>1, <1>7 DEF RunOf
  <2>2. \A n \in wire[r] : att'[r][n] = "settled"
    BY <1>1, <1>7, <2>1 DEF SettleAttempts, TypeOK
  <2> QED BY <1>7, <2>2 DEF PaidOf
<1>8. CASE RecordSuccess(r) \/ RecordFailure(r)
  BY <1>2, <1>7, <1>8 DEF RecordSuccess, RecordFailure, Ending
<1>9. CASE Begin(r) \/ Open(r) \/ StartAttempt(r) \/ Conclude(r) \/ Publish(r)
           \/ RecordEmission(r) \/ Kill(r)
  BY <1>2, <1>9 DEF Begin, Open, StartAttempt, Conclude, Publish, RecordEmission, Kill
<1> QED BY <1>3, <1>4, <1>5, <1>6, <1>8, <1>9 DEF Step

-----------------------------------------------------------------------------
(* The theorems                                                            *)

\* A sweep takes whole events, and remembers the runs that had begun one of them.
LEMMA EvidenceOfSweep ==
  ASSUME IInv, NEW gone, NEW orphans, SweepOf(gone, orphans)
  PROVE  EvidenceInv'
<1>1. /\ TypeOK /\ RunInv /\ EvidenceInv
      /\ UNCHANGED <<pc, turn, wire, journal, gaps, ended, printed>>
      /\ rows' = [e \in Events |-> IF e \in gone THEN NoRow ELSE rows[e]]
      /\ att' = [r \in Runs |-> IF turn[r] \in gone THEN [n \in Attempts |-> "none"] ELSE att[r]]
      /\ won' = {r \in won : turn[r] \notin gone}
      /\ swept' = swept \cup {r \in Runs : pc[r] # "idle" /\ turn[r] \in gone}
  BY DEF SweepOf, Sweep, inputs, IInv
<1>2. \A e \in Events : rows'[e] # NoRow => rows'[e] = rows[e]
  BY <1>1
<1>3. InFlightHonest'
  BY <1>1, <1>2 DEF EvidenceInv, InFlightHonest, Present
<1>4. SuccessStands'
  BY <1>1 DEF EvidenceInv, SuccessStands, Swept, TypeOK
<1>5. EmittedWasPrinted'
  BY <1>1, <1>2 DEF EvidenceInv, EmittedWasPrinted, Present, Swept
<1>6. PaidIsEvidenced'
  <2> SUFFICES ASSUME NEW r \in Runs \ swept', NEW n \in wire[r]
               PROVE  r \notin swept /\ att'[r] = att[r]
    BY <1>1 DEF EvidenceInv, PaidIsEvidenced
  <2>1. pc[r] # "idle"
    BY <1>1 DEF RunInv, RunOf
  <2> QED BY <1>1, <2>1 DEF TypeOK
<1> QED BY <1>3, <1>4, <1>5, <1>6, ReferencesOfSweep DEF EvidenceInv

\* The initial state satisfies the invariant: the ledger is empty.
LEMMA Initially == Init => IInv
<1> SUFFICES ASSUME Init PROVE IInv
  OBVIOUS
<1> USE RecordingConstantsHold DEF Init, RecordingConstants
<1>1. TypeOK
  BY DEF TypeOK, Times
<1>2. RunInv
  BY DEF RunInv, RunOf
<1>3. EvidenceInv
  BY DEF EvidenceInv, InFlightHonest, SuccessStands, EmittedWasPrinted, PaidIsEvidenced,
         ReferencesHold, Present
<1> QED BY <1>1, <1>2, <1>3 DEF IInv

\* Every step preserves it.
LEMMA Inductive == IInv /\ [Next]_vars => IInv'
<1> SUFFICES ASSUME IInv, [Next]_vars PROVE IInv'
  OBVIOUS
<1>1. RunInv'
  BY RunStep DEF IInv
<1>2. ASSUME NEW r \in Runs, Step(r) PROVE TypeOK' /\ EvidenceInv'
  <2>1. TypeOK'
    BY <1>2, TypeStep DEF IInv
  <2>2. ASSUME NEW q \in Runs \ {r} PROVE PaidOf(q)'
    BY <1>2, OthersKept, InputsKept DEF IInv, EvidenceInv, PaidIsEvidenced, PaidOf
  <2>3. PaidIsEvidenced'
    BY <1>2, <2>2, PaidOfActor DEF PaidIsEvidenced, PaidOf
  <2> QED BY <1>2, <2>1, <2>3, InFlightOfRun, SuccessOfRun, EmittedOfRun, ReferencesOfRun
          DEF EvidenceInv
<1>3. ASSUME NEW gone, NEW orphans, SweepOf(gone, orphans) PROVE TypeOK' /\ EvidenceInv'
  BY <1>3, TypeSweep, EvidenceOfSweep DEF IInv
<1>4. ASSUME Tick \/ UNCHANGED vars PROVE TypeOK' /\ EvidenceInv'
  <2>1. TypeOK'
    BY <1>4, RecordingConstantsHold
       DEF Tick, IInv, TypeOK, Times, vars, tables, inputs, history, RecordingConstants
  <2>2. UNCHANGED <<rows, cands, att, snaps, pc, turn, journal, wire, printed, gaps, ended, won, swept>>
    BY <1>4 DEF Tick, vars, tables, inputs, history
  <2>3. InFlightHonest' /\ SuccessStands'
    BY <2>2 DEF IInv, EvidenceInv, InFlightHonest, SuccessStands, Present, Swept
  <2>4. EmittedWasPrinted' /\ PaidIsEvidenced'
    BY <2>2 DEF IInv, EvidenceInv, EmittedWasPrinted, PaidIsEvidenced, Present, Swept
  <2>5. ReferencesHold'
    BY <2>2 DEF IInv, EvidenceInv, ReferencesHold, Present
  <2> QED BY <2>1, <2>3, <2>4, <2>5 DEF EvidenceInv
<1>5. TypeOK' /\ EvidenceInv'
  BY <1>2, <1>3, <1>4, Sweeps DEF Next, IInv
<1> QED BY <1>1, <1>5 DEF IInv

\* So it holds in every reachable state.
LEMMA Invariance == Spec => []IInv
BY Initially, Inductive, PTL DEF Spec

\* Every table and every run's state has its declared shape.
THEOREM TypeCorrect == Spec => []TypeOK
<1>1. IInv => TypeOK
  BY DEF IInv
<1> QED BY <1>1, Invariance, PTL

\* A row that reads as in flight is explained by a delivery of its turn that began
\* and wrote no ending: no run that ended leaves its turn as died in flight.
THEOREM InFlightIsHonest == Spec => []InFlightHonest
<1>1. IInv => InFlightHonest
  BY DEF IInv, EvidenceInv
<1> QED BY <1>1, Invariance, PTL

\* A recorded answer stands: no other delivery of the turn, finished or failed,
\* replaces it (the upsert of record_ranking_event); only retention removes it.
THEOREM SuccessIsFinal == Spec => []SuccessStands
<1>1. IInv => SuccessStands
  BY DEF IInv, EvidenceInv
<1> QED BY <1>1, Invariance, PTL

\* An exposure that the ledger counts was printed, and was an answer unless
\* retention swept the event under a run (record_emission).
THEOREM EmissionsArePrinted == Spec => []EmittedWasPrinted
<1>1. IInv => EmittedWasPrinted
  BY DEF IInv, EvidenceInv
<1> QED BY <1>1, Invariance, PTL

\* A request that may have reached the provider is on record, from before the send
\* where the run holds a journal (LedgerAttemptJournal).
THEOREM PaidIsOnRecord == Spec => []PaidIsEvidenced
<1>1. IInv => PaidIsEvidenced
  BY DEF IInv, EvidenceInv
<1> QED BY <1>1, Invariance, PTL

\* Nothing in the ledger refers to a row that is gone, whatever retention deletes
\* beside running deliveries (prune_apply, clear_apply).
THEOREM ReferencesStand == Spec => []ReferencesHold
<1>1. IInv => ReferencesHold
  BY DEF IInv, EvidenceInv
<1> QED BY <1>1, Invariance, PTL

-----------------------------------------------------------------------------
(* The snooze file                                                         *)

\* A file that can be read has entries, finitely many.
IsFile(file) == file = Absent \/ (file \subseteq Entry /\ IsFiniteSet(file))

\* The points of a command that has resolved its scope.
Underway == {"resolved", "locked", "staged", "checked"}
Resolved(w) ==
  /\ {"pc", "change", "now"} \subseteq DOMAIN cmd[w]
  /\ cmd[w].change \in Changes /\ Offered(cmd[w].change) /\ FromEvent(cmd[w].change)
  /\ cmd[w].now \in 0..MaxClock /\ cmd[w].now <= latest

\* What a command staged is its plan for the file it read, which a backup keeps.
Staged(w) ==
  /\ {"original", "next"} \subseteq DOMAIN cmd[w]
  /\ IsFile(cmd[w].original) /\ Decodes(cmd[w].original)
  /\ ~TooMany(cmd[w].original, cmd[w].change, cmd[w].now)
  /\ cmd[w].next = Plan(cmd[w].original, cmd[w].change, cmd[w].now)
  /\ cmd[w].original = Absent \/ cmd[w].original \in backups

\* One command at a time holds the lock; from its re-read to its rename the file
\* is the one it planned for, unless an edit overtook it, and then nothing is
\* upheld; what is upheld and not over stands in a file that decodes.
ClockInv == clock \in -1..MaxClock /\ latest \in Int /\ clock <= latest
LockInv ==
  /\ \A v, w \in lock : v = w
  /\ \A w \in Writers : cmd[w].pc \in {"locked", "staged", "checked"} => w \in lock
WriterInv ==
  /\ cmd = [w \in Writers |-> cmd[w]]
  /\ \A w \in Writers :
       /\ cmd[w].pc \in {"idle", "done"} \cup Underway
       /\ cmd[w].pc \in Underway => Resolved(w)
       /\ cmd[w].pc \in {"staged", "checked"} => Staged(w)
       /\ w \in raced => cmd[w].pc = "checked"
       /\ cmd[w].pc = "checked" => IF w \in raced THEN upheld = {} ELSE snoozes = cmd[w].original
FileInv ==
  /\ snoozes = Malformed \/ IsFile(snoozes)
  /\ upheld # {} => Decodes(snoozes)
  /\ \A u \in upheld : u.expires \in Int /\ (latest < u.expires => u \in Entries(snoozes))
SnoozeInv == ClockInv /\ LockInv /\ WriterInv /\ FileInv

\* What the staged file is: some of the entries of the one that was read, and the
\* new one; it decodes.
LEMMA PlansDecode ==
  ASSUME SnoozeInv, NEW w \in Writers, cmd[w].pc \in {"staged", "checked"}
  PROVE  /\ IsFile(cmd[w].next) /\ Decodes(cmd[w].next) /\ cmd[w].next # Absent
         /\ Entries(cmd[w].next) = cmd[w].next
         /\ Kept(cmd[w].original, cmd[w].change, cmd[w].now) \subseteq cmd[w].next
         /\ cmd[w].change.kind = "snooze" => NewEntry(cmd[w].change, cmd[w].now) \in cmd[w].next
<1> DEFINE change == cmd[w].change
           at == cmd[w].now
           file == cmd[w].original
           kept == Kept(file, change, at)
           new == IF change.kind = "snooze" THEN {NewEntry(change, at)} ELSE {}
<1>1. Resolved(w) /\ Staged(w)
  BY DEF SnoozeInv, WriterInv, Underway
<1>2. /\ Entries(file) \subseteq Entry /\ IsFiniteSet(Entries(file))
      /\ kept \subseteq Entries(file) /\ IsFiniteSet(kept)
  BY <1>1, FS_EmptySet, FS_Subset DEF Staged, IsFile, Entries, Kept
<1>3. cmd[w].next = kept \cup new
  BY <1>1 DEF Staged, Plan
<1>4. change.kind = "snooze" => NewEntry(change, at) \in Entry
  <2>1. SUFFICES ASSUME change.kind = "snooze" PROVE NewEntry(change, at) \in Entry
    OBVIOUS
  <2>2. change \in [kind : {"snooze"}, scope : Scopes \cup {NoSession}, target : Targets,
                    duration : Durations, apply : BOOLEAN]
    BY <1>1, <2>1 DEF Resolved, Changes
  <2>3. change.scope \in Scopes /\ change.target \in Targets /\ change.duration \in Durations
        /\ InRange(change.duration) /\ at \in 0..MaxClock
    BY <1>1, <2>1, <2>2 DEF Resolved, Offered, FromEvent
  <2>4. QED
    BY <2>3 DEF NewEntry, Entry
<1>5. \A e \in Entry : InRange(e.expires - e.created)
  BY DEF Entry, InRange
<1>6. new \subseteq Entry /\ IsFiniteSet(new)
  BY <1>4, FS_EmptySet, FS_Singleton
<1>7. IsFiniteSet(kept \cup new) /\ kept \cup new \subseteq Entry
  BY <1>2, <1>6, FS_Union
<1>8. Cardinality(kept \cup new) <= MAX_SNOOZES
  <2>1. Cardinality(kept) \in Nat
    BY <1>2, FS_CardinalityType
  <2>2. CASE change.kind = "snooze"
    <3>1. Cardinality(kept) < MAX_SNOOZES
      BY <1>1, <2>1, <2>2, SnoozeLimits DEF Staged, TooMany
    <3>2. Cardinality(kept \cup {NewEntry(change, at)})
            = IF NewEntry(change, at) \in kept THEN Cardinality(kept) ELSE Cardinality(kept) + 1
      BY <1>2, FS_AddElement
    <3>3. QED
      BY <2>1, <2>2, <3>1, <3>2, SnoozeLimits
  <2>3. CASE change.kind # "snooze"
    <3>1. Cardinality(kept) <= MAX_SNOOZES
      <4>1. Cardinality(Entries(file)) <= MAX_SNOOZES
        BY <1>1, FS_EmptySet, SnoozeLimits DEF Staged, Decodes, Entries
      <4>2. Cardinality(kept) <= Cardinality(Entries(file)) /\ Cardinality(Entries(file)) \in Nat
        BY <1>2, FS_Subset, FS_CardinalityType
      <4>3. QED
        BY <2>1, <4>1, <4>2, SnoozeLimits
    <3>2. kept \cup new = kept
      BY <2>3
    <3>3. QED
      BY <3>1, <3>2
  <2>4. QED
    BY <2>2, <2>3
<1>9. \A e, f \in kept \cup new : e.scope = f.scope /\ e.target = f.target => e = f
  <2>1. \A e, f \in Entries(file) : e.scope = f.scope /\ e.target = f.target => e = f
    BY <1>1 DEF Staged, Decodes, Entries
  <2>2. \A e \in kept, f \in new : ~(e.scope = f.scope /\ e.target = f.target)
    BY DEF Kept, NewEntry, InScope
  <2>3. \A e, f \in new : e = f
    OBVIOUS
  <2>4. QED
    BY <1>2, <2>1, <2>2, <2>3
<1>10. kept \cup new \notin {Absent, Malformed}
  BY <1>7, FileAssumption
<1>11. IsFile(kept \cup new) /\ Decodes(kept \cup new) /\ Entries(kept \cup new) = kept \cup new
  BY <1>5, <1>7, <1>8, <1>9, <1>10 DEF IsFile, Decodes, Entries
<1>12. QED
  <2> HIDE DEF kept
  <2> QED BY <1>3, <1>10, <1>11 DEF kept

\* What was upheld survives the rename of a command that no edit overtook, unless
\* its change supersedes it.
LEMMA UpheldAreKept ==
  ASSUME SnoozeInv, NEW w \in Writers, cmd[w].pc = "checked", w \notin raced,
         NEW u \in upheld, latest < u.expires, ~Superseded(u, cmd[w].change)
  PROVE  u \in cmd[w].next
<1>1. snoozes = cmd[w].original /\ u \in Entries(snoozes) /\ u \in Entry
  BY FS_EmptySet DEF SnoozeInv, WriterInv, FileInv, IsFile, Entries, Decodes
<1>2. cmd[w].now \in Nat /\ cmd[w].now <= latest /\ latest \in Int
  BY DEF SnoozeInv, WriterInv, ClockInv, Resolved, Underway
<1>3. u.expires \in Int /\ u.created \in Int
  BY <1>1 DEF Entry, InRange
<1>4. SnoozeStatus(u, cmd[w].now) # "expired"
  BY <1>2, <1>3 DEF SnoozeStatus
<1>5. u \in Kept(cmd[w].original, cmd[w].change, cmd[w].now)
  BY <1>1, <1>4 DEF Kept, Superseded, InScope
<1>6. QED
  BY <1>5, PlansDecode

\* A command that ends without a rename leaves everything as it was but the
\* lock, and perhaps one more backup.
LEMMA EndKeeps ==
  ASSUME SnoozeInv, NEW w \in Writers, NEW outcome, End(w, outcome), backups \subseteq backups',
         UNCHANGED <<snoozes, clock, latest, upheld>>
  PROVE  SnoozeInv'
<1>1. /\ cmd' = [cmd EXCEPT ![w] = [pc |-> "done", outcome |-> outcome]] /\ lock' = lock \ {w}
      /\ raced' = raced \ {w}
  BY DEF End
<1>2. cmd'[w].pc = "done" /\ \A v \in Writers \ {w} : cmd'[v] = cmd[v] /\ (v \in raced' <=> v \in raced)
  BY <1>1 DEF SnoozeInv, WriterInv
<1>3. ClockInv' /\ FileInv'
  BY <1>1 DEF SnoozeInv, ClockInv, FileInv, IsFile, Decodes, Entries, InRange
<1>4. LockInv'
  BY <1>1, <1>2 DEF SnoozeInv, LockInv
<1>5. WriterInv'
  <2>1. cmd' = [v \in Writers |-> cmd'[v]]
    BY <1>1 DEF SnoozeInv, WriterInv
  <2>2. \A v \in Writers \ {w} : (Resolved(v) => Resolved(v)') /\ (Staged(v) => Staged(v)')
    BY <1>1, <1>2 DEF Resolved, Staged
  <2>3. QED
    BY <1>1, <1>2, <2>1, <2>2 DEF SnoozeInv, WriterInv, Underway
<1>6. QED
  BY <1>3, <1>4, <1>5 DEF SnoozeInv
LEMMA FailKeeps ==
  ASSUME SnoozeInv, NEW w \in Writers, NEW outcome, Fail(w, outcome)
  PROVE  SnoozeInv'
BY EndKeeps DEF Fail

\* A step of one command that leaves the file alone keeps the invariant when it
\* keeps the lock and what is known of that command.
LEMMA CommandKeeps ==
  ASSUME SnoozeInv, NEW w \in Writers, NEW entry,
         cmd[w].pc # "checked", cmd' = [cmd EXCEPT ![w] = entry], LockInv',
         UNCHANGED <<snoozes, clock, latest, raced, upheld>>, backups \subseteq backups',
         entry.pc \in Underway, Resolved(w)', entry.pc \in {"staged", "checked"} => Staged(w)',
         entry.pc = "checked" => IF w \in raced THEN upheld = {} ELSE snoozes = entry.original
  PROVE  SnoozeInv'
<1>1. cmd'[w] = entry /\ \A v \in Writers \ {w} : cmd'[v] = cmd[v]
  BY DEF SnoozeInv, WriterInv
<1>2. ClockInv' /\ FileInv'
  BY DEF SnoozeInv, ClockInv, FileInv, IsFile, Decodes, Entries, InRange
<1>3. WriterInv'
  <2>1. cmd' = [v \in Writers |-> cmd'[v]]
    BY DEF SnoozeInv, WriterInv
  <2>2. \A v \in Writers \ {w} : (Resolved(v) => Resolved(v)') /\ (Staged(v) => Staged(v)')
    BY <1>1 DEF Resolved, Staged
  <2>3. QED
    BY <1>1, <2>1, <2>2 DEF SnoozeInv, WriterInv, Underway
<1>4. QED
  BY <1>2, <1>3 DEF SnoozeInv

\* One action after the other.
LEMMA BeginKeeps ==
  ASSUME SnoozeInv, NEW w \in Writers, BeginSnooze(w)
  PROVE  SnoozeInv'
<1>1. PICK change \in Changes :
        IF Offered(change) /\ clock >= 0 /\ FromEvent(change)
        THEN /\ cmd' = [cmd EXCEPT ![w] = [pc |-> "resolved", change |-> change, now |-> clock]]
             /\ UNCHANGED <<snoozes, backups, lock, clock, fileEdits, latest, raced, upheld>>
        ELSE Fail(w, "refused")
  BY DEF BeginSnooze
<1>2. CASE Offered(change) /\ clock >= 0 /\ FromEvent(change)
  <2> DEFINE entry == [pc |-> "resolved", change |-> change, now |-> clock]
  <2>1. /\ cmd' = [cmd EXCEPT ![w] = entry] /\ cmd[w].pc = "idle"
        /\ UNCHANGED <<snoozes, backups, lock, clock, latest, raced, upheld>>
    BY <1>1, <1>2 DEF BeginSnooze
  <2>2. cmd'[w] = entry /\ \A v \in Writers \ {w} : cmd'[v] = cmd[v]
    BY <2>1 DEF SnoozeInv, WriterInv
  <2>3. Resolved(w)' /\ LockInv'
    BY <1>2, <2>1, <2>2 DEF SnoozeInv, ClockInv, LockInv, Resolved
  <2>4. QED
    BY <2>1, <2>3, CommandKeeps DEF Underway
<1>3. QED
  BY <1>1, <1>2, FailKeeps

LEMMA AcquireKeeps ==
  ASSUME SnoozeInv, NEW w \in Writers, Acquire(w)
  PROVE  SnoozeInv'
<1>1. CASE lock = {}
  <2> DEFINE entry == [cmd[w] EXCEPT !.pc = "locked"]
  <2>1. /\ lock' = lock \cup {w} /\ cmd' = [cmd EXCEPT ![w] = entry]
        /\ UNCHANGED <<snoozes, backups, clock, latest, raced, upheld>> /\ cmd[w].pc = "resolved"
    BY <1>1 DEF Acquire, LockFree
  <2>2. cmd'[w] = entry /\ \A v \in Writers \ {w} : cmd'[v] = cmd[v]
    BY <2>1 DEF SnoozeInv, WriterInv
  <2>3. Resolved(w)
    BY <2>1 DEF SnoozeInv, WriterInv, Underway
  <2>4. entry.change = cmd[w].change /\ entry.now = cmd[w].now /\ DOMAIN entry = DOMAIN cmd[w]
    BY <2>3 DEF Resolved
  <2>5. entry.pc = "locked"
    BY <2>3 DEF Resolved
  <2>6. Resolved(w)' /\ LockInv'
    BY <1>1, <2>1, <2>2, <2>3, <2>4 DEF SnoozeInv, LockInv, Resolved
  <2>7. QED
    BY <2>1, <2>5, <2>6, CommandKeeps DEF Underway
<1>2. CASE lock # {}
  BY <1>2, FailKeeps DEF Acquire, LockFree
<1>3. QED
  BY <1>1, <1>2

LEMMA StageKeeps ==
  ASSUME SnoozeInv, NEW w \in Writers, Stage(w)
  PROVE  SnoozeInv'
<1> DEFINE change == cmd[w].change
           at == cmd[w].now
           next == Plan(snoozes, change, at)
           entry == [pc |-> "staged", change |-> change, now |-> at, original |-> snoozes, next |-> next]
<1>1. CASE ~Decodes(snoozes) \/ TooMany(snoozes, change, at)
  BY <1>1, FailKeeps DEF Stage
<1>2. CASE Decodes(snoozes) /\ ~TooMany(snoozes, change, at)
  <2>1. /\ backups' = IF snoozes = Absent THEN backups ELSE backups \cup {snoozes}
        /\ \/ cmd' = [cmd EXCEPT ![w] = entry] /\ UNCHANGED <<lock, raced>>
           \/ End(w, "storage-failure")
        /\ UNCHANGED <<snoozes, clock, fileEdits, latest, upheld>>
    BY <1>2 DEF Stage
  <2>2. cmd[w].pc = "locked" /\ Resolved(w)
    BY DEF Stage, SnoozeInv, WriterInv, Underway
  <2>3. CASE End(w, "storage-failure")
    BY <2>1, <2>3, EndKeeps
  <2>4. CASE cmd' = [cmd EXCEPT ![w] = entry] /\ UNCHANGED <<lock, raced>>
    <3>1. cmd'[w] = entry /\ \A v \in Writers \ {w} : cmd'[v] = cmd[v]
      BY <2>4 DEF SnoozeInv, WriterInv
    <3>2. LockInv' /\ Resolved(w)'
      BY <2>1, <2>2, <2>4, <3>1 DEF SnoozeInv, LockInv, Resolved
    <3>3. IsFile(snoozes)
      BY <1>2 DEF SnoozeInv, FileInv, Decodes, IsFile
    <3>4. Staged(w)'
      BY <1>2, <2>1, <3>1, <3>3 DEF Staged
    <3>5. QED
      BY <2>1, <2>2, <2>4, <3>2, <3>4, CommandKeeps DEF Underway
  <2>5. QED
    BY <2>1, <2>3, <2>4
<1>3. QED
  BY <1>1, <1>2

LEMMA RecheckKeeps ==
  ASSUME SnoozeInv, NEW w \in Writers, Recheck(w)
  PROVE  SnoozeInv'
<1>1. CASE Unmodified(w)
  <2> DEFINE entry == [cmd[w] EXCEPT !.pc = "checked"]
  <2>1. /\ cmd' = [cmd EXCEPT ![w] = entry] /\ cmd[w].pc = "staged" /\ snoozes = cmd[w].original
        /\ UNCHANGED <<snoozes, backups, lock, clock, latest, raced, upheld>>
    BY <1>1 DEF Recheck, Unmodified
  <2>2. cmd'[w] = entry /\ \A v \in Writers \ {w} : cmd'[v] = cmd[v]
    BY <2>1 DEF SnoozeInv, WriterInv
  <2>3. Resolved(w) /\ Staged(w) /\ w \notin raced
    BY <2>1 DEF SnoozeInv, WriterInv, Underway
  <2>4. /\ entry.change = cmd[w].change /\ entry.now = cmd[w].now /\ DOMAIN entry = DOMAIN cmd[w]
        /\ entry.pc = "checked" /\ entry.original = cmd[w].original /\ entry.next = cmd[w].next
    BY <2>3 DEF Resolved, Staged
  <2>5. Resolved(w)' /\ Staged(w)' /\ LockInv'
    BY <2>1, <2>2, <2>3, <2>4 DEF SnoozeInv, LockInv, Resolved, Staged
  <2>6. QED
    BY <2>1, <2>3, <2>4, <2>5, CommandKeeps DEF Underway
<1>2. CASE ~Unmodified(w)
  BY <1>2, FailKeeps DEF Recheck
<1>3. QED
  BY <1>1, <1>2

LEMMA RenameKeeps ==
  ASSUME SnoozeInv, NEW w \in Writers, Rename(w)
  PROVE  SnoozeInv'
<1> DEFINE change == cmd[w].change
           new == IF change.kind = "snooze" THEN {NewEntry(change, cmd[w].now)} ELSE {}
<1>1. /\ cmd[w].pc = "checked" /\ snoozes' = cmd[w].next
      /\ upheld' = {u \in upheld : ~Superseded(u, change)} \cup new
      /\ cmd' = [cmd EXCEPT ![w] = [pc |-> "done", outcome |-> "applied"]] /\ lock' = lock \ {w}
      /\ raced' = raced \ {w}
      /\ UNCHANGED <<backups, clock, latest>>
  BY DEF Rename, End
<1>2. cmd'[w].pc = "done" /\ \A v \in Writers \ {w} : cmd'[v] = cmd[v] /\ (v \in raced' <=> v \in raced)
  BY <1>1 DEF SnoozeInv, WriterInv
<1>3. ClockInv' /\ LockInv'
  BY <1>1, <1>2 DEF SnoozeInv, ClockInv, LockInv
<1>4. w \in lock /\ \A v \in Writers \ {w} : cmd[v].pc # "checked"
  BY <1>1 DEF SnoozeInv, LockInv
<1>5. WriterInv'
  <2>1. cmd' = [v \in Writers |-> cmd'[v]]
    BY <1>1 DEF SnoozeInv, WriterInv
  <2>2. \A v \in Writers \ {w} : (Resolved(v) => Resolved(v)') /\ (Staged(v) => Staged(v)')
    BY <1>1, <1>2 DEF Resolved, Staged
  <2>3. QED
    BY <1>1, <1>2, <1>4, <2>1, <2>2 DEF SnoozeInv, WriterInv, Underway
<1>6. FileInv'
  <2>1. /\ IsFile(snoozes') /\ Decodes(snoozes') /\ Entries(snoozes') = snoozes' /\ new \subseteq snoozes'
        /\ snoozes' # Absent
    BY <1>1, PlansDecode
  <2>2. \A u \in upheld : latest < u.expires /\ ~Superseded(u, change) => u \in snoozes'
    <3>1. CASE w \in raced
      BY <1>1, <3>1 DEF SnoozeInv, WriterInv
    <3>2. CASE w \notin raced
      BY <1>1, <3>2, UpheldAreKept
    <3>3. QED
      BY <3>1, <3>2
  <2>3. \A u \in upheld' : u.expires \in Int /\ (latest' < u.expires => u \in Entries(snoozes'))
    <3>1. \A u \in new : u.expires \in Int
      BY <2>1 DEF IsFile, Entry, InRange, Decodes
    <3>2. QED
      BY <1>1, <2>1, <2>2, <3>1 DEF SnoozeInv, FileInv
  <2>4. QED
    BY <2>1, <2>3 DEF FileInv, IsFile, Decodes, Entries, InRange
<1>7. QED
  BY <1>3, <1>5, <1>6 DEF SnoozeInv

\* The surroundings.
LEMMA EditKeeps ==
  ASSUME SnoozeInv, Edit
  PROVE  SnoozeInv'
<1>1. /\ snoozes' \in {Absent, Malformed} \cup {{e} : e \in Entries(IF Decodes(snoozes) THEN snoozes ELSE Absent)}
      /\ raced' = raced \cup {w \in Writers : cmd[w].pc = "checked"} /\ upheld' = {}
      /\ UNCHANGED <<backups, lock, cmd, clock, latest>>
  BY DEF Edit
<1>2. ClockInv' /\ LockInv'
  BY <1>1 DEF SnoozeInv, ClockInv, LockInv
<1>3. \A w \in Writers : (Resolved(w) => Resolved(w)') /\ (Staged(w) => Staged(w)')
  BY <1>1 DEF Resolved, Staged
<1>4. WriterInv'
  BY <1>1, <1>3 DEF SnoozeInv, WriterInv, Underway
<1>5. FileInv'
  <2>1. Entries(IF Decodes(snoozes) THEN snoozes ELSE Absent) \subseteq Entry
    BY DEF SnoozeInv, FileInv, Entries, IsFile, Decodes
  <2>2. snoozes' \in {Absent, Malformed} \/ (snoozes' \subseteq Entry /\ IsFiniteSet(snoozes'))
    <3>1. CASE snoozes' \in {Absent, Malformed}
      BY <3>1
    <3>2. CASE snoozes' \notin {Absent, Malformed}
      <4>1. PICK e \in Entries(IF Decodes(snoozes) THEN snoozes ELSE Absent) : snoozes' = {e}
        BY <1>1, <3>2
      <4>2. QED
        BY <2>1, <4>1, FS_Singleton
    <3>3. QED
      BY <3>1, <3>2
  <2>3. QED
    BY <1>1, <2>2 DEF FileInv, IsFile
<1>6. QED
  BY <1>2, <1>4, <1>5 DEF SnoozeInv

LEMMA TickKeeps ==
  ASSUME SnoozeInv, SnoozeTick
  PROVE  SnoozeInv'
<1>1. /\ clock' \in -1..MaxClock /\ latest' = (IF clock' > latest THEN clock' ELSE latest)
      /\ UNCHANGED <<snoozes, backups, lock, cmd, raced, upheld>>
  BY DEF SnoozeTick
<1>2. ClockInv' /\ LockInv' /\ latest <= latest' /\ latest \in Int /\ latest' \in Int
  BY <1>1 DEF SnoozeInv, ClockInv, LockInv
<1>3. \A w \in Writers : (Resolved(w) => Resolved(w)') /\ (Staged(w) => Staged(w)')
  BY <1>1, <1>2 DEF Resolved, Staged
<1>4. WriterInv'
  BY <1>1, <1>3 DEF SnoozeInv, WriterInv, Underway
<1>5. FileInv'
  <2>1. \A u \in upheld : latest' < u.expires => latest < u.expires
    BY <1>2 DEF SnoozeInv, FileInv
  <2>2. QED
    BY <1>1, <2>1 DEF SnoozeInv, FileInv, IsFile, Decodes, Entries, InRange
<1>6. QED
  BY <1>2, <1>4, <1>5 DEF SnoozeInv

\* The invariant holds from the start.
LEMMA SnoozeStarts ==
  ASSUME SnoozeInit
  PROVE  SnoozeInv
<1>1. clock \in -1..MaxClock /\ latest \in Int /\ clock <= latest
  BY SnoozeLimits DEF SnoozeInit
<1>2. \A w \in Writers : cmd[w] = Idle
  BY DEF SnoozeInit
<1>3. IsFile(snoozes)
  BY DEF SnoozeInit, IsFile
<1>4. QED
  BY <1>1, <1>2, <1>3 DEF SnoozeInit, SnoozeInv, ClockInv, LockInv, WriterInv, FileInv, Idle, Underway

LEMMA SnoozeSteps ==
  ASSUME SnoozeInv, SnoozeNext
  PROVE  SnoozeInv'
<1>1. ASSUME NEW w \in Writers, Die(w) \/ PreviewSnooze(w)
      PROVE  SnoozeInv'
  BY <1>1, FailKeeps DEF Die, PreviewSnooze
<1>2. QED
  BY <1>1, BeginKeeps, AcquireKeeps, StageKeeps, RecheckKeeps, RenameKeeps, EditKeeps, TickKeeps
  DEF SnoozeNext

LEMMA SnoozeStutters ==
  ASSUME SnoozeInv, UNCHANGED snoozeVars
  PROVE  SnoozeInv'
<1>1. \A w \in Writers : (Resolved(w) => Resolved(w)') /\ (Staged(w) => Staged(w)')
  BY DEF snoozeVars, Resolved, Staged
<1>2. WriterInv'
  BY <1>1 DEF SnoozeInv, WriterInv, snoozeVars, Underway
<1>3. ClockInv' /\ LockInv'
  BY DEF SnoozeInv, ClockInv, LockInv, snoozeVars
<1>4. FileInv'
  BY DEF SnoozeInv, FileInv, IsFile, Decodes, Entries, InRange, snoozeVars
<1>5. QED
  BY <1>2, <1>3, <1>4 DEF SnoozeInv

\* What is upheld and not over mutes, whatever the clock reads now.
LEMMA SnoozesHold ==
  ASSUME SnoozeInv
  PROVE  SnoozeHolds
<1> SUFFICES ASSUME NEW u \in upheld, latest < u.expires
             PROVE  Decodes(snoozes) /\ u.target \in Controls(snoozes, u.scope, clock)
  BY DEF SnoozeHolds
<1>1. Decodes(snoozes) /\ u \in Entries(snoozes) /\ u.expires \in Int
  BY DEF SnoozeInv, FileInv
<1>2. clock \in Int /\ latest \in Int /\ clock <= latest
  BY DEF SnoozeInv, ClockInv
<1>3. Mutes(u, clock)
  BY <1>1, <1>2 DEF Mutes, SnoozeStatus
<1>4. QED
  BY <1>1, <1>3 DEF Controls, InScope

\* Only a rename ends a command as "applied".
LEMMA RenamesLoseNothing ==
  ASSUME SnoozeInv, SnoozeNext
  PROVE  RenameLosesNothing
<1> SUFFICES ASSUME NEW w \in Writers, cmd[w].pc = "checked", cmd'[w].pc = "done",
                    cmd'[w].outcome = "applied", w \notin raced
             PROVE  /\ Kept(snoozes, cmd[w].change, cmd[w].now) \subseteq snoozes'
                    /\ snoozes = Absent \/ snoozes \in backups
  BY DEF RenameLosesNothing
<1>1. ~(UNCHANGED cmd)
  OBVIOUS
<1>2. ~Edit /\ ~SnoozeTick
  BY <1>1 DEF Edit, SnoozeTick
<1>3. PICK v \in Writers : BeginSnooze(v) \/ PreviewSnooze(v) \/ Acquire(v) \/ Stage(v) \/ Recheck(v) \/ Rename(v) \/ Die(v)
  BY <1>2 DEF SnoozeNext
<1>4. \E entry : cmd' = [cmd EXCEPT ![v] = entry]
  <2>1. \A outcome : Fail(v, outcome) \/ End(v, outcome) => \E entry : cmd' = [cmd EXCEPT ![v] = entry]
    BY DEF Fail, End
  <2>2. Rename(v) \/ Die(v) \/ PreviewSnooze(v) => \E outcome : Fail(v, outcome) \/ End(v, outcome)
    BY DEF Rename, Die, PreviewSnooze
  <2>3. BeginSnooze(v) => \E entry : cmd' = [cmd EXCEPT ![v] = entry]
    BY <2>1 DEF BeginSnooze
  <2>4. Acquire(v) => \E entry : cmd' = [cmd EXCEPT ![v] = entry]
    BY <2>1 DEF Acquire
  <2>5. Stage(v) => \E entry : cmd' = [cmd EXCEPT ![v] = entry]
    BY <2>1 DEF Stage
  <2>6. Recheck(v) => \E entry : cmd' = [cmd EXCEPT ![v] = entry]
    BY <2>1 DEF Recheck
  <2>7. QED
    BY <1>3, <2>1, <2>2, <2>3, <2>4, <2>5, <2>6
<1>5. v = w
  BY <1>4 DEF SnoozeInv, WriterInv
<1>6. Rename(w)
  <2>1. ~Die(w)
    BY DEF Die, Fail, End, SnoozeInv, WriterInv
  <2>2. QED
    BY <1>3, <1>5, <2>1 DEF BeginSnooze, PreviewSnooze, Acquire, Stage, Recheck
<1>7. snoozes' = cmd[w].next
  BY <1>6 DEF Rename
<1>8. snoozes = cmd[w].original /\ Staged(w)
  BY DEF SnoozeInv, WriterInv
<1>9. QED
  BY <1>7, <1>8, PlansDecode DEF Staged

-----------------------------------------------------------------------------
(* The settings file                                                       *)

\* The points of a command that has read and classified the settings.
Classified == {"classified", "locked", "compared"}

HookEntries == [command : HookCommands \cup {Foreign}, timeout : Nat, plain : BOOLEAN]

\* At most one entry of a file runs sr, and its timeout is one that was offered.
OneSr(listed) ==
  /\ listed \in Seq(HookEntries)
  /\ \A i, j \in DOMAIN listed : IsSr(listed[i]) /\ IsSr(listed[j]) => i = j
  /\ \A i \in DOMAIN listed : IsSr(listed[i]) => listed[i].timeout \in Timeouts
Tidy(file) == file \in {NoSettings, BadFile} \/ OneSr(file)

\* A command that classified a file goes on only if the file has no entry of sr to
\* install beside, or one to remove.
Accepted(r, file) ==
  /\ r \in Requests /\ Tidy(file) /\ file # BadFile
  /\ IF r.op = "install" THEN FirstSr(Parsed(file)) = 0
     ELSE file # NoSettings /\ FirstSr(file) # 0

RequestInv ==
  /\ inst = [p \in Installers |-> inst[p]]
  /\ \A p \in Installers :
       /\ inst[p].pc \in {"idle", "done"} \cup Classified
       /\ inst[p].pc \in Classified =>
            /\ {"pc", "request", "base"} \subseteq DOMAIN inst[p]
            /\ Accepted(inst[p].request, inst[p].base)
       /\ inst[p].pc \in {"locked", "compared"} => p \in held /\ inst[p].base \in saved
       /\ inst[p].pc = "compared" /\ p \notin overtaken => settings = inst[p].base
HeldInv == \A p, q \in held : p = q
HookInv ==
  /\ deadline \in Nat /\ Tidy(settings) /\ HookOutlived
  /\ hook # NoHook /\ hook.pc = "started" => hook.command # Foreign
InstallerInv == RequestInv /\ HeldInv /\ HookInv

\* A set of numbers has a least one.
LEMMA LeastExists ==
  ASSUME NEW S, S \subseteq Nat, S # {}
  PROVE  \E x \in S : \A y \in S : x <= y
<1>1. \E x \in S : \A y \in S : ~(<<y, x>> \in OpToRel(<, Nat))
  BY NatLessThanWellFounded, WFMin
<1>2. PICK x \in S : \A y \in S : ~(<<y, x>> \in OpToRel(<, Nat))
  BY <1>1
<1>3. \A y \in S : ~(y < x)
  BY <1>2 DEF OpToRel
<1>4. \A y \in S : x <= y
  BY <1>3
<1> QED BY <1>4

LEMMA LeastIsMin ==
  ASSUME NEW S, S \subseteq Nat, S # {}
  PROVE  Min(S) \in S /\ \A y \in S : Min(S) <= y
BY LeastExists DEF Min

\* The first entry that runs sr is one of them, and there is none at 0.
LEMMA FirstSrIs ==
  ASSUME NEW n \in Seq(HookEntries)
  PROVE  /\ FirstSr(n) = 0 <=> \A i \in DOMAIN n : ~IsSr(n[i])
         /\ FirstSr(n) # 0 => FirstSr(n) \in DOMAIN n
<1> DEFINE I == {i \in 1..Len(n) : IsSr(n[i])}
<1>1. FirstSr(n) = IF I # {} THEN Min(I) ELSE 0
  BY DEF FirstSr, SelectInSeq
<1>2. I # {} => Min(I) \in I
  <2>1. I \subseteq Nat
    OBVIOUS
  <2> HIDE DEF I
  <2>2. QED
    BY <2>1, LeastIsMin
<1>3. DOMAIN n = 1..Len(n)
  OBVIOUS
<1>4. \A i \in I : i \in DOMAIN n /\ i # 0 /\ IsSr(n[i])
  OBVIOUS
<1>5. CASE I = {}
  <2>1. \A i \in DOMAIN n : ~IsSr(n[i])
    BY <1>3, <1>5
  <2> HIDE DEF I
  <2>2. QED
    BY <1>1, <1>5, <2>1
<1>6. CASE I # {}
  <2> HIDE DEF I
  <2>2. QED
    BY <1>1, <1>2, <1>4, <1>6
<1>7. QED
  BY <1>5, <1>6

\* What is left when one entry is removed stands in its old order.
LEMMA Removal ==
  ASSUME NEW S, NEW n \in Seq(S), NEW i \in 1..Len(n)
  PROVE  /\ RemoveAt(n, i) \in Seq(S) /\ Len(RemoveAt(n, i)) = Len(n) - 1
         /\ \A k \in 1..(Len(n) - 1) : RemoveAt(n, i)[k] = n[IF k < i THEN k ELSE k + 1]
<1> DEFINE front == SubSeq(n, 1, i - 1)
           back == SubSeq(n, i + 1, Len(n))
<1>1. front \in Seq(S) /\ Len(front) = i - 1 /\ \A k \in 1..(i - 1) : front[k] = n[k]
  OBVIOUS
<1>2. back \in Seq(S) /\ Len(back) = Len(n) - i /\ \A k \in 1..(Len(n) - i) : back[k] = n[i + k]
  OBVIOUS
<1>3. RemoveAt(n, i) = front \o back
  BY DEF RemoveAt
<1> HIDE DEF front, back
<1>4. front \o back \in Seq(S) /\ Len(front \o back) = Len(n) - 1
  BY <1>1, <1>2
<1>5. \A k \in 1..(Len(n) - 1) : (front \o back)[k] = n[IF k < i THEN k ELSE k + 1]
  <2> TAKE k \in 1..(Len(n) - 1)
  <2>1. CASE k < i
    BY <1>1, <1>2, <2>1
  <2>2. CASE ~(k < i)
    <3>1. (front \o back)[k] = back[k - (i - 1)]
      BY <1>1, <1>2, <2>2
    <3>2. k - (i - 1) \in 1..(Len(n) - i) /\ i + (k - (i - 1)) = k + 1
      BY <2>2
    <3>3. QED
      BY <1>2, <2>2, <3>1, <3>2
  <2>3. QED
    BY <2>1, <2>2
<1>6. QED
  BY <1>3, <1>4, <1>5

\* What may become of a tidy file.
LEMMA RemovalIsTidy ==
  ASSUME NEW n, OneSr(n), NEW i \in DOMAIN n
  PROVE  OneSr(RemoveAt(n, i))
<1> DEFINE cut == RemoveAt(n, i)
           Old(k) == IF k < i THEN k ELSE k + 1
<1>1. n \in Seq(HookEntries) /\ i \in 1..Len(n) /\ DOMAIN n = 1..Len(n)
  BY DEF OneSr
<1>2. /\ cut \in Seq(HookEntries) /\ Len(cut) = Len(n) - 1
      /\ \A k \in 1..(Len(n) - 1) : cut[k] = n[Old(k)]
  BY <1>1, Removal
<1>3. \A k \in 1..(Len(n) - 1) : Old(k) \in 1..Len(n)
  BY <1>1
<1>4. \A k, l \in 1..(Len(n) - 1) : Old(k) = Old(l) => k = l
  BY <1>1
<1>5. DOMAIN cut = 1..(Len(n) - 1)
  BY <1>2
<1> HIDE DEF cut, Old
<1>6. OneSr(cut)
  BY <1>1, <1>2, <1>3, <1>4, <1>5 DEF OneSr
<1>7. QED
  BY <1>6 DEF cut

LEMMA AppendIsTidy ==
  ASSUME NEW n, OneSr(n), NEW e \in HookEntries,
         IsSr(e) => e.timeout \in Timeouts /\ \A i \in DOMAIN n : ~IsSr(n[i])
  PROVE  OneSr(Append(n, e))
<1>1. n \in Seq(HookEntries)
  BY DEF OneSr
<1>2. /\ Append(n, e) \in Seq(HookEntries) /\ DOMAIN Append(n, e) = 1..(Len(n) + 1)
      /\ DOMAIN n = 1..Len(n) /\ Len(n) \in Nat
      /\ Append(n, e)[Len(n) + 1] = e /\ \A i \in 1..Len(n) : Append(n, e)[i] = n[i]
  BY <1>1
<1>3. \A i \in 1..(Len(n) + 1) : i = Len(n) + 1 \/ i \in 1..Len(n)
  BY <1>2
<1>4. QED
  BY <1>2, <1>3 DEF OneSr

\* An entry may be retimed, or given a matcher.
LEMMA ChangeIsTidy ==
  ASSUME NEW n, OneSr(n), NEW i \in DOMAIN n, NEW e \in HookEntries,
         e.command = n[i].command, e.timeout \in Timeouts \cup {n[i].timeout}
  PROVE  OneSr([n EXCEPT ![i] = e])
<1> DEFINE m == [n EXCEPT ![i] = e]
<1>1. n \in Seq(HookEntries) /\ DOMAIN n = 1..Len(n)
  BY DEF OneSr
<1>2. m \in Seq(HookEntries) /\ DOMAIN m = DOMAIN n /\ m[i] = e /\ \A k \in DOMAIN n : k # i => m[k] = n[k]
  BY <1>1
<1> HIDE DEF m
<1>3. \A k \in DOMAIN n : /\ IsSr(m[k]) <=> IsSr(n[k])
                          /\ m[k].timeout \in Timeouts \cup {n[k].timeout}
  BY <1>2 DEF IsSr
<1>4. OneSr(m)
  BY <1>2, <1>3 DEF OneSr
<1>5. QED
  BY <1>4 DEF m

\* What a command reads is tidy.
LEMMA ParsedIsTidy ==
  ASSUME NEW n, Tidy(n), n # BadFile
  PROVE  OneSr(Parsed(n))
<1>1. OneSr(<<>>)
  BY DEF OneSr
<1>2. QED
  BY <1>1 DEF Tidy, Parsed

\* What a request publishes is tidy again.
LEMMA PublicationIsTidy ==
  ASSUME NEW r, NEW n, Accepted(r, n)
  PROVE  Tidy(Edited(n, r))
<1>1. OneSr(Parsed(n)) /\ Parsed(n) \in Seq(HookEntries)
  BY ParsedIsTidy DEF Accepted, OneSr
<1>2. CASE r.op = "install"
  <2>1. \A i \in DOMAIN Parsed(n) : ~IsSr(Parsed(n)[i])
    BY <1>1, <1>2, FirstSrIs DEF Accepted
  <2>2. ManagedEntry(r) \in HookEntries /\ ManagedEntry(r).timeout \in Timeouts
    BY TimeoutAssumption DEF Accepted, Requests, ManagedEntry, HookEntries
  <2>3. OneSr(Append(Parsed(n), ManagedEntry(r)))
    BY <1>1, <2>1, <2>2, AppendIsTidy
  <2>4. QED
    BY <1>2, <2>3 DEF Tidy, Edited, Installed
<1>3. CASE r.op # "install"
  <2>1. n = Parsed(n) /\ FirstSr(n) # 0
    BY <1>3 DEF Accepted, Parsed
  <2>2. FirstSr(n) \in DOMAIN n
    BY <1>1, <2>1, FirstSrIs
  <2>3. OneSr(RemoveAt(n, FirstSr(n)))
    BY <1>1, <2>1, <2>2, RemovalIsTidy
  <2>4. QED
    BY <1>3, <2>3 DEF Tidy, Edited, Uninstalled
<1>4. QED
  BY <1>2, <1>3

\* What a request may go on with.
LEMMA VerdictAccepts ==
  ASSUME NEW r \in Requests, NEW n, Tidy(n), Verdict(r, n) = "publish"
  PROVE  Accepted(r, n)
<1>1. n # BadFile
  BY DEF Verdict, InstallCommand, UninstallCommand, InstallVerdict, UninstallVerdict
<1>2. OneSr(Parsed(n)) /\ Parsed(n) \in Seq(HookEntries)
  BY <1>1, ParsedIsTidy DEF OneSr
<1>3. FirstSr(Parsed(n)) = 0 \/ FirstSr(Parsed(n)) \in DOMAIN Parsed(n)
  BY <1>2, FirstSrIs
<1>4. FirstSr(Parsed(n)) # 0 => FirstSr(Parsed(n)) > 0
  BY <1>2, <1>3
<1>5. Classify(Parsed(n), r) = "none" <=> FirstSr(Parsed(n)) = 0
  BY <1>4 DEF Classify
<1>6. CASE r.op = "install"
  <2>1. Classify(Parsed(n), r) \notin {"exact", "conflict"}
    BY <1>1, <1>6 DEF Verdict, InstallCommand, InstallVerdict
  <2>2. Classify(Parsed(n), r) = "none"
    BY <2>1 DEF Classify
  <2>3. QED
    BY <1>1, <1>5, <1>6, <2>2 DEF Accepted
<1>7. CASE r.op # "install"
  <2>1. FirstSr(Parsed(n)) # 0
    BY <1>1, <1>5, <1>7 DEF Verdict, UninstallCommand, UninstallVerdict
  <2>2. FirstSr(<<>>) = 0
    <3>1. <<>> \in Seq(HookEntries) /\ DOMAIN <<>> = {}
      OBVIOUS
    <3>2. QED
      BY <3>1, FirstSrIs
  <2>3. QED
    BY <1>1, <1>7, <2>1, <2>2 DEF Accepted, Parsed
<1>8. QED
  BY <1>6, <1>7

-----------------------------------------------------------------------------
(* The steps                                                               *)

\* A command that ends, published or not.
LEMMA EndsKeeps ==
  ASSUME InstallerInv, NEW p \in Installers, NEW outcome, Ends(p, outcome), saved \subseteq saved',
         settings' = settings \/ (inst[p].pc = "compared" /\ Tidy(settings')),
         UNCHANGED <<deadline, hook>>
  PROVE  InstallerInv'
<1>1. /\ inst' = [inst EXCEPT ![p] = [pc |-> "done", outcome |-> outcome]]
      /\ held' = held \ {p} /\ overtaken' = overtaken \ {p}
  BY DEF Ends
<1>2. inst'[p].pc = "done" /\ \A q \in Installers \ {p} : inst'[q] = inst[q] /\ (q \in overtaken' <=> q \in overtaken)
  BY <1>1 DEF InstallerInv, RequestInv
<1>3. HeldInv' /\ HookInv'
  BY <1>1 DEF InstallerInv, HeldInv, HookInv, HookOutlived, Tidy, OneSr, IsSr, HookEntries
<1>4. inst[p].pc = "compared" => \A q \in Installers \ {p} : inst[q].pc # "compared"
  BY DEF InstallerInv, RequestInv, HeldInv
<1>5. RequestInv'
  <2>1. inst' = [q \in Installers |-> inst'[q]]
    BY <1>1 DEF InstallerInv, RequestInv
  <2>2. \A q \in Installers \ {p} : inst'[q].pc = "compared" /\ q \notin overtaken' => settings' = inst'[q].base
    BY <1>2, <1>4 DEF InstallerInv, RequestInv
  <2>3. QED
    BY <1>1, <1>2, <2>1, <2>2 DEF InstallerInv, RequestInv, Classified
<1>6. QED
  BY <1>3, <1>5 DEF InstallerInv

LEMMA StopsKeeps ==
  ASSUME InstallerInv, NEW p \in Installers, NEW outcome, Stops(p, outcome)
  PROVE  InstallerInv'
BY EndsKeeps DEF Stops

\* A step of one command that leaves the settings alone.
LEMMA RequestKeeps ==
  ASSUME InstallerInv, NEW p \in Installers, NEW entry, inst' = [inst EXCEPT ![p] = entry],
         HeldInv', held \subseteq held', saved \subseteq saved',
         UNCHANGED <<settings, deadline, hook, overtaken>>,
         entry.pc \in Classified, {"pc", "request", "base"} \subseteq DOMAIN entry,
         Accepted(entry.request, entry.base),
         entry.pc \in {"locked", "compared"} => p \in held' /\ entry.base \in saved',
         entry.pc = "compared" => settings = entry.base
  PROVE  InstallerInv'
<1>1. inst'[p] = entry /\ \A q \in Installers \ {p} : inst'[q] = inst[q]
  BY DEF InstallerInv, RequestInv
<1>2. HookInv'
  BY DEF InstallerInv, HookInv, HookOutlived, Tidy, OneSr, IsSr, HookEntries
<1>3. inst' = [q \in Installers |-> inst'[q]]
  BY DEF InstallerInv, RequestInv
<1>4. RequestInv'
  BY <1>1, <1>3 DEF InstallerInv, RequestInv, Classified
<1>5. QED
  BY <1>2, <1>4 DEF InstallerInv

\* One action after the other.
LEMMA PrepareKeeps ==
  ASSUME InstallerInv, NEW p \in Installers, Prepare(p)
  PROVE  InstallerInv'
<1>1. PICK r \in Requests :
       IF Verdict(r, settings) # "publish"
       THEN Stops(p, Verdict(r, settings))
       ELSE /\ inst' = [inst EXCEPT ![p] = [pc |-> "classified", request |-> r, base |-> settings]]
            /\ UNCHANGED <<settings, saved, held, deadline, userEdits, overtaken, hook>>
  BY DEF Prepare
<1>2. CASE Verdict(r, settings) # "publish"
  BY <1>1, <1>2, StopsKeeps
<1>3. CASE Verdict(r, settings) = "publish"
  <2> DEFINE entry == [pc |-> "classified", request |-> r, base |-> settings]
  <2>1. Accepted(r, settings)
    BY <1>3, VerdictAccepts DEF InstallerInv, HookInv
  <2>2. HeldInv'
    BY <1>1, <1>3 DEF InstallerInv, HeldInv
  <2>3. QED
    BY <1>1, <1>3, <2>1, <2>2, RequestKeeps DEF Classified
<1>4. QED
  BY <1>2, <1>3

LEMMA TakeLockKeeps ==
  ASSUME InstallerInv, NEW p \in Installers, TakeLock(p)
  PROVE  InstallerInv'
<1>1. CASE ~Exclusive(p)
  BY <1>1, StopsKeeps DEF TakeLock
<1>2. CASE Exclusive(p)
  <2> DEFINE entry == [inst[p] EXCEPT !.pc = "locked"]
  <2>1. /\ inst[p].pc = "classified" /\ saved' = saved \cup {inst[p].base}
        /\ \/ held' = held \cup {p} /\ inst' = [inst EXCEPT ![p] = entry] /\ UNCHANGED overtaken
           \/ Ends(p, "storage-failure")
        /\ UNCHANGED <<settings, deadline, userEdits, hook>>
    BY <1>2 DEF TakeLock
  <2>2. CASE Ends(p, "storage-failure")
    BY <2>1, <2>2, EndsKeeps
  <2>3. CASE held' = held \cup {p} /\ inst' = [inst EXCEPT ![p] = entry] /\ UNCHANGED overtaken
    <3>1. {"pc", "request", "base"} \subseteq DOMAIN inst[p] /\ Accepted(inst[p].request, inst[p].base)
      BY <2>1 DEF InstallerInv, RequestInv, Classified
    <3>2. /\ entry.pc = "locked" /\ entry.request = inst[p].request /\ entry.base = inst[p].base
          /\ {"pc", "request", "base"} \subseteq DOMAIN entry
      BY <3>1
    <3>3. HeldInv'
      BY <1>2, <2>3 DEF Exclusive, HeldInv
    <3> HIDE DEF entry
    <3>4. QED
      BY <2>1, <2>3, <3>1, <3>2, <3>3, RequestKeeps DEF Classified
  <2>4. QED
    BY <2>1, <2>2, <2>3
<1>3. QED
  BY <1>1, <1>2

LEMMA CompareKeeps ==
  ASSUME InstallerInv, NEW p \in Installers, Compare(p)
  PROVE  InstallerInv'
<1>1. CASE ~SameBase(p)
  BY <1>1, StopsKeeps DEF Compare
<1>2. CASE SameBase(p)
  <2> DEFINE entry == [inst[p] EXCEPT !.pc = "compared"]
  <2>1. /\ inst[p].pc = "locked" /\ settings = inst[p].base /\ inst' = [inst EXCEPT ![p] = entry]
        /\ UNCHANGED <<settings, saved, held, deadline, userEdits, overtaken, hook>>
    BY <1>2 DEF Compare, SameBase
  <2>2. /\ {"pc", "request", "base"} \subseteq DOMAIN inst[p] /\ Accepted(inst[p].request, inst[p].base)
        /\ p \in held /\ inst[p].base \in saved
    BY <2>1 DEF InstallerInv, RequestInv, Classified
  <2>3. /\ entry.pc = "compared" /\ entry.request = inst[p].request /\ entry.base = inst[p].base
        /\ {"pc", "request", "base"} \subseteq DOMAIN entry
    BY <2>2
  <2>4. HeldInv'
    BY <2>1 DEF InstallerInv, HeldInv
  <2> HIDE DEF entry
  <2>5. QED
    BY <2>1, <2>2, <2>3, <2>4, RequestKeeps DEF Classified
<1>3. QED
  BY <1>1, <1>2

LEMMA PublishKeeps ==
  ASSUME InstallerInv, NEW p \in Installers, PublishSettings(p)
  PROVE  InstallerInv'
<1>1. /\ inst[p].pc = "compared" /\ settings' = Edited(inst[p].base, inst[p].request)
      /\ Ends(p, "applied") /\ UNCHANGED <<saved, deadline, userEdits, hook>>
  BY DEF PublishSettings
<1>2. Accepted(inst[p].request, inst[p].base)
  BY <1>1 DEF InstallerInv, RequestInv, Classified
<1>3. Tidy(settings')
  BY <1>1, <1>2, PublicationIsTidy
<1>4. QED
  BY <1>1, <1>3, EndsKeeps

LEMMA UserEditKeeps ==
  ASSUME InstallerInv, UserEdit
  PROVE  InstallerInv'
<1> DEFINE theirs == [command |-> Foreign, timeout |-> 1, plain |-> TRUE]
           Retimed(i, t) == [settings EXCEPT ![i].timeout = t]
           Matched(i) == [settings EXCEPT ![i].plain = FALSE]
<1>1. /\ settings # BadFile /\ overtaken' = overtaken \cup {p \in Installers : inst[p].pc = "compared"}
      /\ hook' \in {NoHook, hook} /\ UNCHANGED <<saved, held, inst, deadline>>
      /\ \/ settings' = NoSettings \/ settings' = Append(Parsed(settings), theirs)
         \/ \E i \in DOMAIN Parsed(settings) : settings' = RemoveAt(settings, i)
         \/ \E i \in DOMAIN Parsed(settings), t \in Timeouts : settings' = Retimed(i, t)
         \/ \E i \in DOMAIN Parsed(settings) : settings' = Matched(i)
  BY DEF UserEdit
<1>2. OneSr(Parsed(settings))
  BY <1>1, ParsedIsTidy DEF InstallerInv, HookInv
<1>3. \A i \in DOMAIN Parsed(settings) : settings = Parsed(settings)
  BY DEF Parsed
<1>4. Tidy(settings')
  <2>1. CASE settings' = NoSettings
    BY <2>1 DEF Tidy
  <2>2. CASE settings' = Append(Parsed(settings), theirs)
    <3>1. theirs \in HookEntries /\ ~IsSr(theirs)
      BY DEF HookEntries, IsSr
    <3>2. QED
      BY <1>2, <2>2, <3>1, AppendIsTidy DEF Tidy
  <2>3. CASE \E i \in DOMAIN Parsed(settings) : settings' = RemoveAt(settings, i)
    BY <1>2, <1>3, <2>3, RemovalIsTidy DEF Tidy
  <2>4. ASSUME NEW i \in DOMAIN Parsed(settings), NEW e \in HookEntries, settings' = [settings EXCEPT ![i] = e],
               e.command = settings[i].command, e.timeout \in Timeouts \cup {settings[i].timeout}
        PROVE  Tidy(settings')
    BY <1>2, <1>3, <2>4, ChangeIsTidy DEF Tidy
  <2>5. \A i \in DOMAIN Parsed(settings) : i \in DOMAIN settings /\ settings[i] \in HookEntries
    BY <1>2, <1>3 DEF OneSr
  <2>6. ASSUME NEW i \in DOMAIN Parsed(settings), NEW t \in Timeouts, settings' = Retimed(i, t)
        PROVE  Tidy(settings')
    <3> DEFINE e == [settings[i] EXCEPT !.timeout = t]
    <3>1. e \in HookEntries /\ e.command = settings[i].command /\ e.timeout = t
      BY <2>5, TimeoutAssumption DEF HookEntries
    <3>2. settings' = [settings EXCEPT ![i] = e]
      BY <2>6
    <3> HIDE DEF e
    <3>3. QED
      BY <2>4, <3>1, <3>2
  <2>7. ASSUME NEW i \in DOMAIN Parsed(settings), settings' = Matched(i)
        PROVE  Tidy(settings')
    <3> DEFINE e == [settings[i] EXCEPT !.plain = FALSE]
    <3>1. e \in HookEntries /\ e.command = settings[i].command /\ e.timeout = settings[i].timeout
      BY <2>5 DEF HookEntries
    <3>2. settings' = [settings EXCEPT ![i] = e]
      BY <2>7
    <3> HIDE DEF e
    <3>3. QED
      BY <2>4, <3>1, <3>2
  <2>8. QED
    BY <1>1, <2>1, <2>2, <2>3, <2>6, <2>7
<1>5. HookInv' /\ HeldInv'
  BY <1>1, <1>4 DEF InstallerInv, HookInv, HeldInv, HookOutlived
<1>6. RequestInv'
  BY <1>1 DEF InstallerInv, RequestInv, Classified
<1>7. QED
  BY <1>5, <1>6 DEF InstallerInv

LEMMA RetimeKeeps ==
  ASSUME InstallerInv, Retime
  PROVE  InstallerInv'
<1>1. deadline' \in Nat /\ UNCHANGED <<settings, saved, held, inst, overtaken, hook>>
  BY TimeoutAssumption DEF Retime
<1>2. QED
  BY <1>1 DEF InstallerInv, RequestInv, Classified, HeldInv, HookInv, HookOutlived

\* A budget and the reserve make up the timeout.
LEMMA Reserved ==
  ASSUME NEW a \in Nat, NEW b \in Nat, a >= b, NEW c \in Nat
  PROVE  a - b \in Nat /\ (a - b) * c \in Int /\ (a - b) * c + b * c = a * c
<1>1. a - b \in Nat
  OBVIOUS
<1>2. (a - b) * c = a * c - b * c /\ a * c \in Int /\ b * c \in Int
  OBVIOUS
<1>3. \A x, y, z \in Int : z = x - y => z \in Int /\ z + y = x
  OBVIOUS
<1>4. QED
  BY <1>1, <1>2, <1>3

\* The harness starts hooks of sr's entry only.
LEMMA StartHookKeeps ==
  ASSUME InstallerInv, StartHook
  PROVE  InstallerInv'
<1>1. hook'.pc = "started" /\ hook'.command # Foreign
  BY DEF StartHook, IsSr
<1>2. UNCHANGED <<settings, saved, held, inst, deadline, overtaken>>
  BY DEF StartHook
<1>3. QED
  BY <1>1, <1>2 DEF InstallerInv, RequestInv, Classified, HeldInv, HookInv, HookOutlived

\* The one entry that runs sr is the entry a budget is taken from.
LEMMA BudgetOfEntry ==
  ASSUME settings \notin {NoSettings, BadFile}, Tidy(settings), NEW i \in DOMAIN settings, IsSr(settings[i])
  PROVE  /\ settings[i].timeout \in Timeouts
         /\ Budget(settings, settings[i].command) = (settings[i].timeout - HOOK_STARTUP_RESERVE_SECS) * TICKS
<1>3. OneSr(settings) /\ settings \in Seq(HookEntries) /\ Parsed(settings) = settings
  BY DEF Tidy, OneSr, Parsed
<1> DEFINE Same == {k \in 1..Len(settings) : settings[k].command = settings[i].command}
<1>4. Same = {i}
  <2>1. DOMAIN settings = 1..Len(settings)
    BY <1>3
  <2>2. i \in Same
    BY <2>1
  <2>3. \A k \in Same : IsSr(settings[k])
    BY DEF IsSr
  <2>4. \A k \in Same : k = i
    BY <1>3, <2>1, <2>3 DEF OneSr
  <2> HIDE DEF Same
  <2>5. QED
    BY <2>2, <2>4
<1>5. Min({i}) = i
  BY DEF Min
<1>6. SelectInSeq(settings, LAMBDA e : e.command = settings[i].command) = i
  <2>1. SelectInSeq(settings, LAMBDA e : e.command = settings[i].command) = IF Same # {} THEN Min(Same) ELSE 0
    BY DEF SelectInSeq
  <2> HIDE DEF Same
  <2>2. QED
    BY <1>4, <1>5, <2>1
<1>7. settings[i].timeout \in Timeouts /\ i # 0
  BY <1>3 DEF OneSr
<1>8. QED
  BY <1>3, <1>6, <1>7, TimeoutAssumption DEF Budget

\* What a hook reads of its own entry leaves it the reserve.
LEMMA ClampHookKeeps ==
  ASSUME InstallerInv, ClampHook
  PROVE  InstallerInv'
<1> DEFINE b == Budget(settings, hook.command)
<1>1. /\ hook # NoHook /\ hook.pc = "started" /\ hook.command # Foreign
      /\ hook' = [pc |-> "clamped", outer |-> hook.outer, kept |-> EntryKept,
                  inner |-> IF deadline > b THEN b ELSE deadline]
      /\ UNCHANGED <<settings, saved, held, inst, deadline, overtaken>>
  BY DEF ClampHook, InstallerInv, HookInv
<1>2. HookOutlived'
  <2> SUFFICES ASSUME EntryKept
               PROVE  hook'.inner + HOOK_STARTUP_RESERVE_SECS * TICKS <= hook'.outer * TICKS
    BY <1>1 DEF HookOutlived
  <2>1. PICK e \in ToSet(IF settings = BadFile THEN <<>> ELSE Parsed(settings)) :
          e.command = hook.command /\ e.timeout = hook.outer
    BY DEF EntryKept
  <2>2. settings \notin {NoSettings, BadFile} /\ e \in ToSet(settings)
    BY <2>1 DEF Parsed, ToSet
  <2>3. PICK i \in DOMAIN settings : settings[i] = e
    BY <2>2 DEF ToSet
  <2>4. IsSr(settings[i]) /\ Tidy(settings)
    BY <1>1, <2>1, <2>3 DEF IsSr, InstallerInv, HookInv
  <2> DEFINE secs == hook.outer - HOOK_STARTUP_RESERVE_SECS
  <2>5. hook.outer \in Timeouts /\ b = secs * TICKS
    BY <2>1, <2>2, <2>3, <2>4, BudgetOfEntry
  <2>6. hook'.inner <= secs * TICKS /\ hook'.inner \in Int /\ secs * TICKS \in Int
    <3>1. secs * TICKS \in Int /\ deadline \in Nat
      BY <2>5, Reserved, TimeoutAssumption DEF InstallerInv, HookInv
    <3>2. hook'.inner = IF deadline > secs * TICKS THEN secs * TICKS ELSE deadline
      BY <1>1, <2>5
    <3> HIDE DEF secs
    <3>3. QED
      BY <3>1, <3>2
  <2>7. secs * TICKS + HOOK_STARTUP_RESERVE_SECS * TICKS = hook.outer * TICKS
    BY <2>5, Reserved, TimeoutAssumption
  <2>8. HOOK_STARTUP_RESERVE_SECS * TICKS \in Int
    BY TimeoutAssumption
  <2>9. \A x, y, z \in Int : x <= y => x + z <= y + z
    OBVIOUS
  <2>10. hook'.inner + HOOK_STARTUP_RESERVE_SECS * TICKS <= secs * TICKS + HOOK_STARTUP_RESERVE_SECS * TICKS
    <3> HIDE DEF secs
    <3>1. QED
      BY <2>6, <2>8, <2>9
  <2>11. QED
    BY <1>1, <2>7, <2>10
<1>3. QED
  BY <1>1, <1>2 DEF InstallerInv, RequestInv, Classified, HeldInv, HookInv

\* The invariant holds from the start.
LEMMA InstallerStarts ==
  ASSUME InstallerInit
  PROVE  InstallerInv
<1>1. Tidy(settings)
  <2>1. OneSr(<<>>)
    BY DEF OneSr
  <2>2. [command |-> Foreign, timeout |-> 1, plain |-> TRUE] \in HookEntries
    BY DEF HookEntries
  <2>3. OneSr(<<[command |-> Foreign, timeout |-> 1, plain |-> TRUE]>>)
    BY <2>2 DEF OneSr, IsSr
  <2>4. QED
    BY <2>1, <2>3 DEF InstallerInit, Tidy
<1>2. \A p \in Installers : inst[p] = Waiting
  BY DEF InstallerInit
<1>3. QED
  BY <1>1, <1>2, TimeoutAssumption DEF InstallerInit, InstallerInv, RequestInv, Classified, HeldInv, HookInv, HookOutlived, Waiting

LEMMA InstallerSteps ==
  ASSUME InstallerInv, InstallerNext
  PROVE  InstallerInv'
<1>1. ASSUME NEW p \in Installers, Killed(p)
      PROVE  InstallerInv'
  BY <1>1, StopsKeeps DEF Killed
<1>2. QED
  BY <1>1, PrepareKeeps, TakeLockKeeps, CompareKeeps, PublishKeeps, UserEditKeeps, RetimeKeeps, StartHookKeeps, ClampHookKeeps
  DEF InstallerNext

LEMMA InstallerStutters ==
  ASSUME InstallerInv, UNCHANGED installerVars
  PROVE  InstallerInv'
BY DEF InstallerInv, RequestInv, Classified, HeldInv, HookInv, HookOutlived, installerVars

\* Only a publication ends a command as "applied".
LEMMA OnlyTheirEntry ==
  ASSUME InstallerInv, InstallerNext
  PROVE  OnlyTheManagedEntry
<1> SUFFICES ASSUME NEW p \in Installers, inst[p].pc = "compared", inst'[p].pc = "done",
                    inst'[p].outcome = "applied", p \notin overtaken
             PROVE  settings' = Edited(settings, inst[p].request) /\ settings \in saved
  BY DEF OnlyTheManagedEntry
<1>1. ~UserEdit /\ ~Retime /\ ~StartHook /\ ~ClampHook
  BY DEF UserEdit, Retime, StartHook, ClampHook
<1>2. PICK q \in Installers : Prepare(q) \/ TakeLock(q) \/ Compare(q) \/ PublishSettings(q) \/ Killed(q)
  BY <1>1 DEF InstallerNext
<1>3. \E entry : inst' = [inst EXCEPT ![q] = entry]
  <2>1. \A outcome : Stops(q, outcome) \/ Ends(q, outcome) => \E entry : inst' = [inst EXCEPT ![q] = entry]
    BY DEF Stops, Ends
  <2>2. Prepare(q) => \E entry : inst' = [inst EXCEPT ![q] = entry]
    BY <2>1 DEF Prepare
  <2>3. TakeLock(q) => \E entry : inst' = [inst EXCEPT ![q] = entry]
    BY <2>1 DEF TakeLock
  <2>4. Compare(q) => \E entry : inst' = [inst EXCEPT ![q] = entry]
    BY <2>1 DEF Compare
  <2>5. PublishSettings(q) \/ Killed(q) => \E outcome : Stops(q, outcome) \/ Ends(q, outcome)
    BY DEF PublishSettings, Killed
  <2>6. QED
    BY <1>2, <2>1, <2>2, <2>3, <2>4, <2>5
<1>4. q = p
  BY <1>3 DEF InstallerInv, RequestInv
<1>5. ~Killed(p)
  BY DEF Killed, Stops, Ends, InstallerInv, RequestInv
<1>6. PublishSettings(p)
  BY <1>2, <1>4, <1>5 DEF Prepare, TakeLock, Compare
<1>7. settings = inst[p].base /\ inst[p].base \in saved
  BY DEF InstallerInv, RequestInv
<1>8. QED
  BY <1>6, <1>7 DEF PublishSettings

-----------------------------------------------------------------------------
(* The managed policy                                                      *)

\* The record a command wrote keeps what the configuration it read had.
Owns(c, revision, base) == \A v \in revisions : v.id = revision /\ v.by = c => v.previous = Parse(base)

\* A rollback writes what its record keeps over the policy the record installed.
Undoing(k) ==
  /\ "record" \in DOMAIN k
  /\ k.to = k.record.previous /\ k.revision = k.record.id /\ Digest(Parse(k.base)) = k.record.expected

Known(c, k) ==
  /\ k.pc \in {"idle", "done", "promote", "record", "priors", "compare", "write", "restore"}
  /\ k.pc \in {"record", "priors"} => {"pc", "report", "base"} \subseteq DOMAIN k
  /\ k.pc = "priors" => Owns(c, k.report.revision, k.base)
  /\ k.pc \in {"compare", "write"} =>
       /\ {"pc", "base", "to", "revision", "then", "seen"} \subseteq DOMAIN k
       /\ \/ k.then = "applied" /\ Owns(c, k.revision, k.base)
          \/ k.then = "restore" /\ Undoing(k)
  /\ k.pc = "write" => k.seen = k.base

\* Revisions are unique, and what one really replaced is what its record keeps.
RevisionInv ==
  /\ \A v, x \in revisions : v.id = x.id => v = x
  /\ \A b \in replacedBy, v \in revisions : v.id = b[1] => v.previous = b[2]
LearningInv ==
  /\ cal = [c \in Calibrators |-> cal[c]]
  /\ \A c \in Calibrators : Known(c, cal[c])
  /\ RevisionInv

\* A step of one command that leaves the records alone.
LEMMA CalKeeps ==
  ASSUME LearningInv, NEW c \in Calibrators, NEW entry, cal' = [cal EXCEPT ![c] = entry],
         Known(c, entry), UNCHANGED <<revisions, replacedBy>>
  PROVE  LearningInv'
<1>1. cal'[c] = entry /\ \A d \in Calibrators \ {c} : cal'[d] = cal[d]
  BY DEF LearningInv
<1>2. cal' = [d \in Calibrators |-> cal'[d]]
  BY DEF LearningInv
<1>3. \A d \in Calibrators : Known(d, cal'[d])
  BY <1>1 DEF LearningInv
<1>4. (\A d \in Calibrators : Known(d, cal[d]))'
  BY <1>3 DEF Known, Owns, Undoing
<1>5. RevisionInv'
  BY DEF LearningInv, RevisionInv
<1>6. QED
  BY <1>2, <1>4, <1>5 DEF LearningInv

LEMMA OverKeeps ==
  ASSUME LearningInv, NEW c \in Calibrators, NEW outcome, Over(c, outcome), UNCHANGED <<revisions, replacedBy>>
  PROVE  LearningInv'
<1> DEFINE entry == [pc |-> "done", outcome |-> outcome]
<1>1. Known(c, entry)
  BY DEF Known
<1>2. QED
  BY <1>1, CalKeeps DEF Over

\* One action after the other.
LEMMA EvaluateKeeps ==
  ASSUME LearningInv, NEW c \in Calibrators, Evaluate(c)
  PROVE  LearningInv'
<1>1. UNCHANGED <<revisions, replacedBy>>
  BY DEF Evaluate
<1>2. \/ \E told : cal' = [cal EXCEPT ![c] = [pc |-> "promote", report |-> told]]
      \/ \E outcome : Over(c, outcome)
  BY DEF Evaluate
<1>3. ASSUME NEW told, cal' = [cal EXCEPT ![c] = [pc |-> "promote", report |-> told]]
      PROVE  LearningInv'
  <2> DEFINE entry == [pc |-> "promote", report |-> told]
  <2>1. Known(c, entry)
    BY DEF Known
  <2>2. QED
    BY <1>1, <1>3, <2>1, CalKeeps
<1>4. QED
  BY <1>1, <1>2, <1>3, OverKeeps

LEMMA PromoteKeeps ==
  ASSUME LearningInv, NEW c \in Calibrators, Promote(c)
  PROVE  LearningInv'
<1> DEFINE entry == [pc |-> "record", report |-> cal[c].report, base |-> config, held |-> ActivePriors]
<1>1. Known(c, entry)
  BY DEF Known
<1>2. UNCHANGED <<revisions, replacedBy>> /\ (Over(c, "blocked") \/ cal' = [cal EXCEPT ![c] = entry])
  BY DEF Promote, KeepFiles
<1> HIDE DEF entry
<1>3. QED
  BY <1>1, <1>2, CalKeeps, OverKeeps

LEMMA RecordKeeps ==
  ASSUME LearningInv, NEW c \in Calibrators, RecordRevision(c)
  PROVE  LearningInv'
<1> DEFINE r == cal[c].report
           record == [id |-> r.revision, previous |-> Parse(cal[c].base), applied |-> r.selected,
                      expected |-> Digest(r.selected), held |-> cal[c].held, by |-> c]
           entry == [cal[c] EXCEPT !.pc = "priors"]
<1>1. /\ cal[c].pc = "record" /\ revisions' = {v \in revisions : v.id # r.revision} \cup {record}
      /\ cal' = [cal EXCEPT ![c] = entry] /\ replacedBy' = Without(r.revision)
  BY DEF RecordRevision
<1>2. {"pc", "report", "base"} \subseteq DOMAIN cal[c]
  BY <1>1 DEF LearningInv, Known
<1>3. /\ entry.pc = "priors" /\ entry.report = r /\ entry.base = cal[c].base
      /\ {"pc", "report", "base"} \subseteq DOMAIN entry
  BY <1>2
<1>4. record.id = r.revision /\ record.by = c /\ record.previous = Parse(cal[c].base)
  OBVIOUS
<1> HIDE DEF record, entry
<1>5. cal'[c] = entry /\ \A d \in Calibrators \ {c} : cal'[d] = cal[d]
  BY <1>1 DEF LearningInv
<1>6. \A d \in Calibrators \ {c} : \A id, base : Owns(d, id, base) => Owns(d, id, base)'
  BY <1>1, <1>4 DEF Owns, Parse
<1>7. Owns(c, r.revision, cal[c].base)'
  <2>1. \A v \in revisions' : v.id = r.revision => v = record
    BY <1>1
  <2>2. \A v \in revisions' : v.id = cal'[c].report.revision /\ v.by = c => v.previous = Parse(cal'[c].base)
    BY <1>3, <1>4, <1>5, <2>1
  <2>3. QED
    BY <1>3, <1>5, <2>2 DEF Owns, Parse
<1>8. Known(c, cal[c])'
  BY <1>3, <1>5, <1>7 DEF Known, Owns
<1>9. \A d \in Calibrators \ {c} : Known(d, cal[d])'
  BY <1>5, <1>6 DEF LearningInv, Known, Undoing
<1>10. RevisionInv'
  BY <1>1, <1>4 DEF LearningInv, RevisionInv, Without
<1>11. cal' = [d \in Calibrators |-> cal'[d]]
  BY <1>1 DEF LearningInv
<1>12. QED
  BY <1>8, <1>9, <1>10, <1>11 DEF LearningInv

LEMMA SavePriorsKeeps ==
  ASSUME LearningInv, NEW c \in Calibrators, SavePriors(c)
  PROVE  LearningInv'
<1> DEFINE entry == [pc |-> "compare", base |-> cal[c].base, to |-> cal[c].report.selected,
                     revision |-> cal[c].report.revision, then |-> "applied", seen |-> NoFile]
<1>1. cal[c].pc = "priors" /\ cal' = [cal EXCEPT ![c] = entry] /\ UNCHANGED <<revisions, replacedBy>>
  BY DEF SavePriors
<1>2. Known(c, cal[c])
  BY DEF LearningInv
<1>3. Owns(c, entry.revision, entry.base) /\ entry.then = "applied" /\ entry.pc = "compare"
  BY <1>1, <1>2 DEF Known
<1>4. {"pc", "base", "to", "revision", "then", "seen"} \subseteq DOMAIN entry
  OBVIOUS
<1> HIDE DEF entry
<1>5. Known(c, entry)
  BY <1>3, <1>4 DEF Known
<1>6. QED
  BY <1>1, <1>5, CalKeeps

LEMMA CompareConfigKeeps ==
  ASSUME LearningInv, NEW c \in Calibrators, CompareConfig(c)
  PROVE  LearningInv'
<1> DEFINE entry == [cal[c] EXCEPT !.pc = "write", !.seen = config]
<1>1. cal[c].pc = "compare" /\ UNCHANGED <<revisions, replacedBy>>
  BY DEF CompareConfig, KeepFiles
<1>2. CASE ~UnchangedBase(c)
  BY <1>1, <1>2, OverKeeps DEF CompareConfig
<1>3. CASE UnchangedBase(c)
  <2>1. config = cal[c].base /\ cal' = [cal EXCEPT ![c] = entry]
    BY <1>3 DEF CompareConfig, UnchangedBase
  <2>2. Known(c, cal[c])
    BY DEF LearningInv
  <2>3. {"pc", "base", "to", "revision", "then", "seen"} \subseteq DOMAIN cal[c] /\ DOMAIN entry = DOMAIN cal[c]
    BY <1>1, <2>2 DEF Known
  <2>4. /\ entry.pc = "write" /\ entry.seen = config /\ entry.base = cal[c].base /\ entry.to = cal[c].to
        /\ entry.revision = cal[c].revision /\ entry.then = cal[c].then
        /\ "record" \in DOMAIN cal[c] => entry.record = cal[c].record
    BY <2>3
  <2> HIDE DEF entry
  <2>5. Known(c, entry)
    BY <1>1, <2>1, <2>2, <2>3, <2>4 DEF Known, Undoing
  <2>6. QED
    BY <1>1, <2>1, <2>5, CalKeeps
<1>4. QED
  BY <1>2, <1>3

LEMMA WriteKeeps ==
  ASSUME LearningInv, NEW c \in Calibrators, WriteConfig(c)
  PROVE  LearningInv'
<1>1. cal[c].pc = "write" /\ Known(c, cal[c]) /\ UNCHANGED revisions
  BY DEF WriteConfig, LearningInv
<1>2. CASE cal[c].then = "applied"
  <2>1. /\ Over(c, "applied")
        /\ replacedBy' = IF config = cal[c].seen /\ WroteRecord(c) THEN replacedBy \cup {<<cal[c].revision, Parse(config)>>}
                         ELSE Without(cal[c].revision)
    BY <1>2 DEF WriteConfig
  <2>2. \A v \in revisions : config = cal[c].seen /\ WroteRecord(c) /\ v.id = cal[c].revision => v.previous = Parse(config)
    BY <1>1, <1>2 DEF LearningInv, RevisionInv, Known, Owns, WroteRecord
  <2>3. RevisionInv'
    <3>1. \A b \in replacedBy', v \in revisions : v.id = b[1] => v.previous = b[2]
      <4>1. \A x, y : <<x, y>>[1] = x /\ <<x, y>>[2] = y
        OBVIOUS
      <4>2. QED
        BY <2>1, <2>2, <4>1 DEF LearningInv, RevisionInv, Without
    <3>2. QED
      BY <1>1, <3>1 DEF LearningInv, RevisionInv
  <2>4. cal'[c] = [pc |-> "done", outcome |-> "applied"] /\ \A d \in Calibrators \ {c} : cal'[d] = cal[d]
    BY <2>1 DEF Over, LearningInv
  <2>5. cal' = [d \in Calibrators |-> cal'[d]]
    BY <2>1 DEF Over, LearningInv
  <2>6. \A d \in Calibrators : Known(d, cal[d])'
    BY <1>1, <2>4 DEF LearningInv, Known, Owns, Undoing
  <2>7. QED
    BY <2>3, <2>5, <2>6 DEF LearningInv
<1>3. CASE cal[c].then # "applied"
  <2> DEFINE entry == [cal[c] EXCEPT !.pc = "restore"]
  <2>1. cal' = [cal EXCEPT ![c] = entry] /\ UNCHANGED replacedBy
    BY <1>3 DEF WriteConfig
  <2>2. entry.pc = "restore"
    BY <1>1 DEF Known
  <2> HIDE DEF entry
  <2>3. Known(c, entry)
    BY <2>2 DEF Known
  <2>4. QED
    BY <1>1, <2>1, <2>3, CalKeeps
<1>4. QED
  BY <1>2, <1>3

LEMMA RollbackKeeps ==
  ASSUME LearningInv, NEW c \in Calibrators, Rollback(c)
  PROVE  LearningInv'
<1>1. UNCHANGED <<revisions, replacedBy>>
  BY DEF Rollback
<1>2. PICK v \in revisions, apply \in BOOLEAN :
        CASE ~Matches(v) -> Over(c, "conflict")
          [] Matches(v) /\ ~apply -> Over(c, "rollback-preview")
          [] OTHER -> cal' = [cal EXCEPT ![c] = [pc |-> "compare", base |-> config, to |-> v.previous,
                                                 revision |-> v.id, then |-> "restore", seen |-> NoFile, held |-> v.held, record |-> v]]
  BY DEF Rollback
<1>3. CASE ~Matches(v) \/ ~apply
  BY <1>1, <1>2, <1>3, OverKeeps
<1>4. CASE Matches(v) /\ apply
  <2> DEFINE entry == [pc |-> "compare", base |-> config, to |-> v.previous,
                       revision |-> v.id, then |-> "restore", seen |-> NoFile, held |-> v.held, record |-> v]
  <2>1. Known(c, entry)
    BY <1>4 DEF Known, Undoing, Matches
  <2>2. cal' = [cal EXCEPT ![c] = entry]
    BY <1>2, <1>4
  <2>3. QED
    BY <1>1, <2>1, <2>2, CalKeeps
<1>5. QED
  BY <1>3, <1>4

\* The invariant holds from the start.
LEMMA LearningStarts ==
  ASSUME LearningInit
  PROVE  LearningInv
BY DEF LearningInit, LearningInv, Known, RevisionInv, Quiet

LEMMA LearningStutters ==
  ASSUME LearningInv, UNCHANGED <<cal, revisions, replacedBy>>
  PROVE  LearningInv'
BY DEF LearningInv, Known, Owns, Undoing, RevisionInv

LEMMA LearningSteps ==
  ASSUME LearningInv, LearningNext
  PROVE  LearningInv'
<1>1. ASSUME NEW c \in Calibrators, RestorePriors(c) \/ Abort(c) \/ RunMonitor(c)
      PROVE  LearningInv'
  <2>1. UNCHANGED <<revisions, replacedBy>>
    BY <1>1 DEF RestorePriors, Abort, RunMonitor, KeepFiles
  <2>2. \E outcome : Over(c, outcome)
    BY <1>1 DEF RestorePriors, Abort, RunMonitor
  <2>3. QED
    BY <2>1, <2>2, OverKeeps
<1>2. CASE HandEdit
  BY <1>2, LearningStutters DEF HandEdit
<1>3. QED
  BY <1>1, <1>2, EvaluateKeeps, PromoteKeeps, RecordKeeps, SavePriorsKeeps, CompareConfigKeeps, WriteKeeps,
     RollbackKeeps DEF LearningNext

\* A rollback writes what its record keeps.
LEMMA RollbacksUndo ==
  ASSUME LearningInv
  PROVE  RollbackUndoes
<1> SUFFICES ASSUME NEW c \in Calibrators, WriteConfig(c), cal[c].then = "restore", config = cal[c].seen,
                    cal[c].record \in revisions, NEW b \in replacedBy, b[1] = cal[c].revision
             PROVE  Digest(Parse(config)) = cal[c].record.expected /\ config'.policy = b[2]
  BY DEF RollbackUndoes
<1>1. cal[c].pc = "write" /\ config' = [policy |-> cal[c].to, rest |-> Sections(cal[c].base)]
  BY DEF WriteConfig
<1>2. Undoing(cal[c]) /\ cal[c].seen = cal[c].base
  BY <1>1 DEF LearningInv, Known
<1>3. QED
  BY <1>1, <1>2 DEF LearningInv, RevisionInv, Undoing

-----------------------------------------------------------------------------
(* The live batch                                                          *)

\* A case that may be sent: judged, by skills of the roster.
Judgable(k) == Judgment(labels, k.case) # NoJudgment /\ ~OffRoster(Judgment(labels, k.case))
PreviewedArms == {"main"} \cup RosterArms \cup WireArms
Previewed(k) == <<k, "main">> \in DOMAIN previews

\* The budget: what was charged covers what was made, and stays within the limit.
BudgetInv ==
  /\ options \in Options
  /\ attempts \in Nat /\ spent \in Nat
  /\ spent <= attempts /\ attempts <= options.maxRequests

\* What each loop has left: cases that may be sent, then cases with a preview.
TodoInv ==
  /\ phase \in {"start", "preview"} => sends = {}
  /\ phase = "start" => previews = <<>> /\ executed = <<>> /\ ablations.queue = {}
  /\ phase = "preview" => executed = <<>> /\ ablations.queue = {}
  /\ phase = "preview" => \A t \in todo : t = <<t[1], t[2]>> /\ Judgable(t[1]) /\ t[2] \in PreviewedArms
  /\ phase = "main" => \A t \in todo : Previewed(t[1])
  /\ phase = "latest" => \A t \in todo : Previewed(t[1])
  /\ phase = "variants" => \A t \in todo : Previewed(t[1])
  /\ phase # "done" => \A i \in DOMAIN executed : Previewed(executed[i].case)
  /\ "queue" \in DOMAIN ablations /\ \A t \in ablations.queue : Previewed(t[1])
  /\ phase # "done" => executed \in Seq({executed[i] : i \in DOMAIN executed})

\* A preview is of a case that may be sent, in its full context.
PreviewInv ==
  \A n \in DOMAIN previews :
    n = <<n[1], n[2]>> /\ Judgable(n[1]) /\ n[2] \in PreviewedArms /\ previews[n].context = "full"

LiveInv == BudgetInv /\ TodoInv /\ PreviewInv /\ SentAsPreviewed

\* What an arm may end as.
LEMMA OutcomesAre ==
  ASSUME NEW k, NEW arm, NEW o \in RankOutcomes(k, arm)
  PROVE  \/ o = RefusedOutcome
         \/ \E d, s, e, kind : \E n \in 0..ATTEMPTS_PER_CASE, unknown \in BOOLEAN :
              /\ o = Outcome(d, s, e, n, unknown, kind)
              /\ n # 0 => /\ Request(k, arm) # NoRequest /\ ~RosterMoved
                          /\ ~Unpreviewed(Binding(k, arm), Request(k, arm))
<1> DEFINE early == {Outcome("unavailable", <<>>, Missing, 0, FALSE, "timeout")}
           local == {Outcome(a.decision, a.skills, a.evidence, 0, FALSE, "none") : a \in LocalAnswers}
           Answered(a, n) == Outcome(a.decision, a.skills, a.evidence, n, FALSE, a.kind)
           answered == {Answered(a, n) : a \in Answers, n \in 1..ATTEMPTS_PER_CASE}
           bare == {Outcome("unavailable", <<>>, Missing, n, TRUE, "timeout") : n \in 0..ATTEMPTS_PER_CASE}
           Sent == /\ Request(k, arm) # NoRequest /\ ~RosterMoved
                   /\ ~Unpreviewed(Binding(k, arm), Request(k, arm))
           Ended(n) == \E d, s, e, kind : \E unknown \in BOOLEAN : o = Outcome(d, s, e, n, unknown, kind)
<1>1. o = RefusedOutcome \/ o \in early \/ o \in local \/ (Sent /\ (o \in answered \/ o \in bare))
  <2>1. RankOutcomes(k, arm) =
              IF RosterMoved THEN {RefusedOutcome}
              ELSE IF Request(k, arm) = NoRequest THEN early \cup local
              ELSE IF Unpreviewed(Binding(k, arm), Request(k, arm)) THEN {RefusedOutcome}
              ELSE early \cup answered \cup bare
    BY DEF RankOutcomes
  <2> HIDE DEF early, local, answered, bare
  <2>2. QED
    BY <2>1
<1>2. 0 \in 0..ATTEMPTS_PER_CASE /\ 1..ATTEMPTS_PER_CASE \subseteq 0..ATTEMPTS_PER_CASE
  BY BudgetAssumption
<1>3. o \in early \/ o \in local => Ended(0)
  <2>1. CASE o \in early
    <3>1. o = Outcome("unavailable", <<>>, Missing, 0, FALSE, "timeout")
      BY <2>1
    <3>2. QED
      BY <3>1
  <2>2. CASE o \in local
    <3>1. PICK a \in LocalAnswers : o = Outcome(a.decision, a.skills, a.evidence, 0, FALSE, "none")
      BY <2>2
    <3>2. QED
      BY <3>1
  <2>3. QED
    BY <2>1, <2>2
<1>4. o \in answered \/ o \in bare => \E n \in 0..ATTEMPTS_PER_CASE : Ended(n)
  <2>1. CASE o \in answered
    <3> HIDE DEF Answered
    <3>1. PICK a \in Answers, n \in 1..ATTEMPTS_PER_CASE : o = Answered(a, n)
      BY <2>1, BudgetAssumption
    <3> USE DEF Answered
    <3>2. Ended(n)
      BY <3>1
    <3>3. QED
      BY <1>2, <3>2
  <2>2. CASE o \in bare
    <3>1. PICK n \in 0..ATTEMPTS_PER_CASE : o = Outcome("unavailable", <<>>, Missing, n, TRUE, "timeout")
      BY <2>2
    <3>2. Ended(n)
      BY <3>1
    <3>3. QED
      BY <3>2
  <2> HIDE DEF early, local, answered, bare
  <2>3. QED
    BY <2>1, <2>2
<1> HIDE DEF early, local, answered, bare
<1>5. CASE o = RefusedOutcome
  BY <1>5
<1>6. CASE Ended(0)
  BY <1>2, <1>6
<1>7. CASE Sent /\ \E n \in 0..ATTEMPTS_PER_CASE : Ended(n)
  BY <1>7
<1>8. QED
  BY <1>1, <1>3, <1>4, <1>5, <1>6, <1>7

\* An attempt is charged at least once.
LEMMA ChargesCover ==
  ASSUME NEW k, NEW arm, NEW o \in RankOutcomes(k, arm)
  PROVE  /\ o.sent \in 0..ATTEMPTS_PER_CASE
         /\ ChargedAttempts(o) \in 0..ATTEMPTS_PER_CASE /\ o.sent <= ChargedAttempts(o)
<1>1. CASE o = RefusedOutcome
  BY <1>1, BudgetAssumption DEF RefusedOutcome, Outcome, ChargedAttempts, Larger
<1>2. ASSUME NEW d, NEW s, NEW e, NEW kind, NEW n \in 0..ATTEMPTS_PER_CASE, NEW unknown \in BOOLEAN,
             o = Outcome(d, s, e, n, unknown, kind)
      PROVE  /\ o.sent \in 0..ATTEMPTS_PER_CASE
             /\ ChargedAttempts(o) \in 0..ATTEMPTS_PER_CASE /\ o.sent <= ChargedAttempts(o)
  BY <1>2, BudgetAssumption DEF Outcome, ChargedAttempts, Larger
<1>3. QED
  BY <1>1, <1>2, OutcomesAre

\* What is sent was asked for, from the frozen roster, and is what its preview bound.
LEMMA SendsAreBound ==
  ASSUME NEW k, NEW arm, NEW o \in RankOutcomes(k, arm), o.sent # 0
  PROVE  /\ Request(k, arm) # NoRequest /\ ~RosterMoved
         /\ ~Unpreviewed(Binding(k, arm), Request(k, arm))
<1>1. o # RefusedOutcome
  BY DEF RefusedOutcome, Outcome
<1>2. \A d, s, e, n, unknown, kind : Outcome(d, s, e, n, unknown, kind).sent = n
  BY DEF Outcome
<1>3. QED
  BY <1>1, <1>2, OutcomesAre

\* Ranking one arm of a previewed case, under a budget that has room.
LEMMA ChargeKeeps ==
  ASSUME LiveInv, phase \notin {"start", "preview"}, Stop = "no", NEW k, NEW arm, Previewed(k),
         arm \in PreviewedArms => <<k, arm>> \in DOMAIN previews,
         NEW o \in RankOutcomes(k, arm), Charge(k, arm, o),
         UNCHANGED <<options, labels, previews, digest>>
  PROVE  BudgetInv' /\ SentAsPreviewed'
<1>1. BudgetInv'
  <2>1. attempts + ATTEMPTS_PER_CASE <= options.maxRequests /\ options.maxRequests \in Nat
    BY BudgetAssumption DEF LiveInv, BudgetInv, Stop, OverBudget
  <2>2. /\ o.sent \in 0..ATTEMPTS_PER_CASE
        /\ ChargedAttempts(o) \in 0..ATTEMPTS_PER_CASE /\ o.sent <= ChargedAttempts(o)
    BY ChargesCover
  <2>3. attempts' = attempts + ChargedAttempts(o) /\ spent' = spent + o.sent
    BY DEF Charge
  <2>4. QED
    BY <2>1, <2>2, <2>3, BudgetAssumption DEF LiveInv, BudgetInv
<1>2. SentAsPreviewed'
  <2> DEFINE s == [case |-> k, arm |-> arm, request |-> Request(k, arm)]
             name == <<k, VariantOf(arm)>>
  <2>1. sends' = sends \/ (o.sent # 0 /\ sends' = sends \cup {s})
    BY DEF Charge
  <2>2. SentAsPreviewed
    BY DEF LiveInv
  <2>3. CASE sends' = sends
    BY <2>2, <2>3 DEF SentAsPreviewed, OffRoster
  <2>4. CASE o.sent # 0 /\ sends' = sends \cup {s}
    <3>1. Request(k, arm) # NoRequest /\ ~RosterMoved /\ ~Unpreviewed(Binding(k, arm), Request(k, arm))
      BY <2>4, SendsAreBound
    <3>2. s.case = k /\ s.arm = arm /\ s.request = Request(k, arm)
      OBVIOUS
    <3>3. Judgable(k)
      BY DEF LiveInv, PreviewInv, Previewed
    <3>4. digest # Missing => Request(k, arm).world.roster = digest
      BY <3>1 DEF RosterMoved, Request
    <3>5. ContextOf(arm) = "full" => name \in DOMAIN previews /\ previews[name].request = Request(k, arm)
      <4>1. SUFFICES ASSUME ContextOf(arm) = "full" PROVE name \in DOMAIN previews /\ previews[name].request = Request(k, arm)
        OBVIOUS
      <4>2. name \in DOMAIN previews
        BY DEF VariantOf, PreviewedArms, Previewed
      <4>3. previews[name].context = "full"
        BY <4>2 DEF LiveInv, PreviewInv
      <4>4. Binding(k, arm) = previews[name]
        BY <4>1, <4>2, <4>3 DEF Binding
      <4>5. QED
        BY <3>1, <4>2, <4>3, <4>4 DEF Unpreviewed
    <3> HIDE DEF s
    <3>6. QED
      BY <2>2, <2>4, <3>2, <3>3, <3>4, <3>5 DEF SentAsPreviewed, OffRoster, Judgable, Previewed
  <2>5. QED
    BY <2>1, <2>3, <2>4
<1>3. QED
  BY <1>1, <1>2

LEMMA LiveStarts ==
  ASSUME LiveInit
  PROVE  LiveInv
<1>1. DOMAIN previews = {} /\ sends = {} /\ ablations.queue = {} /\ phase = "start" /\ executed = <<>>
  BY DEF LiveInit
<1>2. BudgetInv
  BY BudgetAssumption DEF LiveInit, BudgetInv
<1>3. TodoInv
  BY <1>1 DEF LiveInit, TodoInv
<1>4. PreviewInv /\ SentAsPreviewed
  BY <1>1 DEF PreviewInv, SentAsPreviewed
<1>5. QED
  BY <1>2, <1>3, <1>4 DEF LiveInv

\* A step that neither charges, nor binds, nor schedules.
LEMMA LiveRests ==
  ASSUME LiveInv, UNCHANGED <<phase, options, labels, digest, todo, previews, executed, ablations, attempts, spent, sends>>
  PROVE  LiveInv'
<1>1. BudgetInv'
  BY DEF LiveInv, BudgetInv
<1>2. TodoInv'
  BY DEF LiveInv, TodoInv, Judgable, PreviewedArms, Previewed, OffRoster
<1>3. PreviewInv'
  BY DEF LiveInv, PreviewInv, Judgable, PreviewedArms, OffRoster
<1>4. SentAsPreviewed'
  BY DEF LiveInv, SentAsPreviewed, OffRoster
<1>5. QED
  BY <1>1, <1>2, <1>3, <1>4 DEF LiveInv

\* What stays when nothing is charged or bound.
LEMMA LiveKeeps ==
  ASSUME LiveInv, UNCHANGED <<options, labels, digest, previews, attempts, spent, sends>>
  PROVE  BudgetInv' /\ PreviewInv' /\ SentAsPreviewed'
<1>1. BudgetInv'
  BY DEF LiveInv, BudgetInv
<1>2. PreviewInv'
  BY DEF LiveInv, PreviewInv, Judgable, PreviewedArms, OffRoster
<1>3. SentAsPreviewed'
  BY DEF LiveInv, SentAsPreviewed, OffRoster
<1>4. QED
  BY <1>1, <1>2, <1>3

LEMMA RefuseRunKeeps ==
  ASSUME LiveInv, RefuseRun
  PROVE  LiveInv'
<1>1. BudgetInv' /\ PreviewInv' /\ SentAsPreviewed'
  BY LiveKeeps DEF RefuseRun
<1>2. TodoInv'
  <2>1. executed' = <<>> /\ ablations'.queue = {} /\ "queue" \in DOMAIN ablations' /\ phase' = "refused"
    BY DEF RefuseRun, LiveInv, TodoInv
  <2>2. QED
    BY <2>1 DEF TodoInv
<1>3. QED
  BY <1>1, <1>2 DEF LiveInv

LEMMA SelectKeeps ==
  ASSUME LiveInv, Select
  PROVE  LiveInv'
<1>1. BudgetInv'
  BY DEF Select, LiveInv, BudgetInv
<1>2. previews' = <<>> /\ sends' = {} /\ executed' = <<>> /\ ablations'.queue = {} /\ "queue" \in DOMAIN ablations'
  BY DEF Select, LiveInv, TodoInv
<1>3. PreviewInv' /\ SentAsPreviewed'
  BY <1>2 DEF PreviewInv, SentAsPreviewed
<1>4. Arms \subseteq PreviewedArms
  BY DEF Arms, Kinds, AllArms, PreviewedArms
<1>5. phase' = "preview" /\ labels' = labels
  BY DEF Select
<1>6. \A t \in todo' : t = <<t[1], t[2]>> /\ Judgable(t[1])' /\ t[2] \in PreviewedArms'
  <2>1. PICK selection \in Selections :
          todo' = {k \in selection.keys : SkipReason(Judgment(labels, k.case)) = "send"} \X Arms
    BY DEF Select
  <2>2. \A k : SkipReason(Judgment(labels, k.case)) = "send" => Judgable(k)
    BY DEF SkipReason, Judgable
  <2>3. \A k : Judgable(k)' = Judgable(k)
    BY <1>5 DEF Judgable, OffRoster
  <2>4. PreviewedArms' = PreviewedArms
    BY DEF PreviewedArms
  <2> HIDE DEF PreviewedArms
  <2>5. QED
    BY <1>4, <2>1, <2>2, <2>3, <2>4
<1>7. TodoInv'
  BY <1>2, <1>5, <1>6 DEF TodoInv
<1>8. QED
  BY <1>1, <1>3, <1>7 DEF LiveInv

LEMMA PreviewKeeps ==
  ASSUME LiveInv, Preview
  PROVE  LiveInv'
<1>1. BudgetInv'
  BY DEF Preview, LiveInv, BudgetInv
<1>2. sends' = {} /\ executed' = <<>> /\ ablations'.queue = {} /\ "queue" \in DOMAIN ablations' /\ phase' = "preview"
  BY DEF Preview, LiveInv, TodoInv
<1>3. SentAsPreviewed'
  BY <1>2 DEF SentAsPreviewed
<1>4. \A k : Judgable(k)' = Judgable(k)
  BY DEF Preview, Judgable, OffRoster
<1>5. PICK t \in todo : \E p \in Previews(t[1], t[2]) :
        /\ previews' = IF p.ok THEN Bound(previews, t, p) ELSE previews
        /\ todo' = IF p.ok \/ t[2] # "main" THEN todo \ {t} ELSE {u \in todo : u[1] # t[1]}
  BY DEF Preview
<1>6. PICK p \in Previews(t[1], t[2]) :
        /\ previews' = IF p.ok THEN Bound(previews, t, p) ELSE previews
        /\ todo' = IF p.ok \/ t[2] # "main" THEN todo \ {t} ELSE {u \in todo : u[1] # t[1]}
  BY <1>5
<1>7. \A u \in todo : u = <<u[1], u[2]>> /\ Judgable(u[1]) /\ u[2] \in PreviewedArms
  BY DEF Preview, LiveInv, TodoInv
<1>8. todo' \subseteq todo
  BY <1>6
<1>9. TodoInv'
  <2>1. PreviewedArms' = PreviewedArms
    BY DEF PreviewedArms
  <2>2. QED
    BY <1>2, <1>4, <1>7, <1>8, <2>1 DEF TodoInv
<1>10. PreviewInv'
  <2>1. \A n \in DOMAIN previews :
          n = <<n[1], n[2]>> /\ Judgable(n[1]) /\ n[2] \in PreviewedArms /\ previews[n].context = "full"
    BY DEF LiveInv, PreviewInv
  <2>2. p.ok => p.context = "full"
    <3>1. p.ok => p.context = ContextOf(t[2])
      BY DEF Previews
    <3>2. ContextOf(t[2]) = "full"
      BY <1>7 DEF ContextOf, PreviewedArms, RosterArms, WireArms, TextArms
    <3>3. QED
      BY <3>1, <3>2
  <2>3. PreviewedArms' = PreviewedArms
    BY DEF PreviewedArms
  <2> HIDE DEF PreviewedArms
  <2>4. \A n \in DOMAIN previews' :
          n = <<n[1], n[2]>> /\ Judgable(n[1]) /\ n[2] \in PreviewedArms /\ previews'[n].context = "full"
    <3>1. CASE p.ok
      <4>1. DOMAIN previews' = DOMAIN previews \cup {t}
        BY <1>6, <3>1 DEF Bound
      <4>2. \A n \in DOMAIN previews' : previews'[n] = IF n \in DOMAIN previews THEN previews[n] ELSE p
        BY <1>6, <3>1 DEF Bound
      <4>3. QED
        BY <1>7, <2>1, <2>2, <3>1, <4>1, <4>2
    <3>2. CASE ~p.ok
      BY <1>6, <2>1, <3>2
    <3>3. QED
      BY <3>1, <3>2
  <2>5. QED
    BY <1>4, <2>3, <2>4 DEF PreviewInv
<1>11. QED
  BY <1>1, <1>3, <1>9, <1>10 DEF LiveInv

LEMMA FreezeKeeps ==
  ASSUME LiveInv, Freeze
  PROVE  LiveInv'
<1>1. BudgetInv' /\ PreviewInv' /\ SentAsPreviewed'
  BY LiveKeeps DEF Freeze
<1>2. TodoInv'
  <2>1. executed' = <<>> /\ ablations'.queue = {} /\ "queue" \in DOMAIN ablations' /\ phase' = "main"
    BY DEF Freeze, LiveInv, TodoInv
  <2>2. \A t \in todo' : Previewed(t[1])'
    BY DEF Freeze, AdmittedKeys, Previewed
  <2>3. QED
    BY <2>1, <2>2 DEF TodoInv
<1>3. QED
  BY <1>1, <1>2 DEF LiveInv

LEMMA LeaveUnfinishedKeeps ==
  ASSUME LiveInv, LeaveUnfinished
  PROVE  LiveInv'
<1>1. BudgetInv' /\ PreviewInv' /\ SentAsPreviewed'
  BY LiveKeeps DEF LeaveUnfinished
<1>2. TodoInv'
  <2>1. todo' \subseteq todo
    BY DEF LeaveUnfinished
  <2>2. QED
    BY <2>1 DEF LeaveUnfinished, LiveInv, TodoInv, Previewed
<1>3. QED
  BY <1>1, <1>2 DEF LiveInv

\* One more ranked case, of a case with a preview.
LEMMA RankedGrows ==
  ASSUME NEW S, NEW s \in Seq(S), NEW r
  PROVE  /\ Append(s, r) \in Seq(S \cup {r})
         /\ DOMAIN Append(s, r) = 1 .. Len(s) + 1 /\ DOMAIN s = 1 .. Len(s)
         /\ \A i \in DOMAIN s : Append(s, r)[i] = s[i]
         /\ Append(s, r)[Len(s) + 1] = r
<1>1. s \in Seq(S \cup {r})
  OBVIOUS
<1>2. QED
  BY <1>1, AppendProperties

LEMMA RankMainKeeps ==
  ASSUME LiveInv, RankMain
  PROVE  LiveInv'
<1>1. phase = "main" /\ phase' = "main" /\ Stop = "no" /\ UNCHANGED <<options, labels, previews, digest>>
  BY DEF RankMain
<1>2. PICK t \in todo :
        /\ \E o \in RankOutcomes(t[1], "main") :
             /\ Charge(t[1], "main", o)
             /\ executed' = IF o.refused THEN executed ELSE Append(executed, Ranked(t[1], o))
             /\ ablations' = ablations \/ ablations' = [ablations EXCEPT !.queue = @ \cup {<<t[1], "latest">>}]
        /\ todo' = todo \ {t}
  BY DEF RankMain
<1>3. PICK o \in RankOutcomes(t[1], "main") :
        /\ Charge(t[1], "main", o)
        /\ executed' = IF o.refused THEN executed ELSE Append(executed, Ranked(t[1], o))
        /\ ablations' = ablations \/ ablations' = [ablations EXCEPT !.queue = @ \cup {<<t[1], "latest">>}]
  BY <1>2
<1>4. Previewed(t[1])
  BY <1>1 DEF LiveInv, TodoInv
<1>5. BudgetInv' /\ SentAsPreviewed'
  BY <1>1, <1>3, <1>4, ChargeKeeps DEF Previewed
<1>6. PreviewInv'
  BY <1>1 DEF LiveInv, PreviewInv, Judgable, PreviewedArms, OffRoster
<1>7. \A k : Previewed(k)' = Previewed(k)
  BY <1>1 DEF Previewed
<1>8. "queue" \in DOMAIN ablations' /\ \A u \in ablations'.queue : Previewed(u[1])
  <2>1. "queue" \in DOMAIN ablations /\ \A u \in ablations.queue : Previewed(u[1])
    BY DEF LiveInv, TodoInv
  <2>2. CASE ablations' = ablations
    BY <2>1, <2>2
  <2>3. CASE ablations' = [ablations EXCEPT !.queue = @ \cup {<<t[1], "latest">>}]
    BY <1>4, <2>1, <2>3
  <2>4. QED
    BY <1>3, <2>2, <2>3
<1>9. /\ \A i \in DOMAIN executed' : Previewed(executed'[i].case)
      /\ executed' \in Seq({executed'[i] : i \in DOMAIN executed'})
  <2> DEFINE S == {executed[i] : i \in DOMAIN executed}
             r == Ranked(t[1], o)
             T == {executed'[i] : i \in DOMAIN executed'}
  <2>1. executed \in Seq(S) /\ \A i \in DOMAIN executed : Previewed(executed[i].case)
    BY <1>1 DEF LiveInv, TodoInv
  <2>2. CASE executed' = executed
    BY <2>1, <2>2
  <2>3. CASE executed' = Append(executed, r)
    <3>1. r.case = t[1]
      BY DEF Ranked
    <3> HIDE DEF r
    <3>2. \A i \in DOMAIN executed : executed[i] \in S
      OBVIOUS
    <3> HIDE DEF S
    <3>3. /\ executed' \in Seq(S \cup {r})
          /\ DOMAIN executed' = 1 .. Len(executed) + 1 /\ DOMAIN executed = 1 .. Len(executed)
          /\ \A i \in DOMAIN executed : executed'[i] = executed[i]
          /\ executed'[Len(executed) + 1] = r
      BY <2>1, <2>3, RankedGrows
    <3>4. Len(executed) \in Nat /\ Len(executed') \in Nat /\ DOMAIN executed' = 1 .. Len(executed')
      BY <2>1, <3>3, LenProperties
    <3>5. \A i \in DOMAIN executed' : Previewed(executed'[i].case)
      <4>1. \A i \in DOMAIN executed' : i \in DOMAIN executed \/ i = Len(executed) + 1
        BY <3>3, <3>4
      <4>2. QED
        BY <1>4, <2>1, <3>1, <3>3, <4>1
    <3>6. executed' \in Seq(T)
      <4>1. \A i \in 1 .. Len(executed') : executed'[i] \in T
        BY <3>4
      <4> HIDE DEF T
      <4>2. QED
        BY <3>3, <3>4, <4>1
    <3>7. QED
      BY <3>5, <3>6
  <2>4. QED
    BY <1>3, <2>2, <2>3
<1>10. TodoInv'
  BY <1>1, <1>2, <1>7, <1>8, <1>9 DEF LiveInv, TodoInv
<1>11. QED
  BY <1>5, <1>6, <1>10 DEF LiveInv

LEMMA EndMainKeeps ==
  ASSUME LiveInv, EndMain
  PROVE  LiveInv'
<1>1. BudgetInv' /\ PreviewInv' /\ SentAsPreviewed'
  BY LiveKeeps DEF EndMain
<1>2. TodoInv'
  BY DEF EndMain, LiveInv, TodoInv, Previewed
<1>3. QED
  BY <1>1, <1>2 DEF LiveInv

LEMMA RankLatestKeeps ==
  ASSUME LiveInv, RankLatest
  PROVE  LiveInv'
<1>1. phase = "latest" /\ phase' = "latest" /\ UNCHANGED <<options, labels, previews, digest, executed>>
  BY DEF RankLatest
<1>2. PICK t \in todo :
        /\ \/ /\ ablations' = [ablations EXCEPT !.skipped = @ + 1]
              /\ UNCHANGED <<attempts, stopped, spent, sends>>
           \/ /\ Stop = "no"
              /\ \E o \in RankOutcomes(t[1], "latest") :
                   /\ Charge(t[1], "latest", o)
                   /\ ablations' = [ablations EXCEPT !.arms =
                                      Bound(@, t[1], [failed |-> o.decision = "unavailable", skills |-> o.skills])]
        /\ todo' = todo \ {t}
  BY DEF RankLatest
<1>3. Previewed(t[1])
  BY <1>1 DEF LiveInv, TodoInv
<1>4. BudgetInv' /\ SentAsPreviewed'
  <2>1. CASE UNCHANGED <<attempts, stopped, spent, sends>>
    BY <1>1, <2>1, LiveKeeps
  <2>2. ASSUME Stop = "no", NEW o \in RankOutcomes(t[1], "latest"), Charge(t[1], "latest", o)
        PROVE  BudgetInv' /\ SentAsPreviewed'
    <3>1. "latest" \notin PreviewedArms
      BY DEF PreviewedArms, RosterArms, WireArms
    <3>2. QED
      BY <1>1, <1>3, <2>2, <3>1, ChargeKeeps
  <2>3. QED
    BY <1>2, <2>1, <2>2
<1>5. PreviewInv'
  BY <1>1 DEF LiveInv, PreviewInv, Judgable, PreviewedArms, OffRoster
<1>6. \A k : Previewed(k)' = Previewed(k)
  BY <1>1 DEF Previewed
<1>7. "queue" \in DOMAIN ablations' /\ ablations'.queue = ablations.queue
  <2>1. "queue" \in DOMAIN ablations
    BY DEF LiveInv, TodoInv
  <2>2. QED
    BY <1>2, <2>1
<1>8. TodoInv'
  BY <1>1, <1>2, <1>6, <1>7 DEF LiveInv, TodoInv
<1>9. QED
  BY <1>4, <1>5, <1>8 DEF LiveInv

LEMMA EndLatestKeeps ==
  ASSUME LiveInv, EndLatest
  PROVE  LiveInv'
<1>1. BudgetInv' /\ PreviewInv' /\ SentAsPreviewed'
  BY LiveKeeps DEF EndLatest
<1>2. \A t \in todo' : Previewed(t[1])
  <2>1. \A i \in DOMAIN executed : Previewed(executed[i].case)
    BY DEF EndLatest, LiveInv, TodoInv
  <2>2. QED
    BY <2>1 DEF EndLatest, VariantQueue
<1>3. TodoInv'
  BY <1>2 DEF EndLatest, LiveInv, TodoInv, Previewed
<1>4. QED
  BY <1>1, <1>3 DEF LiveInv

LEMMA RankVariantKeeps ==
  ASSUME LiveInv, RankVariant
  PROVE  LiveInv'
<1>1. phase = "variants" /\ phase' = "variants" /\ UNCHANGED <<options, labels, previews, digest, executed, ablations>>
  BY DEF RankVariant
<1>2. PICK t \in todo :
        /\ \/ UNCHANGED <<attempts, stopped, spent, sends>>
           \/ /\ ArmRuns(t[1], t[2])
              /\ \E o \in RankOutcomes(t[1], t[2]) : Charge(t[1], t[2], o)
        /\ todo' = todo \ {t}
  BY DEF RankVariant
<1>3. Previewed(t[1])
  BY <1>1 DEF LiveInv, TodoInv
<1>4. BudgetInv' /\ SentAsPreviewed'
  <2>1. CASE UNCHANGED <<attempts, stopped, spent, sends>>
    BY <1>1, <2>1, LiveKeeps
  <2>2. ASSUME ArmRuns(t[1], t[2]), NEW o \in RankOutcomes(t[1], t[2]), Charge(t[1], t[2], o)
        PROVE  BudgetInv' /\ SentAsPreviewed'
    <3>1. t[2] \in PreviewedArms => <<t[1], t[2]>> \in DOMAIN previews
      BY <1>3, <2>2 DEF PreviewedArms, ArmRuns, Previewed
    <3>2. Stop = "no"
      BY <2>2 DEF ArmRuns
    <3>3. QED
      BY <1>1, <1>3, <2>2, <3>1, <3>2, ChargeKeeps
  <2>3. QED
    BY <1>2, <2>1, <2>2
<1>5. PreviewInv'
  BY <1>1 DEF LiveInv, PreviewInv, Judgable, PreviewedArms, OffRoster
<1>6. TodoInv'
  BY <1>1, <1>2 DEF LiveInv, TodoInv, Previewed
<1>7. QED
  BY <1>4, <1>5, <1>6 DEF LiveInv

LEMMA EndingKeeps ==
  ASSUME LiveInv, Report \/ ScoreRecorded
  PROVE  LiveInv'
<1>1. BudgetInv' /\ PreviewInv' /\ SentAsPreviewed'
  BY LiveKeeps DEF Report, ScoreRecorded
<1>2. phase' = "done" /\ "queue" \in DOMAIN ablations' /\ \A u \in ablations'.queue : Previewed(u[1])
  <2>1. "queue" \in DOMAIN ablations /\ \A u \in ablations.queue : Previewed(u[1])
    BY DEF LiveInv, TodoInv
  <2>2. QED
    BY <2>1 DEF Report, ScoreRecorded
<1>3. \A k : Previewed(k)' = Previewed(k)
  BY DEF Previewed, Report, ScoreRecorded
<1>4. TodoInv'
  BY <1>2, <1>3 DEF TodoInv
<1>5. QED
  BY <1>1, <1>4 DEF LiveInv

\* A live evaluation keeps its invariant.
LEMMA LiveSteps ==
  ASSUME LiveInv, LiveNext
  PROVE  LiveInv'
<1>1. ASSUME NEW part, EditWorkspace(part) PROVE LiveInv'
  BY <1>1, LiveRests DEF EditWorkspace
<1>2. PassTime => LiveInv'
  BY LiveRests DEF PassTime
<1>3. QED
  BY <1>1, <1>2, RefuseRunKeeps, SelectKeeps, PreviewKeeps, FreezeKeeps, LeaveUnfinishedKeeps, RankMainKeeps,
     EndMainKeeps, RankLatestKeeps, EndLatestKeeps, RankVariantKeeps, EndingKeeps DEF LiveNext

\* What was spent was charged, and what was charged was allowed.
LEMMA LiveConsents ==
  ASSUME LiveInv
  PROVE  ConsentHolds
<1>1. options.maxRequests \in Nat
  BY BudgetAssumption DEF LiveInv, BudgetInv
<1>2. QED
  BY <1>1 DEF LiveInv, BudgetInv, ConsentHolds, RequestCapHolds

-----------------------------------------------------------------------------
(* The upkeep of the ledger                                                *)

\* A hook is timed from its entry to what it left.
TurnOf(h) ==
  /\ h.pc \in {"none", "running", "notification", "lost", "admitted", "recorded"}
  /\ h.pc # "none" => {"pc", "at"} \subseteq DOMAIN h /\ h.at \in Nat /\ h.at <= time
  /\ h.pc \in {"running", "admitted"} => time - h.at < SETTLE
  /\ h.pc \in {"notification", "recorded"} => h.ended \in Nat /\ h.at <= h.ended /\ h.ended <= time
  /\ h.pc = "admitted" => h.file \in 0 .. replaced /\ (store = NoStore => h.file < replaced)

\* Both counters hold what the hooks told them.
EntryOf(n) ==
  n.turn \in Turns /\ hooks[n.turn].pc # "none" /\ n = [turn |-> n.turn, at |-> hooks[n.turn].at]
NonTurnOf(n) ==
  n.turn \in Turns /\ hooks[n.turn].pc = "notification" /\ n = [turn |-> n.turn, at |-> hooks[n.turn].ended]

\* A command acts on the file and the history it opened, and on records it read.
Sweeping == {"read-entries", "write-entries", "read-nonturns", "write-nonturns"}
CommandOf(k) ==
  /\ k.pc \in Sweeping \cup {"idle", "done", "migrate", "prune", "clear", "status", "stats", "copy",
                             "upgrade", "figures"}
  /\ k.pc \in Sweeping \cup {"prune", "stats", "figures"} => k.before \in Int
  /\ k.pc \in {"stats", "figures"} => k.at \in Int /\ k.at <= time
  /\ k.pc = "figures" => IsFiniteSet(k.rows.events)
  /\ k.pc = "write-entries" => IsFiniteSet(k.seen) /\ \A n \in k.seen : EntryOf(n)
  /\ k.pc = "write-nonturns" => IsFiniteSet(k.seen) /\ \A n \in k.seen : NonTurnOf(n)
  /\ k.pc \in {"migrate", "copy"} =>
       {"pc", "file"} \subseteq DOMAIN k /\ k.file \in 0 .. replaced /\ (store = NoStore => k.file < replaced)

IsStore(s) ==
  /\ s = [file |-> s.file, version |-> s.version, schema |-> s.schema, data |-> s.data,
          events |-> s.events, labels |-> s.labels, loads |-> s.loads]
  /\ s.file \in 0 .. replaced /\ IsFiniteSet(s.events)

UpkeepType ==
  /\ time \in 0 .. MaxNow /\ replaced \in Nat /\ copies \in Nat
  /\ hooks = [t \in Turns |-> hooks[t]] /\ \A t \in Turns : TurnOf(hooks[t])
  /\ cmds = [c \in Commands |-> cmds[c]] /\ \A c \in Commands : CommandOf(cmds[c])
  /\ IsFiniteSet(entries) /\ \A n \in entries : EntryOf(n)
  /\ IsFiniteSet(nonturns) /\ \A n \in nonturns : NonTurnOf(n)
  /\ store # NoStore => IsStore(store)

\* The turn an entry counts left its row, unless a prune that dropped the row is
\* about to drop the entry.
RowIn(t, events) == \E e \in events : e.id = t /\ e.at = hooks[t].ended /\ e.channel = "hook"
Doomed(n) == \E c \in Commands : cmds[c].pc \in {"read-entries", "write-entries"} /\ n.at < cmds[c].before
Matched(events, until) ==
  \A n \in entries :
    hooks[n.turn].pc = "recorded" /\ hooks[n.turn].ended < until => RowIn(n.turn, events) \/ Doomed(n)

\* What the counters cover while nothing befell them: a turn they count is found
\* in the rows, in every snapshot that was taken after it, or among the others; one
\* command at a time rewrites them, and what it read is what they hold.
CountersCover ==
  /\ store = NoStore => \A t \in Turns : hooks[t].pc = "none"
  /\ store # NoStore => Matched(store.events, time + 1)
  /\ \A c \in Commands : cmds[c].pc = "figures" => Matched(cmds[c].rows.events, cmds[c].at)
  /\ \A n \in entries :
       hooks[n.turn].pc = "notification" => [turn |-> n.turn, at |-> hooks[n.turn].ended] \in nonturns
  /\ \A c, d \in Commands : cmds[c].pc \in Sweeping /\ cmds[d].pc \in Sweeping => c = d
  /\ \A c \in Commands : cmds[c].pc = "write-entries" => cmds[c].seen = entries
  /\ \A c \in Commands : cmds[c].pc = "write-nonturns" => cmds[c].seen = nonturns
  /\ \A c \in Commands :
       cmds[c].pc \in {"read-nonturns", "write-nonturns"} => \A n \in entries : n.at >= cmds[c].before

\* The rows still to come, and the space they and a backup leave.
Coming == {t \in Turns : hooks[t].pc = "admitted" /\ store # NoStore /\ hooks[t].file = store.file}
Fits(bytes) == bytes + PRUNE_BYTES <= QUOTA
SpaceInv ==
  ~overrun =>
    /\ Fits(Occupied)
    /\ Coming # {} => Fits(Occupied + Cardinality(Coming))
    /\ \A c \in Commands : cmds[c].pc = "copy" /\ SameFile(c) => Fits(Occupied + DatabaseBytes)

MaintenanceInv == UpkeepType /\ SpaceInv /\ (harm = {} => CountersCover) /\ UnrecordedIsReal

LEMMA StoreThere ==
  ASSUME NEW s, IsStore(s)
  PROVE  s # NoStore
<1>1. "version" \in DOMAIN s
  BY DEF IsStore
<1>2. DOMAIN NoStore = {"file"}
  BY DEF NoStore
<1>3. QED
  BY <1>1, <1>2

\* The space is a number, and a row more or less is at most one byte more or less.
LEMMA SpaceIs ==
  ASSUME UpkeepType
  PROVE  /\ DatabaseBytes \in Nat /\ Occupied \in Nat
         /\ IsFiniteSet(Coming) /\ Cardinality(Coming) \in Nat
         /\ IsFiniteSet(Admitted) /\ Cardinality(Admitted) \in Nat
         /\ Cardinality(Coming) <= Cardinality(Admitted)
<1>1. DatabaseBytes \in Nat
  BY FS_CardinalityType DEF UpkeepType, DatabaseBytes, IsStore
<1>2. Coming \subseteq Admitted /\ Admitted \subseteq Turns
  BY DEF Coming, Admitted
<1>3. IsFiniteSet(Admitted)
  BY <1>2, ClockAssumption, FS_Subset
<1>4. IsFiniteSet(Coming) /\ Cardinality(Coming) <= Cardinality(Admitted)
  BY <1>2, <1>3, FS_Subset
<1>5. QED
  BY <1>1, <1>3, <1>4, FS_CardinalityType DEF Occupied, UpkeepType

-----------------------------------------------------------------------------
\* A step that leaves the hooks, the counters and the rows as they are.
StoreStays ==
  \/ store' = store
  \/ store # NoStore /\ IsStore(store)' /\ store'.file = store.file /\ store'.events = store.events
Still == UNCHANGED <<entries, nonturns, hooks, time, replaced>> /\ StoreStays

LEMMA StillIs ==
  ASSUME UpkeepType, Still
  PROVE  /\ (store' = NoStore) = (store = NoStore)
         /\ store # NoStore => IsStore(store)' /\ store'.file = store.file /\ store'.events = store.events
         /\ DatabaseBytes' = DatabaseBytes
         /\ \A n : EntryOf(n)' = EntryOf(n) /\ NonTurnOf(n)' = NonTurnOf(n)
         /\ \A h : TurnOf(h)' = TurnOf(h)
         /\ \A k : CommandOf(k)' = CommandOf(k)
         /\ Coming' = Coming
<1>1. (store' = NoStore) = (store = NoStore)
  <2>1. IsStore(store)' => IsStore(store')
    BY DEF Still, IsStore
  <2>2. QED
    BY <2>1, StoreThere DEF Still, StoreStays
<1>2. store # NoStore => IsStore(store)' /\ store'.file = store.file /\ store'.events = store.events
  BY DEF UpkeepType, Still, StoreStays, IsStore
<1>3. DatabaseBytes' = DatabaseBytes
  BY <1>1, <1>2 DEF DatabaseBytes
<1>4. \A n : EntryOf(n)' = EntryOf(n) /\ NonTurnOf(n)' = NonTurnOf(n)
  BY DEF Still, EntryOf, NonTurnOf
<1>5. \A h : TurnOf(h)' = TurnOf(h)
  BY <1>1 DEF Still, TurnOf
<1>6. \A k : CommandOf(k)' = CommandOf(k)
  BY <1>1, <1>4 DEF Still, CommandOf, Sweeping
<1>7. Coming' = Coming
  BY <1>1, <1>2 DEF Still, Coming
<1>8. QED
  BY <1>1, <1>2, <1>3, <1>4, <1>5, <1>6, <1>7

LEMMA TypeMoves ==
  ASSUME UpkeepType, Still, copies' \in Nat,
         NEW c \in Commands, NEW k, CommandOf(k), cmds' = [cmds EXCEPT ![c] = k]
  PROVE  UpkeepType'
<1>1. \A d \in Commands : cmds'[d] = IF d = c THEN k ELSE cmds[d]
  BY DEF UpkeepType
<1>2. cmds' = [d \in Commands |-> cmds'[d]]
  BY DEF UpkeepType
<1>3. \A d \in Commands : CommandOf(cmds[d])'
  BY <1>1, StillIs DEF UpkeepType
<1>4. hooks' = [t \in Turns |-> hooks'[t]] /\ \A t \in Turns : TurnOf(hooks[t])'
  BY StillIs DEF UpkeepType, Still
<1>5. QED
  BY <1>2, <1>3, <1>4, StillIs DEF UpkeepType, Still

LEMMA SpaceMoves ==
  ASSUME UpkeepType, SpaceInv, Still, UNCHANGED <<copies, overrun>>,
         NEW c \in Commands, NEW k, cmds' = [cmds EXCEPT ![c] = k],
         k.pc = "copy" /\ store # NoStore /\ store.file = k.file => Fits(Occupied + DatabaseBytes)
  PROVE  SpaceInv'
<1>1. \A d \in Commands : cmds'[d] = IF d = c THEN k ELSE cmds[d]
  BY DEF UpkeepType
<1>2. Occupied' = Occupied /\ DatabaseBytes' = DatabaseBytes /\ Coming' = Coming
  BY StillIs DEF Occupied
<1>3. \A d \in Commands : cmds'[d].pc = "copy" /\ SameFile(d)' /\ ~overrun' => Fits(Occupied + DatabaseBytes)
  BY <1>1, StillIs DEF SpaceInv, SameFile
<1>4. QED
  BY <1>2, <1>3 DEF SpaceInv, Fits

\* A command that is not the one that rewrites the counters, or is still at it.
LEMMA CoverMoves ==
  ASSUME UpkeepType, CountersCover, Still,
         NEW c \in Commands, NEW k, cmds' = [cmds EXCEPT ![c] = k],
         k.pc = "figures" => Matched(k.rows.events, k.at),
         k.pc \in Sweeping => cmds[c].pc \in Sweeping,
         cmds[c].pc \in {"read-entries", "write-entries"} =>
           k.pc \in {"read-entries", "write-entries"} /\ k.before = cmds[c].before,
         k.pc = "write-entries" => k.seen = entries,
         k.pc = "write-nonturns" => k.seen = nonturns,
         k.pc \in {"read-nonturns", "write-nonturns"} => \A n \in entries : n.at >= k.before
  PROVE  CountersCover'
<1>1. \A d \in Commands : cmds'[d] = IF d = c THEN k ELSE cmds[d]
  BY DEF UpkeepType
<1>2. UNCHANGED <<entries, nonturns, hooks, time>>
  BY DEF Still
<1>3. \A n : Doomed(n) => Doomed(n)'
  BY <1>1 DEF Doomed
<1>4. \A events, until : Matched(events, until) => Matched(events, until)'
  BY <1>2, <1>3 DEF Matched, RowIn
<1>5. /\ store' = NoStore => \A t \in Turns : hooks'[t].pc = "none"
      /\ store' # NoStore => Matched(store.events, time + 1)'
  BY <1>2, <1>4, StillIs DEF CountersCover
<1>6. \A d \in Commands : cmds'[d].pc = "figures" => Matched(cmds[d].rows.events, cmds[d].at)'
  BY <1>1, <1>4 DEF CountersCover
<1>7. \A d, e \in Commands : cmds'[d].pc \in Sweeping /\ cmds'[e].pc \in Sweeping => d = e
  BY <1>1 DEF CountersCover
<1>8. \A n \in entries' :
        hooks'[n.turn].pc = "notification" => [turn |-> n.turn, at |-> hooks'[n.turn].ended] \in nonturns'
  BY <1>2 DEF CountersCover
<1>9. \A d \in Commands :
        /\ cmds'[d].pc = "write-entries" => cmds'[d].seen = entries'
        /\ cmds'[d].pc = "write-nonturns" => cmds'[d].seen = nonturns'
        /\ cmds'[d].pc \in {"read-nonturns", "write-nonturns"} => \A n \in entries' : n.at >= cmds'[d].before
  BY <1>1, <1>2 DEF CountersCover
<1>10. QED
  BY <1>5, <1>6, <1>7, <1>8, <1>9 DEF CountersCover, Sweeping

-----------------------------------------------------------------------------
LEMMA MaintenanceStarts ==
  ASSUME MaintenanceInit
  PROVE  MaintenanceInv
<1>1. /\ hooks = [t \in Turns |-> [pc |-> "none"]] /\ cmds = [c \in Commands |-> [pc |-> "idle"]]
      /\ entries = {} /\ nonturns = {} /\ time = 0 /\ replaced = 0 /\ copies = 0 /\ report = NoReport
      /\ store # NoStore =>
           \E v : store = [file |-> 0, version |-> v, schema |-> 1, data |-> 1,
                           events |-> {}, labels |-> {}, loads |-> {}]
  BY DEF MaintenanceInit, Fresh
<1>2. store # NoStore => IsStore(store) /\ store.events = {}
  BY <1>1, FS_EmptySet DEF IsStore
<1>3. \A t \in Turns : hooks[t].pc = "none"
  BY <1>1
<1>4. \A c \in Commands : cmds[c].pc = "idle"
  BY <1>1
<1>5. UpkeepType
  BY <1>1, <1>2, <1>3, <1>4, FS_EmptySet, ClockAssumption DEF UpkeepType, TurnOf, CommandOf, Sweeping
<1>6. SpaceInv
  <2>1. Coming = {}
    BY <1>3 DEF Coming
  <2>2. DatabaseBytes \in {0, 1}
    BY <1>2, FS_EmptySet DEF DatabaseBytes
  <2>3. Fits(Occupied)
    BY <1>1, <2>2, SpaceAssumption DEF Fits, Occupied
  <2>4. QED
    BY <1>4, <2>1, <2>3 DEF SpaceInv
<1>7. CountersCover
  BY <1>1, <1>3, <1>4 DEF CountersCover, Matched, Sweeping
<1>8. QED
  BY <1>1, <1>5, <1>6, <1>7 DEF MaintenanceInv, UnrecordedIsReal

\* A command that ends, or that goes on with the file it opened.
LEMMA EndedIs ==
  ASSUME NEW k, k.pc \in {"done", "upgrade"}
  PROVE  CommandOf(k)
BY DEF CommandOf, Sweeping

LEMMA CommandMoves ==
  ASSUME MaintenanceInv, Still, UNCHANGED <<copies, overrun, harm, report>>,
         NEW c \in Commands, NEW k, cmds' = [cmds EXCEPT ![c] = k], CommandOf(k),
         k.pc = "copy" /\ store # NoStore /\ store.file = k.file => Fits(Occupied + DatabaseBytes),
         k.pc = "figures" /\ harm = {} => Matched(k.rows.events, k.at),
         k.pc \in Sweeping => cmds[c].pc \in Sweeping,
         cmds[c].pc \in {"read-entries", "write-entries"} =>
           k.pc \in {"read-entries", "write-entries"} /\ k.before = cmds[c].before,
         k.pc = "write-entries" => k.seen = entries,
         k.pc = "write-nonturns" => k.seen = nonturns,
         k.pc \in {"read-nonturns", "write-nonturns"} /\ harm = {} => \A n \in entries : n.at >= k.before
  PROVE  MaintenanceInv'
<1>1. UpkeepType'
  BY TypeMoves DEF MaintenanceInv, UpkeepType
<1>2. SpaceInv'
  BY SpaceMoves DEF MaintenanceInv
<1>3. harm' = {} => CountersCover'
  BY CoverMoves DEF MaintenanceInv
<1>4. UnrecordedIsReal'
  BY DEF MaintenanceInv, UnrecordedIsReal
<1>5. QED
  BY <1>1, <1>2, <1>3, <1>4 DEF MaintenanceInv

LEMMA FinishIs ==
  ASSUME NEW c \in Commands, NEW outcome, Finish(c, outcome)
  PROVE  \E k : cmds' = [cmds EXCEPT ![c] = k] /\ k.pc = "done"
<1> DEFINE k == [pc |-> "done", outcome |-> outcome]
<1>1. cmds' = [cmds EXCEPT ![c] = k] /\ k.pc = "done"
  BY DEF Finish
<1>2. QED
  BY <1>1

LEMMA FinishKeeps ==
  ASSUME MaintenanceInv, Still, UNCHANGED <<copies, overrun, harm, report>>,
         NEW c \in Commands, NEW outcome, Finish(c, outcome),
         cmds[c].pc \notin {"read-entries", "write-entries"}
  PROVE  MaintenanceInv'
<1>1. PICK k : cmds' = [cmds EXCEPT ![c] = k] /\ k.pc = "done"
  BY FinishIs
<1>2. CommandOf(k)
  BY <1>1, EndedIs
<1>3. QED
  BY <1>1, <1>2, CommandMoves DEF Sweeping

LEMMA OpenStoreKeeps ==
  ASSUME MaintenanceInv, NEW c \in Commands, OpenStore(c)
  PROVE  MaintenanceInv'
<1>1. Still /\ UNCHANGED <<copies, overrun, harm, report>> /\ cmds[c].pc = "idle"
  BY DEF OpenStore, KeepStore, Still, StoreStays
<1>2. CASE \E outcome : Finish(c, outcome)
  BY <1>1, <1>2, FinishKeeps
<1>3. ASSUME store # NoStore, NEW op \in Operations[c] \ {"init"}, NEW before \in Cutoffs(op),
             cmds' = [cmds EXCEPT ![c] = [pc |-> op, file |-> store.file, schema |-> store.schema,
                                          data |-> store.data, before |-> before,
                                          at |-> IF op = "stats" THEN time ELSE 0]]
      PROVE  MaintenanceInv'
  <2> DEFINE k == [pc |-> op, file |-> store.file, schema |-> store.schema, data |-> store.data,
                   before |-> before, at |-> IF op = "stats" THEN time ELSE 0]
  <2>1. op \in {"migrate", "prune", "clear", "status", "stats"}
    BY <1>3, OperationsAssumption DEF Commands
  <2>2. time \in Nat /\ store.file \in 0 .. replaced
    BY <1>3, ClockAssumption DEF MaintenanceInv, UpkeepType, IsStore
  <2>3. op \in {"prune", "stats"} => before \in Int
    BY <1>3, <2>2 DEF Cutoffs
  <2>4. k.pc = op /\ CommandOf(k)
    BY <1>3, <2>1, <2>2, <2>3 DEF CommandOf, Sweeping
  <2> HIDE DEF k
  <2>5. cmds' = [cmds EXCEPT ![c] = k]
    BY <1>3 DEF k
  <2>6. QED
    BY <1>1, <2>1, <2>4, <2>5, CommandMoves DEF Sweeping
<1>4. QED
  BY <1>2, <1>3 DEF OpenStore

LEMMA StatusKeeps ==
  ASSUME MaintenanceInv, NEW c \in Commands, Status(c)
  PROVE  MaintenanceInv'
<1>1. Still /\ UNCHANGED <<copies, overrun, harm, report>> /\ cmds[c].pc = "status"
  BY DEF Status, KeepStore, Still, StoreStays
<1>2. PICK k : cmds' = [cmds EXCEPT ![c] = k] /\ k.pc = "done"
  <2>1. CASE SameFile(c)
    <3> DEFINE k == [pc |-> "done", outcome |-> "status", answer |-> StatusOf(store, cmds[c].before)]
    <3>1. cmds' = [cmds EXCEPT ![c] = k] /\ k.pc = "done"
      BY <2>1 DEF Status
    <3>2. QED
      BY <3>1
  <2>2. CASE ~SameFile(c)
    <3> DEFINE k == [pc |-> "done", outcome |-> "replaced"]
    <3>1. cmds' = [cmds EXCEPT ![c] = k] /\ k.pc = "done"
      BY <2>2 DEF Status, Finish
    <3>2. QED
      BY <3>1
  <2>3. QED
    BY <2>1, <2>2
<1>3. CommandOf(k)
  BY <1>2, EndedIs
<1>4. QED
  BY <1>1, <1>2, <1>3, CommandMoves DEF Sweeping

LEMMA RefuseKeeps ==
  ASSUME MaintenanceInv, NEW c \in Commands, Refuse(c)
  PROVE  MaintenanceInv'
BY FinishKeeps DEF Refuse, KeepStore, Still, StoreStays

LEMMA ReadCounterKeeps ==
  ASSUME MaintenanceInv, NEW c \in Commands, ReadCounter(c)
  PROVE  MaintenanceInv'
<1> DEFINE first == cmds[c].pc = "read-entries"
           k == [pc |-> IF first THEN "write-entries" ELSE "write-nonturns", before |-> cmds[c].before,
                 seen |-> IF first THEN entries ELSE nonturns]
<1>1. Still /\ UNCHANGED <<copies, overrun, harm, report>> /\ cmds[c].pc \in {"read-entries", "read-nonturns"}
  BY DEF ReadCounter, KeepStore, Still, StoreStays
<1>2. cmds' = [cmds EXCEPT ![c] = k]
  BY DEF ReadCounter
<1>3. cmds[c].before \in Int
  BY <1>1 DEF MaintenanceInv, UpkeepType, CommandOf, Sweeping
<1>4. CommandOf(k)
  BY <1>1, <1>3 DEF MaintenanceInv, UpkeepType, CommandOf, Sweeping
<1>5. /\ k.pc \in {"write-entries", "write-nonturns"} /\ k.before = cmds[c].before
      /\ k.pc = "write-entries" => k.seen = entries /\ cmds[c].pc = "read-entries"
      /\ k.pc = "write-nonturns" => k.seen = nonturns /\ cmds[c].pc = "read-nonturns"
  BY <1>1
<1>6. cmds[c].pc = "read-nonturns" /\ harm = {} => \A n \in entries : n.at >= cmds[c].before
  BY DEF MaintenanceInv, CountersCover
<1> HIDE DEF k
<1>7. QED
  BY <1>1, <1>2, <1>4, <1>5, <1>6, CommandMoves DEF Sweeping

LEMMA MigratePreflightKeeps ==
  ASSUME MaintenanceInv, NEW c \in Commands, MigratePreflight(c)
  PROVE  MaintenanceInv'
<1>1. Still /\ UNCHANGED <<copies, overrun, harm, report>> /\ cmds[c].pc = "migrate"
  BY DEF MigratePreflight, KeepStore, Still, StoreStays
<1>2. CASE MigrateVerdict(c) # "copy"
  BY <1>1, <1>2, FinishKeeps DEF MigratePreflight
<1>3. CASE MigrateVerdict(c) = "copy"
  <2> DEFINE k == [cmds[c] EXCEPT !.pc = "copy"]
  <2>1. cmds' = [cmds EXCEPT ![c] = k]
    BY <1>3 DEF MigratePreflight
  <2>2. {"pc", "file"} \subseteq DOMAIN cmds[c] /\ CommandOf(cmds[c])
    BY <1>1 DEF MaintenanceInv, UpkeepType, CommandOf
  <2>3. k.pc = "copy" /\ k.file = cmds[c].file /\ {"pc", "file"} \subseteq DOMAIN k
    BY <2>2
  <2>4. CommandOf(k)
    BY <1>1, <2>2, <2>3 DEF CommandOf, Sweeping
  <2>5. Occupied \in Nat /\ DatabaseBytes \in Nat /\ PRUNE_BYTES \in Nat
    BY SpaceIs, SpaceAssumption DEF MaintenanceInv
  <2>6. SameFile(c) => Preflight("migrate")
    BY <1>3 DEF MigrateVerdict
  <2>7. store # NoStore /\ store.file = cmds[c].file => Fits(Occupied + DatabaseBytes)
    BY <2>5, <2>6, SpaceAssumption DEF Preflight, WorstCase, Fits, SameFile
  <2> HIDE DEF k
  <2>8. QED
    BY <1>1, <2>1, <2>3, <2>4, <2>7, CommandMoves DEF Sweeping
<1>4. QED
  BY <1>2, <1>3

LEMMA MigrateUpgradeKeeps ==
  ASSUME MaintenanceInv, NEW c \in Commands, MigrateUpgrade(c)
  PROVE  MaintenanceInv'
<1>1. UNCHANGED <<entries, nonturns, hooks, time, replaced, copies, overrun, harm, report>>
  BY DEF MigrateUpgrade
<1>2. cmds[c].pc = "upgrade" /\ \E outcome : Finish(c, outcome)
  BY DEF MigrateUpgrade
<1>3. StoreStays
  <2>1. CASE store' = store
    BY <2>1 DEF StoreStays
  <2>2. CASE store # NoStore /\ store' = [store EXCEPT !.version = TARGET_SCHEMA_VERSION, !.schema = @ + 1]
    BY <1>1, <2>2 DEF StoreStays, IsStore, MaintenanceInv, UpkeepType
  <2>3. QED
    BY <2>1, <2>2 DEF MigrateUpgrade, SameFile
<1>4. QED
  BY <1>1, <1>2, <1>3, FinishKeeps DEF Still

LEMMA StatsBeginKeeps ==
  ASSUME MaintenanceInv, NEW c \in Commands, StatsBegin(c)
  PROVE  MaintenanceInv'
<1>1. Still /\ UNCHANGED <<copies, overrun, harm, report>> /\ cmds[c].pc = "stats"
  BY DEF StatsBegin, KeepStore, Still, StoreStays
<1>2. CASE ~SameFile(c)
  BY <1>1, <1>2, FinishKeeps DEF StatsBegin
<1>3. CASE SameFile(c)
  <2>1. PICK k : /\ cmds' = [cmds EXCEPT ![c] = k] /\ k.pc = "figures" /\ k.before = cmds[c].before
                 /\ k.at = cmds[c].at /\ k.rows = store
    <3> DEFINE k == [pc |-> "figures", before |-> cmds[c].before, at |-> cmds[c].at, rows |-> store,
                     turns |-> TurnMetrics(Window(store.events, cmds[c].before, cmds[c].at)),
                     channels |-> ByChannel(Window(store.events, cmds[c].before, cmds[c].at))]
    <3>1. cmds' = [cmds EXCEPT ![c] = k]
      BY <1>3 DEF StatsBegin
    <3>2. k.pc = "figures" /\ k.before = cmds[c].before /\ k.at = cmds[c].at /\ k.rows = store
      OBVIOUS
    <3> HIDE DEF k
    <3>3. QED
      BY <3>1, <3>2
  <2>2. store # NoStore /\ IsStore(store) /\ time \in Nat
    BY <1>3, ClockAssumption DEF SameFile, MaintenanceInv, UpkeepType
  <2>3. CommandOf(cmds[c])
    BY DEF MaintenanceInv, UpkeepType
  <2>4. k.before \in Int /\ k.at \in Int /\ k.at <= time
    BY <1>1, <2>1, <2>3 DEF CommandOf
  <2>5. CommandOf(k)
    BY <2>1, <2>2, <2>4 DEF CommandOf, Sweeping, IsStore
  <2>6. harm = {} => Matched(store.events, k.at)
    <3>1. harm = {} => Matched(store.events, time + 1)
      BY <2>2 DEF MaintenanceInv, CountersCover
    <3>2. \A n \in entries : hooks[n.turn].pc = "recorded" => hooks[n.turn].ended \in Nat /\ hooks[n.turn].ended <= time
      BY DEF MaintenanceInv, UpkeepType, EntryOf, TurnOf
    <3>3. QED
      BY <2>2, <2>4, <3>1, <3>2 DEF Matched
  <2>7. QED
    BY <1>1, <2>1, <2>5, <2>6, CommandMoves DEF Sweeping
<1>4. QED
  BY <1>2, <1>3

-----------------------------------------------------------------------------
\* The database is made, copied, purged or moved away.

LEMMA InitLedgerKeeps ==
  ASSUME MaintenanceInv, NEW c \in Commands, InitLedger(c)
  PROVE  MaintenanceInv'
<1>1. UNCHANGED <<entries, nonturns, hooks, time, replaced, copies, overrun, harm, report>>
  BY DEF InitLedger
<1>2. cmds[c].pc = "idle" /\ \E outcome : Finish(c, outcome)
  BY DEF InitLedger
<1>3. CASE store' = store
  BY <1>1, <1>2, <1>3, FinishKeeps DEF Still, StoreStays
<1>4. CASE store' # store
  <2>1. store = NoStore /\ RecordingAdmitted /\ store' = Fresh(replaced)
    BY <1>4 DEF InitLedger
  <2>2. IsStore(store)' /\ store' # NoStore /\ store'.events = {} /\ store'.file = replaced
    <3>1. replaced' \in Nat
      BY <1>1 DEF MaintenanceInv, UpkeepType
    <3>2. IsStore(store)'
      BY <1>1, <2>1, <3>1, FS_EmptySet DEF IsStore, Fresh
    <3>3. DOMAIN Fresh(replaced) # DOMAIN NoStore
      BY DEF Fresh, NoStore
    <3>4. QED
      BY <2>1, <3>2, <3>3 DEF Fresh
  <2>3. PICK k : cmds' = [cmds EXCEPT ![c] = k] /\ k.pc = "done"
    BY <1>2, FinishIs
  <2>4. \A d \in Commands : cmds'[d] = IF d = c THEN k ELSE cmds[d]
    BY <2>3 DEF MaintenanceInv, UpkeepType
  <2>5. \A n : EntryOf(n)' = EntryOf(n) /\ NonTurnOf(n)' = NonTurnOf(n)
    BY <1>1 DEF EntryOf, NonTurnOf
  <2>6. UpkeepType'
    <3>1. \A d \in Commands : CommandOf(cmds[d])'
      BY <1>1, <2>1, <2>2, <2>3, <2>4, <2>5 DEF MaintenanceInv, UpkeepType, CommandOf, Sweeping
    <3>2. \A t \in Turns : TurnOf(hooks[t])'
      BY <1>1, <2>1, <2>2 DEF MaintenanceInv, UpkeepType, TurnOf
    <3>3. cmds' = [d \in Commands |-> cmds'[d]]
      BY <2>3 DEF MaintenanceInv, UpkeepType
    <3>4. QED
      BY <1>1, <2>2, <2>5, <3>1, <3>2, <3>3 DEF MaintenanceInv, UpkeepType
  <2>7. SpaceInv'
    <3>1. Coming' = {}
      BY <1>1, <2>1, <2>2 DEF Coming, MaintenanceInv, UpkeepType, TurnOf
    <3>2. Occupied = copies /\ Occupied' = 1 + copies
      BY <1>1, <2>1, <2>2, FS_EmptySet DEF Occupied, DatabaseBytes, MaintenanceInv, UpkeepType
    <3>3. Fits(Occupied)'
      BY <2>1, <3>2, SpaceAssumption DEF RecordingAdmitted, Fits, MaintenanceInv, UpkeepType
    <3>4. \A d \in Commands : ~(cmds'[d].pc = "copy" /\ SameFile(d)')
      BY <2>1, <2>2, <2>3, <2>4 DEF SameFile, MaintenanceInv, UpkeepType, CommandOf
    <3>5. QED
      BY <3>1, <3>3, <3>4 DEF SpaceInv
  <2>8. harm' = {} => CountersCover'
    <3>1. ASSUME harm = {} PROVE entries = {} /\ \A t \in Turns : hooks[t].pc = "none"
      BY <2>1, <3>1 DEF MaintenanceInv, CountersCover, UpkeepType, EntryOf
    <3>2. ASSUME harm = {}
          PROVE \A d \in Commands : cmds'[d].pc \in Sweeping \cup {"figures"} => cmds'[d] = cmds[d]
      BY <2>3, <2>4 DEF Sweeping
    <3>3. QED
      BY <1>1, <2>2, <3>1, <3>2 DEF MaintenanceInv, CountersCover, Matched, Sweeping
  <2>9. QED
    BY <1>1, <2>6, <2>7, <2>8 DEF MaintenanceInv, UnrecordedIsReal
<1>5. QED
  BY <1>3, <1>4

LEMMA MigrateCopyKeeps ==
  ASSUME MaintenanceInv, NEW c \in Commands, MigrateCopy(c)
  PROVE  MaintenanceInv'
<1>1. cmds[c].pc = "copy" /\ UNCHANGED <<store, entries, nonturns, hooks, time, report, harm, replaced>>
  BY DEF MigrateCopy
<1>2. Still
  BY <1>1 DEF Still, StoreStays
<1>3. Occupied \in Nat /\ DatabaseBytes \in Nat /\ copies \in Nat
  BY SpaceIs DEF MaintenanceInv, UpkeepType
<1>4. (copies' = copies) \/ (SameFile(c) /\ copies' = copies + DatabaseBytes)
  <2>1. CASE SameFile(c) /\ Occupied + DatabaseBytes <= QUOTA
    BY <2>1 DEF MigrateCopy
  <2>2. CASE ~(SameFile(c) /\ Occupied + DatabaseBytes <= QUOTA)
    BY <2>2 DEF MigrateCopy
  <2>3. QED
    BY <2>1, <2>2
<1>5. PICK k : cmds' = [cmds EXCEPT ![c] = k] /\ k.pc \in {"done", "upgrade"}
  <2>1. CASE cmds' = [cmds EXCEPT ![c].pc = "upgrade"]
    <3> DEFINE k == [cmds[c] EXCEPT !.pc = "upgrade"]
    <3>1. "pc" \in DOMAIN cmds[c]
      BY <1>1 DEF MaintenanceInv, UpkeepType, CommandOf
    <3>2. cmds' = [cmds EXCEPT ![c] = k] /\ k.pc = "upgrade"
      BY <2>1, <3>1
    <3>3. QED
      BY <3>2
  <2>2. QED
    BY <2>1, FinishIs DEF MigrateCopy
<1>6. UpkeepType'
  <2>1. copies' \in Nat
    BY <1>3, <1>4
  <2>2. CommandOf(k)
    BY <1>5, EndedIs
  <2>3. QED
    BY <1>2, <1>5, <2>1, <2>2, TypeMoves DEF MaintenanceInv
<1>7. harm' = {} => CountersCover'
  BY <1>1, <1>2, <1>5, CoverMoves DEF MaintenanceInv, Sweeping
<1>8. SpaceInv'
  <2>1. SUFFICES ASSUME ~overrun' PROVE SpaceInv'
    BY DEF SpaceInv
  <2>2. ~overrun /\ (\A d \in Commands \ {c} : cmds[d].pc # "copy") /\ \A t \in Turns : hooks[t].pc # "admitted"
    BY <2>1 DEF MigrateCopy
  <2>3. Fits(Occupied)'
    <3>1. Fits(Occupied) /\ (SameFile(c) => Fits(Occupied + DatabaseBytes))
      BY <1>1, <2>2 DEF MaintenanceInv, SpaceInv
    <3>2. (Occupied' = Occupied) \/ (SameFile(c) /\ Occupied' = Occupied + DatabaseBytes)
      <4>1. DatabaseBytes' = DatabaseBytes
        BY <1>1 DEF DatabaseBytes
      <4>2. QED
        BY <1>3, <1>4, <4>1 DEF Occupied
    <3>3. QED
      BY <3>1, <3>2 DEF Fits
  <2>4. Coming' = {}
    BY <1>1, <2>2 DEF Coming
  <2>5. \A d \in Commands : cmds'[d].pc # "copy"
    BY <1>5, <2>2 DEF MaintenanceInv, UpkeepType
  <2>6. QED
    BY <2>3, <2>4, <2>5 DEF SpaceInv
<1>9. QED
  BY <1>1, <1>6, <1>7, <1>8 DEF MaintenanceInv, UnrecordedIsReal

LEMMA ReplaceKeeps ==
  ASSUME MaintenanceInv, Replace
  PROVE  MaintenanceInv'
<1>1. /\ store # NoStore /\ store' = NoStore /\ replaced' = replaced + 1 /\ harm' # {}
      /\ UNCHANGED <<copies, entries, nonturns, hooks, cmds, time, report, overrun>>
  BY DEF Replace
<1>2. replaced \in Nat
  BY DEF MaintenanceInv, UpkeepType
<1>3. \A n : EntryOf(n)' = EntryOf(n) /\ NonTurnOf(n)' = NonTurnOf(n)
  BY <1>1 DEF EntryOf, NonTurnOf
<1>4. UpkeepType'
  <2>1. \A t \in Turns : TurnOf(hooks[t])'
    BY <1>1, <1>2 DEF MaintenanceInv, UpkeepType, TurnOf
  <2>2. \A d \in Commands : CommandOf(cmds[d])'
    BY <1>1, <1>2, <1>3 DEF MaintenanceInv, UpkeepType, CommandOf, Sweeping
  <2>3. QED
    BY <1>1, <1>2, <1>3, <2>1, <2>2 DEF MaintenanceInv, UpkeepType
<1>5. SpaceInv'
  <2>1. Coming' = {} /\ \A d \in Commands : ~SameFile(d)'
    BY <1>1 DEF Coming, SameFile
  <2>2. DatabaseBytes \in Nat /\ copies \in Nat /\ Occupied' = copies
    BY <1>1, SpaceIs DEF MaintenanceInv, UpkeepType, Occupied, DatabaseBytes
  <2>3. Fits(Occupied) => Fits(Occupied)'
    BY <2>2, SpaceAssumption DEF Fits, Occupied
  <2>4. QED
    BY <1>1, <2>1, <2>3 DEF MaintenanceInv, SpaceInv
<1>6. QED
  BY <1>1, <1>4, <1>5 DEF MaintenanceInv, UnrecordedIsReal

LEMMA TimePassesKeeps ==
  ASSUME MaintenanceInv, TimePasses
  PROVE  MaintenanceInv'
<1>1. /\ time < MaxNow /\ time' = time + 1
      /\ \A t \in Turns : hooks[t].pc \in {"running", "admitted"} => time' - hooks[t].at < SETTLE
      /\ UNCHANGED <<store, copies, entries, nonturns, hooks, cmds, report, harm, overrun, replaced>>
  BY DEF TimePasses
<1>2. time \in Nat /\ time' \in 0 .. MaxNow
  BY <1>1, ClockAssumption DEF MaintenanceInv, UpkeepType
<1>3. \A n : EntryOf(n)' = EntryOf(n) /\ NonTurnOf(n)' = NonTurnOf(n)
  BY <1>1 DEF EntryOf, NonTurnOf
<1>4. UpkeepType'
  <2>1. \A t \in Turns : TurnOf(hooks[t])'
    BY <1>1, <1>2 DEF MaintenanceInv, UpkeepType, TurnOf
  <2>2. \A d \in Commands : CommandOf(cmds[d])'
    BY <1>1, <1>2, <1>3 DEF MaintenanceInv, UpkeepType, CommandOf, Sweeping
  <2>3. IsStore(store)' = IsStore(store)
    BY <1>1 DEF IsStore
  <2>4. QED
    BY <1>1, <1>2, <1>3, <2>1, <2>2, <2>3 DEF MaintenanceInv, UpkeepType
<1>5. SpaceInv'
  BY <1>1 DEF MaintenanceInv, SpaceInv, Fits, Coming, Occupied, DatabaseBytes, SameFile
<1>6. harm' = {} => CountersCover'
  <2>1. SUFFICES ASSUME harm = {} PROVE CountersCover'
    BY <1>1
  <2>2. CountersCover
    BY <2>1 DEF MaintenanceInv
  <2>3. \A n \in entries : hooks[n.turn].pc = "recorded" => hooks[n.turn].ended \in Nat /\ hooks[n.turn].ended <= time
    BY DEF MaintenanceInv, UpkeepType, EntryOf, TurnOf
  <2>4. store # NoStore => Matched(store.events, time + 1)'
    BY <1>1, <1>2, <2>2, <2>3 DEF CountersCover, Matched, RowIn, Doomed
  <2>5. \A c \in Commands : cmds'[c].pc = "figures" => Matched(cmds[c].rows.events, cmds[c].at)'
    BY <1>1, <2>2 DEF CountersCover, Matched, RowIn, Doomed
  <2>6. QED
    BY <1>1, <2>2, <2>4, <2>5 DEF CountersCover
<1>7. QED
  BY <1>1, <1>4, <1>5, <1>6 DEF MaintenanceInv, UnrecordedIsReal

-----------------------------------------------------------------------------
\* The rows that are pruned, and the counters that are aligned with them.

LEMMA PurgeKeeps ==
  ASSUME MaintenanceInv, NEW c \in Commands, Purge(c)
  PROVE  MaintenanceInv'
<1>1. /\ cmds[c].pc \in {"prune", "clear"} /\ store # NoStore
      /\ UNCHANGED <<copies, entries, nonturns, hooks, time, report, overrun, replaced>>
  BY DEF Purge, Refused, SameFile
<1>2. PICK before \in Int :
        /\ cmds' = [cmds EXCEPT ![c] = [pc |-> "read-entries", before |-> before]]
        /\ cmds[c].pc = "clear" => before = MaxNow + 1
        /\ cmds[c].pc = "prune" => before = cmds[c].before
  <2> DEFINE before == IF cmds[c].pc = "clear" THEN MaxNow + 1 ELSE cmds[c].before
  <2>1. CommandOf(cmds[c])
    BY DEF MaintenanceInv, UpkeepType
  <2>2. before \in Int
    BY <1>1, <2>1, ClockAssumption DEF CommandOf
  <2>3. cmds' = [cmds EXCEPT ![c] = [pc |-> "read-entries", before |-> before]]
    BY DEF Purge
  <2>4. QED
    BY <1>1, <2>2, <2>3
<1>3. /\ IsStore(store)' /\ store' # NoStore /\ store'.file = store.file
      /\ store'.events \subseteq store.events
      /\ \A e \in store.events : e.at >= before => cmds[c].pc = "clear" \/ e \in store'.events
  <2>1. IsStore(store)
    BY <1>1 DEF MaintenanceInv, UpkeepType
  <2>2. CASE cmds[c].pc = "clear"
    <3>1. store' = [store EXCEPT !.events = {}, !.labels = {}, !.loads = {}, !.data = @ + 1]
      BY <2>2 DEF Purge, Cleared
    <3>2. store' = [file |-> store.file, version |-> store.version, schema |-> store.schema,
                    data |-> store.data + 1, events |-> {}, labels |-> {}, loads |-> {}]
      BY <2>1, <3>1 DEF IsStore
    <3>3. IsStore(store') /\ IsStore(store)'
      BY <1>1, <2>1, <3>2, FS_EmptySet DEF IsStore
    <3>4. QED
      BY <2>2, <3>2, <3>3, StoreThere
  <2>3. CASE cmds[c].pc = "prune"
    <3> DEFINE kept == {e \in store.events : e.at >= before}
    <3>1. PICK judged, seen :
            store' = [store EXCEPT !.events = kept, !.data = @ + 1, !.labels = judged, !.loads = seen]
      <4> DEFINE gone(id) == \E e \in store.events \ kept : e.id = id
                 judged == {j \in store.labels : ~gone(j.event)}
                 seen == {l \in store.loads : ~gone(l.event) /\ ~(l.event = Unattributed /\ l.at < before)}
      <4>1. store' = PrunedTo(store, before)
        BY <1>2, <2>3 DEF Purge
      <4>2. PrunedTo(store, before) =
              [store EXCEPT !.events = kept, !.data = @ + 1, !.labels = judged, !.loads = seen]
        BY Zenon DEF PrunedTo
      <4>3. QED
        BY <4>1, <4>2
    <3>2. store' = [file |-> store.file, version |-> store.version, schema |-> store.schema,
                    data |-> store.data + 1, events |-> kept, labels |-> judged, loads |-> seen]
      BY <2>1, <3>1 DEF IsStore
    <3>3. IsFiniteSet(kept)
      BY <2>1, FS_Subset DEF IsStore
    <3>4. IsStore(store') /\ IsStore(store)'
      BY <1>1, <2>1, <3>2, <3>3 DEF IsStore
    <3>5. QED
      BY <3>2, <3>4, StoreThere
  <2>4. QED
    BY <1>1, <2>2, <2>3
<1>4. \A d \in Commands : cmds'[d] = IF d = c THEN [pc |-> "read-entries", before |-> before] ELSE cmds[d]
  BY <1>2 DEF MaintenanceInv, UpkeepType
<1>5. \A n : EntryOf(n)' = EntryOf(n) /\ NonTurnOf(n)' = NonTurnOf(n)
  BY <1>1 DEF EntryOf, NonTurnOf
<1>6. UpkeepType'
  <2>1. \A t \in Turns : TurnOf(hooks[t])'
    BY <1>1, <1>3 DEF MaintenanceInv, UpkeepType, TurnOf
  <2>2. \A d \in Commands : CommandOf(cmds[d])'
    BY <1>1, <1>3, <1>4, <1>5 DEF MaintenanceInv, UpkeepType, CommandOf, Sweeping
  <2>3. cmds' = [d \in Commands |-> cmds'[d]]
    BY <1>2 DEF MaintenanceInv, UpkeepType
  <2>4. QED
    BY <1>1, <1>3, <1>5, <2>1, <2>2, <2>3 DEF MaintenanceInv, UpkeepType
<1>7. SpaceInv'
  <2>1. Coming' = Coming
    BY <1>1, <1>3 DEF Coming
  <2>2. DatabaseBytes \in Nat /\ DatabaseBytes' \in Nat /\ DatabaseBytes' <= DatabaseBytes
    <3>1. IsFiniteSet(store.events)
      BY <1>1 DEF MaintenanceInv, UpkeepType, IsStore
    <3>2. /\ Cardinality(store.events) \in Nat /\ Cardinality(store'.events) \in Nat
          /\ Cardinality(store'.events) <= Cardinality(store.events)
      BY <1>3, <3>1, FS_Subset, FS_CardinalityType
    <3>3. QED
      BY <1>1, <1>3, <3>2 DEF DatabaseBytes
  <2>3. copies \in Nat /\ copies' = copies /\ Cardinality(Coming) \in Nat
    BY <1>1, SpaceIs DEF MaintenanceInv, UpkeepType
  <2>4. /\ Fits(Occupied) => Fits(Occupied)'
        /\ Fits(Occupied + Cardinality(Coming)) => Fits(Occupied + Cardinality(Coming))'
        /\ Fits(Occupied + DatabaseBytes) => Fits(Occupied + DatabaseBytes)'
    BY <2>1, <2>2, <2>3, SpaceAssumption DEF Fits, Occupied
  <2>5. \A d \in Commands : cmds'[d].pc = "copy" /\ SameFile(d)' => cmds[d].pc = "copy" /\ SameFile(d)
    BY <1>1, <1>3, <1>4 DEF SameFile
  <2>6. QED
    BY <1>1, <2>1, <2>4, <2>5 DEF MaintenanceInv, SpaceInv
<1>8. harm' = {} => CountersCover'
  <2>1. SUFFICES ASSUME harm' = {} PROVE CountersCover'
    OBVIOUS
  <2>2. harm = {} /\ \A d \in Commands : cmds[d].pc \notin Sweeping
    BY <2>1 DEF Purge, Aligning, Sweeping
  <2>3. CountersCover
    BY <2>2 DEF MaintenanceInv
  <2>4. \A n : ~Doomed(n)
    BY <2>2 DEF Doomed, Sweeping
  <2>5. \A n : n.at < before => Doomed(n)'
    BY <1>4 DEF Doomed
  <2>6. \A n \in entries : /\ n.turn \in Turns /\ n.at \in Nat /\ n.at <= time
                           /\ hooks[n.turn].pc = "recorded" =>
                                n.at <= hooks[n.turn].ended /\ hooks[n.turn].ended \in Nat /\ hooks[n.turn].ended <= time
    BY DEF MaintenanceInv, UpkeepType, EntryOf, TurnOf
  <2>7. time \in 0 .. MaxNow /\ MaxNow \in Nat
    BY ClockAssumption DEF MaintenanceInv, UpkeepType
  <2>8. Matched(store.events, time + 1)'
    <3>1. SUFFICES ASSUME NEW n \in entries, hooks[n.turn].pc = "recorded", ~Doomed(n)'
                   PROVE  RowIn(n.turn, store.events)'
      BY <1>1 DEF Matched
    <3>2. n.at >= before
      BY <1>2, <2>5, <2>6, <3>1
    <3>3. cmds[c].pc = "prune"
      BY <1>1, <1>2, <2>6, <2>7, <3>2
    <3>4. PICK e \in store.events : e.id = n.turn /\ e.at = hooks[n.turn].ended /\ e.channel = "hook"
      BY <1>1, <2>3, <2>4, <2>6, <2>7, <3>1 DEF CountersCover, Matched, RowIn
    <3>5. e \in store'.events
      BY <1>3, <2>6, <3>1, <3>2, <3>3, <3>4
    <3>6. QED
      BY <1>1, <3>4, <3>5 DEF RowIn
  <2>9. \A d \in Commands : cmds'[d].pc = "figures" => Matched(cmds[d].rows.events, cmds[d].at)'
    BY <1>1, <1>4, <2>3, <2>4 DEF CountersCover, Matched, RowIn
  <2>10. \A d, e \in Commands : cmds'[d].pc \in Sweeping /\ cmds'[e].pc \in Sweeping => d = e
    BY <1>4, <2>2
  <2>11. \A d \in Commands : cmds'[d].pc \notin {"write-entries", "read-nonturns", "write-nonturns"}
    BY <1>4, <2>2 DEF Sweeping
  <2>12. QED
    BY <1>1, <1>3, <2>3, <2>8, <2>9, <2>10, <2>11 DEF CountersCover, Sweeping
<1>9. QED
  BY <1>1, <1>6, <1>7, <1>8 DEF MaintenanceInv, UnrecordedIsReal

\* A rename keeps of a counter what it read and did not drop.
LEMMA KeptOf ==
  ASSUME NEW counter, NEW before
  PROVE  KeptRecords(counter, before) \subseteq counter
BY DEF KeptRecords

LEMMA WriteEntriesKeeps ==
  ASSUME MaintenanceInv, NEW c \in Commands, WriteEntries(c)
  PROVE  MaintenanceInv'
<1> DEFINE before == cmds[c].before
           kept == KeptRecords(cmds[c].seen, before)
           k == [pc |-> "read-nonturns", before |-> before]
<1>1. /\ cmds[c].pc = "write-entries" /\ cmds' = [cmds EXCEPT ![c] = k]
      /\ UNCHANGED <<store, copies, nonturns, hooks, time, report, harm, overrun, replaced>>
  BY DEF WriteEntries
<1>2. entries' = IF kept = cmds[c].seen THEN entries ELSE kept
  BY DEF WriteEntries
<1>3. \A d \in Commands : cmds'[d] = IF d = c THEN k ELSE cmds[d]
  BY <1>1 DEF MaintenanceInv, UpkeepType
<1>4. CommandOf(cmds[c]) /\ before \in Int /\ k.pc = "read-nonturns" /\ k.before = before
  BY <1>1 DEF MaintenanceInv, UpkeepType, CommandOf, Sweeping
<1> HIDE DEF k
<1>5. IsFiniteSet(kept) /\ \A n \in kept : EntryOf(n)
  BY <1>1, <1>4, KeptOf, FS_Subset DEF CommandOf
<1>6. \A n : EntryOf(n)' = EntryOf(n) /\ NonTurnOf(n)' = NonTurnOf(n)
  BY <1>1 DEF EntryOf, NonTurnOf
<1>7. UpkeepType'
  <2>1. \A t \in Turns : TurnOf(hooks[t])'
    BY <1>1 DEF MaintenanceInv, UpkeepType, TurnOf
  <2>2. \A d \in Commands : CommandOf(cmds[d])'
    BY <1>1, <1>3, <1>4, <1>6 DEF MaintenanceInv, UpkeepType, CommandOf, Sweeping
  <2>3. cmds' = [d \in Commands |-> cmds'[d]]
    BY <1>1 DEF MaintenanceInv, UpkeepType
  <2>4. IsStore(store)' = IsStore(store)
    BY <1>1 DEF IsStore
  <2>5. IsFiniteSet(entries') /\ \A n \in entries' : EntryOf(n)'
    BY <1>2, <1>5, <1>6 DEF MaintenanceInv, UpkeepType
  <2>6. QED
    BY <1>1, <1>6, <2>1, <2>2, <2>3, <2>4, <2>5 DEF MaintenanceInv, UpkeepType
<1>8. SpaceInv'
  <2>1. Coming' = Coming /\ Occupied' = Occupied /\ DatabaseBytes' = DatabaseBytes
    BY <1>1 DEF Coming, Occupied, DatabaseBytes
  <2>2. \A d \in Commands : cmds'[d].pc = "copy" /\ SameFile(d)' => cmds[d].pc = "copy" /\ SameFile(d)
    BY <1>1, <1>3, <1>4 DEF SameFile
  <2>3. QED
    BY <1>1, <2>1, <2>2 DEF MaintenanceInv, SpaceInv, Fits
<1>9. harm' = {} => CountersCover'
  <2>1. SUFFICES ASSUME harm = {} PROVE CountersCover'
    BY <1>1
  <2>2. CountersCover /\ cmds[c].seen = entries
    BY <1>1, <2>1 DEF MaintenanceInv, CountersCover
  <2>3. \A d \in Commands : cmds[d].pc \in Sweeping => d = c
    BY <1>1, <2>2 DEF CountersCover, Sweeping
  <2>4. entries' = {n \in entries : n.at >= before}
    BY <1>2, <2>2 DEF KeptRecords
  <2>5. \A n \in entries : n.at \in Nat
    BY DEF MaintenanceInv, UpkeepType, EntryOf, TurnOf
  <2>6. \A n \in entries' : n \in entries /\ ~Doomed(n)
    BY <1>4, <2>3, <2>4, <2>5 DEF Doomed, Sweeping
  <2>7. \A events, until : Matched(events, until) => Matched(events, until)'
    BY <1>1, <2>6 DEF Matched, RowIn
  <2>8. \A d \in Commands :
          /\ cmds'[d].pc = "figures" => Matched(cmds[d].rows.events, cmds[d].at)'
          /\ cmds'[d].pc \notin {"write-entries", "write-nonturns"}
          /\ cmds'[d].pc \in {"read-nonturns", "write-nonturns"} => \A n \in entries' : n.at >= cmds'[d].before
          /\ cmds'[d].pc \in Sweeping => d = c
    <3>1. \A d \in Commands : cmds'[d].pc = "figures" => Matched(cmds[d].rows.events, cmds[d].at)'
      BY <1>3, <1>4, <2>2, <2>7 DEF CountersCover
    <3>2. QED
      BY <1>3, <1>4, <2>3, <2>4, <3>1 DEF Sweeping
  <2>9. \A n \in entries' :
          hooks'[n.turn].pc = "notification" => [turn |-> n.turn, at |-> hooks'[n.turn].ended] \in nonturns'
    BY <1>1, <2>2, <2>6 DEF CountersCover
  <2>10. QED
    BY <1>1, <2>2, <2>7, <2>8, <2>9 DEF CountersCover, Sweeping
<1>10. QED
  BY <1>1, <1>7, <1>8, <1>9 DEF MaintenanceInv, UnrecordedIsReal

LEMMA WriteNonTurnsKeeps ==
  ASSUME MaintenanceInv, NEW c \in Commands, WriteNonTurns(c)
  PROVE  MaintenanceInv'
<1> DEFINE before == cmds[c].before
           kept == KeptRecords(cmds[c].seen, before)
<1>1. /\ cmds[c].pc = "write-nonturns" /\ Finish(c, "aligned")
      /\ UNCHANGED <<store, copies, entries, hooks, time, report, harm, overrun, replaced>>
  BY DEF WriteNonTurns
<1>2. nonturns' = IF kept = cmds[c].seen THEN nonturns ELSE kept
  BY DEF WriteNonTurns
<1>3. PICK k : cmds' = [cmds EXCEPT ![c] = k] /\ k.pc = "done"
  BY <1>1, FinishIs
<1>4. \A d \in Commands : cmds'[d] = IF d = c THEN k ELSE cmds[d]
  BY <1>3 DEF MaintenanceInv, UpkeepType
<1>5. IsFiniteSet(kept) /\ \A n \in kept : NonTurnOf(n)
  BY <1>1, KeptOf, FS_Subset DEF MaintenanceInv, UpkeepType, CommandOf
<1>6. \A n : EntryOf(n)' = EntryOf(n) /\ NonTurnOf(n)' = NonTurnOf(n)
  BY <1>1 DEF EntryOf, NonTurnOf
<1>7. UpkeepType'
  <2>1. \A t \in Turns : TurnOf(hooks[t])'
    BY <1>1 DEF MaintenanceInv, UpkeepType, TurnOf
  <2>2. \A d \in Commands : CommandOf(cmds[d])'
    BY <1>1, <1>3, <1>4, <1>6 DEF MaintenanceInv, UpkeepType, CommandOf, Sweeping
  <2>3. cmds' = [d \in Commands |-> cmds'[d]]
    BY <1>3 DEF MaintenanceInv, UpkeepType
  <2>4. IsStore(store)' = IsStore(store)
    BY <1>1 DEF IsStore
  <2>5. IsFiniteSet(nonturns') /\ \A n \in nonturns' : NonTurnOf(n)'
    BY <1>2, <1>5, <1>6 DEF MaintenanceInv, UpkeepType
  <2>6. QED
    BY <1>1, <1>6, <2>1, <2>2, <2>3, <2>4, <2>5 DEF MaintenanceInv, UpkeepType
<1>8. SpaceInv'
  <2>1. Coming' = Coming /\ Occupied' = Occupied /\ DatabaseBytes' = DatabaseBytes
    BY <1>1 DEF Coming, Occupied, DatabaseBytes
  <2>2. \A d \in Commands : cmds'[d].pc = "copy" /\ SameFile(d)' => cmds[d].pc = "copy" /\ SameFile(d)
    BY <1>1, <1>3, <1>4 DEF SameFile
  <2>3. QED
    BY <1>1, <2>1, <2>2 DEF MaintenanceInv, SpaceInv, Fits
<1>9. harm' = {} => CountersCover'
  <2>1. SUFFICES ASSUME harm = {} PROVE CountersCover'
    BY <1>1
  <2>2. /\ CountersCover /\ cmds[c].seen = nonturns /\ \A n \in entries : n.at >= before
        /\ \A d \in Commands : cmds[d].pc \in Sweeping => d = c
    BY <1>1, <2>1 DEF MaintenanceInv, CountersCover, Sweeping
  <2>3. nonturns' = {n \in nonturns : n.at >= before}
    BY <1>2, <2>2 DEF KeptRecords
  <2>4. \A events, until : Matched(events, until) => Matched(events, until)'
    <3>1. \A n : Doomed(n) => Doomed(n)'
      BY <1>1, <1>4 DEF Doomed
    <3>2. QED
      BY <1>1, <3>1 DEF Matched, RowIn
  <2>5. \A d \in Commands : cmds'[d].pc = "figures" => Matched(cmds[d].rows.events, cmds[d].at)'
    BY <1>3, <1>4, <2>2, <2>4 DEF CountersCover
  <2>6. \A d \in Commands : cmds'[d].pc \notin Sweeping
    BY <1>3, <1>4, <2>2 DEF Sweeping
  <2>7. \A n \in entries' :
          hooks'[n.turn].pc = "notification" => [turn |-> n.turn, at |-> hooks'[n.turn].ended] \in nonturns'
    <3>1. SUFFICES ASSUME NEW n \in entries, hooks[n.turn].pc = "notification"
                   PROVE  [turn |-> n.turn, at |-> hooks[n.turn].ended] \in nonturns'
      BY <1>1
    <3>2. n.at = hooks[n.turn].at /\ n.at \in Nat /\ hooks[n.turn].ended \in Nat /\ n.at <= hooks[n.turn].ended
      BY <3>1 DEF MaintenanceInv, UpkeepType, EntryOf, TurnOf
    <3>3. before \in Int
      BY <1>1 DEF MaintenanceInv, UpkeepType, CommandOf, Sweeping
    <3>4. QED
      BY <2>2, <2>3, <3>1, <3>2, <3>3 DEF CountersCover
  <2>8. QED
    BY <1>1, <2>2, <2>4, <2>5, <2>6, <2>7 DEF CountersCover, Sweeping
<1>10. QED
  BY <1>1, <1>7, <1>8, <1>9 DEF MaintenanceInv, UnrecordedIsReal

LEMMA StopEarlyKeeps ==
  ASSUME MaintenanceInv, NEW c \in Commands, StopEarly(c)
  PROVE  MaintenanceInv'
<1>1. Still /\ UNCHANGED <<copies, overrun, report>> /\ harm' # {}
  BY DEF StopEarly, Still, StoreStays
<1>2. PICK k : cmds' = [cmds EXCEPT ![c] = k] /\ k.pc = "done"
  BY FinishIs DEF StopEarly
<1>3. CommandOf(k)
  BY <1>2, EndedIs
<1>4. UpkeepType'
  BY <1>1, <1>2, <1>3, TypeMoves DEF MaintenanceInv, UpkeepType
<1>5. SpaceInv'
  BY <1>1, <1>2, SpaceMoves DEF MaintenanceInv
<1>6. QED
  BY <1>1, <1>4, <1>5 DEF MaintenanceInv, UnrecordedIsReal

-----------------------------------------------------------------------------
\* What one hook does to its own turn.
TurnStays(t, h) ==
  /\ hooks' = [hooks EXCEPT ![t] = h] /\ UNCHANGED <<cmds, copies, time, replaced>>
  /\ TurnOf(h) /\ h.pc # "none"
  /\ hooks[t].pc \in {"none", "running", "admitted"}
  /\ hooks[t].pc # "none" => h.at = hooks[t].at
  /\ store = NoStore => store' = NoStore
  /\ store # NoStore => IsStore(store)' /\ store'.file = store.file

LEMMA TurnMoves ==
  ASSUME UpkeepType, NEW t \in Turns, NEW h, TurnStays(t, h)
  PROVE  /\ \A u \in Turns : hooks'[u] = IF u = t THEN h ELSE hooks[u]
         /\ (store' = NoStore) = (store = NoStore)
         /\ \A n : EntryOf(n) => EntryOf(n)'
         /\ \A n : NonTurnOf(n) => NonTurnOf(n)'
         /\ (IsFiniteSet(entries') /\ \A n \in entries' : EntryOf(n)')
            /\ (IsFiniteSet(nonturns') /\ \A n \in nonturns' : NonTurnOf(n)')
            => UpkeepType'
<1>1. \A u \in Turns : hooks'[u] = IF u = t THEN h ELSE hooks[u]
  BY DEF UpkeepType, TurnStays
<1>2. (store' = NoStore) = (store = NoStore)
  <2>1. IsStore(store)' => IsStore(store')
    BY DEF TurnStays, IsStore
  <2>2. QED
    BY <2>1, StoreThere DEF TurnStays
<1>3. \A n : EntryOf(n) => EntryOf(n)'
  BY <1>1 DEF EntryOf, TurnStays
<1>4. \A n : NonTurnOf(n) => NonTurnOf(n)'
  BY <1>1 DEF NonTurnOf, TurnStays
<1>5. \A u \in Turns : TurnOf(hooks[u])'
  BY <1>1, <1>2 DEF UpkeepType, TurnOf, TurnStays
<1>6. \A c \in Commands : CommandOf(cmds[c])'
  BY <1>2, <1>3, <1>4 DEF UpkeepType, CommandOf, TurnStays, Sweeping
<1>7. hooks' = [u \in Turns |-> hooks'[u]]
  BY DEF UpkeepType, TurnStays
<1>8. QED
  BY <1>1, <1>2, <1>3, <1>4, <1>5, <1>6, <1>7 DEF UpkeepType, TurnStays

\* The entries of the other turns are matched as they were.
LEMMA MatchedMoves ==
  ASSUME UpkeepType, NEW t \in Turns, NEW h, TurnStays(t, h), NEW events, NEW until, Matched(events, until),
         NEW n \in entries, n.turn # t, hooks[n.turn].pc = "recorded", hooks[n.turn].ended < until
  PROVE  RowIn(n.turn, events)' \/ Doomed(n)'
<1>1. n.turn \in Turns /\ hooks'[n.turn] = hooks[n.turn]
  BY TurnMoves DEF UpkeepType, EntryOf
<1>2. RowIn(n.turn, events) \/ Doomed(n)
  BY DEF Matched
<1>3. QED
  BY <1>1, <1>2 DEF RowIn, Doomed, TurnStays

\* While nothing befalls the counters: what a hook adds is its own, and is found.
LEMMA CoverOfTurn ==
  ASSUME UpkeepType, CountersCover, store # NoStore, NEW t \in Turns, NEW h, TurnStays(t, h),
         store.events \subseteq store'.events,
         \A n \in entries' : n \in entries \/ n.turn = t,
         nonturns \subseteq nonturns',
         h.pc = "recorded" => h.ended = time /\ \E e \in store'.events : e.id = t /\ e.at = h.ended /\ e.channel = "hook",
         h.pc = "notification" => [turn |-> t, at |-> h.ended] \in nonturns',
         UNCHANGED <<entries, nonturns>> \/ \A c \in Commands : cmds[c].pc \notin Sweeping
  PROVE  CountersCover'
<1>1. /\ \A u \in Turns : hooks'[u] = IF u = t THEN h ELSE hooks[u]
      /\ store' # NoStore /\ UNCHANGED <<cmds, time>>
  BY TurnMoves DEF TurnStays
<1>2. \A n \in entries' :
        /\ n.turn = t => hooks'[n.turn] = h
        /\ n.turn # t => n \in entries /\ n.turn \in Turns /\ hooks'[n.turn] = hooks[n.turn]
  <2>1. \A n \in entries : n.turn \in Turns
    BY DEF UpkeepType, EntryOf
  <2>2. QED
    BY <1>1, <2>1
<1>3. Matched(store.events, time + 1)'
  <2>1. SUFFICES ASSUME NEW n \in entries', hooks'[n.turn].pc = "recorded", hooks'[n.turn].ended < time' + 1
                 PROVE  RowIn(n.turn, store.events)'
                        \/ Doomed(n)'
    BY DEF Matched
  <2>2. CASE n.turn = t
    BY <1>2, <2>1, <2>2 DEF RowIn
  <2>3. CASE n.turn # t
    <3>1. n \in entries /\ hooks[n.turn].pc = "recorded" /\ hooks[n.turn].ended < time + 1
      BY <1>1, <1>2, <2>1, <2>3
    <3>2. RowIn(n.turn, store.events) \/ Doomed(n)
      BY <3>1 DEF CountersCover, Matched
    <3>3. QED
      BY <1>1, <1>2, <2>1, <2>3, <3>2 DEF RowIn, Doomed
  <2>4. QED
    BY <2>2, <2>3
<1>4. ASSUME NEW c \in Commands, cmds'[c].pc = "figures"
      PROVE  Matched(cmds[c].rows.events, cmds[c].at)'
  <2>1. SUFFICES ASSUME NEW n \in entries', hooks'[n.turn].pc = "recorded", hooks'[n.turn].ended < cmds[c].at
                 PROVE  RowIn(n.turn, cmds[c].rows.events)' \/ Doomed(n)'
    BY <1>1 DEF Matched
  <2>2. cmds[c].pc = "figures" /\ cmds[c].at \in Int /\ cmds[c].at <= time /\ time \in Int
    BY <1>1, <1>4 DEF UpkeepType, CommandOf
  <2>3. n.turn # t
    BY <1>2, <2>1, <2>2
  <2>4. RowIn(n.turn, cmds[c].rows.events) \/ Doomed(n)
    BY <1>2, <2>1, <2>2, <2>3 DEF CountersCover, Matched
  <2>5. QED
    BY <1>1, <1>2, <2>3, <2>4 DEF RowIn, Doomed
<1>5. \A n \in entries' :
        hooks'[n.turn].pc = "notification" => [turn |-> n.turn, at |-> hooks'[n.turn].ended] \in nonturns'
  BY <1>2 DEF CountersCover
<1>6. \A c \in Commands :
        /\ cmds'[c].pc = "write-entries" => cmds'[c].seen = entries'
        /\ cmds'[c].pc = "write-nonturns" => cmds'[c].seen = nonturns'
        /\ cmds'[c].pc \in {"read-nonturns", "write-nonturns"} => \A n \in entries' : n.at >= cmds'[c].before
  BY <1>1 DEF CountersCover, Sweeping
<1>7. QED
  BY <1>1, <1>3, <1>4, <1>5, <1>6 DEF CountersCover

\* The space under a hook that leaves the rows alone and waits no longer than before.
LEMMA SpaceOfTurn ==
  ASSUME UpkeepType, SpaceInv, NEW t \in Turns, NEW h, TurnStays(t, h), UNCHANGED <<store, overrun>>,
         h.pc # "admitted"
  PROVE  SpaceInv'
<1>1. \A u \in Turns : hooks'[u] = IF u = t THEN h ELSE hooks[u]
  BY TurnMoves
<1>2. Coming' \subseteq Coming
  BY <1>1 DEF Coming
<1>3. IsFiniteSet(Coming) /\ Cardinality(Coming) \in Nat /\ Occupied \in Nat
  BY SpaceIs
<1>4. Cardinality(Coming') \in Nat /\ Cardinality(Coming') <= Cardinality(Coming)
  BY <1>2, <1>3, FS_Subset, FS_CardinalityType
<1>5. Occupied' = Occupied /\ DatabaseBytes' = DatabaseBytes
  BY DEF Occupied, DatabaseBytes, TurnStays
<1>6. \A c \in Commands : cmds'[c].pc = "copy" /\ SameFile(c)' => cmds[c].pc = "copy" /\ SameFile(c)
  BY DEF SameFile, TurnStays
<1>7. Coming' # {} => Coming # {} /\ (Fits(Occupied + Cardinality(Coming)) => Fits(Occupied + Cardinality(Coming))')
  BY <1>2, <1>3, <1>4, <1>5, SpaceAssumption DEF Fits
<1>8. QED
  BY <1>5, <1>6, <1>7 DEF SpaceInv, Fits

\* A counter a record goes into stays finite, and holds what it held.
LEMMA CountedIs ==
  ASSUME NEW counter, IsFiniteSet(counter), NEW t
  PROVE  /\ IsFiniteSet(Counted(counter, t)) /\ counter \subseteq Counted(counter, t)
         /\ \A n \in Counted(counter, t) : n \in counter \/ n = [turn |-> t, at |-> time]
         /\ CanCount(counter) => [turn |-> t, at |-> time] \in Counted(counter, t)
BY FS_AddElement DEF Counted

LEMMA EnterKeeps ==
  ASSUME MaintenanceInv, NEW t \in Turns, Enter(t)
  PROVE  MaintenanceInv'
<1> DEFINE h == [pc |-> "running", at |-> time]
<1>1. /\ hooks[t].pc = "none" /\ store # NoStore /\ hooks' = [hooks EXCEPT ![t] = h]
      /\ entries' = Counted(entries, t) /\ harm' = harm \cup Befell(entries)
      /\ UNCHANGED <<store, copies, nonturns, cmds, time, report, overrun, replaced>>
  BY DEF Enter
<1>2. time \in Nat /\ TurnOf(h) /\ h.pc = "running" /\ h.at = time
  BY ClockAssumption DEF MaintenanceInv, UpkeepType, TurnOf
<1> HIDE DEF h
<1>3. TurnStays(t, h)
  BY <1>1, <1>2 DEF TurnStays, MaintenanceInv, UpkeepType, IsStore
<1>4. \A n \in entries' : n \in entries \/ n = [turn |-> t, at |-> time]
  BY <1>1, CountedIs DEF MaintenanceInv, UpkeepType
<1>5. UpkeepType'
  <2>1. \A n \in entries' : EntryOf(n)'
    <3>1. \A n : n = [turn |-> t, at |-> time] => EntryOf(n)'
      BY <1>2, <1>3, TurnMoves DEF MaintenanceInv, EntryOf
    <3>2. \A n \in entries : EntryOf(n)'
      BY <1>3, TurnMoves DEF MaintenanceInv, UpkeepType
    <3>3. QED
      BY <1>4, <3>1, <3>2
  <2>2. IsFiniteSet(entries') /\ IsFiniteSet(nonturns') /\ \A n \in nonturns' : NonTurnOf(n)'
    BY <1>1, <1>3, CountedIs, TurnMoves DEF MaintenanceInv, UpkeepType
  <2>3. QED
    BY <1>3, <2>1, <2>2, TurnMoves DEF MaintenanceInv
<1>6. SpaceInv'
  BY <1>1, <1>2, <1>3, SpaceOfTurn DEF MaintenanceInv
<1>7. ASSUME harm' = {} PROVE CountersCover'
  <2>1. harm = {} /\ \A c \in Commands : cmds[c].pc \notin Sweeping
    BY <1>1, <1>7 DEF Befell, Aligning, Sweeping
  <2>2. \A n \in entries' : n \in entries \/ n.turn = t
    BY <1>4
  <2>3. QED
    BY <1>1, <1>2, <1>3, <2>1, <2>2, CoverOfTurn DEF MaintenanceInv
<1>8. QED
  BY <1>1, <1>5, <1>6, <1>7 DEF MaintenanceInv, UnrecordedIsReal

LEMMA NonTurnKeeps ==
  ASSUME MaintenanceInv, NEW t \in Turns, NonTurn(t)
  PROVE  MaintenanceInv'
<1> DEFINE h == [pc |-> "notification", at |-> hooks[t].at, ended |-> time]
<1>1. /\ hooks[t].pc = "running" /\ hooks' = [hooks EXCEPT ![t] = h]
      /\ nonturns' = Counted(nonturns, t) /\ harm' = harm \cup Befell(nonturns)
      /\ UNCHANGED <<store, copies, entries, cmds, time, report, overrun, replaced>>
  BY DEF NonTurn
<1>2. TurnOf(hooks[t]) /\ time \in Nat
  BY ClockAssumption DEF MaintenanceInv, UpkeepType
<1>3. TurnOf(h) /\ h.pc = "notification" /\ h.at = hooks[t].at /\ h.ended = time
  BY <1>1, <1>2 DEF TurnOf
<1> HIDE DEF h
<1>4. TurnStays(t, h)
  BY <1>1, <1>3 DEF TurnStays, MaintenanceInv, UpkeepType, IsStore
<1>5. \A n \in nonturns' : n \in nonturns \/ n = [turn |-> t, at |-> time]
  BY <1>1, CountedIs DEF MaintenanceInv, UpkeepType
<1>6. UpkeepType'
  <2>1. \A n \in nonturns' : NonTurnOf(n)'
    <3>1. \A n : n = [turn |-> t, at |-> time] => NonTurnOf(n)'
      BY <1>3, <1>4, TurnMoves DEF MaintenanceInv, NonTurnOf
    <3>2. \A n \in nonturns : NonTurnOf(n)'
      BY <1>4, TurnMoves DEF MaintenanceInv, UpkeepType
    <3>3. QED
      BY <1>5, <3>1, <3>2
  <2>2. IsFiniteSet(entries') /\ IsFiniteSet(nonturns') /\ \A n \in entries' : EntryOf(n)'
    BY <1>1, <1>4, CountedIs, TurnMoves DEF MaintenanceInv, UpkeepType
  <2>3. QED
    BY <1>4, <2>1, <2>2, TurnMoves DEF MaintenanceInv
<1>7. SpaceInv'
  BY <1>1, <1>3, <1>4, SpaceOfTurn DEF MaintenanceInv
<1>8. ASSUME harm' = {} PROVE CountersCover'
  <2>1. harm = {} /\ CanCount(nonturns) /\ \A c \in Commands : cmds[c].pc \notin Sweeping
    BY <1>1, <1>8 DEF Befell, Aligning, Sweeping
  <2>2. nonturns \subseteq nonturns' /\ [turn |-> t, at |-> time] \in nonturns'
    BY <1>1, <2>1, CountedIs DEF MaintenanceInv, UpkeepType
  <2>3. store # NoStore
    BY <2>1 DEF CanCount
  <2>4. QED
    BY <1>1, <1>3, <1>4, <2>1, <2>2, <2>3, CoverOfTurn DEF MaintenanceInv
<1>9. QED
  BY <1>1, <1>6, <1>7, <1>8 DEF MaintenanceInv, UnrecordedIsReal

LEMMA LoseKeeps ==
  ASSUME MaintenanceInv, NEW t \in Turns, Lose(t)
  PROVE  MaintenanceInv'
<1> DEFINE h == [hooks[t] EXCEPT !.pc = "lost"]
<1>1. /\ hooks[t].pc \in {"running", "admitted"} /\ hooks' = [hooks EXCEPT ![t] = h]
      /\ UNCHANGED <<store, copies, entries, nonturns, cmds, time, report, harm, overrun, replaced>>
  BY DEF Lose
<1>2. TurnOf(hooks[t])
  BY DEF MaintenanceInv, UpkeepType
<1>3. h.pc = "lost" /\ h.at = hooks[t].at /\ {"pc", "at"} \subseteq DOMAIN h
  BY <1>1, <1>2 DEF TurnOf
<1> HIDE DEF h
<1>4. TurnOf(h)
  BY <1>1, <1>2, <1>3 DEF TurnOf
<1>5. TurnStays(t, h)
  BY <1>1, <1>3, <1>4 DEF TurnStays, MaintenanceInv, UpkeepType, IsStore
<1>6. UpkeepType'
  BY <1>1, <1>5, TurnMoves DEF MaintenanceInv, UpkeepType
<1>7. SpaceInv'
  BY <1>1, <1>3, <1>5, SpaceOfTurn DEF MaintenanceInv
<1>8. ASSUME harm' = {} PROVE CountersCover'
  <2>1. CountersCover /\ store # NoStore
    BY <1>1, <1>8 DEF MaintenanceInv, CountersCover
  <2>2. QED
    BY <1>1, <1>3, <1>5, <2>1, CoverOfTurn DEF MaintenanceInv
<1>9. QED
  BY <1>1, <1>6, <1>7, <1>8 DEF MaintenanceInv, UnrecordedIsReal

LEMMA AdmitKeeps ==
  ASSUME MaintenanceInv, NEW t \in Turns, Admit(t)
  PROVE  MaintenanceInv'
<1> DEFINE h == [pc |-> "admitted", at |-> hooks[t].at, file |-> store.file, schema |-> store.schema,
                 data |-> store.data]
<1>1. /\ hooks[t].pc = "running" /\ store # NoStore /\ RecordingAdmitted /\ hooks' = [hooks EXCEPT ![t] = h]
      /\ overrun' = (overrun \/ Cardinality(Admitted) >= MAINTENANCE_RESERVE + MUTATION_RESERVE - PRUNE_BYTES)
      /\ UNCHANGED <<store, copies, entries, nonturns, cmds, time, report, harm, replaced>>
  BY DEF Admit
<1>2. TurnOf(hooks[t]) /\ IsStore(store)
  BY <1>1 DEF MaintenanceInv, UpkeepType
<1>3. TurnOf(h) /\ h.pc = "admitted" /\ h.at = hooks[t].at
  BY <1>1, <1>2 DEF TurnOf, IsStore
<1> HIDE DEF h
<1>4. TurnStays(t, h)
  BY <1>1, <1>2, <1>3 DEF TurnStays, MaintenanceInv, UpkeepType, IsStore
<1>5. UpkeepType'
  BY <1>1, <1>4, TurnMoves DEF MaintenanceInv, UpkeepType
<1>6. SpaceInv'
  <2>1. SUFFICES ASSUME ~overrun' PROVE SpaceInv'
    BY DEF SpaceInv
  <2>2. ~overrun /\ ~(Cardinality(Admitted) >= MAINTENANCE_RESERVE + MUTATION_RESERVE - PRUNE_BYTES)
    BY <1>1, <2>1
  <2>3. /\ Occupied \in Nat /\ IsFiniteSet(Coming) /\ Cardinality(Coming) \in Nat
        /\ Cardinality(Admitted) \in Nat /\ Cardinality(Coming) <= Cardinality(Admitted)
    BY SpaceIs DEF MaintenanceInv
  <2>4. Coming' \subseteq Coming \cup {t}
    BY <1>1, <1>4, TurnMoves DEF MaintenanceInv, Coming
  <2>5. Cardinality(Coming') \in Nat /\ Cardinality(Coming') <= Cardinality(Coming) + 1
    <3>1. IsFiniteSet(Coming \cup {t}) /\ Cardinality(Coming \cup {t}) <= Cardinality(Coming) + 1
      <4>1. /\ IsFiniteSet(Coming \cup {t})
            /\ Cardinality(Coming \cup {t}) = IF t \in Coming THEN Cardinality(Coming) ELSE Cardinality(Coming) + 1
        BY <2>3, FS_AddElement
      <4>2. QED
        BY <2>3, <4>1
    <3>2. Cardinality(Coming') \in Nat /\ Cardinality(Coming') <= Cardinality(Coming \cup {t})
      BY <2>4, <3>1, FS_Subset, FS_CardinalityType
    <3>3. Cardinality(Coming \cup {t}) \in Nat
      BY <3>1, FS_CardinalityType
    <3>4. QED
      BY <2>3, <3>1, <3>2, <3>3
  <2>6. Occupied' = Occupied /\ DatabaseBytes' = DatabaseBytes
    BY <1>1 DEF Occupied, DatabaseBytes
  <2>7. Fits(Occupied)' /\ Fits(Occupied + Cardinality(Coming))'
    BY <1>1, <2>2, <2>3, <2>5, <2>6, SpaceAssumption DEF Fits, RecordingAdmitted
  <2>8. \A c \in Commands : cmds'[c].pc = "copy" /\ SameFile(c)' => cmds[c].pc = "copy" /\ SameFile(c)
    BY <1>1 DEF SameFile
  <2>9. QED
    BY <2>2, <2>6, <2>7, <2>8 DEF MaintenanceInv, SpaceInv, Fits
<1>7. ASSUME harm' = {} PROVE CountersCover'
  BY <1>1, <1>3, <1>4, <1>7, CoverOfTurn DEF MaintenanceInv
<1>8. QED
  BY <1>1, <1>5, <1>6, <1>7 DEF MaintenanceInv, UnrecordedIsReal

LEMMA RecordRowKeeps ==
  ASSUME MaintenanceInv, NEW t \in Turns, Record(t)
  PROVE  MaintenanceInv'
<1> DEFINE h == [pc |-> "recorded", at |-> hooks[t].at, ended |-> time]
<1>1. /\ hooks[t].pc = "admitted" /\ store # NoStore /\ store.file = hooks[t].file
      /\ hooks' = [hooks EXCEPT ![t] = h]
      /\ overrun' = (overrun \/ \E c \in Commands : cmds[c].pc = "copy")
      /\ UNCHANGED <<copies, entries, nonturns, cmds, time, report, harm, replaced>>
  BY DEF Record
<1>2. TurnOf(hooks[t]) /\ IsStore(store) /\ time \in Nat
  BY <1>1, ClockAssumption DEF MaintenanceInv, UpkeepType
<1>3. PICK row : /\ store' = [store EXCEPT !.events = @ \cup {row}]
                 /\ row.id = t /\ row.at = time /\ row.channel = "hook"
  <2>1. PICK shape \in Shapes : store' = [store EXCEPT !.events = @ \cup {HookRow(t, shape)}]
    BY DEF Record
  <2>2. HookRow(t, shape).id = t /\ HookRow(t, shape).at = time /\ HookRow(t, shape).channel = "hook"
    BY DEF HookRow
  <2>3. QED
    BY <2>1, <2>2
<1>4. TurnOf(h) /\ h.pc = "recorded" /\ h.at = hooks[t].at /\ h.ended = time
  BY <1>1, <1>2 DEF TurnOf
<1> HIDE DEF h
<1>5. /\ store' = [file |-> store.file, version |-> store.version, schema |-> store.schema, data |-> store.data,
                   events |-> store.events \cup {row}, labels |-> store.labels, loads |-> store.loads]
      /\ IsFiniteSet(store.events \cup {row})
      /\ Cardinality(store.events \cup {row}) = IF row \in store.events THEN Cardinality(store.events)
                                                ELSE Cardinality(store.events) + 1
  BY <1>2, <1>3, FS_AddElement DEF IsStore
<1>6. /\ IsStore(store)' /\ store'.file = store.file /\ store'.events = store.events \cup {row}
      /\ store' # NoStore
  <2>1. IsStore(store)' /\ IsStore(store')
    BY <1>1, <1>2, <1>5 DEF IsStore
  <2>2. QED
    BY <1>5, <2>1, StoreThere
<1>7. TurnStays(t, h)
  BY <1>1, <1>4, <1>6 DEF TurnStays
<1>8. UpkeepType'
  BY <1>1, <1>7, TurnMoves DEF MaintenanceInv, UpkeepType
<1>9. SpaceInv'
  <2>1. SUFFICES ASSUME ~overrun' PROVE SpaceInv'
    BY DEF SpaceInv
  <2>2. ~overrun /\ \A c \in Commands : cmds'[c].pc # "copy"
    BY <1>1, <2>1
  <2>3. t \in Coming /\ Coming' \subseteq Coming \ {t}
    BY <1>1, <1>4, <1>6, <1>7, TurnMoves DEF MaintenanceInv, Coming
  <2>4. IsFiniteSet(Coming) /\ Cardinality(Coming) \in Nat /\ Occupied \in Nat /\ DatabaseBytes \in Nat /\ copies \in Nat
    BY SpaceIs DEF MaintenanceInv, UpkeepType
  <2>5. Cardinality(Coming') \in Nat /\ Cardinality(Coming') + 1 <= Cardinality(Coming)
    <3>1. IsFiniteSet(Coming \ {t}) /\ Cardinality(Coming \ {t}) = Cardinality(Coming) - 1
      BY <2>3, <2>4, FS_RemoveElement
    <3>2. Cardinality(Coming') \in Nat /\ Cardinality(Coming') <= Cardinality(Coming \ {t})
      BY <2>3, <3>1, FS_Subset, FS_CardinalityType
    <3>3. QED
      BY <2>4, <3>1, <3>2
  <2>6. Occupied' \in Nat /\ Occupied' <= Occupied + 1
    <3>1. Cardinality(store.events) \in Nat
      BY <1>2, FS_CardinalityType DEF IsStore
    <3>2. DatabaseBytes = 1 + Cardinality(store.events) /\ DatabaseBytes' = 1 + Cardinality(store.events \cup {row})
      BY <1>1, <1>6 DEF DatabaseBytes
    <3>3. QED
      BY <1>1, <1>5, <2>4, <3>1, <3>2 DEF Occupied
  <2>7. Fits(Occupied + Cardinality(Coming))
    BY <2>2, <2>3 DEF MaintenanceInv, SpaceInv
  <2>8. Fits(Occupied)' /\ Fits(Occupied + Cardinality(Coming))'
    BY <2>4, <2>5, <2>6, <2>7, SpaceAssumption DEF Fits
  <2>9. QED
    BY <2>2, <2>8 DEF SpaceInv
<1>10. ASSUME harm' = {} PROVE CountersCover'
  <2>1. CountersCover
    BY <1>1, <1>10 DEF MaintenanceInv
  <2>2. store.events \subseteq store'.events
        /\ \E e \in store'.events : e.id = t /\ e.at = h.ended /\ e.channel = "hook"
    BY <1>3, <1>4, <1>6
  <2>3. QED
    BY <1>1, <1>4, <1>7, <2>1, <2>2, CoverOfTurn DEF MaintenanceInv
<1>11. QED
  BY <1>1, <1>8, <1>9, <1>10 DEF MaintenanceInv, UnrecordedIsReal

\* What is said of a row afterwards leaves the rows as they are.
LEMMA StillKeeps ==
  ASSUME MaintenanceInv, Still, UNCHANGED <<cmds, copies, report, harm, overrun>>
  PROVE  MaintenanceInv'
<1>1. UpkeepType'
  BY StillIs DEF MaintenanceInv, UpkeepType, Still
<1>2. SpaceInv'
  <2>1. Coming' = Coming /\ Occupied' = Occupied /\ DatabaseBytes' = DatabaseBytes
    BY StillIs DEF MaintenanceInv, Occupied
  <2>2. \A c \in Commands : cmds'[c].pc = "copy" /\ SameFile(c)' => cmds[c].pc = "copy" /\ SameFile(c)
    BY StillIs DEF MaintenanceInv, SameFile
  <2>3. QED
    BY <2>1, <2>2 DEF MaintenanceInv, SpaceInv, Fits
<1>3. ASSUME harm' = {} PROVE CountersCover'
  <2>1. CountersCover /\ UNCHANGED <<entries, nonturns, hooks, time, cmds>>
    BY <1>3 DEF MaintenanceInv, Still
  <2>2. \A events, until : Matched(events, until) => Matched(events, until)'
    BY <2>1 DEF Matched, RowIn, Doomed
  <2>3. store' # NoStore => Matched(store.events, time + 1)'
    BY <2>1, <2>2, StillIs DEF MaintenanceInv, CountersCover
  <2>4. \A c \in Commands : cmds'[c].pc = "figures" => Matched(cmds[c].rows.events, cmds[c].at)'
    BY <2>1, <2>2 DEF CountersCover
  <2>5. QED
    BY <2>1, <2>3, <2>4, StillIs DEF MaintenanceInv, CountersCover
<1>4. QED
  BY <1>1, <1>2, <1>3 DEF MaintenanceInv, UnrecordedIsReal

LEMMA LabelKeeps ==
  ASSUME MaintenanceInv, NEW t \in Turns, Label(t)
  PROVE  MaintenanceInv'
<1>1. /\ store # NoStore
      /\ UNCHANGED <<copies, entries, nonturns, hooks, cmds, time, report, harm, overrun, replaced>>
  BY DEF Label
<1>2. PICK added : store' = [store EXCEPT !.labels = @ \cup added, !.data = @ + 1]
  <2>1. PICK e \in store.events, l \in Labels :
          store' = [store EXCEPT !.labels = @ \cup {[event |-> t, skill |-> k, label |-> l] : k \in Named(e)},
                                 !.data = @ + 1]
    BY DEF Label
  <2> DEFINE added == {[event |-> t, skill |-> k, label |-> l] : k \in Named(e)}
  <2>2. store' = [store EXCEPT !.labels = @ \cup added, !.data = @ + 1]
    BY <2>1
  <2> HIDE DEF added
  <2>3. QED
    BY <2>2
<1>3. StoreStays
  BY <1>1, <1>2 DEF StoreStays, IsStore, MaintenanceInv, UpkeepType
<1>4. QED
  BY <1>1, <1>3, StillKeeps DEF Still

LEMMA LoadKeeps ==
  ASSUME MaintenanceInv, NEW t \in Turns, Load(t)
  PROVE  MaintenanceInv'
<1>1. /\ store # NoStore
      /\ UNCHANGED <<copies, entries, nonturns, hooks, cmds, time, report, harm, overrun, replaced>>
  BY DEF Load
<1>2. PICK added : store' = [store EXCEPT !.loads = @ \cup {added}, !.data = @ + 1]
  BY DEF Load
<1>3. StoreStays
  BY <1>1, <1>2 DEF StoreStays, IsStore, MaintenanceInv, UpkeepType
<1>4. QED
  BY <1>1, <1>3, StillKeeps DEF Still

-----------------------------------------------------------------------------
\* A stats report.  The entries of its span, but for those of turns that have
\* not accounted for themselves, are as many as rows and non-turns it finds.

LEMMA EachAccounted ==
  ASSUME UpkeepType, CountersCover, NEW c \in Commands, cmds[c].pc = "figures",
         \A d \in Commands : cmds[d].pc \notin Sweeping,
         NEW start \in Int, NEW n \in entries, start <= n.at, cmds[c].before <= n.at,
         n.at <= cmds[c].at - SETTLE
  PROVE  \/ n.turn \in Unaccounted(cmds[c].before, cmds[c].at - SETTLE)
         \/ \E e \in cmds[c].rows.events :
              e.id = n.turn /\ e.channel = "hook" /\ InWindow(e.at, start, cmds[c].at - SETTLE)
         \/ \E o \in nonturns : o.turn = n.turn /\ InWindow(o.at, start, cmds[c].at - SETTLE)
<1> DEFINE until == cmds[c].at - SETTLE
           t == n.turn
<1>1. /\ t \in Turns /\ hooks[t].pc # "none" /\ n.at = hooks[t].at /\ TurnOf(hooks[t])
  BY DEF UpkeepType, EntryOf
<1>2. cmds[c].at \in Int /\ cmds[c].at <= time /\ cmds[c].before \in Int /\ time \in Nat /\ SETTLE \in Nat \ {0}
  BY ClockAssumption DEF UpkeepType, CommandOf
<1>3. t \in EnteredIn(cmds[c].before, until)
  BY <1>1 DEF EnteredIn, InWindow
<1>4. hooks[t].pc \notin {"running", "admitted"}
  BY <1>1, <1>2 DEF TurnOf
<1>5. CASE hooks[t].pc = "lost"
  BY <1>3, <1>5 DEF Unaccounted
<1>6. CASE hooks[t].pc \in {"notification", "recorded"} /\ hooks[t].ended > until
  BY <1>3, <1>6 DEF Unaccounted
<1>7. CASE hooks[t].pc = "notification" /\ ~(hooks[t].ended > until)
  <2>1. [turn |-> t, at |-> hooks[t].ended] \in nonturns
    BY <1>7 DEF CountersCover
  <2>2. InWindow(hooks[t].ended, start, until)
    BY <1>1, <1>2, <1>7 DEF InWindow, TurnOf
  <2>3. QED
    BY <2>1, <2>2
<1>8. CASE hooks[t].pc = "recorded" /\ ~(hooks[t].ended > until)
  <2>1. hooks[t].ended < cmds[c].at /\ InWindow(hooks[t].ended, start, until)
    BY <1>1, <1>2, <1>8 DEF InWindow, TurnOf
  <2>2. RowIn(t, cmds[c].rows.events) \/ Doomed(n)
    BY <1>8, <2>1 DEF CountersCover, Matched
  <2>3. ~Doomed(n)
    BY DEF Doomed, Sweeping
  <2>4. QED
    BY <2>1, <2>2, <2>3 DEF RowIn
<1>9. QED
  BY <1>1, <1>4, <1>5, <1>6, <1>7, <1>8 DEF TurnOf

\* What the records of a set name is no more than the records.
LEMMA NamedBy ==
  ASSUME NEW S, IsFiniteSet(S), NEW f, f = [x \in S |-> f[x]], NEW T, T = {f[x] : x \in S}
  PROVE  IsFiniteSet(T) /\ Cardinality(T) \in Nat /\ Cardinality(T) <= Cardinality(S)
<1>1. f \in Surjection(S, T)
  BY DEF Surjection
<1>2. QED
  BY <1>1, FS_Surjection, FS_CardinalityType

\* What is counted beyond the rows and the non-turns is not accounted for.
LEMMA CountIsReal ==
  ASSUME UpkeepType, CountersCover, NEW c \in Commands, cmds[c].pc = "figures",
         \A d \in Commands : cmds[d].pc \notin Sweeping, entries # {}
  PROVE  HookEntryReport(cmds[c].rows.events, entries, nonturns, cmds[c].before, cmds[c].at - SETTLE).unrecorded
           <= Cardinality(Unaccounted(cmds[c].before, cmds[c].at - SETTLE))
<1> DEFINE since == cmds[c].before
           until == cmds[c].at - SETTLE
           events == cmds[c].rows.events
           first == Min({n.at : n \in entries})
           start == IF first > since THEN first ELSE since
           counted == {n \in entries : InWindow(n.at, since, until)}
           inRows == {e \in events : e.channel = "hook" /\ InWindow(e.at, start, until)}
           other == {n \in nonturns : InWindow(n.at, start, until)}
           owing == Unaccounted(since, until)
           rowTurns == {e.id : e \in inRows}
           otherTurns == {n.turn : n \in other}
<1>1. since \in Int /\ cmds[c].at \in Int /\ IsFiniteSet(events) /\ IsFiniteSet(entries) /\ IsFiniteSet(nonturns)
      /\ SETTLE \in Nat
  BY ClockAssumption DEF UpkeepType, CommandOf
<1>2. \A n \in entries : n.turn \in Turns /\ n.at \in Nat /\ n = [turn |-> n.turn, at |-> hooks[n.turn].at]
  BY DEF UpkeepType, EntryOf, TurnOf
<1>3. first \in Nat /\ \A n \in entries : first <= n.at
  <2>1. {n.at : n \in entries} \subseteq Nat /\ {n.at : n \in entries} # {}
    BY <1>2
  <2>2. first \in {n.at : n \in entries} /\ \A y \in {n.at : n \in entries} : first <= y
    BY <2>1, LeastIsMin
  <2>3. QED
    BY <2>1, <2>2
<1>4. start \in Int /\ \A n \in counted : start <= n.at /\ since <= n.at /\ n.at <= until
  BY <1>1, <1>2, <1>3 DEF InWindow
<1>5. /\ IsFiniteSet(counted) /\ IsFiniteSet(inRows) /\ IsFiniteSet(other)
      /\ Cardinality(counted) \in Nat /\ Cardinality(inRows) \in Nat /\ Cardinality(other) \in Nat
  BY <1>1, FS_Subset, FS_CardinalityType
<1>6. IsFiniteSet(owing) /\ Cardinality(owing) \in Nat
  <2>1. owing \subseteq Turns
    BY DEF Unaccounted, EnteredIn
  <2>2. QED
    BY <2>1, ClockAssumption, FS_Subset, FS_CardinalityType
<1>7. /\ IsFiniteSet(rowTurns) /\ Cardinality(rowTurns) \in Nat /\ Cardinality(rowTurns) <= Cardinality(inRows)
  <2> DEFINE f == [e \in inRows |-> e.id]
  <2>1. f = [x \in inRows |-> f[x]] /\ rowTurns = {f[x] : x \in inRows}
    OBVIOUS
  <2> HIDE DEF f, rowTurns, inRows
  <2>2. QED
    BY <1>5, <2>1, NamedBy
<1>8. /\ IsFiniteSet(otherTurns) /\ Cardinality(otherTurns) \in Nat /\ Cardinality(otherTurns) <= Cardinality(other)
  <2> DEFINE f == [n \in other |-> n.turn]
  <2>1. f = [x \in other |-> f[x]] /\ otherTurns = {f[x] : x \in other}
    OBVIOUS
  <2> HIDE DEF f, otherTurns, other
  <2>2. QED
    BY <1>5, <2>1, NamedBy
<1>9. \A n \in counted : n.turn \in owing \cup (rowTurns \cup otherTurns)
  <2>1. SUFFICES ASSUME NEW n \in counted PROVE n.turn \in owing \cup (rowTurns \cup otherTurns)
    OBVIOUS
  <2>2. \/ n.turn \in owing
        \/ \E e \in events : e.id = n.turn /\ e.channel = "hook" /\ InWindow(e.at, start, until)
        \/ \E o \in nonturns : o.turn = n.turn /\ InWindow(o.at, start, until)
    BY <1>4, EachAccounted
  <2>3. QED
    BY <2>2
<1>10. Cardinality(counted) <= Cardinality(owing \cup (rowTurns \cup otherTurns))
       /\ IsFiniteSet(owing \cup (rowTurns \cup otherTurns))
  <2> DEFINE all == owing \cup (rowTurns \cup otherTurns)
             f == [n \in counted |-> n.turn]
  <2>1. IsFiniteSet(all)
    BY <1>6, <1>7, <1>8, FS_Union
  <2>2. \A n, m \in counted : n.turn = m.turn => n = m
    BY <1>2
  <2>3. f \in [counted -> all] /\ \A n, m \in counted : f[n] = f[m] => n = m
    BY <1>9, <2>2
  <2>4. f \in Injection(counted, all)
    BY <2>3 DEF Injection, IsInjective
  <2>5. QED
    BY <2>1, <2>4, FS_Injection
<1>11. Cardinality(counted) <= Cardinality(owing) + Cardinality(inRows) + Cardinality(other)
  <2>1. /\ IsFiniteSet(rowTurns \cup otherTurns)
        /\ Cardinality(rowTurns \cup otherTurns) <= Cardinality(rowTurns) + Cardinality(otherTurns)
        /\ Cardinality(rowTurns \cup otherTurns) \in Nat
    <3>1. IsFiniteSet(rowTurns \cup otherTurns) /\ IsFiniteSet(rowTurns \cap otherTurns)
      BY <1>7, <1>8, FS_Union, FS_Subset
    <3>2. Cardinality(rowTurns \cap otherTurns) \in Nat /\ Cardinality(rowTurns \cup otherTurns) \in Nat
      BY <3>1, FS_CardinalityType
    <3>3. Cardinality(rowTurns \cup otherTurns) =
            Cardinality(rowTurns) + Cardinality(otherTurns) - Cardinality(rowTurns \cap otherTurns)
      BY <1>7, <1>8, FS_Union
    <3> HIDE DEF rowTurns, otherTurns
    <3>4. QED
      BY <1>7, <1>8, <3>1, <3>2, <3>3
  <2>2. Cardinality(owing \cup (rowTurns \cup otherTurns)) <= Cardinality(owing) + Cardinality(rowTurns \cup otherTurns)
    <3>1. IsFiniteSet(owing \cap (rowTurns \cup otherTurns))
      BY <1>6, FS_Subset
    <3>2. Cardinality(owing \cap (rowTurns \cup otherTurns)) \in Nat
      BY <3>1, FS_CardinalityType
    <3>3. Cardinality(owing \cup (rowTurns \cup otherTurns)) =
            Cardinality(owing) + Cardinality(rowTurns \cup otherTurns) - Cardinality(owing \cap (rowTurns \cup otherTurns))
      BY <1>6, <2>1, FS_Union
    <3>4. QED
      BY <1>6, <2>1, <3>2, <3>3
  <2>3. Cardinality(owing \cup (rowTurns \cup otherTurns)) \in Nat
    BY <1>10, FS_CardinalityType
  <2> HIDE DEF owing, rowTurns, otherTurns, counted, inRows, other
  <2>4. QED
    BY <1>5, <1>6, <1>7, <1>8, <1>10, <2>1, <2>2, <2>3
<1>12. HookEntryReport(events, entries, nonturns, since, until).unrecorded =
         LET less(a, b) == IF a > b THEN a - b ELSE 0
         IN  less(less(Cardinality(counted), Cardinality(inRows)), Cardinality(other))
  BY DEF HookEntryReport
<1>13. owing = Unaccounted(cmds[c].before, cmds[c].at - SETTLE)
  OBVIOUS
<1> HIDE DEF counted, inRows, other, owing
<1>14. QED
  BY <1>5, <1>6, <1>11, <1>12, <1>13

LEMMA StatsEndKeeps ==
  ASSUME MaintenanceInv, NEW c \in Commands, StatsEnd(c)
  PROVE  MaintenanceInv'
<1>1. Still /\ UNCHANGED <<copies, overrun, harm>> /\ cmds[c].pc = "figures"
  BY DEF StatsEnd, Still, StoreStays
<1>2. PICK k : cmds' = [cmds EXCEPT ![c] = k] /\ k.pc = "done"
  BY FinishIs DEF StatsEnd
<1>3. CommandOf(k)
  BY <1>2, EndedIs
<1>4. UpkeepType'
  BY <1>1, <1>2, <1>3, TypeMoves DEF MaintenanceInv, UpkeepType
<1>5. SpaceInv'
  BY <1>1, <1>2, SpaceMoves DEF MaintenanceInv
<1>6. harm' = {} => CountersCover'
  BY <1>1, <1>2, CoverMoves DEF MaintenanceInv, Sweeping
<1>7. UnrecordedIsReal'
  <2> DEFINE since == cmds[c].before
             until == cmds[c].at - SETTLE
             found == HookEntryReport(cmds[c].rows.events, entries, nonturns, since, until)
             befell == harm \cup IF \E d \in Commands : Aligning(d) THEN {"stopped"} ELSE {}
             owing == Cardinality(Unaccounted(since, until))
  <2>1. report'.hooks = found /\ report'.harm = befell /\ report'.unaccounted = owing
    BY DEF StatsEnd
  <2>2. SUFFICES ASSUME found # Unreported, befell = {} PROVE found.unrecorded <= owing
    BY <2>1 DEF UnrecordedIsReal
  <2>3. CountersCover /\ \A d \in Commands : cmds[d].pc \notin Sweeping
    BY <2>2 DEF MaintenanceInv, Aligning, Sweeping
  <2>4. entries # {}
    BY <2>2 DEF HookEntryReport
  <2>5. QED
    BY <1>1, <2>3, <2>4, CountIsReal DEF MaintenanceInv
<1>8. QED
  BY <1>4, <1>5, <1>6, <1>7 DEF MaintenanceInv

-----------------------------------------------------------------------------
\* The upkeep of the ledger keeps its invariant.
LEMMA MaintenanceSteps ==
  ASSUME MaintenanceInv, MaintenanceNext
  PROVE  MaintenanceInv'
<1>1. ASSUME NEW c \in Commands,
             \/ InitLedger(c) \/ OpenStore(c) \/ Status(c) \/ Refuse(c) \/ Purge(c)
             \/ ReadCounter(c) \/ WriteEntries(c) \/ WriteNonTurns(c) \/ StopEarly(c)
             \/ MigratePreflight(c) \/ MigrateCopy(c) \/ MigrateUpgrade(c) \/ StatsBegin(c) \/ StatsEnd(c)
      PROVE  MaintenanceInv'
  BY <1>1, InitLedgerKeeps, OpenStoreKeeps, StatusKeeps, RefuseKeeps, PurgeKeeps, ReadCounterKeeps,
     WriteEntriesKeeps, WriteNonTurnsKeeps, StopEarlyKeeps, MigratePreflightKeeps, MigrateCopyKeeps,
     MigrateUpgradeKeeps, StatsBeginKeeps, StatsEndKeeps
<1>2. ASSUME NEW t \in Turns,
             Enter(t) \/ NonTurn(t) \/ Lose(t) \/ Admit(t) \/ Record(t) \/ Label(t) \/ Load(t)
      PROVE  MaintenanceInv'
  BY <1>2, EnterKeeps, NonTurnKeeps, LoseKeeps, AdmitKeeps, RecordRowKeeps, LabelKeeps, LoadKeeps
<1>3. QED
  BY <1>1, <1>2, ReplaceKeeps, TimePassesKeeps DEF MaintenanceNext

LEMMA MaintenanceStutters ==
  ASSUME MaintenanceInv, UNCHANGED maintenanceVars
  PROVE  MaintenanceInv'
BY StillKeeps DEF maintenanceVars, Still, StoreStays

\* What was recorded leaves room for a prune or a clear.
LEMMA CountsReal ==
  ASSUME MaintenanceInv
  PROVE  CountsAreReal
<1>1. MaintenanceAdmitted
  BY DEF MaintenanceInv, SpaceInv, MaintenanceAdmitted, Preflight, WorstCase, Fits
<1>2. QED
  BY <1>1 DEF MaintenanceInv, CountsAreReal

-----------------------------------------------------------------------------
(* The commands together                                                   *)

CommandsInv == SnoozeInv /\ InstallerInv /\ MaintenanceInv /\ LearningInv /\ LiveInv

\* The commands keep their invariants, and each leaves the others' alone.
LEMMA CommandsKeep ==
  ASSUME CommandsInv, [CommandNext]_commandVars
  PROVE  CommandsInv'
<1>1. SnoozeInv'
  BY SnoozeSteps, SnoozeStutters
  DEF CommandsInv, CommandNext, SnoozeStep, InstallerStep, MaintenanceStep, LearningStep, LiveStep, commandVars
<1>2. InstallerInv'
  BY InstallerSteps, InstallerStutters
  DEF CommandsInv, CommandNext, SnoozeStep, InstallerStep, MaintenanceStep, LearningStep, LiveStep, commandVars
<1>3. LearningInv'
  <2>1. LearningNext \/ UNCHANGED <<cal, revisions, replacedBy>>
    BY DEF CommandNext, SnoozeStep, InstallerStep, MaintenanceStep, LearningStep, LiveStep, commandVars, learningVars
  <2>2. QED
    BY <2>1, LearningSteps, LearningStutters DEF CommandsInv
<1>4. LiveInv'
  <2>1. LiveNext \/ UNCHANGED liveVars
    BY DEF CommandNext, SnoozeStep, InstallerStep, MaintenanceStep, LearningStep, LiveStep, commandVars
  <2>2. CASE UNCHANGED liveVars
    BY <2>2, LiveRests DEF CommandsInv, liveVars
  <2>3. QED
    BY <2>1, <2>2, LiveSteps DEF CommandsInv
<1>5. MaintenanceInv'
  <2>1. MaintenanceNext \/ UNCHANGED maintenanceVars
    BY DEF CommandNext, SnoozeStep, InstallerStep, MaintenanceStep, LearningStep, LiveStep, commandVars
  <2>2. QED
    BY <2>1, MaintenanceSteps, MaintenanceStutters DEF CommandsInv
<1>6. QED
  BY <1>1, <1>2, <1>3, <1>4, <1>5 DEF CommandsInv

LEMMA CommandInvariance == CommandSpec => []CommandsInv
<1>1. CommandInit => CommandsInv
  BY SnoozeStarts, InstallerStarts, MaintenanceStarts, LearningStarts, LiveStarts DEF CommandInit, CommandsInv
<1>2. CommandsInv /\ [CommandNext]_commandVars => CommandsInv'
  BY CommandsKeep
<1>3. QED
  BY <1>1, <1>2, PTL DEF CommandSpec

\* An applied snooze mutes until it runs out, is replaced or cleared or the file is
\* edited, and an installed hook ends before the harness kills it (snooze.rs,
\* Controls; installer.rs, installed_hook_budget_ms).
THEOREM SettingsAreKept == CommandSpec => []SettingsHold
<1>1. CommandsInv => SettingsHold
  BY SnoozesHold DEF CommandsInv, InstallerInv, HookInv, SettingsHold
<1>2. QED
  BY <1>1, CommandInvariance, PTL

\* A rename, a publication and a rollback change what they planned to and nothing
\* else of the file they replace (snooze.rs, apply; installer.rs,
\* publish_settings_atomically; learning.rs, rollback_managed_policy).
THEOREM EditsAreContained == CommandSpec => EditsStand
<1> DEFINE Contained == RenameLosesNothing /\ OnlyTheManagedEntry /\ RollbackUndoes
<1>1. ASSUME CommandsInv, CommandNext
      PROVE  Contained
  <2>1. RenameLosesNothing
    <3>1. CASE SnoozeNext
      BY <1>1, <3>1, RenamesLoseNothing DEF CommandsInv
    <3>2. CASE UNCHANGED snoozeVars
      BY <1>1, <3>2 DEF snoozeVars, RenameLosesNothing
    <3>3. QED
      BY <1>1, <3>1, <3>2 DEF CommandNext, SnoozeStep, InstallerStep, MaintenanceStep, LearningStep, LiveStep
  <2>2. OnlyTheManagedEntry
    <3>1. CASE InstallerNext
      BY <1>1, <3>1, OnlyTheirEntry DEF CommandsInv
    <3>2. CASE UNCHANGED installerVars
      BY <1>1, <3>2 DEF installerVars, OnlyTheManagedEntry
    <3>3. QED
      BY <1>1, <3>1, <3>2 DEF CommandNext, SnoozeStep, InstallerStep, MaintenanceStep, LearningStep, LiveStep
  <2>3. RollbackUndoes
    BY <1>1, RollbacksUndo DEF CommandsInv
  <2>4. QED
    BY <2>1, <2>2, <2>3
<1>2. CommandsInv /\ [CommandNext]_commandVars => [Contained]_commandVars
  BY <1>1
<1> HIDE DEF Contained
<1>3. CommandSpec => [][Contained]_commandVars
  BY <1>2, CommandInvariance, PTL DEF CommandSpec
<1>4. QED
  BY <1>3 DEF Contained, EditsStand

\* A live evaluation makes no more HTTP attempts than --max-requests (batch.rs,
\* charged_attempts).  What it sends is of a judged case for which the preview
\* prepared a request, with the roster frozen then; its main, roster and wire arms
\* send the very request of the preview, while the latest-request arms and those of
\* rewritten texts, which prepare a request of their own, are bound to no more
\* (cli.rs, eval_live_command, preview_live_case and rank_live_case).
THEOREM ConsentIsKept == CommandSpec => []ConsentHolds
<1>1. CommandsInv => ConsentHolds
  BY LiveConsents DEF CommandsInv
<1>2. QED
  BY <1>1, CommandInvariance, PTL

\* Stats reports no more unrecorded hook turns than hooks that owed a record, and a
\* prune or clear passes its quota preflight (hook_entries.rs, hook_entry_report;
\* ledger.rs, recording_capacity), whatever befell nothing of the counters.
THEOREM CountsAreKept == CommandSpec => []CountsAreReal
<1>1. CommandsInv => CountsAreReal
  BY CountsReal DEF CommandsInv
<1>2. QED
  BY <1>1, CommandInvariance, PTL
=============================================================================
