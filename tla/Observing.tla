----------------------------- MODULE Observing ------------------------------
(***************************************************************************)
(* sr observe over a native transcript (src/src/cli.rs, observe_owned) and *)
(* the observation rows and cursor of the ledger                           *)
(* (src/src/storage/ledger.rs).  Passes of several processes read the      *)
(* cursor, read the transcript, read the cursor again and record what they *)
(* found in one transaction fenced by the cursor's generation, while the   *)
(* agent goes on writing, rankings begin and are emitted, and history is   *)
(* pruned or cleared.                                                      *)
(*                                                                         *)
(* One session, one branch, one skill: a record of the transcript is a     *)
(* load of the skill, the result of a load, or something else.             *)
(***************************************************************************)
EXTENDS Transcript

CONSTANTS Passes,     \* processes, each running sr observe again and again
          Sizes,      \* the sizes a record may have, in bytes
          WINDOW,     \* the attribution window of 30 minutes
          MaxLines,   \* bound: records of a transcript
          MaxTime,    \* bound: the wall clock
          MaxCursor,  \* bound: cursor generations
          Wraps,      \* whether generations start over at the bound
          MaxEmit,    \* bound: rankings
          MaxReplace, \* bound: replacements of the transcript
          MaxDelete,  \* bound: prunes and clears
          NoEvent,
          Event0      \* the id stored when a pass met no event, "event-0"

\* One pass at a time: no other reads or writes between its steps.
Alone == \A p, q \in Passes : p = q

ASSUME ObservingAssumption ==
    /\ BYTE_CAP \in Nat /\ OVERLAP \in Nat \ {0} /\ OVERLAP <= BYTE_CAP
    /\ RECORD_CAP \in Nat \ {0}
    /\ Sizes \subseteq Nat \ {0}
    /\ WINDOW \in Nat /\ MaxTime \in Nat /\ MaxCursor \in Nat /\ MaxEmit \in Nat
    /\ Wraps \in BOOLEAN /\ (Wraps => Alone)
    /\ NoId \notin Nat /\ NoEvent \notin Nat /\ NoMark \notin Nat
    /\ NoCursor \notin [gen : Nat, offset : Nat, last : Nat \cup {Event0}]

VARIABLES
    file,     \* the transcript
    born,     \* ids given out: an id names one record of one transcript
    swaps,    \* how often the transcript was replaced
    now,      \* the wall clock
    rankings, \* ranking_events: when each was created, whether it was emitted since,
              \* and whether it lists the skill
    cursor,   \* the session_cursors row
    rows,     \* observations: by invocation id, state, time, attributed event (and,
              \* for the property, `known': when the rankings emitted by then began)
    gone,     \* invocation ids whose rows a prune or a clear deleted
    cuts,     \* how often history was pruned or cleared
    pc,       \* where each pass is
    resume,   \* the cursor it resumes from
    snap,     \* the window it read
    expected  \* the generation its write requires, and the time it stamps

transcript == <<file, born, swaps>>
ledger == <<cursor, rows, gone, cuts>>
pass == <<pc, resume, snap, expected>>
vars == <<file, born, swaps, now, rankings, cursor, rows, gone, cuts, pc, resume,
          snap, expected>>

NoSnap == [events |-> {}, offset |-> 0]
NoStamp == [gen |-> 0, now |-> 0]

Init ==
    /\ file = EmptyFile /\ born = 0 /\ swaps = 0
    /\ now = 0
    /\ rankings = <<>>
    /\ cursor = NoCursor
    /\ rows = <<>>
    /\ gone = {}
    /\ cuts = 0
    /\ pc = [p \in Passes |-> "idle"]
    /\ resume = [p \in Passes |-> NoCursor]
    /\ snap = [p \in Passes |-> NoSnap]
    /\ expected = [p \in Passes |-> NoStamp]

-----------------------------------------------------------------------------
(* What a pass extracts (extract_load_observations over the window).       *)

InWindow(window) == {l.rec : l \in window.events}

\* A load is loaded when the window holds its successful result, and
\* attempted otherwise.
StateIn(load, window) ==
    IF \E r \in InWindow(window) : r.kind = "result" /\ r.call = load.id /\ r.ok
    THEN "loaded" ELSE "attempted"

\* Attribution: of the rankings emitted so far, the one created last at or before
\* the load, within the window, counts only if it lists the skill.
Emitted == {i \in DOMAIN rankings : rankings[i].shown}
Candidates(time) ==
    {i \in Emitted : rankings[i].at <= time /\ rankings[i].at + WINDOW >= time}
LatestBackward(time) ==
    LET lists == {i \in Candidates(time) : rankings[i].lists}
        latest == {i \in lists : \A j \in lists : rankings[j].at <= rankings[i].at}
    IN  IF latest = {} THEN {NoEvent} ELSE latest
Latest(time) ==
    LET found == Candidates(time)
        latest == {i \in found : \A j \in found : rankings[j].at <= rankings[i].at}
    IN  IF latest = {} THEN {NoEvent}
        ELSE {IF rankings[i].lists THEN i ELSE NoEvent : i \in latest}

\* Only a time the record itself carries, and one that is not in the future,
\* admits an attribution.
Attributions(load, at) ==
    IF load.time \in 0 .. at THEN Latest(load.time) ELSE {NoEvent}

\* The upsert of one observation: a row is inserted once, and afterwards only
\* an attempted one becomes loaded; its attribution stays.
NewObservation(load, window, at, event) ==
    [state |-> StateIn(load, window), at |-> at, event |-> event,
     known |-> {rankings[i].at : i \in Emitted}]
Upsert(old, new) ==
    IF old.state = "attempted" /\ new.state = "loaded" /\ new.at >= old.at
    THEN [old EXCEPT !.state = new.state, !.at = new.at]
    ELSE old

-----------------------------------------------------------------------------
(* A pass.                                                                 *)

Goto(p, label) == pc' = [pc EXCEPT ![p] = label]

\* The first read of the cursor; an unreadable ledger reads as no cursor.
Resume(p, from) ==
    /\ pc[p] = "idle"
    /\ resume' = [resume EXCEPT ![p] = from]
    /\ Goto(p, "read")
    /\ UNCHANGED <<transcript, now, rankings, ledger, snap, expected>>
ReadResume(p) == Resume(p, cursor)
ResumeUnreadable(p) == Resume(p, NoCursor)

Snapshot(p) ==
    /\ pc[p] = "read"
    /\ snap' = [snap EXCEPT ![p] =
                  LET w == ReadObservation(file, resume[p])
                  IN  [events |-> w.events, offset |-> w.offset]]
    /\ resume' = [resume EXCEPT ![p] = NoCursor]
    /\ Goto(p, "extract")
    /\ UNCHANGED <<transcript, now, rankings, ledger, expected>>

\* The second read of the cursor, whose generation fences the write, and the
\* collection time.
ReadExpected(p) ==
    /\ pc[p] = "extract"
    /\ expected' = [expected EXCEPT ![p] =
                      [gen |-> IF cursor = NoCursor THEN 0 ELSE cursor.gen, now |-> now]]
    /\ Goto(p, "record")
    /\ UNCHANGED <<transcript, now, rankings, ledger, resume, snap>>

Reset(p) ==
    /\ Goto(p, "idle")
    /\ resume' = [resume EXCEPT ![p] = NoCursor]
    /\ snap' = [snap EXCEPT ![p] = NoSnap]
    /\ expected' = [expected EXCEPT ![p] = NoStamp]

Fence(p) == expected[p].gen = IF cursor = NoCursor THEN 0 ELSE cursor.gen

\* The last event id of the pass's own events.
LastId(events) ==
    IF events = {} THEN Event0
    ELSE (CHOOSE l \in events : \A m \in events : m.from <= l.from).rec.id

\* A generation starts over at the bound only where one pass runs at a time.
NextGeneration(g) == IF g = MaxCursor THEN 1 ELSE g + 1

\* record_observations_with_cursor_attribution: rows and cursor in one
\* transaction.
Record(p) ==
    /\ pc[p] = "record"
    /\ Fence(p)
    /\ Wraps \/ expected[p].gen < MaxCursor
    /\ LET at == expected[p].now
           loads == {r \in InWindow(snap[p]) : r.kind = "load"}
           ids == {l.id : l \in loads}
           load(i) == CHOOSE l \in loads : l.id = i
           found(i, event) == NewObservation(load(i), snap[p], at, event)
       IN  \E event \in [ids -> DOMAIN rankings \cup {NoEvent}] :
             /\ \A i \in ids : event[i] \in Attributions(load(i), at)
             /\ rows' = [i \in DOMAIN rows \cup ids |->
                  CASE i \notin ids -> rows[i]
                    [] i \in ids /\ i \in DOMAIN rows ->
                         Upsert(rows[i], found(i, event[i]))
                    [] OTHER -> found(i, event[i])]
    /\ cursor' = [gen |-> NextGeneration(expected[p].gen), offset |-> snap[p].offset,
                  last |-> LastId(snap[p].events)]
    /\ Reset(p)
    /\ UNCHANGED <<transcript, now, rankings, gone, cuts>>

\* A pass ends without writing: a lost fence, a lineage it cannot resolve, a
\* roster or a ledger it cannot read, a kill.
Abandon(p) ==
    /\ pc[p] # "idle"
    /\ Reset(p)
    /\ UNCHANGED <<transcript, now, rankings, ledger>>

-----------------------------------------------------------------------------
(* The agent, the rankings and the user.                                   *)

Loads == {file.lines[i].rec : i \in {j \in DOMAIN file.lines :
                                       file.lines[j].rec.kind = "load"}}
Answered == {file.lines[i].rec.call : i \in {j \in DOMAIN file.lines :
                                       file.lines[j].rec.kind = "result"}}

\* The record says when it was written, or not (its time is then unknown, as
\* is one in the future).
Records ==
    {[kind |-> "load", id |-> born + 1, call |-> NoId, ok |-> FALSE, time |-> t] :
       t \in {now} \cup {MaxTime + 1 : e \in 1 .. MaxEmit}}
    \cup {[kind |-> "result", id |-> born + 1, call |-> l.id, ok |-> b, time |-> now] :
            l \in {m \in Loads : m.id \notin Answered}, b \in BOOLEAN}
    \cup {[kind |-> "other", id |-> i, call |-> NoId, ok |-> FALSE, time |-> now] :
            i \in {born + 1, NoId}}

Write ==
    /\ Len(file.lines) < MaxLines
    /\ \E r \in Records, s \in Sizes :
         /\ file' = AppendLine(file, r, s)
         /\ born' = IF r.id = NoId THEN born ELSE born + 1
    /\ UNCHANGED <<swaps, now, rankings, ledger, pass>>

\* A record is on its way: its bytes are there, its newline is not.
WritePartly ==
    /\ Len(file.lines) < MaxLines
    /\ file.len = EndOf(file)
    /\ file' = [file EXCEPT !.len = @ + 1]
    /\ UNCHANGED <<born, swaps, now, rankings, ledger, pass>>

\* The transcript is replaced or rewritten in place; what it holds is new.
Replace ==
    /\ swaps < MaxReplace
    /\ swaps' = swaps + 1
    /\ file' = EmptyFile
    /\ UNCHANGED <<born, now, rankings, ledger, pass>>

\* A run writes its ranking down before its first send, with the time
\* (record_inflight_ranking), or a decision that sends nothing before it is shown.
Begin ==
    /\ \E e \in 1 .. MaxEmit \ DOMAIN rankings :
         rankings' = [f \in DOMAIN rankings \cup {e} |->
                        IF f = e THEN [at |-> now, shown |-> FALSE, lists |-> FALSE]
                        ELSE rankings[f]]
    /\ UNCHANGED <<transcript, now, ledger, pass>>

\* The decision is recorded and shown, in whatever order the runs end: the row
\* keeps the time it was created with.
Emit ==
    /\ \E e \in DOMAIN rankings \ Emitted, b \in BOOLEAN :
         rankings' = [rankings EXCEPT ![e].shown = TRUE, ![e].lists = b]
    /\ UNCHANGED <<transcript, now, ledger, pass>>

\* prune_apply deletes the events before its cutoff with their rows, and the
\* unattributed rows before it; the cursor stays.
Prune ==
    /\ cuts < MaxDelete
    /\ cuts' = cuts + 1
    /\ \E cutoff \in 0 .. now :
         LET old == {e \in DOMAIN rankings : rankings[e].at < cutoff}
             out == {i \in DOMAIN rows :
                       IF rows[i].event = NoEvent THEN rows[i].at < cutoff
                       ELSE rows[i].event \in old}
         IN  /\ rows' = [i \in DOMAIN rows \ out |-> rows[i]]
             /\ rankings' = [e \in DOMAIN rankings \ old |-> rankings[e]]
             /\ gone' = gone \cup out
    /\ UNCHANGED <<transcript, now, cursor, pass>>

\* clear_apply deletes every row and the cursor.
Clear ==
    /\ cuts < MaxDelete
    /\ cuts' = cuts + 1
    /\ gone' = gone \cup DOMAIN rows
    /\ rows' = <<>>
    /\ cursor' = NoCursor
    /\ rankings' = <<>>
    /\ UNCHANGED <<transcript, now, pass>>

Tick ==
    /\ now < MaxTime
    /\ now' = now + 1
    /\ UNCHANGED <<transcript, rankings, ledger, pass>>

Step(p) == ReadResume(p) \/ Snapshot(p) \/ ReadExpected(p) \/ Record(p)

Next ==
    \/ \E p \in Passes : Step(p) \/ ResumeUnreadable(p) \/ Abandon(p)
    \/ Write \/ WritePartly \/ Replace \/ Begin \/ Emit \/ Prune \/ Clear \/ Tick

Spec == Init /\ [][Next]_vars

\* Passes that go on running, and end.
Keeps == \/ \E p \in Passes : Step(p)
         \/ Write \/ WritePartly \/ Replace \/ Tick
-----------------------------------------------------------------------------
(* Properties.                                                             *)

LoadLines == {file.lines[i] : i \in {j \in DOMAIN file.lines :
                                       file.lines[j].rec.kind = "load"}}
Passed == IF cursor = NoCursor THEN {}
          ELSE {l \in LoadLines : l.end <= cursor.offset}

\* Every load of the transcript behind the stored watermark was recorded: no
\* order of passes, stale reads, rewinds and clears moves the cursor past a
\* load nobody wrote down (observe_owned with read_snapshot), as long as the
\* transcript is only appended to.
NoLoadSkipped ==
    swaps = 0 => \A l \in Passed : l.rec.id \in DOMAIN rows \cup gone

\* A load whose successful result is behind the watermark too, and within the
\* overlap of it in bytes and in records, is recorded as loaded, whichever
\* passes saw the invocation without the result.  (After a clear, which starts
\* the cursor's generation over, a pass that read before it can pass the fence
\* and write its older reading over a newer one; so can, after the transcript
\* was replaced, a pass that read the old one beside a pass that read the new.
\* And a record that does not fit a window beside the overlap makes the read
\* start at the watermark, without the invocation before it.)
Between(a, b) ==
    Cardinality({i \in DOMAIN file.lines :
                   file.lines[i].from >= a.from /\ file.lines[i].from < b.from})
Fitting(a, b) ==
    \A i \in DOMAIN file.lines :
      file.lines[i].from >= a.from /\ file.lines[i].end <= b.end
      => file.lines[i].end - file.lines[i].from + OVERLAP <= BYTE_CAP
Answers(l, r) ==
    /\ r.rec.kind = "result" /\ r.rec.call = l.rec.id /\ r.rec.ok
    /\ r.from - l.from < OVERLAP
    /\ Between(l, r) <= RECORD_CAP \div 2
    /\ Fitting(l, r)
PairJoined ==
    cuts = 0 /\ (swaps = 0 \/ Alone) =>
      \A l \in Passed : \A i \in DOMAIN file.lines :
        ( /\ Answers(l, file.lines[i])
          /\ file.lines[i].end <= cursor.offset
          /\ l.rec.id \in DOMAIN rows )
        => rows[l.rec.id].state = "loaded"

\* A row is attributed to an emitted ranking that listed the skill, was created
\* no later than the load and at most the window before it, and had none created
\* between the two among those emitted when the row was written: runs that end in
\* another order than they began, prunes and later passes move no attribution.
\* (One emitted only after the row was written supersedes nothing any more.)
AttributedToLatest ==
    \A l \in LoadLines : \A e \in DOMAIN rankings :
      ( l.rec.id \in DOMAIN rows /\ rows[l.rec.id].event = e )
      => /\ rankings[e].shown /\ rankings[e].lists
         /\ rankings[e].at <= l.rec.time /\ l.rec.time <= rankings[e].at + WINDOW
         /\ \A t \in rows[l.rec.id].known : ~(rankings[e].at < t /\ t <= l.rec.time)

\* The evidence is faithful to the transcript, whatever passes, prunes, clears
\* and rankings came between.
EvidenceFaithful == NoLoadSkipped /\ PairJoined /\ AttributedToLatest

\* Wherever a pass may stop, the rewind reaches back to a record with an id.
\* Beyond the overlap, after an oversized record, the content proof of a file
\* that was only appended to fails and the next pass starts over.
Anchored ==
    \A i \in DOMAIN file.lines :
      \/ file.lines[i].end <= OVERLAP
      \/ \E j \in DOMAIN file.lines :
           /\ j <= i /\ i - j < RECORD_CAP \div 2
           /\ file.lines[j].rec.id # NoId
           /\ file.lines[j].from > file.lines[i].end - OVERLAP

\* Every load of the transcript, once it is all there, is recorded in the end
\* if passes go on running: neither the rewind, a full window, a record that
\* fits no window begun before the watermark nor an earlier transcript keeps a
\* pass from it (read_snapshot: "progress is not negotiable", and a replaced
\* transcript is read again from the beginning).
EveryLoadObserved ==
    [](Len(file.lines) = MaxLines /\ swaps = MaxReplace /\ Anchored
         => <>(\A l \in LoadLines : l.rec.id \in DOMAIN rows \cup gone))
=============================================================================
