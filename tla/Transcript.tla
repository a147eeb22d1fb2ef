----------------------------- MODULE Transcript -----------------------------
(***************************************************************************)
(* Bounded reads of a native transcript (src/src/context/jsonl.rs): where  *)
(* a read starts, which records of its window it scans, and the cursor it  *)
(* leaves.  A file is its complete lines and its length; a length past the *)
(* last line is a record still being written.  A line keeps the byte       *)
(* offsets of its beginning and of the byte after its newline.             *)
(*                                                                         *)
(* These are operators: Observing runs them against a ledger.              *)
(***************************************************************************)
EXTENDS Naturals, Sequences, FiniteSets, FiniteSetsExt

CONSTANTS BYTE_CAP,    \* OBSERVATION_DELTA_BYTES, NATIVE_TRANSCRIPT_TAIL_BYTES
          RECORD_CAP,  \* NATIVE_TRANSCRIPT_TAIL_RECORDS
          OVERLAP,     \* OBSERVATION_REPAIR_OVERLAP_BYTES
          NoCursor, NoMark, NoId

EmptyFile == [lines |-> <<>>, len |-> 0]
EndOf(file) == IF file.lines = <<>> THEN 0 ELSE file.lines[Len(file.lines)].end

\* A record is written, with its newline.  The bytes of a record still being
\* written become its beginning.
AppendLine(file, rec, size) ==
    LET from == EndOf(file)
    IN  [lines |-> Append(file.lines,
                          [rec |-> rec, from |-> from, end |-> from + size]),
         len |-> from + size]

\* The positions after a newline, in (start, upto].
Newlines(file, start, upto) ==
    {e \in {file.lines[i].end : i \in DOMAIN file.lines} : start < e /\ e <= upto}

\* Half of the record budget is kept for new records: of the lines before the
\* watermark only the newest ones stay in the window.
Trimmed(file, start, limit, watermark) ==
    LET seen == IF watermark = NoMark THEN {}
                ELSE Newlines(file, start, Min({watermark, limit}))
        early == {e \in seen : Cardinality({f \in seen : f > e}) >= RECORD_CAP \div 2}
    IN  IF early = {} THEN start ELSE Max(early)

\* parse_window: whether a line is an event.  A line entered in its middle
\* does not parse.
IsEvent(line, at) == line.rec.id # NoId /\ line.from >= at

\* read_window and parse_window: the lines complete within the bytes read, up
\* to the record cap, from the first line boundary where one is asked for.
ReadWindow(file, start, align, watermark) ==
    LET limit == Min({file.len, start + BYTE_CAP})
        trim == Trimmed(file, start, limit, watermark)
        aligned == align /\ trim = start
        firsts == Newlines(file, start, limit)
        at == IF aligned /\ firsts # {} THEN Min(firsts) ELSE trim
        whole == {i \in DOMAIN file.lines :
                    /\ ~(aligned /\ firsts = {})
                    /\ file.lines[i].end > at /\ file.lines[i].end <= limit}
        scanned == {i \in whole : Cardinality({j \in whole : j < i}) < RECORD_CAP}
    IN  [at |-> at,
         events |-> {file.lines[i] : i \in {j \in scanned : IsEvent(file.lines[j], at)}},
         offset |-> IF scanned = {} THEN at ELSE file.lines[Max(scanned)].end]

\* The event ids of a window.
EventIds(window) == {l.rec.id : l \in window.events}

\* The stored watermark can be resumed: the parser version, the identity of the
\* file (always the one just opened) and the kind agree, so what is left is the
\* length.
Resumes(file, cursor) == cursor # NoCursor /\ file.len >= cursor.offset

Rewound(cursor) == IF cursor.offset > OVERLAP THEN cursor.offset - OVERLAP ELSE 0

\* The content proof: a read that starts inside the file must meet the record
\* its watermark names.
Proven(start, cursor, window) == start = 0 \/ cursor.last \in EventIds(window)

\* The rewind must not cost progress.
StuckNever(cursor, window) == FALSE
Stuck(cursor, window) == cursor.offset > 0 /\ window.offset <= cursor.offset

\* read_snapshot of an observation.
ReadObservation(file, cursor) ==
    IF ~Resumes(file, cursor) THEN ReadWindow(file, 0, FALSE, NoMark)
    ELSE LET start == Rewound(cursor)
             window == ReadWindow(file, start, start > 0, cursor.offset)
         IN  CASE ~Proven(start, cursor, window) -> ReadWindow(file, 0, FALSE, NoMark)
               [] Proven(start, cursor, window) /\ Stuck(cursor, window) ->
                    ReadWindow(file, cursor.offset, FALSE, NoMark)
               [] OTHER -> window

=============================================================================
