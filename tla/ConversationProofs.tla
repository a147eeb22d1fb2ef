------------------------- MODULE ConversationProofs -------------------------
(***************************************************************************)
(* Theorems about Observing and Feedback, for every window, overlap and    *)
(* record cap, every number of passes, users, events and skills, and every *)
(* transcript, whatever its length and the sizes of its records.           *)
(*                                                                         *)
(* The evidence: a read is a stretch of the transcript between two line    *)
(* ends (ReadFrom) that reaches back far enough (ReachesBack), so the      *)
(* loads behind the offset it leaves are recorded or in its window         *)
(* (CoverInv), with their results where these are behind it too (JoinInv); *)
(* the fence keeps an older reading from revising a newer one (FenceInv).  *)
(* The corrections: every action of Feedback, one by one.                  *)
(***************************************************************************)
EXTENDS Observing, Feedback, FiniteSetTheorems, TLAPS

-----------------------------------------------------------------------------
(* Extremes of sets of numbers                                             *)

\* A set of numbers has a least one.
LEMMA LeastExists ==
  ASSUME NEW S, S \subseteq Nat, S # {}
  PROVE  \E x \in S : \A y \in S : x <= y
<1>1. \E x \in S : \A y \in S : ~(<<y, x>> \in OpToRel(<, Nat))
  BY NatLessThanWellFounded, WFMin
<1>2. PICK x \in S : \A y \in S : ~(<<y, x>> \in OpToRel(<, Nat))
  BY <1>1
<1>3. \A y \in S : ~(y < x)
  BY <1>2 DEF OpToRel
<1>4. \A y \in S : x <= y
  BY <1>3
<1> QED BY <1>4

LEMMA LeastIsMin ==
  ASSUME NEW S, S \subseteq Nat, S # {}
  PROVE  Min(S) \in S /\ \A y \in S : Min(S) <= y
BY LeastExists DEF Min

\* A bounded set of numbers has a greatest one.
LEMMA GreatestIsMax ==
  ASSUME NEW S, S \subseteq Nat, S # {}, NEW n \in Nat, \A y \in S : y <= n
  PROVE  Max(S) \in S /\ \A y \in S : y <= Max(S)
<1> DEFINE Above == {k \in Nat : \A y \in S : y <= k}
<1>1. Above \subseteq Nat /\ n \in Above
  OBVIOUS
<1>2. PICK m \in Above : \A k \in Above : m <= k
  BY <1>1, LeastExists
<1>3. m \in S
  <2>1. SUFFICES ASSUME m \notin S PROVE FALSE
    OBVIOUS
  <2>2. PICK s \in S : TRUE
    OBVIOUS
  <2>3. m \in Nat /\ s \in Nat /\ s <= m /\ s # m
    BY <2>1, <2>2
  <2>4. m - 1 \in Nat
    BY <2>3
  <2>5. \A y \in S : y <= m - 1
    <3>1. TAKE y \in S
    <3>2. y \in Nat /\ y <= m /\ y # m
      BY <2>1
    <3> QED BY <3>2, <2>3
  <2>6. m <= m - 1
    BY <2>4, <2>5, <1>2
  <2> QED BY <2>6, <2>3
<1>4. \E x \in S : \A y \in S : x >= y
  <2>1. m \in S /\ m \in Nat /\ \A y \in S : y \in Nat /\ y <= m
    BY <1>3
  <2>2. \A y \in S : m >= y
    BY <2>1
  <2> QED BY <2>1, <2>2
<1>5. PICK top \in S : top = Max(S) /\ \A y \in S : top >= y
  BY <1>4 DEF Max
<1>6. top \in Nat
  BY <1>5
<1>7. \A y \in S : y <= top
  <2>1. TAKE y \in S
  <2>2. y \in Nat /\ top >= y
    BY <1>5
  <2> QED BY <2>2, <1>6
<1> QED BY <1>5, <1>7

\* Of two numbers Min is the smaller.
LEMMA SmallerOfTwo ==
  ASSUME NEW a \in Nat, NEW b \in Nat
  PROVE  Min({a, b}) = IF a <= b THEN a ELSE b
<1>1. \A S : S = {a, b} => Min(S) \in S /\ \A y \in S : Min(S) <= y
  BY LeastIsMin
<1> DEFINE m == Min({a, b})
<1>2. m \in {a, b} /\ m <= a /\ m <= b
  BY <1>1
<1> HIDE DEF m
<1>3. m = IF a <= b THEN a ELSE b
  BY <1>2
<1> QED BY <1>3 DEF m

-----------------------------------------------------------------------------
(* The file                                                                *)

\* A record says what it is, when it was written and which load it answers.
Recs == [kind : {"load", "result", "other"}, id : Nat \cup {NoId},
         call : Nat \cup {NoId}, ok : BOOLEAN, time : Nat]
Lines == [rec : Recs, from : Nat, end : Nat]

Places == DOMAIN file.lines
Line(i) == file.lines[i]

\* Lines follow each other from the first byte on.
FileInv ==
  /\ file \in [lines : Seq(Lines), len : Nat]
  /\ EndOf(file) <= file.len
  /\ \A i \in Places :
       /\ Line(i).from < Line(i).end
       /\ Line(i).from = IF i = 1 THEN 0 ELSE Line(i - 1).end
  /\ \A i, j \in Places : i < j => Line(i).end <= Line(j).from

\* The assumptions on the constants, gathered under one name that proofs cite.
ObservingConstants ==
  /\ BYTE_CAP \in Nat /\ OVERLAP \in Nat \ {0} /\ OVERLAP <= BYTE_CAP
  /\ RECORD_CAP \in Nat \ {0}
  /\ Sizes \subseteq Nat \ {0}
  /\ WINDOW \in Nat /\ MaxTime \in Nat /\ MaxCursor \in Nat /\ MaxEmit \in Nat
  /\ Wraps \in BOOLEAN /\ (Wraps => Alone)
  /\ NoId \notin Nat /\ NoEvent \notin Nat /\ NoMark \notin Nat
  /\ NoCursor \notin [gen : Nat, offset : Nat, last : Nat \cup {Event0}]

\* The constants of observation satisfy what is assumed of them.
LEMMA ObservingConstantsHold == ObservingConstants
BY ObservingAssumption DEF ObservingConstants

\* What follows for the order of the lines.
LEMMA LineOrder ==
  ASSUME FileInv
  PROVE  /\ Len(file.lines) \in Nat /\ Places = 1 .. Len(file.lines)
         /\ EndOf(file) \in Nat
         /\ \A i \in Places : /\ Line(i) \in Lines
                              /\ Line(i).from \in Nat /\ Line(i).end \in Nat
                              /\ Line(i).from < Line(i).end
                              /\ Line(i).end <= EndOf(file)
         /\ \A i, j \in Places : /\ i < j => Line(i).end < Line(j).end
                                 /\ Line(i).end < Line(j).end => i < j
                                 /\ Line(i).end > Line(j).from => j <= i
<1>1. file.lines \in Seq(Lines)
  BY DEF FileInv
<1>2. Len(file.lines) \in Nat /\ Places = 1 .. Len(file.lines)
  BY <1>1 DEF Places
<1>3. \A i \in Places : Line(i) \in Lines /\ Line(i).from \in Nat /\ Line(i).end \in Nat
  <2>1. TAKE i \in Places
  <2>2. file.lines[i] \in Lines
    BY <1>1, <1>2 DEF Places
  <2> QED BY <2>2 DEF Line, Lines
<1>4. \A i \in Places : Line(i).from < Line(i).end
  BY DEF FileInv
<1>5. \A i, j \in Places : i < j => Line(i).end < Line(j).end
  <2>1. TAKE i, j \in Places
  <2>2. i < j => Line(i).end <= Line(j).from
    BY DEF FileInv
  <2> QED BY <2>2, <1>3, <1>4
<1>6. \A i, j \in Places : /\ Line(i).end < Line(j).end => i < j
                           /\ Line(i).end > Line(j).from => j <= i
  <2>1. TAKE i, j \in Places
  <2>2. i \in Nat /\ j \in Nat
    BY <1>2
  <2>3. /\ j < i => Line(j).end < Line(i).end
        /\ i < j => Line(i).end <= Line(j).from
    BY <1>5 DEF FileInv
  <2> QED BY <2>2, <2>3, <1>3
<1>7. EndOf(file) \in Nat /\ \A i \in Places : Line(i).end <= EndOf(file)
  <2>1. CASE file.lines = <<>>
    BY <2>1, <1>2 DEF EndOf
  <2>2. CASE file.lines # <<>>
    <3>1. Len(file.lines) \in Places /\ EndOf(file) = Line(Len(file.lines)).end
      BY <2>2, <1>1, <1>2 DEF EndOf, Line
    <3>2. \A i \in Places : i = Len(file.lines) \/ i < Len(file.lines)
      BY <1>2
    <3> QED BY <3>1, <3>2, <1>3, <1>5
  <2> QED BY <2>1, <2>2
<1> QED BY <1>2, <1>3, <1>4, <1>5, <1>6, <1>7

LEMMA PlacesAreFinite == FileInv => IsFiniteSet(Places)
BY LineOrder, FS_Interval

\* A watermark at a line boundary.
Boundary(o) == o = 0 \/ \E i \in Places : Line(i).end = o

\* No line runs across a boundary.
LEMMA NoLineAcross ==
  ASSUME FileInv, NEW o \in Nat, Boundary(o), NEW i \in Places
  PROVE  Line(i).end <= o \/ o <= Line(i).from
<1>1. CASE o = 0
  BY <1>1, LineOrder
<1>2. ASSUME NEW j \in Places, Line(j).end = o
      PROVE  Line(i).end <= o \/ o <= Line(i).from
  <2>1. i \in Nat /\ j \in Nat
    BY LineOrder
  <2>2. i < j => Line(i).end < Line(j).end
    BY LineOrder
  <2>3. j < i => Line(j).end <= Line(i).from
    BY DEF FileInv
  <2>4. Line(i).end \in Nat /\ Line(i).from \in Nat
    BY LineOrder
  <2> QED BY <2>1, <2>2, <2>3, <2>4, <1>2
<1> QED BY <1>1, <1>2 DEF Boundary

\* As many newlines as lines that end there.
EndsIn(t, u) == {i \in Places : t < Line(i).end /\ Line(i).end <= u}

LEMMA NewlinesAreLines ==
  ASSUME FileInv, NEW t \in Nat, NEW u \in Nat
  PROVE  /\ IsFiniteSet(EndsIn(t, u)) /\ IsFiniteSet(Newlines(file, t, u))
         /\ Cardinality(EndsIn(t, u)) \in Nat
         /\ Cardinality(EndsIn(t, u)) = Cardinality(Newlines(file, t, u))
<1> DEFINE I == EndsIn(t, u)
           N == Newlines(file, t, u)
           at == [i \in I |-> Line(i).end]
<1>1. IsFiniteSet(Places)
  BY PlacesAreFinite
<1>2. IsFiniteSet(I)
  <2>1. I \subseteq Places
    BY DEF EndsIn
  <2> HIDE DEF I
  <2> QED BY <1>1, <2>1, FS_Subset
<1>3. at \in Bijection(I, N)
  <2>1. N = {Line(i).end : i \in I}
    BY DEF Newlines, EndsIn, Places, Line
  <2>2. \A i, j \in I : i # j => Line(i).end # Line(j).end
    <3>1. TAKE i, j \in I
    <3>2. i \in Places /\ j \in Places /\ i \in Nat /\ j \in Nat
      BY LineOrder DEF EndsIn
    <3>3. (i < j => Line(i).end < Line(j).end) /\ (j < i => Line(j).end < Line(i).end)
      BY <3>2, LineOrder
    <3>4. Line(i).end \in Nat /\ Line(j).end \in Nat
      BY <3>2, LineOrder
    <3> QED BY <3>2, <3>3, <3>4
  <2> HIDE DEF I, N
  <2>3. at \in [I -> N] /\ \A n \in N : \E i \in I : at[i] = n
    BY <2>1
  <2>4. \A i, j \in I : at[i] = at[j] => i = j
    BY <2>2
  <2> QED BY <2>3, <2>4 DEF Bijection, Injection, Surjection, IsInjective
<1> HIDE DEF I, N, at
<1>4. ExistsBijection(I, N)
  BY <1>3 DEF ExistsBijection
<1>5. IsFiniteSet(N) /\ Cardinality(N) = Cardinality(I) /\ Cardinality(I) \in Nat
  BY <1>2, <1>4, FS_Bijection, FS_CardinalityType
<1> QED BY <1>2, <1>5 DEF I, N

-----------------------------------------------------------------------------
(* What a read holds                                                       *)

\* Half of the record budget is less than the budget.
LEMMA HalfBudget == RECORD_CAP \div 2 \in Nat /\ RECORD_CAP \div 2 < RECORD_CAP
BY ObservingConstantsHold DEF ObservingConstants

\* A trimmed window begins at a line end before the watermark, and at most half a
\* budget of lines of it is history; if it gave up any, half a budget is left.
LEMMA TrimIs ==
  ASSUME FileInv, NEW start \in Nat, NEW limit \in Nat, NEW mark \in Nat \cup {NoMark}
  PROVE  LET t == Trimmed(file, start, limit, mark)
         IN  /\ t \in Nat /\ start <= t
             /\ t # start => \E i \in Places : Line(i).end = t
             /\ mark = NoMark => t = start
             /\ mark \in Nat /\ mark <= limit =>
                  /\ t = start \/ t <= mark
                  /\ Cardinality(EndsIn(t, mark)) <= RECORD_CAP \div 2
                  /\ t # start => RECORD_CAP \div 2 <= Cardinality(EndsIn(t, mark))
<1> DEFINE seen == IF mark = NoMark THEN {} ELSE Newlines(file, start, Min({mark, limit}))
           early == {e \in seen : Cardinality({f \in seen : f > e}) >= RECORD_CAP \div 2}
           t == Trimmed(file, start, limit, mark)
           half == RECORD_CAP \div 2
<1>1. t = IF early = {} THEN start ELSE Max(early)
  BY DEF Trimmed
<1>2. mark = NoMark => seen = {}
  OBVIOUS
<1>3. NoMark \notin Nat
  BY ObservingConstantsHold DEF ObservingConstants
<1>4. CASE mark = NoMark
  <2>1. early = {}
    BY <1>4
  <2> QED BY <2>1, <1>1, <1>3, <1>4
<1>5. CASE mark \in Nat
  <2> DEFINE m == Min({mark, limit})
  <2>1. m \in Nat /\ m <= limit /\ m <= mark /\ (mark <= limit => m = mark)
    BY <1>5, SmallerOfTwo
  <2>2. seen = Newlines(file, start, m)
    BY <1>3, <1>5
  <2>3. \A e \in seen : e \in Nat /\ start < e /\ e <= m /\ \E i \in Places : Line(i).end = e
    <3>1. \A i \in Places : Line(i).end \in Nat
      BY LineOrder
    <3> QED BY <2>2, <3>1 DEF Newlines, Places, Line
  <2>4. \A e \in Nat : start <= e => {f \in seen : f > e} = Newlines(file, e, m)
    <3>1. ASSUME NEW e \in Nat, start <= e
          PROVE  {f \in seen : f > e} = Newlines(file, e, m)
      <4>1. ASSUME NEW f
            PROVE  f \in {g \in seen : g > e} <=> f \in Newlines(file, e, m)
        <5>1. \A i \in Places : Line(i).end \in Nat
          BY LineOrder
        <5>2. f \in {g \in seen : g > e} <=>
                f \in {Line(i).end : i \in Places} /\ start < f /\ f <= m /\ f > e
          BY <2>2 DEF Newlines, Places, Line
        <5>3. f \in Newlines(file, e, m) <=> f \in {Line(i).end : i \in Places} /\ e < f /\ f <= m
          BY DEF Newlines, Places, Line
        <5>4. f \in {Line(i).end : i \in Places} => f \in Nat
          BY <5>1
        <5> HIDE DEF seen, m
        <5> QED BY <5>2, <5>3, <5>4, <3>1, <2>1
      <4> HIDE DEF seen
      <4> QED BY <4>1
    <3> QED BY <3>1
  <2> HIDE DEF m, seen
  <2>5. early = {e \in seen : Cardinality(Newlines(file, e, m)) >= half}
    <3>1. \A e \in seen : {f \in seen : f > e} = Newlines(file, e, m)
      BY <2>3, <2>4
    <3> QED BY <3>1
  <2>6. early \subseteq seen /\ early \subseteq Nat /\ \A e \in early : e <= m
    BY <2>3, <2>5
  <2> HIDE DEF early
  <2>7. /\ t \in Nat /\ start <= t
        /\ t # start => t \in early
        /\ \A e \in early : e <= t
    <3>1. CASE early = {}
      <4>1. t = start
        BY <3>1, <1>1
      <4> QED BY <4>1, <3>1
    <3>2. CASE early # {}
      <4>1. t \in early /\ \A e \in early : e <= t
        BY <3>2, <1>1, <2>1, <2>6, GreatestIsMax
      <4>2. t \in Nat /\ start < t
        BY <4>1, <2>6, <2>3
      <4> QED BY <4>1, <4>2
    <3> QED BY <3>1, <3>2
  <2> HIDE DEF t
  <2>8. Cardinality(EndsIn(t, m)) = Cardinality(Newlines(file, t, m))
        /\ IsFiniteSet(Newlines(file, t, m)) /\ Cardinality(Newlines(file, t, m)) \in Nat
    BY <2>1, <2>7, NewlinesAreLines
  <2>9. Cardinality(Newlines(file, t, m)) <= half
    <3> DEFINE S == Newlines(file, t, m)
    <3>1. S = {f \in seen : f > t}
      BY <2>4, <2>7
    <3>2. CASE S = {}
      BY <3>2, FS_EmptySet, HalfBudget
    <3>3. CASE S # {}
      <4>1. S \subseteq Nat
        BY <3>1, <2>3
      <4>2. PICK x \in S : \A y \in S : x <= y
        BY <3>3, <4>1, LeastExists
      <4> DEFINE R == Newlines(file, x, m)
      <4>3. x \in seen /\ x > t /\ x \in Nat /\ start < x
        BY <3>1, <2>3
      <4>4. x \notin early
        BY <4>3, <2>7
      <4>5. ~(Cardinality(R) >= half)
        BY <4>3, <4>4, <2>5
      <4>6. IsFiniteSet(R) /\ Cardinality(R) \in Nat
        BY <4>3, <2>1, NewlinesAreLines
      <4>7. R = {f \in seen : f > x}
        BY <4>3, <2>4
      <4>8. S = R \cup {x} /\ x \notin R
        <5>1. \A f \in seen : f \in Nat
          BY <2>3
        <5>2. ASSUME NEW f \in S
              PROVE  f \in R \cup {x}
          <6>2. f \in seen /\ f \in Nat /\ x <= f
            BY <3>1, <4>1, <4>2
          <6> QED BY <6>2, <4>3, <4>7
        <5>3. ASSUME NEW f \in R \cup {x}
              PROVE  f \in S
          <6>2. f \in seen /\ f \in Nat /\ (f > x \/ f = x)
            BY <4>3, <4>7, <5>1
          <6>3. f > t
            BY <6>2, <4>3, <2>7
          <6> QED BY <6>2, <6>3, <3>1
        <5>4. x \notin R
          BY <4>3, <4>7
        <5> QED BY <5>2, <5>3, <5>4
      <4> HIDE DEF R, S
      <4>9. Cardinality(S) = Cardinality(R) + 1
        BY <4>6, <4>8, FS_AddElement
      <4> QED BY <4>5, <4>6, <4>9, HalfBudget DEF S
    <3> QED BY <3>2, <3>3
  <2>10. t # start => half <= Cardinality(Newlines(file, t, m))
    BY <2>5, <2>7, <2>8, HalfBudget
  <2>11. t # start => t <= m /\ \E i \in Places : Line(i).end = t
    BY <2>6, <2>7, <2>3
  <2> QED BY <1>3, <1>5, <2>1, <2>7, <2>8, <2>9, <2>10, <2>11 DEF t
<1> QED BY <1>4, <1>5

\* A read from `at' holds every record with an id between there and the offset it
\* leaves, which is a line end unless nothing was read.
ReadFrom(window, at) ==
  /\ at \in Nat /\ window.offset \in Nat /\ at <= window.offset
  /\ window.offset # at => \E i \in Places : Line(i).end = window.offset
  /\ window.events = {Line(i) : i \in {j \in Places : /\ Line(j).from >= at
                                                      /\ Line(j).end <= window.offset
                                                      /\ Line(j).rec.id # NoId}}

Limit(start) == Min({file.len, start + BYTE_CAP})

\* Where a window begins, and that it goes on as long as lines end within the
\* bytes it may hold and it has not used up its budget of records.
IsWindow(w, start, align, mark) ==
  LET trim == Trimmed(file, start, Limit(start), mark)
  IN  /\ ReadFrom(w, w.at)
      /\ start <= w.at /\ trim <= w.at
      /\ w.at # start => \E i \in Places : Line(i).end = w.at
      /\ ~align => w.at = trim
      /\ w.at = trim \/ (trim = start /\ \A i \in Places :
           start < Line(i).end /\ Line(i).end <= Limit(start) => w.at <= Line(i).end)
      /\ align /\ trim = start => \A i \in Places :
           start < Line(i).end /\ Line(i).end <= Limit(start) => start < w.at
      /\ \A k \in Places :
           /\ w.at < Line(k).end /\ Line(k).end <= Limit(start)
           /\ Cardinality(EndsIn(w.at, Line(k).from)) < RECORD_CAP
           => Line(k).end <= w.offset

\* Every window is one.
LEMMA WindowRead ==
  ASSUME FileInv, NEW start \in Nat, NEW align \in BOOLEAN, NEW mark \in Nat \cup {NoMark}
  PROVE  IsWindow(ReadWindow(file, start, align, mark), start, align, mark)
<1> DEFINE w == ReadWindow(file, start, align, mark)
           limit == Limit(start)
           trim == Trimmed(file, start, limit, mark)
           aligned == align /\ trim = start
           firsts == Newlines(file, start, limit)
           at == IF aligned /\ firsts # {} THEN Min(firsts) ELSE trim
           whole == {i \in Places : /\ ~(aligned /\ firsts = {})
                                    /\ Line(i).end > at /\ Line(i).end <= limit}
           scanned == {i \in whole : Cardinality({j \in whole : j < i}) < RECORD_CAP}
           events == {Line(i) : i \in {j \in scanned : Line(j).rec.id # NoId /\ Line(j).from >= at}}
           offset == IF scanned = {} THEN at ELSE Line(Max(scanned)).end
<1>1. w.at = at /\ w.events = events /\ w.offset = offset
  BY DEF ReadWindow, IsEvent, Places, Line, Limit
<1>2. limit \in Nat
  <2>1. file.len \in Nat /\ start + BYTE_CAP \in Nat
    BY ObservingConstantsHold DEF ObservingConstants, FileInv
  <2> QED BY <2>1, SmallerOfTwo DEF Limit
<1>3. /\ \A i \in Places : /\ i \in Nat /\ Line(i).end \in Nat /\ Line(i).from \in Nat
                           /\ Line(i).from < Line(i).end
                           /\ i <= Len(file.lines)
      /\ Len(file.lines) \in Nat
      /\ \A i, j \in Places : (i < j <=> Line(i).end < Line(j).end)
                              /\ (i < j => Line(i).end <= Line(j).from)
                              /\ (Line(i).end <= Line(j).from => i < j)
  <2>1. /\ \A i \in Places : /\ i \in Nat /\ Line(i).end \in Nat /\ Line(i).from \in Nat
                             /\ Line(i).from < Line(i).end
                             /\ i <= Len(file.lines)
        /\ Len(file.lines) \in Nat
    BY LineOrder
  <2>2. \A i, j \in Places : (i < j <=> Line(i).end < Line(j).end)
    BY LineOrder
  <2>3. \A i, j \in Places : i < j => Line(i).end <= Line(j).from
    BY DEF FileInv
  <2>4. \A i, j \in Places : Line(i).end <= Line(j).from => i < j
    <3>1. TAKE i, j \in Places
    <3>2. Line(i).end <= Line(j).from => Line(i).end < Line(j).end
      BY <2>1
    <3> QED BY <2>2, <3>2
  <2> QED BY <2>1, <2>2, <2>3, <2>4
<1>4. trim \in Nat /\ start <= trim /\ (trim # start => \E i \in Places : Line(i).end = trim)
  BY <1>2, TrimIs
<1>5. firsts = {Line(i).end : i \in {j \in Places : start < Line(j).end /\ Line(j).end <= limit}}
  BY DEF Newlines, Places, Line
<1> HIDE DEF limit, trim, firsts
<1>6. /\ at \in Nat /\ start <= at /\ trim <= at
      /\ at # start => \E i \in Places : Line(i).end = at
      /\ ~align => at = trim
      /\ at = trim \/ (trim = start /\ \A i \in Places :
                         start < Line(i).end /\ Line(i).end <= limit => at <= Line(i).end)
      /\ align /\ trim = start => \A i \in Places :
           start < Line(i).end /\ Line(i).end <= limit => start < at
  <2>1. CASE aligned /\ firsts # {}
    <3>1. firsts \subseteq Nat
      BY <1>3, <1>5
    <3>2. at = Min(firsts)
      BY <2>1
    <3>3. at \in firsts /\ \A y \in firsts : at <= y
      BY <2>1, <3>1, <3>2, LeastIsMin
    <3>4. at \in Nat /\ start < at /\ \E i \in Places : Line(i).end = at
      BY <3>1, <3>3, <1>5
    <3>5. \A i \in Places : start < Line(i).end /\ Line(i).end <= limit => at <= Line(i).end
      BY <3>3, <1>5
    <3> HIDE DEF at
    <3> QED BY <2>1, <3>4, <3>5
  <2>2. CASE ~(aligned /\ firsts # {})
    <3>1. at = trim
      BY <2>2
    <3>2. align /\ trim = start => firsts = {}
      BY <2>2
    <3>3. align /\ trim = start => \A i \in Places : ~(start < Line(i).end /\ Line(i).end <= limit)
      BY <3>2, <1>5
    <3> HIDE DEF at
    <3> QED BY <3>1, <3>3, <1>4
  <2> QED BY <2>1, <2>2
<1>7. \A k \in Places : at < Line(k).end /\ Line(k).end <= limit => k \in whole
  <2>1. TAKE k \in Places
  <2>2. at < Line(k).end /\ Line(k).end <= limit => firsts # {}
    <3>1. at < Line(k).end => start < Line(k).end
      BY <1>3, <1>6
    <3> QED BY <3>1, <1>5
  <2>3. at < Line(k).end => Line(k).end > at
    BY <1>3, <1>6
  <2> HIDE DEF at, aligned
  <2> QED BY <2>2, <2>3
<1>8. whole \subseteq Places /\ \A i \in whole : at < Line(i).end /\ Line(i).end <= limit
  <2>1. \A i \in Places : Line(i).end > at => at < Line(i).end
    BY <1>3, <1>6
  <2> HIDE DEF at
  <2> QED BY <2>1
<1> HIDE DEF at, aligned, whole
<1>9. IsFiniteSet(whole) /\ whole \subseteq Nat
  <2>1. IsFiniteSet(Places)
    BY PlacesAreFinite
  <2> QED BY <2>1, <1>3, <1>8, FS_Subset
<1>10. scanned \subseteq whole /\ \A i \in scanned : i \in Nat /\ i <= Len(file.lines)
  BY <1>3, <1>8
<1>11. ASSUME NEW m \in scanned, NEW i \in whole, i <= m
       PROVE  i \in scanned
  <2> DEFINE A == {j \in whole : j < i}
             B == {j \in whole : j < m}
  <2>1. i \in Nat /\ m \in Nat
    BY <1>9, <1>10
  <2>2. A \subseteq B
    <3>1. \A j \in whole : j < i => j < m
      <4>1. TAKE j \in whole
      <4>2. j \in Nat
        BY <1>9
      <4> QED BY <4>2, <2>1, <1>11
    <3> QED BY <3>1
  <2>3. IsFiniteSet(B) /\ B \subseteq whole
    <3>1. B \subseteq whole
      OBVIOUS
    <3> HIDE DEF B
    <3> QED BY <3>1, <1>9, FS_Subset
  <2>4. Cardinality(B) < RECORD_CAP
    OBVIOUS
  <2> HIDE DEF A, B
  <2>5. /\ IsFiniteSet(A) /\ Cardinality(A) <= Cardinality(B)
        /\ Cardinality(A) \in Nat /\ Cardinality(B) \in Nat
    BY <2>2, <2>3, FS_Subset, FS_CardinalityType
  <2>6. Cardinality(A) < RECORD_CAP
    BY <2>4, <2>5, ObservingConstantsHold DEF ObservingConstants
  <2> QED BY <2>6 DEF A
<1>12. \A k \in whole : Cardinality(EndsIn(at, Line(k).from)) < RECORD_CAP => k \in scanned
  <2>1. TAKE k \in whole
  <2>2. k \in Places /\ Line(k).end <= limit /\ Line(k).from < Line(k).end
        /\ Line(k).from \in Nat /\ Line(k).end \in Nat
    BY <1>3, <1>8
  <2>3. {j \in whole : j < k} = EndsIn(at, Line(k).from)
    <3>1. ASSUME NEW j \in Places
          PROVE  j \in whole /\ j < k <=> j \in EndsIn(at, Line(k).from)
      <4>1. j \in whole /\ j < k => at < Line(j).end /\ Line(j).end <= Line(k).from
        BY <1>3, <1>8, <2>2
      <4>2. at < Line(j).end /\ Line(j).end <= Line(k).from => j \in whole /\ j < k
        <5>1. Line(j).end <= Line(k).from => Line(j).end <= limit /\ j < k
          BY <1>2, <1>3, <2>2
        <5> QED BY <5>1, <1>7
      <4> QED BY <4>1, <4>2 DEF EndsIn
    <3> QED BY <3>1, <1>8 DEF EndsIn
  <2> QED BY <2>3
<1>13. whole # {} => scanned # {}
  <2>1. SUFFICES ASSUME whole # {} PROVE scanned # {}
    OBVIOUS
  <2>2. PICK k \in whole : \A y \in whole : k <= y
    BY <2>1, <1>9, LeastExists
  <2>3. {j \in whole : j < k} = {}
    <3>1. \A j \in whole : ~(j < k)
      <4>1. TAKE j \in whole
      <4>2. j \in Nat /\ k \in Nat /\ k <= j
        BY <1>9, <2>2
      <4> QED BY <4>2
    <3> QED BY <3>1
  <2>4. Cardinality({j \in whole : j < k}) < RECORD_CAP
    BY <2>3, FS_EmptySet, ObservingConstantsHold DEF ObservingConstants
  <2> QED BY <2>4
<1> HIDE DEF scanned
<1>14. CASE scanned = {}
  <2>1. whole = {} /\ offset = at
    BY <1>13, <1>14
  <2>2. events = {}
    BY <1>14
  <2>3. \A j \in Places : Line(j).from >= at => ~(Line(j).end <= at)
    BY <1>3, <1>6
  <2>4. \A k \in Places : at < Line(k).end /\ Line(k).end <= limit => Line(k).end <= offset
    BY <1>7, <2>1
  <2> HIDE DEF events, offset, w
  <2>5. ReadFrom(w, at)
    BY <1>1, <1>6, <2>1, <2>2, <2>3 DEF ReadFrom
  <2> QED BY <1>1, <1>6, <2>4, <2>5 DEF IsWindow, w, limit, trim
<1>15. CASE scanned # {}
  <2> DEFINE m == Max(scanned)
  <2>1. m \in scanned /\ \A i \in scanned : i <= m
    <3>1. scanned \subseteq Nat /\ Len(file.lines) \in Nat
      BY <1>3, <1>10
    <3> QED BY <3>1, <1>10, <1>15, GreatestIsMax
  <2>2. offset = Line(m).end
    BY <1>15
  <2> HIDE DEF m, offset, events
  <2>3. m \in Places /\ m \in whole /\ at < offset /\ offset <= limit /\ offset \in Nat
    BY <1>3, <1>8, <1>10, <2>1, <2>2
  <2>4. \A i \in Places : i \in scanned <=> (at < Line(i).end /\ Line(i).end <= offset)
    <3>1. TAKE i \in Places
    <3>2. i \in scanned => at < Line(i).end /\ Line(i).end <= offset
      <4>1. i \in scanned => i = m \/ i < m
        BY <1>3, <2>1, <2>3
      <4> QED BY <1>3, <1>8, <1>10, <2>2, <2>3, <4>1
    <3>3. at < Line(i).end /\ Line(i).end <= offset => i \in scanned
      <4>1. SUFFICES ASSUME at < Line(i).end, Line(i).end <= offset PROVE i \in scanned
        OBVIOUS
      <4>2. i \in whole
        BY <4>1, <1>2, <1>3, <1>7, <2>3
      <4>3. i <= m
        BY <4>1, <1>3, <2>2, <2>3
      <4> QED BY <1>11, <2>1, <4>2, <4>3
    <3> QED BY <3>2, <3>3
  <2>5. events = {Line(i) : i \in {j \in Places : /\ Line(j).from >= at
                                                  /\ Line(j).end <= offset
                                                  /\ Line(j).rec.id # NoId}}
    <3>1. \A j \in Places : Line(j).from >= at => at < Line(j).end
      BY <1>3, <1>6
    <3>2. scanned \subseteq Places
      BY <1>8, <1>10
    <3>3. {j \in scanned : Line(j).rec.id # NoId /\ Line(j).from >= at}
            = {j \in Places : Line(j).from >= at /\ Line(j).end <= offset /\ Line(j).rec.id # NoId}
      BY <3>1, <3>2, <2>4
    <3> QED BY <3>3 DEF events
  <2>6. \A k \in Places :
          /\ at < Line(k).end /\ Line(k).end <= limit
          /\ Cardinality(EndsIn(at, Line(k).from)) < RECORD_CAP
          => Line(k).end <= offset
    BY <1>7, <1>12, <2>4
  <2> HIDE DEF w
  <2>7. ReadFrom(w, at)
    BY <1>1, <1>6, <2>2, <2>3, <2>5 DEF ReadFrom
  <2> QED BY <1>1, <1>6, <2>6, <2>7 DEF IsWindow, w, limit, trim
<1> QED BY <1>14, <1>15

Cursors == [gen : Nat, offset : Nat, last : Nat \cup {Event0}]

\* The bytes a resumed read holds end no earlier than its watermark, and it begins
\* at a line boundary no later than that.
Resumed(c) == ReadWindow(file, Rewound(c), Rewound(c) > 0, c.offset)

LEMMA WatermarkInWindow ==
  ASSUME FileInv, NEW c \in Cursors, file.len >= c.offset
  PROVE  /\ Rewound(c) \in Nat /\ Rewound(c) <= c.offset /\ c.offset <= Rewound(c) + OVERLAP
         /\ Rewound(c) = 0 \/ (Rewound(c) = c.offset - OVERLAP /\ Rewound(c) < c.offset)
         /\ Limit(Rewound(c)) \in Nat /\ c.offset <= Limit(Rewound(c))
         /\ Limit(Rewound(c)) = file.len \/ Limit(Rewound(c)) = Rewound(c) + BYTE_CAP
<1>1. c.offset \in Nat /\ file.len \in Nat
  BY DEF Cursors, FileInv
<1>2. BYTE_CAP \in Nat /\ OVERLAP \in Nat /\ OVERLAP > 0 /\ OVERLAP <= BYTE_CAP
  BY ObservingConstantsHold DEF ObservingConstants
<1>3. /\ Rewound(c) \in Nat /\ Rewound(c) <= c.offset /\ c.offset <= Rewound(c) + OVERLAP
      /\ Rewound(c) = 0 \/ (Rewound(c) = c.offset - OVERLAP /\ Rewound(c) < c.offset)
  BY <1>1, <1>2 DEF Rewound
<1>4. Rewound(c) + BYTE_CAP \in Nat /\ c.offset <= Rewound(c) + BYTE_CAP
  BY <1>1, <1>2, <1>3
<1>5. Limit(Rewound(c)) = IF file.len <= Rewound(c) + BYTE_CAP THEN file.len ELSE Rewound(c) + BYTE_CAP
  BY <1>1, <1>4, SmallerOfTwo DEF Limit
<1> QED BY <1>1, <1>3, <1>4, <1>5

LEMMA ResumedBegins ==
  ASSUME FileInv, NEW c \in Cursors, file.len >= c.offset, Boundary(c.offset)
  PROVE  /\ Resumed(c).at \in Nat /\ Resumed(c).at <= c.offset
         /\ Boundary(Resumed(c).at)
         /\ Cardinality(EndsIn(Resumed(c).at, c.offset)) <= RECORD_CAP \div 2
<1> DEFINE start == Rewound(c)
           limit == Limit(start)
           o == c.offset
           w == Resumed(c)
           trim == Trimmed(file, start, limit, o)
<1>1. /\ start \in Nat /\ start <= o /\ limit \in Nat /\ o <= limit /\ o \in Nat
      /\ start = 0 \/ start < o
  BY WatermarkInWindow DEF Cursors
<1>2. /\ w.at \in Nat /\ start <= w.at /\ trim <= w.at
      /\ w.at # start => \E i \in Places : Line(i).end = w.at
      /\ ~(start > 0) => w.at = trim
      /\ w.at = trim \/ (trim = start /\ \A i \in Places :
                           start < Line(i).end /\ Line(i).end <= limit => w.at <= Line(i).end)
      /\ (start > 0) /\ trim = start => \A i \in Places :
           start < Line(i).end /\ Line(i).end <= limit => start < w.at
  <2>1. o \in Nat \cup {NoMark} /\ (start > 0) \in BOOLEAN
    BY <1>1
  <2>2. IsWindow(w, start, start > 0, o)
    BY <1>1, <2>1, WindowRead DEF Resumed
  <2> HIDE DEF w, start, limit, o
  <2> QED BY <2>2 DEF IsWindow, ReadFrom, limit
<1>3. /\ trim \in Nat /\ (trim = start \/ trim <= o)
      /\ Cardinality(EndsIn(trim, o)) <= RECORD_CAP \div 2
  <2>1. o \in Nat \cup {NoMark}
    BY <1>1
  <2> HIDE DEF limit, start, o
  <2> QED BY <1>1, <2>1, TrimIs
<1> HIDE DEF w, start, limit, trim
<1>4. start > 0 => \E i \in Places : Line(i).end = o
  BY <1>1 DEF Boundary
<1>5. w.at <= o
  <2>1. CASE w.at = trim
    BY <2>1, <1>1, <1>3
  <2>2. CASE w.at # trim
    <3>1. start > 0
      <4>1. ~~(start > 0)
        BY <2>2, <1>2
      <4> QED BY <4>1
    <3>2. PICK i \in Places : Line(i).end = o
      BY <3>1, <1>4
    <3>3. start < o
      BY <3>1, <1>1
    <3> QED BY <2>2, <3>2, <3>3, <1>1, <1>2
  <2> QED BY <2>1, <2>2
<1>6. Boundary(w.at)
  <2>1. CASE w.at # start
    BY <2>1, <1>2 DEF Boundary
  <2>2. CASE w.at = start /\ start = 0
    BY <2>2 DEF Boundary
  <2>3. CASE w.at = start /\ start # 0
    <3>1. start > 0 /\ start < o
      BY <2>3, <1>1
    <3>2. trim = start
      BY <2>3, <1>1, <1>2, <1>3
    <3>3. PICK i \in Places : Line(i).end = o
      BY <3>1, <1>4
    <3>4. start < w.at
      BY <3>1, <3>2, <3>3, <1>1, <1>2
    <3> QED BY <3>4, <2>3, <1>1
  <2> QED BY <2>1, <2>2, <2>3
<1>7. Cardinality(EndsIn(w.at, o)) <= RECORD_CAP \div 2
  <2>1. EndsIn(w.at, o) \subseteq EndsIn(trim, o)
    <3>1. \A i \in Places : w.at < Line(i).end => trim < Line(i).end
      <4>1. TAKE i \in Places
      <4>2. Line(i).end \in Nat
        BY LineOrder
      <4> QED BY <4>2, <1>2, <1>3
    <3> QED BY <3>1 DEF EndsIn
  <2>2. IsFiniteSet(EndsIn(trim, o)) /\ Cardinality(EndsIn(trim, o)) \in Nat
        /\ Cardinality(EndsIn(w.at, o)) \in Nat
    BY <1>1, <1>2, <1>3, NewlinesAreLines
  <2>3. Cardinality(EndsIn(w.at, o)) <= Cardinality(EndsIn(trim, o))
    BY <2>1, <2>2, FS_Subset
  <2> QED BY <2>2, <2>3, <1>3, HalfBudget
<1> QED BY <1>2, <1>5, <1>6, <1>7 DEF w

\* A resumed read that makes no progress has no complete line before it.
LEMMA NoProgress ==
  ASSUME FileInv, NEW c \in Cursors, file.len >= c.offset, Boundary(c.offset),
         Resumed(c).offset <= c.offset,
         NEW k \in Places, c.offset < Line(k).end,
         \A j \in Places : j < k => Line(j).end <= c.offset
  PROVE  Limit(Rewound(c)) < Line(k).end
<1> DEFINE start == Rewound(c)
           limit == Limit(start)
           o == c.offset
           w == Resumed(c)
<1>1. /\ start \in Nat /\ limit \in Nat /\ o \in Nat /\ o <= limit
      /\ Line(k).end \in Nat /\ Line(k).from \in Nat
  BY WatermarkInWindow, LineOrder DEF Cursors
<1>2. SUFFICES ASSUME Line(k).end <= limit PROVE FALSE
  BY <1>1
<1>3. /\ w.at \in Nat /\ w.at <= o
      /\ Cardinality(EndsIn(w.at, o)) <= RECORD_CAP \div 2
  BY ResumedBegins
<1>4. /\ w.at < Line(k).end /\ Line(k).end <= limit
         /\ Cardinality(EndsIn(w.at, Line(k).from)) < RECORD_CAP
         => Line(k).end <= w.offset
      /\ w.offset \in Nat
  <2>1. o \in Nat \cup {NoMark} /\ (start > 0) \in BOOLEAN
    BY <1>1
  <2>2. IsWindow(w, start, start > 0, o)
    BY <1>1, <2>1, WindowRead DEF Resumed
  <2> HIDE DEF w, start, limit, o
  <2> QED BY <2>2 DEF IsWindow, ReadFrom, limit
<1> HIDE DEF w, start, limit
<1>5. EndsIn(w.at, Line(k).from) \subseteq EndsIn(w.at, o)
  <2>1. ASSUME NEW j \in Places, Line(j).end <= Line(k).from
        PROVE  Line(j).end <= o
    <3>1. Line(j).end \in Nat /\ Line(k).from < Line(k).end
      BY LineOrder
    <3>2. Line(j).end < Line(k).end
      BY <2>1, <3>1, <1>1
    <3>3. j < k
      BY <3>2, LineOrder
    <3> QED BY <3>3
  <2> QED BY <2>1 DEF EndsIn
<1>6. Cardinality(EndsIn(w.at, Line(k).from)) < RECORD_CAP
  <2>1. IsFiniteSet(EndsIn(w.at, o)) /\ Cardinality(EndsIn(w.at, o)) \in Nat
        /\ Cardinality(EndsIn(w.at, Line(k).from)) \in Nat
    BY <1>1, <1>3, NewlinesAreLines
  <2>2. Cardinality(EndsIn(w.at, Line(k).from)) <= Cardinality(EndsIn(w.at, o))
    BY <1>5, <2>1, FS_Subset
  <2> QED BY <2>1, <2>2, <1>3, HalfBudget, ObservingConstantsHold DEF ObservingConstants
<1>7. Line(k).end <= w.offset
  BY <1>1, <1>2, <1>3, <1>4, <1>6
<1>8. w.offset <= o
  BY DEF w
<1> QED BY <1>1, <1>4, <1>7, <1>8

\* The rewind reaches back to the load whose result lies behind the watermark.
LEMMA RewindReachesLoad ==
  ASSUME FileInv, NEW c \in Cursors, file.len >= c.offset, Boundary(c.offset),
         NEW i \in Places, NEW k \in Places, Answers(Line(i), Line(k)),
         Line(i).from < Resumed(c).at
  PROVE  Line(k).end <= c.offset
<1> DEFINE start == Rewound(c)
           limit == Limit(start)
           o == c.offset
           w == Resumed(c)
           trim == Trimmed(file, start, limit, o)
           l == Line(i)
           r == Line(k)
<1>1. /\ start \in Nat /\ start <= o /\ limit \in Nat /\ o <= limit /\ o \in Nat
      /\ start = 0 \/ start = o - OVERLAP
  BY WatermarkInWindow DEF Cursors
<1>2. /\ l.from \in Nat /\ l.end \in Nat /\ r.from \in Nat /\ r.end \in Nat
      /\ l.from < l.end /\ r.from < r.end
  BY LineOrder
<1>3. r.from - l.from < OVERLAP /\ Between(l, r) <= RECORD_CAP \div 2
  BY DEF Answers
<1>4. w.at \in Nat /\ w.at <= o /\ l.from < w.at
  BY ResumedBegins
<1>5. SUFFICES ASSUME o < r.end PROVE FALSE
  BY <1>1, <1>2
<1>6. o <= r.from
  BY <1>1, <1>2, <1>5, NoLineAcross
<1>7. /\ start <= w.at
      /\ ~(start > 0) => w.at = trim
      /\ w.at = trim \/ (trim = start /\ \A j \in Places :
                           start < Line(j).end /\ Line(j).end <= limit => w.at <= Line(j).end)
  <2>1. o \in Nat \cup {NoMark} /\ (start > 0) \in BOOLEAN
    BY <1>1
  <2>2. IsWindow(w, start, start > 0, o)
    BY <1>1, <2>1, WindowRead DEF Resumed
  <2> HIDE DEF w, start, limit, o
  <2> QED BY <2>2 DEF IsWindow, ReadFrom, limit
<1>8. /\ trim \in Nat /\ start <= trim /\ (trim # start => Boundary(trim))
      /\ trim # start => RECORD_CAP \div 2 <= Cardinality(EndsIn(trim, o))
  <2>1. o \in Nat \cup {NoMark}
    BY <1>1
  <2> HIDE DEF limit, start, o
  <2> QED BY <1>1, <2>1, TrimIs DEF Boundary
<1>9. start <= l.from /\ (start > 0 => start < l.from)
  <2>1. OVERLAP \in Nat
    BY ObservingConstantsHold DEF ObservingConstants
  <2> HIDE DEF start, o, l, r
  <2> QED BY <2>1, <1>1, <1>2, <1>3, <1>6
<1> HIDE DEF start, limit, o, w, trim
<1>10. CASE w.at = trim
  <2>1. trim # start /\ l.from < trim
    BY <1>1, <1>2, <1>4, <1>8, <1>9, <1>10
  <2>2. l.end <= trim
    BY <1>2, <1>8, <2>1, NoLineAcross
  <2> DEFINE B == {j \in Places : Line(j).from >= l.from /\ Line(j).from < r.from}
             H == EndsIn(trim, o)
  <2>3. i \in B
    BY <1>1, <1>2, <1>4, <1>6
  <2>4. i \notin H
    BY <1>2, <1>8, <2>2 DEF EndsIn
  <2>5. H \subseteq B
    <3>1. ASSUME NEW j \in Places, trim < Line(j).end, Line(j).end <= o
          PROVE  Line(j).from >= l.from /\ Line(j).from < r.from
      <4>1. Line(j).from \in Nat /\ Line(j).end \in Nat /\ Line(j).from < Line(j).end
        BY LineOrder
      <4>2. trim <= Line(j).from
        BY <3>1, <4>1, <1>8, <2>1, NoLineAcross
      <4> HIDE DEF l, r
      <4> QED BY <3>1, <4>1, <4>2, <1>1, <1>2, <1>6, <1>8, <2>1
    <3> QED BY <3>1 DEF EndsIn
  <2>6. IsFiniteSet(Places)
    BY PlacesAreFinite
  <2>7. B \subseteq Places
    OBVIOUS
  <2>8. Between(l, r) = Cardinality(B)
    BY DEF Between, Places, Line
  <2> HIDE DEF B, H, l, r
  <2>9. IsFiniteSet(B) /\ IsFiniteSet(H) /\ Cardinality(H) \in Nat /\ Cardinality(B) \in Nat
    BY <2>5, <2>6, <2>7, FS_Subset, FS_CardinalityType
  <2>10. Cardinality(H \cup {i}) = Cardinality(H) + 1 /\ IsFiniteSet(H \cup {i})
    BY <2>4, <2>9, FS_AddElement
  <2>11. Cardinality(H \cup {i}) <= Cardinality(B)
    BY <2>3, <2>5, <2>9, FS_Subset
  <2>12. RECORD_CAP \div 2 <= Cardinality(H)
    BY <1>8, <2>1 DEF H
  <2> QED BY <1>3, <2>8, <2>9, <2>10, <2>11, <2>12, HalfBudget
<1>11. CASE w.at # trim
  <2>1. start > 0
    BY <1>1, <1>7, <1>11
  <2>2. l.from > start /\ l.from <= limit /\ l.from # 0
    BY <1>1, <1>2, <1>4, <1>9, <2>1
  <2>3. \E j \in Places : Line(j).end = l.from
    <3>1. l.from = IF i = 1 THEN 0 ELSE Line(i - 1).end
      BY DEF FileInv
    <3>2. i # 1 /\ i - 1 \in Places
      BY <2>2, <3>1, LineOrder
    <3> QED BY <3>1, <3>2
  <2>4. PICK j \in Places : Line(j).end = l.from
    BY <2>3
  <2>5. start < Line(j).end /\ Line(j).end <= limit
    BY <2>2, <2>4, <1>1, <1>2
  <2>6. w.at <= l.from
    BY <2>4, <2>5, <1>7, <1>11
  <2> QED BY <2>6, <1>2, <1>4
<1> QED BY <1>10, <1>11

\* When the rewind makes no progress, no result that fits a window has come.
LEMMA NoResultWhenStuck ==
  ASSUME FileInv, NEW c \in Cursors, file.len >= c.offset, Boundary(c.offset),
         Resumed(c).offset <= c.offset,
         NEW i \in Places, NEW k \in Places, Answers(Line(i), Line(k)),
         Line(i).from < c.offset
  PROVE  Line(k).end <= c.offset
<1> DEFINE start == Rewound(c)
           o == c.offset
           l == Line(i)
           r == Line(k)
           After == {j \in Places : o < Line(j).end}
<1>1. /\ start \in Nat /\ o <= start + OVERLAP /\ o \in Nat
      /\ Limit(start) = file.len \/ Limit(start) = start + BYTE_CAP
      /\ Limit(start) \in Nat
  BY WatermarkInWindow DEF Cursors
<1>2. /\ \A j \in Places : /\ j \in Nat /\ Line(j).from \in Nat /\ Line(j).end \in Nat
                           /\ Line(j).from < Line(j).end /\ Line(j).end <= EndOf(file)
      /\ EndOf(file) \in Nat /\ EndOf(file) <= file.len /\ file.len \in Nat
  BY LineOrder DEF FileInv
<1>3. SUFFICES ASSUME o < r.end PROVE FALSE
  BY <1>1, <1>2
<1>4. After # {} /\ After \subseteq Nat
  BY <1>2, <1>3
<1>5. PICK n \in After : \A j \in After : n <= j
  BY <1>4, LeastExists
<1>6. n \in Places /\ o < Line(n).end /\ n <= k
  BY <1>3, <1>5
<1>7. \A j \in Places : j < n => Line(j).end <= o
  <2>1. TAKE j \in Places
  <2>2. j < n => ~(n <= j)
    BY <1>2, <1>6
  <2>3. j < n => ~(o < Line(j).end)
    BY <1>5, <2>2
  <2> QED BY <2>3, <1>1, <1>2
<1> HIDE DEF After
<1>8. Limit(start) < Line(n).end
  BY <1>6, <1>7, NoProgress
<1>9. Limit(start) = start + BYTE_CAP
  <2>1. Line(n).end <= file.len
    BY <1>2, <1>6
  <2> QED BY <2>1, <1>1, <1>2, <1>6, <1>8
<1>10. o <= Line(n).from /\ Line(n).from <= o
  <2>1. o <= Line(n).from
    BY <1>1, <1>2, <1>6, NoLineAcross
  <2>2. Line(n).from = IF n = 1 THEN 0 ELSE Line(n - 1).end
    BY <1>6 DEF FileInv
  <2>3. n # 1 => n - 1 \in Places /\ n - 1 < n
    BY <1>6, LineOrder
  <2> QED BY <2>1, <2>2, <2>3, <1>1, <1>7
<1>11. Line(n).end <= r.end
  <2>1. n = k \/ n < k
    BY <1>2, <1>6
  <2>2. n < k => Line(n).end < Line(k).end
    BY <1>6, LineOrder
  <2> QED BY <2>1, <2>2, <1>2, <1>6
<1>12. Line(n).from >= l.from
  BY <1>1, <1>2, <1>6, <1>10
<1>13. Line(n).end - Line(n).from + OVERLAP <= BYTE_CAP
  BY <1>6, <1>11, <1>12 DEF Answers, Fitting, Places, Line
<1>14. BYTE_CAP \in Nat /\ OVERLAP \in Nat /\ Line(n).from \in Nat /\ Line(n).end \in Nat
  BY <1>2, <1>6, ObservingConstantsHold DEF ObservingConstants
<1> HIDE DEF start, o
<1> QED BY <1>1, <1>8, <1>9, <1>10, <1>13, <1>14

\* What an observation read holds, and that it goes back far enough: what lies
\* before it was behind the watermark, and so was the result of a load before it.
ReachesBack(c, w, at) ==
  at = 0 \/ ( c # NoCursor /\
              ( Boundary(c.offset) =>
                  /\ Boundary(at) /\ at <= c.offset
                  /\ \A i, k \in Places :
                       Answers(Line(i), Line(k)) /\ Line(i).from < at /\ Line(k).end <= w.offset
                       => Line(k).end <= c.offset ) )

LEMMA ObservationRead ==
  ASSUME FileInv, NEW c \in Cursors \cup {NoCursor}
  PROVE  \E at : LET w == ReadObservation(file, c) IN ReadFrom(w, at) /\ ReachesBack(c, w, at)
<1> DEFINE w == ReadObservation(file, c)
           whole == ReadWindow(file, 0, FALSE, NoMark)
<1>1. NoMark \in Nat \cup {NoMark} /\ NoMark \notin Nat
  BY ObservingConstantsHold DEF ObservingConstants
<1>2. \A start \in Nat : LET u == ReadWindow(file, start, FALSE, NoMark)
                         IN  ReadFrom(u, start)
  <2>1. TAKE start \in Nat
  <2> DEFINE u == ReadWindow(file, start, FALSE, NoMark)
  <2>2. IsWindow(u, start, FALSE, NoMark)
    BY <1>1, WindowRead
  <2>3. file.len \in Nat /\ start + BYTE_CAP \in Nat
    BY ObservingConstantsHold DEF ObservingConstants, FileInv
  <2>4. Limit(start) \in Nat
    BY <2>3, SmallerOfTwo DEF Limit
  <2>5. Trimmed(file, start, Limit(start), NoMark) = start
    BY <1>1, <2>4, TrimIs
  <2> HIDE DEF u
  <2>6. ReadFrom(u, u.at) /\ u.at = start
    BY <2>2, <2>5 DEF IsWindow
  <2> QED BY <2>6 DEF u
<1>3. ReadFrom(whole, 0) /\ ReachesBack(c, whole, 0)
  BY <1>2 DEF ReachesBack
<1>4. CASE ~Resumes(file, c)
  BY <1>3, <1>4 DEF ReadObservation
<1>5. CASE Resumes(file, c)
  <2>1. c \in Cursors /\ c # NoCursor /\ file.len >= c.offset
    BY <1>5 DEF Resumes
  <2> DEFINE u == Resumed(c)
             v == ReadWindow(file, c.offset, FALSE, NoMark)
  <2>2. w = CASE ~Proven(Rewound(c), c, u) -> whole
              [] Proven(Rewound(c), c, u) /\ Stuck(c, u) -> v
              [] OTHER -> u
    BY <1>5 DEF ReadObservation, Resumed
  <2>3. c.offset \in Nat
    BY <2>1 DEF Cursors
  <2>4. ReadFrom(v, c.offset)
    BY <1>2, <2>3
  <2>5. ReadFrom(u, u.at)
    <3>1. Rewound(c) \in Nat
      BY <2>1, WatermarkInWindow
    <3>2. c.offset \in Nat \cup {NoMark} /\ (Rewound(c) > 0) \in BOOLEAN
      BY <2>3
    <3>3. IsWindow(u, Rewound(c), Rewound(c) > 0, c.offset)
      BY <3>1, <3>2, WindowRead DEF Resumed
    <3> HIDE DEF u
    <3> QED BY <3>3 DEF IsWindow
  <2> HIDE DEF u, v, whole, w
  <2>6. CASE ~Proven(Rewound(c), c, u)
    <3>1. w = whole
      BY <2>2, <2>6
    <3> QED BY <3>1, <1>3 DEF w
  <2>7. CASE Proven(Rewound(c), c, u) /\ Stuck(c, u)
    <3>1. w = v
      BY <2>2, <2>7
    <3>2. u.offset <= c.offset
      BY <2>7 DEF Stuck
    <3>3. ReachesBack(c, v, c.offset)
      <4>1. SUFFICES ASSUME Boundary(c.offset),
                            NEW i \in Places, NEW k \in Places,
                            Answers(Line(i), Line(k)), Line(i).from < c.offset
                     PROVE  Line(k).end <= c.offset
        BY <2>1, <2>3 DEF ReachesBack
      <4> QED BY <4>1, <2>1, <3>2, NoResultWhenStuck DEF u
    <3> QED BY <3>1, <3>3, <2>4 DEF w
  <2>8. CASE Proven(Rewound(c), c, u) /\ ~Stuck(c, u)
    <3>1. w = u
      BY <2>2, <2>8
    <3>2. ReachesBack(c, u, u.at)
      <4>1. SUFFICES ASSUME Boundary(c.offset)
                     PROVE  /\ Boundary(u.at) /\ u.at <= c.offset
                            /\ \A i, k \in Places :
                                 Answers(Line(i), Line(k)) /\ Line(i).from < u.at
                                 => Line(k).end <= c.offset
        BY <2>1 DEF ReachesBack
      <4>2. Boundary(u.at) /\ u.at <= c.offset
        BY <4>1, <2>1, ResumedBegins DEF u
      <4>3. ASSUME NEW i \in Places, NEW k \in Places,
                   Answers(Line(i), Line(k)), Line(i).from < u.at
            PROVE  Line(k).end <= c.offset
        BY <4>1, <4>3, <2>1, RewindReachesLoad DEF u
      <4> QED BY <4>2, <4>3
    <3> QED BY <3>1, <3>2, <2>5 DEF w
  <2> QED BY <2>6, <2>7, <2>8
<1> QED BY <1>4, <1>5

-----------------------------------------------------------------------------
(* The inductive invariant                                                 *)

Observations == [state : {"attempted", "loaded"}, at : Nat, event : Nat \cup {NoEvent},
                 known : SUBSET Nat]

\* When the rankings emitted so far were created.
Times == {rankings[i].at : i \in Emitted}

TypeInv ==
  /\ born \in Nat /\ swaps \in Nat /\ now \in Nat /\ cuts \in Nat
  /\ cursor \in Cursors \cup {NoCursor}
  /\ pc \in [Passes -> {"idle", "read", "extract", "record"}]
  /\ resume \in [Passes -> Cursors \cup {NoCursor}]
  /\ snap \in [Passes -> [events : SUBSET Lines, offset : Nat]]
  /\ expected \in [Passes -> [gen : Nat, now : Nat]]

\* Rankings and rows are of the past, and a row is attributed to a ranking that
\* is still there.
RowInv ==
  /\ \A e \in DOMAIN rankings :
       /\ e \in 1 .. MaxEmit /\ rankings[e].at <= now
       /\ rankings[e] \in [at : Nat, shown : BOOLEAN, lists : BOOLEAN]
  /\ \A i \in DOMAIN rows : /\ i \in 1 .. born
                            /\ rows[i] \in Observations /\ rows[i].at <= now
                            /\ rows[i].event \in DOMAIN rankings \cup {NoEvent}
  /\ \A p \in Passes : expected[p].now <= now
  /\ cuts = 0 => gone = {}

\* Ids are given out in order, and a result comes after the load it answers.
IdInv ==
  /\ \A i \in Places :
       /\ Line(i).rec.id \in 1 .. born \cup {NoId}
       /\ Line(i).rec.kind # "other" => Line(i).rec.id # NoId
       /\ Line(i).rec.kind = "result" =>
            Line(i).rec.call \in Nat /\ Line(i).rec.call < Line(i).rec.id
  /\ \A i, j \in Places :
       i < j /\ Line(i).rec.id # NoId /\ Line(j).rec.id # NoId
       => Line(i).rec.id < Line(j).rec.id

\* What a pass read is still true of the transcript, or of none.
SnapInv ==
  \A p \in Passes :
    /\ \A l \in snap[p].events :
         /\ l.rec.id \in 1 .. born
         /\ \A i \in Places : Line(i).rec.id = l.rec.id => Line(i) = l
    /\ snap[p].events # {} => \E l \in snap[p].events : \A m \in snap[p].events : m.from <= l.from

Fresh(p) == pc[p] \in {"extract", "record"}
Kept == DOMAIN rows \cup gone

\* Behind a watermark that is stored, resumed from or about to be stored every
\* load is recorded or about to be recorded.
Behind(o, ids) ==
  \A i \in Places : Line(i).rec.kind = "load" /\ Line(i).end <= o => Line(i).rec.id \in ids
CoverInv ==
  swaps = 0 =>
    /\ cursor # NoCursor => Boundary(cursor.offset) /\ Behind(cursor.offset, Kept)
    /\ \A p \in Passes :
         /\ resume[p] # NoCursor => Boundary(resume[p].offset) /\ Behind(resume[p].offset, Kept)
         /\ Fresh(p) => /\ Boundary(snap[p].offset)
                        /\ Behind(snap[p].offset, Kept \cup EventIds(snap[p]))

\* A write that passes the fence is no older than any row.
Generation(c) == IF c = NoCursor THEN 0 ELSE c.gen
FenceInv ==
  cuts = 0 => \A p \in Passes : pc[p] = "record" =>
    /\ ~Alone => expected[p].gen <= Generation(cursor)
    /\ Fence(p) => \A i \in DOMAIN rows : rows[i].at <= expected[p].now

\* Behind a watermark a load whose result is there as well is recorded as loaded,
\* or both are in the window about to be recorded.
Joins(o, events) ==
  \A i, k \in Places :
    /\ Line(i).rec.kind = "load" /\ Answers(Line(i), Line(k))
    /\ Line(i).end <= o /\ Line(k).end <= o
    => IF Line(i) \in events THEN Line(k) \in events
       ELSE Line(i).rec.id \in DOMAIN rows => rows[Line(i).rec.id].state = "loaded"

\* Once the transcript was replaced, what was known of the old one says nothing.
Known(ids) == swaps = 0 \/ \E i \in Places : Line(i).rec.id \in ids
JoinInv ==
  cuts = 0 /\ (swaps = 0 \/ Alone) =>
    /\ cursor # NoCursor /\ Known(DOMAIN rows) =>
         Boundary(cursor.offset) /\ Joins(cursor.offset, {})
    /\ \A p \in Passes :
         /\ resume[p] # NoCursor /\ Known(DOMAIN rows) =>
              Boundary(resume[p].offset) /\ Joins(resume[p].offset, {})
         /\ Fresh(p) /\ Known(DOMAIN rows \cup EventIds(snap[p])) =>
              Boundary(snap[p].offset) /\ Joins(snap[p].offset, snap[p].events)

\* A ranking e is the one a row that knows the times T names for a load at time t.
Credits(e, t, T) ==
  /\ rankings[e].shown /\ rankings[e].lists
  /\ rankings[e].at <= t /\ t <= rankings[e].at + WINDOW
  /\ \A u \in T : ~(rankings[e].at < u /\ u <= t)

\* An attributed row names the latest of the rankings it knew.
AttrInv ==
  \A i \in Places : \A e \in DOMAIN rankings :
    ( /\ Line(i).rec.kind = "load" /\ Line(i).rec.id \in DOMAIN rows
      /\ rows[Line(i).rec.id].event = e )
    => Credits(e, Line(i).rec.time, rows[Line(i).rec.id].known)

BaseInv == TypeInv /\ FileInv /\ RowInv /\ IdInv /\ SnapInv
ObservingInv == BaseInv /\ CoverInv /\ FenceInv /\ JoinInv /\ AttrInv

-----------------------------------------------------------------------------
(* What the steps do                                                       *)

\* A record is appended: the lines before it stay, and its id is new.
LEMMA WriteEffect ==
  ASSUME BaseInv, Write
  PROVE  \E new \in Lines, n \in Nat :
           /\ n \notin Places /\ n = Len(file.lines) + 1
           /\ file'.lines = Append(file.lines, new) /\ file'.len = new.end
           /\ file' = [lines |-> file'.lines, len |-> file'.len]
           /\ Places' = Places \cup {n} /\ Line(n)' = new
           /\ \A i \in Places : Line(i)' = Line(i) /\ i < n
           /\ new.from = EndOf(file) /\ new.from < new.end
           /\ new.rec.id \in {born + 1, NoId} /\ born' \in Nat
           /\ born' = IF new.rec.id = NoId THEN born ELSE born + 1
           /\ new.rec.kind # "other" => new.rec.id # NoId
           /\ new.rec.kind = "result" => new.rec.call \in 1 .. born
           /\ new.rec.time \in Nat
<1>1. PICK r \in Records, s \in Sizes :
        /\ file' = AppendLine(file, r, s)
        /\ born' = IF r.id = NoId THEN born ELSE born + 1
  BY DEF Write
<1>2. born \in Nat /\ now \in Nat /\ MaxTime \in Nat /\ s \in Nat /\ s > 0 /\ NoId \notin Nat
  BY ObservingConstantsHold DEF ObservingConstants, BaseInv, TypeInv
<1>3. \A l \in Loads : l.id \in 1 .. born
  <2>1. \A i \in Places : Line(i).rec.kind = "load" => Line(i).rec.id \in 1 .. born
    BY DEF BaseInv, IdInv
  <2> QED BY <2>1 DEF Loads, Places, Line
<1>4. /\ r \in Recs /\ r.id \in {born + 1, NoId} /\ (r.kind # "other" => r.id # NoId)
      /\ r.kind = "result" => r.call \in 1 .. born
  <2>1. CASE r \in {[kind |-> "load", id |-> born + 1, call |-> NoId, ok |-> FALSE, time |-> t] :
                      t \in {now} \cup {MaxTime + 1 : e \in 1 .. MaxEmit}}
    <3>1. PICK t \in {now} \cup {MaxTime + 1 : e \in 1 .. MaxEmit} :
            r = [kind |-> "load", id |-> born + 1, call |-> NoId, ok |-> FALSE, time |-> t]
      BY <2>1
    <3>2. t \in Nat
      BY <1>2
    <3> QED BY <3>1, <3>2, <1>2 DEF Recs
  <2>2. CASE r \in {[kind |-> "result", id |-> born + 1, call |-> l.id, ok |-> b, time |-> now] :
                      l \in {m \in Loads : m.id \notin Answered}, b \in BOOLEAN}
    <3>1. PICK l \in Loads, b \in BOOLEAN :
            r = [kind |-> "result", id |-> born + 1, call |-> l.id, ok |-> b, time |-> now]
      BY <2>2
    <3>2. l.id \in 1 .. born
      BY <1>3
    <3> QED BY <3>1, <3>2, <1>2 DEF Recs
  <2>3. CASE r \in {[kind |-> "other", id |-> i, call |-> NoId, ok |-> FALSE, time |-> now] :
                      i \in {born + 1, NoId}}
    <3>1. PICK i \in {born + 1, NoId} :
            r = [kind |-> "other", id |-> i, call |-> NoId, ok |-> FALSE, time |-> now]
      BY <2>3
    <3>2. i \in Nat \cup {NoId}
      BY <1>2
    <3> QED BY <3>1, <3>2, <1>2 DEF Recs
  <2> QED BY <2>1, <2>2, <2>3 DEF Records
<1> DEFINE new == [rec |-> r, from |-> EndOf(file), end |-> EndOf(file) + s]
<1>5. FileInv /\ EndOf(file) \in Nat /\ Len(file.lines) \in Nat /\ Places = 1 .. Len(file.lines)
      /\ file.lines \in Seq(Lines)
  BY LineOrder DEF BaseInv, FileInv
<1>14. PICK n \in Nat : n = Len(file.lines) + 1
  BY <1>5
<1>6. new \in Lines
  BY <1>2, <1>4, <1>5 DEF Lines
<1>7. file' = [lines |-> Append(file.lines, new), len |-> EndOf(file) + s]
  BY <1>1 DEF AppendLine
<1> HIDE DEF new
<1>8. /\ Places' = Places \cup {n} /\ n \notin Places /\ n \in Nat
      /\ \A i \in Places : Line(i)' = Line(i) /\ i < n
      /\ Line(n)' = new
  <2>1. file'.lines = Append(file.lines, new)
    BY <1>7
  <2>2. /\ Len(Append(file.lines, new)) = n
        /\ \A i \in 1 .. Len(file.lines) : Append(file.lines, new)[i] = file.lines[i]
        /\ Append(file.lines, new)[n] = new
        /\ DOMAIN Append(file.lines, new) = 1 .. n
    BY <1>5, <1>6, <1>14
  <2>3. Places' = 1 .. n
    BY <2>1, <2>2 DEF Places
  <2>4. \A i : Line(i)' = Append(file.lines, new)[i]
    BY <2>1 DEF Line
  <2>5. \A i \in Places : Line(i)' = Line(i)
    <3>1. TAKE i \in Places
    <3>2. Append(file.lines, new)[i] = file.lines[i]
      BY <2>2, <1>5
    <3>3. Line(i) = file.lines[i]
      BY DEF Line
    <3> QED BY <2>4, <3>2, <3>3
  <2>6. Line(n)' = new
    BY <2>2, <2>4
  <2>7. 1 .. n = 1 .. Len(file.lines) \cup {n} /\ n \notin 1 .. Len(file.lines) /\ n \in Nat
        /\ \A i \in 1 .. Len(file.lines) : i < n
    BY <1>5, <1>14
  <2> QED BY <2>3, <2>5, <2>6, <2>7, <1>5
<1>9. new.rec = r /\ new.from = EndOf(file) /\ new.end = EndOf(file) + s /\ r.time \in Nat
  BY <1>4 DEF new, Recs
<1>10. new.from < new.end /\ born' \in Nat
  BY <1>1, <1>2, <1>5, <1>9
<1>11. /\ file'.lines = Append(file.lines, new) /\ file'.len = new.end
       /\ file' = [lines |-> file'.lines, len |-> file'.len]
  BY <1>7, <1>9
<1>12. /\ new.rec.id \in {born + 1, NoId}
       /\ born' = IF new.rec.id = NoId THEN born ELSE born + 1
       /\ new.rec.kind # "other" => new.rec.id # NoId
       /\ new.rec.kind = "result" => new.rec.call \in 1 .. born
       /\ new.rec.time \in Nat
  BY <1>1, <1>4, <1>9
<1> WITNESS new \in Lines, n \in Nat
<1> QED BY <1>8, <1>9, <1>10, <1>11, <1>12, <1>14

\* The loads a pass found in its window.
FoundLoads(p) == {l \in snap[p].events : l.rec.kind = "load"}
FoundIds(p) == {l.rec.id : l \in FoundLoads(p)}

\* The rows of the loads found are new or revised: an attribution stays, and only
\* an attempted row becomes loaded.
LEMMA RecordEffect ==
  ASSUME BaseInv, NEW p \in Passes, Record(p)
  PROVE  /\ DOMAIN rows' = DOMAIN rows \cup FoundIds(p)
         /\ \A i \in DOMAIN rows :
              /\ rows'[i] \in Observations
              /\ rows'[i].event = rows[i].event /\ rows'[i].known = rows[i].known
              /\ rows'[i].at \in {rows[i].at, expected[p].now}
              /\ rows[i].state = "loaded" => rows'[i].state = "loaded"
         /\ \A i \in DOMAIN rows' \ DOMAIN rows :
              /\ rows'[i] \in Observations /\ rows'[i].at = expected[p].now
              /\ rows'[i].known = Times
              /\ \E l \in FoundLoads(p) :
                   /\ l.rec.id = i
                   /\ rows'[i].event \in DOMAIN rankings \cup {NoEvent}
                   /\ rows'[i].event \in Attributions(l.rec, expected[p].now)
         /\ \A l \in FoundLoads(p) : \A r \in snap[p].events :
              /\ r.rec.kind = "result" /\ r.rec.call = l.rec.id /\ r.rec.ok
              /\ l.rec.id \in DOMAIN rows => rows[l.rec.id].at <= expected[p].now
              => rows'[l.rec.id].state = "loaded"
         /\ cursor' \in Cursors /\ cursor'.offset = snap[p].offset
         /\ cursor'.gen = NextGeneration(expected[p].gen)
<1> DEFINE at == expected[p].now
           loads == {r \in InWindow(snap[p]) : r.kind = "load"}
           ids == {l.id : l \in loads}
           load(i) == CHOOSE l \in loads : l.id = i
           found(i, e) == NewObservation(load(i), snap[p], at, e)
<1>1. PICK attr \in [ids -> DOMAIN rankings \cup {NoEvent}] :
        /\ \A i \in ids : attr[i] \in Attributions(load(i), at)
        /\ rows' = [i \in DOMAIN rows \cup ids |->
                     CASE i \notin ids -> rows[i]
                       [] i \in ids /\ i \in DOMAIN rows -> Upsert(rows[i], found(i, attr[i]))
                       [] OTHER -> found(i, attr[i])]
  BY DEF Record
<1>2. ids = FoundIds(p) /\ \A i \in ids : \E l \in FoundLoads(p) : l.rec = load(i) /\ l.rec.id = i
  <2>1. loads = {l.rec : l \in FoundLoads(p)}
    BY DEF InWindow, FoundLoads
  <2>2. ids = FoundIds(p)
    BY <2>1 DEF FoundIds
  <2>3. \A i \in ids : load(i) \in loads /\ load(i).id = i
    OBVIOUS
  <2> QED BY <2>1, <2>2, <2>3
<1>3. \A i \in ids : attr[i] \in DOMAIN rankings \cup {NoEvent}
  OBVIOUS
<1>4. /\ at \in Nat /\ snap[p] \in [events : SUBSET Lines, offset : Nat]
      /\ DOMAIN rankings \subseteq Nat /\ Times \subseteq Nat
      /\ \A i \in DOMAIN rows : rows[i] \in Observations
  BY ObservingConstantsHold DEF ObservingConstants, BaseInv, TypeInv, RowInv, Times, Emitted
<1>5. \A i \in ids : /\ found(i, attr[i]) \in Observations
                     /\ found(i, attr[i]).event = attr[i] /\ found(i, attr[i]).at = at
                     /\ found(i, attr[i]).known = Times
                     /\ found(i, attr[i]).state = StateIn(load(i), snap[p])
  <2>1. TAKE i \in ids
  <2>2. StateIn(load(i), snap[p]) \in {"attempted", "loaded"}
    BY DEF StateIn
  <2>3. attr[i] \in Nat \cup {NoEvent}
    BY <1>3, <1>4
  <2>4. found(i, attr[i]) = [state |-> StateIn(load(i), snap[p]), at |-> at,
                             event |-> attr[i], known |-> Times]
    BY DEF NewObservation, Times
  <2> HIDE DEF load, at, found
  <2> QED BY <1>4, <2>2, <2>3, <2>4 DEF Observations
<1>6. \A i \in ids : load(i).id = i
  BY <1>2
<1> HIDE DEF load, found, ids
<1>7. DOMAIN rows' = DOMAIN rows \cup FoundIds(p)
  BY <1>1, <1>2
<1>8. ASSUME NEW i \in DOMAIN rows
      PROVE  /\ rows'[i] \in Observations /\ rows'[i].event = rows[i].event
             /\ rows'[i].known = rows[i].known /\ rows'[i].at \in {rows[i].at, at}
             /\ rows[i].state = "loaded" => rows'[i].state = "loaded"
  <2>1. CASE i \notin ids
    BY <2>1, <1>1, <1>4
  <2>2. CASE i \in ids
    <3> DEFINE f == found(i, attr[i])
    <3>1. rows'[i] = Upsert(rows[i], f)
      BY <2>2, <1>1
    <3>2. f \in Observations /\ f.at = at /\ rows[i] \in Observations
      BY <2>2, <1>4, <1>5
    <3> HIDE DEF f, at
    <3> QED BY <3>1, <3>2 DEF Upsert, Observations
  <2> QED BY <2>1, <2>2
<1>9. ASSUME NEW i \in DOMAIN rows' \ DOMAIN rows
      PROVE  /\ rows'[i] \in Observations /\ rows'[i].at = at /\ rows'[i].known = Times
             /\ \E l \in FoundLoads(p) :
                   /\ l.rec.id = i
                   /\ rows'[i].event \in DOMAIN rankings \cup {NoEvent}
                   /\ rows'[i].event \in Attributions(l.rec, at)
  <2>1. i \in ids /\ i \notin DOMAIN rows
    BY <1>2, <1>7
  <2>2. rows'[i] = found(i, attr[i])
    BY <1>1, <2>1
  <2> HIDE DEF at
  <2> QED BY <1>1, <1>2, <1>3, <1>5, <2>1, <2>2
<1>10. ASSUME NEW l \in FoundLoads(p), NEW r \in snap[p].events,
              r.rec.kind = "result", r.rec.call = l.rec.id, r.rec.ok,
              l.rec.id \in DOMAIN rows => rows[l.rec.id].at <= at
       PROVE  rows'[l.rec.id].state = "loaded"
  <2> DEFINE i == l.rec.id
             f == found(i, attr[i])
  <2>1. i \in ids
    BY <1>2 DEF FoundIds
  <2>2. f \in Observations /\ f.at = at /\ f.state = "loaded"
    <3>1. r.rec \in InWindow(snap[p])
      BY DEF InWindow
    <3>2. StateIn(load(i), snap[p]) = "loaded"
      BY <3>1, <1>6, <1>10, <2>1 DEF StateIn
    <3> QED BY <3>2, <1>5, <2>1
  <2>3. CASE i \notin DOMAIN rows
    <3>1. rows'[i] = f
      BY <1>1, <2>1, <2>3
    <3> HIDE DEF f
    <3> QED BY <3>1, <2>2
  <2>4. CASE i \in DOMAIN rows
    <3>1. rows'[i] = Upsert(rows[i], f)
      BY <1>1, <2>1, <2>4
    <3>2. rows[i] \in Observations /\ rows[i].at <= at
      BY <1>4, <1>10, <2>4
    <3> HIDE DEF f, i, at
    <3>3. Upsert(rows[i], f).state = "loaded"
      BY <2>2, <3>2 DEF Upsert, Observations
    <3> QED BY <3>1, <3>3 DEF i
  <2> QED BY <2>3, <2>4
<1>11. cursor' \in Cursors /\ cursor'.offset = snap[p].offset
       /\ cursor'.gen = NextGeneration(expected[p].gen)
  <2>1. cursor' = [gen |-> NextGeneration(expected[p].gen), offset |-> snap[p].offset,
                   last |-> LastId(snap[p].events)]
    BY DEF Record
  <2>2. NextGeneration(expected[p].gen) \in Nat
    BY DEF NextGeneration, BaseInv, TypeInv
  <2>3. LastId(snap[p].events) \in Nat \cup {Event0}
    <3>1. CASE snap[p].events = {}
      BY <3>1 DEF LastId
    <3>2. CASE snap[p].events # {}
      <4>1. \E l \in snap[p].events : \A m \in snap[p].events : m.from <= l.from
        BY <3>2 DEF BaseInv, SnapInv
      <4>2. PICK l \in snap[p].events : LastId(snap[p].events) = l.rec.id
        BY <3>2, <4>1 DEF LastId
      <4>3. l.rec.id \in 1 .. born
        BY DEF BaseInv, SnapInv
      <4> QED BY <4>2, <4>3 DEF BaseInv, TypeInv
    <3> QED BY <3>1, <3>2
  <2> QED BY <2>1, <2>2, <2>3, <1>4 DEF Cursors
<1> QED BY <1>7, <1>8, <1>9, <1>10, <1>11

\* A pass reads the transcript from somewhere that reaches back far enough.
LEMMA SnapshotEffect ==
  ASSUME BaseInv, NEW p \in Passes, Snapshot(p)
  PROVE  \E w \in [events : SUBSET Lines, offset : Nat], at \in Nat :
           /\ snap' = [snap EXCEPT ![p] = w] /\ snap'[p] = w
           /\ \A q \in Passes : q # p => snap'[q] = snap[q]
           /\ ReadFrom(w, at) /\ ReachesBack(resume[p], w, at)
<1> DEFINE u == ReadObservation(file, resume[p])
<1>1. FileInv /\ resume[p] \in Cursors \cup {NoCursor} /\ snap \in [Passes -> [events : SUBSET Lines, offset : Nat]]
  BY DEF BaseInv, TypeInv
<1>2. PICK at : ReadFrom(u, at) /\ ReachesBack(resume[p], u, at)
  BY <1>1, ObservationRead
<1>3. snap' = [snap EXCEPT ![p] = [events |-> u.events, offset |-> u.offset]]
  BY DEF Snapshot
<1> HIDE DEF u
<1> DEFINE w == [events |-> u.events, offset |-> u.offset]
<1>4. at \in Nat /\ u.offset \in Nat
  BY <1>2 DEF ReadFrom
<1>5. u.events \subseteq Lines
  <2>1. u.events = {Line(i) : i \in {j \in Places : /\ Line(j).from >= at
                                                    /\ Line(j).end <= u.offset
                                                    /\ Line(j).rec.id # NoId}}
    BY <1>2 DEF ReadFrom
  <2>2. \A i \in Places : Line(i) \in Lines
    BY <1>1, LineOrder
  <2> QED BY <2>1, <2>2
<1>6. w.events = u.events /\ w.offset = u.offset /\ w \in [events : SUBSET Lines, offset : Nat]
  BY <1>4, <1>5
<1>7. snap' = [snap EXCEPT ![p] = w]
  BY <1>3
<1> HIDE DEF w
<1>8. ReadFrom(w, at) /\ ReachesBack(resume[p], w, at)
  BY <1>2, <1>6 DEF ReadFrom, ReachesBack
<1>9. snap'[p] = w /\ \A q \in Passes : q # p => snap'[q] = snap[q]
  BY <1>1, <1>7
<1> QED BY <1>4, <1>6, <1>7, <1>8, <1>9

\* Where the lines stay, so does what is said of them.
LEMMA SameFile ==
  ASSUME file'.lines = file.lines
  PROVE  /\ Places' = Places /\ \A i : Line(i)' = Line(i)
         /\ \A o : Boundary(o)' <=> Boundary(o)
         /\ \A l, r : Answers(l, r)' <=> Answers(l, r)
<1>1. Places' = Places /\ \A i : Line(i)' = Line(i)
  BY DEF Places, Line
<1>2. \A o : Boundary(o)' <=> Boundary(o)
  BY <1>1 DEF Boundary
<1>3. \A l, r : Answers(l, r)' <=> Answers(l, r)
  BY DEF Answers, Between, Fitting
<1> QED BY <1>1, <1>2, <1>3

\* The actions that leave the transcript are those of the passes, of the rankings
\* and of the user.
Elsewhere ==
  \/ \E p \in Passes : Step(p) \/ ResumeUnreadable(p) \/ Abandon(p)
  \/ Begin \/ Emit \/ Prune \/ Clear \/ Tick

LEMMA ElsewhereEffect ==
  ASSUME Elsewhere
  PROVE  UNCHANGED <<file, born, swaps>>
<1>1. ASSUME NEW p \in Passes, Step(p) \/ ResumeUnreadable(p) \/ Abandon(p)
      PROVE  UNCHANGED <<file, born, swaps>>
  BY <1>1 DEF Step, ReadResume, ResumeUnreadable, Resume, Snapshot, ReadExpected, Record,
       Abandon, transcript
<1>2. CASE Begin \/ Emit \/ Prune \/ Clear \/ Tick
  BY <1>2 DEF Begin, Emit, Prune, Clear, Tick, transcript
<1> QED BY <1>1, <1>2 DEF Elsewhere

\* The file stays a sequence of lines.
LEMMA FileStep == BaseInv /\ [Next]_vars => FileInv'
<1> SUFFICES ASSUME BaseInv, [Next]_vars PROVE FileInv'
  OBVIOUS
<1>1. FileInv /\ BaseInv
  BY DEF BaseInv
<1>2. CASE UNCHANGED file
  <2>1. Places' = Places /\ \A i : Line(i)' = Line(i)
    BY <1>2, SameFile
  <2> QED BY <1>1, <1>2, <2>1 DEF FileInv, EndOf
<1>3. CASE Write
  <2>1. PICK new \in Lines, n \in Nat :
           /\ n \notin Places /\ n = Len(file.lines) + 1
           /\ file'.lines = Append(file.lines, new) /\ file'.len = new.end
           /\ file' = [lines |-> file'.lines, len |-> file'.len]
           /\ Places' = Places \cup {n} /\ Line(n)' = new
           /\ \A i \in Places : Line(i)' = Line(i) /\ i < n
           /\ new.from = EndOf(file) /\ new.from < new.end
    BY <1>1, <1>3, WriteEffect
  <2>2. /\ Len(file.lines) \in Nat /\ Places = 1 .. Len(file.lines)
        /\ file.lines \in Seq(Lines) /\ new.end \in Nat
    BY <1>1, LineOrder DEF FileInv, Lines
  <2>3. file' \in [lines : Seq(Lines), len : Nat]
    <3>1. Append(file.lines, new) \in Seq(Lines)
      BY <2>2
    <3> QED BY <2>1, <2>2, <3>1
  <2>4. EndOf(file)' = new.end
    <3>1. file'.lines # <<>> /\ Len(file'.lines) = n
      BY <2>1, <2>2
    <3>2. EndOf(file)' = Line(n)'.end
      BY <3>1 DEF EndOf, Line
    <3> QED BY <2>1, <3>2
  <2>5. EndOf(file)' <= file'.len
    BY <2>1, <2>2, <2>4
  <2>6. ASSUME NEW i \in Places'
        PROVE  /\ Line(i)'.from < Line(i)'.end
               /\ Line(i)'.from = IF i = 1 THEN 0 ELSE Line(i - 1)'.end
    <3>1. CASE i \in Places
      <4>1. i = 1 \/ i - 1 \in Places
        BY <2>2, <3>1
      <4>2. Line(i).from < Line(i).end /\ Line(i).from = IF i = 1 THEN 0 ELSE Line(i - 1).end
        BY <1>1, <3>1 DEF FileInv
      <4>3. Line(i)' = Line(i) /\ (i # 1 => Line(i - 1)' = Line(i - 1))
        BY <2>1, <3>1, <4>1
      <4> QED BY <4>2, <4>3
    <3>2. CASE i = n
      <4>1. CASE n = 1
        <5>1. file.lines = <<>>
          BY <2>1, <2>2, <4>1
        <5> QED BY <2>1, <3>2, <4>1, <5>1 DEF EndOf
      <4>2. CASE n # 1
        <5>1. file.lines # <<>> /\ n - 1 = Len(file.lines) /\ n - 1 \in Places
          BY <2>1, <2>2, <4>2
        <5>2. Line(n - 1)'.end = EndOf(file)
          BY <2>1, <5>1 DEF EndOf, Line
        <5> QED BY <2>1, <3>2, <4>2, <5>2
      <4> QED BY <4>1, <4>2
    <3> QED BY <2>1, <3>1, <3>2
  <2>7. ASSUME NEW i \in Places', NEW j \in Places', i < j
        PROVE  Line(i)'.end <= Line(j)'.from
    <3>1. CASE j \in Places
      <4>1. i \in Places
        BY <2>1, <2>2, <2>7, <3>1
      <4> QED BY <1>1, <2>1, <2>7, <3>1, <4>1 DEF FileInv
    <3>2. CASE j = n
      <4>1. i \in Places
        BY <2>1, <2>2, <2>7, <3>2
      <4>2. Line(i).end <= EndOf(file)
        BY <1>1, <4>1, LineOrder
      <4> QED BY <2>1, <3>2, <4>1, <4>2
    <3> QED BY <2>1, <3>1, <3>2
  <2> QED BY <2>3, <2>5, <2>6, <2>7 DEF FileInv
<1>4. CASE WritePartly
  <2>1. file' = [file EXCEPT !.len = @ + 1]
    BY <1>4 DEF WritePartly
  <2>2. file'.lines = file.lines /\ file'.len = file.len + 1 /\ file' \in [lines : Seq(Lines), len : Nat]
    BY <1>1, <2>1 DEF FileInv
  <2>3. Places' = Places /\ (\A i : Line(i)' = Line(i)) /\ EndOf(file)' = EndOf(file)
    BY <2>2 DEF Places, Line, EndOf
  <2>4. EndOf(file) \in Nat /\ file.len \in Nat /\ EndOf(file) <= file.len
    BY <1>1, LineOrder DEF FileInv
  <2>5. EndOf(file) <= file.len + 1
    BY <2>4
  <2> QED BY <1>1, <2>2, <2>3, <2>5 DEF FileInv
<1>5. CASE Replace
  <2>1. file' = [lines |-> <<>>, len |-> 0]
    BY <1>5 DEF Replace, EmptyFile
  <2>2. Places' = {} /\ EndOf(file)' = 0
    BY <2>1 DEF Places, EndOf
  <2> QED BY <2>1, <2>2 DEF FileInv
<1>6. CASE Elsewhere
  BY <1>2, <1>6, ElsewhereEffect
<1>7. CASE UNCHANGED vars
  BY <1>2, <1>7 DEF vars
<1> QED BY <1>3, <1>4, <1>5, <1>6, <1>7 DEF Next, Elsewhere

\* A ranking begins now, and the others stay.
LEMMA BeginEffect ==
  ASSUME Begin
  PROVE  \E e \in 1 .. MaxEmit :
           /\ e \notin DOMAIN rankings /\ DOMAIN rankings' = DOMAIN rankings \cup {e}
           /\ \A f \in DOMAIN rankings : rankings'[f] = rankings[f]
           /\ rankings'[e] = [at |-> now, shown |-> FALSE, lists |-> FALSE]
<1>1. PICK e \in 1 .. MaxEmit \ DOMAIN rankings :
        rankings' = [f \in DOMAIN rankings \cup {e} |->
                       IF f = e THEN [at |-> now, shown |-> FALSE, lists |-> FALSE]
                       ELSE rankings[f]]
  BY DEF Begin
<1> QED BY <1>1

\* An emission moves no creation, and what was emitted before stays as it is.
LEMMA EmitEffect ==
  ASSUME Emit, \A e \in DOMAIN rankings : rankings[e] \in [at : Nat, shown : BOOLEAN, lists : BOOLEAN]
  PROVE  /\ DOMAIN rankings' = DOMAIN rankings
         /\ \A e \in DOMAIN rankings :
              /\ rankings'[e] \in [at : Nat, shown : BOOLEAN, lists : BOOLEAN]
              /\ rankings'[e].at = rankings[e].at
              /\ rankings[e].shown => rankings'[e] = rankings[e]
<1>1. PICK e \in DOMAIN rankings \ Emitted, b \in BOOLEAN :
        rankings' = [rankings EXCEPT ![e].shown = TRUE, ![e].lists = b]
  BY DEF Emit
<1>2. e \in DOMAIN rankings /\ ~rankings[e].shown
  BY <1>1 DEF Emitted
<1> QED BY <1>1, <1>2

\* A prune takes rankings and rows, and never a ranking alone whose row stays.
LEMMA PruneEffect ==
  ASSUME Prune
  PROVE  /\ DOMAIN rankings' \subseteq DOMAIN rankings
         /\ \A e \in DOMAIN rankings' : rankings'[e] = rankings[e]
         /\ DOMAIN rows' \subseteq DOMAIN rows
         /\ \A i \in DOMAIN rows' :
              /\ rows'[i] = rows[i]
              /\ rows[i].event \in DOMAIN rankings \cup {NoEvent}
                 => rows[i].event \in DOMAIN rankings' \cup {NoEvent}
         /\ DOMAIN rows' \cup gone' = Kept
<1>1. PICK cutoff \in 0 .. now :
        LET old == {e \in DOMAIN rankings : rankings[e].at < cutoff}
            out == {i \in DOMAIN rows :
                      IF rows[i].event = NoEvent THEN rows[i].at < cutoff
                      ELSE rows[i].event \in old}
        IN  /\ rows' = [i \in DOMAIN rows \ out |-> rows[i]]
            /\ rankings' = [e \in DOMAIN rankings \ old |-> rankings[e]]
            /\ gone' = gone \cup out
  BY DEF Prune
<1> DEFINE old == {e \in DOMAIN rankings : rankings[e].at < cutoff}
           out == {i \in DOMAIN rows :
                     IF rows[i].event = NoEvent THEN rows[i].at < cutoff
                     ELSE rows[i].event \in old}
<1>2. /\ rows' = [i \in DOMAIN rows \ out |-> rows[i]]
      /\ rankings' = [e \in DOMAIN rankings \ old |-> rankings[e]]
      /\ gone' = gone \cup out
  BY <1>1
<1>3. out \subseteq DOMAIN rows
  OBVIOUS
<1>4. \A i \in DOMAIN rows \ out : rows[i].event = NoEvent \/ rows[i].event \notin old
  OBVIOUS
<1> HIDE DEF old, out
<1> QED BY <1>2, <1>3, <1>4 DEF Kept

\* The variables keep their types.
LEMMA TypeStep == BaseInv /\ [Next]_vars => TypeInv'
<1> SUFFICES ASSUME BaseInv, [Next]_vars PROVE TypeInv'
  OBVIOUS
<1>1. TypeInv
  BY DEF BaseInv
<1>2. NoSnap \in [events : SUBSET Lines, offset : Nat] /\ NoStamp \in [gen : Nat, now : Nat]
  BY DEF NoSnap, NoStamp
<1>3. ASSUME NEW p \in Passes, ReadResume(p) \/ ResumeUnreadable(p)
      PROVE  TypeInv'
  <2>1. PICK from \in Cursors \cup {NoCursor} : Resume(p, from)
    BY <1>1, <1>3 DEF ReadResume, ResumeUnreadable, TypeInv
  <2> QED BY <1>1, <2>1 DEF Resume, Goto, TypeInv, transcript, ledger
<1>4. ASSUME NEW p \in Passes, Snapshot(p)
      PROVE  TypeInv'
  <2>1. PICK w \in [events : SUBSET Lines, offset : Nat] : snap' = [snap EXCEPT ![p] = w]
    BY <1>4, SnapshotEffect
  <2> QED BY <1>1, <1>4, <2>1 DEF Snapshot, Goto, TypeInv, transcript, ledger
<1>5. ASSUME NEW p \in Passes, ReadExpected(p)
      PROVE  TypeInv'
  <2>1. (IF cursor = NoCursor THEN 0 ELSE cursor.gen) \in Nat /\ now \in Nat
    BY <1>1 DEF TypeInv, Cursors
  <2> QED BY <1>1, <1>5, <2>1 DEF ReadExpected, Goto, TypeInv, transcript, ledger
<1>6. ASSUME NEW p \in Passes, Record(p)
      PROVE  TypeInv'
  <2>1. cursor' \in Cursors
    BY <1>6, RecordEffect
  <2> QED BY <1>1, <1>2, <1>6, <2>1 DEF Record, Reset, Goto, TypeInv, transcript
<1>7. ASSUME NEW p \in Passes, Abandon(p)
      PROVE  TypeInv'
  BY <1>1, <1>2, <1>7 DEF Abandon, Reset, Goto, TypeInv, transcript, ledger
<1>8. CASE Write
  <2>1. born' \in Nat
    BY <1>8, WriteEffect
  <2> QED BY <1>1, <1>8, <2>1 DEF Write, TypeInv, ledger, pass
<1>9. CASE WritePartly \/ Replace
  BY <1>1, <1>9 DEF WritePartly, Replace, TypeInv, ledger, pass
<1>10. CASE Begin \/ Emit
  <2>1. UNCHANGED <<born, swaps, now, cuts, cursor, pc, resume, snap, expected>>
    BY <1>10 DEF Begin, Emit, transcript, ledger, pass
  <2> QED BY <1>1, <2>1 DEF TypeInv
<1>11. CASE Prune \/ Clear \/ Tick
  BY <1>1, <1>11 DEF Prune, Clear, Tick, TypeInv, transcript, ledger, pass
<1>12. CASE UNCHANGED vars
  BY <1>1, <1>12 DEF vars, TypeInv
<1> QED BY <1>3, <1>4, <1>5, <1>6, <1>7, <1>8, <1>9, <1>10, <1>11, <1>12 DEF Next, Step

\* Rows and rankings stay of the past, and rows attributed to rankings that are
\* there.
LEMMA RowStep == BaseInv /\ [Next]_vars => RowInv'
<1> SUFFICES ASSUME BaseInv, [Next]_vars PROVE RowInv'
  OBVIOUS
<1>1. TypeInv /\ RowInv /\ BaseInv
  BY DEF BaseInv
<1>2. ASSUME UNCHANGED <<born, now, rankings, rows, gone, cuts>>,
             \A p \in Passes : expected'[p].now <= now
      PROVE  RowInv'
  BY <1>1, <1>2 DEF RowInv
<1>3. ASSUME NEW p \in Passes, ReadResume(p) \/ ResumeUnreadable(p) \/ Snapshot(p)
      PROVE  RowInv'
  BY <1>1, <1>2, <1>3 DEF ReadResume, ResumeUnreadable, Resume, Snapshot, RowInv, transcript, ledger
<1>4. ASSUME NEW p \in Passes, ReadExpected(p) \/ Abandon(p)
      PROVE  RowInv'
  <2>1. \A q \in Passes : expected'[q].now \in {expected[q].now, now, 0}
    <3>1. CASE ReadExpected(p)
      <4>1. PICK g : expected' = [expected EXCEPT ![p] = [gen |-> g, now |-> now]]
        BY <3>1 DEF ReadExpected
      <4> QED BY <1>1, <4>1 DEF TypeInv
    <3>2. CASE Abandon(p)
      BY <1>1, <3>2 DEF Abandon, Reset, NoStamp, TypeInv
    <3> QED BY <1>4, <3>1, <3>2
  <2>2. \A q \in Passes : expected'[q].now <= now
    <3>1. TAKE q \in Passes
    <3>2. now \in Nat /\ expected[q].now <= now
      BY <1>1 DEF TypeInv, RowInv
    <3> QED BY <2>1, <3>2
  <2> QED BY <1>2, <1>4, <2>2 DEF ReadExpected, Abandon, transcript, ledger
<1>5. ASSUME NEW p \in Passes, Record(p)
      PROVE  RowInv'
  <2>1. /\ DOMAIN rows' = DOMAIN rows \cup FoundIds(p)
        /\ \A i \in DOMAIN rows :
              /\ rows'[i] \in Observations
              /\ rows'[i].event = rows[i].event
              /\ rows'[i].at \in {rows[i].at, expected[p].now}
        /\ \A i \in DOMAIN rows' \ DOMAIN rows :
              /\ rows'[i] \in Observations /\ rows'[i].at = expected[p].now
              /\ rows'[i].event \in DOMAIN rankings \cup {NoEvent}
    BY <1>1, <1>5, RecordEffect
  <2>2. FoundIds(p) \subseteq 1 .. born
    BY <1>1 DEF BaseInv, SnapInv, FoundIds, FoundLoads
  <2>3. UNCHANGED <<born, now, rankings, gone, cuts>>
    BY <1>5 DEF Record, transcript
  <2>4. \A q \in Passes : expected'[q].now <= now
    <3>1. \A q \in Passes : expected'[q].now \in {expected[q].now, 0}
      BY <1>1, <1>5 DEF Record, Reset, NoStamp, TypeInv
    <3>2. now \in Nat /\ \A q \in Passes : expected[q].now <= now
      BY <1>1 DEF TypeInv, RowInv
    <3> QED BY <3>1, <3>2
  <2>5. ASSUME NEW i \in DOMAIN rows'
        PROVE  /\ i \in 1 .. born /\ rows'[i] \in Observations /\ rows'[i].at <= now
               /\ rows'[i].event \in DOMAIN rankings \cup {NoEvent}
    <3>1. CASE i \in DOMAIN rows
      BY <1>1, <2>1, <3>1 DEF RowInv
    <3>2. CASE i \notin DOMAIN rows
      BY <1>1, <2>1, <2>2, <3>2 DEF RowInv
    <3> QED BY <3>1, <3>2
  <2> QED BY <1>1, <2>3, <2>4, <2>5 DEF RowInv
<1>6. CASE Write
  <2>1. born' \in Nat /\ (born' = born \/ born' = born + 1)
    BY <1>1, <1>6, WriteEffect
  <2>2. 1 .. born \subseteq 1 .. born'
    BY <1>1, <2>1 DEF TypeInv
  <2> QED BY <1>1, <1>6, <2>2 DEF Write, RowInv, ledger, pass
<1>7. CASE WritePartly \/ Replace
  BY <1>1, <1>7 DEF WritePartly, Replace, RowInv, ledger, pass
<1>8. CASE Begin \/ Emit
  <2>1. UNCHANGED <<born, now, rows, gone, cuts, expected>>
    BY <1>8 DEF Begin, Emit, transcript, ledger, pass
  <2>2. /\ DOMAIN rankings \subseteq DOMAIN rankings'
        /\ \A f \in DOMAIN rankings' :
             /\ f \in 1 .. MaxEmit /\ rankings'[f].at <= now
             /\ rankings'[f] \in [at : Nat, shown : BOOLEAN, lists : BOOLEAN]
    <3>1. CASE Begin
      <4>1. PICK e \in 1 .. MaxEmit :
              /\ e \notin DOMAIN rankings /\ DOMAIN rankings' = DOMAIN rankings \cup {e}
              /\ \A f \in DOMAIN rankings : rankings'[f] = rankings[f]
              /\ rankings'[e] = [at |-> now, shown |-> FALSE, lists |-> FALSE]
        BY <3>1, BeginEffect
      <4>2. now \in Nat
        BY <1>1 DEF TypeInv
      <4>3. /\ rankings'[e] \in [at : Nat, shown : BOOLEAN, lists : BOOLEAN]
            /\ rankings'[e].at <= now
        BY <4>1, <4>2
      <4> HIDE DEF Begin
      <4> QED BY <1>1, <4>1, <4>3 DEF RowInv
    <3>2. CASE Emit
      BY <1>1, <3>2, EmitEffect DEF RowInv
    <3> QED BY <1>8, <3>1, <3>2
  <2> QED BY <1>1, <2>1, <2>2 DEF RowInv
<1>9. CASE Prune
  <2>1. /\ DOMAIN rankings' \subseteq DOMAIN rankings
        /\ \A e \in DOMAIN rankings' : rankings'[e] = rankings[e]
        /\ DOMAIN rows' \subseteq DOMAIN rows
        /\ \A i \in DOMAIN rows' :
              /\ rows'[i] = rows[i]
              /\ rows[i].event \in DOMAIN rankings \cup {NoEvent}
                 => rows[i].event \in DOMAIN rankings' \cup {NoEvent}
    BY <1>9, PruneEffect
  <2>2. cuts' # 0 /\ UNCHANGED <<born, now, expected>>
    BY <1>1, <1>9 DEF Prune, TypeInv, transcript, pass
  <2> QED BY <1>1, <2>1, <2>2 DEF RowInv
<1>10. CASE Clear
  <2>1. DOMAIN rankings' = {} /\ DOMAIN rows' = {}
    BY <1>10 DEF Clear
  <2>2. cuts' # 0 /\ UNCHANGED <<born, now, expected>>
    BY <1>1, <1>10 DEF Clear, TypeInv, transcript, pass
  <2> QED BY <1>1, <2>1, <2>2 DEF RowInv
<1>11. CASE Tick
  <2>1. now' = now + 1 /\ now \in Nat /\ UNCHANGED <<born, rankings, rows, gone, cuts, expected>>
    BY <1>1, <1>11 DEF Tick, TypeInv, transcript, ledger, pass
  <2>2. /\ \A e \in DOMAIN rankings : rankings[e].at <= now + 1
        /\ \A i \in DOMAIN rows : rows[i].at <= now + 1
        /\ \A p \in Passes : expected[p].now <= now + 1
    BY <1>1, <2>1 DEF TypeInv, RowInv, Observations
  <2> QED BY <1>1, <2>1, <2>2 DEF RowInv
<1>12. CASE UNCHANGED vars
  BY <1>1, <1>12 DEF vars, RowInv
<1> QED BY <1>3, <1>4, <1>5, <1>6, <1>7, <1>8, <1>9, <1>10, <1>11, <1>12 DEF Next, Step

\* Ids stay in the order of the lines.
LEMMA IdStep == BaseInv /\ [Next]_vars => IdInv'
<1> SUFFICES ASSUME BaseInv, [Next]_vars PROVE IdInv'
  OBVIOUS
<1>1. TypeInv /\ FileInv /\ IdInv /\ BaseInv /\ NoId \notin Nat
  BY ObservingConstantsHold DEF ObservingConstants, BaseInv
<1>2. ASSUME Places' = Places, \A i : Line(i)' = Line(i), UNCHANGED born
      PROVE  IdInv'
  BY <1>1, <1>2 DEF IdInv
<1>3. CASE Write
  <2>1. PICK new \in Lines, n \in Nat :
           /\ n \notin Places
           /\ Places' = Places \cup {n} /\ Line(n)' = new
           /\ \A i \in Places : Line(i)' = Line(i) /\ i < n
           /\ new.rec.id \in {born + 1, NoId} /\ born' \in Nat
           /\ born' = IF new.rec.id = NoId THEN born ELSE born + 1
           /\ new.rec.kind # "other" => new.rec.id # NoId
           /\ new.rec.kind = "result" => new.rec.call \in 1 .. born
    BY <1>1, <1>3, WriteEffect
  <2>2. born \in Nat /\ \A i \in Places : i \in Nat
    BY <1>1, LineOrder DEF TypeInv
  <2>3. ASSUME NEW i \in Places'
        PROVE  /\ Line(i)'.rec.id \in 1 .. born' \cup {NoId}
               /\ Line(i)'.rec.kind # "other" => Line(i)'.rec.id # NoId
               /\ Line(i)'.rec.kind = "result" =>
                    Line(i)'.rec.call \in Nat /\ Line(i)'.rec.call < Line(i)'.rec.id
    <3>1. CASE i \in Places
      <4>1. Line(i)' = Line(i) /\ Line(i).rec.id \in 1 .. born \cup {NoId}
        BY <1>1, <2>1, <3>1 DEF IdInv
      <4>2. 1 .. born \subseteq 1 .. born'
        BY <2>1, <2>2
      <4> QED BY <1>1, <3>1, <4>1, <4>2 DEF IdInv
    <3>2. CASE i = n
      <4>1. Line(i)' = new
        BY <2>1, <3>2
      <4>2. new.rec.id \in 1 .. born' \cup {NoId}
        BY <2>1, <2>2
      <4>3. new.rec.kind = "result" => new.rec.id = born + 1 /\ new.rec.call \in 1 .. born
        BY <2>1
      <4>4. new.rec.kind = "result" => new.rec.call \in Nat /\ new.rec.call < new.rec.id
        BY <2>2, <4>3
      <4> QED BY <2>1, <4>1, <4>2, <4>4
    <3> QED BY <2>1, <3>1, <3>2
  <2>4. ASSUME NEW i \in Places', NEW j \in Places', i < j,
               Line(i)'.rec.id # NoId, Line(j)'.rec.id # NoId
        PROVE  Line(i)'.rec.id < Line(j)'.rec.id
    <3>1. i \in Places
      BY <2>1, <2>2, <2>4
    <3>2. CASE j \in Places
      BY <1>1, <2>1, <2>4, <3>1, <3>2 DEF IdInv
    <3>3. CASE j = n
      <4>1. Line(i).rec.id \in 1 .. born /\ Line(i)' = Line(i)
        BY <1>1, <2>1, <2>4, <3>1 DEF IdInv
      <4>2. Line(j)'.rec.id = born + 1
        BY <2>1, <2>4, <3>3
      <4> QED BY <2>2, <4>1, <4>2
    <3> QED BY <2>1, <3>2, <3>3
  <2> QED BY <2>3, <2>4 DEF IdInv
<1>4. CASE WritePartly
  <2>1. file'.lines = file.lines /\ born' = born
    BY <1>1, <1>4 DEF WritePartly, FileInv
  <2>2. Places' = Places /\ \A i : Line(i)' = Line(i)
    BY <2>1 DEF Places, Line
  <2> QED BY <1>2, <2>1, <2>2
<1>5. CASE Replace
  <2>1. Places' = {}
    BY <1>5 DEF Replace, EmptyFile, Places
  <2> QED BY <2>1 DEF IdInv
<1>6. CASE Elsewhere
  BY <1>2, <1>6, ElsewhereEffect, SameFile
<1>7. CASE UNCHANGED vars
  BY <1>2, <1>7, SameFile DEF vars
<1> QED BY <1>3, <1>4, <1>5, <1>6, <1>7 DEF Next, Elsewhere

\* An id names one line.
LEMMA IdsAreUnique ==
  ASSUME BaseInv, NEW i \in Places, NEW j \in Places,
         Line(i).rec.id = Line(j).rec.id, Line(i).rec.id # NoId
  PROVE  i = j
<1>1. IdInv /\ born \in Nat /\ i \in Nat /\ j \in Nat
  BY LineOrder DEF BaseInv, TypeInv
<1>2. Line(i).rec.id \in 1 .. born /\ Line(j).rec.id \in 1 .. born
  BY <1>1 DEF IdInv
<1>3. /\ i < j => Line(i).rec.id < Line(j).rec.id
      /\ j < i => Line(j).rec.id < Line(i).rec.id
  BY <1>1 DEF IdInv
<1> QED BY <1>1, <1>2, <1>3

\* What a pass read stays true of the transcript, or of none.
LEMMA SnapStep == BaseInv /\ [Next]_vars => SnapInv'
<1> SUFFICES ASSUME BaseInv, [Next]_vars PROVE SnapInv'
  OBVIOUS
<1>1. TypeInv /\ FileInv /\ IdInv /\ SnapInv /\ BaseInv /\ NoId \notin Nat /\ born \in Nat
  BY ObservingConstantsHold DEF ObservingConstants, BaseInv, TypeInv
<1>2. ASSUME Places' = Places, \A i : Line(i)' = Line(i), UNCHANGED born,
             \A p \in Passes : snap'[p] = snap[p] \/ snap'[p].events = {}
      PROVE  SnapInv'
  BY <1>1, <1>2 DEF SnapInv
<1>3. ASSUME NEW p \in Passes, Record(p) \/ Abandon(p)
      PROVE  SnapInv'
  <2>1. \A q \in Passes : snap'[q] = snap[q] \/ snap'[q].events = {}
    BY <1>1, <1>3 DEF Record, Abandon, Reset, NoSnap, TypeInv
  <2>2. UNCHANGED <<file, born>>
    BY <1>3 DEF Record, Abandon, transcript
  <2> QED BY <1>2, <2>1, <2>2, SameFile
<1>4. ASSUME NEW p \in Passes, Snapshot(p)
      PROVE  SnapInv'
  <2>1. PICK w \in [events : SUBSET Lines, offset : Nat], at \in Nat :
          /\ snap'[p] = w /\ ReadFrom(w, at)
          /\ \A q \in Passes : q # p => snap'[q] = snap[q]
    BY <1>1, <1>4, SnapshotEffect
  <2>2. UNCHANGED <<file, born>> /\ Places' = Places /\ \A i : Line(i)' = Line(i)
    BY <1>4, SameFile DEF Snapshot, transcript
  <2>3. ASSUME NEW l \in w.events
        PROVE  /\ l.rec.id \in 1 .. born /\ l.from \in Nat /\ l.from <= EndOf(file)
               /\ \A i \in Places : Line(i).rec.id = l.rec.id => Line(i) = l
    <3>1. PICK j \in Places : l = Line(j) /\ Line(j).rec.id # NoId
      BY <2>1 DEF ReadFrom
    <3>2. l.rec.id \in 1 .. born
      BY <1>1, <3>1 DEF IdInv
    <3>3. \A i \in Places : Line(i).rec.id = l.rec.id => Line(i) = l
      BY <1>1, <3>1, IdsAreUnique
    <3>4. Line(j).from \in Nat /\ Line(j).end \in Nat /\ Line(j).from < Line(j).end
          /\ Line(j).end <= EndOf(file) /\ EndOf(file) \in Nat
      BY <1>1, LineOrder
    <3> QED BY <3>1, <3>2, <3>3, <3>4
  <2>4. ASSUME w.events # {}
        PROVE  \E l \in w.events : \A m \in w.events : m.from <= l.from
    <3> DEFINE S == {l.from : l \in w.events}
    <3>1. S # {} /\ S \subseteq Nat /\ \A y \in S : y <= EndOf(file)
      BY <2>3, <2>4
    <3>2. EndOf(file) \in Nat
      BY <1>1, LineOrder
    <3> HIDE DEF S
    <3>3. Max(S) \in S /\ \A y \in S : y <= Max(S)
      BY <3>1, <3>2, GreatestIsMax
    <3> QED BY <3>3 DEF S
  <2>5. ASSUME NEW q \in Passes
        PROVE  /\ \A l \in snap'[q].events :
                    /\ l.rec.id \in 1 .. born'
                    /\ \A i \in Places' : Line(i)'.rec.id = l.rec.id => Line(i)' = l
               /\ snap'[q].events # {} =>
                    \E l \in snap'[q].events : \A m \in snap'[q].events : m.from <= l.from
    <3>1. CASE q = p
      BY <2>1, <2>2, <2>3, <2>4, <3>1
    <3>2. CASE q # p
      BY <1>1, <2>1, <2>2, <3>2 DEF SnapInv
    <3> QED BY <3>1, <3>2
  <2> QED BY <2>5 DEF SnapInv
<1>5. ASSUME NEW p \in Passes, ReadResume(p) \/ ResumeUnreadable(p) \/ ReadExpected(p)
      PROVE  SnapInv'
  <2>1. UNCHANGED <<file, born, snap>>
    BY <1>5 DEF ReadResume, ResumeUnreadable, Resume, ReadExpected, transcript
  <2> QED BY <1>2, <2>1, SameFile
<1>6. CASE Write
  <2>1. PICK new \in Lines, n \in Nat :
           /\ Places' = Places \cup {n} /\ Line(n)' = new
           /\ \A i \in Places : Line(i)' = Line(i)
           /\ new.rec.id \in {born + 1, NoId} /\ born' \in Nat
           /\ born' = IF new.rec.id = NoId THEN born ELSE born + 1
    BY <1>1, <1>6, WriteEffect
  <2>2. UNCHANGED snap
    BY <1>6 DEF Write, pass
  <2>3. 1 .. born \subseteq 1 .. born' /\ new.rec.id \notin 1 .. born
    BY <1>1, <2>1
  <2>4. \A p \in Passes : \A l \in snap[p].events :
          /\ l.rec.id \in 1 .. born'
          /\ \A i \in Places' : Line(i)'.rec.id = l.rec.id => Line(i)' = l
    BY <1>1, <2>1, <2>3 DEF SnapInv
  <2> QED BY <1>1, <2>2, <2>4 DEF SnapInv
<1>7. CASE WritePartly
  <2>1. file'.lines = file.lines /\ UNCHANGED <<born, snap>>
    BY <1>1, <1>7 DEF WritePartly, FileInv, pass
  <2>2. Places' = Places /\ \A i : Line(i)' = Line(i)
    BY <2>1 DEF Places, Line
  <2> QED BY <1>2, <2>1, <2>2
<1>8. CASE Replace
  <2>1. Places' = {} /\ UNCHANGED <<born, snap>>
    BY <1>8 DEF Replace, EmptyFile, Places, pass
  <2> QED BY <1>1, <2>1 DEF SnapInv
<1>9. CASE Begin \/ Emit \/ Prune \/ Clear \/ Tick
  <2>1. UNCHANGED <<file, born, snap>>
    BY <1>9 DEF Begin, Emit, Prune, Clear, Tick, transcript, pass
  <2> QED BY <1>2, <2>1, SameFile
<1>10. CASE UNCHANGED vars
  BY <1>2, <1>10, SameFile DEF vars
<1> QED BY <1>3, <1>4, <1>5, <1>6, <1>7, <1>8, <1>9, <1>10 DEF Next, Step

\* The base of the invariant is inductive.
LEMMA BaseStep == BaseInv /\ [Next]_vars => BaseInv'
BY TypeStep, FileStep, RowStep, IdStep, SnapStep DEF BaseInv

-----------------------------------------------------------------------------
(* Nothing behind a watermark is lost                                      *)

\* The lines stay while a record is on its way.
LEMMA PartlyEffect ==
  ASSUME BaseInv, WritePartly
  PROVE  file'.lines = file.lines /\ UNCHANGED <<born, swaps>>
BY DEF WritePartly, BaseInv, FileInv

\* A record written lies beyond every watermark at a line end, and beyond what
\* answered a load before.
LEMMA WriteKeeps ==
  ASSUME BaseInv, Write
  PROVE  /\ \A o \in Nat : Boundary(o) =>
              /\ Boundary(o)'
              /\ \A i \in Places' : Line(i)'.end <= o => i \in Places /\ Line(i)' = Line(i)
         /\ \A i \in Places' \ Places : Line(i)'.rec.id \in {born + 1, NoId}
         /\ Places \subseteq Places' /\ \A i \in Places : Line(i)' = Line(i)
         /\ \A i, k \in Places : Answers(Line(i), Line(k))' => Answers(Line(i), Line(k))
<1>1. PICK new \in Lines, n \in Nat :
           /\ n \notin Places /\ n = Len(file.lines) + 1
           /\ file'.lines = Append(file.lines, new)
           /\ Places' = Places \cup {n} /\ Line(n)' = new
           /\ \A i \in Places : Line(i)' = Line(i) /\ i < n
           /\ new.from = EndOf(file) /\ new.from < new.end
           /\ new.rec.id \in {born + 1, NoId}
  BY WriteEffect
<1>2. FileInv /\ EndOf(file) \in Nat /\ new.from \in Nat /\ new.end \in Nat
  BY LineOrder DEF BaseInv, Lines
<1>3. \A i \in Places : /\ Line(i).end <= EndOf(file) /\ Line(i).end \in Nat /\ Line(i).from \in Nat
                        /\ Line(i).from < Line(i).end
  BY <1>2, LineOrder
<1>4. ASSUME NEW o \in Nat, Boundary(o)
      PROVE  /\ Boundary(o)'
             /\ \A i \in Places' : Line(i)'.end <= o => i \in Places /\ Line(i)' = Line(i)
  <2>1. o <= EndOf(file)
    BY <1>2, <1>3, <1>4 DEF Boundary
  <2>2. Boundary(o)'
    BY <1>1, <1>4 DEF Boundary
  <2>3. ASSUME NEW i \in Places', Line(i)'.end <= o
        PROVE  i \in Places /\ Line(i)' = Line(i)
    <3>1. i # n
      BY <1>1, <1>2, <2>1, <2>3
    <3> QED BY <1>1, <3>1
  <2> QED BY <2>2, <2>3
<1>5. \A i \in Places' \ Places : Line(i)'.rec.id \in {born + 1, NoId}
  BY <1>1
<1>6. Places \subseteq Places' /\ \A i \in Places : Line(i)' = Line(i)
  BY <1>1
<1>7. ASSUME NEW i \in Places, NEW k \in Places, Answers(Line(i), Line(k))'
      PROVE  Answers(Line(i), Line(k))
  <2>1. PICK l : l = Line(i)
    OBVIOUS
  <2>2. PICK r : r = Line(k)
    OBVIOUS
  <2>3. Line(i)' = l /\ Line(k)' = r
    BY <1>6, <2>1, <2>2
  <2>4. /\ r.rec.kind = "result" /\ r.rec.call = l.rec.id /\ r.rec.ok
        /\ r.from - l.from < OVERLAP
        /\ Cardinality({j \in Places' : Line(j)'.from >= l.from /\ Line(j)'.from < r.from})
             <= RECORD_CAP \div 2
        /\ \A j \in Places' : Line(j)'.from >= l.from /\ Line(j)'.end <= r.end
             => Line(j)'.end - Line(j)'.from + OVERLAP <= BYTE_CAP
    BY <1>7, <2>3 DEF Answers, Between, Fitting, Places, Line
  <2>5. {j \in Places' : Line(j)'.from >= l.from /\ Line(j)'.from < r.from}
          = {j \in Places : Line(j).from >= l.from /\ Line(j).from < r.from}
    <3>1. r.from < r.end /\ r.end <= EndOf(file) /\ r.from \in Nat /\ r.end \in Nat
      BY <1>3, <2>2
    <3>2. ~(Line(n)'.from < r.from)
      BY <1>1, <1>2, <3>1
    <3> QED BY <1>1, <3>2
  <2>6. \A j \in Places : Line(j).from >= l.from /\ Line(j).end <= r.end
             => Line(j).end - Line(j).from + OVERLAP <= BYTE_CAP
    BY <1>6, <2>4
  <2>7. Answers(l, r)
    BY <2>4, <2>5, <2>6 DEF Answers, Between, Fitting, Places, Line
  <2> QED BY <2>1, <2>2, <2>7
<1> QED BY <1>4, <1>5, <1>6, <1>7

\* Where lines and rows stay, a watermark that is kept, dropped or copied, or a
\* new one whose loads are known, keeps the loads behind it.
LEMMA CoverKept ==
  ASSUME BaseInv, CoverInv, file'.lines = file.lines, UNCHANGED swaps,
         Kept \subseteq Kept',
         \/ cursor' \in {cursor, NoCursor}
         \/ swaps = 0 => Boundary(cursor'.offset) /\ Behind(cursor'.offset, Kept'),
         \A q \in Passes : resume'[q] \in {resume[q], NoCursor, cursor},
         \A q \in Passes : pc'[q] \in {"extract", "record"} =>
           \/ Fresh(q) /\ snap'[q] = snap[q]
           \/ swaps = 0 => /\ Boundary(snap'[q].offset)
                           /\ Behind(snap'[q].offset, Kept' \cup EventIds(snap'[q]))
  PROVE  CoverInv'
<1>1. Places' = Places /\ \A i : Line(i)' = Line(i)
  BY SameFile
<1> SUFFICES ASSUME swaps = 0 PROVE CoverInv'
  BY DEF CoverInv
<1>2. cursor' # NoCursor => Boundary(cursor'.offset) /\ Behind(cursor'.offset, Kept')
  BY DEF CoverInv, Behind
<1>3. ASSUME NEW q \in Passes, resume'[q] # NoCursor
      PROVE  Boundary(resume'[q].offset) /\ Behind(resume'[q].offset, Kept')
  BY <1>3 DEF CoverInv, Behind
<1>4. ASSUME NEW q \in Passes, pc'[q] \in {"extract", "record"}
      PROVE  Boundary(snap'[q].offset) /\ Behind(snap'[q].offset, Kept' \cup EventIds(snap'[q]))
  BY <1>4 DEF CoverInv, Behind
<1>5. \A o, ids : Boundary(o) /\ Behind(o, ids) =>
        /\ o = 0 \/ \E i \in Places' : Line(i)'.end = o
        /\ \A i \in Places' : Line(i)'.rec.kind = "load" /\ Line(i)'.end <= o => Line(i)'.rec.id \in ids
  BY <1>1 DEF Boundary, Behind
<1> QED BY <1>2, <1>3, <1>4, <1>5 DEF CoverInv, Fresh, Boundary, Behind

\* What a record writes of the loads it found.
LEMMA FoundIsHere ==
  ASSUME BaseInv, NEW p \in Passes, NEW i \in Places, Line(i).rec.kind = "load",
         Line(i).rec.id \in EventIds(snap[p])
  PROVE  Line(i) \in snap[p].events /\ Line(i).rec.id \in FoundIds(p)
<1>1. PICK l \in snap[p].events : l.rec.id = Line(i).rec.id
  BY DEF EventIds
<1>2. Line(i) = l
  BY <1>1 DEF BaseInv, SnapInv
<1> QED BY <1>1, <1>2 DEF FoundIds, FoundLoads

\* Only a write of the rows or a deletion changes what was kept, and what was kept
\* stays kept.
LEMMA KeptGrows ==
  ASSUME BaseInv, [Next]_vars
  PROVE  Kept \subseteq Kept'
<1>1. ASSUME NEW p \in Passes, Record(p)
      PROVE  Kept \subseteq Kept'
  <2>1. DOMAIN rows \subseteq DOMAIN rows'
    BY <1>1, RecordEffect
  <2> QED BY <1>1, <2>1 DEF Record, Kept
<1>2. ASSUME NEW p \in Passes, ReadResume(p) \/ ResumeUnreadable(p) \/ Snapshot(p)
                               \/ ReadExpected(p) \/ Abandon(p)
      PROVE  Kept \subseteq Kept'
  BY <1>2 DEF ReadResume, ResumeUnreadable, Resume, Snapshot, ReadExpected, Abandon, ledger, Kept
<1>3. CASE Prune
  BY <1>3, PruneEffect DEF Kept
<1>4. CASE Clear
  BY <1>4 DEF Clear, Kept
<1>5. CASE Write \/ WritePartly \/ Replace \/ Begin \/ Emit \/ Tick \/ UNCHANGED vars
  BY <1>5 DEF Write, WritePartly, Replace, Begin, Emit, Tick, vars, ledger, Kept
<1> QED BY <1>1, <1>2, <1>3, <1>4, <1>5 DEF Next, Step

\* No step moves a watermark past a load that nobody records.
LEMMA CoverStep == BaseInv /\ CoverInv /\ [Next]_vars => CoverInv'
<1> SUFFICES ASSUME BaseInv, CoverInv, [Next]_vars PROVE CoverInv'
  OBVIOUS
<1>1. TypeInv /\ FileInv /\ IdInv /\ SnapInv
  BY DEF BaseInv
<1>2. Kept \subseteq Kept'
  BY KeptGrows
<1>3. ASSUME NEW p \in Passes, ReadResume(p) \/ ResumeUnreadable(p)
      PROVE  CoverInv'
  <2>1. UNCHANGED <<file, swaps, cursor, snap>>
    BY <1>3 DEF ReadResume, ResumeUnreadable, Resume, transcript, ledger
  <2>2. \A q \in Passes : resume'[q] \in {resume[q], NoCursor, cursor}
    BY <1>1, <1>3 DEF ReadResume, ResumeUnreadable, Resume, TypeInv
  <2>3. \A q \in Passes : pc'[q] \in {"extract", "record"} => Fresh(q)
    BY <1>1, <1>3 DEF ReadResume, ResumeUnreadable, Resume, Goto, TypeInv, Fresh
  <2> QED BY <1>2, <2>1, <2>2, <2>3, CoverKept
<1>4. ASSUME NEW p \in Passes, Snapshot(p)
      PROVE  CoverInv'
  <2>1. PICK w \in [events : SUBSET Lines, offset : Nat], at \in Nat :
          /\ snap'[p] = w
          /\ \A q \in Passes : q # p => snap'[q] = snap[q]
          /\ ReadFrom(w, at) /\ ReachesBack(resume[p], w, at)
    BY <1>4, SnapshotEffect
  <2>2. UNCHANGED <<file, swaps, cursor, rows, gone>>
    BY <1>4 DEF Snapshot, transcript, ledger
  <2>3. \A q \in Passes : resume'[q] \in {resume[q], NoCursor, cursor}
    BY <1>1, <1>4 DEF Snapshot, TypeInv
  <2>4. \A q \in Passes : q # p /\ pc'[q] \in {"extract", "record"} => Fresh(q)
    BY <1>1, <1>4 DEF Snapshot, Goto, TypeInv, Fresh
  <2>5. ASSUME swaps = 0
        PROVE  Boundary(w.offset) /\ Behind(w.offset, Kept \cup EventIds(w))
    <3> DEFINE c == resume[p]
    <3>1. at # 0 => /\ Boundary(at) /\ at <= c.offset
                    /\ Behind(c.offset, Kept) /\ c.offset \in Nat
      <4>1. at # 0 => c # NoCursor
        BY <2>1 DEF ReachesBack
      <4>2. c # NoCursor => Boundary(c.offset) /\ Behind(c.offset, Kept)
        BY <2>5 DEF CoverInv
      <4>3. c # NoCursor => c.offset \in Nat
        BY <1>1 DEF TypeInv, Cursors
      <4> QED BY <2>1, <4>1, <4>2, <4>3 DEF ReachesBack
    <3> HIDE DEF c
    <3>2. Boundary(w.offset)
      BY <2>1, <3>1 DEF ReadFrom, Boundary
    <3>3. ASSUME NEW i \in Places, Line(i).rec.kind = "load", Line(i).end <= w.offset
          PROVE  Line(i).rec.id \in Kept \cup EventIds(w)
      <4>1. Line(i).from \in Nat /\ Line(i).end \in Nat /\ Line(i).from < Line(i).end
        BY <1>1, LineOrder
      <4>2. CASE Line(i).from >= at
        <5>1. Line(i).rec.id # NoId
          BY <1>1, <3>3 DEF IdInv
        <5>2. Line(i) \in w.events
          BY <2>1, <3>3, <4>2, <5>1 DEF ReadFrom
        <5> QED BY <5>2 DEF EventIds
      <4>3. CASE ~(Line(i).from >= at)
        <5>1. at # 0
          BY <4>1, <4>3
        <5>2. Line(i).end <= at
          BY <1>1, <3>1, <4>1, <4>3, <5>1, NoLineAcross
        <5>3. Line(i).end <= c.offset
          BY <3>1, <4>1, <5>1, <5>2
        <5> QED BY <3>1, <3>3, <5>1, <5>3 DEF Behind
      <4> QED BY <4>2, <4>3
    <3> QED BY <3>2, <3>3 DEF Behind
  <2>6. Kept' = Kept
    BY <2>2 DEF Kept
  <2> QED BY <1>2, <2>1, <2>2, <2>3, <2>4, <2>5, <2>6, CoverKept
<1>5. ASSUME NEW p \in Passes, ReadExpected(p)
      PROVE  CoverInv'
  <2>1. UNCHANGED <<file, swaps, cursor, resume, snap>>
    BY <1>5 DEF ReadExpected, transcript, ledger
  <2>2. \A q \in Passes : pc'[q] \in {"extract", "record"} => Fresh(q)
    BY <1>1, <1>5 DEF ReadExpected, Goto, TypeInv, Fresh
  <2> QED BY <1>2, <2>1, <2>2, CoverKept
<1>6. ASSUME NEW p \in Passes, Record(p) \/ Abandon(p)
      PROVE  /\ UNCHANGED <<file, swaps>>
             /\ \A q \in Passes : resume'[q] \in {resume[q], NoCursor, cursor}
             /\ \A q \in Passes : pc'[q] \in {"extract", "record"} => Fresh(q) /\ snap'[q] = snap[q]
  BY <1>1, <1>6 DEF Record, Abandon, Reset, Goto, TypeInv, Fresh, transcript
<1>7. ASSUME NEW p \in Passes, Record(p)
      PROVE  CoverInv'
  <2>1. DOMAIN rows' = DOMAIN rows \cup FoundIds(p) /\ cursor'.offset = snap[p].offset
    BY <1>7, RecordEffect
  <2>2. ASSUME swaps = 0
        PROVE  Boundary(cursor'.offset) /\ Behind(cursor'.offset, Kept')
    <3>1. Boundary(snap[p].offset) /\ Behind(snap[p].offset, Kept \cup EventIds(snap[p]))
      BY <1>7, <2>2 DEF CoverInv, Record, Fresh
    <3>2. ASSUME NEW i \in Places, Line(i).rec.kind = "load", Line(i).end <= snap[p].offset
          PROVE  Line(i).rec.id \in Kept'
      <4>1. Line(i).rec.id \in Kept \cup EventIds(snap[p])
        BY <3>1, <3>2 DEF Behind
      <4>2. Line(i).rec.id \in EventIds(snap[p]) => Line(i).rec.id \in FoundIds(p)
        BY <3>2, FoundIsHere
      <4>3. FoundIds(p) \subseteq Kept'
        BY <2>1 DEF Kept
      <4> QED BY <1>2, <4>1, <4>2, <4>3
    <3> QED BY <2>1, <3>1, <3>2 DEF Behind
  <2> QED BY <1>2, <1>6, <1>7, <2>2, CoverKept
<1>8. ASSUME NEW p \in Passes, Abandon(p)
      PROVE  CoverInv'
  <2>1. UNCHANGED cursor
    BY <1>8 DEF Abandon, ledger
  <2> QED BY <1>2, <1>6, <1>8, <2>1, CoverKept
<1>9. CASE Write
  <2>1. UNCHANGED <<swaps, cursor, rows, gone, pc, resume, snap>> /\ Kept' = Kept
    BY <1>9 DEF Write, ledger, pass, Kept
  <2>2. ASSUME NEW o \in Nat, NEW ids, Boundary(o), Behind(o, ids)
        PROVE  Boundary(o)' /\ Behind(o, ids)'
    BY <1>9, <2>2, WriteKeeps DEF Behind
  <2>3. \A o \in Nat : \A ids : Boundary(o) /\ Behind(o, ids) =>
          /\ o = 0 \/ \E i \in Places' : Line(i)'.end = o
          /\ \A i \in Places' : Line(i)'.rec.kind = "load" /\ Line(i)'.end <= o => Line(i)'.rec.id \in ids
    BY <2>2 DEF Boundary, Behind
  <2>4. /\ cursor # NoCursor => cursor.offset \in Nat
        /\ \A q \in Passes : /\ resume[q] # NoCursor => resume[q].offset \in Nat
                             /\ snap[q].offset \in Nat
    BY <1>1 DEF TypeInv, Cursors
  <2> SUFFICES ASSUME swaps = 0 PROVE CoverInv'
    BY <2>1 DEF CoverInv
  <2>5. cursor' # NoCursor =>
          cursor'.offset \in Nat /\ Boundary(cursor'.offset) /\ Behind(cursor'.offset, Kept')
    BY <2>1, <2>4 DEF CoverInv
  <2>6. ASSUME NEW q \in Passes, resume'[q] # NoCursor
        PROVE  resume'[q].offset \in Nat /\ Boundary(resume'[q].offset) /\ Behind(resume'[q].offset, Kept')
    BY <2>1, <2>4, <2>6 DEF CoverInv
  <2>7. ASSUME NEW q \in Passes, pc'[q] \in {"extract", "record"}
        PROVE  /\ snap'[q].offset \in Nat /\ Boundary(snap'[q].offset)
               /\ Behind(snap'[q].offset, Kept' \cup EventIds(snap'[q]))
    BY <2>1, <2>4, <2>7 DEF CoverInv, Fresh
  <2> QED BY <2>3, <2>5, <2>6, <2>7 DEF CoverInv, Fresh, Boundary, Behind
<1>10. CASE WritePartly
  <2>1. UNCHANGED <<cursor, pc, resume, snap>>
    BY <1>10 DEF WritePartly, ledger, pass
  <2> QED BY <1>2, <1>10, <2>1, PartlyEffect, CoverKept DEF Fresh
<1>11. CASE Replace
  <2>1. swaps' # 0
    BY <1>1, <1>11 DEF Replace, TypeInv
  <2> QED BY <2>1 DEF CoverInv
<1>12. CASE Begin \/ Emit \/ Prune \/ Clear \/ Tick \/ UNCHANGED vars
  <2>1. UNCHANGED <<file, swaps, pc, resume, snap>> /\ cursor' \in {cursor, NoCursor}
    BY <1>12 DEF Begin, Emit, Prune, Clear, Tick, vars, transcript, ledger, pass
  <2> QED BY <1>2, <2>1, CoverKept DEF Fresh
<1> QED BY <1>3, <1>4, <1>5, <1>7, <1>8, <1>9, <1>10, <1>11, <1>12 DEF Next, Step

-----------------------------------------------------------------------------
(* A write that passes the fence is the newest                             *)

\* No row is newer than a pass that may still write, unless history was deleted.
LEMMA FenceStep == BaseInv /\ FenceInv /\ [Next]_vars => FenceInv'
<1> SUFFICES ASSUME BaseInv, FenceInv, [Next]_vars PROVE FenceInv'
  OBVIOUS
<1>1. TypeInv /\ RowInv /\ Alone \in BOOLEAN
  BY DEF BaseInv, Alone
<1>2. ASSUME UNCHANGED <<cursor, rows, cuts>>,
             \A p \in Passes : pc'[p] = "record" => pc[p] = "record" /\ expected'[p] = expected[p]
      PROVE  FenceInv'
  BY <1>2 DEF FenceInv, Fence, Generation
<1>3. ASSUME NEW p \in Passes, ReadResume(p) \/ ResumeUnreadable(p) \/ Snapshot(p) \/ Abandon(p)
      PROVE  FenceInv'
  <2>1. UNCHANGED <<cursor, rows, cuts>>
    BY <1>3 DEF ReadResume, ResumeUnreadable, Resume, Snapshot, Abandon, ledger
  <2>2. \A q \in Passes : pc'[q] = "record" => pc[q] = "record" /\ expected'[q] = expected[q]
    BY <1>1, <1>3 DEF ReadResume, ResumeUnreadable, Resume, Snapshot, Abandon, Reset, Goto, TypeInv
  <2> QED BY <1>2, <2>1, <2>2
<1>4. ASSUME NEW p \in Passes, ReadExpected(p)
      PROVE  FenceInv'
  <2>1. UNCHANGED <<cursor, rows, cuts>>
    BY <1>4 DEF ReadExpected, ledger
  <2>2. PICK g \in Nat : g = Generation(cursor)
    BY <1>1 DEF TypeInv, Cursors, Generation
  <2>3. expected'[p] = [gen |-> g, now |-> now]
    BY <1>1, <1>4, <2>2 DEF ReadExpected, Generation, TypeInv
  <2>4. \A q \in Passes : q # p => pc'[q] = pc[q] /\ expected'[q] = expected[q]
    BY <1>1, <1>4 DEF ReadExpected, Goto, TypeInv
  <2>5. g <= Generation(cursor) /\ \A i \in DOMAIN rows : rows[i].at <= expected'[p].now
    BY <1>1, <2>2, <2>3 DEF RowInv
  <2>6. ASSUME cuts = 0, NEW q \in Passes, pc'[q] = "record"
        PROVE  /\ ~Alone => expected'[q].gen <= Generation(cursor)
               /\ expected'[q].gen = Generation(cursor) =>
                    \A i \in DOMAIN rows : rows[i].at <= expected'[q].now
    <3>1. CASE q = p
      BY <2>3, <2>5, <3>1
    <3>2. CASE q # p
      BY <2>4, <2>6, <3>2 DEF FenceInv, Fence, Generation
    <3> QED BY <3>1, <3>2
  <2> QED BY <2>1, <2>6 DEF FenceInv, Fence, Generation
<1>5. ASSUME NEW p \in Passes, Record(p)
      PROVE  FenceInv'
  <2>1. cursor' \in Cursors /\ cursor'.gen = NextGeneration(expected[p].gen)
    BY <1>5, RecordEffect
  <2>2. Generation(cursor') = NextGeneration(expected[p].gen)
    BY <2>1, ObservingConstantsHold DEF ObservingConstants, Cursors, Generation
  <2>3. UNCHANGED cuts
    BY <1>5 DEF Record
  <2>4. pc'[p] = "idle" /\ \A q \in Passes : q # p => pc'[q] = pc[q] /\ expected'[q] = expected[q]
    BY <1>1, <1>5 DEF Record, Reset, Goto, TypeInv
  <2>5. ASSUME cuts = 0, NEW q \in Passes, pc'[q] = "record"
        PROVE  expected'[q].gen < Generation(cursor')
    <3>1. q # p /\ ~Alone /\ pc[q] = "record"
      BY <2>4, <2>5 DEF Alone
    <3>2. expected[q].gen <= Generation(cursor)
      BY <2>5, <3>1 DEF FenceInv
    <3>3. ~Wraps /\ expected[p].gen = Generation(cursor) /\ expected[p].gen < MaxCursor
      BY <1>5, <3>1, ObservingConstantsHold DEF ObservingConstants, Record, Fence, Generation
    <3>4. expected[p].gen \in Nat /\ expected[q].gen \in Nat /\ MaxCursor \in Nat
      BY <1>1, ObservingConstantsHold DEF ObservingConstants, TypeInv
    <3>5. Generation(cursor') = expected[p].gen + 1
      BY <2>2, <3>3, <3>4 DEF NextGeneration
    <3> QED BY <2>4, <3>1, <3>2, <3>3, <3>4, <3>5
  <2>6. Generation(cursor') \in Nat /\ \A q \in Passes : expected'[q].gen \in Nat
    <3>1. TypeInv'
      BY TypeStep
    <3> QED BY <2>1, <3>1, ObservingConstantsHold DEF ObservingConstants, TypeInv, Generation, Cursors
  <2>7. ASSUME cuts' = 0, NEW q \in Passes, pc'[q] = "record"
        PROVE  /\ expected'[q].gen <= Generation(cursor')
               /\ expected'[q].gen # Generation(cursor')
    BY <2>3, <2>5, <2>6, <2>7
  <2> QED BY <2>7 DEF FenceInv, Fence, Generation
<1>6. CASE Prune \/ Clear
  <2>1. cuts' # 0
    BY <1>1, <1>6 DEF Prune, Clear, TypeInv
  <2> QED BY <2>1 DEF FenceInv
<1>7. CASE Write \/ WritePartly \/ Replace \/ Begin \/ Emit \/ Tick \/ UNCHANGED vars
  <2>1. UNCHANGED <<cursor, rows, cuts, pc, expected>>
    BY <1>7 DEF Write, WritePartly, Replace, Begin, Emit, Tick, vars, ledger, pass
  <2> QED BY <1>2, <2>1
<1> QED BY <1>3, <1>4, <1>5, <1>6, <1>7 DEF Next, Step

-----------------------------------------------------------------------------
(* Attributions                                                            *)

\* An attribution names the latest of the rankings emitted by now, within the
\* window of the load, which listed the skill.
LEMMA AttributionIsLatest ==
  ASSUME BaseInv, NEW load \in Recs, NEW at \in Nat, NEW e \in DOMAIN rankings,
         e \in Attributions(load, at)
  PROVE  Credits(e, load.time, Times)
<1> DEFINE t == load.time
           found == Candidates(t)
           latest == {i \in found : \A j \in found : rankings[j].at <= rankings[i].at}
<1>1. e # NoEvent /\ t \in Nat /\ WINDOW \in Nat /\ \A f \in DOMAIN rankings : rankings[f].at \in Nat
  <2>1. e \in Nat /\ NoEvent \notin Nat /\ WINDOW \in Nat
    BY ObservingConstantsHold DEF ObservingConstants, BaseInv, RowInv
  <2> QED BY <2>1 DEF Recs, BaseInv, RowInv
<1>2. e \in Latest(t)
  BY <1>1 DEF Attributions
<1>3. latest # {} /\ e \in {IF rankings[i].lists THEN i ELSE NoEvent : i \in latest}
  BY <1>1, <1>2 DEF Latest
<1>4. e \in latest /\ rankings[e].lists
  BY <1>1, <1>3
<1>5. e \in found /\ \A j \in found : rankings[j].at <= rankings[e].at
  BY <1>4
<1>6. rankings[e].shown /\ rankings[e].at <= t /\ rankings[e].at + WINDOW >= t
  BY <1>5 DEF Candidates, Emitted
<1>7. ASSUME NEW f \in Emitted, rankings[e].at < rankings[f].at, rankings[f].at <= t
      PROVE  FALSE
  <2>1. rankings[e].at \in Nat /\ rankings[f].at \in Nat
    BY <1>1 DEF Emitted
  <2>2. f \in found
    BY <1>1, <1>6, <1>7, <2>1 DEF Candidates
  <2>3. rankings[f].at <= rankings[e].at
    BY <1>5, <2>2
  <2> QED BY <1>7, <2>1, <2>3
<1>8. t <= rankings[e].at + WINDOW
  BY <1>1, <1>6
<1> HIDE DEF t
<1>9. Credits(e, t, Times)
  BY <1>4, <1>6, <1>7, <1>8 DEF Credits, Times
<1> QED BY <1>9 DEF t

\* A row keeps the attribution it was given and the rankings it knew.
LEMMA AttrStep == BaseInv /\ AttrInv /\ [Next]_vars => AttrInv'
<1> SUFFICES ASSUME BaseInv, AttrInv, [Next]_vars PROVE AttrInv'
  OBVIOUS
<1>1. TypeInv /\ FileInv /\ RowInv /\ IdInv /\ SnapInv /\ now \in Nat
  BY DEF BaseInv, TypeInv
<1>2. ASSUME Places' = Places, \A i : Line(i)' = Line(i), UNCHANGED <<rankings, rows>>
      PROVE  AttrInv'
  BY <1>2 DEF AttrInv, Credits
<1>3. ASSUME NEW p \in Passes,
             ReadResume(p) \/ ResumeUnreadable(p) \/ Snapshot(p) \/ ReadExpected(p) \/ Abandon(p)
      PROVE  AttrInv'
  <2>1. UNCHANGED <<file, rankings, rows>>
    BY <1>3 DEF ReadResume, ResumeUnreadable, Resume, Snapshot, ReadExpected, Abandon, ledger, transcript
  <2> QED BY <1>2, <2>1, SameFile
<1>4. ASSUME NEW p \in Passes, Record(p)
      PROVE  AttrInv'
  <2>1. /\ \A i \in DOMAIN rows : rows'[i].event = rows[i].event /\ rows'[i].known = rows[i].known
        /\ \A i \in DOMAIN rows' \ DOMAIN rows :
              /\ rows'[i].known = Times
              /\ \E l \in FoundLoads(p) :
                   /\ l.rec.id = i
                   /\ rows'[i].event \in Attributions(l.rec, expected[p].now)
    BY <1>4, RecordEffect
  <2>2. UNCHANGED <<file, rankings>> /\ Places' = Places /\ \A i : Line(i)' = Line(i)
    BY <1>4, SameFile DEF Record, transcript
  <2>3. ASSUME NEW i \in Places, NEW e \in DOMAIN rankings, Line(i).rec.kind = "load",
               Line(i).rec.id \in DOMAIN rows', rows'[Line(i).rec.id].event = e
        PROVE  Credits(e, Line(i).rec.time, rows'[Line(i).rec.id].known)
    <3>1. CASE Line(i).rec.id \in DOMAIN rows
      BY <2>1, <2>3, <3>1 DEF AttrInv
    <3>2. CASE Line(i).rec.id \notin DOMAIN rows
      <4>1. PICK l \in FoundLoads(p) :
              l.rec.id = Line(i).rec.id /\ e \in Attributions(l.rec, expected[p].now)
        BY <2>1, <2>3, <3>2
      <4>2. l = Line(i)
        BY <1>1, <4>1 DEF SnapInv, FoundLoads
      <4>3. l.rec \in Recs /\ expected[p].now \in Nat
        BY <1>1, <4>2, LineOrder DEF Lines, TypeInv
      <4>4. Credits(e, l.rec.time, Times)
        BY <4>1, <4>3, AttributionIsLatest
      <4>5. rows'[Line(i).rec.id].known = Times
        BY <2>1, <2>3, <3>2
      <4> QED BY <4>2, <4>4, <4>5
    <3> QED BY <3>1, <3>2
  <2> QED BY <2>2, <2>3 DEF AttrInv, Credits
<1>5. CASE Write
  <2>1. UNCHANGED <<rankings, rows>>
    BY <1>5 DEF Write, ledger
  <2>2. \A i \in Places' : Line(i)'.rec.id \in DOMAIN rows => i \in Places /\ Line(i)' = Line(i)
    <3>1. ASSUME NEW i \in Places', Line(i)'.rec.id \in DOMAIN rows
          PROVE  i \in Places
      <4>1. Line(i)'.rec.id \in 1 .. born /\ born \in Nat /\ NoId \notin Nat
        BY <1>1, <3>1, ObservingConstantsHold DEF ObservingConstants, RowInv, TypeInv
      <4>2. i \notin Places => Line(i)'.rec.id \in {born + 1, NoId}
        BY <1>5, WriteKeeps
      <4> QED BY <4>1, <4>2
    <3> QED BY <1>5, <3>1, WriteKeeps
  <2> QED BY <2>1, <2>2 DEF AttrInv, Credits
<1>6. CASE WritePartly
  <2>1. UNCHANGED <<rankings, rows>>
    BY <1>6 DEF WritePartly, ledger
  <2> QED BY <1>2, <1>6, <2>1, PartlyEffect, SameFile
<1>7. CASE Replace
  <2>1. Places' = {}
    BY <1>7 DEF Replace, EmptyFile, Places
  <2> QED BY <2>1 DEF AttrInv
<1>8. CASE Begin \/ Emit
  <2>1. UNCHANGED <<file, rows>> /\ Places' = Places /\ \A i : Line(i)' = Line(i)
    BY <1>8, SameFile DEF Begin, Emit, transcript, ledger
  <2>2. /\ \A f \in DOMAIN rankings : rankings[f].shown => rankings'[f] = rankings[f]
        /\ \A f \in DOMAIN rankings' : f # NoEvent
    <3>1. CASE Begin
      <4>1. /\ \A f \in DOMAIN rankings : rankings'[f] = rankings[f]
            /\ DOMAIN rankings' \subseteq DOMAIN rankings \cup 1 .. MaxEmit
        BY <3>1, BeginEffect
      <4> QED BY <4>1, <1>1, ObservingConstantsHold DEF ObservingConstants, RowInv
    <3>2. CASE Emit
      BY <3>2, EmitEffect, <1>1, ObservingConstantsHold DEF ObservingConstants, RowInv
    <3> QED BY <1>8, <3>1, <3>2
  <2>3. ASSUME NEW i \in Places, NEW g \in DOMAIN rankings', Line(i).rec.kind = "load",
               Line(i).rec.id \in DOMAIN rows, rows[Line(i).rec.id].event = g
        PROVE  Credits(g, Line(i).rec.time, rows[Line(i).rec.id].known) /\ rankings'[g] = rankings[g]
    <3>1. g \in DOMAIN rankings
      BY <1>1, <2>2, <2>3 DEF RowInv
    <3>2. Credits(g, Line(i).rec.time, rows[Line(i).rec.id].known)
      BY <2>3, <3>1 DEF AttrInv
    <3> QED BY <2>2, <3>1, <3>2 DEF Credits
  <2> QED BY <2>1, <2>3 DEF AttrInv, Credits
<1>9. CASE Prune \/ Clear
  <2>1. /\ DOMAIN rankings' \subseteq DOMAIN rankings
        /\ \A e \in DOMAIN rankings' : rankings'[e] = rankings[e]
        /\ DOMAIN rows' \subseteq DOMAIN rows
        /\ \A i \in DOMAIN rows' : rows'[i] = rows[i]
    BY <1>9, PruneEffect DEF Clear
  <2>2. UNCHANGED file /\ Places' = Places /\ \A i : Line(i)' = Line(i)
    BY <1>9, SameFile DEF Prune, Clear, transcript
  <2> QED BY <2>1, <2>2 DEF AttrInv, Credits
<1>10. CASE Tick \/ UNCHANGED vars
  <2>1. UNCHANGED <<file, rankings, rows>>
    BY <1>10 DEF Tick, transcript, ledger, vars
  <2> QED BY <1>2, <2>1, SameFile
<1> QED BY <1>3, <1>4, <1>5, <1>6, <1>7, <1>8, <1>9, <1>10 DEF Next, Step

-----------------------------------------------------------------------------
(* Loads and their results                                                 *)

\* An answer lies behind the load it answers.
LEMMA AnswerComesAfter ==
  ASSUME BaseInv, NEW i \in Places, NEW k \in Places,
         Line(i).rec.kind = "load", Answers(Line(i), Line(k))
  PROVE  Line(i).end <= Line(k).from /\ Line(k).rec.id # NoId
<1>1. FileInv /\ IdInv /\ born \in Nat /\ i \in Nat /\ k \in Nat
  BY LineOrder DEF BaseInv, TypeInv
<1>2. Line(k).rec.kind = "result" /\ Line(k).rec.call = Line(i).rec.id
  BY DEF Answers
<1>3. Line(i).rec.id # NoId /\ Line(k).rec.id # NoId /\ Line(i).rec.id < Line(k).rec.id
      /\ Line(i).rec.id \in Nat /\ Line(k).rec.id \in Nat
  BY <1>1, <1>2 DEF IdInv
<1>4. ~(k < i) /\ k # i
  BY <1>1, <1>3 DEF IdInv
<1>5. i < k
  BY <1>1, <1>4
<1> QED BY <1>1, <1>3, <1>5 DEF FileInv

\* An unprimed form of the joins a step establishes, which only the rows tell apart.
Joined(o, events, table) ==
  \A i, k \in Places :
    /\ Line(i).rec.kind = "load" /\ Answers(Line(i), Line(k))
    /\ Line(i).end <= o /\ Line(k).end <= o
    => IF Line(i) \in events THEN Line(k) \in events
       ELSE Line(i).rec.id \in DOMAIN table => table[Line(i).rec.id].state = "loaded"

LEMMA JoinsAre ==
  /\ \A o, ev : Joins(o, ev) <=> Joined(o, ev, rows)
  /\ file'.lines = file.lines => \A o, ev : Joins(o, ev)' <=> Joined(o, ev, rows')
<1>1. \A o, ev : Joins(o, ev) <=> Joined(o, ev, rows)
  BY DEF Joins, Joined
<1>2. ASSUME file'.lines = file.lines, NEW o, NEW ev
      PROVE  Joins(o, ev)' <=> Joined(o, ev, rows')
  <2>1. /\ Places' = Places /\ \A i : Line(i)' = Line(i)
        /\ \A l, r : Answers(l, r)' <=> Answers(l, r)
    BY <1>2, SameFile
  <2>2. \A i, k : Answers(Line(i), Line(k))' <=> Answers(Line(i), Line(k))
    BY <1>2 DEF Answers, Between, Fitting, Line
  <2> QED BY <2>1, <2>2 DEF Joins, Joined
<1> QED BY <1>1, <1>2

\* Where the lines stay, watermarks that are kept, dropped or copied keep the
\* joins behind them if the rows stay, and new ones if they are joined.
LEMMA JoinKept ==
  ASSUME BaseInv, JoinInv, file'.lines = file.lines, UNCHANGED <<swaps, rows>>,
         cuts' = 0 => cuts = 0 /\ UNCHANGED cursor,
         \A q \in Passes : resume'[q] \in {resume[q], NoCursor, cursor},
         \A q \in Passes : pc'[q] \in {"extract", "record"} =>
           \/ Fresh(q) /\ snap'[q] = snap[q]
           \/ cuts = 0 /\ (swaps = 0 \/ Alone) /\ Known(DOMAIN rows \cup EventIds(snap'[q])) =>
                Boundary(snap'[q].offset) /\ Joins(snap'[q].offset, snap'[q].events)
  PROVE  JoinInv'
<1>1. Places' = Places /\ \A i : Line(i)' = Line(i)
  BY SameFile
<1> SUFFICES ASSUME cuts = 0, cuts' = 0, swaps = 0 \/ Alone PROVE JoinInv'
  BY DEF JoinInv, Alone
<1>2. \A o, ev : Joins(o, ev) => Joins(o, ev)'
  BY JoinsAre
<1>3. \A o : Boundary(o) => Boundary(o)'
  BY <1>1 DEF Boundary
<1>4. \A ids : Known(ids)' => Known(ids)
  BY <1>1 DEF Known
<1>6. cursor' # NoCursor /\ Known(DOMAIN rows) => Boundary(cursor'.offset) /\ Joins(cursor'.offset, {})
  BY DEF JoinInv
<1>7. ASSUME NEW q \in Passes, resume'[q] # NoCursor, Known(DOMAIN rows)
      PROVE  Boundary(resume'[q].offset) /\ Joins(resume'[q].offset, {})
  BY <1>7 DEF JoinInv
<1>8. ASSUME NEW q \in Passes, pc'[q] \in {"extract", "record"},
             Known(DOMAIN rows \cup EventIds(snap'[q]))
      PROVE  Boundary(snap'[q].offset) /\ Joins(snap'[q].offset, snap'[q].events)
  BY <1>8 DEF JoinInv
<1>5. cursor' # NoCursor /\ Known(DOMAIN rows)' => Boundary(cursor.offset)' /\ Joins(cursor.offset, {})'
  BY <1>2, <1>3, <1>4, <1>6
<1> QED BY <1>2, <1>3, <1>4, <1>5, <1>7, <1>8 DEF JoinInv, Fresh

\* A read brings the result of every load it brings; and of a load it does not
\* bring, what is behind its offset was behind the watermark.
LEMMA SnapshotJoins ==
  ASSUME BaseInv, JoinInv, cuts = 0, swaps = 0 \/ Alone, NEW p \in Passes,
         NEW w \in [events : SUBSET Lines, offset : Nat], NEW at \in Nat,
         ReadFrom(w, at), ReachesBack(resume[p], w, at),
         Known(DOMAIN rows \cup EventIds(w))
  PROVE  Boundary(w.offset) /\ Joins(w.offset, w.events)
<1> DEFINE c == resume[p]
<1>1. TypeInv /\ FileInv /\ IdInv
  BY DEF BaseInv
<1>2. at # 0 => c # NoCursor /\ c.offset \in Nat
  BY <1>1 DEF ReachesBack, TypeInv, Cursors
<1>3. at # 0 /\ Known(DOMAIN rows) =>
        /\ Boundary(c.offset) /\ Joins(c.offset, {}) /\ Boundary(at)
        /\ \A i, k \in Places :
             Answers(Line(i), Line(k)) /\ Line(i).from < at /\ Line(k).end <= w.offset
             => Line(k).end <= c.offset
  <2>1. at # 0 /\ Known(DOMAIN rows) => Boundary(c.offset) /\ Joins(c.offset, {})
    BY <1>2 DEF JoinInv
  <2> HIDE DEF c
  <2> QED BY <2>1 DEF ReachesBack, c
<1> HIDE DEF c
<1>4. Boundary(w.offset)
  <2>1. CASE w.offset # at
    BY <2>1 DEF ReadFrom, Boundary
  <2>2. CASE w.offset = at /\ at = 0
    BY <2>2 DEF Boundary
  <2>3. CASE w.offset = at /\ at # 0
    <3>1. w.events = {}
      <4>1. SUFFICES ASSUME NEW l \in w.events PROVE FALSE
        OBVIOUS
      <4>2. PICK j \in Places : Line(j).from >= at /\ Line(j).end <= w.offset
        BY DEF ReadFrom
      <4>3. Line(j).from \in Nat /\ Line(j).end \in Nat /\ Line(j).from < Line(j).end
        BY <1>1, LineOrder
      <4> QED BY <2>3, <4>2, <4>3
    <3>2. Known(DOMAIN rows)
      BY <3>1 DEF Known, EventIds
    <3> QED BY <1>3, <2>3, <3>2
  <2> QED BY <2>1, <2>2, <2>3
<1>5. ASSUME NEW i \in Places, NEW k \in Places, Line(i).rec.kind = "load",
             Answers(Line(i), Line(k)), Line(i).end <= w.offset, Line(k).end <= w.offset
      PROVE  IF Line(i) \in w.events THEN Line(k) \in w.events
             ELSE Line(i).rec.id \in DOMAIN rows => rows[Line(i).rec.id].state = "loaded"
  <2>1. Line(i).end <= Line(k).from /\ Line(k).rec.id # NoId
    BY <1>5, AnswerComesAfter
  <2>2. /\ Line(i).from \in Nat /\ Line(i).end \in Nat /\ Line(i).from < Line(i).end
        /\ Line(k).from \in Nat /\ Line(k).end \in Nat /\ Line(k).from < Line(k).end
    BY <1>1, LineOrder
  <2>3. Line(i).rec.id # NoId
    BY <1>1, <1>5 DEF IdInv
  <2>4. CASE Line(i).from >= at
    <3>1. Line(k).from >= at
      BY <2>1, <2>2, <2>4
    <3>2. Line(i) \in w.events /\ Line(k) \in w.events
      BY <1>5, <2>1, <2>3, <2>4, <3>1 DEF ReadFrom
    <3> QED BY <3>2
  <2>5. CASE Line(i).from < at
    <3>1. Line(i) \notin w.events
      <4>1. SUFFICES ASSUME Line(i) \in w.events PROVE FALSE
        OBVIOUS
      <4>2. PICK j \in Places : Line(i) = Line(j) /\ Line(j).from >= at
        BY <4>1 DEF ReadFrom
      <4>3. Line(i).from >= at
        BY <4>2
      <4> QED BY <2>2, <2>5, <4>3
    <3>2. ASSUME Line(i).rec.id \in DOMAIN rows
          PROVE  rows[Line(i).rec.id].state = "loaded"
      <4>1. Known(DOMAIN rows) /\ at # 0
        BY <2>2, <2>5, <3>2 DEF Known
      <4>2. Line(k).end <= c.offset /\ Joins(c.offset, {})
        BY <1>3, <1>5, <2>5, <4>1
      <4>3. Line(i).end <= c.offset
        BY <1>2, <2>1, <2>2, <4>1, <4>2
      <4> QED BY <1>5, <3>2, <4>2, <4>3 DEF Joins
    <3> QED BY <3>1, <3>2
  <2> QED BY <2>2, <2>4, <2>5
<1> QED BY <1>4, <1>5 DEF Joins

\* A record joins what its pass read, and leaves joined what others rely on.
LEMMA RecordJoins ==
  ASSUME BaseInv, CoverInv, FenceInv, JoinInv, cuts = 0, swaps = 0 \/ Alone,
         NEW p \in Passes, Record(p)
  PROVE  JoinInv'
<1>1. TypeInv /\ RowInv /\ SnapInv /\ FileInv
  BY DEF BaseInv
<1>2. /\ DOMAIN rows' = DOMAIN rows \cup FoundIds(p)
      /\ \A i \in DOMAIN rows : rows[i].state = "loaded" => rows'[i].state = "loaded"
      /\ \A l \in FoundLoads(p) : \A r \in snap[p].events :
           /\ r.rec.kind = "result" /\ r.rec.call = l.rec.id /\ r.rec.ok
           /\ l.rec.id \in DOMAIN rows => rows[l.rec.id].at <= expected[p].now
           => rows'[l.rec.id].state = "loaded"
      /\ cursor'.offset = snap[p].offset
  BY <1>1, RecordEffect
<1>3. UNCHANGED <<file, swaps, cuts>> /\ Fence(p) /\ pc[p] = "record"
  BY <1>1 DEF Record, transcript
<1>4. /\ pc'[p] = "idle" /\ resume'[p] = NoCursor
      /\ \A q \in Passes : q # p => pc'[q] = pc[q] /\ resume'[q] = resume[q] /\ snap'[q] = snap[q]
  BY <1>1 DEF Record, Reset, Goto, TypeInv
<1>5. Places' = Places /\ (\A i : Line(i)' = Line(i))
      /\ \A o : Boundary(o) => Boundary(o)'
  BY <1>3, SameFile
<1>6. FoundIds(p) \subseteq EventIds(snap[p])
  BY DEF FoundIds, FoundLoads, EventIds
<1>7. Known(DOMAIN rows)' => Known(DOMAIN rows \cup EventIds(snap[p]))
  BY <1>2, <1>3, <1>5, <1>6 DEF Known
<1>8. ASSUME Known(DOMAIN rows)'
      PROVE  Boundary(cursor.offset)' /\ Joins(cursor.offset, {})'
  <2> PICK o \in Nat : o = snap[p].offset
    BY <1>1 DEF TypeInv
  <2>1. Boundary(o) /\ Joins(o, snap[p].events)
    BY <1>3, <1>7, <1>8 DEF JoinInv, Fresh
  <2>2. ASSUME NEW i \in Places, NEW k \in Places, Line(i).rec.kind = "load",
               Answers(Line(i), Line(k)), Line(i).end <= o, Line(k).end <= o,
               Line(i).rec.id \in DOMAIN rows'
        PROVE  rows'[Line(i).rec.id].state = "loaded"
    <3>1. CASE Line(i) \in snap[p].events
      <4>1. Line(k) \in snap[p].events
        BY <2>1, <2>2, <3>1 DEF Joins
      <4>2. Line(k).rec.kind = "result" /\ Line(k).rec.call = Line(i).rec.id /\ Line(k).rec.ok
        BY <2>2 DEF Answers
      <4>3. Line(i).rec.id \in DOMAIN rows => rows[Line(i).rec.id].at <= expected[p].now
        BY <1>3 DEF FenceInv
      <4>4. Line(i) \in FoundLoads(p)
        BY <2>2, <3>1 DEF FoundLoads
      <4> QED BY <1>2, <4>1, <4>2, <4>3, <4>4
    <3>2. CASE Line(i) \notin snap[p].events
      <4>1. Line(i).rec.id \notin FoundIds(p)
        BY <1>6, <2>2, <3>2, FoundIsHere
      <4>2. Line(i).rec.id \in DOMAIN rows
        BY <1>2, <2>2, <4>1
      <4>3. rows[Line(i).rec.id].state = "loaded"
        BY <2>1, <2>2, <3>2, <4>2 DEF Joins
      <4> QED BY <1>2, <4>2, <4>3
    <3> QED BY <3>1, <3>2
  <2>3. Joined(o, {}, rows')
    BY <2>2 DEF Joined
  <2>4. Joins(o, {})'
    BY <1>3, <2>3, JoinsAre
  <2> QED BY <1>2, <1>5, <2>1, <2>4
\* A row of a load behind another pass's watermark was there before: passes read
\* beside each other only while the transcript is the first one.
<1>9. ASSUME NEW q \in Passes, q # p
      PROVE  swaps = 0 /\ Known(DOMAIN rows)
  BY <1>9 DEF Alone, Known
<1>10. ASSUME NEW o \in Nat, NEW events, Joins(o, events), swaps = 0,
              \A i \in Places : Line(i).rec.kind = "load" /\ Line(i).end <= o
                              /\ Line(i) \notin events => Line(i).rec.id \in DOMAIN rows
       PROVE  Joins(o, events)'
  <2>1. Joined(o, events, rows')
    BY <1>2, <1>10 DEF Joins, Joined
  <2> QED BY <1>3, <2>1, JoinsAre
<1>11. gone = {}
  BY <1>1 DEF RowInv
<1>12. ASSUME NEW q \in Passes, resume'[q] # NoCursor
       PROVE  Boundary(resume[q].offset)' /\ Joins(resume[q].offset, {})'
  <2>1. q # p /\ resume'[q] = resume[q] /\ resume[q] # NoCursor
    BY <1>4, <1>12
  <2>2. swaps = 0 /\ Known(DOMAIN rows)
    BY <1>9, <2>1
  <2>3. PICK o \in Nat : o = resume[q].offset
    BY <1>1, <2>1 DEF TypeInv, Cursors
  <2>4. Boundary(o) /\ Joins(o, {}) /\ Behind(o, Kept)
    BY <2>1, <2>2, <2>3 DEF JoinInv, CoverInv
  <2>5. \A i \in Places : Line(i).rec.kind = "load" /\ Line(i).end <= o => Line(i).rec.id \in DOMAIN rows
    BY <1>11, <2>4 DEF Behind, Kept
  <2>6. Boundary(o)' /\ Joins(o, {})'
    BY <1>5, <1>10, <2>2, <2>4, <2>5
  <2>7. o = resume'[q].offset
    BY <2>1, <2>3
  <2> QED BY <2>6, <2>7
<1>13. ASSUME NEW q \in Passes, pc'[q] \in {"extract", "record"}
       PROVE  Boundary(snap[q].offset)' /\ Joins(snap[q].offset, snap[q].events)'
  <2>1. q # p /\ Fresh(q) /\ snap'[q] = snap[q]
    BY <1>4, <1>13 DEF Fresh
  <2>2. swaps = 0 /\ Known(DOMAIN rows \cup EventIds(snap[q]))
    BY <1>9, <2>1 DEF Known
  <2>3. PICK o \in Nat : o = snap[q].offset
    BY <1>1 DEF TypeInv
  <2>4. PICK events : events = snap[q].events
    OBVIOUS
  <2>5. Boundary(o) /\ Joins(o, events) /\ Behind(o, Kept \cup EventIds(snap[q]))
    BY <2>1, <2>2, <2>3, <2>4 DEF JoinInv, CoverInv
  <2>6. ASSUME NEW i \in Places, Line(i).rec.kind = "load", Line(i).end <= o, Line(i) \notin events
        PROVE  Line(i).rec.id \in DOMAIN rows
    <3>1. Line(i).rec.id \in Kept \cup EventIds(snap[q])
      BY <2>5, <2>6 DEF Behind
    <3>2. Line(i).rec.id \notin EventIds(snap[q])
      BY <2>4, <2>6, FoundIsHere
    <3> QED BY <1>11, <3>1, <3>2 DEF Kept
  <2>7. Boundary(o)' /\ Joins(o, events)'
    BY <1>5, <1>10, <2>2, <2>5, <2>6
  <2>8. o = snap'[q].offset /\ events = snap'[q].events
    BY <2>1, <2>3, <2>4
  <2> QED BY <2>7, <2>8
<1> QED BY <1>8, <1>12, <1>13 DEF JoinInv, Fresh

\* No step parts a load from the result behind the same watermark.
LEMMA JoinStep == BaseInv /\ CoverInv /\ FenceInv /\ JoinInv /\ [Next]_vars => JoinInv'
<1> SUFFICES ASSUME BaseInv, CoverInv, FenceInv, JoinInv, [Next]_vars PROVE JoinInv'
  OBVIOUS
<1>1. TypeInv /\ FileInv /\ RowInv /\ SnapInv
  BY DEF BaseInv
<1>2. ASSUME NEW p \in Passes, ReadResume(p) \/ ResumeUnreadable(p) \/ ReadExpected(p) \/ Abandon(p)
      PROVE  JoinInv'
  <2>1. UNCHANGED <<file, swaps, rows, cuts, cursor>>
    BY <1>2 DEF ReadResume, ResumeUnreadable, Resume, ReadExpected, Abandon, transcript, ledger
  <2>2. \A q \in Passes : resume'[q] \in {resume[q], NoCursor, cursor}
    BY <1>1, <1>2 DEF ReadResume, ResumeUnreadable, Resume, ReadExpected, Abandon, Reset, TypeInv
  <2>3. \A q \in Passes : pc'[q] \in {"extract", "record"} => Fresh(q) /\ snap'[q] = snap[q]
    <3>1. CASE ReadResume(p) \/ ResumeUnreadable(p)
      BY <1>1, <3>1 DEF ReadResume, ResumeUnreadable, Resume, Goto, TypeInv, Fresh
    <3>2. CASE ReadExpected(p)
      BY <1>1, <3>2 DEF ReadExpected, Goto, TypeInv, Fresh
    <3>3. CASE Abandon(p)
      BY <1>1, <3>3 DEF Abandon, Reset, Goto, TypeInv, Fresh
    <3> QED BY <1>2, <3>1, <3>2, <3>3
  <2> QED BY <2>1, <2>2, <2>3, JoinKept
<1>3. ASSUME NEW p \in Passes, Snapshot(p)
      PROVE  JoinInv'
  <2>1. PICK w \in [events : SUBSET Lines, offset : Nat], at \in Nat :
          /\ snap'[p] = w
          /\ \A q \in Passes : q # p => snap'[q] = snap[q]
          /\ ReadFrom(w, at) /\ ReachesBack(resume[p], w, at)
    BY <1>3, SnapshotEffect
  <2>2. UNCHANGED <<file, swaps, rows, cuts, cursor>>
    BY <1>3 DEF Snapshot, transcript, ledger
  <2>3. \A q \in Passes : resume'[q] \in {resume[q], NoCursor, cursor}
    BY <1>1, <1>3 DEF Snapshot, TypeInv
  <2>4. \A q \in Passes : q # p /\ pc'[q] \in {"extract", "record"} => Fresh(q)
    BY <1>1, <1>3 DEF Snapshot, Goto, TypeInv, Fresh
  <2>5. cuts = 0 /\ (swaps = 0 \/ Alone) /\ Known(DOMAIN rows \cup EventIds(w)) =>
          Boundary(w.offset) /\ Joins(w.offset, w.events)
    BY <2>1, SnapshotJoins
  <2> QED BY <2>1, <2>2, <2>3, <2>4, <2>5, JoinKept
<1>4. ASSUME NEW p \in Passes, Record(p)
      PROVE  JoinInv'
  <2>1. UNCHANGED <<swaps, cuts>>
    BY <1>4 DEF Record, transcript
  <2>2. CASE cuts = 0 /\ (swaps = 0 \/ Alone)
    BY <1>4, <2>2, RecordJoins
  <2>3. CASE ~(cuts = 0 /\ (swaps = 0 \/ Alone))
    BY <2>1, <2>3 DEF JoinInv, Alone
  <2> QED BY <2>2, <2>3
<1>5. CASE Write
  <2>1. UNCHANGED <<swaps, cuts, rows, cursor, pc, resume, snap>>
    BY <1>5 DEF Write, ledger, pass
  <2>2. ASSUME NEW o \in Nat, NEW events, Boundary(o), Joins(o, events)
        PROVE  Boundary(o)' /\ Joins(o, events)'
    <3>1. Boundary(o)'
      BY <1>5, <2>2, WriteKeeps
    <3>2. ASSUME NEW i \in Places', NEW k \in Places', Line(i)'.rec.kind = "load",
                 Answers(Line(i), Line(k))', Line(i)'.end <= o, Line(k)'.end <= o
          PROVE  IF Line(i)' \in events THEN Line(k)' \in events
                 ELSE Line(i)'.rec.id \in DOMAIN rows' => rows'[Line(i)'.rec.id].state = "loaded"
      <4>1. i \in Places /\ Line(i)' = Line(i) /\ k \in Places /\ Line(k)' = Line(k)
        BY <1>5, <2>2, <3>2, WriteKeeps
      <4>2. Answers(Line(i), Line(k))
        BY <1>5, <3>2, <4>1, WriteKeeps
      <4> QED BY <2>1, <2>2, <3>2, <4>1, <4>2 DEF Joins
    <3> QED BY <3>1, <3>2 DEF Joins
  <2>3. ASSUME NEW ids, ids \subseteq 1 .. born, Known(ids)'
        PROVE  Known(ids)
    <3>1. CASE swaps = 0
      BY <3>1 DEF Known
    <3>2. CASE swaps # 0
      <4>1. PICK i \in Places' : Line(i)'.rec.id \in ids
        BY <2>1, <2>3, <3>2 DEF Known
      <4>2. Line(i)'.rec.id \in 1 .. born /\ born \in Nat /\ NoId \notin Nat
        BY <1>1, <2>3, <4>1, ObservingConstantsHold DEF ObservingConstants, TypeInv
      <4>3. i \notin Places => Line(i)'.rec.id \in {born + 1, NoId}
        BY <1>5, WriteKeeps
      <4>4. i \in Places /\ Line(i)' = Line(i)
        BY <1>5, <4>2, <4>3, WriteKeeps
      <4> QED BY <4>1, <4>4 DEF Known
    <3> QED BY <3>1, <3>2
  <2>4. DOMAIN rows \subseteq 1 .. born /\ \A q \in Passes : EventIds(snap[q]) \subseteq 1 .. born
    BY <1>1 DEF RowInv, SnapInv, EventIds
  <2>5. Known(DOMAIN rows)' => Known(DOMAIN rows)
    <3>1. PICK ids : ids = DOMAIN rows
      OBVIOUS
    <3>2. Known(ids)' => Known(ids)
      BY <2>3, <2>4, <3>1
    <3>3. ids = DOMAIN rows'
      BY <2>1, <3>1
    <3> QED BY <3>1, <3>2, <3>3
  <2>6. ASSUME NEW q \in Passes
        PROVE  Known(DOMAIN rows \cup EventIds(snap[q]))' => Known(DOMAIN rows \cup EventIds(snap[q]))
    <3>1. PICK ids : ids = DOMAIN rows \cup EventIds(snap[q])
      OBVIOUS
    <3>2. Known(ids)' => Known(ids)
      BY <2>3, <2>4, <3>1
    <3>3. ids = DOMAIN rows' \cup EventIds(snap'[q])
      BY <2>1, <3>1
    <3> QED BY <3>1, <3>2, <3>3
  <2>7. /\ cursor # NoCursor => cursor.offset \in Nat
        /\ \A q \in Passes : /\ resume[q] # NoCursor => resume[q].offset \in Nat
                             /\ snap[q].offset \in Nat
    BY <1>1 DEF TypeInv, Cursors
  <2> SUFFICES ASSUME cuts = 0, swaps = 0 \/ Alone PROVE JoinInv'
    BY <2>1 DEF JoinInv, Alone
  <2>8. cursor # NoCursor /\ Known(DOMAIN rows)' => Boundary(cursor.offset)' /\ Joins(cursor.offset, {})'
    <3>1. SUFFICES ASSUME cursor # NoCursor, Known(DOMAIN rows)'
                   PROVE  Boundary(cursor.offset)' /\ Joins(cursor.offset, {})'
      OBVIOUS
    <3>2. PICK o \in Nat : o = cursor.offset
      BY <2>7, <3>1
    <3>3. Boundary(o) /\ Joins(o, {})
      BY <2>5, <3>1, <3>2 DEF JoinInv
    <3>4. Boundary(o)' /\ Joins(o, {})' /\ o = cursor'.offset
      BY <2>1, <2>2, <3>2, <3>3
    <3> QED BY <3>4
  <2>9. ASSUME NEW q \in Passes, resume[q] # NoCursor, Known(DOMAIN rows)'
        PROVE  Boundary(resume[q].offset)' /\ Joins(resume[q].offset, {})'
    <3>2. PICK o \in Nat : o = resume[q].offset
      BY <2>7, <2>9
    <3>3. Boundary(o) /\ Joins(o, {})
      BY <2>5, <2>9, <3>2 DEF JoinInv
    <3>4. Boundary(o)' /\ Joins(o, {})' /\ o = resume'[q].offset
      BY <2>1, <2>2, <3>2, <3>3
    <3> QED BY <3>4
  <2>10. ASSUME NEW q \in Passes, Fresh(q), Known(DOMAIN rows \cup EventIds(snap[q]))'
         PROVE  Boundary(snap[q].offset)' /\ Joins(snap[q].offset, snap[q].events)'
    <3>1. PICK events : events = snap[q].events
      OBVIOUS
    <3>2. PICK o \in Nat : o = snap[q].offset
      BY <2>7
    <3>3. Boundary(o) /\ Joins(o, events)
      BY <2>6, <2>10, <3>1, <3>2 DEF JoinInv
    <3>4. Boundary(o)' /\ Joins(o, events)' /\ o = snap'[q].offset /\ events = snap'[q].events
      BY <2>1, <2>2, <3>1, <3>2, <3>3
    <3> QED BY <3>4
  <2> QED BY <2>1, <2>8, <2>9, <2>10 DEF JoinInv, Fresh
<1>6. CASE WritePartly
  <2>1. UNCHANGED <<rows, cuts, cursor, pc, resume, snap>>
    BY <1>6 DEF WritePartly, ledger, pass
  <2> QED BY <1>6, <2>1, PartlyEffect, JoinKept DEF Fresh
<1>7. CASE Replace
  <2>1. Places' = {} /\ swaps' # 0
    BY <1>1, <1>7 DEF Replace, EmptyFile, Places, TypeInv
  <2>2. \A ids : ~Known(ids)'
    BY <2>1 DEF Known
  <2> QED BY <2>2 DEF JoinInv
<1>8. CASE Prune \/ Clear
  <2>1. cuts' # 0
    BY <1>1, <1>8 DEF Prune, Clear, TypeInv
  <2> QED BY <2>1 DEF JoinInv
<1>9. CASE Begin \/ Emit \/ Tick \/ UNCHANGED vars
  <2>1. UNCHANGED <<file, swaps, rows, cuts, cursor, pc, resume, snap>>
    BY <1>9 DEF Begin, Emit, Tick, vars, transcript, ledger, pass
  <2> QED BY <2>1, JoinKept DEF Fresh
<1> QED BY <1>2, <1>3, <1>4, <1>5, <1>6, <1>7, <1>8, <1>9 DEF Next, Step

-----------------------------------------------------------------------------
(* The theorems                                                            *)

\* Nothing is written, read or recorded in the beginning.
LEMMA ObservingInit == Init => ObservingInv
<1> SUFFICES ASSUME Init PROVE ObservingInv
  OBVIOUS
<1>1. /\ file = [lines |-> <<>>, len |-> 0] /\ Places = {}
      /\ born = 0 /\ swaps = 0 /\ now = 0 /\ cuts = 0 /\ gone = {}
      /\ cursor = NoCursor
      /\ DOMAIN rows = {} /\ DOMAIN rankings = {}
      /\ pc = [p \in Passes |-> "idle"]
      /\ resume = [p \in Passes |-> NoCursor]
      /\ snap = [p \in Passes |-> NoSnap]
      /\ expected = [p \in Passes |-> NoStamp]
  BY DEF Init, EmptyFile, Places
<1>2. TypeInv
  <2>1. NoSnap \in [events : SUBSET Lines, offset : Nat] /\ NoStamp \in [gen : Nat, now : Nat]
    BY DEF NoSnap, NoStamp
  <2> QED BY <1>1, <2>1 DEF TypeInv
<1>3. FileInv
  BY <1>1 DEF FileInv, EndOf
<1>4. RowInv
  BY <1>1 DEF RowInv, NoStamp
<1>5. IdInv
  BY <1>1 DEF IdInv
<1>6. SnapInv
  BY <1>1 DEF SnapInv, NoSnap
<1>7. CoverInv
  BY <1>1 DEF CoverInv, Fresh
<1>8. FenceInv /\ JoinInv /\ AttrInv
  BY <1>1 DEF FenceInv, JoinInv, AttrInv, Fresh
<1> QED BY <1>2, <1>3, <1>4, <1>5, <1>6, <1>7, <1>8 DEF ObservingInv, BaseInv

\* What the invariant says of the evidence.
LEMMA InvariantIsFaithful == ObservingInv => EvidenceFaithful
<1> SUFFICES ASSUME ObservingInv PROVE EvidenceFaithful
  OBVIOUS
<1>1. LoadLines = {Line(i) : i \in {j \in Places : Line(j).rec.kind = "load"}}
  BY DEF LoadLines, Places, Line
<1>2. cursor = NoCursor => Passed = {}
  BY DEF Passed
<1>3. \A l \in Passed : cursor # NoCursor /\ l \in LoadLines /\ l.end <= cursor.offset
  BY DEF Passed
<1>4. NoLoadSkipped
  <2>1. ASSUME swaps = 0, NEW l \in Passed
        PROVE  l.rec.id \in DOMAIN rows \cup gone
    <3>1. PICK i \in Places : l = Line(i) /\ Line(i).rec.kind = "load"
      BY <1>1, <1>3
    <3>2. Behind(cursor.offset, Kept)
      BY <1>3, <2>1 DEF ObservingInv, CoverInv
    <3> QED BY <1>3, <3>1, <3>2 DEF Behind, Kept
  <2> QED BY <2>1 DEF NoLoadSkipped
<1>5. PairJoined
  <2>1. ASSUME cuts = 0, swaps = 0 \/ Alone, NEW l \in Passed, NEW k \in DOMAIN file.lines,
               Answers(l, file.lines[k]), file.lines[k].end <= cursor.offset,
               l.rec.id \in DOMAIN rows
        PROVE  rows[l.rec.id].state = "loaded"
    <3>1. PICK i \in Places : l = Line(i) /\ Line(i).rec.kind = "load"
      BY <1>1, <1>3
    <3>2. k \in Places /\ file.lines[k] = Line(k)
      BY DEF Places, Line
    <3>3. Known(DOMAIN rows)
      BY <2>1, <3>1 DEF Known
    <3>4. Joins(cursor.offset, {})
      BY <1>3, <2>1, <3>3 DEF ObservingInv, JoinInv
    <3> QED BY <1>3, <2>1, <3>1, <3>2, <3>4 DEF Joins
  <2> QED BY <2>1 DEF PairJoined
<1>6. AttributedToLatest
  <2>1. ASSUME NEW l \in LoadLines, NEW e \in DOMAIN rankings,
               l.rec.id \in DOMAIN rows, rows[l.rec.id].event = e
        PROVE  Credits(e, l.rec.time, rows[l.rec.id].known)
    <3>1. PICK i \in Places : l = Line(i) /\ Line(i).rec.kind = "load"
      BY <1>1
    <3> QED BY <2>1, <3>1 DEF ObservingInv, AttrInv
  <2> QED BY <2>1 DEF AttributedToLatest, Credits
<1> QED BY <1>4, <1>5, <1>6 DEF EvidenceFaithful

\* The evidence is faithful to the transcript whatever passes, prunes, clears and
\* rankings come between: no load behind the stored watermark goes unrecorded, a
\* load whose successful result is behind it too is recorded as loaded, and an
\* attribution names the ranking created last before it, within the window, of
\* those emitted when it was recorded, which listed the skill
\* (observe_owned, read_snapshot and record_observations_with_cursor_attribution).
THEOREM EvidenceIsFaithful == Spec => []EvidenceFaithful
<1>1. Init => ObservingInv
  BY ObservingInit
<1>2. ObservingInv /\ [Next]_vars => ObservingInv'
  BY BaseStep, CoverStep, FenceStep, JoinStep, AttrStep DEF ObservingInv
<1>3. ObservingInv => EvidenceFaithful
  BY InvariantIsFaithful
<1> QED BY <1>1, <1>2, <1>3, PTL DEF Spec

-----------------------------------------------------------------------------
(* Feedback                                                                *)

\* The transactions that write labels keep every label they do not write.
LEMMA RelabelKeeps ==
  ASSUME NEW labels
  PROVE  /\ DOMAIN Relabel(labels) = DOMAIN judged \cup DOMAIN labels
         /\ \A k \in DOMAIN labels : Relabel(labels)[k] = labels[k]
         /\ \A k \in DOMAIN judged : k \notin DOMAIN labels => Relabel(labels)[k] = judged[k]
BY DEF Relabel

\* A label of a correction that a step writes comes with the other.
Corrected ==
  \A k \in DOMAIN judged' :
    ( judged'[k].group # NoGroup /\ judged'[k].label = "harmful"
      /\ (k \notin DOMAIN judged \/ judged'[k] # judged[k]) )
    => \E j \in DOMAIN judged' :
         j[1] = k[1] /\ j # k /\ judged'[j].group = judged'[k].group
         /\ judged'[j].label = "useful" /\ Eligible(j[1], j[2])

\* A correction is both its labels or neither, whatever submissions, refusals,
\* prunes and clears come between (record_paired_correction).
THEOREM CorrectionsAreWhole == FeedbackSpec => CorrectionIsWhole
<1>1. ASSUME [FeedbackNext]_feedbackVars
      PROVE  Corrected \/ UNCHANGED feedbackVars
  <2>1. ASSUME UNCHANGED judged
        PROVE  Corrected
    BY <2>1 DEF Corrected
  <2>2. ASSUME NEW u \in Users, Open(u) \/ Refuse(u)
        PROVE  Corrected
    BY <2>1, <2>2 DEF Open, Refuse
  <2>3. ASSUME NEW u \in Users, NEW e \in Events, NEW r \in References, NEW v \in Versions,
               Single(u, e, r, "useful", v)
        PROVE  Corrected
    <3>1. PICK s : LET labels == [k \in {<<e, s>>} |-> Labelled(k, "useful", NoGroup)]
                   IN  judged' = Relabel(labels)
      BY <2>3 DEF Single
    <3> DEFINE labels == [k \in {<<e, s>>} |-> Labelled(k, "useful", NoGroup)]
    <3>2. \A k \in DOMAIN labels : labels[k].group = NoGroup
      BY DEF Labelled
    <3>3. judged' = Relabel(labels)
      BY <3>1
    <3> HIDE DEF labels
    <3>4. \A k \in DOMAIN judged' :
            \/ k \in DOMAIN labels /\ judged'[k] = labels[k]
            \/ k \in DOMAIN judged /\ judged'[k] = judged[k]
      BY <3>3, RelabelKeeps
    <3> QED BY <3>2, <3>4 DEF Corrected
  <2>4. ASSUME NEW u \in Users, NEW e \in Events, NEW r \in References, NEW a \in References,
               NEW v \in Versions, Paired(u, e, r, a, v)
        PROVE  Corrected
    <3>1. PICK s \in Skills, t \in Skills :
            /\ PairResolves(u, e, r, a, s, t) /\ PairEligible(e, t)
            /\ judged' = Relabel(PairLabels(e, s, t, groups + 1))
      BY <2>4 DEF Paired
    <3> DEFINE labels == PairLabels(e, s, t, groups + 1)
               good == <<e, t>>
               bad == <<e, s>>
    <3>2. good # bad /\ good[1] = e /\ good[2] = t /\ bad[1] = e
      BY <3>1 DEF PairResolves
    <3>3. /\ DOMAIN labels = {bad, good}
          /\ labels[good].label = "useful" /\ labels[good].group = groups + 1
          /\ labels[bad].group = groups + 1
      BY <3>2 DEF PairLabels, Labelled
    <3>4. Eligible(good[1], good[2])
      BY <3>1, <3>2 DEF PairEligible
    <3> HIDE DEF labels, good, bad
    <3>5. /\ good \in DOMAIN judged' /\ judged'[good] = labels[good]
          /\ judged'[bad] = labels[bad]
          /\ \A k \in DOMAIN judged' : k \notin {bad, good} =>
               k \in DOMAIN judged /\ judged'[k] = judged[k]
      BY <3>1, <3>3, RelabelKeeps DEF labels
    <3> QED BY <3>2, <3>3, <3>4, <3>5 DEF Corrected
  <2>5. ASSUME NEW u \in Users, NEW e \in Events, NEW r \in References, NEW a \in References,
               Propose(u, e, r, a)
        PROVE  Corrected
    BY <2>1, <2>5 DEF Propose
  <2>6. ASSUME NEW u \in Users, NEW k \in DOMAIN judged, Revise(u, k, "neutral")
        PROVE  Corrected
    <3> DEFINE labels == [j \in {k} |-> Labelled(j, "neutral", NoGroup)]
    <3>1. judged' = Relabel(labels)
      BY <2>6 DEF Revise
    <3>2. \A j \in DOMAIN labels : labels[j].group = NoGroup
      BY DEF Labelled
    <3> HIDE DEF labels
    <3>3. \A j \in DOMAIN judged' :
            \/ j \in DOMAIN labels /\ judged'[j] = labels[j]
            \/ j \in DOMAIN judged /\ judged'[j] = judged[j]
      BY <3>1, RelabelKeeps
    <3> QED BY <3>2, <3>3 DEF Corrected
  <2>7. ASSUME NEW u \in Users, NEW k \in DOMAIN judged, Remove(u, k)
        PROVE  Corrected
    BY <2>7 DEF Remove, Corrected
  <2>8. ASSUME NEW u \in Users, NEW e \in Events, NEW key \in Keys, Acknowledge(u, e, key)
        PROVE  Corrected
    BY <2>1, <2>8 DEF Acknowledge
  <2>9. ASSUME NEW e \in Events, Rank(e)
        PROVE  Corrected
    BY <2>1, <2>9 DEF Rank
  <2>10. ASSUME NEW e \in Events, PruneEvent(e)
         PROVE  Corrected
    BY <2>10 DEF PruneEvent, Corrected
  <2>11. CASE ClearEvents
    BY <2>11 DEF ClearEvents, Corrected
  <2> QED BY <1>1, <2>2, <2>3, <2>4, <2>5, <2>6, <2>7, <2>8, <2>9, <2>10, <2>11
          DEF FeedbackNext, Submit
<1>2. FeedbackSpec => [][Corrected]_feedbackVars
  BY <1>1, PTL DEF FeedbackSpec
<1> QED BY <1>2 DEF CorrectionIsWhole, Corrected

=============================================================================
