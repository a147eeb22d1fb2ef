-------------------------- MODULE BreakerRowProofs --------------------------
(***************************************************************************)
(* Lemmas about the pure transitions of a circuit's row (src/breaker.rs,   *)
(* impl Row), for every threshold, cooldown and cap.  The proofs about the *)
(* shared circuit (BreakerProofs) and about the provider stage             *)
(* (ProviderStageProofs) cite them.                                        *)
(***************************************************************************)
EXTENDS BreakerRow, TLAPS

\* The assumptions on the constants, gathered under one name that proofs cite.
RowConstants ==
  /\ NoProc \notin Procs
  /\ OPEN_AFTER_FAILURES \in Nat \ {0}
  /\ BASE_COOLDOWN_MS \in Nat \ {0} /\ MAX_COOLDOWN_MS \in Nat
  /\ BASE_COOLDOWN_MS <= MAX_COOLDOWN_MS
  /\ MAX_RETRY_AFTER_MS \in Nat

\* The constants of the breaker policy satisfy what is assumed of them.
LEMMA RowConstantsHold == RowConstants
BY TokenAssumption, ThresholdAssumption, CooldownAssumption DEF RowConstants

\* What a settlement is told: a kind, and a delay that is a time or no delay.
Outcome == [kind : {"success", "neutral", "transient"}, delay : Nat \cup {NoDelay}]

-----------------------------------------------------------------------------
(* Rows stay rows                                                          *)

\* Row::default is a row that transact accepts.
LEMMA ClosedRowType ==
  ASSUME NEW g \in Nat
  PROVE  ClosedRow(g) \in Rows
BY RowConstantsHold DEF ClosedRow, Rows, RowConstants

\* Row::admit writes a row that transact accepts.
LEMMA AdmitType ==
  ASSUME NEW r \in Rows, NEW p \in Procs, NEW now \in Nat, NEW lease \in Nat
  PROVE  AfterAdmit(r, p, now, lease) \in Rows
<1> DEFINE probing == [r EXCEPT !.probe = p, !.probeExpires = now + lease]
<1>1. probing \in Rows
  <2>1. now + lease \in Nat
    OBVIOUS
  <2>2. [r EXCEPT !.probe = p] \in Rows
    BY DEF Rows
  <2>3. probing = [[r EXCEPT !.probe = p] EXCEPT !.probeExpires = now + lease]
    OBVIOUS
  <2> HIDE DEF probing
  <2> QED BY <2>1, <2>2, <2>3 DEF Rows
<1> QED BY <1>1 DEF AfterAdmit

\* A ticket names a generation and, for a probe, its token.
LEMMA TicketType ==
  ASSUME NEW r \in Rows, NEW p \in Procs
  PROVE  TicketOf(r, p) \in Tickets
BY DEF TicketOf, Rows, Tickets

\* A Retry-After only moves the row's own retry time.
LEMMA RetryAfterType ==
  ASSUME NEW r \in Rows, NEW delay \in Nat \cup {NoDelay}, NEW now \in Nat
  PROVE  /\ WithRetryAfter(r, delay, now) \in Rows
         /\ WithRetryAfter(r, delay, now) =
              [r EXCEPT !.retryUntil = WithRetryAfter(r, delay, now).retryUntil]
         /\ r.retryUntil <= WithRetryAfter(r, delay, now).retryUntil
         /\ WithRetryAfter(r, delay, now).retryUntil
              <= Larger(r.retryUntil, now + MAX_RETRY_AFTER_MS)
<1>1. CASE delay = NoDelay
  BY <1>1, RowConstantsHold DEF WithRetryAfter, Rows, Larger, RowConstants
<1>2. CASE delay # NoDelay
  <2> DEFINE until == Larger(r.retryUntil, now + Smaller(delay, MAX_RETRY_AFTER_MS))
  <2>1. delay \in Nat /\ r.retryUntil \in Nat
    BY <1>2 DEF Rows
  <2>2. until \in Nat /\ r.retryUntil <= until
        /\ until <= Larger(r.retryUntil, now + MAX_RETRY_AFTER_MS)
    BY <2>1, RowConstantsHold DEF Larger, Smaller, RowConstants
  <2>3. WithRetryAfter(r, delay, now) = [r EXCEPT !.retryUntil = until]
    BY <1>2 DEF WithRetryAfter
  <2> HIDE DEF until
  <2> QED BY <2>2, <2>3 DEF Rows
<1> QED BY <1>1, <1>2

\* The doubled cooldown is positive and capped.
LEMMA CooldownType ==
  ASSUME NEW r \in Rows
  PROVE  NextCooldown(r) \in 0 .. MAX_COOLDOWN_MS
BY RowConstantsHold DEF NextCooldown, Larger, Smaller, Rows, RowConstants

\* A row whose streak may have reached the threshold.
LooseRows == [generation : Nat, open : BOOLEAN, failures : Nat,
              cooldown : 0 .. MAX_COOLDOWN_MS, openUntil : Nat,
              probe : Procs \cup {NoProc}, probeExpires : Nat,
              retryUntil : Nat]

\* The row of a probe that is released, and of a streak that ended.
LEMMA ReleaseType ==
  ASSUME NEW r \in Rows
  PROVE  /\ [r EXCEPT !.probe = NoProc, !.probeExpires = 0] \in Rows
         /\ [r EXCEPT !.failures = 0, !.retryUntil = 0] \in Rows
<1>1. [r EXCEPT !.probe = NoProc] \in Rows /\ [r EXCEPT !.failures = 0] \in Rows
  BY RowConstantsHold DEF Rows, RowConstants
<1>2. [[r EXCEPT !.probe = NoProc] EXCEPT !.probeExpires = 0] \in Rows
  BY <1>1 DEF Rows
<1>3. [[r EXCEPT !.failures = 0] EXCEPT !.retryUntil = 0] \in Rows
  BY <1>1 DEF Rows
<1> QED BY <1>2, <1>3

\* Opening a circuit writes a row that transact accepts.
LEMMA OpenForType ==
  ASSUME NEW r \in LooseRows,
         NEW now \in Nat, NEW cooldown \in 0 .. MAX_COOLDOWN_MS
  PROVE  /\ OpenFor(r, now, cooldown) \in Rows
         /\ OpenFor(r, now, cooldown).generation = r.generation + 1
         /\ OpenFor(r, now, cooldown).open = TRUE
         /\ OpenFor(r, now, cooldown).openUntil = now + cooldown
         /\ OpenFor(r, now, cooldown).probe = NoProc
         /\ OpenFor(r, now, cooldown).probeExpires = 0
         /\ OpenFor(r, now, cooldown).retryUntil = r.retryUntil
<1> DEFINE r1 == [r EXCEPT !.generation = r.generation + 1]
           r2 == [r1 EXCEPT !.open = TRUE]
           r3 == [r2 EXCEPT !.failures = 0]
           r4 == [r3 EXCEPT !.cooldown = cooldown]
           r5 == [r4 EXCEPT !.openUntil = now + cooldown]
           r6 == [r5 EXCEPT !.probe = NoProc]
           r7 == [r6 EXCEPT !.probeExpires = 0]
<1>1. r1 \in LooseRows /\ now + cooldown \in Nat
  BY RowConstantsHold DEF LooseRows, RowConstants
<1>2. r2 \in LooseRows
  <2> HIDE DEF r1
  <2> QED BY <1>1 DEF LooseRows
<1>3. r3 \in Rows
  <2> HIDE DEF r2
  <2> QED BY <1>2, RowConstantsHold DEF LooseRows, Rows, RowConstants
<1>4. r4 \in Rows
  <2> HIDE DEF r3
  <2> QED BY <1>3 DEF Rows
<1>5. r5 \in Rows
  <2> HIDE DEF r4
  <2> QED BY <1>1, <1>4 DEF Rows
<1>6. r6 \in Rows
  <2> HIDE DEF r5
  <2> QED BY <1>5 DEF Rows
<1>7. r7 \in Rows
  <2> HIDE DEF r6
  <2> QED BY <1>6 DEF Rows
<1>8. OpenFor(r, now, cooldown) = r7
  BY DEF OpenFor
<1>9. /\ r7.generation = r.generation + 1 /\ r7.open = TRUE
      /\ r7.openUntil = now + cooldown
      /\ r7.probe = NoProc /\ r7.probeExpires = 0 /\ r7.retryUntil = r.retryUntil
  BY DEF LooseRows
<1> QED BY <1>7, <1>8, <1>9

\* A counted failure writes a row that transact accepts: the streak stays below
\* the threshold, because the failure that reaches it opens the circuit.
LEMMA FailureType ==
  ASSUME NEW r \in Rows, NEW now \in Nat
  PROVE  AfterFailure(r, now) \in Rows
<1> DEFINE counted == [r EXCEPT !.failures = @ + 1]
<1>1. r \in LooseRows /\ counted \in LooseRows /\ counted.failures = r.failures + 1
  BY RowConstantsHold DEF LooseRows, Rows, RowConstants
<1>2. CASE r.open
  BY <1>1, <1>2, CooldownType, OpenForType DEF AfterFailure
<1>3. CASE ~r.open /\ counted.failures >= OPEN_AFTER_FAILURES
  <2>1. BASE_COOLDOWN_MS \in 0 .. MAX_COOLDOWN_MS
    BY RowConstantsHold DEF RowConstants
  <2>2. AfterFailure(r, now) = OpenFor(counted, now, BASE_COOLDOWN_MS)
    BY <1>3 DEF AfterFailure
  <2> QED BY <1>1, <2>1, <2>2, OpenForType
<1>4. CASE ~r.open /\ ~(counted.failures >= OPEN_AFTER_FAILURES)
  <2>1. AfterFailure(r, now) = counted
    BY <1>4 DEF AfterFailure
  <2>2. counted.failures \in 0 .. OPEN_AFTER_FAILURES - 1
    BY <1>1, <1>4, RowConstantsHold DEF Rows, RowConstants
  <2> QED BY <2>1, <2>2 DEF Rows
<1>5. r.open \in BOOLEAN
  BY DEF Rows
<1> QED BY <1>2, <1>3, <1>4, <1>5

\* Row::settle writes a row that transact accepts, whatever the outcome.
LEMMA SettleType ==
  ASSUME NEW r \in Rows, NEW t, NEW outcome \in Outcome, NEW now \in Nat
  PROVE  AfterSettle(r, t, outcome, now) \in Rows
<1>1. CASE Fenced(r, t, now)
  BY <1>1 DEF AfterSettle
<1>2. CASE ~Fenced(r, t, now) /\ outcome.kind = "transient"
  <2>1. outcome.delay \in Nat \cup {NoDelay}
    BY DEF Outcome
  <2>2. AfterSettle(r, t, outcome, now) =
          AfterFailure(WithRetryAfter(r, outcome.delay, now), now)
    BY <1>2 DEF AfterSettle
  <2>3. WithRetryAfter(r, outcome.delay, now) \in Rows
    BY <2>1, RetryAfterType
  <2> QED BY <2>2, <2>3, FailureType
<1>3. CASE ~Fenced(r, t, now) /\ outcome.kind = "success"
  <2>1. ClosedRow(r.generation + 1) \in Rows
    <3>1. r.generation + 1 \in Nat
      BY DEF Rows
    <3> QED BY <3>1, ClosedRowType
  <2>2. [r EXCEPT !.failures = 0, !.retryUntil = 0] \in Rows
    BY ReleaseType
  <2>3. AfterSettle(r, t, outcome, now) =
          IF r.open THEN ClosedRow(r.generation + 1)
          ELSE [r EXCEPT !.failures = 0, !.retryUntil = 0]
    BY <1>3 DEF AfterSettle
  <2> QED BY <2>1, <2>2, <2>3
<1>4. CASE ~Fenced(r, t, now) /\ outcome.kind = "neutral"
  <2>1. AfterSettle(r, t, outcome, now) =
          IF r.open THEN [r EXCEPT !.probe = NoProc, !.probeExpires = 0] ELSE r
    BY <1>4 DEF AfterSettle
  <2> QED BY <2>1, ReleaseType
<1> QED BY <1>1, <1>2, <1>3, <1>4 DEF Outcome

-----------------------------------------------------------------------------
(* What a transition may change                                            *)

\* How a row may follow another at a given time: its generation rises by at
\* most one and, unless it rises, the circuit stays open or closed; a probe's
\* lease is kept or dropped whole; delays grow by no more than their caps.
Follows(s, r, now) ==
  /\ \/ s.generation = r.generation /\ s.open = r.open
     \/ s.generation = r.generation + 1 /\ s.probe = NoProc
  /\ s.probe = NoProc \/ s.probe = r.probe
  /\ \/ s.probeExpires = r.probeExpires
     \/ s.probe = NoProc /\ s.probeExpires = 0
  /\ s.openUntil <= Larger(r.openUntil, now + MAX_COOLDOWN_MS)
  /\ s.retryUntil <= Larger(r.retryUntil, now + MAX_RETRY_AFTER_MS)

\* A counted failure keeps the retry time and otherwise follows (record_failure).
LEMMA FailureFollows ==
  ASSUME NEW r \in Rows, NEW now \in Nat
  PROVE  /\ Follows(AfterFailure(r, now), r, now)
         /\ AfterFailure(r, now).retryUntil = r.retryUntil
<1> DEFINE counted == [r EXCEPT !.failures = @ + 1]
<1>1. /\ r \in LooseRows /\ counted \in LooseRows
      /\ counted.generation = r.generation /\ counted.open = r.open
      /\ counted.probe = r.probe /\ counted.probeExpires = r.probeExpires
      /\ counted.openUntil = r.openUntil /\ counted.retryUntil = r.retryUntil
      /\ r.openUntil \in Nat /\ r.retryUntil \in Nat
  BY RowConstantsHold DEF LooseRows, Rows, RowConstants
<1>2. ASSUME NEW q \in LooseRows, NEW cooldown \in 0 .. MAX_COOLDOWN_MS,
             q.generation = r.generation, q.retryUntil = r.retryUntil,
             AfterFailure(r, now) = OpenFor(q, now, cooldown)
      PROVE  /\ Follows(AfterFailure(r, now), r, now)
             /\ AfterFailure(r, now).retryUntil = r.retryUntil
  <2>1. now + cooldown <= Larger(r.openUntil, now + MAX_COOLDOWN_MS)
        /\ r.retryUntil <= Larger(r.retryUntil, now + MAX_RETRY_AFTER_MS)
    BY <1>1, RowConstantsHold DEF Larger, RowConstants
  <2> DEFINE s == OpenFor(q, now, cooldown)
  <2>2. /\ s.generation = r.generation + 1 /\ s.openUntil = now + cooldown
        /\ s.probe = NoProc /\ s.probeExpires = 0 /\ s.retryUntil = r.retryUntil
    <3>1. /\ s.generation = q.generation + 1 /\ s.openUntil = now + cooldown
          /\ s.probe = NoProc /\ s.probeExpires = 0 /\ s.retryUntil = q.retryUntil
      BY OpenForType
    <3> QED BY <1>2, <3>1
  <2> HIDE DEF s
  <2>3. Follows(s, r, now) /\ s.retryUntil = r.retryUntil
    BY <2>1, <2>2 DEF Follows
  <2> QED BY <1>2, <2>3 DEF s
<1>3. CASE r.open
  <2>1. AfterFailure(r, now) = OpenFor(r, now, NextCooldown(r))
    BY <1>3 DEF AfterFailure
  <2> QED BY <1>1, <1>2, <2>1, CooldownType
<1>4. CASE ~r.open /\ counted.failures >= OPEN_AFTER_FAILURES
  <2>1. BASE_COOLDOWN_MS \in 0 .. MAX_COOLDOWN_MS
    BY RowConstantsHold DEF RowConstants
  <2>2. AfterFailure(r, now) = OpenFor(counted, now, BASE_COOLDOWN_MS)
    BY <1>4 DEF AfterFailure
  <2> HIDE DEF counted
  <2> QED BY <1>1, <1>2, <2>1, <2>2
<1>5. CASE ~r.open /\ ~(counted.failures >= OPEN_AFTER_FAILURES)
  <2>1. AfterFailure(r, now) = counted
    BY <1>5 DEF AfterFailure
  <2> HIDE DEF counted
  <2> QED BY <1>1, <2>1, RowConstantsHold DEF Follows, Larger, RowConstants
<1>6. r.open \in BOOLEAN
  BY DEF Rows
<1> QED BY <1>3, <1>4, <1>5, <1>6

\* A settlement follows, whatever the outcome (Row::settle).
LEMMA SettleFollows ==
  ASSUME NEW r \in Rows, NEW t, NEW outcome \in Outcome, NEW now \in Nat
  PROVE  Follows(AfterSettle(r, t, outcome, now), r, now)
<1>1. /\ r.generation \in Nat /\ r.openUntil \in Nat /\ r.retryUntil \in Nat
      /\ r.probeExpires \in Nat /\ r.open \in BOOLEAN
  BY DEF Rows
<1>2. Follows(r, r, now)
  BY <1>1, RowConstantsHold DEF Follows, Larger, RowConstants
<1>3. CASE Fenced(r, t, now)
  BY <1>2, <1>3 DEF AfterSettle
<1>4. CASE ~Fenced(r, t, now) /\ outcome.kind = "transient"
  <2> DEFINE w == WithRetryAfter(r, outcome.delay, now)
             s == AfterFailure(w, now)
  <2>1. outcome.delay \in Nat \cup {NoDelay}
    BY DEF Outcome
  <2>2. AfterSettle(r, t, outcome, now) = s
    BY <1>4 DEF AfterSettle
  <2>3. /\ w \in Rows /\ w = [r EXCEPT !.retryUntil = w.retryUntil]
        /\ w.retryUntil <= Larger(r.retryUntil, now + MAX_RETRY_AFTER_MS)
    <3> HIDE DEF w
    <3> QED BY <2>1, RetryAfterType DEF w
  <2>4. /\ w.generation = r.generation /\ w.open = r.open /\ w.probe = r.probe
        /\ w.probeExpires = r.probeExpires /\ w.openUntil = r.openUntil
    <3> HIDE DEF w
    <3> QED BY <2>3 DEF Rows
  <2>5. Follows(s, w, now) /\ s.retryUntil = w.retryUntil
    <3> HIDE DEF w
    <3> QED BY <2>3, FailureFollows
  <2> HIDE DEF w, s
  <2> QED BY <2>2, <2>3, <2>4, <2>5 DEF Follows
<1>5. CASE ~Fenced(r, t, now) /\ outcome.kind = "success"
  <2>1. Follows(ClosedRow(r.generation + 1), r, now)
    BY <1>1, RowConstantsHold DEF Follows, ClosedRow, Larger, RowConstants
  <2>2. Follows([r EXCEPT !.failures = 0, !.retryUntil = 0], r, now)
    <3> DEFINE s == [r EXCEPT !.failures = 0, !.retryUntil = 0]
    <3>1. /\ s.generation = r.generation /\ s.open = r.open /\ s.probe = r.probe
          /\ s.probeExpires = r.probeExpires /\ s.openUntil = r.openUntil
          /\ s.retryUntil = 0
      BY DEF Rows
    <3> HIDE DEF s
    <3>2. Follows(s, r, now)
      BY <1>1, <3>1, RowConstantsHold DEF Follows, Larger, RowConstants
    <3> QED BY <3>2 DEF s
  <2>3. AfterSettle(r, t, outcome, now) =
          IF r.open THEN ClosedRow(r.generation + 1)
          ELSE [r EXCEPT !.failures = 0, !.retryUntil = 0]
    BY <1>5 DEF AfterSettle
  <2> QED BY <2>1, <2>2, <2>3
<1>6. CASE ~Fenced(r, t, now) /\ outcome.kind = "neutral"
  <2>1. Follows([r EXCEPT !.probe = NoProc, !.probeExpires = 0], r, now)
    <3> DEFINE s == [r EXCEPT !.probe = NoProc, !.probeExpires = 0]
    <3>1. /\ s.generation = r.generation /\ s.open = r.open /\ s.probe = NoProc
          /\ s.probeExpires = 0 /\ s.openUntil = r.openUntil
          /\ s.retryUntil = r.retryUntil
      BY DEF Rows
    <3> HIDE DEF s
    <3>2. Follows(s, r, now)
      BY <1>1, <3>1, RowConstantsHold DEF Follows, Larger, RowConstants
    <3> QED BY <3>2 DEF s
  <2>2. AfterSettle(r, t, outcome, now) =
          IF r.open THEN [r EXCEPT !.probe = NoProc, !.probeExpires = 0] ELSE r
    BY <1>6 DEF AfterSettle
  <2> QED BY <1>2, <2>1, <2>2
<1> QED BY <1>3, <1>4, <1>5, <1>6 DEF Outcome

\* Without a transient failure a closed circuit stays closed (Row::settle).
LEMMA ClosedStaysClosed ==
  ASSUME NEW r \in Rows, NEW t, NEW outcome \in Outcome, NEW now \in Nat,
         outcome.kind # "transient", ~r.open
  PROVE  LET s == AfterSettle(r, t, outcome, now)
         IN ~s.open /\ s.generation = r.generation
<1>1. \/ AfterSettle(r, t, outcome, now) = r
      \/ AfterSettle(r, t, outcome, now) = [r EXCEPT !.failures = 0, !.retryUntil = 0]
  BY DEF AfterSettle, Outcome
<1>2. /\ [r EXCEPT !.failures = 0, !.retryUntil = 0].open = r.open
      /\ [r EXCEPT !.failures = 0, !.retryUntil = 0].generation = r.generation
  BY DEF Rows
<1> QED BY <1>1, <1>2

\* An admission leaves a closed circuit alone and otherwise replaces the probe
\* and its lease (Row::admit).
LEMMA AdmitReplacesProbe ==
  ASSUME NEW r \in Rows, NEW p \in Procs, NEW now \in Nat, NEW lease \in Nat
  PROVE  LET s == AfterAdmit(r, p, now, lease)
         IN /\ s.generation = r.generation /\ s.open = r.open
            /\ s.openUntil = r.openUntil /\ s.retryUntil = r.retryUntil
            /\ ~r.open => s = r
            /\ r.open => s.probe = p /\ s.probeExpires = now + lease
BY DEF AfterAdmit, Rows

\* The fence: an open circuit's row changes only for the probe that holds the
\* lease, before it runs out, and a row of any generation only for a ticket of
\* that generation (Row::settle).
LEMMA FenceHolds ==
  ASSUME NEW r, NEW t, NEW outcome, NEW now,
         AfterSettle(r, t, outcome, now) # r
  PROVE  /\ t.generation = r.generation
         /\ r.open => t.probe # NoProc /\ t.probe = r.probe /\ ~(now >= r.probeExpires)
BY DEF AfterSettle, Fenced, OwnsProbe
=============================================================================
