----------------------------- MODULE BreakerRow -----------------------------
(***************************************************************************)
(* The pure transitions of one circuit (src/breaker.rs, impl Row): what an *)
(* admission and a settlement do to the stored row.  The shared store and  *)
(* the process-local fallback apply the same two operators.                *)
(*                                                                         *)
(* A probe token is unique to one admission.  A process has at most one    *)
(* live ticket, so the process's name stands for the token of its probe.   *)
(***************************************************************************)
EXTENDS Integers

CONSTANTS
  Procs,                \* the processes that send attempts
  NoProc,               \* no probe token
  OPEN_AFTER_FAILURES,  \* consecutive transient failures that open a circuit
  BASE_COOLDOWN_MS,     \* first cooldown
  MAX_COOLDOWN_MS,      \* cap of the doubled cooldown
  MAX_RETRY_AFTER_MS    \* cap of a stored Retry-After

ASSUME TokenAssumption == NoProc \notin Procs
ASSUME ThresholdAssumption == OPEN_AFTER_FAILURES \in Nat \ {0}
ASSUME CooldownAssumption ==
  /\ BASE_COOLDOWN_MS \in Nat \ {0}
  /\ MAX_COOLDOWN_MS \in Nat
  /\ BASE_COOLDOWN_MS <= MAX_COOLDOWN_MS
  /\ MAX_RETRY_AFTER_MS \in Nat

Larger(a, b) == IF a > b THEN a ELSE b
Smaller(a, b) == IF a < b THEN a ELSE b

\* The rows that transact accepts when it reads one back from the store.
Rows == [generation : Nat, open : BOOLEAN,
         failures : 0 .. OPEN_AFTER_FAILURES - 1,
         cooldown : 0 .. MAX_COOLDOWN_MS,
         openUntil : Nat, probe : Procs \cup {NoProc}, probeExpires : Nat,
         retryUntil : Nat]

\* Row::default, at a given generation.
ClosedRow(g) ==
  [generation |-> g, open |-> FALSE, failures |-> 0, cooldown |-> 0,
   openUntil |-> 0, probe |-> NoProc, probeExpires |-> 0, retryUntil |-> 0]

\* What an attempt was admitted under; probe is NoProc for an ordinary one.
Tickets == [generation : Nat, probe : Procs \cup {NoProc}]

\* An attempt's end as far as endpoint health goes, with a valid Retry-After.
NoDelay == -1
Outcomes(delays) ==
  [kind : {"success", "neutral"}, delay : {NoDelay}]
  \cup [kind : {"transient"}, delay : delays \cup {NoDelay}]

-----------------------------------------------------------------------------
(* Row::admit *)

Cooling(r, now) == now < r.retryUntil \/ (r.open /\ now < r.openUntil)

ProbeHeld(r, now) == r.open /\ r.probe # NoProc /\ now < r.probeExpires

Admits(r, now) == ~Cooling(r, now) /\ ~ProbeHeld(r, now)

\* The row and the ticket of process p's admission.
AfterAdmit(r, p, now, lease) ==
  IF r.open THEN [r EXCEPT !.probe = p, !.probeExpires = now + lease] ELSE r

TicketOf(r, p) ==
  [generation |-> r.generation, probe |-> IF r.open THEN p ELSE NoProc]

-----------------------------------------------------------------------------
(* Row::settle *)

OpenFor(r, now, cooldown) ==
  [r EXCEPT !.generation = @ + 1, !.open = TRUE, !.failures = 0,
            !.cooldown = cooldown, !.openUntil = now + cooldown,
            !.probe = NoProc, !.probeExpires = 0]

OwnsProbe(r, t) == r.open /\ t.probe # NoProc /\ t.probe = r.probe

\* Mutant of Fenced: an expired owner still counts.
FencedByToken(r, t, now) ==
  t.generation # r.generation \/ (r.open /\ ~OwnsProbe(r, t))

\* Mutant of Fenced: the generation of a closed circuit is not compared.
FencedOpenOnly(r, t, now) ==
  r.open /\ (~OwnsProbe(r, t) \/ now >= r.probeExpires)

\* A settlement that may not touch the row at all.
Fenced(r, t, now) ==
  \/ t.generation # r.generation
  \/ r.open /\ (~OwnsProbe(r, t) \/ now >= r.probeExpires)

\* Mutant of WithRetryAfter: the delay is stored as the provider sent it.
WithRetryAfterUncapped(r, delay, now) ==
  IF delay = NoDelay THEN r ELSE [r EXCEPT !.retryUntil = Larger(@, now + delay)]

\* A Retry-After is capped and never shortens one that is pending.
WithRetryAfter(r, delay, now) ==
  IF delay = NoDelay THEN r
  ELSE [r EXCEPT !.retryUntil =
                   Larger(@, now + Smaller(delay, MAX_RETRY_AFTER_MS))]

NextCooldown(r) ==
  Smaller(2 * Larger(r.cooldown, BASE_COOLDOWN_MS), MAX_COOLDOWN_MS)

\* A transient failure that is not fenced.
AfterFailure(r, now) ==
  LET counted == [r EXCEPT !.failures = @ + 1]
  IN CASE r.open -> OpenFor(r, now, NextCooldown(r))
       [] ~r.open /\ counted.failures >= OPEN_AFTER_FAILURES ->
            OpenFor(counted, now, BASE_COOLDOWN_MS)
       [] OTHER -> counted

AfterSettle(r, t, outcome, now) ==
  CASE Fenced(r, t, now) -> r
    [] ~Fenced(r, t, now) /\ outcome.kind = "transient" ->
         AfterFailure(WithRetryAfter(r, outcome.delay, now), now)
    [] ~Fenced(r, t, now) /\ outcome.kind = "success" ->
         IF r.open THEN ClosedRow(r.generation + 1)
         ELSE [r EXCEPT !.failures = 0, !.retryUntil = 0]
    [] OTHER -> IF r.open THEN [r EXCEPT !.probe = NoProc, !.probeExpires = 0]
                ELSE r
=============================================================================
