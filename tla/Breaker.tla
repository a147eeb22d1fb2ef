------------------------------ MODULE Breaker ------------------------------
(***************************************************************************)
(* The provider circuit breaker of one endpoint origin (src/breaker.rs,    *)
(* src/breaker/store.rs): a row in a store that this user's sr processes   *)
(* share, and a process-local row for a process that has no usable store.  *)
(*                                                                         *)
(* A process is one Breaker value, which a provider stage creates, and the *)
(* attempts it makes one after another.  It may end at any moment without  *)
(* settling the attempt in flight.                                         *)
(***************************************************************************)
EXTENDS BreakerRow

CONSTANTS
  Persistent,  \* the processes whose runtime state is enabled (path is Some)
  Leases,      \* times left to an invocation when it is admitted
  Delays,      \* Retry-After values a provider may send
  MaxTime,     \* bound: latest wall-clock reading
  MaxGen       \* bound: generations of a circuit

ASSUME PersistentAssumption == Persistent \subseteq Procs
\* Invocations are bounded, so there is a longest lease.
ASSUME LeasesAssumption ==
  /\ Leases \subseteq Nat /\ Delays \subseteq Nat
  /\ Leases = {} \/ \E longest \in Leases : \A lease \in Leases : lease <= longest
ASSUME TimeAssumption == MaxTime \in Nat /\ MaxGen \in Nat

VARIABLES
  store,     \* the shared database of the origin and its row
  local,     \* each process's own row
  degraded,  \* processes that found the store unusable
  ticket,    \* what each attempt in flight was admitted under
  pc,        \* "idle" or "inflight"
  now,       \* the wall clock
  high,      \* history: the latest reading of the wall clock so far
  latest,    \* history: the last process admitted as the open circuit's probe
  leaseEnd,  \* history: when that probe's lease ends
  era        \* history: whether the circuit advanced, or was lost, since each
             \* attempt in flight was admitted

hist == <<high, latest, leaseEnd, era>>
vars == <<store, local, degraded, ticket, pc, now, high, latest, leaseEnd, era>>

NoTicket == [generation |-> 0, probe |-> NoProc]

\* "empty" is the private, empty file left by a creator that failed.
NoStore == [state |-> "absent", row |-> ClosedRow(0)]

\* Types, and more: no order of settlements writes a row that later processes
\* would refuse to read, a failure streak or a cooldown out of policy.
TypeOK ==
  /\ store \in [state : {"absent", "empty", "ready"}, row : Rows]
  /\ local \in [Procs -> Rows]
  /\ degraded \subseteq Procs
  /\ ticket \in [Procs -> Tickets]
  /\ pc \in [Procs -> {"idle", "inflight"}]
  /\ now \in 0 .. MaxTime /\ high \in 0 .. MaxTime
  /\ latest \in Procs \cup {NoProc}
  /\ leaseEnd \in Nat
  /\ era \in [Procs -> {"current", "stale", "orphan"}]

Init ==
  /\ store = NoStore
  /\ local = [p \in Procs |-> ClosedRow(0)]
  /\ degraded = {}
  /\ ticket = [p \in Procs |-> NoTicket]
  /\ pc = [p \in Procs |-> "idle"]
  /\ now = 0 /\ high = 0
  /\ latest = NoProc
  /\ leaseEnd = 0
  /\ era = [p \in Procs |-> "current"]

-----------------------------------------------------------------------------
(* Breaker::shared *)

UsesStore(p) == p \in Persistent \ degraded

\* The store answers a read: it exists and holds the schema.
Readable(p) == UsesStore(p) /\ store.state = "ready"

\* Without a store (never created, or created and left empty) and with no
\* reason to create one, and also once degraded, the local row applies.
UsesLocal(p, create) ==
  \/ ~UsesStore(p)
  \/ ~create /\ store.state # "ready"

\* What a failed transaction may leave behind: nothing, the empty file of an
\* interrupted creation, a schema without a row, or the committed change when
\* only the verification after the commit failed.
Leftovers(create, row) ==
  {store}
  \cup IF store.state = "ready" \/ create
       THEN {[state |-> "ready", row |-> row]} ELSE {}
  \cup IF store.state # "ready" /\ create
       THEN {[state |-> "empty", row |-> ClosedRow(0)],
             [state |-> "ready", row |-> ClosedRow(0)]} ELSE {}

\* Mutant of Degrade: an unusable store goes unreported.
DegradeSilently(p) == UNCHANGED degraded

Degrade(p) == degraded' = degraded \cup {p}

\* The history of a change of the shared row.
Record(p, row) ==
  /\ IF row.generation # store.row.generation
     THEN /\ latest' = NoProc /\ leaseEnd' = 0
          /\ era' = [q \in Procs |->
                       IF q # p /\ pc[q] = "inflight" /\ era[q] = "current"
                       THEN "stale" ELSE IF q = p THEN "current" ELSE era[q]]
     ELSE /\ era' = [era EXCEPT ![p] = "current"]
          /\ UNCHANGED <<latest, leaseEnd>>
  /\ UNCHANGED high

-----------------------------------------------------------------------------
(* Breaker::admit *)

Start(p, row) ==
  /\ Admits(row, now)
  /\ pc[p] = "idle"
  /\ pc' = [pc EXCEPT ![p] = "inflight"]
  /\ ticket' = [ticket EXCEPT ![p] = TicketOf(row, p)]

\* Admitted by the shared row.
AdmitShared(p, lease) ==
  /\ Readable(p)
  /\ Start(p, store.row)
  /\ store' = [store EXCEPT !.row = AfterAdmit(@, p, now, lease)]
  /\ latest' = IF store.row.open THEN p ELSE latest
  /\ leaseEnd' = IF store.row.open THEN now + lease ELSE leaseEnd
  /\ era' = [era EXCEPT ![p] = "current"]
  /\ UNCHANGED <<local, degraded, now, high>>

\* Admitted by the process's own row.
AdmitLocal(p, lease) ==
  /\ UsesLocal(p, FALSE)
  /\ Start(p, local[p])
  /\ local' = [local EXCEPT ![p] = AfterAdmit(@, p, now, lease)]
  /\ era' = [era EXCEPT ![p] = "current"]
  /\ UNCHANGED <<store, degraded, now, high, latest, leaseEnd>>

\* The store cannot be used.  The process-local row decides instead, and the
\* shared admission may have been committed all the same.
AdmitDegrades(p, lease) ==
  /\ UsesStore(p) /\ store.state # "absent"
  /\ Degrade(p)
  /\ Start(p, local[p])
  /\ local' = [local EXCEPT ![p] = AfterAdmit(@, p, now, lease)]
  /\ \/ UNCHANGED <<store, latest, leaseEnd>>
     \/ /\ store.state = "ready" /\ Admits(store.row, now)
        /\ store' = [store EXCEPT !.row = AfterAdmit(@, p, now, lease)]
        /\ latest' = IF store.row.open THEN p ELSE latest
        /\ leaseEnd' = IF store.row.open THEN now + lease ELSE leaseEnd
  /\ era' = [era EXCEPT ![p] = "current"]
  /\ UNCHANGED <<now, high>>

-----------------------------------------------------------------------------
(* Breaker::settle *)

Finish(p) ==
  /\ pc[p] = "inflight"
  /\ pc' = [pc EXCEPT ![p] = "idle"]
  /\ ticket' = [ticket EXCEPT ![p] = NoTicket]

\* Only a transient failure is worth creating the store for.
Creates(outcome) == outcome.kind = "transient"

SettleShared(p, outcome) ==
  LET row == AfterSettle(store.row, ticket[p], outcome, now)
  IN /\ UsesStore(p) /\ ~UsesLocal(p, Creates(outcome))
     /\ Finish(p)
     /\ row.generation <= MaxGen
     /\ store' = [state |-> "ready", row |-> row]
     /\ Record(p, row)
     /\ UNCHANGED <<local, degraded, now>>

SettleLocal(p, outcome) ==
  LET row == AfterSettle(local[p], ticket[p], outcome, now)
  IN /\ UsesLocal(p, Creates(outcome))
     /\ Finish(p)
     /\ row.generation <= MaxGen
     /\ local' = [local EXCEPT ![p] = row]
     /\ era' = [era EXCEPT ![p] = "current"]
     /\ UNCHANGED <<store, degraded, now, high, latest, leaseEnd>>

SettleDegrades(p, outcome) ==
  LET row == AfterSettle(store.row, ticket[p], outcome, now)
      own == AfterSettle(local[p], ticket[p], outcome, now)
  IN /\ UsesStore(p)
     /\ store.state # "absent" \/ Creates(outcome)
     /\ Finish(p)
     /\ row.generation <= MaxGen /\ own.generation <= MaxGen
     /\ Degrade(p)
     /\ store' \in Leftovers(Creates(outcome), row)
     /\ local' = [local EXCEPT ![p] = own]
     /\ Record(p, store'.row)
     /\ UNCHANGED now

-----------------------------------------------------------------------------
(* Environment *)

\* The stage ends, or the process is killed, whatever it has in flight.
End(p) ==
  /\ pc' = [pc EXCEPT ![p] = "idle"]
  /\ ticket' = [ticket EXCEPT ![p] = NoTicket]
  /\ local' = [local EXCEPT ![p] = ClosedRow(0)]
  /\ degraded' = degraded \ {p}
  /\ era' = [era EXCEPT ![p] = "current"]
  /\ UNCHANGED <<store, now, high, latest, leaseEnd>>

\* The wall clock moves, forwards or back.
ClockMoves ==
  /\ now' \in (0 .. MaxTime) \ {now}
  /\ high' = Larger(high, now')
  /\ UNCHANGED <<store, local, degraded, ticket, pc, latest, leaseEnd, era>>

\* The private cache directory is cleared: the circuit is forgotten.
StoreLost ==
  /\ store.state # "absent"
  /\ store' = NoStore
  /\ latest' = NoProc /\ leaseEnd' = 0
  /\ era' = [p \in Procs |-> IF pc[p] = "inflight" THEN "orphan" ELSE "current"]
  /\ UNCHANGED <<local, degraded, ticket, pc, now, high>>

Next ==
  \/ \E p \in Procs :
       \/ \E lease \in Leases :
            AdmitShared(p, lease) \/ AdmitLocal(p, lease) \/ AdmitDegrades(p, lease)
       \/ \E outcome \in Outcomes(Delays) :
            \/ SettleShared(p, outcome) \/ SettleLocal(p, outcome)
            \/ SettleDegrades(p, outcome)
       \/ End(p)
  \/ ClockMoves \/ StoreLost

Spec == Init /\ [][Next]_vars

-----------------------------------------------------------------------------
(* Properties *)

\* No header, crash, lost lease or clock correction cools an endpoint down for
\* good: once the clock passes its highest reading by the longest delay there
\* is, the next attempt is admitted ("must not cool the endpoint down for
\* days, or in effect forever").
Longest ==
  CHOOSE d \in {MAX_COOLDOWN_MS, MAX_RETRY_AFTER_MS} \cup Leases :
    \A e \in {MAX_COOLDOWN_MS, MAX_RETRY_AFTER_MS} \cup Leases : e <= d

CircuitNeverStuck ==
  \A row \in {store.row} \cup {local[p] : p \in Procs} :
    Admits(row, high + Longest)

\* An open shared circuit is changed only by the admission of a probe and by
\* the settlement of the probe admitted last, before its lease runs out: a late
\* response of an earlier attempt neither closes it, nor lengthens its
\* cooldown, nor releases its successor's lease (the fence in Row::settle).
OpenCircuitFenced ==
  [][\A p \in Procs :
       /\ store.row.open /\ store'.state = "ready" /\ store'.row # store.row
       /\ pc[p] = "inflight" /\ pc'[p] = "idle"
       => p = latest /\ now < leaseEnd]_vars

\* Evidence from before a circuit opened or closed does not count towards its
\* next opening: a settlement changes the shared row only for an attempt that
\* was admitted since the circuit last advanced its generation.  (Attempts from
\* before the store was deleted are left out: generations start over then.)
EvidenceIsCurrent ==
  [][\A p \in Procs :
       /\ pc[p] = "inflight" /\ pc'[p] = "idle"
       /\ store'.state = "ready" /\ store'.row # store.row
       => era[p] # "stale"]_vars

\* A process that reports shared protection obeys the shared circuit: while it
\* is open, an attempt starts only as the circuit's probe and never beside an
\* earlier probe whose lease has not run out (protection, shared).
SharedMeansShared ==
  [][\A p \in Persistent :
       /\ pc[p] = "idle" /\ pc'[p] = "inflight"
       /\ p \notin degraded' /\ store.row.open
       => /\ ticket'[p].probe = p /\ ticket'[p].generation = store.row.generation
          /\ (latest \notin {NoProc, p} /\ pc[latest] = "inflight" /\ latest \notin degraded)
               => now >= leaseEnd]_vars
=============================================================================
