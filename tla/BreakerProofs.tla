--------------------------- MODULE BreakerProofs ---------------------------
(***************************************************************************)
(* Theorems about Breaker, for every set of processes, every threshold,    *)
(* cooldown and cap, every set of leases and delays and every bound.       *)
(*                                                                         *)
(* The inductive invariant has four parts: a store that is not ready holds *)
(* no circuit (StoreInv); the probe in the shared row is the process       *)
(* admitted last and, unless it lost the store, that process is the probe  *)
(* (ProbeInv); a ticket is never ahead of the shared circuit and is behind *)
(* it once the circuit advanced (TicketInv); and no row looks further than *)
(* the caps past the highest reading of the clock (HorizonInv).            *)
(***************************************************************************)
EXTENDS Breaker, BreakerRowProofs

\* The assumptions on the constants, gathered under one name that proofs cite.
BreakerConstants ==
  /\ Persistent \subseteq Procs
  /\ Leases \subseteq Nat /\ Delays \subseteq Nat
  /\ MaxTime \in Nat /\ MaxGen \in Nat

\* The constants of the breaker's environment satisfy what is assumed of them.
LEMMA BreakerConstantsHold == BreakerConstants
BY PersistentAssumption, LeasesAssumption, TimeAssumption DEF BreakerConstants

-----------------------------------------------------------------------------
(* The inductive invariant                                                 *)

\* A store that is not ready holds no circuit, and a process that would use it
\* has a local circuit that never opened.
StoreInv ==
  /\ store.state # "ready" => store.row = ClosedRow(0)
  /\ \A p \in Procs : UsesStore(p) => ~local[p].open /\ local[p].generation = 0

\* The probe of the shared circuit is the process admitted last as its probe.
ProbeInv ==
  /\ latest # NoProc => store.row.open /\ latest \in Persistent
  /\ store.row.probe # NoProc =>
       store.row.probe = latest /\ store.row.probeExpires = leaseEnd
  /\ latest # NoProc /\ pc[latest] = "inflight" /\ latest \notin degraded =>
       store.row.probe = latest

\* Evidence in flight is of the shared circuit's generation or older, and older
\* once the circuit advanced.
TicketOfAttempt(p) ==
  UsesStore(p) /\ pc[p] = "inflight" =>
    /\ era[p] = "current" => ticket[p].generation <= store.row.generation
    /\ era[p] = "stale" => ticket[p].generation < store.row.generation

TicketInv == \A p \in Procs : TicketOfAttempt(p)

\* A ticket names its own process as the probe, or none.
ProbeIsOwn == \A p \in Procs : ticket[p].probe \in {p, NoProc}

\* A row's delays end within the caps after a reading of the clock.
Horizon(r, time, lease) ==
  /\ r.retryUntil <= time + MAX_RETRY_AFTER_MS
  /\ r.openUntil <= time + MAX_COOLDOWN_MS
  /\ r.probeExpires <= time + lease

HorizonInv ==
  /\ now <= high
  /\ Horizon(store.row, high, Longest)
  /\ \A p \in Procs : Horizon(local[p], high, Longest)

-----------------------------------------------------------------------------
(* What a settlement does to the rows                                      *)

\* A settlement's outcome is one that the row's transitions accept, and the row
\* it computes from the shared one, or from a process's own, is a row.
LEMMA Settles ==
  ASSUME TypeOK, NEW p \in Procs, NEW outcome \in Outcomes(Delays),
         NEW r \in {store.row, local[p]}
  PROVE  LET row == AfterSettle(r, ticket[p], outcome, now)
         IN row \in Rows /\ Follows(row, r, now)
<1>1. outcome \in Outcome
  BY BreakerConstantsHold DEF Outcomes, Outcome, BreakerConstants
<1>2. r \in Rows /\ now \in Nat
  BY BreakerConstantsHold DEF TypeOK, BreakerConstants
<1> QED BY <1>1, <1>2, SettleType, SettleFollows

\* What a settlement that reaches for the store may leave there.
SettlesOnStore(p, outcome) ==
  LET row == AfterSettle(store.row, ticket[p], outcome, now)
  IN /\ UsesStore(p) /\ Finish(p) /\ Record(p, store'.row)
     /\ store'.row \in {store.row, row}
     /\ store'.state \in {"absent", "empty", "ready"}
     /\ store.state = "ready" => store'.state = "ready"
     /\ store'.state # "ready" => store'.row = store.row
     /\ UNCHANGED now

\* A settlement on the store leaves the row as it was or settled, also when the
\* transaction failed and the process degrades (Breaker::settle).
LEMMA StoreSettles ==
  ASSUME TypeOK, StoreInv, NEW p \in Procs, NEW outcome \in Outcomes(Delays),
         SettleShared(p, outcome) \/ SettleDegrades(p, outcome)
  PROVE  SettlesOnStore(p, outcome)
<1> DEFINE row == AfterSettle(store.row, ticket[p], outcome, now)
<1>1. CASE SettleShared(p, outcome)
  <2>1. store' = [state |-> "ready", row |-> row]
    BY <1>1 DEF SettleShared
  <2> HIDE DEF row
  <2>2. store'.row = row /\ store'.state = "ready"
    BY <2>1
  <2> QED BY <1>1, <2>2 DEF SettleShared, SettlesOnStore, row
<1>2. CASE SettleDegrades(p, outcome)
  <2>1. store' \in Leftovers(Creates(outcome), row)
    BY <1>2 DEF SettleDegrades
  <2> HIDE DEF row
  <2>2. \/ store' = store
        \/ store' = [state |-> "ready", row |-> row]
        \/ store.state # "ready" /\ store' = [state |-> "empty", row |-> ClosedRow(0)]
        \/ store.state # "ready" /\ store' = [state |-> "ready", row |-> ClosedRow(0)]
    BY <2>1 DEF Leftovers
  <2>3. store.state # "ready" => store.row = ClosedRow(0)
    BY DEF StoreInv
  <2>4. /\ store'.row \in {store.row, row}
        /\ store'.state \in {"absent", "empty", "ready"}
        /\ store.state = "ready" => store'.state = "ready"
        /\ store'.state # "ready" => store'.row = store.row
    BY <2>2, <2>3 DEF TypeOK
  <2> QED BY <1>2, <2>4 DEF SettleDegrades, SettlesOnStore, row
<1> QED BY <1>1, <1>2

-----------------------------------------------------------------------------
(* Type correctness                                                        *)

\* A started attempt has a ticket, and its process is in flight.
LEMMA StartType ==
  ASSUME TypeOK, NEW p \in Procs, NEW r \in Rows, Start(p, r)
  PROVE  ticket' \in [Procs -> Tickets] /\ pc' \in [Procs -> {"idle", "inflight"}]
BY TicketType DEF TypeOK, Start

\* A finished attempt has none.
LEMMA FinishType ==
  ASSUME TypeOK, NEW p \in Procs, Finish(p)
  PROVE  ticket' \in [Procs -> Tickets] /\ pc' \in [Procs -> {"idle", "inflight"}]
BY DEF TypeOK, Finish, NoTicket, Tickets

\* A recorded change keeps the history well-typed.
LEMMA RecordType ==
  ASSUME TypeOK, NEW p \in Procs, NEW r, Record(p, r)
  PROVE  /\ high' = high /\ latest' \in Procs \cup {NoProc} /\ leaseEnd' \in Nat
         /\ era' \in [Procs -> {"current", "stale", "orphan"}]
BY DEF TypeOK, Record

\* An empty store, and a store with a row, are stores.
LEMMA StoreType ==
  ASSUME NEW r \in Rows
  PROVE  /\ NoStore \in [state : {"absent", "empty", "ready"}, row : Rows]
         /\ \A s \in [state : {"absent", "empty", "ready"}, row : Rows] :
              [s EXCEPT !.row = r] \in [state : {"absent", "empty", "ready"}, row : Rows]
BY ClosedRowType DEF NoStore

\* The initial state is well-typed.
LEMMA TypeInit == Init => TypeOK
BY ClosedRowType, StoreType, BreakerConstantsHold
   DEF Init, TypeOK, NoTicket, Tickets, BreakerConstants

\* Admissions keep the state well-typed.
LEMMA TypeAdmit ==
  ASSUME TypeOK, NEW p \in Procs, NEW lease \in Leases,
         AdmitShared(p, lease) \/ AdmitLocal(p, lease) \/ AdmitDegrades(p, lease)
  PROVE  TypeOK'
<1>1. /\ store.row \in Rows /\ local[p] \in Rows
      /\ now \in Nat /\ lease \in Nat /\ now + lease \in Nat
  BY BreakerConstantsHold DEF TypeOK, BreakerConstants
<1>2. AfterAdmit(store.row, p, now, lease) \in Rows /\ AfterAdmit(local[p], p, now, lease) \in Rows
  BY <1>1, AdmitType
<1>3. [store EXCEPT !.row = AfterAdmit(@, p, now, lease)]
        \in [state : {"absent", "empty", "ready"}, row : Rows]
  BY <1>2, StoreType DEF TypeOK
<1>4. [local EXCEPT ![p] = AfterAdmit(@, p, now, lease)] \in [Procs -> Rows]
  BY <1>2 DEF TypeOK
<1>5. CASE AdmitShared(p, lease)
  BY <1>1, <1>3, <1>5, StartType DEF AdmitShared, TypeOK
<1>6. CASE AdmitLocal(p, lease)
  BY <1>1, <1>4, <1>6, StartType DEF AdmitLocal, TypeOK
<1>7. CASE AdmitDegrades(p, lease)
  BY <1>1, <1>3, <1>4, <1>7, StartType DEF AdmitDegrades, Degrade, TypeOK
<1> QED BY <1>5, <1>6, <1>7

\* Settlements keep the state well-typed.
LEMMA TypeSettle ==
  ASSUME TypeOK, StoreInv, NEW p \in Procs, NEW outcome \in Outcomes(Delays),
         \/ SettleShared(p, outcome) \/ SettleLocal(p, outcome)
         \/ SettleDegrades(p, outcome)
  PROVE  TypeOK'
<1>1. /\ AfterSettle(store.row, ticket[p], outcome, now) \in Rows
      /\ AfterSettle(local[p], ticket[p], outcome, now) \in Rows
  BY Settles
<1>2. CASE SettleLocal(p, outcome)
  <2>1. local' \in [Procs -> Rows]
    BY <1>1, <1>2 DEF SettleLocal, TypeOK
  <2> QED BY <1>2, <2>1, FinishType DEF SettleLocal, TypeOK
<1>3. CASE SettleShared(p, outcome)
  <2>1. store' \in [state : {"absent", "empty", "ready"}, row : Rows]
    BY <1>1, <1>3 DEF SettleShared
  <2> QED BY <1>3, <2>1, FinishType, RecordType DEF SettleShared, TypeOK
<1>4. CASE SettleDegrades(p, outcome)
  <2>1. store' \in [state : {"absent", "empty", "ready"}, row : Rows]
    <3>1. [state |-> "empty", row |-> ClosedRow(0)] \in [state : {"absent", "empty", "ready"}, row : Rows]
          /\ [state |-> "ready", row |-> ClosedRow(0)] \in [state : {"absent", "empty", "ready"}, row : Rows]
      BY ClosedRowType
    <3> QED BY <1>1, <1>4, <3>1 DEF SettleDegrades, Leftovers, TypeOK
  <2>2. local' \in [Procs -> Rows]
    BY <1>1, <1>4 DEF SettleDegrades, TypeOK
  <2> QED BY <1>4, <2>1, <2>2, FinishType, RecordType DEF SettleDegrades, Degrade, TypeOK
<1> QED BY <1>2, <1>3, <1>4

\* Every step keeps the state well-typed.
LEMMA TypeStep ==
  ASSUME TypeOK, StoreInv, [Next]_vars
  PROVE  TypeOK'
<1>1. ASSUME NEW p \in Procs, End(p) PROVE TypeOK'
  BY <1>1, ClosedRowType DEF End, TypeOK, NoTicket, Tickets
<1>2. CASE ClockMoves
  BY <1>2, BreakerConstantsHold DEF ClockMoves, TypeOK, Larger, BreakerConstants
<1>3. CASE StoreLost
  BY <1>3, StoreType, ClosedRowType DEF StoreLost, TypeOK
<1>4. CASE UNCHANGED vars
  BY <1>4 DEF vars, TypeOK
<1> QED BY <1>1, <1>2, <1>3, <1>4, TypeAdmit, TypeSettle DEF Next

-----------------------------------------------------------------------------
(* Stores that are not ready, and processes that may still use one         *)

\* The rows that an admission starts from, and what it makes of them.
LEMMA Admitted ==
  ASSUME TypeOK, NEW p \in Procs, NEW lease \in Leases, NEW r \in {store.row, local[p]}
  PROVE  LET s == AfterAdmit(r, p, now, lease)
         IN /\ r \in Rows /\ s \in Rows /\ s.generation = r.generation /\ s.open = r.open
            /\ s.openUntil = r.openUntil /\ s.retryUntil = r.retryUntil
            /\ ~r.open => s = r
            /\ r.open => s.probe = p /\ s.probeExpires = now + lease
<1>1. r \in Rows /\ now \in Nat /\ lease \in Nat
  BY BreakerConstantsHold DEF TypeOK, BreakerConstants
<1> QED BY <1>1, AdmitType, AdmitReplacesProbe

\* Every step keeps it: only the shared database brings a circuit into the store,
\* and a process opens a circuit of its own only after it lost the store.
LEMMA StoreStep ==
  ASSUME TypeOK, StoreInv, [Next]_vars
  PROVE  StoreInv'
<1> USE DEF StoreInv, UsesStore
<1>1. ASSUME NEW p \in Procs, NEW lease \in Leases, AdmitShared(p, lease)
      PROVE  StoreInv'
  <2>1. store'.state = "ready"
    BY <1>1 DEF AdmitShared, Readable, TypeOK
  <2> QED BY <1>1, <2>1 DEF AdmitShared
<1>2. ASSUME NEW p \in Procs, NEW lease \in Leases, AdmitLocal(p, lease)
      PROVE  StoreInv'
  <2>1. store' = store /\ degraded' = degraded
    BY <1>2 DEF AdmitLocal
  <2>2. /\ local'[p] = AfterAdmit(local[p], p, now, lease)
        /\ \A q \in Procs \ {p} : local'[q] = local[q]
    BY <1>2 DEF AdmitLocal, TypeOK
  <2> QED BY <2>1, <2>2, Admitted
<1>3. ASSUME NEW p \in Procs, NEW lease \in Leases, AdmitDegrades(p, lease)
      PROVE  StoreInv'
  <2>1. /\ degraded' = degraded \cup {p}
        /\ \A q \in Procs \ {p} : local'[q] = local[q]
    BY <1>3 DEF AdmitDegrades, Degrade, TypeOK
  <2>2. store' = store \/ store'.state = "ready"
    BY <1>3 DEF AdmitDegrades, TypeOK
  <2> QED BY <2>1, <2>2
<1>4. ASSUME NEW p \in Procs, NEW outcome \in Outcomes(Delays),
             SettleShared(p, outcome) \/ SettleDegrades(p, outcome)
      PROVE  StoreInv'
  <2>1. SettlesOnStore(p, outcome)
    BY <1>4, StoreSettles
  <2>2. store'.state # "ready" => store'.row = ClosedRow(0)
    BY <2>1 DEF SettlesOnStore, TypeOK
  <2>3. \A q \in Procs : q \in Persistent \ degraded' =>
          local'[q] = local[q] /\ q \in Persistent \ degraded
    BY <1>4 DEF SettleShared, SettleDegrades, Degrade, TypeOK
  <2> QED BY <2>2, <2>3
<1>5. ASSUME NEW p \in Procs, NEW outcome \in Outcomes(Delays), SettleLocal(p, outcome)
      PROVE  StoreInv'
  <2> DEFINE own == AfterSettle(local[p], ticket[p], outcome, now)
  <2>1. /\ store' = store /\ degraded' = degraded /\ local'[p] = own
        /\ \A q \in Procs \ {p} : local'[q] = local[q]
    BY <1>5 DEF SettleLocal, TypeOK
  <2>2. UsesStore(p) => ~own.open /\ own.generation = 0
    <3> SUFFICES ASSUME UsesStore(p) PROVE ~own.open /\ own.generation = 0
      OBVIOUS
    <3>1. outcome.kind # "transient"
      BY <1>5 DEF SettleLocal, UsesLocal, Creates
    <3>2. outcome \in Outcome
      BY BreakerConstantsHold DEF Outcomes, Outcome, BreakerConstants
    <3>3. local[p] \in Rows /\ now \in Nat
      BY BreakerConstantsHold DEF TypeOK, BreakerConstants
    <3>4. ~local[p].open /\ local[p].generation = 0
      OBVIOUS
    <3> QED BY <3>1, <3>2, <3>3, <3>4, ClosedStaysClosed
  <2> HIDE DEF own
  <2> QED BY <2>1, <2>2
<1>6. ASSUME NEW p \in Procs, End(p) PROVE StoreInv'
  BY <1>6 DEF End, TypeOK, ClosedRow
<1>7. CASE ClockMoves \/ UNCHANGED vars
  BY <1>7 DEF ClockMoves, vars
<1>8. CASE StoreLost
  BY <1>8 DEF StoreLost, NoStore
<1> QED BY <1>1, <1>2, <1>3, <1>4, <1>5, <1>6, <1>7, <1>8 DEF Next

\* In every reachable state each variable has its type; with StoreInv this is the
\* invariant that no sequence of failures, crashes and clock corrections leaves a
\* row that later processes would refuse to read (Row::valid, transact).
THEOREM TypeCorrect == Spec => [](TypeOK /\ StoreInv)
<1>1. Init => StoreInv
  BY DEF Init, StoreInv, NoStore, ClosedRow
<1> QED BY <1>1, TypeInit, TypeStep, StoreStep, PTL DEF Spec

-----------------------------------------------------------------------------
(* The probe                                                               *)

\* A settlement on the store keeps the probe the one admitted last, for its own
\* circuit and for no other (the fence in Row::settle).
LEMMA ProbeSettles ==
  ASSUME TypeOK, StoreInv, ProbeInv, NEW p \in Procs, ticket[p].probe \in {p, NoProc},
         NEW outcome \in Outcomes(Delays), SettlesOnStore(p, outcome),
         degraded \subseteq degraded'
  PROVE  ProbeInv'
<1> DEFINE row == AfterSettle(store.row, ticket[p], outcome, now)
<1>1. row \in Rows /\ Follows(row, store.row, now) /\ store.row \in Rows
  BY Settles DEF TypeOK
<1>2. row # store.row =>
        /\ ticket[p].generation = store.row.generation
        /\ store.row.open => ticket[p].probe # NoProc /\ ticket[p].probe = store.row.probe
  BY FenceHolds
<1> HIDE DEF row
<1>3. /\ store'.row \in {store.row, row} /\ Record(p, store'.row)
      /\ pc[p] = "inflight" /\ pc' = [pc EXCEPT ![p] = "idle"]
  BY DEF SettlesOnStore, Finish, row
<1>4. CASE store'.row = store.row
  <2>1. latest' = latest /\ leaseEnd' = leaseEnd
    BY <1>3, <1>4 DEF Record
  <2> QED BY <1>3, <1>4, <2>1 DEF ProbeInv, TypeOK
<1>5. CASE store'.row # store.row /\ store'.row.generation = store.row.generation
  <2>1. latest' = latest /\ leaseEnd' = leaseEnd /\ store'.row = row
    BY <1>3, <1>5 DEF Record
  <2>2. row.open = store.row.open /\ (row.probe = NoProc \/ row.probe = store.row.probe)
        /\ (row.probeExpires = store.row.probeExpires \/ row.probe = NoProc)
    BY <1>1, <1>5, <2>1 DEF Follows, Rows
  <2>3. store.row.open => p = latest
    BY <1>2, <1>5, <2>1 DEF ProbeInv
  <2>4. latest # NoProc => pc'[latest] = "idle"
    BY <1>3, <2>3 DEF ProbeInv, TypeOK
  <2> QED BY <2>1, <2>2, <2>4 DEF ProbeInv
<1>6. CASE store'.row # store.row /\ store'.row.generation # store.row.generation
  <2>1. latest' = NoProc /\ store'.row = row
    BY <1>3, <1>6 DEF Record
  <2>2. row.probe = NoProc
    BY <1>1, <1>6, <2>1 DEF Follows
  <2> QED BY <2>1, <2>2 DEF ProbeInv
<1> QED BY <1>4, <1>5, <1>6

\* Every step keeps the probe the process admitted last (Row::admit).
LEMMA ProbeStep ==
  ASSUME TypeOK, StoreInv, ProbeIsOwn, ProbeInv, [Next]_vars
  PROVE  ProbeInv'
<1>1. ASSUME NEW p \in Procs, NEW lease \in Leases, p \in Persistent,
             pc' = [pc EXCEPT ![p] = "inflight"], degraded \subseteq degraded',
             store'.row = AfterAdmit(store.row, p, now, lease),
             latest' = IF store.row.open THEN p ELSE latest,
             leaseEnd' = IF store.row.open THEN now + lease ELSE leaseEnd
      PROVE  ProbeInv'
  <2>1. CASE store.row.open
    BY <1>1, <2>1, Admitted DEF ProbeInv
  <2>2. CASE ~store.row.open
    BY <1>1, <2>2, Admitted DEF ProbeInv
  <2> QED BY <2>1, <2>2
<1>2. ASSUME NEW p \in Procs, NEW lease \in Leases, AdmitShared(p, lease)
      PROVE  ProbeInv'
  <2>1. p \in Persistent
    BY <1>2 DEF AdmitShared, Readable, UsesStore
  <2> QED BY <1>1, <1>2, <2>1 DEF AdmitShared, Start, TypeOK
<1>3. ASSUME NEW p \in Procs, pc' = [pc EXCEPT ![p] = "inflight"], store' = store,
             latest' = latest, leaseEnd' = leaseEnd, degraded \subseteq degraded',
             p \in Persistent => p \in degraded' \/ store.state # "ready"
      PROVE  ProbeInv'
  <2>1. store.state # "ready" => latest = NoProc
    BY DEF StoreInv, ProbeInv, ClosedRow
  <2>2. latest # NoProc /\ pc'[latest] = "inflight" /\ latest \notin degraded' =>
          pc[latest] = "inflight" /\ latest \notin degraded
    BY <1>3, <2>1 DEF ProbeInv, TypeOK
  <2> QED BY <1>3, <2>2 DEF ProbeInv
<1>4. ASSUME NEW p \in Procs, NEW lease \in Leases, AdmitLocal(p, lease)
      PROVE  ProbeInv'
  BY <1>3, <1>4 DEF AdmitLocal, UsesLocal, UsesStore, Start
<1>5. ASSUME NEW p \in Procs, NEW lease \in Leases, AdmitDegrades(p, lease)
      PROVE  ProbeInv'
  <2>1. /\ p \in Persistent /\ degraded' = degraded \cup {p}
        /\ pc' = [pc EXCEPT ![p] = "inflight"]
    BY <1>5 DEF AdmitDegrades, UsesStore, Degrade, Start
  <2>2. CASE store' = store /\ latest' = latest /\ leaseEnd' = leaseEnd
    BY <1>3, <2>1, <2>2
  <2>3. CASE ~(store' = store /\ latest' = latest /\ leaseEnd' = leaseEnd)
    BY <1>1, <1>5, <2>1, <2>3 DEF AdmitDegrades, TypeOK
  <2> QED BY <2>2, <2>3
<1>6. ASSUME NEW p \in Procs, NEW outcome \in Outcomes(Delays),
             SettleShared(p, outcome) \/ SettleDegrades(p, outcome)
      PROVE  ProbeInv'
  <2>1. SettlesOnStore(p, outcome)
    BY <1>6, StoreSettles
  <2>2. degraded \subseteq degraded'
    BY <1>6 DEF SettleShared, SettleDegrades, Degrade
  <2> QED BY <2>1, <2>2, ProbeSettles DEF ProbeIsOwn
<1>7. ASSUME NEW p \in Procs, pc' = [pc EXCEPT ![p] = "idle"], store' = store,
             latest' = latest, leaseEnd' = leaseEnd, degraded \ {p} \subseteq degraded'
      PROVE  ProbeInv'
  BY <1>7 DEF ProbeInv, TypeOK
<1>8. ASSUME NEW p \in Procs, NEW outcome \in Outcomes(Delays), SettleLocal(p, outcome)
      PROVE  ProbeInv'
  BY <1>7, <1>8 DEF SettleLocal, Finish
<1>9. ASSUME NEW p \in Procs, End(p) PROVE ProbeInv'
  BY <1>7, <1>9 DEF End
<1>10. CASE ClockMoves \/ UNCHANGED vars
  BY <1>10 DEF ClockMoves, vars, ProbeInv
<1>11. CASE StoreLost
  BY <1>11 DEF StoreLost, NoStore, ClosedRow, ProbeInv
<1> QED
  BY <1>2, <1>4, <1>5, <1>6, <1>8, <1>9, <1>10, <1>11 DEF Next

-----------------------------------------------------------------------------
(* Evidence in flight                                                      *)

\* Tickets come from admissions only, and these name their own process.
LEMMA OwnStep ==
  ASSUME TypeOK, ProbeIsOwn, [Next]_vars
  PROVE  ProbeIsOwn'
<1>1. ASSUME NEW p \in Procs, ticket'[p].probe \in {p, NoProc},
             \A q \in Procs \ {p} : ticket'[q] = ticket[q]
      PROVE  ProbeIsOwn'
  BY <1>1 DEF ProbeIsOwn
<1>2. \A p \in Procs : \A r : TicketOf(r, p).probe \in {p, NoProc}
  BY DEF TicketOf
<1>3. ASSUME NEW p \in Procs, NEW lease \in Leases,
             AdmitShared(p, lease) \/ AdmitLocal(p, lease) \/ AdmitDegrades(p, lease)
      PROVE  ProbeIsOwn'
  <2>1. \/ ticket' = [ticket EXCEPT ![p] = TicketOf(store.row, p)]
        \/ ticket' = [ticket EXCEPT ![p] = TicketOf(local[p], p)]
    BY <1>3 DEF AdmitShared, AdmitLocal, AdmitDegrades, Start
  <2>2. /\ ticket'[p] = TicketOf(store.row, p) \/ ticket'[p] = TicketOf(local[p], p)
        /\ \A q \in Procs \ {p} : ticket'[q] = ticket[q]
    BY <2>1 DEF TypeOK
  <2>3. ticket'[p].probe \in {p, NoProc}
    BY <1>2, <2>2
  <2> QED BY <1>1, <2>2, <2>3
<1>4. NoTicket.probe = NoProc
  BY DEF NoTicket
<1>5. ASSUME NEW p \in Procs, NEW outcome \in Outcomes(Delays),
             \/ SettleShared(p, outcome) \/ SettleLocal(p, outcome)
             \/ SettleDegrades(p, outcome)
      PROVE  ProbeIsOwn'
  <2>1. ticket' = [ticket EXCEPT ![p] = NoTicket]
    BY <1>5 DEF SettleShared, SettleLocal, SettleDegrades, Finish
  <2>2. ticket'[p] = NoTicket
    BY <2>1 DEF TypeOK
  <2> QED BY <1>1, <1>4, <2>1, <2>2
<1>6. ASSUME NEW p \in Procs, End(p) PROVE ProbeIsOwn'
  <2>1. ticket'[p] = NoTicket
    BY <1>6 DEF End, TypeOK
  <2> QED BY <1>1, <1>4, <1>6, <2>1 DEF End
<1>7. CASE ClockMoves \/ StoreLost \/ UNCHANGED vars
  BY <1>7 DEF ClockMoves, StoreLost, vars, ProbeIsOwn
<1> QED BY <1>3, <1>5, <1>6, <1>7 DEF Next

\* Every step keeps evidence in flight behind the circuit that it may settle: the
\* shared generation only rises, and a rise makes what is in flight stale.
LEMMA TicketStep ==
  ASSUME TypeOK, StoreInv, TicketInv, [Next]_vars
  PROVE  TicketInv'
<1> USE DEF TicketInv, TicketOfAttempt, UsesStore
<1>1. store.row.generation \in Nat /\ \A p \in Procs : ticket[p].generation \in Nat
  BY DEF TypeOK, Rows, Tickets
<1>2. ASSUME NEW p \in Procs, NEW lease \in Leases, AdmitShared(p, lease)
      PROVE  TicketInv'
  <2>1. /\ store'.row = AfterAdmit(store.row, p, now, lease) /\ degraded' = degraded
        /\ ticket'[p] = TicketOf(store.row, p)
        /\ \A q \in Procs \ {p} : ticket'[q] = ticket[q] /\ pc'[q] = pc[q] /\ era'[q] = era[q]
        /\ era'[p] = "current"
    BY <1>2 DEF AdmitShared, Start, TypeOK
  <2>2. store'.row.generation = store.row.generation
    BY <2>1, Admitted
  <2>3. ticket'[p].generation = store.row.generation
    BY <2>1 DEF TicketOf
  <2> QED BY <1>1, <2>1, <2>2, <2>3
<1>3. ASSUME NEW p \in Procs, NEW lease \in Leases, AdmitLocal(p, lease)
      PROVE  TicketInv'
  <2>1. /\ store' = store /\ degraded' = degraded /\ ticket'[p] = TicketOf(local[p], p)
        /\ \A q \in Procs \ {p} : ticket'[q] = ticket[q] /\ pc'[q] = pc[q] /\ era'[q] = era[q]
        /\ era'[p] = "current"
    BY <1>3 DEF AdmitLocal, Start, TypeOK
  <2>2. UsesStore(p) => ticket'[p].generation = 0
    BY <2>1 DEF TicketOf, StoreInv
  <2> QED BY <1>1, <2>1, <2>2
<1>4. ASSUME NEW p \in Procs, NEW lease \in Leases, AdmitDegrades(p, lease)
      PROVE  TicketInv'
  <2>1. /\ degraded' = degraded \cup {p}
        /\ \A q \in Procs \ {p} : ticket'[q] = ticket[q] /\ pc'[q] = pc[q] /\ era'[q] = era[q]
    BY <1>4 DEF AdmitDegrades, Degrade, Start, TypeOK
  <2>2. store' = store \/ store'.row = AfterAdmit(store.row, p, now, lease)
    BY <1>4 DEF AdmitDegrades, TypeOK
  <2>3. store'.row.generation = store.row.generation
    BY <2>2, Admitted
  <2> QED BY <2>1, <2>3
<1>5. ASSUME NEW p \in Procs, NEW outcome \in Outcomes(Delays),
             SettleShared(p, outcome) \/ SettleDegrades(p, outcome)
      PROVE  TicketInv'
  <2> DEFINE row == AfterSettle(store.row, ticket[p], outcome, now)
  <2>1. row \in Rows /\ Follows(row, store.row, now) /\ store.row \in Rows
    BY Settles DEF TypeOK
  <2>2. SettlesOnStore(p, outcome) /\ degraded \subseteq degraded'
    BY <1>5, StoreSettles DEF SettleShared, SettleDegrades, Degrade
  <2> HIDE DEF row
  <2>3. /\ store'.row \in {store.row, row} /\ Record(p, store'.row)
        /\ pc'[p] = "idle"
        /\ \A q \in Procs \ {p} : ticket'[q] = ticket[q] /\ pc'[q] = pc[q]
    BY <2>2 DEF SettlesOnStore, Finish, TypeOK, row
  <2>4. store'.row.generation \in {store.row.generation, store.row.generation + 1}
    BY <2>1, <2>3 DEF Follows
  <2>5. CASE store'.row.generation = store.row.generation
    <3>1. \A q \in Procs \ {p} : era'[q] = era[q]
      BY <2>3, <2>5 DEF Record, TypeOK
    <3> QED BY <2>2, <2>3, <2>5, <3>1
  <2>6. CASE store'.row.generation = store.row.generation + 1
    <3>1. \A q \in Procs \ {p} :
            era'[q] = IF pc[q] = "inflight" /\ era[q] = "current" THEN "stale" ELSE era[q]
      BY <1>1, <2>3, <2>6 DEF Record
    <3> QED BY <1>1, <2>2, <2>3, <2>6, <3>1
  <2> QED BY <2>4, <2>5, <2>6
<1>6. ASSUME NEW p \in Procs, NEW outcome \in Outcomes(Delays), SettleLocal(p, outcome)
      PROVE  TicketInv'
  BY <1>6 DEF SettleLocal, Finish, TypeOK
<1>7. ASSUME NEW p \in Procs, End(p) PROVE TicketInv'
  BY <1>7 DEF End, TypeOK
<1>8. CASE ClockMoves \/ UNCHANGED vars
  BY <1>8 DEF ClockMoves, vars
<1>9. CASE StoreLost
  BY <1>9 DEF StoreLost
<1> QED BY <1>2, <1>3, <1>4, <1>5, <1>6, <1>7, <1>8, <1>9 DEF Next

\* The invariants about the store, the probe and the evidence in flight.
FenceInv == TypeOK /\ StoreInv /\ ProbeIsOwn /\ ProbeInv /\ TicketInv

\* They hold at first and are kept by every step.
LEMMA FenceInvariant == Spec => []FenceInv
<1>1. Init => FenceInv
  <2>1. Init => StoreInv /\ ProbeIsOwn /\ ProbeInv /\ TicketInv
    BY RowConstantsHold
       DEF Init, StoreInv, ProbeIsOwn, ProbeInv, TicketInv, TicketOfAttempt,
           NoStore, NoTicket, ClosedRow, RowConstants
  <2> QED BY <2>1, TypeInit DEF FenceInv
<1>2. FenceInv /\ [Next]_vars => FenceInv'
  BY TypeStep, StoreStep, OwnStep, ProbeStep, TicketStep DEF FenceInv
<1> QED BY <1>1, <1>2, PTL DEF Spec

-----------------------------------------------------------------------------
(* The fence                                                               *)

\* A step that ends an attempt and changes the shared row is that attempt's own
\* settlement on the store, and the row is what Row::settle makes of it.
LEMMA EndIsSettlement ==
  ASSUME FenceInv, [Next]_vars, NEW p \in Procs, pc[p] = "inflight", pc'[p] = "idle",
         store'.state = "ready", store'.row # store.row
  PROVE  /\ UsesStore(p)
         /\ ticket[p].generation = store.row.generation
         /\ store.row.open =>
              ticket[p].probe = store.row.probe /\ ticket[p].probe # NoProc
              /\ ~(now >= store.row.probeExpires)
<1>1. TypeOK /\ StoreInv
  BY DEF FenceInv
<1>2. ASSUME NEW q \in Procs, NEW lease \in Leases,
             AdmitShared(q, lease) \/ AdmitLocal(q, lease) \/ AdmitDegrades(q, lease)
      PROVE  FALSE
  BY <1>1, <1>2 DEF AdmitShared, AdmitLocal, AdmitDegrades, Start, TypeOK
<1>3. ASSUME NEW q \in Procs, NEW outcome \in Outcomes(Delays),
             SettleShared(q, outcome) \/ SettleDegrades(q, outcome)
      PROVE  /\ q = p /\ UsesStore(p)
             /\ store'.row = AfterSettle(store.row, ticket[p], outcome, now)
  <2>1. SettlesOnStore(q, outcome)
    BY <1>1, <1>3, StoreSettles
  <2>2. q = p
    BY <1>1, <2>1 DEF SettlesOnStore, Finish, TypeOK
  <2> QED BY <2>1, <2>2 DEF SettlesOnStore
<1>4. ASSUME NEW q \in Procs, NEW outcome \in Outcomes(Delays), SettleLocal(q, outcome)
      PROVE  FALSE
  BY <1>4 DEF SettleLocal
<1>5. ASSUME NEW q \in Procs, End(q) PROVE FALSE
  BY <1>5 DEF End
<1>6. ~(ClockMoves \/ StoreLost \/ UNCHANGED vars)
  BY DEF ClockMoves, StoreLost, NoStore, vars
<1>7. PICK outcome \in Outcomes(Delays) :
        UsesStore(p) /\ store'.row = AfterSettle(store.row, ticket[p], outcome, now)
  BY <1>2, <1>3, <1>4, <1>5, <1>6 DEF Next
<1> QED BY <1>7, FenceHolds

\* An open circuit is changed only by the settlement of the probe admitted last,
\* before its lease runs out: late responses of earlier attempts neither close
\* it nor release the lease of a successor (Row::settle).
THEOREM LateResponsesAreFenced == Spec => OpenCircuitFenced
<1>1. ASSUME FenceInv, [Next]_vars, NEW p \in Procs,
             store.row.open, store'.state = "ready", store'.row # store.row,
             pc[p] = "inflight", pc'[p] = "idle"
      PROVE  p = latest /\ now < leaseEnd
  <2>1. /\ ticket[p].probe = store.row.probe /\ ticket[p].probe # NoProc
        /\ ~(now >= store.row.probeExpires)
    BY <1>1, EndIsSettlement
  <2>2. store.row.probe = p /\ store.row.probe = latest /\ store.row.probeExpires = leaseEnd
    BY <1>1, <2>1 DEF FenceInv, ProbeIsOwn, ProbeInv
  <2>3. now \in Nat /\ leaseEnd \in Nat
    BY <1>1, BreakerConstantsHold DEF FenceInv, TypeOK, BreakerConstants
  <2> QED BY <2>1, <2>2, <2>3
<1>2. FenceInv /\ [Next]_vars =>
        \A p \in Procs :
          /\ store.row.open /\ store'.state = "ready" /\ store'.row # store.row
          /\ pc[p] = "inflight" /\ pc'[p] = "idle"
          => p = latest /\ now < leaseEnd
  BY <1>1
<1> QED BY <1>2, FenceInvariant, PTL DEF Spec, OpenCircuitFenced

\* Evidence gathered before a circuit opened or closed does not count towards its
\* next opening (the generation in Row::settle).
THEOREM StaleEvidenceIsIgnored == Spec => EvidenceIsCurrent
<1>1. ASSUME FenceInv, [Next]_vars, NEW p \in Procs,
             pc[p] = "inflight", pc'[p] = "idle",
             store'.state = "ready", store'.row # store.row
      PROVE  era[p] # "stale"
  <2>1. UsesStore(p) /\ ticket[p].generation = store.row.generation
    BY <1>1, EndIsSettlement
  <2>2. store.row.generation \in Nat
    BY <1>1 DEF FenceInv, TypeOK, Rows
  <2> QED BY <1>1, <2>1, <2>2 DEF FenceInv, TicketInv, TicketOfAttempt
<1>2. FenceInv /\ [Next]_vars =>
        \A p \in Procs :
          /\ pc[p] = "inflight" /\ pc'[p] = "idle"
          /\ store'.state = "ready" /\ store'.row # store.row
          => era[p] # "stale"
  BY <1>1
<1> QED BY <1>2, FenceInvariant, PTL DEF Spec, EvidenceIsCurrent

\* A process that reports shared protection starts an attempt under an open
\* circuit only as its probe, and never beside an earlier probe whose lease has
\* not run out (Breaker::admit, protection).
THEOREM SharedProtectionHolds == Spec => SharedMeansShared
<1>1. ASSUME FenceInv, [Next]_vars, NEW p \in Persistent,
             pc[p] = "idle", pc'[p] = "inflight", p \notin degraded', store.row.open
      PROVE  /\ ticket'[p].probe = p /\ ticket'[p].generation = store.row.generation
             /\ (latest \notin {NoProc, p} /\ pc[latest] = "inflight"
                   /\ latest \notin degraded)
                  => now >= leaseEnd
  <2>1. TypeOK /\ StoreInv /\ ProbeInv /\ p \in Procs /\ store.state = "ready"
    BY <1>1, BreakerConstantsHold DEF FenceInv, StoreInv, ClosedRow, BreakerConstants
  <2>2. ASSUME NEW q \in Procs, NEW lease \in Leases, AdmitShared(q, lease)
        PROVE  q = p /\ Start(p, store.row)
    BY <1>1, <2>1, <2>2 DEF AdmitShared, Start, TypeOK
  <2>3. ASSUME NEW q \in Procs, NEW lease \in Leases, AdmitLocal(q, lease)
        PROVE  FALSE
    BY <1>1, <2>1, <2>3 DEF AdmitLocal, Start, UsesLocal, UsesStore, TypeOK
  <2>4. ASSUME NEW q \in Procs, NEW lease \in Leases, AdmitDegrades(q, lease)
        PROVE  FALSE
    BY <1>1, <2>1, <2>4 DEF AdmitDegrades, Degrade, Start, TypeOK
  <2>5. ASSUME NEW q \in Procs, NEW outcome \in Outcomes(Delays),
               \/ SettleShared(q, outcome) \/ SettleLocal(q, outcome)
               \/ SettleDegrades(q, outcome)
        PROVE  FALSE
    BY <1>1, <2>1, <2>5 DEF SettleShared, SettleLocal, SettleDegrades, Finish, TypeOK
  <2>6. ASSUME NEW q \in Procs, End(q) PROVE FALSE
    BY <1>1, <2>1, <2>6 DEF End, TypeOK
  <2>7. ~(ClockMoves \/ StoreLost \/ UNCHANGED vars)
    BY <1>1 DEF ClockMoves, StoreLost, vars
  <2>8. Start(p, store.row)
    BY <1>1, <2>2, <2>3, <2>4, <2>5, <2>6, <2>7 DEF Next
  <2>9. ticket'[p] = TicketOf(store.row, p)
    BY <2>1, <2>8 DEF Start, TypeOK
  <2>10. ticket'[p].probe = p /\ ticket'[p].generation = store.row.generation
    BY <1>1, <2>9 DEF TicketOf
  <2>11. ASSUME latest \notin {NoProc, p}, pc[latest] = "inflight", latest \notin degraded
         PROVE  now >= leaseEnd
    <3>1. store.row.probe = latest /\ store.row.probeExpires = leaseEnd
      BY <2>1, <2>11 DEF ProbeInv
    <3>2. ~(now < store.row.probeExpires)
      BY <1>1, <2>8, <2>11, <3>1 DEF Start, Admits, ProbeHeld
    <3>3. now \in Nat /\ leaseEnd \in Nat
      BY <2>1, BreakerConstantsHold DEF TypeOK, BreakerConstants
    <3> QED BY <3>1, <3>2, <3>3
  <2> QED BY <2>10, <2>11
<1>2. FenceInv /\ [Next]_vars =>
        \A p \in Persistent :
          /\ pc[p] = "idle" /\ pc'[p] = "inflight"
          /\ p \notin degraded' /\ store.row.open
          => /\ ticket'[p].probe = p /\ ticket'[p].generation = store.row.generation
             /\ (latest \notin {NoProc, p} /\ pc[latest] = "inflight"
                   /\ latest \notin degraded)
                  => now >= leaseEnd
  BY <1>1
<1> QED BY <1>2, FenceInvariant, PTL DEF Spec, SharedMeansShared

-----------------------------------------------------------------------------
(* Delays                                                                  *)

\* There is a longest delay, and no cap or lease exceeds it.
LEMMA LongestIsLongest ==
  /\ Longest \in Nat
  /\ MAX_COOLDOWN_MS <= Longest /\ MAX_RETRY_AFTER_MS <= Longest
  /\ \A lease \in Leases : lease <= Longest
<1> DEFINE delays == {MAX_COOLDOWN_MS, MAX_RETRY_AFTER_MS} \cup Leases
<1>1. delays \subseteq Nat
  BY RowConstantsHold, LeasesAssumption DEF RowConstants
<1>2. \E d \in delays : \A e \in delays : e <= d
  <2>1. PICK a \in {MAX_COOLDOWN_MS, MAX_RETRY_AFTER_MS} :
          MAX_COOLDOWN_MS <= a /\ MAX_RETRY_AFTER_MS <= a
    BY RowConstantsHold DEF RowConstants
  <2>2. CASE Leases = {}
    BY <2>1, <2>2
  <2>3. CASE Leases # {}
    <3>1. PICK b \in Leases : \A lease \in Leases : lease <= b
      BY <2>3, LeasesAssumption
    <3>2. a \in Nat /\ b \in Nat
      BY RowConstantsHold, LeasesAssumption DEF RowConstants
    <3>3. CASE a <= b
      BY <1>1, <2>1, <3>1, <3>2, <3>3
    <3>4. CASE ~(a <= b)
      BY <1>1, <2>1, <3>1, <3>2, <3>4
    <3> QED BY <3>3, <3>4
  <2> QED BY <2>2, <2>3
<1>3. Longest = CHOOSE d \in delays : \A e \in delays : e <= d
  BY DEF Longest
<1> HIDE DEF delays
<1>4. Longest \in delays /\ \A e \in delays : e <= Longest
  BY <1>2, <1>3
<1> QED BY <1>1, <1>4 DEF delays

\* A row keeps within a horizon that moves forward.
LEMMA HorizonMoves ==
  ASSUME NEW r \in Rows, NEW h \in Nat, NEW k \in Nat, h <= k, Horizon(r, h, Longest)
  PROVE  Horizon(r, k, Longest)
BY RowConstantsHold, LongestIsLongest DEF Horizon, Rows, RowConstants

\* Admissions and settlements keep rows within the horizon of the clock.
LEMMA HorizonKept ==
  ASSUME TypeOK, now <= high, NEW p \in Procs, NEW r \in {store.row, local[p]},
         Horizon(r, high, Longest)
  PROVE  /\ \A lease \in Leases : Horizon(AfterAdmit(r, p, now, lease), high, Longest)
         /\ \A outcome \in Outcomes(Delays) :
              Horizon(AfterSettle(r, ticket[p], outcome, now), high, Longest)
         /\ Horizon(ClosedRow(0), high, Longest)
<1>1. now \in Nat /\ high \in Nat /\ r \in Rows
  BY BreakerConstantsHold DEF TypeOK, BreakerConstants
<1>2. /\ r.retryUntil \in Nat /\ r.openUntil \in Nat /\ r.probeExpires \in Nat
      /\ MAX_COOLDOWN_MS \in Nat /\ MAX_RETRY_AFTER_MS \in Nat
  BY <1>1, RowConstantsHold DEF Rows, RowConstants
<1>3. ASSUME NEW lease \in Leases
      PROVE  Horizon(AfterAdmit(r, p, now, lease), high, Longest)
  <2> DEFINE s == AfterAdmit(r, p, now, lease)
  <2>1. /\ s.openUntil = r.openUntil /\ s.retryUntil = r.retryUntil
        /\ ~r.open => s = r
        /\ r.open => s.probeExpires = now + lease
    BY Admitted
  <2>2. lease \in Nat /\ lease <= Longest /\ Longest \in Nat
    BY BreakerConstantsHold, LongestIsLongest DEF BreakerConstants
  <2> HIDE DEF s
  <2>3. Horizon(s, high, Longest)
    BY <1>1, <1>2, <2>1, <2>2 DEF Horizon
  <2> QED BY <2>3 DEF s
<1>4. ASSUME NEW outcome \in Outcomes(Delays)
      PROVE  Horizon(AfterSettle(r, ticket[p], outcome, now), high, Longest)
  <2> DEFINE s == AfterSettle(r, ticket[p], outcome, now)
  <2>1. s \in Rows /\ Follows(s, r, now)
    BY Settles
  <2> HIDE DEF s
  <2>2. s.openUntil \in Nat /\ s.retryUntil \in Nat /\ s.probeExpires \in Nat
    BY <2>1 DEF Rows
  <2>3. Horizon(s, high, Longest)
    BY <1>1, <1>2, <2>1, <2>2, LongestIsLongest DEF Horizon, Follows, Larger
  <2> QED BY <2>3 DEF s
<1>5. Horizon(ClosedRow(0), high, Longest)
  BY <1>1, <1>2, LongestIsLongest DEF Horizon, ClosedRow
<1> QED BY <1>3, <1>4, <1>5

\* Every step keeps every row within the horizon of the clock's highest reading.
LEMMA HorizonStep ==
  ASSUME TypeOK, StoreInv, HorizonInv, [Next]_vars
  PROVE  HorizonInv'
<1>1. /\ now <= high /\ now \in Nat /\ high \in Nat /\ Horizon(store.row, high, Longest)
      /\ \A p \in Procs : Horizon(local[p], high, Longest)
  BY BreakerConstantsHold DEF HorizonInv, TypeOK, BreakerConstants
<1>2. ASSUME NEW p \in Procs, now' = now, high' = high,
             Horizon(store'.row, high, Longest), Horizon(local'[p], high, Longest),
             \A q \in Procs \ {p} : local'[q] = local[q]
      PROVE  HorizonInv'
  BY <1>1, <1>2 DEF HorizonInv, Horizon
<1>3. ASSUME NEW p \in Procs, NEW lease \in Leases,
             AdmitShared(p, lease) \/ AdmitLocal(p, lease) \/ AdmitDegrades(p, lease)
      PROVE  HorizonInv'
  <2>1. store'.row \in {store.row, AfterAdmit(store.row, p, now, lease)}
    BY <1>3 DEF AdmitShared, AdmitLocal, AdmitDegrades, TypeOK
  <2>2. local'[p] \in {local[p], AfterAdmit(local[p], p, now, lease)}
    BY <1>3 DEF AdmitShared, AdmitLocal, AdmitDegrades, TypeOK
  <2>3. /\ now' = now /\ high' = high /\ \A q \in Procs \ {p} : local'[q] = local[q]
    BY <1>3 DEF AdmitShared, AdmitLocal, AdmitDegrades, TypeOK
  <2> QED BY <1>1, <1>2, <2>1, <2>2, <2>3, HorizonKept
<1>4. ASSUME NEW p \in Procs, NEW outcome \in Outcomes(Delays),
             \/ SettleShared(p, outcome) \/ SettleLocal(p, outcome)
             \/ SettleDegrades(p, outcome)
      PROVE  HorizonInv'
  <2>1. store'.row \in {store.row, AfterSettle(store.row, ticket[p], outcome, now)}
    BY <1>4, StoreSettles DEF SettleLocal, SettlesOnStore
  <2>2. local'[p] \in {local[p], AfterSettle(local[p], ticket[p], outcome, now)}
    BY <1>4 DEF SettleShared, SettleLocal, SettleDegrades, TypeOK
  <2>3. /\ now' = now /\ high' = high /\ \A q \in Procs \ {p} : local'[q] = local[q]
    BY <1>4 DEF SettleShared, SettleLocal, SettleDegrades, Record, TypeOK
  <2> QED BY <1>1, <1>2, <2>1, <2>2, <2>3, HorizonKept
<1>5. ASSUME NEW p \in Procs, End(p) PROVE HorizonInv'
  <2>1. Horizon(ClosedRow(0), high, Longest)
    BY <1>1, HorizonKept
  <2> QED BY <1>1, <1>2, <1>5, <2>1 DEF End, TypeOK
<1>6. CASE ClockMoves
  <2>1. now' \in Nat /\ high' = Larger(high, now') /\ store' = store /\ local' = local
    BY <1>6, BreakerConstantsHold DEF ClockMoves, BreakerConstants
  <2>2. high' \in Nat /\ high <= high' /\ now' <= high'
    BY <1>1, <2>1 DEF Larger
  <2>3. store.row \in Rows /\ \A p \in Procs : local[p] \in Rows
    BY DEF TypeOK
  <2>4. Horizon(store.row, high', Longest) /\ \A p \in Procs : Horizon(local[p], high', Longest)
    BY <1>1, <2>2, <2>3, HorizonMoves
  <2> QED BY <2>1, <2>2, <2>4 DEF HorizonInv, Horizon
<1>7. CASE StoreLost
  <2>1. Horizon(ClosedRow(0), high, Longest)
    BY <1>1, RowConstantsHold, LongestIsLongest DEF Horizon, ClosedRow, RowConstants
  <2>2. store'.row = ClosedRow(0) /\ local' = local /\ now' = now /\ high' = high
    BY <1>7 DEF StoreLost, NoStore
  <2> QED BY <1>1, <2>1, <2>2 DEF HorizonInv, Horizon
<1>8. CASE UNCHANGED vars
  BY <1>8 DEF vars, HorizonInv, Horizon, Longest
<1> QED BY <1>3, <1>4, <1>5, <1>6, <1>7, <1>8 DEF Next

\* No header, crash, lost lease or clock correction cools an endpoint down for
\* good: past the clock's highest reading by the longest delay there is, every
\* circuit admits the next attempt (the caps in Row::settle, admit_in_store).
THEOREM CircuitsRecover == Spec => []CircuitNeverStuck
<1>1. Init => HorizonInv
  BY RowConstantsHold, LongestIsLongest
     DEF Init, NoStore, ClosedRow, HorizonInv, Horizon, RowConstants
<1>2. TypeOK /\ HorizonInv => CircuitNeverStuck
  <2> SUFFICES ASSUME TypeOK, NEW r \in Rows, Horizon(r, high, Longest)
               PROVE  Admits(r, high + Longest)
    BY DEF CircuitNeverStuck, HorizonInv, TypeOK
  <2>1. high \in Nat /\ r.retryUntil \in Nat /\ r.openUntil \in Nat /\ r.probeExpires \in Nat
    BY BreakerConstantsHold DEF TypeOK, Rows, BreakerConstants
  <2> QED
    BY <2>1, RowConstantsHold, LongestIsLongest
       DEF Horizon, Admits, Cooling, ProbeHeld, RowConstants
<1>3. Init => StoreInv
  BY DEF Init, StoreInv, NoStore, ClosedRow
<1> QED
  BY <1>1, <1>2, <1>3, TypeInit, TypeStep, StoreStep, HorizonStep, PTL DEF Spec
=============================================================================
