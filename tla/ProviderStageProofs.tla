------------------------ MODULE ProviderStageProofs ------------------------
(***************************************************************************)
(* Theorems about ProviderStage, for every set of invocations, models,     *)
(* usages and delays, every budget of attempts, every deadline and every   *)
(* limit of the allowance.                                                 *)
(*                                                                         *)
(* The inductive invariant says, of each invocation, what its coordinator  *)
(* holds at each place of the session (FlightOf) and counts (CostOf), that *)
(* its debits keep ahead of its attempts and these of its exchanges        *)
(* (PaidOf), what it has checked before its bytes leave (WarrantOf), and   *)
(* how its probe stands to the circuit's row, clocks included (ProbeOf).   *)
(***************************************************************************)
EXTENDS ProviderStage, BreakerRowProofs

\* The assumptions on the constants, gathered under one name that proofs cite.
StageConstants ==
  /\ NoModel \notin Models
  /\ Usages \subseteq Nat /\ Delays \subseteq Nat /\ Skews \subseteq Nat
  /\ Backoff \in Nat /\ Deadline \in Nat /\ Limit \in Nat /\ MaxTime \in Nat
  /\ MaxLogicalRequests \in Nat \ {0} /\ MaxHttpAttempts \in Nat \ {0}
  /\ MinAttemptReserve \in Nat /\ MaxUsage \in Nat

\* The constants of the stage and of its budget satisfy what is assumed of them.
LEMMA StageConstantsHold == StageConstants
BY StageAssumption, AttemptBudgetAssumption DEF StageConstants

-----------------------------------------------------------------------------
(* The coordinator's operations (AttemptAdmission)                         *)

\* A new coordinator has counted nothing (AttemptAdmission::new).
LEMMA NewCoordinatorType == NewCoordinator \in Coordinators
BY StageConstantsHold DEF NewCoordinator, Coordinators, StageConstants

\* An admission counts one attempt, stays within both ceilings, and leaves the
\* outcome counters alone (admit).
LEMMA AdmissionCounts ==
  ASSUME NEW a \in Coordinators, NEW stage \in Stages, NEW remaining,
         MayAdmit(a, stage, remaining)
  PROVE  LET b == AfterAdmission(a, stage)
         IN /\ b \in Coordinators
            /\ b.active = "admitted" /\ a.active = "none"
            /\ b.admitted = a.admitted + 1 /\ b.admitted <= MaxHttpAttempts
            /\ b.sent = a.sent /\ b.completed = a.completed
            /\ b.unknown = a.unknown /\ b.discarded = a.discarded
            /\ b.wideCompleted = a.wideCompleted
<1> DEFINE c1 == [a EXCEPT !.admitted = @ + 1]
           c2 == [c1 EXCEPT !.active = "admitted"]
           d1 == [c2 EXCEPT !.logical = @ + 1]
           d2 == [d1 EXCEPT !.stage = stage]
           d3 == [d2 EXCEPT !.stageCompleted = FALSE]
           Counted(b) ==
              /\ b \in Coordinators
              /\ b.admitted = a.admitted + 1
              /\ b.sent = a.sent /\ b.completed = a.completed
              /\ b.unknown = a.unknown /\ b.discarded = a.discarded
              /\ b.wideCompleted = a.wideCompleted
<1>1. /\ a.active = "none" /\ a.admitted \in Nat
      /\ a.admitted < MaxHttpAttempts
      /\ NewLogicalRequest(a, stage) => a.logical < MaxLogicalRequests
  BY DEF MayAdmit, Coordinators
<1>2. Counted(c1) /\ c1.logical = a.logical
  BY DEF Coordinators
<1>3. Counted(c2) /\ c2.logical = a.logical /\ c2.active = "admitted"
  <2> HIDE DEF c1
  <2> QED BY <1>2 DEF Coordinators
<1>4. CASE ~NewLogicalRequest(a, stage)
  <2>1. AfterAdmission(a, stage) = c2
    BY <1>4 DEF AfterAdmission
  <2> HIDE DEF c2
  <2> QED BY <1>1, <1>3, <2>1, StageConstantsHold DEF StageConstants
<1>5. CASE NewLogicalRequest(a, stage)
  <2>1. AfterAdmission(a, stage) = d3
    BY <1>5 DEF AfterAdmission
  <2>2. Counted(d1) /\ d1.active = "admitted"
    <3> HIDE DEF c2
    <3> QED BY <1>1, <1>3, <1>5, StageConstantsHold DEF Coordinators, StageConstants
  <2>3. Counted(d2) /\ d2.active = "admitted"
    <3> HIDE DEF d1
    <3> QED BY <2>2 DEF Coordinators, Stages
  <2>4. Counted(d3) /\ d3.active = "admitted"
    <3> HIDE DEF d2
    <3> QED BY <2>3 DEF Coordinators
  <2> HIDE DEF d3
  <2> QED BY <1>1, <2>1, <2>4, StageConstantsHold DEF StageConstants
<1> QED BY <1>4, <1>5

\* A permit that is consumed counts as sent (record_sent).
LEMMA SentCounts ==
  ASSUME NEW a \in Coordinators
  PROVE  LET b == AfterSent(a)
         IN /\ b \in Coordinators /\ b.active = "sent"
            /\ b.admitted = a.admitted /\ b.sent = a.sent + 1
            /\ b.completed = a.completed /\ b.unknown = a.unknown
            /\ b.discarded = a.discarded /\ b.wideCompleted = a.wideCompleted
<1> DEFINE c == [a EXCEPT !.sent = @ + 1]
<1>1. /\ c \in Coordinators /\ c.admitted = a.admitted /\ c.sent = a.sent + 1
      /\ c.completed = a.completed /\ c.unknown = a.unknown
      /\ c.discarded = a.discarded /\ c.wideCompleted = a.wideCompleted
  BY DEF Coordinators
<1>2. AfterSent(a) = [c EXCEPT !.active = "sent"]
  BY DEF AfterSent
<1> HIDE DEF c
<1> QED BY <1>1, <1>2 DEF Coordinators

\* A sent attempt without a response has unknown cost (record_terminal_failure).
LEMMA FailureCounts ==
  ASSUME NEW a \in Coordinators
  PROVE  LET b == AfterTerminalFailure(a)
         IN /\ b \in Coordinators /\ b.active = "none"
            /\ b.admitted = a.admitted /\ b.sent = a.sent
            /\ b.completed = a.completed /\ b.unknown = a.unknown + 1
            /\ b.discarded = a.discarded /\ b.wideCompleted = a.wideCompleted
<1> DEFINE c == [a EXCEPT !.unknown = @ + 1]
<1>1. /\ c \in Coordinators /\ c.admitted = a.admitted /\ c.sent = a.sent
      /\ c.completed = a.completed /\ c.unknown = a.unknown + 1
      /\ c.discarded = a.discarded /\ c.wideCompleted = a.wideCompleted
  BY DEF Coordinators
<1>2. AfterTerminalFailure(a) = [c EXCEPT !.active = "none"]
  BY DEF AfterTerminalFailure
<1> HIDE DEF c
<1> QED BY <1>1, <1>2 DEF Coordinators

\* An admitted attempt that was never sent is discarded (record_discard).
LEMMA DiscardCounts ==
  ASSUME NEW a \in Coordinators
  PROVE  LET b == AfterDiscard(a)
         IN /\ b \in Coordinators /\ b.active = "none"
            /\ b.admitted = a.admitted /\ b.sent = a.sent
            /\ b.completed = a.completed /\ b.unknown = a.unknown
            /\ b.discarded = a.discarded + 1 /\ b.wideCompleted = a.wideCompleted
<1> DEFINE c == [a EXCEPT !.discarded = @ + 1]
<1>1. /\ c \in Coordinators /\ c.admitted = a.admitted /\ c.sent = a.sent
      /\ c.completed = a.completed /\ c.unknown = a.unknown
      /\ c.discarded = a.discarded + 1 /\ c.wideCompleted = a.wideCompleted
  BY DEF Coordinators
<1>2. AfterDiscard(a) = [c EXCEPT !.active = "none"]
  BY DEF AfterDiscard
<1> HIDE DEF c
<1> QED BY <1>1, <1>2 DEF Coordinators

\* A flight that finishes without a response moves its attempt to exactly one
\* outcome counter, and does nothing when there is none (AttemptFlight::finish).
LEMMA FlightCounts ==
  ASSUME NEW a \in Coordinators
  PROVE  LET b == AfterFlight(a)
         IN /\ b \in Coordinators /\ b.active = "none"
            /\ b.admitted = a.admitted /\ b.sent = a.sent
            /\ b.completed = a.completed
            /\ b.unknown = a.unknown + (IF a.active = "sent" THEN 1 ELSE 0)
            /\ b.discarded = a.discarded + (IF a.active = "admitted" THEN 1 ELSE 0)
            /\ b.wideCompleted = a.wideCompleted
<1>1. CASE a.active = "sent"
  BY <1>1, FailureCounts DEF AfterFlight, Coordinators
<1>2. CASE a.active = "admitted"
  BY <1>2, DiscardCounts DEF AfterFlight, Coordinators
<1>3. CASE a.active = "none"
  BY <1>3 DEF AfterFlight, Coordinators
<1> QED BY <1>1, <1>2, <1>3 DEF Coordinators

\* A response moves its attempt to completed or, when its usage does not fit,
\* to unknown; known usage stays within the counter (record_response).
LEMMA ResponseCounts ==
  ASSUME NEW a \in Coordinators, NEW stage \in Stages, NEW usage \in Nat
  PROVE  LET b == AfterResponse(a, stage, usage)
         IN /\ b \in Coordinators /\ b.active = "none"
            /\ b.admitted = a.admitted /\ b.sent = a.sent
            /\ b.completed + b.unknown = a.completed + a.unknown + 1
            /\ b.discarded = a.discarded
<1> DEFINE c1 == [a EXCEPT !.completed = @ + 1]
           c2 == [c1 EXCEPT !.usage = @ + usage]
           c3 == [c2 EXCEPT !.wideCompleted = @ \/ stage = "wide"]
           c4 == [c3 EXCEPT !.stageCompleted = TRUE]
           c5 == [c4 EXCEPT !.active = "none"]
           Completed(b) ==
             /\ b \in Coordinators
             /\ b.admitted = a.admitted /\ b.sent = a.sent
             /\ b.completed = a.completed + 1 /\ b.unknown = a.unknown
             /\ b.discarded = a.discarded
<1>1. CASE ~UsageFits(a, usage)
  BY <1>1, FailureCounts DEF AfterResponse, Coordinators
<1>2. CASE UsageFits(a, usage)
  <2>1. Completed(c1) /\ c1.usage = a.usage
    BY DEF Coordinators
  <2>2. Completed(c2)
    <3>1. a.usage + usage \in 0 .. MaxUsage
      BY <1>2, StageConstantsHold DEF UsageFits, Coordinators, StageConstants
    <3> HIDE DEF c1
    <3> QED BY <2>1, <3>1 DEF Coordinators
  <2>3. Completed(c3)
    <3> HIDE DEF c2
    <3> QED BY <2>2 DEF Coordinators
  <2>4. Completed(c4)
    <3> HIDE DEF c3
    <3> QED BY <2>3 DEF Coordinators
  <2>5. Completed(c5) /\ c5.active = "none"
    <3> HIDE DEF c4
    <3> QED BY <2>4 DEF Coordinators
  <2>6. AfterResponse(a, stage, usage) = c5
    BY <1>2 DEF AfterResponse
  <2> HIDE DEF c5
  <2> QED BY <2>5, <2>6 DEF Coordinators
<1> QED BY <1>1, <1>2

-----------------------------------------------------------------------------
(* The inductive invariant                                                 *)

\* The attempt that a place of the session stands for is the coordinator's.
FlightOf(p) ==
  adm[p].active = CASE pc[p] = "local" -> "admitted"
                    [] pc[p] \in {"started", "wire"} -> "sent"
                    [] OTHER -> "none"

\* The receipt adds up.
CostOf(p) ==
  /\ adm[p].admitted = adm[p].completed + adm[p].unknown + adm[p].discarded
                         + (IF adm[p].active = "none" THEN 0 ELSE 1)
  /\ adm[p].sent = adm[p].completed + adm[p].unknown
                     + (IF adm[p].active = "sent" THEN 1 ELSE 0)
  /\ adm[p].admitted <= MaxHttpAttempts

Stopped == {"done", "failed", "killed"}

\* While an invocation works, each admitted attempt has its debit, and each
\* exchange that the receipt does not name yet is the one on the wire.
PaidOf(p) ==
  pc[p] \notin Stopped =>
    /\ debits[p] = adm[p].admitted + (IF pc[p] = "permit" THEN 1 ELSE 0)
    /\ wires[p] <= adm[p].completed + adm[p].unknown
                     + (IF pc[p] = "wire" THEN 1 ELSE 0)

ReceiptInv == \A p \in Procs : FlightOf(p) /\ CostOf(p) /\ PaidOf(p)

\* From the policy check on, policy was seen to grant since the top of the attempt.
WarrantOf(p) ==
  /\ pc[p] = "policy" /\ granted => top[p]
  /\ pc[p] \in {"breaker", "debit", "permit", "local", "started", "wire"} => top[p]

WarrantInv == \A p \in Procs : WarrantOf(p)

\* How an invocation's ticket and probe stand to the row.  Unless the wall clock was
\* set since it was admitted: while the row names it, the stored lease ends with its
\* deadline at the latest, or is over; and while it may still send its probe of the
\* present opening, the row names it and the stored lease is its deadline.
ProbeOf(p) ==
  /\ ticket[p].probe \in {p, NoProc}
  /\ ticket[p].held => pc[p] # "idle" /\ ticket[p].generation <= row.generation
  /\ row.probe = p => pc[p] # "idle"
  /\ row.probe = p /\ ~stepped[p] =>
       row.probeExpires <= end[p] + skew \/ row.probeExpires <= Wall
  /\ Probing(p) /\ ~stepped[p] /\ ticket[p].generation = row.generation =>
       row.open /\ row.probe = p /\ row.probeExpires = end[p] + skew

\* Two probes at once belong to different openings, unless the clock was set.
Rivals(p, q) ==
  Probing(p) /\ Probing(q) /\ ticket[p].generation = ticket[q].generation =>
    p = q \/ stepped[p] \/ stepped[q]

\* A closed circuit has no probe.
ProbeInv ==
  /\ ~row.open => row.probe = NoProc
  /\ \A p \in Procs : ProbeOf(p)
  /\ \A p, q \in Procs : Rivals(p, q)

-----------------------------------------------------------------------------
(* Type correctness                                                        *)

\* What is left of an invocation's time is a time (EntryClock::admit_new_work).
LEMMA RemainingType ==
  ASSUME TypeOK, NEW p \in Procs
  PROVE  /\ now \in Nat /\ skew \in Nat /\ Wall \in Nat /\ Wall = now + skew
         /\ end[p] \in Nat /\ Remaining(p) \in Nat
         /\ now + Remaining(p) = end[p] \/ now + Remaining(p) = now
BY StageConstantsHold DEF TypeOK, Remaining, Wall, StageConstants

\* A settlement of the stage's own ticket follows the row it settles.
LEMMA RowSettles ==
  ASSUME TypeOK, NEW p \in Procs, NEW delay \in Delays \cup {NoDelay},
         NEW kind \in {"success", "neutral", "transient"}, SettleRow(p, kind, delay)
  PROVE  row' \in Rows /\ Follows(row', row, Wall)
<1>1. [kind |-> kind, delay |-> delay] \in Outcome
  BY StageConstantsHold DEF Outcome, StageConstants
<1>2. row \in Rows /\ Wall \in Nat
  BY RemainingType DEF TypeOK
<1> QED BY <1>1, <1>2, SettleType, SettleFollows DEF SettleRow

\* A delay that the circuit is told of is one that parsed, or none.
LEMMA StoredDelayType ==
  ASSUME NEW delay \in Delays \cup {NoDelay, InvalidDelay}
  PROVE  StoredDelay(delay) \in Delays \cup {NoDelay}
BY DEF StoredDelay

\* Giving back the ticket keeps the tickets well-typed.
LEMMA UnticketedType ==
  ASSUME TypeOK, NEW p \in Procs, Unticketed(p)
  PROVE  ticket' \in [Procs -> [held : BOOLEAN, generation : Nat,
                               probe : Procs \cup {NoProc}]]
BY DEF TypeOK, Unticketed, NoTicket

\* The initial state is well-typed.
LEMMA TypeInit == Init => TypeOK
BY ClosedRowType, NewCoordinatorType, StageConstantsHold
   DEF Init, TypeOK, NoTicket, Running, Ended, StageConstants

\* The steps before an attempt is admitted keep the state well-typed.
LEMMA TypePrepare ==
  ASSUME TypeOK, NEW p \in Procs,
         \/ Begin(p) \/ BeginRerank(p) \/ CheckWork(p) \/ AuthorizePolicy(p)
         \/ AdmitCircuit(p) \/ DebitAllowance(p) \/ RefuseDebit(p)
  PROVE  TypeOK'
<1> USE DEF TypeOK, Goto, Running, Ended, shared
<1>1. CASE Begin(p)
  BY <1>1, StageConstantsHold DEF Begin, StageConstants
<1>2. CASE BeginRerank(p)
  BY <1>2 DEF BeginRerank
<1>3. CASE CheckWork(p)
  BY <1>3 DEF CheckWork
<1>4. CASE AuthorizePolicy(p)
  BY <1>4 DEF AuthorizePolicy
<1>5. CASE AdmitCircuit(p)
  <2>1. row' \in Rows
    BY <1>5, RemainingType, AdmitType DEF AdmitCircuit, LeaseFor
  <2>2. TicketOf(row, p) \in Tickets /\ row.generation \in Nat
    BY TicketType DEF Rows
  <2>3. [held |-> TRUE, generation |-> row.generation, probe |-> TicketOf(row, p).probe]
          \in [held : BOOLEAN, generation : Nat, probe : Procs \cup {NoProc}]
    BY <2>2 DEF Tickets
  <2> QED BY <1>5, <2>1, <2>3 DEF AdmitCircuit
<1>6. CASE DebitAllowance(p)
  BY <1>6, StageConstantsHold DEF DebitAllowance, StageConstants
<1>7. CASE RefuseDebit(p)
  <2>1. row' \in Rows
    BY <1>7, RowSettles DEF RefuseDebit
  <2>2. ticket' \in [Procs -> [held : BOOLEAN, generation : Nat,
                              probe : Procs \cup {NoProc}]]
    BY <1>7, UnticketedType DEF RefuseDebit
  <2>3. charged' \in 0 .. Limit /\ debits' \in [Procs -> Nat]
    BY <1>7, StageConstantsHold DEF RefuseDebit, StageConstants
  <2> QED BY <1>7, <2>1, <2>2, <2>3 DEF RefuseDebit
<1> QED BY <1>1, <1>2, <1>3, <1>4, <1>5, <1>6, <1>7

\* The steps of an attempt and of its end keep the state well-typed.
LEMMA TypeAttempt ==
  ASSUME TypeOK, NEW p \in Procs,
         \/ AdmitAttempt(p) \/ Refuse(p) \/ StartExchange(p) \/ Transmit(p)
         \/ WakeUp(p) \/ GiveUp(p) \/ DropFuture(p) \/ Kill(p)
         \/ \E delay \in Delays \cup {NoDelay, InvalidDelay} : FailTransiently(p, delay)
         \/ \E model \in Models, usage \in Usages : Respond(p, model, usage)
  PROVE  TypeOK'
<1> USE DEF TypeOK, Goto, Running, Ended, shared
<1>1. CASE AdmitAttempt(p)
  <2>1. Stage(p) \in Stages
    BY DEF Stage, Stages
  <2>2. AfterAdmission(adm[p], Stage(p)) \in Coordinators
    BY <1>1, <2>1, AdmissionCounts DEF AdmitAttempt
  <2> QED BY <1>1, <2>2 DEF AdmitAttempt
<1>2. CASE Refuse(p)
  BY <1>2, UnticketedType DEF Refuse
<1>3. CASE StartExchange(p)
  <2>1. AfterSent(adm[p]) \in Coordinators
    BY SentCounts
  <2> QED BY <1>3, <2>1 DEF StartExchange
<1>4. CASE Transmit(p)
  BY <1>4 DEF Transmit
<1>5. CASE WakeUp(p)
  BY <1>5 DEF WakeUp
<1>6. AfterFlight(adm[p]) \in Coordinators
  BY FlightCounts
<1>7. CASE GiveUp(p)
  <2>1. row' \in Rows
    BY <1>7, RowSettles DEF GiveUp
  <2> QED BY <1>6, <1>7, <2>1, UnticketedType DEF GiveUp
<1>8. CASE DropFuture(p)
  BY <1>6, <1>8, UnticketedType DEF DropFuture
<1>9. CASE Kill(p)
  BY <1>9, UnticketedType, NewCoordinatorType DEF Kill
<1>10. ASSUME NEW delay \in Delays \cup {NoDelay, InvalidDelay}, FailTransiently(p, delay)
       PROVE  TypeOK'
  <2>1. row' \in Rows
    BY <1>10, RowSettles, StoredDelayType DEF FailTransiently
  <2>2. delay # InvalidDelay => RetryDelay(delay) \in Nat
    BY <1>10, StageConstantsHold DEF RetryDelay, Larger, StageConstants
  <2>3. delay # InvalidDelay => now + RetryDelay(delay) \in Nat
    BY <2>2, RemainingType
  <2>4. wake' \in [Procs -> Nat]
    BY <1>10, <2>3 DEF FailTransiently, RetryFits
  <2>5. pc' \in [Procs -> {"idle"} \cup Running \cup Ended]
    BY <1>10 DEF FailTransiently
  <2>6. adm' \in [Procs -> Coordinators]
    BY <1>6, <1>10 DEF FailTransiently
  <2> QED BY <1>10, <2>1, <2>4, <2>5, <2>6, UnticketedType DEF FailTransiently
<1>11. ASSUME NEW model \in Models, NEW usage \in Usages, Respond(p, model, usage)
       PROVE  TypeOK'
  <2>1. row' \in Rows
    BY <1>11, RowSettles DEF Respond
  <2>2. AfterResponse(adm[p], Stage(p), usage) \in Coordinators
    BY <1>11, ResponseCounts, StageConstantsHold DEF Stage, Stages, StageConstants
  <2>3. adm' \in [Procs -> Coordinators]
    BY <1>11, <2>2 DEF Respond
  <2>4. wide' \in [Procs -> Models \cup {NoModel}]
    BY <1>11 DEF Respond
  <2>5. pc' \in [Procs -> {"idle"} \cup Running \cup Ended]
    BY <1>11 DEF Respond
  <2> QED BY <1>11, <2>1, <2>3, <2>4, <2>5, UnticketedType DEF Respond
<1> QED BY <1>1, <1>2, <1>3, <1>4, <1>5, <1>7, <1>8, <1>9, <1>10, <1>11

\* What an invocation may do, with the two ends that a place of the session may
\* meet (its own failure and the deadline) as the one they share.
Step(p) ==
  \/ Begin(p) \/ BeginRerank(p) \/ CheckWork(p) \/ AuthorizePolicy(p)
  \/ AdmitCircuit(p) \/ DebitAllowance(p) \/ RefuseDebit(p)
  \/ AdmitAttempt(p) \/ Refuse(p) \/ StartExchange(p) \/ Transmit(p)
  \/ WakeUp(p) \/ (pc[p] \in Watched /\ GiveUp(p)) \/ DropFuture(p) \/ Kill(p)
  \/ \E delay \in Delays \cup {NoDelay, InvalidDelay} : FailTransiently(p, delay)
  \/ \E model \in Models, usage \in Usages : Respond(p, model, usage)

\* Every step is one invocation's, a change of policy or the clock's.
LEMMA NextIsStep ==
  ASSUME Next
  PROVE  (\E p \in Procs : Step(p)) \/ ChangePolicy \/ SetClock \/ Tick
BY DEF Next, Proceed, Meet, Step, FailAttempt, TimeOut

\* Every step keeps the state well-typed.
LEMMA TypeStep ==
  ASSUME TypeOK, [Next]_vars
  PROVE  TypeOK'
<1>1. ASSUME NEW p \in Procs, Step(p) PROVE TypeOK'
  BY <1>1, TypePrepare, TypeAttempt DEF Step
<1>2. CASE ChangePolicy
  BY <1>2 DEF TypeOK, ChangePolicy
<1>3. CASE Tick
  BY <1>3, StageConstantsHold DEF TypeOK, Tick, StageConstants
<1>4. CASE SetClock
  BY <1>4 DEF TypeOK, SetClock
<1>5. CASE UNCHANGED vars
  BY <1>5 DEF TypeOK, vars
<1> QED BY <1>1, <1>2, <1>3, <1>4, <1>5, NextIsStep

\* In every reachable state each variable has its type: a row that transact reads
\* back, known usage within its counter, debits within the allowance.
THEOREM TypeCorrect == Spec => []TypeOK
BY TypeInit, TypeStep, PTL DEF Spec

-----------------------------------------------------------------------------
(* The steps of one invocation                                             *)

\* An invocation's step leaves the clocks, trusted policy and the other
\* invocations alone.
LEMMA OthersKeep ==
  ASSUME TypeOK, NEW p \in Procs, Step(p)
  PROVE  /\ now' = now /\ skew' = skew /\ granted' = granted
         /\ \A q \in Procs \ {p} :
              /\ pc'[q] = pc[q] /\ end'[q] = end[q] /\ adm'[q] = adm[q]
              /\ ticket'[q] = ticket[q] /\ top'[q] = top[q]
              /\ stepped'[q] = stepped[q]
              /\ debits'[q] = debits[q] /\ wires'[q] = wires[q]
<1> USE DEF TypeOK, Goto, shared, Unticketed
<1>1. CASE Begin(p) \/ BeginRerank(p)
  BY <1>1 DEF Begin, BeginRerank
<1>2. CASE CheckWork(p) \/ AuthorizePolicy(p) \/ AdmitCircuit(p)
  BY <1>2 DEF CheckWork, AuthorizePolicy, AdmitCircuit
<1>3. CASE DebitAllowance(p)
  BY <1>3 DEF DebitAllowance
<1>4. CASE RefuseDebit(p)
  BY <1>4 DEF RefuseDebit
<1>5. CASE AdmitAttempt(p) \/ Refuse(p)
  BY <1>5 DEF AdmitAttempt, Refuse
<1>6. CASE StartExchange(p) \/ Transmit(p) \/ WakeUp(p)
  BY <1>6 DEF StartExchange, Transmit, WakeUp
<1>7. CASE GiveUp(p)
  BY <1>7 DEF GiveUp
<1>8. CASE DropFuture(p) \/ Kill(p)
  BY <1>8 DEF DropFuture, Kill
<1>9. ASSUME NEW delay \in Delays \cup {NoDelay, InvalidDelay}, FailTransiently(p, delay)
      PROVE  /\ now' = now /\ skew' = skew /\ granted' = granted
             /\ \A q \in Procs \ {p} :
                  /\ pc'[q] = pc[q] /\ end'[q] = end[q] /\ adm'[q] = adm[q]
                  /\ ticket'[q] = ticket[q] /\ top'[q] = top[q]
                  /\ stepped'[q] = stepped[q]
                  /\ debits'[q] = debits[q] /\ wires'[q] = wires[q]
  BY <1>9 DEF FailTransiently
<1>10. ASSUME NEW model \in Models, NEW usage \in Usages, Respond(p, model, usage)
       PROVE  /\ now' = now /\ skew' = skew /\ granted' = granted
              /\ \A q \in Procs \ {p} :
                   /\ pc'[q] = pc[q] /\ end'[q] = end[q] /\ adm'[q] = adm[q]
                   /\ ticket'[q] = ticket[q] /\ top'[q] = top[q]
                   /\ stepped'[q] = stepped[q]
                   /\ debits'[q] = debits[q] /\ wires'[q] = wires[q]
  BY <1>10 DEF Respond
<1> QED BY <1>1, <1>2, <1>3, <1>4, <1>5, <1>6, <1>7, <1>8, <1>9, <1>10 DEF Step

-----------------------------------------------------------------------------
(* The receipt                                                             *)

\* The counters of a coordinator are natural numbers.
LEMMA CountersType ==
  ASSUME TypeOK, NEW p \in Procs
  PROVE  /\ adm[p] \in Coordinators
         /\ adm[p].admitted \in Nat /\ adm[p].sent \in Nat
         /\ adm[p].completed \in Nat /\ adm[p].unknown \in Nat
         /\ adm[p].discarded \in Nat /\ MaxHttpAttempts \in Nat
         /\ adm[p].active \in {"none", "admitted", "sent"}
         /\ debits[p] \in Nat /\ wires[p] \in Nat
BY StageConstantsHold DEF TypeOK, Coordinators, StageConstants

\* Before an attempt is admitted there is none; the debit is made just before.
LEMMA ReceiptPrepare ==
  ASSUME TypeOK, NEW p \in Procs, FlightOf(p), CostOf(p), PaidOf(p),
         \/ Begin(p) \/ BeginRerank(p) \/ CheckWork(p) \/ AuthorizePolicy(p)
         \/ AdmitCircuit(p) \/ DebitAllowance(p) \/ RefuseDebit(p)
         \/ Refuse(p) \/ WakeUp(p)
  PROVE  FlightOf(p)' /\ CostOf(p)' /\ PaidOf(p)'
<1> USE DEF TypeOK, Goto, shared, FlightOf, CostOf, PaidOf, Stopped
<1>1. CASE Begin(p) \/ BeginRerank(p)
  BY <1>1 DEF Begin, BeginRerank
<1>2. CASE CheckWork(p) \/ AuthorizePolicy(p)
  BY <1>2 DEF CheckWork, AuthorizePolicy
<1>3. CASE AdmitCircuit(p)
  BY <1>3 DEF AdmitCircuit
<1>4. CASE DebitAllowance(p)
  BY <1>4, CountersType DEF DebitAllowance
<1>5. CASE RefuseDebit(p)
  BY <1>5 DEF RefuseDebit
<1>6. CASE Refuse(p)
  BY <1>6 DEF Refuse
<1>7. CASE WakeUp(p)
  BY <1>7 DEF WakeUp
<1> QED BY <1>1, <1>2, <1>3, <1>4, <1>5, <1>6, <1>7

\* An attempt moves through the coordinator as it moves through the session,
\* and every end of it, however abrupt, leaves it in one outcome counter.
LEMMA ReceiptAttempt ==
  ASSUME TypeOK, NEW p \in Procs, FlightOf(p), CostOf(p), PaidOf(p),
         \/ AdmitAttempt(p) \/ StartExchange(p) \/ Transmit(p)
         \/ (pc[p] \in Watched /\ GiveUp(p)) \/ DropFuture(p) \/ Kill(p)
         \/ \E delay \in Delays \cup {NoDelay, InvalidDelay} : FailTransiently(p, delay)
         \/ \E model \in Models, usage \in Usages : Respond(p, model, usage)
  PROVE  FlightOf(p)' /\ CostOf(p)' /\ PaidOf(p)'
<1> USE DEF FlightOf, CostOf, PaidOf, Stopped
<1>1. CASE AdmitAttempt(p)
  <2> DEFINE b == AfterAdmission(adm[p], Stage(p))
  <2>1. /\ b.active = "admitted" /\ adm[p].active = "none"
        /\ b.admitted = adm[p].admitted + 1 /\ b.admitted <= MaxHttpAttempts
        /\ b.sent = adm[p].sent /\ b.completed = adm[p].completed
        /\ b.unknown = adm[p].unknown /\ b.discarded = adm[p].discarded
    <3>1. Stage(p) \in Stages
      BY DEF Stage, Stages
    <3> QED BY <1>1, <3>1, AdmissionCounts, CountersType DEF AdmitAttempt
  <2> HIDE DEF b
  <2>2. /\ adm'[p] = b /\ pc[p] = "permit" /\ pc'[p] = "local"
        /\ debits'[p] = debits[p] /\ wires'[p] = wires[p]
    BY <1>1 DEF AdmitAttempt, Goto, TypeOK, b
  <2> QED BY <2>1, <2>2, CountersType
<1>2. CASE StartExchange(p)
  <2> DEFINE b == AfterSent(adm[p])
  <2>1. /\ b.active = "sent"
        /\ b.admitted = adm[p].admitted /\ b.sent = adm[p].sent + 1
        /\ b.completed = adm[p].completed /\ b.unknown = adm[p].unknown
        /\ b.discarded = adm[p].discarded
    BY SentCounts, CountersType
  <2> HIDE DEF b
  <2>2. /\ adm'[p] = b /\ pc[p] = "local" /\ pc'[p] = "started"
        /\ debits'[p] = debits[p] /\ wires'[p] = wires[p]
    BY <1>2 DEF StartExchange, Goto, TypeOK, b
  <2> QED BY <2>1, <2>2, CountersType
<1>3. CASE Transmit(p)
  <2>1. /\ adm'[p] = adm[p] /\ pc[p] = "started" /\ pc'[p] = "wire"
        /\ debits'[p] = debits[p] /\ wires'[p] = wires[p] + 1
    BY <1>3 DEF Transmit, Goto, TypeOK
  <2> QED BY <2>1, CountersType
<1>4. ASSUME adm'[p] = AfterFlight(adm[p]), pc[p] \in Watched,
             pc'[p] \in {"failed", "backoff"}, wires'[p] = wires[p],
             debits'[p] = debits[p]
      PROVE  FlightOf(p)' /\ CostOf(p)' /\ PaidOf(p)'
  <2> DEFINE b == AfterFlight(adm[p])
  <2>1. /\ b.active = "none"
        /\ b.admitted = adm[p].admitted /\ b.sent = adm[p].sent
        /\ b.completed = adm[p].completed
        /\ b.unknown = adm[p].unknown + (IF adm[p].active = "sent" THEN 1 ELSE 0)
        /\ b.discarded = adm[p].discarded
                           + (IF adm[p].active = "admitted" THEN 1 ELSE 0)
    BY FlightCounts, CountersType
  <2> HIDE DEF b
  <2>2. adm'[p] = b
    BY <1>4 DEF b
  <2> QED BY <1>4, <2>1, <2>2, CountersType DEF Watched
<1>5. CASE pc[p] \in Watched /\ GiveUp(p)
  BY <1>4, <1>5 DEF GiveUp, TypeOK
<1>6. CASE DropFuture(p)
  BY <1>4, <1>6 DEF DropFuture, TypeOK, Watched
<1>7. CASE Kill(p)
  <2>1. adm'[p] = NewCoordinator /\ pc'[p] = "killed"
    BY <1>7 DEF Kill, TypeOK
  <2> QED BY <2>1, CountersType DEF NewCoordinator
<1>8. ASSUME NEW delay \in Delays \cup {NoDelay, InvalidDelay}, FailTransiently(p, delay)
      PROVE  FlightOf(p)' /\ CostOf(p)' /\ PaidOf(p)'
  BY <1>4, <1>8 DEF FailTransiently, TypeOK, Watched
<1>9. ASSUME NEW model \in Models, NEW usage \in Usages, Respond(p, model, usage)
      PROVE  FlightOf(p)' /\ CostOf(p)' /\ PaidOf(p)'
  <2> DEFINE b == AfterResponse(adm[p], Stage(p), usage)
  <2>1. /\ b \in Coordinators /\ b.active = "none"
        /\ b.admitted = adm[p].admitted /\ b.sent = adm[p].sent
        /\ b.completed + b.unknown = adm[p].completed + adm[p].unknown + 1
        /\ b.discarded = adm[p].discarded
    <3>1. Stage(p) \in Stages
      BY DEF Stage, Stages
    <3>2. usage \in Nat /\ adm[p] \in Coordinators
      BY CountersType, StageConstantsHold DEF StageConstants
    <3> QED BY <3>1, <3>2, ResponseCounts
  <2>2. b.completed \in Nat /\ b.unknown \in Nat
    <3> HIDE DEF b
    <3> QED BY <2>1 DEF Coordinators
  <2>3. /\ adm'[p] = b /\ pc[p] = "wire" /\ pc'[p] \in {"failed", "wideDone", "done"}
        /\ debits'[p] = debits[p] /\ wires'[p] = wires[p]
    BY <1>9 DEF Respond, TypeOK
  <2> HIDE DEF b
  <2> QED BY <2>1, <2>2, <2>3, CountersType
<1> QED BY <1>1, <1>2, <1>3, <1>5, <1>6, <1>7, <1>8, <1>9

\* The receipt's invariant holds at first.
LEMMA ReceiptInit == Init => ReceiptInv
<1> SUFFICES ASSUME Init, NEW p \in Procs PROVE FlightOf(p) /\ CostOf(p) /\ PaidOf(p)
  BY DEF ReceiptInv
<1>1. /\ adm[p] = NewCoordinator /\ pc[p] = "idle" /\ debits[p] = 0 /\ wires[p] = 0
  BY DEF Init
<1> QED
  BY <1>1, StageConstantsHold
     DEF FlightOf, CostOf, PaidOf, NewCoordinator, StageConstants

\* Every step keeps it: of the invocation that steps by what it does, of the
\* others because it leaves them alone.
LEMMA ReceiptStep ==
  ASSUME TypeOK, ReceiptInv, [Next]_vars
  PROVE  ReceiptInv'
<1>1. ASSUME NEW p \in Procs, Step(p) PROVE ReceiptInv'
  <2> SUFFICES ASSUME NEW q \in Procs PROVE FlightOf(q)' /\ CostOf(q)' /\ PaidOf(q)'
    BY DEF ReceiptInv
  <2>1. FlightOf(q) /\ CostOf(q) /\ PaidOf(q)
    BY DEF ReceiptInv
  <2>2. CASE q = p
    BY <1>1, <2>1, <2>2, ReceiptPrepare, ReceiptAttempt DEF Step
  <2>3. CASE q # p
    BY <1>1, <2>1, <2>3, OthersKeep DEF FlightOf, CostOf, PaidOf
  <2> QED BY <2>2, <2>3
<1>2. CASE ChangePolicy \/ SetClock \/ Tick \/ UNCHANGED vars
  BY <1>2 DEF ChangePolicy, SetClock, Tick, vars, ReceiptInv, FlightOf, CostOf, PaidOf
<1> QED BY <1>1, <1>2, NextIsStep

\* The receipt never loses an attempt: through retries, refusals, dropped futures
\* and overflowing usage its counters add up, and none is open at a stop
\* (AttemptFlight and its Drop, record_response).
THEOREM ReceiptAccounts == Spec => []CostAccounted
<1>1. TypeOK /\ ReceiptInv => CostAccounted
  BY DEF ReceiptInv, FlightOf, CostOf, CostAccounted
<1> QED
  BY <1>1, TypeInit, TypeStep, ReceiptInit, ReceiptStep, PTL DEF Spec

-----------------------------------------------------------------------------
(* The stages implement Metered                                            *)

\* What the abstract specification sees of a receipt and of an invocation.
Billed == [p \in Procs |-> adm[p].completed + adm[p].unknown]
Status == [p \in Procs |-> StatusOf(p)]

\* A step of one invocation changes the view of that invocation only.
LEMMA ViewOfStep ==
  ASSUME TypeOK, NEW p \in Procs, Step(p)
  PROVE  /\ Billed' = [Billed EXCEPT ![p] = adm'[p].completed + adm'[p].unknown]
         /\ Status' = [Status EXCEPT ![p] = StatusOf(p)']
BY OthersKeep DEF Billed, Status, StatusOf

\* The facts about one invocation that the steps of the abstract specification
\* ask for: what the receipt does not name yet is on the wire.
LEMMA ViewOfState ==
  ASSUME TypeOK, ReceiptInv, NEW p \in Procs, pc[p] \notin Stopped
  PROVE  /\ Billed[p] = adm[p].completed + adm[p].unknown /\ Billed[p] \in Nat
         /\ Status[p] = "working"
         /\ pc[p] # "wire" => wires[p] <= Billed[p]
         /\ pc[p] \in {"started", "wire"} =>
              /\ Billed[p] < debits[p] /\ wires[p] <= debits[p]
         /\ pc[p] = "started" => wires[p] < debits[p] /\ wires[p] < MaxHttpAttempts
<1>1. /\ Billed[p] = adm[p].completed + adm[p].unknown /\ Status[p] = "working"
  BY DEF Billed, Status, StatusOf, Stopped
<1>2. FlightOf(p) /\ CostOf(p) /\ PaidOf(p)
  BY DEF ReceiptInv
<1> QED BY <1>1, <1>2, CountersType DEF FlightOf, CostOf, PaidOf

\* A step that touches neither debits nor wires, and whose receipt names as much
\* as before, is invisible; it may also be a stop.
LEMMA StutterOrStop ==
  ASSUME TypeOK, ReceiptInv, NEW p \in Procs, Step(p), pc[p] \notin Stopped,
         charged' = charged, debits' = debits, wires' = wires,
         adm'[p].completed + adm'[p].unknown = adm[p].completed + adm[p].unknown,
         pc'[p] \in Stopped => pc[p] # "wire" /\ pc'[p] # "killed"
  PROVE  Meter!Stop(p) \/ UNCHANGED Meter!meteredVars
<1>1. Billed' = Billed
  BY ViewOfStep, ViewOfState DEF Billed
<1>2. CASE pc'[p] \notin Stopped
  <2>1. StatusOf(p)' = "working" /\ Status[p] = "working"
    BY <1>2, ViewOfState DEF StatusOf, Stopped
  <2>2. Status' = Status
    BY <2>1, ViewOfStep DEF Status
  <2> QED BY <1>1, <2>2 DEF Meter!meteredVars, Billed, Status
<1>3. CASE pc'[p] \in Stopped
  <2>1. StatusOf(p)' = "stopped" /\ Status[p] = "working" /\ wires[p] <= Billed[p]
    BY <1>3, ViewOfState DEF StatusOf, Stopped
  <2>2. Status' = [Status EXCEPT ![p] = "stopped"]
    BY <2>1, ViewOfStep
  <2> QED BY <1>1, <2>1, <2>2 DEF Meter!Stop, Meter!Settled, Billed, Status
<1> QED BY <1>2, <1>3

\* A step that ends the exchange of a started attempt names it on the receipt.
LEMMA BillStep ==
  ASSUME TypeOK, ReceiptInv, NEW p \in Procs, Step(p),
         pc[p] \in {"started", "wire"},
         charged' = charged, debits' = debits, wires' = wires,
         adm'[p].completed + adm'[p].unknown = adm[p].completed + adm[p].unknown + 1,
         pc'[p] # "killed"
  PROVE  Meter!Bill(p)
<1>1. /\ Billed[p] = adm[p].completed + adm[p].unknown /\ Status[p] = "working"
      /\ Billed[p] < debits[p]
  BY ViewOfState DEF Stopped
<1>2. Billed' = [Billed EXCEPT ![p] = @ + 1]
  BY <1>1, ViewOfStep DEF Billed
<1>3. StatusOf(p)' \in {"working", "stopped"}
  BY DEF StatusOf
<1>4. Status' = [Status EXCEPT ![p] = StatusOf(p)']
  BY ViewOfStep
<1> QED BY <1>1, <1>2, <1>3, <1>4 DEF Meter!Bill, Billed, Status

\* The initial state is one of the abstract specification's.
LEMMA MeterInit == Init => Meter!MeteredInit
BY DEF Init, Meter!MeteredInit, NewCoordinator, StatusOf

\* The steps before an exchange: a debit is a payment, a transmission puts one
\* request on the wire, a refusal is a stop, and the rest is invisible.
LEMMA MeterPrepare ==
  ASSUME TypeOK, ReceiptInv, NEW p \in Procs, Step(p),
         \/ Begin(p) \/ BeginRerank(p) \/ CheckWork(p) \/ AuthorizePolicy(p)
         \/ AdmitCircuit(p) \/ DebitAllowance(p) \/ RefuseDebit(p)
         \/ AdmitAttempt(p) \/ Refuse(p) \/ StartExchange(p) \/ Transmit(p)
         \/ WakeUp(p)
  PROVE  [Meter!MeteredNext]_(Meter!meteredVars)
<1> USE DEF Stopped
<1> SUFFICES \/ Meter!Pay(p) \/ Meter!Emit(p) \/ Meter!Stop(p)
             \/ UNCHANGED Meter!meteredVars
  BY DEF Meter!MeteredNext
<1>1. CASE Begin(p) \/ BeginRerank(p)
  BY <1>1, StutterOrStop DEF Begin, BeginRerank, Goto, TypeOK, shared
<1>2. CASE CheckWork(p) \/ AuthorizePolicy(p) \/ WakeUp(p)
  BY <1>2, StutterOrStop DEF CheckWork, AuthorizePolicy, WakeUp, Goto, TypeOK, shared
<1>3. CASE AdmitCircuit(p)
  BY <1>3, StutterOrStop DEF AdmitCircuit, Goto, TypeOK
<1>4. ASSUME pc[p] = "debit", pc'[p] \in {"permit", "failed"}, adm' = adm,
             wires' = wires, charged < Limit, charged' = charged + 1,
             debits' = [debits EXCEPT ![p] = @ + 1]
      PROVE  Meter!Pay(p)
  <2>1. Billed' = Billed
    BY <1>4 DEF Billed
  <2>2. Status[p] = "working" /\ wires[p] <= Billed[p]
    BY <1>4, ViewOfState
  <2>3. StatusOf(p)' \in {"working", "stopped"}
    BY <1>4 DEF StatusOf
  <2>4. Status' = [Status EXCEPT ![p] = StatusOf(p)']
    BY ViewOfStep
  <2> QED BY <1>4, <2>1, <2>2, <2>3, <2>4 DEF Meter!Pay, Meter!Settled, Billed, Status
<1>5. CASE DebitAllowance(p)
  BY <1>4, <1>5 DEF DebitAllowance, Goto, TypeOK
<1>6. CASE RefuseDebit(p)
  <2>1. CASE charged' = charged /\ debits' = debits
    BY <1>6, <2>1, StutterOrStop DEF RefuseDebit, Goto, TypeOK
  <2>2. CASE ~(charged' = charged /\ debits' = debits)
    BY <1>4, <1>6, <2>2 DEF RefuseDebit, Goto, TypeOK
  <2> QED BY <2>1, <2>2
<1>7. CASE AdmitAttempt(p)
  <2> DEFINE b == AfterAdmission(adm[p], Stage(p))
  <2>1. b.completed = adm[p].completed /\ b.unknown = adm[p].unknown
    <3>1. Stage(p) \in Stages
      BY DEF Stage, Stages
    <3> QED BY <1>7, <3>1, AdmissionCounts, CountersType DEF AdmitAttempt
  <2> HIDE DEF b
  <2>2. adm'[p] = b
    BY <1>7 DEF AdmitAttempt, TypeOK, b
  <2> QED
    BY <1>7, <2>1, <2>2, StutterOrStop DEF AdmitAttempt, Goto, TypeOK, shared
<1>8. CASE Refuse(p)
  BY <1>8, StutterOrStop DEF Refuse, TypeOK, shared
<1>9. CASE StartExchange(p)
  <2> DEFINE b == AfterSent(adm[p])
  <2>1. b.completed = adm[p].completed /\ b.unknown = adm[p].unknown
    BY SentCounts, CountersType
  <2> HIDE DEF b
  <2>2. adm'[p] = b
    BY <1>9 DEF StartExchange, TypeOK, b
  <2> QED
    BY <1>9, <2>1, <2>2, StutterOrStop DEF StartExchange, Goto, TypeOK, shared
<1>10. CASE Transmit(p)
  <2>1. /\ pc[p] = "started" /\ pc'[p] = "wire" /\ adm' = adm /\ debits' = debits
        /\ charged' = charged /\ wires' = [wires EXCEPT ![p] = @ + 1]
    BY <1>10 DEF Transmit, Goto, TypeOK, shared
  <2>2. Billed' = Billed
    BY <2>1 DEF Billed
  <2>3. /\ Status[p] = "working" /\ wires[p] <= Billed[p]
        /\ wires[p] < debits[p] /\ wires[p] < MaxHttpAttempts
    BY <2>1, ViewOfState
  <2>4. Status' = Status
    BY <2>1, <2>3, ViewOfStep DEF Status, StatusOf
  <2> QED BY <2>1, <2>2, <2>3, <2>4 DEF Meter!Emit, Meter!Settled, Billed, Status
<1> QED BY <1>1, <1>2, <1>3, <1>5, <1>6, <1>7, <1>8, <1>9, <1>10

\* The ends of an exchange name it on the receipt, the other ends are stops, and
\* a kill loses the receipt.
LEMMA MeterEnd ==
  ASSUME TypeOK, ReceiptInv, NEW p \in Procs, Step(p),
         \/ (pc[p] \in Watched /\ GiveUp(p)) \/ DropFuture(p) \/ Kill(p)
         \/ \E delay \in Delays \cup {NoDelay, InvalidDelay} : FailTransiently(p, delay)
         \/ \E model \in Models, usage \in Usages : Respond(p, model, usage)
  PROVE  [Meter!MeteredNext]_(Meter!meteredVars)
<1> USE DEF Stopped
<1> SUFFICES \/ Meter!Bill(p) \/ Meter!Stop(p) \/ Meter!Lose(p)
             \/ UNCHANGED Meter!meteredVars
  BY DEF Meter!MeteredNext
<1>1. ASSUME adm'[p] = AfterFlight(adm[p]), pc[p] \in Watched,
             pc'[p] \in {"failed", "backoff"}, pc'[p] = "backoff" => pc[p] = "wire",
             charged' = charged, debits' = debits, wires' = wires
      PROVE  Meter!Bill(p) \/ Meter!Stop(p) \/ UNCHANGED Meter!meteredVars
  <2> DEFINE b == AfterFlight(adm[p])
  <2>1. /\ b.completed = adm[p].completed
        /\ b.unknown = adm[p].unknown + (IF adm[p].active = "sent" THEN 1 ELSE 0)
    BY FlightCounts, CountersType
  <2> HIDE DEF b
  <2>2. adm'[p] = b /\ FlightOf(p)
    BY <1>1 DEF b, ReceiptInv
  <2>3. CASE pc[p] \in {"started", "wire"}
    BY <1>1, <2>1, <2>2, <2>3, BillStep, CountersType DEF FlightOf
  <2>4. CASE pc[p] \notin {"started", "wire"}
    BY <1>1, <2>1, <2>2, <2>4, StutterOrStop, CountersType DEF FlightOf, Watched
  <2> QED BY <2>3, <2>4
<1>2. CASE pc[p] \in Watched /\ GiveUp(p)
  BY <1>1, <1>2 DEF GiveUp, TypeOK
<1>3. CASE DropFuture(p)
  BY <1>1, <1>3 DEF DropFuture, TypeOK, Watched, shared
<1>4. CASE Kill(p)
  <2>1. /\ adm'[p] = NewCoordinator /\ pc'[p] = "killed" /\ pc[p] \notin Stopped
        /\ charged' = charged /\ debits' = debits /\ wires' = wires
    BY <1>4 DEF Kill, TypeOK, Running, shared
  <2>2. Billed' = [Billed EXCEPT ![p] = 0]
    BY <2>1, ViewOfStep DEF NewCoordinator
  <2>3. Status[p] = "working" /\ StatusOf(p)' = "killed"
    BY <2>1, ViewOfState DEF StatusOf
  <2>4. Status' = [Status EXCEPT ![p] = "killed"]
    BY <2>3, ViewOfStep
  <2> QED BY <2>1, <2>2, <2>3, <2>4 DEF Meter!Lose, Billed, Status
<1>5. ASSUME NEW delay \in Delays \cup {NoDelay, InvalidDelay}, FailTransiently(p, delay)
      PROVE  Meter!Bill(p) \/ Meter!Stop(p) \/ UNCHANGED Meter!meteredVars
  BY <1>1, <1>5 DEF FailTransiently, TypeOK, Watched
<1>6. ASSUME NEW model \in Models, NEW usage \in Usages, Respond(p, model, usage)
      PROVE  Meter!Bill(p)
  <2> DEFINE b == AfterResponse(adm[p], Stage(p), usage)
  <2>1. b.completed + b.unknown = adm[p].completed + adm[p].unknown + 1
    <3>1. Stage(p) \in Stages
      BY DEF Stage, Stages
    <3>2. usage \in Nat /\ adm[p] \in Coordinators
      BY CountersType, StageConstantsHold DEF StageConstants
    <3> QED BY <3>1, <3>2, ResponseCounts
  <2>2. /\ adm'[p] = b /\ pc[p] = "wire" /\ pc'[p] \in {"failed", "wideDone", "done"}
        /\ charged' = charged /\ debits' = debits /\ wires' = wires
    BY <1>6 DEF Respond, TypeOK
  <2> HIDE DEF b
  <2> QED BY <2>1, <2>2, BillStep
<1> QED BY <1>2, <1>3, <1>4, <1>5, <1>6

\* Every step maps to a step of the abstract specification or to a stutter.
LEMMA MeterStep ==
  ASSUME TypeOK, ReceiptInv, [Next]_vars
  PROVE  [Meter!MeteredNext]_(Meter!meteredVars)
<1>1. ASSUME NEW p \in Procs, Step(p) PROVE [Meter!MeteredNext]_(Meter!meteredVars)
  BY <1>1, MeterPrepare, MeterEnd DEF Step
<1>2. CASE ChangePolicy \/ SetClock \/ Tick \/ UNCHANGED vars
  BY <1>2 DEF ChangePolicy, SetClock, Tick, vars, Meter!meteredVars, StatusOf
<1> QED BY <1>1, <1>2, NextIsStep

\* The provider stage implements the metered sender: each request on the wire has
\* a durable debit of its own, no invocation exceeds its ceiling of attempts, has
\* two requests outstanding or stops before its receipt names every request
\* (send_stage_observed, debit_allowance, AttemptAdmission).
THEOREM StageIsMetered == Spec => SendsAreMetered
<1>1. TypeOK /\ ReceiptInv /\ [Next]_vars => [Meter!MeteredNext]_(Meter!meteredVars)
  BY MeterStep
<1> QED
  BY <1>1, MeterInit, TypeInit, TypeStep, ReceiptInit, ReceiptStep, PTL
     DEF Spec, SendsAreMetered, Meter!MeteredSpec

-----------------------------------------------------------------------------
(* Consent                                                                 *)

\* Policy is looked at on the way to every attempt (authorize_send).
LEMMA WarrantLocal ==
  ASSUME TypeOK, NEW p \in Procs, Step(p), WarrantOf(p)
  PROVE  WarrantOf(p)'
<1> USE DEF TypeOK, Goto, shared, WarrantOf
<1>1. CASE Begin(p) \/ BeginRerank(p) \/ CheckWork(p)
  BY <1>1 DEF Begin, BeginRerank, CheckWork
<1>2. CASE AuthorizePolicy(p)
  BY <1>2 DEF AuthorizePolicy
<1>3. CASE AdmitCircuit(p)
  BY <1>3 DEF AdmitCircuit
<1>4. CASE DebitAllowance(p)
  BY <1>4 DEF DebitAllowance
<1>5. CASE RefuseDebit(p)
  BY <1>5 DEF RefuseDebit
<1>6. CASE AdmitAttempt(p)
  BY <1>6 DEF AdmitAttempt
<1>7. CASE Refuse(p)
  BY <1>7 DEF Refuse
<1>8. CASE StartExchange(p) \/ Transmit(p) \/ WakeUp(p)
  BY <1>8 DEF StartExchange, Transmit, WakeUp
<1>9. CASE GiveUp(p) \/ DropFuture(p) \/ Kill(p)
  BY <1>9 DEF GiveUp, DropFuture, Kill
<1>10. ASSUME NEW delay \in Delays \cup {NoDelay, InvalidDelay}, FailTransiently(p, delay)
       PROVE  WarrantOf(p)'
  BY <1>10 DEF FailTransiently
<1>11. ASSUME NEW model \in Models, NEW usage \in Usages, Respond(p, model, usage)
       PROVE  WarrantOf(p)'
  BY <1>11 DEF Respond
<1> QED
  BY <1>1, <1>2, <1>3, <1>4, <1>5, <1>6, <1>7, <1>8, <1>9, <1>10, <1>11 DEF Step

\* The invariant about consent is kept by every step; a change of
\* policy that grants counts for every attempt under way.
LEMMA WarrantStep ==
  ASSUME TypeOK, WarrantInv, [Next]_vars
  PROVE  WarrantInv'
<1> SUFFICES ASSUME NEW q \in Procs PROVE WarrantOf(q)'
  BY DEF WarrantInv
<1>1. WarrantOf(q)
  BY DEF WarrantInv
<1>2. ASSUME NEW p \in Procs, Step(p) PROVE WarrantOf(q)'
  <2>1. CASE q = p
    BY <1>1, <1>2, <2>1, WarrantLocal
  <2>2. CASE q # p
    BY <1>1, <1>2, <2>2, OthersKeep DEF WarrantOf
  <2> QED BY <2>1, <2>2
<1>3. CASE ChangePolicy
  BY <1>1, <1>3 DEF ChangePolicy, WarrantOf, TypeOK
<1>4. CASE SetClock \/ Tick \/ UNCHANGED vars
  BY <1>1, <1>4 DEF SetClock, Tick, vars, WarrantOf
<1> QED BY <1>2, <1>3, <1>4, NextIsStep

\* Bytes leave only if trusted policy granted at some moment since this attempt, a
\* retry or the first one, began (authorize_send, drive_exchange).
THEOREM StageIsWarranted == Spec => SendsAreWarranted
<1>1. Init => WarrantInv
  BY DEF Init, WarrantInv, WarrantOf
<1>2. WarrantInv =>
        (\A p \in Procs : pc[p] = "started" /\ pc'[p] = "wire" => top[p])
  BY DEF WarrantInv, WarrantOf
<1> QED
  BY <1>1, <1>2, TypeInit, TypeStep, WarrantStep, PTL DEF Spec, SendsAreWarranted

-----------------------------------------------------------------------------
(* Probe leases, on two clocks                                             *)

\* Whether an invocation has time is a matter of its deadline alone.
LEMMA InTimeMeans ==
  ASSUME TypeOK, NEW p \in Procs
  PROVE  InTime(p) <=> now < end[p]
BY RemainingType DEF InTime, Remaining

\* A step that neither admits nor settles.
LeavesRow(p) ==
  /\ row' = row /\ stepped' = stepped
  /\ ticket'[p] \in {ticket[p], NoTicket}
  /\ end'[p] = end[p] \/ pc[p] = "idle"

\* A step that settles the invocation's ticket: the row moves only for a ticket of
\* its generation, that of the probe it names if it is open.
SettlesRow(p) ==
  /\ Follows(row', row, Wall)
  /\ row' # row => /\ ticket[p].generation = row.generation
                   /\ row.open => ticket[p].probe # NoProc /\ ticket[p].probe = row.probe
  /\ ticket'[p] = NoTicket /\ stepped' = stepped /\ end' = end

\* A settlement follows the row and respects the fence.
LEMMA SettlementOfTicket ==
  ASSUME TypeOK, NEW p \in Procs, NEW delay \in Delays \cup {NoDelay},
         NEW kind \in {"success", "neutral", "transient"}, SettleRow(p, kind, delay),
         Unticketed(p), stepped' = stepped, end' = end
  PROVE  SettlesRow(p)
<1>1. Follows(row', row, Wall)
  BY RowSettles
<1>2. row' # row => /\ ticket[p].generation = row.generation
                    /\ row.open => ticket[p].probe # NoProc /\ ticket[p].probe = row.probe
  BY FenceHolds DEF SettleRow
<1>3. ticket'[p] = NoTicket
  BY DEF Unticketed, TypeOK
<1> QED BY <1>1, <1>2, <1>3 DEF SettlesRow

\* Only an admission makes a probe; only the start of an invocation sets its
\* deadline (provider_stage, Row::admit).
LEMMA RowOfStep ==
  ASSUME TypeOK, NEW p \in Procs, Step(p)
  PROVE  /\ pc'[p] # "idle"
         /\ LeavesRow(p) \/ SettlesRow(p) \/ AdmitCircuit(p)
<1> USE DEF Goto, shared, Running
<1>1. CASE Begin(p) \/ BeginRerank(p)
  BY <1>1 DEF Begin, BeginRerank, LeavesRow, TypeOK
<1>2. CASE CheckWork(p) \/ AuthorizePolicy(p) \/ DebitAllowance(p)
  BY <1>2 DEF CheckWork, AuthorizePolicy, DebitAllowance, LeavesRow, TypeOK
<1>3. CASE AdmitCircuit(p)
  BY <1>3 DEF AdmitCircuit, TypeOK
<1>4. CASE RefuseDebit(p)
  BY <1>4, SettlementOfTicket DEF RefuseDebit, TypeOK
<1>5. CASE AdmitAttempt(p)
  BY <1>5 DEF AdmitAttempt, LeavesRow, TypeOK
<1>6. CASE StartExchange(p) \/ Transmit(p) \/ WakeUp(p)
  BY <1>6 DEF StartExchange, Transmit, WakeUp, LeavesRow, TypeOK
<1>7. CASE GiveUp(p)
  BY <1>7, SettlementOfTicket DEF GiveUp, TypeOK
<1>8. CASE Refuse(p) \/ DropFuture(p) \/ Kill(p)
  BY <1>8 DEF Refuse, DropFuture, Kill, Unticketed, LeavesRow, TypeOK
<1>9. ASSUME NEW delay \in Delays \cup {NoDelay, InvalidDelay}, FailTransiently(p, delay)
      PROVE  pc'[p] # "idle" /\ SettlesRow(p)
  BY <1>9, SettlementOfTicket, StoredDelayType DEF FailTransiently, TypeOK
<1>10. ASSUME NEW model \in Models, NEW usage \in Usages, Respond(p, model, usage)
       PROVE  pc'[p] # "idle" /\ SettlesRow(p)
  BY <1>10, SettlementOfTicket DEF Respond, TypeOK
<1> QED
  BY <1>1, <1>2, <1>3, <1>4, <1>5, <1>6, <1>7, <1>8, <1>9, <1>10 DEF Step

\* The initial state has no probe.
LEMMA ProbeInit == Init => ProbeInv
BY RowConstantsHold
   DEF Init, ProbeInv, ProbeOf, Rivals, Probing, ClosedRow, NoTicket, RowConstants

\* The types of what a probe's invariant speaks of.
LEMMA ProbeTypes ==
  ASSUME TypeOK, NEW p \in Procs
  PROVE  /\ p # NoProc /\ row \in Rows
         /\ row.generation \in Nat /\ row.probeExpires \in Nat /\ row.open \in BOOLEAN
         /\ ticket[p].generation \in Nat /\ ticket[p].held \in BOOLEAN
         /\ stepped[p] \in BOOLEAN /\ Wall = now + skew
         /\ end[p] \in Nat /\ now \in Nat /\ skew \in Nat
BY RowConstantsHold, RemainingType DEF TypeOK, Rows, RowConstants

\* An invocation that neither admits nor settles leaves the invariant alone.
LEMMA ProbeLeft ==
  ASSUME TypeOK, ProbeInv, NEW p \in Procs, Step(p), LeavesRow(p)
  PROVE  ProbeInv'
<1>1. /\ now' = now /\ skew' = skew /\ pc'[p] # "idle"
      /\ \A q \in Procs \ {p} : /\ pc'[q] = pc[q] /\ end'[q] = end[q]
                                /\ ticket'[q] = ticket[q] /\ stepped'[q] = stepped[q]
  BY OthersKeep, RowOfStep
<1>2. Wall' = Wall /\ row' = row /\ stepped' = stepped
  BY <1>1 DEF Wall, LeavesRow
<1>3. ASSUME NEW q \in Procs
      PROVE  /\ ProbeOf(q)'
             /\ Probing(q)' => Probing(q) /\ ticket'[q] = ticket[q]
  <2>1. ProbeOf(q)
    BY DEF ProbeInv
  <2>2. \/ ticket'[q] = ticket[q] /\ end'[q] = end[q]
        \/ ticket'[q] = ticket[q] /\ pc[q] = "idle"
        \/ ticket'[q] = NoTicket /\ (end'[q] = end[q] \/ pc[q] = "idle")
    BY <1>1 DEF LeavesRow
  <2>3. pc[q] # "idle" => pc'[q] # "idle"
    BY <1>1
  <2>4. Probing(q)' => Probing(q) /\ ticket'[q] = ticket[q] /\ end'[q] = end[q]
    BY <1>1, <2>1, <2>2 DEF Probing, ProbeOf, InTime, Remaining, NoTicket
  <2>5. (ticket[q].probe \in {q, NoProc})' /\ (ticket[q].held =>
           pc[q] # "idle" /\ ticket[q].generation <= row.generation)'
    BY <1>2, <2>1, <2>2, <2>3 DEF ProbeOf, NoTicket
  <2>6. (row.probe = q => pc[q] # "idle")'
    BY <1>2, <2>1, <2>3 DEF ProbeOf
  <2>7. (row.probe = q /\ ~stepped[q] =>
           row.probeExpires <= end[q] + skew \/ row.probeExpires <= Wall)'
    BY <1>1, <1>2, <2>1, <2>2 DEF ProbeOf
  <2>8. (Probing(q) /\ ~stepped[q] /\ ticket[q].generation = row.generation =>
           row.open /\ row.probe = q /\ row.probeExpires = end[q] + skew)'
    BY <1>1, <1>2, <2>1, <2>4 DEF ProbeOf
  <2> QED BY <2>4, <2>5, <2>6, <2>7, <2>8 DEF ProbeOf
<1>4. \A q, r \in Procs : Rivals(q, r)'
  BY <1>2, <1>3 DEF ProbeInv, Rivals
<1> QED BY <1>2, <1>3, <1>4 DEF ProbeInv

\* A settlement ends its own probe; it moves the row only under the fence, so the
\* probe that another invocation may still send is not touched.
LEMMA ProbeSettled ==
  ASSUME TypeOK, ProbeInv, NEW p \in Procs, Step(p), SettlesRow(p)
  PROVE  ProbeInv'
<1>1. /\ now' = now /\ skew' = skew /\ pc'[p] # "idle" /\ Wall' = Wall
      /\ \A q \in Procs \ {p} : /\ pc'[q] = pc[q] /\ ticket'[q] = ticket[q]
  BY OthersKeep, RowOfStep DEF Wall
<1>2. /\ end' = end /\ stepped' = stepped /\ ticket'[p] = NoTicket
      /\ Follows(row', row, Wall)
  BY DEF SettlesRow
<1>3. ASSUME NEW q \in Procs PROVE Probing(q)' => q # p /\ Probing(q)
  BY <1>1, <1>2, ProbeTypes DEF Probing, InTime, Remaining, NoTicket
<1>4. row \in Rows /\ row.generation \in Nat /\ row.probeExpires \in Nat
  BY ProbeTypes
<1>5. ASSUME NEW q \in Procs PROVE ProbeOf(q)'
  <2>1. ProbeOf(q) /\ ProbeOf(p) /\ q # NoProc
    BY ProbeTypes DEF ProbeInv
  <2>2. (ticket[q].probe \in {q, NoProc})' /\ (ticket[q].held =>
           pc[q] # "idle" /\ ticket[q].generation <= row.generation)'
    <3>1. CASE q = p
      BY <1>2, <3>1 DEF NoTicket
    <3>2. CASE q # p
      BY <1>1, <1>2, <1>4, <2>1, <3>2, ProbeTypes DEF ProbeOf, Follows
    <3> QED BY <3>1, <3>2
  <2>3. row'.probe = q => row.probe = q /\ row'.probeExpires = row.probeExpires
    BY <1>2, <2>1 DEF Follows
  <2>4. (row.probe = q => pc[q] # "idle")'
    BY <1>1, <2>1, <2>3 DEF ProbeOf
  <2>5. (row.probe = q /\ ~stepped[q] =>
           row.probeExpires <= end[q] + skew \/ row.probeExpires <= Wall)'
    BY <1>1, <1>2, <2>1, <2>3 DEF ProbeOf
  <2>6. ASSUME Probing(q)', ~stepped'[q], ticket'[q].generation = row'.generation
        PROVE  row'.open /\ row'.probe = q /\ row'.probeExpires = end'[q] + skew'
    <3>1. q # p /\ Probing(q) /\ ticket'[q] = ticket[q]
      BY <1>1, <1>3, <2>6
    <3>2. ticket[q].held /\ ticket[q].generation <= row.generation
      BY <2>1, <3>1 DEF Probing, ProbeOf
    <3>3. row'.generation = row.generation
      BY <1>2, <1>4, <2>6, <3>1, <3>2, ProbeTypes DEF Follows
    <3>4. row.open /\ row.probe = q /\ row.probeExpires = end[q] + skew
      BY <1>2, <2>1, <2>6, <3>1, <3>3 DEF ProbeOf
    <3>5. row' = row
      BY <2>1, <3>1, <3>4 DEF SettlesRow, ProbeOf
    <3> QED BY <1>1, <1>2, <3>4, <3>5
  <2> QED BY <2>2, <2>4, <2>5, <2>6 DEF ProbeOf
<1>6. \A q, r \in Procs : Rivals(q, r)'
  BY <1>1, <1>2, <1>3 DEF ProbeInv, Rivals
<1>7. (~row.open => row.probe = NoProc)'
  BY <1>2 DEF ProbeInv, Follows
<1> QED BY <1>5, <1>6, <1>7 DEF ProbeInv

\* An admission to an open circuit stores the invocation's deadline as the wall
\* clock tells it; it is granted only when no probe holds the circuit, so none of
\* the present opening may still be sent.
LEMMA ProbeAdmitted ==
  ASSUME TypeOK, ProbeInv, NEW p \in Procs, Step(p), AdmitCircuit(p)
  PROVE  ProbeInv'
<1>1. /\ now' = now /\ skew' = skew /\ pc'[p] # "idle" /\ Wall' = Wall
      /\ \A q \in Procs \ {p} : /\ pc'[q] = pc[q] /\ ticket'[q] = ticket[q]
                                /\ stepped'[q] = stepped[q]
  BY OthersKeep, RowOfStep DEF Wall
<1>2. /\ end' = end /\ ~ProbeHeld(row, Wall)
      /\ row' = AfterAdmit(row, p, Wall, Remaining(p))
  BY DEF AdmitCircuit, Admits, LeaseFor
<1>3. /\ ticket'[p].generation = row.generation
      /\ ticket'[p].probe = IF row.open THEN p ELSE NoProc
  BY DEF AdmitCircuit, TypeOK, TicketOf
<1>4. /\ p # NoProc /\ row.generation \in Nat /\ row.probeExpires \in Nat
      /\ Wall \in Nat /\ Wall = now + skew /\ Remaining(p) \in Nat /\ row \in Rows
  BY ProbeTypes, RemainingType
<1>5. /\ row'.generation = row.generation /\ row'.open = row.open
      /\ ~row.open => row' = row
      /\ row.open => row'.probe = p /\ row'.probeExpires = Wall + Remaining(p)
  <2>1. CASE row.open
    <3>1. row' = [row EXCEPT !.probe = p, !.probeExpires = Wall + Remaining(p)]
      BY <1>2, <2>1 DEF AfterAdmit
    <3> QED BY <1>4, <2>1, <3>1 DEF Rows
  <2>2. CASE ~row.open
    BY <1>2, <2>2 DEF AfterAdmit
  <2> QED BY <1>4, <2>1, <2>2 DEF Rows
<1>6. ASSUME NEW q \in Procs PROVE Probing(q)' => InTime(q)
  BY <1>1, <1>2 DEF Probing, InTime, Remaining
<1>7. ASSUME NEW q \in Procs, q # p, Probing(q)'
      PROVE  Probing(q) /\ ticket'[q] = ticket[q]
             /\ (ticket[q].generation = row.generation => stepped[q])
  <2>1. Probing(q) /\ ticket'[q] = ticket[q]
    BY <1>1, <1>6, <1>7 DEF Probing
  <2>2. ASSUME ticket[q].generation = row.generation, ~stepped[q] PROVE FALSE
    <3>1. row.open /\ row.probe = q /\ row.probeExpires = end[q] + skew
      BY <2>1, <2>2 DEF ProbeInv, ProbeOf
    <3>2. Wall < row.probeExpires
      BY <1>4, <2>1, <3>1, ProbeTypes, InTimeMeans DEF Probing
    <3> QED BY <1>2, <3>1, <3>2, ProbeTypes DEF ProbeHeld
  <2> QED BY <2>1, <2>2
<1>8. ASSUME NEW q \in Procs PROVE ProbeOf(q)'
  <2>1. ProbeOf(q) /\ q # NoProc
    BY ProbeTypes DEF ProbeInv
  <2>2. CASE q = p
    <3>1. (ticket[p].probe \in {p, NoProc})'
      BY <1>3
    <3>2. (ticket[p].held => pc[p] # "idle" /\ ticket[p].generation <= row.generation)'
      BY <1>1, <1>3, <1>4, <1>5
    <3>3. (row.probe = p => pc[p] # "idle")'
      BY <1>1
    <3>4. CASE row.open
      <4>1. \/ row'.probeExpires = end'[p] + skew' /\ row'.probe = p
            \/ row'.probeExpires = Wall' /\ ~InTime(p)
        BY <1>1, <1>2, <1>4, <1>5, <3>4, ProbeTypes DEF InTime, Remaining
      <4>2. (row.probeExpires <= end[p] + skew \/ row.probeExpires <= Wall)'
        BY <1>1, <1>2, <1>4, <4>1, ProbeTypes
      <4>3. Probing(p)' => row'.open /\ row'.probe = p /\ row'.probeExpires = end'[p] + skew'
        BY <1>5, <1>6, <3>4, <4>1
      <4> QED BY <2>2, <3>1, <3>2, <3>3, <4>2, <4>3 DEF ProbeOf
    <3>5. CASE ~row.open
      <4>1. row'.probe = NoProc
        BY <1>5, <3>5 DEF ProbeInv
      <4>2. ~Probing(p)'
        BY <1>3, <1>4, <3>5 DEF Probing
      <4> QED BY <1>4, <2>2, <3>1, <3>2, <3>3, <4>1, <4>2 DEF ProbeOf
    <3> QED BY <3>4, <3>5, ProbeTypes
  <2>3. CASE q # p
    <3>1. (ticket[q].probe \in {q, NoProc})' /\ (ticket[q].held =>
             pc[q] # "idle" /\ ticket[q].generation <= row.generation)'
      BY <1>1, <1>5, <2>1, <2>3 DEF ProbeOf
    <3>2. row'.probe # q
      BY <1>5, <2>1, <2>3, ProbeTypes DEF ProbeInv
    <3>3. ~(Probing(q)' /\ ~stepped'[q] /\ ticket'[q].generation = row'.generation)
      BY <1>1, <1>5, <1>7, <2>3
    <3> QED BY <3>1, <3>2, <3>3 DEF ProbeOf
  <2> QED BY <2>2, <2>3
<1>9. ASSUME NEW q \in Procs, NEW r \in Procs PROVE Rivals(q, r)'
  <2>1. Rivals(q, r)
    BY DEF ProbeInv
  <2>2. CASE q # p /\ r # p
    BY <1>1, <1>7, <2>1, <2>2 DEF Rivals
  <2>3. CASE q = p \/ r = p
    BY <1>1, <1>3, <1>7, <2>3 DEF Rivals
  <2> QED BY <2>2, <2>3
<1>10. (~row.open => row.probe = NoProc)'
  BY <1>5 DEF ProbeInv
<1> QED BY <1>8, <1>9, <1>10 DEF ProbeInv

\* Every step keeps the invariant: time only ends probes, and setting the wall
\* clock releases every probe from it.
LEMMA ProbeStep ==
  ASSUME TypeOK, ProbeInv, [Next]_vars
  PROVE  ProbeInv'
<1>1. ASSUME NEW p \in Procs, Step(p) PROVE ProbeInv'
  BY <1>1, RowOfStep, ProbeLeft, ProbeSettled, ProbeAdmitted
<1>2. CASE ChangePolicy \/ UNCHANGED vars
  BY <1>2 DEF ChangePolicy, vars, ProbeInv, ProbeOf, Rivals, Probing, InTime,
              Remaining, Wall
<1>3. CASE SetClock
  <2>1. /\ row' = row /\ ticket' = ticket /\ end' = end /\ pc' = pc /\ now' = now
        /\ \A q \in Procs : stepped'[q] = TRUE
    BY <1>3 DEF SetClock
  <2> QED BY <2>1 DEF ProbeInv, ProbeOf, Rivals
<1>4. CASE Tick
  <2>1. /\ row' = row /\ ticket' = ticket /\ end' = end /\ pc' = pc /\ skew' = skew
        /\ stepped' = stepped /\ now' = now + 1
    BY <1>4 DEF Tick
  <2>2. ASSUME NEW q \in Procs
        PROVE  /\ Probing(q)' => Probing(q)
               /\ row.probeExpires <= Wall => row'.probeExpires <= Wall'
    <3>1. Wall = now + skew /\ Wall' = now + 1 + skew
      BY <2>1 DEF Wall
    <3>2. Remaining(q)' > 0 => Remaining(q) > 0
      BY <2>1, ProbeTypes DEF Remaining
    <3> QED BY <2>1, <3>1, <3>2, ProbeTypes DEF Probing, InTime
  <2>3. ASSUME NEW q \in Procs PROVE ProbeOf(q)'
    <3>1. ProbeOf(q)
      BY DEF ProbeInv
    <3> QED BY <2>1, <2>2, <3>1 DEF ProbeOf
  <2>4. \A q, r \in Procs : Rivals(q, r)'
    BY <2>1, <2>2 DEF ProbeInv, Rivals
  <2> QED BY <2>1, <2>3, <2>4 DEF ProbeInv
<1> QED BY <1>1, <1>2, <1>3, <1>4, NextIsStep

\* Unless the wall clock is set, an unsettled probe holds the circuit no longer than
\* its own deadline, whoever crashed, was refused or was dropped, and no two
\* invocations may send a probe of the same opening (provider_stage, Row::admit).
THEOREM LeasesEnd == Spec => []LeaseCoversInvocation
<1>1. TypeOK /\ ProbeInv => LeaseCoversInvocation
  <2> SUFFICES ASSUME TypeOK, ProbeInv PROVE LeaseCoversInvocation
    OBVIOUS
  <2>1. ASSUME NEW p \in Procs, row.probe = p, ProbeHeld(row, Wall), ~stepped[p]
        PROVE  InTime(p)
    <3>1. ProbeOf(p) /\ Wall < row.probeExpires
      BY <2>1 DEF ProbeInv, ProbeHeld
    <3>2. row.probeExpires <= end[p] + skew \/ row.probeExpires <= Wall
      BY <2>1, <3>1 DEF ProbeOf
    <3> QED BY <3>1, <3>2, ProbeTypes, InTimeMeans
  <2>2. ASSUME NEW p \in Procs, NEW q \in Procs, p # q, Probing(p), Probing(q),
               ticket[p].generation = ticket[q].generation
        PROVE  stepped[p] \/ stepped[q]
    BY <2>2 DEF ProbeInv, Rivals
  <2> QED BY <2>1, <2>2, ProbeTypes DEF LeaseCoversInvocation
<1> QED
  BY <1>1, TypeInit, TypeStep, ProbeInit, ProbeStep, PTL DEF Spec
=============================================================================
