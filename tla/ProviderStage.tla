---------------------------- MODULE ProviderStage ----------------------------
(***************************************************************************)
(* One invocation's provider calls, and several invocations at once:       *)
(* RetrySession::send_stage_observed (src/jev/retry.rs) as provider_stage  *)
(* (src/pipeline.rs) drives it, with the client's exchange                 *)
(* (src/jev/client.rs), the attempt coordinator, the shared circuit and    *)
(* the shared allowance.                                                   *)
(*                                                                         *)
(* The circuit is its shared row (BreakerRow); Breaker shows how the store *)
(* behind it fails.  The allowance is what Allowance promises of it: a     *)
(* durable count that a debit increments, and refusals.                    *)
(***************************************************************************)
EXTENDS BreakerRow, AttemptAdmission

CONSTANTS
  Models,    \* model identifiers a response may name
  NoModel,   \* no response yet
  Usages,    \* token usage a response may report
  Delays,    \* Retry-After values a provider may send
  Backoff,   \* retry_delay without a Retry-After
  Deadline,  \* an invocation's time before its cleanup reserve
  Limit,     \* the allowance's attempts
  Skews,     \* how far the wall clock may be ahead of the monotonic one
  MaxTime    \* bound: latest reading of the monotonic clock

\* A Retry-After that does not parse.
InvalidDelay == -2

ASSUME StageAssumption ==
  /\ NoModel \notin Models
  /\ Skews \subseteq Nat
  /\ Usages \subseteq Nat /\ Delays \subseteq Nat
  /\ Backoff \in Nat /\ Deadline \in Nat /\ Limit \in Nat
  /\ MaxTime \in Nat

VARIABLES
  row,       \* the shared circuit
  charged,   \* debits of the shared allowance
  granted,   \* whether trusted policy and consent still allow a send
  now,       \* the monotonic clock, which deadlines and waits are measured by
  skew,      \* how far the wall clock is ahead of it
  pc,        \* where each invocation is
  end,       \* when its cleanup reserve begins
  adm,       \* its attempt coordinator
  ticket,    \* the circuit ticket provider_stage holds
  wake,      \* when its retry is due, 0 if it waits for none
  wide,      \* model of its accepted wide response
  top,       \* history: policy has granted since the top of this attempt
  stepped,   \* history: the wall clock was set since its last admission
  debits,    \* history: debits made for it
  wires      \* history: exchanges whose bytes may have left

shared == <<row, charged, granted, now, skew>>
vars == <<row, charged, granted, now, skew, pc, end, adm, ticket, wake, wide, top, stepped, debits, wires>>

NoTicket == [held |-> FALSE, generation |-> 0, probe |-> NoProc]

Running == {"check", "policy", "breaker", "debit", "permit", "local", "started",
            "wire", "backoff"}
Ended == {"wideDone", "done", "failed", "killed"}

\* Every variable has its type: the circuit's row stays one that transact reads
\* back, and known usage stays within the receipt's counter (record_response).
TypeOK ==
  /\ row \in Rows
  /\ charged \in 0 .. Limit /\ granted \in BOOLEAN
  /\ now \in 0 .. MaxTime /\ skew \in Skews
  /\ pc \in [Procs -> {"idle"} \cup Running \cup Ended]
  /\ end \in [Procs -> Nat]
  /\ adm \in [Procs -> Coordinators]
  /\ ticket \in [Procs -> [held : BOOLEAN, generation : Nat,
                           probe : Procs \cup {NoProc}]]
  /\ wake \in [Procs -> Nat]
  /\ wide \in [Procs -> Models \cup {NoModel}]
  /\ top \in [Procs -> BOOLEAN] /\ stepped \in [Procs -> BOOLEAN]
  /\ debits \in [Procs -> Nat]
  /\ wires \in [Procs -> Nat]

Init ==
  /\ row = ClosedRow(0)
  /\ charged = 0 /\ granted = TRUE /\ now = 0 /\ skew \in Skews
  /\ pc = [p \in Procs |-> "idle"]
  /\ end = [p \in Procs |-> 0]
  /\ adm = [p \in Procs |-> NewCoordinator]
  /\ ticket = [p \in Procs |-> NoTicket]
  /\ wake = [p \in Procs |-> 0]
  /\ wide = [p \in Procs |-> NoModel]
  /\ top = [p \in Procs |-> TRUE]
  /\ stepped = [p \in Procs |-> FALSE]
  /\ debits = [p \in Procs |-> 0]
  /\ wires = [p \in Procs |-> 0]

-----------------------------------------------------------------------------
Goto(p, from, to) == pc[p] = from /\ pc' = [pc EXCEPT ![p] = to]

Stage(p) == IF adm[p].wideCompleted THEN "rerank" ELSE "wide"

Remaining(p) == IF now < end[p] THEN end[p] - now ELSE 0

\* EntryClock::admit_new_work.
InTime(p) == Remaining(p) > 0

\* wall_clock_ms, the time that the circuit is given: every process of the machine
\* reads the same clock, which the user or a time server may set.
Wall == now + skew

\* Breaker::settle on the shared row.
SettleRow(p, kind, delay) ==
  row' = AfterSettle(row, ticket[p], [kind |-> kind, delay |-> delay], Wall)

Unticketed(p) == ticket' = [ticket EXCEPT ![p] = NoTicket]

-----------------------------------------------------------------------------
(* The stages of an invocation *)

\* The invocation opens its session; its clock starts.
Begin(p) ==
  /\ Goto(p, "idle", "check")
  /\ now + Deadline <= MaxTime
  /\ end' = [end EXCEPT ![p] = now + Deadline]
  /\ UNCHANGED <<shared, adm, ticket, wake, wide, top, stepped, debits, wires>>

\* After an accepted wide response the pipeline may rerank.
BeginRerank(p) ==
  /\ Goto(p, "wideDone", "check")
  /\ UNCHANGED <<shared, end, adm, ticket, wake, wide, top, stepped, debits,
                 wires>>

-----------------------------------------------------------------------------
(* The loop of send_stage_observed *)

\* check_work, at the top of every attempt.
CheckWork(p) ==
  /\ Goto(p, "check", "policy")
  /\ InTime(p)
  /\ top' = [top EXCEPT ![p] = granted]
  /\ UNCHANGED <<shared, end, adm, ticket, wake, wide, stepped, debits, wires>>

\* Mutant of AuthorizePolicy: policy is refreshed for the first attempt only.
AuthorizeOnce(p) ==
  /\ Goto(p, "policy", "breaker")
  /\ granted \/ adm[p].admitted > 0
  /\ UNCHANGED <<shared, end, adm, ticket, wake, wide, top, stepped, debits,
                 wires>>

\* authorize_send: the refreshed policy still grants and was not superseded.
AuthorizePolicy(p) ==
  /\ Goto(p, "policy", "breaker")
  /\ granted
  /\ UNCHANGED <<shared, end, adm, ticket, wake, wide, top, stepped, debits,
                 wires>>

\* Mutant of LeaseFor: a probe's lease covers one attempt only.
LeaseAttempt(p) == MinAttemptReserve

\* A probe's lease is the monotonic time that its invocation has left, counted
\* from the wall clock's reading.
LeaseFor(p) == Remaining(p)

\* The circuit is asked before the allowance is charged.
AdmitCircuit(p) ==
  /\ Goto(p, "breaker", "debit")
  /\ Admits(row, Wall)
  /\ row' = AfterAdmit(row, p, Wall, LeaseFor(p))
  /\ ticket' = [ticket EXCEPT ![p] = [held |-> TRUE,
                                      generation |-> row.generation,
                                      probe |-> TicketOf(row, p).probe]]
  /\ stepped' = [stepped EXCEPT ![p] = FALSE]
  /\ UNCHANGED <<charged, granted, now, skew, end, adm, wake, wide, top,
                 debits, wires>>

\* Mutant of DebitAllowance: a retry reuses the first attempt's debit.
DebitOnce(p) ==
  /\ Goto(p, "debit", "permit")
  /\ IF debits[p] = 0
     THEN /\ charged < Limit
          /\ charged' = charged + 1
          /\ debits' = [debits EXCEPT ![p] = @ + 1]
     ELSE UNCHANGED <<charged, debits>>
  /\ UNCHANGED <<row, granted, now, skew, end, adm, ticket, wake, wide, top,
                 stepped, wires>>

\* debit_allowance: one durable debit for this attempt.
DebitAllowance(p) ==
  /\ Goto(p, "debit", "permit")
  /\ charged < Limit
  /\ charged' = charged + 1
  /\ debits' = [debits EXCEPT ![p] = @ + 1]
  /\ UNCHANGED <<row, granted, now, skew, end, adm, ticket, wake, wide, top,
                 stepped, wires>>

\* A refused debit, exhausted or withheld after a commit, releases the ticket.
RefuseDebit(p) ==
  /\ Goto(p, "debit", "failed")
  /\ SettleRow(p, "neutral", NoDelay)
  /\ Unticketed(p)
  /\ \/ UNCHANGED <<charged, debits>>
     \/ /\ charged < Limit
        /\ charged' = charged + 1
        /\ debits' = [debits EXCEPT ![p] = @ + 1]
  /\ UNCHANGED <<granted, now, skew, end, adm, wake, wide, top, stepped, wires>>

\* The coordinator issues the permit.
AdmitAttempt(p) ==
  /\ Goto(p, "permit", "local")
  /\ MayAdmit(adm[p], Stage(p), Remaining(p))
  /\ adm' = [adm EXCEPT ![p] = AfterAdmission(@, Stage(p))]
  /\ UNCHANGED <<shared, end, ticket, wake, wide, top, stepped, debits, wires>>

\* A changed policy, the circuit or the coordinator refuses the attempt.  The
\* coordinator's refusal keeps the lease and the debit: nothing settles them.
Refuse(p) ==
  /\ \/ pc[p] = "policy"
     \/ pc[p] = "breaker" /\ ~Admits(row, Wall)
     \/ pc[p] = "permit" /\ ~MayAdmit(adm[p], Stage(p), Remaining(p))
  /\ pc' = [pc EXCEPT ![p] = "failed"]
  /\ Unticketed(p)
  /\ UNCHANGED <<shared, end, adm, wake, wide, top, stepped, debits, wires>>

\* The client's own checks pass and on_start runs: the permit is consumed.
StartExchange(p) ==
  /\ Goto(p, "local", "started")
  /\ InTime(p)
  /\ adm' = [adm EXCEPT ![p] = AfterSent(@)]
  /\ UNCHANGED <<shared, end, ticket, wake, wide, top, stepped, debits, wires>>

\* drive_exchange polls the request: its bytes leave.
Transmit(p) ==
  /\ Goto(p, "started", "wire")
  /\ InTime(p)
  /\ wires' = [wires EXCEPT ![p] = @ + 1]
  /\ UNCHANGED <<shared, end, adm, ticket, wake, wide, top, stepped, debits>>

\* The places where the session looks at its deadline and at cancellation.
Watched == {"check", "backoff", "local", "started", "wire"}

\* The attempt, if there is one, ends without a response and without a retry.
GiveUp(p) ==
  /\ pc' = [pc EXCEPT ![p] = "failed"]
  /\ adm' = [adm EXCEPT ![p] = AfterFlight(@)]
  /\ SettleRow(p, "neutral", NoDelay)
  /\ Unticketed(p)
  /\ wake' = [wake EXCEPT ![p] = 0]
  /\ UNCHANGED <<charged, granted, now, skew, end, wide, top, stepped,
                 debits, wires>>

\* A failure that is not transient: a local refusal before on_start, a
\* cancellation, or an answer that is not acceptable.
FailAttempt(p) == pc[p] \in Watched /\ GiveUp(p)

\* Mutant of TimeOut: a stalled exchange does not wake for the deadline.
TimeOutAsleep(p) == pc[p] \in Watched \ {"wire"} /\ ~InTime(p) /\ GiveUp(p)

\* The deadline: check_work, the client's budget and drive_exchange's timer.
TimeOut(p) == pc[p] \in Watched /\ ~InTime(p) /\ GiveUp(p)

\* retry_delay: a Retry-After raises the backoff and is never cut to fit; one that
\* does not parse stops the retries.
RetryDelay(delay) == IF delay = NoDelay THEN Backoff ELSE Larger(delay, Backoff)

RetryFits(p, delay) ==
  delay # InvalidDelay /\ RetryDelay(delay) + MinAttemptReserve < Remaining(p)

\* breaker_outcome: the circuit keeps a delay only if it parsed.
StoredDelay(delay) == IF delay = InvalidDelay THEN NoDelay ELSE delay

\* A transient failure of the exchange: retried if an attempt is left and the
\* whole delay fits the deadline.
FailTransiently(p, delay) ==
  /\ pc[p] = "wire"
  /\ InTime(p)
  /\ adm' = [adm EXCEPT ![p] = AfterFlight(@)]
  /\ SettleRow(p, "transient", StoredDelay(delay))
  /\ Unticketed(p)
  /\ IF RemainingHttpAttempts(adm[p]) > 0 /\ RetryFits(p, delay)
     THEN /\ pc' = [pc EXCEPT ![p] = "backoff"]
          /\ wake' = [wake EXCEPT ![p] = now + RetryDelay(delay)]
     ELSE /\ pc' = [pc EXCEPT ![p] = "failed"]
          /\ UNCHANGED wake
  /\ UNCHANGED <<charged, granted, now, skew, end, wide, top, stepped, debits,
                 wires>>

\* wait_before_retry.
WakeUp(p) ==
  /\ Goto(p, "backoff", "check")
  /\ now >= wake[p] /\ InTime(p)
  /\ wake' = [wake EXCEPT ![p] = 0]
  /\ UNCHANGED <<shared, end, adm, ticket, wide, top, stepped, debits,
                 wires>>

\* A rerank counts only beside a wide response that names the same model.
PairAccepted(p, model) == Stage(p) = "rerank" => wide[p] = model

\* A valid response in time.  Its cost is recorded first; a usage overflow or
\* a mismatched pair still rejects it.
Respond(p, model, usage) ==
  LET stage == Stage(p)
      ok == UsageFits(adm[p], usage)
  IN /\ pc[p] = "wire"
     /\ InTime(p)
     /\ adm' = [adm EXCEPT ![p] = AfterResponse(@, stage, usage)]
     /\ SettleRow(p, "success", NoDelay)
     /\ Unticketed(p)
     /\ wide' = IF ok /\ stage = "wide" THEN [wide EXCEPT ![p] = model] ELSE wide
     /\ pc' = [pc EXCEPT ![p] =
                 CASE ~ok \/ ~PairAccepted(p, model) -> "failed"
                   [] ok /\ PairAccepted(p, model) /\ stage = "wide" -> "wideDone"
                   [] OTHER -> "done"]
     /\ UNCHANGED <<charged, granted, now, skew, end, wake, top, stepped,
                    debits, wires>>

-----------------------------------------------------------------------------
(* Environment *)

\* Mutant of DropFuture: unwinding does not finish the flight.
DropUnfinished(p) ==
  /\ pc[p] \in {"wire", "backoff"}
  /\ pc' = [pc EXCEPT ![p] = "failed"]
  /\ Unticketed(p)
  /\ UNCHANGED <<shared, end, adm, wake, wide, top, stepped, debits, wires>>

\* The future is dropped where it awaits: AttemptFlight::drop finishes the
\* attempt, and the circuit hears nothing.
DropFuture(p) ==
  /\ pc[p] \in {"wire", "backoff"}
  /\ pc' = [pc EXCEPT ![p] = "failed"]
  /\ adm' = [adm EXCEPT ![p] = AfterFlight(@)]
  /\ Unticketed(p)
  /\ wake' = [wake EXCEPT ![p] = 0]
  /\ UNCHANGED <<shared, end, wide, top, stepped, debits, wires>>

\* The process is killed: only the shared stores remain.
Kill(p) ==
  /\ pc[p] \in Running
  /\ pc' = [pc EXCEPT ![p] = "killed"]
  /\ adm' = [adm EXCEPT ![p] = NewCoordinator]
  /\ Unticketed(p)
  /\ wake' = [wake EXCEPT ![p] = 0]
  /\ UNCHANGED <<shared, end, wide, top, stepped, debits, wires>>

\* The user edits trusted policy.
ChangePolicy ==
  /\ granted' = ~granted
  /\ top' = [p \in Procs |-> top[p] \/ ~granted]
  /\ UNCHANGED <<row, charged, now, skew, pc, end, adm, ticket, wake, wide,
                 stepped, debits, wires>>

\* The wall clock is set, forward or back.
SetClock ==
  /\ skew' \in Skews \ {skew}
  /\ stepped' = [p \in Procs |-> TRUE]
  /\ UNCHANGED <<row, charged, granted, now, pc, end, adm, ticket, wake, wide,
                 top, debits, wires>>

Tick ==
  /\ now < MaxTime
  /\ now' = now + 1
  /\ UNCHANGED <<row, charged, granted, skew, pc, end, adm, ticket, wake, wide,
                 top, stepped, debits, wires>>

-----------------------------------------------------------------------------
\* What the session does by itself, and what it may meet.
Proceed(p) ==
  \/ CheckWork(p) \/ AuthorizePolicy(p) \/ AdmitCircuit(p)
  \/ DebitAllowance(p) \/ RefuseDebit(p) \/ AdmitAttempt(p) \/ Refuse(p)
  \/ StartExchange(p) \/ Transmit(p) \/ WakeUp(p) \/ TimeOut(p)

Meet(p) ==
  \/ FailAttempt(p)
  \/ \E delay \in Delays \cup {NoDelay, InvalidDelay} : FailTransiently(p, delay)
  \/ \E model \in Models, usage \in Usages : Respond(p, model, usage)
  \/ DropFuture(p) \/ Kill(p)

Next ==
  \/ \E p \in Procs : Begin(p) \/ BeginRerank(p) \/ Proceed(p) \/ Meet(p)
  \/ ChangePolicy \/ SetClock \/ Tick

Spec == Init /\ [][Next]_vars

-----------------------------------------------------------------------------
(* Properties *)

\* The receipt never loses an attempt: each admitted one is active, completed,
\* unknown or discarded, each sent one active, completed or unknown, and none
\* is left active when the invocation stops, not even by a dropped future.
CostAccounted ==
  \A p \in Procs :
    LET a == adm[p]
        open == IF a.active = "none" THEN 0 ELSE 1
        flying == IF a.active = "sent" THEN 1 ELSE 0
    IN /\ a.admitted = a.completed + a.unknown + a.discarded + open
       /\ a.sent = a.completed + a.unknown + flying
       /\ pc[p] \in {"wideDone", "done", "failed", "backoff"} => open = 0

\* The receipt's view of an invocation, as the abstract specification names it.
StatusOf(p) == CASE pc[p] = "killed" -> "killed"
                 [] pc[p] \in {"done", "failed"} -> "stopped"
                 [] OTHER -> "working"

Meter == INSTANCE Metered WITH
  Ceiling <- MaxHttpAttempts, spent <- charged, paid <- debits,
  billed <- [p \in Procs |-> adm[p].completed + adm[p].unknown],
  status <- [p \in Procs |-> StatusOf(p)]

\* The stages implement the metered sender: across both stages, their retries,
\* dropped futures and kills, each request on the wire has a debit of its own,
\* the ceiling of HTTP attempts is one, and no invocation stops before its
\* receipt names every request that may have cost something.
SendsAreMetered == Meter!MeteredSpec

\* A probe: the circuit was open when this invocation was admitted, its outcome is
\* still to be settled, and it has time to send.
Probing(p) == ticket[p].held /\ ticket[p].probe = p /\ InTime(p)

\* A lease is stored as a wall-clock time and meant as a monotonic one.  Unless the
\* wall clock was set in between, a probe that nobody settles (the coordinator
\* refused, the future was dropped, the process was killed) blocks the others no
\* longer than its own deadline, and while an invocation may still send its probe
\* no other one probes the same opening of the circuit.
LeaseCoversInvocation ==
  /\ \A p \in Procs :
       row.probe = p /\ ProbeHeld(row, Wall) => InTime(p) \/ stepped[p]
  /\ \A p, q \in Procs :
       /\ p # q /\ Probing(p) /\ Probing(q)
       /\ ticket[p].generation = ticket[q].generation
       => stepped[p] \/ stepped[q]

\* Each attempt, a retry too, has an authorization of its own: bytes leave only if
\* trusted policy granted at some moment since that attempt began, never on the
\* strength of an earlier attempt's check.
SendsAreWarranted ==
  [][\A p \in Procs : pc[p] = "started" /\ pc'[p] = "wire" => top[p]]_vars

\* An invocation always comes to an end, whatever the provider, the circuit
\* and the allowance do: again and again there is a moment at which none runs.
InvocationEnds == []<>(\A p \in Procs : pc[p] \notin Running)
=============================================================================
