-------------------------- MODULE AttemptAdmission --------------------------
(***************************************************************************)
(* The invocation-wide coordinator of HTTP attempts (src/jev/admission.rs, *)
(* AttemptAdmission): ceilings, stage order, one active attempt at a time  *)
(* and the receipt of known and unknown usage.  An attempt moves from      *)
(* admitted to sent to finished, or from admitted to discarded.            *)
(***************************************************************************)
EXTENDS Integers

CONSTANTS
  MaxLogicalRequests,  \* AttemptBudget.max_logical_requests
  MaxHttpAttempts,     \* AttemptBudget.max_http_attempts
  MinAttemptReserve,   \* AttemptBudget.min_attempt_reserve_ms
  MaxUsage             \* the largest total of known usage (u64::MAX)

\* AttemptBudget::new.
ASSUME AttemptBudgetAssumption ==
  /\ MaxLogicalRequests \in Nat \ {0}
  /\ MaxHttpAttempts \in Nat \ {0}
  /\ MaxHttpAttempts >= MaxLogicalRequests
  /\ MinAttemptReserve \in Nat /\ MaxUsage \in Nat

Stages == {"wide", "rerank"}

Coordinators ==
  [admitted : Nat, sent : Nat, completed : Nat, unknown : Nat,
   discarded : Nat, usage : 0 .. MaxUsage, logical : 0 .. MaxLogicalRequests,
   stage : Stages \cup {"none"}, stageCompleted : BOOLEAN,
   wideCompleted : BOOLEAN, active : {"none", "admitted", "sent"}]

\* AttemptAdmission::new.
NewCoordinator ==
  [admitted |-> 0, sent |-> 0, completed |-> 0, unknown |-> 0, discarded |-> 0,
   usage |-> 0, logical |-> 0, stage |-> "none", stageCompleted |-> FALSE,
   wideCompleted |-> FALSE, active |-> "none"]

-----------------------------------------------------------------------------
(* admit *)

\* The first attempt of a stage is a new logical request, a retry is not.
NewLogicalRequest(a, stage) == a.stage # stage \/ a.stageCompleted

\* remaining is the time left before the cleanup reserve.
MayAdmit(a, stage, remaining) ==
  /\ a.active = "none"
  /\ remaining > 0 /\ remaining >= MinAttemptReserve
  /\ stage = "rerank" => a.wideCompleted
  /\ NewLogicalRequest(a, stage) => a.logical < MaxLogicalRequests
  /\ a.admitted < MaxHttpAttempts

AfterAdmission(a, stage) ==
  LET counted == [a EXCEPT !.admitted = @ + 1, !.active = "admitted"]
  IN IF NewLogicalRequest(a, stage)
     THEN [counted EXCEPT !.logical = @ + 1, !.stage = stage,
                          !.stageCompleted = FALSE]
     ELSE counted

RemainingHttpAttempts(a) == MaxHttpAttempts - a.admitted

-----------------------------------------------------------------------------
(* record_sent, record_response, record_terminal_failure, record_discard *)

AfterSent(a) == [a EXCEPT !.sent = @ + 1, !.active = "sent"]

AfterTerminalFailure(a) == [a EXCEPT !.unknown = @ + 1, !.active = "none"]

AfterDiscard(a) == [a EXCEPT !.discarded = @ + 1, !.active = "none"]

UsageFits(a, usage) == a.usage + usage <= MaxUsage

\* Usage that would overflow the counters leaves the attempt unknown.
AfterResponse(a, stage, usage) ==
  IF UsageFits(a, usage)
  THEN [a EXCEPT !.completed = @ + 1, !.usage = @ + usage,
                 !.wideCompleted = @ \/ stage = "wide",
                 !.stageCompleted = TRUE, !.active = "none"]
  ELSE AfterTerminalFailure(a)

\* AttemptFlight::finish without a response, which its Drop also runs: a sent
\* attempt has unknown cost, an unsent one is discarded.
AfterFlight(a) ==
  CASE a.active = "sent" -> AfterTerminalFailure(a)
    [] a.active = "admitted" -> AfterDiscard(a)
    [] OTHER -> a
=============================================================================
