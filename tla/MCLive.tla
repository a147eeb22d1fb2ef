------------------------------- MODULE MCLive -------------------------------
(* What must eventually happen, of four components that do not share state: *)
(* `part' names the one that runs, under the fairness stated below, the others *)
(* stay as they began.                                                      *)
EXTENDS Integers, FiniteSets

CONSTANTS p1, p2, NoProc, o1, m1, NoModel,
          r1, r2, key1, list1, LowNeed, NoLease, NoRow, NoContext,
          NoCursor, NoMark, NoId, NoEvent, Event0

VARIABLES
  part,
  guard, durable, lock, acct, charges, receipts, clock, step, seen, want, req,
  debited, grants, faults,
  row, charged, granted, now, skew, pc, end, adm, ticket, wake, wide,
  top, stepped, debits, wires,
  gen, lease, rows, wall, boot, back, at, key, slot, ends, tried, asOf, first,
  moved, until, led, list, got, served,
  file, born, swaps, hour, rankings, cursor, seenLoads, gone, cuts, place, resume,
  snap, expected

Allow == INSTANCE Allowance WITH
  Procs <- {p1}, Origins <- {o1}, Limits <- {1, 2}, WINDOW_MS <- 1,
  RETAINED_WINDOWS <- 0, MaxTime <- 0, MaxGen <- 3, MaxFaultKinds <- 0,
  now <- clock, pc <- step

Stage == INSTANCE ProviderStage WITH
  Procs <- {p1, p2}, OPEN_AFTER_FAILURES <- 1, BASE_COOLDOWN_MS <- 1,
  MAX_COOLDOWN_MS <- 1, MAX_RETRY_AFTER_MS <- 1, MaxLogicalRequests <- 1,
  MaxHttpAttempts <- 2, MinAttemptReserve <- 1, MaxUsage <- 1, Models <- {m1},
  Usages <- {0}, Delays <- {}, Backoff <- 1, Deadline <- 3, Limit <- 2,
  Skews <- {0}, MaxTime <- 3

Coord == INSTANCE Coordination WITH
  Runs <- {r1, r2}, Owners <- {r1, r2}, Requests <- {key1}, Shortlists <- {list1},
  LeaseTtl <- 1, CacheTtl <- 2, MaxFence <- 3, MaxGeneration <- 0, MaxTime <- 2,
  MaxStepBack <- 0, WorkBudget <- 2, StoreFails <- FALSE,
  pc <- at, wide <- first

Obs == INSTANCE Observing WITH
  BYTE_CAP <- 4, RECORD_CAP <- 4, OVERLAP <- 3, Passes <- {p1}, Sizes <- {2},
  WINDOW <- 1, MaxLines <- 3, MaxTime <- 0, MaxCursor <- 1, MaxEmit <- 0,
  MaxReplace <- 0, MaxDelete <- 0, Wraps <- TRUE,
  now <- hour, rows <- seenLoads, pc <- place

\* The same over a shorter transcript that is replaced once.
Renewed == INSTANCE Observing WITH
  BYTE_CAP <- 4, RECORD_CAP <- 4, OVERLAP <- 3, Passes <- {p1}, Sizes <- {2},
  WINDOW <- 1, MaxLines <- 2, MaxTime <- 0, MaxCursor <- 1, MaxEmit <- 0,
  MaxReplace <- 1, MaxDelete <- 0, Wraps <- TRUE,
  now <- hour, rows <- seenLoads, pc <- place

allowVars == <<guard, durable, lock, acct, charges, receipts, clock, step, seen,
               want, req, debited, grants, faults>>
stageVars == <<row, charged, granted, now, skew, pc, end, adm, ticket, wake, wide,
               top, stepped, debits, wires>>
coordVars == <<gen, lease, rows, wall, boot, back, at, key, slot, ends, tried, asOf,
               first, moved, until, led, list, got, served>>
obsVars == <<file, born, swaps, hour, rankings, cursor, seenLoads, gone, cuts, place,
             resume, snap, expected>>
vars == <<part, allowVars, stageVars, coordVars, obsVars>>

Init ==
  /\ part \in {"allowance", "stages", "coordination", "observing", "renewed"}
  /\ Allow!Init /\ Stage!Init /\ Obs!Init
  /\ Coord!Init /\ boot = 0 /\ at = [p \in {r1, r2} |-> "idle"]

Next ==
  \/ /\ part = "allowance" /\ Allow!Next
     /\ UNCHANGED <<part, stageVars, coordVars, obsVars>>
  \/ /\ part = "stages" /\ Stage!Next
     /\ UNCHANGED <<part, allowVars, coordVars, obsVars>>
  \/ /\ part = "coordination" /\ Coord!Next
     /\ UNCHANGED <<part, allowVars, stageVars, obsVars>>
  \/ /\ \/ part = "observing" /\ Obs!Keeps
        \/ part = "renewed" /\ Renewed!Keeps
     /\ UNCHANGED <<part, allowVars, stageVars, coordVars>>

\* A user whose setup was interrupted runs it again with the same limit, an
\* invocation returns, and no fault strikes the same step of every retry.
Resume == part = "allowance" /\ Allow!Resume(p1)
Resumed(A) == part = "allowance" /\ Allow!Resuming(p1) /\ A
Alone(A) == part = "allowance" /\ A
Retries ==
  /\ WF_allowVars(Alone(Allow!Send(p1)))
  /\ WF_allowVars(Alone(Allow!AdmitFails(p1))) /\ WF_allowVars(Alone(Allow!SetupFails(p1)))
  /\ SF_allowVars(Resume)
  /\ SF_allowVars(Resumed(Allow!SetupLock(p1))) /\ SF_allowVars(Resumed(Allow!SetupPlan(p1)))
  /\ SF_allowVars(Alone(Allow!PublishIntent(p1))) /\ SF_allowVars(Alone(Allow!SyncIntent(p1)))
  /\ SF_allowVars(Alone(Allow!SetupAccount(p1))) /\ SF_allowVars(Alone(Allow!PublishReady(p1)))

\* Time passes, and the runtime polls what can go on by itself.
Polled ==
  /\ WF_stageVars(part = "stages" /\ Stage!Tick)
  /\ \A p \in {p1, p2} : WF_stageVars(part = "stages" /\ Stage!Proceed(p))

\* A run that is neither killed nor finished keeps being scheduled.
Scheduled ==
  /\ WF_coordVars(part = "coordination" /\ Coord!Tick)
  /\ \A p \in {r1, r2} : WF_coordVars(part = "coordination" /\ Coord!Step(p))

\* sr observe goes on being run, and each pass ends.
Repeated ==
  WF_obsVars(\/ part = "observing" /\ Obs!Step(p1)
             \/ part = "renewed" /\ Renewed!Step(p1))

Spec == Init /\ [][Next]_vars /\ Retries /\ Polled /\ Scheduled /\ Repeated

\* A setup interrupted anywhere is brought out of its intent by running it again
\* (allowance.rs, apply_setup).
IntentIsResumed == Allow!IntentIsResumed

\* An invocation ends whatever the provider does (retry.rs, drive_exchange).
InvocationEnds == Stage!InvocationEnds

\* Every run ends, a follower of a killed leader too (pipeline.rs, the wait for
\* a leader).
RunEnds == Coord!RunEnds

\* Every load of a transcript is observed in the end, of one that was replaced too
\* (jsonl.rs, read_snapshot).
EveryLoadObserved ==
  /\ part = "observing" => Obs!EveryLoadObserved
  /\ part = "renewed" => Renewed!EveryLoadObserved
=============================================================================
