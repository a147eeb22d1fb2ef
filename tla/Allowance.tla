------------------------------ MODULE Allowance ------------------------------
(***************************************************************************)
(* The trusted shared HTTP-attempt allowance (src/allowance.rs).           *)
(*                                                                         *)
(* Two stores and no transaction that spans both: the guard file, which    *)
(* only `sr budget --apply` writes, and the accounting database, which     *)
(* every admission debits.  Both kinds of operation run under one flock.   *)
(* Every `sr` process of the user is a member of Procs; it is idle, inside *)
(* apply_setup or inside admit.  The environment may kill a process, cut   *)
(* the power, move the wall clock, delete the cache directory, damage a    *)
(* stored total or delete the guard file.                                  *)
(***************************************************************************)
EXTENDS Integers, FiniteSets

CONSTANTS
  Procs,             \* the user's sr processes
  NoProc,            \* the lock's holder when it is free
  Origins,           \* canonical endpoint origins
  Limits,            \* the --max-attempts values users ask for
  WINDOW_MS,         \* length of the fixed accounting window
  RETAINED_WINDOWS,  \* closed windows whose rows are kept
  MaxTime,           \* bound: latest wall-clock reading
  MaxGen,            \* the last generation (i64::MAX in the code)
  MaxFaultKinds      \* bound: kinds of loss one activation suffers

ASSUME ProcsAssumption == NoProc \notin Procs
ASSUME OriginsAssumption == Origins # {}
ASSUME LimitsAssumption == Limits \subseteq Nat \ {0}
ASSUME WindowAssumption == WINDOW_MS \in Nat \ {0} /\ RETAINED_WINDOWS \in Nat
ASSUME BoundsAssumption ==
  MaxTime \in Nat /\ MaxGen \in Nat \ {0} /\ MaxFaultKinds \in 0 .. 2

VARIABLES
  guard,     \* the guard file as a reader sees it
  durable,   \* the guard file as it would be found after a power loss
  lock,      \* holder of the guard's flock
  acct,      \* the accounting database: its schema state and metadata row
  charges,   \* allowance_charges.attempts, per origin and window
  receipts,  \* rows of allowance_attempts, per origin and window
  now,       \* the wall clock
  pc,        \* where each process is
  seen,      \* the guard each process read last
  want,      \* limit an apply_setup was asked for, generation it planned
  req,       \* origin an admission is for, window it charged
  debited,   \* history: debits committed since this activation began
  grants,    \* history: the <<generation, limit>> pairs debits were made under
  faults     \* history: "rename" or "cache", what this activation has lost

fileVars == <<guard, durable>>
acctVars == <<acct, charges, receipts>>
procVars == <<pc, seen, want, req>>
histVars == <<debited, grants, faults>>
vars == <<guard, durable, lock, acct, charges, receipts, now,
          pc, seen, want, req, debited, grants, faults>>

-----------------------------------------------------------------------------
(* Data *)

\* Windows are numbered: window k is [k * WINDOW_MS, (k + 1) * WINDOW_MS).
WindowOf(t) == t \div WINDOW_MS
Windows == {WindowOf(t) : t \in 0 .. MaxTime}

\* The decoded guard file; "absent" is a file that does not exist.
Guards == [phase : {"absent", "intent", "ready"}, gen : 0 .. MaxGen,
           max : Limits \cup {0}]
NoGuard == [phase |-> "absent", gen |-> 0, max |-> 0]

NoAccounting == [state |-> "missing", gen |-> 0, last |-> 0]
NoPlan == [max |-> 0, gen |-> 0, acctGen |-> 0]
NoRequest == [origin |-> CHOOSE o \in Origins : TRUE, window |-> WindowOf(0)]
NoCounts == [o \in Origins |-> [w \in Windows |-> 0]]

\* ready_generation, or 0 for a database that has no schema yet.
AcctGen == IF acct.state = "ready" THEN acct.gen ELSE 0

\* Steps in which a process holds the flock.
AdmitLocked == {"admitting", "charging", "debited"}
SetupLocked == {"planning", "intent", "intentSync", "account", "ready",
                "readySync"}
PCs == {"idle", "waiting", "unlocked", "granted", "setup"}
       \cup AdmitLocked \cup SetupLocked

\* Every variable has its type.  In particular no order of setups, power losses
\* and cleared caches plans or stores a generation past the last one SQLite can
\* hold (plan_setup's range checks).
TypeOK ==
  /\ guard \in Guards /\ durable \in Guards
  /\ lock \in Procs \cup {NoProc}
  /\ acct \in [state : {"missing", "empty", "ready"}, gen : 0 .. MaxGen,
               last : 0 .. MaxTime]
  /\ charges \in [Origins -> [Windows -> Nat]]
  /\ receipts \in [Origins -> [Windows -> Nat]]
  /\ now \in 0 .. MaxTime
  /\ pc \in [Procs -> PCs]
  /\ seen \in [Procs -> Guards]
  /\ want \in [Procs -> [max : Limits \cup {0}, gen : 0 .. MaxGen,
                         acctGen : 0 .. MaxGen]]
  /\ req \in [Procs -> [origin : Origins, window : Windows]]
  /\ debited \in [Origins -> [Windows -> Nat]]
  /\ grants \subseteq (0 .. MaxGen) \X Limits
  /\ faults \subseteq {"rename", "cache"}

Init ==
  /\ guard = NoGuard /\ durable = NoGuard
  /\ lock = NoProc
  /\ acct = NoAccounting
  /\ charges = NoCounts /\ receipts = NoCounts
  /\ now \in 0 .. MaxTime
  /\ pc = [p \in Procs |-> "idle"]
  /\ seen = [p \in Procs |-> NoGuard]
  /\ want = [p \in Procs |-> NoPlan]
  /\ req = [p \in Procs |-> NoRequest]
  /\ debited = NoCounts /\ grants = {} /\ faults = {}

-----------------------------------------------------------------------------
(* Control *)

Goto(p, from, to) == pc[p] = from /\ pc' = [pc EXCEPT ![p] = to]

\* Returning (or dying) drops the locals and closes the locked file, which
\* releases the flock.
Return(p) ==
  /\ pc' = [pc EXCEPT ![p] = "idle"]
  /\ lock' = IF lock = p THEN NoProc ELSE lock
  /\ seen' = [seen EXCEPT ![p] = NoGuard]
  /\ want' = [want EXCEPT ![p] = NoPlan]
  /\ req' = [req EXCEPT ![p] = NoRequest]

\* GuardLock::acquire: a nonblocking flock retried until the budget is spent.
Acquire(p, from, to) ==
  /\ Goto(p, from, to)
  /\ lock = NoProc
  /\ lock' = p

-----------------------------------------------------------------------------
(* apply_setup *)

\* `sr budget --max-attempts m --apply` starts and queues for the lock.
SetupStart(p, m) ==
  /\ Goto(p, "idle", "setup")
  /\ want' = [want EXCEPT ![p].max = m]
  /\ UNCHANGED <<fileVars, lock, acctVars, now, seen, req, histVars>>

SetupLock(p) ==
  /\ Acquire(p, "setup", "planning")
  /\ UNCHANGED <<fileVars, acctVars, now, seen, want, req, histVars>>

\* Mutant of FirstActivation: an interrupted first intent is not recognised.
FirstActivationNoRetry(g, m) == g.phase = "absent"

\* First activation, or the exact retry of its interrupted first intent.
FirstActivation(g, m) ==
  \/ g.phase = "absent"
  \/ g.phase = "intent" /\ g.gen = 1 /\ g.max = m

Greater(a, b) == IF a > b THEN a ELSE b

Unchanged(g, ag, m) == g.phase = "ready" /\ g.max = m /\ g.gen = ag

\* Mutants of TargetGen: a changed limit keeps the generation; the accounting's
\* generation is not looked at.
TargetGenNotAdvanced(g, ag, m) ==
  IF g.phase = "absent" THEN ag + 1 ELSE Greater(g.gen, ag)
TargetGenFromGuard(g, ag, m) ==
  IF (g.phase = "intent" /\ g.max = m) \/ Unchanged(g, ag, m)
  THEN g.gen ELSE g.gen + 1

\* plan_setup: the target generation; above MaxGen it is a refusal.
TargetGen(g, ag, m) ==
  IF Unchanged(g, ag, m) THEN g.gen
  ELSE IF g.phase = "intent" /\ g.max = m THEN Greater(g.gen, ag)
  ELSE Greater(g.gen, ag) + 1

\* The accounting opens: it has its schema, or this is a first activation,
\* which alone may create the database.
Opens(m) == acct.state = "ready" \/ FirstActivation(guard, m)

\* Mutant of WithinRange: the successor generation is not checked.
AnyGeneration(gen) == gen \in Nat

\* checked_add and the i64 range of a stored generation.
WithinRange(gen) == gen <= MaxGen

\* Reads the guard under the lock, opens the accounting and plans.
SetupPlan(p) ==
  LET m == want[p].max
      gen == TargetGen(guard, AcctGen, m)
  IN /\ Goto(p, "planning", "intent")
     /\ Opens(m)
     /\ ~Unchanged(guard, AcctGen, m)
     /\ WithinRange(gen)
     /\ seen' = [seen EXCEPT ![p] = guard]
     /\ want' = [want EXCEPT ![p].gen = gen, ![p].acctGen = AcctGen]
     /\ acct' = IF acct.state = "missing"
                THEN [acct EXCEPT !.state = "empty"] ELSE acct
     /\ UNCHANGED <<fileVars, lock, charges, receipts, now, req, histVars>>

\* Repeating a setup that is already in force writes nothing.
SetupUnchanged(p) ==
  /\ pc[p] = "planning"
  /\ Opens(want[p].max)
  /\ Unchanged(guard, AcctGen, want[p].max)
  /\ Return(p)
  /\ UNCHANGED <<fileVars, acctVars, now, histVars>>

Target(p, phase) == [phase |-> phase, gen |-> want[p].gen, max |-> want[p].max]

\* publish_guard, first half: the rename makes the new guard visible.  The
\* intent of a new activation starts the history of its debits afresh.
PublishIntent(p) ==
  /\ Goto(p, "intent", "intentSync")
  /\ guard' = Target(p, "intent")
  /\ IF seen[p].phase = "absent"
     THEN debited' = NoCounts /\ grants' = {} /\ faults' = {}
     ELSE UNCHANGED histVars
  /\ UNCHANGED <<durable, lock, acctVars, now, seen, want, req>>

PublishReady(p) ==
  /\ Goto(p, "ready", "readySync")
  /\ guard' = Target(p, "ready")
  /\ UNCHANGED <<durable, lock, acctVars, now, seen, want, req, histVars>>

\* publish_guard, second half: the directory fsync and the check that the
\* published file is still the one named.
SyncIntent(p) ==
  /\ Goto(p, "intentSync", "account")
  /\ guard = Target(p, "intent")
  /\ durable' = guard
  /\ UNCHANGED <<guard, lock, acctVars, now, seen, want, req, histVars>>

SyncReady(p) ==
  /\ pc[p] = "readySync"
  /\ guard = Target(p, "ready")
  /\ durable' = guard
  /\ Return(p)
  /\ UNCHANGED <<guard, acctVars, now, histVars>>

\* Step 2, one IMMEDIATE transaction: recheck the generation the plan was made
\* from, create what is missing, record the new generation, keep every charge.
SetupAccount(p) ==
  /\ Goto(p, "account", "ready")
  /\ acct.state # "missing"
  /\ AcctGen = want[p].acctGen
  /\ acct' = [state |-> "ready", gen |-> want[p].gen, last |-> acct.last]
  /\ UNCHANGED <<fileVars, lock, charges, receipts, now, seen, want, req,
                 histVars>>

\* Any refusal, lock timeout or I/O error: apply_setup returns an error and
\* whatever was already published stays.
SetupFails(p) ==
  /\ pc[p] \in SetupLocked \cup {"setup"}
  /\ Return(p)
  /\ UNCHANGED <<fileVars, acctVars, now, histVars>>

-----------------------------------------------------------------------------
(* admit *)

\* The unlocked read.  Without a guard the attempt is unguarded; with one, a
\* process that may not persist is refused and any other queues for the lock.
AdmitPeek(p, o, persistent) ==
  /\ pc[p] = "idle"
  /\ req' = [req EXCEPT ![p].origin = o]
  /\ seen' = [seen EXCEPT ![p] = guard]
  /\ \/ guard.phase = "absent" /\ pc' = [pc EXCEPT ![p] = "granted"]
     \/ guard.phase # "absent" /\ persistent
        /\ pc' = [pc EXCEPT ![p] = "waiting"]
  /\ UNCHANGED <<fileVars, lock, acctVars, now, want, histVars>>

\* Mutant of AdmitLock: the guard is read and charged without the flock.
AdmitUnlocked(p) ==
  /\ Goto(p, "waiting", "admitting")
  /\ UNCHANGED <<fileVars, lock, acctVars, now, seen, want, req, histVars>>

AdmitLock(p) ==
  /\ Acquire(p, "waiting", "admitting")
  /\ UNCHANGED <<fileVars, acctVars, now, seen, want, req, histVars>>

\* The guard is read again under the lock: gone means unguarded, an intent
\* refuses (AdmitFails), a ready guard goes on to the debit.
AdmitRead(p) ==
  /\ pc[p] = "admitting"
  /\ seen' = [seen EXCEPT ![p] = guard]
  /\ \/ /\ guard.phase = "absent"
        /\ pc' = [pc EXCEPT ![p] = "granted"]
        /\ lock' = NoProc
     \/ /\ guard.phase = "ready"
        /\ pc' = [pc EXCEPT ![p] = "charging"]
        /\ UNCHANGED lock
  /\ UNCHANGED <<fileVars, acctVars, now, want, req, histVars>>

\* Rows of windows that closed long ago are deleted by the debit.
Pruned(f, w) ==
  [o \in Origins |-> [v \in Windows |-> IF v < w - RETAINED_WINDOWS
                                        THEN 0 ELSE f[o][v]]]

\* Mutant of Charged: the total is trusted without its receipts.
TotalOnly(o, w, n) == charges[o][w] = n

\* verified_charged: the total and the receipts agree on what was charged.
Charged(o, w, n) == charges[o][w] = n /\ receipts[o][w] = n

\* The debit, one IMMEDIATE synchronous=FULL transaction.
AdmitCommit(p) ==
  LET o == req[p].origin
      w == WindowOf(now)
  IN /\ Goto(p, "charging", "debited")
     /\ acct.state = "ready"
     /\ acct.gen = seen[p].gen
     /\ now >= acct.last
     /\ Charged(o, w, charges[o][w])
     /\ charges[o][w] < seen[p].max
     /\ charges' = Pruned([charges EXCEPT ![o][w] = @ + 1], w)
     /\ receipts' = Pruned([receipts EXCEPT ![o][w] = @ + 1], w)
     /\ acct' = [acct EXCEPT !.last = now]
     /\ req' = [req EXCEPT ![p].window = w]
     /\ debited' = [debited EXCEPT ![o][w] = @ + 1]
     /\ grants' = grants \cup {<<seen[p].gen, seen[p].max>>}
     /\ UNCHANGED <<fileVars, lock, now, seen, want, faults>>

\* Connection and lock are dropped before the last deadline check.
AdmitUnlock(p) ==
  /\ Goto(p, "debited", "unlocked")
  /\ lock' = NoProc
  /\ UNCHANGED <<fileVars, acctVars, now, seen, want, req, histVars>>

AdmitGrant(p) ==
  /\ Goto(p, "unlocked", "granted")
  /\ UNCHANGED <<fileVars, lock, acctVars, now, seen, want, req, histVars>>

\* Every refusal: lock busy, budget expired, intent, mismatch, clock behind,
\* exhausted, storage failure, post-commit verification.  No debit is undone.
AdmitFails(p) ==
  /\ pc[p] \in AdmitLocked \cup {"waiting", "unlocked"}
  /\ Return(p)
  /\ UNCHANGED <<fileVars, acctVars, now, histVars>>

\* The caller transmits; nothing rereads the guard or the clock in between.
Send(p) ==
  /\ pc[p] = "granted"
  /\ Return(p)
  /\ UNCHANGED <<fileVars, acctVars, now, histVars>>

-----------------------------------------------------------------------------
(* inspect *)

\* Mutant of Health: the clock is not compared with the last charge.
HealthAnyClock(o) ==
  CASE guard.phase = "absent" -> "disabled"
    [] ~Charged(o, WindowOf(now), charges[o][WindowOf(now)]) -> "invalid"
    [] guard.phase = "intent" -> "setup-incomplete"
    [] acct.state # "ready" -> "accounting-missing"
    [] acct.gen # guard.gen -> "generation-mismatch"
    [] OTHER -> "ready"

\* What `sr budget` reports of the guard and its accounting, without the lock.
Health(o) ==
  CASE guard.phase = "absent" -> "disabled"
    [] ~Charged(o, WindowOf(now), charges[o][WindowOf(now)]) -> "invalid"
    [] guard.phase = "intent" -> "setup-incomplete"
    [] acct.state # "ready" -> "accounting-missing"
    [] acct.gen # guard.gen -> "generation-mismatch"
    [] now < acct.last -> "clock-behind-charges"
    [] OTHER -> "ready"

Remaining(o) ==
  LET used == charges[o][WindowOf(now)]
  IN IF used >= guard.max THEN 0 ELSE guard.max - used

-----------------------------------------------------------------------------
(* Environment *)

\* The process is killed; the kernel releases its flock.
Crash(p) ==
  /\ pc[p] # "idle"
  /\ Return(p)
  /\ UNCHANGED <<fileVars, acctVars, now, histVars>>

\* What the current activation has lost of its stored state.
Suffer(kind) ==
  /\ faults' = faults \cup {kind}
  /\ Cardinality(faults') <= MaxFaultKinds

\* A rename that no directory fsync followed may be lost with the power.
PowerLoss ==
  /\ guard' \in {guard, durable}
  /\ durable' = guard'
  /\ lock' = NoProc
  /\ pc' = [p \in Procs |-> "idle"]
  /\ seen' = [p \in Procs |-> NoGuard]
  /\ want' = [p \in Procs |-> NoPlan]
  /\ req' = [p \in Procs |-> NoRequest]
  /\ IF guard' = guard THEN UNCHANGED faults ELSE Suffer("rename")
  /\ UNCHANGED <<acctVars, now, debited, grants>>

\* The wall clock moves, forwards or back.
ClockMoves ==
  /\ now' \in (0 .. MaxTime) \ {now}
  /\ UNCHANGED <<fileVars, lock, acctVars, procVars, histVars>>

\* The private cache directory is cleared.
LoseAccounting ==
  /\ acct.state # "missing"
  /\ acct' = NoAccounting
  /\ charges' = NoCounts /\ receipts' = NoCounts
  /\ Suffer("cache")
  /\ UNCHANGED <<fileVars, lock, now, procVars, debited, grants>>

\* A stored total disappears while its receipts remain.
AlterTotal ==
  /\ \E o \in Origins, w \in Windows :
       /\ charges[o][w] > 0
       /\ charges' = [charges EXCEPT ![o][w] = 0]
  /\ UNCHANGED <<fileVars, lock, acct, receipts, now, procVars, histVars>>

\* The user turns the allowance off by deleting the guard file.
RemoveGuard ==
  /\ guard.phase # "absent"
  /\ guard' = NoGuard /\ durable' = NoGuard
  /\ UNCHANGED <<lock, acctVars, now, procVars, histVars>>

-----------------------------------------------------------------------------
Setup(p) ==
  \/ \E m \in Limits : SetupStart(p, m)
  \/ SetupLock(p) \/ SetupPlan(p) \/ SetupUnchanged(p)
  \/ PublishIntent(p) \/ SyncIntent(p)
  \/ SetupAccount(p)
  \/ PublishReady(p) \/ SyncReady(p)
  \/ SetupFails(p)

Admit(p) ==
  \/ \E o \in Origins, persistent \in BOOLEAN : AdmitPeek(p, o, persistent)
  \/ AdmitLock(p) \/ AdmitRead(p) \/ AdmitCommit(p)
  \/ AdmitUnlock(p) \/ AdmitGrant(p) \/ AdmitFails(p)
  \/ Send(p)

Environment ==
  \/ PowerLoss \/ ClockMoves \/ LoseAccounting \/ AlterTotal \/ RemoveGuard

Next ==
  \/ \E p \in Procs : Setup(p) \/ Admit(p) \/ Crash(p)
  \/ Environment

Spec == Init /\ [][Next]_vars

\* A user whose setup was interrupted runs it again with the same limit.
Resume(p) == guard.phase = "intent" /\ SetupStart(p, guard.max)
Resuming(p) == guard.phase = "intent" /\ want[p].max = guard.max

-----------------------------------------------------------------------------
(* Properties *)

\* A debit is made only under the guard that is in force when it commits: a
\* process that read the guard under the lock cannot charge against a limit or
\* a generation that a concurrent setup has meanwhile replaced, and nothing is
\* charged while an intent is published (admit, apply_setup step 1).
DebitUnderCurrentGuard ==
  [][\A p \in Procs :
       pc[p] = "charging" /\ pc'[p] = "debited"
       => /\ guard \in {seen[p], NoGuard}
          /\ seen[p].phase = "ready"
          /\ acct.gen = seen[p].gen]_vars

\* No sequence of crashes, clock moves, damaged totals, retried or changed
\* setups, and lost renames or cleared caches (MaxFaultKinds of the two), lets
\* one activation debit more than its limit in one window of one origin:
\* charges are kept, never reset ("keeping every charge"; "restore its history
\* instead of resetting charges").
DebitWithinLimit ==
  [][\A p \in Procs :
       pc[p] = "charging" /\ pc'[p] = "debited"
       => debited'[req'[p].origin][req'[p].window] <= seen[p].max]_vars

\* A generation names one policy: every debit of an activation that carries a
\* generation was made under the same limit, whatever setups were interrupted
\* and retried with another limit in between (plan_setup).
GenerationNamesLimit ==
  \A a, b \in grants : a[1] = b[1] => a[2] = b[2]

\* The accounting never gets ahead of a guard that is present, so a crash
\* between the steps of a setup can only be resumed or superseded
\* (apply_setup's order: intent, accounting, ready).
AccountingFollowsGuard ==
  guard.phase # "absent" => AcctGen <= guard.gen

\* A setup interrupted after its intent was published does not block the
\* allowance for good: retrying --apply brings the guard out of the intent.
IntentIsResumed == guard.phase = "intent" ~> guard.phase # "intent"

\* `sr budget` is honest about the next attempt: it reports "ready" with
\* something remaining exactly when a process that reads this guard under the
\* lock would be allowed to commit its debit now (inspect against admit).
HealthPredictsAdmission ==
  \A p \in Procs :
    pc[p] = "charging" /\ seen[p] = guard
    => (ENABLED AdmitCommit(p)
        <=> Health(req[p].origin) = "ready" /\ Remaining(req[p].origin) > 0)

=============================================================================
