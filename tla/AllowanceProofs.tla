--------------------------- MODULE AllowanceProofs ---------------------------
(***************************************************************************)
(* Theorems about Allowance, for every set of processes, origins and       *)
(* limits, every window length and every bound.                            *)
(*                                                                         *)
(* The flock is what the safety of the allowance rests on: the inductive   *)
(* invariant says who holds it (LockInv), what an admission that is about  *)
(* to debit knows of the guard (ChargeInv), and what a setup in progress   *)
(* knows of the guard file and of the accounting (SetupInv).  PolicyInv    *)
(* adds that every policy in sight covers the debits made so far.          *)
(***************************************************************************)
EXTENDS Allowance, FiniteSetTheorems, TLAPS

-----------------------------------------------------------------------------
(* Operators of the model                                                  *)

Assumptions ==
  /\ NoProc \notin Procs /\ Origins # {}
  /\ Limits \subseteq Nat \ {0}
  /\ WINDOW_MS \in Nat \ {0} /\ RETAINED_WINDOWS \in Nat
  /\ MaxTime \in Nat /\ MaxGen \in Nat \ {0}

\* The assumptions on the constants, gathered under one name that proofs cite.
LEMMA AssumptionsHold == Assumptions
BY ProcsAssumption, OriginsAssumption, LimitsAssumption, WindowAssumption,
   BoundsAssumption DEF Assumptions

\* The generation a setup plans is never behind the accounting it was planned
\* from (plan_setup).
LEMMA TargetGenCovers ==
  ASSUME NEW g \in Guards, NEW ag \in 0 .. MaxGen, NEW m
  PROVE  TargetGen(g, ag, m) \in Nat /\ TargetGen(g, ag, m) >= ag
<1>1. g.gen \in Nat /\ ag \in Nat
  BY AssumptionsHold DEF Guards, Assumptions
<1>2. Greater(g.gen, ag) \in Nat /\ Greater(g.gen, ag) >= ag
  BY <1>1 DEF Greater
<1>3. CASE Unchanged(g, ag, m)
  BY <1>1, <1>3 DEF TargetGen, Unchanged
<1>4. CASE ~Unchanged(g, ag, m) /\ g.phase = "intent" /\ g.max = m
  BY <1>2, <1>4 DEF TargetGen
<1>5. CASE ~Unchanged(g, ag, m) /\ ~(g.phase = "intent" /\ g.max = m)
  <2>1. TargetGen(g, ag, m) = Greater(g.gen, ag) + 1
    BY <1>5 DEF TargetGen
  <2> QED BY <2>1, <1>2
<1> QED BY <1>3, <1>4, <1>5

\* The arithmetic facts about the constants that the type proofs need.
LEMMA Constants ==
  /\ NoGuard \in Guards
  /\ NoAccounting \in [state : {"missing", "empty", "ready"}, gen : 0 .. MaxGen,
                       last : 0 .. MaxTime]
  /\ NoPlan \in [max : Limits \cup {0}, gen : 0 .. MaxGen, acctGen : 0 .. MaxGen]
  /\ NoRequest \in [origin : Origins, window : Windows]
  /\ NoCounts \in [Origins -> [Windows -> Nat]]
<1>1. (CHOOSE o \in Origins : TRUE) \in Origins
  BY AssumptionsHold DEF Assumptions
<1>2. 0 \in 0 .. MaxTime /\ 0 \in 0 .. MaxGen
  BY AssumptionsHold DEF Assumptions
<1>3. WindowOf(0) \in Windows
  BY <1>2 DEF Windows
<1> QED
  BY <1>1, <1>2, <1>3 DEF NoGuard, Guards, NoAccounting, NoPlan, NoRequest, NoCounts

\* Pruning old windows keeps a table of debits a table of debits.
LEMMA PrunedType ==
  ASSUME NEW f \in [Origins -> [Windows -> Nat]], NEW w
  PROVE  Pruned(f, w) \in [Origins -> [Windows -> Nat]]
BY DEF Pruned

\* The debits counted in a window are a natural number.
LEMMA CountType ==
  ASSUME NEW f \in [Origins -> [Windows -> Nat]], NEW o \in Origins, NEW w \in Windows
  PROVE  [f EXCEPT ![o][w] = @ + 1] \in [Origins -> [Windows -> Nat]]
OBVIOUS

\* A call that returns leaves its process record well-typed.
LEMMA ReturnType ==
  ASSUME TypeOK, NEW p \in Procs, Return(p)
  PROVE  /\ lock' \in Procs \cup {NoProc}
         /\ pc' \in [Procs -> PCs]
         /\ seen' \in [Procs -> Guards]
         /\ want' \in [Procs -> [max : Limits \cup {0}, gen : 0 .. MaxGen,
                                 acctGen : 0 .. MaxGen]]
         /\ req' \in [Procs -> [origin : Origins, window : Windows]]
BY Constants DEF TypeOK, Return, PCs

-----------------------------------------------------------------------------
(* Type correctness                                                        *)

\* The generation stored in the accounting database is within range.
LEMMA AcctGenType == TypeOK => AcctGen \in 0 .. MaxGen
BY AssumptionsHold DEF TypeOK, AcctGen, Assumptions

\* The initial state is well-typed.
LEMMA TypeInit == Init => TypeOK
BY Constants DEF Init, TypeOK, PCs

\* Every step of sr budget --apply keeps the state well-typed.
LEMMA TypeSetup ==
  ASSUME TypeOK, NEW p \in Procs, Setup(p)
  PROVE  TypeOK'
<1>1. ASSUME NEW m \in Limits, SetupStart(p, m) PROVE TypeOK'
  BY <1>1 DEF SetupStart, Goto, TypeOK, PCs, SetupLocked, AdmitLocked, fileVars, acctVars, histVars
<1>2. CASE SetupLock(p)
  BY <1>2 DEF SetupLock, Acquire, Goto, TypeOK, PCs, SetupLocked, AdmitLocked,
     fileVars, acctVars, histVars
<1>3. CASE SetupPlan(p)
  <2> DEFINE gen == TargetGen(guard, AcctGen, want[p].max)
  <2>1. gen \in 0 .. MaxGen
    BY <1>3, TargetGenCovers, AcctGenType, AssumptionsHold
       DEF SetupPlan, WithinRange, TypeOK, Assumptions
  <2>2. want' \in [Procs -> [max : Limits \cup {0}, gen : 0 .. MaxGen,
                             acctGen : 0 .. MaxGen]]
    <3> HIDE DEF gen
    <3>1. want' = [want EXCEPT ![p].gen = gen, ![p].acctGen = AcctGen]
      BY <1>3 DEF SetupPlan, gen
    <3> QED BY <2>1, <3>1, AcctGenType DEF TypeOK
  <2>3. acct' \in [state : {"missing", "empty", "ready"}, gen : 0 .. MaxGen, last : 0 .. MaxTime]
    BY <1>3 DEF SetupPlan, TypeOK
  <2>4. pc' \in [Procs -> PCs] /\ seen' \in [Procs -> Guards]
    BY <1>3 DEF SetupPlan, Goto, TypeOK, PCs, SetupLocked
  <2> QED
    BY <1>3, <2>2, <2>3, <2>4 DEF SetupPlan, TypeOK, fileVars, histVars
<1>4. CASE SetupUnchanged(p)
  BY <1>4, ReturnType DEF SetupUnchanged, TypeOK, fileVars, acctVars, histVars
<1>5. CASE PublishIntent(p)
  <2>1. guard' \in Guards
    BY <1>5 DEF PublishIntent, Target, Guards, TypeOK
  <2>2. debited' \in [Origins -> [Windows -> Nat]] /\ grants' \subseteq (0 .. MaxGen) \X Limits
        /\ faults' \subseteq {"rename", "cache"}
    BY <1>5, Constants DEF PublishIntent, TypeOK, histVars
  <2>3. pc' \in [Procs -> PCs]
    BY <1>5 DEF PublishIntent, Goto, TypeOK, PCs, SetupLocked
  <2> QED
    BY <1>5, <2>1, <2>2, <2>3 DEF PublishIntent, TypeOK, acctVars
<1>6. CASE SyncIntent(p)
  BY <1>6 DEF SyncIntent, Goto, TypeOK, PCs, SetupLocked, acctVars, histVars
<1>7. CASE SetupAccount(p)
  <2>1. acct' \in [state : {"missing", "empty", "ready"}, gen : 0 .. MaxGen, last : 0 .. MaxTime]
    BY <1>7 DEF SetupAccount, TypeOK
  <2> QED
    BY <1>7, <2>1 DEF SetupAccount, Goto, TypeOK, PCs, SetupLocked, fileVars, histVars
<1>8. CASE PublishReady(p)
  <2>1. guard' \in Guards
    BY <1>8 DEF PublishReady, Target, Guards, TypeOK
  <2> QED
    BY <1>8, <2>1 DEF PublishReady, Goto, TypeOK, PCs, SetupLocked, acctVars, histVars
<1>9. CASE SyncReady(p)
  BY <1>9, ReturnType DEF SyncReady, TypeOK, acctVars, histVars
<1>10. CASE SetupFails(p)
  BY <1>10, ReturnType DEF SetupFails, TypeOK, fileVars, acctVars, histVars
<1> QED
  BY <1>1, <1>2, <1>3, <1>4, <1>5, <1>6, <1>7, <1>8, <1>9, <1>10 DEF Setup

\* Every step of an admission keeps the state well-typed.
LEMMA TypeAdmit ==
  ASSUME TypeOK, NEW p \in Procs, Admit(p)
  PROVE  TypeOK'
<1>1. ASSUME NEW o \in Origins, NEW persistent \in BOOLEAN, AdmitPeek(p, o, persistent)
      PROVE TypeOK'
  <2>1. pc' \in [Procs -> PCs]
    BY <1>1 DEF AdmitPeek, TypeOK, PCs
  <2>2. req' \in [Procs -> [origin : Origins, window : Windows]]
    BY <1>1 DEF AdmitPeek, TypeOK
  <2> QED
    BY <1>1, <2>1, <2>2 DEF AdmitPeek, TypeOK, fileVars, acctVars, histVars
<1>2. CASE AdmitLock(p)
  BY <1>2 DEF AdmitLock, Acquire, Goto, TypeOK, PCs, AdmitLocked, fileVars, acctVars, histVars
<1>3. CASE AdmitRead(p)
  <2>1. pc' \in [Procs -> PCs]
    BY <1>3 DEF AdmitRead, TypeOK, PCs, AdmitLocked
  <2> QED
    BY <1>3, <2>1 DEF AdmitRead, TypeOK, fileVars, acctVars, histVars
<1>4. CASE AdmitCommit(p)
  <2> DEFINE o == req[p].origin
             w == WindowOf(now)
  <2>1. o \in Origins /\ w \in Windows
    BY DEF TypeOK, Windows
  <2>2. charges' \in [Origins -> [Windows -> Nat]] /\ receipts' \in [Origins -> [Windows -> Nat]]
    BY <1>4, <2>1, CountType, PrunedType DEF AdmitCommit, TypeOK
  <2>3. debited' \in [Origins -> [Windows -> Nat]]
    BY <1>4, <2>1, CountType DEF AdmitCommit, TypeOK
  <2>4. seen[p].max \in Limits
    <3>1. charges[o][w] \in Nat /\ charges[o][w] < seen[p].max
      BY <1>4, <2>1 DEF AdmitCommit, TypeOK
    <3>2. seen[p].max \in Limits \cup {0}
      BY DEF TypeOK, Guards
    <3> QED BY <3>1, <3>2
  <2>5. grants' \subseteq (0 .. MaxGen) \X Limits
    BY <1>4, <2>4 DEF AdmitCommit, TypeOK, Guards
  <2>6. req' \in [Procs -> [origin : Origins, window : Windows]]
    BY <1>4, <2>1 DEF AdmitCommit, TypeOK
  <2>7. acct' \in [state : {"missing", "empty", "ready"}, gen : 0 .. MaxGen, last : 0 .. MaxTime]
    BY <1>4 DEF AdmitCommit, TypeOK
  <2>8. pc' \in [Procs -> PCs]
    BY <1>4 DEF AdmitCommit, Goto, TypeOK, PCs, AdmitLocked
  <2> QED
    BY <1>4, <2>2, <2>3, <2>5, <2>6, <2>7, <2>8 DEF AdmitCommit, TypeOK, fileVars
<1>5. CASE AdmitUnlock(p)
  BY <1>5 DEF AdmitUnlock, Goto, TypeOK, PCs, fileVars, acctVars, histVars
<1>6. CASE AdmitGrant(p)
  BY <1>6 DEF AdmitGrant, Goto, TypeOK, PCs, fileVars, acctVars, histVars
<1>7. CASE AdmitFails(p)
  BY <1>7, ReturnType DEF AdmitFails, TypeOK, fileVars, acctVars, histVars
<1>8. CASE Send(p)
  BY <1>8, ReturnType DEF Send, TypeOK, fileVars, acctVars, histVars
<1> QED
  BY <1>1, <1>2, <1>3, <1>4, <1>5, <1>6, <1>7, <1>8 DEF Admit

\* Kills, power losses, cache losses and the clock keep the state well-typed.
LEMMA TypeEnvironment ==
  ASSUME TypeOK, Environment
  PROVE  TypeOK'
<1>1. CASE PowerLoss
  <2>1. guard' \in Guards /\ durable' \in Guards
    BY <1>1 DEF PowerLoss, TypeOK
  <2>2. pc' \in [Procs -> PCs]
    BY <1>1 DEF PowerLoss, PCs
  <2>3. faults' \subseteq {"rename", "cache"}
    BY <1>1 DEF PowerLoss, Suffer, TypeOK
  <2> QED
    BY <1>1, <2>1, <2>2, <2>3, Constants DEF PowerLoss, TypeOK, acctVars, histVars
<1>2. CASE ClockMoves
  BY <1>2 DEF ClockMoves, TypeOK, fileVars, acctVars, procVars, histVars
<1>3. CASE LoseAccounting
  <2>1. faults' \subseteq {"rename", "cache"}
    BY <1>3 DEF LoseAccounting, Suffer, TypeOK
  <2> QED
    BY <1>3, <2>1, Constants DEF LoseAccounting, TypeOK, fileVars, procVars, histVars
<1>4. CASE AlterTotal
  <2>1. charges' \in [Origins -> [Windows -> Nat]]
    BY <1>4 DEF AlterTotal, TypeOK
  <2> QED
    BY <1>4, <2>1 DEF AlterTotal, TypeOK, fileVars, procVars, histVars
<1>5. CASE RemoveGuard
  BY <1>5, Constants DEF RemoveGuard, TypeOK, acctVars, procVars, histVars
<1> QED
  BY <1>1, <1>2, <1>3, <1>4, <1>5 DEF Environment

\* Every step of the specification keeps the state well-typed.
LEMMA TypeStep == TypeOK /\ [Next]_vars => TypeOK'
<1> SUFFICES ASSUME TypeOK, [Next]_vars PROVE TypeOK'
  OBVIOUS
<1>1. ASSUME NEW p \in Procs, Setup(p) PROVE TypeOK'
  BY <1>1, TypeSetup
<1>2. ASSUME NEW p \in Procs, Admit(p) PROVE TypeOK'
  BY <1>2, TypeAdmit
<1>3. ASSUME NEW p \in Procs, Crash(p) PROVE TypeOK'
  BY <1>3, ReturnType DEF Crash, TypeOK, fileVars, acctVars, histVars
<1>4. CASE Environment
  BY <1>4, TypeEnvironment
<1>5. CASE UNCHANGED vars
  BY <1>5 DEF vars, TypeOK
<1> QED
  BY <1>1, <1>2, <1>3, <1>4, <1>5 DEF Next

\* Type correctness of the allowance: no sequence of setups, admissions and
\* faults leaves a generation, a limit, a count or a grant outside its range,
\* and every debit is made under one of the limits users may ask for.
THEOREM TypeCorrect == Spec => []TypeOK
<1> QED BY TypeInit, TypeStep, PTL DEF Spec

-----------------------------------------------------------------------------
(* The flock, and what its holder knows                                    *)

Locked == AdmitLocked \cup SetupLocked

\* A process inside a locked section holds the flock: no two are inside one.
LockInv == \A p \in Procs : pc[p] \in Locked => lock = p

\* An admission about to debit has read a ready guard, which is still in
\* force unless the user has deleted it.
ChargeInv ==
  \A p \in Procs : pc[p] = "charging" =>
    seen[p].phase = "ready" /\ guard \in {seen[p], NoGuard}

\* A setup past its plan aims at a generation the accounting does not exceed;
\* when it comes to the accounting its intent is durable, or the guard deleted.
Planned == {"intent", "intentSync", "account", "ready", "readySync"}
SetupInv ==
  \A p \in Procs :
    /\ pc[p] \in Planned => AcctGen <= want[p].gen
    /\ pc[p] = "account" => /\ guard \in {Target(p, "intent"), NoGuard}
                            /\ durable \in {Target(p, "intent"), NoGuard}

\* The accounting is not ahead of the guard file a power loss would bring back.
DurableFollows == durable.phase # "absent" => AcctGen <= durable.gen

IInv == TypeOK /\ LockInv /\ ChargeInv /\ SetupInv
             /\ DurableFollows /\ AccountingFollowsGuard

\* The initial state satisfies the inductive invariant.
LEMMA IInit == Init => IInv
<1> SUFFICES ASSUME Init PROVE IInv
  OBVIOUS
<1>1. TypeOK
  BY TypeInit
<1>2. LockInv /\ ChargeInv /\ SetupInv
  BY DEF Init, LockInv, ChargeInv, SetupInv, Locked, AdmitLocked, SetupLocked, Planned
<1>3. DurableFollows /\ AccountingFollowsGuard
  BY DEF Init, DurableFollows, AccountingFollowsGuard, NoGuard
<1> QED BY <1>1, <1>2, <1>3 DEF IInv

\* Returning, failing or dying releases the flock and forgets the locals.
LEMMA ReturnSafe ==
  ASSUME IInv, NEW p \in Procs, Return(p), UNCHANGED <<fileVars, acct>>
  PROVE  LockInv' /\ ChargeInv' /\ SetupInv' /\ DurableFollows' /\ AccountingFollowsGuard'
<1> USE DEF IInv, TypeOK
<1>1. pc'[p] = "idle" /\ \A q \in Procs \ {p} : pc'[q] = pc[q] /\ seen'[q] = seen[q] /\ want'[q] = want[q]
  BY DEF Return
<1>2. AcctGen' = AcctGen
  BY DEF AcctGen
<1>3. LockInv'
  BY <1>1, AssumptionsHold DEF LockInv, Return, Locked, AdmitLocked, SetupLocked, Assumptions
<1>4. ChargeInv'
  BY <1>1 DEF ChargeInv, fileVars
<1>5. SetupInv'
  BY <1>1, <1>2 DEF SetupInv, Planned, Target, fileVars
<1>6. DurableFollows' /\ AccountingFollowsGuard'
  BY <1>2 DEF DurableFollows, AccountingFollowsGuard, fileVars
<1> QED BY <1>3, <1>4, <1>5, <1>6

\* One process inside a locked section leaves every other outside.
LEMMA Alone ==
  ASSUME LockInv, NEW p \in Procs, pc[p] \in Locked
  PROVE  \A q \in Procs \ {p} : pc[q] \notin Locked
BY DEF LockInv

\* The steps of apply_setup preserve the invariant.
LEMMA SetupSafe ==
  ASSUME IInv, NEW p \in Procs, Setup(p)
  PROVE  LockInv' /\ ChargeInv' /\ SetupInv' /\ DurableFollows' /\ AccountingFollowsGuard'
<1> USE DEF IInv, TypeOK
<1> DEFINE Goal == LockInv' /\ ChargeInv' /\ SetupInv' /\ DurableFollows' /\ AccountingFollowsGuard'
<1>a. "charging" \in Locked /\ Planned \subseteq Locked /\ "account" \in Planned
      /\ "planning" \in Locked /\ "charging" \notin Planned
  BY DEF Locked, Planned, AdmitLocked, SetupLocked
<1>1. ASSUME NEW m \in Limits, SetupStart(p, m) PROVE Goal
  <2>1. pc' = [pc EXCEPT ![p] = "setup"] /\ "setup" \notin Locked /\ AcctGen' = AcctGen
    BY <1>1 DEF SetupStart, Goto, Locked, AdmitLocked, SetupLocked, AcctGen, acctVars
  <2>2. \A q \in Procs \ {p} : want'[q] = want[q]
    BY <1>1 DEF SetupStart
  <2>3. UNCHANGED <<guard, durable, lock, seen>>
    BY <1>1 DEF SetupStart, fileVars
  <2>4. LockInv' /\ ChargeInv'
    BY <2>1, <2>3, <1>a DEF LockInv, ChargeInv
  <2>5. SetupInv'
    BY <2>1, <2>2, <2>3, <1>a DEF SetupInv, Target
  <2>6. DurableFollows' /\ AccountingFollowsGuard'
    BY <2>1, <2>3 DEF DurableFollows, AccountingFollowsGuard
  <2> QED BY <2>4, <2>5, <2>6
<1>2. CASE SetupLock(p)
  <2>1. pc' = [pc EXCEPT ![p] = "planning"] /\ lock' = p /\ lock = NoProc /\ AcctGen' = AcctGen
    BY <1>2 DEF SetupLock, Acquire, Goto, AcctGen, acctVars
  <2>2. UNCHANGED <<guard, durable, seen, want>>
    BY <1>2 DEF SetupLock, fileVars
  <2>3. LockInv'
    BY <2>1, AssumptionsHold DEF LockInv, Assumptions
  <2>4. ChargeInv' /\ SetupInv'
    BY <2>1, <2>2 DEF ChargeInv, SetupInv, Planned, Target
  <2>5. DurableFollows' /\ AccountingFollowsGuard'
    BY <2>1, <2>2 DEF DurableFollows, AccountingFollowsGuard
  <2> QED BY <2>3, <2>4, <2>5
<1>3. CASE SetupPlan(p)
  <2> DEFINE gen == TargetGen(guard, AcctGen, want[p].max)
  <2>1. pc' = [pc EXCEPT ![p] = "intent"] /\ pc[p] = "planning" /\ UNCHANGED <<guard, durable, lock>>
    BY <1>3 DEF SetupPlan, Goto, fileVars
  <2>2. AcctGen' = AcctGen
    BY <1>3 DEF SetupPlan, AcctGen
  <2>3. gen >= AcctGen /\ want'[p].gen = gen
    BY <1>3, TargetGenCovers, AcctGenType DEF SetupPlan
  <2>4. \A q \in Procs \ {p} : pc[q] \notin Locked /\ pc'[q] = pc[q]
    BY <2>1, <1>a, Alone
  <2>5. LockInv'
    BY <2>1, <2>4, <1>a DEF LockInv
  <2>6. ChargeInv'
    BY <2>1, <2>4, <1>a DEF ChargeInv
  <2>7. SetupInv'
    <3> HIDE DEF gen
    <3>1. AcctGen <= gen /\ pc'[p] = "intent"
      BY <2>1, <2>3, AcctGenType, TargetGenCovers, AssumptionsHold DEF gen, Assumptions
    <3> QED BY <2>2, <2>3, <2>4, <3>1, <1>a DEF SetupInv
  <2>8. DurableFollows' /\ AccountingFollowsGuard'
    BY <2>1, <2>2 DEF DurableFollows, AccountingFollowsGuard
  <2> QED BY <2>5, <2>6, <2>7, <2>8
<1>4. CASE SetupUnchanged(p)
  BY <1>4, ReturnSafe DEF SetupUnchanged, acctVars
<1>5. CASE PublishIntent(p)
  <2>1. pc' = [pc EXCEPT ![p] = "intentSync"] /\ pc[p] = "intent" /\ guard' = Target(p, "intent")
        /\ UNCHANGED <<durable, lock, seen, want>> /\ AcctGen' = AcctGen
    BY <1>5 DEF PublishIntent, Goto, AcctGen, acctVars
  <2>2. \A q \in Procs \ {p} : pc[q] \notin Locked /\ pc'[q] = pc[q]
    BY <2>1, <1>a, Alone DEF Planned
  <2>3. LockInv'
    BY <2>1, <2>2, <1>a DEF LockInv, Planned
  <2>4. ChargeInv'
    BY <2>1, <2>2, <1>a DEF ChargeInv
  <2>5. SetupInv'
    BY <2>1, <2>2, <1>a DEF SetupInv, Planned
  <2>6. DurableFollows' /\ AccountingFollowsGuard'
    BY <2>1, <1>a DEF DurableFollows, AccountingFollowsGuard, SetupInv, Planned, Target
  <2> QED BY <2>3, <2>4, <2>5, <2>6
<1>6. CASE SyncIntent(p)
  <2>1. pc' = [pc EXCEPT ![p] = "account"] /\ pc[p] = "intentSync" /\ guard = Target(p, "intent")
        /\ durable' = guard /\ UNCHANGED <<guard, lock, seen, want>> /\ AcctGen' = AcctGen
    BY <1>6 DEF SyncIntent, Goto, AcctGen, acctVars
  <2>2. \A q \in Procs \ {p} : pc[q] \notin Locked /\ pc'[q] = pc[q]
    BY <2>1, <1>a, Alone DEF Planned
  <2>3. LockInv'
    BY <2>1, <2>2, <1>a DEF LockInv, Planned
  <2>4. ChargeInv'
    BY <2>1, <2>2, <1>a DEF ChargeInv
  <2>5. SetupInv'
    BY <2>1, <2>2, <1>a DEF SetupInv, Planned, Target
  <2>6. DurableFollows' /\ AccountingFollowsGuard'
    BY <2>1 DEF DurableFollows, AccountingFollowsGuard
  <2> QED BY <2>3, <2>4, <2>5, <2>6
<1>7. CASE SetupAccount(p)
  <2>1. pc' = [pc EXCEPT ![p] = "ready"] /\ pc[p] = "account" /\ UNCHANGED <<guard, durable, lock, seen, want>>
    BY <1>7 DEF SetupAccount, Goto, fileVars
  <2>2. AcctGen' = want[p].gen /\ want[p].gen \in Nat
    BY <1>7, AssumptionsHold DEF SetupAccount, AcctGen, Assumptions
  <2>3. \A q \in Procs \ {p} : pc[q] \notin Locked /\ pc'[q] = pc[q]
    BY <2>1, <1>a, Alone
  <2>4. LockInv'
    BY <2>1, <2>3, <1>a DEF LockInv
  <2>5. ChargeInv'
    BY <2>1, <2>3, <1>a DEF ChargeInv
  <2>6. SetupInv'
    BY <2>1, <2>2, <2>3, <1>a DEF SetupInv
  <2>7. DurableFollows' /\ AccountingFollowsGuard'
    BY <2>1, <2>2 DEF DurableFollows, AccountingFollowsGuard, SetupInv, Target, NoGuard
  <2> QED BY <2>4, <2>5, <2>6, <2>7
<1>8. CASE PublishReady(p)
  <2>1. pc' = [pc EXCEPT ![p] = "readySync"] /\ pc[p] = "ready" /\ guard' = Target(p, "ready")
        /\ UNCHANGED <<durable, lock, seen, want>> /\ AcctGen' = AcctGen
    BY <1>8 DEF PublishReady, Goto, AcctGen, acctVars
  <2>2. \A q \in Procs \ {p} : pc[q] \notin Locked /\ pc'[q] = pc[q]
    BY <2>1, <1>a, Alone DEF Planned
  <2>3. LockInv'
    BY <2>1, <2>2, <1>a DEF LockInv, Planned
  <2>4. ChargeInv'
    BY <2>1, <2>2, <1>a DEF ChargeInv
  <2>5. SetupInv'
    BY <2>1, <2>2, <1>a DEF SetupInv, Planned
  <2>6. DurableFollows' /\ AccountingFollowsGuard'
    BY <2>1, <1>a DEF DurableFollows, AccountingFollowsGuard, SetupInv, Planned, Target
  <2> QED BY <2>3, <2>4, <2>5, <2>6
<1>9. CASE SyncReady(p)
  <2>1. pc[p] = "readySync" /\ UNCHANGED <<guard, acct>> /\ durable' = guard /\ Return(p)
    BY <1>9 DEF SyncReady, acctVars
  <2>2. pc' = [pc EXCEPT ![p] = "idle"] /\ AcctGen' = AcctGen
    BY <2>1 DEF Return, AcctGen
  <2>3. \A q \in Procs \ {p} : pc[q] \notin Locked /\ pc'[q] = pc[q]
    BY <2>1, <2>2, <1>a, Alone DEF Planned
  <2>4. "idle" \notin Locked
    BY DEF Locked, AdmitLocked, SetupLocked
  <2>5. LockInv' /\ ChargeInv' /\ SetupInv'
    BY <2>2, <2>3, <2>4, <1>a DEF LockInv, ChargeInv, SetupInv
  <2>6. DurableFollows' /\ AccountingFollowsGuard'
    BY <2>1, <2>2 DEF DurableFollows, AccountingFollowsGuard
  <2> QED BY <2>5, <2>6
<1>10. CASE SetupFails(p)
  BY <1>10, ReturnSafe DEF SetupFails, acctVars
<1> QED
  BY <1>1, <1>2, <1>3, <1>4, <1>5, <1>6, <1>7, <1>8, <1>9, <1>10 DEF Setup

\* The steps of admit preserve the invariant.
LEMMA AdmitSafe ==
  ASSUME IInv, NEW p \in Procs, Admit(p)
  PROVE  LockInv' /\ ChargeInv' /\ SetupInv' /\ DurableFollows' /\ AccountingFollowsGuard'
<1> USE DEF IInv, TypeOK
<1> DEFINE Goal == LockInv' /\ ChargeInv' /\ SetupInv' /\ DurableFollows' /\ AccountingFollowsGuard'
<1>a. /\ "charging" \in Locked /\ Planned \subseteq Locked /\ "account" \in Planned
      /\ "charging" \notin Planned /\ AdmitLocked \subseteq Locked
      /\ AdmitLocked \cap Planned = {}
      /\ \A x \in {"granted", "waiting", "unlocked"} : x \notin Locked
  BY DEF Locked, Planned, AdmitLocked, SetupLocked
<1>b. ASSUME UNCHANGED <<fileVars, want>>, AcctGen' = AcctGen, NEW x, x \notin Planned,
             pc' = [pc EXCEPT ![p] = x]
      PROVE  SetupInv' /\ DurableFollows' /\ AccountingFollowsGuard'
  BY <1>b, <1>a DEF SetupInv, DurableFollows, AccountingFollowsGuard, Target, fileVars
<1>1. ASSUME NEW o \in Origins, NEW persistent \in BOOLEAN, AdmitPeek(p, o, persistent)
      PROVE Goal
  <2>1. PICK x \in {"granted", "waiting"} : pc' = [pc EXCEPT ![p] = x]
    BY <1>1 DEF AdmitPeek
  <2>2. UNCHANGED <<fileVars, lock, want>> /\ AcctGen' = AcctGen
        /\ \A q \in Procs \ {p} : seen'[q] = seen[q]
    BY <1>1 DEF AdmitPeek, AcctGen, acctVars
  <2>3. LockInv' /\ ChargeInv'
    BY <2>1, <2>2, <1>a DEF LockInv, ChargeInv, fileVars
  <2> QED BY <2>1, <2>2, <2>3, <1>a, <1>b
<1>2. CASE AdmitLock(p)
  <2>1. pc' = [pc EXCEPT ![p] = "admitting"] /\ lock' = p /\ lock = NoProc /\ AcctGen' = AcctGen
        /\ UNCHANGED <<fileVars, seen, want>> /\ "admitting" \in AdmitLocked
    BY <1>2 DEF AdmitLock, Acquire, Goto, AcctGen, acctVars, AdmitLocked
  <2>2. LockInv' /\ ChargeInv'
    BY <2>1, AssumptionsHold DEF LockInv, ChargeInv, Assumptions, fileVars
  <2> QED BY <2>1, <2>2, <1>a, <1>b
<1>3. CASE AdmitRead(p)
  <2>1. pc[p] \in Locked /\ UNCHANGED <<fileVars, want>> /\ AcctGen' = AcctGen
        /\ seen' = [seen EXCEPT ![p] = guard]
    BY <1>3, <1>a DEF AdmitRead, AcctGen, acctVars, AdmitLocked
  <2>2. \A q \in Procs \ {p} : pc[q] \notin Locked
    BY <2>1, Alone
  <2>3. CASE guard.phase = "absent" /\ pc' = [pc EXCEPT ![p] = "granted"] /\ lock' = NoProc
    <3>1. LockInv' /\ ChargeInv'
      BY <2>1, <2>2, <2>3, <1>a DEF LockInv, ChargeInv
    <3> QED BY <2>1, <2>3, <3>1, <1>a, <1>b
  <2>4. CASE guard.phase = "ready" /\ pc' = [pc EXCEPT ![p] = "charging"] /\ UNCHANGED lock
    <3>1. LockInv'
      BY <2>1, <2>2, <2>4, <1>a DEF LockInv
    <3>2. ChargeInv'
      BY <2>1, <2>2, <2>4, <1>a DEF ChargeInv, fileVars
    <3> QED BY <2>1, <2>4, <3>1, <3>2, <1>a, <1>b
  <2> QED BY <1>3, <2>3, <2>4 DEF AdmitRead
<1>4. CASE AdmitCommit(p)
  <2>1. pc' = [pc EXCEPT ![p] = "debited"] /\ pc[p] = "charging" /\ UNCHANGED <<fileVars, lock, seen, want>>
        /\ "debited" \in AdmitLocked
    BY <1>4 DEF AdmitCommit, Goto, AdmitLocked
  <2>2. AcctGen' = AcctGen
    BY <1>4 DEF AdmitCommit, AcctGen
  <2>3. LockInv' /\ ChargeInv'
    BY <2>1, <1>a DEF LockInv, ChargeInv, fileVars
  <2> QED BY <2>1, <2>2, <2>3, <1>a, <1>b
<1>5. CASE AdmitUnlock(p)
  <2>1. pc' = [pc EXCEPT ![p] = "unlocked"] /\ pc[p] = "debited" /\ lock' = NoProc
        /\ UNCHANGED <<fileVars, seen, want>> /\ AcctGen' = AcctGen
    BY <1>5 DEF AdmitUnlock, Goto, AcctGen, acctVars
  <2>2. \A q \in Procs \ {p} : pc[q] \notin Locked
    BY <2>1, <1>a, Alone DEF AdmitLocked
  <2>3. LockInv' /\ ChargeInv'
    BY <2>1, <2>2, <1>a DEF LockInv, ChargeInv
  <2> QED BY <2>1, <2>3, <1>a, <1>b
<1>6. CASE AdmitGrant(p)
  <2>1. pc' = [pc EXCEPT ![p] = "granted"] /\ UNCHANGED <<fileVars, lock, seen, want>> /\ AcctGen' = AcctGen
    BY <1>6 DEF AdmitGrant, Goto, AcctGen, acctVars
  <2>2. LockInv' /\ ChargeInv'
    BY <2>1, <1>a DEF LockInv, ChargeInv, fileVars
  <2> QED BY <2>1, <2>2, <1>a, <1>b
<1>7. CASE AdmitFails(p)
  BY <1>7, ReturnSafe DEF AdmitFails, acctVars
<1>8. CASE Send(p)
  BY <1>8, ReturnSafe DEF Send, acctVars
<1> QED
  BY <1>1, <1>2, <1>3, <1>4, <1>5, <1>6, <1>7, <1>8 DEF Admit

\* The faults of the environment preserve the invariant.
LEMMA EnvironmentSafe ==
  ASSUME IInv, Environment
  PROVE  LockInv' /\ ChargeInv' /\ SetupInv' /\ DurableFollows' /\ AccountingFollowsGuard'
<1> USE DEF IInv, TypeOK
<1>1. CASE PowerLoss
  <2>1. \A p \in Procs : pc'[p] = "idle"
    BY <1>1 DEF PowerLoss
  <2>2. LockInv' /\ ChargeInv' /\ SetupInv'
    BY <2>1 DEF LockInv, ChargeInv, SetupInv, Locked, AdmitLocked, SetupLocked, Planned
  <2>3. AcctGen' = AcctGen /\ guard' \in {guard, durable} /\ durable' = guard'
    BY <1>1 DEF PowerLoss, AcctGen, acctVars
  <2>4. DurableFollows' /\ AccountingFollowsGuard'
    BY <2>3 DEF DurableFollows, AccountingFollowsGuard
  <2> QED BY <2>2, <2>4
<1>2. CASE ClockMoves \/ AlterTotal
  <2>1. UNCHANGED <<guard, durable, lock, pc, seen, want, acct>>
    BY <1>2 DEF ClockMoves, AlterTotal, fileVars, acctVars, procVars
  <2> QED
    BY <2>1 DEF LockInv, ChargeInv, SetupInv, DurableFollows, AccountingFollowsGuard, AcctGen, Target
<1>3. CASE LoseAccounting
  <2>1. UNCHANGED <<guard, durable, lock, pc, seen, want>> /\ AcctGen' = 0
    BY <1>3 DEF LoseAccounting, fileVars, procVars, AcctGen, NoAccounting
  <2>2. \A p \in Procs : want[p].gen >= 0
    BY AssumptionsHold DEF Assumptions
  <2>3. guard.gen >= 0 /\ durable.gen >= 0
    BY AssumptionsHold DEF Guards, Assumptions
  <2> QED
    BY <2>1, <2>2, <2>3 DEF LockInv, ChargeInv, SetupInv, DurableFollows, AccountingFollowsGuard, Target
<1>4. CASE RemoveGuard
  <2>1. UNCHANGED <<lock, pc, seen, want>> /\ AcctGen' = AcctGen /\ guard' = NoGuard /\ durable' = NoGuard
    BY <1>4 DEF RemoveGuard, procVars, acctVars, AcctGen
  <2> QED
    BY <2>1 DEF LockInv, ChargeInv, SetupInv, DurableFollows, AccountingFollowsGuard, Target, NoGuard
<1> QED
  BY <1>1, <1>2, <1>3, <1>4 DEF Environment

\* Every step preserves the inductive invariant.
LEMMA IStep == IInv /\ [Next]_vars => IInv'
<1> SUFFICES ASSUME IInv, [Next]_vars PROVE IInv'
  OBVIOUS
<1>1. TypeOK'
  BY TypeStep DEF IInv
<1> DEFINE Goal == LockInv' /\ ChargeInv' /\ SetupInv' /\ DurableFollows' /\ AccountingFollowsGuard'
<1>2. Goal
  <2>1. ASSUME NEW p \in Procs, Crash(p) PROVE Goal
    BY <2>1, ReturnSafe DEF Crash, acctVars
  <2>2. CASE UNCHANGED vars
    BY <2>2 DEF vars, IInv, LockInv, ChargeInv, SetupInv, DurableFollows,
       AccountingFollowsGuard, AcctGen, Target
  <2> QED BY <2>1, <2>2, SetupSafe, AdmitSafe, EnvironmentSafe DEF Next
<1> QED BY <1>1, <1>2 DEF IInv

\* The inductive invariant holds throughout.
LEMMA Invariance == Spec => []IInv
BY IInit, IStep, PTL DEF Spec

\* The accounting never gets ahead of a guard that is present, whichever step
\* of a setup a crash or a power loss interrupts, for any number of processes,
\* limits and generations.
THEOREM AccountingNeverAhead == Spec => []AccountingFollowsGuard
<1>1. IInv => AccountingFollowsGuard
  BY DEF IInv
<1> QED BY <1>1, Invariance, PTL

\* Only the debit itself takes a process from its locked read to "debited".
LEMMA OnlyTheDebit ==
  ASSUME TypeOK, Next, NEW p \in Procs, pc[p] = "charging", pc'[p] = "debited"
  PROVE  AdmitCommit(p)
<1>1. ASSUME NEW q \in Procs, Setup(q) PROVE q # p \/ pc'[p] # "debited"
  BY <1>1 DEF Setup, SetupStart, SetupLock, Acquire, SetupPlan, SetupUnchanged,
     PublishIntent, SyncIntent, SetupAccount, PublishReady, SyncReady, SetupFails,
     Goto, Return, TypeOK
<1>2. ASSUME NEW q \in Procs \ {p}, Setup(q) \/ Admit(q) \/ Crash(q) PROVE pc'[p] = pc[p]
  BY <1>2 DEF Setup, SetupStart, SetupLock, Acquire, SetupPlan, SetupUnchanged,
     PublishIntent, SyncIntent, SetupAccount, PublishReady, SyncReady, SetupFails,
     Admit, AdmitPeek, AdmitLock, AdmitRead, AdmitCommit, AdmitUnlock, AdmitGrant,
     AdmitFails, Send, Crash, Goto, Return, TypeOK
<1>3. ASSUME Environment PROVE pc'[p] # "debited"
  BY <1>3 DEF Environment, PowerLoss, ClockMoves, LoseAccounting, AlterTotal,
     RemoveGuard, procVars, TypeOK
<1>4. ASSUME Crash(p) \/ (Admit(p) /\ ~AdmitCommit(p)) PROVE pc'[p] # "debited"
  BY <1>4 DEF Admit, AdmitPeek, AdmitLock, Acquire, AdmitRead, AdmitUnlock, AdmitGrant,
     AdmitFails, Send, Crash, Goto, Return, TypeOK
<1> QED BY <1>1, <1>2, <1>3, <1>4 DEF Next

\* A debit is made only under the guard in force when it commits: no setup can
\* replace the guard between the locked read and the debit.
THEOREM DebitsAreCurrent == Spec => DebitUnderCurrentGuard
<1> DEFINE Current ==
      \A p \in Procs : pc[p] = "charging" /\ pc'[p] = "debited"
        => /\ guard \in {seen[p], NoGuard}
           /\ seen[p].phase = "ready"
           /\ acct.gen = seen[p].gen
<1>1. IInv /\ [Next]_vars => [Current]_vars
  <2> SUFFICES ASSUME IInv, Next, NEW p \in Procs, pc[p] = "charging", pc'[p] = "debited"
               PROVE  guard \in {seen[p], NoGuard} /\ seen[p].phase = "ready" /\ acct.gen = seen[p].gen
    OBVIOUS
  <2>1. guard \in {seen[p], NoGuard} /\ seen[p].phase = "ready"
    BY DEF IInv, ChargeInv
  <2>2. acct.gen = seen[p].gen
    <3>1. AdmitCommit(p)
      BY OnlyTheDebit DEF IInv
    <3> QED BY <3>1 DEF AdmitCommit
  <2> QED BY <2>1, <2>2
<1> QED BY <1>1, Invariance, PTL DEF Spec, DebitUnderCurrentGuard

-----------------------------------------------------------------------------
(* A generation names one limit                                            *)

\* No debit was made under a later generation than x, nor under x's generation
\* with another limit.
Covers(x) == \A a \in grants : a[1] <= x.gen /\ (a[1] = x.gen => a[2] = x.max)

\* y is a later policy than x, or the same one.
Succeeds(y, x) == x.gen <= y.gen /\ (x.gen = y.gen => x.max = y.max)

\* The guard file and what a power loss would bring back in its place.
FilePolicy ==
  /\ guard.phase = "absent" => durable.phase = "absent"
  /\ durable.phase # "absent" => Succeeds(guard, durable) /\ Covers(durable)
  /\ guard.phase # "absent" => Covers(guard)

\* What a process holding the flock knows: the policy an admission is about to
\* debit under, or the one a setup is about to publish or has published.
Published == {"intentSync", "account", "ready", "readySync"}
ProcPolicy(p) ==
  /\ pc[p] = "charging" => Covers(seen[p])
  /\ pc[p] = "intent" =>
       /\ guard \in {seen[p], NoGuard}
       /\ seen[p].phase # "absent" => Covers(want[p]) /\ Succeeds(want[p], seen[p])
  /\ pc[p] \in Published => Covers(want[p])
  /\ pc[p] = "ready" => durable \in {Target(p, "intent"), NoGuard}

PolicyInv == /\ IInv /\ FilePolicy /\ GenerationNamesLimit
             /\ \A p \in Procs : ProcPolicy(p)

\* The initial state satisfies the policy invariant.
LEMMA PolicyInit == Init => PolicyInv
<1> SUFFICES ASSUME Init PROVE PolicyInv
  OBVIOUS
<1>1. IInv
  BY IInit
<1>2. FilePolicy
  BY DEF Init, FilePolicy, NoGuard
<1>3. \A p \in Procs : ProcPolicy(p)
  BY DEF Init, ProcPolicy, Published
<1>4. GenerationNamesLimit
  BY DEF Init, GenerationNamesLimit
<1> QED BY <1>1, <1>2, <1>3, <1>4 DEF PolicyInv

\* What the planned generation says of the guard it was planned from.
LEMMA TargetSucceeds ==
  ASSUME NEW g \in Guards, NEW ag \in 0 .. MaxGen, NEW m, ~Unchanged(g, ag, m)
  PROVE  /\ g.gen <= TargetGen(g, ag, m)
         /\ g.gen = TargetGen(g, ag, m) => g.max = m
<1>1. g.gen \in Nat /\ ag \in Nat
  BY AssumptionsHold DEF Guards, Assumptions
<1>2. Greater(g.gen, ag) \in Nat /\ Greater(g.gen, ag) >= g.gen
  BY <1>1 DEF Greater
<1>3. CASE g.phase = "intent" /\ g.max = m
  BY <1>1, <1>2, <1>3 DEF TargetGen
<1>4. CASE ~(g.phase = "intent" /\ g.max = m)
  <2>1. TargetGen(g, ag, m) = Greater(g.gen, ag) + 1
    BY <1>4 DEF TargetGen
  <2> QED BY <1>1, <1>2, <2>1
<1> QED BY <1>3, <1>4

\* Covering is inherited by a later policy.
LEMMA CoversSucceeds ==
  ASSUME TypeOK, NEW x, NEW y, x.gen \in Nat, y.gen \in Nat, Covers(x), Succeeds(y, x)
  PROVE  Covers(y)
<1> SUFFICES ASSUME NEW a \in grants PROVE a[1] <= y.gen /\ (a[1] = y.gen => a[2] = y.max)
  BY DEF Covers
<1>1. a[1] \in Nat
  BY AssumptionsHold DEF TypeOK, Assumptions
<1>2. a[1] <= x.gen /\ (a[1] = x.gen => a[2] = x.max)
  BY DEF Covers
<1>3. x.gen <= y.gen /\ (x.gen = y.gen => x.max = y.max)
  BY DEF Succeeds
<1> QED BY <1>1, <1>2, <1>3

\* A step that leaves the files, the debits and a process alone leaves alone
\* what the process knows.
LEMMA SamePolicy ==
  ASSUME NEW q, ProcPolicy(q), pc'[q] = pc[q], seen'[q] = seen[q],
         want'[q] = want[q], UNCHANGED <<guard, durable, grants>>
  PROVE  ProcPolicy(q)'
<1>1. Covers(seen[q])' = Covers(seen[q])
  BY DEF Covers
<1>2. Covers(want[q])' = Covers(want[q])
  BY DEF Covers
<1>3. Succeeds(want[q], seen[q])' = Succeeds(want[q], seen[q])
  BY DEF Succeeds
<1>4. Target(q, "intent")' = Target(q, "intent")
  BY DEF Target
<1> QED BY <1>1, <1>2, <1>3, <1>4 DEF ProcPolicy

\* A step that leaves the files alone keeps what the files say of the policy.
LEMMA SameFiles ==
  ASSUME FilePolicy, GenerationNamesLimit, UNCHANGED <<guard, durable, grants>>
  PROVE  FilePolicy' /\ GenerationNamesLimit'
BY DEF FilePolicy, GenerationNamesLimit, Covers, Succeeds

Policy == FilePolicy /\ GenerationNamesLimit /\ \A q \in Procs : ProcPolicy(q)

\* A step of p that neither publishes nor debits preserves the policy as soon
\* as it preserves what p knows.
LEMMA QuietPolicy ==
  ASSUME PolicyInv, NEW p \in Procs, UNCHANGED <<guard, durable, grants>>,
         \A q \in Procs \ {p} : pc'[q] = pc[q] /\ seen'[q] = seen[q] /\ want'[q] = want[q],
         ProcPolicy(p)'
  PROVE  Policy'
<1>1. FilePolicy' /\ GenerationNamesLimit'
  BY SameFiles DEF PolicyInv
<1>2. \A q \in Procs : ProcPolicy(q)'
  <2> SUFFICES ASSUME NEW q \in Procs, q # p PROVE ProcPolicy(q)'
    OBVIOUS
  <2>1. ProcPolicy(q)
    BY DEF PolicyInv
  <2>2. pc'[q] = pc[q] /\ seen'[q] = seen[q] /\ want'[q] = want[q]
    OBVIOUS
  <2> QED BY <2>1, <2>2, SamePolicy
<1> QED BY <1>1, <1>2 DEF Policy

\* Returning, failing or dying publishes nothing and debits nothing.
LEMMA ReturnPolicy ==
  ASSUME PolicyInv, NEW p \in Procs, Return(p), UNCHANGED <<guard, durable, grants>>
  PROVE  Policy'
<1>1. TypeOK
  BY DEF PolicyInv, IInv
<1>2. pc'[p] = "idle" /\ \A q \in Procs \ {p} : pc'[q] = pc[q] /\ seen'[q] = seen[q] /\ want'[q] = want[q]
  BY <1>1 DEF Return, TypeOK
<1>3. ProcPolicy(p)'
  BY <1>2 DEF ProcPolicy, Published
<1> QED BY <1>2, <1>3, QuietPolicy

\* While p holds the flock nobody else is in a locked step; a step of p that
\* publishes or debits need look only at the files, the debits and p.
LEMMA LoudPolicy ==
  ASSUME PolicyInv, NEW p \in Procs, pc[p] \in Locked,
         \A q \in Procs \ {p} : pc'[q] = pc[q],
         FilePolicy', GenerationNamesLimit', ProcPolicy(p)'
  PROVE  Policy'
<1>1. ASSUME NEW q \in Procs \ {p} PROVE ProcPolicy(q)'
  <2>1. pc[q] \notin Locked
    BY Alone DEF PolicyInv, IInv
  <2>2. pc'[q] \notin Locked
    BY <2>1
  <2> QED BY <2>2 DEF ProcPolicy, Published, Locked, AdmitLocked, SetupLocked
<1> QED BY <1>1 DEF Policy

\* The steps of apply_setup: a published policy covers every debit made.
LEMMA SetupPolicy ==
  ASSUME PolicyInv, NEW p \in Procs, Setup(p)
  PROVE  Policy'
<1>a. TypeOK /\ IInv
  BY DEF PolicyInv, IInv
<1>b. FilePolicy /\ GenerationNamesLimit /\ ProcPolicy(p)
  BY DEF PolicyInv
<1>c. guard \in Guards /\ durable \in Guards /\ seen[p] \in Guards
  BY <1>a DEF TypeOK
<1>d. guard.gen \in Nat /\ durable.gen \in Nat /\ want[p].gen \in Nat
  BY <1>a, <1>c, AssumptionsHold DEF TypeOK, Guards, Assumptions
<1>1. ASSUME NEW m \in Limits, SetupStart(p, m) PROVE Policy'
  <2>1. pc'[p] = "setup" /\ \A q \in Procs \ {p} : pc'[q] = pc[q] /\ seen'[q] = seen[q] /\ want'[q] = want[q]
    BY <1>1, <1>a DEF SetupStart, Goto, TypeOK
  <2>2. ProcPolicy(p)'
    BY <2>1 DEF ProcPolicy, Published
  <2> QED BY <1>1, <2>1, <2>2, QuietPolicy DEF SetupStart, fileVars, histVars
<1>2. CASE SetupLock(p)
  <2>1. pc'[p] = "planning" /\ \A q \in Procs \ {p} : pc'[q] = pc[q] /\ seen'[q] = seen[q] /\ want'[q] = want[q]
    BY <1>2, <1>a DEF SetupLock, Acquire, Goto, TypeOK
  <2>2. ProcPolicy(p)'
    BY <2>1 DEF ProcPolicy, Published
  <2> QED BY <1>2, <2>1, <2>2, QuietPolicy DEF SetupLock, fileVars, histVars
<1>3. CASE SetupPlan(p)
  <2> DEFINE m == want[p].max
             gen == TargetGen(guard, AcctGen, m)
  <2>1. pc'[p] = "intent" /\ \A q \in Procs \ {p} : pc'[q] = pc[q] /\ seen'[q] = seen[q] /\ want'[q] = want[q]
    BY <1>3, <1>a DEF SetupPlan, Goto, TypeOK
  <2>2. seen'[p] = guard /\ want'[p].gen = gen /\ want'[p].max = m /\ UNCHANGED <<guard, durable, grants>>
    BY <1>3, <1>a DEF SetupPlan, TypeOK, fileVars, histVars
  <2>3. guard.gen <= gen /\ (guard.gen = gen => guard.max = m) /\ gen \in Nat
    BY <1>3, <1>a, <1>c, AcctGenType, TargetSucceeds, TargetGenCovers DEF SetupPlan
  <2> HIDE DEF m, gen
  <2>4. Succeeds(want'[p], guard)
    BY <2>2, <2>3 DEF Succeeds
  <2>5. ASSUME guard.phase # "absent" PROVE Covers(want'[p])
    BY <2>2, <2>3, <2>4, <2>5, <1>a, <1>b, <1>d, CoversSucceeds DEF FilePolicy
  <2>6. ASSUME guard.phase # "absent" PROVE Covers(want[p])'
    BY <2>2, <2>5, <2>6 DEF Covers
  <2>7. Succeeds(want[p], seen[p])'
    BY <2>2, <2>4 DEF Succeeds
  <2>8. ProcPolicy(p)'
    BY <2>1, <2>2, <2>6, <2>7 DEF ProcPolicy, Published
  <2> QED BY <2>1, <2>2, <2>8, QuietPolicy
<1>4. CASE SetupUnchanged(p)
  BY <1>4, ReturnPolicy DEF SetupUnchanged, fileVars, histVars
<1>5. CASE PublishIntent(p)
  <2>1. pc[p] = "intent" /\ pc'[p] = "intentSync" /\ \A q \in Procs \ {p} : pc'[q] = pc[q]
    BY <1>5, <1>a DEF PublishIntent, Goto, TypeOK
  <2>2. guard'.phase = "intent" /\ guard'.gen = want[p].gen /\ guard'.max = want[p].max
        /\ UNCHANGED <<durable, seen, want>>
    BY <1>5 DEF PublishIntent, Target
  <2>3. guard \in {seen[p], NoGuard}
    BY <1>b, <2>1 DEF ProcPolicy
  <2>4. grants' \subseteq grants /\ (seen[p].phase = "absent" => grants' = {})
    BY <1>5 DEF PublishIntent, histVars
  <2>5. Covers(want[p])'
    <3>1. CASE seen[p].phase = "absent"
      BY <2>4, <3>1 DEF Covers
    <3>2. CASE seen[p].phase # "absent"
      <4>1. Covers(want[p])
        BY <1>b, <2>1, <3>2 DEF ProcPolicy
      <4> QED BY <4>1, <2>2, <2>4 DEF Covers
    <3> QED BY <3>1, <3>2
  <2>6. durable.phase # "absent" => Succeeds(guard, durable)' /\ Covers(durable)'
    <3> SUFFICES ASSUME durable.phase # "absent" PROVE Succeeds(guard, durable)' /\ Covers(durable)'
      OBVIOUS
    <3>1. guard.phase # "absent" /\ Succeeds(guard, durable) /\ Covers(durable)
      BY <1>b DEF FilePolicy
    <3>2. guard = seen[p] /\ Succeeds(want[p], guard)
      BY <1>b, <2>1, <2>3, <3>1 DEF ProcPolicy, NoGuard
    <3>3. Succeeds(guard, durable)'
      BY <3>1, <3>2, <2>2, <1>d DEF Succeeds
    <3>4. Covers(durable)'
      BY <3>1, <2>2, <2>4 DEF Covers
    <3> QED BY <3>3, <3>4
  <2>7. FilePolicy'
    <3>1. Covers(guard)'
      BY <2>5, <2>2 DEF Covers
    <3> QED BY <2>2, <2>6, <3>1 DEF FilePolicy
  <2>8. GenerationNamesLimit'
    BY <1>b, <2>4 DEF GenerationNamesLimit
  <2>9. ProcPolicy(p)'
    BY <2>1, <2>5 DEF ProcPolicy, Published
  <2> QED BY <2>1, <2>7, <2>8, <2>9, LoudPolicy DEF Locked, SetupLocked
<1>6. CASE SyncIntent(p)
  <2>1. pc[p] = "intentSync" /\ pc'[p] = "account" /\ \A q \in Procs \ {p} : pc'[q] = pc[q]
    BY <1>6, <1>a DEF SyncIntent, Goto, TypeOK
  <2>2. durable' = guard /\ guard.phase = "intent" /\ UNCHANGED <<guard, seen, want, grants>>
    BY <1>6 DEF SyncIntent, Target, histVars
  <2>3. Covers(guard)' /\ Covers(want[p])'
    BY <1>b, <2>1, <2>2 DEF Covers, FilePolicy, ProcPolicy, Published
  <2>4. Covers(durable)'
    BY <2>2, <2>3 DEF Covers
  <2>5. FilePolicy'
    BY <2>2, <2>3, <2>4, <1>d DEF FilePolicy, Succeeds
  <2>6. ProcPolicy(p)'
    BY <2>1, <2>3 DEF ProcPolicy, Published
  <2>7. GenerationNamesLimit'
    BY <1>b, <2>2 DEF GenerationNamesLimit
  <2> QED BY <2>1, <2>5, <2>6, <2>7, LoudPolicy DEF Locked, SetupLocked
<1>7. CASE SetupAccount(p)
  <2>1. pc[p] = "account" /\ pc'[p] = "ready"
        /\ \A q \in Procs \ {p} : pc'[q] = pc[q] /\ seen'[q] = seen[q] /\ want'[q] = want[q]
    BY <1>7, <1>a DEF SetupAccount, Goto, TypeOK
  <2>2. UNCHANGED <<guard, durable, grants, seen, want>>
    BY <1>7 DEF SetupAccount, fileVars, histVars
  <2>3. Covers(want[p])'
    BY <1>b, <2>1, <2>2 DEF Covers, ProcPolicy, Published
  <2>4. durable \in {Target(p, "intent"), NoGuard}
    BY <1>a, <2>1 DEF IInv, SetupInv
  <2>5. durable' \in {Target(p, "intent")', NoGuard}
    BY <2>2, <2>4 DEF Target
  <2>6. ProcPolicy(p)'
    BY <2>1, <2>3, <2>5 DEF ProcPolicy
  <2> QED BY <2>1, <2>2, <2>6, QuietPolicy
<1>8. CASE PublishReady(p)
  <2>1. pc[p] = "ready" /\ pc'[p] = "readySync" /\ \A q \in Procs \ {p} : pc'[q] = pc[q]
    BY <1>8, <1>a DEF PublishReady, Goto, TypeOK
  <2>2. guard'.phase = "ready" /\ guard'.gen = want[p].gen /\ guard'.max = want[p].max
        /\ UNCHANGED <<durable, seen, want, grants>>
    BY <1>8 DEF PublishReady, Target, histVars
  <2>3. Covers(want[p])'
    BY <1>b, <2>1, <2>2 DEF Covers, ProcPolicy, Published
  <2>4. Covers(guard)'
    BY <2>2, <2>3 DEF Covers
  <2>5. durable.phase # "absent" => Succeeds(guard, durable)' /\ Covers(durable)'
    <3> SUFFICES ASSUME durable.phase # "absent" PROVE Succeeds(guard, durable)' /\ Covers(durable)'
      OBVIOUS
    <3>1. durable.gen = want[p].gen /\ durable.max = want[p].max
      BY <1>b, <2>1 DEF ProcPolicy, Target, NoGuard
    <3>2. Succeeds(guard, durable)'
      BY <3>1, <2>2, <1>d DEF Succeeds
    <3>3. Covers(durable)'
      BY <3>1, <2>2, <2>3 DEF Covers
    <3> QED BY <3>2, <3>3
  <2>6. FilePolicy'
    BY <2>2, <2>4, <2>5 DEF FilePolicy
  <2>7. ProcPolicy(p)'
    BY <2>1, <2>3 DEF ProcPolicy, Published
  <2>8. GenerationNamesLimit'
    BY <1>b, <2>2 DEF GenerationNamesLimit
  <2> QED BY <2>1, <2>6, <2>7, <2>8, LoudPolicy DEF Locked, SetupLocked
<1>9. CASE SyncReady(p)
  <2>1. pc[p] = "readySync" /\ pc'[p] = "idle" /\ \A q \in Procs \ {p} : pc'[q] = pc[q]
    BY <1>9, <1>a DEF SyncReady, Return, TypeOK
  <2>2. durable' = guard /\ guard.phase = "ready" /\ UNCHANGED <<guard, grants>>
    BY <1>9 DEF SyncReady, Target, histVars
  <2>3. Covers(guard)' /\ Covers(durable)'
    BY <1>b, <2>2 DEF Covers, FilePolicy
  <2>4. FilePolicy'
    BY <2>2, <2>3, <1>d DEF FilePolicy, Succeeds
  <2>5. ProcPolicy(p)'
    BY <2>1 DEF ProcPolicy, Published
  <2>6. GenerationNamesLimit'
    BY <1>b, <2>2 DEF GenerationNamesLimit
  <2> QED BY <2>1, <2>4, <2>5, <2>6, LoudPolicy DEF Locked, SetupLocked
<1>10. CASE SetupFails(p)
  BY <1>10, ReturnPolicy DEF SetupFails, fileVars, histVars
<1> QED BY <1>1, <1>2, <1>3, <1>4, <1>5, <1>6, <1>7, <1>8, <1>9, <1>10 DEF Setup

\* The steps of admit: a debit is made under the policy that succeeds every
\* other one, even the policy a power loss would bring back.
LEMMA AdmitPolicy ==
  ASSUME PolicyInv, NEW p \in Procs, Admit(p)
  PROVE  Policy'
<1>a. TypeOK /\ IInv
  BY DEF PolicyInv, IInv
<1>b. FilePolicy /\ GenerationNamesLimit /\ ProcPolicy(p)
  BY DEF PolicyInv
<1>1. ASSUME NEW o \in Origins, NEW persistent \in BOOLEAN, AdmitPeek(p, o, persistent)
      PROVE  Policy'
  <2>1. pc'[p] \in {"granted", "waiting"}
        /\ \A q \in Procs \ {p} : pc'[q] = pc[q] /\ seen'[q] = seen[q] /\ want'[q] = want[q]
    BY <1>1, <1>a DEF AdmitPeek, TypeOK
  <2>2. ProcPolicy(p)'
    BY <2>1 DEF ProcPolicy, Published
  <2> QED BY <1>1, <2>1, <2>2, QuietPolicy DEF AdmitPeek, fileVars, histVars
<1>2. CASE AdmitLock(p)
  <2>1. pc'[p] = "admitting" /\ \A q \in Procs \ {p} : pc'[q] = pc[q] /\ seen'[q] = seen[q] /\ want'[q] = want[q]
    BY <1>2, <1>a DEF AdmitLock, Acquire, Goto, TypeOK
  <2>2. ProcPolicy(p)'
    BY <2>1 DEF ProcPolicy, Published
  <2> QED BY <1>2, <2>1, <2>2, QuietPolicy DEF AdmitLock, fileVars, histVars
<1>3. CASE AdmitRead(p)
  <2>1. pc'[p] \in {"granted", "charging"} /\ (pc'[p] = "charging" => guard.phase = "ready")
        /\ \A q \in Procs \ {p} : pc'[q] = pc[q] /\ seen'[q] = seen[q] /\ want'[q] = want[q]
    BY <1>3, <1>a DEF AdmitRead, TypeOK
  <2>2. seen'[p] = guard /\ UNCHANGED <<guard, durable, grants>>
    BY <1>3, <1>a DEF AdmitRead, TypeOK, fileVars, histVars
  <2>3. guard.phase = "ready" => Covers(seen[p])'
    BY <1>b, <2>2 DEF FilePolicy, Covers
  <2>4. ProcPolicy(p)'
    BY <2>1, <2>3 DEF ProcPolicy, Published
  <2> QED BY <2>1, <2>2, <2>4, QuietPolicy
<1>4. CASE AdmitCommit(p)
  <2>1. pc[p] = "charging" /\ pc'[p] = "debited" /\ \A q \in Procs \ {p} : pc'[q] = pc[q]
    BY <1>4, <1>a DEF AdmitCommit, Goto, TypeOK
  <2>2. UNCHANGED <<guard, durable, seen>> /\ grants' = grants \cup {<<seen[p].gen, seen[p].max>>}
    BY <1>4 DEF AdmitCommit, fileVars
  <2>3. guard \in {seen[p], NoGuard} /\ Covers(seen[p])
    BY <1>a, <1>b, <2>1 DEF IInv, ChargeInv, ProcPolicy
  <2>4. AcctGen = seen[p].gen
    BY <1>4 DEF AdmitCommit, AcctGen
  <2>5. seen[p].gen \in Nat /\ durable.gen \in Nat /\ \A a \in grants : a[1] \in Nat
    BY <1>a, AssumptionsHold DEF TypeOK, Guards, Assumptions
  <2>6. GenerationNamesLimit'
    BY <1>b, <2>2, <2>3 DEF GenerationNamesLimit, Covers
  <2>7. ASSUME NEW x, x.gen = seen[p].gen, x.max = seen[p].max
        PROVE  \A a \in grants' : a[1] <= x.gen /\ (a[1] = x.gen => a[2] = x.max)
    BY <2>2, <2>3, <2>5, <2>7 DEF Covers
  <2>8. guard.phase # "absent" => Covers(guard)'
    <3> SUFFICES ASSUME guard.phase # "absent" PROVE Covers(guard)'
      OBVIOUS
    <3>1. guard' = seen[p]
      BY <2>2, <2>3 DEF NoGuard
    <3> QED BY <3>1, <2>7 DEF Covers
  <2>9. durable.phase # "absent" => Succeeds(guard, durable)' /\ Covers(durable)'
    <3> SUFFICES ASSUME durable.phase # "absent" PROVE Succeeds(guard, durable)' /\ Covers(durable)'
      OBVIOUS
    <3>1. guard.phase # "absent" /\ Succeeds(guard, durable)
      BY <1>b DEF FilePolicy
    <3>2. guard = seen[p]
      BY <2>3, <3>1 DEF NoGuard
    <3>3. seen[p].gen <= durable.gen
      BY <1>a, <2>4 DEF IInv, DurableFollows
    <3>4. durable.gen = seen[p].gen /\ durable.max = seen[p].max
      BY <2>5, <3>1, <3>2, <3>3 DEF Succeeds
    <3>5. Covers(durable)'
      BY <2>2, <2>7, <3>4 DEF Covers
    <3> QED BY <2>2, <3>1, <3>5 DEF Succeeds
  <2>10. FilePolicy'
    BY <1>b, <2>2, <2>8, <2>9 DEF FilePolicy
  <2>11. ProcPolicy(p)'
    BY <2>1 DEF ProcPolicy, Published
  <2> QED BY <2>1, <2>6, <2>10, <2>11, LoudPolicy DEF Locked, AdmitLocked
<1>5. CASE AdmitUnlock(p)
  <2>1. pc'[p] = "unlocked" /\ \A q \in Procs \ {p} : pc'[q] = pc[q] /\ seen'[q] = seen[q] /\ want'[q] = want[q]
    BY <1>5, <1>a DEF AdmitUnlock, Goto, TypeOK
  <2>2. ProcPolicy(p)'
    BY <2>1 DEF ProcPolicy, Published
  <2> QED BY <1>5, <2>1, <2>2, QuietPolicy DEF AdmitUnlock, fileVars, histVars
<1>6. CASE AdmitGrant(p)
  <2>1. pc'[p] = "granted" /\ \A q \in Procs \ {p} : pc'[q] = pc[q] /\ seen'[q] = seen[q] /\ want'[q] = want[q]
    BY <1>6, <1>a DEF AdmitGrant, Goto, TypeOK
  <2>2. ProcPolicy(p)'
    BY <2>1 DEF ProcPolicy, Published
  <2> QED BY <1>6, <2>1, <2>2, QuietPolicy DEF AdmitGrant, fileVars, histVars
<1>7. CASE AdmitFails(p)
  BY <1>7, ReturnPolicy DEF AdmitFails, fileVars, histVars
<1>8. CASE Send(p)
  BY <1>8, ReturnPolicy DEF Send, fileVars, histVars
<1> QED BY <1>1, <1>2, <1>3, <1>4, <1>5, <1>6, <1>7, <1>8 DEF Admit

\* The environment: a lost rename brings back a policy that covers every debit.
LEMMA EnvironmentPolicy ==
  ASSUME PolicyInv, Environment
  PROVE  Policy'
<1>a. TypeOK /\ FilePolicy /\ GenerationNamesLimit /\ \A q \in Procs : ProcPolicy(q)
  BY DEF PolicyInv, IInv
<1>d. guard.gen \in Nat /\ durable.gen \in Nat
  BY <1>a, AssumptionsHold DEF TypeOK, Guards, Assumptions
<1>1. CASE PowerLoss
  <2>1. guard' \in {guard, durable} /\ durable' = guard' /\ UNCHANGED grants
        /\ \A q \in Procs : pc'[q] = "idle"
    BY <1>1 DEF PowerLoss, histVars
  <2>2. guard'.phase # "absent" => Covers(guard)' /\ guard'.gen \in Nat
    BY <1>a, <1>d, <2>1 DEF FilePolicy, Covers
  <2>3. FilePolicy'
    BY <2>1, <2>2 DEF FilePolicy, Succeeds, Covers
  <2>4. \A q \in Procs : ProcPolicy(q)'
    BY <2>1 DEF ProcPolicy, Published
  <2>5. GenerationNamesLimit'
    BY <1>a, <2>1 DEF GenerationNamesLimit
  <2> QED BY <2>3, <2>4, <2>5 DEF Policy
<1>2. CASE ClockMoves \/ LoseAccounting \/ AlterTotal
  <2>1. UNCHANGED <<guard, durable, grants, pc, seen, want>>
    BY <1>2 DEF ClockMoves, LoseAccounting, AlterTotal, fileVars, histVars, procVars
  <2>2. FilePolicy' /\ GenerationNamesLimit'
    BY <1>a, <2>1, SameFiles
  <2>3. ASSUME NEW q \in Procs PROVE ProcPolicy(q)'
    BY <1>a, <2>1, SamePolicy
  <2> QED BY <2>2, <2>3 DEF Policy
<1>3. CASE RemoveGuard
  <2>1. guard' = NoGuard /\ durable' = NoGuard /\ UNCHANGED <<grants, pc, seen, want>>
    BY <1>3 DEF RemoveGuard, histVars, procVars
  <2>2. FilePolicy'
    BY <2>1 DEF FilePolicy, NoGuard
  <2>3. GenerationNamesLimit'
    BY <1>a, <2>1 DEF GenerationNamesLimit
  <2>4. ASSUME NEW q \in Procs PROVE ProcPolicy(q)'
    <3>1. Covers(seen[q])' = Covers(seen[q]) /\ Covers(want[q])' = Covers(want[q])
          /\ Succeeds(want[q], seen[q])' = Succeeds(want[q], seen[q])
      BY <2>1 DEF Covers, Succeeds
    <3> QED BY <1>a, <2>1, <3>1 DEF ProcPolicy
  <2> QED BY <2>2, <2>3, <2>4 DEF Policy
<1> QED BY <1>1, <1>2, <1>3 DEF Environment

\* Every step preserves the policy invariant.
LEMMA PolicyStep == PolicyInv /\ [Next]_vars => PolicyInv'
<1> SUFFICES ASSUME PolicyInv, [Next]_vars PROVE PolicyInv'
  OBVIOUS
<1>1. IInv'
  BY IStep DEF PolicyInv
<1>2. Policy'
  <2>1. ASSUME NEW p \in Procs, Crash(p) PROVE Policy'
    BY <2>1, ReturnPolicy DEF Crash, fileVars, histVars
  <2>2. CASE UNCHANGED vars
    <3>1. UNCHANGED <<guard, durable, grants, pc, seen, want>>
      BY <2>2 DEF vars
    <3>2. FilePolicy' /\ GenerationNamesLimit'
      BY <3>1, SameFiles DEF PolicyInv
    <3>3. ASSUME NEW q \in Procs PROVE ProcPolicy(q)'
      BY <3>1, SamePolicy DEF PolicyInv
    <3> QED BY <3>2, <3>3 DEF Policy
  <2> QED BY <2>1, <2>2, SetupPolicy, AdmitPolicy, EnvironmentPolicy DEF Next
<1> QED BY <1>1, <1>2 DEF PolicyInv, Policy

\* A generation names one limit: whatever setups are interrupted, retried with
\* another limit or undone by a power loss, no two debits of one activation
\* carry the same generation and different limits, for any number of
\* processes, limits and generations.
THEOREM GenerationsNameLimits == Spec => []GenerationNamesLimit
<1>1. PolicyInv => GenerationNamesLimit
  BY DEF PolicyInv
<1> QED BY <1>1, PolicyInit, PolicyStep, PTL DEF Spec

-----------------------------------------------------------------------------
(* No activation debits more than its limit                                *)

\* Every debit of the activation that still counts has its receipt.
Intact == \A o \in Origins, w \in Windows :
            w >= WindowOf(acct.last) => debited[o][w] <= receipts[o][w]

\* A first activation whose intent is published but not yet acted upon.
FirstIntent == guard.phase = "intent" /\ guard.gen = 1

\* What the files and the accounting say of the debits.  Receipts are complete
\* unless the accounting was lost and not yet resumed; a first intent that was
\* not brought back by a lost rename precedes every debit; no activation
\* suffers both losses.
FileLimit ==
  /\ "cache" \notin faults \/ acct.state = "ready" => Intact
  /\ FirstIntent /\ "rename" \notin faults => debited = NoCounts
  /\ guard.phase # "absent" => guard.gen >= 1
  /\ durable.phase # "absent" => durable.gen >= 1
  /\ ~({"rename", "cache"} \subseteq faults)

\* What a setup in progress knows: the accounting it is going to make ready
\* still holds the receipts of the activation it resumes.
Resumes(p) == \/ pc[p] \in {"intentSync", "account"}
              \/ pc[p] = "intent" /\ seen[p].phase # "absent"
ProcLimit(p) ==
  /\ Resumes(p) /\ acct.state # "missing" => Intact
  /\ pc[p] = "intent" /\ seen[p].phase # "absent" /\ want[p].gen = 1
     /\ "rename" \notin faults => debited = NoCounts
  /\ pc[p] \in Planned => want[p].gen >= 1

Limited == FileLimit /\ \A p \in Procs : ProcLimit(p)
LimitInv == IInv /\ Limited

\* The initial state satisfies the invariant.
LEMMA LimitInit == Init => LimitInv
<1> SUFFICES ASSUME Init PROVE LimitInv
  OBVIOUS
<1>1. IInv
  BY IInit
<1>2. Intact
  BY DEF Init, Intact, NoCounts
<1>3. FileLimit
  BY <1>2 DEF Init, FileLimit, FirstIntent, NoGuard
<1>4. \A p \in Procs : ProcLimit(p)
  BY <1>2 DEF Init, ProcLimit, Resumes, Planned
<1> QED BY <1>1, <1>3, <1>4 DEF LimitInv, Limited

\* A later reading of the clock is in no earlier window.
LEMMA WindowsAdvance ==
  ASSUME NEW s \in Nat, NEW t \in Nat, s <= t
  PROVE  WindowOf(s) \in Nat /\ WindowOf(s) <= WindowOf(t)
<1> DEFINE d == WINDOW_MS
           a == s \div d
           b == t \div d
<1>1. d \in Nat \ {0}
  BY AssumptionsHold DEF Assumptions
<1>2. a \in Nat /\ b \in Nat
  BY <1>1
<1>3. s = d * a + (s % d) /\ s % d \in 0 .. d - 1
  BY <1>1
<1>4. t = d * b + (t % d) /\ t % d \in 0 .. d - 1
  BY <1>1
<1>5. a <= b
  <2> SUFFICES ASSUME b + 1 <= a PROVE FALSE
    BY <1>2
  <2> HIDE DEF a, b, d
  <2>1. d * (b + 1) <= d * a
    BY <1>1, <1>2
  <2>2. d * (b + 1) = d * b + d
    BY <1>1, <1>2
  <2>3. d * a \in Nat /\ d * b \in Nat
    BY <1>1, <1>2
  <2>4. s % d \in Nat /\ t % d \in Nat /\ t % d < d
    BY <1>1, <1>3, <1>4
  <2>5. t < s
    BY <1>1, <1>3, <1>4, <2>1, <2>2, <2>3, <2>4
  <2> QED BY <2>5
<1> QED BY <1>2, <1>5 DEF WindowOf

\* While at most one kind of loss is suffered, no activation suffers two.
LEMMA SufferOnce ==
  ASSUME MaxFaultKinds <= 1, TypeOK, NEW kind \in {"rename", "cache"}, Suffer(kind)
  PROVE  ~({"rename", "cache"} \subseteq faults')
<1> SUFFICES ASSUME {"rename", "cache"} \subseteq faults' PROVE FALSE
  OBVIOUS
<1>1. faults' = {"cache"} \cup {"rename"}
  BY DEF Suffer, TypeOK
<1>2. IsFiniteSet({"cache"}) /\ Cardinality({"cache"}) = 1
  BY FS_Singleton
<1>3. Cardinality({"cache"} \cup {"rename"}) = 2
  BY <1>2, FS_AddElement
<1>4. Cardinality(faults') <= MaxFaultKinds
  BY DEF Suffer
<1> QED BY <1>1, <1>3, <1>4, BoundsAssumption

\* A step that writes nothing leaves alone what the files and a process that
\* does not move say of the debits.
LEMMA SameLimit ==
  ASSUME Limited, UNCHANGED <<guard, durable, acct, receipts, debited, faults>>
  PROVE  /\ FileLimit'
         /\ \A q \in Procs : pc'[q] = pc[q] /\ seen'[q] = seen[q] /\ want'[q] = want[q]
                             => ProcLimit(q)'
<1>1. Intact' = Intact
  BY DEF Intact
<1>2. FileLimit'
  BY <1>1 DEF Limited, FileLimit, FirstIntent
<1>3. ASSUME NEW q \in Procs, pc'[q] = pc[q], seen'[q] = seen[q], want'[q] = want[q]
      PROVE  ProcLimit(q)'
  <2>1. ProcLimit(q)
    BY DEF Limited
  <2> QED BY <1>1, <1>3, <2>1 DEF ProcLimit, Resumes
<1> QED BY <1>2, <1>3

\* A process outside the locked sections knows nothing of the debits.
LEMMA OutsideLimit ==
  ASSUME NEW p, pc[p] \notin Locked
  PROVE  ProcLimit(p)
BY DEF ProcLimit, Resumes, Planned, Locked, SetupLocked, AdmitLocked

\* A step of p that writes nothing.
LEMMA QuietLimit ==
  ASSUME LimitInv, NEW p \in Procs,
         UNCHANGED <<guard, durable, acct, receipts, debited, faults>>,
         \A q \in Procs \ {p} : pc'[q] = pc[q] /\ seen'[q] = seen[q] /\ want'[q] = want[q],
         ProcLimit(p)'
  PROVE  Limited'
<1>1. FileLimit' /\ \A q \in Procs \ {p} : ProcLimit(q)'
  BY SameLimit DEF LimitInv
<1> QED BY <1>1 DEF Limited

\* Returning, failing or dying writes nothing.
LEMMA ReturnLimit ==
  ASSUME LimitInv, NEW p \in Procs, Return(p),
         UNCHANGED <<guard, durable, acct, receipts, debited, faults>>
  PROVE  Limited'
<1>1. pc'[p] = "idle" /\ \A q \in Procs \ {p} : pc'[q] = pc[q] /\ seen'[q] = seen[q] /\ want'[q] = want[q]
  BY DEF Return, LimitInv, IInv, TypeOK
<1>2. ProcLimit(p)'
  BY <1>1 DEF ProcLimit, Resumes, Planned
<1> QED BY <1>1, <1>2, QuietLimit

\* While p holds the flock nobody else is in a locked step: a step of p that
\* writes need look only at the files, the debits and p.
LEMMA LoudLimit ==
  ASSUME LimitInv, NEW p \in Procs, pc[p] \in Locked,
         \A q \in Procs \ {p} : pc'[q] = pc[q],
         FileLimit', ProcLimit(p)'
  PROVE  Limited'
<1>1. ASSUME NEW q \in Procs \ {p} PROVE ProcLimit(q)'
  <2>1. pc[q] \notin Locked
    BY Alone DEF LimitInv, IInv
  <2>2. pc'[q] \notin Locked
    BY <2>1
  <2> QED BY <2>2 DEF ProcLimit, Resumes, Planned, Locked, AdmitLocked, SetupLocked
<1> QED BY <1>1 DEF Limited

\* With no debit counted, nothing is missing from the receipts.
LEMMA NothingMissing ==
  ASSUME TypeOK, debited = NoCounts
  PROVE  Intact
BY DEF TypeOK, Intact, NoCounts

\* The generation a setup plans from a guard file that is absent or has been
\* activated at least once is at least 1; it is 1 over a guard file only when
\* the first intent is retried.
LEMMA TargetFirst ==
  ASSUME NEW g \in Guards, NEW ag \in 0 .. MaxGen, NEW m, ~Unchanged(g, ag, m),
         g.phase # "absent" => g.gen >= 1
  PROVE  /\ TargetGen(g, ag, m) >= 1
         /\ g.phase # "absent" /\ TargetGen(g, ag, m) = 1
            => g.phase = "intent" /\ g.gen = 1
<1>1. g.gen \in Nat /\ ag \in Nat
  BY AssumptionsHold DEF Guards, Assumptions
<1>2. Greater(g.gen, ag) \in Nat /\ Greater(g.gen, ag) >= g.gen
  BY <1>1 DEF Greater
<1>3. CASE g.phase = "intent" /\ g.max = m
  <2>1. TargetGen(g, ag, m) = Greater(g.gen, ag)
    BY <1>3 DEF TargetGen
  <2> QED BY <1>1, <1>2, <1>3, <2>1
<1>4. CASE ~(g.phase = "intent" /\ g.max = m)
  <2>1. TargetGen(g, ag, m) = Greater(g.gen, ag) + 1
    BY <1>4 DEF TargetGen
  <2> QED BY <1>1, <1>2, <2>1
<1> QED BY <1>3, <1>4

\* The steps of apply_setup: the accounting a setup makes ready holds the
\* receipts of the activation it resumes.
LEMMA SetupLimit ==
  ASSUME LimitInv, NEW p \in Procs, Setup(p)
  PROVE  Limited'
<1>a. TypeOK /\ IInv
  BY DEF LimitInv, IInv
<1>b. FileLimit /\ ProcLimit(p)
  BY DEF LimitInv, Limited
<1>1. ASSUME NEW m \in Limits, SetupStart(p, m) PROVE Limited'
  <2>1. pc'[p] = "setup" /\ \A q \in Procs \ {p} : pc'[q] = pc[q] /\ seen'[q] = seen[q] /\ want'[q] = want[q]
    BY <1>1, <1>a DEF SetupStart, Goto, TypeOK
  <2>2. ProcLimit(p)'
    BY <2>1 DEF ProcLimit, Resumes, Planned
  <2> QED BY <1>1, <2>1, <2>2, QuietLimit DEF SetupStart, fileVars, histVars, acctVars
<1>2. CASE SetupLock(p)
  <2>1. pc'[p] = "planning" /\ \A q \in Procs \ {p} : pc'[q] = pc[q] /\ seen'[q] = seen[q] /\ want'[q] = want[q]
    BY <1>2, <1>a DEF SetupLock, Acquire, Goto, TypeOK
  <2>2. ProcLimit(p)'
    BY <2>1 DEF ProcLimit, Resumes, Planned
  <2> QED BY <1>2, <2>1, <2>2, QuietLimit DEF SetupLock, fileVars, histVars, acctVars
<1>3. CASE SetupPlan(p)
  <2> DEFINE m == want[p].max
             gen == TargetGen(guard, AcctGen, m)
  <2>1. pc[p] = "planning" /\ pc'[p] = "intent" /\ \A q \in Procs \ {p} : pc'[q] = pc[q]
    BY <1>3, <1>a DEF SetupPlan, Goto, TypeOK
  <2>2. seen'[p] = guard /\ want'[p].gen = gen
        /\ UNCHANGED <<guard, durable, receipts, debited, faults>>
        /\ acct'.last = acct.last /\ (acct'.state = "ready" => acct.state = "ready")
    BY <1>3, <1>a DEF SetupPlan, TypeOK, fileVars, histVars
  <2>3. gen >= 1 /\ (guard.phase # "absent" /\ gen = 1 => FirstIntent)
    BY <1>3, <1>a, <1>b, AcctGenType, TargetFirst DEF SetupPlan, FileLimit, FirstIntent, TypeOK
  <2>4. Opens(m)
    BY <1>3 DEF SetupPlan
  <2> HIDE DEF gen, m
  <2>5. Intact' = Intact
    BY <2>2 DEF Intact
  <2>6. FileLimit'
    BY <1>b, <2>2, <2>5 DEF FileLimit, FirstIntent
  <2>7. ASSUME guard.phase # "absent" PROVE Intact
    <3>1. CASE acct.state = "ready" \/ "cache" \notin faults
      BY <1>b, <3>1 DEF FileLimit
    <3>2. CASE acct.state # "ready" /\ "cache" \in faults
      <4>1. FirstIntent
        BY <2>4, <2>7, <3>2 DEF Opens, FirstActivation, FirstIntent
      <4>2. "rename" \notin faults
        BY <1>b, <3>2 DEF FileLimit
      <4> QED BY <1>a, <1>b, <4>1, <4>2, NothingMissing DEF FileLimit
    <3> QED BY <3>1, <3>2
  <2>8. ProcLimit(p)'
    <3>1. Resumes(p)' => guard.phase # "absent"
      BY <2>1, <2>2 DEF Resumes
    <3>2. seen'[p].phase # "absent" /\ want'[p].gen = 1 /\ "rename" \notin faults' => debited' = NoCounts
      BY <1>b, <2>2, <2>3 DEF FileLimit
    <3> QED BY <2>2, <2>3, <2>5, <2>7, <3>1, <3>2 DEF ProcLimit
  <2> QED BY <2>1, <2>6, <2>8, LoudLimit DEF Locked, SetupLocked
<1>4. CASE SetupUnchanged(p)
  BY <1>4, ReturnLimit DEF SetupUnchanged, fileVars, histVars, acctVars
<1>5. CASE PublishIntent(p)
  <2>1. pc[p] = "intent" /\ pc'[p] = "intentSync" /\ \A q \in Procs \ {p} : pc'[q] = pc[q]
    BY <1>5, <1>a DEF PublishIntent, Goto, TypeOK
  <2>2. guard'.phase = "intent" /\ guard'.gen = want[p].gen
        /\ UNCHANGED <<durable, acct, receipts, seen, want>>
    BY <1>5 DEF PublishIntent, Target, acctVars
  <2>3. want[p].gen >= 1
    BY <1>b, <2>1 DEF ProcLimit, Planned
  <2>4. CASE seen[p].phase = "absent"
    <3>1. debited' = NoCounts /\ faults' = {}
      BY <1>5, <2>4 DEF PublishIntent
    <3>2. Intact'
      BY <1>a, <2>2, <3>1 DEF TypeOK, Intact, NoCounts
    <3>3. FileLimit'
      BY <1>b, <2>2, <2>3, <3>1, <3>2 DEF FileLimit, FirstIntent
    <3>4. ProcLimit(p)'
      BY <2>1, <2>2, <2>3, <3>2 DEF ProcLimit
    <3> QED BY <2>1, <3>3, <3>4, LoudLimit DEF Locked, SetupLocked
  <2>5. CASE seen[p].phase # "absent"
    <3>1. UNCHANGED <<debited, faults>>
      BY <1>5, <2>5 DEF PublishIntent, histVars
    <3>2. Intact' = Intact
      BY <2>2, <3>1 DEF Intact
    <3>3. FileLimit'
      BY <1>b, <2>1, <2>2, <2>3, <2>5, <3>1, <3>2 DEF FileLimit, FirstIntent, ProcLimit
    <3>4. ProcLimit(p)'
      BY <1>b, <2>1, <2>2, <2>3, <2>5, <3>2 DEF ProcLimit, Resumes
    <3> QED BY <2>1, <3>3, <3>4, LoudLimit DEF Locked, SetupLocked
  <2> QED BY <2>4, <2>5
<1>6. CASE SyncIntent(p)
  <2>1. pc[p] = "intentSync" /\ pc'[p] = "account" /\ \A q \in Procs \ {p} : pc'[q] = pc[q]
    BY <1>6, <1>a DEF SyncIntent, Goto, TypeOK
  <2>2. durable' = guard /\ UNCHANGED <<guard, seen, want, acct, receipts, debited, faults>>
    BY <1>6 DEF SyncIntent, acctVars, histVars
  <2>3. Intact' = Intact
    BY <2>2 DEF Intact
  <2>4. FileLimit'
    BY <1>b, <2>2, <2>3 DEF FileLimit, FirstIntent
  <2>5. ProcLimit(p)'
    BY <1>b, <2>1, <2>2, <2>3 DEF ProcLimit, Resumes, Planned
  <2> QED BY <2>1, <2>4, <2>5, LoudLimit DEF Locked, SetupLocked
<1>7. CASE SetupAccount(p)
  <2>1. pc[p] = "account" /\ pc'[p] = "ready" /\ \A q \in Procs \ {p} : pc'[q] = pc[q]
    BY <1>7, <1>a DEF SetupAccount, Goto, TypeOK
  <2>2. acct.state # "missing" /\ acct'.last = acct.last
        /\ UNCHANGED <<guard, durable, seen, want, receipts, debited, faults>>
    BY <1>7 DEF SetupAccount, fileVars, histVars
  <2>3. Intact
    BY <1>b, <2>1, <2>2 DEF ProcLimit, Resumes
  <2>4. Intact'
    BY <2>2, <2>3 DEF Intact
  <2>5. FileLimit'
    BY <1>b, <2>2, <2>4 DEF FileLimit, FirstIntent
  <2>6. ProcLimit(p)'
    BY <1>b, <2>1, <2>2, <2>4 DEF ProcLimit, Planned
  <2> QED BY <2>1, <2>5, <2>6, LoudLimit DEF Locked, SetupLocked
<1>8. CASE PublishReady(p)
  <2>1. pc[p] = "ready" /\ pc'[p] = "readySync" /\ \A q \in Procs \ {p} : pc'[q] = pc[q]
    BY <1>8, <1>a DEF PublishReady, Goto, TypeOK
  <2>2. guard'.phase = "ready" /\ guard'.gen = want[p].gen
        /\ UNCHANGED <<durable, seen, want, acct, receipts, debited, faults>>
    BY <1>8 DEF PublishReady, Target, acctVars, histVars
  <2>3. Intact' = Intact
    BY <2>2 DEF Intact
  <2>4. want[p].gen >= 1
    BY <1>b, <2>1 DEF ProcLimit, Planned
  <2>5. FileLimit'
    BY <1>b, <2>2, <2>3, <2>4 DEF FileLimit, FirstIntent
  <2>6. ProcLimit(p)'
    BY <2>1, <2>2, <2>4 DEF ProcLimit, Resumes
  <2> QED BY <2>1, <2>5, <2>6, LoudLimit DEF Locked, SetupLocked
<1>9. CASE SyncReady(p)
  <2>1. pc[p] = "readySync" /\ pc'[p] = "idle" /\ \A q \in Procs \ {p} : pc'[q] = pc[q]
    BY <1>9, <1>a DEF SyncReady, Return, TypeOK
  <2>2. durable' = guard /\ UNCHANGED <<guard, acct, receipts, debited, faults>>
    BY <1>9 DEF SyncReady, acctVars, histVars
  <2>3. Intact' = Intact
    BY <2>2 DEF Intact
  <2>4. FileLimit'
    BY <1>b, <2>2, <2>3 DEF FileLimit, FirstIntent
  <2>5. ProcLimit(p)'
    BY <2>1 DEF ProcLimit, Resumes, Planned
  <2> QED BY <2>1, <2>4, <2>5, LoudLimit DEF Locked, SetupLocked
<1>10. CASE SetupFails(p)
  BY <1>10, ReturnLimit DEF SetupFails, fileVars, histVars, acctVars
<1> QED BY <1>1, <1>2, <1>3, <1>4, <1>5, <1>6, <1>7, <1>8, <1>9, <1>10 DEF Setup

\* The limit of a guard is a natural number.
LEMMA LimitIsNatural ==
  ASSUME NEW g \in Guards
  PROVE  g.max \in Nat
<1>1. g.max \in Limits \cup {0}
  BY DEF Guards
<1>2. g.max \in Limits => g.max \in Nat
  BY LimitsAssumption, Zenon
<1> QED BY <1>1, <1>2

\* The debit: its receipt is stored with it, in a window no earlier than the
\* last one charged, and the receipts bound what was debited there before.
LEMMA DebitIntact ==
  ASSUME LimitInv, NEW p \in Procs, AdmitCommit(p)
  PROVE  /\ Intact'
         /\ debited'[req'[p].origin][req'[p].window] <= seen[p].max
<1> DEFINE o == req[p].origin
           w == WindowOf(now)
<1>1. TypeOK /\ Intact /\ acct.state = "ready"
  BY DEF LimitInv, IInv, Limited, FileLimit, AdmitCommit
<1>2. o \in Origins /\ w \in Windows
  BY <1>1 DEF TypeOK, Windows
<1>3. acct.last \in Nat /\ now \in Nat /\ acct.last <= now
  BY <1>1, AssumptionsHold DEF AdmitCommit, TypeOK, Assumptions
<1>4. \A v \in Windows : v \in Int
  BY AssumptionsHold DEF Windows, WindowOf, Assumptions
<1>5. WindowOf(acct.last) <= w /\ WindowOf(acct.last) \in Int /\ w \in Int
  BY <1>3, WindowsAdvance
<1>6. receipts' = Pruned([receipts EXCEPT ![o][w] = @ + 1], w)
      /\ debited' = [debited EXCEPT ![o][w] = @ + 1] /\ acct'.last = now
      /\ req'[p].origin = o /\ req'[p].window = w
      /\ receipts[o][w] = charges[o][w] /\ charges[o][w] < seen[p].max
  BY <1>1 DEF AdmitCommit, Charged, TypeOK
<1> HIDE DEF o, w
<1>7. ASSUME NEW x \in Origins, NEW v \in Windows, v >= WindowOf(acct'.last)
      PROVE  debited'[x][v] <= receipts'[x][v]
  <2>1. v >= w
    BY <1>6, <1>7 DEF w
  <2>2. debited[x][v] <= receipts[x][v]
    BY <1>1, <1>4, <1>5, <2>1 DEF Intact
  <2>3. debited[x][v] \in Nat /\ receipts[x][v] \in Nat
    BY <1>1 DEF TypeOK
  <2>4. ~(v < w - RETAINED_WINDOWS)
    BY <1>4, <1>5, <2>1, AssumptionsHold DEF Assumptions
  <2>5. receipts'[x][v] = [receipts EXCEPT ![o][w] = @ + 1][x][v]
    BY <1>6, <2>4 DEF Pruned
  <2>6. CASE x = o /\ v = w
    BY <1>1, <1>2, <1>6, <2>2, <2>3, <2>5, <2>6 DEF TypeOK
  <2>7. CASE x # o \/ v # w
    BY <1>1, <1>2, <1>6, <2>2, <2>3, <2>5, <2>7 DEF TypeOK
  <2> QED BY <2>6, <2>7
<1>8. Intact'
  <2>1. \A x \in Origins, v \in Windows : v >= WindowOf(acct.last)' => debited'[x][v] <= receipts'[x][v]
    BY <1>7 DEF WindowOf
  <2> QED BY <2>1 DEF Intact, WindowOf
<1>9. debited'[o][w] <= seen[p].max
  <2>1. debited[o][w] <= receipts[o][w]
    BY <1>1, <1>2, <1>5 DEF Intact
  <2>2. debited[o][w] \in Nat /\ receipts[o][w] \in Nat
    BY <1>1, <1>2 DEF TypeOK
  <2>3. debited'[o][w] = debited[o][w] + 1
    BY <1>1, <1>2, <1>6 DEF TypeOK
  <2>4. seen[p].max \in Nat
    <3>1. seen[p] \in Guards
      BY <1>1 DEF TypeOK
    <3> QED BY <3>1, LimitIsNatural
  <2> QED BY <1>6, <2>1, <2>2, <2>3, <2>4
<1> QED BY <1>6, <1>8, <1>9

\* The steps of admit.
LEMMA AdmitLimit ==
  ASSUME LimitInv, NEW p \in Procs, Admit(p)
  PROVE  Limited'
<1>a. TypeOK /\ IInv
  BY DEF LimitInv, IInv
<1>b. FileLimit /\ ProcLimit(p)
  BY DEF LimitInv, Limited
<1>1. CASE AdmitCommit(p)
  <2>1. pc[p] = "charging" /\ pc'[p] = "debited" /\ \A q \in Procs \ {p} : pc'[q] = pc[q]
    BY <1>1, <1>a DEF AdmitCommit, Goto, TypeOK
  <2>2. UNCHANGED <<guard, durable, seen, want, faults>>
    BY <1>1 DEF AdmitCommit, fileVars
  <2>3. guard.phase # "intent"
    BY <1>a, <2>1 DEF IInv, ChargeInv, NoGuard
  <2>4. Intact'
    BY <1>1, DebitIntact
  <2>5. FileLimit'
    BY <1>b, <2>2, <2>3, <2>4 DEF FileLimit, FirstIntent
  <2>6. ProcLimit(p)'
    BY <2>1 DEF ProcLimit, Resumes, Planned
  <2> QED BY <2>1, <2>5, <2>6, LoudLimit DEF Locked, AdmitLocked
<1>2. CASE ~AdmitCommit(p)
  <2>1. pc'[p] \in {"granted", "waiting", "admitting", "charging", "unlocked", "idle"}
        /\ \A q \in Procs \ {p} : pc'[q] = pc[q] /\ seen'[q] = seen[q] /\ want'[q] = want[q]
    BY <1>2, <1>a DEF Admit, AdmitPeek, AdmitLock, Acquire, AdmitRead, AdmitUnlock,
       AdmitGrant, AdmitFails, Send, Goto, Return, TypeOK
  <2>2. UNCHANGED <<guard, durable, acct, receipts, debited, faults>>
    BY <1>2 DEF Admit, AdmitPeek, AdmitLock, AdmitRead, AdmitUnlock, AdmitGrant,
       AdmitFails, Send, fileVars, acctVars, histVars
  <2>3. ProcLimit(p)'
    BY <2>1 DEF ProcLimit, Resumes, Planned
  <2> QED BY <2>1, <2>2, <2>3, QuietLimit
<1> QED BY <1>1, <1>2

\* The environment: a cleared cache takes the receipts with it, a lost rename
\* brings an old guard back, and an activation suffers only one of the two.
LEMMA EnvironmentLimit ==
  ASSUME MaxFaultKinds <= 1, LimitInv, Environment
  PROVE  Limited'
<1>a. TypeOK /\ Limited /\ FileLimit /\ \A q \in Procs : ProcLimit(q)
  BY DEF LimitInv, IInv, Limited
<1>1. CASE PowerLoss
  <2>1. guard' \in {guard, durable} /\ durable' = guard' /\ UNCHANGED <<acct, receipts, debited>>
        /\ \A q \in Procs : pc'[q] = "idle"
    BY <1>1 DEF PowerLoss, acctVars
  <2>2. faults \subseteq faults' /\ ("cache" \in faults' => "cache" \in faults)
        /\ (guard' # guard => "rename" \in faults')
    BY <1>1 DEF PowerLoss, Suffer
  <2>3. ~({"rename", "cache"} \subseteq faults')
    BY <1>1, <1>a, SufferOnce DEF PowerLoss, FileLimit
  <2>4. Intact' = Intact
    BY <2>1 DEF Intact
  <2>5. FileLimit'
    BY <1>a, <2>1, <2>2, <2>3, <2>4 DEF FileLimit, FirstIntent
  <2>6. \A q \in Procs : ProcLimit(q)'
    BY <2>1 DEF ProcLimit, Resumes, Planned
  <2> QED BY <2>5, <2>6 DEF Limited
<1>2. CASE ClockMoves \/ AlterTotal
  <2>1. UNCHANGED <<guard, durable, acct, receipts, debited, faults, pc, seen, want>>
    BY <1>2 DEF ClockMoves, AlterTotal, fileVars, acctVars, histVars, procVars
  <2> QED BY <1>a, <2>1, SameLimit DEF Limited
<1>3. CASE LoseAccounting
  <2>1. UNCHANGED <<guard, durable, debited, pc, seen, want>> /\ acct'.state = "missing"
    BY <1>3 DEF LoseAccounting, NoAccounting, fileVars, procVars
  <2>2. "cache" \in faults' /\ faults \subseteq faults'
    BY <1>3 DEF LoseAccounting, Suffer
  <2>3. ~({"rename", "cache"} \subseteq faults')
    BY <1>3, <1>a, SufferOnce DEF LoseAccounting
  <2>4. FileLimit'
    BY <1>a, <2>1, <2>2, <2>3 DEF FileLimit, FirstIntent
  <2>5. ASSUME NEW q \in Procs PROVE ProcLimit(q)'
    BY <1>a, <2>1, <2>2 DEF ProcLimit
  <2> QED BY <2>4, <2>5 DEF Limited
<1>4. CASE RemoveGuard
  <2>1. guard' = NoGuard /\ durable' = NoGuard
        /\ UNCHANGED <<acct, receipts, debited, faults, pc, seen, want>>
    BY <1>4 DEF RemoveGuard, acctVars, histVars, procVars
  <2>2. Intact' = Intact
    BY <2>1 DEF Intact
  <2>3. FileLimit'
    BY <1>a, <2>1, <2>2 DEF FileLimit, FirstIntent, NoGuard
  <2>4. ASSUME NEW q \in Procs PROVE ProcLimit(q)'
    BY <1>a, <2>1, <2>2 DEF ProcLimit, Resumes
  <2> QED BY <2>3, <2>4 DEF Limited
<1> QED BY <1>1, <1>2, <1>3, <1>4 DEF Environment

\* Every step preserves the invariant.
LEMMA LimitStep ==
  ASSUME MaxFaultKinds <= 1
  PROVE  LimitInv /\ [Next]_vars => LimitInv'
<1> SUFFICES ASSUME LimitInv, [Next]_vars PROVE LimitInv'
  OBVIOUS
<1>1. IInv'
  BY IStep DEF LimitInv
<1>2. ASSUME NEW p \in Procs, Crash(p) PROVE Limited'
  BY <1>2, ReturnLimit DEF Crash, fileVars, acctVars, histVars
<1>3. ASSUME UNCHANGED vars PROVE Limited'
  BY <1>3, SameLimit DEF vars, LimitInv, Limited
<1>4. Limited'
  BY <1>2, <1>3, SetupLimit, AdmitLimit, EnvironmentLimit DEF Next
<1> QED BY <1>1, <1>4 DEF LimitInv

\* No activation debits more than its limit in one window of one origin,
\* whatever setups, crashes, damaged totals and clock moves intervene, for any
\* number of processes, origins, limits and windows, as long as one activation
\* suffers at most one of the two kinds of loss (a rename undone by a power
\* loss, a cleared cache).  Of both together the code does not recover: TLC
\* finds an activation that debits twice its limit when MaxFaultKinds is 2.
THEOREM LimitsHold ==
  ASSUME MaxFaultKinds <= 1
  PROVE  Spec => DebitWithinLimit
<1> DEFINE Within ==
      \A p \in Procs : pc[p] = "charging" /\ pc'[p] = "debited"
        => debited'[req'[p].origin][req'[p].window] <= seen[p].max
<1>1. LimitInv /\ [Next]_vars => [Within]_vars
  <2> SUFFICES ASSUME LimitInv, Next, NEW p \in Procs, pc[p] = "charging", pc'[p] = "debited"
               PROVE  debited'[req'[p].origin][req'[p].window] <= seen[p].max
    OBVIOUS
  <2>1. AdmitCommit(p)
    BY OnlyTheDebit DEF LimitInv, IInv
  <2> QED BY <2>1, DebitIntact
<1> QED BY <1>1, LimitInit, LimitStep, PTL DEF Spec, DebitWithinLimit

=============================================================================
