------------------------- MODULE CoordinationProofs -------------------------
(***************************************************************************)
(* Theorems about Coordination, for every set of runs, requests and        *)
(* shortlists, every TTL, every bound on the clocks and with a store that  *)
(* may fail or not.                                                        *)
(*                                                                         *)
(* The inductive invariant says that a run that evaluates as a leader owns *)
(* its lease or was succeeded after its expiry (LeaderInv), that the rows  *)
(* of the cache are those of one publication and no younger than their     *)
(* lease (RowInv), and that what a lookup holds between its two reads is   *)
(* still in the cache or known to be stale (PairInv).                      *)
(***************************************************************************)
EXTENDS Coordination, TLAPS

-----------------------------------------------------------------------------
(* The inductive invariant                                                 *)

\* Only a run that evaluates, or is about to release its lease, leads.  While it
\* evaluates, its lease is the current one and not completed, or a successor
\* acquired the key no earlier than its expiry.
Leads(p) == led[p] # NoContext

LeaderOf(p) ==
  Leads(p) =>
    /\ pc[p] \in Evaluating \cup {"release", "unwind"}
    /\ led[p].owner = p
    /\ pc[p] \in Evaluating =>
         /\ lease[key[p]] # NoLease
         /\ \/ LeaderContext(lease[key[p]]) = led[p] /\ ~lease[key[p]].done
            \/ lease[key[p]].acquired >= led[p].expires

LeaderInv == \A p \in Runs : LeaderOf(p)

\* A row of a led evaluation is no younger than the key's lease, which is
\* completed when the row is its own.
LeasedRow(r) ==
  r.fence > 0 =>
    /\ lease[r.key] # NoLease
    /\ r.fence <= lease[r.key].fence
    /\ r.fence = lease[r.key].fence => lease[r.key].done

RowInv ==
  /\ \A r \in rows : LeasedRow(r) /\ r.bootReceived <= r.written
  /\ \A r, s \in rows : r.by = s.by /\ r.written = s.written

\* Between the two reads of a lookup the wide row is of an age the wall clock
\* allowed as it began, and still in the cache, unless the database changed; what
\* was served is of one evaluation.
PairOf(p) ==
  /\ pc[p] = "pair" => WallFresh(wide[p], asOf[p])
  /\ pc[p] = "pair" /\ ~moved[p] => wide[p] \in rows
  /\ \A r, s \in served[p] : r.by = s.by

PairInv == \A p \in Runs : PairOf(p)

IInv == TypeOK /\ LeaderInv /\ RowInv /\ PairInv

\* A step of one run, from its first to its last.
RunStep(p) == Open(p) \/ Step(p) \/ Kill(p)

\* The assumptions on the constants, gathered under one name that proofs cite.
CoordinationConstants ==
  /\ Runs = Owners /\ Requests # {}
  /\ MaxGeneration \in Nat /\ MaxTime \in Nat /\ MaxStepBack \in Nat
  /\ WorkBudget \in Nat \ {0} /\ LeaseTtl \in Nat \ {0} /\ CacheTtl \in Nat \ {0}
  /\ MaxFence \in Nat \ {0} /\ NoLease \notin Leases
  /\ LowNeed \notin Shortlists

\* The constants of coordination satisfy what is assumed of them.
LEMMA CoordinationConstantsHold == CoordinationConstants
BY LeaseAssumption, ResponseAssumption, CoordinationAssumption
   DEF CoordinationConstants, Leases

-----------------------------------------------------------------------------
(* What one function of the lease coordinator does to a row                *)

\* A row that a new leader may write over: none, or one whose clock is not ahead
\* and that was completed or has expired.
Succeeds(rec, t) ==
  rec # NoLease => t >= rec.acquired /\ (rec.done \/ t >= rec.expires)

\* Leadership is granted only over such a row, and the row written is a lease
\* with the next fence (acquire_lease, force_reacquire).
LEMMA LeadingFollows ==
  ASSUME NEW rec \in Leases \cup {NoLease}, NEW o \in Owners, NEW t \in Int,
         Acquired(rec, t) = "leading" \/ Reacquired(rec, t) = "leading"
  PROVE  LET won == Leading(rec, o, t)
         IN /\ Succeeds(rec, t)
            /\ won \in Leases /\ won.owner = o /\ ~won.done
            /\ won.acquired = t /\ won.expires = t + LeaseTtl
            /\ rec # NoLease => won.fence = rec.fence + 1
            /\ LeaderContext(won) \in Contexts
BY CoordinationConstantsHold
   DEF Acquired, Reacquired, Leading, NextFence, CheckTime, Unexpired, Leases, Succeeds,
       LeaderContext, Contexts, CoordinationConstants

\* An ordinary acquisition goes only over a row that has expired, completed or not.
LEMMA AcquiredOnExpiry ==
  ASSUME NEW rec \in Leases, NEW t \in Int, Acquired(rec, t) = "leading"
  PROVE  t >= rec.acquired /\ t >= rec.expires
BY CoordinationConstantsHold
   DEF Acquired, CheckTime, Unexpired, Leases, CoordinationConstants

\* Completion marks the row and keeps the rest.
LEMMA CompletedType ==
  ASSUME NEW rec \in Leases
  PROVE  /\ Completed(rec) \in Leases /\ Completed(rec).done
         /\ Completed(rec).owner = rec.owner /\ Completed(rec).fence = rec.fence
         /\ Completed(rec).acquired = rec.acquired /\ Completed(rec).expires = rec.expires
BY DEF Completed, Leases

-----------------------------------------------------------------------------
(* What one step of a run leaves alone, and what it does to the leases     *)

\* The end of a run clears what it kept.
LEMMA ExitEffect ==
  ASSUME TypeOK, NEW p \in Runs, NEW how, Exit(p, how)
  PROVE  /\ pc'[p] = how /\ led'[p] = NoContext /\ served'[p] = {}
         /\ \A q \in Runs \ {p} :
              /\ pc'[q] = pc[q] /\ key'[q] = key[q] /\ led'[q] = led[q]
              /\ wide'[q] = wide[q] /\ asOf'[q] = asOf[q] /\ served'[q] = served[q]
BY DEF TypeOK, Exit, Goto

\* Runs share the store and the clocks, and nothing else but the mark that the
\* database changed.
LEMMA OthersKept ==
  ASSUME TypeOK, NEW p \in Runs, RunStep(p), NEW q \in Runs \ {p}
  PROVE  /\ pc'[q] = pc[q] /\ key'[q] = key[q] /\ led'[q] = led[q]
         /\ wide'[q] = wide[q] /\ asOf'[q] = asOf[q] /\ served'[q] = served[q]
<1> USE DEF Goto, lookupVars, answerVars
<1>1. CASE Open(p)
  BY <1>1 DEF TypeOK, Open
<1>2. CASE LookupWide(p)
  BY <1>2 DEF TypeOK, LookupWide, Miss, Serve, LookupOver
<1>3. CASE LookupRerank(p)
  BY <1>3 DEF TypeOK, LookupRerank, Miss, Serve, LookupOver
<1>4. CASE Acquire(p)
  BY <1>4 DEF TypeOK, Acquire, NoAcquisition, Lead
<1>5. CASE Refresh(p)
  BY <1>5 DEF TypeOK, Refresh, Lead
<1>6. CASE Wait(p)
  BY <1>6 DEF TypeOK, Wait
<1>7. CASE SendWide(p) \/ CheckLead(p) \/ SendRerank(p)
  BY <1>7 DEF TypeOK, SendWide, CheckLead, SendRerank, StageFails
<1>8. CASE Publish(p)
  BY <1>8 DEF TypeOK, Publish
<1>9. CASE Finish(p) \/ Release(p) \/ Kill(p)
  BY <1>9, ExitEffect DEF Finish, Release, Kill
<1> QED BY <1>1, <1>2, <1>3, <1>4, <1>5, <1>6, <1>7, <1>8, <1>9 DEF RunStep, Step

\* The row of `k` is acquired by `p`, which led nothing before.
TakenBy(p, k) ==
  /\ k = key[p] /\ pc[p] \in {"acquire", "takeover", "refresh"}
  /\ Succeeds(lease[k], wall)
  /\ lease'[k] = Leading(lease[k], p, wall) /\ lease'[k] \in Leases
  /\ pc'[p] \in {"send", "deferred"}
  /\ led'[p] \in {led[p], LeaderContext(lease'[k])}

\* The row of `k` is completed by `p`, which is its owner.
CompletedBy(p, k) ==
  /\ k = key[p] /\ led[p] # NoContext
  /\ lease[k] # NoLease /\ ~lease[k].done
  /\ lease[k].owner = led[p].owner /\ lease[k].fence = led[p].fence
  /\ lease'[k] = Completed(lease[k])

\* A step of a run changes at most the lease of its own key, which it acquires
\* or completes.
LEMMA LeaseSteps ==
  ASSUME TypeOK, NEW p \in Runs, RunStep(p), NEW k \in Keys
  PROVE  lease'[k] = lease[k] \/ TakenBy(p, k) \/ CompletedBy(p, k)
<1> USE DEF Goto, store
<1>1. /\ lease \in [Keys -> Leases \cup {NoLease}] /\ key[p] \in Keys /\ p \in Owners
      /\ wall \in Int
  BY CoordinationConstantsHold DEF TypeOK, CoordinationConstants
<1>2. CASE Acquire(p)
  <2> DEFINE won == Leading(lease[key[p]], p, wall)
  <2>1. CASE /\ Acquired(lease[key[p]], wall) = "leading"
             /\ lease' = [lease EXCEPT ![key[p]] = won]
             /\ \/ Lead(p, won) /\ Goto(p, "send")
                \/ NoAcquisition(p)
    <3>1. Succeeds(lease[key[p]], wall) /\ won \in Leases
      BY <1>1, <2>1, LeadingFollows
    <3> HIDE DEF won
    <3>2. lease'[key[p]] = won /\ (k # key[p] => lease'[k] = lease[k])
      BY <1>1, <2>1
    <3>3. pc'[p] \in {"send", "deferred"} /\ led'[p] \in {led[p], LeaderContext(won)}
      BY <2>1 DEF Lead, NoAcquisition, TypeOK
    <3> QED BY <1>2, <3>1, <3>2, <3>3 DEF TakenBy, Acquire, won
  <2> QED BY <1>2, <2>1 DEF Acquire
<1>3. CASE Refresh(p)
  <2> DEFINE won == Leading(lease[key[p]], p, wall)
  <2>1. CASE /\ Reacquired(lease[key[p]], wall) = "leading"
             /\ lease' = [lease EXCEPT ![key[p]] = won]
             /\ Lead(p, won) \/ led' = led
    <3>1. Succeeds(lease[key[p]], wall) /\ won \in Leases
      BY <1>1, <2>1, LeadingFollows
    <3> HIDE DEF won
    <3>2. lease'[key[p]] = won /\ (k # key[p] => lease'[k] = lease[k])
      BY <1>1, <2>1
    <3>3. pc'[p] = "send" /\ led'[p] \in {led[p], LeaderContext(won)}
      BY <1>3, <2>1 DEF Lead, Refresh, TypeOK
    <3> QED BY <1>3, <3>1, <3>2, <3>3, <1>1 DEF TakenBy, Refresh, At, won
  <2> QED BY <1>3, <2>1 DEF Refresh
<1>4. CASE Publish(p)
  <2>1. CASE Fenced(p) /\ CommitEvaluation(p)
    BY <1>1, <2>1
       DEF CommitEvaluation, Fenced, ActiveLease, LeaderContext, CompletedBy
  <2> QED BY <1>4, <2>1 DEF Publish
<1>5. CASE Release(p)
  <2>1. CASE /\ led[p] # NoContext /\ Completion(lease[key[p]], led[p], wall) = "published"
             /\ lease' = [lease EXCEPT ![key[p]] = Completed(lease[key[p]])]
    BY <1>1, <2>1 DEF Completion, CompletedBy
  <2> QED BY <1>5, <2>1 DEF Release
<1>6. CASE Open(p) \/ LookupWide(p) \/ LookupRerank(p) \/ Wait(p) \/ SendWide(p)
           \/ CheckLead(p) \/ SendRerank(p) \/ Finish(p) \/ Kill(p)
  BY <1>6 DEF Open, LookupWide, LookupRerank, Wait, SendWide, CheckLead, SendRerank,
              Finish, Kill
<1> QED BY <1>2, <1>3, <1>4, <1>5, <1>6 DEF RunStep, Step

-----------------------------------------------------------------------------
(* The rows of a publication                                               *)

\* What every row of an evaluation has in common: its key, its writer, the fence
\* it was led under and when it was written, which its receipt does not exceed.
RowOf(r, p) ==
  /\ r \in CacheRows
  /\ r.key = key[p] /\ r.by = p /\ r.written = boot /\ r.bootReceived <= r.written
  /\ r.fence = IF led[p] = NoContext THEN 0 ELSE led[p].fence

\* The rows of an evaluation are rows of the cache (EvaluationRows).
LEMMA RowsOfEvaluation ==
  ASSUME TypeOK, NEW p \in Runs, NEW r \in EvaluationRows(Evaluation(p), wall, boot)
  PROVE  RowOf(r, p)
<1> DEFINE ev == Evaluation(p)
<1>1. /\ ev.key = key[p] /\ ev.list = list[p] /\ ev.by = p /\ ev.got = got[p]
      /\ ev.fence = IF led[p] = NoContext THEN 0 ELSE led[p].fence
  BY DEF Evaluation
<1> HIDE DEF ev
<1>2. PICK stage \in {"wide", "rerank"} : r = Row(stage, ev, wall, boot)
  BY DEF EvaluationRows, ev
<1>3. got[p]["wide"] \in Nat /\ got[p]["rerank"] \in Nat
  BY DEF TypeOK
<1>4. ev.got[stage] \in Nat
  BY <1>1, <1>2, <1>3
<1>5. /\ key[p] \in Keys /\ list[p] \in Decisions /\ boot \in Nat /\ wall \in Nat
      /\ ev.fence \in 0 .. MaxFence
  BY <1>1, CoordinationConstantsHold DEF TypeOK, Contexts, CoordinationConstants
<1> DEFINE receipt == BootReceipt(ev.got[stage], wall, boot)
<1>6. receipt \in Nat /\ receipt <= boot
  BY <1>4, <1>5 DEF BootReceipt, Saturating
<1> HIDE DEF receipt
<1>7. r = [stage |-> stage, key |-> ev.key, list |-> ev.list, by |-> ev.by,
           fence |-> ev.fence, received |-> ev.got[stage],
           bootReceived |-> receipt, written |-> boot]
  BY <1>2 DEF Row, receipt
<1> QED BY <1>1, <1>2, <1>4, <1>5, <1>6, <1>7 DEF RowOf, CacheRows

\* A step of a run leaves the rows alone, or replaces all of them by those of its
\* own evaluation, whose lease it completes if it leads.
Publishes(p) ==
  /\ pc[p] = "publish" /\ MayPublish(p)
  /\ rows' = EvaluationRows(Evaluation(p), wall, boot)
  /\ pc'[p] = "release" /\ moved' = [q \in Runs |-> At(q, "pair")]
  /\ Leads(p) => ActiveLease(lease[key[p]], led[p], wall) /\ CompletedBy(p, key[p])

\* Only a publication writes rows (publish_evaluation).
LEMMA RowSteps ==
  ASSUME TypeOK, NEW p \in Runs, RunStep(p)
  PROVE  rows' = rows \/ Publishes(p)
<1> USE DEF store
<1>1. CASE Publish(p)
  <2>1. CASE MayPublish(p) /\ Fenced(p) /\ CommitEvaluation(p) /\ Goto(p, "release")
    <3>1. /\ pc[p] = "publish" /\ rows' = EvaluationRows(Evaluation(p), wall, boot)
          /\ pc'[p] = "release"
      BY <1>1, <2>1 DEF Publish, At, Goto, CommitEvaluation, ReplaceResponses, TypeOK
    <3>2. Leads(p) => ActiveLease(lease[key[p]], led[p], wall)
      BY <2>1 DEF Leads, Fenced
    <3>3. Leads(p) => lease' = [lease EXCEPT ![key[p]] = Completed(@)]
      BY <2>1 DEF Leads, CommitEvaluation
    <3>4. Leads(p) => CompletedBy(p, key[p])
      BY <3>2, <3>3 DEF Leads, CompletedBy, ActiveLease, LeaderContext, TypeOK
    <3> QED BY <2>1, <3>1, <3>2, <3>4 DEF Publishes, CommitEvaluation, Commits
  <2> QED BY <1>1, <2>1 DEF Publish
<1>2. CASE Open(p) \/ LookupWide(p) \/ LookupRerank(p) \/ Acquire(p) \/ Refresh(p) \/ Wait(p)
           \/ SendWide(p) \/ CheckLead(p) \/ SendRerank(p) \/ Finish(p) \/ Release(p)
           \/ Kill(p)
  BY <1>2 DEF Open, LookupWide, LookupRerank, Acquire, Refresh, Wait, SendWide, CheckLead,
              SendRerank, Finish, Release, Kill
<1> QED BY <1>1, <1>2 DEF RunStep, Step

-----------------------------------------------------------------------------
(* Type correctness                                                        *)

\* What the environment does keeps the state well-typed.
LEMMA TypeEnvironment ==
  ASSUME TypeOK, AdvanceGeneration \/ Tick \/ StepBack \/ UNCHANGED vars
  PROVE  TypeOK'
<1> USE CoordinationConstantsHold
    DEF CoordinationConstants, TypeOK, store, clocks, lookupVars, answerVars
<1>1. CASE AdvanceGeneration
  BY <1>1 DEF AdvanceGeneration, Commits, At
<1>2. CASE Tick
  BY <1>2 DEF Tick
<1>3. CASE StepBack
  BY <1>3 DEF StepBack
<1>4. CASE UNCHANGED vars
  BY <1>4 DEF vars
<1> QED BY <1>1, <1>2, <1>3, <1>4

\* A step of a run keeps the leases and the rows well-typed.
LEMMA TypeOfStore ==
  ASSUME TypeOK, NEW p \in Runs, RunStep(p)
  PROVE  lease' \in [Keys -> Leases \cup {NoLease}] /\ rows' \subseteq CacheRows
<1>1. \A k \in Keys : lease'[k] \in Leases \cup {NoLease}
  BY LeaseSteps, CompletedType DEF TypeOK, TakenBy, CompletedBy
<1>2. lease' = lease \/ \E k, b : lease' = [lease EXCEPT ![k] = b]
  BY DEF RunStep, Step, Open, LookupWide, LookupRerank, Acquire, Refresh, Wait, SendWide,
         CheckLead, SendRerank, Publish, CommitEvaluation, Finish, Release, Kill, store
<1>3. lease' = [k \in Keys |-> lease'[k]]
  BY <1>2 DEF TypeOK
<1> QED BY <1>1, <1>3, RowSteps, RowsOfEvaluation DEF TypeOK, Publishes, RowOf

\* What a run keeps is well-typed at its end.
LEMMA TypeExit ==
  ASSUME TypeOK, NEW p \in Runs, NEW how \in {"answered", "failed", "dead"}, Exit(p, how),
         lease' \in [Keys -> Leases \cup {NoLease}], rows' \subseteq CacheRows,
         moved' \in [Runs -> BOOLEAN], gen' = gen, UNCHANGED clocks
  PROVE  TypeOK'
<1>1. NoKey \in Keys
  <2>1. key[p] \in Keys
    BY DEF TypeOK
  <2> QED BY <2>1 DEF NoKey
<1>2. [wide |-> 0, rerank |-> 0] \in [wide : Nat, rerank : Nat]
  OBVIOUS
<1>3. /\ pc' \in [Runs -> AtRest \cup {"lookup", "pair", "acquire", "takeover", "refresh",
                 "wait", "send", "check", "rerank", "publish", "release", "unwind",
                 "served", "deferred"}]
      /\ tried' \in [Runs -> {"none", "followed", "completed", "took", "told"}]
      /\ key' \in [Runs -> Keys] /\ slot' \in [Runs -> BOOLEAN] /\ until' \in [Runs -> Int]
      /\ ends' \in [Runs -> Nat] /\ asOf' \in [Runs -> Nat]
  BY <1>1 DEF TypeOK, Exit, Goto, AtRest, Ended
<1>4. /\ wide' \in [Runs -> CacheRows \cup {NoRow}] /\ led' \in [Runs -> Contexts \cup {NoContext}]
      /\ list' \in [Runs -> Decisions] /\ got' \in [Runs -> [wide : Nat, rerank : Nat]]
      /\ served' \in [Runs -> SUBSET CacheRows]
  BY <1>2 DEF TypeOK, Exit, Decisions
<1> QED BY <1>3, <1>4 DEF TypeOK, clocks

\* A step of a run keeps the state well-typed; what it serves are rows of the cache.
LEMMA TypeOfRun ==
  ASSUME TypeOK, PairInv, NEW p \in Runs, RunStep(p)
  PROVE  TypeOK'
<1> USE DEF Goto, At, store, clocks, lookupVars, answerVars
<1>1. lease' \in [Keys -> Leases \cup {NoLease}] /\ rows' \subseteq CacheRows
  BY TypeOfStore
<1>2. Commits => moved' \in [Runs -> BOOLEAN]
  BY DEF Commits
<1>3. CASE Open(p)
  <2>1. PICK r \in Requests : key' = [key EXCEPT ![p] = <<gen, r>>]
    BY <1>3 DEF Open
  <2>2. <<gen, r>> \in Keys
    BY DEF TypeOK, Keys
  <2>3. key' \in [Runs -> Keys]
    BY <2>1, <2>2 DEF TypeOK
  <2>4. boot + WorkBudget \in Nat
    BY CoordinationConstantsHold DEF TypeOK, CoordinationConstants
  <2>5. ends' \in [Runs -> Nat]
    BY <1>3, <2>4 DEF Open, TypeOK
  <2> QED BY <1>3, <2>3, <2>5 DEF Open, TypeOK
<1>4. ASSUME NEW open \in BOOLEAN, Miss(p, open),
             UNCHANGED <<store, clocks, key, ends, tried, until, led, answerVars>>
      PROVE  TypeOK'
  BY <1>4 DEF Miss, AfterMiss, LookupOver, TypeOK
<1>5. ASSUME NEW found \in SUBSET CacheRows, Serve(p, found),
             UNCHANGED <<store, clocks, key, ends, tried, until, led, answerVars>>
      PROVE  TypeOK'
  BY <1>5 DEF Serve, LookupOver, TypeOK
<1>6. CASE LookupWide(p)
  <2>1. ASSUME NEW r \in rows, wide' = [wide EXCEPT ![p] = r],
               asOf' = [asOf EXCEPT ![p] = wall], moved' = [moved EXCEPT ![p] = FALSE],
               Goto(p, "pair"), UNCHANGED <<slot, served>>
        PROVE  TypeOK'
    BY <1>6, <2>1 DEF LookupWide, TypeOK
  <2> QED BY <1>4, <1>5, <1>6, <2>1 DEF LookupWide, WideRows, TypeOK
<1>7. CASE LookupRerank(p)
  <2>1. ViewHeld(p) => wide[p] \in CacheRows
    BY <1>7 DEF LookupRerank, ViewHeld, PairInv, PairOf, TypeOK
  <2> QED BY <1>4, <1>5, <1>7, <2>1 DEF LookupRerank, RerankRows, TypeOK
<1>8. ASSUME NEW won, Acquired(lease[key[p]], wall) = "leading" \/ Reacquired(lease[key[p]], wall) = "leading",
             won = Leading(lease[key[p]], p, wall), Lead(p, won)
      PROVE  led' \in [Runs -> Contexts \cup {NoContext}]
  <2>1. lease[key[p]] \in Leases \cup {NoLease} /\ p \in Owners /\ wall \in Int
    BY CoordinationConstantsHold DEF TypeOK, CoordinationConstants
  <2>2. LeaderContext(won) \in Contexts
    BY <1>8, <2>1, LeadingFollows
  <2> QED BY <1>8, <2>2 DEF Lead, TypeOK
<1>9. CASE Acquire(p)
  <2>1. Acquired(lease[key[p]], wall) = "following" => lease[key[p]].expires \in Int
    BY DEF Acquired, TypeOK, Leases
  <2>2. led' \in [Runs -> Contexts \cup {NoContext}]
    BY <1>8, <1>9 DEF Acquire, NoAcquisition, TypeOK
  <2>3. moved' \in [Runs -> BOOLEAN]
    BY <1>2, <1>9 DEF Acquire, TypeOK
  <2>4. /\ until' \in [Runs -> Int]
        /\ tried' \in [Runs -> {"none", "followed", "completed", "took", "told"}]
        /\ pc' \in [Runs -> AtRest \cup {"lookup", "pair", "acquire", "takeover", "refresh",
                 "wait", "send", "check", "rerank", "publish", "release", "unwind",
                 "served", "deferred"}]
    BY <1>9, <2>1 DEF Acquire, NoAcquisition, TypeOK
  <2> QED BY <1>1, <1>9, <2>2, <2>3, <2>4 DEF Acquire, TypeOK
<1>10. CASE Refresh(p)
  <2>1. led' \in [Runs -> Contexts \cup {NoContext}]
    BY <1>8, <1>10 DEF Refresh, TypeOK
  <2>2. moved' \in [Runs -> BOOLEAN]
    BY <1>2, <1>10 DEF Refresh, TypeOK
  <2> QED BY <1>1, <1>10, <2>1, <2>2 DEF Refresh, TypeOK
<1>11. CASE Wait(p)
  BY <1>11 DEF Wait, TypeOK
<1>12. CASE SendWide(p)
  <2>1. list' \in [Runs -> Decisions]
    BY <1>12 DEF SendWide, StageFails, TypeOK
  <2>2. wall \in Nat /\ [got[p] EXCEPT !.wide = wall] \in [wide : Nat, rerank : Nat]
    BY CoordinationConstantsHold DEF TypeOK, CoordinationConstants
  <2>3. got' \in [Runs -> [wide : Nat, rerank : Nat]]
    BY <1>12, <2>2 DEF SendWide, StageFails, TypeOK
  <2> QED BY <1>12, <2>1, <2>3 DEF SendWide, StageFails, TypeOK
<1>13. CASE CheckLead(p)
  BY <1>13 DEF CheckLead, StageFails, TypeOK
<1>14. CASE SendRerank(p)
  <2>1. wall \in Nat /\ [got[p] EXCEPT !.rerank = wall] \in [wide : Nat, rerank : Nat]
    BY CoordinationConstantsHold DEF TypeOK, CoordinationConstants
  <2>2. got' \in [Runs -> [wide : Nat, rerank : Nat]]
    BY <1>14, <2>1 DEF SendRerank, StageFails, TypeOK
  <2> QED BY <1>14, <2>2 DEF SendRerank, StageFails, TypeOK
<1>15. CASE Publish(p)
  <2>1. moved' \in [Runs -> BOOLEAN]
    BY <1>2, <1>15 DEF Publish, CommitEvaluation, TypeOK
  <2> QED BY <1>1, <1>15, <2>1 DEF Publish, TypeOK
<1>16. CASE Finish(p)
  BY <1>1, <1>16, TypeExit DEF Finish, TypeOK
<1>17. CASE Release(p)
  <2>1. moved' \in [Runs -> BOOLEAN]
    BY <1>2, <1>17 DEF Release, TypeOK
  <2> QED BY <1>1, <1>17, <2>1, TypeExit DEF Release
<1>18. CASE Kill(p)
  BY <1>1, <1>18, TypeExit DEF Kill, TypeOK
<1> QED BY <1>3, <1>6, <1>7, <1>9, <1>10, <1>11, <1>12, <1>13, <1>14, <1>15, <1>16,
           <1>17, <1>18 DEF RunStep, Step

-----------------------------------------------------------------------------
(* Leaders                                                                 *)

\* A run begins to lead only by acquiring its key's lease (acquire_lease and
\* force_reacquire), and then sends.
LEMMA LeadershipStarts ==
  ASSUME TypeOK, NEW p \in Runs, RunStep(p), led'[p] # led[p], led'[p] # NoContext
  PROVE  /\ TakenBy(p, key[p]) /\ pc'[p] = "send"
         /\ led'[p] = LeaderContext(lease'[key[p]])
<1> USE DEF Goto, At
<1>1. /\ key[p] \in Keys /\ p \in Owners /\ wall \in Int
      /\ lease \in [Keys -> Leases \cup {NoLease}] /\ led \in [Runs -> Contexts \cup {NoContext}]
  BY CoordinationConstantsHold DEF TypeOK, CoordinationConstants
<1>2. CASE Acquire(p)
  <2>1. /\ Acquired(lease[key[p]], wall) = "leading" /\ pc'[p] = "send"
        /\ lease'[key[p]] = Leading(lease[key[p]], p, wall)
        /\ led'[p] = LeaderContext(lease'[key[p]])
    BY <1>1, <1>2 DEF Acquire, NoAcquisition, Lead, TypeOK
  <2> QED BY <1>1, <1>2, <2>1, LeadingFollows DEF TakenBy, Acquire
<1>3. CASE Refresh(p)
  <2>1. /\ Reacquired(lease[key[p]], wall) = "leading" /\ pc'[p] = "send"
        /\ lease'[key[p]] = Leading(lease[key[p]], p, wall)
        /\ led'[p] = LeaderContext(lease'[key[p]])
    BY <1>1, <1>3 DEF Refresh, Lead, TypeOK
  <2> QED BY <1>1, <1>3, <2>1, LeadingFollows DEF TakenBy, Refresh
<1>4. CASE Open(p) \/ LookupWide(p) \/ LookupRerank(p) \/ Wait(p) \/ SendWide(p)
           \/ CheckLead(p) \/ SendRerank(p)
  BY <1>4 DEF Open, LookupWide, LookupRerank, Wait, SendWide, CheckLead, SendRerank
<1>5. CASE Publish(p)
  BY <1>1, <1>5 DEF Publish
<1>6. CASE Finish(p) \/ Release(p) \/ Kill(p)
  BY <1>6, ExitEffect DEF Finish, Release, Kill
<1> QED BY <1>2, <1>3, <1>4, <1>5, <1>6 DEF RunStep, Step

\* A run that still evaluates as a leader is succeeded only once its lease has run
\* out: its own is not completed, and a later one cannot be older than the clock.
LEMMA TakenAfterExpiry ==
  ASSUME TypeOK, NEW p \in Runs, NEW q \in Runs, NEW k \in Keys, k = key[q], LeaderOf(q),
         Leads(q), pc[q] \in Evaluating, TakenBy(p, k)
  PROVE  wall >= led[q].expires
<1>1. /\ led[q] \in Contexts /\ wall \in Int /\ lease[k] \in Leases
      /\ wall >= lease[k].acquired /\ (lease[k].done \/ wall >= lease[k].expires)
  BY DEF TypeOK, Leads, LeaderOf, TakenBy, Succeeds
<1>2. \/ LeaderContext(lease[k]) = led[q] /\ ~lease[k].done
      \/ lease[k].acquired >= led[q].expires
  BY DEF LeaderOf
<1> QED BY <1>1, <1>2 DEF LeaderContext, Leases, Contexts

\* A leader that still evaluates, and is not the one that acts, keeps its claim:
\* its lease is acquired by another only after it has run out, and completed by
\* none but itself.
LEMMA LeaderOfOther ==
  ASSUME IInv, NEW p \in Runs, RunStep(p), NEW q \in Runs \ {p}
  PROVE  LeaderOf(q)'
<1> DEFINE k == key[q]
<1>1. /\ pc'[q] = pc[q] /\ key'[q] = k /\ led'[q] = led[q] /\ k \in Keys
      /\ led[q] \in Contexts \cup {NoContext} /\ LeaderOf(q) /\ LeaderOf(p)
      /\ lease[k] \in Leases \cup {NoLease} /\ wall \in Int
  BY OthersKept DEF IInv, TypeOK, LeaderInv
<1>2. CASE lease'[k] = lease[k]
  BY <1>1, <1>2 DEF LeaderOf, Leads
<1>3. CASE TakenBy(p, k)
  <2>1. /\ lease'[k] \in Leases /\ lease'[k].acquired = wall
    BY <1>3 DEF TakenBy, Leading
  <2>2. SUFFICES ASSUME Leads(q), pc[q] \in Evaluating
        PROVE  wall >= led[q].expires
    BY <1>1, <2>1, CoordinationConstantsHold DEF LeaderOf, Leads, CoordinationConstants
  <2> QED BY <1>1, <1>3, <2>2, TakenAfterExpiry DEF IInv
<1>4. CASE CompletedBy(p, k)
  <2>1. lease[k].owner = p /\ lease[k] \in Leases
    BY <1>1, <1>4 DEF CompletedBy, LeaderOf, Leads
  <2>2. lease'[k].acquired = lease[k].acquired /\ lease'[k] \in Leases
    BY <1>4, <2>1, CompletedType DEF CompletedBy
  <2> QED BY <1>1, <2>1, <2>2, CoordinationConstantsHold
          DEF LeaderOf, Leads, LeaderContext, CoordinationConstants
<1> QED BY <1>1, <1>2, <1>3, <1>4, LeaseSteps DEF IInv

\* A run that acts leads its current lease from the acquisition on, until it stops
\* evaluating.
LEMMA LeaderOfActor ==
  ASSUME IInv, NEW p \in Runs, RunStep(p)
  PROVE  LeaderOf(p)'
<1> USE DEF Goto, At
<1>1. /\ LeaderOf(p) /\ key[p] \in Keys /\ p \in Owners /\ wall \in Int
      /\ lease \in [Keys -> Leases \cup {NoLease}]
  BY CoordinationConstantsHold DEF IInv, TypeOK, LeaderInv, CoordinationConstants
<1>2. ~Leads(p) /\ led' = led => LeaderOf(p)'
  BY DEF LeaderOf, Leads
<1>3. CASE Open(p)
  BY <1>1, <1>2, <1>3 DEF Open, LeaderOf, Evaluating
<1>4. CASE LookupWide(p) \/ LookupRerank(p) \/ Wait(p)
  BY <1>1, <1>2, <1>4 DEF LookupWide, LookupRerank, Wait, LeaderOf, Evaluating
<1>5. CASE Acquire(p) \/ Refresh(p)
  <2>1. ~Leads(p)
    BY <1>1, <1>5 DEF Acquire, Refresh, LeaderOf, Evaluating
  <2>2. key' = key
    BY <1>5 DEF Acquire, Refresh
  <2>3. CASE led'[p] # led[p] /\ led'[p] # NoContext
    <3>1. /\ TakenBy(p, key[p]) /\ pc'[p] = "send"
          /\ led'[p] = LeaderContext(lease'[key[p]])
      BY <2>3, LeadershipStarts DEF IInv
    <3>2. lease'[key[p]].owner = p /\ ~lease'[key[p]].done
      BY <3>1 DEF TakenBy, Leading
    <3>3. lease'[key[p]] # NoLease
      BY <3>1, CoordinationConstantsHold DEF TakenBy, CoordinationConstants
    <3> QED BY <2>2, <3>1, <3>2, <3>3 DEF LeaderOf, Evaluating, LeaderContext
  <2> QED BY <2>1, <2>3 DEF LeaderOf, Leads
<1>6. CASE SendWide(p) \/ CheckLead(p) \/ SendRerank(p)
  BY <1>1, <1>6
     DEF SendWide, CheckLead, SendRerank, StageFails, store, LeaderOf, Leads, Evaluating,
         IInv, TypeOK
<1>7. CASE Publish(p)
  BY <1>1, <1>7 DEF Publish, LeaderOf, Leads, Evaluating, IInv, TypeOK
<1>8. CASE Finish(p) \/ Release(p) \/ Kill(p)
  BY <1>8, ExitEffect DEF Finish, Release, Kill, LeaderOf, Leads, IInv
<1> QED BY <1>3, <1>4, <1>5, <1>6, <1>7, <1>8 DEF RunStep, Step

\* Neither the clocks nor a cleared cache changes who leads.
LEMMA LeaderStep ==
  ASSUME IInv, [Next]_vars
  PROVE  LeaderInv'
<1>1. ASSUME NEW p \in Runs, RunStep(p) PROVE LeaderInv'
  BY <1>1, LeaderOfOther, LeaderOfActor DEF LeaderInv
<1>2. CASE AdvanceGeneration \/ Tick \/ StepBack \/ UNCHANGED vars
  BY <1>2 DEF AdvanceGeneration, Tick, StepBack, vars, store, IInv, LeaderInv, LeaderOf, Leads
<1> QED BY <1>1, <1>2 DEF Next, RunStep

-----------------------------------------------------------------------------
(* Rows and pairs                                                          *)

\* The rows are those of the last publication; a row's fence is that of its key's
\* lease, or an earlier one, and the lease of its own fence is completed.
LEMMA RowStep ==
  ASSUME IInv, [Next]_vars
  PROVE  RowInv'
<1>1. ASSUME NEW p \in Runs, RunStep(p), rows' = rows PROVE RowInv'
  <2>1. SUFFICES ASSUME NEW r \in rows PROVE LeasedRow(r)'
    BY <1>1, <2>1 DEF IInv, RowInv
  <2> DEFINE k == r.key
  <2>2. /\ k \in Keys /\ r.fence \in 0 .. MaxFence /\ LeasedRow(r)
        /\ lease[k] \in Leases \cup {NoLease}
    BY DEF IInv, RowInv, TypeOK, CacheRows
  <2>3. CASE TakenBy(p, k)
    <3>1. lease[k] # NoLease => lease'[k].fence = lease[k].fence + 1
      BY <2>3 DEF TakenBy, Leading, NextFence
    <3> QED BY <2>2, <2>3, <3>1, CoordinationConstantsHold
            DEF LeasedRow, TakenBy, Leases, CoordinationConstants
  <2>4. CASE CompletedBy(p, k)
    BY <2>2, <2>4, CompletedType, CoordinationConstantsHold
       DEF LeasedRow, CompletedBy, CoordinationConstants
  <2>5. CASE lease'[k] = lease[k]
    BY <2>2, <2>5 DEF LeasedRow
  <2> QED BY <1>1, <2>2, <2>3, <2>4, <2>5, LeaseSteps DEF IInv
<1>2. ASSUME NEW p \in Runs, RunStep(p), Publishes(p) PROVE RowInv'
  <2>1. \A r \in rows' : RowOf(r, p)
    BY <1>2, RowsOfEvaluation DEF IInv, Publishes
  <2>2. ASSUME NEW r \in rows', r.fence > 0
        PROVE  /\ lease'[r.key] # NoLease /\ r.fence = lease'[r.key].fence
               /\ lease'[r.key].done
    <3>1. Leads(p) /\ r.fence = led[p].fence /\ r.key = key[p]
      BY <2>1, <2>2 DEF RowOf, Leads
    <3>2. CompletedBy(p, key[p]) /\ lease[key[p]] \in Leases
      BY <1>2, <3>1 DEF Publishes, CompletedBy, IInv, TypeOK
    <3> QED BY <3>1, <3>2, CompletedType, CoordinationConstantsHold
            DEF CompletedBy, CoordinationConstants
  <2>3. \A r \in rows' : LeasedRow(r)'
    <3>1. \A r \in rows' : r.fence \in 0 .. MaxFence
      BY <2>1 DEF RowOf, CacheRows
    <3> QED BY <2>2, <3>1, CoordinationConstantsHold DEF LeasedRow, CoordinationConstants
  <2> QED BY <2>1, <2>3 DEF RowInv, RowOf
<1>3. CASE AdvanceGeneration \/ Tick \/ StepBack \/ UNCHANGED vars
  BY <1>3 DEF AdvanceGeneration, Tick, StepBack, vars, store, IInv, RowInv, LeasedRow
<1> QED BY <1>1, <1>2, <1>3, RowSteps DEF Next, RunStep, IInv

\* Every change of the rows marks the lookups that are between their two reads.
LEMMA PairStep ==
  ASSUME IInv, [Next]_vars
  PROVE  PairInv'
<1> USE DEF Goto, At, store, lookupVars, answerVars
<1>1. ASSUME NEW p \in Runs, RunStep(p), NEW q \in Runs \ {p} PROVE PairOf(q)'
  <2>1. /\ pc'[q] = pc[q] /\ wide'[q] = wide[q] /\ asOf'[q] = asOf[q]
        /\ served'[q] = served[q]
    BY <1>1, OthersKept DEF IInv
  <2>2. rows' = rows \/ moved'[q] = (pc[q] = "pair")
    BY <1>1, RowSteps DEF IInv, Publishes
  <2>3. moved'[q] = moved[q] \/ moved'[q] = (pc[q] = "pair")
    BY <1>1
       DEF RunStep, Step, Open, LookupWide, LookupRerank, Miss, Serve, LookupOver, Acquire,
           Refresh, Wait, SendWide, CheckLead, SendRerank, Publish, CommitEvaluation, Finish,
           Release, Kill, Commits, IInv, TypeOK
  <2> QED BY <2>1, <2>2, <2>3 DEF PairOf, IInv, PairInv
<1>2. ASSUME NEW p \in Runs, RunStep(p) PROVE PairOf(p)'
  <2>1. PairOf(p)
    BY DEF IInv, PairInv
  <2>2. CASE LookupWide(p)
    <3>1. ASSUME NEW open, Miss(p, open) PROVE PairOf(p)'
      BY <3>1 DEF Miss, LookupOver, AfterMiss, PairOf, IInv, TypeOK
    <3>2. ASSUME NEW r \in rows, Serve(p, {r}) PROVE PairOf(p)'
      BY <3>2 DEF Serve, LookupOver, PairOf, IInv, TypeOK
    <3>3. ASSUME NEW r \in rows, WallFresh(r, wall), wide' = [wide EXCEPT ![p] = r],
                 asOf' = [asOf EXCEPT ![p] = wall], UNCHANGED <<rows, served>>
          PROVE  PairOf(p)'
      BY <2>1, <3>3 DEF PairOf, IInv, TypeOK
    <3> QED BY <2>2, <3>1, <3>2, <3>3 DEF LookupWide, WideRows, Fresh
  <2>3. CASE LookupRerank(p)
    <3>1. ASSUME NEW open, Miss(p, open) PROVE PairOf(p)'
      BY <3>1 DEF Miss, LookupOver, AfterMiss, PairOf, IInv, TypeOK
    <3>2. ASSUME NEW r \in rows, wide[p] \in rows, Serve(p, {wide[p], r}) PROVE PairOf(p)'
      <4>1. wide[p].by = r.by
        BY <3>2 DEF IInv, RowInv
      <4> QED BY <3>2, <4>1 DEF Serve, LookupOver, PairOf, IInv, TypeOK
    <3>3. ViewHeld(p) => wide[p] \in rows
      BY <2>1, <2>3 DEF LookupRerank, ViewHeld, PairOf
    <3> QED BY <2>3, <3>1, <3>2, <3>3 DEF LookupRerank, RerankRows
  <2>4. CASE Open(p) \/ Wait(p) \/ SendWide(p) \/ CheckLead(p) \/ SendRerank(p)
    BY <2>1, <2>4
       DEF Open, Wait, SendWide, CheckLead, SendRerank, StageFails, PairOf, IInv, TypeOK
  <2>5. CASE Acquire(p) \/ Refresh(p) \/ Publish(p)
    BY <2>1, <2>5 DEF Acquire, NoAcquisition, Refresh, Publish, PairOf, IInv, TypeOK
  <2>6. CASE Finish(p) \/ Release(p) \/ Kill(p)
    BY <2>6, ExitEffect DEF Finish, Release, Kill, PairOf, IInv
  <2> QED BY <1>2, <2>2, <2>3, <2>4, <2>5, <2>6 DEF RunStep, Step
<1>3. CASE AdvanceGeneration
  BY <1>3 DEF AdvanceGeneration, Commits, IInv, PairInv, PairOf
<1>4. CASE Tick \/ StepBack \/ UNCHANGED vars
  BY <1>4 DEF Tick, StepBack, vars, IInv, PairInv, PairOf
<1> QED BY <1>1, <1>2, <1>3, <1>4 DEF Next, RunStep, PairInv

-----------------------------------------------------------------------------
(* The theorems                                                            *)

\* The initial state satisfies the invariant: nothing is leased, stored or led.
LEMMA Initially == Init => IInv
<1> SUFFICES ASSUME Init PROVE IInv
  OBVIOUS
<1> USE CoordinationConstantsHold DEF Init, CoordinationConstants
<1>1. NoKey \in Keys
  <2>1. PICK r \in Requests : TRUE
    OBVIOUS
  <2>2. <<0, r>> \in Keys
    BY DEF Keys
  <2> QED BY <2>2 DEF NoKey
<1>2. [wide |-> 0, rerank |-> 0] \in [wide : Nat, rerank : Nat]
  OBVIOUS
<1>3. TypeOK
  BY <1>1, <1>2 DEF TypeOK, AtRest, Ended, Decisions
<1>4. LeaderInv /\ RowInv /\ PairInv
  BY DEF LeaderInv, LeaderOf, Leads, RowInv, PairInv, PairOf
<1> QED BY <1>3, <1>4 DEF IInv

\* Every step preserves it.
LEMMA Inductive == IInv /\ [Next]_vars => IInv'
<1> SUFFICES ASSUME IInv, [Next]_vars PROVE IInv'
  OBVIOUS
<1>1. TypeOK'
  BY TypeEnvironment, TypeOfRun DEF IInv, Next, RunStep
<1> QED BY <1>1, LeaderStep, RowStep, PairStep DEF IInv

\* So it holds in every reachable state.
LEMMA Invariance == Spec => []IInv
BY Initially, Inductive, PTL DEF Spec

\* Every reachable state is well-typed: the leases are rows that the coordinator
\* writes, the cached rows are of evaluations, and the wall clock is never ahead.
THEOREM TypeCorrect == Spec => []TypeOK
<1>1. IInv => TypeOK
  BY DEF IInv
<1> QED BY <1>1, Invariance, PTL

\* A pair that a lookup serves is one evaluation, although the wide answer and its
\* rerank are read apart (the lookup of the response cache and its read view).
THEOREM PairsAreWhole == Spec => []PairNeverMixed
<1>1. IInv => PairNeverMixed
  BY DEF IInv, PairInv, PairOf, PairNeverMixed
<1> QED BY <1>1, Invariance, PTL

\* Two leaders of one request evaluate at once only across an expiry: a run
\* acquires a lease only after that of every run still evaluating has run out.
THEOREM LeadersAreApart == Spec => LeadershipAfterExpiry
<1> DEFINE Succession ==
      \A p, q \in Runs :
        /\ led[p] = NoContext /\ led'[p] # NoContext
        /\ q # p /\ key[q] = key[p] /\ led[q] # NoContext /\ pc[q] \in Evaluating
        => wall >= led[q].expires
<1>1. IInv /\ [Next]_vars => Succession
  <2> SUFFICES ASSUME IInv, [Next]_vars, NEW p \in Runs, NEW q \in Runs,
                      led[p] = NoContext, led'[p] # NoContext,
                      key[q] = key[p], led[q] # NoContext, pc[q] \in Evaluating
               PROVE  wall >= led[q].expires
    OBVIOUS
  <2>1. CASE RunStep(p)
    <3>1. TakenBy(p, key[p]) /\ key[p] \in Keys /\ LeaderOf(q)
      BY <2>1, LeadershipStarts DEF IInv, TypeOK, LeaderInv
    <3> QED BY <3>1, TakenAfterExpiry DEF IInv, Leads
  <2>2. ASSUME NEW o \in Runs, RunStep(o), o # p PROVE FALSE
    BY <2>2, OthersKept DEF IInv
  <2>3. CASE AdvanceGeneration \/ Tick \/ StepBack \/ UNCHANGED vars
    BY <2>3 DEF AdvanceGeneration, Tick, StepBack, vars
  <2> QED BY <2>1, <2>2, <2>3 DEF Next, RunStep
<1>2. [][Succession]_vars <=> LeadershipAfterExpiry
  BY DEF LeadershipAfterExpiry
<1> QED BY <1>1, <1>2, Invariance, PTL DEF Spec

\* Of two leaders the later fence keeps the cache: rows are replaced only by a
\* publication whose lease is current and not completed, so its fence is later
\* than that of every led row of its key.
THEOREM SuccessorsPrevail == Spec => SuccessorPairStands
<1> DEFINE Succession ==
      \A old \in rows \ rows', new \in rows' \ rows :
        old.key = new.key /\ old.fence > 0 /\ new.fence > 0 => new.fence > old.fence
<1>1. IInv /\ [Next]_vars => Succession
  <2> SUFFICES ASSUME IInv, [Next]_vars, rows' # rows PROVE Succession
    OBVIOUS
  <2>1. PICK p \in Runs : Publishes(p)
    BY RowSteps
       DEF Next, RunStep, IInv, AdvanceGeneration, Tick, StepBack, vars, store
  <2>2. ASSUME NEW old \in rows, NEW new \in rows', old.key = new.key,
               old.fence > 0, new.fence > 0
        PROVE  new.fence > old.fence
    <3>1. RowOf(new, p)
      BY <2>1, <2>2, RowsOfEvaluation DEF IInv, Publishes
    <3>2. Leads(p) /\ new.fence = led[p].fence /\ old.key = key[p]
      BY <2>2, <3>1 DEF RowOf, Leads
    <3>3. lease[key[p]] \in Leases /\ lease[key[p]].fence = led[p].fence /\ ~lease[key[p]].done
      BY <2>1, <3>2 DEF Publishes, CompletedBy, IInv, TypeOK
    <3>4. LeasedRow(old) /\ old.fence \in 0 .. MaxFence
      BY <2>2 DEF IInv, RowInv, TypeOK, CacheRows
    <3> QED BY <2>2, <3>2, <3>3, <3>4, CoordinationConstantsHold
            DEF LeasedRow, Leases, CoordinationConstants
  <2> QED BY <2>2
<1>2. [][Succession]_vars <=> SuccessorPairStands
  BY DEF SuccessorPairStands
<1> QED BY <1>1, <1>2, Invariance, PTL DEF Spec

\* An answer is not served past its lifetime on either clock: both rows of a served
\* pair were written together, so the boot clock of the one read last bounds them
\* both, and each was within its lifetime on the wall clock the lookup began with.
THEOREM LifetimesEnd == Spec => NotServedPastTtl
<1> DEFINE InTime == \A p \in Runs : Serving(p) =>
                       \A r \in served'[p] : boot - r.written < CacheTtl /\ WallFresh(r, Began(p))
<1>1. IInv /\ [Next]_vars => InTime
  <2> SUFFICES ASSUME IInv, [Next]_vars, NEW p \in Runs, Serving(p), NEW r \in served'[p]
               PROVE  boot - r.written < CacheTtl /\ WallFresh(r, Began(p))
    OBVIOUS
  <2>1. /\ boot \in Int
        /\ \A s \in rows : s.written \in Int /\ s.bootReceived \in Int /\ s.bootReceived <= s.written
        /\ \A s, t \in rows : s.written = t.written
    BY CoordinationConstantsHold
       DEF IInv, RowInv, TypeOK, CacheRows, CoordinationConstants
  <2>2. RunStep(p)
    BY OthersKept
       DEF Next, RunStep, Serving, AdvanceGeneration, Tick, StepBack, vars, lookupVars, IInv
  <2>3. LookupWide(p) \/ LookupRerank(p)
    <3>1. CASE Open(p) \/ Acquire(p) \/ Refresh(p) \/ Wait(p) \/ SendWide(p) \/ CheckLead(p)
               \/ SendRerank(p) \/ Publish(p)
      BY <3>1
         DEF Open, Acquire, Refresh, Wait, SendWide, CheckLead, SendRerank, Publish,
             lookupVars, Serving
    <3>2. CASE Finish(p) \/ Release(p) \/ Kill(p)
      BY <3>2, ExitEffect DEF Finish, Release, Kill, Serving, IInv
    <3> QED BY <2>2, <3>1, <3>2 DEF RunStep, Step
  <2>4. \A found : Serve(p, found) => served'[p] = found
    BY DEF Serve, LookupOver, IInv, TypeOK
  <2>5. \A open : Miss(p, open) => served'[p] = {}
    BY DEF Miss, LookupOver, IInv, TypeOK
  <2>6. /\ r \in rows /\ \E s \in rows : BootFresh(s, boot)
        /\ WallFresh(r, Began(p))
    <3>1. CASE LookupWide(p)
      <4>1. Began(p) = wall
        BY <3>1 DEF LookupWide, At, Began
      <4> QED BY <2>4, <2>5, <3>1, <4>1 DEF LookupWide, WideRows, Serving, Fresh
    <3>2. CASE LookupRerank(p)
      <4>1. ViewHeld(p) => wide[p] \in rows
        BY <3>2 DEF LookupRerank, ViewHeld, PairOf, PairInv, IInv, At
      <4>2. Began(p) = asOf[p] /\ WallFresh(wide[p], asOf[p])
        BY <3>2 DEF LookupRerank, PairOf, PairInv, IInv, At, Began
      <4> QED BY <2>4, <2>5, <3>2, <4>1, <4>2 DEF LookupRerank, RerankRows, Serving, Fresh
    <3> QED BY <2>3, <3>1, <3>2
  <2> QED BY <2>1, <2>6, CoordinationConstantsHold DEF BootFresh, CoordinationConstants
<1>2. [][InTime]_vars <=> NotServedPastTtl
  BY DEF NotServedPastTtl
<1> QED BY <1>1, <1>2, Invariance, PTL DEF Spec

\* Once the cache is cleared, an evaluation begun before is never stored: a
\* publication checks the stamp of the store its run opened.
THEOREM ClearedForGood == Spec => ClearedStaysCleared
<1> DEFINE Current == \A r \in rows' \ rows : r.key[1] = gen
<1>1. IInv /\ [Next]_vars => Current
  <2> SUFFICES ASSUME IInv, [Next]_vars, NEW r \in rows' \ rows PROVE r.key[1] = gen
    OBVIOUS
  <2>1. PICK p \in Runs : Publishes(p)
    BY RowSteps
       DEF Next, RunStep, IInv, AdvanceGeneration, Tick, StepBack, vars, store
  <2>2. RowOf(r, p)
    BY <2>1, RowsOfEvaluation DEF IInv, Publishes
  <2> QED BY <2>1, <2>2 DEF RowOf, Publishes, MayPublish, CheckStamp
<1>2. [][Current]_vars <=> ClearedStaysCleared
  BY DEF ClearedStaysCleared
<1> QED BY <1>1, <1>2, Invariance, PTL DEF Spec
=============================================================================
