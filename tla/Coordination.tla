---------------------------- MODULE Coordination ----------------------------
(***************************************************************************)
(* Single flight over the exact response cache, as the rank pipeline runs  *)
(* it (src/src/pipeline.rs): look a request's pair up, on a miss acquire   *)
(* its lease, then lead, follow or send uncoordinated, publish the         *)
(* evaluation with the lease's completion in one transaction, and release  *)
(* a led lease on every path.                                              *)
(*                                                                         *)
(* A member of Runs is one invocation of the program: it runs at most once *)
(* and may be killed at any step.  Every action is one transaction or read *)
(* of cache.sqlite3, or one exchange with the provider; between two of     *)
(* them any other run may act and the clocks may move.                     *)
(***************************************************************************)
EXTENDS Lease, ResponseCache

CONSTANTS Runs,            \* the invocations (owner tokens are theirs)
          Requests,        \* exact requests that share a namespace
          NoRow, NoContext,
          MaxGeneration,   \* bound: how often the cache is cleared
          MaxTime,         \* bound: the boot clock
          MaxStepBack,     \* bound: how often the wall clock is stepped back
          WorkBudget,      \* a run's time before its cleanup reserve, in ticks
          StoreFails       \* whether the store may be busy or fail

ASSUME CoordinationAssumption ==
    /\ Runs = Owners /\ Requests # {}
    /\ MaxGeneration \in Nat /\ MaxTime \in Nat /\ MaxStepBack \in Nat
    /\ WorkBudget \in Nat \ {0}
    /\ StoreFails \in BOOLEAN

VARIABLES
    gen,      \* sr_cache_meta.generation
    lease,    \* sr_coordination_leases, by coordination key
    rows,     \* sr_cache_response, in the namespace under test
    wall,     \* the wall clock
    boot,     \* this boot's clock
    back,     \* how often the wall clock has been stepped back
    pc,       \* where each run is
    key,      \* its coordination key: store generation at open, and request
    slot,     \* CacheSlot holds an open store
    ends,     \* the boot time at which its work budget is spent
    tried,    \* the acquisition it is past: none, followed, completed, told, took
    asOf,     \* the wall clock its lookup read
    wide,     \* the wide row it has read, before it reads the rerank
    moved,    \* the database changed since that read
    until,    \* the expiry of the lease it follows
    led,      \* progress.lease, the led lease
    list,     \* the decision of its fresh wide answer
    got,      \* the wall clock at which its fresh answers were received, by stage
    served    \* the rows it was served from the cache

store == <<gen, lease, rows>>
clocks == <<wall, boot, back>>
vars == <<gen, lease, rows, wall, boot, back, pc, key, slot, ends, tried, asOf,
          wide, moved, until, led, list, got, served>>

Keys == (0 .. MaxGeneration) \X Requests
NoKey == CHOOSE k \in Keys : TRUE
Ended == {"answered", "failed", "dead"}
AtRest == Ended \cup {"idle"}

\* The store is empty; any of the runs may never start, and the clocks and the
\* generation may stand anywhere.
Init ==
    /\ gen \in 0 .. MaxGeneration
    /\ lease = [k \in Keys |-> NoLease]
    /\ rows = {}
    /\ boot \in 0 .. MaxTime /\ wall = boot /\ back \in 0 .. MaxStepBack
    /\ pc \in [Runs -> {"idle", "dead"}]
    /\ key = [p \in Runs |-> NoKey]
    /\ slot = [p \in Runs |-> FALSE]
    /\ ends = [p \in Runs |-> 0]
    /\ tried = [p \in Runs |-> "none"]
    /\ asOf = [p \in Runs |-> 0]
    /\ wide = [p \in Runs |-> NoRow]
    /\ moved = [p \in Runs |-> FALSE]
    /\ until = [p \in Runs |-> 0]
    /\ led = [p \in Runs |-> NoContext]
    /\ list = [p \in Runs |-> LowNeed]
    /\ got = [p \in Runs |-> [wide |-> 0, rerank |-> 0]]
    /\ served = [p \in Runs |-> {}]

-----------------------------------------------------------------------------
(* Helpers.                                                                *)

At(p, label) == pc[p] = label
Goto(p, label) == pc' = [pc EXCEPT ![p] = label]

\* A second of work left, the reserve a takeover needs.
HasReserve(p) == boot < ends[p]

\* Work is admitted until the budget is spent.
InBudget(p) == boot <= ends[p]

\* The store this run opened still is the current one.
CheckStamp(p) == key[p][1] = gen

\* A commit to the database is seen by every read view between its two reads.
Commits == moved' = [p \in Runs |-> At(p, "pair")]

Lead(p, rec) == led' = [led EXCEPT ![p] = LeaderContext(rec)]

\* Fields of a run that only one of its phases touches.
lookupVars == <<asOf, wide, served>>
answerVars == <<list, got>>

-----------------------------------------------------------------------------
(* Opening the store and looking a pair up.                                *)

\* The store opens under its current generation, which names the keys; a
\* refused or disabled store leaves the run uncached and uncoordinated.
Open(p) ==
    /\ At(p, "idle")
    /\ boot + WorkBudget <= MaxTime
    /\ \E r \in Requests : key' = [key EXCEPT ![p] = <<gen, r>>]
    /\ ends' = [ends EXCEPT ![p] = boot + WorkBudget]
    /\ \/ slot' = [slot EXCEPT ![p] = TRUE] /\ Goto(p, "lookup")
       \/ slot' = slot /\ Goto(p, "send")
    /\ UNCHANGED <<store, clocks, tried, lookupVars, moved, until, led,
                   answerVars>>

\* Where a run goes when no complete pair was found: to the lease on a first
\* miss with a store, to a takeover after following, to a refresh after a
\* completed lease, and otherwise straight to the provider.
AfterMiss(p, open) ==
    CASE tried[p] = "none" -> IF open THEN "acquire" ELSE "send"
      [] tried[p] = "followed" -> IF HasReserve(p) THEN "takeover" ELSE "deferred"
      [] OTHER -> "refresh"

\* A lookup is over: it keeps nothing of what it read but what it serves.
LookupOver(p, found) ==
    /\ served' = [served EXCEPT ![p] = found]
    /\ wide' = [wide EXCEPT ![p] = NoRow]
    /\ asOf' = [asOf EXCEPT ![p] = 0]
    /\ moved' = [moved EXCEPT ![p] = FALSE]

Miss(p, open) ==
    /\ slot' = [slot EXCEPT ![p] = open]
    /\ Goto(p, AfterMiss(p, open))
    /\ LookupOver(p, {})

Serve(p, found) ==
    /\ Goto(p, "served")
    /\ LookupOver(p, found)
    /\ UNCHANGED slot

\* The wide lookup.  A changed generation or a store failure drops the store;
\* a low-need answer is a complete evaluation; a shortlist needs its rerank.
LookupWide(p) ==
    /\ At(p, "lookup")
    /\ \/ /\ slot[p] /\ CheckStamp(p)
          /\ LET found == {r \in WideRows(rows, key[p]) : Fresh(r, wall, boot)}
             IN  \/ found = {} /\ Miss(p, TRUE)
                 \/ \E r \in found :
                      /\ r.list = LowNeed
                      /\ Serve(p, {r})
                 \/ \E r \in found :
                      /\ r.list # LowNeed
                      /\ wide' = [wide EXCEPT ![p] = r]
                      /\ asOf' = [asOf EXCEPT ![p] = wall]
                      /\ moved' = [moved EXCEPT ![p] = FALSE]
                      /\ Goto(p, "pair")
                      /\ UNCHANGED <<slot, served>>
       \/ (StoreFails \/ ~slot[p] \/ ~CheckStamp(p)) /\ Miss(p, FALSE)
    /\ UNCHANGED <<store, clocks, key, ends, tried, until, led, answerVars>>

\* The rerank lookup of the same pair.  It is refused when the database
\* changed since the wide row was read.
ViewHeldAlways(p) == TRUE
ViewHeld(p) == ~moved[p]
LookupRerank(p) ==
    /\ At(p, "pair")
    /\ \/ /\ CheckStamp(p) /\ ViewHeld(p)
          /\ LET found == {r \in RerankRows(rows, key[p], wide[p].list) :
                             Fresh(r, asOf[p], boot)}
             IN  \/ found = {} /\ Miss(p, TRUE)
                 \/ \E r \in found : Serve(p, {wide[p], r})
       \/ (StoreFails \/ ~CheckStamp(p) \/ ~ViewHeld(p)) /\ Miss(p, FALSE)
    /\ UNCHANGED <<store, clocks, key, ends, tried, until, led, answerVars>>

-----------------------------------------------------------------------------
(* The lease.                                                              *)

\* No lease: the store stayed busy, failed, or refused the clock.  On a first
\* try that is no evidence of a leader; after following, the leader still is.
NoAcquisition(p) ==
    /\ Goto(p, IF At(p, "takeover") THEN "deferred" ELSE "send")
    /\ UNCHANGED <<tried, until, led>>

\* The four outcomes of acquire_lease, first tried or tried as a takeover.
\* The transaction may also commit and then fail its closing checks: the row
\* names an owner that never learns of it.
Acquire(p) ==
    /\ pc[p] \in {"acquire", "takeover"}
    /\ LET rec == lease[key[p]]
           won == Leading(rec, p, wall)
       IN  \/ /\ Acquired(rec, wall) = "leading"
              /\ lease' = [lease EXCEPT ![key[p]] = won]
              /\ \/ Lead(p, won) /\ Goto(p, "send")
                    /\ tried' = [tried EXCEPT ![p] = "took"] /\ UNCHANGED until
                 \/ StoreFails /\ NoAcquisition(p)
              /\ Commits
           \/ /\ Acquired(rec, wall) = "following" /\ At(p, "acquire")
              /\ until' = [until EXCEPT ![p] = rec.expires]
              /\ tried' = [tried EXCEPT ![p] = "followed"]
              /\ Goto(p, "wait")
              /\ UNCHANGED <<led, lease, moved>>
           \/ /\ Acquired(rec, wall) = "completed" /\ At(p, "acquire")
              /\ tried' = [tried EXCEPT ![p] = "completed"]
              /\ Goto(p, "lookup")
              /\ UNCHANGED <<led, until, lease, moved>>
           \/ /\ Acquired(rec, wall) \in {"following", "completed"} /\ At(p, "takeover")
              /\ Goto(p, "deferred")
              /\ UNCHANGED <<tried, until, led, lease, moved>>
           \/ /\ StoreFails \/ Acquired(rec, wall) = "error"
              /\ NoAcquisition(p) /\ UNCHANGED <<lease, moved>>
    /\ UNCHANGED <<gen, rows, clocks, key, slot, ends, lookupVars, answerVars>>

\* force_reacquire, after a completed lease whose pair is absent.  Whatever it
\* answers other than leadership leaves the run without a lease, and sending.
Refresh(p) ==
    /\ At(p, "refresh")
    /\ LET rec == lease[key[p]]
           won == Leading(rec, p, wall)
       IN  \/ /\ Reacquired(rec, wall) = "leading"
              /\ lease' = [lease EXCEPT ![key[p]] = won]
              /\ \/ Lead(p, won) /\ tried' = [tried EXCEPT ![p] = "took"]
                 \/ StoreFails /\ UNCHANGED <<led, tried>>
              /\ Commits
           \/ /\ Reacquired(rec, wall) = "following"
              /\ tried' = [tried EXCEPT ![p] = "told"]
              /\ UNCHANGED <<led, lease, moved>>
           \/ /\ StoreFails \/ Reacquired(rec, wall) = "error"
              /\ UNCHANGED <<led, lease, moved, tried>>
    /\ Goto(p, "send")
    /\ UNCHANGED <<gen, rows, clocks, key, slot, ends, lookupVars, until,
                   answerVars>>

\* wait_for_leader returns when the lease has settled, its expiry has passed,
\* or the work budget is spent; the pair is then looked up again.  The tick at
\* which the reserve is gone stands for the whole last second: the wait may end
\* anywhere in it, before or after what others do in that second.
WaitOverNever(p) == SettledNever(lease[key[p]], wall)
WaitOver(p) ==
    \/ wall >= until[p]
    \/ ~HasReserve(p)
    \/ Settled(lease[key[p]], wall)
Wait(p) ==
    /\ At(p, "wait")
    /\ WaitOver(p)
    /\ Goto(p, "lookup")
    /\ until' = [until EXCEPT ![p] = 0]
    /\ UNCHANGED <<store, clocks, key, slot, ends, tried, lookupVars, moved,
                   led, answerVars>>

-----------------------------------------------------------------------------
(* The provider and the publication.                                       *)

\* A stage fails: the run unwinds to the release of its lease.
StageFails(p) ==
    /\ Goto(p, "unwind")
    /\ UNCHANGED answerVars

\* The wide exchange.  Its answer is dated now and held for one publication.
SendWide(p) ==
    /\ At(p, "send")
    /\ \/ /\ InBudget(p)
          /\ \E d \in Decisions : list' = [list EXCEPT ![p] = d]
          /\ got' = [got EXCEPT ![p].wide = wall]
          /\ Goto(p, IF list'[p] = LowNeed THEN "publish" ELSE "check")
       \/ StageFails(p)
    /\ UNCHANGED <<store, clocks, key, slot, ends, tried, lookupVars, moved,
                   until, led>>

\* A leader that can see it was superseded does not pay for the rerank; a
\* store that cannot answer does not stop it.
CheckLead(p) ==
    /\ At(p, "check")
    /\ LET leads == led[p] # NoContext => StillLeads(lease[key[p]], led[p], wall)
       IN  \/ (leads \/ StoreFails) /\ Goto(p, "rerank") /\ UNCHANGED answerVars
           \/ ~leads /\ StageFails(p)
    /\ UNCHANGED <<store, clocks, key, slot, ends, tried, lookupVars, moved, until, led>>

SendRerank(p) ==
    /\ At(p, "rerank")
    /\ \/ /\ InBudget(p)
          /\ got' = [got EXCEPT ![p].rerank = wall]
          /\ Goto(p, "publish")
          /\ UNCHANGED list
       \/ StageFails(p)
    /\ UNCHANGED <<store, clocks, key, slot, ends, tried, lookupVars, moved, until, led>>

\* What fences the publication of a leader; a run without a lease has no fence.
Fenced(p) == led[p] # NoContext => ActiveLease(lease[key[p]], led[p], wall)

Evaluation(p) ==
    [key |-> key[p], list |-> list[p], got |-> got[p], by |-> p,
     fence |-> IF led[p] = NoContext THEN 0 ELSE led[p].fence]

\* The transaction opens within the budget, on a valid evaluation and on the
\* store the run opened.
MayPublishAny(p) == slot[p] /\ InBudget(p) /\ ValidEvaluation(Evaluation(p))
MayPublish(p) ==
    slot[p] /\ InBudget(p) /\ ValidEvaluation(Evaluation(p)) /\ CheckStamp(p)

\* Rows and completion in one transaction.
CommitEvaluation(p) ==
    /\ rows' = ReplaceResponses(rows, EvaluationRows(Evaluation(p), wall, boot))
    /\ lease' = IF led[p] = NoContext THEN lease
                ELSE [lease EXCEPT ![key[p]] = Completed(@)]
    /\ Commits

\* publish_evaluation.  A lost fence fails the run; any other failure, before
\* or after the commit, only drops the store and keeps the answer.
Publish(p) ==
    /\ At(p, "publish")
    /\ \/ /\ MayPublish(p) /\ Fenced(p)
          /\ CommitEvaluation(p)
          /\ \/ led' = [led EXCEPT ![p] = NoContext] /\ UNCHANGED slot
             \/ StoreFails /\ slot' = [slot EXCEPT ![p] = FALSE] /\ UNCHANGED led
          /\ Goto(p, "release")
       \/ /\ MayPublish(p) /\ ~Fenced(p)
          /\ slot' = [slot EXCEPT ![p] = FALSE]
          /\ Goto(p, "unwind")
          /\ UNCHANGED <<lease, rows, moved, led>>
       \/ /\ StoreFails \/ ~MayPublish(p)
          /\ slot' = [slot EXCEPT ![p] = FALSE]
          /\ Goto(p, "release")
          /\ UNCHANGED <<lease, rows, moved, led>>
    /\ UNCHANGED <<gen, clocks, key, ends, tried, lookupVars, until, answerVars>>

-----------------------------------------------------------------------------
(* The end of a run.                                                       *)

\* The process exits and its memory is gone.
Exit(p, how) ==
    /\ Goto(p, how)
    /\ key' = [key EXCEPT ![p] = NoKey]
    /\ slot' = [slot EXCEPT ![p] = FALSE]
    /\ ends' = [ends EXCEPT ![p] = 0]
    /\ tried' = [tried EXCEPT ![p] = "none"]
    /\ asOf' = [asOf EXCEPT ![p] = 0]
    /\ wide' = [wide EXCEPT ![p] = NoRow]
    /\ until' = [until EXCEPT ![p] = 0]
    /\ led' = [led EXCEPT ![p] = NoContext]
    /\ list' = [list EXCEPT ![p] = LowNeed]
    /\ got' = [got EXCEPT ![p] = [wide |-> 0, rerank |-> 0]]
    /\ served' = [served EXCEPT ![p] = {}]

\* A cached pair, or a follower that gave up: there is no lease to release.
Finish(p) ==
    /\ \/ At(p, "served") /\ Exit(p, "answered")
       \/ At(p, "deferred") /\ Exit(p, "failed")
    /\ UNCHANGED <<store, clocks, moved>>

\* A led lease is completed on every path.  Completion by a superseded owner
\* discards its answer; a store that cannot answer does not.
Release(p) ==
    /\ pc[p] \in {"release", "unwind"}
    /\ LET rec == lease[key[p]]
           outcome == IF led[p] = NoContext THEN "none" ELSE Completion(rec, led[p], wall)
           how == IF At(p, "release") THEN "answered" ELSE "failed"
       IN  \/ /\ outcome = "published"
              /\ lease' = [lease EXCEPT ![key[p]] = Completed(rec)]
              /\ Commits
              /\ Exit(p, how)
           \/ /\ outcome = "superseded"
              /\ Exit(p, "failed")
              /\ UNCHANGED <<lease, moved>>
           \/ /\ StoreFails \/ outcome \in {"none", "error"}
              /\ Exit(p, how)
              /\ UNCHANGED <<lease, moved>>
    /\ UNCHANGED <<gen, rows, clocks>>

Kill(p) ==
    /\ pc[p] \notin AtRest
    /\ Exit(p, "dead")
    /\ moved' = [moved EXCEPT ![p] = FALSE]
    /\ UNCHANGED <<store, clocks>>

-----------------------------------------------------------------------------
(* The environment.                                                        *)

\* advance_generation clears the cache: rows of the old generation stay until
\* a publication prunes them, and no lookup of the new one finds them.
AdvanceGeneration ==
    /\ gen < MaxGeneration
    /\ gen' = gen + 1
    /\ Commits
    /\ UNCHANGED <<lease, rows, clocks, pc, key, slot, ends, tried, lookupVars,
                   until, led, answerVars>>

Tick ==
    /\ boot < MaxTime
    /\ boot' = boot + 1 /\ wall' = wall + 1
    /\ UNCHANGED <<store, back, pc, key, slot, ends, tried, lookupVars, moved,
                   until, led, answerVars>>

\* The wall clock is stepped back; this boot's clock is not.
StepBack ==
    /\ back < MaxStepBack
    /\ back' = back + 1
    /\ wall' \in {w \in wall - CacheTtl .. wall - 1 : w >= 0}
    /\ UNCHANGED <<store, boot, pc, key, slot, ends, tried, lookupVars, moved,
                   until, led, answerVars>>

Step(p) ==
    \/ LookupWide(p) \/ LookupRerank(p)
    \/ Acquire(p) \/ Refresh(p) \/ Wait(p)
    \/ SendWide(p) \/ CheckLead(p) \/ SendRerank(p) \/ Publish(p)
    \/ Finish(p) \/ Release(p)

Next ==
    \/ \E p \in Runs : Open(p) \/ Step(p) \/ Kill(p)
    \/ AdvanceGeneration \/ Tick \/ StepBack

Spec == Init /\ [][Next]_vars

-----------------------------------------------------------------------------
(* Properties.                                                             *)

\* What the store can hold, and what a leader keeps of its lease.
CacheRows ==
    [stage : {"wide", "rerank"}, key : Keys, list : Decisions, by : Runs,
     fence : 0 .. MaxFence, received : Nat, bootReceived : Nat, written : Nat]
Contexts == [owner : Owners, fence : 1 .. MaxFence, expires : Int]

\* Every variable has its type: leases, contexts and rows are those the store can
\* hold, and the wall clock is never ahead of this boot's.
TypeOK ==
    /\ gen \in 0 .. MaxGeneration
    /\ lease \in [Keys -> Leases \cup {NoLease}]
    /\ rows \subseteq CacheRows
    /\ boot \in 0 .. MaxTime /\ wall \in 0 .. boot /\ back \in 0 .. MaxStepBack
    /\ pc \in [Runs -> AtRest \cup {"lookup", "pair", "acquire", "takeover", "refresh",
                "wait", "send", "check", "rerank", "publish", "release", "unwind",
                "served", "deferred"}]
    /\ key \in [Runs -> Keys]
    /\ slot \in [Runs -> BOOLEAN] /\ moved \in [Runs -> BOOLEAN]
    /\ ends \in [Runs -> Nat] /\ asOf \in [Runs -> Nat] /\ until \in [Runs -> Int]
    /\ tried \in [Runs -> {"none", "followed", "completed", "took", "told"}]
    /\ wide \in [Runs -> CacheRows \cup {NoRow}]
    /\ led \in [Runs -> Contexts \cup {NoContext}]
    /\ list \in [Runs -> Decisions]
    /\ got \in [Runs -> [wide : Nat, rerank : Nat]]
    /\ served \in [Runs -> SUBSET CacheRows]

\* A served pair is one evaluation: the rerank a lookup pairs with a wide answer
\* is the rerank that answer led to, although the two are read apart and two
\* evaluations of a request can share a rerank key.
PairNeverMixed ==
    \A p \in Runs : \A r, s \in served[p] : r.by = s.by

\* An answer is not served once its lifetime has passed: since it was written, on
\* the boot clock, whatever the wall clock does in between; and since it was
\* received, on the wall clock as the lookup of its pair began, which is then not
\* before the receipt either.
Serving(p) == served'[p] # served[p]
Began(p) == IF pc[p] = "pair" THEN asOf[p] ELSE wall
NotServedPastTtl ==
    [][\A p \in Runs : Serving(p) =>
          \A r \in served'[p] : boot - r.written < CacheTtl /\ WallFresh(r, Began(p))]_vars

\* A run becomes the leader of a request only once the lease of every other run
\* that still evaluates that request as its leader has run out: two leaders
\* evaluate at once only across an expiry.
Evaluating == {"send", "check", "rerank", "publish"}
LeadershipAfterExpiry ==
    [][\A p, q \in Runs :
          /\ led[p] = NoContext /\ led'[p] # NoContext
          /\ q # p /\ key[q] = key[p] /\ led[q] # NoContext /\ pc[q] \in Evaluating
          => wall >= led[q].expires]_vars

\* Of two leaders of one request, the later fence keeps the cache: a leader that
\* expired or was superseded never replaces the pair its successor published.
SuccessorPairStands ==
    [][\A old \in rows \ rows', new \in rows' \ rows :
          old.key = new.key /\ old.fence > 0 /\ new.fence > 0 => new.fence > old.fence]_vars

\* Once the cache is cleared, an evaluation begun before is never stored: every
\* row is written under the generation that is current when it is written.
ClearedStaysCleared ==
    [][\A r \in rows' \ rows : r.key[1] = gen]_vars

\* A follower with time to take over gives up only to a leader that still owns
\* the request; after a leader that failed and recorded nothing it sends itself.
FollowerTakesOver ==
    [][\A p \in Runs : At(p, "takeover") /\ pc'[p] = "deferred" =>
          /\ ~lease[key[p]].done
          /\ Unexpired(lease[key[p]], wall)]_vars

\* Every run ends, whatever happened to the leader it follows: again and again
\* there is a moment at which none is under way.
RunEnds == []<>(\A p \in Runs : pc[p] \in AtRest)
=============================================================================
