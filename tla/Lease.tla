------------------------------- MODULE Lease -------------------------------
(***************************************************************************)
(* The transaction primitives of the single-flight lease                   *)
(* (src/src/cache/coordination.rs): what one row of sr_coordination_leases *)
(* becomes when it is acquired, refreshed, checked and completed.  Each    *)
(* operator is one function of SqliteLeaseCoordinator; the row lives in    *)
(* cache.sqlite3 and the caller owns the transaction.                      *)
(*                                                                         *)
(* An owner token is 16 random bytes, never drawn twice: it is a member of *)
(* Owners, one per run.  The attempt label of the row is derived from the  *)
(* generation and is left out.                                             *)
(***************************************************************************)
EXTENDS Integers

CONSTANTS Owners,     \* the runs that may own a lease
          NoLease,    \* no row for the key
          LeaseTtl,   \* DEFAULT_LEASE_TTL_MS, in ticks of the model's clock
          MaxFence    \* i64::MAX, the largest fencing generation SQLite holds

ASSUME LeaseAssumption ==
    /\ LeaseTtl \in Nat \ {0}
    /\ MaxFence \in Nat \ {0}
    /\ NoLease \notin [owner : Owners, fence : 1 .. MaxFence, acquired : Int,
                       expires : Int, done : BOOLEAN]

Leases == [owner : Owners, fence : 1 .. MaxFence, acquired : Int,
           expires : Int, done : BOOLEAN]

\* What the winner keeps: its token, its fence and its expiry.
LeaderContext(rec) == [owner |-> rec.owner, fence |-> rec.fence,
                       expires |-> rec.expires]

\* A clock that reads before the acquisition is refused, not compared.
CheckTime(rec, now) == now >= rec.acquired

Unexpired(rec, now) == now < rec.expires

\* The row a new leader writes over `rec`, or as the first of its key.
NextFence(rec) == IF rec = NoLease THEN 1 ELSE rec.fence + 1
Leading(rec, o, now) ==
    [owner |-> o, fence |-> NextFence(rec), acquired |-> now,
     expires |-> now + LeaseTtl, done |-> FALSE]

AcquiredEarly(rec, now) ==
    CASE rec = NoLease -> "leading"
      [] rec # NoLease /\ now + 1 < rec.expires -> IF rec.done THEN "completed" ELSE "following"
      [] OTHER -> "leading"
\* Acquisition ends in one of four ways.  "error" is InvalidTimestamp or an
\* exhausted generation: the row is left alone and the caller gets no lease.
Acquired(rec, now) ==
    CASE rec = NoLease -> "leading"
      [] rec # NoLease /\ ~CheckTime(rec, now) -> "error"
      [] rec # NoLease /\ CheckTime(rec, now) /\ Unexpired(rec, now) ->
            IF rec.done THEN "completed" ELSE "following"
      [] OTHER -> IF rec.fence < MaxFence THEN "leading" ELSE "error"

\* A refresh takes over a completed lease too, but follows an active owner.
Reacquired(rec, now) ==
    CASE rec = NoLease -> "leading"
      [] rec # NoLease /\ ~CheckTime(rec, now) -> "error"
      [] rec # NoLease /\ CheckTime(rec, now) /\ ~rec.done /\ Unexpired(rec, now) ->
            "following"
      [] OTHER -> IF rec.fence < MaxFence THEN "leading" ELSE "error"

\* Ownership as the publishing transaction checks it.
ActiveByExpiry(rec, ctx, now) == rec # NoLease /\ Unexpired(rec, now)
ActiveLease(rec, ctx, now) ==
    /\ rec # NoLease
    /\ ~rec.done
    /\ LeaderContext(rec) = ctx
    /\ now >= rec.acquired
    /\ Unexpired(rec, now)

\* Ownership as a reader checks it before paying for a second stage.
StillLeads(rec, ctx, now) ==
    /\ rec # NoLease
    /\ rec.owner = ctx.owner /\ rec.fence = ctx.fence
    /\ ~rec.done
    /\ Unexpired(rec, now)

\* Completion is single-use: "published", "superseded", or "error" when the
\* clock reads before the acquisition.
Completion(rec, ctx, now) ==
    CASE rec = NoLease -> "superseded"
      [] rec # NoLease /\ ~CheckTime(rec, now) -> "error"
      [] rec # NoLease /\ CheckTime(rec, now) /\ ~rec.done /\ rec.owner = ctx.owner
            /\ rec.fence = ctx.fence /\ Unexpired(rec, now) -> "published"
      [] OTHER -> "superseded"

Completed(rec) == [rec EXCEPT !.done = TRUE]

\* What a waiting follower takes for settlement.
SettledNever(rec, now) == rec # NoLease /\ rec.done
Settled(rec, now) == rec = NoLease \/ rec.done \/ ~Unexpired(rec, now)
=============================================================================
