--------------------------- MODULE ResponseCache ---------------------------
(***************************************************************************)
(* The rows of sr_cache_response in one namespace                          *)
(* (src/src/storage/mod.rs, storage/publication.rs, cache/response.rs):    *)
(* which row a lookup serves and what a publication leaves behind.         *)
(*                                                                         *)
(* A row is keyed by store generation, stage and request fingerprint.  A   *)
(* wide fingerprint is the request; a rerank fingerprint is the request    *)
(* and the shortlist, so two evaluations of one request that choose the    *)
(* same shortlist share a rerank key.  A row carries two receipts: the     *)
(* wall clock, which may be stepped back, and this boot's clock, which may *)
(* not.  `by` names the run whose evaluation it holds and `written` the    *)
(* boot time of the write; neither is stored, both serve the properties.   *)
(***************************************************************************)
EXTENDS Integers

CONSTANTS CacheTtl,      \* DEFAULT_CACHE_TTL_SECS, in ticks
          Shortlists,    \* the shortlists a wide answer can lead to
          LowNeed        \* the wide decision that needs no rerank

ASSUME ResponseAssumption ==
    /\ CacheTtl \in Nat \ {0}
    /\ LowNeed \notin Shortlists

Decisions == Shortlists \cup {LowNeed}

\* The receipt on the boot clock, back-dated by the wall-clock time since
\* receipt; the subtractions saturate at zero.
Saturating(n) == IF n < 0 THEN 0 ELSE n
BootReceipt(received, now, boot) == Saturating(boot - Saturating(now - received))

\* A row is served only while its age on both clocks is within the TTL.  The
\* wall clock is the one the lookup read when it began.
WallFresh(row, asOf) == row.received <= asOf /\ asOf - row.received < CacheTtl
BootFreshUnchecked(row, boot) == TRUE
BootFresh(row, boot) == boot - row.bootReceived < CacheTtl
Fresh(row, asOf, boot) == WallFresh(row, asOf) /\ BootFresh(row, boot)

\* The rows of one evaluation: the wide answer and, when its decision is a
\* shortlist, the rerank of that shortlist.  An evaluation is [key, list, got,
\* by, fence]: `fence` is the generation it was led under, 0 without a lease.
Row(stage, ev, now, boot) ==
    [stage |-> stage, key |-> ev.key, list |-> ev.list, by |-> ev.by, fence |-> ev.fence,
     received |-> ev.got[stage],
     bootReceived |-> BootReceipt(ev.got[stage], now, boot), written |-> boot]

EvaluationRows(ev, now, boot) ==
    {Row(stage, ev, now, boot) :
        stage \in IF ev.list = LowNeed THEN {"wide"} ELSE {"wide", "rerank"}}

\* A rerank dated before its wide answer is not a valid evaluation.
ValidEvaluation(ev) == ev.list = LowNeed \/ ev.got["rerank"] >= ev.got["wide"]

\* A publication replaces everything its namespace held.
ReplaceResponses(rows, fresh) == fresh

\* The rows a lookup may find.  A key is the store generation and the request;
\* a wide row is found by the key alone, a rerank row also by the shortlist the
\* wide answer chose.
WideRows(rows, key) == {r \in rows : r.stage = "wide" /\ r.key = key}
RerankRows(rows, key, list) ==
    {r \in rows : r.stage = "rerank" /\ r.key = key /\ r.list = list}
=============================================================================
