-------------------------------- MODULE Stats --------------------------------
(***************************************************************************)
(* What `sr stats` computes from one snapshot of the ledger                *)
(* (query_value_stats in src/src/storage/ledger.rs).  Rows are records:    *)
(*   event     [id, at, channel, decision, exposure, unfinished, elapsed,  *)
(*              attempts, skills]   skills in rank order                   *)
(*   attempt   [status, tokens]           tokens = Unreported when NULL    *)
(*   label     [event, skill, label]                                       *)
(*   load      [event, skill, at, state]  event = Unattributed when NULL   *)
(* Rates are kept as their numerator and denominator.                      *)
(***************************************************************************)
EXTENDS Integers, Sequences, FiniteSets, FiniteSetsExt, SequencesExt

CONSTANTS Unreported, Unattributed

InWindow(at, since, asOf) == since <= at /\ at <= asOf
Window(events, since, asOf) == {e \in events : InWindow(e.at, since, asOf)}

\* UNFINISHED_ROW_SQL: written before anything was decided and never settled.
Unfinished(e) == e.decision = "unavailable" /\ e.exposure = "generated" /\ e.unfinished

Shown(e) == e.decision \in {"ranked", "explicit"} /\ e.exposure \in {"emitted", "acknowledged"}

TurnMetrics(w) ==
  [total       |-> Cardinality(w),
   emitted     |-> Cardinality({e \in w : Shown(e)}),
   abstained   |-> Cardinality({e \in w : e.decision = "abstain"}),
   muted       |-> Cardinality({e \in w : e.decision = "ranked" /\ e.exposure \in {"generated", "prepared"}}),
   failed      |-> Cardinality({e \in w : e.decision = "unavailable" /\ ~Unfinished(e)}),
   unfinished  |-> Cardinality({e \in w : Unfinished(e)}),
   explicit    |-> Cardinality({e \in w : e.decision = "explicit"})]

ByChannel(w) == [c \in {e.channel : e \in w} |-> TurnMetrics({e \in w : e.channel = c})]

\* LatencySummary::from_sorted_samples: upper-middle median, nearest-rank tails.
Percentile(samples, k) ==
  LET i == Len(samples) - (Len(samples) \div k + 1)
  IN  IF samples = <<>> THEN 0 ELSE samples[(IF i < 0 THEN 0 ELSE i) + 1]
LatencySummary(w) ==
  LET done == {e \in w : ~Unfinished(e)}
      samples == SortSeq([i \in 1..Cardinality(done) |-> SetToSeq(done)[i].elapsed], LAMBDA x, y : x < y)
  IN  [measured |-> Len(samples),
       median   |-> IF samples = <<>> THEN 0 ELSE samples[Len(samples) \div 2 + 1],
       p95      |-> Percentile(samples, 20),
       p99      |-> Percentile(samples, 100),
       excluded |-> Cardinality(w \ done)]

Named(e) == ToSet(e.skills)

\* An emitted turn is adopted once, however often its suggestion was loaded.
Adopted(w, loads, asOf) ==
  {e \in w : Shown(e) /\ \E l \in loads : /\ l.event = e.id /\ l.state = "loaded" /\ l.skill \in Named(e)
                                          /\ e.at <= l.at /\ l.at <= asOf}

ObservationMetrics(w, loads, since, asOf) ==
  LET in   == {l \in loads : InWindow(l.at, since, asOf)}
      done == {l \in in : l.state = "loaded"}
      mine == {l \in done : l.event # Unattributed}
  IN  [total |-> Cardinality(in), loaded |-> Cardinality(done),
       attempted |-> Cardinality({l \in in : l.state = "attempted"}),
       censored |-> Cardinality({l \in in : l.state = "censored"}),
       attributed |-> Cardinality(mine),
       coverage |-> <<Cardinality(mine), Cardinality(done)>>,
       adoption |-> <<Cardinality(Adopted(w, loads, asOf)), Cardinality({e \in w : Shown(e)})>>]

LabelsIn(w, labels) == {j \in labels : \E e \in w : e.id = j.event}
Judged(w, labels) == {e \in w : \E j \in labels : j.event = e.id}

JudgmentMetrics(w, labels) ==
  LET in == LabelsIn(w, labels)
  IN  [total |-> Cardinality(in),
       useful |-> Cardinality({j \in in : j.label = "useful"}),
       harmful |-> Cardinality({j \in in : j.label = "harmful"}),
       neutral |-> Cardinality({j \in in : j.label = "neutral"}),
       events |-> Cardinality(Judged(w, labels)),
       coverage |-> <<Cardinality({e \in Judged(w, labels) : Shown(e)}), Cardinality({e \in w : Shown(e)})>>]

\* A ranking that owns no attempt was served from the cache; an abstention or an
\* unfinished row without one shows nothing.
CacheServed(w) == {e \in w : e.decision = "ranked" /\ ~Unfinished(e) /\ e.attempts = <<>>}
FinishedRankings(w) == {e \in w : e.decision = "ranked" /\ ~Unfinished(e)}

AttemptsOf(w) == FlattenSeq([i \in 1..Cardinality(w) |-> SetToSeq(w)[i].attempts])
Tokens(attempts) ==
  FoldSeq(LAMBDA a, n : n + (IF a.tokens = Unreported THEN 0 ELSE a.tokens), 0, attempts)
UnknownUsage(attempts) ==
  Len(SelectSeq(attempts, LAMBDA a : a.tokens = Unreported \/ a.status # "completed"))

\* Attempts and tokens of the judged turns, each once whatever the labels on it.
JudgedCohort(w, labels) ==
  LET attempts == AttemptsOf(Judged(w, labels))
  IN  [attempts |-> Len(attempts), tokens |-> Tokens(attempts), unknown |-> UnknownUsage(attempts),
       reused |-> Cardinality({e \in Judged(w, labels) : e.attempts = <<>>}),
       useful |-> Cardinality({e \in w : \E j \in labels : j.event = e.id /\ j.label = "useful"})]

\* The cost of a useful suggestion is declined without useful turns or own attempts.
CostPerUseful(cohort) ==
  IF cohort.useful = 0 \/ cohort.attempts = 0 THEN Unreported
  ELSE [attempts |-> cohort.attempts, tokens |-> cohort.tokens, per |-> cohort.useful,
        lowerBound |-> cohort.unknown > 0]

ProviderMetrics(w, labels) ==
  LET attempts == AttemptsOf(w)
      with(s)  == Len(SelectSeq(attempts, LAMBDA a : a.status = s))
  IN  [total |-> Len(attempts), completed |-> with("completed"), failed |-> with("failed"),
       unknown |-> Len(attempts) - with("completed") - with("failed"),
       tokens |-> Tokens(attempts), unknownUsage |-> UnknownUsage(attempts),
       hits |-> <<Cardinality(CacheServed(w)), Cardinality(FinishedRankings(w))>>,
       cohort |-> JudgedCohort(w, labels), cost |-> CostPerUseful(JudgedCohort(w, labels))]

\* --by-skill: every skill a candidate, load or label of the window names.
BySkill(w, labels, loads, since, asOf) ==
  LET in == {l \in loads : InWindow(l.at, since, asOf)}
      skills == UNION {Named(e) : e \in w} \cup {l.skill : l \in in} \cup {j.skill : j \in LabelsIn(w, labels)}
  IN  [k \in skills |->
        [shortlisted |-> Cardinality({e \in w : k \in Named(e)}),
         recommended |-> Cardinality({e \in w : e.skills # <<>> /\ k = Head(e.skills) /\ e.decision = "ranked" /\ Shown(e)}),
         loads |-> Cardinality({l \in in : l.skill = k /\ l.state = "loaded"}),
         useful |-> Cardinality({j \in LabelsIn(w, labels) : j.skill = k /\ j.label = "useful"})]]

\* hook_entry_report: entries counted, rows recorded and non-turns over one span.
HookEntryReport(events, entries, nonturns, since, until) ==
  LET first == Min({n.at : n \in entries})
      start == IF first > since THEN first ELSE since
      counted == Cardinality({n \in entries : InWindow(n.at, since, until)})
      recorded == Cardinality({e \in events : e.channel = "hook" /\ InWindow(e.at, start, until)})
      other == Cardinality({n \in nonturns : InWindow(n.at, start, until)})
      less(a, b) == IF a > b THEN a - b ELSE 0
  IN  IF entries = {} THEN Unreported
      ELSE [since |-> start, until |-> until, counted |-> counted, recorded |-> recorded,
            unrecorded |-> less(less(counted, recorded), other)]

\* cleanup_debt and query_retained_stats at one retention cutoff.
CleanupDebt(events, labels, loads, cutoff) ==
  LET old == {e \in events : e.at < cutoff}
  IN  [events |-> Cardinality(old),
       loads |-> Cardinality({l \in loads : \/ \E e \in old : e.id = l.event
                                            \/ l.event = Unattributed /\ l.at < cutoff}),
       labels |-> Cardinality(LabelsIn(old, labels))]
RetainedStats(events, labels, loads, cutoff) ==
  LET kept == {e \in events : e.at >= cutoff}
  IN  [total |-> Cardinality(events), active |-> Cardinality(kept),
       labels |-> Cardinality(LabelsIn(kept, labels)),
       loads |-> Cardinality({l \in loads : \/ \E e \in kept : e.id = l.event
                                            \/ l.event = Unattributed /\ l.at >= cutoff})]
=============================================================================
