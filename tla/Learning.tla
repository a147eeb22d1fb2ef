------------------------------- MODULE Learning -------------------------------
(***************************************************************************)
(* Calibration, managed policy and the sequential risk monitor             *)
(* (src/src/learning.rs, `sr calibrate` in src/src/cli.rs).  A calibration *)
(* is computed from one evaluation artifact; applying it writes a revision *)
(* record, the active priors and config.toml, in that order, each by a     *)
(* rename, with the configuration compared just before its own.  Commands  *)
(* run concurrently and may stop anywhere; the user edits config.toml.     *)
(* Probabilities, fits and weights are small integers; log odds are kept   *)
(* to their sign, and evidence to a score that flagged units raise.        *)
(***************************************************************************)
EXTENDS Integers, Sequences, FiniteSets, FiniteSetsExt, SequencesExt, TLC

CONSTANTS
  Calibrators,     \* calibrate commands
  Artifacts,       \* evaluation artifacts offered
  Batches,         \* monitor batches offered
  Baseline,        \* ManagedRankingPolicy::BASELINE
  HandEdits,       \* policies a user may write into config.toml
  MIN_PHASE_CELL_JUDGED, SHRINKAGE, SCALE,
  FLAG_STEP,       \* evidence a flagged unit adds; an unflagged one takes 1
  Threshold,       \* per alpha, the evidence that raises the alarm
  MaxHandEdits, MaxRuns, NoFile

VARIABLES
  config,          \* the [ranking] policy in config.toml, its other sections, or NoFile
  priors,          \* prior_snapshot.json, or NoFile
  revisions,       \* policy-revisions/*.json
  monitor,         \* monitor_state.json, or NoFile
  cal,             \* per command
  handEdits, runs,
  replacedBy       \* per recorded revision, the policy its apply really replaced

learningVars == <<config, priors, revisions, monitor, cal, handEdits, runs, replacedBy>>

(***************************** Calibration *********************************)

\* beta_shrunk_prior_delta: the sign of log_odds(q) - log_odds(0.2), shrunk.
Sign(n) == IF n > 0 THEN 1 ELSE IF n < 0 THEN -1 ELSE 0
Delta(cell) ==
  Sign(4 * (cell.useful + 1) - (cell.judged - cell.useful + 4)) * ((SCALE * cell.judged) \div (cell.judged + SHRINKAGE))

\* PriorSnapshot::from_judgments: independent judgments up to the cutoff, one
\* per event, skill and revision; the first one read counts.
SameLabel(j, k) == j.event = k.event /\ j.skill = k.skill /\ j.hash = k.hash
Counts(judgments, asOf) ==
  LET in == SelectSeq(judgments, LAMBDA j : j.at <= asOf)
  IN  {i \in 1..Len(in) : \A k \in 1..(i - 1) : ~SameLabel(in[k], in[i])}
FromJudgments(judgments, asOf) ==
  LET in == SelectSeq(judgments, LAMBDA j : j.at <= asOf)
      taken == {in[i] : i \in Counts(judgments, asOf)}
      cell(of) == [useful |-> Cardinality({j \in of : j.useful}), judged |-> Cardinality(of)]
      pooled(k) == {j \in taken : <<j.skill, j.hash, j.version>> = k}
      phased(k) == {j \in taken : <<j.skill, j.hash, j.version, j.phase>> = k}
  IN  [pooled |-> [k \in {<<j.skill, j.hash, j.version>> : j \in taken} |-> cell(pooled(k))],
       phased |-> [k \in {<<j.skill, j.hash, j.version, j.phase>> : j \in taken} |-> cell(phased(k))]]
Independent(judgments) == \A i \in DOMAIN judgments : judgments[i].source = "independent_judgment"
EmptySnapshot(s) == DOMAIN s.pooled = {}
NoPriors == [pooled |-> [k \in {} |-> 0], phased |-> [k \in {} |-> 0]]

\* prior_delta: a well covered phase cell, else the pooled one, else nothing.
PriorDelta(s, cand, version, phase) ==
  LET k == <<cand.skill, cand.hash, version>>
      p == Append(k, phase)
      covered == p \in DOMAIN s.phased /\ s.phased[p].judged >= MIN_PHASE_CELL_JUDGED
                 /\ s.phased[p].useful \in 1..(s.phased[p].judged - 1)
  IN  IF covered THEN Delta(s.phased[p]) ELSE IF k \in DOMAIN s.pooled THEN Delta(s.pooled[k]) ELSE 0

\* evaluate_case_loss: priors and weights order the survivors and save nobody.
Surviving(case, policy) ==
  {i \in DOMAIN case.cands : /\ case.cands[i].eligible /\ case.cands[i].prob > case.none
                             /\ case.cands[i].fit >= policy.fit}
Logit(case, policy, s, version, i) ==
  case.cands[i].prob + policy.wFit * case.cands[i].fit
    + policy.wPrior * (IF policy.wPrior > 0 THEN PriorDelta(s, case.cands[i], version, case.phase) ELSE 0)
NotEstimable == -1
CaseLoss(case, policy, s, version) ==
  LET silent == IF case.acceptable = {} THEN 0 ELSE 1
      alive == Surviving(case, policy)
      first == CHOOSE i \in alive : \A k \in alive \ {i} :
                 LET a == Logit(case, policy, s, version, i)
                     b == Logit(case, policy, s, version, k)
                 IN  a > b \/ (a = b /\ case.cands[i].skill < case.cands[k].skill)
  IN  CASE case.down -> 2
        [] ~case.down /\ case.gate < policy.gate -> silent
        [] ~case.down /\ case.gate >= policy.gate /\ ~case.stage2 -> NotEstimable
        [] OTHER -> IF alive = {} THEN silent
                    ELSE IF case.cands[first].skill \in case.acceptable THEN 0 ELSE 2

\* evaluate_split: one case that cannot be estimated makes the split so.
SplitLoss(cases, policy, s, version) ==
  LET losses == {<<c.id, CaseLoss(c, policy, s, version)>> : c \in cases}
  IN  IF \E l \in losses : l[2] = NotEstimable THEN NotEstimable
      ELSE FoldSet(LAMBDA l, n : n + l[2], 0, losses)

In(a, split) == {a.cases[i] : i \in {i \in DOMAIN a.cases : a.cases[i].split = split}}
Latest(cases) == Max({c.at : c \in cases})

\* The refusals of run_calibration_from_bytes, in order.
Separated(a) ==
  /\ a.unfinished = 0
  /\ \A i, k \in DOMAIN a.cases : /\ a.cases[i].id = a.cases[k].id => i = k
                                  /\ a.cases[i].family = a.cases[k].family => a.cases[i].split = a.cases[k].split
Covered(a) ==
  \A split \in {"training", "validation", "holdout"} :
    LET cases == In(a, split)
    IN  /\ Cardinality(cases) >= a.minimum
        /\ \E c \in cases : c.acceptable # {}
        /\ \E c \in cases : c.acceptable = {}
        /\ \E c \in cases : c.near
Predates(a) == \A c \in In(a, "validation") \cup In(a, "holdout") : Latest(In(a, "training")) < c.at

\* Candidates in order after the baseline; a later one must lose strictly less.
SelectPolicy(a, s) ==
  LET loss(p) == SplitLoss(In(a, "validation"), p, s, a.version)
      better(p, best) == loss(p) # NotEstimable /\ loss(p) < loss(best)
  IN  FoldLeft(LAMBDA best, p : IF better(p, best) THEN p ELSE best, Baseline, a.policies)

\* Held out, the selected policy must lose strictly less than the baseline.
HeldOut(a, s, policy) == SplitLoss(In(a, "holdout"), policy, s, a.version)
PolicyReport(a, s, selected) ==
  [promotable |-> selected # Baseline /\ HeldOut(a, s, selected) < HeldOut(a, s, Baseline), error |-> "none",
   revision |-> <<a.name, selected>>, selected |-> selected, priors |-> s]

NotPromotable == [promotable |-> FALSE, error |-> "refused"]
Calibrate(a) ==
  LET s == FromJudgments(a.judgments, Latest(In(a, "training")))
      selected == SelectPolicy(a, s)
      estimable == NotEstimable \notin {SplitLoss(In(a, "validation"), Baseline, s, a.version),
                                      HeldOut(a, s, Baseline), HeldOut(a, s, selected)}
  IN  IF ~Separated(a) THEN NotPromotable
      ELSE IF ~Covered(a) THEN NotPromotable
      ELSE IF ~(Predates(a) /\ Independent(a.judgments)) THEN NotPromotable
      ELSE IF ~estimable THEN NotPromotable
      ELSE PolicyReport(a, s, selected)

(************************** Managed policy files ***************************)

\* ManagedRankingPolicy::digest prints six decimals: a finer difference is lost.
Digest(policy) == [policy EXCEPT !.fine = 0]

Parse(file) == IF file = NoFile THEN Baseline ELSE file.policy
Sections(file) == IF file = NoFile THEN {} ELSE file.rest

\* load_active_prior_snapshot: an empty snapshot is none.
ActivePriors == IF priors = NoFile THEN NoPriors ELSE priors

Quiet == [pc |-> "idle"]
Over(c, outcome) == cal' = [cal EXCEPT ![c] = [pc |-> "done", outcome |-> outcome]]
KeepFiles == UNCHANGED <<config, priors, revisions, monitor, handEdits, runs, replacedBy>>

LearningInit ==
  /\ config \in {NoFile, [policy |-> Baseline, rest |-> {"network"}]}
  /\ priors = NoFile /\ revisions = {} /\ monitor = NoFile
  /\ cal = [c \in Calibrators |-> Quiet] /\ handEdits = 0 /\ runs = 0
  /\ replacedBy = {}

\* calibrate_command: a preview ends with the report.
Evaluate(c) ==
  /\ cal[c].pc \in {"idle", "done"} /\ runs < MaxRuns /\ runs' = runs + 1
  /\ \E a \in Artifacts, apply \in BOOLEAN :
       LET report == Calibrate(a)
       IN  IF apply /\ report.promotable
           THEN cal' = [cal EXCEPT ![c] = [pc |-> "promote", report |-> report]]
           ELSE Over(c, IF apply THEN "not-promotable" ELSE "preview")
  /\ UNCHANGED <<config, priors, revisions, monitor, handEdits, replacedBy>>

\* apply_calibrated_policy: the monitor first, then everything it will replace.
Alarmed(m) == m # NoFile /\ m.status \in {"alarmed", "invalidated"}
Promote(c) ==
  /\ cal[c].pc = "promote"
  /\ IF Alarmed(monitor) THEN Over(c, "blocked")
     ELSE cal' = [cal EXCEPT ![c] = [pc |-> "record", report |-> @.report, base |-> config, held |-> ActivePriors]]
  /\ KeepFiles

Without(revision) == {b \in replacedBy : b[1] # revision}
RecordRevision(c) ==
  /\ cal[c].pc = "record"
  /\ LET r == cal[c].report
         record == [id |-> r.revision, previous |-> Parse(cal[c].base), applied |-> r.selected,
                    expected |-> Digest(r.selected), held |-> cal[c].held, by |-> c]
     IN  revisions' = {v \in revisions : v.id # r.revision} \cup {record}
  /\ cal' = [cal EXCEPT ![c].pc = "priors"]
  /\ replacedBy' = Without(cal[c].report.revision)
  /\ UNCHANGED <<config, priors, monitor, handEdits, runs>>

\* A policy that weighs priors installs its own, if it has any; one that does not
\* empties the file.
SavePriors(c) ==
  /\ cal[c].pc = "priors"
  /\ LET r == cal[c].report
     IN  priors' = IF r.selected.wPrior > 0
                   THEN IF EmptySnapshot(r.priors) THEN priors ELSE r.priors
                   ELSE IF priors # NoFile THEN NoPriors ELSE priors
  /\ cal' = [cal EXCEPT ![c] = [pc |-> "compare", base |-> @.base, to |-> @.report.selected,
                                revision |-> @.report.revision, then |-> "applied", seen |-> NoFile]]
  /\ UNCHANGED <<config, revisions, monitor, handEdits, runs, replacedBy>>

\* write_managed_policy_to_toml: read again, compare with the base, rename.
UnchangedBaseAny(c) == TRUE
UnchangedBase(c) == config = cal[c].base
CompareConfig(c) ==
  /\ cal[c].pc = "compare"
  /\ IF UnchangedBase(c) THEN cal' = [cal EXCEPT ![c].pc = "write", ![c].seen = config] ELSE Over(c, "conflict")
  /\ KeepFiles
WroteRecord(c) == \E v \in revisions : v.id = cal[c].revision /\ v.by = c
WriteConfig(c) ==
  /\ cal[c].pc = "write"
  /\ config' = [policy |-> cal[c].to, rest |-> Sections(cal[c].base)]
  /\ IF cal[c].then = "applied"
     THEN /\ Over(c, "applied")
          /\ replacedBy' = IF config = cal[c].seen /\ WroteRecord(c) THEN replacedBy \cup {<<cal[c].revision, Parse(config)>>}
                            ELSE Without(cal[c].revision)
     ELSE cal' = [cal EXCEPT ![c].pc = "restore"] /\ UNCHANGED replacedBy
  /\ UNCHANGED <<priors, revisions, monitor, handEdits, runs>>

\* rollback_managed_policy: only while the configuration still has the policy the
\* revision installed.
Matches(v) == Digest(Parse(config)) = v.expected
Rollback(c) ==
  /\ cal[c].pc \in {"idle", "done"} /\ runs < MaxRuns /\ runs' = runs + 1
  /\ \E v \in revisions, apply \in BOOLEAN :
       CASE ~Matches(v) -> Over(c, "conflict")
         [] Matches(v) /\ ~apply -> Over(c, "rollback-preview")
         [] OTHER -> cal' = [cal EXCEPT ![c] = [pc |-> "compare", base |-> config, to |-> v.previous,
                                                revision |-> v.id, then |-> "restore", seen |-> NoFile,
                                                held |-> v.held, record |-> v]]
  /\ UNCHANGED <<config, priors, revisions, monitor, handEdits, replacedBy>>
RestorePriors(c) ==
  /\ cal[c].pc = "restore"
  /\ priors' = IF cal[c].to.wPrior > 0 /\ ~EmptySnapshot(cal[c].held) THEN cal[c].held
               ELSE IF priors # NoFile THEN NoPriors ELSE priors
  /\ Over(c, "rollback-applied")
  /\ UNCHANGED <<config, revisions, monitor, handEdits, runs, replacedBy>>

\* A write that fails, or a command that is killed, leaves what it already wrote.
Abort(c) == cal[c].pc \notin {"idle", "done"} /\ Over(c, "aborted") /\ KeepFiles

HandEdit ==
  /\ handEdits < MaxHandEdits /\ handEdits' = handEdits + 1
  /\ \E p \in HandEdits : config' = [policy |-> p, rest |-> Sections(config) \cup {"hook"}]
  /\ UNCHANGED <<priors, revisions, monitor, cal, runs, replacedBy>>

(**************************** Risk monitor *********************************)

NewEpoch(alpha, order) ==
  [alpha |-> alpha, order |-> order, next |-> 1, evidence |-> 0, alarm |-> FALSE, units |-> {}]

\* MonitorLedgerState::initialize and start_new_epoch; NoFile is a refused batch.
Distinct(order) == order # <<>> /\ IsInjective(order)
Initialize(b) ==
  IF ~(b.alpha \in 1..b.total /\ Distinct(b.order)) THEN NoFile
  ELSE [status |-> "active", epoch |-> 1, total |-> b.total, spent |-> b.alpha,
        now |-> NewEpoch(b.alpha, b.order), history |-> <<>>]
Trace(m, status) == [epoch |-> m.epoch, alpha |-> m.now.alpha, status |-> status, alarm |-> m.now.alarm]
BudgetHolds(m, alpha) == m.spent + alpha <= m.total
StartNewEpoch(m, alpha, order) ==
  IF m = NoFile THEN NoFile
  ELSE IF ~(alpha > 0 /\ BudgetHolds(m, alpha) /\ Distinct(order)) THEN NoFile
  ELSE [m EXCEPT !.status = "active", !.epoch = @ + 1, !.spent = @ + alpha, !.now = NewEpoch(alpha, order),
                 !.history = IF m.status = "invalidated" THEN @ ELSE Append(@, Trace(m, m.status))]

\* observe_unit on a unit that arrives in order.
Observe(m, u) ==
  LET flagged == u.harm \/ u.unresolved
      evidence == m.now.evidence + (IF flagged THEN FLAG_STEP ELSE -1)
      alarm == m.now.alarm \/ evidence >= Threshold[m.now.alpha]
  IN  [m EXCEPT !.now = [@ EXCEPT !.evidence = evidence, !.alarm = alarm, !.next = @ + 1, !.units = @ \cup {u}],
                !.status = IF alarm THEN "alarmed" ELSE @]

\* record_unit: a changed label of a finalized unit invalidates the epoch.
RecordUnit(m, u) ==
  IF m = NoFile THEN NoFile
  ELSE LET old == {f \in m.now.units : f.id = u.id}
       IN  IF old # {}
           THEN LET f == CHOOSE f \in old : TRUE
                IN  IF u.revision < f.revision THEN NoFile
                    ELSE IF u = f THEN m
                    ELSE [m EXCEPT !.status = "invalidated", !.history = Append(@, Trace(m, "invalidated")),
                                   !.now.units = (@ \ {f}) \cup {u}]
           ELSE IF m.status = "invalidated" THEN NoFile
           ELSE IF m.now.next > Len(m.now.order) THEN NoFile
           ELSE IF m.now.order[m.now.next] # u.id THEN NoFile
           ELSE Observe(m, u)

\* run_monitor_from_bytes: every batch starts from a fresh ledger; --apply stores it.
RunBatch(b) ==
  LET first == FoldLeft(RecordUnit, Initialize(b), b.units)
  IN  FoldLeft(LAMBDA m, r : FoldLeft(RecordUnit, StartNewEpoch(m, r.alpha, r.order), r.units), first, b.restarts)
RunMonitor(c) ==
  /\ cal[c].pc \in {"idle", "done"} /\ runs < MaxRuns /\ runs' = runs + 1
  /\ \E b \in Batches, apply \in BOOLEAN :
       LET m == RunBatch(b)
       IN  CASE m = NoFile -> Over(c, "refused") /\ UNCHANGED monitor
             [] m # NoFile /\ ~apply -> Over(c, "preview") /\ UNCHANGED monitor
             [] OTHER -> /\ Over(c, "applied") /\ monitor' = m
  /\ UNCHANGED <<config, priors, revisions, handEdits, replacedBy>>

LearningNext ==
  \/ \E c \in Calibrators :
       \/ Evaluate(c) \/ Promote(c) \/ RecordRevision(c) \/ SavePriors(c) \/ CompareConfig(c) \/ WriteConfig(c)
       \/ Rollback(c) \/ RestorePriors(c) \/ RunMonitor(c) \/ Abort(c)
  \/ HandEdit

(* A rollback replaces only the policy its revision installed, and puts    *)
(* back what the apply that wrote its record really replaced, whatever     *)
(* calibrations, rollbacks and hand edits came in between; a write that    *)
(* slipped between a comparison and its rename, or a record overwritten    *)
(* while the rollback ran, excepted.                                       *)
RollbackUndoes ==
  \A c \in Calibrators :
    WriteConfig(c) /\ cal[c].then = "restore" /\ config = cal[c].seen /\ cal[c].record \in revisions =>
      \A b \in replacedBy : b[1] = cal[c].revision =>
        Digest(Parse(config)) = cal[c].record.expected /\ config'.policy = b[2]

(* The alpha of every epoch a monitor ever opened, the ones a correction   *)
(* invalidated included, adds up to what it has spent and never passes its *)
(* total; an epoch is counted once however many corrections reach it.      *)
AlphaAccounted ==
  monitor # NoFile =>
    LET opened == {<<monitor.history[i].epoch, monitor.history[i].alpha>> : i \in DOMAIN monitor.history}
                    \cup {<<monitor.epoch, monitor.now.alpha>>}
    IN  /\ FoldSet(LAMBDA e, n : n + e[2], 0, opened) = monitor.spent
        /\ monitor.spent <= monitor.total
=============================================================================
