---------------------------- MODULE LiveEvaluation ----------------------------
(***************************************************************************)
(* `sr eval` on a labelled frame (eval_live_command and its callbacks in   *)
(* src/cli.rs, execute_live_frame_variants in src/evaluation/batch.rs).    *)
(* A live batch selects its cases, previews every one of them and every    *)
(* roster and wire arm without the network, then ranks the admitted cases, *)
(* a latest-request-only arm of each and the robustness variants, on one   *)
(* request budget and one deadline.  A send is bound to its preview.  The  *)
(* workspace and the roster may change at any time between two steps.      *)
(*                                                                         *)
(* A case is [key, split, full, latest, text, recorded]: whether its full  *)
(* context and its latest request alone reach the provider ("asks"), are   *)
(* decided locally ("local"), or ask once the workspace changes ("later"); *)
(* "none" when it has no history; whether its request has text to vary;    *)
(* and the decision a recorded frame holds for it.  Arms stand for one     *)
(* variant kind of each class.                                             *)
(***************************************************************************)
EXTENDS Frame, TLC

CONSTANTS
  Inputs,            \* case files offered
  LabelFiles,        \* label files offered
  Options,           \* command lines offered
  Answers,           \* what a ranking that reached the provider may conclude
  LocalAnswers,      \* what a ranking decided locally may conclude
  ATTEMPTS_PER_CASE, \* limits::DEFAULT_HTTP_ATTEMPTS
  CurrentRoster,     \* the skills resolved when the command starts
  RUNTIME,           \* --max-runtime-ms
  MaxEdits, MaxHours

ASSUME BudgetAssumption == ATTEMPTS_PER_CASE \in Nat /\ \A o \in Options : o.maxRequests \in Nat

VARIABLES
  phase, cases, labels, options,
  sample,            \* the frozen manifest, or Missing
  digest,            \* the roster frozen at the start, or Missing
  todo,              \* what the current loop has left, a set of <<case, arm>>
  previews,          \* per <<case, variant>>, what its preview bound
  skipped,           \* per case never ranked, why
  executed,          \* ranked cases, in order
  ablations,         \* cases queued for, then answered by, the latest-request arm
  variants,          \* per variant kind, how its arms ended
  attempts,          \* HTTP attempts charged to the batch
  stopped,           \* why scheduling stopped, or "no"
  world, hour, edits,
  scores,
  spent,             \* HTTP attempts really made
  sends              \* wide requests really sent

liveVars == <<phase, cases, labels, options, sample, digest, todo, previews, skipped, executed,
              ablations, variants, attempts, stopped, world, hour, edits, scores, spent, sends>>

RosterArms == {"roster"}
WireArms == {"wire"}
TextArms == {"text"}
AllArms == RosterArms \cup TextArms \cup WireArms

\* The robustness arms of a run: a roster arm only with an expanded roster.
Kinds == IF options.expanded = Missing THEN AllArms \ RosterArms ELSE AllArms
NoRequest == [request |-> "none"]

(****************************** The callbacks ******************************)

CaseOf(k) == CHOOSE c \in cases : c.key = k

\* The variant a callback receives, and the context it is given.
VariantOf(arm) == IF arm \in RosterArms \cup WireArms THEN arm ELSE "main"
ContextOf(arm) == IF arm \in {"latest"} \cup TextArms THEN arm ELSE "full"

Asks(k, arm) ==
  LET shape == IF arm = "latest" THEN CaseOf(k).latest ELSE CaseOf(k).full
  IN shape = "asks" \/ (shape = "later" /\ world.tree > 0)

\* The exact wide request the pipeline would build here and now.
Request(k, arm) ==
  IF Asks(k, arm)
  THEN [request |-> "wide", case |-> k, context |-> ContextOf(arm), wire |-> VariantOf(arm), world |-> world]
  ELSE NoRequest

RosterMoved == digest # Missing /\ digest # world.roster

\* The binding of a send: its own preview when it was given the previewed
\* context, else only the frozen roster.
Binding(k, arm) ==
  LET name == <<k, VariantOf(arm)>>
  IN IF name \in DOMAIN previews /\ previews[name].context = ContextOf(arm)
     THEN previews[name] ELSE [context |-> "any", request |-> Missing]

Unpreviewed(binding, request) == binding.context # "any" /\ binding.request # request

\* preview_live_case: what the dry run bound, or a refusal.
Previews(k, arm) ==
  {[ok |-> FALSE]} \cup
  IF RosterMoved THEN {}
  ELSE {[ok |-> TRUE, context |-> ContextOf(arm), request |-> Request(k, arm)]}

Outcome(decision, skills, evidence, sent, unknown, kind) ==
  [decision |-> decision, skills |-> skills, evidence |-> evidence, sent |-> sent,
   reported |-> IF unknown THEN 0 ELSE sent, unknown |-> unknown, kind |-> kind, refused |-> FALSE]

RefusedOutcome ==
  [Outcome("unavailable", <<>>, Missing, 0, FALSE, "superseded") EXCEPT !.refused = TRUE]

\* rank_live_case and live_rank_outcome: a document reports its attempts; a
\* bare failure after candidates were admitted may have sent some.
RankOutcomes(k, arm) ==
  LET request == Request(k, arm)
      early == {Outcome("unavailable", <<>>, Missing, 0, FALSE, "timeout")}
      local == {Outcome(a.decision, a.skills, a.evidence, 0, FALSE, "none") : a \in LocalAnswers}
      answered == {Outcome(a.decision, a.skills, a.evidence, n, FALSE, a.kind) :
                     a \in Answers, n \in 1..ATTEMPTS_PER_CASE}
      bare == {Outcome("unavailable", <<>>, Missing, n, TRUE, "timeout") : n \in 0..ATTEMPTS_PER_CASE}
  IN IF RosterMoved THEN {RefusedOutcome}
     ELSE IF request = NoRequest THEN early \cup local
     ELSE IF Unpreviewed(Binding(k, arm), request) THEN {RefusedOutcome}
     ELSE early \cup answered \cup bare

(***************************** Budget and stops ****************************)

FatalKinds == {"authentication", "credential-absent", "network-denied"}

ChargedAsReported(o) == o.reported
ChargedAttempts(o) == IF o.unknown THEN Larger(o.reported, ATTEMPTS_PER_CASE) ELSE o.reported

OverBudget == attempts + ATTEMPTS_PER_CASE > options.maxRequests

\* The main loop names why it stops; the later loops only ask whether.
Stop ==
  IF stopped # "no" THEN stopped
  ELSE IF hour >= RUNTIME THEN "timeout"
  ELSE IF OverBudget THEN "request-budget" ELSE "no"

StoppedAfter(o) == IF o.kind \in FatalKinds THEN o.kind ELSE stopped

\* Charging an outcome, and (ghosts) what it really cost and disclosed.
Charge(k, arm, o) ==
  /\ attempts' = attempts + ChargedAttempts(o)
  /\ stopped' = StoppedAfter(o)
  /\ spent' = spent + o.sent
  /\ sends' = IF o.sent = 0 THEN sends
              ELSE sends \cup {[case |-> k, arm |-> arm, request |-> Request(k, arm)]}

(******************************* The command *******************************)

LiveInit ==
  /\ phase = "start"
  /\ cases \in Inputs
  /\ labels \in LabelFiles
  /\ options \in Options
  /\ sample = Missing /\ digest = Missing
  /\ todo = {} /\ previews = <<>> /\ skipped = <<>> /\ executed = <<>>
  /\ ablations = [queue |-> {}, arms |-> <<>>, skipped |-> 0]
  /\ variants = [k \in AllArms |-> [run |-> 0, notRun |-> 0, failed |-> 0, changed |-> 0, lost |-> 0, gained |-> 0]]
  /\ attempts = 0 /\ stopped = "no"
  /\ world = [tree |-> 0, roster |-> 0] /\ hour = 0 /\ edits = 0
  /\ scores = Missing
  /\ spent = 0 /\ sends = {}

SortedKeys(S) == SetToSortSeq(S, LAMBDA a, b : a.case < b.case)

OffRoster(label) == ~((label.acceptable \cup {label.directive}) \ {NoSkill} \subseteq CurrentRoster)

SkipReason(label) ==
  IF label = NoJudgment THEN "unjudged" ELSE IF OffRoster(label) THEN "off-roster" ELSE "send"

Arms == {"main"} \cup IF options.robust THEN Kinds \ TextArms ELSE {}

\* The loops take the cases in the order of their keys, and a case's arms in
\* that of their kinds.
ArmPlace == [main |-> 0, latest |-> 0, roster |-> 1, text |-> 2, wire |-> 3]
Before(t, u) ==
  \/ t[1].case < u[1].case
  \/ t[1].case = u[1].case /\ ArmPlace[t[2]] < ArmPlace[u[2]]
IsNext(t) == \A u \in todo : ~Before(u, t)

\* A map with one more entry; the ones it has stay.
Bound(f, x, value) == [y \in DOMAIN f \cup {x} |-> IF y \in DOMAIN f THEN f[y] ELSE value]

AsRecord(c) == [key |-> c.key, split |-> c.split, roster |-> 0, summary |-> "text", failed |-> FALSE]

\* Frames that select_frame may return: all of it, or a frozen sample.
Selections ==
  LET all == {AsRecord(c) : c \in cases}
  IN IF options.sample = Missing THEN {[manifest |-> Missing, keys |-> {c.key : c \in all}]}
     ELSE {[manifest |-> m, keys |-> {e.key : e \in m.selected}] : m \in FrameSamples(all, options.sample)}

\* An expanded roster keeps every baseline candidate unchanged and adds some;
\* a lookalike only adds candidates that repeat a baseline description.
ExpandedRosterValid(x) ==
  x.baseKept /\ x.added > 0 /\ ~x.partial /\ (x.lookalike => x.repeats)

\* Bounds, versions and shapes of the input files, read before any effect.
InputsReadable == options.readable

\* Flags of a live batch given to the scoring of recorded decisions.
Misused == ~options.live /\ (options.robust \/ options.maxRequests > 0)

Authorized == options.consent /\ options.credential /\ options.maxRequests > 0

Refuses ==
  \/ Misused
  \/ ~InputsReadable
  \/ options.expanded # Missing /\ ~(options.robust /\ ExpandedRosterValid(options.expanded))
  \/ ~Isolated({AsRecord(c) : c \in cases})
  \/ LabelsConflict(labels)
  \/ Selections = {}
  \/ options.live /\ ~Authorized

RefuseRun ==
  /\ phase = "start"
  /\ Refuses
  /\ phase' = "refused"
  /\ UNCHANGED <<cases, labels, options, sample, digest, todo, previews, skipped, executed, ablations,
                 variants, attempts, stopped, world, hour, edits, scores, spent, sends>>

\* Selection is frozen before anything is ranked; an unjudged case, or one
\* judged by a skill that is not in the roster, is never sent.
Select ==
  /\ phase = "start"
  /\ ~Refuses
  /\ options.live
  /\ digest' = IF options.robust \/ options.manifest THEN world.roster ELSE Missing
  /\ \E selection \in Selections :
       LET Reason(k) == SkipReason(Judgment(labels, k.case))
           pending == {k \in selection.keys : Reason(k) = "send"}
       IN /\ sample' = selection.manifest
          /\ skipped' = [k \in {x \in selection.keys : Reason(x) # "send"} |-> "not-estimable"]
          /\ todo' = pending \X Arms
  /\ phase' = "preview"
  /\ UNCHANGED <<cases, labels, options, previews, executed, ablations, variants, attempts, stopped,
                 world, hour, edits, scores, spent, sends>>

\* One preflight call.  A refused case takes its arms with it.
Preview ==
  /\ phase = "preview"
  /\ \E t \in {u \in todo : IsNext(u)} :
       LET k == t[1]
           arm == t[2]
       IN \E p \in Previews(k, arm) :
            /\ previews' = IF p.ok THEN Bound(previews, t, p) ELSE previews
            /\ skipped' = IF p.ok \/ arm # "main" THEN skipped ELSE Bound(skipped, k, "not-estimable")
            /\ todo' = IF p.ok \/ arm # "main" THEN todo \ {t} ELSE {u \in todo : u[1] # k}
  /\ UNCHANGED <<phase, cases, labels, options, sample, digest, executed, ablations, variants, attempts,
                 stopped, world, hour, edits, scores, spent, sends>>

AdmittedKeys == {k \in {c.key : c \in cases} : <<k, "main">> \in DOMAIN previews}

Freeze ==
  /\ phase = "preview"
  /\ todo = {}
  /\ phase' = "main"
  /\ todo' = AdmittedKeys \X {"main"}
  /\ UNCHANGED <<cases, labels, options, sample, digest, previews, skipped, executed, ablations,
                 variants, attempts, stopped, world, hour, edits, scores, spent, sends>>

\* A case that no longer fits, and every case after it, is unfinished.
LeaveUnfinished ==
  /\ phase = "main"
  /\ Stop # "no"
  /\ stopped' = Stop
  /\ \E t \in {u \in todo : IsNext(u)} :
       /\ skipped' = Bound(skipped, t[1], "unfinished")
       /\ todo' = todo \ {t}
  /\ UNCHANGED <<phase, cases, labels, options, sample, digest, previews, executed, ablations, variants,
                 attempts, world, hour, edits, scores, spent, sends>>

Ranked(k, o) ==
  [case |-> k, decision |-> o.decision, skills |-> o.skills, failed |-> o.decision = "unavailable",
   evidence |-> o.evidence]

RankMain ==
  /\ phase = "main"
  /\ Stop = "no"
  /\ \E t \in {u \in todo : IsNext(u)} :
       LET k == t[1]
       IN /\ \E o \in RankOutcomes(k, "main") :
               /\ Charge(k, "main", o)
               /\ skipped' = IF o.refused THEN Bound(skipped, k, "not-estimable") ELSE skipped
               /\ executed' = IF o.refused THEN executed ELSE Append(executed, Ranked(k, o))
               /\ ablations' =
                    IF /\ ~o.refused
                       /\ o.decision # "unavailable"
                       /\ Advisory(Judgment(labels, k.case))
                       /\ CaseOf(k).latest # "none"
                    THEN [ablations EXCEPT !.queue = @ \cup {<<k, "latest">>}] ELSE ablations
          /\ todo' = todo \ {t}
  /\ UNCHANGED <<phase, cases, labels, options, sample, digest, previews, variants, world, hour, edits, scores>>

EndMain ==
  /\ phase = "main"
  /\ todo = {}
  /\ phase' = "latest"
  /\ todo' = ablations.queue
  /\ UNCHANGED <<cases, labels, options, sample, digest, previews, skipped, executed, ablations, variants,
                 attempts, stopped, world, hour, edits, scores, spent, sends>>

\* The latest-request-only arms, on what budget and time remain.
RankLatest ==
  /\ phase = "latest"
  /\ \E t \in {u \in todo : IsNext(u)} :
       LET k == t[1]
       IN /\ IF Stop # "no"
             THEN /\ ablations' = [ablations EXCEPT !.skipped = @ + 1]
                  /\ UNCHANGED <<attempts, stopped, spent, sends>>
             ELSE \E o \in RankOutcomes(k, "latest") :
                    /\ Charge(k, "latest", o)
                    /\ ablations' = [ablations EXCEPT !.arms =
                                       Bound(@, k, [failed |-> o.decision = "unavailable", skills |-> o.skills])]
          /\ todo' = todo \ {t}
  /\ UNCHANGED <<phase, cases, labels, options, sample, digest, previews, skipped, executed, variants,
                 world, hour, edits, scores>>

VariantQueue ==
  LET eligible == {i \in DOMAIN executed : Advisory(Judgment(labels, executed[i].case.case)) /\ ~executed[i].failed}
  IN IF options.robust THEN {executed[i].case : i \in eligible} \X Kinds ELSE {}

EndLatest ==
  /\ phase = "latest"
  /\ todo = {}
  /\ phase' = "variants"
  /\ todo' = VariantQueue
  /\ UNCHANGED <<cases, labels, options, sample, digest, previews, skipped, executed, ablations, variants,
                 attempts, stopped, world, hour, edits, scores, spent, sends>>

\* A roster or wire arm needs its own preview, a text arm a text to vary.
ArmRuns(k, kind) ==
  /\ kind \in RosterArms \cup WireArms => <<k, kind>> \in DOMAIN previews
  /\ kind \in TextArms => CaseOf(k).text
  /\ Stop = "no"

\* An answered variant against its base: the top suggestion, and whether an
\* acceptable one was lost or gained.
Compared(score, label, base, varied) ==
  LET Hit(top) == top # NoSkill /\ AcceptableFor(label, top)
  IN [score EXCEPT !.run = @ + 1,
                   !.changed = @ + (IF base # varied THEN 1 ELSE 0),
                   !.lost = @ + (IF Hit(base) /\ ~Hit(varied) THEN 1 ELSE 0),
                   !.gained = @ + (IF ~Hit(base) /\ Hit(varied) THEN 1 ELSE 0)]

RankVariant ==
  /\ phase = "variants"
  /\ \E t \in {u \in todo : IsNext(u)} :
       LET k == t[1]
           kind == t[2]
       IN /\ IF ~ArmRuns(k, kind)
             THEN /\ variants' = [variants EXCEPT ![kind].notRun = @ + 1]
                  /\ UNCHANGED <<attempts, stopped, spent, sends>>
             ELSE \E o \in RankOutcomes(k, kind) :
                    /\ Charge(k, kind, o)
                    /\ variants' = IF o.decision = "unavailable" THEN [variants EXCEPT ![kind].failed = @ + 1]
                                   ELSE [variants EXCEPT ![kind] =
                                           Compared(@, Judgment(labels, k.case),
                                                    Top((CHOOSE r \in Range(executed) : r.case = k).skills), Top(o.skills))]
          /\ todo' = todo \ {t}
  /\ UNCHANGED <<phase, cases, labels, options, sample, digest, previews, skipped, executed, ablations,
                 world, hour, edits, scores>>

(******************************* The report ********************************)

Joined(ranked) ==
  [i \in DOMAIN ranked |-> [record |-> ranked[i], label |-> Judgment(labels, ranked[i].case.case),
                            evidence |-> ranked[i].evidence]]

StratumCases(manifest, key) ==
  IF manifest = Missing THEN 0
  ELSE LET mine == {e \in manifest.selected : e.key = key}
       IN IF mine = {} THEN 0
          ELSE Cardinality({e \in manifest.selected : \E m \in mine : e.stratum = m.stratum})

\* score_frame: ranked cases by class and loss, never-ranked ones kept in
\* the requested denominator without a loss.
ScoreFrame(ranked, manifest, comparison) ==
  LET joined == Joined(ranked)
      Loss(i) == PolicyLoss(RelevanceClass(joined[i].record, joined[i].label))
      Lossy == {i \in DOMAIN joined : Loss(i) # NoLoss}
      completed == Cardinality({i \in DOMAIN joined : i \in Lossy \/ joined[i].label # NoJudgment})
      requested == Len(ranked) + Cardinality(DOMAIN skipped)
      unfinished == Cardinality({k \in DOMAIN skipped : skipped[k] = "unfinished"})
      Queued(k, evidence) == ReviewReasons(evidence, Judgment(labels, k.case), StratumCases(manifest, k))
  IN [requested |-> requested,
      completed |-> completed,
      complete |-> completed = requested,
      attempted |-> Cardinality(Lossy),
      loss |-> MapThenSumSet(Loss, Lossy),
      unfinished |-> unfinished,
      notEstimable |-> requested - completed - unfinished,
      metrics |-> Metrics(joined),
      baselines |-> comparison,
      review |-> {k \in DOMAIN skipped \cup {ranked[i].case : i \in DOMAIN ranked} :
                    \/ k \in DOMAIN skipped /\ ~JudgedCase(labels, k.case)
                    \/ \E i \in DOMAIN ranked : ranked[i].case = k /\ Queued(k, ranked[i].evidence) # {}},
      error |-> IF completed = requested THEN "no" ELSE stopped]

Report ==
  /\ phase = "variants"
  /\ todo = {}
  /\ phase' = "done"
  /\ scores' = ScoreFrame(executed, sample, CompareBaselines(Joined(executed)))
  /\ ablations' = [ablations EXCEPT !.queue = {}]
  /\ UNCHANGED <<cases, labels, options, sample, digest, todo, previews, skipped, executed, variants,
                 attempts, stopped, world, hour, edits, spent, sends>>

\* execute_labeled_frame_evaluation: the recorded decisions of the selected
\* cases, judged without ranking anything.
ScoreRecorded ==
  /\ phase = "start"
  /\ ~Refuses
  /\ ~options.live
  /\ \E selection \in Selections :
       LET keys == SortedKeys(selection.keys)
           ranked == [i \in DOMAIN keys |-> CaseOf(keys[i]).recorded @@ [case |-> keys[i], evidence |-> Missing]]
       IN /\ sample' = selection.manifest
          /\ executed' = ranked
          /\ scores' = ScoreFrame(ranked, selection.manifest, Missing)
  /\ phase' = "done"
  /\ UNCHANGED <<cases, labels, options, digest, todo, previews, skipped, ablations, variants, attempts,
                 stopped, world, hour, edits, spent, sends>>

(****************************** Surroundings *******************************)

EditWorkspace(part) ==
  /\ phase \notin {"start", "done", "refused"}
  /\ edits < MaxEdits
  /\ edits' = edits + 1
  /\ world' = [world EXCEPT ![part] = @ + 1]
  /\ UNCHANGED <<phase, cases, labels, options, sample, digest, todo, previews, skipped, executed,
                 ablations, variants, attempts, stopped, hour, scores, spent, sends>>

PassTime ==
  /\ phase \notin {"start", "done", "refused"}
  /\ hour < MaxHours
  /\ hour' = hour + 1
  /\ UNCHANGED <<phase, cases, labels, options, sample, digest, todo, previews, skipped, executed,
                 ablations, variants, attempts, stopped, world, edits, scores, spent, sends>>

LiveNext ==
  \/ RefuseRun \/ Select \/ Preview \/ Freeze
  \/ LeaveUnfinished \/ RankMain \/ EndMain \/ RankLatest \/ EndLatest \/ RankVariant
  \/ Report \/ ScoreRecorded
  \/ \E part \in {"tree", "roster"} : EditWorkspace(part)
  \/ PassTime

(******************************* Properties ********************************)

\* The batch never makes more HTTP attempts than --max-requests, although a
\* ranking that fails without a document does not say how many it made
\* (charged_attempts, and the worst-case admission of every loop).
RequestCapHolds == spent <= options.maxRequests

\* Every wide request of a main, roster or wire arm is the one its preview
\* froze, of a case judged by skills of the roster, whatever changed in the
\* workspace or the roster since; an unbound arm still sees that roster.
SentAsPreviewed ==
  \A s \in sends :
    LET name == <<s.case, VariantOf(s.arm)>>
        label == Judgment(labels, s.case.case)
    IN /\ label # NoJudgment /\ ~OffRoster(label)
       /\ <<s.case, "main">> \in DOMAIN previews
       /\ ContextOf(s.arm) = "full" => name \in DOMAIN previews /\ previews[name].request = s.request
       /\ digest # Missing => s.request.world.roster = digest

\* Every selected case is reported once, ranked or skipped; every baseline is
\* scored on the same cases; and when no case left that cohort, the blend's
\* loss is the loss of the main report (score_frame, compare_baselines and
\* score_picks classify the same decisions along different lines); both arms of
\* the context ablation are of the same cases, and its full-context arm loses
\* what the report lost on them.
ReportsAgree ==
  phase = "done" =>
    /\ {executed[i].case : i \in DOMAIN executed} \cap DOMAIN skipped = {}
    /\ scores.requested = IF sample = Missing THEN Cardinality(cases) ELSE Cardinality(sample.selected)
    /\ scores.complete => scores.unfinished = 0 /\ scores.notEstimable = 0
    /\ options.live =>
         LET b == scores.baselines
         IN /\ \A p \in Policies : b.policies[p].evaluated = b.shared
            /\ b.complete /\ b.explicitExcluded = 0 =>
                 /\ scores.loss = b.policies["blend"].totalLoss
                 /\ scores.attempted = b.shared
    /\ options.live =>
         LET joined == Joined(executed)
             arms == ContextAblation(joined, ablations.arms)
             Loss(i) == PolicyLoss(RelevanceClass(joined[i].record, joined[i].label))
             paired == {i \in DOMAIN joined : /\ Advisory(joined[i].label)
                                              /\ joined[i].record.case \in DOMAIN ablations.arms}
         IN /\ arms.recent.evaluated = arms.cases /\ arms.latest.evaluated = arms.cases
            /\ arms.recent.totalLoss = MapThenSumSet(Loss, paired)
=============================================================================
