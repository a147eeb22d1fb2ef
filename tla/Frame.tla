-------------------------------- MODULE Frame --------------------------------
(***************************************************************************)
(* Judging a frame of ranked cases (src/evaluation.rs, the scoring half of *)
(* src/evaluation/batch.rs, src/evaluation/review.rs): label revisions,    *)
(* the join of cases and labels, the 0/1/2 loss, the aggregate metrics,    *)
(* the baseline policies scored on a shared cohort, and the review queue.  *)
(*                                                                         *)
(* Skills are numbers ordered like their IDs, scores small integers.  A    *)
(* label has the case it judges, a revision, the acceptable skills, an     *)
(* explicit directive or NoSkill, and whether no skill is needed.  Stage   *)
(* evidence has the lexical hits, the wide answer and the rerank answer,   *)
(* each possibly Missing.  A rate is a pair of counts.                     *)
(***************************************************************************)
EXTENDS Sampling, SequencesExt

CONSTANTS NoSkill, Missing, GATE, NEAR_GATE, FIT_THRESHOLD, SPARSE_BELOW

(********************************* Labels **********************************)

\* Two labels of one case and revision that differ refuse the whole file.
LabelsConflict(labels) ==
  \E l, m \in labels : l.case = m.case /\ l.revision = m.revision /\ l # m

NoJudgment == [case |-> 0]

\* The highest revision judges the case.
Judgment(labels, case) ==
  LET mine == {l \in labels : l.case = case}
  IN IF mine = {} THEN NoJudgment ELSE CHOOSE l \in mine : \A m \in mine : m.revision <= l.revision

JudgedCase(labels, case) == Judgment(labels, case) # NoJudgment
Advisory(label) == label # NoJudgment /\ label.directive = NoSkill

AcceptableFor(label, id) == ~label.none /\ id \in label.acceptable
PositiveCase(label) == ~label.none /\ label.acceptable # {}

(***************************** Classification ******************************)

Top(skills) == IF skills = <<>> THEN NoSkill ELSE skills[1]

\* classify_relevance over a record [decision, skills, failed].
ClassifyRelevance(r, label) ==
  LET top == Top(r.skills)
  IN IF r.failed THEN "operational-failure"
     ELSE IF label.directive # NoSkill
     THEN IF top = label.directive \/ (r.decision = "explicit" /\ label.directive \in Range(r.skills))
          THEN "explicit-match" ELSE "explicit-mismatch"
     ELSE IF ~PositiveCase(label) THEN IF top # NoSkill THEN "needless" ELSE "true-abstain"
     ELSE IF top \in label.acceptable THEN "true-positive"
     ELSE IF r.decision = "abstain" THEN "false-abstain"
     ELSE "false-positive"

\* join_evaluation_frame: an unmatched case is kept, and only a failure of
\* it has a class of its own.
RelevanceClass(r, label) ==
  IF label # NoJudgment THEN ClassifyRelevance(r, label)
  ELSE IF r.failed THEN "operational-failure" ELSE "unjudged"

NoLoss == -1
PolicyLoss(class) ==
  IF class \in {"true-positive", "true-abstain"} THEN 0
  ELSE IF class = "false-abstain" THEN 1
  ELSE IF class \in {"false-positive", "needless", "operational-failure"} THEN 2
  ELSE NoLoss

(********************************* Metrics *********************************)

\* compute_metrics over a sequence of [record, label] pairs.
Metrics(joined) ==
  LET Class(i) == RelevanceClass(joined[i].record, joined[i].label)
      Of(classes) == Cardinality({i \in DOMAIN joined : /\ joined[i].label # NoJudgment
                                                        /\ ~joined[i].record.failed
                                                        /\ Class(i) \in classes})
      positive == Of({"true-positive", "false-positive", "false-abstain"})
      noMatch == Of({"needless", "true-abstain"})
  IN [total |-> Len(joined),
      unjudged |-> Cardinality({i \in DOMAIN joined : joined[i].label = NoJudgment}),
      failures |-> Cardinality({i \in DOMAIN joined : joined[i].record.failed}),
      explicit |-> Of({"explicit-match", "explicit-mismatch"}),
      top1Precision |-> <<Of({"true-positive"}), Of({"true-positive", "false-positive", "needless"})>>,
      positiveRate |-> <<Of({"true-positive"}), positive>>,
      needlessRate |-> <<Of({"needless"}), noMatch>>,
      falseAbstentionRate |-> <<Of({"false-abstain"}), positive>>]

(**************************** Baseline policies ****************************)

Unscorable == -1

BestBy(score, S) ==
  IF S = {} THEN NoSkill
  ELSE (CHOOSE c \in S : \A d \in S : d[score] < c[score] \/ (d[score] = c[score] /\ c.id <= d.id)).id

QuillOnly(e) == IF e.lexical = Missing THEN Unscorable ELSE Top(e.lexical)

ChoiceOnly(e) ==
  IF e.wide = Missing THEN Unscorable
  ELSE IF e.wide.low THEN NoSkill ELSE Top(e.wide.shortlist)

FitOnly(e) ==
  IF e.wide = Missing THEN Unscorable
  ELSE IF e.rerank = Missing THEN IF e.wide.low THEN NoSkill ELSE Unscorable
  ELSE BestBy("fit", {c \in e.rerank : c.fit >= FIT_THRESHOLD})

CookbookApprox(e) ==
  LET three == Range(SubSeq(e.wide.shortlist, 1, Smaller(3, Len(e.wide.shortlist))))
      finalists == {c \in e.rerank : c.id \in three}
  IN IF e.wide = Missing THEN Unscorable
     ELSE IF e.wide.low THEN NoSkill
     ELSE IF e.rerank = Missing THEN Unscorable
     ELSE IF \A c \in finalists : c.fit < FIT_THRESHOLD THEN NoSkill
     ELSE BestBy("choice", finalists)

Policies == {"quill-only", "choice-only", "fit-only", "cookbook-approx", "blend"}

PolicyPick(policy, e, r) ==
  CASE policy = "quill-only" -> QuillOnly(e)
    [] policy = "choice-only" -> ChoiceOnly(e)
    [] policy = "fit-only" -> FitOnly(e)
    [] policy = "cookbook-approx" -> CookbookApprox(e)
    [] policy = "blend" -> Top(r.skills)

\* score_picks: picks are a sequence of [label, top, failed]; an unscorable
\* pick is not evaluated, a failure stays in the cohort at loss 2.
ScorePicks(picks) ==
  LET Evaluated == {i \in DOMAIN picks : picks[i].failed \/ picks[i].top # Unscorable}
      Answered == {i \in Evaluated : ~picks[i].failed}
      Positive == {i \in Evaluated : PositiveCase(picks[i].label)}
      Hit(i) == picks[i].top # NoSkill /\ AcceptableFor(picks[i].label, picks[i].top)
      Emitted == {i \in Answered : picks[i].top # NoSkill}
      Loss(i) == IF i \notin Answered THEN 2
                 ELSE IF i \notin Positive THEN IF i \in Emitted THEN 2 ELSE 0
                 ELSE IF Hit(i) THEN 0 ELSE IF i \in Emitted THEN 2 ELSE 1
  IN [evaluated |-> Cardinality(Evaluated),
      notEvaluated |-> Len(picks) - Cardinality(Evaluated),
      failures |-> Cardinality(Evaluated \ Answered),
      top1Precision |-> <<Cardinality({i \in Emitted : Hit(i)}), Cardinality(Emitted)>>,
      positiveRate |-> <<Cardinality({i \in Positive \cap Answered : Hit(i)}), Cardinality(Positive)>>,
      needlessRate |-> <<Cardinality(Emitted \ Positive), Cardinality(Evaluated \ Positive)>>,
      falseAbstentionRate |-> <<Cardinality((Answered \cap Positive) \ Emitted), Cardinality(Positive)>>,
      totalLoss |-> MapThenSumSet(Loss, Evaluated)]

Scorable(policy, e, r) == \A p \in Policies : PolicyPick(p, e, r) # Unscorable

\* compare_baselines: advisory cases only; a case some policy cannot score
\* leaves every policy's cohort, and failures stay in all of them.
CompareBaselines(joined) ==
  LET advisory == SelectSeq(joined, LAMBDA j : Advisory(j.label))
      failed == SelectSeq(advisory, LAMBDA j : j.record.failed)
      cohort == SelectSeq(advisory, LAMBDA j : ~j.record.failed /\ j.evidence # Missing)
      Pick(policy, j) ==
        [label |-> j.label, failed |-> FALSE,
         top |-> IF Scorable(policy, j.evidence, j.record) THEN PolicyPick(policy, j.evidence, j.record)
                 ELSE Unscorable]
      Picks(policy) == [i \in DOMAIN cohort |-> Pick(policy, cohort[i])]
                       \o [i \in DOMAIN failed |-> [label |-> failed[i].label, failed |-> TRUE, top |-> NoSkill]]
      unscorable == Cardinality({i \in DOMAIN cohort : ~Scorable("blend", cohort[i].evidence, cohort[i].record)})
      withoutEvidence == Len(advisory) - Len(failed) - Len(cohort)
  IN [explicitExcluded |-> Cardinality({i \in DOMAIN joined : joined[i].label # NoJudgment /\ ~Advisory(joined[i].label)}),
      withoutEvidence |-> withoutEvidence,
      unscorable |-> unscorable,
      shared |-> Len(cohort) - unscorable + Len(failed),
      complete |-> unscorable = 0 /\ withoutEvidence = 0,
      policies |-> [p \in Policies |-> ScorePicks(Picks(p))]]

\* context_ablation: the same advisory cases under both contexts; a failed
\* second arm keeps its case at loss 2.
ContextAblation(joined, arms) ==
  LET pairs == SelectSeq(joined, LAMBDA j : Advisory(j.label) /\ j.record.case \in DOMAIN arms)
      Arm(second) ==
        [i \in DOMAIN pairs |->
           LET arm == arms[pairs[i].record.case]
           IN [label |-> pairs[i].label, failed |-> second /\ arm.failed,
               top |-> IF second THEN Top(arm.skills) ELSE Top(pairs[i].record.skills)]]
  IN [cases |-> Len(pairs), recent |-> ScorePicks(Arm(FALSE)), latest |-> ScorePicks(Arm(TRUE))]

(****************************** Review queue *******************************)

NearGate(e) == e.wide # Missing /\ e.wide.need - GATE <= NEAR_GATE /\ GATE - e.wide.need <= NEAR_GATE

StageDisagreement(e) ==
  /\ e.wide # Missing
  /\ e.rerank # Missing
  /\ e.wide.shortlist # <<>>
  /\ e.rerank # {}
  /\ e.wide.shortlist[1] # BestBy("choice", e.rerank)

OverflowMiss(e, label) ==
  e.quill /\ label # NoJudgment /\ PositiveCase(label) /\ e.admitted \cap label.acceptable = {}

\* reasons_for: evidence may be missing; a stratum of 0 cases means none was
\* assigned.
ReviewReasons(evidence, label, stratumCases) ==
  {r \in {"near-gate", "stage-disagreement", "overflow-miss", "sparse-stratum", "unresolved-judgment"} :
     CASE r = "near-gate" -> evidence # Missing /\ NearGate(evidence)
       [] r = "stage-disagreement" -> evidence # Missing /\ StageDisagreement(evidence)
       [] r = "overflow-miss" -> evidence # Missing /\ OverflowMiss(evidence, label)
       [] r = "sparse-stratum" -> stratumCases \in 1..(SPARSE_BELOW - 1)
       [] r = "unresolved-judgment" -> label = NoJudgment}
===============================================================================
