------------------------------ MODULE MCUpkeep ------------------------------
(* The commands around the ranking.  They share no state, so `part' names  *)
(* the one that runs, and the others stay as they began.                   *)
EXTENDS UserCommands

VARIABLE part

upkeepVars == <<part, commandVars>>

\* Two commands beside two hooks: one keeps the ledger, the other reports.
MCOperations == <<{"init", "migrate", "prune", "clear", "status"}, {"stats"}>>
MCShapes ==
  {[decision |-> "ranked", exposure |-> "emitted", unfinished |-> FALSE, elapsed |-> 2,
    attempts |-> <<[status |-> "completed", tokens |-> 1]>>, skills |-> <<1, 2>>],
   [decision |-> "unavailable", exposure |-> "generated", unfinished |-> TRUE, elapsed |-> 0,
    attempts |-> <<>>, skills |-> <<>>]}

\* Calibration: policies, and artifacts that promote, refuse or do not qualify.
Pol(g, f, p, x) == [gate |-> g, fit |-> f, wFit |-> 1, wPrior |-> p, fine |-> x]
MCBaseline == Pol(1, 1, 0, 0)
MCHandEdits == {Pol(1, 2, 0, 0), Pol(1, 1, 1, 1)}
Cand(k) == [skill |-> k, hash |-> 0, prob |-> 3, fit |-> 1, eligible |-> TRUE]
JudgedSample(id, split, at, good, cands) ==
  [id |-> id, family |-> id, split |-> split, at |-> at, acceptable |-> good, near |-> good = {},
   gate |-> 1, none |-> 1, stage2 |-> TRUE, down |-> FALSE, phase |-> 0, cands |-> cands]
GradeOf(e, useful) ==
  [event |-> e, skill |-> 2, hash |-> 0, version |-> 1, phase |-> 0, useful |-> useful,
   source |-> "independent_judgment", at |-> 0]
ArtifactOf(n, policies, judgments) ==
  LET pair(id, split, at) == <<JudgedSample(id, split, at, {2}, <<Cand(1), Cand(2)>>),
                               JudgedSample(id + 1, split, at, {}, <<Cand(1)>>)>>
  IN  [name |-> n, unfinished |-> 0, minimum |-> 2, version |-> 1,
       policies |-> policies, judgments |-> judgments,
       cases |-> pair(1, "training", 1) \o pair(3, "validation", 2) \o pair(5, "holdout", 3)]
MCArtifacts ==
  {ArtifactOf(1, <<Pol(1, 1, 1, 0)>>, <<GradeOf(1, TRUE), GradeOf(2, TRUE), GradeOf(2, FALSE)>>),
   ArtifactOf(2, <<Pol(1, 2, 0, 0)>>, <<>>),
   [ArtifactOf(3, <<>>, <<>>) EXCEPT !.unfinished = 1],
   [ArtifactOf(4, <<>>, <<>>) EXCEPT !.cases[3].family = 1]}

\* Monitor batches: quiet, harmful, corrected and restarted, too many restarts,
\* and one out of its planned order.
UnitOf(i, r, h) == [id |-> i, revision |-> r, harm |-> h, unresolved |-> FALSE]
BatchOf(units, restarts) ==
  [total |-> 2, alpha |-> 1, order |-> <<1, 2>>, units |-> units, restarts |-> restarts]
RestartAt(unit, units) == [alpha |-> 1, order |-> <<unit>>, units |-> units]
HarmfulUnits == <<UnitOf(1, 0, TRUE), UnitOf(2, 0, TRUE)>>
MCBatches ==
  {BatchOf(<<UnitOf(1, 0, FALSE)>>, <<>>), BatchOf(HarmfulUnits, <<>>),
   BatchOf(HarmfulUnits \o <<UnitOf(1, 1, FALSE), UnitOf(2, 1, FALSE)>>, <<RestartAt(3, <<UnitOf(3, 0, FALSE)>>)>>),
   BatchOf(HarmfulUnits, <<RestartAt(3, <<>>), RestartAt(4, <<>>)>>),
   BatchOf(<<UnitOf(2, 0, TRUE)>>, <<>>)}
MCThreshold == [alpha \in 1 .. 2 |-> 3]

\* Evaluation: case files, label files, command lines and answers.
SavedCase(c, full, last, text) ==
  [key |-> [case |-> c, family |-> c, replicate |-> 1, policy |-> 1], split |-> "test",
   full |-> full, latest |-> last, text |-> text,
   recorded |-> IF c = 1 THEN [decision |-> "unavailable", skills |-> <<>>, failed |-> TRUE]
                ELSE [decision |-> "ranked", skills |-> <<1>>, failed |-> FALSE]]
MCInputs == {{SavedCase(1, "asks", "none", TRUE), SavedCase(2, "later", "asks", FALSE)},
             {SavedCase(1, "asks", "local", FALSE), SavedCase(3, "local", "none", TRUE)}}
LabelOf(c, revision, good) ==
  [case |-> c, revision |-> revision, acceptable |-> good, directive |-> NoSkill, none |-> good = {}]
MCLabels == {{LabelOf(1, 1, {1}), LabelOf(2, 1, {2}), LabelOf(3, 1, {9})},
             {LabelOf(1, 1, {2}), LabelOf(1, 2, {1}), LabelOf(2, 1, {}), LabelOf(3, 1, {2})},
             {LabelOf(1, 1, {1}), LabelOf(1, 1, {2})}}
CommandLine(live, max, robust, chosen) ==
  [live |-> live, consent |-> TRUE, credential |-> TRUE, maxRequests |-> max, robust |-> robust,
   manifest |-> FALSE, sample |-> chosen, readable |-> TRUE,
   expanded |-> IF robust THEN [baseKept |-> TRUE, added |-> 1, partial |-> FALSE,
                                lookalike |-> TRUE, repeats |-> TRUE] ELSE Missing]
MCOptions == {CommandLine(TRUE, 4, FALSE, Missing), CommandLine(TRUE, 5, TRUE, [size |-> 1, seeded |-> TRUE]),
              CommandLine(TRUE, 2, FALSE, [size |-> 1, seeded |-> FALSE]),
              CommandLine(FALSE, 0, FALSE, [size |-> 2, seeded |-> TRUE]),
              [CommandLine(TRUE, 4, FALSE, Missing) EXCEPT !.consent = FALSE]}
EvidenceOf(wide, rerank, lexical) ==
  [lexical |-> lexical, wide |-> wide, rerank |-> rerank, admitted |-> {1, 2}, quill |-> FALSE]
MCAnswers ==
  {[decision |-> "ranked", skills |-> <<1>>, kind |-> "none",
    evidence |-> EvidenceOf([low |-> FALSE, shortlist |-> <<1, 2>>, need |-> 6],
                          {[id |-> 1, choice |-> 2, fit |-> 5], [id |-> 2, choice |-> 3, fit |-> 2]}, <<2>>)],
   [decision |-> "abstain", skills |-> <<>>, kind |-> "none",
    evidence |-> EvidenceOf([low |-> TRUE, shortlist |-> <<1>>, need |-> 2], Missing, <<>>)],
   [decision |-> "unavailable", skills |-> <<>>, kind |-> "authentication",
    evidence |-> EvidenceOf(Missing, Missing, Missing)]}
MCLocal == {[decision |-> "abstain", skills |-> <<>>, evidence |-> EvidenceOf(Missing, Missing, <<>>)]}

UpkeepInit ==
  /\ part \in {"snoozes", "settings", "ledger", "calibration", "evaluation"}
  /\ CommandInit
  /\ part # "snoozes" => clock = 0
  /\ part # "settings" => settings = NoSettings /\ deadline = CHOOSE d \in Deadlines : TRUE
  /\ part # "calibration" => config = NoFile
  /\ part # "ledger" => store = NoStore
  /\ part # "evaluation" =>
       <<cases, labels, options>> = CHOOSE x \in Inputs \X LabelFiles \X Options : TRUE

\* The ledger is followed up to the first report, and up to a command that died
\* between the counters.  A database is moved away while a command has it open
\* and one hook has entered, and then no turn is judged.
Followed == report = NoReport /\ ("stopped" \in harm => replaced > 0)
Moved ==
  replaced' > 0 =>
    /\ \E c \in Commands : cmds[c].pc # "idle"
    /\ \E t \in Turns : hooks'[t].pc = "none"
    /\ store' # NoStore => store'.labels = {} /\ store'.loads = {}

UpkeepNext ==
  /\ UNCHANGED part
  /\ \/ part = "snoozes" /\ SnoozeStep
     \/ part = "settings" /\ InstallerStep
     \/ part = "ledger" /\ Followed /\ MaintenanceStep /\ Moved
     \/ part = "calibration" /\ LearningStep
     \/ part = "evaluation" /\ LiveStep

UpkeepSpec == UpkeepInit /\ [][UpkeepNext]_upkeepVars

Symmetries == Permutations(Writers) \cup Permutations(Installers)
              \cup Permutations(Turns) \cup Permutations(Calibrators)
=============================================================================
