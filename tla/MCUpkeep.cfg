CONSTANTS
  Writers = {w1, w2}  Scopes = {s1}  NoSession = NoSession  Skills = {k1}
  Everything = Everything  Durations = {0, 1, 2}
  MIN_SNOOZE_MS = 1  MAX_SNOOZE_MS = 2  MAX_SNOOZES = 2
  MaxClock = 2  MaxFileEdits = 1  Absent = Absent  Malformed = Malformed
  Installers = {i1, i2}  HookCommands = {sr}  Foreign = Foreign  Timeouts = {2, 3}
  Deadlines = {1, 3}  TICKS = 2
  DEFAULT_HOOK_TIMEOUT_SECS = 3  HOOK_STARTUP_RESERVE_SECS = 1
  MaxUserEdits = 1  NoSettings = NoSettings  BadFile = BadFile  NoHook = NoHook
  Operations <- MCOperations  Turns = {t1, t2}  Shapes <- MCShapes  Labels = {"useful"}
  Versions = {0, 1, 3}  TARGET_SCHEMA_VERSION = 2
  QUOTA = 5  MAINTENANCE_RESERVE = 2  MUTATION_RESERVE = 1  PRUNE_BYTES = 1
  COUNTER_MAX = 2  SETTLE = 1  RETENTION = 1  MaxNow = 1  MaxReplace = 1
  Unreported = Unreported  Unattributed = Unattributed
  Calibrators = {c1, c2}  Artifacts <- MCArtifacts  Batches <- MCBatches
  Baseline <- MCBaseline  HandEdits <- MCHandEdits
  MIN_PHASE_CELL_JUDGED = 2  SHRINKAGE = 20  SCALE = 25  FLAG_STEP = 2
  Threshold <- MCThreshold  MaxHandEdits = 1  MaxRuns = 3  NoFile = NoFile
  OVERFLOW = 2  NoSkill = NoSkill  Missing = Missing
  GATE = 3  NEAR_GATE = 1  FIT_THRESHOLD = 4  SPARSE_BELOW = 2
  Inputs <- MCInputs  LabelFiles <- MCLabels  Options <- MCOptions
  Answers <- MCAnswers  LocalAnswers <- MCLocal  ATTEMPTS_PER_CASE = 2
  CurrentRoster = {1, 2}  RUNTIME = 1  MaxEdits = 1  MaxHours = 1
SPECIFICATION UpkeepSpec
SYMMETRY Symmetries
INVARIANTS SettingsHold  ConsentHolds FiguresAgree
PROPERTIES EditsStand
CHECK_DEADLOCK FALSE
