---------------------------- MODULE UserCommands ----------------------------
(***************************************************************************)
(* The commands a user runs beside the ranking: snoozes, the hook          *)
(* installer, the upkeep of the ledger, calibration and live evaluation.   *)
(* They share no state, and any of them may take a step at any time.       *)
(***************************************************************************)
EXTENDS Snooze, Installer, Maintenance, Learning, LiveEvaluation

commandVars == <<snoozeVars, installerVars, maintenanceVars, learningVars, liveVars>>

CommandInit == SnoozeInit /\ InstallerInit /\ MaintenanceInit /\ LearningInit /\ LiveInit

\* A step of one of them leaves the others where they are.
SnoozeStep == SnoozeNext /\ UNCHANGED <<installerVars, maintenanceVars, learningVars, liveVars>>
InstallerStep == InstallerNext /\ UNCHANGED <<snoozeVars, maintenanceVars, learningVars, liveVars>>
MaintenanceStep == MaintenanceNext /\ UNCHANGED <<snoozeVars, installerVars, learningVars, liveVars>>
LearningStep == LearningNext /\ UNCHANGED <<snoozeVars, installerVars, maintenanceVars, liveVars>>
LiveStep == LiveNext /\ UNCHANGED <<snoozeVars, installerVars, maintenanceVars, learningVars>>

CommandNext == SnoozeStep \/ InstallerStep \/ MaintenanceStep \/ LearningStep \/ LiveStep

CommandSpec == CommandInit /\ [][CommandNext]_commandVars

-----------------------------------------------------------------------------
\* What a command set keeps its effect: a snooze mutes until it runs out or is
\* replaced (snooze.rs), and a hook that reads the entry it was started from stops
\* by itself before the harness kills it (installer.rs).
SettingsHold == SnoozeHolds /\ HookOutlived

\* What a command writes into a file it shares with its user leaves the rest of
\* that file as it stood and can be undone (snooze.rs, apply; installer.rs,
\* publish; learning.rs, rollback).
EditsStand == [][RenameLosesNothing /\ OnlyTheManagedEntry /\ RollbackUndoes]_commandVars

\* The upkeep of the ledger invents no lost hook, and recording leaves room for the
\* next prune (hook_entries.rs; ledger.rs, recording_capacity).
CountsAreReal == UnrecordedIsReal /\ MaintenanceAdmitted

\* A live evaluation sends no more often than it was told to, of previewed cases
\* only, and in its main, roster and wire arms nothing but the request that the
\* preview froze; the requests of the other arms are bound to the frozen roster
\* alone (batch.rs, execute_live_frame_variants; cli.rs, eval_live_command).
ConsentHolds == RequestCapHolds /\ SentAsPreviewed

\* Figures that are computed along different lines agree: those of a stats report
\* (ledger.rs), the alpha of a monitor's epochs (learning.rs), and the losses of an
\* evaluation and its baselines (batch.rs, evaluation.rs).
FiguresAgree == StatsAgree /\ AlphaAccounted /\ ReportsAgree
=============================================================================
