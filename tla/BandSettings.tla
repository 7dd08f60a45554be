---------------------------- MODULE BandSettings ----------------------------
(***************************************************************************)
(* The settings of the bands on their way from the operator to the          *)
(* generator: the model that the windows show, the committed settings of    *)
(* BandConfigController, the hardware profile, and the source of the        *)
(* current mode.  A preview changes the model alone; a recording locks the  *)
(* settings and starts the source with what the model shows; a change of    *)
(* mode replaces the source.  Everything runs in the GUI thread.            *)
(***************************************************************************)
EXTENDS Integers, FiniteSets, FiniteSetsExt

CONSTANTS
  Bands,       \* ids of the bands, all of them enabled
  Configs,     \* valid centre and width, as one value
  Thresholds,  \* valid thresholds
  Pulses,      \* period and width of a pulse: <<period, width>>
  FirstConfig, FirstThreshold, FirstPulse,  \* makeDefaultBands
  SampleBudget \* samplesPerBatchForTarget of the 60 MB/s baseline

ASSUME BandAssumption ==
  /\ IsFiniteSet(Bands) /\ Bands # {}
  /\ FirstConfig \in Configs /\ FirstThreshold \in Thresholds /\ FirstPulse \in Pulses
  /\ Pulses \subseteq Nat \X Nat
  /\ SampleBudget \in Nat \ {0}

VARIABLES
  shown,          \* BandListModel: settings of each band
  committed,      \* m_committedStates
  locked,         \* m_editingLocked and AppState.modeChangeLocked
  recordingState, \* m_recordingState
  scanning,       \* ScanController.scanActive
  mode,           \* AppState.mode
  sourceMode,     \* m_sourceMode; no source and no control in mode Control
  profile,        \* m_hardwareProfile: bands and pulses of the next source
  generator,      \* bands and pulses the source generates with
  sourceRuns      \* the source runs

commandVars == <<recordingState, scanning, sourceRuns>>
modeVars == <<mode, sourceMode>>
hardwareVars == <<profile, generator>>
settingsVars == <<shown, committed, locked, commandVars, modeVars, hardwareVars>>

Modes == {"Test", "Combat", "Control"}
HasSource == sourceMode # "Control"

ShownConfigs == [b \in Bands |-> shown[b].config]
ShownPulses == [b \in Bands |-> shown[b].pulse]

SettingsInit ==
  /\ shown = [b \in Bands |-> [config |-> FirstConfig, threshold |-> FirstThreshold,
                               valid |-> TRUE, pulse |-> FirstPulse]]
  /\ committed = [b \in Bands |-> [config |-> FirstConfig, threshold |-> FirstThreshold]]
  /\ locked = FALSE /\ recordingState = "Idle" /\ scanning = FALSE
  /\ mode \in Modes /\ sourceMode = mode
  /\ profile = [bands |-> ShownConfigs, pulses |-> ShownPulses]
  /\ generator = profile /\ sourceRuns = FALSE

\* updateBandConfig
Show(b, config, threshold) ==
  [shown EXCEPT ![b].config = config, ![b].threshold = threshold, ![b].valid = TRUE]
Diagnose(b, valid) == [shown EXCEPT ![b].valid = valid]
Restored == [b \in Bands |-> [shown[b] EXCEPT !.config = committed[b].config,
                                              !.threshold = committed[b].threshold,
                                              !.valid = TRUE]]

-----------------------------------------------------------------------------
(* Editing.                                                                  *)

Reject(b) ==
  /\ shown' = Diagnose(b, FALSE)
  /\ UNCHANGED <<committed, locked, commandVars, modeVars, hardwareVars>>

\* configureBcoStreamSource, with the bands the model shows: a source that runs
\* refuses it
ConfigureSource(bands) ==
  IF HasSource
  THEN /\ profile' = [bands |-> bands, pulses |-> ShownPulses]
       /\ generator' = IF sourceRuns THEN generator ELSE [generator EXCEPT !.bands = bands]
  ELSE UNCHANGED hardwareVars

ApplyBandSettings(b, config, threshold, accepted) ==
  /\ ~locked
  /\ accepted \/ HasSource
  /\ IF accepted
     THEN /\ shown' = Show(b, config, threshold)
          /\ committed' = [committed EXCEPT ![b] = [config |-> config,
                                                    threshold |-> threshold]]
          /\ ConfigureSource([ShownConfigs EXCEPT ![b] = config])
     ELSE /\ shown' = [Show(b, committed[b].config, committed[b].threshold)
                         EXCEPT ![b].valid = FALSE]
          /\ UNCHANGED <<committed, hardwareVars>>
  /\ UNCHANGED <<locked, commandVars, modeVars>>

PreviewBandSettings(b, config) ==
  /\ ~locked
  /\ shown' = Show(b, config, shown[b].threshold)
  /\ UNCHANGED <<committed, locked, commandVars, modeVars, hardwareVars>>

\* Settings that no validation passes, and any apply of bands or pulses while locked
RejectSettings(b) == Reject(b)

CancelBandSettingsPreview(b) ==
  /\ shown' = Show(b, committed[b].config, committed[b].threshold)
  /\ UNCHANGED <<committed, locked, commandVars, modeVars, hardwareVars>>

SetBandThresholdPreview(b, threshold) ==
  /\ ~locked
  /\ shown' = [shown EXCEPT ![b].threshold = threshold, ![b].valid = TRUE]
  /\ UNCHANGED <<committed, locked, commandVars, modeVars, hardwareVars>>

\* generatorPulseSettingsWithinBaselineBudget: the first bands get the slots left over
Ceil(n, d) == (n + d - 1) \div d
Load(pulses) ==
  LET slot(b) == Cardinality({a \in Bands : a < b})
      slots(b) == SampleBudget \div Cardinality(Bands)
                  + (IF slot(b) < SampleBudget % Cardinality(Bands) THEN 1 ELSE 0)
  IN MapThenSumSet(LAMBDA b : 2 * Ceil(slots(b) * pulses[b][2], pulses[b][1]), Bands)

\* The bands start with pulses of a tenth of their period, far below the baseline.
ASSUME DefaultsWithinBudget == Load([b \in Bands |-> FirstPulse]) <= SampleBudget

\* Variant: the band's load is taken with the settings it still has.
WithinBudgetOfShown(b, pulse) == Load(ShownPulses) <= SampleBudget
WithinBudget(b, pulse) == Load([ShownPulses EXCEPT ![b] = pulse]) <= SampleBudget

ApplyGeneratorPulseSettings(b, pulse) ==
  /\ ~locked
  /\ pulse[2] > 0 /\ pulse[2] < pulse[1]
  /\ WithinBudget(b, pulse)
  /\ shown' = [shown EXCEPT ![b].pulse = pulse, ![b].valid = TRUE]
  /\ profile' = [profile EXCEPT !.pulses = [ShownPulses EXCEPT ![b] = pulse]]
  /\ generator' = IF HasSource THEN [generator EXCEPT !.pulses = profile'.pulses] ELSE generator
  /\ UNCHANGED <<committed, locked, commandVars, modeVars>>

-----------------------------------------------------------------------------
(* Recording.                                                                *)

\* Variant: the bands are read before the previews are taken back.
CommandBandsPreviewed == ShownConfigs
CommandBands == [b \in Bands |-> Restored[b].config]

CanStart == HasSource /\ recordingState # "Active"

\* startProcessing of the simulator's control keeps the command in the profile
CommandSource ==
  /\ generator' = [generator EXCEPT !.bands = CommandBands]
  /\ profile' = IF sourceMode = "Test" THEN [profile EXCEPT !.bands = CommandBands]
                ELSE profile

StartRecordingCommand ==
  /\ CanStart
  /\ shown' = Restored
  /\ locked' = TRUE /\ recordingState' = "Active" /\ sourceRuns' = TRUE
  /\ CommandSource
  /\ UNCHANGED <<committed, scanning, modeVars>>

\* The control refuses, or the source does once it has been configured:
\* cleanupAfterFailedStart
FailToStart(configured) ==
  /\ CanStart
  /\ shown' = Restored
  /\ locked' = FALSE /\ recordingState' = "Failed" /\ sourceRuns' = FALSE
  /\ IF configured THEN CommandSource ELSE UNCHANGED hardwareVars
  /\ UNCHANGED <<committed, scanning, modeVars>>

EndRecording(stopped) ==
  /\ recordingState = "Active"
  /\ sourceRuns' = FALSE /\ locked' = FALSE
  /\ recordingState' = IF stopped THEN "Idle" ELSE "Failed"
  /\ UNCHANGED <<shown, committed, scanning, modeVars, hardwareVars>>

BeginOrEndScan ==
  /\ scanning' = ~scanning
  /\ UNCHANGED <<shown, committed, locked, recordingState, sourceRuns, modeVars, hardwareVars>>

-----------------------------------------------------------------------------
(* Modes.                                                                    *)

Busy == sourceRuns \/ scanning \/ locked

\* A source of the new mode takes the place of the old one
Select(m) ==
  /\ mode' = m /\ sourceMode' = m
  /\ profile' = [bands |-> ShownConfigs, pulses |-> ShownPulses]
  /\ generator' = profile'

\* Variant: the mode that was refused stays.
KeepMode(m) == mode' = m /\ UNCHANGED sourceMode
RevertMode(m) == UNCHANGED modeVars

\* setMode; a switch that is refused sets the mode back, which selects a source
\* of the old mode anew, if it can be created, unless the application is busy
SetMode(m, created) ==
  /\ ~locked /\ m # mode
  /\ IF ~Busy /\ (created \/ m = "Control")
     THEN Select(m)
     ELSE /\ RevertMode(m)
          /\ IF Busy THEN UNCHANGED hardwareVars
             ELSE /\ profile' = [bands |-> ShownConfigs, pulses |-> ShownPulses]
                  /\ generator' \in {profile', generator}
  /\ UNCHANGED <<shown, committed, locked, commandVars>>

SettingsNext ==
  \/ \E b \in Bands :
       \/ \E c \in Configs : \/ PreviewBandSettings(b, c)
                             \/ \E t \in Thresholds, ok \in BOOLEAN :
                                  ApplyBandSettings(b, c, t, ok)
       \/ \E t \in Thresholds : SetBandThresholdPreview(b, t)
       \/ \E p \in Pulses : ApplyGeneratorPulseSettings(b, p)
       \/ RejectSettings(b) \/ CancelBandSettingsPreview(b)
  \/ StartRecordingCommand \/ BeginOrEndScan
  \/ \E ok \in BOOLEAN : FailToStart(ok) \/ EndRecording(ok)
  \/ \E m \in Modes, ok \in BOOLEAN : SetMode(m, ok)

SettingsSpec == SettingsInit /\ [][SettingsNext]_settingsVars

-----------------------------------------------------------------------------
(* Properties.                                                               *)

\* Settings are among those that validation lets through.
SettingsTypeOK ==
  /\ shown \in [Bands -> [config : Configs, threshold : Thresholds, valid : BOOLEAN,
                          pulse : Pulses]]
  /\ committed \in [Bands -> [config : Configs, threshold : Thresholds]]
  /\ {locked, scanning, sourceRuns} \subseteq BOOLEAN
  /\ recordingState \in {"Idle", "Active", "Failed"} /\ {mode, sourceMode} \subseteq Modes
  /\ {profile, generator} \subseteq [bands : [Bands -> Configs], pulses : [Bands -> Pulses]]

\* While a recording runs, whatever was previewed, refused by the hardware or
\* typed before it, and whatever is tried meanwhile, the source generates with
\* the settings that were committed, and the windows show those.
GeneratesWhatIsCommitted ==
  sourceRuns => \A b \in Bands : /\ generator.bands[b] = committed[b].config
                                 /\ generator.pulses[b] = shown[b].pulse
                                 /\ shown[b].config = committed[b].config
                                 /\ shown[b].threshold = committed[b].threshold

\* The mode shown is the one whose source is in use, also after a switch that
\* was refused.
ModeMatchesSource == mode = sourceMode

\* No sequence of pulse settings, each checked against what the others are at
\* the time, overloads the baseline.
LoadWithinBudget == Load(ShownPulses) <= SampleBudget /\ Load(generator.pulses) <= SampleBudget

\* BandConfigController, AcquisitionSession: the source generates what was committed, in
\* the mode shown, within the load the baseline bears.
SettingsInForce ==
  SettingsTypeOK /\ GeneratesWhatIsCommitted /\ ModeMatchesSource /\ LoadWithinBudget
=============================================================================
