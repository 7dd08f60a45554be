---------------------------- MODULE WindowProofs ----------------------------
(***************************************************************************)
(* Theorems about what the windows show, for any number of bands, of        *)
(* recordings and of blocks, and any settings:                               *)
(*   - BandSettings: SettingsInForce;                                        *)
(*   - WaterfallView: ViewShowsStore;                                         *)
(*   - SnapshotDelivery: ScanReportsItsOwn.                                   *)
(***************************************************************************)
EXTENDS SnapshotDelivery, BandSettings, WaterfallView, QueueLemmas,
        SequenceTheorems, FiniteSetTheorems, WellFoundedInduction

-----------------------------------------------------------------------------
(* BandSettings.                                                             *)

Settings == [config : Configs, threshold : Thresholds, valid : BOOLEAN, pulse : Pulses]
Kept == [config : Configs, threshold : Thresholds]
Hardware == [bands : [Bands -> Configs], pulses : [Bands -> Pulses]]

Fits(pulses) == Load(pulses) <= SampleBudget

\* The windows and the source agree on the pulses as long as there is a source; the
\* settings are locked exactly while it runs.
InForce ==
  /\ ModeMatchesSource /\ GeneratesWhatIsCommitted
  /\ HasSource => generator.pulses = ShownPulses
  /\ Fits(ShownPulses) /\ Fits(generator.pulses)
  /\ locked = sourceRuns /\ (sourceRuns <=> recordingState = "Active")
  /\ sourceRuns => HasSource

SettingsInv == SettingsTypeOK /\ InForce

LEMMA SettingsShapes ==
  ASSUME SettingsTypeOK
  PROVE  /\ \A b \in Bands :
              /\ shown[b] \in Settings /\ committed[b] \in Kept
              /\ shown[b].config \in Configs /\ shown[b].threshold \in Thresholds
              /\ shown[b].valid \in BOOLEAN /\ shown[b].pulse \in Pulses
              /\ committed[b].config \in Configs /\ committed[b].threshold \in Thresholds
         /\ ShownConfigs \in [Bands -> Configs] /\ ShownPulses \in [Bands -> Pulses]
         /\ CommandBands \in [Bands -> Configs]
         /\ Restored \in [Bands -> Settings]
         /\ \A b \in Bands : /\ Restored[b].config = committed[b].config
                             /\ Restored[b].threshold = committed[b].threshold
                             /\ Restored[b].pulse = shown[b].pulse
                             /\ CommandBands[b] = committed[b].config
<1>1. shown \in [Bands -> Settings] /\ committed \in [Bands -> Kept]
  BY DEF SettingsTypeOK, Settings, Kept
<1>2. \A b \in Bands :
              /\ shown[b] \in Settings /\ committed[b] \in Kept
              /\ shown[b].config \in Configs /\ shown[b].threshold \in Thresholds
              /\ shown[b].valid \in BOOLEAN /\ shown[b].pulse \in Pulses
              /\ committed[b].config \in Configs /\ committed[b].threshold \in Thresholds
  BY <1>1 DEF Settings, Kept
<1>3. ShownConfigs \in [Bands -> Configs] /\ ShownPulses \in [Bands -> Pulses]
  BY <1>2 DEF ShownConfigs, ShownPulses
<1>4. ASSUME NEW b \in Bands
      PROVE  /\ Restored[b] \in Settings
             /\ Restored[b].config = committed[b].config
             /\ Restored[b].threshold = committed[b].threshold
             /\ Restored[b].pulse = shown[b].pulse
  <2>1. Restored[b] = [shown[b] EXCEPT !.config = committed[b].config,
                                       !.threshold = committed[b].threshold,
                                       !.valid = TRUE]
    BY DEF Restored
  <2> QED BY <2>1, <1>2 DEF Settings
<1>5. Restored \in [Bands -> Settings]
  <2>1. Restored = [b \in Bands |-> Restored[b]] BY DEF Restored
  <2> HIDE DEF Restored
  <2> QED BY <2>1, <1>4
<1>6. \A b \in Bands : CommandBands[b] = committed[b].config BY <1>4 DEF CommandBands
<1>7. CommandBands \in [Bands -> Configs]
  <2>1. CommandBands = [b \in Bands |-> CommandBands[b]] BY DEF CommandBands
  <2> HIDE DEF CommandBands
  <2> QED BY <2>1, <1>2, <1>6
<1> QED BY <1>2, <1>3, <1>4, <1>5, <1>6, <1>7

\* updateBandConfig changes one band's settings, but not its pulses.
LEMMA Shows ==
  ASSUME SettingsTypeOK, NEW b \in Bands, NEW c \in Configs, NEW h \in Thresholds
  PROVE  /\ Show(b, c, h) \in [Bands -> Settings]
         /\ Show(b, c, h)[b].config = c /\ Show(b, c, h)[b].threshold = h
         /\ \A a \in Bands : Show(b, c, h)[a].pulse = shown[a].pulse
         /\ \A a \in Bands \ {b} : Show(b, c, h)[a] = shown[a]
<1>1. shown \in [Bands -> Settings] BY DEF SettingsTypeOK, Settings
<1>2. shown[b] \in Settings BY <1>1
<1> DEFINE x == [shown[b] EXCEPT !.config = c, !.threshold = h, !.valid = TRUE]
<1>3. x \in Settings /\ x.config = c /\ x.threshold = h /\ x.pulse = shown[b].pulse
  BY <1>2 DEF Settings
<1>4. Show(b, c, h) = [shown EXCEPT ![b] = x] BY <1>1 DEF Show
<1> QED BY <1>1, <1>3, <1>4

\* Steps that leave the commands, the mode and the pulses alone.
LEMMA QuietStep ==
  ASSUME SettingsInv, shown' \in [Bands -> Settings], committed' \in [Bands -> Kept],
         UNCHANGED <<locked, recordingState, sourceRuns, modeVars>>, scanning' \in BOOLEAN,
         profile' \in Hardware, generator' \in Hardware, generator'.pulses = generator.pulses,
         \A a \in Bands : shown'[a].pulse = shown[a].pulse,
         sourceRuns => /\ generator' = generator /\ committed' = committed
                       /\ \A a \in Bands : /\ shown'[a].config = committed[a].config
                                           /\ shown'[a].threshold = committed[a].threshold
  PROVE  SettingsInv'
<1>1. SettingsTypeOK'
  BY DEF SettingsInv, SettingsTypeOK, Settings, Kept, Hardware, modeVars, Modes
<1>2. ShownPulses' = ShownPulses BY DEF ShownPulses
<1>3. GeneratesWhatIsCommitted' BY DEF SettingsInv, InForce, GeneratesWhatIsCommitted
<1>4. ModeMatchesSource' /\ HasSource' = HasSource
  BY DEF SettingsInv, InForce, ModeMatchesSource, modeVars, HasSource
<1>5. Fits(ShownPulses)' /\ Fits(generator.pulses)'
  BY <1>2 DEF SettingsInv, InForce
<1>6. InForce' BY <1>2, <1>3, <1>4, <1>5 DEF SettingsInv, InForce
<1> QED BY <1>1, <1>6 DEF SettingsInv

LEMMA SettingsStep ==
  ASSUME SettingsInv, [SettingsNext]_settingsVars
  PROVE  SettingsInv'
<1>0. /\ SettingsTypeOK /\ InForce
      /\ shown \in [Bands -> Settings] /\ committed \in [Bands -> Kept]
      /\ profile \in Hardware /\ generator \in Hardware
      /\ locked \in BOOLEAN /\ scanning \in BOOLEAN /\ sourceRuns \in BOOLEAN
      /\ mode \in Modes /\ sourceMode \in Modes
      /\ mode = sourceMode /\ locked = sourceRuns
      /\ sourceRuns <=> recordingState = "Active"
      /\ HasSource => generator.pulses = ShownPulses
  BY DEF SettingsInv, SettingsTypeOK, Settings, Kept, Hardware, InForce, ModeMatchesSource
<1>00. /\ \A b \in Bands :
            /\ shown[b] \in Settings /\ committed[b] \in Kept
            /\ shown[b].config \in Configs /\ shown[b].threshold \in Thresholds
            /\ shown[b].valid \in BOOLEAN /\ shown[b].pulse \in Pulses
            /\ committed[b].config \in Configs /\ committed[b].threshold \in Thresholds
       /\ ShownConfigs \in [Bands -> Configs] /\ ShownPulses \in [Bands -> Pulses]
       /\ CommandBands \in [Bands -> Configs] /\ Restored \in [Bands -> Settings]
  BY <1>0, SettingsShapes
<1>01. profile.bands \in [Bands -> Configs] /\ profile.pulses \in [Bands -> Pulses]
       /\ generator.bands \in [Bands -> Configs] /\ generator.pulses \in [Bands -> Pulses]
  BY <1>0 DEF Hardware
<1>02. sourceRuns => \A a \in Bands : /\ shown[a].config = committed[a].config
                                     /\ shown[a].threshold = committed[a].threshold
  BY <1>0 DEF InForce, GeneratesWhatIsCommitted
<1>1. ASSUME NEW b \in Bands, NEW c \in Configs, PreviewBandSettings(b, c) PROVE SettingsInv'
  <2>1. /\ ~locked /\ shown' = Show(b, c, shown[b].threshold)
        /\ UNCHANGED <<committed, locked, commandVars, modeVars, hardwareVars>>
    BY <1>1 DEF PreviewBandSettings
  <2>2. /\ shown' \in [Bands -> Settings]
        /\ \A a \in Bands : shown'[a].pulse = shown[a].pulse
    BY <2>1, <1>0, <1>00, Shows
  <2> QED BY <2>1, <2>2, <1>0, QuietStep DEF commandVars, hardwareVars
<1>2. ASSUME NEW b \in Bands, NEW c \in Configs, NEW h \in Thresholds, NEW ok \in BOOLEAN,
             ApplyBandSettings(b, c, h, ok)
      PROVE  SettingsInv'
  <2>1. ~locked /\ UNCHANGED <<locked, commandVars, modeVars>>
    BY <1>2 DEF ApplyBandSettings
  <2>2. CASE ok
    <3>1. /\ shown' = Show(b, c, h)
          /\ committed' = [committed EXCEPT ![b] = [config |-> c, threshold |-> h]]
          /\ ConfigureSource([ShownConfigs EXCEPT ![b] = c])
      BY <1>2, <2>2 DEF ApplyBandSettings
    <3>2. /\ shown' \in [Bands -> Settings]
          /\ \A a \in Bands : shown'[a].pulse = shown[a].pulse
      BY <3>1, <1>0, Shows
    <3>3. committed' \in [Bands -> Kept] BY <3>1, <1>0 DEF Kept
    <3>4. PICK bands \in [Bands -> Configs] : ConfigureSource(bands)
      <4>1. [ShownConfigs EXCEPT ![b] = c] \in [Bands -> Configs] BY <1>00
      <4> QED BY <4>1, <3>1
    <3>5. /\ profile' \in Hardware /\ generator' \in Hardware
          /\ generator'.pulses = generator.pulses
      <4>1. CASE HasSource
        <5>1. profile' = [bands |-> bands, pulses |-> ShownPulses]
          BY <3>4, <4>1 DEF ConfigureSource
        <5>2. generator' = generator \/ generator' = [generator EXCEPT !.bands = bands]
          BY <3>4, <4>1 DEF ConfigureSource
        <5> QED BY <5>1, <5>2, <1>0, <1>00 DEF Hardware
      <4>2. CASE ~HasSource BY <3>4, <4>2, <1>0 DEF ConfigureSource, hardwareVars
      <4> QED BY <4>1, <4>2
    <3> QED BY <2>1, <3>2, <3>3, <3>5, <1>0, QuietStep DEF commandVars
  <2>3. CASE ~ok
    <3>1. /\ shown' = [Show(b, committed[b].config, committed[b].threshold)
                           EXCEPT ![b].valid = FALSE]
          /\ UNCHANGED <<committed, hardwareVars>>
      BY <1>2, <2>3 DEF ApplyBandSettings
    <3>2. Show(b, committed[b].config, committed[b].threshold) \in [Bands -> Settings]
      BY <1>0, <1>00, Shows
    <3>3. \A a \in Bands :
            Show(b, committed[b].config, committed[b].threshold)[a].pulse = shown[a].pulse
      BY <1>0, <1>00, Shows
    <3> DEFINE x == Show(b, committed[b].config, committed[b].threshold)
    <3> HIDE DEF x
    <3>4. x \in [Bands -> Settings] /\ \A a \in Bands : x[a].pulse = shown[a].pulse
      BY <3>2, <3>3 DEF x
    <3>5. shown' = [x EXCEPT ![b] = [x[b] EXCEPT !.valid = FALSE]] BY <3>1, <3>4 DEF x
    <3>6. /\ [x[b] EXCEPT !.valid = FALSE] \in Settings
          /\ [x[b] EXCEPT !.valid = FALSE].pulse = x[b].pulse
      BY <3>4 DEF Settings
    <3>7. /\ shown' \in [Bands -> Settings]
          /\ \A a \in Bands : shown'[a].pulse = shown[a].pulse
      BY <3>4, <3>5, <3>6
    <3> QED BY <2>1, <3>1, <3>7, <1>0, QuietStep DEF commandVars, hardwareVars
  <2> QED BY <2>2, <2>3
<1>3. ASSUME NEW b \in Bands, NEW h \in Thresholds, SetBandThresholdPreview(b, h)
      PROVE  SettingsInv'
  <2>1. /\ ~locked /\ shown' = [shown EXCEPT ![b].threshold = h, ![b].valid = TRUE]
        /\ UNCHANGED <<committed, locked, commandVars, modeVars, hardwareVars>>
    BY <1>3 DEF SetBandThresholdPreview
  <2> DEFINE x == [shown[b] EXCEPT !.threshold = h, !.valid = TRUE]
  <2>2. x \in Settings /\ x.pulse = shown[b].pulse BY <1>00 DEF Settings
  <2>3. shown' = [shown EXCEPT ![b] = x] BY <2>1, <1>0
  <2>4. /\ shown' \in [Bands -> Settings]
        /\ \A a \in Bands : shown'[a].pulse = shown[a].pulse
    BY <2>2, <2>3, <1>0
  <2> QED BY <2>1, <2>4, <1>0, QuietStep DEF commandVars, hardwareVars
<1>4. ASSUME NEW b \in Bands, NEW p \in Pulses, ApplyGeneratorPulseSettings(b, p)
      PROVE  SettingsInv'
  <2> DEFINE x == [shown[b] EXCEPT !.pulse = p, !.valid = TRUE]
             next == [ShownPulses EXCEPT ![b] = p]
  <2>1. /\ ~locked /\ shown' = [shown EXCEPT ![b].pulse = p, ![b].valid = TRUE]
        /\ Fits(next)
        /\ profile' = [profile EXCEPT !.pulses = next]
        /\ generator' = IF HasSource THEN [generator EXCEPT !.pulses = profile'.pulses]
                        ELSE generator
        /\ UNCHANGED <<committed, locked, commandVars, modeVars>>
    BY <1>4 DEF ApplyGeneratorPulseSettings, WithinBudget, Fits
  <2>2. x \in Settings /\ x.pulse = p /\ x.config = shown[b].config
    BY <1>00 DEF Settings
  <2>3. shown' = [shown EXCEPT ![b] = x] BY <2>1, <1>0
  <2>4. /\ shown' \in [Bands -> Settings] /\ shown'[b].pulse = p
        /\ \A a \in Bands \ {b} : shown'[a] = shown[a]
    BY <2>2, <2>3, <1>0
  <2>5. next \in [Bands -> Pulses] BY <1>00
  <2>6. ShownPulses' = next
    <3>1. ShownPulses' = [a \in Bands |-> shown'[a].pulse] BY DEF ShownPulses
    <3>2. next = [a \in Bands |-> next[a]] BY <2>5
    <3>3. \A a \in Bands : next[a] = shown'[a].pulse
      BY <2>4, <1>00 DEF ShownPulses
    <3> QED BY <3>1, <3>2, <3>3
  <2> HIDE DEF next
  <2>7. profile' \in Hardware /\ profile'.pulses = next BY <2>1, <2>5, <1>0 DEF Hardware
  <2>8. /\ generator' \in Hardware
        /\ HasSource => generator'.pulses = next
        /\ ~HasSource => generator' = generator
    BY <2>1, <2>5, <2>7, <1>0 DEF Hardware
  <2>9. Fits(ShownPulses)' /\ Fits(generator.pulses)'
    <3>1. Fits(generator.pulses) BY <1>0 DEF InForce
    <3> QED BY <3>1, <2>1, <2>6, <2>8
  <2>10. ~sourceRuns /\ ~sourceRuns' /\ HasSource' = HasSource /\ ModeMatchesSource'
         /\ locked' = sourceRuns' /\ (sourceRuns' <=> recordingState' = "Active")
    BY <2>1, <1>0 DEF commandVars, modeVars, HasSource, ModeMatchesSource
  <2>11. InForce' BY <2>6, <2>8, <2>9, <2>10 DEF InForce, GeneratesWhatIsCommitted
  <2>12. SettingsTypeOK'
    BY <2>1, <2>4, <2>7, <2>8, <1>0
       DEF SettingsTypeOK, Settings, Kept, Hardware, commandVars, modeVars
  <2> QED BY <2>11, <2>12 DEF SettingsInv
<1>5. ASSUME NEW b \in Bands, RejectSettings(b) PROVE SettingsInv'
  <2>1. /\ shown' = [shown EXCEPT ![b].valid = FALSE]
        /\ UNCHANGED <<committed, locked, commandVars, modeVars, hardwareVars>>
    BY <1>5 DEF RejectSettings, Reject, Diagnose
  <2> DEFINE x == [shown[b] EXCEPT !.valid = FALSE]
  <2>2. /\ x \in Settings /\ x.pulse = shown[b].pulse /\ x.config = shown[b].config
        /\ x.threshold = shown[b].threshold
    BY <1>00 DEF Settings
  <2>3. shown' = [shown EXCEPT ![b] = x] BY <2>1, <1>0
  <2>4. /\ shown' \in [Bands -> Settings]
        /\ \A a \in Bands : /\ shown'[a].pulse = shown[a].pulse
                            /\ shown'[a].config = shown[a].config
                            /\ shown'[a].threshold = shown[a].threshold
    BY <2>2, <2>3, <1>0
  <2> QED BY <2>1, <2>4, <1>0, <1>02, QuietStep DEF commandVars, hardwareVars
<1>6. ASSUME NEW b \in Bands, CancelBandSettingsPreview(b) PROVE SettingsInv'
  <2>1. /\ shown' = Show(b, committed[b].config, committed[b].threshold)
        /\ UNCHANGED <<committed, locked, commandVars, modeVars, hardwareVars>>
    BY <1>6 DEF CancelBandSettingsPreview
  <2>2. /\ shown' \in [Bands -> Settings]
        /\ shown'[b].config = committed[b].config
        /\ shown'[b].threshold = committed[b].threshold
        /\ \A a \in Bands : shown'[a].pulse = shown[a].pulse
        /\ \A a \in Bands \ {b} : shown'[a] = shown[a]
    BY <2>1, <1>0, <1>00, Shows
  <2>3. sourceRuns => \A a \in Bands : /\ shown'[a].config = committed[a].config
                                      /\ shown'[a].threshold = committed[a].threshold
    BY <2>2, <1>02
  <2> QED BY <2>1, <2>2, <2>3, <1>0, QuietStep DEF commandVars, hardwareVars
<1>7. ASSUME StartRecordingCommand PROVE SettingsInv'
  <2>1. /\ HasSource /\ shown' = Restored /\ locked' = TRUE /\ recordingState' = "Active"
        /\ sourceRuns' = TRUE /\ CommandSource /\ UNCHANGED <<committed, scanning, modeVars>>
    BY <1>7 DEF StartRecordingCommand, CanStart
  <2>2. /\ generator' = [generator EXCEPT !.bands = CommandBands]
        /\ profile' = profile \/ profile' = [profile EXCEPT !.bands = CommandBands]
    BY <2>1 DEF CommandSource
  <2>3. /\ generator' \in Hardware /\ profile' \in Hardware
        /\ generator'.pulses = generator.pulses /\ generator'.bands = CommandBands
    BY <2>2, <1>0, <1>00 DEF Hardware
  <2>4. \A b \in Bands : /\ shown'[b].config = committed[b].config
                        /\ shown'[b].threshold = committed[b].threshold
                        /\ shown'[b].pulse = shown[b].pulse
                        /\ generator'.bands[b] = committed[b].config
    BY <2>1, <2>3, <1>0, SettingsShapes
  <2>5. ShownPulses' = ShownPulses BY <2>4 DEF ShownPulses
  <2>6. \A b \in Bands : generator'.pulses[b] = shown'[b].pulse
    <3>1. generator'.pulses = ShownPulses BY <2>1, <2>3, <1>0
    <3> QED BY <3>1, <2>4 DEF ShownPulses
  <2>7. GeneratesWhatIsCommitted'
    BY <2>1, <2>4, <2>6 DEF GeneratesWhatIsCommitted
  <2>8. Fits(ShownPulses)' /\ Fits(generator.pulses)' BY <2>3, <2>5, <1>0 DEF InForce
  <2>9. HasSource' /\ ModeMatchesSource'
    BY <2>1, <1>0 DEF HasSource, modeVars, ModeMatchesSource
  <2>10. InForce' BY <2>1, <2>3, <2>5, <2>7, <2>8, <2>9, <1>0 DEF InForce
  <2>11. SettingsTypeOK'
    BY <2>1, <2>3, <1>0, <1>00 DEF SettingsTypeOK, Settings, Kept, Hardware, modeVars
  <2> QED BY <2>10, <2>11 DEF SettingsInv
<1>8. ASSUME NEW configured \in BOOLEAN, FailToStart(configured) PROVE SettingsInv'
  <2>1. /\ HasSource /\ shown' = Restored /\ locked' = FALSE /\ recordingState' = "Failed"
        /\ sourceRuns' = FALSE /\ (CommandSource \/ UNCHANGED hardwareVars)
        /\ UNCHANGED <<committed, scanning, modeVars>>
    BY <1>8 DEF FailToStart, CanStart
  <2>2. /\ generator' = generator \/ generator' = [generator EXCEPT !.bands = CommandBands]
        /\ profile' = profile \/ profile' = [profile EXCEPT !.bands = CommandBands]
    BY <2>1 DEF CommandSource, hardwareVars
  <2>3. /\ generator' \in Hardware /\ profile' \in Hardware
        /\ generator'.pulses = generator.pulses
    BY <2>2, <1>0, <1>00 DEF Hardware
  <2>4. \A b \in Bands : shown'[b].pulse = shown[b].pulse BY <2>1, <1>0, SettingsShapes
  <2>5. ShownPulses' = ShownPulses BY <2>4 DEF ShownPulses
  <2>6. Fits(ShownPulses)' /\ Fits(generator.pulses)' BY <2>3, <2>5, <1>0 DEF InForce
  <2>7. HasSource' /\ ModeMatchesSource'
    BY <2>1, <1>0 DEF HasSource, modeVars, ModeMatchesSource
  <2>8. InForce'
    BY <2>1, <2>3, <2>5, <2>6, <2>7, <1>0 DEF InForce, GeneratesWhatIsCommitted
  <2>9. SettingsTypeOK'
    BY <2>1, <2>3, <1>0, <1>00 DEF SettingsTypeOK, Settings, Kept, Hardware, modeVars
  <2> QED BY <2>8, <2>9 DEF SettingsInv
<1>9. ASSUME NEW stopped \in BOOLEAN, EndRecording(stopped) PROVE SettingsInv'
  <2>1. /\ sourceRuns' = FALSE /\ locked' = FALSE /\ recordingState' \in {"Idle", "Failed"}
        /\ UNCHANGED <<shown, committed, scanning, modeVars, hardwareVars>>
    BY <1>9 DEF EndRecording
  <2>2. SettingsTypeOK'
    BY <2>1, <1>0 DEF SettingsTypeOK, Settings, Kept, Hardware, modeVars, hardwareVars
  <2>3. ShownPulses' = ShownPulses /\ HasSource' = HasSource /\ generator' = generator
    BY <2>1 DEF ShownPulses, HasSource, modeVars, hardwareVars
  <2>4. Fits(ShownPulses)' /\ Fits(generator.pulses)' BY <2>3, <1>0 DEF InForce
  <2>5. InForce'
    BY <2>1, <2>3, <2>4, <1>0
       DEF InForce, GeneratesWhatIsCommitted, ModeMatchesSource, modeVars
  <2> QED BY <2>2, <2>5 DEF SettingsInv
<1>10. CASE BeginOrEndScan
  <2>1. /\ scanning' \in BOOLEAN
        /\ UNCHANGED <<shown, committed, locked, recordingState, sourceRuns, modeVars,
                       hardwareVars>>
    BY <1>10, <1>0 DEF BeginOrEndScan
  <2> QED BY <2>1, <1>0, <1>02, QuietStep DEF hardwareVars
<1>11. ASSUME NEW m \in Modes, NEW ok \in BOOLEAN, SetMode(m, ok) PROVE SettingsInv'
  <2> DEFINE fresh == [bands |-> ShownConfigs, pulses |-> ShownPulses]
  <2>1. ~locked /\ UNCHANGED <<shown, committed, locked, commandVars>>
    BY <1>11 DEF SetMode
  <2>2. fresh \in Hardware /\ fresh.pulses = ShownPulses BY <1>00 DEF Hardware
  <2>3. \/ mode' = m /\ sourceMode' = m /\ profile' = fresh /\ generator' = fresh
        \/ /\ UNCHANGED modeVars /\ profile' \in {profile, fresh}
           /\ generator' \in {generator, fresh}
    <3>1. CASE ~Busy /\ (ok \/ m = "Control") BY <1>11, <3>1 DEF SetMode, Select
    <3>2. CASE ~(~Busy /\ (ok \/ m = "Control"))
      BY <1>11, <3>2 DEF SetMode, RevertMode, hardwareVars
    <3> QED BY <3>1, <3>2
  <2> HIDE DEF fresh
  <2>4. profile' \in Hardware /\ generator' \in Hardware BY <2>2, <2>3, <1>0
  <2>5. mode' \in Modes /\ sourceMode' = mode' BY <2>3, <1>0 DEF modeVars
  <2>6. SettingsTypeOK'
    BY <2>1, <2>4, <2>5, <1>0 DEF SettingsTypeOK, Settings, Kept, Hardware, commandVars
  <2>7. ShownPulses' = ShownPulses BY <2>1 DEF ShownPulses
  <2>8. generator'.pulses = ShownPulses \/ (generator' = generator /\ HasSource' = HasSource)
    BY <2>2, <2>3 DEF modeVars, HasSource
  <2>9. Fits(ShownPulses)' /\ Fits(generator.pulses)'
    <3>1. Fits(ShownPulses) /\ Fits(generator.pulses) BY <1>0 DEF InForce
    <3> QED BY <3>1, <2>7, <2>8
  <2>10. HasSource' => generator'.pulses = ShownPulses BY <2>8, <1>0
  <2>11. ~sourceRuns' /\ locked' = sourceRuns' /\ recordingState' # "Active"
    BY <2>1, <1>0 DEF commandVars
  <2>12. InForce'
    BY <2>5, <2>7, <2>9, <2>10, <2>11 DEF InForce, GeneratesWhatIsCommitted, ModeMatchesSource
  <2> QED BY <2>6, <2>12 DEF SettingsInv
<1>12. CASE UNCHANGED settingsVars
  <2>1. /\ UNCHANGED <<shown, committed, locked, recordingState, sourceRuns, modeVars,
                       hardwareVars>>
        /\ scanning' = scanning
    BY <1>12 DEF settingsVars, commandVars
  <2> QED BY <2>1, <1>0, <1>02, QuietStep DEF hardwareVars
<1> QED
  BY <1>1, <1>2, <1>3, <1>4, <1>5, <1>6, <1>7, <1>8, <1>9, <1>10, <1>11, <1>12
     DEF SettingsNext

LEMMA SettingsInvariant == SettingsSpec => []SettingsInv
<1>1. SettingsInit => SettingsInv
  <2> SUFFICES ASSUME SettingsInit PROVE SettingsInv OBVIOUS
  <2> DEFINE first == [b \in Bands |-> FirstPulse]
  <2>1. /\ shown = [b \in Bands |-> [config |-> FirstConfig, threshold |-> FirstThreshold,
                                     valid |-> TRUE, pulse |-> FirstPulse]]
        /\ committed = [b \in Bands |-> [config |-> FirstConfig,
                                         threshold |-> FirstThreshold]]
        /\ locked = FALSE /\ recordingState = "Idle" /\ scanning = FALSE
        /\ mode \in Modes /\ sourceMode = mode /\ sourceRuns = FALSE
        /\ profile = [bands |-> ShownConfigs, pulses |-> ShownPulses] /\ generator = profile
    BY DEF SettingsInit
  <2>2. /\ shown \in [Bands -> Settings] /\ committed \in [Bands -> Kept]
        /\ ShownPulses = first /\ ShownPulses \in [Bands -> Pulses]
        /\ ShownConfigs \in [Bands -> Configs]
    BY <2>1, BandAssumption DEF Settings, Kept, ShownPulses, ShownConfigs
  <2>3. profile \in Hardware /\ generator.pulses = ShownPulses BY <2>1, <2>2 DEF Hardware
  <2>4. SettingsTypeOK
    BY <2>1, <2>2, <2>3 DEF SettingsTypeOK, Settings, Kept, Hardware
  <2>5. Fits(first) BY DefaultsWithinBudget DEF Fits
  <2>6. InForce
    <3> HIDE DEF first
    <3> QED BY <2>1, <2>2, <2>3, <2>5 DEF InForce, GeneratesWhatIsCommitted, ModeMatchesSource
  <2> QED BY <2>4, <2>6 DEF SettingsInv
<1> QED BY <1>1, SettingsStep, PTL DEF SettingsSpec

\* Whatever is previewed, refused or tried while a recording runs, the source generates with the
\* settings that were committed and that the windows show, in the mode shown, and no sequence of
\* pulse settings overloads the baseline.
THEOREM SettingsStayInForce == SettingsSpec => []SettingsInForce
<1>1. SettingsInv => SettingsInForce
  BY DEF SettingsInv, InForce, SettingsInForce, LoadWithinBudget, Fits
<1> QED BY <1>1, SettingsInvariant, PTL

-----------------------------------------------------------------------------
(* WaterfallView: the rows in the window.                                    *)

RowSlot == [row : Nat, range : Nat]
Request == [id : Nat \ {0}, session : Ids \union {0}, top : Nat, range : 1..Ranges]
Answer == [id : Nat \ {0}, rows : [1..Height -> RowSlot]]

\* The window at a top with the rows of a session that are in it, and those rows.
Filled(rows, top, f) ==
  [k \in 1..Height |-> IF top - k + 1 \in rows THEN [row |-> top - k + 1, range |-> f]
                       ELSE BlankSlot]
RowsOf(i) == IF i \in DOMAIN store THEN store[i].rows ELSE {}

\* The window holds at most as many rows as it is high, and loadRows is asked for more.
LEMMA WindowIsWhole ==
  ASSUME NEW i, NEW top \in Nat, NEW f, RowsOf(i) \subseteq Nat
  PROVE  Slots(i, top, f) = Filled(RowsOf(i), top, f)
<1> USE ViewAssumption
<1> DEFINE low == top - Height + 1
           within == {r \in RowsOf(i) : low <= r /\ r <= top}
<1>1. Height \in Nat \ {0} /\ low \in Int /\ low <= top OBVIOUS
<1>2. Sooner(low, top) = low /\ Later(low, top) = top BY <1>1 DEF Sooner, Later
<1>3. within \subseteq low..top /\ IsFiniteSet(low..top) /\ Cardinality(low..top) = Height
  <2>1. within \subseteq low..top BY <1>1
  <2>2. IsFiniteSet(low..top) /\ Cardinality(low..top) = top - low + 1 BY <1>1, FS_Interval
  <2> QED BY <2>1, <2>2, <1>1
<1>4. ASSUME NEW r \in within PROVE Cardinality({q \in within : q > r}) < 2 * Height
  <2>1. {q \in within : q > r} \subseteq low..top BY <1>3
  <2>2. Cardinality({q \in within : q > r}) <= Height
    BY <2>1, <1>3, FS_Subset
  <2>3. IsFiniteSet({q \in within : q > r}) BY <2>1, <1>3, FS_Subset
  <2> HIDE DEF within
  <2>4. Cardinality({q \in within : q > r}) \in Nat BY <2>3, FS_CardinalityType
  <2> QED BY <2>2, <2>4
<1>5. Newest(within, 2 * Height) = within
  <2> HIDE DEF within
  <2> QED BY <1>4 DEF Newest
<1>6. LoadRows(i, low, top, 2 * Height) = within
  <2>1. CASE i \in DOMAIN store
    <3>1. {r \in store[i].rows : Sooner(low, top) <= r /\ r <= Later(low, top)} = within
      BY <1>2, <2>1 DEF RowsOf
    <3> QED BY <3>1, <2>1, <1>5 DEF LoadRows
  <2>2. CASE i \notin DOMAIN store
    <3>1. within = {} BY <2>2 DEF RowsOf
    <3> QED BY <3>1, <2>2 DEF LoadRows
  <2> QED BY <2>1, <2>2
<1>7. \A k \in 1..Height : top - k + 1 \in within <=> top - k + 1 \in RowsOf(i)
  BY <1>1
<1> HIDE DEF within
<1> QED BY <1>6, <1>7 DEF Slots, Filled

LEMMA RingIsSeq ==
  ASSUME NEW q \in [1..Height -> RowSlot]
  PROVE  q \in Seq(RowSlot) /\ Len(q) = Height /\ DOMAIN q = 1..Height
BY ViewAssumption, SeqDef, LenProperties

LEMMA FilledShape ==
  ASSUME NEW rows \in SUBSET Nat, NEW top \in Nat, NEW f \in Nat
  PROVE  Filled(rows, top, f) \in [1..Height -> RowSlot]
<1>1. \A k \in 1..Height :
        top - k + 1 \in rows => [row |-> top - k + 1, range |-> f] \in RowSlot
  BY DEF RowSlot
<1>2. BlankSlot \in RowSlot BY DEF BlankSlot, RowSlot
<1> QED BY <1>1, <1>2 DEF Filled

\* pushLine: the new lines are above, and what was in the window moves down.
Blanks(g) == [k \in 1..g |-> BlankSlot]
Pushed(new, old, e, g) ==
  /\ new[1] = e
  /\ \A k \in 2..Height : new[k] = IF k <= g + 1 THEN BlankSlot ELSE old[k - g - 1]

LEMMA PushPlaces ==
  ASSUME NEW q \in [1..Height -> RowSlot], NEW e \in RowSlot, NEW g \in 0..(Height - 1)
  PROVE  LET new == SubSeq((<<e>> \o Blanks(g)) \o q, 1, Height)
         IN new \in [1..Height -> RowSlot] /\ Pushed(new, q, e, g)
<1> USE ViewAssumption
<1> DEFINE gap == Blanks(g)
           a == <<e>> \o gap
           b == a \o q
           new == SubSeq(b, 1, Height)
<1>1. q \in Seq(RowSlot) /\ Len(q) = Height BY RingIsSeq
<1>2. gap \in Seq(RowSlot) /\ Len(gap) = g /\ \A k \in 1..g : gap[k] = BlankSlot
  <2>1. BlankSlot \in RowSlot BY DEF BlankSlot, RowSlot
  <2>2. /\ g \in Nat /\ gap \in [1..g -> RowSlot] /\ \A k \in 1..g : gap[k] = BlankSlot
    BY <2>1 DEF Blanks
  <2> HIDE DEF gap
  <2> QED BY <2>2, SeqDef, LenProperties
<1>3. /\ a \in Seq(RowSlot) /\ Len(a) = g + 1 /\ a[1] = e
      /\ \A k \in 2..(g + 1) : a[k] = BlankSlot
  <2> HIDE DEF gap
  <2>1. <<e>> \in Seq(RowSlot) /\ Len(<<e>>) = 1 /\ <<e>>[1] = e OBVIOUS
  <2>2. /\ a \in Seq(RowSlot) /\ Len(a) = 1 + g
        /\ \A k \in 1..(1 + g) : a[k] = IF k <= 1 THEN <<e>>[k] ELSE gap[k - 1]
    BY <2>1, <1>2, ConcatProperties
  <2>3. a[1] = e BY <2>1, <2>2
  <2>4. ASSUME NEW k \in 2..(g + 1) PROVE a[k] = BlankSlot
    <3>1. a[k] = gap[k - 1] /\ k - 1 \in 1..g BY <2>2
    <3> QED BY <3>1, <1>2
  <2> QED BY <2>2, <2>3, <2>4
<1>4. /\ b \in Seq(RowSlot) /\ Len(b) = g + 1 + Height
      /\ \A k \in 1..(g + 1 + Height) : b[k] = IF k <= g + 1 THEN a[k] ELSE q[k - (g + 1)]
  <2> HIDE DEF a
  <2>1. /\ b \in Seq(RowSlot) /\ Len(b) = Len(a) + Len(q)
        /\ \A k \in 1..(Len(a) + Len(q)) :
             b[k] = IF k <= Len(a) THEN a[k] ELSE q[k - Len(a)]
    BY <1>1, <1>3, ConcatProperties
  <2> HIDE DEF b
  <2> QED BY <2>1, <1>1, <1>3
<1>5. /\ new \in Seq(RowSlot) /\ Len(new) = Height
      /\ \A k \in 1..Height : new[k] = b[k]
  <2> HIDE DEF b
  <2>1. Height \in 0..Len(b) BY <1>4
  <2> QED BY <2>1, <1>4, FrontPlaces
<1>6. new \in [1..Height -> RowSlot]
  <2> HIDE DEF new
  <2> QED BY <1>5, LenProperties
<1>7. new[1] = e BY <1>3, <1>4, <1>5
<1>8. ASSUME NEW k \in 2..Height
      PROVE  new[k] = IF k <= g + 1 THEN BlankSlot ELSE q[k - g - 1]
  <2>1. new[k] = IF k <= g + 1 THEN a[k] ELSE q[k - (g + 1)] BY <1>4, <1>5
  <2>2. k - (g + 1) = k - g - 1 OBVIOUS
  <2> QED BY <2>1, <2>2, <1>3
<1>9. Pushed(new, q, e, g)
  <2> HIDE DEF new
  <2> QED BY <1>7, <1>8 DEF Pushed
<1> QED BY <1>6, <1>9

\* A set of sessions that is not empty has a last one, which LatestOf then yields; likewise
\* a first one.
LEMMA LastOne ==
  ASSUME NEW S, IsFiniteSet(S), S # {}, S \subseteq Ids,
         \A i \in S : store[i].start \in Nat
  PROVE  LatestOf(S) \in S
         /\ (CHOOSE j \in S : \A k \in S \ {j} : Earlier(j, k)) \in S
<1> DEFINE After(i) == {j \in S : Earlier(i, j)}
           Before(i) == {j \in S : Earlier(j, i)}
           R == StrictSubsetOrdering(S)
           F == FiniteSubsetsOf(S)
           T == {After(i) : i \in S}
           U == {Before(i) : i \in S}
<1>0. S \subseteq Nat /\ \A i \in S : i \in Nat BY ViewAssumption DEF StoreAssumption
<1>1. IsWellFoundedOn(R, F) BY FS_StrictSubsetOrderingWellFounded
<1>2. /\ \A i, j \in S : i = j \/ Earlier(i, j) \/ Earlier(j, i)
      /\ \A i \in S : ~Earlier(i, i)
      /\ \A i, j, k \in S : Earlier(i, j) /\ Earlier(j, k) => Earlier(i, k)
  <2> HIDE DEF After, Before, R, F, T, U
  <2>1. ASSUME NEW i \in S, NEW j \in S PROVE i = j \/ Earlier(i, j) \/ Earlier(j, i)
    <3>1. i \in Nat /\ j \in Nat /\ store[i].start \in Nat /\ store[j].start \in Nat BY <1>0
    <3> QED BY <3>1 DEF Earlier
  <2>2. ASSUME NEW i \in S PROVE ~Earlier(i, i)
    <3>1. i \in Nat /\ store[i].start \in Nat BY <1>0
    <3> QED BY <3>1 DEF Earlier
  <2>3. ASSUME NEW i \in S, NEW j \in S, NEW k \in S, Earlier(i, j), Earlier(j, k)
        PROVE  Earlier(i, k)
    <3>1. /\ i \in Nat /\ j \in Nat /\ k \in Nat
          /\ store[i].start \in Nat /\ store[j].start \in Nat /\ store[k].start \in Nat
      BY <1>0
    <3> QED BY <2>3, <3>1 DEF Earlier
  <2> QED BY <2>1, <2>2, <2>3
<1>3. /\ T \subseteq F /\ T # {} /\ U \subseteq F /\ U # {}
  <2>1. \A i \in S : After(i) \in F /\ Before(i) \in F
    <3> SUFFICES ASSUME NEW i \in S PROVE After(i) \in F /\ Before(i) \in F OBVIOUS
    <3>1. After(i) \subseteq S /\ Before(i) \subseteq S OBVIOUS
    <3>2. IsFiniteSet(After(i)) /\ IsFiniteSet(Before(i)) BY <3>1, FS_Subset
    <3> QED BY <3>1, <3>2 DEF FiniteSubsetsOf
  <2> QED BY <2>1
<1>4. \E i \in S : \A j \in S \ {i} : Earlier(j, i)
  <2>1. PICK m \in T : \A n \in T : <<n, m>> \notin R
    <3> HIDE DEF R, F, T
    <3> QED BY <1>1, <1>3, WFMin
  <2>2. PICK i \in S : m = After(i) OBVIOUS
  <2>3. ASSUME NEW j \in S, Earlier(i, j) PROVE FALSE
    <3>1. After(j) \subseteq After(i) /\ j \in After(i) /\ j \notin After(j) /\ After(i) \subseteq S
      BY <2>3, <1>2
    <3>2. <<After(j), After(i)>> \in R BY <3>1 DEF StrictSubsetOrdering
    <3> QED BY <3>2, <2>1, <2>2
  <2>4. \A j \in S \ {i} : Earlier(j, i) BY <2>3, <1>2
  <2> QED BY <2>4
<1>5. \E i \in S : \A j \in S \ {i} : Earlier(i, j)
  <2>1. PICK m \in U : \A n \in U : <<n, m>> \notin R
    <3> HIDE DEF R, F, U
    <3> QED BY <1>1, <1>3, WFMin
  <2>2. PICK i \in S : m = Before(i) OBVIOUS
  <2>3. ASSUME NEW j \in S, Earlier(j, i) PROVE FALSE
    <3>1. /\ Before(j) \subseteq Before(i) /\ j \in Before(i) /\ j \notin Before(j)
          /\ Before(i) \subseteq S
      BY <2>3, <1>2
    <3>2. <<Before(j), Before(i)>> \in R BY <3>1 DEF StrictSubsetOrdering
    <3> QED BY <3>2, <2>1, <2>2
  <2>4. \A j \in S \ {i} : Earlier(i, j) BY <2>3, <1>2
  <2> QED BY <2>4
<1> QED BY <1>4, <1>5 DEF LatestOf

ViewTypes ==
  /\ IsFiniteSet(DOMAIN store) /\ DOMAIN store \subseteq Ids
  /\ store \in [DOMAIN store -> Session] /\ running = TRUE
  /\ activeSession \in DOMAIN store \union {0}
  /\ view \in [session : Ids \union {0}, top : Nat, mode : {"live", "history"}]
  /\ range \in 1..Ranges
  /\ retuning \in BOOLEAN /\ loading \in BOOLEAN /\ raced \in BOOLEAN
  /\ requestId \in 0..MaxRequests
  /\ pending \in Seq(Request) /\ Len(pending) <= 1
  /\ working \in Seq(Request) /\ Len(working) <= 1
  /\ results \in Seq(Answer)
  /\ ring \in [1..Height -> RowSlot] /\ lastLive \in Rows \union {0}

\* The active session ends with its newest row, a live viewport is on one of its rows, and the
\* last live row is the newest as long as rows come in their turn.
Grows ==
  activeSession # 0 =>
    LET s == store[activeSession]
    IN /\ s.start <= s.end /\ \A r \in s.rows : r <= s.end
       /\ IF s.rows = {} THEN s.end = s.start /\ s.end = StartUtc[activeSession]
                         ELSE s.end \in s.rows
OnARow ==
  Live(view) =>
    /\ activeSession # 0 /\ view.session = activeSession
    /\ \/ view.top \in store[activeSession].rows
       \/ store[activeSession].rows = {} /\ view.top = StartUtc[activeSession]
AtTheEnd ==
  /\ Grows /\ OnARow
  /\ lastLive # 0 =>
       /\ Live(view) /\ lastLive \in store[activeSession].rows
       /\ ~raced => /\ lastLive = view.top
                    /\ \A q \in store[activeSession].rows : q <= lastLive

\* Requests and answers are on their way in the order of their numbers.
InOrder ==
  /\ \A j, k \in 1..Len(results) : j < k => results[j].id < results[k].id
  /\ \A k \in 1..Len(results) :
       /\ results[k].id <= requestId
       /\ working # <<>> => results[k].id < working[1].id
       /\ pending # <<>> => results[k].id < pending[1].id
  /\ working # <<>> => working[1].id <= requestId
  /\ pending # <<>> => pending[1].id <= requestId
  /\ working # <<>> /\ pending # <<>> => working[1].id < pending[1].id
  /\ view.session = 0 => requestId = 0

\* The latest request asks for what the viewport shows, and its answer holds that.
ShownRows == Filled(RowsOf(view.session), view.top, range)
AsksForView(q) ==
  q.id = requestId =>
    /\ loading
    /\ ~raced => q.session = view.session /\ q.top = view.top
    /\ ~raced /\ ~retuning => q.range = range
Answered ==
  /\ working # <<>> => AsksForView(working[1])
  /\ pending # <<>> => AsksForView(pending[1])
  /\ \A k \in 1..Len(results) : results[k].id = requestId =>
       /\ loading
       /\ ~raced /\ ~retuning => results[k].rows = ShownRows

InWindow ==
  ~loading /\ ~retuning /\ ~raced /\ view.session \in DOMAIN store => ring = ShownRows

ViewInv == ViewTypes /\ AtTheEnd /\ InOrder /\ Answered /\ InWindow

LEMMA StoreFacts ==
  ASSUME ViewTypes
  PROVE  /\ \A i \in DOMAIN store :
              /\ i \in Nat \ {0} /\ i \in Ids /\ StartUtc[i] \in Nat
              /\ store[i].rows \subseteq Rows /\ store[i].rows \subseteq Nat
              /\ store[i].start \in Nat /\ store[i].end \in Nat
              /\ store[i].closed \in BOOLEAN
         /\ \A i : RowsOf(i) \in SUBSET Nat
         /\ 0 \notin DOMAIN store
BY ViewAssumption DEF StoreAssumption, ViewTypes, Session, RowsOf

LEMMA ViewFacts ==
  ASSUME ViewTypes
  PROVE  /\ view.session \in Ids \union {0} /\ view.top \in Nat
         /\ view.mode \in {"live", "history"}
         /\ range \in Nat \ {0} /\ range <= Ranges
         /\ ShownRows \in [1..Height -> RowSlot]
         /\ Height \in Nat \ {0}
<1>1. /\ view.session \in Ids \union {0} /\ view.top \in Nat
      /\ view.mode \in {"live", "history"}
  BY DEF ViewTypes
<1>2. range \in Nat \ {0} /\ range <= Ranges BY ViewAssumption DEF ViewTypes
<1>3. ShownRows \in [1..Height -> RowSlot]
  BY <1>1, <1>2, StoreFacts, FilledShape DEF ShownRows
<1> QED BY <1>1, <1>2, <1>3, ViewAssumption

\* Steps after which a new viewport is asked for.
LEMMA Asked ==
  ASSUME ViewInv, UpdateRenderBuffer(view', range), range' = range,
         retuning' \in BOOLEAN,
         view' \in [session : Ids \union {0}, top : Nat, mode : {"live", "history"}],
         view'.session = 0 => view.session = 0,
         IsFiniteSet(DOMAIN store'), DOMAIN store' \subseteq Ids,
         store' \in [DOMAIN store' -> Session], running' = TRUE,
         activeSession' \in DOMAIN store' \union {0},
         Grows', OnARow'
  PROVE  ViewInv'
<1> USE ViewAssumption
<1>0. ViewTypes /\ AtTheEnd /\ InOrder /\ Answered /\ InWindow BY DEF ViewInv
<1>1. /\ pending \in Seq(Request) /\ Len(pending) <= 1 /\ working \in Seq(Request)
      /\ results \in Seq(Answer) /\ requestId \in 0..MaxRequests /\ range \in 1..Ranges
      /\ requestId \in Nat
  BY <1>0 DEF ViewTypes
<1>2. /\ \A k \in 1..Len(results) : results[k].id \in Nat \ {0} /\ results[k].id <= requestId
      /\ working # <<>> => /\ working[1].id \in Nat \ {0} /\ working[1].id <= requestId
      /\ pending # <<>> => /\ pending[1].id \in Nat \ {0} /\ pending[1].id <= requestId
  <2>1. \A k \in 1..Len(results) : results[k] \in Answer BY <1>1
  <2>2. working # <<>> => working[1] \in Request BY <1>1
  <2>3. pending # <<>> => pending[1] \in Request BY <1>1
  <2> QED BY <2>1, <2>2, <2>3, <1>0 DEF InOrder, Answer, Request
<1>3. lastLive' = 0 /\ raced' = FALSE /\ UNCHANGED <<working, results>>
  BY DEF UpdateRenderBuffer
<1>4. AtTheEnd' BY <1>3 DEF AtTheEnd
<1>5. CASE view'.session = 0
  <2>1. ring' = Blank /\ loading' = FALSE /\ UNCHANGED <<requestId, pending>>
    BY <1>5 DEF UpdateRenderBuffer
  <2>2. requestId = 0 BY <1>5, <1>0 DEF InOrder
  <2>3. results = <<>> /\ working = <<>> /\ pending = <<>>
    <3>1. Len(results) = 0
      <4>1. Len(results) \in Nat BY <1>1
      <4>2. ASSUME Len(results) # 0 PROVE FALSE
        <5>1. 1 \in 1..Len(results) BY <4>1, <4>2
        <5>2. results[1].id \in Nat \ {0} /\ results[1].id <= requestId BY <5>1, <1>2
        <5> QED BY <5>2, <2>2
      <4> QED BY <4>2
    <3> QED BY <3>1, <1>1, <1>2, <2>2
  <2>4. Blank \in [1..Height -> RowSlot] BY DEF Blank, BlankSlot, RowSlot
  <2>5. ViewTypes' BY <2>1, <2>4, <1>0, <1>1, <1>3 DEF ViewTypes
  <2>6. InOrder' BY <2>1, <2>2, <2>3, <1>3 DEF InOrder
  <2>7. Answered' BY <2>1, <2>3, <1>3 DEF Answered
  <2>8. InWindow'
    <3>1. 0 \notin DOMAIN store' BY DEF StoreAssumption
    <3> QED BY <3>1, <1>5 DEF InWindow
  <2> QED BY <2>5, <2>6, <2>7, <2>8, <1>4 DEF ViewInv
<1>6. CASE view'.session # 0
  <2> DEFINE q == [id |-> requestId + 1, session |-> view'.session, top |-> view'.top,
                   range |-> range]
  <2>1. /\ requestId < MaxRequests /\ requestId' = requestId + 1 /\ pending' = <<q>>
        /\ loading' = TRUE /\ ring' = ring
    BY <1>6 DEF UpdateRenderBuffer
  <2>2. q \in Request BY <1>1 DEF Request
  <2>3. /\ pending' \in Seq(Request) /\ Len(pending') = 1 /\ pending'[1] = q
        /\ q.id = requestId' /\ q.session = view'.session /\ q.top = view'.top
        /\ q.range = range
    BY <2>1, <2>2
  <2> HIDE DEF q
  <2>4. requestId' \in 0..MaxRequests BY <2>1, <1>1
  <2>5. ViewTypes'
    <3>0. pending' \in Seq(Request) /\ Len(pending') <= 1 BY <2>3
    <3>1. /\ loading' \in BOOLEAN /\ raced' \in BOOLEAN
          /\ lastLive' \in Rows \union {0} /\ range' \in 1..Ranges
      BY <2>1, <1>1, <1>3
    <3>2. /\ working' \in Seq(Request) /\ Len(working') <= 1 /\ results' \in Seq(Answer)
          /\ ring' \in [1..Height -> RowSlot]
      BY <2>1, <1>0, <1>3 DEF ViewTypes
    <3> QED BY <3>0, <3>1, <3>2, <2>4 DEF ViewTypes
  <2>6. InOrder'
    <3>0. \A n \in Nat : n <= requestId => n < requestId' BY <1>1, <2>1
    <3>1. \A k \in 1..Len(results) : results[k].id < requestId' BY <1>2, <3>0
    <3>2. working # <<>> => working[1].id < requestId' BY <1>2, <3>0
    <3>3. \A j, k \in 1..Len(results) : j < k => results[j].id < results[k].id
      BY <1>0 DEF InOrder
    <3>4. \A k \in 1..Len(results) : working # <<>> => results[k].id < working[1].id
      BY <1>0 DEF InOrder
    <3>5. /\ \A k \in 1..Len(results) : results[k].id <= requestId'
          /\ working # <<>> => working[1].id <= requestId'
      BY <3>1, <3>2, <2>4, <1>2
    <3> QED BY <3>1, <3>2, <3>3, <3>4, <3>5, <2>3, <2>4, <1>3, <1>6 DEF InOrder
  <2>7. Answered'
    <3>0. \A n \in Nat : n <= requestId => n # requestId' BY <1>1, <2>1
    <3>1. \A k \in 1..Len(results) : results[k].id # requestId' BY <1>2, <3>0
    <3>2. working # <<>> => working[1].id # requestId' BY <1>2, <3>0
    <3> QED BY <3>1, <3>2, <2>1, <2>3, <1>3 DEF Answered, AsksForView
  <2>8. InWindow' BY <2>1 DEF InWindow
  <2> QED BY <2>5, <2>6, <2>7, <2>8, <1>4 DEF ViewInv
<1> QED BY <1>5, <1>6

LEMMA TakeRequestStep == ASSUME ViewInv, TakeRequest PROVE ViewInv'
<1>0. ViewTypes /\ AtTheEnd /\ InOrder /\ Answered /\ InWindow BY DEF ViewInv
<1>1. /\ pending # <<>> /\ working = <<>> /\ working' = pending /\ pending' = <<>>
      /\ UNCHANGED <<store, running, activeSession, view, range, retuning, requestId, results,
                     loading, ring, lastLive, raced>>
  BY DEF TakeRequest, storeVars, screenVars
<1>2. ViewTypes'
  <2>1. pending' \in Seq(Request) /\ Len(pending') <= 1 BY <1>1
  <2>2. working' \in Seq(Request) /\ Len(working') <= 1 BY <1>0, <1>1 DEF ViewTypes
  <2> QED BY <2>1, <2>2, <1>0, <1>1 DEF ViewTypes
<1>3. AtTheEnd' BY <1>0, <1>1 DEF AtTheEnd, Grows, OnARow
<1>4. InOrder' BY <1>0, <1>1 DEF InOrder
<1>5. ShownRows' = ShownRows BY <1>1 DEF ShownRows, RowsOf
<1>6. Answered' BY <1>0, <1>1, <1>5 DEF Answered, AsksForView
<1>7. InWindow' BY <1>0, <1>1, <1>5 DEF InWindow
<1> QED BY <1>2, <1>3, <1>4, <1>6, <1>7 DEF ViewInv

LEMMA LoadHistoryRowsStep == ASSUME ViewInv, LoadHistoryRows PROVE ViewInv'
<1>0. ViewTypes /\ AtTheEnd /\ InOrder /\ Answered /\ InWindow BY DEF ViewInv
<1> DEFINE q == working[1]
           a == [id |-> q.id, rows |-> Slots(q.session, q.top, q.range)]
<1>1. /\ working # <<>> /\ results' = Append(results, a) /\ working' = <<>>
      /\ UNCHANGED <<store, running, activeSession, view, range, retuning, requestId, pending,
                     loading, ring, lastLive, raced>>
  BY DEF LoadHistoryRows, storeVars, screenVars
<1>2. q \in Request BY <1>0, <1>1 DEF ViewTypes
<1>3. /\ q.id \in Nat \ {0} /\ q.top \in Nat /\ q.range \in Nat
      /\ q.session \in Ids \union {0}
  BY <1>2, ViewAssumption DEF Request
<1>4. RowsOf(q.session) \in SUBSET Nat BY <1>0, StoreFacts
<1>5. a = [id |-> q.id, rows |-> Filled(RowsOf(q.session), q.top, q.range)]
  BY <1>3, <1>4, WindowIsWhole
<1>6. a \in Answer /\ a.id = q.id /\ a.rows = Filled(RowsOf(q.session), q.top, q.range)
  <2>1. Filled(RowsOf(q.session), q.top, q.range) \in [1..Height -> RowSlot]
    BY <1>3, <1>4, FilledShape
  <2> QED BY <2>1, <1>3, <1>5 DEF Answer
<1> HIDE DEF a
<1>7. results \in Seq(Answer) /\ Len(results) \in Nat BY <1>0 DEF ViewTypes
<1>8. /\ results' \in Seq(Answer) /\ Len(results') = Len(results) + 1
      /\ results'[Len(results) + 1] = a
      /\ \A k \in 1..Len(results) : results'[k] = results[k]
  BY <1>1, <1>6, <1>7
<1>9. \A k \in 1..Len(results') : k \in 1..Len(results) \/ k = Len(results) + 1 BY <1>7, <1>8
<1>10. ViewTypes'
  <2>1. working' \in Seq(Request) /\ Len(working') <= 1 BY <1>1
  <2> QED BY <2>1, <1>0, <1>1, <1>8 DEF ViewTypes
<1>11. AtTheEnd' BY <1>0, <1>1 DEF AtTheEnd, Grows, OnARow
<1>12. InOrder'
  <2>1. ASSUME NEW j \in 1..Len(results'), NEW k \in 1..Len(results'), j < k
        PROVE  results'[j].id < results'[k].id
    <3>1. j \in 1..Len(results) BY <2>1, <1>7, <1>8, <1>9
    <3>2. CASE k \in 1..Len(results) BY <3>1, <3>2, <2>1, <1>0, <1>8 DEF InOrder
    <3>3. CASE k = Len(results) + 1 BY <3>1, <3>3, <1>0, <1>1, <1>6, <1>8 DEF InOrder
    <3> QED BY <3>2, <3>3, <1>9
  <2>2. ASSUME NEW k \in 1..Len(results')
        PROVE  /\ results'[k].id <= requestId
               /\ pending # <<>> => results'[k].id < pending[1].id
    <3>2. CASE k \in 1..Len(results) BY <3>2, <1>0, <1>8 DEF InOrder
    <3>3. CASE k = Len(results) + 1 BY <3>3, <1>0, <1>1, <1>6, <1>8 DEF InOrder
    <3> QED BY <3>2, <3>3, <1>9
  <2> QED BY <2>1, <2>2, <1>0, <1>1 DEF InOrder
<1>13. ShownRows' = ShownRows BY <1>1 DEF ShownRows, RowsOf
<1>14. Answered'
  <2>1. ASSUME NEW k \in 1..Len(results'), results'[k].id = requestId
        PROVE  loading /\ (~raced /\ ~retuning => results'[k].rows = ShownRows)
    <3>1. CASE k \in 1..Len(results) BY <3>1, <2>1, <1>0, <1>8 DEF Answered
    <3>2. CASE k = Len(results) + 1
      BY <3>2, <2>1, <1>0, <1>1, <1>6, <1>8 DEF Answered, AsksForView, ShownRows
    <3> QED BY <3>1, <3>2, <1>9
  <2> QED BY <2>1, <1>0, <1>1, <1>13 DEF Answered, AsksForView
<1>15. InWindow' BY <1>0, <1>1, <1>13 DEF InWindow
<1> QED BY <1>10, <1>11, <1>12, <1>14, <1>15 DEF ViewInv

LEMMA ApplyResultStep == ASSUME ViewInv, ApplyHistoryLoadResult PROVE ViewInv'
<1>0. ViewTypes /\ AtTheEnd /\ InOrder /\ Answered /\ InWindow BY DEF ViewInv
<1>1. /\ results # <<>> /\ results' = Tail(results)
      /\ UNCHANGED <<store, running, activeSession, view, range, retuning, requestId, pending,
                     working, lastLive, raced>>
  BY DEF ApplyHistoryLoadResult, storeVars
<1>2. /\ results \in Seq(Answer) /\ Len(results) \in Nat /\ 1 \in 1..Len(results)
      /\ Head(results) = results[1] /\ results[1] \in Answer
      /\ results' \in Seq(Answer) /\ Len(results') = Len(results) - 1
      /\ \A k \in 1..Len(results') : results'[k] = results[k + 1] /\ k + 1 \in 1..Len(results)
  <2>1. results \in Seq(Answer) BY <1>0 DEF ViewTypes
  <2> QED BY <2>1, <1>1
<1>3. AtTheEnd' BY <1>0, <1>1 DEF AtTheEnd, Grows, OnARow
<1>4. InOrder'
  <2>1. ASSUME NEW j \in 1..Len(results'), NEW k \in 1..Len(results'), j < k
        PROVE  results'[j].id < results'[k].id
    <3>1. j + 1 < k + 1 /\ j + 1 \in 1..Len(results) /\ k + 1 \in 1..Len(results)
      BY <2>1, <1>2
    <3> QED BY <3>1, <1>0, <1>2 DEF InOrder
  <2>2. \A k \in 1..Len(results') :
         /\ results'[k].id <= requestId
         /\ working # <<>> => results'[k].id < working[1].id
         /\ pending # <<>> => results'[k].id < pending[1].id
    BY <1>0, <1>2 DEF InOrder
  <2> QED BY <2>1, <2>2, <1>0, <1>1 DEF InOrder
<1>5. ShownRows' = ShownRows BY <1>1 DEF ShownRows, RowsOf
<1>6. CASE results[1].id = requestId
  <2>1. ring' = results[1].rows /\ loading' = FALSE
    BY <1>2, <1>6 DEF ApplyHistoryLoadResult
  <2>2. ring' \in [1..Height -> RowSlot] BY <2>1, <1>2 DEF Answer
  <2>3. ViewTypes' BY <2>1, <2>2, <1>0, <1>1, <1>2 DEF ViewTypes
  <2>4. /\ \A k \in 1..Len(results') : results'[k].id # requestId
        /\ working # <<>> => working[1].id # requestId
        /\ pending # <<>> => pending[1].id # requestId
    <3>0. results[1].id \in Nat BY <1>2 DEF Answer
    <3>1. \A k \in 1..Len(results') : results[1].id < results'[k].id
      <4> SUFFICES ASSUME NEW k \in 1..Len(results') PROVE results[1].id < results'[k].id
        OBVIOUS
      <4>1. 1 < k + 1 /\ k + 1 \in 1..Len(results) BY <1>2
      <4> QED BY <4>1, <1>0, <1>2 DEF InOrder
    <3>2. /\ working # <<>> => results[1].id < working[1].id
          /\ pending # <<>> => results[1].id < pending[1].id
      BY <1>0, <1>2 DEF InOrder
    <3> QED BY <3>0, <3>1, <3>2, <1>6
  <2>5. Answered' BY <2>4, <1>1 DEF Answered, AsksForView
  <2>6. InWindow' BY <2>1, <1>0, <1>1, <1>2, <1>5, <1>6 DEF InWindow, Answered
  <2> QED BY <2>3, <2>5, <2>6, <1>3, <1>4 DEF ViewInv
<1>7. CASE results[1].id # requestId
  <2>1. ring' = ring /\ loading' = loading BY <1>2, <1>7 DEF ApplyHistoryLoadResult
  <2>2. ViewTypes' BY <2>1, <1>0, <1>1, <1>2 DEF ViewTypes
  <2>3. Answered' BY <2>1, <1>0, <1>1, <1>2, <1>5 DEF Answered, AsksForView
  <2>4. InWindow' BY <2>1, <1>0, <1>1, <1>5 DEF InWindow
  <2> QED BY <2>2, <2>3, <2>4, <1>3, <1>4 DEF ViewInv
<1> QED BY <1>6, <1>7

LEMMA ScheduleRetuneStep == ASSUME ViewInv, ScheduleRetune PROVE ViewInv'
<1>0. ViewTypes /\ AtTheEnd /\ InOrder /\ Answered /\ InWindow BY DEF ViewInv
<1>1. /\ range < Ranges /\ range' = range + 1 /\ retuning' = TRUE
      /\ UNCHANGED <<store, running, activeSession, view, requestId, pending, working, results,
                     loading, ring, lastLive, raced>>
  BY DEF ScheduleRetune, storeVars, loadVars, screenVars
<1>2. range' \in 1..Ranges BY <1>0, <1>1, ViewAssumption DEF ViewTypes
<1>3. ViewTypes' BY <1>0, <1>1, <1>2 DEF ViewTypes
<1>4. AtTheEnd' BY <1>0, <1>1 DEF AtTheEnd, Grows, OnARow
<1>5. InOrder' BY <1>0, <1>1 DEF InOrder
<1>6. Answered' BY <1>0, <1>1 DEF Answered, AsksForView
<1>7. InWindow' BY <1>1 DEF InWindow
<1> QED BY <1>3, <1>4, <1>5, <1>6, <1>7 DEF ViewInv

LEMMA CommitViewportStep == ASSUME ViewInv, CommitViewport PROVE ViewInv'
<1>0. ViewTypes /\ AtTheEnd BY DEF ViewInv
<1>1. /\ retuning' = FALSE /\ UpdateRenderBuffer(view, range)
      /\ UNCHANGED <<store, running, activeSession, view, range>>
  BY DEF CommitViewport, storeVars
<1>2. UpdateRenderBuffer(view', range) BY <1>1
<1>3. /\ view' \in [session : Ids \union {0}, top : Nat, mode : {"live", "history"}]
      /\ IsFiniteSet(DOMAIN store') /\ DOMAIN store' \subseteq Ids
      /\ store' \in [DOMAIN store' -> Session] /\ running' = TRUE
      /\ activeSession' \in DOMAIN store' \union {0}
  BY <1>0, <1>1 DEF ViewTypes
<1>4. Grows' /\ OnARow' BY <1>0, <1>1 DEF AtTheEnd, Grows, OnARow, Live
<1> QED BY <1>1, <1>2, <1>3, <1>4, Asked

LEMMA FinishRecordingStep == ASSUME ViewInv, FinishRecording PROVE ViewInv'
<1>0. ViewTypes /\ AtTheEnd /\ InOrder /\ Answered /\ InWindow BY DEF ViewInv
<1> DEFINE i == activeSession
<1>1. /\ i # 0 /\ activeSession' = 0 /\ view' = [view EXCEPT !.mode = "history"]
      /\ lastLive' = 0
      /\ UNCHANGED <<range, retuning, requestId, pending, working, results, loading, ring, raced>>
  BY DEF FinishRecording, loadVars
<1>2. PICK end \in {StartUtc[i]} \union store[i].rows : CloseSession(i, end)
  BY DEF FinishRecording
<1>3. /\ i \in DOMAIN store /\ running' = running
      /\ store' = [store EXCEPT ![i].end = Later(end, store[i].end), ![i].closed = TRUE]
  BY <1>2, <1>0 DEF CloseSession, ViewTypes
<1>4. end \in Nat /\ store[i] \in Session /\ store \in [DOMAIN store -> Session]
  BY <1>0, <1>2, <1>3, StoreFacts DEF ViewTypes
<1>5. Later(end, store[i].end) \in Nat BY <1>4 DEF Later, Session
<1> DEFINE x == [store[i] EXCEPT !.end = Later(end, store[i].end), !.closed = TRUE]
<1>6. x \in Session /\ x.rows = store[i].rows BY <1>4, <1>5 DEF Session
<1>7. store' = [store EXCEPT ![i] = x] BY <1>3, <1>4
<1> HIDE DEF x
<1>8. /\ DOMAIN store' = DOMAIN store /\ store' \in [DOMAIN store -> Session]
      /\ \A j \in DOMAIN store : store'[j].rows = store[j].rows
  BY <1>3, <1>4, <1>6, <1>7
<1>9. /\ view' \in [session : Ids \union {0}, top : Nat, mode : {"live", "history"}]
      /\ view'.session = view.session /\ view'.top = view.top /\ view'.mode = "history"
  BY <1>0, <1>1 DEF ViewTypes
<1>10. ShownRows' = ShownRows BY <1>1, <1>8, <1>9 DEF ShownRows, RowsOf
<1>11. ViewTypes' BY <1>0, <1>1, <1>3, <1>8, <1>9 DEF ViewTypes
<1>12. AtTheEnd' BY <1>1, <1>9 DEF AtTheEnd, Grows, OnARow, Live
<1>13. InOrder' BY <1>0, <1>1, <1>9 DEF InOrder
<1>14. Answered' BY <1>0, <1>1, <1>9, <1>10 DEF Answered, AsksForView
<1>15. InWindow' BY <1>0, <1>1, <1>8, <1>9, <1>10 DEF InWindow
<1> QED BY <1>11, <1>12, <1>13, <1>14, <1>15 DEF ViewInv

LEMMA ViewStutter == ASSUME ViewInv, UNCHANGED viewVars PROVE ViewInv'
<1>0. ViewTypes /\ AtTheEnd /\ InOrder /\ Answered /\ InWindow BY DEF ViewInv
<1>1. UNCHANGED <<store, running, activeSession, view, range, retuning, requestId, pending,
                  working, results, loading, ring, lastLive, raced>>
  BY DEF viewVars, storeVars, loadVars, screenVars
<1>2. ViewTypes' BY <1>0, <1>1 DEF ViewTypes
<1>3. AtTheEnd' BY <1>0, <1>1 DEF AtTheEnd, Grows, OnARow
<1>4. InOrder' BY <1>0, <1>1 DEF InOrder
<1>5. ShownRows' = ShownRows BY <1>1 DEF ShownRows, RowsOf
<1>6. Answered' BY <1>0, <1>1, <1>5 DEF Answered, AsksForView
<1>7. InWindow' BY <1>0, <1>1, <1>5 DEF InWindow
<1> QED BY <1>2, <1>3, <1>4, <1>6, <1>7 DEF ViewInv

\* Where a turn of the wheel or a jump may lead.
Viewport == [session : Ids \union {0}, top : Nat, mode : {"live", "history"}]
MayShow(v) ==
  /\ v \in Viewport /\ (v.session = 0 => view.session = 0)
  /\ Live(v) => /\ activeSession # 0 /\ v.session = activeSession
                /\ \/ v.top \in store[activeSession].rows
                   \/ /\ store[activeSession].rows = {}
                      /\ v.top = StartUtc[activeSession]

LEMMA SessionEnds ==
  ASSUME ViewTypes, AtTheEnd
  PROVE  /\ MayShow(view)
         /\ \A i \in DOMAIN store : NewestTop(i) \in Nat /\ OldestTop(i) \in Nat
         /\ activeSession # 0 => NewestTop(activeSession) = store[activeSession].end
         /\ \A i \in DOMAIN store, top \in Nat : MayShow(At(i, top, "history"))
         /\ \A i \in DOMAIN store, atTop \in BOOLEAN :
              MayShow(At(i, NewestTop(i), ModeAt(i, atTop)))
<1> USE ViewAssumption
<1>1. MayShow(view) BY DEF ViewTypes, AtTheEnd, OnARow, MayShow, Viewport
<1>2. \A i \in DOMAIN store : /\ i \in Ids /\ i # 0 /\ store[i].start \in Nat
                              /\ store[i].end \in Nat
  BY StoreFacts
<1>3. \A i \in DOMAIN store : NewestTop(i) \in Nat /\ OldestTop(i) \in Nat
  BY <1>2 DEF NewestTop, OldestTop, Later, Sooner
<1>4. activeSession # 0 => NewestTop(activeSession) = store[activeSession].end
  <2> SUFFICES ASSUME activeSession # 0
               PROVE  NewestTop(activeSession) = store[activeSession].end
    OBVIOUS
  <2>1. activeSession \in DOMAIN store BY DEF ViewTypes
  <2>2. store[activeSession].start <= store[activeSession].end BY DEF AtTheEnd, Grows
  <2> QED BY <2>1, <2>2, <1>2 DEF NewestTop, Later
<1>5. \A i \in DOMAIN store, top \in Nat : MayShow(At(i, top, "history"))
  BY <1>2 DEF MayShow, At, Viewport, Live
<1>6. ASSUME NEW i \in DOMAIN store, NEW atTop \in BOOLEAN
      PROVE  MayShow(At(i, NewestTop(i), ModeAt(i, atTop)))
  <2>1. ModeAt(i, atTop) \in {"live", "history"} BY DEF ModeAt
  <2>2. ModeAt(i, atTop) = "live" => activeSession # 0 /\ i = activeSession BY DEF ModeAt
  <2> HIDE DEF ModeAt
  <2> DEFINE v == At(i, NewestTop(i), ModeAt(i, atTop))
  <2>3. /\ v \in Viewport /\ v.session = i /\ v.top = NewestTop(i)
        /\ v.mode = ModeAt(i, atTop)
    BY <2>1, <1>2, <1>3 DEF At, Viewport
  <2> HIDE DEF v
  <2>4. activeSession # 0 =>
          \/ store[activeSession].end \in store[activeSession].rows
          \/ /\ store[activeSession].rows = {}
             /\ store[activeSession].end = StartUtc[activeSession]
    BY DEF AtTheEnd, Grows
  <2> QED BY <2>2, <2>3, <2>4, <1>2, <1>4 DEF MayShow, Live, v
<1> QED BY <1>1, <1>3, <1>4, <1>5, <1>6

LEMMA WheelTurns ==
  ASSUME ViewTypes, AtTheEnd
  PROVE  MayShow(Older(view, WheelStep)) /\ MayShow(TowardLive(view, WheelStep))
<1> DEFINE i == view.session
           n == WheelStep
<1>1. n \in Nat /\ view.top \in Nat /\ MayShow(view)
  BY ViewAssumption, ViewFacts, SessionEnds
<1>2. /\ IsFiniteSet(DOMAIN store) /\ DOMAIN store \subseteq Ids
      /\ \A j \in DOMAIN store : store[j].start \in Nat
  BY StoreFacts DEF ViewTypes
<1>3. ASSUME NEW S \in SUBSET DOMAIN store, S # {}
      PROVE  LatestOf(S) \in S
             /\ (CHOOSE j \in S : \A k \in S \ {j} : Earlier(j, k)) \in S
  <2>1. IsFiniteSet(S) BY <1>2, FS_Subset
  <2> QED BY <2>1, <1>2, <1>3, LastOne
<1>4. 0 \notin DOMAIN store BY StoreFacts
<1>5. LatestSession = 0 \/ LatestSession \in DOMAIN store
  BY <1>3 DEF LatestSession, LatestOf
<1>6. i \in DOMAIN store => PreviousSession(i) = 0 \/ PreviousSession(i) \in DOMAIN store
  <2> DEFINE S == {j \in DOMAIN store : Earlier(j, i)}
  <2>1. S = {} => LatestOf(S) = 0 BY DEF LatestOf
  <2>2. S # {} => LatestOf(S) \in S BY <1>3
  <2> QED BY <2>1, <2>2 DEF PreviousSession
<1>7. NextSession(i) = 0 \/ NextSession(i) \in DOMAIN store
  <2> DEFINE S == {j \in DOMAIN store : Earlier(i, j)}
  <2>1. S = {} => NextSession(i) = 0 BY DEF NextSession
  <2>2. S # {} => NextSession(i) \in S BY <1>3 DEF NextSession
  <2> QED BY <2>1, <2>2
<1>8. MayShow(Older(view, n))
  <2>1. CASE i \notin DOMAIN store
    <3>1. Older(view, n) = Latest(view) BY <2>1 DEF Older
    <3> QED BY <3>1, <1>1, <1>5, SessionEnds DEF Latest
  <2>2. CASE i \in DOMAIN store
    <3> DEFINE p == PreviousSession(i)
    <3>1. \/ /\ view.top - n >= OldestTop(i)
             /\ Older(view, n) = At(i, view.top - n, "history")
          \/ Older(view, n) = At(i, OldestTop(i), "history")
          \/ Older(view, n) = view
          \/ p # 0 /\ Older(view, n) = At(p, NewestTop(p), "history")
      BY <2>2 DEF Older
    <3>2. OldestTop(i) \in Nat BY <2>2, SessionEnds
    <3>3. view.top - n >= OldestTop(i) => view.top - n \in Nat BY <3>2, <1>1
    <3>4. p # 0 => p \in DOMAIN store BY <2>2, <1>6
    <3>5. p # 0 => NewestTop(p) \in Nat BY <3>4, SessionEnds
    <3> HIDE DEF p
    <3> QED BY <3>1, <3>2, <3>3, <3>4, <3>5, <2>2, <1>1, SessionEnds
  <2> QED BY <2>1, <2>2
<1>9. MayShow(TowardLive(view, n))
  <2>1. CASE i \notin DOMAIN store BY <2>1, <1>1 DEF TowardLive
  <2>2. CASE i \in DOMAIN store
    <3> DEFINE m == NextSession(i)
               top == view.top + n
    <3>1. \/ top <= NewestTop(i) /\ TowardLive(view, n) = At(i, top, ModeAt(i, top = NewestTop(i)))
          \/ TowardLive(view, n) = At(i, NewestTop(i), ModeAt(i, TRUE))
          \/ TowardLive(view, n) = view
          \/ m # 0 /\ TowardLive(view, n) = At(m, NewestTop(m), ModeAt(m, TRUE))
      BY <2>2 DEF TowardLive
    <3>2. MayShow(At(i, top, ModeAt(i, top = NewestTop(i))))
      <4>1. top \in Nat BY <1>1
      <4>2. CASE top = NewestTop(i)
        <5>1. At(i, top, ModeAt(i, top = NewestTop(i))) = At(i, NewestTop(i), ModeAt(i, TRUE))
          BY <4>2
        <5> QED BY <5>1, <2>2, SessionEnds
      <4>3. CASE top # NewestTop(i)
        <5>1. ModeAt(i, top = NewestTop(i)) = "history" BY <4>3 DEF ModeAt
        <5> QED BY <5>1, <4>1, <2>2, SessionEnds
      <4> QED BY <4>2, <4>3
    <3>3. MayShow(At(i, NewestTop(i), ModeAt(i, TRUE))) BY <2>2, SessionEnds
    <3>4. m # 0 => MayShow(At(m, NewestTop(m), ModeAt(m, TRUE))) BY <1>7, SessionEnds
    <3> QED BY <3>1, <3>2, <3>3, <3>4, <1>1
  <2> QED BY <2>1, <2>2
<1> QED BY <1>8, <1>9

LEMMA ScrollStep ==
  ASSUME ViewInv, NEW v, MayShow(v), ScrollTo(v)
  PROVE  ViewInv'
<1>0. ViewTypes /\ AtTheEnd BY DEF ViewInv
<1>1. /\ view' = v /\ UpdateRenderBuffer(v, range)
      /\ UNCHANGED <<store, running, activeSession, range, retuning>>
  BY DEF ScrollTo, storeVars
<1>2. UpdateRenderBuffer(view', range) BY <1>1
<1>3. /\ view' \in [session : Ids \union {0}, top : Nat, mode : {"live", "history"}]
      /\ view'.session = 0 => view.session = 0
      /\ IsFiniteSet(DOMAIN store') /\ DOMAIN store' \subseteq Ids
      /\ store' \in [DOMAIN store' -> Session] /\ running' = TRUE
      /\ activeSession' \in DOMAIN store' \union {0} /\ retuning' \in BOOLEAN
  BY <1>0, <1>1 DEF ViewTypes, MayShow, Viewport
<1>4. Grows' /\ OnARow' BY <1>0, <1>1 DEF AtTheEnd, Grows, OnARow, Live, MayShow
<1> QED BY <1>1, <1>2, <1>3, <1>4, Asked

LEMMA JumpToLiveStep == ASSUME ViewInv, JumpToLive PROVE ViewInv'
<1>0. ViewTypes /\ AtTheEnd BY DEF ViewInv
<1>1. activeSession # 0 /\ ScrollTo(At(activeSession, NewestTop(activeSession), "live"))
  BY DEF JumpToLive
<1>2. activeSession \in DOMAIN store BY <1>0, <1>1 DEF ViewTypes
<1>3. ModeAt(activeSession, TRUE) = "live" BY <1>1 DEF ModeAt
<1>4. MayShow(At(activeSession, NewestTop(activeSession), "live"))
  BY <1>0, <1>2, <1>3, SessionEnds
<1> QED BY <1>1, <1>4, ScrollStep

LEMMA BeginRecordingStep == ASSUME ViewInv, BeginRecording PROVE ViewInv'
<1>0. ViewTypes /\ AtTheEnd BY DEF ViewInv
<1>1. PICK i \in Ids \ DOMAIN store, rotated \in SUBSET DOMAIN store :
        /\ StartSession(i, rotated, {}) /\ activeSession' = i
        /\ view' = [session |-> i, top |-> StartUtc[i], mode |-> "live"]
  BY DEF BeginRecording
<1>2. UpdateRenderBuffer(view', range) /\ UNCHANGED <<range, retuning>> BY DEF BeginRecording
<1> DEFINE D == (DOMAIN store \ rotated) \union {i}
           new == [rows |-> {}, start |-> StartUtc[i], end |-> StartUtc[i], closed |-> FALSE]
<1>3. store' = [j \in D |-> IF j = i THEN new ELSE store[j]] /\ running' = running
  BY <1>1 DEF StartSession
<1>4. i \in Nat \ {0} /\ StartUtc[i] \in Nat BY <1>1, ViewAssumption DEF StoreAssumption
<1>5. new \in Session BY <1>4 DEF Session
<1>6. DOMAIN store' = D /\ i \in D /\ store'[i] = new /\ store' \in [D -> Session]
  BY <1>0, <1>3, <1>5 DEF ViewTypes
<1>7. IsFiniteSet(D) /\ D \subseteq Ids
  <2>1. IsFiniteSet(DOMAIN store) /\ DOMAIN store \subseteq Ids BY <1>0 DEF ViewTypes
  <2>2. IsFiniteSet(DOMAIN store \ rotated) BY <2>1, FS_Subset
  <2> QED BY <2>1, <2>2, FS_AddElement
<1>8. /\ view' \in [session : Ids \union {0}, top : Nat, mode : {"live", "history"}]
      /\ view'.session = i /\ view'.top = StartUtc[i]
  BY <1>1, <1>4
<1> HIDE DEF D
<1>9. activeSession' \in DOMAIN store' \union {0} /\ Grows' /\ OnARow'
  BY <1>1, <1>4, <1>6, <1>8 DEF Grows, OnARow
<1>10. /\ running' = TRUE /\ retuning' \in BOOLEAN /\ IsFiniteSet(DOMAIN store')
       /\ DOMAIN store' \subseteq Ids /\ store' \in [DOMAIN store' -> Session]
       /\ (view'.session = 0 => view.session = 0)
  BY <1>0, <1>2, <1>3, <1>4, <1>6, <1>7, <1>8 DEF ViewTypes
<1> QED BY <1>2, <1>8, <1>9, <1>10, Asked

\* The window after a live row: what was missing in between is blank, and what was shown moves
\* down to the slots of its times.
LEMMA LiveRowFills ==
  ASSUME NEW rows \in SUBSET Nat, NEW top \in Nat, NEW r \in Nat, NEW f \in Nat \ {0},
         NEW g \in 0..(Height - 1), NEW new \in [1..Height -> RowSlot],
         \A q \in rows : q <= top /\ q < r, top <= r,
         Pushed(new, Filled(rows, top, f), [row |-> r, range |-> f], g),
         \/ g = r - top - 1
         \/ g = Height - 1 /\ g < r - top - 1
         \/ g = 0 /\ Filled(rows, top, f) = Blank
  PROVE  new = Filled(rows \union {r}, r, f)
<1> USE ViewAssumption
<1> DEFINE old == Filled(rows, top, f)
           goal == Filled(rows \union {r}, r, f)
<1>1. Height \in Nat \ {0} OBVIOUS
<1>2. \A m \in 1..Height : old[m] = IF top - m + 1 \in rows
                                  THEN [row |-> top - m + 1, range |-> f] ELSE BlankSlot
  BY DEF Filled
<1>3. \A k \in 1..Height : goal[k] = IF r - k + 1 \in rows \union {r}
                                   THEN [row |-> r - k + 1, range |-> f] ELSE BlankSlot
  BY DEF Filled
<1>01. /\ new[1] = [row |-> r, range |-> f]
       /\ \A k \in 2..Height : new[k] = IF k <= g + 1 THEN BlankSlot ELSE old[k - g - 1]
  BY DEF Pushed
<1>4. new[1] = goal[1]
  <2>1. 1 \in 1..Height /\ r - 1 + 1 = r BY <1>1
  <2> HIDE DEF goal
  <2>2. goal[1] = [row |-> r, range |-> f] BY <2>1, <1>3
  <2> QED BY <2>2, <1>01
<1>5. ASSUME NEW k \in 2..Height PROVE new[k] = goal[k]
  <2>1. /\ k \in Nat /\ k >= 2 /\ k <= Height /\ g \in Nat /\ r - k + 1 \in Int
        /\ r - k + 1 < r
    BY <1>1
  <2>2. goal[k] = IF r - k + 1 \in rows THEN [row |-> r - k + 1, range |-> f] ELSE BlankSlot
    <3>1. r - k + 1 \in rows \union {r} <=> r - k + 1 \in rows
      <4>1. r - k + 1 # r BY <2>1
      <4> QED BY <4>1
    <3>2. k \in 1..Height BY <2>1
    <3> HIDE DEF goal
    <3> QED BY <3>1, <3>2, <1>3
  <2>3. CASE k <= g + 1
    <3>1. new[k] = BlankSlot BY <2>3, <1>01
    <3>2. r - k + 1 > top BY <2>1, <2>3
    <3>3. r - k + 1 \notin rows
      <4> SUFFICES ASSUME r - k + 1 \in rows PROVE FALSE OBVIOUS
      <4>1. r - k + 1 <= top OBVIOUS
      <4> QED BY <4>1, <3>2, <2>1
    <3> QED BY <3>1, <3>3, <2>2
  <2>4. CASE ~(k <= g + 1)
    <3> DEFINE m == k - g - 1
    <3>0. m \in 1..Height BY <2>1, <2>4
    <3>1. new[k] = old[m] /\ m \in 1..Height BY <2>4, <3>0, <1>01
    <3>2. CASE g = r - top - 1
      <4>0. m = k - (r - top - 1) - 1 BY <3>2
      <4>1. top - m + 1 = r - k + 1
        <5> HIDE DEF m
        <5> QED BY <4>0, <2>1
      <4> QED BY <4>1, <3>1, <2>2, <1>2
    <3>3. CASE g = Height - 1 BY <3>3, <2>1, <2>4
    <3>4. CASE g = 0 /\ old = Blank
      <4>1. new[k] = BlankSlot BY <3>1, <3>4 DEF Blank
      <4>2. r - k + 1 \notin rows
        <5> SUFFICES ASSUME r - k + 1 \in rows PROVE FALSE OBVIOUS
        <5> DEFINE n == top - r + k
        <5>1. r - k + 1 <= top OBVIOUS
        <5>2. n \in 1..Height /\ top - n + 1 = r - k + 1 BY <5>1, <2>1
        <5>3. old[n] = [row |-> r - k + 1, range |-> f] BY <5>2, <1>2
        <5>4. old[n] = BlankSlot BY <5>2, <3>4 DEF Blank
        <5>5. [row |-> r - k + 1, range |-> f].range = f /\ BlankSlot.range = 0 BY DEF BlankSlot
        <5> QED BY <5>3, <5>4, <5>5
      <4> QED BY <4>1, <4>2, <2>2
    <3> QED BY <3>2, <3>3, <3>4
  <2> QED BY <2>3, <2>4
<1>6. goal = [k \in 1..Height |-> goal[k]] BY DEF Filled
<1>7. new = [k \in 1..Height |-> new[k]] OBVIOUS
<1> HIDE DEF goal
<1>8. \A k \in 1..Height : new[k] = goal[k]
  <2>1. \A k \in 1..Height : k = 1 \/ k \in 2..Height BY <1>1
  <2> QED BY <2>1, <1>4, <1>5
<1>9. new = goal BY <1>6, <1>7, <1>8
<1> QED BY <1>9 DEF goal

LEMMA AppendRenderRowStep == ASSUME ViewInv, AppendRenderRow PROVE ViewInv'
<1> USE ViewAssumption
<1>0. ViewTypes /\ AtTheEnd /\ InOrder /\ Answered /\ InWindow BY DEF ViewInv
<1> DEFINE i == activeSession
<1>1. i # 0 /\ UNCHANGED <<activeSession, range, retuning, requestId, pending, working, results,
                           loading>>
  BY DEF AppendRenderRow, loadVars
<1>2. PICK r \in Rows :
       /\ r >= StartUtc[i]
       /\ AppendRow(i, r)
       /\ IF Live(view)
            THEN /\ view' = [view EXCEPT !.top = r]
                 /\ ring' = PushLines(<<[row |-> r, range |-> range]>> \o Gap(r))
                 /\ lastLive' = Later(lastLive, r)
                 /\ raced' = (raced \/ loading \/ OutOfTurn(r)
                                \/ (lastLive = 0 /\ ring # Blank /\ r # view.top + 1))
            ELSE /\ raced' = (raced \/ (view.session = activeSession /\ r <= view.top))
                 /\ UNCHANGED <<view, ring, lastLive>>
  BY DEF AppendRenderRow
<1> DEFINE rows == store[i].rows
<1>3. /\ i \in DOMAIN store /\ i \in Ids /\ r \in Nat /\ rows \in SUBSET Nat
      /\ store \in [DOMAIN store -> Session] /\ store[i] \in Session
      /\ store[i].start \in Nat /\ store[i].end \in Nat /\ rows \subseteq Rows
      /\ StartUtc[i] \in Nat /\ \A q \in rows : q <= store[i].end
      /\ store[i].start <= store[i].end
      /\ IF rows = {} THEN store[i].end = StartUtc[i] ELSE store[i].end \in rows
  <2>1. i \in DOMAIN store BY <1>0, <1>1 DEF ViewTypes
  <2>2. /\ store[i].start <= store[i].end /\ \A q \in rows : q <= store[i].end
        /\ IF rows = {} THEN store[i].end = StartUtc[i] ELSE store[i].end \in rows
    BY <1>0, <1>1 DEF AtTheEnd, Grows
  <2>3. /\ store[i].start \in Nat /\ store[i].end \in Nat /\ rows \in SUBSET Nat
        /\ rows \subseteq Rows /\ i \in Ids /\ StartUtc[i] \in Nat
    BY <1>0, <2>1, StoreFacts
  <2>4. r \in Nat BY DEF StoreAssumption
  <2> QED BY <2>1, <2>2, <2>3, <2>4, <1>0 DEF ViewTypes
<1>4. PICK start \in {Sooner(r, store[i].start)} \union {r} :
        /\ store' = [store EXCEPT ![i].rows = rows \union {r}, ![i].start = start,
                                  ![i].end = Later(r, store[i].end)]
        /\ running' = running
  BY <1>2 DEF AppendRow
<1> DEFINE end == Later(r, store[i].end)
<1>5. /\ start \in Nat /\ end \in Nat /\ start <= end
      /\ r <= end /\ store[i].end <= end /\ end \in {r, store[i].end}
  BY <1>3, <1>4 DEF Sooner, Later
<1> DEFINE x == [store[i] EXCEPT !.rows = rows \union {r}, !.start = start, !.end = end]
<1>6. /\ x \in Session /\ x.rows = rows \union {r} /\ x.start = start /\ x.end = end
  BY <1>2, <1>3, <1>5 DEF Session
<1>7. store' = [store EXCEPT ![i] = x] BY <1>3, <1>4
<1> HIDE DEF x, end
<1>8. /\ DOMAIN store' = DOMAIN store /\ store' \in [DOMAIN store -> Session]
      /\ store'[i] = x /\ \A j \in DOMAIN store \ {i} : store'[j] = store[j]
  BY <1>3, <1>6, <1>7
<1>9. Grows'
  <2>1. /\ store'[i].start <= store'[i].end /\ store'[i].rows = rows \union {r}
        /\ store'[i].end = end
    BY <1>5, <1>6, <1>8
  <2>2. \A q \in rows \union {r} : q <= end BY <1>3, <1>5
  <2>3. end \in rows \union {r}
    <3>1. rows = {} => end = r BY <1>2, <1>3, <1>5
    <3> QED BY <3>1, <1>3, <1>5
  <2> QED BY <2>1, <2>2, <2>3, <1>1 DEF Grows
<1>10. RowsOf(i)' = rows \union {r} /\ RowsOf(i) = rows
  <2>1. activeSession' = activeSession BY <1>1
  <2> QED BY <2>1, <1>3, <1>6, <1>8 DEF RowsOf
<1>11. InOrder'
  <2>1. view'.session = view.session BY <1>0, <1>2 DEF ViewTypes
  <2> QED BY <2>1, <1>0, <1>1 DEF InOrder
<1>12. CASE Live(view)
  <2>1. /\ view' = [view EXCEPT !.top = r] /\ lastLive' = Later(lastLive, r)
        /\ ring' = PushLines(<<[row |-> r, range |-> range]>> \o Gap(r))
        /\ raced' = (raced \/ loading \/ OutOfTurn(r)
                       \/ (lastLive = 0 /\ ring # Blank /\ r # view.top + 1))
    BY <1>2, <1>12
  <2>2. /\ view.session = i
        /\ view.top \in rows \/ (rows = {} /\ view.top = StartUtc[i])
    BY <1>0, <1>12 DEF AtTheEnd, OnARow
  <2>3. /\ view' \in [session : Ids \union {0}, top : Nat, mode : {"live", "history"}]
        /\ view'.session = i /\ view'.top = r /\ Live(view')
    BY <1>0, <1>3, <1>12, <2>1, <2>2 DEF ViewTypes, Live
  <2>4. /\ lastLive \in Nat /\ (lastLive # 0 => lastLive \in rows)
        /\ lastLive # 0 /\ ~raced => lastLive = view.top /\ \A q \in rows : q <= lastLive
    BY <1>0 DEF ViewTypes, AtTheEnd, StoreAssumption
  <2>5. lastLive' \in {r, lastLive} /\ (lastLive = 0 => lastLive' = r)
    BY <1>3, <2>1, <2>4 DEF Later
  <2> DEFINE missing == IF lastLive = 0 THEN 0 ELSE Later(r - lastLive - 1, 0)
             g == Sooner(missing, Height - 1)
             e == [row |-> r, range |-> range]
  <2>6. /\ view.top \in Nat /\ range \in Nat \ {0} /\ Height \in Nat \ {0}
        /\ e \in RowSlot /\ ring \in [1..Height -> RowSlot]
    BY <1>0, <1>3, ViewFacts DEF RowSlot, ViewTypes
  <2>7. missing \in Nat /\ g \in 0..(Height - 1)
    <3>1. missing \in Nat BY <1>3, <2>4 DEF Later
    <3> HIDE DEF missing
    <3> QED BY <2>6, <3>1 DEF Sooner
  <2>8. ASSUME ~raced'
        PROVE  /\ \A q \in rows : q < r
               /\ lastLive = 0 => g = 0
               /\ lastLive # 0 =>
                    /\ lastLive = view.top
                    /\ g = r - view.top - 1 \/ (g = Height - 1 /\ g < r - view.top - 1)
    <3>1. \A q \in rows : q < r
      <4>1. ~OutOfTurn(r) /\ activeSession = i BY <2>1, <2>8, <1>2
      <4>2. \A q \in rows : ~(q >= r) BY <4>1, <1>3 DEF OutOfTurn
      <4>3. \A q \in rows : q \in Nat BY <1>3
      <4> HIDE DEF rows
      <4> QED BY <4>2, <4>3, <1>3
    <3>2. lastLive # 0 => lastLive = view.top /\ view.top < r BY <2>1, <2>4, <2>8, <3>1
    <3>3. missing = IF lastLive = 0 THEN 0 ELSE r - view.top - 1
      BY <1>3, <2>6, <3>2 DEF Later
    <3>4. r - view.top - 1 \in Int BY <1>3, <2>6
    <3> HIDE DEF missing
    <3>5. g = IF missing < Height - 1 THEN missing ELSE Height - 1
      BY <2>6, <2>7 DEF Sooner
    <3> HIDE DEF g
    <3> QED BY <2>6, <2>7, <3>1, <3>2, <3>3, <3>4, <3>5
  <2>9. Gap(r) = Blanks(g) BY DEF Gap, Blanks
  <2> HIDE DEF g, e
  <2>10. ring' = SubSeq((<<e>> \o Blanks(g)) \o ring, 1, Height)
    BY <2>1, <2>9 DEF PushLines, e
  <2>11. ring' \in [1..Height -> RowSlot] /\ Pushed(ring', ring, e, g)
    <3>1. g \in 0..(Height - 1) /\ e \in RowSlot /\ ring \in [1..Height -> RowSlot]
      BY <2>6, <2>7
    <3> QED BY <3>1, <2>10, PushPlaces
  <2>12. ViewTypes'
    BY <1>0, <1>1, <1>3, <1>4, <1>8, <2>1, <2>3, <2>5, <2>11 DEF ViewTypes
  <2>13. AtTheEnd'
    <3>1. store'[i].rows = rows \union {r} BY <1>6, <1>8
    <3>2. OnARow' BY <1>1, <2>3, <3>1 DEF OnARow
    <3>3. lastLive' # 0 => lastLive' \in rows \union {r} BY <2>4, <2>5
    <3>4. ~raced' => lastLive' = r /\ \A q \in rows \union {r} : q <= r
      <4> SUFFICES ASSUME ~raced' PROVE lastLive' = r /\ \A q \in rows \union {r} : q <= r
        OBVIOUS
      <4>1. \A q \in rows : q < r BY <2>8
      <4>2. lastLive' = r BY <4>1, <1>3, <2>1, <2>4 DEF Later
      <4> QED BY <4>1, <4>2, <1>3
    <3> QED BY <1>1, <1>9, <2>3, <3>1, <3>2, <3>3, <3>4 DEF AtTheEnd
  <2>14. Answered'
    <3>1. loading => raced' BY <2>1
    <3> QED BY <3>1, <1>0, <1>1 DEF Answered, AsksForView
  <2>15. InWindow'
    <3> SUFFICES ASSUME ~loading, ~retuning, ~raced' PROVE ring' = ShownRows'
      BY <1>1 DEF InWindow
    <3>1. /\ ring = Filled(rows, view.top, range)
          /\ lastLive # 0 \/ ring = Blank \/ r = view.top + 1
      BY <1>0, <1>3, <1>10, <2>1, <2>2 DEF InWindow, ShownRows
    <3>2. \/ g = r - view.top - 1
          \/ g = Height - 1 /\ g < r - view.top - 1
          \/ g = 0 /\ Filled(rows, view.top, range) = Blank
      BY <3>1, <2>6, <2>8
    <3>3. \A q \in rows : q <= view.top /\ q < r
      <4>1. \A q \in rows : q < r BY <2>8
      <4>2. CASE lastLive # 0 BY <4>1, <4>2, <2>1, <2>4
      <4>3. CASE lastLive = 0 /\ r = view.top + 1 BY <4>1, <4>3, <1>3, <2>6
      <4>4. CASE lastLive = 0 /\ ring = Blank
        <5>1. view.top \notin rows
          <6> SUFFICES ASSUME view.top \in rows PROVE FALSE OBVIOUS
          <6>1. 1 \in 1..Height /\ view.top - 1 + 1 = view.top BY <2>6
          <6>2. ring[1] = [row |-> view.top, range |-> range] BY <3>1, <6>1 DEF Filled
          <6>3. ring[1] = BlankSlot BY <4>4, <6>1 DEF Blank
          <6>4. [row |-> view.top, range |-> range].range = range /\ BlankSlot.range = 0
            BY DEF BlankSlot
          <6> QED BY <6>2, <6>3, <6>4, <2>6
        <5> QED BY <4>1, <5>1, <2>2
      <4> QED BY <3>1, <4>2, <4>3, <4>4
    <3>4. view.top <= r BY <1>2, <1>3, <2>2, <2>6, <2>8
    <3> HIDE DEF rows
    <3>7. ring' = Filled(rows \union {r}, r, range)
      <4>1. Pushed(ring', Filled(rows, view.top, range), [row |-> r, range |-> range], g)
        BY <3>1, <2>11 DEF e
      <4>2. /\ rows \in SUBSET Nat /\ r \in Nat /\ view.top \in Nat /\ range \in Nat \ {0}
            /\ g \in 0..(Height - 1) /\ ring' \in [1..Height -> RowSlot]
        BY <1>3, <2>6, <2>7, <2>11
      <4> QED BY <3>2, <3>3, <3>4, <4>1, <4>2, LiveRowFills
    <3>8. ShownRows' = Filled(rows \union {r}, r, range)
      <4>1. i' = i BY <1>1
      <4>2. RowsOf(view.session)' = RowsOf(i)' BY <2>3, <4>1 DEF RowsOf
      <4> QED BY <4>2, <1>1, <1>10, <2>3 DEF ShownRows
    <3> QED BY <3>7, <3>8
  <2> QED BY <1>11, <2>12, <2>13, <2>14, <2>15 DEF ViewInv
<1>13. CASE ~Live(view)
  <2>1. /\ raced' = (raced \/ (view.session = i /\ r <= view.top))
        /\ UNCHANGED <<view, ring, lastLive>>
    BY <1>2, <1>13
  <2>2. view.top \in Nat /\ raced \in BOOLEAN BY <1>0, ViewFacts DEF ViewTypes
  <2>3. ViewTypes' BY <1>0, <1>1, <1>4, <1>8, <2>1, <2>2 DEF ViewTypes
  <2>4. AtTheEnd'
    <3>1. ~Live(view') BY <1>13, <2>1
    <3>2. lastLive' = 0 BY <1>0, <1>13, <2>1 DEF AtTheEnd
    <3> QED BY <1>9, <3>1, <3>2 DEF AtTheEnd, OnARow
  <2>5. ~raced' => ShownRows' = ShownRows
    <3> SUFFICES ASSUME ~raced' PROVE ShownRows' = ShownRows OBVIOUS
    <3>1. CASE view.session # i
      <4>1. RowsOf(view.session)' = RowsOf(view.session) BY <3>1, <1>8, <2>1 DEF RowsOf
      <4> QED BY <4>1, <1>1, <2>1 DEF ShownRows
    <3>2. CASE view.session = i
      <4>1. ~(r <= view.top) BY <3>2, <2>1
      <4>2. \A k \in 1..Height : view.top - k + 1 # r BY <4>1, <1>3, <2>2
      <4> HIDE DEF rows
      <4>3. Filled(rows \union {r}, view.top, range) = Filled(rows, view.top, range)
        BY <4>2 DEF Filled
      <4>4. RowsOf(view.session)' = rows \union {r} /\ RowsOf(view.session) = rows
        <5>1. view'.session = i /\ i' = i BY <3>2, <1>1, <2>1
        <5>2. RowsOf(view.session)' = RowsOf(i)' BY <5>1 DEF RowsOf
        <5> QED BY <5>2, <3>2, <1>10
      <4> QED BY <4>3, <4>4, <1>1, <2>1 DEF ShownRows
    <3> QED BY <3>1, <3>2
  <2>6. raced => raced' BY <2>1
  <2>7. Answered' BY <1>0, <1>1, <2>1, <2>5, <2>6 DEF Answered, AsksForView
  <2>8. InWindow' BY <1>0, <1>1, <1>8, <2>1, <2>5, <2>6 DEF InWindow
  <2> QED BY <1>11, <2>3, <2>4, <2>7, <2>8 DEF ViewInv
<1> QED BY <1>12, <1>13

LEMMA ViewInvariant == ViewSpec => []ViewInv
<1> USE ViewAssumption
<1>1. ViewInit => ViewInv
  <2> SUFFICES ASSUME ViewInit PROVE ViewInv OBVIOUS
  <2>1. /\ store = << >> /\ running = TRUE /\ activeSession = 0
        /\ view = [session |-> 0, top |-> 0, mode |-> "history"]
        /\ range = 1 /\ retuning = FALSE /\ requestId = 0
        /\ pending = <<>> /\ working = <<>> /\ results = <<>>
        /\ loading = FALSE /\ ring = Blank /\ lastLive = 0 /\ raced = FALSE
    BY DEF ViewInit, StoreInit
  <2>2. DOMAIN store = {} /\ store \in [DOMAIN store -> Session] BY <2>1
  <2>3. IsFiniteSet(DOMAIN store) BY <2>2, FS_EmptySet
  <2>4. /\ view \in [session : Ids \union {0}, top : Nat, mode : {"live", "history"}]
        /\ ~Live(view) /\ view.session = 0
    BY <2>1 DEF Live
  <2>5. ring \in [1..Height -> RowSlot] BY <2>1 DEF Blank, BlankSlot, RowSlot
  <2>6. /\ <<>> \in Seq(Request) /\ <<>> \in Seq(Answer) /\ Len(<<>>) = 0
        /\ range \in 1..Ranges /\ requestId \in 0..MaxRequests
    BY <2>1
  <2>7. ViewTypes
    <3>1. /\ IsFiniteSet(DOMAIN store) /\ DOMAIN store \subseteq Ids
          /\ store \in [DOMAIN store -> Session] /\ running = TRUE
          /\ activeSession \in DOMAIN store \union {0}
      BY <2>1, <2>2, <2>3
    <3>2. /\ pending \in Seq(Request) /\ Len(pending) <= 1
          /\ working \in Seq(Request) /\ Len(working) <= 1 /\ results \in Seq(Answer)
      BY <2>1, <2>6
    <3>3. /\ retuning \in BOOLEAN /\ loading \in BOOLEAN /\ raced \in BOOLEAN
          /\ lastLive \in Rows \union {0}
      BY <2>1
    <3> QED BY <3>1, <3>2, <3>3, <2>4, <2>5, <2>6 DEF ViewTypes
  <2>8. AtTheEnd BY <2>1, <2>4 DEF AtTheEnd, Grows, OnARow
  <2>9. InOrder BY <2>1, <2>4, <2>6 DEF InOrder
  <2>10. Answered BY <2>1, <2>6 DEF Answered
  <2>11. InWindow BY <2>2 DEF InWindow
  <2> QED BY <2>7, <2>8, <2>9, <2>10, <2>11 DEF ViewInv
<1>2. ViewInv /\ [ViewNext]_viewVars => ViewInv'
  <2> SUFFICES ASSUME ViewInv, [ViewNext]_viewVars PROVE ViewInv' OBVIOUS
  <2>1. CASE TakeRequest BY <2>1, TakeRequestStep
  <2>2. CASE LoadHistoryRows BY <2>2, LoadHistoryRowsStep
  <2>3. CASE ApplyHistoryLoadResult BY <2>3, ApplyResultStep
  <2>4. CASE BeginRecording BY <2>4, BeginRecordingStep
  <2>5. CASE FinishRecording BY <2>5, FinishRecordingStep
  <2>6. CASE AppendRenderRow BY <2>6, AppendRenderRowStep
  <2>7. CASE ScrollHistory
    <3>1. ViewTypes /\ AtTheEnd BY DEF ViewInv
    <3>2. MayShow(Older(view, WheelStep)) /\ MayShow(TowardLive(view, WheelStep))
      BY <3>1, WheelTurns
    <3>3. CASE ScrollTo(Older(view, WheelStep)) BY <3>2, <3>3, ScrollStep
    <3>4. CASE ScrollTo(TowardLive(view, WheelStep)) BY <3>2, <3>4, ScrollStep
    <3> QED BY <2>7, <3>3, <3>4 DEF ScrollHistory
  <2>8. CASE JumpToLive BY <2>8, JumpToLiveStep
  <2>9. CASE ScheduleRetune BY <2>9, ScheduleRetuneStep
  <2>10. CASE CommitViewport BY <2>10, CommitViewportStep
  <2>11. CASE UNCHANGED viewVars BY <2>11, ViewStutter
  <2> QED
    BY <2>1, <2>2, <2>3, <2>4, <2>5, <2>6, <2>7, <2>8, <2>9, <2>10, <2>11 DEF ViewNext
<1> QED BY <1>1, <1>2, PTL DEF ViewSpec

\* appendRenderRow, applyHistoryLoadResult: when nothing is being loaded and no live row raced
\* with a request or came out of turn since the last one, the window shows the rows that the
\* session holds at the times of the viewport, for any number of sessions, rows and requests
\* and rows of any time; only an active session is live.
THEOREM ViewIsFaithful == ViewSpec => []ViewShowsStore
<1>1. ViewInv => ViewShowsStore
  <2> SUFFICES ASSUME ViewInv PROVE ViewShowsStore OBVIOUS
  <2>1. ViewTypes /\ AtTheEnd /\ InWindow BY DEF ViewInv
  <2>2. ViewTypeOK
    <3>1. Len(ring) = Height BY <2>1, RingIsSeq DEF ViewTypes
    <3> QED BY <3>1, <2>1 DEF ViewTypeOK, ViewTypes, AtTheEnd, OnARow
  <2>3. RingShowsStore
    <3>1. Slots(view.session, view.top, range) = ShownRows
      <4>1. view.top \in Nat /\ RowsOf(view.session) \subseteq Nat
        BY <2>1, ViewFacts, StoreFacts
      <4> QED BY <4>1, WindowIsWhole DEF ShownRows
    <3> QED BY <3>1, <2>1 DEF RingShowsStore, InWindow
  <2> QED BY <2>2, <2>3 DEF ViewShowsStore
<1> QED BY <1>1, ViewInvariant, PTL

-----------------------------------------------------------------------------
(* SnapshotDelivery: the handlers of the GUI thread, by what is left of them. *)

Report == [scan : Nat, ok : BOOLEAN, owed : SUBSET Nat]
Recorded == Step("recorded", "none")
Ends == {Recorded} \union {Step("post", q) : q \in Report}

\* The last n steps of the start of a recording; with a sector scan, they end with the sweep.
Start1 ==
  <<Step("sourceOn", "none")>>
Start2 ==
  <<Step("configure", "parameters"), Step("sourceOn", "none")>>
Start3 ==
  <<Step("reset", "parameters"), Step("configure", "parameters"), Step("sourceOn", "none")>>
Start4 ==
  <<Step("configure", "bearing"), Step("reset", "parameters"),
    Step("configure", "parameters"), Step("sourceOn", "none")>>
Start5 ==
  <<Step("reset", "bearing"), Step("configure", "bearing"), Step("reset", "parameters"),
    Step("configure", "parameters"), Step("sourceOn", "none")>>
Sweep0 ==
  <<Step("sweep", "none")>>
Sweep1 ==
  <<Step("sourceOn", "none"), Step("sweep", "none")>>
Sweep2 ==
  <<Step("configure", "parameters"), Step("sourceOn", "none"), Step("sweep", "none")>>
Sweep3 ==
  <<Step("reset", "parameters"), Step("configure", "parameters"), Step("sourceOn", "none"),
    Step("sweep", "none")>>
Sweep4 ==
  <<Step("configure", "bearing"), Step("reset", "parameters"),
    Step("configure", "parameters"), Step("sourceOn", "none"), Step("sweep", "none")>>
Sweep5 ==
  <<Step("reset", "bearing"), Step("configure", "bearing"), Step("reset", "parameters"),
    Step("configure", "parameters"), Step("sourceOn", "none"), Step("sweep", "none")>>
Starts == {Start1, Start2, Start3, Start4, Start5}
Sweeps == {Sweep0, Sweep1, Sweep2, Sweep3, Sweep4, Sweep5}

\* The last n steps of a flush before e.
Flush0(e) ==
  <<e>>
Flush1(e) ==
  <<Step("publish", "parameters"), e>>
Flush2(e) ==
  <<Step("build", "parameters"), Step("publish", "parameters"), e>>
Flush3(e) ==
  <<Step("publish", "bearing"), Step("build", "parameters"), Step("publish", "parameters"),
    e>>
Flush4(e) ==
  <<Step("build", "bearing"), Step("publish", "bearing"), Step("build", "parameters"),
    Step("publish", "parameters"), e>>
Flush5(e) ==
  <<Step("publish", "spectrum"), Step("build", "bearing"), Step("publish", "bearing"),
    Step("build", "parameters"), Step("publish", "parameters"), e>>
Flush6(e) ==
  <<Step("build", "spectrum"), Step("publish", "spectrum"), Step("build", "bearing"),
    Step("publish", "bearing"), Step("build", "parameters"), Step("publish", "parameters"),
    e>>
FlushOf2(e) ==
  <<Step("await", "none"), Step("build", "bearing"), Step("publish", "bearing"),
    Step("build", "parameters"), Step("publish", "parameters"), e>>
FlushOf3(e) ==
  <<Step("await", "none"), Step("build", "spectrum"), Step("publish", "spectrum"),
    Step("build", "bearing"), Step("publish", "bearing"), Step("build", "parameters"),
    Step("publish", "parameters"), e>>
StopOf2 ==
  <<Step("sourceOff", "none"), Step("await", "none"), Step("build", "bearing"),
    Step("publish", "bearing"), Step("build", "parameters"), Step("publish", "parameters"),
    Recorded>>
StopOf3 ==
  <<Step("sourceOff", "none"), Step("await", "none"), Step("build", "spectrum"),
    Step("publish", "spectrum"), Step("build", "bearing"), Step("publish", "bearing"),
    Step("build", "parameters"), Step("publish", "parameters"), Recorded>>
WholeFlush(e) == IF "spectrum" \in Stages THEN FlushOf3(e) ELSE FlushOf2(e)
WholeStop == IF "spectrum" \in Stages THEN StopOf3 ELSE StopOf2
Flushes(e) ==
  {WholeFlush(e), Flush0(e), Flush1(e), Flush2(e), Flush3(e), Flush4(e)}
    \union (IF "spectrum" \in Stages THEN {Flush5(e), Flush6(e)} ELSE {})

Left(g) == g = <<>> \/ g \in Starts \/ g \in Sweeps \/ g = WholeStop
             \/ \E e \in Ends : g \in Flushes(e)

Op(g) == IF g = <<>> THEN "none" ELSE Head(g).op
Ahead(g, op, s) == g # <<>> /\ Head(g).op = op /\ Head(g).stage = s
EndOf(g) == IF g = <<>> THEN Step("none", "none") ELSE g[Len(g)]

\* What a step of g leaves, t: the start of a recording, and the flush or stop.
StartGoesOn(g, t) ==
  /\ EndOf(g).op \in {"sourceOn", "sweep"}
  /\ \/ Ahead(g, "reset", "bearing") /\ Ahead(t, "configure", "bearing")
     \/ Ahead(g, "configure", "bearing") /\ Ahead(t, "reset", "parameters")
     \/ Ahead(g, "reset", "parameters") /\ Ahead(t, "configure", "parameters")
     \/ Ahead(g, "configure", "parameters") /\ Op(t) = "sourceOn"
     \/ Op(g) = "sourceOn" /\ (t = <<>> \/ Op(t) = "sweep")
     \/ Op(g) = "sweep" /\ EndOf(g).op = "sweep" /\ t = <<>>
FlushGoesOn(g, t) ==
  /\ EndOf(g).op \in {"recorded", "post"}
  /\ \/ Op(g) = "sourceOff" /\ Op(t) = "await" /\ EndOf(g).op = "recorded"
     \/ Op(g) = "await" /\ Op(t) = "build"
     \/ \E s \in Stages : Ahead(g, "build", s) /\ Ahead(t, "publish", s)
     \/ \E s \in Stages \ {"parameters"} : Ahead(g, "publish", s) /\ Op(t) = "build"
     \/ Ahead(g, "publish", "parameters") /\ Op(t) = EndOf(g).op
     \/ Op(g) = EndOf(g).op /\ Head(g) = EndOf(g) /\ t = <<>>
Onward(g, t) == StartGoesOn(g, t) \/ FlushGoesOn(g, t)

GoesOn(g) ==
  /\ Left(Tail(g)) /\ Onward(g, Tail(g))
  /\ Tail(g) # <<>> => EndOf(Tail(g)) = EndOf(g)

LEMMA StartGoesOnward == \A g \in Starts : GoesOn(g)
<1>1. GoesOn(Start1)
  <2>1. Tail(Start1) = <<>> BY DEF Start1
  <2>2. EndOf(Start1) = Step("sourceOn", "none") BY DEF Start1, EndOf
  <2>3. StartGoesOn(Start1, <<>>)
    <3>1. EndOf(Start1).op = "sourceOn"
      BY <2>2 DEF Step
    <3> QED
      BY <2>2, <3>1
      DEF StartGoesOn, Start1, Ahead, Op, Step
  <2>4. Left(<<>>) BY DEF Left
  <2> QED BY <2>1, <2>2, <2>3, <2>4 DEF GoesOn, Onward
<1>2. GoesOn(Start2)
  <2>1. Tail(Start2) = Start1 /\ Start1 # <<>> BY DEF Start2, Start1
  <2>2. EndOf(Start2) = Step("sourceOn", "none") /\ EndOf(Start1) = Step("sourceOn", "none")
    BY DEF Start2, Start1, EndOf
  <2>3. StartGoesOn(Start2, Start1)
    <3>1. EndOf(Start2).op = "sourceOn"
      BY <2>2 DEF Step
    <3> QED
      BY <2>2, <3>1
      DEF StartGoesOn, Start2, Start1, Ahead, Op, Step
  <2>4. Left(Start1) BY DEF Left, Starts
  <2> QED BY <2>1, <2>2, <2>3, <2>4 DEF GoesOn, Onward
<1>3. GoesOn(Start3)
  <2>1. Tail(Start3) = Start2 /\ Start2 # <<>> BY DEF Start3, Start2
  <2>2. EndOf(Start3) = Step("sourceOn", "none") /\ EndOf(Start2) = Step("sourceOn", "none")
    BY DEF Start3, Start2, EndOf
  <2>3. StartGoesOn(Start3, Start2)
    <3>1. EndOf(Start3).op = "sourceOn"
      BY <2>2 DEF Step
    <3> QED
      BY <2>2, <3>1
      DEF StartGoesOn, Start3, Start2, Ahead, Op, Step
  <2>4. Left(Start2) BY DEF Left, Starts
  <2> QED BY <2>1, <2>2, <2>3, <2>4 DEF GoesOn, Onward
<1>4. GoesOn(Start4)
  <2>1. Tail(Start4) = Start3 /\ Start3 # <<>> BY DEF Start4, Start3
  <2>2. EndOf(Start4) = Step("sourceOn", "none") /\ EndOf(Start3) = Step("sourceOn", "none")
    BY DEF Start4, Start3, EndOf
  <2>3. StartGoesOn(Start4, Start3)
    <3>1. EndOf(Start4).op = "sourceOn"
      BY <2>2 DEF Step
    <3> QED
      BY <2>2, <3>1
      DEF StartGoesOn, Start4, Start3, Ahead, Op, Step
  <2>4. Left(Start3) BY DEF Left, Starts
  <2> QED BY <2>1, <2>2, <2>3, <2>4 DEF GoesOn, Onward
<1>5. GoesOn(Start5)
  <2>1. Tail(Start5) = Start4 /\ Start4 # <<>> BY DEF Start5, Start4
  <2>2. EndOf(Start5) = Step("sourceOn", "none") /\ EndOf(Start4) = Step("sourceOn", "none")
    BY DEF Start5, Start4, EndOf
  <2>3. StartGoesOn(Start5, Start4)
    <3>1. EndOf(Start5).op = "sourceOn"
      BY <2>2 DEF Step
    <3> QED
      BY <2>2, <3>1
      DEF StartGoesOn, Start5, Start4, Ahead, Op, Step
  <2>4. Left(Start4) BY DEF Left, Starts
  <2> QED BY <2>1, <2>2, <2>3, <2>4 DEF GoesOn, Onward
<1> QED BY <1>1, <1>2, <1>3, <1>4, <1>5 DEF Starts

LEMMA SweepGoesOnward == \A g \in Sweeps : GoesOn(g)
<1>0. GoesOn(Sweep0)
  <2>1. Tail(Sweep0) = <<>> BY DEF Sweep0
  <2>2. EndOf(Sweep0) = Step("sweep", "none") BY DEF Sweep0, EndOf
  <2>3. StartGoesOn(Sweep0, <<>>)
    <3>1. EndOf(Sweep0).op = "sweep"
      BY <2>2 DEF Step
    <3> QED
      BY <2>2, <3>1
      DEF StartGoesOn, Sweep0, Ahead, Op, Step
  <2>4. Left(<<>>) BY DEF Left
  <2> QED BY <2>1, <2>2, <2>3, <2>4 DEF GoesOn, Onward
<1>1. GoesOn(Sweep1)
  <2>1. Tail(Sweep1) = Sweep0 /\ Sweep0 # <<>> BY DEF Sweep1, Sweep0
  <2>2. EndOf(Sweep1) = Step("sweep", "none") /\ EndOf(Sweep0) = Step("sweep", "none")
    BY DEF Sweep1, Sweep0, EndOf
  <2>3. StartGoesOn(Sweep1, Sweep0)
    <3>1. EndOf(Sweep1).op = "sweep"
      BY <2>2 DEF Step
    <3> QED
      BY <2>2, <3>1
      DEF StartGoesOn, Sweep1, Sweep0, Ahead, Op, Step
  <2>4. Left(Sweep0) BY DEF Left, Sweeps
  <2> QED BY <2>1, <2>2, <2>3, <2>4 DEF GoesOn, Onward
<1>2. GoesOn(Sweep2)
  <2>1. Tail(Sweep2) = Sweep1 /\ Sweep1 # <<>> BY DEF Sweep2, Sweep1
  <2>2. EndOf(Sweep2) = Step("sweep", "none") /\ EndOf(Sweep1) = Step("sweep", "none")
    BY DEF Sweep2, Sweep1, EndOf
  <2>3. StartGoesOn(Sweep2, Sweep1)
    <3>1. EndOf(Sweep2).op = "sweep"
      BY <2>2 DEF Step
    <3> QED
      BY <2>2, <3>1
      DEF StartGoesOn, Sweep2, Sweep1, Ahead, Op, Step
  <2>4. Left(Sweep1) BY DEF Left, Sweeps
  <2> QED BY <2>1, <2>2, <2>3, <2>4 DEF GoesOn, Onward
<1>3. GoesOn(Sweep3)
  <2>1. Tail(Sweep3) = Sweep2 /\ Sweep2 # <<>> BY DEF Sweep3, Sweep2
  <2>2. EndOf(Sweep3) = Step("sweep", "none") /\ EndOf(Sweep2) = Step("sweep", "none")
    BY DEF Sweep3, Sweep2, EndOf
  <2>3. StartGoesOn(Sweep3, Sweep2)
    <3>1. EndOf(Sweep3).op = "sweep"
      BY <2>2 DEF Step
    <3> QED
      BY <2>2, <3>1
      DEF StartGoesOn, Sweep3, Sweep2, Ahead, Op, Step
  <2>4. Left(Sweep2) BY DEF Left, Sweeps
  <2> QED BY <2>1, <2>2, <2>3, <2>4 DEF GoesOn, Onward
<1>4. GoesOn(Sweep4)
  <2>1. Tail(Sweep4) = Sweep3 /\ Sweep3 # <<>> BY DEF Sweep4, Sweep3
  <2>2. EndOf(Sweep4) = Step("sweep", "none") /\ EndOf(Sweep3) = Step("sweep", "none")
    BY DEF Sweep4, Sweep3, EndOf
  <2>3. StartGoesOn(Sweep4, Sweep3)
    <3>1. EndOf(Sweep4).op = "sweep"
      BY <2>2 DEF Step
    <3> QED
      BY <2>2, <3>1
      DEF StartGoesOn, Sweep4, Sweep3, Ahead, Op, Step
  <2>4. Left(Sweep3) BY DEF Left, Sweeps
  <2> QED BY <2>1, <2>2, <2>3, <2>4 DEF GoesOn, Onward
<1>5. GoesOn(Sweep5)
  <2>1. Tail(Sweep5) = Sweep4 /\ Sweep4 # <<>> BY DEF Sweep5, Sweep4
  <2>2. EndOf(Sweep5) = Step("sweep", "none") /\ EndOf(Sweep4) = Step("sweep", "none")
    BY DEF Sweep5, Sweep4, EndOf
  <2>3. StartGoesOn(Sweep5, Sweep4)
    <3>1. EndOf(Sweep5).op = "sweep"
      BY <2>2 DEF Step
    <3> QED
      BY <2>2, <3>1
      DEF StartGoesOn, Sweep5, Sweep4, Ahead, Op, Step
  <2>4. Left(Sweep4) BY DEF Left, Sweeps
  <2> QED BY <2>1, <2>2, <2>3, <2>4 DEF GoesOn, Onward
<1> QED BY <1>0, <1>1, <1>2, <1>3, <1>4, <1>5 DEF Sweeps

LEMMA EndFacts ==
  ASSUME NEW e \in Ends
  PROVE  /\ e.op \in {"recorded", "post"}
         /\ e.op = "post" => e.stage \in Report /\ e = Step("post", e.stage)
BY DEF Ends, Recorded, Step

LEMMA FlushGoesOnward ==
  ASSUME NEW e \in Ends
  PROVE  \A g \in Flushes(e) : GoesOn(g)
<1>0. GoesOn(Flush0(e))
  <2>1. Tail(Flush0(e)) = <<>> BY DEF Flush0
  <2>2. EndOf(Flush0(e)) = e BY DEF Flush0, EndOf
  <2>3. FlushGoesOn(Flush0(e), <<>>)
    <3>1. EndOf(Flush0(e)).op \in {"recorded", "post"}
      BY EndFacts, <2>2 DEF Step
    <3> QED
      BY EndFacts, SnapshotAssumption, <2>2, <3>1
      DEF FlushGoesOn, Flush0, Ahead, Op, Step
  <2>4. Left(<<>>) BY DEF Left
  <2> QED BY <2>1, <2>2, <2>3, <2>4 DEF GoesOn, Onward
<1>1. GoesOn(Flush1(e))
  <2>1. Tail(Flush1(e)) = Flush0(e) /\ Flush0(e) # <<>> BY DEF Flush1, Flush0
  <2>2. EndOf(Flush1(e)) = e /\ EndOf(Flush0(e)) = e
    BY DEF Flush1, Flush0, EndOf
  <2>3. FlushGoesOn(Flush1(e), Flush0(e))
    <3>1. EndOf(Flush1(e)).op \in {"recorded", "post"}
      BY EndFacts, <2>2 DEF Step
    <3> QED
      BY EndFacts, SnapshotAssumption, <2>2, <3>1
      DEF FlushGoesOn, Flush1, Flush0, Ahead, Op, Step
  <2>4. Left(Flush0(e)) BY DEF Left, Flushes
  <2> QED BY <2>1, <2>2, <2>3, <2>4 DEF GoesOn, Onward
<1>2. GoesOn(Flush2(e))
  <2>1. Tail(Flush2(e)) = Flush1(e) /\ Flush1(e) # <<>> BY DEF Flush2, Flush1
  <2>2. EndOf(Flush2(e)) = e /\ EndOf(Flush1(e)) = e
    BY DEF Flush2, Flush1, EndOf
  <2>3. FlushGoesOn(Flush2(e), Flush1(e))
    <3>1. EndOf(Flush2(e)).op \in {"recorded", "post"}
      BY EndFacts, <2>2 DEF Step
    <3> QED
      BY EndFacts, SnapshotAssumption, <2>2, <3>1
      DEF FlushGoesOn, Flush2, Flush1, Ahead, Op, Step
  <2>4. Left(Flush1(e)) BY DEF Left, Flushes
  <2> QED BY <2>1, <2>2, <2>3, <2>4 DEF GoesOn, Onward
<1>3. GoesOn(Flush3(e))
  <2>1. Tail(Flush3(e)) = Flush2(e) /\ Flush2(e) # <<>> BY DEF Flush3, Flush2
  <2>2. EndOf(Flush3(e)) = e /\ EndOf(Flush2(e)) = e
    BY DEF Flush3, Flush2, EndOf
  <2>3. FlushGoesOn(Flush3(e), Flush2(e))
    <3>1. EndOf(Flush3(e)).op \in {"recorded", "post"}
      BY EndFacts, <2>2 DEF Step
    <3> QED
      BY EndFacts, SnapshotAssumption, <2>2, <3>1
      DEF FlushGoesOn, Flush3, Flush2, Ahead, Op, Step
  <2>4. Left(Flush2(e)) BY DEF Left, Flushes
  <2> QED BY <2>1, <2>2, <2>3, <2>4 DEF GoesOn, Onward
<1>4. GoesOn(Flush4(e))
  <2>1. Tail(Flush4(e)) = Flush3(e) /\ Flush3(e) # <<>> BY DEF Flush4, Flush3
  <2>2. EndOf(Flush4(e)) = e /\ EndOf(Flush3(e)) = e
    BY DEF Flush4, Flush3, EndOf
  <2>3. FlushGoesOn(Flush4(e), Flush3(e))
    <3>1. EndOf(Flush4(e)).op \in {"recorded", "post"}
      BY EndFacts, <2>2 DEF Step
    <3> QED
      BY EndFacts, SnapshotAssumption, <2>2, <3>1
      DEF FlushGoesOn, Flush4, Flush3, Ahead, Op, Step
  <2>4. Left(Flush3(e)) BY DEF Left, Flushes
  <2> QED BY <2>1, <2>2, <2>3, <2>4 DEF GoesOn, Onward
<1>5. ASSUME "spectrum" \in Stages PROVE GoesOn(Flush5(e))
  <2>1. Tail(Flush5(e)) = Flush4(e) /\ Flush4(e) # <<>> BY DEF Flush5, Flush4
  <2>2. EndOf(Flush5(e)) = e /\ EndOf(Flush4(e)) = e
    BY DEF Flush5, Flush4, EndOf
  <2>3. FlushGoesOn(Flush5(e), Flush4(e))
    <3>1. EndOf(Flush5(e)).op \in {"recorded", "post"}
      BY EndFacts, <2>2 DEF Step
    <3> QED
      BY <1>5, EndFacts, SnapshotAssumption, <2>2, <3>1
      DEF FlushGoesOn, Flush5, Flush4, Ahead, Op, Step
  <2>4. Left(Flush4(e)) BY <1>5 DEF Left, Flushes
  <2> QED BY <2>1, <2>2, <2>3, <2>4 DEF GoesOn, Onward
<1>6. ASSUME "spectrum" \in Stages PROVE GoesOn(Flush6(e))
  <2>1. Tail(Flush6(e)) = Flush5(e) /\ Flush5(e) # <<>> BY DEF Flush6, Flush5
  <2>2. EndOf(Flush6(e)) = e /\ EndOf(Flush5(e)) = e
    BY DEF Flush6, Flush5, EndOf
  <2>3. FlushGoesOn(Flush6(e), Flush5(e))
    <3>1. EndOf(Flush6(e)).op \in {"recorded", "post"}
      BY EndFacts, <2>2 DEF Step
    <3> QED
      BY <1>6, EndFacts, SnapshotAssumption, <2>2, <3>1
      DEF FlushGoesOn, Flush6, Flush5, Ahead, Op, Step
  <2>4. Left(Flush5(e)) BY <1>6 DEF Left, Flushes
  <2> QED BY <2>1, <2>2, <2>3, <2>4 DEF GoesOn, Onward
<1>7. ASSUME "spectrum" \in Stages PROVE GoesOn(FlushOf3(e))
  <2>1. Tail(FlushOf3(e)) = Flush6(e) /\ Flush6(e) # <<>> BY DEF FlushOf3, Flush6
  <2>2. EndOf(FlushOf3(e)) = e /\ EndOf(Flush6(e)) = e
    BY DEF FlushOf3, Flush6, EndOf
  <2>3. FlushGoesOn(FlushOf3(e), Flush6(e))
    <3>1. EndOf(FlushOf3(e)).op \in {"recorded", "post"}
      BY EndFacts, <2>2 DEF Step
    <3> QED
      BY <1>7, EndFacts, SnapshotAssumption, <2>2, <3>1
      DEF FlushGoesOn, FlushOf3, Flush6, Ahead, Op, Step
  <2>4. Left(Flush6(e)) BY <1>7 DEF Left, Flushes
  <2> QED BY <2>1, <2>2, <2>3, <2>4 DEF GoesOn, Onward
<1>8. ASSUME "spectrum" \notin Stages PROVE GoesOn(FlushOf2(e))
  <2>1. Tail(FlushOf2(e)) = Flush4(e) /\ Flush4(e) # <<>> BY DEF FlushOf2, Flush4
  <2>2. EndOf(FlushOf2(e)) = e /\ EndOf(Flush4(e)) = e
    BY DEF FlushOf2, Flush4, EndOf
  <2>3. FlushGoesOn(FlushOf2(e), Flush4(e))
    <3>1. EndOf(FlushOf2(e)).op \in {"recorded", "post"}
      BY EndFacts, <2>2 DEF Step
    <3> QED
      BY <1>8, EndFacts, SnapshotAssumption, <2>2, <3>1
      DEF FlushGoesOn, FlushOf2, Flush4, Ahead, Op, Step
  <2>4. Left(Flush4(e)) BY <1>8 DEF Left, Flushes
  <2> QED BY <2>1, <2>2, <2>3, <2>4 DEF GoesOn, Onward
<1> QED BY <1>0, <1>1, <1>2, <1>3, <1>4, <1>5, <1>6, <1>7, <1>8 DEF Flushes, WholeFlush

LEMMA StopGoesOnward == GoesOn(WholeStop)
<1>1. Recorded \in Ends /\ Recorded.op = "recorded" BY DEF Ends, Recorded, Step
<1>2. ASSUME "spectrum" \in Stages PROVE GoesOn(StopOf3)
  <2>1. Tail(StopOf3) = FlushOf3(Recorded) /\ FlushOf3(Recorded) # <<>> BY DEF StopOf3, FlushOf3
  <2>2. EndOf(StopOf3) = Recorded /\ EndOf(FlushOf3(Recorded)) = Recorded
    BY DEF StopOf3, FlushOf3, EndOf
  <2>3. FlushGoesOn(StopOf3, FlushOf3(Recorded))
    BY <1>1, <2>2 DEF FlushGoesOn, StopOf3, FlushOf3, Op, Step
  <2>4. Left(FlushOf3(Recorded)) BY <1>1, <1>2 DEF Left, Flushes, WholeFlush
  <2> QED BY <2>1, <2>2, <2>3, <2>4 DEF GoesOn, Onward
<1>3. ASSUME "spectrum" \notin Stages PROVE GoesOn(StopOf2)
  <2>1. Tail(StopOf2) = FlushOf2(Recorded) /\ FlushOf2(Recorded) # <<>> BY DEF StopOf2, FlushOf2
  <2>2. EndOf(StopOf2) = Recorded /\ EndOf(FlushOf2(Recorded)) = Recorded
    BY DEF StopOf2, FlushOf2, EndOf
  <2>3. FlushGoesOn(StopOf2, FlushOf2(Recorded))
    BY <1>1, <2>2 DEF FlushGoesOn, StopOf2, FlushOf2, Op, Step
  <2>4. Left(FlushOf2(Recorded)) BY <1>1, <1>3 DEF Left, Flushes, WholeFlush
  <2> QED BY <2>1, <2>2, <2>3, <2>4 DEF GoesOn, Onward
<1> QED BY <1>2, <1>3 DEF WholeStop

LEMMA WhatIsLeft ==
  ASSUME NEW g, Left(g), g # <<>>
  PROVE  GoesOn(g)
BY StartGoesOnward, SweepGoesOnward, FlushGoesOnward, StopGoesOnward DEF Left

\* Joining tuples.
LEMMA JoinIs ==
  ASSUME NEW S, NEW s \in Seq(S), NEW t \in Seq(S), NEW r \in Seq(S),
         Len(r) = Len(s) + Len(t),
         \A i \in 1..Len(s) : r[i] = s[i],
         \A i \in 1..Len(t) : r[Len(s) + i] = t[i]
  PROVE  s \o t = r
<1>1. /\ s \o t \in Seq(S) /\ Len(s \o t) = Len(s) + Len(t)
      /\ \A i \in 1..(Len(s) + Len(t)) :
           (s \o t)[i] = IF i <= Len(s) THEN s[i] ELSE t[i - Len(s)]
  BY ConcatProperties
<1>2. Len(s) \in Nat /\ Len(t) \in Nat BY LenProperties
<1>3. ASSUME NEW i \in 1..Len(s \o t) PROVE (s \o t)[i] = r[i]
  <2>1. CASE i <= Len(s) BY <1>1, <1>2, <2>1
  <2>2. CASE ~(i <= Len(s))
    <3>1. i - Len(s) \in 1..Len(t) /\ Len(s) + (i - Len(s)) = i BY <1>1, <1>2, <2>2
    <3> QED BY <1>1, <2>2, <3>1
  <2> QED BY <2>1, <2>2
<1> QED BY <1>1, <1>3, SeqEqual

LEMMA Join1And2 ==
  ASSUME NEW a, NEW b, NEW c
  PROVE  <<a>> \o <<b, c>> = <<a, b, c>>
<1> DEFINE S == {a, b, c}
           s == <<a>>
           t == <<b, c>>
           r == <<a, b, c>>
<1>1. s \in Seq(S) /\ t \in Seq(S) /\ r \in Seq(S) OBVIOUS
<1>2. Len(s) = 1 /\ Len(t) = 2 /\ Len(r) = 3 OBVIOUS
<1>3. (\A j \in 1..1 : r[j] = s[j]) /\ (\A j \in 1..2 : r[1 + j] = t[j]) OBVIOUS
<1> HIDE DEF S, s, t, r
<1>4. /\ Len(r) = Len(s) + Len(t) /\ \A j \in 1..Len(s) : r[j] = s[j]
      /\ \A j \in 1..Len(t) : r[Len(s) + j] = t[j]
  BY <1>2, <1>3
<1>5. s \o t = r BY <1>1, <1>4, JoinIs
<1> QED BY <1>5 DEF s, t, r

LEMMA Join3And2 ==
  ASSUME NEW a, NEW b, NEW c, NEW d, NEW e
  PROVE  <<a, b, c>> \o <<d, e>> = <<a, b, c, d, e>>
<1> DEFINE S == {a, b, c, d, e}
           s == <<a, b, c>>
           t == <<d, e>>
           r == <<a, b, c, d, e>>
<1>1. s \in Seq(S) /\ t \in Seq(S) /\ r \in Seq(S) OBVIOUS
<1>2. Len(s) = 3 /\ Len(t) = 2 /\ Len(r) = 5 OBVIOUS
<1>3. (\A j \in 1..3 : r[j] = s[j]) /\ (\A j \in 1..2 : r[3 + j] = t[j]) OBVIOUS
<1> HIDE DEF S, s, t, r
<1>4. /\ Len(r) = Len(s) + Len(t) /\ \A j \in 1..Len(s) : r[j] = s[j]
      /\ \A j \in 1..Len(t) : r[Len(s) + j] = t[j]
  BY <1>2, <1>3
<1>5. s \o t = r BY <1>1, <1>4, JoinIs
<1> QED BY <1>5 DEF s, t, r

LEMMA Join5And2 ==
  ASSUME NEW a, NEW b, NEW c, NEW d, NEW e, NEW f, NEW g
  PROVE  <<a, b, c, d, e>> \o <<f, g>> = <<a, b, c, d, e, f, g>>
<1> DEFINE S == {a, b, c, d, e, f, g}
           s == <<a, b, c, d, e>>
           t == <<f, g>>
           r == <<a, b, c, d, e, f, g>>
<1>1. s \in Seq(S) /\ t \in Seq(S) /\ r \in Seq(S) OBVIOUS
<1>2. Len(s) = 5 /\ Len(t) = 2 /\ Len(r) = 7 OBVIOUS
<1>3. (\A j \in 1..5 : r[j] = s[j]) /\ (\A j \in 1..2 : r[5 + j] = t[j]) OBVIOUS
<1> HIDE DEF S, s, t, r
<1>4. /\ Len(r) = Len(s) + Len(t) /\ \A j \in 1..Len(s) : r[j] = s[j]
      /\ \A j \in 1..Len(t) : r[Len(s) + j] = t[j]
  BY <1>2, <1>3
<1>5. s \o t = r BY <1>1, <1>4, JoinIs
<1> QED BY <1>5 DEF s, t, r

LEMMA Join5And1 ==
  ASSUME NEW a, NEW b, NEW c, NEW d, NEW e, NEW f
  PROVE  <<a, b, c, d, e>> \o <<f>> = <<a, b, c, d, e, f>>
<1> DEFINE S == {a, b, c, d, e, f}
           s == <<a, b, c, d, e>>
           t == <<f>>
           r == <<a, b, c, d, e, f>>
<1>1. s \in Seq(S) /\ t \in Seq(S) /\ r \in Seq(S) OBVIOUS
<1>2. Len(s) = 5 /\ Len(t) = 1 /\ Len(r) = 6 OBVIOUS
<1>3. (\A j \in 1..5 : r[j] = s[j]) /\ (\A j \in 1..1 : r[5 + j] = t[j]) OBVIOUS
<1> HIDE DEF S, s, t, r
<1>4. /\ Len(r) = Len(s) + Len(t) /\ \A j \in 1..Len(s) : r[j] = s[j]
      /\ \A j \in 1..Len(t) : r[Len(s) + j] = t[j]
  BY <1>2, <1>3
<1>5. s \o t = r BY <1>1, <1>4, JoinIs
<1> QED BY <1>5 DEF s, t, r

LEMMA Join7And1 ==
  ASSUME NEW a, NEW b, NEW c, NEW d, NEW e, NEW f, NEW g, NEW h
  PROVE  <<a, b, c, d, e, f, g>> \o <<h>> = <<a, b, c, d, e, f, g, h>>
<1> DEFINE S == {a, b, c, d, e, f, g, h}
           s == <<a, b, c, d, e, f, g>>
           t == <<h>>
           r == <<a, b, c, d, e, f, g, h>>
<1>1. s \in Seq(S) /\ t \in Seq(S) /\ r \in Seq(S) OBVIOUS
<1>2. Len(s) = 7 /\ Len(t) = 1 /\ Len(r) = 8 OBVIOUS
<1>3. (\A j \in 1..7 : r[j] = s[j]) /\ (\A j \in 1..1 : r[7 + j] = t[j]) OBVIOUS
<1> HIDE DEF S, s, t, r
<1>4. /\ Len(r) = Len(s) + Len(t) /\ \A j \in 1..Len(s) : r[j] = s[j]
      /\ \A j \in 1..Len(t) : r[Len(s) + j] = t[j]
  BY <1>2, <1>3
<1>5. s \o t = r BY <1>1, <1>4, JoinIs
<1> QED BY <1>5 DEF s, t, r

LEMMA Join1And7 ==
  ASSUME NEW a, NEW b, NEW c, NEW d, NEW e, NEW f, NEW g, NEW h
  PROVE  <<a>> \o <<b, c, d, e, f, g, h>> = <<a, b, c, d, e, f, g, h>>
<1> DEFINE S == {a, b, c, d, e, f, g, h}
           s == <<a>>
           t == <<b, c, d, e, f, g, h>>
           r == <<a, b, c, d, e, f, g, h>>
<1>1. s \in Seq(S) /\ t \in Seq(S) /\ r \in Seq(S) OBVIOUS
<1>2. Len(s) = 1 /\ Len(t) = 7 /\ Len(r) = 8 OBVIOUS
<1>3. (\A j \in 1..1 : r[j] = s[j]) /\ (\A j \in 1..7 : r[1 + j] = t[j]) OBVIOUS
<1> HIDE DEF S, s, t, r
<1>4. /\ Len(r) = Len(s) + Len(t) /\ \A j \in 1..Len(s) : r[j] = s[j]
      /\ \A j \in 1..Len(t) : r[Len(s) + j] = t[j]
  BY <1>2, <1>3
<1>5. s \o t = r BY <1>1, <1>4, JoinIs
<1> QED BY <1>5 DEF s, t, r

LEMMA Join8And1 ==
  ASSUME NEW a, NEW b, NEW c, NEW d, NEW e, NEW f, NEW g, NEW h, NEW i
  PROVE  <<a, b, c, d, e, f, g, h>> \o <<i>> = <<a, b, c, d, e, f, g, h, i>>
<1> DEFINE S == {a, b, c, d, e, f, g, h, i}
           s == <<a, b, c, d, e, f, g, h>>
           t == <<i>>
           r == <<a, b, c, d, e, f, g, h, i>>
<1>1. s \in Seq(S) /\ t \in Seq(S) /\ r \in Seq(S) OBVIOUS
<1>2. Len(s) = 8 /\ Len(t) = 1 /\ Len(r) = 9 OBVIOUS
<1>3. (\A j \in 1..8 : r[j] = s[j]) /\ (\A j \in 1..1 : r[8 + j] = t[j]) OBVIOUS
<1> HIDE DEF S, s, t, r
<1>4. /\ Len(r) = Len(s) + Len(t) /\ \A j \in 1..Len(s) : r[j] = s[j]
      /\ \A j \in 1..Len(t) : r[Len(s) + j] = t[j]
  BY <1>2, <1>3
<1>5. s \o t = r BY <1>1, <1>4, JoinIs
<1> QED BY <1>5 DEF s, t, r

LEMMA Join1And5 ==
  ASSUME NEW a, NEW b, NEW c, NEW d, NEW e, NEW f
  PROVE  <<a>> \o <<b, c, d, e, f>> = <<a, b, c, d, e, f>>
<1> DEFINE S == {a, b, c, d, e, f}
           s == <<a>>
           t == <<b, c, d, e, f>>
           r == <<a, b, c, d, e, f>>
<1>1. s \in Seq(S) /\ t \in Seq(S) /\ r \in Seq(S) OBVIOUS
<1>2. Len(s) = 1 /\ Len(t) = 5 /\ Len(r) = 6 OBVIOUS
<1>3. (\A j \in 1..1 : r[j] = s[j]) /\ (\A j \in 1..5 : r[1 + j] = t[j]) OBVIOUS
<1> HIDE DEF S, s, t, r
<1>4. /\ Len(r) = Len(s) + Len(t) /\ \A j \in 1..Len(s) : r[j] = s[j]
      /\ \A j \in 1..Len(t) : r[Len(s) + j] = t[j]
  BY <1>2, <1>3
<1>5. s \o t = r BY <1>1, <1>4, JoinIs
<1> QED BY <1>5 DEF s, t, r

LEMMA Join6And1 ==
  ASSUME NEW a, NEW b, NEW c, NEW d, NEW e, NEW f, NEW g
  PROVE  <<a, b, c, d, e, f>> \o <<g>> = <<a, b, c, d, e, f, g>>
<1> DEFINE S == {a, b, c, d, e, f, g}
           s == <<a, b, c, d, e, f>>
           t == <<g>>
           r == <<a, b, c, d, e, f, g>>
<1>1. s \in Seq(S) /\ t \in Seq(S) /\ r \in Seq(S) OBVIOUS
<1>2. Len(s) = 6 /\ Len(t) = 1 /\ Len(r) = 7 OBVIOUS
<1>3. (\A j \in 1..6 : r[j] = s[j]) /\ (\A j \in 1..1 : r[6 + j] = t[j]) OBVIOUS
<1> HIDE DEF S, s, t, r
<1>4. /\ Len(r) = Len(s) + Len(t) /\ \A j \in 1..Len(s) : r[j] = s[j]
      /\ \A j \in 1..Len(t) : r[Len(s) + j] = t[j]
  BY <1>2, <1>3
<1>5. s \o t = r BY <1>1, <1>4, JoinIs
<1> QED BY <1>5 DEF s, t, r

LEMMA Handlers ==
  /\ StartSteps = Start5 /\ StartSteps \o <<Step("sweep", "none")>> = Sweep5
  /\ StopSteps = WholeStop
  /\ \A e : FlushSteps \o <<e>> = WholeFlush(e)
  /\ Len(FlushSteps) = IF "spectrum" \in Stages THEN 7 ELSE 5
<1>1. StartSteps = Start5 BY DEF StartSteps, Start5
<1>2. StartSteps \o <<Step("sweep", "none")>> = Sweep5 BY Join5And1 DEF StartSteps, Sweep5
<1> DEFINE F(s) == <<Step("build", s), Step("publish", s)>>
           A == <<Step("await", "none")>>
<1>3. Flushed("bearing") = F("bearing") /\ Flushed("parameters") = F("parameters")
  BY SnapshotAssumption DEF Flushed
<1>4. CASE "spectrum" \in Stages
  <2>1. A \o F("spectrum")
        = <<Step("await", "none"), Step("build", "spectrum"), Step("publish", "spectrum")>>
    BY Join1And2
  <2>2. <<Step("await", "none"), Step("build", "spectrum"), Step("publish", "spectrum")>>
          \o F("bearing")
        = <<Step("await", "none"), Step("build", "spectrum"), Step("publish", "spectrum"),
            Step("build", "bearing"), Step("publish", "bearing")>>
    BY Join3And2
  <2>8. <<Step("await", "none"), Step("build", "spectrum"), Step("publish", "spectrum"),
          Step("build", "bearing"), Step("publish", "bearing")>> \o F("parameters")
        = <<Step("await", "none"), Step("build", "spectrum"), Step("publish", "spectrum"),
        Step("build", "bearing"), Step("publish", "bearing"),
        Step("build", "parameters"), Step("publish", "parameters")>>
    BY Join5And2
  <2>9. FlushSteps = ((A \o F("spectrum")) \o F("bearing")) \o F("parameters")
    BY <1>3, <1>4 DEF FlushSteps, Flushed
  <2>3. FlushSteps =
        <<Step("await", "none"), Step("build", "spectrum"), Step("publish", "spectrum"),
        Step("build", "bearing"), Step("publish", "bearing"),
        Step("build", "parameters"), Step("publish", "parameters")>>
    BY <2>1, <2>2, <2>8, <2>9
  <2>4. ASSUME NEW e PROVE FlushSteps \o <<e>> = WholeFlush(e)
    BY <1>4, <2>3, Join7And1 DEF WholeFlush, FlushOf3
  <2>5. <<Step("sourceOff", "none")>> \o FlushSteps
        = <<Step("sourceOff", "none"), Step("await", "none"),
            Step("build", "spectrum"), Step("publish", "spectrum"),
            Step("build", "bearing"), Step("publish", "bearing"),
            Step("build", "parameters"), Step("publish", "parameters")>>
    BY <2>3, Join1And7
  <2>6. StopSteps = WholeStop
    <3>1. StopSteps = (<<Step("sourceOff", "none")>> \o FlushSteps) \o <<Recorded>>
      BY DEF StopSteps, Recorded
    <3>2. WholeStop = StopOf3 BY <1>4 DEF WholeStop
    <3>3. <<Step("sourceOff", "none"), Step("await", "none"),
            Step("build", "spectrum"), Step("publish", "spectrum"),
            Step("build", "bearing"), Step("publish", "bearing"),
            Step("build", "parameters"), Step("publish", "parameters")>> \o <<Recorded>> = StopOf3
      BY Join8And1 DEF StopOf3
    <3> QED BY <2>5, <3>1, <3>2, <3>3
  <2>7. Len(FlushSteps) = 7 BY <2>3
  <2> QED BY <1>1, <1>2, <1>4, <2>4, <2>6, <2>7
<1>5. CASE "spectrum" \notin Stages
  <2>1. A \o <<>> = A
    <3>1. A \in Seq({Step("await", "none")}) OBVIOUS
    <3> QED BY <3>1, ConcatEmptySeq
  <2>2. A \o F("bearing")
        = <<Step("await", "none"), Step("build", "bearing"), Step("publish", "bearing")>>
    BY Join1And2
  <2>8. <<Step("await", "none"), Step("build", "bearing"), Step("publish", "bearing")>>
          \o F("parameters")
        = <<Step("await", "none"), Step("build", "bearing"), Step("publish", "bearing"),
        Step("build", "parameters"), Step("publish", "parameters")>>
    BY Join3And2
  <2>9. FlushSteps = ((A \o <<>>) \o F("bearing")) \o F("parameters")
    BY <1>3, <1>5 DEF FlushSteps, Flushed
  <2>3. FlushSteps = <<Step("await", "none"), Step("build", "bearing"), Step("publish", "bearing"),
        Step("build", "parameters"), Step("publish", "parameters")>>
    BY <2>1, <2>2, <2>8, <2>9
  <2>4. ASSUME NEW e PROVE FlushSteps \o <<e>> = WholeFlush(e)
    BY <1>5, <2>3, Join5And1 DEF WholeFlush, FlushOf2
  <2>5. <<Step("sourceOff", "none")>> \o FlushSteps
        = <<Step("sourceOff", "none"), Step("await", "none"),
            Step("build", "bearing"), Step("publish", "bearing"),
            Step("build", "parameters"), Step("publish", "parameters")>>
    BY <2>3, Join1And5
  <2>6. StopSteps = WholeStop
    <3>1. StopSteps = (<<Step("sourceOff", "none")>> \o FlushSteps) \o <<Recorded>>
      BY DEF StopSteps, Recorded
    <3>2. WholeStop = StopOf2 BY <1>5 DEF WholeStop
    <3>3. <<Step("sourceOff", "none"), Step("await", "none"),
            Step("build", "bearing"), Step("publish", "bearing"),
            Step("build", "parameters"), Step("publish", "parameters")>> \o <<Recorded>> = StopOf2
      BY Join6And1 DEF StopOf2
    <3> QED BY <2>5, <3>1, <3>2, <3>3
  <2>7. Len(FlushSteps) = 5 BY <2>3
  <2> QED BY <1>1, <1>2, <1>5, <2>4, <2>6, <2>7
<1> QED BY <1>4, <1>5

\* A flush that times out leaves only the last step.
LEMMA OnlyTheEnd ==
  ASSUME NEW g, Left(g), Op(g) = "await"
  PROVE  /\ SubSeq(g, Len(FlushSteps) + 1, Len(g)) = <<EndOf(g)>>
         /\ EndOf(g) \in Ends /\ \E i \in 1..Len(g) : g[i] = EndOf(g)
<1>1. PICK e \in Ends : g = WholeFlush(e)
  <2>1. g # <<>> BY DEF Op
  <2>2. /\ \A h \in Starts \union Sweeps \union {WholeStop} : Op(h) # "await"
        /\ \A e \in Ends : /\ Op(Flush0(e)) # "await" /\ Op(Flush1(e)) # "await"
                           /\ Op(Flush2(e)) # "await" /\ Op(Flush3(e)) # "await"
                           /\ Op(Flush4(e)) # "await" /\ Op(Flush5(e)) # "await"
                           /\ Op(Flush6(e)) # "await"
    <3>1. \A h \in Starts : Op(h) # "await"
      BY DEF Starts, Start1, Start2, Start3, Start4, Start5, Op, Step
    <3>2. \A h \in Sweeps : Op(h) # "await"
      BY DEF Sweeps, Sweep0, Sweep1, Sweep2, Sweep3, Sweep4, Sweep5, Op, Step
    <3>3. Op(WholeStop) # "await" BY DEF WholeStop, StopOf2, StopOf3, Op, Step
    <3>4. ASSUME NEW e \in Ends
          PROVE  /\ Op(Flush0(e)) # "await" /\ Op(Flush1(e)) # "await"
                 /\ Op(Flush2(e)) # "await" /\ Op(Flush3(e)) # "await"
                 /\ Op(Flush4(e)) # "await" /\ Op(Flush5(e)) # "await"
                 /\ Op(Flush6(e)) # "await"
      BY EndFacts DEF Flush0, Flush1, Flush2, Flush3, Flush4, Flush5, Flush6, Op, Step
    <3> QED BY <3>1, <3>2, <3>3, <3>4
  <2> QED BY <2>1, <2>2 DEF Left, Flushes
<1> DEFINE n == Len(FlushSteps)
<1>2. /\ n \in Nat /\ Len(g) = n + 1 /\ g[n + 1] = e /\ EndOf(g) = e
      /\ g \in Seq({g[i] : i \in DOMAIN g})
  <2>1. CASE "spectrum" \in Stages
    BY <1>1, <2>1, Handlers DEF WholeFlush, FlushOf3, EndOf
  <2>2. CASE "spectrum" \notin Stages
    BY <1>1, <2>2, Handlers DEF WholeFlush, FlushOf2, EndOf
  <2> QED BY <2>1, <2>2
<1> DEFINE S == {g[i] : i \in DOMAIN g}
           r == SubSeq(g, n + 1, Len(g))
<1>3. g \in Seq(S) /\ n \in 0..Len(g) BY <1>2
<1> HIDE DEF n, S
<1>4. r \in Seq(S) /\ Len(r) = 1 /\ \A i \in 1..Len(r) : r[i] = g[n + i]
  <2>1. /\ SubSeq(g, n + 1, Len(g)) \in Seq(S)
        /\ Len(SubSeq(g, n + 1, Len(g))) = Len(g) - n
        /\ \A i \in 1..Len(SubSeq(g, n + 1, Len(g))) : SubSeq(g, n + 1, Len(g))[i] = g[n + i]
    BY <1>3, CutPlaces
  <2>2. Len(g) - n = 1 BY <1>2
  <2> QED BY <2>1, <2>2
<1> HIDE DEF r
<1>5. r[1] = e /\ e \in S
  <2>1. 1 \in 1..Len(r) BY <1>4
  <2>2. r[1] = g[n + 1] BY <1>4, <2>1
  <2>3. r[1] \in S BY <1>4, <2>1, ElementOfSeq
  <2> QED BY <1>2, <2>2, <2>3
<1>6. <<e>> \in Seq(S) /\ Len(<<e>>) = 1 /\ <<e>>[1] = e BY <1>5
<1>7. r = <<e>> BY <1>4, <1>5, <1>6, SeqEqual
<1>8. n + 1 \in 1..Len(g) BY <1>2
<1> QED BY <1>1, <1>2, <1>7, <1>8 DEF n, r

-----------------------------------------------------------------------------
(* SnapshotDelivery: the inductive invariant.  First the engine and the handlers. *)

Snapshots == [id : Nat \ {0}, blocks : SUBSET Nat]

EngineTypes ==
  /\ source \in BOOLEAN /\ forced \in BOOLEAN /\ active \in BOOLEAN
  /\ flushed \in BOOLEAN /\ overrun \in BOOLEAN /\ timeouts \in 0..MaxTimeouts
  /\ origin \in Seq(1..MaxRecordings) /\ Len(origin) <= MaxBlocks
  /\ recording \in 0..MaxRecordings
  /\ todo \in [Stages -> Seq(Nat)] /\ open \in [Stages -> SUBSET Nat]
  /\ nextId \in [Stages -> Nat \ {0}]
  /\ held \in [Stages -> Snapshots \union {None}]
  /\ latest \in [Stages -> Snapshots \union {None}]
  /\ built \in Snapshots \union {None}
  /\ Left(gui)

\* What the engine holds are blocks that were ingested.
KnownBlocks ==
  \A s \in Stages :
    /\ open[s] \subseteq 1..Len(origin) /\ ToSet(todo[s]) \subseteq 1..Len(origin)
    /\ \A x \in {latest[s], held[s], built} \ {None} : x.blocks \subseteq 1..Len(origin)

Starting == Op(gui) \in {"reset", "configure", "sourceOn"}
Ending == EndOf(gui).op = "recorded"
Posting == EndOf(gui).op = "post"

\* No block is on its way: there is no recording, or it starts or has been drained.
AtRest == ~active \/ Starting \/ (Ending /\ Op(gui) \notin {"sourceOff", "await"})

Control ==
  /\ source => active
  /\ active => recording >= 1
  /\ Starting => /\ active /\ ~source
                 /\ \A b \in 1..Len(origin) : origin[b] < recording
  /\ Ending => active /\ (Op(gui) # "sourceOff" => ~source)
  /\ Op(gui) = "sweep" => active

Resting == AtRest /\ ~overrun => \A s \in Stages : todo[s] = <<>> /\ held[s] = None

\* What a start has already put back.
StartedAfresh ==
  Starting /\ ~overrun =>
    /\ ~Ahead(gui, "reset", "bearing") => latest["bearing"] = None
    /\ ~Ahead(gui, "reset", "bearing") /\ ~Ahead(gui, "configure", "bearing")
         => open["bearing"] = {}
    /\ Ahead(gui, "configure", "parameters") \/ Op(gui) = "sourceOn"
         => latest["parameters"] = None
    /\ Op(gui) = "sourceOn" => open["parameters"] = {}

\* The snapshots of a stage that can still be read.
Given(s) == ({latest[s], held[s]} \union (IF Ahead(gui, "publish", s) THEN {built} ELSE {}))
              \ {None}
Recent(S) == \A b \in S : origin[b] = recording

OwnBlocks ==
  ~overrun /\ ~Starting =>
    \A s \in {"bearing", "parameters"} :
      /\ Recent(open[s]) /\ Recent(ToSet(todo[s]))
      /\ \A x \in Given(s) : Recent(x.blocks)

NewestShown ==
  AtRest /\ ~Starting /\ ~overrun =>
    /\ Ahead(gui, "publish", "parameters")
         => built # None /\ built.id = nextId["parameters"] - 1
    /\ Op(gui) \in {"none", "recorded", "post"} /\ latest["parameters"] # None
         => latest["parameters"].id = nextId["parameters"] - 1

\* A number stands for one set of blocks.
Numbered ==
  ~overrun =>
    \A x \in Given("parameters") :
      /\ x.id < nextId["parameters"]
      /\ \A y \in Given("parameters") : x.id = y.id => x.blocks = y.blocks

\* The accumulated parameters miss no block of the recording but those still to come.
Accumulated ==
  \A b \in 1..Len(origin) :
    /\ origin[b] <= recording
    /\ origin[b] = recording => b \in open["parameters"] \union ToSet(todo["parameters"])

EngineInv ==
  /\ EngineTypes /\ KnownBlocks /\ Control /\ Resting /\ StartedAfresh
  /\ OwnBlocks /\ NewestShown /\ Numbered /\ Accumulated

-----------------------------------------------------------------------------
(* Then the scan.                                                            *)

ScanTypes ==
  /\ state \in {"idle", "moving", "scanning", "completing"}
  /\ scan \in 0..MaxScans /\ since \in 0..recording
  /\ timers \in Seq(Nat) /\ posted \in Seq(Report)
  /\ adapterLast \in [Stages -> Nat] /\ controllerLast \in [Stages -> Nat]
  /\ bearings \subseteq 1..Len(origin) /\ params \subseteq 1..Len(origin)

OnTheMove ==
  /\ Starting => since < recording
  /\ EndOf(gui).op = "sweep" => state = "moving"
  /\ state = "moving" => controllerLast["parameters"] = 0 /\ bearings = {} /\ params = {}

Seen ==
  ~overrun /\ Sweeping /\ since = recording =>
    /\ controllerLast["parameters"] < nextId["parameters"]
    /\ \A x \in Given("parameters") : x.id = controllerLast["parameters"] => x.blocks = params

\* A callback is of a scan that has begun, and of an earlier one while a scan is on its way.
Past(n) == n <= scan /\ (state = "moving" => n < scan)

\* No snapshot still to come hides the blocks o, and none has.
Carried(o) ==
  /\ o \subseteq open["parameters"]
  /\ held["parameters"] # None => o \subseteq held["parameters"].blocks
  /\ Ahead(gui, "publish", "parameters") => built # None /\ o \subseteq built.blocks
Exposed(o) == latest["parameters"] # None /\ o \subseteq latest["parameters"].blocks

FlushUnderWay ==
  Posting =>
    LET q == EndOf(gui).stage IN
    /\ Past(q.scan) /\ q.owed \subseteq Of(recording)
    /\ Op(gui) # "await" /\ flushed /\ ~overrun => Carried(q.owed)
    /\ Op(gui) = "post" /\ flushed /\ ~overrun => Exposed(q.owed)

\* The callback of the last flush of this scan, if that succeeded, finds what it owes.
Backed(q) ==
  /\ Past(q.scan)
  /\ q.ok /\ q.scan = scan /\ since = recording /\ Sweeping /\ ~overrun
       => Carried(q.owed) /\ Exposed(q.owed)

FlushesDone ==
  /\ \A n \in ToSet(timers) : Past(n)
  /\ \A q \in ToSet(posted) : Backed(q)

ScanInv ==
  /\ EngineInv
  /\ ScanTypes /\ OnTheMove /\ ScanUsesItsOwn /\ Seen
  /\ FlushUnderWay /\ FlushesDone /\ FinalParametersComplete

-----------------------------------------------------------------------------
(* The engine, step by step.                                                 *)

LEMMA EngineShapes ==
  ASSUME EngineTypes
  PROVE  /\ "bearing" \in Stages /\ "parameters" \in Stages
         /\ \A s \in Stages :
              /\ todo[s] \in Seq(Nat) /\ open[s] \in SUBSET Nat /\ nextId[s] \in Nat \ {0}
              /\ held[s] \in Snapshots \union {None} /\ latest[s] \in Snapshots \union {None}
         /\ Len(origin) \in Nat /\ recording \in Nat
         /\ \A b \in 1..Len(origin) : origin[b] \in Nat
         /\ \A x \in Snapshots : x.id \in Nat \ {0} /\ x.blocks \in SUBSET Nat /\ x # None
<1>1. "bearing" \in Stages /\ "parameters" \in Stages BY SnapshotAssumption
<1>2. Len(origin) \in Nat /\ \A b \in 1..Len(origin) : origin[b] \in 1..MaxRecordings
  BY LenProperties, ElementOfSeq DEF EngineTypes
<1>3. MaxRecordings \in Nat BY SnapshotAssumption
<1>4. \A x \in Snapshots : x.id \in Nat \ {0} /\ x.blocks \in SUBSET Nat BY DEF Snapshots
<1>5. \A x \in Snapshots : x # None
  <2>1. Snapshots \subseteq [id : Nat, blocks : SUBSET Nat] BY DEF Snapshots
  <2> QED BY <2>1, SnapshotAssumption
<1>6. recording \in Nat BY <1>3 DEF EngineTypes
<1>7. ASSUME NEW s \in Stages
      PROVE  /\ todo[s] \in Seq(Nat) /\ open[s] \in SUBSET Nat /\ nextId[s] \in Nat \ {0}
             /\ held[s] \in Snapshots \union {None} /\ latest[s] \in Snapshots \union {None}
  BY DEF EngineTypes
<1> QED BY <1>1, <1>2, <1>3, <1>4, <1>5, <1>6, <1>7

LEMMA Progress ==
  ASSUME EngineTypes, gui # <<>>, gui' = Tail(gui)
  PROVE  /\ Left(gui') /\ Onward(gui, gui')
         /\ gui' # <<>> => EndOf(gui') = EndOf(gui)
         /\ gui' = <<>> => EndOf(gui').op = "none" /\ Op(gui') = "none"
<1>1. GoesOn(gui) BY WhatIsLeft DEF EngineTypes
<1> QED BY <1>1 DEF GoesOn, EndOf, Op, Step

\* A step that leaves the engine alone and readies nothing to publish.
LEMMA NothingMoves ==
  ASSUME EngineInv, UNCHANGED <<todo, open, nextId, held, latest, built, origin>>,
         recording' = recording, overrun => overrun',
         \A s \in Stages : ~Ahead(gui', "publish", s)
  PROVE  /\ KnownBlocks' /\ Numbered' /\ Accumulated'
         /\ ~Starting => OwnBlocks'
<1>1. \A s \in Stages : Given(s)' \subseteq Given(s) BY DEF Given
<1>2. "bearing" \in Stages /\ "parameters" \in Stages BY SnapshotAssumption
<1>3. KnownBlocks' BY DEF EngineInv, KnownBlocks
<1>4. Numbered' BY <1>1, <1>2 DEF EngineInv, Numbered
<1>5. Accumulated' BY DEF EngineInv, Accumulated
<1>6. ASSUME ~Starting PROVE OwnBlocks'
  BY <1>1, <1>2, <1>6 DEF EngineInv, OwnBlocks, Recent
<1> QED BY <1>3, <1>4, <1>5, <1>6


\* The flush: it waits, builds and publishes.
LEMMA AwaitDrainedKeeps == EngineInv /\ AwaitDrained => EngineInv'
<1> SUFFICES ASSUME EngineInv, AwaitDrained PROVE EngineInv' OBVIOUS
<1>1. /\ gui # <<>> /\ Op(gui) = "await" /\ gui' = Tail(gui) /\ Drained /\ flushed' = TRUE
      /\ UNCHANGED <<source, todo, open, nextId, forced, held, latest, built, recording,
                     active, overrun, timeouts, origin>>
  BY DEF AwaitDrained, Doing, Proceed, Op, stageVars, scanVars, seenVars
<1>2. /\ Left(gui') /\ gui' # <<>> /\ EndOf(gui') = EndOf(gui) /\ Op(gui') = "build"
      /\ \A s \in Stages : ~Ahead(gui', "publish", s)
  BY <1>1, Progress DEF EngineInv, Onward, StartGoesOn, FlushGoesOn, Ahead, Op
<1>3. ~Starting /\ ~Starting' BY <1>1, <1>2 DEF Starting
<1>4. EngineTypes' BY <1>1, <1>2 DEF EngineInv, EngineTypes
<1>5. KnownBlocks' /\ Numbered' /\ Accumulated' /\ OwnBlocks' BY <1>1, <1>2, <1>3, NothingMoves
<1>6. Control' BY <1>1, <1>2, <1>3 DEF EngineInv, Control, Ending
<1>7. Resting' BY <1>1 DEF Drained, Resting
<1>8. StartedAfresh' /\ NewestShown'
  BY <1>2, <1>3, SnapshotAssumption DEF StartedAfresh, NewestShown
<1> QED BY <1>4, <1>5, <1>6, <1>7, <1>8 DEF EngineInv

LEMMA AwaitTimesOutKeeps == EngineInv /\ AwaitTimesOut => EngineInv'
<1> SUFFICES ASSUME EngineInv, AwaitTimesOut PROVE EngineInv' OBVIOUS
<1>1. /\ gui # <<>> /\ Op(gui) = "await" /\ ~Drained /\ flushed' = FALSE
      /\ timeouts' = timeouts + 1 /\ timeouts < MaxTimeouts
      /\ gui' = SubSeq(gui, Len(FlushSteps) + 1, Len(gui))
      /\ overrun' = (overrun \/ \E i \in 1..Len(gui) : gui[i].op = "recorded")
      /\ UNCHANGED <<source, todo, open, nextId, forced, held, latest, built, recording,
                     active, origin>>
  BY DEF AwaitTimesOut, Doing, Op, stageVars, scanVars, seenVars
<1>2. /\ gui' = <<EndOf(gui)>> /\ EndOf(gui) \in Ends
      /\ \E i \in 1..Len(gui) : gui[i] = EndOf(gui)
  BY <1>1, OnlyTheEnd DEF EngineInv, EngineTypes
<1>3. EndOf(gui).op \in {"recorded", "post"} BY <1>2, EndFacts
<1>4. /\ Left(gui') /\ EndOf(gui') = EndOf(gui) /\ Op(gui') = EndOf(gui).op
      /\ \A s \in Stages : ~Ahead(gui', "publish", s)
  <2>1. Left(gui') BY <1>2 DEF Left, Flushes, Flush0
  <2>2. EndOf(gui') = EndOf(gui) BY <1>2 DEF EndOf
  <2>3. Op(gui') = EndOf(gui).op BY <1>2 DEF Op
  <2>4. \A s \in Stages : ~Ahead(gui', "publish", s) BY <1>3, <2>3 DEF Ahead, Op
  <2> QED BY <2>1, <2>2, <2>3, <2>4
<1>5. ~Starting /\ ~Starting' BY <1>1, <1>3, <1>4 DEF Starting
<1>6. Ending => overrun' BY <1>1, <1>2 DEF Ending
<1>7. overrun' \in BOOLEAN /\ (overrun => overrun') BY <1>1 DEF EngineInv, EngineTypes
<1>8. EngineTypes'
  <2>1. timeouts' \in 0..MaxTimeouts BY <1>1, SnapshotAssumption DEF EngineInv, EngineTypes
  <2> QED BY <1>1, <1>4, <1>7, <2>1 DEF EngineInv, EngineTypes
<1>9. KnownBlocks' /\ Numbered' /\ Accumulated' /\ OwnBlocks'
  BY <1>1, <1>4, <1>5, <1>7, NothingMoves
<1>10. Control' BY <1>1, <1>3, <1>4, <1>5 DEF EngineInv, Control, Ending
<1>11. ~overrun' => ~AtRest'
  <2>1. ASSUME ~overrun', ~active PROVE FALSE
    BY <1>1, <1>7, <2>1 DEF EngineInv, Resting, AtRest, Drained
  <2> QED BY <1>1, <1>4, <1>5, <1>6, <2>1 DEF AtRest, Ending
<1>12. Resting' /\ StartedAfresh' /\ NewestShown'
  BY <1>5, <1>11 DEF Resting, StartedAfresh, NewestShown
<1> QED BY <1>8, <1>9, <1>10, <1>12 DEF EngineInv

LEMMA BuildKeeps == EngineInv /\ Build => EngineInv'
<1> SUFFICES ASSUME EngineInv, Build PROVE EngineInv' OBVIOUS
<1> DEFINE s == Head(gui).stage
           builds == s = "parameters" \/ open[s] # {}
<1>1. /\ gui # <<>> /\ Op(gui) = "build" /\ gui' = Tail(gui)
      /\ built' = (IF builds THEN Snapshot(s) ELSE None)
      /\ nextId' = [nextId EXCEPT ![s] = IF builds THEN @ + 1 ELSE @]
      /\ open' = [open EXCEPT ![s] = IF s = "parameters" THEN @ ELSE {}]
      /\ forced' = (forced /\ s # "parameters")
      /\ UNCHANGED <<source, todo, held, latest, recording, active, flushed, overrun,
                     timeouts, origin>>
  BY DEF Build, Doing, Proceed, Op, recordVars
<1>2. /\ Left(gui') /\ gui' # <<>> /\ EndOf(gui') = EndOf(gui) /\ Op(gui') = "publish"
      /\ s \in Stages /\ Ahead(gui', "publish", s)
      /\ EndOf(gui).op \in {"recorded", "post"}
  BY <1>1, Progress DEF EngineInv, Onward, StartGoesOn, FlushGoesOn, Ahead, Op
<1>3. \A t \in Stages : Ahead(gui', "publish", t) => t = s BY <1>2 DEF Ahead
<1> HIDE DEF s
<1>4. ~Starting /\ ~Starting' BY <1>1, <1>2 DEF Starting
<1>5. EngineTypes /\ s \in Stages BY <1>2 DEF EngineInv
<1>6. /\ Snapshot(s) \in Snapshots /\ Snapshot(s).id = nextId[s] /\ Snapshot(s).blocks = open[s]
      /\ built' \in {None, Snapshot(s)}
      /\ s = "parameters" => built' = Snapshot(s) /\ built' # None
  BY <1>1, <1>5, EngineShapes DEF Snapshot, Snapshots
<1>7. /\ open' \in [Stages -> SUBSET Nat] /\ nextId' \in [Stages -> Nat \ {0}]
      /\ \A t \in Stages : open'[t] \subseteq open[t] /\ (t # s => nextId'[t] = nextId[t])
      /\ open'["parameters"] = open["parameters"]
      /\ s = "parameters" => nextId'["parameters"] = nextId["parameters"] + 1
  <2>1. \A t \in Stages : open[t] \in SUBSET Nat /\ nextId[t] \in Nat \ {0}
    BY <1>5, EngineShapes
  <2>2. open \in [Stages -> SUBSET Nat] /\ nextId \in [Stages -> Nat \ {0}]
    BY <1>5 DEF EngineTypes
  <2>3. (IF builds THEN nextId[s] + 1 ELSE nextId[s]) \in Nat \ {0} BY <1>5, <2>1
  <2> HIDE DEF builds
  <2>4. /\ open' \in [Stages -> SUBSET Nat]
        /\ \A t \in Stages : open'[t] \subseteq open[t]
        /\ open'["parameters"] = open["parameters"]
    BY <1>1, <1>5, <2>1, <2>2, SnapshotAssumption
  <2>5. /\ nextId' \in [Stages -> Nat \ {0}]
        /\ \A t \in Stages : nextId'[t] = IF t # s THEN nextId[t]
                                          ELSE IF builds THEN nextId[s] + 1 ELSE nextId[s]
    BY <1>1, <1>5, <2>2, <2>3
  <2> QED BY <1>5, <2>4, <2>5 DEF builds
<1> HIDE DEF builds
<1>8. EngineTypes'
  <2>1. forced' \in BOOLEAN BY <1>1 DEF EngineInv, EngineTypes
  <2>2. built' \in Snapshots \union {None} BY <1>6
  <2> QED BY <1>1, <1>2, <1>7, <2>1, <2>2 DEF EngineInv, EngineTypes
<1>9. \A t \in Stages : \A x \in Given(t)' :
        x \in {latest[t], held[t]} \ {None} \/ (t = s /\ x = Snapshot(s))
  BY <1>1, <1>3, <1>6 DEF Given
<1>10. \A t \in Stages : {latest[t], held[t]} \ {None} \subseteq Given(t) BY DEF Given
<1>11. KnownBlocks' BY <1>1, <1>5, <1>6, <1>7 DEF EngineInv, KnownBlocks
<1>12. Control' BY <1>1, <1>2, <1>4 DEF EngineInv, Control, Ending
<1>13. AtRest' => AtRest BY <1>1, <1>2, <1>4 DEF AtRest, Ending
<1>14. Resting' BY <1>1, <1>13 DEF EngineInv, Resting
<1>15. StartedAfresh' BY <1>4 DEF StartedAfresh
<1>16. OwnBlocks'
  <2> SUFFICES ASSUME ~overrun, NEW t \in {"bearing", "parameters"}
               PROVE  /\ Recent(open[t])' /\ Recent(ToSet(todo[t]))'
                      /\ \A x \in Given(t)' : Recent(x.blocks)'
    BY <1>1 DEF OwnBlocks
  <2>1. t \in Stages BY SnapshotAssumption
  <2>2. /\ Recent(open[t]) /\ Recent(ToSet(todo[t])) /\ \A x \in Given(t) : Recent(x.blocks)
    BY <1>4 DEF EngineInv, OwnBlocks
  <2>3. \A S : Recent(S)' = Recent(S) BY <1>1 DEF Recent
  <2>4. \A x \in Given(t)' : x \in Given(t) \/ x.blocks = open[t]
    BY <1>6, <1>9, <1>10, <2>1
  <2>5. open'[t] \subseteq open[t] /\ todo' = todo BY <1>1, <1>7, <2>1
  <2>6. Recent(open[t])' /\ Recent(ToSet(todo[t]))' BY <1>1, <2>2, <2>5 DEF Recent
  <2>7. \A x \in Given(t)' : Recent(x.blocks)' BY <2>2, <2>3, <2>4
  <2> QED BY <2>6, <2>7
<1>17. NewestShown'
  <2>1. nextId["parameters"] \in Nat BY <1>5, EngineShapes
  <2> QED BY <1>2, <1>3, <1>6, <1>7, <2>1, SnapshotAssumption DEF NewestShown
<1>18. Numbered'
  <2> SUFFICES ASSUME ~overrun
               PROVE  \A x \in Given("parameters")' :
                        /\ x.id < nextId'["parameters"]
                        /\ \A y \in Given("parameters")' : x.id = y.id => x.blocks = y.blocks
    BY <1>1 DEF Numbered
  <2> DEFINE Old == {latest["parameters"], held["parameters"]} \ {None}
  <2>1. /\ \A x \in Old : x.id \in Nat /\ x.id < nextId["parameters"]
        /\ \A x, y \in Old : x.id = y.id => x.blocks = y.blocks
    BY <1>5, <1>10, EngineShapes DEF EngineInv, Numbered
  <2>2. nextId["parameters"] \in Nat BY <1>5, EngineShapes
  <2>3. \A x \in Given("parameters")' :
          x \in Old \/ (s = "parameters" /\ x = Snapshot(s))
    BY <1>9, SnapshotAssumption
  <2> HIDE DEF Old
  <2>4. CASE s = "parameters" BY <1>6, <1>7, <2>1, <2>2, <2>3, <2>4
  <2>5. CASE s # "parameters" BY <1>5, <1>7, <2>1, <2>3, <2>5, SnapshotAssumption
  <2> QED BY <2>4, <2>5
<1>19. Accumulated' BY <1>1, <1>7 DEF EngineInv, Accumulated
<1> QED BY <1>8, <1>11, <1>12, <1>14, <1>15, <1>16, <1>17, <1>18, <1>19 DEF EngineInv

\* The snapshots of a stage are as before, or fewer.
LEMMA FewerGiven ==
  ASSUME EngineInv, UNCHANGED <<nextId, overrun>>, "parameters" \in Stages,
         Given("parameters")' \subseteq Given("parameters")
  PROVE  Numbered'
BY DEF EngineInv, Numbered

LEMMA PublishBuiltKeeps == EngineInv /\ PublishBuilt => EngineInv'
<1> SUFFICES ASSUME EngineInv, PublishBuilt PROVE EngineInv' OBVIOUS
<1> DEFINE s == Head(gui).stage
<1>1. /\ gui # <<>> /\ Op(gui) = "publish" /\ gui' = Tail(gui)
      /\ latest' = [latest EXCEPT ![s] = IF built # None THEN built ELSE @]
      /\ built' = None
      /\ UNCHANGED <<source, todo, open, nextId, forced, held, recording, active, flushed,
                     overrun, timeouts, origin>>
  BY DEF PublishBuilt, Doing, Proceed, Op, recordVars, stageVars
<1>2. /\ Left(gui') /\ gui' # <<>> /\ EndOf(gui') = EndOf(gui)
      /\ s \in Stages /\ Ahead(gui, "publish", s)
      /\ EndOf(gui).op \in {"recorded", "post"}
      /\ s = "parameters" => Op(gui') = EndOf(gui).op
      /\ s # "parameters" => Op(gui') = "build"
  BY <1>1, Progress, SnapshotAssumption DEF EngineInv, Onward, StartGoesOn, FlushGoesOn, Ahead, Op
<1>3. \A t \in Stages : ~Ahead(gui', "publish", t) BY <1>2 DEF Ahead, Op
<1> HIDE DEF s
<1>4. ~Starting /\ ~Starting' BY <1>1, <1>2 DEF Starting
<1>5. EngineTypes /\ "parameters" \in Stages BY SnapshotAssumption DEF EngineInv
<1>6. /\ latest' \in [Stages -> Snapshots \union {None}]
      /\ \A t \in Stages : latest'[t] = IF t = s /\ built # None THEN built ELSE latest[t]
  BY <1>1, <1>2, <1>5 DEF EngineTypes
<1>7. EngineTypes' BY <1>1, <1>2, <1>6 DEF EngineInv, EngineTypes
<1>8. \A t \in Stages : Given(t)' \subseteq Given(t) BY <1>1, <1>2, <1>3, <1>6 DEF Given
<1>9. KnownBlocks' BY <1>1, <1>2, <1>6 DEF EngineInv, KnownBlocks
<1>10. Control' BY <1>1, <1>2, <1>4 DEF EngineInv, Control, Ending
<1>11. AtRest' => AtRest BY <1>1, <1>2, <1>4 DEF AtRest, Ending
<1>12. Resting' BY <1>1, <1>11 DEF EngineInv, Resting
<1>13. StartedAfresh' BY <1>4 DEF StartedAfresh
<1>14. OwnBlocks' BY <1>1, <1>4, <1>8, SnapshotAssumption DEF EngineInv, OwnBlocks, Recent
<1>15. NewestShown'
  BY <1>1, <1>2, <1>3, <1>4, <1>5, <1>6, <1>11 DEF EngineInv, NewestShown
<1>16. Numbered' BY <1>1, <1>5, <1>8, FewerGiven
<1>17. Accumulated' BY <1>1 DEF EngineInv, Accumulated
<1> QED BY <1>7, <1>9, <1>10, <1>12, <1>13, <1>14, <1>15, <1>16, <1>17 DEF EngineInv

\* The start of a recording.
LEMMA ResetKeeps == EngineInv /\ Reset => EngineInv'
<1> SUFFICES ASSUME EngineInv, Reset PROVE EngineInv' OBVIOUS
<1> DEFINE s == Head(gui).stage
<1>1. /\ gui # <<>> /\ Op(gui) = "reset" /\ gui' = Tail(gui)
      /\ latest' = [latest EXCEPT ![s] = None]
      /\ UNCHANGED <<source, todo, open, nextId, forced, held, built, recording, active,
                     flushed, overrun, timeouts, origin>>
  BY DEF Reset, Doing, Proceed, Op, recordVars, stageVars
<1>2. /\ Left(gui') /\ gui' # <<>> /\ EndOf(gui') = EndOf(gui) /\ Op(gui') = "configure"
      /\ EndOf(gui).op \in {"sourceOn", "sweep"}
      /\ \/ s = "bearing" /\ Ahead(gui, "reset", "bearing")
                          /\ Ahead(gui', "configure", "bearing")
         \/ s = "parameters" /\ Ahead(gui, "reset", "parameters")
                             /\ Ahead(gui', "configure", "parameters")
  BY <1>1, Progress DEF EngineInv, Onward, StartGoesOn, FlushGoesOn, Ahead, Op
<1>3. /\ \A t \in Stages : ~Ahead(gui', "publish", t)
      /\ ~Ahead(gui', "reset", "bearing")
      /\ s = "bearing" => ~Ahead(gui', "configure", "parameters")
      /\ s = "parameters" => ~Ahead(gui, "reset", "bearing") /\ ~Ahead(gui, "configure", "bearing")
  BY <1>2 DEF Ahead, Op
<1> HIDE DEF s
<1>4. Starting /\ Starting' BY <1>1, <1>2 DEF Starting
<1>5. EngineTypes /\ "parameters" \in Stages /\ "bearing" \in Stages
  BY SnapshotAssumption DEF EngineInv
<1>6. /\ latest' \in [Stages -> Snapshots \union {None}]
      /\ \A t \in Stages : latest'[t] = IF t = s THEN None ELSE latest[t]
  BY <1>1, <1>5 DEF EngineTypes
<1>7. EngineTypes' BY <1>1, <1>2, <1>6 DEF EngineInv, EngineTypes
<1>8. \A t \in Stages : Given(t)' \subseteq Given(t) BY <1>1, <1>3, <1>6 DEF Given
<1>9. KnownBlocks' BY <1>1, <1>6 DEF EngineInv, KnownBlocks
<1>10. Control' BY <1>1, <1>2, <1>4 DEF EngineInv, Control, Ending
<1>11. Resting' BY <1>1, <1>4 DEF EngineInv, Resting, AtRest
<1>12. StartedAfresh'
  BY <1>1, <1>2, <1>3, <1>4, <1>5, <1>6 DEF EngineInv, StartedAfresh
<1>13. OwnBlocks' /\ NewestShown' BY <1>4 DEF OwnBlocks, NewestShown
<1>14. Numbered' BY <1>1, <1>5, <1>8, FewerGiven
<1>15. Accumulated' BY <1>1 DEF EngineInv, Accumulated
<1> QED BY <1>7, <1>9, <1>10, <1>11, <1>12, <1>13, <1>14, <1>15 DEF EngineInv

LEMMA ConfigureKeeps == EngineInv /\ Configure => EngineInv'
<1> SUFFICES ASSUME EngineInv, Configure PROVE EngineInv' OBVIOUS
<1> DEFINE s == Head(gui).stage
<1>1. /\ gui # <<>> /\ Op(gui) = "configure" /\ gui' = Tail(gui)
      /\ open' = [open EXCEPT ![s] = {}] /\ nextId' = [nextId EXCEPT ![s] = 1]
      /\ forced' = (forced \/ s = "parameters")
      /\ UNCHANGED <<source, todo, held, latest, built, recording, active, flushed, overrun,
                     timeouts, origin>>
  BY DEF Configure, Doing, Proceed, Op, recordVars
<1>2. /\ Left(gui') /\ gui' # <<>> /\ EndOf(gui') = EndOf(gui)
      /\ EndOf(gui).op \in {"sourceOn", "sweep"}
      /\ \/ s = "bearing" /\ Ahead(gui, "configure", "bearing")
                          /\ Ahead(gui', "reset", "parameters")
         \/ s = "parameters" /\ Ahead(gui, "configure", "parameters")
                             /\ Op(gui') = "sourceOn"
  BY <1>1, Progress DEF EngineInv, Onward, StartGoesOn, FlushGoesOn, Ahead, Op
<1>3. /\ \A t \in Stages : ~Ahead(gui', "publish", t)
      /\ ~Ahead(gui, "reset", "bearing")
      /\ s = "bearing" => ~Ahead(gui', "configure", "parameters") /\ Op(gui') # "sourceOn"
      /\ s = "parameters" => ~Ahead(gui, "configure", "bearing")
  BY <1>2 DEF Ahead, Op
<1> HIDE DEF s
<1>4. Starting /\ Starting' BY <1>1, <1>2 DEF Starting, Ahead, Op
<1>5. EngineTypes /\ "parameters" \in Stages /\ "bearing" \in Stages
  BY SnapshotAssumption DEF EngineInv
<1>6. /\ open' \in [Stages -> SUBSET Nat] /\ nextId' \in [Stages -> Nat \ {0}]
      /\ \A t \in Stages : /\ open'[t] = IF t = s THEN {} ELSE open[t]
                           /\ nextId'[t] = IF t = s THEN 1 ELSE nextId[t]
  <2>1. open \in [Stages -> SUBSET Nat] /\ nextId \in [Stages -> Nat \ {0}]
    BY <1>5 DEF EngineTypes
  <2>2. /\ open' \in [Stages -> SUBSET Nat]
        /\ \A t \in Stages : open'[t] = IF t = s THEN {} ELSE open[t]
    BY <1>1, <2>1
  <2>3. /\ nextId' \in [Stages -> Nat \ {0}]
        /\ \A t \in Stages : nextId'[t] = IF t = s THEN 1 ELSE nextId[t]
    <3>1. PICK one \in Nat \ {0} : one = 1 OBVIOUS
    <3>2. nextId' = [nextId EXCEPT ![s] = one] BY <1>1, <3>1
    <3>3. /\ nextId' \in [Stages -> Nat \ {0}]
          /\ \A t \in Stages : nextId'[t] = IF t = s THEN one ELSE nextId[t]
      BY <2>1, <3>2
    <3> QED BY <3>1, <3>3
  <2> QED BY <2>2, <2>3
<1>7. EngineTypes'
  <2>1. forced' \in BOOLEAN BY <1>1 DEF EngineInv, EngineTypes
  <2> QED BY <1>1, <1>2, <1>6, <2>1 DEF EngineInv, EngineTypes
<1>8. \A t \in Stages : Given(t)' \subseteq Given(t) BY <1>1, <1>3 DEF Given
<1>9. KnownBlocks' BY <1>1, <1>6 DEF EngineInv, KnownBlocks
<1>10. Control' BY <1>1, <1>2, <1>4 DEF EngineInv, Control, Ending
<1>11. Resting' BY <1>1, <1>4 DEF EngineInv, Resting, AtRest
<1>12. StartedAfresh'
  BY <1>1, <1>2, <1>3, <1>4, <1>5, <1>6 DEF EngineInv, StartedAfresh
<1>13. OwnBlocks' /\ NewestShown' BY <1>4 DEF OwnBlocks, NewestShown
<1>14. Numbered'
  <2>1. CASE s = "bearing" BY <1>1, <1>5, <1>6, <1>8, <2>1 DEF EngineInv, Numbered
  <2>2. CASE s = "parameters" /\ ~overrun
    <3>1. latest["parameters"] = None BY <1>2, <1>4, <2>2 DEF EngineInv, StartedAfresh
    <3>2. held["parameters"] = None
      BY <1>4, <1>5, <2>2 DEF EngineInv, Resting, AtRest
    <3>3. Given("parameters")' = {} BY <1>1, <1>3, <1>5, <3>1, <3>2 DEF Given
    <3> QED BY <3>3 DEF Numbered
  <2> QED BY <1>1, <1>2, <2>1, <2>2 DEF Numbered
<1>15. Accumulated'
  <2>1. \A b \in 1..Len(origin) : origin[b] < recording BY <1>4 DEF EngineInv, Control
  <2>2. recording \in Nat /\ \A b \in 1..Len(origin) : origin[b] \in Nat
    BY <1>5, EngineShapes
  <2> QED BY <1>1, <2>1, <2>2 DEF Accumulated
<1> QED BY <1>7, <1>9, <1>10, <1>11, <1>12, <1>13, <1>14, <1>15 DEF EngineInv

LEMMA SwitchSourceKeeps == EngineInv /\ SwitchSource => EngineInv'
<1> SUFFICES ASSUME EngineInv, SwitchSource PROVE EngineInv' OBVIOUS
<1>1. /\ gui # <<>> /\ gui' = Tail(gui)
      /\ \/ Op(gui) = "sourceOn" /\ source' = TRUE
         \/ Op(gui) = "sourceOff" /\ source' = FALSE
      /\ UNCHANGED <<todo, open, nextId, forced, held, latest, built, recording, active,
                     flushed, overrun, timeouts, origin>>
  BY DEF SwitchSource, Doing, Proceed, Op, recordVars, stageVars
<1>2. EngineTypes BY DEF EngineInv
<1>3. /\ Left(gui')
      /\ Op(gui) = "sourceOn" => /\ Op(gui') \in {"none", "sweep"}
                                 /\ EndOf(gui').op \in {"none", "sourceOn", "sweep"}
      /\ Op(gui) = "sourceOff" => /\ Op(gui') = "await" /\ EndOf(gui') = EndOf(gui)
                                  /\ EndOf(gui).op = "recorded"
      /\ \A s \in Stages : ~Ahead(gui', "publish", s)
  BY <1>1, <1>2, Progress DEF Onward, StartGoesOn, FlushGoesOn, Ahead, Op
<1>4. EngineTypes' BY <1>1, <1>3 DEF EngineInv, EngineTypes
<1>5. KnownBlocks' /\ Numbered' /\ Accumulated' /\ (~Starting => OwnBlocks')
  BY <1>1, <1>3, NothingMoves
<1>6. ~Starting' BY <1>1, <1>3 DEF Starting
<1>7. active
  BY <1>1, <1>3 DEF EngineInv, Control, Starting, Ending
<1>8. Control' BY <1>1, <1>3, <1>6, <1>7 DEF EngineInv, Control, Ending
<1>9. ~AtRest' BY <1>1, <1>3, <1>6, <1>7 DEF AtRest, Ending
<1>10. Resting' /\ NewestShown' /\ StartedAfresh'
  BY <1>6, <1>9 DEF Resting, NewestShown, StartedAfresh
<1>11. OwnBlocks'
  <2>1. CASE Op(gui) = "sourceOff" BY <1>5, <2>1 DEF Starting
  <2>2. CASE Op(gui) = "sourceOn" /\ ~overrun
    <3>1. /\ ~Ahead(gui, "reset", "bearing") /\ ~Ahead(gui, "configure", "bearing") /\ Starting
      BY <2>2 DEF Ahead, Op, Starting
    <3>2. /\ latest["bearing"] = None /\ open["bearing"] = {}
          /\ latest["parameters"] = None /\ open["parameters"] = {}
      BY <2>2, <3>1 DEF EngineInv, StartedAfresh
    <3>3. \A s \in Stages : todo[s] = <<>> /\ held[s] = None
      BY <2>2, <3>1 DEF EngineInv, Resting, AtRest
    <3>4. \A s \in {"bearing", "parameters"} :
            open[s] = {} /\ ToSet(todo[s]) = {} /\ Given(s)' = {}
      BY <1>1, <1>3, <3>2, <3>3, EmptyQueueFacts, SnapshotAssumption DEF Given
    <3> QED BY <1>1, <3>4 DEF OwnBlocks, Recent
  <2> QED BY <1>1, <2>1, <2>2 DEF OwnBlocks
<1> QED BY <1>4, <1>5, <1>8, <1>10, <1>11 DEF EngineInv

\* The last step of a handler, a flush or the begin of a sweep.
LEMMA LastStepKeeps == EngineInv /\ (EndRecorded \/ Sweep \/ PostResult) => EngineInv'
<1> SUFFICES ASSUME EngineInv, EndRecorded \/ Sweep \/ PostResult PROVE EngineInv' OBVIOUS
<1>1. /\ gui # <<>> /\ gui' = Tail(gui) /\ active' \in BOOLEAN
      /\ \/ Op(gui) = "recorded" /\ active' = FALSE
         \/ Op(gui) \in {"sweep", "post"} /\ active' = active
      /\ UNCHANGED <<source, todo, open, nextId, forced, held, latest, built, recording,
                     flushed, overrun, timeouts, origin>>
  BY DEF EndRecorded, Sweep, PostResult, Doing, Proceed, Op, recordVars, stageVars, EngineInv,
         EngineTypes
<1>2. EngineTypes BY DEF EngineInv
<1>3. /\ Left(gui') /\ gui' = <<>> /\ Op(gui') = "none" /\ EndOf(gui').op = "none"
      /\ EndOf(gui).op = Op(gui)
  BY <1>1, <1>2, Progress DEF Onward, StartGoesOn, FlushGoesOn, Ahead, Op
<1>4. \A s \in Stages : ~Ahead(gui', "publish", s) BY <1>3 DEF Ahead
<1>5. ~Starting /\ ~Starting' BY <1>1, <1>3 DEF Starting
<1>6. EngineTypes' BY <1>1, <1>3 DEF EngineInv, EngineTypes
<1>7. KnownBlocks' /\ Numbered' /\ Accumulated' /\ OwnBlocks'
  BY <1>1, <1>4, <1>5, NothingMoves
<1>8. Control' BY <1>1, <1>3, <1>5 DEF EngineInv, Control, Ending
<1>9. AtRest' => AtRest BY <1>1, <1>3, <1>5 DEF AtRest, Ending
<1>10. Resting' BY <1>1, <1>9 DEF EngineInv, Resting
<1>11. NewestShown'
  <2>1. Op(gui) = "sweep" => ~AtRest' BY <1>1, <1>3, <1>5 DEF AtRest, Ending, EngineInv, Control
  <2> QED BY <1>1, <1>3, <1>4, <1>5, <1>9, <2>1, SnapshotAssumption DEF EngineInv, NewestShown
<1>12. StartedAfresh' BY <1>5 DEF StartedAfresh
<1> QED BY <1>6, <1>7, <1>8, <1>10, <1>11, <1>12 DEF EngineInv

\* The stages.
LEMMA IngestKeeps == EngineInv /\ Ingest => EngineInv'
<1> SUFFICES ASSUME EngineInv, Ingest PROVE EngineInv' OBVIOUS
<1> DEFINE n == Len(origin) + 1
<1>1. /\ source /\ Len(origin) < MaxBlocks /\ origin' = Append(origin, recording)
      /\ todo' = [s \in Stages |-> Append(todo[s], n)]
      /\ UNCHANGED <<source, open, nextId, forced, held, latest, gui, built, recording, active,
                     flushed, overrun, timeouts>>
  BY DEF Ingest, recordVars
<1>2. EngineTypes /\ "parameters" \in Stages /\ "bearing" \in Stages
  BY SnapshotAssumption DEF EngineInv
<1>3. active /\ recording >= 1 /\ ~Starting /\ ~AtRest
  BY <1>1 DEF EngineInv, Control, AtRest
<1>4. Starting' = Starting /\ Ending' = Ending /\ AtRest' = AtRest
  BY <1>1 DEF Starting, Ending, AtRest, Op, EndOf
<1>5. /\ origin' \in Seq(1..MaxRecordings) /\ Len(origin') = n /\ n \in Nat /\ Len(origin) \in Nat
      /\ \A b \in 1..Len(origin) : origin'[b] = origin[b]
      /\ origin'[n] = recording
  <2>1. recording \in 1..MaxRecordings BY <1>2, <1>3, SnapshotAssumption DEF EngineTypes
  <2>2. origin \in Seq(1..MaxRecordings) BY <1>2 DEF EngineTypes
  <2> HIDE DEF n
  <2> QED BY <1>1, <2>1, <2>2, AppendProperties, LenProperties DEF n
<1>6. /\ todo' \in [Stages -> Seq(Nat)]
      /\ \A s \in Stages : ToSet(todo'[s]) = ToSet(todo[s]) \union {n}
  <2>1. ASSUME NEW s \in Stages
        PROVE  /\ Append(todo[s], n) \in Seq(Nat)
               /\ ToSet(Append(todo[s], n)) = ToSet(todo[s]) \union {n}
    <3>1. todo[s] \in Seq(Nat) BY <1>2, EngineShapes
    <3>2. n \in Nat BY <1>5
    <3> HIDE DEF n
    <3> QED BY <3>1, <3>2, PushBack
  <2> HIDE DEF n
  <2> QED BY <1>1, <2>1
<1> HIDE DEF n
<1>7. 1..Len(origin) \subseteq 1..Len(origin') /\ n \in 1..Len(origin')
      /\ \A b \in 1..Len(origin') : b = n \/ b \in 1..Len(origin)
  BY <1>5 DEF n
<1>8. EngineTypes'
  <2>1. Len(origin') <= MaxBlocks BY <1>1, <1>5, SnapshotAssumption DEF n
  <2> QED BY <1>1, <1>5, <1>6, <2>1 DEF EngineInv, EngineTypes
<1>9. KnownBlocks' BY <1>1, <1>6, <1>7 DEF EngineInv, KnownBlocks
<1>10. Control' BY <1>1, <1>3, <1>4 DEF EngineInv, Control, Ending, EndOf, Op
<1>11. Resting' /\ StartedAfresh' /\ NewestShown'
  BY <1>3, <1>4 DEF Resting, StartedAfresh, NewestShown
<1>12. \A s \in Stages : Given(s)' = Given(s) BY <1>1 DEF Given, Ahead
<1>13. OwnBlocks'
  <2> SUFFICES ASSUME ~overrun, NEW s \in {"bearing", "parameters"}
               PROVE  /\ Recent(open[s])' /\ Recent(ToSet(todo[s]))'
                      /\ \A x \in Given(s)' : Recent(x.blocks)'
    BY <1>1 DEF OwnBlocks
  <2>1. /\ Recent(open[s]) /\ Recent(ToSet(todo[s])) /\ \A x \in Given(s) : Recent(x.blocks)
    BY <1>3 DEF EngineInv, OwnBlocks
  <2>2. /\ open[s] \subseteq 1..Len(origin) /\ ToSet(todo[s]) \subseteq 1..Len(origin)
        /\ \A x \in Given(s) : x.blocks \subseteq 1..Len(origin)
    BY <1>2 DEF EngineInv, KnownBlocks, Given
  <2>3. \A S \in SUBSET (1..Len(origin)) : Recent(S) => \A b \in S : origin'[b] = recording
    BY <1>5 DEF Recent
  <2>4. ToSet(todo'[s]) = ToSet(todo[s]) \union {n} BY <1>2, <1>6
  <2> QED BY <1>1, <1>2, <1>5, <1>12, <2>1, <2>2, <2>3, <2>4 DEF Recent
<1>14. Numbered' BY <1>1, <1>2, <1>12, FewerGiven
<1>15. Accumulated'
  <2> SUFFICES ASSUME NEW b \in 1..Len(origin')
               PROVE  /\ origin'[b] <= recording
                      /\ origin'[b] = recording
                           => b \in open["parameters"] \union ToSet(todo'["parameters"])
    BY <1>1 DEF Accumulated
  <2>1. CASE b = n
    <3>1. recording \in Nat BY <1>2, EngineShapes
    <3> QED BY <1>2, <1>5, <1>6, <2>1, <3>1
  <2>2. CASE b \in 1..Len(origin)
    BY <1>2, <1>5, <1>6, <2>2 DEF EngineInv, Accumulated
  <2> QED BY <1>7, <2>1, <2>2
<1> QED BY <1>8, <1>9, <1>10, <1>11, <1>13, <1>14, <1>15 DEF EngineInv

LEMMA PublishKeeps == \A s \in Stages : EngineInv /\ Publish(s) => EngineInv'
<1> SUFFICES ASSUME NEW s \in Stages, EngineInv, Publish(s) PROVE EngineInv' OBVIOUS
<1>1. /\ held[s] # None /\ latest' = [latest EXCEPT ![s] = held[s]]
      /\ held' = [held EXCEPT ![s] = None]
      /\ UNCHANGED <<source, todo, open, nextId, forced, gui, built, recording, active,
                     flushed, overrun, timeouts, origin>>
  BY DEF Publish, recordVars
<1>2. EngineTypes /\ "parameters" \in Stages /\ "bearing" \in Stages
  BY SnapshotAssumption DEF EngineInv
<1>3. Starting' = Starting /\ Ending' = Ending /\ AtRest' = AtRest
  BY <1>1 DEF Starting, Ending, AtRest, Op, EndOf
<1>4. ~overrun => ~AtRest BY <1>1 DEF EngineInv, Resting
<1>5. held[s] \in Snapshots BY <1>1, <1>2, EngineShapes
<1>6. /\ latest' \in [Stages -> Snapshots \union {None}]
      /\ held' \in [Stages -> Snapshots \union {None}]
      /\ \A t \in Stages : /\ latest'[t] = IF t = s THEN held[s] ELSE latest[t]
                           /\ held'[t] = IF t = s THEN None ELSE held[t]
  <2>1. /\ latest \in [Stages -> Snapshots \union {None}]
        /\ held \in [Stages -> Snapshots \union {None}]
    BY <1>2 DEF EngineTypes
  <2> QED BY <1>1, <1>5, <2>1
<1>7. EngineTypes' BY <1>1, <1>6 DEF EngineInv, EngineTypes
<1>8. \A t \in Stages : Given(t)' \subseteq Given(t) BY <1>1, <1>6 DEF Given, Ahead
<1>9. KnownBlocks' BY <1>1, <1>6 DEF EngineInv, KnownBlocks
<1>10. Control' BY <1>1, <1>3 DEF EngineInv, Control, Ending, EndOf, Op
<1>11. Resting' /\ NewestShown' BY <1>1, <1>3, <1>4 DEF Resting, NewestShown
<1>12. StartedAfresh' BY <1>1, <1>3, <1>4 DEF StartedAfresh, AtRest
<1>13. OwnBlocks'
  BY <1>1, <1>2, <1>3, <1>8 DEF EngineInv, OwnBlocks, Recent
<1>14. Numbered' BY <1>1, <1>2, <1>8, FewerGiven
<1>15. Accumulated' BY <1>1 DEF EngineInv, Accumulated
<1> QED BY <1>7, <1>9, <1>10, <1>11, <1>12, <1>13, <1>14, <1>15 DEF EngineInv

\* What a stage does with its next block.
LEMMA ConsumeEffect ==
  ASSUME EngineInv, NEW s \in Stages, NEW publishes \in BOOLEAN, Consume(s, publishes)
  PROVE  /\ todo[s] # <<>> /\ held[s] = None
         /\ todo' \in [Stages -> Seq(Nat)] /\ open' \in [Stages -> SUBSET Nat]
         /\ nextId' \in [Stages -> Nat \ {0}]
         /\ held' \in [Stages -> Snapshots \union {None}] /\ forced' \in BOOLEAN
         /\ UNCHANGED <<source, latest, gui, built, recording, active, flushed, overrun,
                        timeouts, origin>>
         /\ \A t \in Stages \ {s} : /\ todo'[t] = todo[t] /\ open'[t] = open[t]
                                    /\ nextId'[t] = nextId[t] /\ held'[t] = held[t]
         /\ ToSet(todo[s]) = {Head(todo[s])} \union ToSet(todo'[s])
         /\ open'[s] \subseteq open[s] \union {Head(todo[s])}
         /\ s = "parameters" => open'[s] = open[s] \union {Head(todo[s])}
         /\ ~publishes => held'[s] = None /\ nextId'[s] = nextId[s]
         /\ publishes => /\ held'[s] \in Snapshots /\ held'[s].id = nextId[s]
                         /\ nextId'[s] = nextId[s] + 1
                         /\ held'[s].blocks \subseteq open[s] \union {Head(todo[s])}
                         /\ s = "parameters" => held'[s].blocks = open'[s]
<1> DEFINE b == Head(todo[s])
<1>1. /\ todo[s] # <<>> /\ held[s] = None /\ todo' = [todo EXCEPT ![s] = Tail(todo[s])]
      /\ nextId' = [nextId EXCEPT ![s] = IF publishes THEN @ + 1 ELSE @]
      /\ UNCHANGED <<source, latest, gui, built, recording, active, flushed, overrun,
                     timeouts, origin>>
  BY DEF Consume, recordVars
<1>2. EngineTypes BY DEF EngineInv
<1>3. /\ todo \in [Stages -> Seq(Nat)] /\ open \in [Stages -> SUBSET Nat]
      /\ nextId \in [Stages -> Nat \ {0}] /\ held \in [Stages -> Snapshots \union {None}]
      /\ forced \in BOOLEAN
  BY <1>2 DEF EngineTypes
<1>4. /\ b \in Nat /\ Tail(todo[s]) \in Seq(Nat)
      /\ ToSet(todo[s]) = {b} \union ToSet(Tail(todo[s]))
  BY <1>1, <1>3, PopFront
<1>5. /\ todo' \in [Stages -> Seq(Nat)] /\ todo'[s] = Tail(todo[s])
      /\ \A t \in Stages \ {s} : todo'[t] = todo[t]
  BY <1>1, <1>3, <1>4
<1> HIDE DEF b
<1>6. /\ nextId' \in [Stages -> Nat \ {0}]
      /\ nextId'[s] = IF publishes THEN nextId[s] + 1 ELSE nextId[s]
      /\ \A t \in Stages \ {s} : nextId'[t] = nextId[t]
  <2>1. nextId[s] \in Nat \ {0} BY <1>3
  <2>2. (IF publishes THEN nextId[s] + 1 ELSE nextId[s]) \in Nat \ {0} BY <2>1
  <2> QED BY <1>1, <1>3, <2>2
<1>7. nextId[s] \in Nat \ {0} /\ open[s] \in SUBSET Nat BY <1>3
<1>8. CASE s = "parameters"
  <2>1. /\ open' = [open EXCEPT ![s] = @ \union {b}]
        /\ held' = [held EXCEPT ![s] = IF publishes THEN [id |-> nextId[s], blocks |-> open'[s]]
                                       ELSE None]
        /\ forced' = (forced /\ ~publishes)
    BY <1>8 DEF Consume, b
  <2>2. /\ open' \in [Stages -> SUBSET Nat] /\ open'[s] = open[s] \union {b}
        /\ \A t \in Stages \ {s} : open'[t] = open[t]
    BY <1>3, <1>4, <2>1
  <2> DEFINE x == [id |-> nextId[s], blocks |-> open'[s]]
  <2>3. x \in Snapshots /\ x.id = nextId[s] /\ x.blocks = open'[s]
    BY <1>7, <2>2 DEF Snapshots
  <2> HIDE DEF x
  <2>4. held' = [held EXCEPT ![s] = IF publishes THEN x ELSE None] BY <2>1 DEF x
  <2>5. /\ held' \in [Stages -> Snapshots \union {None}]
        /\ held'[s] = IF publishes THEN x ELSE None
        /\ \A t \in Stages \ {s} : held'[t] = held[t]
    BY <1>3, <2>3, <2>4
  <2>6. forced' \in BOOLEAN BY <1>3, <2>1
  <2> QED BY <1>1, <1>4, <1>5, <1>6, <2>2, <2>3, <2>5, <2>6 DEF b
<1>9. CASE s # "parameters"
  <2>1. /\ open' = [open EXCEPT ![s] = (IF publishes THEN {} ELSE @) \union {b}]
        /\ held' = [held EXCEPT ![s] = IF publishes THEN Snapshot(s) ELSE None]
        /\ forced' = forced
    BY <1>9 DEF Consume, b
  <2>2. /\ open' \in [Stages -> SUBSET Nat] /\ open'[s] \subseteq open[s] \union {b}
        /\ \A t \in Stages \ {s} : open'[t] = open[t]
    BY <1>3, <1>4, <2>1
  <2> DEFINE x == Snapshot(s)
  <2>3. x \in Snapshots /\ x.id = nextId[s] /\ x.blocks = open[s]
    BY <1>7 DEF Snapshots, Snapshot
  <2> HIDE DEF x
  <2>4. held' = [held EXCEPT ![s] = IF publishes THEN x ELSE None] BY <2>1 DEF x
  <2>5. /\ held' \in [Stages -> Snapshots \union {None}]
        /\ held'[s] = IF publishes THEN x ELSE None
        /\ \A t \in Stages \ {s} : held'[t] = held[t]
    BY <1>3, <2>3, <2>4
  <2> QED BY <1>1, <1>3, <1>4, <1>5, <1>6, <1>9, <2>1, <2>2, <2>3, <2>5 DEF b
<1> QED BY <1>8, <1>9

LEMMA ConsumeKeeps ==
  \A s \in Stages, publishes \in BOOLEAN : EngineInv /\ Consume(s, publishes) => EngineInv'
<1> SUFFICES ASSUME NEW s \in Stages, NEW publishes \in BOOLEAN, EngineInv,
                    Consume(s, publishes)
             PROVE  EngineInv'
  OBVIOUS
<1> DEFINE b == Head(todo[s])
<1>1. /\ todo[s] # <<>> /\ held[s] = None
      /\ todo' \in [Stages -> Seq(Nat)] /\ open' \in [Stages -> SUBSET Nat]
      /\ nextId' \in [Stages -> Nat \ {0}]
      /\ held' \in [Stages -> Snapshots \union {None}] /\ forced' \in BOOLEAN
      /\ UNCHANGED <<source, latest, gui, built, recording, active, flushed, overrun,
                     timeouts, origin>>
      /\ \A t \in Stages \ {s} : /\ todo'[t] = todo[t] /\ open'[t] = open[t]
                                 /\ nextId'[t] = nextId[t] /\ held'[t] = held[t]
  BY ConsumeEffect
<1>2. /\ ToSet(todo[s]) = {b} \union ToSet(todo'[s])
      /\ open'[s] \subseteq open[s] \union {b}
      /\ s = "parameters" => open'[s] = open[s] \union {b}
      /\ ~publishes => held'[s] = None /\ nextId'[s] = nextId[s]
      /\ publishes => /\ held'[s] \in Snapshots /\ held'[s].id = nextId[s]
                      /\ nextId'[s] = nextId[s] + 1
                      /\ held'[s].blocks \subseteq open[s] \union {b}
                      /\ s = "parameters" => held'[s].blocks = open'[s]
  BY ConsumeEffect
<1> HIDE DEF b
<1>3. EngineTypes /\ "parameters" \in Stages /\ "bearing" \in Stages
  BY SnapshotAssumption DEF EngineInv
<1>4. Starting' = Starting /\ Ending' = Ending /\ AtRest' = AtRest
  BY <1>1 DEF Starting, Ending, AtRest, Op, EndOf
<1>5. ~overrun => ~AtRest BY <1>1 DEF EngineInv, Resting
<1>6. EngineTypes' BY <1>1, <1>3 DEF EngineTypes
<1>7. \A t \in Stages : \A x \in Given(t)' : x \in Given(t) \/ (t = s /\ publishes /\ x = held'[s])
  BY <1>1, <1>2 DEF Given, Ahead
<1>8. KnownBlocks'
  <2>1. \A t \in Stages : open'[t] \subseteq open[t] \union ToSet(todo[t])
    BY <1>1, <1>2
  <2>2. \A t \in Stages : ToSet(todo'[t]) \subseteq ToSet(todo[t]) BY <1>1, <1>2
  <2>3. \A t \in Stages : held'[t] # None =>
          held'[t] = held[t] \/ held'[t].blocks \subseteq open[t] \union ToSet(todo[t])
    BY <1>1, <1>2
  <2> QED BY <1>1, <2>1, <2>2, <2>3 DEF EngineInv, KnownBlocks
<1>9. Control' BY <1>1, <1>4 DEF EngineInv, Control, Ending, EndOf, Op
<1>10. Resting' /\ NewestShown' /\ StartedAfresh'
  BY <1>1, <1>4, <1>5 DEF Resting, NewestShown, StartedAfresh, AtRest
<1>11. OwnBlocks'
  <2> SUFFICES ASSUME ~overrun, ~Starting, NEW t \in {"bearing", "parameters"}
               PROVE  /\ Recent(open[t])' /\ Recent(ToSet(todo[t]))'
                      /\ \A x \in Given(t)' : Recent(x.blocks)'
    BY <1>1, <1>4 DEF OwnBlocks
  <2>1. /\ Recent(open[t]) /\ Recent(ToSet(todo[t])) /\ \A x \in Given(t) : Recent(x.blocks)
    BY DEF EngineInv, OwnBlocks
  <2>2. CASE t = s BY <1>1, <1>2, <1>3, <1>7, <2>1, <2>2 DEF Recent
  <2>3. CASE t # s BY <1>1, <1>3, <1>7, <2>1, <2>3 DEF Recent
  <2> QED BY <2>2, <2>3
<1>12. Numbered'
  <2> SUFFICES ASSUME ~overrun
               PROVE  \A x \in Given("parameters")' :
                        /\ x.id < nextId'["parameters"]
                        /\ \A y \in Given("parameters")' : x.id = y.id => x.blocks = y.blocks
    BY <1>1 DEF Numbered
  <2> DEFINE Old == Given("parameters")
             New == Given("parameters")'
  <2>1. nextId["parameters"] \in Nat BY <1>3, EngineShapes
  <2>2. /\ \A x \in Old : x.id < nextId["parameters"] /\ x.id \in Nat
        /\ \A x, y \in Old : x.id = y.id => x.blocks = y.blocks
    <3>1. Old \subseteq Snapshots BY <1>3, EngineShapes DEF Given, EngineTypes
    <3>2. \A x \in Old : x.id \in Nat BY <1>3, <3>1, EngineShapes
    <3> QED BY <3>2 DEF EngineInv, Numbered
  <2>3. \A x \in New : x \in Old \/ ("parameters" = s /\ publishes /\ x = held'[s])
    BY <1>3, <1>7
  <2> HIDE DEF Old, New
  <2>4. CASE s = "parameters" /\ publishes BY <1>2, <2>1, <2>2, <2>3, <2>4 DEF New
  <2>5. CASE ~(s = "parameters" /\ publishes)
    <3>1. nextId'["parameters"] = nextId["parameters"] BY <1>1, <1>2, <1>3, <2>5
    <3> QED BY <2>2, <2>3, <2>5, <3>1 DEF New
  <2> QED BY <2>4, <2>5
<1>13. Accumulated'
  <2>1. open["parameters"] \union ToSet(todo["parameters"])
          \subseteq open'["parameters"] \union ToSet(todo'["parameters"])
    BY <1>1, <1>2, <1>3
  <2> QED BY <1>1, <2>1 DEF EngineInv, Accumulated
<1> QED BY <1>6, <1>8, <1>9, <1>10, <1>11, <1>12, <1>13 DEF EngineInv

\* What a handler begins with.
LEMMA FirstSteps ==
  /\ Left(<<>>) /\ Op(<<>>) = "none" /\ EndOf(<<>>).op = "none"
  /\ Left(StartSteps) /\ Ahead(StartSteps, "reset", "bearing") /\ EndOf(StartSteps).op = "sourceOn"
  /\ LET g == StartSteps \o <<Step("sweep", "none")>> IN
       Left(g) /\ Ahead(g, "reset", "bearing") /\ EndOf(g).op = "sweep"
  /\ LET g == <<Step("sweep", "none")>> IN
       Left(g) /\ Op(g) = "sweep" /\ EndOf(g).op = "sweep"
  /\ Left(StopSteps) /\ Op(StopSteps) = "sourceOff" /\ EndOf(StopSteps).op = "recorded"
  /\ \A q \in Report : LET g == FlushSteps \o <<Step("post", q)>> IN
       Left(g) /\ Op(g) = "await" /\ EndOf(g) = Step("post", q)
<1>1. Left(<<>>) /\ Op(<<>>) = "none" /\ EndOf(<<>>).op = "none" BY DEF Left, Op, EndOf, Step
<1>2. Left(Start5) /\ Ahead(Start5, "reset", "bearing") /\ EndOf(Start5).op = "sourceOn"
  <2>1. EndOf(Start5) = Step("sourceOn", "none") BY DEF Start5, EndOf
  <2> QED BY <2>1 DEF Left, Starts, Start5, Ahead, Step
<1>3. Left(Sweep5) /\ Ahead(Sweep5, "reset", "bearing") /\ EndOf(Sweep5).op = "sweep"
  <2>1. EndOf(Sweep5) = Step("sweep", "none") BY DEF Sweep5, EndOf
  <2> QED BY <2>1 DEF Left, Sweeps, Sweep5, Ahead, Step
<1>4. Left(Sweep0) /\ Op(Sweep0) = "sweep" /\ EndOf(Sweep0).op = "sweep"
  BY DEF Left, Sweeps, Sweep0, Op, EndOf, Step
<1>5. Left(WholeStop) /\ Op(WholeStop) = "sourceOff" /\ EndOf(WholeStop).op = "recorded"
  <2>1. EndOf(WholeStop) = Recorded BY DEF WholeStop, StopOf2, StopOf3, EndOf
  <2>2. Op(WholeStop) = "sourceOff" BY DEF WholeStop, StopOf2, StopOf3, Op, Step
  <2> QED BY <2>1, <2>2 DEF Left, Recorded, Step
<1>6. ASSUME NEW q \in Report
      PROVE  /\ Left(WholeFlush(Step("post", q))) /\ Op(WholeFlush(Step("post", q))) = "await"
             /\ EndOf(WholeFlush(Step("post", q))) = Step("post", q)
  <2> DEFINE e == Step("post", q)
  <2>1. e \in Ends BY DEF Ends
  <2> HIDE DEF e
  <2>2. Left(WholeFlush(e)) BY <2>1 DEF Left, Flushes
  <2>3. EndOf(WholeFlush(e)) = e BY DEF WholeFlush, FlushOf2, FlushOf3, EndOf
  <2>4. Op(WholeFlush(e)) = "await" BY DEF WholeFlush, FlushOf2, FlushOf3, Op, Step
  <2> QED BY <2>2, <2>3, <2>4 DEF e
<1> QED BY <1>1, <1>2, <1>3, <1>4, <1>5, <1>6, Handlers DEF Sweep0

\* A handler that starts no recording.
LEMMA HandlerKeeps ==
  ASSUME EngineInv, gui = <<>>,
         UNCHANGED <<source, stageVars, latest, built, recordVars, origin>>,
         \/ gui' = <<>>
         \/ gui' \in {StopSteps, <<Step("sweep", "none")>>} /\ active
         \/ \E q \in Report : gui' = FlushSteps \o <<Step("post", q)>>
  PROVE  EngineInv'
<1>1. /\ Left(gui') /\ Op(gui') \in {"none", "sourceOff", "sweep", "await"}
      /\ Op(gui') = "sweep" => EndOf(gui').op = "sweep" /\ active
      /\ EndOf(gui').op = "recorded" => active /\ Op(gui') = "sourceOff"
      /\ Op(gui') = "none" => EndOf(gui').op = "none"
      /\ EndOf(gui').op \in {"none", "recorded", "sweep", "post"}
  <2>1. CASE gui' = <<>> BY <2>1, FirstSteps
  <2>2. CASE gui' = StopSteps /\ active BY <2>2, FirstSteps
  <2>3. CASE gui' = <<Step("sweep", "none")>> /\ active BY <2>3, FirstSteps
  <2>4. ASSUME NEW q \in Report, gui' = FlushSteps \o <<Step("post", q)>>
        PROVE  Left(gui') /\ Op(gui') = "await" /\ EndOf(gui').op = "post"
    BY <2>4, FirstSteps DEF Step
  <2> QED BY <2>1, <2>2, <2>3, <2>4
<1>2. /\ UNCHANGED <<source, todo, open, nextId, forced, held, latest, built, recording, active,
                     flushed, overrun, timeouts, origin>>
  BY DEF stageVars, recordVars
<1>3. \A s \in Stages : ~Ahead(gui', "publish", s) BY <1>1 DEF Ahead, Op
<1>4. /\ ~Starting /\ ~Starting' /\ Op(gui) = "none"
  BY <1>1, FirstSteps DEF Starting
<1>5. EngineTypes' BY <1>1, <1>2 DEF EngineInv, EngineTypes
<1>6. KnownBlocks' /\ Numbered' /\ Accumulated' /\ OwnBlocks'
  BY <1>2, <1>3, <1>4, NothingMoves
<1>7. Control' BY <1>1, <1>2, <1>4 DEF EngineInv, Control, Ending
<1>8. AtRest' => AtRest BY <1>1, <1>2, <1>4 DEF AtRest, Ending
<1>9. Resting' BY <1>2, <1>8 DEF EngineInv, Resting
<1>10. NewestShown'
  <2>1. ~Ahead(gui', "publish", "parameters") BY <1>3, SnapshotAssumption
  <2> QED BY <1>2, <1>4, <1>8, <2>1 DEF EngineInv, NewestShown
<1>11. StartedAfresh' BY <1>4 DEF StartedAfresh
<1> QED BY <1>5, <1>6, <1>7, <1>9, <1>10, <1>11 DEF EngineInv

LEMMA StartKeeps ==
  ASSUME EngineInv, gui = <<>>, ~active, recording < MaxRecordings,
         UNCHANGED <<source, stageVars, latest, built, flushed, overrun, timeouts, origin>>,
         recording' = recording + 1, active' = TRUE,
         gui' \in {StartSteps, StartSteps \o <<Step("sweep", "none")>>}
  PROVE  EngineInv'
<1>1. /\ Left(gui') /\ Ahead(gui', "reset", "bearing") /\ EndOf(gui').op \in {"sourceOn", "sweep"}
  BY FirstSteps
<1>2. /\ UNCHANGED <<source, todo, open, nextId, forced, held, latest, built, flushed, overrun,
                     timeouts, origin>>
  BY DEF stageVars
<1>3. Op(gui') = "reset" /\ \A s \in Stages : ~Ahead(gui', "publish", s)
  BY <1>1 DEF Ahead, Op
<1>4. Starting' BY <1>3 DEF Starting
<1>5. EngineTypes BY DEF EngineInv
<1>6. recording \in Nat /\ \A b \in 1..Len(origin) : origin[b] \in Nat BY <1>5, EngineShapes
<1>7. EngineTypes'
  <2>1. recording' \in 0..MaxRecordings BY <1>6, SnapshotAssumption
  <2> QED BY <1>1, <1>2, <1>5, <2>1 DEF EngineTypes
<1>8. \A s \in Stages : Given(s)' \subseteq Given(s) BY <1>2, <1>3 DEF Given
<1>9. KnownBlocks' BY <1>2 DEF EngineInv, KnownBlocks
<1>10. \A b \in 1..Len(origin) : origin[b] < recording'
  BY <1>6 DEF EngineInv, Accumulated
<1>11. Control'
  <2>1. ~source BY DEF EngineInv, Control
  <2>2. ~Ending' BY <1>1 DEF Ending
  <2> QED BY <1>2, <1>3, <1>6, <1>10, <2>1, <2>2 DEF Control
<1>12. Resting' BY <1>2 DEF EngineInv, Resting, AtRest
<1>13. StartedAfresh'
  <2>1. ~Ahead(gui', "configure", "parameters") /\ Op(gui') # "sourceOn"
    BY <1>3 DEF Ahead, Op
  <2> QED BY <1>1, <2>1 DEF StartedAfresh
<1>14. OwnBlocks' /\ NewestShown' BY <1>4 DEF OwnBlocks, NewestShown
<1>15. Numbered' BY <1>2, <1>8, FewerGiven, SnapshotAssumption
<1>16. Accumulated' BY <1>2, <1>6, <1>10 DEF Accumulated
<1> QED BY <1>7, <1>9, <1>11, <1>12, <1>13, <1>14, <1>15, <1>16 DEF EngineInv

-----------------------------------------------------------------------------
(* The scan, as the engine moves on.                                         *)

\* A handler that ends with a callback carries a report.
LEMMA PostFacts ==
  ASSUME NEW g, Left(g), EndOf(g).op = "post"
  PROVE  EndOf(g).stage \in Report
<1>1. g # <<>> BY FirstSteps
<1>2. \A h \in Starts \union Sweeps \union {WholeStop} : EndOf(h).op # "post"
  <2>1. \A h \in Starts : EndOf(h) = Step("sourceOn", "none")
    <3>1. EndOf(Start1) = Step("sourceOn", "none") BY DEF Start1, EndOf
    <3>2. EndOf(Start2) = Step("sourceOn", "none") BY DEF Start2, EndOf
    <3>3. EndOf(Start3) = Step("sourceOn", "none") BY DEF Start3, EndOf
    <3>4. EndOf(Start4) = Step("sourceOn", "none") BY DEF Start4, EndOf
    <3>5. EndOf(Start5) = Step("sourceOn", "none") BY DEF Start5, EndOf
    <3> QED BY <3>1, <3>2, <3>3, <3>4, <3>5 DEF Starts
  <2>2. \A h \in Sweeps : EndOf(h) = Step("sweep", "none")
    <3>0. EndOf(Sweep0) = Step("sweep", "none") BY DEF Sweep0, EndOf
    <3>1. EndOf(Sweep1) = Step("sweep", "none") BY DEF Sweep1, EndOf
    <3>2. EndOf(Sweep2) = Step("sweep", "none") BY DEF Sweep2, EndOf
    <3>3. EndOf(Sweep3) = Step("sweep", "none") BY DEF Sweep3, EndOf
    <3>4. EndOf(Sweep4) = Step("sweep", "none") BY DEF Sweep4, EndOf
    <3>5. EndOf(Sweep5) = Step("sweep", "none") BY DEF Sweep5, EndOf
    <3> QED BY <3>0, <3>1, <3>2, <3>3, <3>4, <3>5 DEF Sweeps
  <2>3. EndOf(WholeStop) = Recorded BY DEF WholeStop, StopOf2, StopOf3, EndOf
  <2> QED BY <2>1, <2>2, <2>3 DEF Recorded, Step
<1>3. PICK e \in Ends : g \in Flushes(e) BY <1>1, <1>2 DEF Left
<1>4. EndOf(g) = e
  <2>1. /\ EndOf(Flush0(e)) = e /\ EndOf(Flush1(e)) = e /\ EndOf(Flush2(e)) = e
        /\ EndOf(Flush3(e)) = e /\ EndOf(Flush4(e)) = e /\ EndOf(Flush5(e)) = e
        /\ EndOf(Flush6(e)) = e /\ EndOf(FlushOf2(e)) = e /\ EndOf(FlushOf3(e)) = e
    BY DEF Flush0, Flush1, Flush2, Flush3, Flush4, Flush5, Flush6, FlushOf2, FlushOf3, EndOf
  <2> QED BY <1>3, <2>1 DEF Flushes, WholeFlush
<1> QED BY <1>3, <1>4, EndFacts

\* Parameters once carried to the scan, or shown to it, stay so; a new snapshot has a new number.
NothingHidden ==
  /\ nextId["parameters"] <= nextId'["parameters"]
  /\ \A x \in Given("parameters")' : x \in Given("parameters") \/ x.id = nextId["parameters"]
  /\ \A o \in SUBSET Nat : /\ Carried(o) => Carried(o)'
                           /\ Carried(o) /\ Exposed(o) => Exposed(o)'

MoreBlocks ==
  /\ 1..Len(origin) \subseteq 1..Len(origin')
  /\ \A b \in 1..Len(origin) : origin'[b] = origin[b]

LEMMA SameParameters ==
  ASSUME EngineTypes, ~Ahead(gui', "publish", "parameters"),
         nextId'["parameters"] = nextId["parameters"],
         open'["parameters"] = open["parameters"],
         held'["parameters"] = held["parameters"],
         latest'["parameters"] = latest["parameters"]
  PROVE  NothingHidden
<1>1. nextId["parameters"] \in Nat BY EngineShapes
<1>2. Given("parameters")' \subseteq Given("parameters") BY DEF Given
<1>3. \A o : Carried(o) => Carried(o)' BY DEF Carried
<1>4. \A o : Exposed(o) => Exposed(o)' BY DEF Exposed
<1> QED BY <1>1, <1>2, <1>3, <1>4 DEF NothingHidden

LEMMA SameBlocks == origin' = origin => MoreBlocks
BY DEF MoreBlocks

LEMMA ScanShapes ==
  ASSUME ScanInv
  PROVE  /\ EngineTypes /\ "parameters" \in Stages /\ "bearing" \in Stages
         /\ scan \in Nat /\ since \in Nat /\ recording \in Nat /\ since <= recording
         /\ nextId["parameters"] \in Nat /\ controllerLast["parameters"] \in Nat
         /\ \A n \in ToSet(timers) : n \in Nat
         /\ \A q \in ToSet(posted) : /\ q \in Report /\ q.scan \in Nat /\ q.ok \in BOOLEAN
                                     /\ q.owed \in SUBSET Nat
<1>1. EngineTypes /\ "parameters" \in Stages /\ "bearing" \in Stages
  BY SnapshotAssumption DEF ScanInv, EngineInv
<1>2. recording \in Nat /\ nextId["parameters"] \in Nat BY <1>1, EngineShapes
<1>3. since \in Nat /\ since <= recording /\ scan \in Nat
  BY <1>2, SnapshotAssumption DEF ScanInv, ScanTypes
<1>4. controllerLast["parameters"] \in Nat BY <1>1 DEF ScanInv, ScanTypes
<1>5. ToSet(timers) \subseteq Nat /\ ToSet(posted) \subseteq Report
  BY Members DEF ScanInv, ScanTypes
<1>6. \A q \in Report : q.scan \in Nat /\ q.ok \in BOOLEAN /\ q.owed \in SUBSET Nat
  BY DEF Report
<1> QED BY <1>1, <1>2, <1>3, <1>4, <1>5, <1>6

\* The callbacks under way stay right while nothing is hidden.
LEMMA DoneStays ==
  ASSUME ScanInv, scan' = scan, NothingHidden,
         \A n \in ToSet(timers') : n \in ToSet(timers) \/ Past(n)',
         \A q \in ToSet(posted') : q \in ToSet(posted) \/ Backed(q)',
         state' = "moving" => state = "moving",
         since' = recording' /\ Sweeping' /\ ~overrun'
           => since = recording /\ Sweeping /\ ~overrun
  PROVE  FlushesDone'
<1>1. \A n : Past(n) => Past(n)' BY DEF Past
<1>2. \A n \in ToSet(timers') : Past(n)' BY <1>1 DEF ScanInv, FlushesDone
<1>3. ASSUME NEW q \in ToSet(posted) PROVE Backed(q)'
  <2>1. q.owed \in SUBSET Nat /\ Backed(q) BY ScanShapes DEF ScanInv, FlushesDone
  <2>2. Past(q.scan)' BY <1>1, <2>1 DEF Backed
  <2>3. ASSUME q.ok, q.scan = scan', since' = recording', Sweeping', ~overrun'
        PROVE  Carried(q.owed)' /\ Exposed(q.owed)'
    <3>1. Carried(q.owed) /\ Exposed(q.owed) BY <2>1, <2>3 DEF Backed
    <3> QED BY <2>1, <3>1 DEF NothingHidden
  <2> QED BY <2>2, <2>3 DEF Backed
<1> QED BY <1>2, <1>3 DEF FlushesDone

LEMMA FlushStays ==
  ASSUME ScanInv, scan' = scan, state' = state, recording' = recording, flushed' = flushed,
         overrun => overrun', MoreBlocks, NothingHidden, EndOf(gui') = EndOf(gui),
         Op(gui') # "await" => Op(gui) # "await",
         Op(gui') = "post" => Op(gui) = "post"
  PROVE  FlushUnderWay'
<1> SUFFICES ASSUME Posting' PROVE FlushUnderWay' BY DEF FlushUnderWay
<1>1. Posting BY DEF Posting
<1>2. EngineTypes BY ScanShapes
<1>3. PICK q \in Report : q = EndOf(gui).stage
  BY <1>1, <1>2, PostFacts DEF Posting, EngineTypes
<1>4. q.owed \in SUBSET Nat BY <1>3 DEF Report
<1>5. /\ Past(q.scan) /\ q.owed \subseteq Of(recording)
      /\ Op(gui) # "await" /\ flushed /\ ~overrun => Carried(q.owed)
      /\ Op(gui) = "post" /\ flushed /\ ~overrun => Exposed(q.owed)
  BY <1>1, <1>3 DEF ScanInv, FlushUnderWay
<1>6. EndOf(gui').stage = q BY <1>3
<1>7. Past(q.scan)' BY <1>5 DEF Past
<1>8. Of(recording) \subseteq Of(recording)' BY DEF Of, MoreBlocks
<1>9. Op(gui') # "await" /\ flushed' /\ ~overrun' => Carried(q.owed)'
  BY <1>4, <1>5 DEF NothingHidden
<1>10. Op(gui') = "post" /\ flushed' /\ ~overrun' => Exposed(q.owed)'
  <2> SUFFICES ASSUME Op(gui') = "post", flushed', ~overrun' PROVE Exposed(q.owed)' OBVIOUS
  <2>1. Carried(q.owed) /\ Exposed(q.owed) BY <1>5
  <2> QED BY <1>4, <2>1 DEF NothingHidden
<1>11. Past(q.scan)' /\ q.owed \subseteq Of(recording)' BY <1>5, <1>7, <1>8
<1> QED BY <1>6, <1>9, <1>10, <1>11 DEF FlushUnderWay

\* A step of the engine or of a handler that leaves the scan alone.
LEMMA ScanStays ==
  ASSUME ScanInv, EngineInv',
         UNCHANGED <<state, scan, since, result, seenVars, recording>>,
         timers' \in Seq(Nat), ToSet(timers') \subseteq ToSet(timers),
         posted' \in Seq(Report), \A q \in ToSet(posted') : q \in ToSet(posted) \/ Backed(q)',
         overrun => overrun', MoreBlocks, Starting' => Starting,
         EndOf(gui').op = "sweep" => state = "moving",
         Starting \/ NothingHidden, FlushUnderWay'
  PROVE  ScanInv'
<1>1. /\ adapterLast' = adapterLast /\ controllerLast' = controllerLast
      /\ bearings' = bearings /\ params' = params /\ Sweeping' = Sweeping
  BY DEF seenVars, Sweeping
<1>2. ScanTypes' BY <1>1 DEF ScanInv, ScanTypes, MoreBlocks
<1>3. OnTheMove' BY <1>1 DEF ScanInv, OnTheMove
<1>4. ScanUsesItsOwn'
  <2>1. bearings \union params \subseteq 1..Len(origin) BY DEF ScanInv, ScanTypes
  <2> QED BY <1>1, <2>1 DEF ScanInv, ScanUsesItsOwn, MoreBlocks
<1>5. FinalParametersComplete' BY DEF ScanInv, FinalParametersComplete
<1>6. CASE Starting
  <2>1. ~(since = recording) BY <1>6, ScanShapes DEF ScanInv, OnTheMove
  <2>2. Seen' BY <2>1 DEF Seen
  <2>3. \A n : Past(n) => Past(n)' BY DEF Past
  <2>4. FlushesDone' BY <2>1, <2>3 DEF ScanInv, FlushesDone, Backed
  <2> QED BY <1>2, <1>3, <1>4, <1>5, <2>2, <2>4 DEF ScanInv
<1>7. CASE NothingHidden
  <2>1. FlushesDone' BY <1>1, <1>7, DoneStays
  <2>2. Seen'
    <3> SUFFICES ASSUME ~overrun', Sweeping, since = recording
                 PROVE  /\ controllerLast["parameters"] < nextId'["parameters"]
                        /\ \A x \in Given("parameters")' :
                             x.id = controllerLast["parameters"] => x.blocks = params
      BY <1>1 DEF Seen
    <3>1. /\ controllerLast["parameters"] < nextId["parameters"]
          /\ \A x \in Given("parameters") :
               x.id = controllerLast["parameters"] => x.blocks = params
      BY DEF ScanInv, Seen
    <3>2. /\ controllerLast["parameters"] \in Nat /\ nextId["parameters"] \in Nat
      BY ScanShapes
    <3>3. nextId'["parameters"] \in Nat
      BY ScanShapes DEF EngineInv, EngineTypes
    <3> QED BY <1>7, <3>1, <3>2, <3>3 DEF NothingHidden
  <2> QED BY <1>2, <1>3, <1>4, <1>5, <2>1, <2>2 DEF ScanInv
<1> QED BY <1>6, <1>7

\* ... with the handler where it is.
LEMMA StageStays ==
  ASSUME ScanInv, EngineInv', gui' = gui,
         UNCHANGED <<scanVars, seenVars, recording, flushed, overrun>>, MoreBlocks, NothingHidden
  PROVE  ScanInv'
<1>1. Starting' = Starting BY DEF Starting
<1>2. FlushUnderWay' BY FlushStays DEF scanVars
<1>3. timers \in Seq(Nat) /\ posted \in Seq(Report)
      /\ (EndOf(gui).op = "sweep" => state = "moving")
  BY DEF ScanInv, ScanTypes, OnTheMove
<1> QED BY <1>1, <1>2, <1>3, ScanStays DEF scanVars

LEMMA IngestStays == ScanInv /\ Ingest => ScanInv'
<1> SUFFICES ASSUME ScanInv, Ingest PROVE ScanInv' OBVIOUS
<1>1. EngineInv' BY IngestKeeps DEF ScanInv
<1>2. EngineTypes BY ScanShapes
<1>3. /\ UNCHANGED <<scanVars, seenVars, recording, flushed, overrun, gui>>
      /\ UNCHANGED <<open, nextId, held, latest, built>>
      /\ origin' = Append(origin, recording) /\ source
  BY DEF Ingest, recordVars
<1>4. MoreBlocks
  <2>1. active /\ recording >= 1 BY <1>3 DEF ScanInv, EngineInv, Control
  <2>2. recording \in 1..MaxRecordings BY <1>2, <2>1, SnapshotAssumption DEF EngineTypes
  <2>3. origin \in Seq(1..MaxRecordings) BY <1>2 DEF EngineTypes
  <2>4. Len(origin') = Len(origin) + 1 /\ \A b \in 1..Len(origin) : origin'[b] = origin[b]
    BY <1>3, <2>2, <2>3, AppendProperties
  <2>5. Len(origin) \in Nat BY <1>2, EngineShapes
  <2> QED BY <2>4, <2>5 DEF MoreBlocks
<1>5. NothingHidden
  <2>1. nextId["parameters"] \in Nat BY ScanShapes
  <2> QED BY <1>3, <2>1 DEF NothingHidden, Given, Carried, Exposed, Ahead
<1> QED BY <1>1, <1>3, <1>4, <1>5, StageStays

LEMMA PublishStays == \A s \in Stages : ScanInv /\ Publish(s) => ScanInv'
<1> SUFFICES ASSUME NEW s \in Stages, ScanInv, Publish(s) PROVE ScanInv' OBVIOUS
<1>1. EngineInv' BY PublishKeeps DEF ScanInv
<1>2. EngineTypes /\ "parameters" \in Stages /\ nextId["parameters"] \in Nat BY ScanShapes
<1>3. /\ UNCHANGED <<scanVars, seenVars, recording, flushed, overrun, gui>>
      /\ UNCHANGED <<open, nextId, built, origin>>
      /\ held[s] # None /\ latest' = [latest EXCEPT ![s] = held[s]]
      /\ held' = [held EXCEPT ![s] = None]
  BY DEF Publish, recordVars
<1>4. \A t \in Stages : /\ latest'[t] = IF t = s THEN held[s] ELSE latest[t]
                        /\ held'[t] = IF t = s THEN None ELSE held[t]
  BY <1>2, <1>3 DEF EngineTypes
<1>5. NothingHidden
  <2>1. Given("parameters")' \subseteq Given("parameters") BY <1>2, <1>3, <1>4 DEF Given, Ahead
  <2>2. \A o : Carried(o) => Carried(o)' BY <1>2, <1>3, <1>4 DEF Carried, Ahead
  <2>3. \A o : Carried(o) /\ Exposed(o) => Exposed(o)'
    BY <1>2, <1>3, <1>4 DEF Carried, Exposed
  <2> QED BY <1>2, <1>3, <2>1, <2>2, <2>3 DEF NothingHidden
<1> QED BY <1>1, <1>3, <1>5, SameBlocks, StageStays

LEMMA ConsumeStays ==
  \A s \in Stages, publishes \in BOOLEAN : ScanInv /\ Consume(s, publishes) => ScanInv'
<1> SUFFICES ASSUME NEW s \in Stages, NEW publishes \in BOOLEAN, ScanInv,
                    Consume(s, publishes)
             PROVE  ScanInv'
  OBVIOUS
<1>1. EngineInv' BY ConsumeKeeps DEF ScanInv
<1>2. EngineTypes /\ "parameters" \in Stages /\ nextId["parameters"] \in Nat /\ EngineInv
  BY ScanShapes DEF ScanInv
<1>3. UNCHANGED <<scanVars, seenVars, recording, flushed, overrun, gui, origin>>
  BY DEF Consume, recordVars
<1>4. /\ held[s] = None /\ latest' = latest /\ built' = built
      /\ \A t \in Stages \ {s} : open'[t] = open[t] /\ nextId'[t] = nextId[t] /\ held'[t] = held[t]
      /\ s = "parameters" => open[s] \subseteq open'[s]
      /\ ~publishes => held'[s] = None /\ nextId'[s] = nextId[s]
      /\ publishes => /\ held'[s].id = nextId[s] /\ nextId'[s] = nextId[s] + 1
                      /\ s = "parameters" => held'[s].blocks = open'[s]
  BY <1>2, ConsumeEffect
<1>5. NothingHidden
  <2>1. nextId["parameters"] <= nextId'["parameters"]
    <3>1. CASE s = "parameters" BY <1>2, <1>4, <3>1
    <3>2. CASE s # "parameters" BY <1>2, <1>4, <3>2
    <3> QED BY <3>1, <3>2
  <2>2. \A x \in Given("parameters")' : x \in Given("parameters") \/ x.id = nextId["parameters"]
    BY <1>2, <1>3, <1>4 DEF Given, Ahead
  <2>3. \A o : Carried(o) => Carried(o)' BY <1>2, <1>3, <1>4 DEF Carried, Ahead
  <2>4. \A o : Exposed(o) => Exposed(o)' BY <1>4 DEF Exposed
  <2> QED BY <2>1, <2>2, <2>3, <2>4 DEF NothingHidden
<1> QED BY <1>1, <1>3, <1>5, SameBlocks, StageStays


\* A step of a handler that leaves the scan alone.
LEMMA HandlerStays ==
  ASSUME ScanInv, EngineInv', gui # <<>>, gui' = Tail(gui),
         UNCHANGED <<scanVars, seenVars, recording, overrun, origin>>,
         Starting \/ NothingHidden, FlushUnderWay'
  PROVE  ScanInv'
<1>1. EngineTypes BY ScanShapes
<1>2. /\ Onward(gui, gui')
      /\ gui' # <<>> => EndOf(gui') = EndOf(gui)
      /\ gui' = <<>> => EndOf(gui').op = "none"
  BY <1>1, Progress
<1>3. EndOf(gui').op = "sweep" => state = "moving" BY <1>2 DEF ScanInv, OnTheMove
<1>4. Starting' => Starting BY <1>2 DEF Onward, StartGoesOn, FlushGoesOn, Ahead, Op, Starting
<1>5. timers \in Seq(Nat) /\ posted \in Seq(Report) BY DEF ScanInv, ScanTypes
<1> QED BY <1>3, <1>4, <1>5, SameBlocks, ScanStays DEF scanVars

LEMMA AwaitDrainedStays == ScanInv /\ AwaitDrained => ScanInv'
<1> SUFFICES ASSUME ScanInv, AwaitDrained PROVE ScanInv' OBVIOUS
<1>1. EngineInv' BY AwaitDrainedKeeps DEF ScanInv
<1>2. EngineTypes /\ "parameters" \in Stages BY ScanShapes
<1>3. /\ gui # <<>> /\ Op(gui) = "await" /\ gui' = Tail(gui) /\ Drained
      /\ UNCHANGED <<open, nextId, held, latest, origin, recording, overrun, scanVars, seenVars>>
  BY DEF AwaitDrained, Doing, Proceed, Op, stageVars
<1>4. /\ gui' # <<>> /\ EndOf(gui') = EndOf(gui) /\ Op(gui') = "build"
      /\ ~Ahead(gui', "publish", "parameters")
  BY <1>2, <1>3, Progress DEF Onward, StartGoesOn, FlushGoesOn, Ahead, Op
<1>5. NothingHidden BY <1>2, <1>3, <1>4, SameParameters
<1>6. FlushUnderWay'
  <2> SUFFICES ASSUME Posting' PROVE FlushUnderWay' BY DEF FlushUnderWay
  <2>1. Posting BY <1>4 DEF Posting
  <2>2. PICK q \in Report : q = EndOf(gui).stage
    BY <1>2, <2>1, PostFacts DEF Posting, EngineTypes
  <2>3. Past(q.scan) /\ q.owed \subseteq Of(recording)
    BY <2>1, <2>2 DEF ScanInv, FlushUnderWay
  <2>4. ToSet(todo["parameters"]) = {} /\ held["parameters"] = None
    BY <1>2, <1>3, EmptyQueueFacts DEF Drained
  <2>5. Of(recording) \subseteq open["parameters"]
    BY <2>4 DEF ScanInv, EngineInv, Accumulated, Of
  <2>6. Carried(q.owed)' BY <1>3, <1>4, <2>3, <2>4, <2>5 DEF Carried
  <2>7. Past(q.scan)' /\ (q.owed \subseteq Of(recording))'
    BY <1>3, <2>3 DEF Past, Of, scanVars
  <2>8. EndOf(gui').stage = q BY <1>4, <2>2
  <2> QED BY <1>4, <2>6, <2>7, <2>8 DEF FlushUnderWay
<1> QED BY <1>1, <1>3, <1>5, <1>6, HandlerStays

LEMMA AwaitTimesOutStays == ScanInv /\ AwaitTimesOut => ScanInv'
<1> SUFFICES ASSUME ScanInv, AwaitTimesOut PROVE ScanInv' OBVIOUS
<1>1. EngineInv' BY AwaitTimesOutKeeps DEF ScanInv
<1>2. EngineTypes /\ "parameters" \in Stages BY ScanShapes
<1>3. /\ gui # <<>> /\ Op(gui) = "await" /\ flushed' = FALSE /\ (overrun => overrun')
      /\ gui' = SubSeq(gui, Len(FlushSteps) + 1, Len(gui))
      /\ UNCHANGED <<open, nextId, held, latest, origin, recording, scanVars, seenVars>>
  BY DEF AwaitTimesOut, Doing, Op, stageVars
<1>4. gui' = <<EndOf(gui)>> /\ EndOf(gui).op \in {"recorded", "post"}
  BY <1>2, <1>3, OnlyTheEnd, EndFacts DEF EngineTypes
<1>5. /\ EndOf(gui') = EndOf(gui) /\ Op(gui') \in {"recorded", "post"}
      /\ ~Ahead(gui', "publish", "parameters") /\ ~Starting'
  BY <1>4 DEF EndOf, Op, Ahead, Starting
<1>6. NothingHidden BY <1>2, <1>3, <1>5, SameParameters
<1>7. FlushUnderWay'
  <2> SUFFICES ASSUME Posting' PROVE FlushUnderWay' BY DEF FlushUnderWay
  <2>1. Posting BY <1>5 DEF Posting
  <2>2. PICK q \in Report : q = EndOf(gui).stage
    BY <1>2, <2>1, PostFacts DEF Posting, EngineTypes
  <2>3. Past(q.scan) /\ q.owed \subseteq Of(recording)
    BY <2>1, <2>2 DEF ScanInv, FlushUnderWay
  <2>4. Past(q.scan)' /\ (q.owed \subseteq Of(recording))'
    BY <1>3, <2>3 DEF Past, Of, scanVars
  <2>5. EndOf(gui').stage = q BY <1>5, <2>2
  <2> QED BY <1>3, <2>4, <2>5 DEF FlushUnderWay
<1>8. timers \in Seq(Nat) /\ posted \in Seq(Report) BY DEF ScanInv, ScanTypes
<1>9. EndOf(gui').op # "sweep" BY <1>4, <1>5
<1> QED BY <1>1, <1>3, <1>5, <1>6, <1>7, <1>8, <1>9, SameBlocks, ScanStays DEF scanVars

LEMMA BuildStays == ScanInv /\ Build => ScanInv'
<1> SUFFICES ASSUME ScanInv, Build PROVE ScanInv' OBVIOUS
<1> DEFINE s == Head(gui).stage
<1>1. EngineInv' BY BuildKeeps DEF ScanInv
<1>2. EngineTypes /\ "parameters" \in Stages /\ nextId["parameters"] \in Nat BY ScanShapes
<1>3. /\ gui # <<>> /\ Op(gui) = "build" /\ gui' = Tail(gui)
      /\ s = "parameters" => built' = Snapshot(s)
      /\ s = "parameters" => nextId' = [nextId EXCEPT ![s] = @ + 1]
      /\ s # "parameters" => nextId'["parameters"] = nextId["parameters"]
      /\ open' = [open EXCEPT ![s] = IF s = "parameters" THEN @ ELSE {}]
      /\ UNCHANGED <<held, latest, flushed, origin, recording, overrun, scanVars, seenVars>>
  BY <1>2 DEF Build, Doing, Proceed, Op, recordVars, EngineTypes
<1>4. /\ gui' # <<>> /\ EndOf(gui') = EndOf(gui) /\ Op(gui') = "publish"
      /\ s \in Stages /\ Ahead(gui', "publish", s)
  BY <1>2, <1>3, Progress DEF Onward, StartGoesOn, FlushGoesOn, Ahead, Op
<1>5. s # "parameters" => ~Ahead(gui', "publish", "parameters") BY <1>4 DEF Ahead
<1> HIDE DEF s
<1>6. open'["parameters"] = open["parameters"] BY <1>2, <1>3, <1>4 DEF EngineTypes
<1>7. NothingHidden
  <2>1. CASE s # "parameters" BY <1>2, <1>3, <1>5, <1>6, <2>1, SameParameters
  <2>2. CASE s = "parameters"
    <3>1. nextId'["parameters"] = nextId["parameters"] + 1
      BY <1>2, <1>3, <2>2 DEF EngineTypes
    <3>2. /\ Snapshot(s).id = nextId["parameters"] /\ Snapshot(s).blocks = open["parameters"]
          /\ built' = Snapshot(s) /\ Snapshot(s) # None
      <4>1. Snapshot(s) \in Snapshots BY <1>2, <1>4, EngineShapes DEF Snapshot, Snapshots
      <4> QED BY <1>2, <1>3, <2>2, <4>1, EngineShapes DEF Snapshot
    <3>3. \A x \in Given("parameters")' : x \in Given("parameters") \/ x.id = nextId["parameters"]
      BY <1>3, <3>2 DEF Given
    <3>4. \A o : Carried(o) => Carried(o)' BY <1>3, <1>6, <3>2 DEF Carried
    <3>5. \A o : Exposed(o) => Exposed(o)' BY <1>3 DEF Exposed
    <3> QED BY <1>2, <3>1, <3>3, <3>4, <3>5 DEF NothingHidden
  <2> QED BY <2>1, <2>2
<1>8. FlushUnderWay' BY <1>3, <1>4, <1>7, SameBlocks, FlushStays DEF scanVars
<1> QED BY <1>1, <1>3, <1>7, <1>8, HandlerStays

LEMMA PublishBuiltStays == ScanInv /\ PublishBuilt => ScanInv'
<1> SUFFICES ASSUME ScanInv, PublishBuilt PROVE ScanInv' OBVIOUS
<1> DEFINE s == Head(gui).stage
<1>1. EngineInv' BY PublishBuiltKeeps DEF ScanInv
<1>2. EngineTypes /\ "parameters" \in Stages /\ nextId["parameters"] \in Nat BY ScanShapes
<1>3. /\ gui # <<>> /\ Op(gui) = "publish" /\ gui' = Tail(gui)
      /\ latest' = [latest EXCEPT ![s] = IF built # None THEN built ELSE @]
      /\ UNCHANGED <<open, nextId, held, flushed, origin, recording, overrun, scanVars, seenVars>>
  BY DEF PublishBuilt, Doing, Proceed, Op, recordVars, stageVars
<1>4. /\ gui' # <<>> /\ EndOf(gui') = EndOf(gui)
      /\ s \in Stages /\ Ahead(gui, "publish", s)
      /\ s = "parameters" => Op(gui') = EndOf(gui).op
      /\ s # "parameters" => Op(gui') = "build"
      /\ EndOf(gui).op \in {"recorded", "post"}
  BY <1>2, <1>3, Progress DEF Onward, StartGoesOn, FlushGoesOn, Ahead, Op
<1>5. ~Ahead(gui', "publish", "parameters") /\ Op(gui') # "await" BY <1>4 DEF Ahead, Op
<1>6. s = "parameters" => Ahead(gui, "publish", "parameters") BY <1>4
<1> HIDE DEF s
<1>7. latest'["parameters"] = IF s = "parameters" /\ built # None THEN built
                              ELSE latest["parameters"]
  BY <1>2, <1>3, <1>4 DEF EngineTypes
<1>8. NothingHidden
  <2>1. Given("parameters")' \subseteq Given("parameters")
    BY <1>3, <1>5, <1>6, <1>7 DEF Given
  <2>2. \A o : Carried(o) => Carried(o)' BY <1>3, <1>5 DEF Carried
  <2>3. \A o : Carried(o) /\ Exposed(o) => Exposed(o)'
    BY <1>6, <1>7 DEF Carried, Exposed
  <2> QED BY <1>2, <1>3, <2>1, <2>2, <2>3 DEF NothingHidden
<1>9. FlushUnderWay'
  <2>1. CASE Op(gui') # "post"
    BY <1>3, <1>4, <1>8, <2>1, SameBlocks, FlushStays DEF scanVars
  <2>2. CASE Op(gui') = "post" /\ Posting'
    <3>1. Posting /\ s = "parameters" BY <1>4, <2>2 DEF Posting
    <3>2. PICK q \in Report : q = EndOf(gui).stage
      BY <1>2, <3>1, PostFacts DEF Posting, EngineTypes
    <3>3. /\ Past(q.scan) /\ q.owed \subseteq Of(recording)
          /\ flushed /\ ~overrun => Carried(q.owed)
      BY <1>3, <3>1, <3>2 DEF ScanInv, FlushUnderWay
    <3>4. Past(q.scan)' /\ (q.owed \subseteq Of(recording))'
      BY <1>3, <3>3 DEF Past, Of, scanVars
    <3>5. q.owed \in SUBSET Nat BY DEF Report
    <3>6. flushed' /\ ~overrun' => Carried(q.owed)' /\ Exposed(q.owed)'
      <4> SUFFICES ASSUME flushed', ~overrun' PROVE Carried(q.owed)' /\ Exposed(q.owed)'
        OBVIOUS
      <4>1. Carried(q.owed) BY <1>3, <3>3
      <4>2. Carried(q.owed)' BY <1>8, <3>5, <4>1 DEF NothingHidden
      <4>3. Exposed(q.owed)' BY <1>6, <1>7, <3>1, <4>1 DEF Carried, Exposed
      <4> QED BY <4>2, <4>3
    <3>7. EndOf(gui').stage = q BY <1>4, <3>2
    <3> QED BY <3>4, <3>6, <3>7 DEF FlushUnderWay
  <2> QED BY <2>1, <2>2 DEF FlushUnderWay
<1> QED BY <1>1, <1>3, <1>8, <1>9, HandlerStays

\* The start of a recording, and the ends of one.
LEMMA StartStays == ScanInv /\ (Reset \/ Configure) => ScanInv'
<1> SUFFICES ASSUME ScanInv, Reset \/ Configure PROVE ScanInv' OBVIOUS
<1>1. EngineInv' BY ResetKeeps, ConfigureKeeps DEF ScanInv
<1>2. EngineTypes BY ScanShapes
<1>3. /\ gui # <<>> /\ Op(gui) \in {"reset", "configure"} /\ gui' = Tail(gui)
      /\ UNCHANGED <<origin, recording, overrun, scanVars, seenVars>>
  BY DEF Reset, Configure, Doing, Proceed, Op, recordVars
<1>4. Starting /\ EndOf(gui).op \in {"sourceOn", "sweep"} /\ gui' # <<>> /\ EndOf(gui') = EndOf(gui)
  BY <1>2, <1>3, Progress DEF Onward, StartGoesOn, FlushGoesOn, Ahead, Op, Starting
<1>5. FlushUnderWay' BY <1>4 DEF FlushUnderWay, Posting
<1> QED BY <1>1, <1>3, <1>4, <1>5, HandlerStays

LEMMA SwitchSourceStays == ScanInv /\ SwitchSource => ScanInv'
<1> SUFFICES ASSUME ScanInv, SwitchSource PROVE ScanInv' OBVIOUS
<1>1. EngineInv' BY SwitchSourceKeeps DEF ScanInv
<1>2. EngineTypes /\ "parameters" \in Stages BY ScanShapes
<1>3. /\ gui # <<>> /\ Op(gui) \in {"sourceOn", "sourceOff"} /\ gui' = Tail(gui)
      /\ UNCHANGED <<open, nextId, held, latest, origin, recording, overrun, scanVars, seenVars>>
  BY DEF SwitchSource, Doing, Proceed, Op, recordVars, stageVars
<1>4. /\ Op(gui) = "sourceOn" => Starting /\ EndOf(gui').op \in {"none", "sourceOn", "sweep"}
      /\ Op(gui) = "sourceOff" => Op(gui') = "await" /\ EndOf(gui').op = "recorded"
  BY <1>2, <1>3, Progress DEF Onward, StartGoesOn, FlushGoesOn, Ahead, Op, Starting
<1>5. FlushUnderWay' BY <1>3, <1>4 DEF FlushUnderWay, Posting
<1>6. Starting \/ NothingHidden
  <2>1. CASE Op(gui) = "sourceOff"
    <3>1. ~Ahead(gui', "publish", "parameters") BY <1>4, <2>1 DEF Ahead, Op
    <3> QED BY <1>2, <1>3, <3>1, SameParameters
  <2> QED BY <1>3, <1>4, <2>1
<1> QED BY <1>1, <1>3, <1>5, <1>6, HandlerStays

LEMMA EndRecordedStays == ScanInv /\ EndRecorded => ScanInv'
<1> SUFFICES ASSUME ScanInv, EndRecorded PROVE ScanInv' OBVIOUS
<1>1. EngineInv' BY LastStepKeeps DEF ScanInv
<1>2. EngineTypes /\ "parameters" \in Stages BY ScanShapes
<1>3. /\ gui # <<>> /\ Op(gui) = "recorded" /\ gui' = Tail(gui)
      /\ UNCHANGED <<open, nextId, held, latest, origin, recording, overrun, scanVars, seenVars>>
  BY DEF EndRecorded, Doing, Proceed, Op, stageVars
<1>4. gui' = <<>> /\ EndOf(gui').op = "none"
  BY <1>2, <1>3, Progress DEF Onward, StartGoesOn, FlushGoesOn, Ahead, Op
<1>5. ~Ahead(gui', "publish", "parameters") BY <1>4 DEF Ahead
<1>6. FlushUnderWay' BY <1>4 DEF FlushUnderWay, Posting
<1>7. NothingHidden BY <1>2, <1>3, <1>5, SameParameters
<1> QED BY <1>1, <1>3, <1>6, <1>7, HandlerStays

\* The callback of a flush: what it owes has been carried to the scan if it succeeded.
LEMMA PostResultStays == ScanInv /\ PostResult => ScanInv'
<1> SUFFICES ASSUME ScanInv, PostResult PROVE ScanInv' OBVIOUS
<1>1. EngineInv' BY LastStepKeeps DEF ScanInv
<1>2. EngineTypes /\ "parameters" \in Stages BY ScanShapes
<1>3. /\ gui # <<>> /\ Op(gui) = "post" /\ gui' = Tail(gui)
      /\ posted' = Append(posted, [Head(gui).stage EXCEPT !.ok = flushed])
      /\ UNCHANGED <<open, nextId, held, latest, origin, recording, overrun, state, scan, timers,
                     since, result, seenVars>>
  BY DEF PostResult, Doing, Proceed, Op, recordVars, stageVars
<1>4. /\ gui' = <<>> /\ EndOf(gui').op = "none" /\ Head(gui) = EndOf(gui)
      /\ EndOf(gui).op = "post"
  BY <1>2, <1>3, Progress DEF Onward, StartGoesOn, FlushGoesOn, Ahead, Op
<1>5. ~Ahead(gui', "publish", "parameters") /\ ~Starting' /\ ~Posting'
  BY <1>3, <1>4, FirstSteps DEF Ahead, Starting, Posting
<1>6. NothingHidden BY <1>2, <1>3, <1>5, SameParameters
<1>7. PICK q \in Report : q = EndOf(gui).stage BY <1>2, <1>4, PostFacts DEF EngineTypes
<1>8. PICK r \in Report : /\ r = [q EXCEPT !.ok = flushed]
                          /\ r.ok = flushed /\ r.scan = q.scan /\ r.owed = q.owed
  <2> DEFINE x == [q EXCEPT !.ok = flushed]
  <2>1. flushed \in BOOLEAN BY <1>2 DEF EngineTypes
  <2>2. x \in Report /\ x.ok = flushed /\ x.scan = q.scan /\ x.owed = q.owed
    BY <2>1 DEF Report
  <2> HIDE DEF x
  <2> QED BY <2>2 DEF x
<1>9. posted' \in Seq(Report) /\ ToSet(posted') = ToSet(posted) \union {r}
  <2>1. posted' = Append(posted, r) BY <1>3, <1>4, <1>7, <1>8
  <2>2. posted \in Seq(Report) BY DEF ScanInv, ScanTypes
  <2> QED BY <2>1, <2>2, PushBack
<1>10. Backed(r)'
  <2>1. /\ Past(q.scan) /\ q.owed \in SUBSET Nat
        /\ flushed /\ ~overrun => Carried(q.owed) /\ Exposed(q.owed)
    BY <1>3, <1>4, <1>7 DEF ScanInv, FlushUnderWay, Posting, Report
  <2>2. Past(r.scan)' BY <1>3, <1>8, <2>1 DEF Past
  <2>3. flushed /\ ~overrun => Carried(q.owed)' /\ Exposed(q.owed)'
    BY <1>6, <2>1 DEF NothingHidden
  <2> QED BY <1>3, <1>8, <2>2, <2>3 DEF Backed
<1>11. timers \in Seq(Nat) BY DEF ScanInv, ScanTypes
<1>12. FlushUnderWay' BY <1>5 DEF FlushUnderWay
<1> QED BY <1>1, <1>3, <1>4, <1>5, <1>6, <1>9, <1>10, <1>11, <1>12, SameBlocks, ScanStays

\* A scan begins to sweep: it has seen nothing yet, and no callback is its own.
LEMMA SweepStays == ScanInv /\ Sweep => ScanInv'
<1> SUFFICES ASSUME ScanInv, Sweep PROVE ScanInv' OBVIOUS
<1>1. EngineInv' BY LastStepKeeps DEF ScanInv
<1>2. EngineTypes /\ "parameters" \in Stages BY ScanShapes
<1>3. /\ gui # <<>> /\ Op(gui) = "sweep" /\ gui' = Tail(gui)
      /\ state' = "scanning" /\ since' = recording
      /\ UNCHANGED <<nextId, latest, held, built, origin, recording, overrun, scan, timers,
                     posted, result, seenVars>>
  BY DEF Sweep, Doing, Proceed, Op, recordVars, stageVars
<1>4. gui' = <<>> /\ EndOf(gui').op = "none" /\ EndOf(gui).op = "sweep"
  BY <1>2, <1>3, Progress DEF Onward, StartGoesOn, FlushGoesOn, Ahead, Op
<1>5. /\ state = "moving" /\ controllerLast["parameters"] = 0 /\ bearings = {} /\ params = {}
  BY <1>4 DEF ScanInv, OnTheMove
<1>6. ~Starting' /\ ~Posting' /\ ~Ahead(gui', "publish", "parameters")
  BY <1>4, FirstSteps DEF Starting, Posting, Ahead
<1>7. UNCHANGED <<adapterLast, controllerLast, bearings, params>> BY <1>3 DEF seenVars
<1>8. ScanTypes'
  <2>1. since' \in 0..recording' BY <1>3, ScanShapes
  <2> QED BY <1>3, <1>7, <2>1 DEF ScanInv, ScanTypes
<1>9. OnTheMove' BY <1>3, <1>4, <1>6 DEF OnTheMove
<1>10. ScanUsesItsOwn' /\ FinalParametersComplete'
  BY <1>3, <1>5, <1>7 DEF ScanInv, ScanUsesItsOwn, FinalParametersComplete
<1>11. Seen'
  <2>1. nextId["parameters"] \in Nat \ {0} BY <1>2, EngineShapes
  <2>2. \A x \in Given("parameters")' : x.id # 0
    <3>1. Given("parameters")' \subseteq Snapshots BY <1>2, <1>3, <1>6, EngineShapes DEF Given
    <3> QED BY <1>2, <3>1, EngineShapes
  <2> QED BY <1>3, <1>5, <1>7, <2>1, <2>2 DEF Seen
<1>12. FlushUnderWay' BY <1>6 DEF FlushUnderWay
<1>13. FlushesDone'
  <2>1. \A n \in Nat : Past(n) => Past(n)' /\ n # scan' BY <1>3, <1>5, ScanShapes DEF Past
  <2>2. \A n \in ToSet(timers') : Past(n)' BY <1>3, <2>1, ScanShapes DEF ScanInv, FlushesDone
  <2>3. \A q \in ToSet(posted') : Past(q.scan)' /\ q.scan # scan'
    BY <1>3, <2>1, ScanShapes DEF ScanInv, FlushesDone, Backed
  <2> QED BY <2>2, <2>3 DEF FlushesDone, Backed
<1> QED BY <1>1, <1>8, <1>9, <1>10, <1>11, <1>12, <1>13 DEF ScanInv

\* A handler that only begins.
LEMMA HandlerBegins ==
  ASSUME ScanInv, gui = <<>>,
         UNCHANGED <<source, stageVars, latest, built, recordVars, origin>>,
         UNCHANGED <<state, scan, posted, since, result, seenVars>>,
         timers' \in Seq(Nat), ToSet(timers') \subseteq ToSet(timers),
         \/ gui' = StopSteps /\ active
         \/ gui' = <<Step("sweep", "none")>> /\ active /\ state = "moving"
         \/ \E q \in Report : /\ gui' = FlushSteps \o <<Step("post", q)>>
                              /\ Past(q.scan) /\ q.owed = Of(recording)
  PROVE  ScanInv'
<1>1. EngineInv'
  <2>1. \/ gui' \in {StopSteps, <<Step("sweep", "none")>>} /\ active
        \/ \E q \in Report : gui' = FlushSteps \o <<Step("post", q)>>
    OBVIOUS
  <2> QED BY <2>1, HandlerKeeps DEF ScanInv
<1>2. EngineTypes /\ "parameters" \in Stages BY ScanShapes
<1>3. UNCHANGED <<open, nextId, held, latest, origin, recording, overrun>>
  BY DEF stageVars, recordVars
<1>4. /\ Op(gui') \in {"sourceOff", "sweep", "await"}
      /\ EndOf(gui').op = "sweep" => state = "moving"
      /\ FlushUnderWay'
  <2>1. CASE gui' = StopSteps
    BY <2>1, FirstSteps DEF FlushUnderWay, Posting
  <2>2. CASE gui' = <<Step("sweep", "none")>> /\ state = "moving"
    BY <2>2, FirstSteps DEF FlushUnderWay, Posting
  <2>3. ASSUME NEW q \in Report, gui' = FlushSteps \o <<Step("post", q)>>,
               Past(q.scan), q.owed = Of(recording)
        PROVE  Op(gui') = "await" /\ EndOf(gui').op = "post" /\ FlushUnderWay'
    <3>1. Op(gui') = "await" /\ EndOf(gui') = Step("post", q) BY <2>3, FirstSteps
    <3>2. EndOf(gui').op = "post" /\ EndOf(gui').stage = q BY <3>1 DEF Step
    <3>3. Past(q.scan)' /\ q.owed \subseteq Of(recording)' BY <1>3, <2>3 DEF Past, Of
    <3> QED BY <1>3, <3>1, <3>2, <3>3 DEF FlushUnderWay
  <2> QED BY <2>1, <2>2, <2>3
<1>5. ~Ahead(gui', "publish", "parameters") /\ ~Starting' BY <1>4 DEF Ahead, Op, Starting
<1>6. NothingHidden BY <1>2, <1>3, <1>5, SameParameters
<1>7. posted \in Seq(Report) BY DEF ScanInv, ScanTypes
<1> QED BY <1>1, <1>3, <1>4, <1>5, <1>6, <1>7, SameBlocks, ScanStays

LEMMA FlushProcessingStays == ScanInv /\ FlushProcessing => ScanInv'
<1> SUFFICES ASSUME ScanInv, FlushProcessing PROVE ScanInv' OBVIOUS
<1>1. /\ gui = <<>> /\ timers # <<>> /\ timers' = Tail(timers)
      /\ gui' = FlushSteps \o <<Step("post", [scan |-> Head(timers), ok |-> FALSE,
                                              owed |-> Of(recording)])>>
      /\ UNCHANGED <<source, stageVars, latest, built, recordVars, origin>>
      /\ UNCHANGED <<state, scan, posted, since, result, seenVars>>
  BY DEF FlushProcessing, Idle, Begin, recordVars
<1>2. timers \in Seq(Nat) BY DEF ScanInv, ScanTypes
<1>3. /\ Head(timers) \in Nat /\ timers' \in Seq(Nat)
      /\ ToSet(timers) = {Head(timers)} \union ToSet(timers')
  BY <1>1, <1>2, PopFront
<1>4. Past(Head(timers)) BY <1>3 DEF ScanInv, FlushesDone
<1>5. Of(recording) \in SUBSET Nat
  <2>1. Len(origin) \in Nat BY ScanShapes, EngineShapes
  <2> QED BY <2>1 DEF Of
<1>6. PICK q \in Report : /\ q = [scan |-> Head(timers), ok |-> FALSE, owed |-> Of(recording)]
                          /\ q.scan = Head(timers) /\ q.owed = Of(recording)
  <2> DEFINE x == [scan |-> Head(timers), ok |-> FALSE, owed |-> Of(recording)]
  <2>1. x \in Report /\ x.scan = Head(timers) /\ x.owed = Of(recording)
    BY <1>3, <1>5 DEF Report
  <2> QED BY <2>1
<1>7. gui' = FlushSteps \o <<Step("post", q)>> BY <1>1, <1>6
<1> QED BY <1>1, <1>3, <1>4, <1>6, <1>7, HandlerBegins

LEMMA StopRecordingStays == ScanInv /\ StopRecording => ScanInv'
<1> SUFFICES ASSUME ScanInv, StopRecording PROVE ScanInv' OBVIOUS
<1>1. /\ gui = <<>> /\ gui' = StopSteps /\ active /\ timers' = timers
      /\ UNCHANGED <<source, stageVars, latest, built, recordVars, origin>>
      /\ UNCHANGED <<state, scan, posted, since, result, seenVars>>
  BY DEF StopRecording, Idle, Begin, recordVars, scanVars
<1>2. timers \in Seq(Nat) BY DEF ScanInv, ScanTypes
<1> QED BY <1>1, <1>2, HandlerBegins

\* A recording starts, with a sector scan or by itself: what the scan has seen is of an earlier one.
LEMMA RecordingStarts ==
  ASSUME ScanInv, gui = <<>>, ~active, recording < MaxRecordings,
         UNCHANGED <<source, stageVars, latest, built, flushed, overrun, timeouts, origin>>,
         recording' = recording + 1, active' = TRUE, UNCHANGED <<scanVars, seenVars>>,
         \/ gui' = StartSteps
         \/ gui' = StartSteps \o <<Step("sweep", "none")>> /\ state = "moving"
  PROVE  ScanInv'
<1>1. EngineInv' BY StartKeeps DEF ScanInv
<1>2. /\ EndOf(gui').op \in {"sourceOn", "sweep"}
      /\ EndOf(gui').op = "sweep" => state = "moving"
  BY FirstSteps
<1>3. UNCHANGED <<state, scan, timers, posted, since, result, adapterLast, controllerLast,
                  bearings, params>>
  BY DEF scanVars, seenVars
<1>4. since < recording' /\ since \in 0..recording' BY <1>3, ScanShapes
<1>5. ScanTypes' BY <1>3, <1>4 DEF ScanInv, ScanTypes
<1>6. OnTheMove' BY <1>2, <1>3, <1>4 DEF ScanInv, OnTheMove
<1>7. ScanUsesItsOwn' /\ FinalParametersComplete'
  BY <1>3 DEF ScanInv, ScanUsesItsOwn, FinalParametersComplete, Sweeping
<1>8. since' # recording' BY <1>3, <1>4, ScanShapes
<1>9. Seen' BY <1>8 DEF Seen
<1>10. FlushUnderWay' BY <1>2 DEF FlushUnderWay, Posting
<1>11. FlushesDone' BY <1>3, <1>8 DEF ScanInv, FlushesDone, Backed, Past
<1> QED BY <1>1, <1>5, <1>6, <1>7, <1>9, <1>10, <1>11 DEF ScanInv

LEMMA StartRecordingStays == ScanInv /\ StartRecording => ScanInv'
BY RecordingStarts DEF StartRecording, Idle, Begin

LEMMA BeginSectorScanStays == ScanInv /\ BeginSectorScan => ScanInv'
<1> SUFFICES ASSUME ScanInv, BeginSectorScan PROVE ScanInv' OBVIOUS
<1>1. gui = <<>> /\ state = "moving" /\ UNCHANGED <<scanVars, seenVars>>
  BY DEF BeginSectorScan, Idle
<1>2. CASE active
  <2>1. /\ gui' = <<Step("sweep", "none")>> /\ timers' = timers
        /\ UNCHANGED <<source, stageVars, latest, built, recordVars, origin>>
        /\ UNCHANGED <<state, scan, posted, since, result, seenVars>>
    BY <1>2 DEF BeginSectorScan, Begin, recordVars, scanVars
  <2>2. timers \in Seq(Nat) BY DEF ScanInv, ScanTypes
  <2> QED BY <1>1, <1>2, <2>1, <2>2, HandlerBegins
<1>3. CASE ~active BY <1>1, <1>3, RecordingStarts DEF BeginSectorScan, Begin
<1> QED BY <1>2, <1>3

\* A handler of the scan alone, which may end its recording.
LEMMA ScanHandlerStays ==
  ASSUME ScanInv, gui = <<>>, gui' = <<>> \/ (gui' = StopSteps /\ active),
         UNCHANGED <<source, stageVars, latest, built, recordVars, scan, since, origin>>,
         state' \in {"idle", "moving", "scanning", "completing"},
         state' = "moving" => state = "moving", Sweeping' => Sweeping,
         timers' \in Seq(Nat), \A n \in ToSet(timers') : n \in ToSet(timers) \/ Past(n)',
         posted' \in Seq(Report), ToSet(posted') \subseteq ToSet(posted),
         adapterLast' \in [Stages -> Nat], controllerLast' \in [Stages -> Nat],
         bearings' \subseteq 1..Len(origin), params' \subseteq 1..Len(origin),
         state' = "moving" => /\ controllerLast'["parameters"] = controllerLast["parameters"]
                              /\ bearings' = bearings /\ params' = params,
         ScanUsesItsOwn', Seen', FinalParametersComplete'
  PROVE  ScanInv'
<1>1. EngineInv' BY HandlerKeeps DEF ScanInv
<1>2. EngineTypes /\ "parameters" \in Stages BY ScanShapes
<1>3. UNCHANGED <<open, nextId, held, latest, origin, recording, overrun>>
  BY DEF stageVars, recordVars
<1>4. Op(gui') \in {"none", "sourceOff"} /\ EndOf(gui').op \in {"none", "recorded"}
  BY FirstSteps
<1>5. ~Ahead(gui', "publish", "parameters") /\ ~Starting' /\ ~Posting'
  BY <1>4 DEF Ahead, Op, Starting, Posting
<1>6. NothingHidden BY <1>2, <1>3, <1>5, SameParameters
<1>7. ScanTypes' BY <1>3 DEF ScanInv, ScanTypes
<1>8. OnTheMove' BY <1>4, <1>5 DEF ScanInv, OnTheMove
<1>9. FlushUnderWay' BY <1>5 DEF FlushUnderWay
<1>10. FlushesDone' BY <1>3, <1>6, DoneStays
<1> QED BY <1>1, <1>7, <1>8, <1>9, <1>10 DEF ScanInv

\* What can be read is as it was, so what the scan has seen stays right.
LEMMA SeenStays ==
  ASSUME ScanInv, gui = <<>>, gui' = <<>> \/ gui' = StopSteps,
         UNCHANGED <<stageVars, latest, overrun, since, recording>>, Sweeping' => Sweeping,
         \/ /\ controllerLast'["parameters"] = controllerLast["parameters"]
            /\ params' = params
         \/ /\ latest["parameters"] # None
            /\ controllerLast'["parameters"] = latest["parameters"].id
            /\ params' = latest["parameters"].blocks
  PROVE  Seen'
<1> SUFFICES ASSUME ~overrun, Sweeping, since = recording
             PROVE  /\ controllerLast'["parameters"] < nextId["parameters"]
                    /\ \A x \in Given("parameters")' :
                         x.id = controllerLast'["parameters"] => x.blocks = params'
  BY DEF Seen, stageVars
<1>1. UNCHANGED <<open, nextId, held, latest>> BY DEF stageVars
<1>2. ~Ahead(gui', "publish", "parameters") BY FirstSteps DEF Ahead, Op
<1>3. Given("parameters")' \subseteq Given("parameters") BY <1>1, <1>2 DEF Given
<1>4. /\ controllerLast["parameters"] < nextId["parameters"]
      /\ \A x \in Given("parameters") : x.id = controllerLast["parameters"] => x.blocks = params
  BY DEF ScanInv, Seen
<1>5. ASSUME latest["parameters"] # None
      PROVE  /\ latest["parameters"].id < nextId["parameters"]
             /\ \A x \in Given("parameters") :
                  x.id = latest["parameters"].id => x.blocks = latest["parameters"].blocks
  <2>1. latest["parameters"] \in Given("parameters") BY <1>5 DEF Given
  <2> QED BY <2>1 DEF ScanInv, EngineInv, Numbered
<1> QED BY <1>3, <1>4, <1>5

\* A snapshot in the exchange is of the recording under way, which is none before the scan's.
LEMMA ShownIsOwn ==
  ASSUME ScanInv, gui = <<>>, NEW s \in {"bearing", "parameters"}, latest[s] # None
  PROVE  /\ latest[s].id \in Nat /\ latest[s].blocks \subseteq 1..Len(origin)
         /\ ~overrun => \A b \in latest[s].blocks : origin[b] >= since
<1>1. EngineTypes /\ s \in Stages BY ScanShapes, SnapshotAssumption
<1>2. latest[s] \in Snapshots BY <1>1, EngineShapes
<1>3. latest[s].id \in Nat BY <1>1, <1>2, EngineShapes
<1>4. latest[s].blocks \subseteq 1..Len(origin)
  BY <1>1 DEF ScanInv, EngineInv, KnownBlocks
<1>5. ASSUME ~overrun, NEW b \in latest[s].blocks PROVE origin[b] >= since
  <2>1. ~Starting /\ latest[s] \in Given(s) BY FirstSteps DEF Starting, Given
  <2>2. origin[b] = recording BY <1>5, <2>1 DEF ScanInv, EngineInv, OwnBlocks, Recent
  <2> QED BY <2>2, ScanShapes
<1> QED BY <1>3, <1>4, <1>5

\* acceptSignalParameterSnapshot: what the scan has seen stays right, and its own.
LEMMA AcceptedParameters ==
  ASSUME ScanInv, gui = <<>>, ParametersAfter \/ UNCHANGED <<params, controllerLast>>
  PROVE  /\ controllerLast' \in [Stages -> Nat] /\ params' \subseteq 1..Len(origin)
         /\ ~Sweeping => UNCHANGED <<params, controllerLast>>
         /\ \/ /\ controllerLast'["parameters"] = controllerLast["parameters"]
               /\ params' = params
            \/ /\ latest["parameters"] # None
               /\ controllerLast'["parameters"] = latest["parameters"].id
               /\ params' = latest["parameters"].blocks
         /\ ~overrun /\ Sweeping => \A b \in params' : origin[b] >= since
<1>1. "parameters" \in Stages BY SnapshotAssumption
<1>2. /\ controllerLast \in [Stages -> Nat] /\ params \subseteq 1..Len(origin)
      /\ ~overrun /\ Sweeping => \A b \in params : origin[b] >= since
  BY DEF ScanInv, ScanTypes, ScanUsesItsOwn
<1>3. CASE UNCHANGED <<params, controllerLast>> BY <1>2, <1>3
<1>4. CASE /\ latest["parameters"] # None /\ Sweeping
           /\ params' = latest["parameters"].blocks
           /\ controllerLast' = [controllerLast EXCEPT !["parameters"] = latest["parameters"].id]
  <2>1. /\ latest["parameters"].id \in Nat /\ latest["parameters"].blocks \subseteq 1..Len(origin)
        /\ ~overrun => \A b \in latest["parameters"].blocks : origin[b] >= since
    BY <1>4, ShownIsOwn
  <2>2. /\ controllerLast' \in [Stages -> Nat]
        /\ controllerLast'["parameters"] = latest["parameters"].id
    BY <1>1, <1>2, <1>4, <2>1
  <2> QED BY <1>4, <2>1, <2>2
<1> QED BY <1>3, <1>4 DEF ParametersAfter

LEMMA StopScanStays == ScanInv /\ StopScan => ScanInv'
<1> SUFFICES ASSUME ScanInv, StopScan PROVE ScanInv' OBVIOUS
<1>1. /\ gui = <<>>
      /\ gui' = <<>> \/ (gui' = StopSteps /\ active)
      /\ state' = "idle" /\ params' = {}
      /\ controllerLast' = [controllerLast EXCEPT !["parameters"] = 0]
      /\ UNCHANGED <<source, stageVars, latest, built, recordVars, scan, since, origin>>
      /\ UNCHANGED <<timers, posted, result, adapterLast, bearings>>
  BY DEF StopScan, Idle, Begin, EndScanRecording, recordVars
<1>2. ~Sweeping' BY <1>1 DEF Sweeping
<1>3. /\ timers \in Seq(Nat) /\ posted \in Seq(Report) /\ adapterLast \in [Stages -> Nat]
      /\ controllerLast \in [Stages -> Nat] /\ bearings \subseteq 1..Len(origin)
  BY DEF ScanInv, ScanTypes
<1>4. controllerLast' \in [Stages -> Nat] BY <1>1, <1>3
<1>5. ScanUsesItsOwn' /\ Seen' BY <1>2 DEF ScanUsesItsOwn, Seen
<1>6. FinalParametersComplete' BY <1>1 DEF ScanInv, FinalParametersComplete, recordVars
<1> QED BY <1>1, <1>2, <1>3, <1>4, <1>5, <1>6, ScanHandlerStays

LEMMA CompleteScanStays == ScanInv /\ CompleteScan => ScanInv'
<1> SUFFICES ASSUME ScanInv, CompleteScan PROVE ScanInv' OBVIOUS
<1>1. /\ gui = <<>> /\ gui' = <<>>
      /\ state = "scanning" /\ state' = "completing" /\ timers' = Append(timers, scan)
      /\ UNCHANGED <<source, stageVars, latest, built, recordVars, scan, since, origin>>
      /\ UNCHANGED <<posted, result, seenVars>>
  BY DEF CompleteScan, Idle, Begin, recordVars
<1>2. UNCHANGED <<adapterLast, controllerLast, bearings, params, overrun, recording>>
  BY <1>1 DEF seenVars, recordVars
<1>3. Sweeping /\ Sweeping' BY <1>1 DEF Sweeping
<1>4. /\ timers \in Seq(Nat) /\ posted \in Seq(Report) /\ adapterLast \in [Stages -> Nat]
      /\ controllerLast \in [Stages -> Nat] /\ bearings \subseteq 1..Len(origin)
      /\ params \subseteq 1..Len(origin)
  BY DEF ScanInv, ScanTypes
<1>5. timers' \in Seq(Nat) /\ \A n \in ToSet(timers') : n \in ToSet(timers) \/ Past(n)'
  <2>1. scan \in Nat BY ScanShapes
  <2>2. /\ Append(timers, scan) \in Seq(Nat)
        /\ ToSet(Append(timers, scan)) = ToSet(timers) \union {scan}
    BY <1>4, <2>1, PushBack
  <2>3. Past(scan)' BY <1>1, <2>1 DEF Past
  <2> QED BY <1>1, <2>2, <2>3
<1>6. ScanUsesItsOwn' /\ FinalParametersComplete'
  BY <1>1, <1>2, <1>3 DEF ScanInv, ScanUsesItsOwn, FinalParametersComplete
<1>7. Seen' BY <1>1, <1>2, <1>3, SeenStays
<1> QED BY <1>1, <1>2, <1>3, <1>4, <1>5, <1>6, <1>7, ScanHandlerStays

LEMMA PollBearingStays == ScanInv /\ PollBearing => ScanInv'
<1> SUFFICES ASSUME ScanInv, PollBearing PROVE ScanInv' OBVIOUS
<1> DEFINE x == latest["bearing"]
<1>1. /\ gui = <<>> /\ gui' = <<>> /\ x # None
      /\ adapterLast' = [adapterLast EXCEPT !["bearing"] = x.id]
      /\ controllerLast' = [controllerLast EXCEPT !["bearing"] = x.id]
      /\ \/ bearings' = bearings
         \/ Sweeping /\ bearings' = bearings \union x.blocks
      /\ UNCHANGED <<source, stageVars, latest, built, recordVars, scan, since, origin>>
      /\ UNCHANGED <<state, timers, posted, result, params>>
  BY DEF PollBearing, Idle, Begin, recordVars, scanVars
<1>2. UNCHANGED <<overrun, recording>> /\ Sweeping' = Sweeping BY <1>1 DEF recordVars, Sweeping
<1>3. /\ x.id \in Nat /\ x.blocks \subseteq 1..Len(origin)
      /\ ~overrun => \A b \in x.blocks : origin[b] >= since
  BY <1>1, ShownIsOwn
<1> HIDE DEF x
<1>4. /\ timers \in Seq(Nat) /\ posted \in Seq(Report) /\ adapterLast \in [Stages -> Nat]
      /\ controllerLast \in [Stages -> Nat] /\ bearings \subseteq 1..Len(origin)
      /\ params \subseteq 1..Len(origin) /\ state \in {"idle", "moving", "scanning", "completing"}
  BY DEF ScanInv, ScanTypes
<1>5. /\ adapterLast' \in [Stages -> Nat] /\ controllerLast' \in [Stages -> Nat]
      /\ controllerLast'["parameters"] = controllerLast["parameters"]
  BY <1>1, <1>3, <1>4, SnapshotAssumption
<1>6. ScanUsesItsOwn'
  BY <1>1, <1>2, <1>3 DEF ScanInv, ScanUsesItsOwn
<1>7. FinalParametersComplete' BY <1>1, <1>2 DEF ScanInv, FinalParametersComplete
<1>8. Seen' BY <1>1, <1>2, <1>5, SeenStays
<1>9. bearings' \subseteq 1..Len(origin) BY <1>1, <1>3, <1>4
<1>10. state' = "moving" => bearings' = bearings BY <1>1 DEF Sweeping
<1> QED BY <1>1, <1>2, <1>4, <1>5, <1>6, <1>7, <1>8, <1>9, <1>10, ScanHandlerStays

LEMMA PollParametersStays == ScanInv /\ PollParameters => ScanInv'
<1> SUFFICES ASSUME ScanInv, PollParameters PROVE ScanInv' OBVIOUS
<1>1. /\ gui = <<>> /\ gui' = <<>> /\ latest["parameters"] # None
      /\ adapterLast' = [adapterLast EXCEPT !["parameters"] = latest["parameters"].id]
      /\ ParametersAfter
      /\ UNCHANGED <<source, stageVars, latest, built, recordVars, scan, since, origin>>
      /\ UNCHANGED <<state, timers, posted, result, bearings>>
  BY DEF PollParameters, Idle, Begin, recordVars, scanVars
<1>2. UNCHANGED <<overrun, recording>> /\ Sweeping' = Sweeping BY <1>1 DEF recordVars, Sweeping
<1>3. /\ controllerLast' \in [Stages -> Nat] /\ params' \subseteq 1..Len(origin)
      /\ ~Sweeping => UNCHANGED <<params, controllerLast>>
      /\ \/ /\ controllerLast'["parameters"] = controllerLast["parameters"]
            /\ params' = params
         \/ /\ controllerLast'["parameters"] = latest["parameters"].id
            /\ params' = latest["parameters"].blocks
      /\ ~overrun /\ Sweeping => \A b \in params' : origin[b] >= since
  BY <1>1, AcceptedParameters
<1>4. /\ timers \in Seq(Nat) /\ posted \in Seq(Report) /\ adapterLast \in [Stages -> Nat]
      /\ bearings \subseteq 1..Len(origin) /\ state \in {"idle", "moving", "scanning", "completing"}
  BY DEF ScanInv, ScanTypes
<1>5. adapterLast' \in [Stages -> Nat]
  <2>1. latest["parameters"].id \in Nat BY <1>1, ShownIsOwn
  <2> QED BY <1>1, <1>4, <2>1
<1>6. ScanUsesItsOwn' BY <1>1, <1>2, <1>3 DEF ScanInv, ScanUsesItsOwn
<1>7. FinalParametersComplete' BY <1>1, <1>2 DEF ScanInv, FinalParametersComplete
<1>8. Seen' BY <1>1, <1>2, <1>3, SeenStays
<1>9. state' = "moving" => ~Sweeping BY <1>1 DEF Sweeping
<1> QED BY <1>1, <1>2, <1>3, <1>4, <1>5, <1>6, <1>7, <1>8, <1>9, ScanHandlerStays

LEMMA FinalizeStays == ScanInv /\ FinalizeCompletedScan => ScanInv'
<1> SUFFICES ASSUME ScanInv, FinalizeCompletedScan PROVE ScanInv' OBVIOUS
<1>1. /\ gui = <<>> /\ posted # <<>> /\ posted' = Tail(posted)
      /\ IF Head(posted).ok THEN ParametersAfter ELSE UNCHANGED <<params, controllerLast>>
      /\ UNCHANGED <<source, stageVars, latest, built, recordVars, scan, since, origin>>
      /\ UNCHANGED <<timers, adapterLast, bearings>>
      /\ \/ /\ Sweeping /\ Head(posted).scan = scan /\ state' = "idle"
            /\ result' = [ok |-> Head(posted).ok, owed |-> Head(posted).owed,
                          restarted |-> since # recording, params |-> params']
            /\ gui' = <<>> \/ (gui' = StopSteps /\ active)
         \/ UNCHANGED <<state, result>> /\ gui' = <<>>
  BY DEF FinalizeCompletedScan, Idle, Begin, EndScanRecording, recordVars
<1>2. UNCHANGED <<overrun, recording, latest>> /\ (Sweeping' => Sweeping)
  BY <1>1 DEF recordVars, Sweeping
<1>3. /\ controllerLast' \in [Stages -> Nat] /\ params' \subseteq 1..Len(origin)
      /\ ~Sweeping => UNCHANGED <<params, controllerLast>>
      /\ \/ /\ controllerLast'["parameters"] = controllerLast["parameters"]
            /\ params' = params
         \/ /\ latest["parameters"] # None
            /\ controllerLast'["parameters"] = latest["parameters"].id
            /\ params' = latest["parameters"].blocks
      /\ ~overrun /\ Sweeping => \A b \in params' : origin[b] >= since
  BY <1>1, AcceptedParameters
<1>4. /\ timers \in Seq(Nat) /\ posted \in Seq(Report) /\ adapterLast \in [Stages -> Nat]
      /\ bearings \subseteq 1..Len(origin) /\ state \in {"idle", "moving", "scanning", "completing"}
  BY DEF ScanInv, ScanTypes
<1>5. /\ Head(posted) \in ToSet(posted) /\ posted' \in Seq(Report)
      /\ ToSet(posted') \subseteq ToSet(posted)
  BY <1>1, <1>4, PopFront
<1>6. ScanUsesItsOwn' BY <1>1, <1>2, <1>3 DEF ScanInv, ScanUsesItsOwn
<1>7. Seen' BY <1>1, <1>2, <1>3, SeenStays
<1>8. FinalParametersComplete'
  <2>1. CASE UNCHANGED result BY <1>2, <2>1 DEF ScanInv, FinalParametersComplete
  <2>2. CASE /\ Sweeping /\ Head(posted).scan = scan
             /\ result' = [ok |-> Head(posted).ok, owed |-> Head(posted).owed,
                           restarted |-> since # recording, params |-> params']
    <3>1. /\ result'.ok = Head(posted).ok /\ result'.owed = Head(posted).owed
          /\ result'.restarted = (since # recording) /\ result'.params = params'
      BY <2>2
    <3> SUFFICES ASSUME Head(posted).ok, since = recording, ~overrun
                 PROVE  Head(posted).owed \subseteq params'
      BY <1>2, <3>1 DEF FinalParametersComplete
    <3>2. Exposed(Head(posted).owed) BY <1>5, <2>2 DEF ScanInv, FlushesDone, Backed
    <3>3. latest["parameters"] # None /\ Head(posted).owed \subseteq latest["parameters"].blocks
      BY <3>2 DEF Exposed
    <3>4. CASE params' = latest["parameters"].blocks BY <3>3, <3>4
    <3>5. CASE latest["parameters"].id = controllerLast["parameters"] /\ params' = params
      <4>1. latest["parameters"] \in Given("parameters") BY <3>3 DEF Given
      <4>2. latest["parameters"].blocks = params BY <2>2, <3>5, <4>1 DEF ScanInv, Seen
      <4> QED BY <3>3, <3>5, <4>2
    <3> QED BY <1>1, <2>2, <3>3, <3>4, <3>5 DEF ParametersAfter
  <2> QED BY <1>1, <2>1, <2>2
<1>9. state' = "moving" => state = "moving" /\ ~Sweeping BY <1>1 DEF Sweeping
<1>10. gui' = <<>> \/ (gui' = StopSteps /\ active) BY <1>1
<1>11. state' \in {"idle", "moving", "scanning", "completing"} BY <1>1, <1>4
<1> QED BY <1>1, <1>2, <1>3, <1>4, <1>5, <1>6, <1>7, <1>8, <1>9, <1>10, <1>11, ScanHandlerStays

\* A new scan: the flushes under way are of earlier ones.
LEMMA StartScanStays == ScanInv /\ StartScan => ScanInv'
<1> SUFFICES ASSUME ScanInv, StartScan PROVE ScanInv' OBVIOUS
<1>1. /\ gui = <<>> /\ gui' = <<>> /\ state' = "moving" /\ scan' = scan + 1 /\ scan < MaxScans
      /\ bearings' = {} /\ params' = {} /\ controllerLast' = [s \in Stages |-> 0]
      /\ UNCHANGED <<source, stageVars, latest, built, recordVars, origin>>
      /\ UNCHANGED <<timers, posted, since, result, adapterLast>>
  BY DEF StartScan, Idle, Begin, recordVars
<1>2. EngineInv' BY <1>1, HandlerKeeps DEF ScanInv
<1>3. UNCHANGED <<overrun, recording>> /\ ~Sweeping' /\ "parameters" \in Stages
  BY <1>1, SnapshotAssumption DEF recordVars, Sweeping
<1>4. ScanTypes'
  <2>1. scan' \in 0..MaxScans BY <1>1, SnapshotAssumption DEF ScanInv, ScanTypes
  <2>2. controllerLast' \in [Stages -> Nat] BY <1>1
  <2> QED BY <1>1, <1>3, <2>1, <2>2 DEF ScanInv, ScanTypes
<1>5. ~Starting' /\ ~Posting' /\ EndOf(gui').op = "none"
  BY <1>1, FirstSteps DEF Starting, Posting
<1>6. OnTheMove' BY <1>1, <1>3, <1>5 DEF OnTheMove
<1>7. ScanUsesItsOwn' /\ Seen' BY <1>3 DEF ScanUsesItsOwn, Seen
<1>8. FinalParametersComplete' BY <1>1, <1>3 DEF ScanInv, FinalParametersComplete
<1>9. FlushUnderWay' BY <1>5 DEF FlushUnderWay
<1>10. FlushesDone'
  <2>1. \A n \in Nat : Past(n) => Past(n)' BY <1>1, ScanShapes DEF Past
  <2> QED BY <1>1, <1>3, <2>1, ScanShapes DEF ScanInv, FlushesDone, Backed
<1> QED BY <1>2, <1>4, <1>6, <1>7, <1>8, <1>9, <1>10 DEF ScanInv

LEMMA ScanInvInit == Init => ScanInv
<1> SUFFICES ASSUME Init PROVE ScanInv OBVIOUS
<1>1. "bearing" \in Stages /\ "parameters" \in Stages /\ MaxBlocks \in Nat /\ MaxRecordings \in Nat
      /\ MaxScans \in Nat /\ MaxTimeouts \in Nat
  BY SnapshotAssumption
<1>2. /\ gui = <<>> /\ Left(gui) /\ Op(gui) = "none" /\ EndOf(gui).op = "none"
      /\ ~Starting /\ ~Ending /\ ~Posting /\ \A op, s : ~Ahead(gui, op, s)
  BY FirstSteps DEF Init, Starting, Ending, Posting, Ahead
<1>3. origin = <<>> /\ Len(origin) = 0 /\ 1..Len(origin) = {} BY DEF Init
<1>4. \A s \in Stages : /\ todo[s] = <<>> /\ ToSet(todo[s]) = {} /\ open[s] = {} /\ nextId[s] = 1
                        /\ held[s] = None /\ latest[s] = None /\ Given(s) = {}
  BY <1>2, EmptyQueueFacts DEF Init, Given
<1>5. EngineTypes
  <2>1. origin \in Seq(1..MaxRecordings) /\ Len(origin) <= MaxBlocks BY <1>1, <1>3
  <2>2. /\ todo \in [Stages -> Seq(Nat)] /\ open \in [Stages -> SUBSET Nat]
        /\ nextId \in [Stages -> Nat \ {0}]
        /\ held \in [Stages -> Snapshots \union {None}]
        /\ latest \in [Stages -> Snapshots \union {None}]
    BY DEF Init
  <2>3. recording \in 0..MaxRecordings /\ timeouts \in 0..MaxTimeouts BY <1>1 DEF Init
  <2> QED BY <1>2, <2>1, <2>2, <2>3 DEF Init, EngineTypes
<1>6. KnownBlocks BY <1>3, <1>4 DEF Init, KnownBlocks
<1>7. Control BY <1>2 DEF Init, Control
<1>8. Resting /\ StartedAfresh /\ NewestShown /\ OwnBlocks /\ Numbered
  BY <1>1, <1>2, <1>4 DEF Resting, StartedAfresh, NewestShown, OwnBlocks, Numbered, Recent
<1>9. Accumulated BY <1>3 DEF Accumulated
<1>10. ScanTypes
  <2>1. /\ adapterLast \in [Stages -> Nat] /\ controllerLast \in [Stages -> Nat]
        /\ timers \in Seq(Nat) /\ posted \in Seq(Report)
    BY DEF Init
  <2> QED BY <1>1, <2>1 DEF Init, ScanTypes
<1>11. OnTheMove /\ Seen /\ ScanUsesItsOwn /\ FinalParametersComplete /\ FlushUnderWay
  BY <1>2 DEF Init, OnTheMove, Seen, ScanUsesItsOwn, FinalParametersComplete, FlushUnderWay,
     Sweeping
<1>12. FlushesDone BY EmptyQueueFacts DEF Init, FlushesDone
<1> QED BY <1>5, <1>6, <1>7, <1>8, <1>9, <1>10, <1>11, <1>12 DEF ScanInv, EngineInv

LEMMA ScanStep == ScanInv /\ [Next]_vars => ScanInv'
<1> SUFFICES ASSUME ScanInv, [Next]_vars PROVE ScanInv' OBVIOUS
<1>1. CASE Next
  BY <1>1, IngestStays, PublishStays, ConsumeStays, AwaitDrainedStays, AwaitTimesOutStays,
     BuildStays, PublishBuiltStays, StartStays, SwitchSourceStays, EndRecordedStays, SweepStays,
     PostResultStays, StartRecordingStays, StopRecordingStays, StartScanStays,
     BeginSectorScanStays, CompleteScanStays, FlushProcessingStays, FinalizeStays, StopScanStays,
     PollBearingStays, PollParametersStays
  DEF Next
<1>2. CASE UNCHANGED vars
  <2>1. /\ UNCHANGED <<source, todo, open, nextId, forced, held, latest, gui, built, origin>>
        /\ UNCHANGED <<recording, active, flushed, overrun, timeouts>>
        /\ UNCHANGED <<scanVars, seenVars>>
    BY <1>2 DEF vars, stageVars, recordVars
  <2>2. /\ Starting' = Starting /\ Ending' = Ending /\ AtRest' = AtRest
        /\ \A s : Given(s)' = Given(s)
    BY <2>1 DEF Starting, Ending, AtRest, Given, Ahead, Op, EndOf
  <2>3. EngineTypes' BY <2>1 DEF ScanInv, EngineInv, EngineTypes
  <2>4. KnownBlocks' /\ Accumulated' BY <2>1 DEF ScanInv, EngineInv, KnownBlocks, Accumulated
  <2>5. Control' BY <2>1, <2>2 DEF ScanInv, EngineInv, Control, Op
  <2>6. Resting' BY <2>1, <2>2 DEF ScanInv, EngineInv, Resting
  <2>7. StartedAfresh' BY <2>1, <2>2 DEF ScanInv, EngineInv, StartedAfresh, Ahead, Op
  <2>8. OwnBlocks' BY <2>1, <2>2 DEF ScanInv, EngineInv, OwnBlocks, Recent
  <2>9. NewestShown' BY <2>1, <2>2 DEF ScanInv, EngineInv, NewestShown, Ahead, Op
  <2>10. Numbered' BY <2>1, <2>2 DEF ScanInv, EngineInv, Numbered
  <2>11. EngineInv' BY <2>3, <2>4, <2>5, <2>6, <2>7, <2>8, <2>9, <2>10 DEF EngineInv
  <2>12. NothingHidden
    <3>1. nextId["parameters"] \in Nat BY ScanShapes
    <3>2. \A o : (Carried(o) => Carried(o)') /\ (Exposed(o) => Exposed(o)')
      BY <2>1 DEF Carried, Exposed, Ahead
    <3> QED BY <2>1, <2>2, <3>1, <3>2 DEF NothingHidden
  <2> QED BY <2>1, <2>11, <2>12, SameBlocks, StageStays
<1> QED BY <1>1, <1>2

\* SnapshotExchange, DataPlaneUiAdapter, ScanController: however the stages, the exchanges and
\* the handlers interleave, a scan takes in nothing of an earlier recording, a completed one
\* reports every block its last flush was owed, and after a drained recording the exchange shows
\* the newest parameters.
THEOREM ScanResultsAreOwn == Spec => []ScanReportsItsOwn
<1>1. Init => ScanInv BY ScanInvInit
<1>2. ScanInv /\ [Next]_vars => ScanInv' BY ScanStep
<1>3. ScanInv => ScanReportsItsOwn
  <2> SUFFICES ASSUME ScanInv PROVE ScanReportsItsOwn OBVIOUS
  <2>1. EngineTypes /\ "parameters" \in Stages BY ScanShapes
  <2>2. \A s \in Stages : \A i \in 1..Len(todo[s]) : todo[s][i] \in 1..Len(origin)
    <3> SUFFICES ASSUME NEW s \in Stages, NEW i \in 1..Len(todo[s])
                 PROVE  todo[s][i] \in 1..Len(origin)
      OBVIOUS
    <3>1. todo[s] \in Seq(Nat) BY <2>1, EngineShapes
    <3>2. todo[s][i] \in ToSet(todo[s]) BY <3>1, Members
    <3> QED BY <3>2 DEF ScanInv, EngineInv, KnownBlocks
  <2>3. \A s \in Stages : \A x \in {latest[s], held[s], built} \ {None} :
          x.id \in Nat \ {0} /\ x.blocks \subseteq 1..Len(origin)
    <3> SUFFICES ASSUME NEW s \in Stages, NEW x \in {latest[s], held[s], built} \ {None}
                 PROVE  x.id \in Nat \ {0} /\ x.blocks \subseteq 1..Len(origin)
      OBVIOUS
    <3>1. x \in Snapshots BY <2>1, EngineShapes DEF EngineTypes
    <3>2. x.id \in Nat \ {0} BY <2>1, <3>1, EngineShapes
    <3> QED BY <3>2 DEF ScanInv, EngineInv, KnownBlocks
  <2>4. TypeOK
    <3>1. \A s \in Stages : open[s] \subseteq 1..Len(origin) /\ nextId[s] \in Nat \ {0}
      BY <2>1, EngineShapes DEF ScanInv, EngineInv, KnownBlocks
    <3>2. /\ {source, forced, active, flushed, overrun} \subseteq BOOLEAN
          /\ timeouts \in 0..MaxTimeouts
          /\ origin \in Seq(1..MaxRecordings) /\ Len(origin) <= MaxBlocks
          /\ recording \in 0..MaxRecordings
      BY <2>1 DEF EngineTypes
    <3>3. /\ since \in 0..recording /\ scan \in 0..MaxScans
          /\ state \in {"idle", "moving", "scanning", "completing"}
          /\ bearings \union params \subseteq 1..Len(origin)
      BY DEF ScanInv, ScanTypes
    <3> QED BY <2>2, <2>3, <3>1, <3>2, <3>3 DEF TypeOK
  <2>5. LastIsNewest
    <3> SUFFICES ASSUME ~active, gui = <<>>, ~overrun, latest["parameters"] # None
                 PROVE  latest["parameters"].id = nextId["parameters"] - 1
      BY DEF LastIsNewest, Idle
    <3>1. AtRest /\ ~Starting /\ Op(gui) = "none" BY FirstSteps DEF AtRest, Starting
    <3> QED BY <3>1 DEF ScanInv, EngineInv, NewestShown
  <2> QED BY <2>4, <2>5 DEF ScanInv, ScanReportsItsOwn
<1> QED BY <1>1, <1>2, <1>3, PTL DEF Spec
=============================================================================
