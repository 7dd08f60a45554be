SPECIFICATION SpecOfOne
CONSTANTS
  Off = Off
  Nothing = Nothing
  Cut = Cut
  Stages = {"bearing", "parameters"}
  None = None
  MaxBlocks = 2
  MaxRecordings = 2
  MaxScans = 2
  MaxTimeouts = 1
  Bands = {1, 2}
  Configs = {c1, c2}
  Thresholds = {0}
  Pulses <- SomePulses
  FirstConfig = c1
  FirstThreshold = 0
  FirstPulse <- LightPulse
  SampleBudget = 4
INVARIANTS
  ResultsMatchSamples
  SettingsInForce
  ScanReportsItsOwn
CHECK_DEADLOCK FALSE
