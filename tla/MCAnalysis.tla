----------------------------- MODULE MCAnalysis -----------------------------
(* Instances for TLC of what lies between the samples and the windows: the       *)
(* aggregators that turn samples into results (ScanAggregates), the way of a      *)
(* result to the scan that reports it (SnapshotDelivery), and the band settings    *)
(* the samples are made with (BandSettings).  One run checks the three: the        *)
(* initial state picks the part that runs.  Meanwhile the snapshots and the        *)
(* settings rest in an initial state, and the aggregators are Off.                 *)
EXTENDS SnapshotDelivery, BandSettings

CONSTANTS Off, Nothing, Cut

VARIABLES
  part,
  path, spectrum, bearing, parameters, past   \* aggregators

aggregateVars == <<path, spectrum, bearing, parameters, past>>
allVars == <<part, vars, settingsVars, aggregateVars>>

Sample(i, f, amp, band, beam) == [i |-> i, f |-> f, amp |-> amp, band |-> band, beam |-> beam]

\* Loud and quiet samples of both beams and bands at the edges of the windows
\* (1, 3 | 4 | 6), and one sample of each kind that is refused.
Good == {Sample(i, 3, 2, 0, 0) : i \in {1, 3, 4, 6}}
   \cup {Sample(3, 3, 3, 0, 1)}
   \cup {Sample(3, 7, 2, 1, 1), Sample(3, 4, 1, 0, 0)}
Refused == {Sample(0, 3, 2, 0, 0), Sample(4, 3, 0, 0, 0), Sample(6, 9, 2, 0, 0), Sample(3, 3, 2, 2, 0)}

\* A block is a good sample, or two samples of which the first is refused or the last of
\* its window.
Pairs == {<<x, y>> : x \in {Sample(3, 3, 2, 0, 0)} \cup Refused, y \in Good}
SourceBlocks == {<<x>> : x \in Good} \cup {p \in Pairs : p[1].i <= p[2].i}

Aggregates == INSTANCE ScanAggregates WITH
  SamplePeriod <- 2, WindowPeriod <- 5, FirstIndex <- 1, SourceMin <- 3, SourceMax <- 7,
  BinCount <- 3, AmplitudeFloor <- 2, BandCapacity <- 2, HitMax <- 2, MaxWindow <- 5,
  BearingFloor <- 1, FullScale <- 3, MinQuality <- 15, Bands <- {0, 1}, PulseThreshold <- 2,
  MaxGap <- 1, MinSamples <- 1, MaxWidth <- 3, SnapshotBlocks <- 2, Blocks <- SourceBlocks,
  Azimuths <- {10}, MaxBlocks <- 3, MaxSamples <- 4, MaxFlushes <- 1

ASSUME /\ Aggregates!WindowAssumption /\ Aggregates!BearingAssumption
       /\ Aggregates!PulseAssumption /\ Aggregates!BlocksAssumption

\* Pulses of a light and a heavy load, and one as long as its period.
SomePulses == {<<4, 1>>, <<4, 3>>, <<2, 2>>}
LightPulse == <<4, 1>>

-----------------------------------------------------------------------------
AggregatesOff ==
  /\ path = Off /\ spectrum = Off /\ bearing = Off /\ parameters = Off /\ past = Off

InitOfOne ==
  /\ Init /\ SettingsInit
  /\ \/ part = "aggregates" /\ Aggregates!Init /\ mode = "Test"
     \/ part = "snapshots" /\ AggregatesOff /\ mode = "Test"
     \/ part = "settings" /\ AggregatesOff

NextOfOne ==
  /\ UNCHANGED part
  /\ \/ part = "aggregates" /\ Aggregates!Next /\ UNCHANGED <<vars, settingsVars>>
     \/ part = "snapshots" /\ Next /\ UNCHANGED <<settingsVars, aggregateVars>>
     \/ part = "settings" /\ SettingsNext /\ UNCHANGED <<vars, aggregateVars>>

SpecOfOne == InitOfOne /\ [][NextOfOne]_allVars

-----------------------------------------------------------------------------
\* SpectrumAggregator, BearingAggregator, SignalParameterAccumulator: every result is the
\* sum of the samples it stands for, whichever path computed it and wherever blocks and
\* flushes cut the stream.
ResultsMatchSamples ==
  part = "aggregates" => Aggregates!TypeOK /\ Aggregates!SpectrumMatchesSamples
                           /\ Aggregates!BearingsMatchSamples
                           /\ Aggregates!ParametersMatchPulses
=============================================================================
