--------------------------- MODULE PulseParameters ---------------------------
(***************************************************************************)
(* SignalParameterAggregator with its SignalParameterAccumulator: the      *)
(* samples of a band, which must not go back in time, are grouped into     *)
(* pulses as they arrive; a snapshot sums them up, at the first block and  *)
(* then every SnapshotBlocks blocks, or when it is forced.  Times stay in  *)
(* sample periods.                                                         *)
(***************************************************************************)
EXTENDS Integers, Sequences, FiniteSets
LOCAL INSTANCE SequencesExt

CONSTANTS
    Nothing,         \* no value (std::nullopt)
    Bands,           \* the bands with a state: bandStateCapacity of them
    PulseThreshold,  \* pulseAmplitudeThreshold
    MaxGap,          \* maxIntraPulseGapSamples
    MinSamples,      \* minSamplesPerPulse
    MaxWidth,        \* maxPulseWidthSamples, 0 for no limit
    SnapshotBlocks   \* snapshotBlockInterval

\* What the instance has to assume of the parameters.
PulseAssumption ==
    /\ {PulseThreshold, MaxWidth, SnapshotBlocks} \subseteq Nat
    /\ {MaxGap, MinSamples} \subseteq Nat \ {0}

-----------------------------------------------------------------------------
NewPulse(x) == [first |-> x.i, last |-> x.i, peak |-> x.amp, samples |-> 1, f |-> x.f]

AppendSample(pulse, x) ==
    [pulse EXCEPT !.last = x.i, !.samples = @ + 1,
                  !.peak = IF x.amp > @ THEN x.amp ELSE @,
                  !.f = IF x.amp > pulse.peak THEN x.f ELSE @]

Width(pulse) == pulse.last - pulse.first + 1

ShouldKeepPulse(pulse) ==
    pulse.samples >= MinSamples /\ (MaxWidth = 0 \/ Width(pulse) <= MaxWidth)

NoBand ==
    [current |-> Nothing, previous |-> Nothing, latest |-> Nothing,
     pulses |-> 0, widths |-> 0, periods |-> 0, repeats |-> 0, frequencies |-> {}]

\* Variant: the repetition period is taken from the first pulse ever seen.
RecordSinceFirst(b, pulse) ==
    IF ~ShouldKeepPulse(pulse) THEN b
    ELSE [b EXCEPT !.widths = @ + Width(pulse),
                   !.periods = IF b.previous = Nothing THEN @ ELSE @ + pulse.first - b.previous,
                   !.repeats = IF b.previous = Nothing THEN @ ELSE @ + 1,
                   !.previous = IF @ = Nothing THEN pulse.first ELSE @,
                   !.pulses = @ + 1,
                   !.frequencies = @ \cup {pulse.f}]

RecordPulse(b, pulse) ==
    IF ~ShouldKeepPulse(pulse) THEN b
    ELSE [b EXCEPT !.widths = @ + Width(pulse),
                   !.periods = IF b.previous = Nothing THEN @ ELSE @ + pulse.first - b.previous,
                   !.repeats = IF b.previous = Nothing THEN @ ELSE @ + 1,
                   !.previous = pulse.first,
                   !.pulses = @ + 1,
                   !.frequencies = @ \cup {pulse.f}]

ClosePulse(b) ==
    IF b.current = Nothing THEN b ELSE RecordPulse([b EXCEPT !.current = Nothing], b.current)

\* ingestValidSample, and the loop of ingestTrustedFixedBandSamples
IngestPulse(b, x) ==
    CASE x.amp < PulseThreshold -> ClosePulse(b)
      [] x.amp >= PulseThreshold /\ b.current = Nothing -> [b EXCEPT !.current = NewPulse(x)]
      [] OTHER -> IF x.i - b.current.last <= MaxGap
                  THEN [b EXCEPT !.current = AppendSample(@, x)]
                  ELSE [ClosePulse(b) EXCEPT !.current = NewPulse(x)]

\* finalize, of one band: the pulse in progress counts when it would be kept.
FinalizeBand(b) ==
    LET all == ClosePulse(b)
    IN [pulses |-> all.pulses, widths |-> all.widths, periods |-> all.periods,
        repeats |-> all.repeats, frequencies |-> all.frequencies]
-----------------------------------------------------------------------------
NoSpan == [first |-> Nothing, last |-> Nothing]

NoParameters ==
    [bands |-> [b \in Bands |-> NoBand], spans |-> [b \in Bands |-> NoSpan],
     accepted |-> 0, rejected |-> 0,
     forced |-> TRUE, dirty |-> FALSE, blocks |-> 0, shot |-> Nothing]

\* A sample of a band without a state, or earlier than the last accepted one
\* of its band, is rejected.
IngestSample(s, x) ==
    IF \/ x.band \notin Bands
       \/ s.bands[x.band].latest # Nothing /\ x.i < s.bands[x.band].latest
    THEN [s EXCEPT !.rejected = @ + 1]
    ELSE [s EXCEPT !.accepted = @ + 1,
                   !.bands[x.band] = IngestPulse([@ EXCEPT !.latest = x.i], x),
                   !.spans[x.band] = [first |-> IF @.first = Nothing THEN x.i ELSE @.first,
                                      last |-> x.i]]

\* buildSnapshotFromParameters: the bands that have a pulse, and their spans.
SnapshotOf(s) ==
    [accepted |-> s.accepted, rejected |-> s.rejected,
     bands |-> [b \in {c \in Bands : FinalizeBand(s.bands[c]).pulses > 0} |->
                    <<FinalizeBand(s.bands[b]), s.spans[b]>>]]

MarkPublished(s) ==
    [s EXCEPT !.shot = SnapshotOf(s), !.dirty = FALSE, !.forced = FALSE, !.blocks = 0]

\* shouldPublishSnapshot, ProcessedBlockInterval
ShouldPublish(s) == s.forced \/ (s.dirty /\ (SnapshotBlocks = 0 \/ s.blocks >= SnapshotBlocks))

\* consume(block): no block without samples changes anything.
ConsumeParameters(s, block) ==
    IF block = <<>> THEN s
    ELSE LET fed == FoldLeft(IngestSample, s, block)
             seen == [fed EXCEPT !.dirty = TRUE, !.blocks = @ + 1]
         IN IF ShouldPublish(seen) THEN MarkPublished(seen) ELSE seen

ForceSnapshot(s) == MarkPublished(s)
=============================================================================
