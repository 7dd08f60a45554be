--------------------------- MODULE SampleGenerator ---------------------------
(***************************************************************************)
(* The simulated BCO: HighLoadSimulatorBcoStreamSource, a thread that makes *)
(* a batch of samples every period and catches up when it is late, and the  *)
(* generator that fills a batch from the radio scene and the pulses of the  *)
(* bands.  The bands take turns in the slots of a batch.  A time is counted *)
(* in units of which a sample takes samplePeriod; indices stay far below    *)
(* 2^64, where the code would saturate.                                     *)
(***************************************************************************)
EXTENDS Integers, Sequences, FiniteSets, SequencesExt

CONSTANTS
  BandCount,    \* enabled bands; the band of slot s has the number s + 1
  PulseSets,    \* settings of the bands: <<>>, or by band a [kind, period, width]
  Scenes,       \* radio scenes: sequences of [drift: bands it moves through, beams: seen]
  Targets,      \* whether there is a throughput target
  BaseCount,    \* samples of a batch out of a burst
  Burst,        \* [factor, calm, length], in batch periods; length 0 if there is none
  samplePeriod, \* timeBase.samplePeriodNs
  batchPeriod,  \* m_loadConfig.batchPeriod
  MaxLag,       \* maxRecoverableLag
  Firsts,       \* timeBase.firstSampleIndex of the configurations
  Durations,    \* how long a callback takes
  MaxBatches,   \* bound: batches since the configuration
  MaxTime       \* bound: time since the start

\* What the instance has to assume of the parameters.
GeneratorAssumption ==
  /\ {BandCount, BaseCount, samplePeriod, batchPeriod} \subseteq Nat \ {0}
  /\ MaxLag >= 10 * batchPeriod
  /\ Burst.length = 0 \/ Burst.calm > 0
  /\ \A set \in PulseSets : set = <<>> \/ DOMAIN set = 1..BandCount

VARIABLES
  configured, running,
  target,     \* throughputTarget.has_value()
  first,      \* timeBase.firstSampleIndex
  next,       \* m_nextSampleIndex
  batchIndex, \* m_generatedBatchIndex
  pulses,     \* m_loadConfig.pulseBandConfigs
  scene,      \* m_scene
  now, expected,  \* the clock and expectedBatchStart, from m_startedAt
  made,       \* history: batches since the start
  blocks      \* history: the batches since the configuration, each with its request

vars == <<configured, running, target, first, next, batchIndex, pulses, scene, now,
          expected, made, blocks>>

-----------------------------------------------------------------------------
(* Pulses.                                                                   *)

Sooner(i, j) == IF i < j THEN i ELSE j

\* fmod of the time since the time base
Phase(i, p) == ((i - first) * samplePeriod) % p.period

IsInsidePulse(i, p) == Phase(i, p) < p.width

Ceil(n, d) == (n + d - 1) \div d

\* Variant: a whole period later, whatever the phase.
NextPulseStartPeriodLater(i, p) ==
  IF IsInsidePulse(i, p) THEN i
  ELSE first + Ceil((i - first) * samplePeriod + p.period, samplePeriod)

NextPulseStart(i, p) ==
  IF IsInsidePulse(i, p) THEN i
  ELSE first + Ceil((i - first) * samplePeriod + p.period - Phase(i, p), samplePeriod)

\* The first index from i on that is the turn of a slot
AlignToBandSlot(i, start, slot) == i + ((slot - (i - start)) % BandCount)

\* The first index below `end` at which a slot has its turn in a pulse of its band, or
\* `end`; a band without settings, or with invalid ones, sends always
NextOfSlot(i, start, end, slot) ==
  LET p == pulses[slot + 1]
      search[c \in Nat] ==
        IF c >= end THEN end
        ELSE IF p.kind # "pulse" \/ IsInsidePulse(c, p) THEN c
        ELSE search[AlignToBandSlot(NextPulseStart(c, p), start, slot)]
  IN IF p.kind = "off" THEN end ELSE search[AlignToBandSlot(i, start, slot)]

NextGeneratable(i, start, end) ==
  FoldLeft(LAMBDA n, slot : Sooner(n, NextOfSlot(i, start, end, slot - 1)), end,
           [s \in 1..BandCount |-> s])

PulseAllows(i, band) ==
  \/ pulses = <<>> \/ pulses[band].kind \in {"none", "invalid"}
  \/ pulses[band].kind = "pulse" /\ IsInsidePulse(i, pulses[band])

-----------------------------------------------------------------------------
(* A batch.                                                                  *)

\* sourceAbsoluteFrequency: the band a source is in at an index, 0 outside of all
BandOf(src, i) == src.drift[((i - first) % Len(src.drift)) + 1]

SamplesOf(src, i, band) ==
  [k \in 1..Cardinality(src.beams) |->
     [index |-> i, band |-> band, beam |-> SetToSortSeq(src.beams, <)[k]]]

Prefix(s, n) == SubSeq(s, 1, Sooner(n, Len(s)))

\* Every source of the scene at one index, until the batch is full
AppendAt(samples, i, size) ==
  FoldLeft(LAMBDA s, src :
             IF BandOf(src, i) = 0 \/ ~PulseAllows(i, BandOf(src, i)) THEN s
             ELSE Prefix(s \o SamplesOf(src, i, BandOf(src, i)), size),
           samples, scene)

\* appendFastContinuousSamples: the sources at their first frequency, in turn
FastContinuous(start, size) ==
  LET templates == FoldLeft(LAMBDA s, src : IF src.drift[1] = 0 THEN s
                                            ELSE s \o SamplesOf(src, start, src.drift[1]),
                            <<>>, scene)
  IN IF templates = <<>> THEN <<>>
     ELSE [k \in 1..size |-> [templates[((k - 1) % Len(templates)) + 1]
                                EXCEPT !.index = start + k - 1]]

\* The loop of generate(), which goes from one index that some pulse lets through to
\* the next one
Generated(start, size) ==
  LET end == start + size
      following(i) == IF pulses = <<>> THEN i ELSE NextGeneratable(i, start, end)
      visit(acc, i) ==
        IF i # acc.at \/ Len(acc.samples) >= size THEN acc
        ELSE [at |-> following(i + 1), samples |-> AppendAt(acc.samples, i, size)]
  IN FoldLeft(visit, [at |-> following(start), samples |-> <<>>],
              [k \in 1..size |-> start + k - 1]).samples

IsFast == target /\ pulses = <<>>
Generate(start, size) ==
  IF scene = <<>> THEN <<>>
  ELSE IF IsFast THEN FastContinuous(start, size) ELSE Generated(start, size)

\* samplesPerBatchForCurrentPeriod: with a target every batch is a burst
BatchSize(k) ==
  IF /\ Burst.length > 0
     /\ target \/ k % (Burst.calm + Burst.length) >= Burst.calm
  THEN BaseCount * Burst.factor ELSE BaseCount

-----------------------------------------------------------------------------
(* HighLoadSimulatorBcoStreamSource.                                         *)

Init ==
  /\ configured = FALSE /\ running = FALSE
  /\ target \in Targets /\ first = 0 /\ next = 0 /\ batchIndex = 0
  /\ pulses \in PulseSets /\ scene \in Scenes
  /\ now = 0 /\ expected = 0 /\ made = 0 /\ blocks = <<>>

ConfigureSource(f) ==
  /\ ~running
  /\ configured' = TRUE /\ first' = f /\ next' = f /\ batchIndex' = 0 /\ blocks' = <<>>
  /\ UNCHANGED <<running, target, pulses, scene, now, expected, made>>

Start ==
  /\ configured /\ ~running
  /\ running' = TRUE /\ now' = 0 /\ expected' = 0 /\ made' = 0
  /\ UNCHANGED <<configured, target, first, next, batchIndex, pulses, scene, blocks>>

Stop ==
  /\ running /\ running' = FALSE
  /\ UNCHANGED <<configured, target, first, next, batchIndex, pulses, scene, now, expected,
                 made, blocks>>

SetPulseBandConfigs(set) ==
  /\ pulses' = set
  /\ UNCHANGED <<configured, running, target, first, next, batchIndex, scene, now, expected,
                 made, blocks>>

\* The wait for the next batch, which the system may prolong
Wait ==
  /\ running /\ now < MaxTime /\ now' = now + 1
  /\ UNCHANGED <<configured, running, target, first, next, batchIndex, pulses, scene,
                 expected, made, blocks>>

\* A batch that ends too late for the ones it has delayed gives them up.
Rescheduled(ended) == IF ended > expected + batchPeriod + MaxLag
                      THEN ended + batchPeriod ELSE expected + batchPeriod

GenerateBlock(duration) ==
  LET size == BatchSize(batchIndex)
      block == [start |-> next, size |-> size, pulses |-> pulses, fast |-> IsFast,
                samples |-> Generate(next, size)]
  IN /\ running /\ now >= expected /\ Len(blocks) < MaxBatches
     /\ blocks' = Append(blocks, block)
     /\ next' = next + size /\ batchIndex' = batchIndex + 1 /\ made' = made + 1
     /\ now' = now + duration
     /\ expected' = Rescheduled(now + duration)
     /\ UNCHANGED <<configured, running, target, first, pulses, scene>>

Next ==
  \/ \E f \in Firsts : ConfigureSource(f)
  \/ Start \/ Stop \/ Wait
  \/ \E set \in PulseSets : SetPulseBandConfigs(set)
  \/ \E d \in Durations : GenerateBlock(d)

Spec == Init /\ [][Next]_vars

-----------------------------------------------------------------------------
(* Properties.                                                               *)

TypeOK ==
  /\ {configured, running, target} \subseteq BOOLEAN
  /\ first \in Firsts \cup {0} /\ next >= first /\ batchIndex = Len(blocks)
  /\ pulses \in PulseSets /\ scene \in Scenes
  /\ \A k \in DOMAIN blocks : Len(blocks[k].samples) <= blocks[k].size

\* The n-th pulse of a band covers the times from n periods on: the meaning of the
\* settings, without phases and searches.
Transmits(set, i, band) ==
  \/ set = <<>> \/ set[band].kind \in {"none", "invalid"}
  \/ /\ set[band].kind = "pulse"
     /\ LET t == (i - first) * samplePeriod
        IN \E n \in 0..t : n * set[band].period <= t /\ t < n * set[band].period + set[band].width

\* A batch holds samples of what transmits, in the order of their index and within its
\* bounds; and none is missing: at its band's turn, every source that transmits has its
\* samples, unless the batch was full (generate, nextGeneratablePulseSampleIndex).
SamplesFollowPulses ==
  \A k \in DOMAIN blocks :
    LET b == blocks[k]
        s == b.samples
        turn(i) == ((i - b.start) % BandCount) + 1
    IN /\ \A j \in DOMAIN s : /\ s[j].index \in b.start..(b.start + b.size - 1)
                              /\ Transmits(b.pulses, s[j].index, s[j].band)
                              /\ j > 1 => s[j - 1].index <= s[j].index
       /\ b.fast \/ Len(s) = b.size
          \/ \A i \in b.start..(b.start + b.size - 1), r \in DOMAIN scene :
               BandOf(scene[r], i) = turn(i) /\ Transmits(b.pulses, i, turn(i))
                 => \A beam \in scene[r].beams :
                      \E j \in DOMAIN s : s[j] = [index |-> i, band |-> turn(i),
                                                  beam |-> beam]

\* Whatever the settings do in between, the batches follow each other without gap or
\* overlap, and a thread that was late catches up without ever being ahead of its rate
\* (generationLoop, generateBlock).
BatchesKeepPace ==
  /\ \A k \in 2..Len(blocks) : blocks[k].start = blocks[k - 1].start + blocks[k - 1].size
  /\ running /\ made > 0 => (made - 1) * batchPeriod <= now
=============================================================================
