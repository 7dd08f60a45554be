--------------------------- MODULE ScanAggregates ----------------------------
(***************************************************************************)
(* The three aggregators of the processing engine fed with the same        *)
(* blocks, flushed together when the pipeline is flushed and reset         *)
(* together when a recording configures them.  The properties compare what *)
(* they computed incrementally with what the samples consumed so far add   *)
(* up to by definition.  FanOutEngine models the threads that feed them.   *)
(***************************************************************************)
EXTENDS SpectrumWindows, BearingWindows, PulseParameters
LOCAL INSTANCE FiniteSetsExt
LOCAL INSTANCE SequencesExt

CONSTANTS
    Cut,             \* the mark of a flush in the history
    Blocks,          \* the blocks a source can produce: samples in order of index
    Azimuths,        \* azimuths of the antenna a block is stamped with
    MaxBlocks,       \* bound: blocks consumed since the last reset
    MaxSamples,      \* bound: samples consumed since the last reset
    MaxFlushes       \* bound: flushes since the last reset

\* What the instance has to assume of the parameters.
BlocksAssumption ==
    \A block \in Blocks :
        \A j, k \in DOMAIN block : j <= k => block[j].i <= block[k].i

VARIABLES
    path,            \* which implementation runs
    spectrum, bearing, parameters,
    past             \* history: samples and flushes since the last reset
vars == <<path, spectrum, bearing, parameters, past>>

BearingPath == IF path = "direct" THEN "direct" ELSE "fast"
Sampled == {k \in DOMAIN past : past[k] # Cut}
Flushes == Cardinality(DOMAIN past \ Sampled)
BlocksConsumed == Cardinality({past[k].block : k \in Sampled})

Init ==
    /\ path \in Paths
    /\ spectrum = NoSpectrum
    /\ bearing = NoBearings
    /\ parameters = NoParameters
    /\ past = <<>>

\* processWaterfallStage's siblings: every aggregator consumes the block.
Consume(block, azimuth) ==
    /\ BlocksConsumed < MaxBlocks /\ Cardinality(Sampled) + Len(block) <= MaxSamples
    /\ spectrum' = ConsumeSpectrum(path, spectrum, block)
    /\ bearing' = ConsumeBearing(BearingPath, bearing, block, azimuth)
    /\ parameters' = ConsumeParameters(parameters, block)
    /\ past' = past \o [k \in DOMAIN block |->
                            [x |-> block[k], azimuth |-> azimuth, block |-> BlocksConsumed + 1]]
    /\ UNCHANGED path

\* flushAggregators: the open windows are closed, a snapshot is forced.
Flush ==
    /\ Flushes < MaxFlushes
    /\ spectrum' = FlushSpectrum(path, spectrum)
    /\ bearing' = FlushBearings(BearingPath, bearing)
    /\ parameters' = ForceSnapshot(parameters)
    /\ past' = Append(past, Cut)
    /\ UNCHANGED path

\* setConfig of each: the open windows and the counts are dropped.
Reset ==
    /\ past # <<>>
    /\ spectrum' = NoSpectrum
    /\ bearing' = NoBearings
    /\ parameters' = NoParameters
    /\ past' = <<>>
    /\ UNCHANGED path

Next ==
    \/ \E block \in Blocks, azimuth \in Azimuths : Consume(block, azimuth)
    \/ Flush
    \/ Reset

Spec == Init /\ [][Next]_vars
-----------------------------------------------------------------------------
\* The samples an aggregator takes, grouped by definition: two of them are in
\* one run when no flush and no taken sample of another window lies between.
Taken(Judge(_)) == {k \in Sampled : Judge(past[k].x) = "taken"}

SameRun(taken, j, k) ==
    \A m \in Lesser(j, k) .. Greater(j, k) :
        /\ past[m] # Cut
        /\ m \in taken => ExactWindow(past[m].x.i) = ExactWindow(past[j].x.i)

Runs(taken) ==
    SetToSortSeq({{j \in taken : SameRun(taken, j, k)} : k \in taken},
                 LAMBDA a, b : Min(a) < Min(b))

Peak(ks, beams) == Max({0} \cup {past[k].x.amp : k \in {j \in ks : past[j].x.beam \in beams}})

Total(ks, limit) ==
    [peak |-> Peak(ks, {0, 1}), beam0 |-> Peak(ks, {0}), beam1 |-> Peak(ks, {1}),
     hits |-> Lesser(Cardinality(ks), limit)]

\* ks grouped by a key of their samples, and Of applied to each group.
ByKey(ks, Key(_), Of(_)) ==
    [v \in {Key(past[k].x) : k \in ks} |-> Of({k \in ks : Key(past[k].x) = v})]

WindowSum(run) ==
    LET indexes == {past[k].x.i : k \in run} IN
    [w |-> ExactWindow(Min(indexes)), first |-> Min(indexes), last |-> Max(indexes),
     bins |-> ByKey(run, LAMBDA x : BinOf(x.f), LAMBDA ks : Total(ks, HitMax)),
     bands |-> ByKey(run, LAMBDA x : x.band, LAMBDA ks : Total(ks, Len(past)))]

Shown(shot) == [f \in {"w", "first", "last", "bins", "bands"} |-> shot[f]]

(***************************************************************************)
(* Every snapshot of the spectrum, and the open window, sums up exactly    *)
(* the samples of its run, each sample once, whichever path computed it:   *)
(* the incremental window index agrees with the division also after a      *)
(* block that goes back in time, the local accumulators are merged into    *)
(* the window they belong to and leave nothing behind, hit counts          *)
(* saturate, and the samples refused are counted for what they are.        *)
(***************************************************************************)
SpectrumMatchesSamples ==
    LET runs == Runs(Taken(Verdict))
        closed == Len(spectrum.shots)
        count(v) == Cardinality({k \in Sampled : Verdict(past[k].x) = v})
    IN /\ Len(runs) = closed + (IF spectrum.open = None THEN 0 ELSE 1)
       /\ \A n \in 1 .. closed : Shown(spectrum.shots[n]) = WindowSum(runs[n])
       /\ spectrum.open # None => spectrum.open = WindowSum(runs[closed + 1])
       /\ spectrum.invalid = count("invalid") /\ spectrum.outside = count("outside")

Candidates(run) ==
    ByKey(run, LAMBDA x : <<x.band, BinOf(x.f)>>,
          LAMBDA ks : [first |-> Min({past[k].x.i : k \in ks}),
                       last |-> Max({past[k].x.i : k \in ks}),
                       beam0 |-> Peak(ks, {0}), beam1 |-> Peak(ks, {1}),
                       beams |-> {past[k].x.beam : k \in ks}])

(***************************************************************************)
(* Every bearing snapshot holds an estimate for exactly the candidates     *)
(* whose samples in its run came from both beams with enough quality, with *)
(* the peaks of those samples and the azimuth of the block that opened the *)
(* window; the candidates that lack a beam are counted.                    *)
(***************************************************************************)
BearingsMatchSamples ==
    LET runs == Runs(Taken(BearingVerdict))
        closed == Len(bearing.shots)
        azimuth(n) == past[Min(runs[n])].azimuth
        estimates(n) ==
            LET cs == Candidates(runs[n]) IN
            {EstimateOf(k, azimuth(n), cs[k]) :
                k \in {c \in DOMAIN cs : cs[c].beams = {0, 1} /\ Quality(cs[c]) >= MinQuality}}
        lacking(n, beam) ==
            LET cs == Candidates(runs[n]) IN Cardinality({k \in DOMAIN cs : beam \notin cs[k].beams})
    IN /\ Len(runs) = closed + (IF bearing.open = None THEN 0 ELSE 1)
       /\ \A n \in 1 .. closed :
            /\ bearing.shots[n].estimates = estimates(n)
            /\ bearing.shots[n].missing0 = lacking(n, 0)
            /\ bearing.shots[n].missing1 = lacking(n, 1)
       /\ bearing.open # None =>
            /\ bearing.open.candidates = Candidates(runs[closed + 1])
            /\ bearing.open.azimuth = azimuth(closed + 1)

-----------------------------------------------------------------------------
\* The samples of a band that do not go back in time, in order.
Accepted(b) ==
    {k \in Sampled : /\ past[k].x.band = b
                     /\ \A j \in Sampled : j < k /\ past[j].x.band = b => past[j].x.i <= past[k].x.i}

Loud(ks) == {k \in ks : past[k].x.amp >= PulseThreshold}

\* A pulse by definition: loud samples no quiet one lies between, each within
\* MaxGap of the one before.
PulsesOf(b) ==
    LET ks == Accepted(b)
        between(j, k) == {m \in ks : m \in Lesser(j, k) .. Greater(j, k)}
        near(m, ms) == \A n \in ms : n > m /\ (\A l \in ms : l <= m \/ l >= n)
                                       => past[n].x.i - past[m].x.i <= MaxGap
        joined(j, k) == between(j, k) \subseteq Loud(ks) /\ \A m \in between(j, k) : near(m, between(j, k))
        kept(ms) == LET is == {past[m].x.i : m \in ms} IN
                    Cardinality(ms) >= MinSamples /\ (MaxWidth = 0 \/ Max(is) - Min(is) + 1 <= MaxWidth)
    IN SetToSortSeq({ms \in {{j \in Loud(ks) : joined(j, k)} : k \in Loud(ks)} : kept(ms)},
                    LAMBDA a, b2 : Min(a) < Min(b2))

EarliestOf(ms) == past[Min(ms)].x.i
LatestOf(ms) == past[Max(ms)].x.i
\* The frequency of the first of the loudest samples.
Representative(ms) ==
    LET peak == Max({past[m].x.amp : m \in ms})
    IN past[Min({m \in ms : past[m].x.amp = peak})].x.f

BandParameters(b) ==
    LET pulses == PulsesOf(b) n == Len(pulses) IN
    [pulses |-> n,
     widths |-> FoldSet(LAMBDA k, sum : sum + LatestOf(pulses[k]) - EarliestOf(pulses[k]) + 1, 0, 1 .. n),
     periods |-> IF n < 2 THEN 0 ELSE EarliestOf(pulses[n]) - EarliestOf(pulses[1]),
     repeats |-> IF n = 0 THEN 0 ELSE n - 1,
     frequencies |-> {Representative(pulses[k]) : k \in 1 .. n}]

(***************************************************************************)
(* What the accumulator of a band would be finalized to is what the pulses *)
(* of its accepted samples add up to: their number, widths, repetition     *)
(* periods and frequencies, with the pulse still in progress, wherever a   *)
(* block ends inside a pulse; the spans cover the accepted samples; and a  *)
(* snapshot is published before SnapshotBlocks blocks have passed, of all  *)
(* the samples consumed until then.                                        *)
(***************************************************************************)
ParametersMatchPulses ==
    /\ \A b \in Bands :
        /\ FinalizeBand(parameters.bands[b]) = BandParameters(b)
        /\ LET is == {past[k].x.i : k \in Accepted(b)} IN
           parameters.spans[b] = IF is = {} THEN NoSpan ELSE [first |-> Min(is), last |-> Max(is)]
    /\ parameters.accepted = Cardinality(UNION {Accepted(b) : b \in Bands})
    /\ parameters.accepted + parameters.rejected = Cardinality(Sampled)
    /\ Sampled # {} => parameters.shot # Nothing
    /\ parameters.shot # Nothing /\ parameters.blocks = 0 => parameters.shot = SnapshotOf(parameters)
    /\ SnapshotBlocks > 0 => parameters.blocks < SnapshotBlocks

TypeOK ==
    /\ path \in Paths
    /\ spectrum.local = NoSum /\ bearing.local = Empty
    /\ {spectrum.track, bearing.track} \subseteq Track \cup {None}
    /\ Len(spectrum.shots) + Len(bearing.shots) <= 2 * (Len(past) + 1)
    /\ parameters.dirty \in BOOLEAN /\ parameters.forced \in BOOLEAN
=============================================================================
