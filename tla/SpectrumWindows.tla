--------------------------- MODULE SpectrumWindows ---------------------------
(***************************************************************************)
(* SpectrumAggregator: samples are summed up per frequency bin and per     *)
(* band in the open window; a sample of another window closes it, which    *)
(* makes a snapshot.  Three paths compute the same thing:                  *)
(*   "fast"    trusted samples: incremental window, the block is summed up *)
(*             in local accumulators and merged into the window when it is *)
(*             closed and at the end of the block;                         *)
(*   "timed"   the same with detailed timing, through the general loop;    *)
(*   "direct"  checked samples: exact window, no local accumulators.       *)
(* The state is one record, spectrum; ScanAggregates composes it with the  *)
(* other aggregators.                                                      *)
(***************************************************************************)
EXTENDS SampleWindows
LOCAL INSTANCE SequencesExt

Paths == {"fast", "timed", "direct"}

\* The summary of one sample: SpectrumBin, SpectrumBandSummary.
Hit(x) ==
    [peak |-> x.amp,
     beam0 |-> IF x.beam = 0 THEN x.amp ELSE 0,
     beam1 |-> IF x.beam = 1 THEN x.amp ELSE 0,
     hits |-> 1]

JoinBands(c, d) ==
    [peak |-> Greater(c.peak, d.peak), beam0 |-> Greater(c.beam0, d.beam0),
     beam1 |-> Greater(c.beam1, d.beam1), hits |-> c.hits + d.hits]

\* The hit count of a bin is 16 bits wide and saturates.
JoinBins(c, d) == [JoinBands(c, d) EXCEPT !.hits = Lesser(c.hits + d.hits, HitMax)]

\* Samples summed up, in the open window or locally: bounds, bins and bands.
NoSum == [first |-> None, last |-> None, bins |-> Empty, bands |-> Empty]

Bounds(sum, first, last) ==
    IF sum.first = None THEN [sum EXCEPT !.first = first, !.last = last]
    ELSE [sum EXCEPT !.first = Lesser(@, first), !.last = Greater(@, last)]

\* The fast path sets the local bounds without comparing: the last sample is
\* the latest one seen.
FastBounds(sum, i) ==
    IF sum.first = None THEN [sum EXCEPT !.first = i, !.last = i] ELSE [sum EXCEPT !.last = i]

Summed(sum, x) ==
    [sum EXCEPT !.bins = MergedWith(@, BinOf(x.f) :> Hit(x), JoinBins),
                !.bands = MergedWith(@, x.band :> Hit(x), JoinBands)]

NoSpectrum ==
    [open |-> None, local |-> NoSum, track |-> None, shots |-> <<>>,
     invalid |-> 0, outside |-> 0]
-----------------------------------------------------------------------------
\* Variant: the local accumulators keep what was merged.
MergeLocalTwice(s) ==
    IF s.open = None \/ s.local.first = None THEN s
    ELSE [s EXCEPT !.open = [Bounds(@, s.local.first, s.local.last) EXCEPT
                                !.bins = MergedWith(@, s.local.bins, JoinBins),
                                !.bands = MergedWith(@, s.local.bands, JoinBands)]]

\* mergeLocalAccumulationIntoOpenWindow
MergeLocal(s) ==
    IF s.open = None \/ s.local.first = None THEN [s EXCEPT !.local = NoSum]
    ELSE [s EXCEPT
            !.open = [Bounds(@, s.local.first, s.local.last) EXCEPT
                        !.bins = MergedWith(@, s.local.bins, JoinBins),
                        !.bands = MergedWith(@, s.local.bands, JoinBands)],
            !.local = NoSum]

OpenWindow(s, w, i) ==
    [s EXCEPT !.open = [w |-> w, first |-> i, last |-> i, bins |-> Empty, bands |-> Empty]]

\* closeOpenWindow: a window without samples makes no snapshot; the sequence
\* id of a snapshot is its position in shots.
CloseWindow(s) ==
    IF s.open = None \/ (s.open # None /\ s.open.bands = Empty) THEN [s EXCEPT !.open = None]
    ELSE [s EXCEPT !.shots = Append(@, s.open @@ [invalid |-> s.invalid, outside |-> s.outside]),
                   !.open = None]
-----------------------------------------------------------------------------
Verdict(x) ==
    CASE x.i < FirstIndex \/ x.amp <= 0 -> "invalid"
      [] ~InSource(x.f)                 -> IF x.f <= 0 THEN "invalid" ELSE "outside"
      [] x.amp < AmplitudeFloor         -> "quiet"
      [] ~HasSlot(x.band)               -> "invalid"
      [] OTHER                          -> "taken"

\* The index follows every sample the path computes the window of, also one
\* it then refuses: the fast path checks the amplitude first.
Tracked(path, s, x) ==
    IF path = "direct" \/ x.i < FirstIndex \/ (path = "fast" /\ x.amp <= 0) THEN s
    ELSE [s EXCEPT !.track = Advance(@, x.i)]

WindowOf(path, s, x) == IF path = "direct" THEN ExactWindow(x.i) ELSE s.track.w

InWindow(path, s, w, i) ==
    IF s.open = None THEN OpenWindow(s, w, i)
    ELSE IF s.open.w # w
         THEN OpenWindow(CloseWindow(IF path = "direct" THEN s ELSE MergeLocal(s)), w, i)
    ELSE s

AddSample(path, s, x) ==
    CASE path = "direct" -> [s EXCEPT !.open = Summed(Bounds(@, x.i, x.i), x)]
      [] path = "timed"  -> [s EXCEPT !.local = Summed(Bounds(@, x.i, x.i), x)]
      [] path = "fast"   -> [s EXCEPT !.local = Summed(FastBounds(@, x.i), x)]

ConsumeSample(path, s, x) ==
    LET t == Tracked(path, s, x) IN
    CASE Verdict(x) = "invalid" -> [t EXCEPT !.invalid = @ + 1]
      [] Verdict(x) = "outside" -> [t EXCEPT !.outside = @ + 1]
      [] Verdict(x) = "quiet"   -> t
      [] Verdict(x) = "taken"   ->
            AddSample(path, InWindow(path, t, WindowOf(path, t, x), x.i), x)

\* consume(block), consumeTrustedBlockLocalFast
ConsumeSpectrum(path, s, block) ==
    LET begun == IF path = "direct" THEN s ELSE [s EXCEPT !.local = NoSum]
        done == FoldLeft(LAMBDA t, x : ConsumeSample(path, t, x), begun, block)
    IN IF path = "direct" THEN done ELSE MergeLocal(done)

FlushSpectrum(path, s) == CloseWindow(IF path = "direct" THEN s ELSE MergeLocal(s))
=============================================================================
