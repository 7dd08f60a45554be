---------------------------- MODULE BearingWindows ---------------------------
(***************************************************************************)
(* BearingAggregator: in the open window every band and frequency bin is a *)
(* candidate with the peak of each beam; closing the window turns a        *)
(* candidate that saw both beams, with enough quality, into an estimate of *)
(* the direction, relative to the azimuth of the antenna when the window   *)
(* was opened.  Two paths: "fast" (trusted samples, flat storage, local    *)
(* candidates, incremental window) and "direct" (checked samples, a map of *)
(* candidates, exact window).                                              *)
(***************************************************************************)
EXTENDS SampleWindows
LOCAL INSTANCE SequencesExt

CONSTANTS
    BearingFloor,    \* amplitudeFloor of the bearing aggregator
    FullScale,       \* DomainConstraints::maxAmplitude
    MinQuality       \* minQuality, in twentieths of the full scale

\* What the instance has to assume of the parameters.
BearingAssumption ==
    /\ BearingFloor \in Nat /\ MinQuality \in Nat /\ FullScale \in Nat \ {0}

\* A candidate that saw one sample.
Seen(x) ==
    [first |-> x.i, last |-> x.i,
     beam0 |-> IF x.beam = 0 THEN x.amp ELSE 0,
     beam1 |-> IF x.beam = 1 THEN x.amp ELSE 0,
     beams |-> {x.beam} \cap {0, 1}]

JoinCandidates(c, d) ==
    [first |-> Lesser(c.first, d.first), last |-> Greater(c.last, d.last),
     beam0 |-> Greater(c.beam0, d.beam0), beam1 |-> Greater(c.beam1, d.beam1),
     beams |-> c.beams \cup d.beams]

NoBearings == [open |-> None, local |-> Empty, track |-> None, shots |-> <<>>, invalid |-> 0, outside |-> 0]
-----------------------------------------------------------------------------
\* 0.7 of the larger peak and 0.3 of the mean of both, of the full scale.
Quality(c) == (14 * Greater(c.beam0, c.beam1) + 3 * (c.beam0 + c.beam1)) \div FullScale

\* makeEstimate: the estimate is left as what it is computed from.
EstimateOf(key, azimuth, c) ==
    [band |-> key[1], bin |-> key[2], antenna |-> azimuth,
     at |-> c.first + (c.last - c.first) \div 2, beam0 |-> c.beam0, beam1 |-> c.beam1]

Complete(window) == {k \in DOMAIN window.candidates : window.candidates[k].beams = {0, 1}}

\* closeOpenWindow: a window without candidates makes no snapshot.
CloseBearings(s) ==
    IF s.open = None \/ (s.open # None /\ s.open.candidates = Empty) THEN [s EXCEPT !.open = None]
    ELSE LET complete == Complete(s.open)
             cell(k) == s.open.candidates[k]
             incomplete == DOMAIN s.open.candidates \ complete
         IN [s EXCEPT
                !.shots = Append(@,
                    [w |-> s.open.w,
                     estimates |-> {EstimateOf(k, s.open.azimuth, cell(k)) :
                                        k \in {c \in complete : Quality(cell(c)) >= MinQuality}},
                     complete |-> Cardinality(complete),
                     missing0 |-> Cardinality({k \in incomplete : 0 \notin cell(k).beams}),
                     missing1 |-> Cardinality({k \in incomplete : 1 \notin cell(k).beams})]),
                !.open = None]

\* mergeLocalCandidatesIntoOpenWindow
MergeCandidates(s) ==
    IF s.open = None THEN [s EXCEPT !.local = Empty]
    ELSE [s EXCEPT !.open.candidates = MergedWith(@, s.local, JoinCandidates), !.local = Empty]

OpenBearings(s, w, azimuth) ==
    [s EXCEPT !.open = [w |-> w, azimuth |-> azimuth, candidates |-> Empty]]
-----------------------------------------------------------------------------
\* The floor is checked before the range of the source.
BearingVerdict(x) ==
    CASE x.i < FirstIndex \/ x.amp <= 0 -> "invalid"
      [] x.amp < BearingFloor           -> "quiet"
      [] ~InSource(x.f)                 -> IF x.f <= 0 THEN "invalid" ELSE "outside"
      [] ~HasSlot(x.band)               -> "invalid"
      [] OTHER                          -> "taken"

TrackedBearing(path, s, x) ==
    IF path = "direct" \/ x.i < FirstIndex \/ x.amp <= 0 \/ x.amp < BearingFloor THEN s
    ELSE [s EXCEPT !.track = Advance(@, x.i)]

\* Variant: the window is closed before the local candidates are merged.
InWindowUnmerged(path, s, x, azimuth) ==
    LET w == IF path = "direct" THEN ExactWindow(x.i) ELSE s.track.w IN
    IF s.open = None THEN OpenBearings(s, w, azimuth)
    ELSE IF s.open.w # w THEN OpenBearings(CloseBearings(s), w, azimuth)
    ELSE s

InBearingWindow(path, s, x, azimuth) ==
    LET w == IF path = "direct" THEN ExactWindow(x.i) ELSE s.track.w IN
    IF s.open = None THEN OpenBearings(s, w, azimuth)
    ELSE IF s.open.w # w
         THEN OpenBearings(CloseBearings(IF path = "direct" THEN s ELSE MergeCandidates(s)),
                           w, azimuth)
    ELSE s

AddCandidate(path, s, x) ==
    LET one == <<x.band, BinOf(x.f)>> :> Seen(x) IN
    IF path = "direct" THEN [s EXCEPT !.open.candidates = MergedWith(@, one, JoinCandidates)]
    ELSE [s EXCEPT !.local = MergedWith(@, one, JoinCandidates)]

ConsumeForBearing(path, s, x, azimuth) ==
    LET t == TrackedBearing(path, s, x) IN
    CASE BearingVerdict(x) = "invalid" -> [t EXCEPT !.invalid = @ + 1]
      [] BearingVerdict(x) = "outside" -> [t EXCEPT !.outside = @ + 1]
      [] BearingVerdict(x) = "quiet"   -> t
      [] BearingVerdict(x) = "taken"   -> AddCandidate(path, InBearingWindow(path, t, x, azimuth), x)

\* consume(block) with the block's azimuth, consumeTrustedBlockLocalFast
ConsumeBearing(path, s, block, azimuth) ==
    LET done == FoldLeft(LAMBDA t, x : ConsumeForBearing(path, t, x, azimuth), s, block)
    IN IF path = "direct" THEN done ELSE MergeCandidates(done)

FlushBearings(path, s) == CloseBearings(IF path = "direct" THEN s ELSE MergeCandidates(s))
=============================================================================
