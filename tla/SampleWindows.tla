---------------------------- MODULE SampleWindows ----------------------------
(***************************************************************************)
(* What the spectrum and the bearing aggregator share: the samples they    *)
(* are given, the window of a sample, computed exactly or incrementally,   *)
(* the frequency bin, and the summary of the samples of one key.           *)
(*                                                                         *)
(* A sample is a record: i is its index, f its absolute frequency, amp its *)
(* amplitude, band and beam its band and beam.  Times are in units of the  *)
(* source's clock; the 64-bit ends of the index range are left out.        *)
(***************************************************************************)
EXTENDS Integers, Sequences, FiniteSets, TLC
LOCAL INSTANCE FiniteSetsExt

CONSTANTS
    None,            \* no value (std::nullopt)
    SamplePeriod,    \* timeBase.samplePeriodNs
    WindowPeriod,    \* snapshotPeriodNs, windowPeriodNs; need not be a multiple of SamplePeriod
    FirstIndex,      \* timeBase.firstSampleIndex
    SourceMin, SourceMax, \* the frequencies of the source
    BinCount,        \* renderBinCount, frequencyBinCount
    AmplitudeFloor,  \* amplitudes below it are left out
    BandCapacity,    \* bands 0 .. BandCapacity - 1 have a slot
    HitMax,          \* where the 16-bit hit count of a bin saturates
    MaxWindow        \* bound: the last window the model looks for

\* What the instance has to assume of the parameters.
WindowAssumption ==
    /\ {SamplePeriod, WindowPeriod, BinCount, BandCapacity, HitMax} \subseteq Nat \ {0}
    /\ {AmplitudeFloor, FirstIndex, SourceMin, SourceMax, MaxWindow} \subseteq Nat
    /\ SourceMin < SourceMax

Lesser(a, b) == IF a < b THEN a ELSE b
Greater(a, b) == IF a > b THEN a ELSE b
-----------------------------------------------------------------------------
\* The window of a sample, in one 128-bit division.
ExactWindow(i) == ((i - FirstIndex) * SamplePeriod) \div WindowPeriod

\* Variant: the division is rounded down.
FirstSampleRoundedDown(w) == FirstIndex + (w * WindowPeriod) \div SamplePeriod

\* The first index of a window: the division is rounded up.
FirstSampleOf(w) ==
    FirstIndex + (w * WindowPeriod + SamplePeriod - 1) \div SamplePeriod

\* The incremental index: the window of the last sample, the first index of
\* the next window, the last index.
Track == [w : 0 .. MaxWindow, next : Nat, last : Nat]
Prime(i) ==
    LET w == ExactWindow(i) IN [w |-> w, next |-> FirstSampleOf(w + 1), last |-> i]

\* A later sample moves the window forward boundary by boundary, an earlier
\* one falls back to the division.
Advance(track, i) ==
    IF track = None \/ (track # None /\ i < track.last) THEN Prime(i)
    ELSE LET w == IF i < track.next THEN track.w
                  ELSE Min({v \in track.w + 1 .. MaxWindow : i < FirstSampleOf(v + 1)})
         IN [w |-> w,
             next |-> IF w = track.w THEN track.next ELSE FirstSampleOf(w + 1),
             last |-> i]
-----------------------------------------------------------------------------
InSource(f) == f \in SourceMin .. SourceMax

BinOf(f) ==
    IF BinCount = 1 THEN 0
    ELSE Lesser(((f - SourceMin) * (BinCount - 1)) \div (SourceMax - SourceMin), BinCount - 1)

HasSlot(band) == band \in 0 .. BandCapacity - 1
-----------------------------------------------------------------------------
\* Partial functions from keys to summaries stand for the accumulators and
\* their lists of touched keys: a key is touched when it is in the domain.
Empty == [k \in {} |-> None]

\* f with g merged into it key by key; Join(c, d) merges two summaries.
MergedWith(f, g, Join(_, _)) ==
    [k \in DOMAIN f \cup DOMAIN g |->
        IF k \notin DOMAIN g THEN f[k]
        ELSE IF k \notin DOMAIN f THEN g[k]
        ELSE Join(f[k], g[k])]
=============================================================================
