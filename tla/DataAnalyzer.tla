---- MODULE DataAnalyzer ----
(***************************************************************************)
(* DataAnalyzer: from the accumulated frames to the time ranges that the   *)
(* render task makes clips of.  analyzeRawData() walks once over the       *)
(* frames; a gap of excluded frames shorter than the correction value      *)
(* stays in the range.                                                     *)
(*                                                                         *)
(* The frame at position k of the input has number k: a rendered analysis  *)
(* accumulated the frames 1, 2, ... without gaps (module DataFlow), as the *)
(* decoder numbers them.                                                   *)
(***************************************************************************)
EXTENDS Integers, Sequences

CONSTANTS
    Inputs,         \* sequences of [include, effects]: is the frame kept, has it
                    \* detected data for an effect
    Corrections     \* the values of _frameCount: ceil(framerate)

ASSUME InputsAssumption ==
    Inputs \subseteq Seq([include : BOOLEAN, effects : BOOLEAN])
ASSUME CorrectionsAssumption == Corrections \subseteq Nat

VARIABLES
    inputData, frameCount,
    i,              \* the position looked at, from 1
    before,         \* inside a range
    start, duration,
    temp,           \* the frames whose detected data go into the range
    timeRange,      \* _timeRange: [start, duration, collection]
    done

vars == <<inputData, frameCount, i, before, start, duration, temp, timeRange, done>>

NoStart == -1

\* setCorrectionValue() and the start of analyzeRawData().
Init ==
    /\ inputData \in Inputs
    /\ frameCount \in Corrections
    /\ i = 1
    /\ before = FALSE
    /\ start = NoStart /\ duration = 1
    /\ temp = <<>>
    /\ timeRange = <<>>
    /\ done = FALSE

Included == inputData[i].include
WithEffects == IF inputData[i].effects THEN Append(temp, i) ELSE temp

SkipsTooFar ==   \* variant: the gap may be as long as the correction value
    LET len == IF i - 1 + frameCount + 1 >= Len(inputData)
               THEN Len(inputData) - (i - 1) ELSE frameCount + 1
    IN {j \in 1 .. len - 1 : inputData[i + j].include}

\* canSkip(): how far ahead there are included frames within the correction value.
Skips ==
    LET len == IF i - 1 + frameCount >= Len(inputData)
               THEN Len(inputData) - (i - 1) ELSE frameCount
    IN {j \in 1 .. len - 1 : inputData[i + j].include}

More == ~done /\ i <= Len(inputData)

Open ==
    /\ More
    /\ ~before /\ Included
    /\ start' = i
    /\ before' = TRUE
    /\ temp' = WithEffects
    /\ i' = i + 1
    /\ UNCHANGED <<inputData, frameCount, duration, timeRange, done>>

Extend ==
    /\ More
    /\ before /\ Included
    /\ duration' = duration + 1
    /\ temp' = WithEffects
    /\ i' = i + 1
    /\ UNCHANGED <<inputData, frameCount, before, start, timeRange, done>>

BridgeShort ==   \* variant: the excluded frame at hand is not counted
    /\ More
    /\ before /\ ~Included
    /\ \E skip \in Skips :
        /\ \A j \in Skips : skip <= j
        /\ duration' = duration + skip
        /\ i' = i + skip + 1
    /\ UNCHANGED <<inputData, frameCount, before, start, temp, timeRange, done>>

\* The gap and the included frame after it join the range.
Bridge ==
    /\ More
    /\ before /\ ~Included
    /\ \E skip \in Skips :
        /\ \A j \in Skips : skip <= j
        /\ duration' = duration + skip + 1
        /\ i' = i + skip + 1
    /\ UNCHANGED <<inputData, frameCount, before, start, temp, timeRange, done>>

ThisRange == [start |-> start, duration |-> duration, collection |-> temp]

CloseKeepsTemp ==   \* variant: temp is not cleared
    /\ More
    /\ before /\ ~Included
    /\ Skips = {}
    /\ timeRange' = Append(timeRange, ThisRange)
    /\ start' = NoStart /\ duration' = 1 /\ before' = FALSE
    /\ i' = i + 1
    /\ UNCHANGED <<inputData, frameCount, temp, done>>

Close ==
    /\ More
    /\ before /\ ~Included
    /\ Skips = {}
    /\ timeRange' = Append(timeRange, ThisRange)
    /\ start' = NoStart /\ duration' = 1 /\ before' = FALSE
    /\ temp' = <<>>
    /\ i' = i + 1
    /\ UNCHANGED <<inputData, frameCount, done>>

Pass ==
    /\ More
    /\ ~before /\ ~Included
    /\ i' = i + 1
    /\ UNCHANGED <<inputData, frameCount, before, start, duration, temp, timeRange, done>>

\* After the loop a range still open is closed.
Finish ==
    /\ ~done /\ i > Len(inputData)
    /\ timeRange' = IF start >= 0 THEN Append(timeRange, ThisRange) ELSE timeRange
    /\ done' = TRUE
    /\ UNCHANGED <<inputData, frameCount, i, before, start, duration, temp>>

Next == Open \/ Extend \/ Bridge \/ Close \/ Pass \/ Finish

Spec == Init /\ [][Next]_vars

----
(* Types and properties. *)

Range(r) == r.start .. r.start + r.duration - 1

TimeRanges == [start : Nat, duration : Nat \ {0}, collection : Seq(Nat)]

TypeOK ==
    /\ inputData \in Inputs /\ frameCount \in Corrections
    /\ i \in 1 .. Len(inputData) + 1
    /\ before \in BOOLEAN /\ done \in BOOLEAN
    /\ start \in Nat \cup {NoStart}
    /\ before <=> start # NoStart
    /\ duration \in Nat \ {0}
    /\ temp \in Seq(Nat)
    /\ timeRange \in Seq(TimeRanges)

\* The ranges are given by start and a duration that is counted, not computed.  The
\* count is right, with every mixture of gaps: a range lies within the input, begins
\* and ends with an included frame, and before the next one there is an excluded frame.
RangesApart ==
    /\ \A k \in DOMAIN timeRange :
        LET first == timeRange[k].start
            last == timeRange[k].start + timeRange[k].duration - 1
        IN /\ first \in DOMAIN inputData /\ inputData[first].include
           /\ last \in DOMAIN inputData /\ inputData[last].include
    /\ \A k \in DOMAIN timeRange : k > 1 =>
        timeRange[k - 1].start + timeRange[k - 1].duration < timeRange[k].start

\* The frames to keep: the included ones, and the gaps between two of them that are
\* shorter than the correction value.
Kept ==
    {k \in DOMAIN inputData :
        \/ inputData[k].include
        \/ \E a \in 1 .. k - 1, b \in k + 1 .. Len(inputData) :
            inputData[a].include /\ inputData[b].include /\ b - a <= frameCount}

\* The ranges together are exactly these frames.
RangesAreKept ==
    done => UNION {Range(timeRange[k]) : k \in DOMAIN timeRange} = Kept

\* A range carries, in order, the detected data of its own frames and of no frame of
\* another range; it lacks only that of a frame that ends a bridged gap.
CollectionsAreOwn ==
    \A k \in DOMAIN timeRange :
        LET r == timeRange[k]
            resumed == {f \in Range(r) : f > r.start /\ ~inputData[f - 1].include}
            c == r.collection
        IN /\ {c[m] : m \in DOMAIN c} =
                 {f \in Range(r) \ resumed : inputData[f].include /\ inputData[f].effects}
           /\ \A m, n \in DOMAIN c : m < n => c[m] < c[n]
====
