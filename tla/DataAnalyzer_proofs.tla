---- MODULE DataAnalyzer_proofs ----
(***************************************************************************)
(* Proofs about DataAnalyzer, for every input and correction value: the   *)
(* counted durations are right, so the ranges begin and end with included  *)
(* frames, lie within the input and are apart; they are the frames to keep *)
(* (the included ones and the gaps the correction value bridges); and each *)
(* carries the effects of its own included frames.                         *)
(***************************************************************************)
EXTENDS DataAnalyzer, TLAPS

\* What the walk knows of its input: frames with a Boolean verdict.
LEMMA InputFrames ==
    ASSUME inputData \in Inputs
    PROVE  /\ Len(inputData) \in Nat
           /\ DOMAIN inputData = 1 .. Len(inputData)
           /\ \A k \in 1 .. Len(inputData) :
                inputData[k].include \in BOOLEAN /\ inputData[k].effects \in BOOLEAN
<1> DEFINE F == [include : BOOLEAN, effects : BOOLEAN]
<1>1. inputData \in Seq(F)
  BY InputsAssumption
<1>2. \A k \in 1 .. Len(inputData) : inputData[k] \in F
  <2> HIDE DEF F
  <2> QED
    BY <1>1
<1>3. Len(inputData) \in Nat /\ DOMAIN inputData = 1 .. Len(inputData)
  BY <1>1
<1> QED
  BY <1>2, <1>3

\* The skipped distance stays within the input and ends on an included frame.
LEMMA SkipLands ==
    ASSUME inputData \in Inputs, frameCount \in Nat,
           i \in 1 .. Len(inputData), NEW skip \in Skips
    PROVE  /\ skip \in Nat \ {0}
           /\ i + skip \in 1 .. Len(inputData)
           /\ inputData[i + skip].include
  BY InputFrames DEF Skips

LEMMA InitTypeOK == Init => TypeOK
<1> SUFFICES ASSUME Init PROVE TypeOK
  OBVIOUS
<1>1. i \in 1 .. Len(inputData) + 1
  BY InputFrames DEF Init
<1>2. start \in Nat \cup {NoStart} /\ duration \in Nat \ {0}
  BY DEF Init, NoStart
<1>3. temp \in Seq(Nat) /\ timeRange \in Seq(TimeRanges)
  BY DEF Init
<1>4. before \in BOOLEAN /\ done \in BOOLEAN /\ (before <=> start # NoStart)
  BY DEF Init
<1> QED
  BY <1>1, <1>2, <1>3, <1>4 DEF Init, TypeOK

\* TypeOK is inductive.
LEMMA TypeKept == TypeOK /\ [Next]_vars => TypeOK'
<1> SUFFICES ASSUME TypeOK, [Next]_vars
             PROVE  TypeOK'
  OBVIOUS
<1> USE DEF TypeOK, NoStart
<1>i. inputData \in Inputs /\ Len(inputData) \in Nat
  BY InputFrames
<1>f. frameCount \in Nat
  BY CorrectionsAssumption
<1>t. ASSUME More PROVE i \in 1 .. Len(inputData) /\ WithEffects \in Seq(Nat)
  BY <1>i, <1>t DEF More, WithEffects
<1>r. ASSUME before PROVE ThisRange \in TimeRanges
  BY <1>r DEF ThisRange, TimeRanges
<1>1. CASE Open
  BY <1>1, <1>i, <1>t DEF Open, More
<1>2. CASE Extend
  BY <1>2, <1>i, <1>t DEF Extend, More
<1>3. CASE Bridge
  <2>1. PICK skip \in Skips : duration' = duration + skip + 1 /\ i' = i + skip + 1
    BY <1>3 DEF Bridge
  <2>2. skip \in Nat \ {0} /\ i + skip \in 1 .. Len(inputData)
    BY <2>1, <1>3, <1>i, <1>f, <1>t, SkipLands DEF Bridge
  <2> QED
    BY <2>1, <2>2, <1>3, <1>i DEF Bridge, More
<1>4. CASE Close
  <2>1. timeRange' \in Seq(TimeRanges)
    BY <1>4, <1>r DEF Close
  <2>2. i' \in 1 .. Len(inputData') + 1
    BY <1>4, <1>i DEF Close, More
  <2>3. temp' \in Seq(Nat) /\ start' = NoStart /\ before' = FALSE /\ duration' = 1
    BY <1>4 DEF Close
  <2>4. inputData' \in Inputs /\ frameCount' \in Corrections /\ done' \in BOOLEAN
    BY <1>4 DEF Close
  <2>5. before' \in BOOLEAN /\ (before' <=> start' # NoStart)
    BY <2>3
  <2>6. start' \in Nat \cup {NoStart} /\ duration' \in Nat \ {0}
    BY <2>3
  <2> HIDE DEF NoStart
  <2> QED
    BY <2>1, <2>2, <2>3, <2>4, <2>5, <2>6
<1>5. CASE Pass
  BY <1>5, <1>i DEF Pass, More
<1>6. CASE Finish
  <2>1. timeRange' \in Seq(TimeRanges)
    BY <1>6, <1>r DEF Finish
  <2> QED
    BY <2>1, <1>6 DEF Finish
<1>7. CASE UNCHANGED vars
  BY <1>7 DEF vars
<1> QED
  BY <1>1, <1>2, <1>3, <1>4, <1>5, <1>6, <1>7 DEF Next

\* Every variable keeps its type; in particular the walk does not pass the end, and
\* `before` and `start` always agree on whether a range is open.
THEOREM TypeCorrect == Spec => []TypeOK
<1> QED
  BY InitTypeOK, TypeKept, PTL DEF Spec

----
\* The open range reaches to the frame before the one at hand.
OpenRange ==
    ~done /\ before =>
        /\ start \in 1 .. Len(inputData)
        /\ start + duration = i
        /\ inputData[start].include /\ inputData[i - 1].include

\* A frame lies between the last closed range and the open one, or the one to come.
LastClosed ==
    ~done /\ timeRange # <<>> =>
        LET r == timeRange[Len(timeRange)]
        IN r.start + r.duration < IF before THEN start ELSE i

\* Between two ranges the count is back at one.
ClosedCountsOne == ~done /\ ~before => duration = 1

IInv == TypeOK /\ OpenRange /\ LastClosed /\ ClosedCountsOne /\ RangesApart

LEMMA InitIInv == Init => IInv
  BY InitTypeOK DEF Init, IInv, OpenRange, LastClosed, ClosedCountsOne, RangesApart

\* Closing the open range keeps the closed ranges apart.
LEMMA AppendApart ==
    ASSUME IInv, ~done, before, timeRange' = Append(timeRange, ThisRange),
           inputData' = inputData
    PROVE  /\ RangesApart'
           /\ timeRange'[Len(timeRange')] = ThisRange
           /\ timeRange' # <<>>
<1> USE DEF IInv, TypeOK
<1>i. DOMAIN inputData = 1 .. Len(inputData) /\ Len(inputData) \in Nat
  BY InputFrames
<1>1. /\ start \in 1 .. Len(inputData) /\ start + duration = i
      /\ inputData[start].include /\ inputData[i - 1].include
  BY DEF OpenRange
<1>2. /\ Len(timeRange) \in Nat /\ DOMAIN timeRange = 1 .. Len(timeRange)
      /\ DOMAIN timeRange' = 1 .. Len(timeRange) + 1
      /\ Len(timeRange') = Len(timeRange) + 1
      /\ \A k \in 1 .. Len(timeRange) : timeRange'[k] = timeRange[k]
      /\ timeRange'[Len(timeRange) + 1] = ThisRange
  OBVIOUS
<1>3. ThisRange.start = start /\ ThisRange.duration = duration
  BY DEF ThisRange
<1>4. ASSUME NEW k \in DOMAIN timeRange'
      PROVE  LET first == timeRange'[k].start
                 last == timeRange'[k].start + timeRange'[k].duration - 1
             IN /\ first \in DOMAIN inputData /\ inputData[first].include
                /\ last \in DOMAIN inputData /\ inputData[last].include
  <2>1. CASE k = Len(timeRange) + 1
    <3>1. start + duration - 1 = i - 1 /\ i - 1 \in 1 .. Len(inputData)
      BY <1>1, <1>i
    <3> QED
      BY <2>1, <3>1, <1>1, <1>2, <1>3, <1>i
  <2>2. CASE k \in 1 .. Len(timeRange)
    BY <2>2, <1>2 DEF RangesApart
  <2> QED
    BY <2>1, <2>2, <1>2
<1>5. ASSUME NEW k \in DOMAIN timeRange', k > 1
      PROVE  timeRange'[k - 1].start + timeRange'[k - 1].duration < timeRange'[k].start
  <2>1. CASE k = Len(timeRange) + 1
    <3>1. timeRange # <<>> /\ k - 1 = Len(timeRange) /\ k - 1 \in 1 .. Len(timeRange)
      BY <2>1, <1>2, <1>5
    <3>2. timeRange[k - 1].start + timeRange[k - 1].duration < start
      BY <3>1 DEF LastClosed
    <3> QED
      BY <3>1, <3>2, <2>1, <1>2, <1>3
  <2>2. CASE k \in 1 .. Len(timeRange)
    <3>1. k - 1 \in 1 .. Len(timeRange)
      BY <2>2, <1>2, <1>5
    <3> QED
      BY <2>2, <3>1, <1>2, <1>5 DEF RangesApart
  <2>3. k \in 1 .. Len(timeRange) \/ k = Len(timeRange) + 1
    BY <1>2, <1>5
  <2> QED
    BY <2>1, <2>2, <2>3
<1> QED
  BY <1>2, <1>4, <1>5 DEF RangesApart

LEMMA IInvKept == IInv /\ [Next]_vars => IInv'
<1> SUFFICES ASSUME IInv, [Next]_vars
             PROVE  IInv'
  OBVIOUS
<1>0. TypeOK'
  BY TypeKept DEF IInv
<1>i. inputData \in Inputs /\ frameCount \in Nat /\ Len(inputData) \in Nat
  BY InputFrames, CorrectionsAssumption DEF IInv, TypeOK
<1>1. CASE Open
  <2>1. i \in 1 .. Len(inputData) /\ ~done /\ ~before /\ inputData[i].include
    BY <1>1, <1>i DEF Open, More, Included, IInv, TypeOK
  <2>2. OpenRange'
    <3>1. duration = 1
      BY <2>1 DEF IInv, ClosedCountsOne
    <3> QED
      BY <2>1, <3>1, <1>1, <1>i DEF Open, OpenRange
  <2>3. LastClosed' /\ RangesApart'
    BY <2>1, <1>1 DEF Open, IInv, LastClosed, RangesApart
  <2>4. ClosedCountsOne'
    BY <1>1 DEF Open, ClosedCountsOne
  <2> QED
    BY <1>0, <2>2, <2>3, <2>4 DEF IInv
<1>2. CASE Extend
  BY <1>0, <1>2, <1>i
  DEF IInv, TypeOK, NoStart, OpenRange, LastClosed, ClosedCountsOne, RangesApart,
      Extend, More, Included
<1>3. CASE Bridge
  <2>1. PICK skip \in Skips : duration' = duration + skip + 1 /\ i' = i + skip + 1
    BY <1>3 DEF Bridge
  <2>2. skip \in Nat \ {0} /\ inputData[i + skip].include
    BY <2>1, <1>3, <1>i, SkipLands DEF Bridge, More, IInv, TypeOK
  <2>3. OpenRange'
    BY <2>1, <2>2, <1>3, <1>i DEF Bridge, More, IInv, TypeOK, OpenRange
  <2>4. LastClosed' /\ ClosedCountsOne' /\ RangesApart'
    BY <1>3 DEF Bridge, IInv, LastClosed, ClosedCountsOne, RangesApart
  <2> QED
    BY <1>0, <2>3, <2>4 DEF IInv
<1>4. CASE Close
  <2>1. RangesApart' /\ timeRange'[Len(timeRange')] = ThisRange
    BY <1>4, AppendApart DEF Close, More
  <2>2. OpenRange' /\ ClosedCountsOne'
    BY <1>4 DEF Close, OpenRange, ClosedCountsOne
  <2>3. LastClosed'
    BY <2>1, <1>4, <1>i
    DEF Close, More, LastClosed, ThisRange, IInv, TypeOK, OpenRange
  <2> QED
    BY <1>0, <2>1, <2>2, <2>3 DEF IInv
<1>5. CASE Pass
  <2>1. OpenRange' /\ RangesApart' /\ ClosedCountsOne'
    BY <1>5 DEF Pass, IInv, OpenRange, RangesApart, ClosedCountsOne
  <2>2. LastClosed'
    <3>1. CASE timeRange = <<>>
      BY <3>1, <1>5 DEF Pass, LastClosed
    <3>2. CASE timeRange # <<>>
      <4>1. timeRange[Len(timeRange)] \in TimeRanges
        BY <3>2 DEF IInv, TypeOK
      <4> QED
        BY <3>2, <4>1, <1>5, <1>i DEF Pass, More, IInv, TypeOK, LastClosed, TimeRanges
    <3> QED
      BY <3>1, <3>2
  <2> QED
    BY <1>0, <2>1, <2>2 DEF IInv
<1>6. CASE Finish
  <2>1. OpenRange' /\ LastClosed' /\ ClosedCountsOne'
    BY <1>6 DEF Finish, OpenRange, LastClosed, ClosedCountsOne
  <2>2. CASE before
    BY <1>0, <1>6, <2>1, <2>2, AppendApart DEF Finish, IInv, TypeOK, NoStart
  <2>3. CASE ~before
    BY <1>0, <1>6, <2>1, <2>3 DEF Finish, IInv, TypeOK, NoStart, RangesApart
  <2> QED
    BY <2>2, <2>3 DEF IInv, TypeOK
<1>7. CASE UNCHANGED vars
  BY <1>0, <1>7 DEF vars, IInv, OpenRange, LastClosed, ClosedCountsOne, RangesApart
<1> QED
  BY <1>1, <1>2, <1>3, <1>4, <1>5, <1>6, <1>7 DEF Next

\* The ranges of every analysis begin and end with included frames of the input, and
\* there is a frame between any two: durations are counted right over every gap.
THEOREM RangesApartHolds == Spec => []RangesApart
<1>1. IInv => RangesApart
  BY DEF IInv
<1> QED
  BY InitIInv, IInvKept, <1>1, PTL DEF Spec

----
(* The ranges are the frames to keep. *)

\* What a frame of number f needs to be kept.
LEMMA KeptFrame ==
    \A f : f \in Kept <=>
        /\ f \in DOMAIN inputData
        /\ \/ inputData[f].include
           \/ \E a \in 1 .. f - 1, b \in f + 1 .. Len(inputData) :
                inputData[a].include /\ inputData[b].include /\ b - a <= frameCount
  BY DEF Kept

InRange(f) == \E k \in DOMAIN timeRange : f \in Range(timeRange[k])
InOpen(f) == ~done /\ before /\ start <= f /\ f < i

\* Of the frames walked over, those to keep are in a closed range or in the open one.
KeptSoFar ==
    \A f \in Nat : InRange(f) \/ InOpen(f) <=> f \in Kept /\ f < i

\* Outside a range no frame ahead is near enough to an included one behind for the
\* gap between them to be kept.
FarApart ==
    ~done /\ ~before =>
        \A a \in 1 .. i - 1, b \in i .. Len(inputData) :
            inputData[a].include /\ inputData[b].include => b - a > frameCount

WalkInv == IInv /\ KeptSoFar /\ FarApart

\* Appending a range adds its frames.
LEMMA AppendRange ==
    ASSUME timeRange \in Seq(TimeRanges), timeRange' = Append(timeRange, ThisRange)
    PROVE  \A f : InRange(f)' <=> InRange(f) \/ f \in start .. start + duration - 1
<1>1. /\ DOMAIN timeRange' = DOMAIN timeRange \cup {Len(timeRange) + 1}
      /\ Len(timeRange) + 1 \notin DOMAIN timeRange
      /\ \A k \in DOMAIN timeRange : timeRange'[k] = timeRange[k]
      /\ timeRange'[Len(timeRange) + 1] = ThisRange
  OBVIOUS
<1>2. Range(ThisRange) = start .. start + duration - 1
  BY DEF Range, ThisRange
<1> QED
  BY <1>1, <1>2 DEF InRange, Range

\* canSkip() that finds nothing has looked far enough.
LEMMA NothingNear ==
    ASSUME inputData \in Inputs, frameCount \in Nat, i \in 1 .. Len(inputData),
           ~inputData[i].include, Skips = {},
           NEW a \in 1 .. i, NEW b \in i + 1 .. Len(inputData),
           inputData[a].include, inputData[b].include
    PROVE  b - a > frameCount
<1>1. Len(inputData) \in Nat /\ a <= i - 1
  BY InputFrames
<1> SUFFICES ASSUME b - a <= frameCount PROVE b - i \in Skips
  BY <1>1
<1> QED
  BY <1>1 DEF Skips

LEMMA InitWalkInv == Init => WalkInv
<1> SUFFICES ASSUME Init PROVE WalkInv
  OBVIOUS
<1>1. IInv
  BY InitIInv
<1>2. KeptSoFar
  BY InputFrames, KeptFrame DEF Init, KeptSoFar, InRange, InOpen
<1>3. FarApart
  BY InputFrames DEF Init, FarApart
<1> QED
  BY <1>1, <1>2, <1>3 DEF WalkInv

LEMMA WalkInvKept == WalkInv /\ [Next]_vars => WalkInv'
<1> SUFFICES ASSUME WalkInv, [Next]_vars
             PROVE  KeptSoFar' /\ FarApart'
  BY IInvKept DEF WalkInv
<1> USE DEF WalkInv
<1>i. /\ inputData \in Inputs /\ frameCount \in Nat /\ Len(inputData) \in Nat
      /\ DOMAIN inputData = 1 .. Len(inputData) /\ i \in Nat /\ timeRange \in Seq(TimeRanges)
  BY InputFrames, CorrectionsAssumption DEF IInv, TypeOK
<1>k. \A f \in Nat : InRange(f) \/ InOpen(f) <=> f \in Kept /\ f < i
  BY DEF KeptSoFar
<1>m. More => i \in 1 .. Len(inputData)
  BY <1>i DEF More, IInv, TypeOK
<1>1. CASE Open
  <2>1. Kept' = Kept /\ i' = i + 1 /\ (\A f : InRange(f)' <=> InRange(f))
    BY <1>1 DEF Open, Kept, InRange
  <2>2. i \in Kept /\ start' = i /\ before' /\ ~done' /\ ~before
    BY <1>1, <1>i, <1>m, KeptFrame DEF Open, Included, More
  <2>3. KeptSoFar'
    BY <2>1, <2>2, <1>i, <1>k DEF KeptSoFar, InOpen
  <2> QED
    BY <2>2, <2>3 DEF FarApart
<1>2. CASE Extend
  <2>1. Kept' = Kept /\ i' = i + 1 /\ (\A f : InRange(f)' <=> InRange(f))
    BY <1>2 DEF Extend, Kept, InRange
  <2>2. start' = start /\ before' /\ ~done' /\ before /\ ~done /\ i \in 1 .. Len(inputData)
        /\ inputData[i].include
    BY <1>2, <1>m DEF Extend, More, Included
  <2>3. i \in Kept
    BY <2>2, <1>i, KeptFrame
  <2>4. start <= i
    BY <2>2, <1>i DEF IInv, TypeOK, OpenRange, NoStart
  <2>5. KeptSoFar'
    BY <2>1, <2>2, <2>3, <2>4, <1>i, <1>k DEF KeptSoFar, InOpen
  <2> QED
    BY <2>2, <2>5 DEF FarApart
<1>3. CASE Bridge
  <2>1. PICK skip \in Skips : i' = i + skip + 1
    BY <1>3 DEF Bridge
  <2>2. /\ skip \in Nat \ {0} /\ i + skip \in 1 .. Len(inputData)
        /\ inputData[i + skip].include
    BY <2>1, <1>3, <1>i, <1>m, SkipLands DEF Bridge
  <2>3. skip + 1 <= frameCount
    BY <2>1, <2>2, <1>i, <1>3, <1>m DEF Skips, Bridge
  <2>4. Kept' = Kept /\ (\A f : InRange(f)' <=> InRange(f))
    BY <1>3 DEF Bridge, Kept, InRange
  <2>5. /\ start' = start /\ before' /\ ~done' /\ before /\ ~done /\ start < i
        /\ start \in Nat /\ i - 1 \in 1 .. Len(inputData) /\ inputData[i - 1].include
    BY <1>3, <1>i, <1>m DEF Bridge, More, IInv, TypeOK, OpenRange, NoStart
  <2>6. \A f \in i .. i + skip : f \in Kept
    <3> TAKE f \in i .. i + skip
    <3>1. f \in DOMAIN inputData
      BY <2>2, <2>5, <1>i
    <3>2. CASE f = i + skip
      BY <3>1, <3>2, <2>2, KeptFrame
    <3>3. CASE f < i + skip
      <4>1. i - 1 \in 1 .. f - 1 /\ i + skip \in f + 1 .. Len(inputData)
        BY <3>3, <2>2, <2>5, <1>i
      <4>2. (i + skip) - (i - 1) <= frameCount
        BY <2>2, <2>3, <1>i
      <4> QED
        BY <3>1, <4>1, <4>2, <2>2, <2>5, KeptFrame
    <3> QED
      BY <3>2, <3>3, <2>2, <1>i
  <2>7. KeptSoFar'
    BY <2>1, <2>2, <2>4, <2>5, <2>6, <1>i, <1>k DEF KeptSoFar, InOpen
  <2> QED
    BY <2>5, <2>7 DEF FarApart
<1>4. CASE Close
  <2>1. /\ Kept' = Kept /\ i' = i + 1 /\ ~before' /\ ~done /\ ~done' /\ before
        /\ UNCHANGED <<inputData, frameCount>>
        /\ timeRange' = Append(timeRange, ThisRange)
        /\ ~inputData[i].include /\ Skips = {} /\ i \in 1 .. Len(inputData)
    BY <1>4, <1>m DEF Close, Kept, More, Included
  <2>2. \A f : InRange(f)' <=> InRange(f) \/ f \in start .. i - 1
    BY <2>1, <1>i, AppendRange DEF IInv, TypeOK, OpenRange
  <2>3. start \in Nat
    BY <2>1 DEF IInv, TypeOK, NoStart
  <2>4. \A a \in 1 .. i, b \in i + 1 .. Len(inputData) :
            inputData[a].include /\ inputData[b].include => b - a > frameCount
    BY <2>1, <1>i, NothingNear
  <2>5. i \notin Kept
    BY <2>1, <2>4, <1>i, KeptFrame
  <2>6. KeptSoFar'
    BY <2>1, <2>2, <2>3, <2>5, <1>i, <1>k DEF KeptSoFar, InOpen
  <2> QED
    BY <2>1, <2>4, <2>6, <1>i DEF FarApart
<1>5. CASE Pass
  <2>1. /\ Kept' = Kept /\ i' = i + 1 /\ ~before' /\ ~done /\ ~done' /\ ~before
        /\ UNCHANGED <<inputData, frameCount, timeRange>>
        /\ ~inputData[i].include /\ i \in 1 .. Len(inputData)
        /\ \A f : InRange(f)' <=> InRange(f)
    BY <1>5, <1>m DEF Pass, Kept, More, Included, InRange
  <2>2. \A a \in 1 .. i, b \in i + 1 .. Len(inputData) :
            inputData[a].include /\ inputData[b].include => b - a > frameCount
    BY <2>1, <1>i DEF FarApart
  <2>3. i \notin Kept
    BY <2>1, <2>2, <1>i, KeptFrame
  <2>4. KeptSoFar'
    BY <2>1, <2>3, <1>i, <1>k DEF KeptSoFar, InOpen
  <2> QED
    BY <2>1, <2>2, <2>4, <1>i DEF FarApart
<1>6. CASE Finish
  <2>1. Kept' = Kept /\ i' = i /\ ~done /\ done'
    BY <1>6 DEF Finish, Kept
  <2>2. CASE before
    <3>1. timeRange' = Append(timeRange, ThisRange) /\ start + duration = i /\ start \in Nat
      BY <1>6, <2>1, <2>2 DEF Finish, IInv, TypeOK, NoStart, OpenRange
    <3>2. \A f : InRange(f)' <=> InRange(f) \/ f \in start .. i - 1
      BY <3>1, <1>i, AppendRange DEF IInv, TypeOK
    <3>3. KeptSoFar'
      BY <2>1, <2>2, <3>1, <3>2, <1>i, <1>k DEF KeptSoFar, InOpen
    <3> QED
      BY <2>1, <3>3 DEF FarApart
  <2>3. CASE ~before
    <3>1. timeRange' = timeRange
      BY <1>6, <2>3 DEF Finish, IInv, TypeOK, NoStart
    <3>2. \A f : InRange(f)' <=> InRange(f)
      BY <3>1 DEF InRange
    <3>3. KeptSoFar'
      BY <2>1, <2>3, <3>2, <1>i, <1>k DEF KeptSoFar, InOpen
    <3> QED
      BY <2>1, <3>3 DEF FarApart
  <2> QED
    BY <2>2, <2>3 DEF IInv, TypeOK
<1>7. CASE UNCHANGED vars
  BY <1>7 DEF vars, KeptSoFar, FarApart, InRange, InOpen, Kept
<1> QED
  BY <1>1, <1>2, <1>3, <1>4, <1>5, <1>6, <1>7 DEF Next

\* The ranges of a finished walk are together exactly the frames to keep: no gap is
\* bridged that is too long, none is left open that is short, and no frame is lost.
THEOREM RangesAreKeptHolds == Spec => []RangesAreKept
<1> DEFINE Finished == done => i > Len(inputData)
<1>1. Init => Finished
  BY DEF Init
<1>2. TypeOK /\ Finished /\ [Next]_vars => Finished'
  BY DEF TypeOK, Next, vars, Open, Extend, Bridge, Close, Pass, Finish, More
<1>3. WalkInv /\ Finished => RangesAreKept
  <2> SUFFICES ASSUME WalkInv, Finished, done
               PROVE  UNION {Range(timeRange[k]) : k \in DOMAIN timeRange} = Kept
    BY DEF RangesAreKept
  <2>1. \A f \in UNION {Range(timeRange[k]) : k \in DOMAIN timeRange} : f \in Nat /\ InRange(f)
    <3>1. ASSUME NEW k \in DOMAIN timeRange PROVE Range(timeRange[k]) \subseteq Nat
      <4>1. timeRange[k] \in TimeRanges
        BY DEF WalkInv, IInv, TypeOK
      <4>2. timeRange[k].start \in Nat /\ timeRange[k].duration \in Nat
        BY <4>1 DEF TimeRanges
      <4> QED
        BY <4>2 DEF Range
    <3> QED
      BY <3>1 DEF InRange
  <2>2. \A f \in Kept : f \in Nat /\ f < i
    BY InputFrames, KeptFrame DEF WalkInv, IInv, TypeOK
  <2>3. \A f \in Nat : InRange(f) <=> f \in Kept /\ f < i
    BY DEF WalkInv, KeptSoFar, InOpen
  <2> QED
    BY <2>1, <2>2, <2>3 DEF InRange
<1>4. WalkInv => TypeOK
  BY DEF WalkInv, IInv
<1> HIDE DEF Finished
<1> QED
  BY InitWalkInv, WalkInvKept, <1>1, <1>2, <1>3, <1>4, PTL DEF Spec

----
(* A range carries the data of its own frames. *)

\* The frame that ends a bridged gap.
Resumed(first, f) == f > first /\ ~inputData[f - 1].include

\* The collection holds, in order, the data of the frames from first to last.
Carries(collection, first, last) ==
    /\ \A f \in Nat :
        (\E m \in DOMAIN collection : collection[m] = f) <=>
            /\ f \in first .. last
            /\ inputData[f].include /\ inputData[f].effects
            /\ ~Resumed(first, f)
    /\ \A m, n \in DOMAIN collection : m < n => collection[m] < collection[n]

CarriedSoFar ==
    /\ \A k \in DOMAIN timeRange :
        Carries(timeRange[k].collection, timeRange[k].start,
                timeRange[k].start + timeRange[k].duration - 1)
    /\ ~done /\ before => Carries(temp, start, i - 1)
    /\ ~done /\ ~before => temp = <<>>

\* One more frame is walked over, with or without data.
LEMMA CarriesOneMore ==
    ASSUME NEW first \in Nat, NEW last \in Nat, NEW c \in Seq(Nat), first <= last,
           Carries(c, first, last - 1), inputData[last].include,
           inputData[last].effects \in BOOLEAN, ~Resumed(first, last)
    PROVE  Carries(IF inputData[last].effects THEN Append(c, last) ELSE c, first, last)
<1>1. CASE inputData[last].effects
  <2> DEFINE d == Append(c, last)
  <2>1. /\ DOMAIN d = DOMAIN c \cup {Len(c) + 1} /\ d[Len(c) + 1] = last
        /\ \A m \in DOMAIN c : d[m] = c[m] /\ m < Len(c) + 1 /\ m \in Nat
    OBVIOUS
  <2>2. \A m \in DOMAIN c : c[m] < last /\ c[m] \in Nat
    BY DEF Carries
  <2> HIDE DEF d
  <2>3. ASSUME NEW f \in Nat
        PROVE  (\E m \in DOMAIN d : d[m] = f) <=>
                 (\E m \in DOMAIN c : c[m] = f) \/ f = last
    BY <2>1
  <2>4. ASSUME NEW f \in Nat
        PROVE  (\E m \in DOMAIN d : d[m] = f) <=>
                 /\ f \in first .. last
                 /\ inputData[f].include /\ inputData[f].effects
                 /\ ~Resumed(first, f)
    <3>1. CASE f = last
      BY <1>1, <2>3, <3>1
    <3>2. CASE f # last
      <4>1. f \in first .. last <=> f \in first .. last - 1
        BY <3>2
      <4> QED
        BY <2>3, <3>2, <4>1 DEF Carries
    <3> QED
      BY <3>1, <3>2
  <2>5. \A m, n \in DOMAIN d : m < n => d[m] < d[n]
    BY <2>1, <2>2 DEF Carries
  <2> QED
    BY <1>1, <2>4, <2>5 DEF Carries, d
<1>2. CASE ~inputData[last].effects
  <2>1. ASSUME NEW f \in Nat
        PROVE  /\ f \in first .. last
               /\ inputData[f].include /\ inputData[f].effects
               /\ ~Resumed(first, f)
               <=> /\ f \in first .. last - 1
                   /\ inputData[f].include /\ inputData[f].effects
                   /\ ~Resumed(first, f)
    BY <1>2
  <2> QED
    BY <1>2, <2>1 DEF Carries
<1> QED
  BY <1>1, <1>2

\* Frames without data of their own are walked over.
LEMMA CarriesNoMore ==
    ASSUME NEW first \in Nat, NEW last \in Nat, NEW next \in Nat, NEW c \in Seq(Nat),
           first <= last, last <= next, Carries(c, first, last),
           \A f \in last + 1 .. next : ~inputData[f].include \/ Resumed(first, f)
    PROVE  Carries(c, first, next)
<1>1. ASSUME NEW f \in Nat
      PROVE  /\ f \in first .. next
             /\ inputData[f].include /\ inputData[f].effects
             /\ ~Resumed(first, f)
             <=> /\ f \in first .. last
                 /\ inputData[f].include /\ inputData[f].effects
                 /\ ~Resumed(first, f)
  OBVIOUS
<1> QED
  BY <1>1 DEF Carries

CarryInv == IInv /\ CarriedSoFar

LEMMA CarryInvKept == CarryInv /\ [Next]_vars => CarryInv'
<1> SUFFICES ASSUME CarryInv, [Next]_vars
             PROVE  CarriedSoFar'
  BY IInvKept DEF CarryInv
<1> USE DEF CarryInv
<1>i. /\ inputData \in Inputs /\ frameCount \in Nat /\ Len(inputData) \in Nat
      /\ DOMAIN inputData = 1 .. Len(inputData) /\ i \in Nat /\ timeRange \in Seq(TimeRanges)
      /\ \A k \in 1 .. Len(inputData) : inputData[k].effects \in BOOLEAN
  BY InputFrames, CorrectionsAssumption DEF IInv, TypeOK
<1>m. More => i \in 1 .. Len(inputData)
  BY <1>i DEF More, IInv, TypeOK
<1>t. temp \in Seq(Nat)
  BY DEF IInv, TypeOK
<1>1. CASE Open
  <2>1. /\ ~done /\ ~before /\ temp = <<>> /\ i \in 1 .. Len(inputData)
        /\ inputData[i].include /\ i' = i + 1 /\ start' = i /\ temp' = WithEffects
        /\ before' /\ ~done' /\ UNCHANGED <<inputData, timeRange>>
    BY <1>1, <1>m DEF Open, More, Included, CarriedSoFar
  <2>2. Carries(<<>>, i, i - 1)
    BY <1>i DEF Carries
  <2>3. ~Resumed(i, i) /\ <<>> \in Seq(Nat)
    BY <2>1 DEF Resumed
  <2>4. Carries(IF inputData[i].effects THEN Append(temp, i) ELSE temp, i, i)
    <3>1. Carries(temp, i, i - 1) /\ inputData[i].include /\ ~Resumed(i, i)
      BY <2>1, <2>2, <2>3
    <3>2. i \in Nat /\ i <= i /\ inputData[i].effects \in BOOLEAN
      BY <2>1, <1>i
    <3> QED
      BY <3>1, <3>2, <1>t, CarriesOneMore
  <2>5. Carries(temp', i, i)
    BY <2>1, <2>4 DEF WithEffects
  <2> QED
    BY <2>1, <2>5, <1>i DEF CarriedSoFar, Carries, Resumed
<1>2. CASE Extend
  <2>1. /\ ~done /\ before /\ i \in 1 .. Len(inputData) /\ inputData[i].include
        /\ i' = i + 1 /\ start' = start /\ temp' = WithEffects /\ before' /\ ~done'
        /\ UNCHANGED <<inputData, timeRange>>
    BY <1>2, <1>m DEF Extend, More, Included
  <2>2. Carries(temp, start, i - 1) /\ start \in Nat /\ start <= i /\ ~Resumed(start, i)
    BY <2>1, <1>i DEF CarriedSoFar, IInv, OpenRange, TypeOK, NoStart, Resumed
  <2>4. Carries(IF inputData[i].effects THEN Append(temp, i) ELSE temp, start, i)
    BY <2>1, <2>2, <1>i, <1>t, CarriesOneMore
  <2>5. Carries(temp', start, i)
    BY <2>4, <2>1 DEF WithEffects
  <2> QED
    BY <2>1, <2>5, <1>i DEF CarriedSoFar, Carries, Resumed
<1>3. CASE Bridge
  <2>1. PICK skip \in Skips : (\A j \in Skips : skip <= j) /\ i' = i + skip + 1
    BY <1>3 DEF Bridge
  <2>2. /\ ~done /\ before /\ i \in 1 .. Len(inputData) /\ ~inputData[i].include
        /\ start' = start /\ temp' = temp /\ before' /\ ~done'
        /\ UNCHANGED <<inputData, timeRange>>
    BY <1>3, <1>m DEF Bridge, More, Included
  <2>3. skip \in Nat \ {0} /\ i + skip \in 1 .. Len(inputData)
    BY <2>1, <2>2, <1>i, SkipLands
  <2>4. Carries(temp, start, i - 1) /\ start \in Nat /\ start < i
    BY <2>2, <1>i DEF CarriedSoFar, IInv, OpenRange, TypeOK, NoStart
  <2>5. \A f \in i .. i + skip - 1 : ~inputData[f].include
    <3> SUFFICES ASSUME NEW f \in i + 1 .. i + skip - 1, inputData[f].include PROVE FALSE
      BY <2>2, <2>3
    <3>1. f - i \in Skips /\ f - i < skip
      BY <2>1, <2>3, <1>i DEF Skips
    <3> QED
      BY <2>1, <2>3, <3>1, <1>i
  <2>6. Resumed(start, i + skip)
    BY <2>2, <2>3, <2>4, <2>5 DEF Resumed
  <2>7. \A f \in (i - 1) + 1 .. i + skip : ~inputData[f].include \/ Resumed(start, f)
    BY <2>2, <2>3, <2>5, <2>6
  <2>8. Carries(temp, start, i + skip)
    BY <2>2, <2>3, <2>4, <2>7, <1>t, CarriesNoMore
  <2> QED
    BY <2>1, <2>2, <2>3, <2>8, <1>i DEF CarriedSoFar, Carries, Resumed
<1>c. ASSUME ~done, before, timeRange' = Append(timeRange, ThisRange), inputData' = inputData
      PROVE  \A k \in DOMAIN timeRange' :
                Carries(timeRange[k].collection, timeRange[k].start,
                        timeRange[k].start + timeRange[k].duration - 1)'
  <2>1. /\ DOMAIN timeRange' = DOMAIN timeRange \cup {Len(timeRange) + 1}
        /\ \A k \in DOMAIN timeRange : timeRange'[k] = timeRange[k]
        /\ timeRange'[Len(timeRange) + 1] = ThisRange
    BY <1>c, <1>i
  <2>2. \A c, first, last : Carries(c, first, last) => Carries(c, first, last)'
    BY <1>c DEF Carries, Resumed
  <2>3. start + duration - 1 = i - 1
    BY <1>c, <1>i DEF IInv, TypeOK, OpenRange, NoStart
  <2>4. Carries(temp, start, start + duration - 1)
    BY <1>c, <2>3 DEF CarriedSoFar
  <2>5. Carries(ThisRange.collection, ThisRange.start, ThisRange.start + ThisRange.duration - 1)
    BY <2>4 DEF ThisRange
  <2>6. ASSUME NEW k \in DOMAIN timeRange'
        PROVE  Carries(timeRange'[k].collection, timeRange'[k].start,
                       timeRange'[k].start + timeRange'[k].duration - 1)
    BY <2>1, <2>5 DEF CarriedSoFar
  <2> QED
    BY <2>6, <1>c DEF Carries, Resumed
<1>4. CASE Close
  BY <1>4, <1>c DEF Close, More, CarriedSoFar
<1>5. CASE Pass
  BY <1>5 DEF Pass, CarriedSoFar, Carries, Resumed
<1>6. CASE Finish
  <2>1. CASE before
    BY <1>6, <1>c, <2>1 DEF Finish, CarriedSoFar, IInv, TypeOK, NoStart
  <2>2. CASE ~before
    BY <1>6, <2>2 DEF Finish, CarriedSoFar, IInv, TypeOK, NoStart, Carries, Resumed
  <2> QED
    BY <2>1, <2>2 DEF IInv, TypeOK
<1>7. CASE UNCHANGED vars
  BY <1>7 DEF vars, CarriedSoFar, Carries, Resumed
<1> QED
  BY <1>1, <1>2, <1>3, <1>4, <1>5, <1>6, <1>7 DEF Next

\* A range carries, in order, the detected data of its own frames, all of it but that
\* of the frames that end a bridged gap, and never data of another range.
THEOREM CollectionsAreOwnHolds == Spec => []CollectionsAreOwn
<1>1. Init => CarryInv
  BY InitIInv DEF Init, CarryInv, CarriedSoFar
<1>2. CarryInv => CollectionsAreOwn
  <2> SUFFICES ASSUME CarryInv, NEW k \in DOMAIN timeRange
               PROVE  LET r == timeRange[k]
                          resumed == {f \in Range(r) : f > r.start /\ ~inputData[f - 1].include}
                          c == r.collection
                      IN /\ {c[m] : m \in DOMAIN c} =
                               {f \in Range(r) \ resumed :
                                    inputData[f].include /\ inputData[f].effects}
                         /\ \A m, n \in DOMAIN c : m < n => c[m] < c[n]
    BY DEF CollectionsAreOwn
  <2> DEFINE r == timeRange[k]
             c == r.collection
  <2>1. r \in TimeRanges
    BY DEF CarryInv, IInv, TypeOK
  <2>2. c \in Seq(Nat) /\ r.start \in Nat /\ r.duration \in Nat \ {0}
    BY <2>1 DEF TimeRanges
  <2>3. Carries(c, r.start, r.start + r.duration - 1)
    BY DEF CarryInv, CarriedSoFar
  <2> HIDE DEF r, c
  <2>4. \A m \in DOMAIN c : c[m] \in Nat
    BY <2>2
  <2>5. \A f \in Range(r) : f \in Nat
    BY <2>2 DEF Range
  <2>6. ASSUME NEW f \in Nat
        PROVE  f \in {c[m] : m \in DOMAIN c} <=>
                 /\ f \in Range(r)
                 /\ inputData[f].include /\ inputData[f].effects
                 /\ ~(f > r.start /\ ~inputData[f - 1].include)
    BY <2>3 DEF Carries, Resumed, Range
  <2>7. \A m, n \in DOMAIN c : m < n => c[m] < c[n]
    BY <2>3 DEF Carries
  <2> QED
    BY <2>4, <2>5, <2>6, <2>7 DEF r, c
<1> QED
  BY <1>1, CarryInvKept, <1>2, PTL DEF Spec
====
