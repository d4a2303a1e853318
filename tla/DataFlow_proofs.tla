---- MODULE DataFlow_proofs ----
(***************************************************************************)
(* Proofs about DataFlow, for every media, number of skipped frames and    *)
(* fault, and for a stop() at any time.                                    *)
(***************************************************************************)
EXTENDS DataFlow, SequenceTheorems, WellFoundedInduction, TLAPS

\* A set of numbers that is not empty has a least element.
LEMMA LeastNumber ==
    ASSUME NEW S \in SUBSET Nat, S # {}
    PROVE  \E m \in S : \A n \in S : m <= n
<1> DEFINE Less == OpToRel(<, Nat)
<1>1. IsWellFoundedOn(Less, Nat)
  BY NatLessThanWellFounded
<1>2. \A m, n \in Nat : <<m, n>> \in Less <=> m < n
  BY DEF OpToRel
<1> HIDE DEF Less
<1>3. \E m \in S : \A n \in S : ~(<<n, m>> \in Less)
  BY <1>1, WFMin
<1>4. \A m, n \in S : ~(<<n, m>> \in Less) => m <= n
  BY <1>2
<1> QED
  BY <1>3, <1>4

AudioInFile == aRead \in 0 .. Len(media.audio)

\* Audio is read up to one of the frames that are left, or to the end.
LEMMA AudioStopBound ==
    ASSUME media.audio \in Seq(Nat), AudioInFile, NEW p
    PROVE  /\ AudioStop(p) \in aRead .. Len(media.audio)
           /\ AudioStop(p) = aRead => aRead = Len(media.audio)
<1> DEFINE late == {k \in aRead + 1 .. Len(media.audio) : p = NoPts \/ media.audio[k] > p}
<1> USE DEF AudioInFile
<1>1. CASE late = {}
  BY <1>1 DEF AudioStop
<1>2. CASE late # {}
  <2>1. late \in SUBSET Nat /\ late \subseteq aRead + 1 .. Len(media.audio)
    OBVIOUS
  <2>2. AudioStop(p) = CHOOSE k \in late : \A l \in late : k <= l
    BY <1>2 DEF AudioStop
  <2> HIDE DEF late
  <2>3. \E k \in late : \A l \in late : k <= l
    BY <1>2, <2>1, LeastNumber
  <2>4. AudioStop(p) \in late
    BY <2>2, <2>3
  <2>5. AudioStop(p) \in aRead + 1 .. Len(media.audio)
    BY <2>1, <2>4
  <2>6. Len(media.audio) \in Nat
    OBVIOUS
  <2> QED
    BY <2>5, <2>6
<1> QED
  BY <1>1, <1>2

LEMMA Differences ==
    ASSUME NEW a \in Nat, NEW b \in Nat, b - a \in Nat
    PROVE  b >= a /\ b - a \in 0 .. b
  OBVIOUS

LEMMA Undo == ASSUME NEW a \in Nat, NEW b \in Nat PROVE b - (b - a) = a - 0
  OBVIOUS

LEMMA Between ==
    ASSUME NEW a \in Nat, NEW n \in Nat, NEW b \in a .. n
    PROVE  b \in Nat /\ b - a \in Nat /\ b <= n /\ b - (b - a) = a
  OBVIOUS

\* The frames after the a-th, up to the b-th, of n.
LEMMA RunOfFrames ==
    ASSUME NEW a \in Nat, NEW n \in Nat, NEW b \in a .. n, NEW f,
           f = [k \in 1 .. b - a |-> a + k]
    PROVE  \A k \in DOMAIN f : f[k] \in 1 .. n
  OBVIOUS

LEMMA MediaTypes ==
    ASSUME media \in Media
    PROVE  /\ media.hasVideo \in BOOLEAN /\ media.hasAudio \in BOOLEAN
           /\ media.video \in Seq(Nat) /\ media.audio \in Seq(Nat)
           /\ Len(media.video) \in Nat /\ Len(media.audio) \in Nat
           /\ ~media.hasVideo => Len(media.video) = 0
           /\ ~media.hasAudio => Len(media.audio) = 0
  BY MediaAssumption

\* What one round of the fetch loop does to the frames at hand.
LEMMA FetchPairFacts ==
    ASSUME TypeOK, FetchPair
    PROVE  /\ aRead' \in aRead .. Len(media.audio)
           /\ aFrames' = [k \in 1 .. aRead' - aRead |-> aRead + k]
           /\ vFrame' = IF videoEOF \/ vRead >= Len(media.video) THEN NoFrame ELSE vRead + 1
           /\ vRead' = IF vFrame' = NoFrame THEN vRead ELSE vFrame'
           /\ videoEOF' = (vFrame' = NoFrame)
           /\ pts' \in Nat \cup {NoPts}
           /\ audioEOF' \in BOOLEAN
           /\ vFrame' = NoFrame /\ media.hasVideo => aRead' = aRead
           /\ ~audioEOF /\ aRead' = aRead /\ (vFrame' = NoFrame => ~media.hasVideo)
                => aRead = Len(media.audio)
           /\ audioEOF' => audioEOF \/ aRead' = Len(media.audio)
<1> DEFINE v == IF videoEOF \/ ~VideoLeft THEN NoFrame ELSE vRead + 1
           vEnd == videoEOF \/ ~VideoLeft
           p == IF v = NoFrame THEN pts ELSE media.video[v]
           blocked == audioEOF \/ (vEnd /\ media.hasVideo)
           last == IF blocked THEN aRead ELSE AudioStop(p)
<1> USE MediaTypes DEF TypeOK
<1>1. /\ AudioStop(p) \in aRead .. Len(media.audio)
      /\ AudioStop(p) = aRead => aRead = Len(media.audio)
  BY AudioStopBound DEF AudioInFile
<1>2. last \in aRead .. Len(media.audio)
  BY <1>1
<1>3. /\ v \in Nat /\ vEnd \in BOOLEAN /\ vEnd = (v = NoFrame)
      /\ ~vEnd => v \in 1 .. Len(media.video)
  BY DEF NoFrame, VideoLeft
<1>4. p \in Nat \cup {NoPts}
  BY <1>3
<1>5. /\ vFrame' = v
      /\ vRead' = (IF v = NoFrame THEN vRead ELSE v)
      /\ videoEOF' = vEnd
      /\ pts' = p
      /\ aFrames' = [k \in 1 .. last - aRead |-> aRead + k]
      /\ aRead' = last
  BY DEF FetchPair
<1>6. audioEOF' = (audioEOF \/ (/\ ~blocked /\ last = Len(media.audio)
                                /\ ~(last > aRead /\ (p = NoPts \/ media.audio[last] > p))))
  BY DEF FetchPair
<1> HIDE DEF last, p
<1>7. audioEOF' \in BOOLEAN /\ (audioEOF' => audioEOF \/ last = Len(media.audio))
  BY <1>6
<1>8. /\ vFrame' = NoFrame /\ media.hasVideo => last = aRead
      /\ ~audioEOF /\ last = aRead /\ (vFrame' = NoFrame => ~media.hasVideo)
            => aRead = Len(media.audio)
  BY <1>1, <1>3, <1>5 DEF last
<1> QED
  BY <1>2, <1>3, <1>4, <1>5, <1>7, <1>8 DEF VideoLeft

\* Types, with the frames at hand as the fetch left them.
LEMMA TypesKept == TypeOK /\ [Next]_vars => TypeOK'
<1> SUFFICES ASSUME TypeOK, [Next]_vars
             PROVE  TypeOK'
  OBVIOUS
<1> USE DEF TypeOK
<1>1. CASE Fetch
  <2>1. UNCHANGED <<media, skip, run, ret, rawdata, lost>> /\ FetchPair
    BY <1>1 DEF Fetch
  <2>2. /\ phase' \in {"fetch", "analyse", "finish", "finished"}
        /\ i' \in 0 .. skip
    BY <1>1 DEF Fetch
  <2>3. vFrame' \in 0 .. Len(media.video) /\ vRead' \in 0 .. Len(media.video)
    <3>1. /\ vFrame' = IF videoEOF \/ vRead >= Len(media.video) THEN NoFrame ELSE vRead + 1
          /\ vRead' = IF vFrame' = NoFrame THEN vRead ELSE vFrame'
      BY <2>1, FetchPairFacts
    <3>2. Len(media.video) \in Nat /\ vRead \in 0 .. Len(media.video)
      BY MediaTypes
    <3> QED
      BY <3>1, <3>2 DEF NoFrame
  <2>4. aRead' \in 0 .. Len(media.audio)
    BY <2>1, FetchPairFacts, MediaTypes
  <2>5. \A k \in DOMAIN aFrames' : aFrames'[k] \in 1 .. Len(media.audio)
    <3>1. aRead' \in aRead .. Len(media.audio)
          /\ aFrames' = [k \in 1 .. aRead' - aRead |-> aRead + k]
      BY <2>1, FetchPairFacts
    <3>2. Len(media.audio) \in Nat /\ aRead \in Nat
      BY MediaTypes
    <3> QED
      BY <3>1, <3>2, RunOfFrames
  <2>6. videoEOF' \in BOOLEAN /\ audioEOF' \in BOOLEAN /\ pts' \in Nat \cup {NoPts}
    BY <2>1, FetchPairFacts
  <2> QED
    BY <2>1, <2>2, <2>3, <2>4, <2>5, <2>6
<1>2. CASE FetchThrows \/ LeaveLoop
  BY <1>2 DEF FetchThrows, LeaveLoop, sync
<1>3. CASE AppendResult \/ UpdateAllResult \/ PluginThrows \/ LeaveFrame
  BY <1>3, MediaTypes DEF AppendResult, UpdateAllResult, PluginThrows, LeaveFrame, NextGroup,
                          sync, NoFrame
<1>4. CASE Finish \/ Stop
  BY <1>4 DEF Finish, Stop, sync
<1>5. CASE UNCHANGED vars
  BY <1>5 DEF vars
<1> QED
  BY <1>1, <1>2, <1>3, <1>4, <1>5 DEF Next, Worker, Progress

LEMMA InitTypes == Init => TypeOK
  BY MediaTypes, SkipsAssumption DEF Init, TypeOK, NoFrame

\* The loop, the synchronizer and the frames at hand stay within the media.
THEOREM TypeCorrect == Spec => []TypeOK
  BY InitTypes, TypesKept, PTL DEF Spec

----
(* Errors. *)

ErrorInv == (ret = "error" <=> "throw" \in lost) /\ ret \in {"none", "error"}

\* An error that was thrown anywhere is what completeCb gets.
THEOREM ErrorKeptHolds == Spec => []ErrorKept
<1>1. Init => ErrorInv
  BY DEF Init, ErrorInv
<1>2. ErrorInv /\ [Next]_vars => ErrorInv'
  BY DEF ErrorInv, Next, Worker, Progress, vars, Fetch, FetchThrows, LeaveLoop, AppendResult,
         UpdateAllResult, PluginThrows, LeaveFrame, Finish, Stop
<1>3. ErrorInv => ErrorKept
  BY DEF ErrorInv, ErrorKept
<1> QED
  BY <1>1, <1>2, <1>3, PTL DEF Spec

----
(* Results. *)

Results == [frame : Nat, include : BOOLEAN]
Below(s, n) == \A k \in DOMAIN s : s[k].frame \in 1 .. n
InOrder(s) == \A k, l \in DOMAIN s : k < l => s[k].frame < s[l].frame

\* Frames fetched so far of the stream that gets results, and of them those in the
\* group at hand.
Taken == IF media.hasVideo THEN vRead ELSE aRead
Group == Len(GroupFrames)

\* The results are in order and end where the group at hand begins.  A media without
\* video has no frames to skip; one with video is not fetched from after its end.
GroupInv ==
    /\ rawdata \in Seq(Results)
    /\ InOrder(rawdata)
    /\ Below(rawdata, Frames)
    /\ ~media.hasVideo => skip = 0 /\ vFrame = NoFrame /\ videoEOF
    /\ media.hasVideo /\ phase \in {"fetch", "analyse"} => ~videoEOF
    /\ phase = "fetch" => i <= Taken /\ Below(rawdata, Taken - i)
    /\ phase = "analyse" =>
        /\ i = 0
        /\ Group \in 0 .. Taken
        /\ media.hasVideo => Group = skip + 1
        /\ GroupFrames = [k \in 1 .. Group |-> Taken - Group + k]
        /\ Below(rawdata, Taken - Group)

\* A group that is appended continues the results.
LEMMA AppendGroup ==
    ASSUME NEW s \in Seq(Results), NEW t \in Nat, NEW g \in 0 .. t, NEW include \in BOOLEAN,
           InOrder(s), Below(s, t - g), NEW new,
           new = [k \in 1 .. g |-> [frame |-> t - g + k, include |-> include]]
    PROVE  /\ s \o new \in Seq(Results)
           /\ InOrder(s \o new)
           /\ Below(s \o new, t)
           /\ Len(s \o new) = Len(s) + g
<1>1. /\ new \in Seq(Results) /\ Len(new) = g
      /\ \A k \in 1 .. g : new[k].frame = t - g + k
  BY DEF Results
<1>2. /\ s \o new \in Seq(Results)
      /\ Len(s \o new) = Len(s) + g
      /\ DOMAIN (s \o new) = 1 .. Len(s) + g
      /\ \A k \in 1 .. Len(s) : (s \o new)[k] = s[k]
      /\ \A k \in Len(s) + 1 .. Len(s) + g : (s \o new)[k] = new[k - Len(s)]
  BY <1>1
<1>3. \A k \in 1 .. Len(s) : (s \o new)[k].frame \in 1 .. t - g
  BY <1>2 DEF Below
<1>4. \A k \in Len(s) + 1 .. Len(s) + g : (s \o new)[k].frame = t - g + (k - Len(s))
  BY <1>1, <1>2
<1>5. Below(s \o new, t)
  BY <1>2, <1>3, <1>4 DEF Below
<1>6. ASSUME NEW k \in DOMAIN (s \o new), NEW l \in DOMAIN (s \o new), k < l
      PROVE  (s \o new)[k].frame < (s \o new)[l].frame
  <2>1. CASE l <= Len(s)
    BY <1>2, <1>6, <2>1 DEF InOrder
  <2>2. CASE k <= Len(s) /\ l > Len(s)
    BY <1>2, <1>3, <1>4, <1>6, <2>2
  <2>3. CASE k > Len(s)
    BY <1>2, <1>4, <1>6, <2>3
  <2> QED
    BY <1>2, <1>6, <2>1, <2>2, <2>3
<1> QED
  BY <1>2, <1>5, <1>6 DEF InOrder

\* A revision changes verdicts, not frames.
Revised(s, detected) == [k \in DOMAIN s |-> [s[k] EXCEPT !.include = detected[k]]]

LEMMA ReviseAll ==
    ASSUME NEW s \in Seq(Results), NEW detected \in [DOMAIN s -> BOOLEAN]
    PROVE  /\ Revised(s, detected) \in Seq(Results) /\ DOMAIN Revised(s, detected) = DOMAIN s
           /\ \A k \in DOMAIN s : Revised(s, detected)[k].frame = s[k].frame
<1>1. \A k \in DOMAIN s : s[k] \in Results
  OBVIOUS
<1>2. \A k \in DOMAIN s : /\ Revised(s, detected)[k] \in Results
                          /\ Revised(s, detected)[k].frame = s[k].frame
  BY <1>1 DEF Results, Revised
<1>3. DOMAIN s = 1 .. Len(s) /\ Len(s) \in Nat /\ DOMAIN Revised(s, detected) = DOMAIN s
  BY DEF Revised
<1> QED
  BY <1>2, <1>3 DEF Revised

\* The numbers in play, without the media they come from.
LEMMA Numbers ==
    ASSUME TypeOK
    PROVE  /\ skip \in Nat /\ i \in 0 .. skip
           /\ Taken \in Nat /\ Frames \in Nat /\ Taken <= Frames
           /\ media.hasVideo => Taken = vRead /\ Frames = Len(media.video)
           /\ ~media.hasVideo => Taken = aRead /\ Frames = Len(media.audio)
  BY MediaTypes DEF TypeOK, Taken, Frames

\* The end of the group is the last frame fetched.
LEMMA FetchedGroup ==
    ASSUME TypeOK, GroupInv, Fetch, phase' # "finish"
    PROVE  /\ Taken' >= Taken
           /\ media.hasVideo => Taken' = Taken + 1 /\ ~videoEOF'
           /\ ~media.hasVideo => vFrame' = NoFrame /\ videoEOF'
           /\ phase' = "analyse" =>
                /\ Group' \in 0 .. Taken'
                /\ media.hasVideo => Group' = skip + 1
                /\ ~media.hasVideo => Group' = Taken' - Taken
                /\ GroupFrames' = [k \in 1 .. Group' |-> Taken' - Group' + k]
<1>1. /\ phase = "fetch" /\ FetchPair /\ UNCHANGED <<media, skip>>
      /\ ~(vFrame' = NoFrame /\ aFrames' = <<>>)
      /\ phase' = IF i = skip THEN "analyse" ELSE "fetch"
  BY DEF Fetch
<1>2. /\ vFrame' = (IF videoEOF \/ vRead >= Len(media.video) THEN NoFrame ELSE vRead + 1)
      /\ vRead' = (IF vFrame' = NoFrame THEN vRead ELSE vFrame')
      /\ videoEOF' = (vFrame' = NoFrame)
      /\ vFrame' = NoFrame /\ media.hasVideo => aRead' = aRead
  BY <1>1, FetchPairFacts
<1>3. skip \in Nat /\ i \in 0 .. skip /\ vRead \in Nat /\ aRead \in Nat
  BY MediaTypes DEF TypeOK
<1>7. aFrames' = [k \in 1 .. aRead' - aRead |-> aRead + k]
  BY <1>1, FetchPairFacts
<1>8. aRead' \in Nat /\ aRead' - aRead \in Nat /\ aRead' - (aRead' - aRead) = aRead
  <2>1. aRead' \in aRead .. Len(media.audio)
    BY <1>1, FetchPairFacts
  <2>2. Len(media.audio) \in Nat
    BY MediaTypes DEF TypeOK
  <2> QED
    BY <1>3, <2>1, <2>2, Between
<1>4. i <= Taken
  BY <1>1 DEF GroupInv
<1>5. CASE media.hasVideo
  <2>1. vFrame' # NoFrame
    <3>1. SUFFICES ASSUME vFrame' = NoFrame
                   PROVE  aFrames' = <<>>
      BY <1>1
    <3>2. aRead' - aRead = 0
      BY <1>2, <1>3, <1>5, <3>1
    <3> QED
      BY <1>7, <3>2
  <2>2. vFrame' = vRead + 1 /\ vRead' = vRead + 1 /\ ~videoEOF'
    BY <1>2, <2>1
  <2>3. Taken = vRead /\ Taken' = vRead + 1
    BY <1>1, <1>5, <2>2 DEF Taken
  <2>4. GroupFrames' = [k \in 1 .. skip + 1 |-> vRead + 1 - skip + k - 1]
    <3>1. skip' = skip
      BY <1>1
    <3>2. GroupFrames' = [k \in 1 .. skip' + 1 |-> vFrame' - skip' + k - 1]
      BY <2>1 DEF GroupFrames
    <3> QED
      BY <1>3, <2>2, <3>1, <3>2
  <2>5. Group' = skip + 1
    <3>1. skip + 1 \in Nat
      BY <1>3
    <3> QED
      BY <2>4, <3>1 DEF Group
  <2>6. phase' = "analyse" => Group' \in 0 .. Taken'
    <3>1. phase' = "analyse" => skip <= vRead
      <4>1. phase' = "analyse" => i = skip
        BY <1>1
      <4> QED
        BY <1>4, <2>3, <4>1
    <3>2. skip <= vRead => skip + 1 \in 0 .. vRead + 1
      BY <1>3
    <3> QED
      BY <2>3, <2>5, <3>1, <3>2
  <2>7. GroupFrames' = [k \in 1 .. Group' |-> Taken' - Group' + k]
    <3>1. \A k \in 1 .. skip + 1 :
                vRead + 1 - skip + k - 1 = (vRead + 1) - (skip + 1) + k
      BY <1>3
    <3> QED
      BY <2>3, <2>4, <2>5, <3>1
  <2> QED
    BY <1>3, <1>5, <2>2, <2>3, <2>5, <2>6, <2>7
<1>6. CASE ~media.hasVideo
  <2>1. vFrame' = NoFrame /\ videoEOF'
    BY <1>2, <1>6 DEF GroupInv
  <2>2. Taken = aRead /\ Taken' = aRead'
    BY <1>1, <1>6 DEF Taken
  <2>4. GroupFrames' = [k \in 1 .. aRead' - aRead |-> aRead + k]
    BY <1>7, <2>1 DEF GroupFrames
  <2>5. Group' = aRead' - aRead
    BY <1>8, <2>4 DEF Group
  <2>6. GroupFrames' = [k \in 1 .. Group' |-> Taken' - Group' + k]
    BY <1>8, <2>2, <2>4, <2>5
  <2>7. Taken' >= Taken /\ Group' \in 0 .. Taken'
    BY <1>3, <1>8, <2>2, <2>5, Differences
  <2> QED
    BY <1>6, <2>1, <2>2, <2>5, <2>6, <2>7
<1> QED
  BY <1>3, <1>5, <1>6

LEMMA BelowMore ==
    ASSUME NEW s, NEW m \in Int, NEW n \in Int, m <= n, Below(s, m)
    PROVE  Below(s, n)
  BY DEF Below

\* A fetch moves the end of the frames taken and of the group at hand alike.
LEMMA FetchedBase ==
    ASSUME TypeOK, TypeOK', GroupInv, Fetch, phase' # "finish"
    PROVE  /\ phase' = "analyse" => Taken' - Group' = Taken - i
           /\ phase' = "fetch" => Taken' - i' = Taken - i /\ i' <= Taken'
<1>1. /\ phase = "fetch" /\ UNCHANGED <<media, skip>>
      /\ phase' = IF i = skip THEN "analyse" ELSE "fetch"
      /\ i' = IF i = skip THEN 0 ELSE i + 1
  BY DEF Fetch
<1>2. i <= Taken /\ i \in 0 .. skip /\ i \in Nat /\ skip \in Nat /\ Taken \in Nat
  BY <1>1, Numbers DEF GroupInv
<1>3. /\ media.hasVideo => Taken' = Taken + 1
      /\ phase' = "analyse" =>
          /\ media.hasVideo => Group' = skip + 1
          /\ ~media.hasVideo => Group' = Taken' - Taken
  BY FetchedGroup
<1>4. Taken' \in Nat
  <2>1. vRead' \in 0 .. Len(media.video) /\ aRead' \in 0 .. Len(media.audio)
    BY <1>1 DEF TypeOK
  <2>2. Len(media.video) \in Nat /\ Len(media.audio) \in Nat
    BY MediaTypes DEF TypeOK
  <2> QED
    BY <1>1, <2>1, <2>2 DEF Taken
<1>5. ~media.hasVideo => skip = 0
  BY DEF GroupInv
<1>6. CASE i = skip
  <2>1. phase' = "analyse"
    BY <1>1, <1>6
  <2>2. CASE media.hasVideo
    BY <1>2, <1>3, <1>6, <2>1, <2>2
  <2>3. CASE ~media.hasVideo
    <3>1. i = 0
      BY <1>5, <1>6, <2>3
    <3>2. Group' = Taken' - Taken
      BY <1>3, <2>1, <2>3
    <3> QED
      BY <1>2, <1>4, <2>1, <3>1, <3>2, Undo
  <2> QED
    BY <2>2, <2>3
<1>7. CASE i # skip
  <2>1. phase' = "fetch" /\ i' = i + 1
    BY <1>1, <1>7
  <2>2. media.hasVideo
    BY <1>2, <1>5, <1>7
  <2> QED
    BY <1>2, <1>3, <2>1, <2>2
<1> QED
  BY <1>6, <1>7

\* A fetched group begins where the results end.
LEMMA FetchKeepsGroups ==
    ASSUME TypeOK, TypeOK', GroupInv, Fetch
    PROVE  GroupInv'
<1>1. /\ phase = "fetch" /\ UNCHANGED <<media, skip, rawdata>>
      /\ phase' = "finish" \/ phase' = IF i = skip THEN "analyse" ELSE "fetch"
      /\ i' = IF i = skip THEN 0 ELSE i + 1
  BY DEF Fetch
<1>2. i <= Taken /\ Below(rawdata, Taken - i) /\ i \in Nat /\ skip \in Nat /\ Taken \in Nat
  BY <1>1, Numbers DEF GroupInv
<1>3. rawdata' \in Seq(Results) /\ InOrder(rawdata') /\ Below(rawdata', Frames')
  BY <1>1 DEF GroupInv, Frames, InOrder, Below
<1>4. ~media'.hasVideo => skip' = 0 /\ vFrame' = NoFrame /\ videoEOF'
  <2>1. SUFFICES ASSUME ~media.hasVideo
                 PROVE  skip = 0 /\ vFrame' = NoFrame /\ videoEOF'
    BY <1>1
  <2>2. FetchPair /\ videoEOF
    BY <2>1 DEF Fetch, GroupInv
  <2>3. vFrame' = NoFrame /\ videoEOF' = (vFrame' = NoFrame)
    BY <2>2, FetchPairFacts
  <2> QED
    BY <2>1, <2>3 DEF GroupInv
<1>5. CASE phase' = "finish"
  BY <1>1, <1>3, <1>4, <1>5 DEF GroupInv
<1>6. CASE phase' # "finish"
  <2>1. /\ Taken' >= Taken
        /\ media.hasVideo => Taken' = Taken + 1 /\ ~videoEOF'
        /\ phase' = "analyse" =>
            /\ Group' \in 0 .. Taken'
            /\ media.hasVideo => Group' = skip + 1
            /\ GroupFrames' = [k \in 1 .. Group' |-> Taken' - Group' + k]
    BY <1>6, FetchedGroup
  <2>2. CASE i = skip
    <3>1. phase' = "analyse" /\ i' = 0
      BY <1>1, <1>6, <2>2
    <3>2. Below(rawdata', Taken' - Group')
      BY <1>1, <1>2, <1>6, <3>1, FetchedBase
    <3> QED
      BY <1>1, <1>3, <1>4, <2>1, <3>1, <3>2 DEF GroupInv
  <2>3. CASE i # skip
    <3>1. phase' = "fetch" /\ i' = i + 1
      BY <1>1, <1>6, <2>3
    <3>2. Taken' - i' = Taken - i /\ i' <= Taken'
      BY <1>6, <3>1, FetchedBase
    <3>3. Below(rawdata', Taken' - i')
      BY <1>1, <1>2, <3>2
    <3> QED
      BY <1>1, <1>3, <1>4, <2>1, <3>1, <3>2, <3>3 DEF GroupInv
  <2> QED
    BY <2>2, <2>3
<1> QED
  BY <1>5, <1>6

\* The results of a group end where it ends.
LEMMA AppendKeepsGroups ==
    ASSUME TypeOK, TypeOK', GroupInv, AppendResult
    PROVE  GroupInv' /\ Len(rawdata') = Len(rawdata) + Group
<1>1. /\ phase = "analyse" /\ phase' = "fetch" /\ vFrame' = NoFrame
      /\ UNCHANGED <<media, skip, i, vRead, aRead, videoEOF>>
  BY DEF AppendResult, NextGroup, sync
<1>2. PICK include \in BOOLEAN :
        rawdata' = rawdata \o
            [k \in DOMAIN GroupFrames |-> [frame |-> GroupFrames[k], include |-> include]]
  BY DEF AppendResult
<1>3. /\ i = 0 /\ Group \in 0 .. Taken /\ Taken \in Nat
      /\ GroupFrames = [k \in 1 .. Group |-> Taken - Group + k]
      /\ Below(rawdata, Taken - Group)
      /\ rawdata \in Seq(Results) /\ InOrder(rawdata)
  BY <1>1, Numbers DEF GroupInv
<1> DEFINE new == [k \in 1 .. Group |-> [frame |-> Taken - Group + k, include |-> include]]
<1>4. rawdata' = rawdata \o new
  <2>1. DOMAIN GroupFrames = 1 .. Group
        /\ \A k \in 1 .. Group : GroupFrames[k] = Taken - Group + k
    BY <1>3
  <2> QED
    BY <1>2, <2>1
<1> HIDE DEF new
<1>5. /\ rawdata \o new \in Seq(Results)
      /\ InOrder(rawdata \o new)
      /\ Below(rawdata \o new, Taken)
      /\ Len(rawdata \o new) = Len(rawdata) + Group
  BY <1>3, AppendGroup DEF new
<1>6. Taken' = Taken /\ Frames' = Frames /\ Taken <= Frames /\ Frames \in Nat
  BY <1>1, Numbers DEF Taken, Frames
<1>7. Below(rawdata', Frames')
  BY <1>3, <1>4, <1>5, <1>6, BelowMore
<1>8. i' <= Taken' /\ Below(rawdata', Taken' - i')
  <2>1. Taken' - i' = Taken /\ i' <= Taken'
    BY <1>1, <1>3, <1>6
  <2> QED
    BY <1>4, <1>5, <2>1
<1> QED
  BY <1>1, <1>4, <1>5, <1>7, <1>8 DEF GroupInv

LEMMA GroupsKept == TypeOK /\ TypeOK' /\ GroupInv /\ [Next]_vars => GroupInv'
<1> SUFFICES ASSUME TypeOK, TypeOK', GroupInv, [Next]_vars
             PROVE  GroupInv'
  OBVIOUS
<1>1. CASE Fetch
  BY <1>1, FetchKeepsGroups
<1>2. CASE AppendResult
  BY <1>2, AppendKeepsGroups
<1>3. CASE FetchThrows \/ LeaveLoop \/ Finish
  BY <1>3 DEF FetchThrows, LeaveLoop, Finish, sync, GroupInv, InOrder, Below, Frames
<1>4. CASE PluginThrows \/ LeaveFrame
  <2>1. /\ phase = "analyse" /\ phase' = "fetch" /\ vFrame' = NoFrame
        /\ UNCHANGED <<media, skip, i, vRead, aRead, videoEOF, rawdata>>
    BY <1>4 DEF PluginThrows, LeaveFrame, NextGroup, sync
  <2>2. /\ i = 0 /\ Group \in 0 .. Taken /\ Taken \in Nat /\ Below(rawdata, Taken - Group)
    BY <2>1, Numbers DEF GroupInv
  <2>3. Taken' = Taken /\ Taken - 0 = Taken
    BY <2>1, <2>2 DEF Taken
  <2>4. Below(rawdata, Taken) /\ i' <= Taken'
    BY <2>1, <2>2, <2>3, BelowMore
  <2> QED
    BY <2>1, <2>2, <2>3, <2>4 DEF GroupInv, InOrder, Below, Frames
<1>5. CASE UpdateAllResult
  <2>1. /\ phase = "analyse" /\ phase' = "fetch" /\ vFrame' = NoFrame
        /\ UNCHANGED <<media, skip, i, vRead, aRead, videoEOF>>
    BY <1>5 DEF UpdateAllResult, NextGroup, sync
  <2>2. rawdata \in Seq(Results)
    BY DEF GroupInv
  <2>3. /\ rawdata' \in Seq(Results) /\ DOMAIN rawdata' = DOMAIN rawdata
        /\ \A k \in DOMAIN rawdata : rawdata'[k].frame = rawdata[k].frame
    <3>1. PICK detected \in [DOMAIN rawdata -> BOOLEAN] :
            rawdata' = Revised(rawdata, detected)
      BY <1>5 DEF UpdateAllResult, Revised
    <3> QED
      BY <2>2, <3>1, ReviseAll
  <2>4. /\ i = 0 /\ Group \in 0 .. Taken /\ Taken \in Nat /\ Below(rawdata, Taken - Group)
    BY <2>1, Numbers DEF GroupInv
  <2>5. Taken' = Taken /\ Taken - 0 = Taken
    BY <2>1, <2>4 DEF Taken
  <2>6. Below(rawdata, Taken) /\ i' <= Taken'
    BY <2>1, <2>4, <2>5, BelowMore
  <2> QED
    BY <2>1, <2>3, <2>4, <2>5, <2>6 DEF GroupInv, InOrder, Below, Frames
<1>6. CASE Stop \/ UNCHANGED vars
  <2>1. UNCHANGED <<media, skip, phase, i, vFrame, aFrames, vRead, aRead, videoEOF, rawdata>>
    BY <1>6 DEF Stop, vars, sync
  <2> QED
    BY <2>1 DEF GroupInv, InOrder, Below, Frames, Taken, Group, GroupFrames
<1> QED
  BY <1>1, <1>2, <1>3, <1>4, <1>5, <1>6 DEF Next, Worker, Progress

LEMMA InitGroups == Init => GroupInv
<1> SUFFICES ASSUME Init
             PROVE  GroupInv
  OBVIOUS
<1>1. /\ media \in Media /\ rawdata = <<>> /\ i = 0 /\ vFrame = NoFrame
      /\ vRead = 0 /\ aRead = 0 /\ phase = "fetch" /\ videoEOF = ~media.hasVideo
      /\ ~media.hasVideo => skip = 0
  BY DEF Init
<1>2. media.hasVideo \in BOOLEAN
  BY <1>1, MediaTypes
<1>3. rawdata \in Seq(Results) /\ InOrder(rawdata) /\ \A n : Below(rawdata, n)
  BY <1>1 DEF InOrder, Below
<1>4. Taken = 0 /\ i <= Taken
  BY <1>1 DEF Taken
<1> QED
  BY <1>1, <1>2, <1>3, <1>4 DEF GroupInv

\* Results are in order, each of a frame of the media and none twice, whatever throws
\* and whenever the worker is stopped.
THEOREM RawdataOrderedHolds == Spec => []RawdataOrdered
<1>1. Init => TypeOK /\ GroupInv
  BY InitTypes, InitGroups
<1>2. TypeOK /\ GroupInv /\ [Next]_vars => (TypeOK /\ GroupInv)'
  BY TypesKept, GroupsKept
<1>3. GroupInv => RawdataOrdered
  BY DEF GroupInv, RawdataOrdered, InOrder, Below
<1> QED
  BY <1>1, <1>2, <1>3, PTL DEF Spec

\* While nothing was lost the results are whole groups, and end where the group at hand
\* begins.  Only stop() clears _run before the end, and audio at its end has been read.
Whole == \E q \in Nat : Len(rawdata) = q * (skip + 1)
CompleteInv ==
    /\ ~run /\ phase # "finished" => "stop" \in lost
    /\ audioEOF => aRead = Len(media.audio)
    /\ lost = {} =>
        /\ Whole
        /\ phase = "fetch" => Len(rawdata) = Taken - i
        /\ phase = "analyse" => Len(rawdata) = Taken - Group
        /\ phase \in {"finish", "finished"} => Frames - Len(rawdata) \in 0 .. skip

LEMMA EmptyRun ==
    ASSUME NEW a \in Nat, NEW n \in Nat, NEW b \in a .. n, 1 .. b - a = {}
    PROVE  b = a
<1>1. ~(1 <= b - a)
  <2> SUFFICES ASSUME 1 <= b - a
               PROVE  FALSE
    OBVIOUS
  <2>1. 1 \in 1 .. b - a
    OBVIOUS
  <2> QED
    BY <2>1
<1> QED
  BY <1>1

\* A fetch that finds the end of the file has taken all frames.
LEMMA EndIsEnd ==
    ASSUME TypeOK, GroupInv, CompleteInv, Fetch, phase' = "finish"
    PROVE  Taken = Frames
<1>1. phase = "fetch" /\ FetchPair
  BY DEF Fetch
<1>2. vFrame' = NoFrame /\ aFrames' = <<>>
  <2>1. phase' = IF vFrame' = NoFrame /\ aFrames' = <<>> THEN "finish"
                 ELSE IF i = skip THEN "analyse" ELSE "fetch"
    BY DEF Fetch
  <2> QED
    BY <2>1
<1>3. CASE media.hasVideo
  <2>1. vRead >= Len(media.video)
    <3>1. ~videoEOF
      BY <1>1, <1>3 DEF GroupInv
    <3>2. vFrame' = IF videoEOF \/ vRead >= Len(media.video) THEN NoFrame ELSE vRead + 1
      BY <1>1, FetchPairFacts
    <3>3. vRead + 1 # NoFrame
      BY DEF TypeOK, NoFrame
    <3> QED
      BY <1>2, <3>1, <3>2, <3>3
  <2>2. vRead \in 0 .. Len(media.video) /\ Len(media.video) \in Nat
    BY MediaTypes DEF TypeOK
  <2> QED
    BY <1>3, <2>1, <2>2 DEF Taken, Frames
<1>4. CASE ~media.hasVideo
  <2>1. /\ aRead' \in aRead .. Len(media.audio)
        /\ aFrames' = [k \in 1 .. aRead' - aRead |-> aRead + k]
        /\ ~audioEOF /\ aRead' = aRead => aRead = Len(media.audio)
    BY <1>1, <1>4, FetchPairFacts
  <2>2. aRead \in Nat /\ Len(media.audio) \in Nat
    BY MediaTypes DEF TypeOK
  <2>3. aRead' = aRead
    <3>1. 1 .. aRead' - aRead = {}
      BY <1>2, <2>1
    <3> QED
      BY <2>1, <2>2, <3>1, EmptyRun
  <2>4. aRead = Len(media.audio)
    BY <2>1, <2>3 DEF CompleteInv
  <2> QED
    BY <1>4, <2>4 DEF Taken, Frames
<1> QED
  BY <1>3, <1>4

LEMMA AudioEndKept == TypeOK /\ TypeOK' /\ CompleteInv /\ [Next]_vars
                        => (audioEOF' => aRead' = Len(media'.audio))
<1> SUFFICES ASSUME TypeOK, TypeOK', CompleteInv, [Next]_vars, audioEOF'
             PROVE  aRead' = Len(media'.audio)
  OBVIOUS
<1>1. CASE Fetch
  <2>1. FetchPair /\ media' = media
    BY <1>1 DEF Fetch
  <2>2. aRead' \in aRead .. Len(media.audio) /\ (audioEOF \/ aRead' = Len(media.audio))
    BY <2>1, FetchPairFacts
  <2>3. audioEOF => aRead = Len(media.audio)
    BY DEF CompleteInv
  <2>4. aRead \in Nat /\ Len(media.audio) \in Nat
    BY MediaTypes DEF TypeOK
  <2> QED
    BY <2>1, <2>2, <2>3, <2>4
<1>2. CASE UNCHANGED <<media, sync>>
  BY <1>2 DEF sync, CompleteInv
<1> QED
  BY <1>1, <1>2 DEF Next, Worker, Progress, FetchThrows, LeaveLoop, AppendResult, LeaveFrame,
     Finish, UpdateAllResult, PluginThrows, Stop, vars, sync

LEMMA StopIsKnown == TypeOK /\ CompleteInv /\ [Next]_vars
                        => (~run' /\ phase' # "finished" => "stop" \in lost')
  BY DEF Next, Worker, Progress, Fetch, FetchThrows, LeaveLoop, AppendResult, LeaveFrame, NextGroup,
     Finish, UpdateAllResult, PluginThrows, Stop, vars, CompleteInv, TypeOK

LEMMA OneGroupMore ==
    ASSUME NEW q \in Nat, NEW m \in Nat PROVE q * m + m = (q + 1) * m
  OBVIOUS

LEMMA WholeKept == TypeOK /\ TypeOK' /\ GroupInv /\ CompleteInv /\ [Next]_vars /\ lost' = {}
                    => /\ Whole'
                       /\ phase' = "fetch" => Len(rawdata') = Taken' - i'
                       /\ phase' = "analyse" => Len(rawdata') = Taken' - Group'
                       /\ phase' \in {"finish", "finished"} =>
                            Frames' - Len(rawdata') \in 0 .. skip'
<1> SUFFICES ASSUME TypeOK, TypeOK', GroupInv, CompleteInv, [Next]_vars, lost' = {}
             PROVE  /\ Whole'
                    /\ phase' = "fetch" => Len(rawdata') = Taken' - i'
                    /\ phase' = "analyse" => Len(rawdata') = Taken' - Group'
                    /\ phase' \in {"finish", "finished"} =>
                         Frames' - Len(rawdata') \in 0 .. skip'
  OBVIOUS
<1>1. lost = {} /\ ~(FetchThrows \/ UpdateAllResult \/ PluginThrows \/ Stop)
  BY DEF Next, Worker, Progress, Fetch, FetchThrows, LeaveLoop, AppendResult, LeaveFrame,
     Finish, UpdateAllResult, PluginThrows, Stop, vars
<1>2. Whole
  BY <1>1 DEF CompleteInv
<1>3. CASE Fetch
  <2>1. phase = "fetch" /\ UNCHANGED <<media, skip, rawdata>>
        /\ phase' \in {"fetch", "analyse", "finish"}
    BY <1>3 DEF Fetch
  <2>2. Len(rawdata) = Taken - i
    BY <1>1, <2>1 DEF CompleteInv
  <2>3. Whole' /\ Frames' = Frames
    BY <1>2, <2>1 DEF Whole, Frames
  <2>4. CASE phase' = "finish"
    <3>1. Taken = Frames
      BY <1>3, <2>4, EndIsEnd
    <3>2. i \in 0 .. skip /\ Taken \in Nat /\ skip \in Nat
      BY Numbers
    <3>3. Frames - Len(rawdata) \in 0 .. skip
      BY <2>2, <3>1, <3>2
    <3> QED
      BY <2>1, <2>3, <2>4, <3>3
  <2>5. CASE phase' # "finish"
    <3>1. /\ phase' = "analyse" => Taken' - Group' = Taken - i
          /\ phase' = "fetch" => Taken' - i' = Taken - i
      BY <1>3, <2>5, FetchedBase
    <3> QED
      BY <2>1, <2>2, <2>3, <2>5, <3>1
  <2> QED
    BY <2>4, <2>5
<1>4. CASE AppendResult
  <2>1. /\ phase = "analyse" /\ phase' = "fetch"
        /\ UNCHANGED <<media, skip, i, vRead, aRead>>
    BY <1>4 DEF AppendResult, NextGroup, sync
  <2>2. Len(rawdata') = Len(rawdata) + Group /\ Len(rawdata) = Taken - Group
    BY <1>1, <1>4, <2>1, AppendKeepsGroups DEF CompleteInv
  <2>3. /\ i = 0 /\ Group \in 0 .. Taken /\ Taken \in Nat
        /\ media.hasVideo => Group = skip + 1
        /\ ~media.hasVideo => skip = 0
    BY <2>1, Numbers DEF GroupInv
  <2>4. Taken' = Taken
    BY <2>1 DEF Taken
  <2>5. Len(rawdata') = Taken' - i'
    BY <2>1, <2>2, <2>3, <2>4
  <2>6. PICK q \in Nat : Len(rawdata) = q * (skip + 1)
    BY <1>2 DEF Whole
  <2>7. Whole'
    <3>1. skip + 1 \in Nat /\ skip' = skip
      BY <2>1, Numbers
    <3>2. CASE media.hasVideo
      <4>1. Len(rawdata') = (q + 1) * (skip + 1)
        BY <2>2, <2>3, <2>6, <3>1, <3>2, OneGroupMore
      <4>2. q + 1 \in Nat
        OBVIOUS
      <4> QED
        BY <3>1, <4>1, <4>2 DEF Whole
    <3>3. CASE ~media.hasVideo
      <4>1. Len(rawdata') \in Nat
        BY <2>2, <2>3
      <4>2. skip' + 1 = 1
        BY <2>3, <3>1, <3>3
      <4>3. Len(rawdata') = Len(rawdata') * (skip' + 1)
        BY <4>1, <4>2
      <4> QED
        BY <4>1, <4>3 DEF Whole
    <3> QED
      BY <3>2, <3>3
  <2> QED
    BY <2>1, <2>5, <2>7
<1>5. CASE LeaveLoop \/ LeaveFrame
  BY <1>1, <1>5 DEF LeaveLoop, LeaveFrame, CompleteInv
<1>6. CASE Finish
  <2>1. phase = "finish" /\ phase' = "finished" /\ UNCHANGED <<media, skip, rawdata>>
    BY <1>6 DEF Finish
  <2>2. Whole' /\ Frames' = Frames
    BY <1>2, <2>1 DEF Whole, Frames
  <2> QED
    BY <1>1, <2>1, <2>2 DEF CompleteInv
<1>7. CASE UNCHANGED vars
  BY <1>1, <1>7 DEF vars, CompleteInv, Whole, Taken, Group, GroupFrames, Frames
<1> QED
  BY <1>1, <1>3, <1>4, <1>5, <1>6, <1>7 DEF Next, Worker, Progress

LEMMA Remainder ==
    ASSUME NEW q \in Nat, NEW m \in Nat \ {0}, NEW r \in 0 .. m - 1
    PROVE  (q * m + r) % m = r
  BY SMTT(30)

\* While nothing is lost the results stay whole groups.
LEMMA WholeGroups == Spec => [](TypeOK /\ GroupInv /\ CompleteInv)
<1>1. Init => TypeOK /\ GroupInv /\ CompleteInv
  <2> SUFFICES ASSUME Init
               PROVE  TypeOK /\ CompleteInv
    BY InitGroups
  <2>1. TypeOK
    BY InitTypes
  <2>2. /\ media \in Media /\ rawdata = <<>> /\ i = 0 /\ vRead = 0 /\ aRead = 0
        /\ phase = "fetch" /\ run = TRUE /\ audioEOF = ~media.hasAudio
    BY DEF Init
  <2>3. audioEOF => aRead = Len(media.audio)
    BY <2>2, MediaTypes
  <2>4. Len(rawdata) = 0 /\ Taken - i = 0
    BY <2>2 DEF Taken
  <2>5. Whole
    <3>1. 0 = 0 * (skip + 1)
      BY <2>1 DEF TypeOK
    <3> QED
      BY <2>4, <3>1 DEF Whole
  <2> QED
    BY <2>1, <2>2, <2>3, <2>4, <2>5 DEF CompleteInv
<1>2. TypeOK /\ GroupInv /\ CompleteInv /\ [Next]_vars => (TypeOK /\ GroupInv /\ CompleteInv)'
  BY TypesKept, GroupsKept, AudioEndKept, StopIsKnown, WholeKept DEF CompleteInv
<1> QED
  BY <1>1, <1>2, PTL DEF Spec

\* An analysis that nothing disturbs has a result for every frame of every full group.
THEOREM RawdataCompleteHolds == Spec => []RawdataComplete
<1>1. TypeOK /\ CompleteInv => RawdataComplete
  <2> SUFFICES ASSUME TypeOK, CompleteInv, phase = "finished", lost = {}
               PROVE  Len(rawdata) = Frames - (Frames % (skip + 1))
    BY DEF RawdataComplete
  <2>1. PICK q \in Nat : Len(rawdata) = q * (skip + 1)
    BY DEF CompleteInv, Whole
  <2> DEFINE r == Frames - Len(rawdata)
  <2>2. r \in 0 .. skip
    BY DEF CompleteInv
  <2>3. skip \in Nat /\ Frames \in Nat /\ skip + 1 \in Nat \ {0} /\ skip + 1 - 1 = skip
    BY Numbers
  <2>4. q * (skip + 1) \in Nat
    BY <2>3
  <2>5. Frames = q * (skip + 1) + r /\ Len(rawdata) = Frames - r /\ r \in Nat
    BY <2>1, <2>2, <2>3, <2>4
  <2> HIDE DEF r
  <2> DEFINE m == skip + 1
  <2>6. m \in Nat \ {0} /\ r \in 0 .. m - 1
    BY <2>2, <2>3
  <2>7. Frames = q * m + r
    BY <2>5
  <2> HIDE DEF m
  <2>8. Frames % m = r
    BY <2>6, <2>7, Remainder
  <2> QED
    BY <2>5, <2>8 DEF m
<1> QED
  BY <1>1, WholeGroups, PTL

----
(* The audio that goes with the video. *)

LEMMA Onward ==
    ASSUME NEW a \in Nat, NEW n \in Nat, NEW b \in a .. n PROVE a + (b - a) = b
  OBVIOUS

\* What is passed over on the way to AudioStop is not late, and AudioStop is late unless
\* the audio ends there.
LEMMA AudioStopIsFirst ==
    ASSUME media.audio \in Seq(Nat), AudioInFile, NEW p \in Nat
    PROVE  /\ \A k \in aRead + 1 .. AudioStop(p) - 1 : media.audio[k] <= p
           /\ AudioStop(p) < Len(media.audio) =>
                AudioStop(p) > aRead /\ media.audio[AudioStop(p)] > p
<1> DEFINE late == {k \in aRead + 1 .. Len(media.audio) : p = NoPts \/ media.audio[k] > p}
<1> USE DEF AudioInFile
<1>0. p # NoPts /\ Len(media.audio) \in Nat
      /\ \A k \in 1 .. Len(media.audio) : media.audio[k] \in Nat
  BY DEF NoPts
<1>1. CASE late = {}
  <2>1. AudioStop(p) = Len(media.audio)
    BY <1>1 DEF AudioStop
  <2>2. \A k \in aRead + 1 .. Len(media.audio) : ~(media.audio[k] > p)
    BY <1>1
  <2> QED
    BY <1>0, <2>1, <2>2
<1>2. CASE late # {}
  <2>1. late \in SUBSET Nat /\ late \subseteq aRead + 1 .. Len(media.audio)
    OBVIOUS
  <2>2. AudioStop(p) = CHOOSE k \in late : \A l \in late : k <= l
    BY <1>2 DEF AudioStop
  <2>3. AudioStop(p) \in late /\ \A l \in late : AudioStop(p) <= l
    <3> HIDE DEF late
    <3>1. \E k \in late : \A l \in late : k <= l
      BY <1>2, <2>1, LeastNumber
    <3> QED
      BY <2>2, <3>1
  <2>4. \A k \in aRead + 1 .. AudioStop(p) - 1 : k \notin late /\ k \in aRead + 1 .. Len(media.audio)
    BY <2>1, <2>3
  <2>5. \A k \in aRead + 1 .. AudioStop(p) - 1 : media.audio[k] <= p
    BY <1>0, <2>4
  <2> QED
    BY <1>0, <2>3, <2>5
<1> QED
  BY <1>1, <1>2

\* What one round of the fetch loop does to the audio where it finds a video frame.
LEMMA FetchAudio ==
    ASSUME TypeOK, FetchPair, vFrame' # NoFrame
    PROVE  /\ vFrame' = vRead + 1 /\ vRead + 1 \in 1 .. Len(media.video) /\ vRead' = vRead + 1
           /\ media.video[vRead + 1] \in Nat
           /\ given' = Append(given, HandedOut + (aRead' - aRead))
           /\ audioEOF => audioEOF' /\ aRead' = aRead
           /\ ~audioEOF => aRead' = AudioStop(media.video[vRead + 1])
           /\ ~audioEOF' => aRead' > aRead /\ media.audio[aRead'] > media.video[vRead + 1]
<1> DEFINE p == media.video[vRead + 1]
           last == IF audioEOF THEN aRead ELSE AudioStop(p)
<1>1. /\ vFrame' = vRead + 1 /\ vRead < Len(media.video) /\ ~videoEOF
      /\ vRead \in Nat /\ aRead \in 0 .. Len(media.audio)
      /\ Len(media.video) \in Nat /\ Len(media.audio) \in Nat
  BY FetchPairFacts, MediaTypes DEF TypeOK
<1>2. vRead + 1 \in 1 .. Len(media.video) /\ p \in Nat /\ vRead + 1 # NoFrame
  <2>1. vRead + 1 \in 1 .. Len(media.video) /\ vRead + 1 # NoFrame
    BY <1>1 DEF NoFrame
  <2>2. media.video \in Seq(Nat)
    BY MediaTypes DEF TypeOK
  <2> QED
    BY <2>1, <2>2
<1>3. last \in aRead .. Len(media.audio)
  <2>1. AudioStop(p) \in aRead .. Len(media.audio)
    BY <1>1, AudioStopBound, MediaTypes DEF AudioInFile, TypeOK
  <2> QED
    BY <1>1, <2>1
<1>4. /\ aRead' = last /\ vRead' = vRead + 1
      /\ aFrames' = [k \in 1 .. last - aRead |-> aRead + k]
      /\ audioEOF' = (audioEOF \/ (/\ ~audioEOF /\ last = Len(media.audio)
                                   /\ ~(last > aRead /\ (p = NoPts \/ media.audio[last] > p))))
      /\ given' = Append(given, HandedOut + Len(aFrames'))
  BY ZenonT(30), <1>1, <1>2 DEF FetchPair, VideoLeft
<1>5. ~audioEOF /\ last < Len(media.audio) => last > aRead /\ media.audio[last] > p
  BY <1>1, <1>2, AudioStopIsFirst, MediaTypes DEF TypeOK, AudioInFile
<1> HIDE DEF last, p
<1>6. Len(aFrames') = last - aRead
  BY <1>1, <1>3, <1>4
<1>7. ~audioEOF' => last > aRead /\ media.audio[last] > p
  <2>1. ASSUME ~audioEOF' PROVE ~audioEOF /\ (last = Len(media.audio) =>
                    last > aRead /\ (p = NoPts \/ media.audio[last] > p))
    BY <1>4, <2>1
  <2>2. p # NoPts
    BY <1>2 DEF NoPts
  <2>3. last < Len(media.audio) \/ last = Len(media.audio)
    BY <1>1, <1>3
  <2> QED
    BY <1>5, <2>1, <2>2, <2>3
<1> QED
  BY <1>1, <1>2, <1>4, <1>6, <1>7 DEF last, p

\* Every video frame fetched is accounted for, and with the last of them all the audio read.
AudioInv ==
    /\ given \in Seq(Nat) /\ Len(given) = vRead
    /\ media.hasVideo => HandedOut = aRead
    /\ \A n \in DOMAIN given : given[n] <= Len(media.audio)
    /\ AudioInStep

\* Where the audio up to one video frame is not ahead of it, the audio up to the next is
\* not ahead of that one.
LEMMA NotAhead ==
    ASSUME TypeOK, CompleteInv, AudioInv, media.hasVideo, FetchPair, vFrame' # NoFrame,
           AudioAsFrequent(media), Rising(media.video), Rising(media.audio), aRead' > 1
    PROVE  media.audio[aRead' - 1] <= media.video[vRead + 1]
<1> DEFINE p == media.video[vRead + 1]
           last == aRead'
<1>n. /\ vRead \in Nat /\ aRead \in Nat /\ aRead <= Len(media.audio)
      /\ Len(media.audio) \in Nat /\ Len(media.video) \in Nat
      /\ vRead + 1 \in 1 .. Len(media.video) /\ p \in Nat
      /\ last \in aRead .. Len(media.audio) /\ last > 1
  BY FetchAudio, FetchPairFacts, MediaTypes DEF TypeOK
<1>s. /\ \A k \in 1 .. Len(media.audio) : media.audio[k] \in Nat
      /\ \A k \in 1 .. Len(media.video) : media.video[k] \in Nat
      /\ \A k, l \in 1 .. Len(media.audio) : k < l => media.audio[k] <= media.audio[l]
      /\ \A k, l \in 1 .. Len(media.video) : k < l => media.video[k] <= media.video[l]
  <2>1. /\ media.audio \in Seq(Nat) /\ DOMAIN media.audio = 1 .. Len(media.audio)
        /\ media.video \in Seq(Nat) /\ DOMAIN media.video = 1 .. Len(media.video)
    BY MediaTypes DEF TypeOK
  <2>2. /\ \A k \in 1 .. Len(media.audio) : media.audio[k] \in Nat
        /\ \A k \in 1 .. Len(media.video) : media.video[k] \in Nat
    BY <2>1
  <2> QED
    BY <2>1, <2>2 DEF Rising
<1>1. /\ audioEOF => last = aRead /\ aRead = Len(media.audio)
      /\ ~audioEOF => \A k \in aRead + 1 .. last - 1 : media.audio[k] <= p
  <2>1. audioEOF => last = aRead /\ aRead = Len(media.audio)
    BY FetchAudio DEF CompleteInv
  <2>2. ~audioEOF => last = AudioStop(p)
    BY FetchAudio
  <2>3. \A k \in aRead + 1 .. AudioStop(p) - 1 : media.audio[k] <= p
    BY <1>n, AudioStopIsFirst, MediaTypes DEF TypeOK, AudioInFile
  <2> HIDE DEF p, last
  <2> QED
    BY <2>1, <2>2, <2>3
<1>2. aRead > 0 /\ vRead > 0 => given[vRead] = aRead /\ vRead \in DOMAIN given
  BY <1>n DEF AudioInv, HandedOut, Last
<1>3. vRead = 0 => aRead = 0
  BY DEF AudioInv, HandedOut
<1>4. \A n \in DOMAIN given : given[n] > 1 => media.audio[given[n] - 1] <= media.video[n]
  BY DEF AudioInv, AudioInStep, AudioNeverAhead
<1>5. ~audioEOF => \A n \in DOMAIN given : media.audio[given[n]] > media.video[n]
  BY DEF AudioInv, AudioInStep, AudioNeverBehind
<1>6. \A n \in 1 .. Len(media.video) - 1, l \in 1 .. Len(media.audio) :
        media.audio[l] > media.video[n] =>
            \E k \in 1 .. Len(media.audio) :
                media.video[n] < media.audio[k] /\ media.audio[k] <= media.video[n + 1]
  <2>1. DOMAIN media.audio = 1 .. Len(media.audio)
    BY MediaTypes DEF TypeOK
  <2> QED
    BY <2>1 DEF AudioAsFrequent
<1>p. p = media.video[vRead + 1]
  OBVIOUS
<1> HIDE DEF p, last
<1>7. CASE last > aRead + 1
  <2>1. last - 1 \in aRead + 1 .. last - 1 /\ last # aRead
    BY <1>n, <1>7
  <2> QED
    BY <1>1, <2>1 DEF p, last
<1>8. CASE last = aRead \/ last = aRead + 1
  \* The audio read before ended with video frame vRead.
  <2>1. aRead > 0 /\ vRead > 0 /\ vRead \in 1 .. Len(media.video) - 1
    BY <1>n, <1>3, <1>8
  <2>2. given[vRead] = aRead /\ vRead \in DOMAIN given
    BY <1>2, <2>1
  <2>3. media.video[vRead] <= p /\ media.video[vRead] \in Nat
    <3>1. vRead \in 1 .. Len(media.video) /\ vRead < vRead + 1
      BY <1>n, <2>1
    <3> QED
      BY <1>n, <1>s, <1>p, <3>1
  <2>4. aRead > 1 => media.audio[aRead - 1] <= media.video[vRead]
    BY <1>4, <2>2
  <2>5. CASE last = aRead
    <3>1. aRead > 1 /\ aRead - 1 \in 1 .. Len(media.audio)
      BY <1>n, <2>5
    <3>2. media.audio[aRead - 1] \in Nat
      BY <1>s, <3>1
    <3>3. media.audio[aRead - 1] <= p
      BY <1>n, <2>3, <2>4, <3>1, <3>2
    <3> QED
      BY <2>5, <3>3 DEF p, last
  <2>6. CASE last = aRead + 1
    <3>1. ~audioEOF
      BY <1>n, <1>1, <2>6
    <3>2. media.audio[aRead] > media.video[vRead] /\ aRead \in 1 .. Len(media.audio)
      BY <1>n, <1>5, <2>1, <2>2, <3>1
    <3>3. PICK k \in 1 .. Len(media.audio) :
            media.video[vRead] < media.audio[k] /\ media.audio[k] <= p
      BY <1>6, <1>p, <2>1, <3>2
    <3>4. media.audio[k] \in Nat /\ media.audio[aRead] \in Nat /\ k \in Nat
      BY <1>s, <3>2
    <3>5. k >= aRead
      <4> SUFFICES ASSUME k < aRead PROVE FALSE
        BY <1>n, <3>4
      <4>1. aRead > 1 /\ aRead - 1 \in 1 .. Len(media.audio) /\ (k < aRead - 1 \/ k = aRead - 1)
        BY <1>n, <3>4
      <4>2. media.audio[k] <= media.audio[aRead - 1] /\ media.audio[aRead - 1] \in Nat
        BY <1>s, <3>4, <4>1
      <4> QED
        BY <2>3, <2>4, <3>3, <3>4, <4>1, <4>2
    <3>6. media.audio[aRead] <= media.audio[k]
      <4>1. aRead < k \/ aRead = k
        BY <1>n, <3>4, <3>5
      <4> QED
        BY <1>s, <3>2, <3>4, <4>1
    <3>7. media.audio[aRead] <= p
      BY <1>n, <3>3, <3>4, <3>6
    <3>8. last - 1 = aRead
      BY <1>n, <2>6
    <3> QED
      BY <3>7, <3>8 DEF p, last
  <2> QED
    BY <1>8, <2>5, <2>6
<1> QED
  BY <1>n, <1>7, <1>8

\* One more video frame takes one audio frame at most, or ends on the first that is late.
LEMMA AheadByOne ==
    ASSUME TypeOK, CompleteInv, AudioInv, media.hasVideo, FetchPair, vFrame' # NoFrame,
           aRead' > 0
    PROVE  \E m \in 1 .. vRead + 1, k \in 1 .. aRead' :
                /\ aRead' <= k + ((vRead + 1) - m)
                /\ k = 1 \/ media.audio[k - 1] <= media.video[m]
<1> DEFINE p == media.video[vRead + 1]
           last == aRead'
<1>n. /\ vRead \in Nat /\ aRead \in Nat /\ last \in Nat /\ last >= aRead
      /\ Len(media.audio) \in Nat /\ last > 0
  BY FetchAudio, FetchPairFacts, MediaTypes DEF TypeOK
<1>1. last > aRead + 1 => media.audio[last - 1] <= p
  <2>1. last # aRead => last = AudioStop(p)
    BY FetchAudio
  <2>2. \A k \in aRead + 1 .. AudioStop(p) - 1 : media.audio[k] <= p
    <3>1. p \in Nat
      BY FetchAudio
    <3> QED
      BY <3>1, AudioStopIsFirst, MediaTypes DEF TypeOK, AudioInFile
  <2> HIDE DEF p, last
  <2> QED
    BY <1>n, <2>1, <2>2
<1>2. aRead > 0 => vRead > 0 /\ given[vRead] = aRead /\ vRead \in DOMAIN given
  BY <1>n DEF AudioInv, HandedOut, Last
<1>p. p = media.video[vRead + 1] /\ last = aRead'
  OBVIOUS
<1> HIDE DEF p, last
<1>3. CASE last > aRead + 1
  <2>1. /\ vRead + 1 \in 1 .. vRead + 1 /\ last \in 1 .. last
        /\ last <= last + ((vRead + 1) - (vRead + 1))
    BY <1>n
  <2> QED
    BY <1>1, <1>3, <1>p, <2>1
<1>4. CASE last <= aRead + 1 /\ aRead = 0
  <2>1. last = 1 /\ vRead + 1 \in 1 .. vRead + 1 /\ 1 <= 1 + ((vRead + 1) - (vRead + 1))
    BY <1>n, <1>4
  <2> QED
    BY <1>p, <2>1
<1>5. CASE last <= aRead + 1 /\ aRead > 0
  <2>1. PICK m \in 1 .. vRead, k \in 1 .. aRead :
            /\ aRead <= k + (vRead - m)
            /\ k = 1 \/ media.audio[k - 1] <= media.video[m]
    BY <1>2, <1>5 DEF AudioInv, AudioInStep, AudioAheadByOne
  <2>2. /\ m \in 1 .. vRead + 1 /\ k \in 1 .. last
        /\ last <= k + ((vRead + 1) - m)
    BY <1>n, <1>5, <2>1
  <2> QED
    BY <1>p, <2>1, <2>2
<1> QED
  BY <1>n, <1>3, <1>4, <1>5

LEMMA AudioKept == TypeOK /\ CompleteInv /\ AudioInv /\ [Next]_vars => AudioInv'
<1> SUFFICES ASSUME TypeOK, CompleteInv, AudioInv, [Next]_vars
             PROVE  AudioInv'
  OBVIOUS
<1>1. CASE Fetch
  <2>1. FetchPair /\ media' = media
    BY <1>1 DEF Fetch
  <2>2. CASE vFrame' = NoFrame
    <3>1. given' = given /\ vRead' = vRead /\ (audioEOF => audioEOF')
      BY <2>1, <2>2 DEF FetchPair
    <3>2. media.hasVideo => aRead' = aRead
      BY <2>1, <2>2, FetchPairFacts
    <3> QED
      BY <2>1, <3>1, <3>2
         DEF AudioInv, HandedOut, AudioInStep, AudioNeverBehind, AudioAheadByOne, AudioNeverAhead
  <2>3. CASE vFrame' # NoFrame
    <3>1. /\ vRead + 1 \in 1 .. Len(media.video) /\ vRead' = vRead + 1
          /\ given' = Append(given, HandedOut + (aRead' - aRead))
          /\ audioEOF => audioEOF'
          /\ ~audioEOF' => aRead' > aRead /\ media.audio[aRead'] > media.video[vRead + 1]
      BY <2>1, <2>3, FetchAudio
    <3>2. /\ aRead' \in aRead .. Len(media.audio) /\ aRead \in Nat
          /\ Len(media.audio) \in Nat /\ vRead \in Nat
      BY <2>1, FetchPairFacts, MediaTypes DEF TypeOK
    <3>3. media.hasVideo
      <4>1. Len(media.video) # 0
        BY <3>1
      <4> QED
        BY <4>1, MediaTypes DEF TypeOK
    <3>4. given' = Append(given, aRead') /\ aRead' \in Nat
      <4>1. HandedOut + (aRead' - aRead) = aRead'
        <5>1. HandedOut = aRead
          BY <3>3 DEF AudioInv
        <5> QED
          BY <3>2, <5>1, Onward
      <4> QED
        BY <3>1, <3>2, <4>1
    <3>5. /\ given' \in Seq(Nat) /\ Len(given') = vRead + 1 /\ given'[vRead + 1] = aRead'
          /\ DOMAIN given' = DOMAIN given \cup {vRead + 1}
          /\ \A n \in DOMAIN given : given'[n] = given[n]
      BY <3>2, <3>4 DEF AudioInv
    <3>6. HandedOut' = aRead'
      BY <3>2, <3>5 DEF HandedOut, Last
    <3>7. AudioNeverBehind'
      <4> SUFFICES ASSUME ~audioEOF', NEW n \in DOMAIN given \cup {vRead + 1}
                   PROVE  given'[n] > 0 /\ media.audio[given'[n]] > media.video[n]
        BY <2>1, <3>5 DEF AudioNeverBehind
      <4>1. CASE n \in DOMAIN given
        BY <3>1, <3>5, <4>1 DEF AudioInv, AudioInStep, AudioNeverBehind
      <4>2. CASE n = vRead + 1
        BY <3>1, <3>2, <3>5, <4>2
      <4> QED
        BY <4>1, <4>2
    <3>8. AudioNeverAhead'
      <4>1. ASSUME AudioAsFrequent(media), Rising(media.video), Rising(media.audio), aRead' > 1
            PROVE  media.audio[aRead' - 1] <= media.video[vRead + 1]
        BY <2>1, <2>3, <3>3, <4>1, NotAhead
      <4> QED
        BY <2>1, <3>5, <4>1 DEF AudioInv, AudioInStep, AudioNeverAhead
    <3>a. AudioAheadByOne'
      <4> SUFFICES ASSUME NEW n \in DOMAIN given \cup {vRead + 1}, given'[n] > 0
                   PROVE  \E m \in 1 .. n, k \in 1 .. given'[n] :
                            /\ given'[n] <= k + (n - m)
                            /\ k = 1 \/ media.audio[k - 1] <= media.video[m]
        BY <2>1, <3>5 DEF AudioAheadByOne
      <4>1. CASE n \in DOMAIN given
        BY <3>5, <4>1 DEF AudioInv, AudioInStep, AudioAheadByOne
      <4>2. CASE n = vRead + 1
        <5>1. aRead' > 0
          BY <3>5, <4>2
        <5> QED
          BY <2>1, <2>3, <3>3, <3>5, <4>2, <5>1, AheadByOne
      <4> QED
        BY <4>1, <4>2
    <3>9. \A n \in DOMAIN given' : given'[n] <= Len(media'.audio)
      BY <2>1, <3>2, <3>5 DEF AudioInv
    <3> QED
      BY <3>1, <3>5, <3>6, <3>7, <3>8, <3>9, <3>a DEF AudioInv, AudioInStep
  <2> QED
    BY <2>2, <2>3
<1>2. CASE UNCHANGED <<media, sync>>
  BY <1>2 DEF sync, AudioInv, HandedOut, AudioInStep, AudioNeverBehind, AudioAheadByOne, AudioNeverAhead
<1> QED
  BY <1>1, <1>2 DEF Next, Worker, Progress, FetchThrows, LeaveLoop, AppendResult, LeaveFrame,
     Finish, UpdateAllResult, PluginThrows, Stop, vars, sync

\* The audio handed out with the video never lags behind it, and runs ahead of it by at most
\* one frame for each video frame, whatever the rates of the streams; under AudioAsFrequent
\* and Rising it does not run ahead (AvSynchronizer::getNextAudio).
THEOREM AudioInStepHolds == Spec => []AudioInStep
<1>1. Init => AudioInv
  BY DEF Init, AudioInv, HandedOut, AudioInStep, AudioNeverBehind, AudioAheadByOne, AudioNeverAhead
<1>2. AudioInv => AudioInStep
  BY DEF AudioInv
<1> QED
  BY <1>1, <1>2, AudioKept, WholeGroups, PTL DEF Spec

----
(* The worker comes to its end: what is left to read and to do. *)

Left == (Len(media.video) - vRead) + (Len(media.audio) - aRead)

\* How much of a round is still to be done.
Rank(p) == CASE p = "analyse" -> 3 [] p = "fetch" -> 2 [] p = "finish" -> 1 [] OTHER -> 0

\* No step of the worker goes round without a frame: each reads more of the file, or, with
\* nothing read, comes closer to completeCb.  Two nulls end the fetch loop.
WorkerAdvances ==
    [][Worker => \/ Left' < Left
                 \/ Left' = Left /\ Rank(phase') < Rank(phase)]_vars

\* Reading a frame of either stream leaves less of both.
LEMMA LessLeft ==
    ASSUME NEW v \in Nat, NEW a \in Nat, NEW r \in Nat, NEW s \in Nat, NEW r2, NEW s2 \in Nat,
           \/ r2 = r + 1 /\ s2 >= s
           \/ r2 = r /\ s2 > s
    PROVE  (v - r2) + (a - s2) < (v - r) + (a - s)
  OBVIOUS

\* One round of the fetch loop reads a frame or is the last.
LEMMA FetchReads ==
    ASSUME TypeOK, FetchPair, media' = media
    PROVE  \/ Left' < Left
           \/ Left' = Left /\ vFrame' = NoFrame /\ aFrames' = <<>>
<1>1. /\ media \in Media /\ vRead \in 0 .. Len(media.video) /\ aRead \in 0 .. Len(media.audio)
      /\ videoEOF \in BOOLEAN
  BY DEF TypeOK
<1>2. Len(media.video) \in Nat /\ Len(media.audio) \in Nat
  BY <1>1, MediaTypes
<1>3. /\ aRead' \in aRead .. Len(media.audio)
      /\ aFrames' = [k \in 1 .. aRead' - aRead |-> aRead + k]
      /\ vFrame' = IF videoEOF \/ vRead >= Len(media.video) THEN NoFrame ELSE vRead + 1
      /\ vRead' = IF vFrame' = NoFrame THEN vRead ELSE vFrame'
  BY FetchPairFacts
<1>4. \/ vRead' = vRead /\ vFrame' = NoFrame
      \/ vRead' = vRead + 1
  BY <1>1, <1>2, <1>3 DEF NoFrame
<1>5. \/ aRead' = aRead /\ aFrames' = <<>>
      \/ aRead' > aRead
  <2>1. CASE aRead' = aRead
    <3>1. aFrames' = [k \in 1 .. 0 |-> aRead + k]
      BY <1>1, <1>2, <1>3, <2>1
    <3> QED
      BY <2>1, <3>1
  <2>2. aRead' \in aRead .. Len(media.audio)
    BY <1>3
  <2>3. CASE aRead' # aRead
    BY <1>1, <1>2, <2>2, <2>3
  <2> QED
    BY <2>1, <2>3
<1>6. aRead' \in Nat
  <2>1. aRead' \in aRead .. Len(media.audio)
    BY <1>3
  <2> QED
    BY <1>1, <1>2, <2>1
<1> DEFINE v == Len(media.video)
           a == Len(media.audio)
<1>7. Left = (v - vRead) + (a - aRead) /\ Left' = (v - vRead') + (a - aRead')
  BY DEF Left
<1>8. v \in Nat /\ a \in Nat /\ vRead \in Nat /\ aRead \in Nat
  BY <1>1, <1>2
<1> HIDE DEF v, a
<1>9. CASE vRead' = vRead /\ aRead' = aRead
  <2>1. vRead + 1 # vRead /\ ~(aRead > aRead)
    BY <1>8
  <2>2. vFrame' = NoFrame /\ aFrames' = <<>>
    BY <1>4, <1>5, <1>9, <2>1
  <2>3. Left' = Left
    BY <1>7, <1>9
  <2> QED
    BY <2>2, <2>3
<1>10. CASE vRead' # vRead \/ aRead' # aRead
  <2>1. \/ vRead' = vRead + 1 /\ aRead' >= aRead
        \/ vRead' = vRead /\ aRead' > aRead
    BY <1>4, <1>5, <1>6, <1>8, <1>10
  <2>2. (v - vRead') + (a - aRead') < (v - vRead) + (a - aRead)
    BY <1>6, <1>8, <2>1, LessLeft
  <2> QED
    BY <1>7, <2>2
<1> QED
  BY <1>9, <1>10

LEMMA LeftStays ==
    ASSUME UNCHANGED <<media, vRead, aRead>>
    PROVE  Left' = Left
  BY DEF Left

\* Every file is read in finitely many steps, whatever throws, whatever the plugins answer
\* and whenever stop() is called: what WorkerEnds needs besides the scheduling of the thread.
THEOREM WorkerAdvancesHolds == Spec => WorkerAdvances
<1>1. TypeOK /\ [Next]_vars =>
          [Worker => \/ Left' < Left
                     \/ Left' = Left /\ Rank(phase') < Rank(phase)]_vars
  <2> SUFFICES ASSUME TypeOK, Worker
               PROVE  \/ Left' < Left
                      \/ Left' = Left /\ Rank(phase') < Rank(phase)
    OBVIOUS
  <2>1. CASE Fetch
    <3>1. CASE Left' < Left
      BY <3>1
    <3>2. CASE Left' = Left /\ vFrame' = NoFrame /\ aFrames' = <<>>
      BY <2>1, <3>2 DEF Fetch, Rank
    <3>3. FetchPair /\ media' = media
      BY <2>1 DEF Fetch
    <3> QED
      BY <3>1, <3>2, <3>3, FetchReads
  <2>2. CASE FetchThrows \/ LeaveLoop
    BY <2>2, LeftStays DEF FetchThrows, LeaveLoop, sync, Rank
  <2>3. CASE AppendResult \/ UpdateAllResult \/ PluginThrows \/ LeaveFrame
    <3>1. phase = "analyse" /\ phase' = "fetch" /\ UNCHANGED <<media, vRead, aRead>>
      BY <2>3 DEF AppendResult, UpdateAllResult, PluginThrows, LeaveFrame, NextGroup, sync
    <3> QED
      BY <3>1, LeftStays DEF Rank
  <2>4. CASE Finish
    BY <2>4, LeftStays DEF Finish, sync, Rank
  <2> QED
    BY <2>1, <2>2, <2>3, <2>4 DEF Worker, Progress
<1> QED
  BY <1>1, TypeCorrect, PTL DEF Spec, WorkerAdvances
====
