---- MODULE DataFlow ----
(***************************************************************************)
(* The analysis worker: DataFlow::worker() with the AvSynchronizer it      *)
(* fetches frames from and the Accumulator it appends to, and the thread   *)
(* that may stop it (ThreadRunner::stop).                                  *)
(*                                                                         *)
(* A media is two streams of presentation times.  What the plugins say of  *)
(* a frame is left open (module FrameAnalysis): the frame is kept or not,  *)
(* a plugin throws, or a multi-frame detector revises all earlier frames.  *)
(***************************************************************************)
EXTENDS Integers, Sequences, SequencesExt

CONSTANTS
    Media,          \* records [hasVideo, hasAudio, video, audio]
    Skips,          \* the values of setSkipVideoFrames to analyse with
    Faults,         \* subset of {"read", "plugin"}: what may throw
    MultiFrame      \* TRUE: a multi-frame detector may answer

NoPts == -1
NoFrame == 0

ASSUME MediaAssumption ==
    \A m \in Media :
        /\ m.hasVideo \in BOOLEAN /\ m.hasAudio \in BOOLEAN
        /\ m.video \in Seq(Nat) /\ m.audio \in Seq(Nat)
        /\ ~m.hasVideo => m.video = <<>>
        /\ ~m.hasAudio => m.audio = <<>>
ASSUME SkipsAssumption == Skips \subseteq Nat
ASSUME FaultsAssumption == Faults \subseteq {"read", "plugin"} /\ MultiFrame \in BOOLEAN

VARIABLES
    media,          \* the file under analysis
    skip,           \* DataFlow::_skipFrames
    run,            \* ThreadRunner::_run
    phase,          \* "fetch", "analyse", or "finished" once completeCb is called
    i,              \* frames of the current group fetched so far
    vFrame, aFrames,    \* numbers of the frames at hand
    ret,            \* the error kept for completeCb
    \* AvSynchronizer and its extractor:
    vRead, aRead,   \* frames decoded so far
    videoEOF, audioEOF,
    pts,            \* AvSynchronizer::_pts
    rawdata,        \* Accumulator::_rawdata: [frame, include]
    \* For the properties:
    given,          \* how many audio frames were handed out by each fetched video frame
    lost            \* why frames may be missing: subset of {"throw", "revision", "stop"}

vars == <<media, skip, run, phase, i, vFrame, aFrames, ret, vRead, aRead, videoEOF,
          audioEOF, pts, rawdata, given, lost>>

sync == <<vRead, aRead, videoEOF, audioEOF, pts, given>>

----
(* AvSynchronizer *)

VideoLeft == vRead < Len(media.video)

\* variant: one audio frame goes with each video frame
AudioStopOne(p) == IF aRead < Len(media.audio) THEN aRead + 1 ELSE aRead

\* getNextAudio() reads up to the first audio frame later than the video at `p`,
\* or just one where no video has been seen.
AudioStop(p) ==
    LET late == {k \in aRead + 1 .. Len(media.audio) : p = NoPts \/ media.audio[k] > p}
    IN IF late = {} THEN Len(media.audio)
       ELSE CHOOSE k \in late : \A l \in late : k <= l

HandedOut == IF given = <<>> THEN 0 ELSE Last(given)

\* One getNextVideo() and one getNextAudio().
FetchPair ==
    LET v == IF videoEOF \/ ~VideoLeft THEN NoFrame ELSE vRead + 1
        vEnd == videoEOF \/ ~VideoLeft
        p == IF v = NoFrame THEN pts ELSE media.video[v]
        blocked == audioEOF \/ (vEnd /\ media.hasVideo)
        last == IF blocked THEN aRead ELSE AudioStop(p)
        \* the loop ended on a null, which means end of stream, not on a late frame
        ranOut == /\ ~blocked /\ last = Len(media.audio)
                  /\ ~(last > aRead /\ (p = NoPts \/ media.audio[last] > p))
    IN /\ vFrame' = v
       /\ vRead' = IF v = NoFrame THEN vRead ELSE v
       /\ videoEOF' = vEnd
       /\ pts' = p
       /\ aFrames' = [k \in 1 .. last - aRead |-> aRead + k]
       /\ aRead' = last
       /\ audioEOF' = (audioEOF \/ ranOut)
       /\ given' = IF v = NoFrame THEN given ELSE Append(given, HandedOut + Len(aFrames'))

----
Init ==
    /\ media \in Media
    /\ skip \in IF media.hasVideo THEN Skips ELSE {0}   \* Session::runDataFlow
    /\ run = TRUE
    /\ phase = "fetch"
    /\ i = 0
    /\ vFrame = NoFrame /\ aFrames = <<>>
    /\ ret = "none"
    /\ vRead = 0 /\ aRead = 0
    /\ videoEOF = ~media.hasVideo
    /\ audioEOF = ~media.hasAudio
    /\ pts = NoPts
    /\ rawdata = <<>>
    /\ given = <<>> /\ lost = {}

FetchUntilStopped ==   \* variant: the end of the file does not leave the loop
    /\ phase = "fetch"
    /\ i = 0 => run
    /\ FetchPair
    /\ phase' = IF (vFrame' # NoFrame \/ aFrames' # <<>>) /\ i = skip THEN "analyse" ELSE "fetch"
    /\ i' = IF i = skip THEN 0 ELSE i + 1
    /\ UNCHANGED <<media, skip, run, ret, rawdata, lost>>

\* One round of the fetch loop.  Two nulls end the analysis, also in mid-group.
Fetch ==
    /\ phase = "fetch"
    /\ i = 0 => run
    /\ FetchPair
    /\ phase' = IF vFrame' = NoFrame /\ aFrames' = <<>> THEN "finish"
                ELSE IF i = skip THEN "analyse" ELSE "fetch"
    /\ i' = IF i = skip THEN 0 ELSE i + 1
    /\ UNCHANGED <<media, skip, run, ret, rawdata, lost>>

FetchThrows ==
    /\ phase = "fetch"
    /\ "read" \in Faults
    /\ i = 0 => run
    /\ ret' = "error"
    /\ phase' = "finish"
    /\ lost' = lost \cup {"throw"}
    /\ UNCHANGED <<media, skip, run, i, vFrame, aFrames, sync, rawdata>>

\* `while (_run.load())` of the outer loop.
LeaveLoop ==
    /\ phase = "fetch" /\ i = 0
    /\ ~run
    /\ phase' = "finish"
    /\ UNCHANGED <<media, skip, run, i, vFrame, aFrames, ret, sync, rawdata, lost>>

GroupFramesAnalysed ==   \* variant: the skipped frames get no result
    IF vFrame # NoFrame THEN <<vFrame>> ELSE aFrames

GroupFramesFirst ==   \* variant: the group starts at the analysed frame
    IF vFrame # NoFrame THEN [k \in 1 .. skip + 1 |-> vFrame + k - 1] ELSE aFrames

\* appendResult(): the analysed video frame stands for the skipped ones before it;
\* without video every audio frame at hand gets the result.
GroupFrames ==
    IF vFrame # NoFrame THEN [k \in 1 .. skip + 1 |-> vFrame - skip + k - 1] ELSE aFrames

NextGroup == phase' = "fetch" /\ vFrame' = NoFrame /\ aFrames' = <<>>

AppendResult ==
    /\ phase = "analyse"
    /\ \E include \in BOOLEAN :
        rawdata' = rawdata \o
            [k \in DOMAIN GroupFrames |-> [frame |-> GroupFrames[k], include |-> include]]
    /\ NextGroup
    /\ UNCHANGED <<media, skip, run, i, ret, sync, lost>>

\* A multi-frame detector answers with one Boolean per frame appended so far.  The
\* frame at hand is not appended.
UpdateAllResult ==
    /\ phase = "analyse"
    /\ MultiFrame
    /\ \E detected \in [DOMAIN rawdata -> BOOLEAN] :
        rawdata' = [k \in DOMAIN rawdata |-> [rawdata[k] EXCEPT !.include = detected[k]]]
    /\ lost' = lost \cup {"revision"}
    /\ NextGroup
    /\ UNCHANGED <<media, skip, run, i, ret, sync>>

PluginThrowsForgets ==   \* variant: the error of a plugin is only logged
    /\ phase = "analyse"
    /\ "plugin" \in Faults
    /\ lost' = lost \cup {"throw"}
    /\ NextGroup
    /\ UNCHANGED <<media, skip, run, i, ret, sync, rawdata>>

\* A plugin throws: the error is kept, the group is given up, the analysis goes on.
PluginThrows ==
    /\ phase = "analyse"
    /\ "plugin" \in Faults
    /\ ret' = "error"
    /\ lost' = lost \cup {"throw"}
    /\ NextGroup
    /\ UNCHANGED <<media, skip, run, i, sync, rawdata>>

\* `while (_run.load())` of the inner loop.
LeaveFrame ==
    /\ phase = "analyse"
    /\ ~run
    /\ NextGroup
    /\ UNCHANGED <<media, skip, run, i, ret, sync, rawdata, lost>>

Finish ==
    /\ phase = "finish"
    /\ run' = FALSE
    /\ phase' = "finished"
    /\ UNCHANGED <<media, skip, i, vFrame, aFrames, ret, sync, rawdata, lost>>

\* ThreadRunner::stop(), from another thread at any time.
Stop ==
    /\ run
    /\ run' = FALSE
    /\ lost' = lost \cup {"stop"}
    /\ UNCHANGED <<media, skip, phase, i, vFrame, aFrames, ret, sync, rawdata>>

Progress == Fetch \/ LeaveLoop \/ AppendResult \/ LeaveFrame \/ Finish

Worker == Progress \/ FetchThrows \/ UpdateAllResult \/ PluginThrows

Next == Worker \/ Stop

Spec == Init /\ [][Next]_vars

\* The worker thread runs and the calls it makes return; nothing has to throw.
FairSpec == Spec /\ WF_vars(Progress)

----
(* Types and properties. *)

TypeOK ==
    /\ media \in Media
    /\ skip \in Nat
    /\ run \in BOOLEAN
    /\ phase \in {"fetch", "analyse", "finish", "finished"}
    /\ i \in 0 .. skip
    /\ vFrame \in 0 .. Len(media.video)
    /\ \A k \in DOMAIN aFrames : aFrames[k] \in 1 .. Len(media.audio)
    /\ ret \in {"none", "error"}
    /\ vRead \in 0 .. Len(media.video)
    /\ aRead \in 0 .. Len(media.audio)
    /\ videoEOF \in BOOLEAN /\ audioEOF \in BOOLEAN
    /\ pts \in Nat \cup {NoPts}
    /\ lost \subseteq {"throw", "revision", "stop"}

Frames == IF media.hasVideo THEN Len(media.video) ELSE Len(media.audio)

\* Whatever throws and whenever the worker is stopped, the accumulated frames are
\* frames of the media, in order, and none has two results.
RawdataOrdered ==
    /\ \A k \in DOMAIN rawdata : rawdata[k].frame \in 1 .. Frames
    /\ \A k, l \in DOMAIN rawdata : k < l => rawdata[k].frame < rawdata[l].frame

\* An undisturbed analysis has a result for every frame of every full group: the
\* ends of the two streams, in whatever order they come, drop nothing else.
RawdataComplete ==
    phase = "finished" /\ lost = {} =>
        Len(rawdata) = Frames - (Frames % (skip + 1))

\* completeCb gets an error exactly when something threw, however long before the
\* end of the analysis: Session renders only an analysis without errors.
ErrorKept == phase = "finished" => (ret = "error" <=> "throw" \in lost)

\* When a video frame is analysed, every audio frame up to its time has been handed out.
AudioNeverBehind ==
    ~audioEOF => \A n \in DOMAIN given :
        given[n] > 0 /\ media.audio[given[n]] > media.video[n]

Rising(times) == \A k, l \in DOMAIN times : k < l => times[k] <= times[l]

\* There is audio between any two video frames, as long as there is any.
AudioAsFrequent(m) ==
    \A n \in 1 .. Len(m.video) - 1 :
        (\E k \in DOMAIN m.audio : m.audio[k] > m.video[n]) =>
            \E k \in DOMAIN m.audio :
                m.video[n] < m.audio[k] /\ m.audio[k] <= m.video[n + 1]

\* Where audio frames are as frequent as video frames, and both come in the order of
\* their times, only the very last of the audio handed out is later than the video.
AudioNeverAhead ==
    AudioAsFrequent(media) /\ Rising(media.video) /\ Rising(media.audio) =>
        \A n \in DOMAIN given : given[n] > 1 => media.audio[given[n] - 1] <= media.video[n]

\* In any two streams audio runs ahead by at most one frame for each video frame: each
\* of these takes one audio frame even where there is none for it yet. So the audio up to
\* video frame n reaches at most n - m frames beyond where it stood when it was last in
\* step: up to k at frame m, with all but the last of it no later than that frame.
AudioAheadByOne ==
    \A n \in DOMAIN given : given[n] > 0 =>
        \E m \in 1 .. n, k \in 1 .. given[n] :
            /\ given[n] <= k + (n - m)
            /\ k = 1 \/ media.audio[k - 1] <= media.video[m]

\* The audio handed out with the video never lags behind it. It runs ahead by at most one
\* frame for each video frame since the two were in step; where audio is as frequent as
\* video and both come in the order of their times, it does not run ahead at all.
AudioInStep == AudioNeverBehind /\ AudioAheadByOne /\ AudioNeverAhead

\* The analysis of a file ends, whatever throws, and also when it is stopped.
WorkerEnds == <>(phase = "finished")
====
