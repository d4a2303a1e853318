---- MODULE Rendering ----
(***************************************************************************)
(* Renders: the asynchronous part of a RenderTask, and what the plugins    *)
(* OTIORender and FFMPEGRender do to the file system.                      *)
(*                                                                         *)
(* FFMPEGRender runs one ffmpeg command after the other, ignores what they *)
(* return, and hands results on in files of the working directory: one     *)
(* effect file per effect drawn, each made from the one before, and one    *)
(* file per clip, whose names are the same for every render.  It also      *)
(* leaves a copy of the timeline beside the output.  Several sessions may  *)
(* render at once, each to an output of its own that is none of the media. *)
(*                                                                         *)
(* A file is the sequence of pieces it shows: of which media, from when to *)
(* when, with which effects drawn.                                         *)
(***************************************************************************)
EXTENDS EffectCommands, Timeline

CONSTANTS
    Renders,    \* the RenderTasks
    Jobs,       \* what a render may be about: plugin, output path, media, ranges to keep
    LabelLimit, \* the clips a concat command can tell apart (100 in the code)
    MayFail     \* TRUE: a command or a rename may fail for reasons of its own

ASSUME LabelLimitAssumption == LabelLimit \in Nat \ {0}
ASSUME MayFailAssumption == MayFail \in BOOLEAN

IsSequence(s) == Len(s) \in Nat /\ DOMAIN s = 1 .. Len(s)

\* Rates and frame numbers are whole, and detectors told lists of items at finitely
\* many frames.
ASSUME JobsAssumption ==
    \A j \in Jobs :
        /\ j.media.rate \in Nat \ {0}
        /\ IsSequence(j.ranges)
        /\ \A i \in DOMAIN j.ranges :
              LET range == j.ranges[i]
              IN /\ range.start \in Nat /\ range.duration \in Nat
                 /\ IsSequence(range.collection)
                 /\ \A k \in DOMAIN range.collection :
                       LET details == range.collection[k].details
                       IN IsFiniteSet(DOMAIN details) /\ \A f \in DOMAIN details : IsSequence(details[f])

VARIABLES
    job,        \* per render: its job
    pc,         \* per render: "none", then what it does next, then "ended"
    step,       \* per render: effects drawn, then clips cut
    effectFile, \* per render: FFmpegEffect::_outputPath, or NoFile
    fileNum,    \* the static counter of setOutputPath()
    files,      \* the file system
    told,       \* per render: what completeCb was called with, or "nothing"
    \* For the properties:
    troubled,   \* per render: the kinds of thing that failed for reasons of their own
    met         \* per render: another render was active at the same time

vars == <<job, pc, step, effectFile, fileNum, files, told, troubled, met>>

NoFile == <<"none", 0>>
MediaFile(r) == <<"media", r>>
Output(r) == <<"output", r>>
DebugFile(r) == <<"otio", r>>      \* the output's name with ".otio" behind it
EffectFile(n) == <<"effect", n>>
ClipFile(i) == <<"tmp", i>>

Original(r) == <<[of |-> r, drawn |-> <<>>, from |-> 0, to |-> 0]>>   \* 0 to 0: all of it

Init ==
    /\ job \in [Renders -> Jobs]
    /\ pc = [r \in Renders |-> "none"]
    /\ step = [r \in Renders |-> 0]
    /\ effectFile = [r \in Renders |-> NoFile]
    /\ fileNum = 0
    /\ files = [p \in {MediaFile(r) : r \in Renders} |-> Original(p[2])]
    /\ told = [r \in Renders |-> "nothing"]
    /\ troubled = [r \in Renders |-> {}]
    /\ met = [r \in Renders |-> FALSE]

Clips(r) == FindClips(FillTimeline(MediaFile(r), job[r].media, job[r].ranges))
Effects(r) == FlattenSeq([i \in DOMAIN Clips(r) |-> Clips(r)[i].effects])
Active(r) == pc[r] \notin {"none", "ended"}

Exists(p) == p \in DOMAIN files
With(p, content) == [q \in DOMAIN files \cup {p} |-> IF q = p THEN content ELSE files[q]]
Without(fs, ps) == [p \in DOMAIN fs \ ps |-> fs[p]]

Goto(r, l) == pc' = [pc EXCEPT ![r] = l]
Trouble(r, kind) == troubled' = [troubled EXCEPT ![r] = @ \cup {kind}]

----
(* render() of either plugin: without a path it throws, and completeCb is  *)
(* told; FFMPEGRender writes the timeline next to its output, and does not *)
(* look whether that worked.                                               *)

Refused(r) == job[r].path = ""

Begin(r) ==
    /\ pc[r] = "none"
    /\ \/ /\ Refused(r)
          /\ Goto(r, "ended")
          /\ told' = [told EXCEPT ![r] = "INVALID_PARAMETER"]
          /\ UNCHANGED files
       \/ /\ ~Refused(r) /\ job[r].plugin = "OTIORender"
          /\ Goto(r, "write")
          /\ UNCHANGED <<files, told>>
       \/ /\ ~Refused(r) /\ job[r].plugin = "FFMPEGRender"
          /\ Goto(r, IF Clips(r) = <<>> THEN "finish" ELSE "draw")
          /\ \/ files' = With(DebugFile(r), <<"timeline", Clips(r)>>)
             \/ MayFail /\ UNCHANGED files
          /\ UNCHANGED told
    /\ met' = [q \in Renders |->
                met[q] \/ (q = r /\ \E o \in Renders : Active(o)) \/ Active(q)]
    /\ UNCHANGED <<job, step, effectFile, fileNum, troubled>>

\* OtioRender::render: the timeline is the result; an error is reported.
WriteTimeline(r) ==
    /\ pc[r] = "write"
    /\ Goto(r, "ended")
    /\ \/ /\ files' = With(Output(r), <<"timeline", Clips(r)>>)
          /\ told' = [told EXCEPT ![r] = "NONE"]
          /\ UNCHANGED troubled
       \/ /\ MayFail
          /\ told' = [told EXCEPT ![r] = "INVALID_OPERATION"]
          /\ Trouble(r, "command")
          /\ UNCHANGED files
    /\ UNCHANGED <<job, step, effectFile, fileNum, met>>

----
(* FFmpegEffect: every effect of every clip, drawn on all of the media. *)

Source(r) == IF effectFile[r] = NoFile THEN MediaFile(r) ELSE effectFile[r]

ConsumedMedia(r) == {Source(r)}   \* variant: the input is always removed
Consumed(r) == {Source(r)} \ {MediaFile(r)}

DrawnOn(content, e) == <<[content[1] EXCEPT !.drawn = Append(@, e.name)]>>

Draw(r) ==
    LET e == Effects(r)[step[r] + 1]
        output == EffectFile(fileNum)
        runs == KnowsEffect(e.name) /\ Accepts(e) /\ Exists(Source(r))
    IN /\ pc[r] = "draw"
       /\ step[r] < Len(Effects(r))
       /\ ~Throws(e)
       /\ step' = [step EXCEPT ![r] = @ + 1]
       /\ effectFile' = [effectFile EXCEPT ![r] = output]
       /\ fileNum' = fileNum + 1
       /\ \/ /\ runs
             /\ files' = Without(With(output, DrawnOn(files[Source(r)], e)), Consumed(r))
             /\ UNCHANGED troubled
          \/ /\ ~runs \/ MayFail
             /\ files' = Without(files, Consumed(r))
             /\ IF runs THEN Trouble(r, "command") ELSE UNCHANGED troubled
       /\ UNCHANGED <<job, pc, told, met>>

\* The exception leaves the task, which ends without calling completeCb.
DrawThrows(r) ==
    /\ pc[r] = "draw"
    /\ step[r] < Len(Effects(r))
    /\ Throws(Effects(r)[step[r] + 1])
    /\ fileNum' = fileNum + 1
    /\ Goto(r, "ended")
    /\ UNCHANGED <<job, step, effectFile, files, told, troubled, met>>

AllDrawn(r) ==
    /\ pc[r] = "draw"
    /\ step[r] = Len(Effects(r))
    /\ Goto(r, "cut")
    /\ step' = [step EXCEPT ![r] = 0]
    /\ UNCHANGED <<job, effectFile, fileNum, files, told, troubled, met>>

----
(* FFmpegRender::cut(): one file per clip, then one file of them all. *)

AtTime(frame, rate) == ReadTime(ToTimeString(Milliseconds(frame, rate)))

CutOutOriginal(r, clip) ==   \* variant: clips are cut from the media itself
    <<[files[MediaFile(r)][1] EXCEPT !.from = AtTime(clip.start, clip.rate),
                                     !.to = AtTime(clip.start + clip.duration, clip.rate)]>>

\* The times are those of the command.  What is copied begins at the key frame before
\* the first of them (-ss in front of -i, -c copy): that a piece shows up to a group of
\* pictures more is left out.
CutOut(r, clip) ==
    <<[files[Source(r)][1] EXCEPT !.from = AtTime(clip.start, clip.rate),
                                  !.to = AtTime(clip.start + clip.duration, clip.rate)]>>

CutClip(r) ==
    LET i == step[r] + 1
        runs == Exists(Source(r))
    IN /\ pc[r] = "cut"
       /\ i <= Len(Clips(r))
       /\ step' = [step EXCEPT ![r] = i]
       /\ \/ /\ runs
             /\ files' = With(ClipFile(i), CutOut(r, Clips(r)[i]))
             /\ UNCHANGED troubled
          \/ /\ ~runs \/ MayFail
             /\ IF runs THEN Trouble(r, "command") ELSE UNCHANGED troubled
             /\ UNCHANGED files
       /\ UNCHANGED <<job, pc, effectFile, fileNum, told, met>>

AllCut(r) == pc[r] = "cut" /\ step[r] = Len(Clips(r))

\* A single clip is moved to the output.
Rename(r) ==
    /\ AllCut(r)
    /\ Len(Clips(r)) = 1
    /\ Goto(r, "finish")
    /\ \/ /\ Exists(ClipFile(1))
          /\ files' = Without(With(Output(r), files[ClipFile(1)]), {ClipFile(1)})
          /\ UNCHANGED troubled
       \/ /\ ~Exists(ClipFile(1)) \/ MayFail
          /\ IF Exists(ClipFile(1)) THEN Trouble(r, "rename") ELSE UNCHANGED troubled
          /\ UNCHANGED files
    /\ UNCHANGED <<job, step, effectFile, fileNum, told, met>>

\* Several are joined; the command names the pictures and the sound of every input.
Concat(r) ==
    LET n == Len(Clips(r))
        Label(i) == ((i - 1) % LabelLimit) + 1
        runs == /\ job[r].media.pictures /\ job[r].media.sound
                /\ \A i \in 1 .. n : Exists(ClipFile(i))
    IN /\ AllCut(r)
       /\ n > 1
       /\ Goto(r, "sweep")
       /\ \/ /\ runs
             /\ files' = With(Output(r), FlattenSeq([i \in 1 .. n |-> files[ClipFile(Label(i))]]))
             /\ UNCHANGED troubled
          \/ /\ ~runs \/ MayFail
             /\ IF runs THEN Trouble(r, "command") ELSE UNCHANGED troubled
             /\ UNCHANGED files
       /\ UNCHANGED <<job, step, effectFile, fileNum, told, met>>

SweptButLast(r) == {ClipFile(i) : i \in 1 .. Len(Clips(r)) - 1}   \* variant: off by one
Swept(r) == {ClipFile(i) : i \in 1 .. Len(Clips(r))}

Sweep(r) ==
    /\ pc[r] = "sweep"
    /\ files' = Without(files, Swept(r))
    /\ Goto(r, "finish")
    /\ UNCHANGED <<job, step, effectFile, fileNum, told, troubled, met>>

\* The end of render(), and of the task: whatever failed, it reports success.
Finish(r) ==
    /\ pc[r] = "finish"
    /\ files' = Without(files, {effectFile[r]})
    /\ told' = [told EXCEPT ![r] = "NONE"]
    /\ Goto(r, "ended")
    /\ UNCHANGED <<job, step, effectFile, fileNum, troubled, met>>

Next == \E r \in Renders :
    \/ Begin(r) \/ WriteTimeline(r)
    \/ Draw(r) \/ DrawThrows(r) \/ AllDrawn(r)
    \/ CutClip(r) \/ Rename(r) \/ Concat(r) \/ Sweep(r) \/ Finish(r)

Spec == Init /\ [][Next]_vars

----
(* Properties. *)

Ended(r) == pc[r] = "ended"
Died(r) == Ended(r) /\ told[r] = "nothing"

\* What ffmpeg can draw: something at all, and a sticker at two places at least.
Drawable(e) ==
    /\ KnowsEffect(e.name)
    /\ Items(e) > 0
    /\ e.name = "sticker" => Items(e) > 1

\* What one render can show: clips that a command can tell apart, at times that have a
\* text, joined only with pictures and sound, and effects that ffmpeg can draw.
Renderable(r) ==
    /\ Len(Clips(r)) \in 1 .. LabelLimit
    /\ \A i \in DOMAIN Clips(r) :
          LET clip == Clips(r)[i]
          IN Milliseconds(clip.start + clip.duration, clip.rate) < TimeLimit
    /\ Len(Clips(r)) > 1 => job[r].media.pictures /\ job[r].media.sound
    /\ \A i \in DOMAIN Effects(r) : Drawable(Effects(r)[i])

\* When the n-th frame of the media is shown, counted from 1 as the decoder does.
FrameTime(n, rate) == ((n - 1) * 1000) \div rate

\* The pieces the commands ask for: each range one frame later than it was kept, from
\* the frame after its first one to the frame after its last.
Expected(r) ==
    [i \in DOMAIN job[r].ranges |->
        LET range == job[r].ranges[i]
            rate == job[r].media.rate
        IN [of |-> r,
            drawn |-> [k \in DOMAIN Effects(r) |-> Effects(r)[k].name],
            from |-> FrameTime(range.start + 1, rate),
            to |-> FrameTime(range.start + 1 + range.duration, rate)]]

Undisturbed(r) ==
    /\ told[r] = "NONE"
    /\ job[r].plugin = "FFMPEGRender"
    /\ Renderable(r)
    /\ troubled[r] = {} /\ ~met[r]

\* When nothing fails and no other render is active, the output has a piece for every
\* range that was kept, in order, from this media and with every effect drawn once in
\* its order, whatever earlier renders left in the directory.  A piece is cut one
\* frame later than its range (Expected; KeptFramesShown is what it should be).
OutputIsWhole ==
    \A r \in Renders :
        Undisturbed(r) => Exists(Output(r)) /\ files[Output(r)] = Expected(r)

\* The output begins each range with the first frame that was kept.  Detected frames
\* are numbered from 1 and DataAnalyzer keeps their numbers, though it says they start
\* at 0; the first frame kept is cut off, and one more is shown at the end.
KeptFramesShown ==
    \A r \in Renders : Undisturbed(r) =>
        \A i \in DOMAIN job[r].ranges :
            files[Output(r)][i].from = FrameTime(job[r].ranges[i].start, job[r].media.rate)

\* When all renders are over, no effect file and no clip is left, also when commands
\* failed and renders took each other's files; only a rename that failed, or a render
\* that died of an exception, leaves some.  What every render of FFMPEGRender does leave
\* is the copy of the timeline it writes for debugging.
NothingLeftBehind ==
    (\A r \in Renders : ~Active(r) /\ ~Died(r) /\ "rename" \notin troubled[r]) =>
        DOMAIN files \subseteq UNION {{MediaFile(r), Output(r), DebugFile(r)} : r \in Renders}

\* The media that is rendered is never changed or removed; the output has another name.
MediaSurvives ==
    \A r \in Renders : Exists(MediaFile(r)) /\ files[MediaFile(r)] = Original(r)
====
