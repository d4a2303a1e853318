# A TLA+ model of Open Video Intelligence

Open Video Intelligence (OVI) analyses a media file with detector plugins, decides
frame by frame what to keep, and renders the kept ranges with effects. An application
links plugins with an expression such as `a & b | c : e`, starts a session, and is told
by callbacks when the session goes from IDLE to ANALYSIS to RENDER and back.

This directory holds TLA+ modules translated from that code, TLC configurations that
check them on small instances, and proofs checked by TLAPS of some results for every
instance. `PROJECT.json` maps every definition to the source lines it stands for.

## Inventory

Paths are relative to the repository (`src/` here is the repository's own `src`).

| Component | State | Operations | Talks to |
|---|---|---|---|
| `Session` (`src/Session.cpp`) | `_state`, `_dataFlow`, `_render`, the two callbacks, `_logicAnalyzer`, configuration | `start`, `stop`, `destroy`, `registerPlugin`, setters, `completeCb` | owns all the rest; `completeCb` is called on the analysis worker and on the render task |
| `ThreadRunner` (`src/ThreadRunner.cpp`) | `_run`, `_thread` | `start`, `stop` (clear `_run`, join) | base class of `DataFlow`, `PyManager` |
| `DataFlow` (`src/DataFlow.cpp`) | the frames at hand, `ret`, `_accumulator` | `worker`, `appendResult` | pulls from `AvSynchronizer`, asks `LogicAnalyzer` and `OutcomeCache`, calls plugins, ends in `completeCb` |
| `AvSynchronizer` (`src/AvSynchronizer.cpp`) | `_pts`, two end-of-file flags | `getNextVideo`, `getNextAudio` | `FrameExtractor` |
| `LogicAnalyzer` (`src/LogicAnalyzer.cpp`) | nodes, pipelines, positions, `_include` | `validate_logic`, `validate_link`, `runAnalysis`, `reset`, `nextPlugin` | `PluginManager` (only to look up types) |
| `OutcomeCache` (`src/OutcomeCache.cpp`) | outcomes of this frame by detector, uid of the last result, metadata per effect | `hit`, `write`, `result`, `setDetected`, `clear` | used by `DataFlow` only |
| `Accumulator` (`src/Accumulator.cpp`) | frame results | `append`, `update` | written by `DataFlow`, read by `Session::runRender` |
| `DataAnalyzer` (`src/DataAnalyzer.cpp`) | walk over the frame results | `setCorrectionValue`, `analyzeRawData` | called when a `RenderTask` is made |
| `RenderTask`, `TimelineHelper` (`src/RenderTask.cpp`, `src/TimelineHelper.cpp`) | `_future`, a timeline | constructor (fills the timeline, starts the task), destructor (waits) | render plugin, `completeCb` |
| `PluginManager`, `PluginLoader`, `AttributeValidator` | loaded plugins by uid, their attributes | `load`, `find`, `setAttrs`, `validate`, `validateAttrs`, `setAllAttrs`, `getMetaForm` | shared libraries, `PyManager` |
| `PyManager`, `PyPluginProcess` | request queue, Python modules | create, remove, attributes, process | one Python thread serves every session |
| `FrameExtractorFFMPEG`, `MediaInfo` | per decoder: codec, file position, `_frameNum`; the chosen streams | constructor, `extract`, `nextVideo`, `nextAudio`, `decode`, `readFrame` | libavformat, libavcodec |
| `FramePack`, packers, converters | one buffer per frame, static converters | `pack`, `convert`, `scale`, `resample` | libswscale, libswresample; detectors |
| C API (`src/ovi.cpp`) | none | handle checks, exceptions to error codes | `Session` |
| `ffmpegRender`, `ffmpegEffect` (`plugins/ffmpegRender`) | temporary files, a static counter | effects, cut, rename or concatenate, clean up | the ffmpeg program |
| detectors, markers, `otioRender` (`plugins/`) | attributes | `process`, `render` | called by `DataFlow` and `RenderTask` |
| `ovi_session` (tool), `ovi.py` | `stopFlag`, or the launcher's state | parse arguments, set up, wait for the end | C API |
| `Log`, `PerformanceMeasure` | timers | logging | |

### What is hard

* `Session::_state` is a plain field without a lock. Three kinds of thread read and
  write it: the application in an API call, the worker in `completeCb`, the render task
  in `completeCb`. `updateState` reads, writes and notifies in three steps, and
  `completeCb` tests the state twice before it acts.
* Threads are joined by destructors and by assignments (`_dataFlow = make_unique`,
  `_render = make_unique`), some on the very thread they wait for.
* An error, a stop, the end of video and the end of audio may each end an analysis
  anywhere in two nested loops, and `completeCb` must be called exactly once.
* Pipelines share nodes, each with its own position and verdict; the verdict of the last
  plugin is handed back through a cache, also when the cache was hit.
* An application may call the setters in any order and in any state, a plugin may be
  missing an attribute, a stream or an effect, and `start` runs six checks, between which
  it changes the session; what passes is read by two threads that check nothing.
* A codec holds frames back, refuses packets, and is flushed at the end; an extractor
  decodes the file twice, once to count.
* `ffmpegRender` ignores what its commands return and hands results on in files with
  fixed names, so that a failed step is continued with what an earlier one left.
* The callbacks of the tools run on threads of the session while the main thread is
  still setting up.
* Groups of skipped frames meet the end of the stream; gaps between kept frames meet the
  end of the input; two streams of different rates and lengths are read in step.

### What makes each part correct

* Session: two analyses never run at once; a render never reads results that a worker is
  writing; an analysis that was stopped is not rendered; `stop` and delete return, and
  nothing runs after them; whatever happens, the session comes back to IDLE.
* LogicAnalyzer, OutcomeCache: the pipelines mean what the request says; a frame is kept
  exactly when the request holds of it; no detector is asked twice; outcomes never cross
  frames; an effect gets the metadata of its own detector; the walk ends.
* DataFlow, AvSynchronizer, Accumulator: results are in order and complete, errors are
  kept to the end, audio never lags behind the video and runs ahead of it no further than
  one frame of audio for each frame of video, the worker ends.
* DataAnalyzer: the ranges are exactly the frames to keep, and carry their own metadata.
* Configuration: a call that fails changes nothing; what runs is what was validated; what
  was validated can be run.
* MediaDecoder: frames come in order, numbered, all of them, and then an end; a counted
  total is what is delivered; a detector gets the samples of its frame.
* Rendering: the output has a piece for every kept range with its effects; of the
  temporary files none stays but the copy of the timeline; the media is never touched.
* Tools: the session is destroyed once, the wait ends, and only for a reason.
* PyManager: a request meets its module; a module lives as long as its plugin; every
  caller is answered; at the exit, where the worker uses members that are destroyed, there
  is nothing left for it to do.

## Modules

| Module | Models | Its state in the code |
|---|---|---|
| `SessionLifeCycle` | the promise of a session to its application (abstract) | what callbacks and `ovi_session_state` show |
| `Session` | `Session`, `ThreadRunner`, the threads of `DataFlow` and `RenderTask` | `_state`, `_dataFlow`, `_render`, `_run`, program counters of the threads |
| `LinkExpression` | `validate_logic`, `runAnalysis`; reference meaning of a request | the nodes and pipelines, built by a recursive function over the tokens |
| `FrameAnalysis` | `registerPlugin`, inner loop of `DataFlow::worker`, `nextPlugin`, `OutcomeCache` | `_pos`, node positions and verdicts in `walk`; `_storage`, `_resultUid`, `_detected` |
| `DataFlow` | outer loop of `DataFlow::worker`, `AvSynchronizer`, `Accumulator`, `ThreadRunner::stop` | the variables of the loop and of `AvSynchronizer` |
| `DataAnalyzer` | `analyzeRawData`, `canSkip` | the locals of the loop, one action per branch |
| `PyManager` | `PyManager`, `PyPlugin`, the part of `PluginLoader` that owns them | `_req`, `_modules`, `_run`, the static key; the promises on the callers' stacks |
| `Configuration` | C API, setters and `start` of `Session`, `PluginManager`, `validate_link` | the fields of `Session` and `Plugin::attrs`; `run` remembers what `start` accepted |
| `PluginCatalogue` | what the plugins declare, `FFmpegEffectSpec`, `AttributeValidator` | constants |
| `FrameSource` | what `DataFlow` counts on from a media (abstract) | the frame number and whether the media is open |
| `MediaDecoder` | `FrameExtractorFFMPEG`, `MediaInfoFFMPEG`, one `AvDecoder` over a codec | `decoder`: file position, frames the codec holds, `_frameNum` |
| `FrameFormats` | packers and converters, the reading of `AudioDetect` | buffers as sequences of samples |
| `Timeline` | `TimelineHelper`, the filling of the timeline in `RenderTask` | tracks, clips and references |
| `EffectCommands` | the commands of `ffmpegEffect`: filter graphs, exceptions, times | - |
| `Rendering` | the task of `RenderTask`, `FFMPEGRender`, `OTIORender` | files, `_outputPath`, `fileNum`; one program counter per render |
| `Tools` | `ovi_session`, `ovi.py` as a launcher | `stopFlag`, the setup, the threads; `SessionLifeCycle` inside |
| `MC...` | instances for TLC | |
| `..._proofs` | theorems | |

How they fit: `Session` knows of an analysis only that it runs and ends cleanly or with
an error. `DataFlow` opens that step up, and knows of the plugins only that a frame is
kept, revised or lost. `FrameAnalysis` opens up how one frame is decided.
`DataAnalyzer` starts from what `DataFlow` accumulated (`RawdataOrdered` and
`RawdataComplete` are why a frame's position there is its number). `MediaDecoder`
implements `FrameSource`, the numbered frames and the one end that `DataFlow` reads.
`Configuration` uses `LinkExpression` for the request, and shows what holds when a
session reaches the states of `Session`. `Rendering` starts from ranges such as
`DataAnalyzer` makes. `Tools` runs two programs over `SessionLifeCycle`, which `Session`
implements.

### Session

Every read and write of `_state`, every callback, every creation, join and destruction
of a thread is one action. A label `pc[t]` says where a thread is; `updateState` is
`read`, `write`, `notify` for whichever thread runs it; `completeCb` is `report`,
`check`, `recheck`. `InSection` names the labels at which a thread acts on a state it has
read. With `Serial = TRUE` such sections do not overlap (as if the library held one
lock there, which it does not); with `Serial = FALSE` every interleaving is explored.
`~Session` destroys members in reverse order of declaration, callbacks first, and a
thread that then uses a callback takes `UseDestroyed`.

### LinkExpression, FrameAnalysis

A uid is a model value. `Parsing` applies `ParseToken` to one token after another as
`runAnalysis` does: `&` pushes one shared node to all pipelines, `|` opens a pipeline, `:`
appends an effect to the last node and may make the pipeline essential. `Meaning` is the
reference definition, a left-to-right evaluation with no pipelines: the set of the
verdicts (one for each detector) of which the request holds. In `FrameAnalysis` the mutable
fields of nodes and pipelines are the record `walk`, and `NextPlugin` returns the new
record with the uid. Its recursive call `nextPlugin(true)` on a fresh pipeline always
answers with that pipeline's first plugin, so `EnterPipeline` says that directly.

### DataFlow

A media is two increasing sequences of presentation times. One `Fetch` is one
`getNextVideo` and one `getNextAudio`. What a plugin computes is left open: the frame is
appended with either verdict, a plugin throws, or a multi-frame detector revises all
results so far.

### DataAnalyzer

A frame result is two Booleans: is it included, has it detected data of an effect.

### PyManager

A client is the user of one `PyPlugin` at a time; the loader asks for the modules of the
plugin directory before any client exists. `create` and `remove` push a request and
return; the others wait in `f.get()`. The worker holds the mutex from `Take` to the end
of the handler, so `Push` is disabled then; the request in service stays the head of
`req`, though the code has popped its copy. `_run` is read (`Poll`) before the mutex is
taken (`Take`), so one more request may be served after `_run` was cleared.
`~PyManager` has an empty body: the members go first (`DestroyMembers`), then
`~ThreadRunner` clears `_run` and joins. In between
the worker still locks `_m` and reads `_req` at every poll, and on leaving it walks and
clears `_modules`; so every exit uses members that are destroyed, also with an empty queue. The worker may find there what was there before (its usual steps) or not
(`UseMembers`). After undefined behaviour nothing is claimed, and `ExitFindsNothing` says
no more than that what was there before is empty.
`error` is Python's error indicator. A failed import or a missing function sets it and
nothing clears it, so that later imports may fail whatever their file: `doubtful` are the
files asked about since. `PyCreate` stores the null of an import that failed as if it were a
module, and what touches it is undefined (`UseNull`).
The manager is destroyed when the last `PyPlugin` and the loader have let it go.
A failing scan for shared libraries, which ends the constructor, is left out.

### Configuration, PluginCatalogue

One application thread, one call per step, the session of a valid or null handle. A
verdict is the code of the exception a step throws; `Conclude` turns it into what the C
API returns or into how the process ends. `start` is four actions, one for each way it
leaves the session: refused by a guard or by `validate_link`; the media does not open; a
later check fails with the new extractor in place; running. `validate_link` looks up
whatever stands behind `&` and asks for the name of whatever stands behind `:`, also where
that is a `~`, which no plugin is called: such a request is refused here, though it could be
linked (see the notes below). An operand that is a render is asked for its own form
(of an effect without a name); in `a | ~ : e` the operand is the `~`, whose plugin is the
end of the map (`undefined`). The fields the two threads
read are compared with `run` as long as the session is not IDLE. Of an attribute's value
only what a check makes of it is kept. Which of several bad plugins is met first depends
on the order of random uids; here any may be. Left out: `ovi_session_state` and the
enumerations, which only read; null strings other than uid, handle and function; the
naming of uids.

### MediaDecoder, FrameSource, FrameFormats

A file is its streams and packets; a frame is named by its packet. `Decode` is one round
of the loop of `AvDecoder::decode`: the next packet of the type is sent, a frame asked
for. The codec is external: it answers when it holds more than its delay and takes no
packet while it holds one frame more than that. Counting (`CountFrame`) and reading
(`ReadFrame`) use decoders of their own. The two decoders of an extractor share nothing
but the file, so one of them is modelled, of either type. A buffer is the sequence of
its samples, `Silence` or `Garbage`: `PackSound` lays planes out without gaps,
`Resample` reads them with the padding the library expects.

### Timeline, EffectCommands, Rendering

`Clips(r)` is the timeline as `RenderTask` fills it from the ranges of the job. A file is
the list of pieces it shows. A command that ffmpeg can run (`Accepts`, `Exists`) may
still fail for reasons of its own (`troubled`); either way the render goes on. Each
render has its own `effectFile`; the counter `fileNum`, the clip files and the directory
are shared. `Begin` is what `RenderTask` does first: an empty output path is refused and the
task told so; `OTIORender` writes its file and is done; `FFMPEGRender` writes a copy of the
timeline to `<output>.otio`, "for debugging", which nobody removes, and goes on. `DrawThrows`
is the end of a task by an exception that is no `ovi::Exception`. `met` and `troubled` only
say when a property applies. A piece is named by the times of the command that cuts it:
`-c copy` cuts where the media has key frames, so what a viewer sees may begin up to one
group of pictures earlier, which depends on the media and is left out. Outputs have names of
their own; a render onto the media itself is not modelled.

### Tools

The main thread, the keyboard thread, and the session's threads with the callbacks they
run. `Setup` lists the calls of each program in its order; the tool leaves at the first
refusal, the launcher does not look. Without arguments the tool shows its usage and returns
success before it has a session (`ShowUsage`); `LeavesForReason` speaks of programs that had
one. The user data of the launcher's callbacks has been
freed when they run, so they may crash (`CallbackCrashes`).

## Runs

| Run | Shows | Bounds |
|---|---|---|
| `session_orderly` | if sections do not overlap: the state tells the truth about the threads, a render reads only finished results, delete outlives every thread, the session never stays behind in ANALYSIS or RENDER, `stop` and delete return, and `SessionLifeCycle` is implemented | 3 runs, 3 renders: a run, the run that replaces it, and one more; every way to end |
| `session_races` | with every interleaving: one analysis at a time, a cut or failed analysis is not rendered by its completion, `stop` joins | 2 runs, 2 renders |
| `session_stranded` | violation, see below | 1 run |
| `frame_analysis` | pipelines mean the request; a frame is decided by the request, where no effect hangs on an operand of an "or"; no detector twice; fresh outcomes; right effects, and all of them; the walk ends | requests of up to 5 tokens out of 3 detectors, 2 effects and an unknown uid, up to renaming, and 14 longer ones; 2 frames (state kept from the first would show in the second); all verdicts |
| `data_flow` | results in order and complete, errors kept, audio never behind the video and ahead of it by at most one frame for each frame of video, the worker ends | media of up to 3 video and 4 audio frames with all relative timings, video alone up to 5, audio alone up to 3; `skip_frames` 0 to 2, which 3 to 5 frames divide and do not divide |
| `py_manager` | a request meets its module, modules are owned and released, a caller is always answered, the plugins listed are ones that import, and all of them that were asked before an import failed; what the worker uses after its destruction was empty, unless requests were left | 2 clients, 3 plugins created in all (one client may destroy and create again while the other's requests are queued), 2 modules that import and one that does not, functions that raise |
| `data_analyzer` | ranges are the kept frames, apart, with their own data | inputs of up to 6 frames, correction values 0, 1, 2, 3 and one longer than the input |
| `media_decoder` | frames in order, numbered, to the last; a counted total is what is delivered; a detector hears its frame; `FrameSource` is implemented, so the end comes | 12 layouts of streams (one, sound before pictures, two films, a thumbnail, no codec), every sequence of up to 3 packets, damaged or of 1 or 2 frames, 5 packets into a codec that refuses, delays 0 to 2; every file that does not open; 1 to 4 samples against a padding of 2, so whole multiples and others |
| `configuration` | a failed call changes nothing; what runs is what was validated, and can be run | a detector, two markers, both renders and a name no plugin has; 5 settings, 6 requests (among them one with `& ~`, one with `: ~`, and a render as an operand), 5 paths (two that open, with different streams), every call in every order |
| `rendering` | an undisturbed render has a piece for every kept range, cut one frame late, with every effect; no effect file and no clip stays but where a rename failed or a render died; the media survives | 2 renders with all pairs of jobs, in every interleaving; up to 4 clips against a `LabelLimit` of 3 (the code's 100); 0 to 3 items per effect; times within a second, over a minute and over an hour, not on a millisecond; every command may fail |
| `rendering_frames` | violation, see below | 1 render, the same jobs, no command fails |
| `tools` | the session is destroyed once; the wait ends, and only for a reason | both programs, every failing call, one session each with any number of runs |

The bounds of `rendering` and `media_decoder` stand for larger numbers of the code: a
`LabelLimit` of 3 for the 100 labels of a concat command, a padding (`Align`) of 2 samples
for the 32 of the library, a delay of 2 frames for that of a real codec.

Deadlock is not checked: an application may stop calling, and media end. That threads do
end is stated by `CallsReturn`, `FrameEnds`, `WorkerEnds`, `AllAnswered`, `SourceSpec`,
`WaitEnds` and `LifeCycleSpec`.
Symmetry is used only in runs that check no liveness: of the thread pools in
`session_races` and `session_stranded`, of the renders in `rendering`.

**Fairness.** In `Session`, weak fairness for every thread: the system schedules it, media
are finite and `ffmpeg` ends. The application owes no call, so `Call` is not fair; it
goes on within a call. In `DataFlow` and `FrameAnalysis`, weak fairness of the loop, with
no obligation that anything throws or that `stop` is called. In `PyManager`, weak fairness
of the Python thread, whose functions return or misuse a null,
of the loader and of a caller whose
promise has its value; clients owe no call. In `MediaDecoder`, the reader goes on until it
is told that there is no more. In `Tools`, the main thread is scheduled and the session's
threads are as in `Session`; nobody has to press Enter. `Configuration` and `Rendering`
state safety only.

**Orderly sessions.** `Serial` is an assumption the code does not enforce. It separates
what is wrong with the locking from what is wrong with the protocol: under it the
protocol is right, and `session_stranded` shows what its absence does.

## Proofs

| Module | Theorems | For |
|---|---|---|
| `Session_proofs` | `TypeCorrect`, `OneAnalysisHolds`, `CutNeverRendersHolds`, `StopJoinsHolds` | any pools of threads, calls and endings, with and without `Serial` |
| | `StateTellsTruthHolds`, `NotStrandedHolds`, `NoThreadOutlivesHolds`, `RenderReadsFinishedHolds`, `LifeCycleHolds` | the same, under `Serial` |
| | `ToolTypeCorrect`, `DeletedOnceHolds`, `LeavesForReasonHolds` | both programs of `Tools`, every failing call and every interleaving |
| `FrameAnalysis_proofs` | `OncePerFrameHolds`, `CacheIsFreshHolds` | every request and every order in which `nextPlugin` names plugins |
| | `PipelinesMeanRequestHolds`, `IncludeIsMeaningPlainHolds`, `EffectsRightHolds` | requests of every length over any detectors and effects, every verdict, any number of frames |
| | `TypeCorrect`, `LoopGoesOn`, `WalkAdvancesHolds` | the same, for every request that `validate_logic` accepts, plain or not |
| `PyManager_proofs` | `TypeCorrect`, `ServedAliveHolds`, `ModulesAreOwnedHolds`, `ExitFindsNothingHolds` | any clients, modules and number of plugins, and every interleaving |
| `DataAnalyzer_proofs` | `TypeCorrect`, `RangesApartHolds`, `RangesAreKeptHolds`, `CollectionsAreOwnHolds` | every input and every correction value |
| `DataFlow_proofs` | `TypeCorrect`, `ErrorKeptHolds`, `RawdataOrderedHolds`, `RawdataCompleteHolds`, `AudioInStepHolds`, `WorkerAdvancesHolds` | every media, every number of skipped frames, every fault and a stop at any time |
| `MediaDecoder_proofs` | `TypeCorrect`, `SourceIsImplemented`, `TotalIsDeliveredHolds`, `DetectorHearsFrameHolds`, `WholeFileHolds` | every file, codec delay, number of channels and samples |
| `Configuration_proofs` | `TypeCorrect`, `RunsAsValidatedHolds`, `ErrorsChangeNothingHolds`, `StartedIsSoundHolds` | any plugins, settings, requests and media, and every sequence of calls |
| `Rendering_proofs` | `MediaSurvivesHolds`, `NothingLeftBehindHolds`, `OutputIsWholeHolds` | any jobs, any number of renders at once, in every interleaving, and whatever fails |

`OneAnalysis` is not inductive: that only the current worker lives (`OnlyCurrent`) rests
on `start` having joined the worker before. `CutNeverRenders` needs, for a worker that
saw `_run` cleared, that whoever cleared it stored IDLE before and is waiting in the
join, so that no ANALYSIS can be stored until the worker is gone (`CutIsJoined`,
`NotAnalysing`, `StoresOfAnalysis`). The theorems under `Serial` share one invariant,
`Orderly`: it says of every section which state it has read and that this state still
holds, who waits for whom, and what is left of a session that is being destroyed. The
stored state then tells which thread may be alive, and each step maps to a step of
`SessionLifeCycle` or to a stutter. `OncePerFrame` needs that a detector not in the
storage has not run on this frame (`StorageOfFrame`). `PipelinesMeanRequest` is
carried from token to token: the pipelines built so far hold of a verdict exactly when
the tokens so far do (`ParsedRight`), because an "and" that is pushed to every pipeline
distributes over the "or" between them (`AndSays`, `OrSays`, `ColonSays`), and because
`validate_logic` leaves a request in which the operator at hand and a pending `~` are
those before the operand (`ParsedUpTo`). `IncludeIsMeaningPlain` adds what pipelines look
like (`ParseShape`: node numbers rise along a pipeline, a detector is its first node,
effects follow) and an invariant of the walk, `InPlace`: no node before the current one
excludes the frame, the nodes after it have neither been asked nor switched off, though
other pipelines share them, and, if no pipeline is essential, every pipeline before the
current one excludes it. `Told` says what the verdict handed to `nextPlugin` is about,
which after an effect is that of the detector before it. Its hypotheses are those under
which the code keeps the frame by the request: no pipeline is essential (else the next
one's verdict replaces the frame's), and the operands are plain: no plugin stands behind
`: ~`, and an effect stands as an operand only behind an `&` with nothing uncut before
it (see the notes below for both).
`EffectsRight` is for plain operands only as well, but also for essential pipelines. It
needs where in the request the plugins of a node come from (`Rooted`: the head is an
operand that comes after the heads of the nodes before, the rest hangs on it), whose
verdict the cache holds while effects are applied (`HeardInv`: that of the current
node's detector, or of a node before it in the pipeline when an effect heads the node),
and, for the part about requests without `&`, that each operand then has a pipeline of
its own, essential as soon as an effect hangs on it (`OrShape`), so that the walk skips
no node whose effects are still due (`DrawnInv`).

Of requests that are not plain less is said, but the loop is sound for them too. No
pipeline that `runAnalysis` builds is empty (`ParseBuilds`) and no position is past the
plugins of its node (`PlacesFit`), so that the walk is at a plugin of a node whenever the
loop runs (`Within`, part of `TypeOK`), and `nextPlugin` names a plugin further on or
`OVI_EOP` (`LoopGoesOn`, `WalkAdvances`). The measure is lexicographic: the pipeline, the
place in it, the place in its node. Entering a pipeline resets nodes it shares with
others, but only parts of the measure that come after the one that grew. The measure of
the worker of `DataFlow` is what is left of the file and, within a round, of its phases
(`WorkerAdvances`). These two are what `FrameEnds` and `WorkerEnds` need besides the
scheduling of the threads.

`RangesApart` needs that the open
range, whose duration is only counted, ends right before the position looked at
(`OpenRange`), and that between the last closed range and the position there is an
excluded frame (`LastClosed`). `RangesAreKept` adds what the walk has decided
of every frame it has passed (`KeptSoFar`) and that a gap it bridged was short while one
it left open was not (`FarApart`); `CollectionsAreOwn` adds what the open range carries
so far (`CarryInv`). `ServedAlive` speaks of the head of the queue only; it
needs the order of the whole queue (`QueueOrdered`: of one key, the creation first and
the removal last) and, so that a push keeps that order, that an owned key is created and
not on its way out (`OwnersServed`, `OneOwner`). `ModulesAreOwned` adds `ModulesLeave`.
Both end where the worker leaves its loop, which it does only when told
(`LeavesWhenTold`). That a module is null only where the error indicator was set is an
invariant of its own (`NullsMeanError`). `ExitFindsNothing` follows since a queue that was
empty at exit leaves no module either (`AfterExit`).

`RawdataOrdered` needs where the group at hand lies (`GroupInv`): while frames are fetched
the results end where the group begins, `i` frames before the last one taken; while they
are analysed the group is a run of frames that ends there; and after the end of the video
nothing more is fetched, so that a group of audio frames is never numbered as video.
`RawdataComplete` adds that the number of results is a multiple of a group's, that only
`stop` clears `_run` before the end, and that audio at its end has been read
(`CompleteInv`). `AudioInStep` needs where `_pts` stands between the frame fetched last
and the audio fetched with it (`AudioInv`). Of any two streams it says that audio does not lag
and that it runs ahead by at most one frame of audio for each frame of video
(`AudioAheadByOne`). That it does not run ahead at all (`AudioNeverAhead`) holds only where
audio is as frequent as video and both streams' times rise; that hypothesis is part of the
formula, the code does not see to it.

`SourceIsImplemented` and the numbering rest on `SourceInv`. For `TotalIsDelivered` the
counting decoder and the reading one are two runs of the same function of the file
position: `Trace` is the only sequence of states the decoder can go through (`Reached`),
and it has one end (`OneEnd`). `DetectorHearsFrame` computes where each plane's rows lie
(`RowsFill`, `PackInv`). `WholeFile` needs that what was delivered, what the codec holds
and what is unread are, in this order, the frames of the file (`InLine`), and that the
codec never holds so much that it refuses (`Steady`). `StartedIsSound` speaks of an
effect behind `:` in any request that can be linked, those that `validate_link` refuses for a `~` included; it needs that such an
effect has an operand two places before it (`RequestFormed`), which `validate_logic` saw
to when the request was set, and that the first bad position does not exist when
`validate_link` answers well. Both it and `RunsAsValidated` rest on one lemma: in any
state but IDLE no call changes a setting (`SettersRefuse`). `NothingLeftBehind` needs an
owner for every temporary file (`Accounted`): an effect file is the last one of a render
that has not removed it, a clip file one of those cut by a render that has not swept them;
that a step of one render removes another's file only makes this easier. The debug copies
of the timeline are outputs here: they stay.
`DeletedOnce` counts the calls of `ovi_session_destroy` by what became of the session
(`SessionInStep`): the session exists from its creation, which has its place in each
program's setup, until the program leaves. `LeavesForReason` needs that the flag is set
only together with a cause, and that only the tool has a thread that reads Enter
(`FlagHasReason`). Both stand at the end of `Session_proofs`, over variables of their own
that an instance of `Tools` gets; they are theorems of `Tools` with both programs.
`OutputIsWhole` has two halves. While a calm render is active no other one steps (`Lone`,
and `OnlyActiveStep`), the file it draws on has exactly the effects drawn so far, and the
clips cut so far are the pieces asked for (`Shows`); a name taken for an effect file is
new (`Numbered`), and nobody else writes its output (`OutputStays`). The other half
computes the helpers: the timeline's clips are the ranges in their order (`ClipsAre`),
joining one piece each gives the pieces (`FlattenSingles`), the filter graph of any number
of items is connected (`ChainConnected`), and a time comes back from its text
(`TimeIsKept`), which holds up to 100 hours.

Recursive functions and folds are computed by least counterexamples (`LeastNumber`): the
first place at which the function and its closed form differ contradicts the step of the
recursion. This is how results for inputs of every length are obtained without an
induction theorem.

The assumptions are those the modules declare (`ThreadsDistinct`, `EndingsAssumption`,
`InputsAssumption`, `CorrectionsAssumption`, `LoaderAssumption`, `ModulesAssumption`,
`MaxKeysAssumption`, `MediaAssumption`, `SkipsAssumption`, `NameOfAssumption`,
`StreamsAssumption`, `RequestsAssumption`, `FilesAssumption`, `FormatListsAssumption`,
`FormatsAssumption`, `JobsAssumption`, `PluginsDistinct`, `UidsAssumption` and those of
single numbers); TLC evaluates them in
the runs. They say of what kind a constant is; `JobsAssumption` also that rates are whole
and not 0, where the code's rate is a `double`.

Type invariants are proved, and are no properties of the runs; nor are `LoopGoesOn`,
`WalkAdvances` and `WorkerAdvances`, which say of each step what `FrameEnds` and `WorkerEnds`
say of the whole. Every safety property of the runs, except those expected to be
violated, is a theorem.

Only model-checked:

* Liveness: `CallsReturn`, `FrameEnds`, `WorkerEnds`, `AllAnswered`, `WaitEnds`, and the
  fairness in `SessionLifeCycle` and `FrameSource`, whose safety parts are proved: the prover
  knows neither fairness nor ENABLED.

## Where the code and its documents disagree

Shown by runs:

* `session_stranded`: `start` spawns the worker and stores ANALYSIS afterwards
  (`src/Session.cpp` 208-210). A worker that has completed by then took the session for
  stopped, and the session stays in ANALYSIS.
* `rendering_frames`: frames are numbered from 1 (`FrameExtractorFFMPEG.cpp` 235), and
  `DataAnalyzer.cpp` 47 says that they are numbered from 0, as the times on the timeline
  assume. Every piece starts one frame after the first frame that was kept, and ends one
  frame after the last.

Seen while modelling, and not given a run of their own:

* State callbacks of `start` and `stop` run on the calling thread; `ovi_types.h` 91 says
  another thread.
* A `stop` that returns success may be followed by RENDER, when `completeCb` had read
  ANALYSIS just before (`Session` with `Serial = FALSE` has such behaviours).
* `~RenderTask` rethrows an exception of the task inside the destruction of `Session`
  (`aborted` in the model), though `~Session` means not to throw.
* `validate_logic` accepts `~ : e`, for which `runAnalysis` uses a null node
  (`phase = "crashed"` in `FrameAnalysis`).
* With `skip_frames` the frames of a last, incomplete group get no result
  (`RawdataComplete` states the number exactly), and the last frame of a group is the one
  analysed, where `ovi.h` 217 says the first.
* Where audio is rarer than video, one frame of audio is still handed out with each frame
  of video until the times meet, so audio runs ahead (`AudioAheadByOne` is what holds).
* `~PyManager` destroys mutex, queue and modules before `~ThreadRunner` joins the thread
  that uses them, so at every exit the thread may use what is gone (`UseMembers`). A
  `PyPlugin` destroyed right before leaves its removal in the queue as well (`late`).
* A failed import, or a function that a module lacks, leaves Python's error set
  (`PyManager.cpp` 254); the import of a good file after it may fail, which keeps the file
  off the list or stores a null as the module of a plugin.
* `pySetAttrs` releases its dictionary though the tuple has taken it over
  (`PyManager.cpp` 314-325).
* `validate_logic` accepts `a : ~ b : e`: a detector behind `:` is refused, but not with a
  `~` between (`LogicAnalyzer.cpp` 113-119). `runAnalysis` attaches the detector as it
  attaches effects and forgets the `~` (excluded by `NoneAttachedUncut`).
* In `~ a : e & f` the effect `f`, an operand, takes over the verdict of `a`. When `a` says
  no, `e` is skipped, but `f` is recorded, with the data of `a`, and cuts the frame that
  `~` was to keep (excluded by `PlainOperands`).
* In `a | b : e` the pipeline of `b` is walked for its effect even when `a` has included
  the frame, and its verdict replaces the frame's (`IncludeIsMeaning` fails;
  `IncludeIsMeaningPlain` is what holds).
* When a gap is bridged, the walk of `DataAnalyzer` jumps past the included frame that ends
  it, and that frame's detected data is lost (`NoTrueIgnored`).
* All plugins of one Python file share one module object, so `setAttrs` of one changes
  the attributes of another.
* Decoder: a damaged packet and a pixel format without a name end the media as its end
  does, with no error. Two streams of one type, or a thumbnail, feed one decoder; a packet
  of another codec ends the analysis. Packets of several frames lose one when the codec is
  full. When stream 0 is of another type no flush is sent, and the frames the codec holds
  are lost. `avformat_open_input` failing with anything but AVERROR_INVALIDDATA leaves a
  null context that is then used.
* Conversion: planes are packed without gaps and read with padding, so sound whose samples
  are not a multiple of 32 reads wrong planes; the result keeps the padding, and the audio
  detector reads on from the start of the buffer.
* For an effect it does not know, `FFMPEGRender` throws with the code `METAFORM_NONE`, which
  is 0 (`ffmpegEffect.cpp` 629), and `ovi_session_start` returns 0 for a session that has
  not started, where `ovi.h` 64 says that 0 is success.
* `ovi_session_link_plugins` accepts a request with `& ~`, as `logicAnalyzerTest.cpp` 246-252
  requires, and `runAnalysis` walks it; `validate_link` looks the `~` up among the plugins
  (`LogicAnalyzer.cpp` 149), so that `ovi_session_start` refuses every such request.
  `FrameAnalysis` models what would be analysed, and walks these requests all the same.
* Configuration: `set_media_path` reports success and stores an empty path for a path that
  cannot be resolved for other reasons than not existing. `set_skip_video_frames` outside
  IDLE, a linked marker without a name, and an attribute that is no number end the process
  by an exception nobody catches. A list of attributes of odd length is read past its end.
  `validate_link` does not look at an effect behind `|`, and in `a : e & f` compares `f`
  with the marker `e`.
* Rendering: every render with `FFMPEGRender` leaves `<output>.otio` beside its output.
  Success is reported whatever ffmpeg answered, and also when there was nothing
  to render. A sticker at exactly one place, effects with nothing to draw, and several
  clips of a media without sound or pictures make commands that ffmpeg refuses. More than
  100 clips are joined by wrong labels, and a time of 100 hours or more is written without
  its hundreds. Two renders in one directory overwrite each other.
  A rename that fails leaves the clip. Attributes no validator checks end the task by an
  exception, without a call of `completeCb`. `fileNum` is increased without a lock.
* Tools: `ovi_session` returns 0 after an error. An end or an error before `stopFlag` is
  cleared is forgotten. The launcher looks at no result and waits for ever after a refused
  start or an error; its callbacks use data that was freed; a plugin that does not load is
  `None`, on which it raises.

## Not modelled

Presentation times of frames, which are abstract in `DataFlow` and absent from
`MediaDecoder`; the numeric part of detectors and of pixel conversion, logging, timing
and the text of messages and commands: they change no control. `dlopen` and `dlclose` of
plugin libraries, which happen at the start and the end of the process. The calls of the C
API that only read (`ovi_session_state`, the enumerations). The grammar of the command
line. What OpenTimelineIO writes, and what a Python plugin computes.

## Plan

What is left:

1. Callbacks of the application that call the API from the worker or the render task: a
   `stop` or `start` there joins its own thread. `Session` would need a second program for
   each thread.
2. Loading and unloading of plugin libraries, with plugin objects that outlive them.
