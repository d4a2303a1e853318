---- MODULE Session ----
(***************************************************************************)
(* The life cycle of an analysis session: class Session together with the  *)
(* part of ThreadRunner / DataFlow / RenderTask that starts, ends and      *)
(* joins threads.                                                          *)
(*                                                                         *)
(* Session::_state is a plain field that three kinds of thread read and    *)
(* write without a lock: the application thread inside an API call, the    *)
(* analysis worker of the current DataFlow, and the std::async thread of a *)
(* RenderTask.  Every read, every write, every callback and every join is  *)
(* a step of its own here, so all their interleavings are explored.        *)
(***************************************************************************)
EXTENDS FiniteSets

CONSTANTS
    App,        \* the one application thread that calls the API
    Workers,    \* analysis threads, one per start(); bounds the number of runs
    Tasks,      \* render threads, one per RenderTask; bounds their number
    None,       \* a null pointer
    Calls,      \* the API calls the application makes
    Endings,    \* how a render may end
    Serial      \* TRUE: the unlocked sections of different threads never overlap

Threads == {App} \cup Workers \cup Tasks
States == {"IDLE", "ANALYSIS", "RENDER"}

ASSUME ThreadsDistinct ==
    /\ Workers \cap Tasks = {}
    /\ App \notin Workers \cup Tasks
    /\ None \notin Threads
ASSUME CallsAssumption == Calls \subseteq {"start", "stop", "destroy"}
ASSUME EndingsAssumption == Endings \subseteq {"clean", "error", "foreign"}
ASSUME SerialAssumption == Serial \in BOOLEAN

VARIABLES
    state,      \* Session::_state
    pc,         \* where each thread is; "unborn" before it is spawned
    call,       \* the API call in progress, or "none"
    goal, prev, \* per thread: argument and local `previous` of updateState
    held,       \* per thread: the RenderTask it has made, then the one it deletes
    dataFlow,   \* the worker of Session::_dataFlow, or None
    render,     \* the thread of Session::_render, or None
    run,        \* per worker: ThreadRunner::_run
    ending,     \* per thread: the result it hands to completeCb
    callbacks,  \* TRUE while _errorCb and _stateChangedCb exist
    aborted,    \* TRUE once the process was terminated
    \* What happened, for the properties:
    cut,        \* the workers that left their loop because _run was cleared
    parent,     \* per task: the thread that created it
    told        \* the state the last state-changed callback announced

vars == <<state, pc, call, goal, prev, held, dataFlow, render, run, ending,
          callbacks, aborted, cut, parent, told>>

history == <<cut, parent, told>>
life == <<callbacks, aborted>>

Constructed == state = "IDLE"

Init ==
    /\ Constructed
    /\ pc = [t \in Threads |-> IF t = App THEN "idle" ELSE "unborn"]
    /\ call = "none"
    /\ goal = [t \in Threads |-> "IDLE"]
    /\ prev = [t \in Threads |-> "IDLE"]
    /\ held = [t \in Threads |-> None]
    /\ dataFlow = None
    /\ render = None
    /\ run = [w \in Workers |-> FALSE]
    /\ ending = [t \in Workers \cup Tasks |-> "clean"]
    /\ callbacks = TRUE
    /\ aborted = FALSE
    /\ cut = {}
    /\ parent = [k \in Tasks |-> None]
    /\ told = "IDLE"

Fresh(t) == pc[t] = "unborn"
Ended(t) == pc[t] = "done"

\* A thread is in an unlocked section while it acts on a value of _state it
\* has read, or has spawned a thread whose existence _state does not show yet.
InSection(t) ==
    \/ pc[t] \in {"report", "check", "recheck", "launch", "adopt", "drop",
                  "restop", "read", "write", "notify"}
    \/ t = App /\ call = "start"
Busy == {t \in Threads : InSection(t)}
MayEnter == Serial => Busy = {}

Goto(t, l) == pc' = [pc EXCEPT ![t] = l]

----
(* updateState(current): read `previous`, store, notify on a change. *)

ReadPrevious(t) ==
    /\ pc[t] = "read"
    /\ prev' = [prev EXCEPT ![t] = state]
    /\ Goto(t, "write")
    /\ UNCHANGED <<state, call, goal, held, dataFlow, render, run, ending, life, history>>

WriteState(t) ==
    /\ pc[t] = "write"
    /\ state' = goal[t]
    /\ Goto(t, "notify")
    /\ UNCHANGED <<call, goal, prev, held, dataFlow, render, run, ending, life, history>>

\* Where updateState returns to: stop() goes on to _dataFlow->stop(), start()
\* to its caller, and completeCb ends its thread.
Return(t) ==
    IF t = App
    THEN /\ Goto(App, IF call = "start" THEN "idle" ELSE "halt")
         /\ call' = IF call = "start" THEN "none" ELSE call
    ELSE Goto(t, "done") /\ UNCHANGED call

Notify(t) ==
    /\ pc[t] = "notify"
    /\ Return(t)
    /\ told' = IF callbacks /\ prev[t] # goal[t] THEN goal[t] ELSE told
    /\ goal' = [goal EXCEPT ![t] = "IDLE"]   \* the locals are gone
    /\ prev' = [prev EXCEPT ![t] = "IDLE"]
    /\ UNCHANGED <<state, held, dataFlow, render, run, ending, life,
                   cut, parent>>

\* ~Session has destroyed _errorCb and _stateChangedCb, and a thread that still
\* completes tests and calls them: the pointer may be null (the steps above and
\* ReportError) or dangle.
UseDestroyed(t) ==
    /\ ~callbacks
    /\ \/ pc[t] = "notify" /\ prev[t] # goal[t]
       \/ pc[t] = "report" /\ ending[t] = "error"
    /\ aborted' = TRUE
    /\ UNCHANGED <<state, pc, call, goal, prev, held, dataFlow, render, run, ending,
                   callbacks, history>>

----
(* The application thread: start(), stop() and destroy(). *)

\* start() up to `_dataFlow = make_unique`: state guard, configuration guards
\* (a failing one changes no state of this module), then ~DataFlow of the old run.
StartCheckNoJoin ==   \* variant: the old DataFlow is not joined
    /\ "start" \in Calls
    /\ pc[App] = "idle"
    /\ state = "IDLE"
    /\ MayEnter
    /\ call' = "start"
    /\ Goto(App, "spawn")
    /\ UNCHANGED <<state, goal, prev, held, dataFlow, render, run, ending, life, history>>

StartCheck ==
    /\ "start" \in Calls
    /\ pc[App] = "idle"
    /\ state = "IDLE"
    /\ MayEnter
    /\ call' = "start"
    /\ Goto(App, IF dataFlow = None THEN "spawn" ELSE "halt")
    /\ UNCHANGED <<state, goal, prev, held, dataFlow, render, run, ending, life, history>>

\* ThreadRunner::stop(), first half: clear _run.
Halt ==
    /\ pc[App] = "halt"
    /\ run' = [run EXCEPT ![dataFlow] = FALSE]
    /\ Goto(App, "join")
    /\ UNCHANGED <<state, call, goal, prev, held, dataFlow, render, ending, life, history>>

JoinDetaches ==   \* variant: the thread is detached, not joined
    /\ pc[App] = "join"
    /\ Goto(App, CASE call = "start" -> "spawn"
                   [] call = "stop" -> "idle"
                   [] OTHER -> IF callbacks THEN "free" ELSE "gone")
    /\ call' = IF call = "stop" THEN "none" ELSE call
    /\ UNCHANGED <<state, goal, prev, held, dataFlow, render, run, ending, life, history>>

\* ThreadRunner::stop(), second half: join the worker, then go on with the call.
Join ==
    /\ pc[App] = "join"
    /\ Ended(dataFlow)
    /\ Goto(App, CASE call = "start" -> "spawn"
                   [] call = "stop" -> "idle"
                   [] OTHER -> IF callbacks THEN "free" ELSE "gone")
    /\ call' = IF call = "stop" THEN "none" ELSE call
    /\ UNCHANGED <<state, goal, prev, held, dataFlow, render, run, ending, life, history>>

\* DataFlow::start(): the worker runs before _state says so.
Spawn ==
    /\ pc[App] = "spawn"
    /\ \E w \in Workers :
        /\ Fresh(w)
        /\ dataFlow' = w
        /\ run' = [run EXCEPT ![w] = TRUE]
        /\ pc' = [pc EXCEPT ![App] = "read", ![w] = "analyse"]
    /\ goal' = [goal EXCEPT ![App] = "ANALYSIS"]
    /\ UNCHANGED <<state, call, prev, held, render, ending, life, history>>

StopCheckHaltsFirst ==   \* variant: _run is cleared before IDLE is stored
    /\ "stop" \in Calls
    /\ pc[App] = "idle"
    /\ state = "ANALYSIS"
    /\ dataFlow # None
    /\ MayEnter
    /\ call' = "stop"
    /\ goal' = [goal EXCEPT ![App] = "IDLE"]
    /\ Goto(App, "read")
    /\ run' = [run EXCEPT ![dataFlow] = FALSE]
    /\ UNCHANGED <<state, prev, held, dataFlow, render, ending, life, history>>

StopCheck ==
    /\ "stop" \in Calls
    /\ pc[App] = "idle"
    /\ state = "ANALYSIS"
    /\ dataFlow # None
    /\ MayEnter
    /\ call' = "stop"
    /\ goal' = [goal EXCEPT ![App] = "IDLE"]
    /\ Goto(App, "read")
    /\ UNCHANGED <<state, prev, held, dataFlow, render, run, ending, life, history>>

\* destroy(): without a run there is nothing to stop; IDLE joins the worker,
\* any other state calls stop(), which reads _state once more.
DestroyCheck ==
    /\ "destroy" \in Calls
    /\ pc[App] = "idle"
    /\ MayEnter
    /\ call' = "destroy"
    /\ Goto(App, CASE dataFlow = None -> "free"
                   [] dataFlow # None /\ state = "IDLE" -> "halt"
                   [] dataFlow # None /\ state # "IDLE" -> "restop")
    /\ UNCHANGED <<state, goal, prev, held, dataFlow, render, run, ending, life, history>>

DestroyStops ==
    /\ pc[App] = "restop"
    /\ state = "ANALYSIS"
    /\ goal' = [goal EXCEPT ![App] = "IDLE"]
    /\ Goto(App, "read")
    /\ UNCHANGED <<state, call, prev, held, dataFlow, render, run, ending, life, history>>

\* stop() throws "invalid _state"; ~Session logs it and goes on.
DestroyRefused ==
    /\ pc[App] = "restop"
    /\ state # "ANALYSIS"
    /\ Goto(App, "free")
    /\ UNCHANGED <<state, call, goal, prev, held, dataFlow, render, run, ending, life, history>>

\* The members die in reverse order: the callbacks first ...
FreeCallbacks ==
    /\ pc[App] = "free"
    /\ callbacks' = FALSE
    /\ Goto(App, "await")
    /\ UNCHANGED <<state, call, goal, prev, held, dataFlow, render, run, ending, aborted, history>>

DestroyRenderDetaches ==   \* variant: the future is dropped without get()
    /\ pc[App] = "await"
    /\ aborted' = (render # None /\ ending[render] = "foreign")
    /\ render' = None
    /\ Goto(App, IF dataFlow = None THEN "gone" ELSE "halt")
    /\ UNCHANGED <<state, call, goal, prev, held, dataFlow, run, ending, callbacks, history>>

\* ... then _render, whose destructor waits for the task and rethrows what the
\* task let through, then _dataFlow, whose destructor joins the worker.
DestroyRender ==
    /\ pc[App] = "await"
    /\ render # None => Ended(render)
    /\ aborted' = (render # None /\ ending[render] = "foreign")
    /\ render' = None
    /\ Goto(App, IF dataFlow = None THEN "gone" ELSE "halt")
    /\ UNCHANGED <<state, call, goal, prev, held, dataFlow, run, ending, callbacks, history>>

----
(* The worker and the render task, up to completeCb. *)

\* DataFlow::worker() leaves its loop: the media ended, an error was kept in
\* `ret`, or _run was cleared.  It clears _run and calls completeCb.
FinishAnalysis(w) ==
    /\ pc[w] = "analyse"
    /\ MayEnter
    /\ \E e \in {"clean", "error"} : ending' = [ending EXCEPT ![w] = e]
    /\ cut' = IF run[w] THEN cut ELSE cut \cup {w}
    /\ run' = [run EXCEPT ![w] = FALSE]
    /\ Goto(w, "report")
    /\ UNCHANGED <<state, call, goal, prev, held, dataFlow, render, life, parent, told>>

\* The render returns, or throws an ovi::Exception: completeCb is called.
FinishRender(k) ==
    /\ pc[k] = "render"
    /\ MayEnter
    /\ \E e \in Endings \ {"foreign"} : ending' = [ending EXCEPT ![k] = e]
    /\ Goto(k, "report")
    /\ UNCHANGED <<state, call, goal, prev, held, dataFlow, render, run, life, history>>

\* Any other exception ends up in the future, and completeCb is not called.
FinishRenderForeign(k) ==
    /\ pc[k] = "render"
    /\ "foreign" \in Endings
    /\ MayEnter
    /\ ending' = [ending EXCEPT ![k] = "foreign"]
    /\ Goto(k, "done")
    /\ UNCHANGED <<state, call, goal, prev, held, dataFlow, render, run, life, history>>

----
(* Session::completeCb, on the thread that has finished. *)

ReportErrorStays(t) ==   \* variant: the error is reported and the state kept
    /\ pc[t] = "report"
    /\ ending[t] = "error"
    /\ Goto(t, "done")
    /\ UNCHANGED <<state, call, goal, prev, held, dataFlow, render, run, ending, life, history>>

ReportError(t) ==
    /\ pc[t] = "report"
    /\ ending[t] = "error"
    /\ goal' = [goal EXCEPT ![t] = "IDLE"]
    /\ Goto(t, "read")
    /\ UNCHANGED <<state, call, prev, held, dataFlow, render, run, ending, life, history>>

ReportClean(t) ==
    /\ pc[t] = "report"
    /\ ending[t] = "clean"
    /\ Goto(t, "check")
    /\ UNCHANGED <<state, call, goal, prev, held, dataFlow, render, run, ending, life, history>>

CheckAnalysisNotRender(t) ==   \* variant: `if (_state != OVI_STATE_RENDER)`
    /\ pc[t] = "check"
    /\ Goto(t, IF state # "RENDER" THEN "launch" ELSE "recheck")
    /\ UNCHANGED <<state, call, goal, prev, held, dataFlow, render, run, ending, life, history>>

\* `if (_state == OVI_STATE_ANALYSIS)`
CheckAnalysis(t) ==
    /\ pc[t] = "check"
    /\ Goto(t, IF state = "ANALYSIS" THEN "launch" ELSE "recheck")
    /\ UNCHANGED <<state, call, goal, prev, held, dataFlow, render, run, ending, life, history>>

CheckRenderForgets(t) ==   \* variant: the end of the render stores no state
    /\ pc[t] = "recheck"
    /\ Goto(t, "done")
    /\ UNCHANGED <<state, call, goal, prev, held, dataFlow, render, run, ending, life, history>>

CheckRenderLocked(t) ==   \* variant: one lock for the API calls and completeCb
    /\ pc[t] = "recheck"
    /\ call = "none"
    /\ IF state = "RENDER"
       THEN Goto(t, "read") /\ goal' = [goal EXCEPT ![t] = "IDLE"]
       ELSE Goto(t, "done") /\ UNCHANGED goal
    /\ UNCHANGED <<state, call, prev, held, dataFlow, render, run, ending, life, history>>

\* `else if (_state == OVI_STATE_RENDER)`, else the session was stopped.
CheckRender(t) ==
    /\ pc[t] = "recheck"
    /\ IF state = "RENDER"
       THEN Goto(t, "read") /\ goal' = [goal EXCEPT ![t] = "IDLE"]
       ELSE Goto(t, "done") /\ UNCHANGED goal
    /\ UNCHANGED <<state, call, prev, held, dataFlow, render, run, ending, life, history>>

\* runRender(): the new RenderTask starts its thread in its constructor ...
LaunchRender(t) ==
    /\ pc[t] = "launch"
    /\ \E k \in Tasks :
        /\ Fresh(k)
        /\ pc' = [pc EXCEPT ![t] = "adopt", ![k] = "render"]
        /\ held' = [held EXCEPT ![t] = k]
        /\ parent' = [parent EXCEPT ![k] = t]
    /\ UNCHANGED <<state, call, goal, prev, dataFlow, render, run, ending, life, cut, told>>

\* ... is then stored in _render ...
AdoptRender(t) ==
    /\ pc[t] = "adopt"
    /\ render' = held[t]
    /\ held' = [held EXCEPT ![t] = render]
    /\ Goto(t, "drop")
    /\ UNCHANGED <<state, call, goal, prev, dataFlow, run, ending, life, history>>

\* ... and the RenderTask that was there is deleted: ~RenderTask waits for its
\* thread, for ever if that is the thread that deletes it, and rethrows a
\* foreign exception out of a destructor, which terminates the process.
DropRender(t) ==
    /\ pc[t] = "drop"
    /\ held[t] # None => Ended(held[t])
    /\ aborted' = (held[t] # None /\ ending[held[t]] = "foreign")
    /\ held' = [held EXCEPT ![t] = None]
    /\ goal' = [goal EXCEPT ![t] = "RENDER"]
    /\ Goto(t, "read")
    /\ UNCHANGED <<state, call, prev, dataFlow, render, run, ending, callbacks, history>>

----
Call == StartCheck \/ StopCheck \/ DestroyCheck

\* What the application thread does inside a call.
AppStep ==
    \/ ReadPrevious(App) \/ WriteState(App) \/ Notify(App)
    \/ Halt \/ Join \/ Spawn
    \/ DestroyStops \/ DestroyRefused \/ FreeCallbacks \/ DestroyRender

Completion(t) ==
    \/ ReportError(t) \/ ReportClean(t) \/ CheckAnalysis(t) \/ CheckRender(t)
    \/ LaunchRender(t) \/ AdoptRender(t) \/ DropRender(t)
    \/ ReadPrevious(t) \/ WriteState(t) \/ Notify(t) \/ UseDestroyed(t)

WorkerStep(w) == FinishAnalysis(w) \/ Completion(w)
TaskStep(k) == FinishRender(k) \/ FinishRenderForeign(k) \/ Completion(k)

Next ==
    /\ ~aborted
    /\ \/ Call
       \/ AppStep
       \/ \E w \in Workers : WorkerStep(w)
       \/ \E k \in Tasks : TaskStep(k)

Spec == Init /\ [][Next]_vars

\* The operating system runs every thread that can run; media are finite, so
\* an analysis and a render end.  Nothing obliges the application to call.
Fairness ==
    /\ WF_vars(~aborted /\ AppStep)
    /\ \A w \in Workers : WF_vars(~aborted /\ WorkerStep(w))
    /\ \A k \in Tasks : WF_vars(~aborted /\ TaskStep(k))

FairSpec == Spec /\ Fairness

----
(* Types and properties. *)

Labels == {"unborn", "idle", "halt", "join", "spawn", "restop", "free", "await",
           "gone", "analyse", "render", "report", "check", "recheck", "launch",
           "adopt", "drop", "read", "write", "notify", "done"}

TypeOK ==
    /\ state \in States
    /\ pc \in [Threads -> Labels]
    /\ call \in {"none", "start", "stop", "destroy"}
    /\ goal \in [Threads -> States]
    /\ prev \in [Threads -> States]
    /\ held \in [Threads -> Tasks \cup {None}]
    /\ dataFlow \in Workers \cup {None}
    /\ render \in Tasks \cup {None}
    /\ run \in [Workers -> BOOLEAN]
    /\ ending \in [Workers \cup Tasks -> {"clean", "error", "foreign"}]
    /\ callbacks \in BOOLEAN
    /\ aborted \in BOOLEAN
    /\ cut \subseteq Workers
    /\ parent \in [Tasks -> Workers \cup Tasks \cup {None}]
    /\ told \in States

Live(t) == pc[t] \notin {"unborn", "done"}
Quiet == /\ pc[App] = "idle"
         /\ \A t \in Workers \cup Tasks : ~Live(t)

\* However the threads interleave, two analyses never run at once: start() joins
\* the worker of the run before it (make_unique deletes the old DataFlow) even
\* when that worker is still on its way out of completeCb.
OneAnalysis ==
    \A v, w \in Workers : Live(v) /\ Live(w) => v = w

\* However the threads interleave, the partial result of an analysis that stop()
\* cut short is never rendered by its own completion, and neither is that of one
\* that failed: stop() stores IDLE before it clears _run.
CutNeverRenders ==
    \A k \in Tasks : parent[k] \in Workers =>
        parent[k] \notin cut /\ ending[parent[k]] = "clean"

\* However the threads interleave, stop() returns only when no worker runs.
StopJoins ==
    [][call = "stop" /\ call' = "none" => (\A w \in Workers : ~Live(w))']_vars

\* Between the unlocked sections the state tells the truth about the threads:
\* ANALYSIS means the worker analyses, RENDER that _render renders (or has died
\* of a foreign exception), IDLE that neither runs unless stop() or destroy() is
\* about to join it.  A render is only ever launched by an analysis.
StateTellsTruth ==
    Busy = {} /\ callbacks =>
        /\ state = "ANALYSIS" => /\ dataFlow # None /\ pc[dataFlow] = "analyse"
                                 /\ \A k \in Tasks : ~Live(k)
        /\ state = "RENDER" =>
            /\ render # None /\ parent[render] \in Workers
            /\ pc[render] = "render" \/ ending[render] = "foreign"
            /\ \A t \in Workers \cup Tasks : Live(t) => t = render
        /\ state = "IDLE" =>
            /\ \A k \in Tasks : ~Live(k)
            /\ \A w \in Workers : Live(w) => call # "none"

\* The render task let an exception through that it does not know.
RenderDied == \E k \in Tasks : ending[k] = "foreign"

\* A session with no thread left at work and no call in progress is IDLE, and so
\* accepts the next start(), unless its render task died of a foreign exception.
\* sessionTest.cpp (destroy_check) starts a session and loops until the RENDER ->
\* IDLE callback, which never comes otherwise.
NotStranded == Quiet /\ ~RenderDied => state = "IDLE"

\* runRender copies the accumulator only when no worker is appending to it.
RenderReadsFinished ==
    [][\A k \in Tasks : pc[k] = "unborn" /\ pc'[k] = "render" =>
         \A w \in Workers : pc[w] # "analyse"]_vars

\* delete returns only when every thread that uses the session has ended.
NoThreadOutlives ==
    pc[App] = "gone" => \A t \in Workers \cup Tasks : ~Live(t)

\* stop() and destroy() return, though they join a thread that may be completing.
CallsReturn == (call = "stop" ~> call = "none") /\ (call = "destroy" ~> pc[App] = "gone" \/ aborted)

\* What the application can see of a session: its state, and the last state it
\* was told.  An orderly session implements SessionLifeCycle.
LifeCycle == INSTANCE SessionLifeCycle WITH
    phase <- state, heard <- told, over <- call = "destroy" \/ RenderDied
LifeCycleSpec == LifeCycle!Spec
====
