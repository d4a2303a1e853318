---- MODULE Session_proofs ----
(***************************************************************************)
(* What holds of a session for any pools of threads, any calls and any way *)
(* a render may end: first in every interleaving, then, where Serial says  *)
(* so, of sessions whose unlocked sections do not overlap, which implement *)
(* SessionLifeCycle.  At the end, of the programs that run one such        *)
(* session (Tools).                                                        *)
(***************************************************************************)
EXTENDS Session, Integers, Sequences, TLAPS

----
(* The invariant behind OneAnalysis, CutNeverRenders and StopJoins. *)

\* start() is about to spawn only when the last worker was joined.
OnlyCurrent ==
    /\ \A w \in Workers : Live(w) => w = dataFlow
    /\ pc[App] = "spawn" => \A w \in Workers : ~Live(w)

\* Only the application thread ever stores ANALYSIS, and only start() does.
StoresOfAnalysis ==
    /\ \A t \in Workers \cup Tasks : goal[t] # "ANALYSIS"
    /\ goal[App] = "ANALYSIS" => call = "start" /\ pc[App] \in {"read", "write", "notify"}
    /\ pc[App] = "idle" => call = "none"
    /\ pc[App] = "spawn" => call = "start"
    /\ pc[App] \in {"restop", "free", "await"} => call = "destroy"
    /\ pc[App] \in {"halt", "join", "read", "write", "notify"} =>
         dataFlow # None /\ call # "none"
    /\ pc[App] = "restop" => dataFlow # None
    /\ dataFlow = None => state # "ANALYSIS"

\* From the store of IDLE to the end of the call the state is not ANALYSIS.
NotAnalysing ==
    \/ pc[App] \in {"halt", "join", "spawn", "free", "await", "gone"}
    \/ pc[App] = "notify" /\ goal[App] # "ANALYSIS"
    => state # "ANALYSIS"

\* While a worker that was told to end is on its way out, the thread that told
\* it waits for it, and that worker never goes for the render.
CutIsJoined ==
    \A w \in Workers :
        /\ pc[w] = "analyse" /\ ~run[w] => pc[App] = "join"
        /\ w \in cut =>
            /\ pc[w] \notin {"unborn", "analyse", "launch", "adopt", "drop"}
            /\ Live(w) => pc[App] = "join"

\* A thread that has come as far as the checks ended cleanly, and a worker that
\* has created a render is past its report.
ParentsPast ==
    /\ \A t \in Workers \cup Tasks :
        pc[t] \in {"check", "launch"} => ending[t] = "clean"
    /\ \A k \in Tasks : parent[k] \in Workers =>
        pc[parent[k]] \notin {"unborn", "analyse", "report", "check", "launch"}

\* Worker and task threads never stand at a label of the application thread.
OwnLabels ==
    /\ \A t \in Workers \cup Tasks :
        pc[t] \notin {"idle", "halt", "join", "spawn", "restop", "free", "await", "gone"}
    /\ \A w \in Workers : pc[w] # "render"
    /\ \A k \in Tasks : pc[k] # "analyse"
    /\ pc[App] \notin {"unborn", "done"}

IInv ==
    /\ TypeOK
    /\ OnlyCurrent
    /\ StoresOfAnalysis
    /\ NotAnalysing
    /\ CutIsJoined
    /\ ParentsPast
    /\ OwnLabels
    /\ CutNeverRenders

----
\* One step of the proof per action.
LEMMA IInvKept == IInv /\ [Next]_vars => IInv'
<1> SUFFICES ASSUME IInv, [Next]_vars
             PROVE  IInv'
  OBVIOUS
<1> USE ThreadsDistinct, EndingsAssumption DEF IInv, TypeOK, Labels, States, Threads,
       Goto, history, life, Live, Ended, Fresh, OnlyCurrent, StoresOfAnalysis,
       NotAnalysing, CutIsJoined, ParentsPast, OwnLabels, CutNeverRenders
<1>1. CASE UNCHANGED vars
  BY <1>1 DEF vars
<1>2. ASSUME NEW t \in Threads, ReadPrevious(t) PROVE IInv'
  BY <1>2 DEF ReadPrevious
<1>3. ASSUME NEW t \in Threads, WriteState(t) PROVE IInv'
  BY <1>3 DEF WriteState
<1>4. ASSUME NEW t \in Threads, Notify(t) PROVE IInv'
  BY <1>4 DEF Notify, Return
<1>5. ASSUME NEW t \in Workers \cup Tasks, UseDestroyed(t) PROVE IInv'
  BY <1>5 DEF UseDestroyed
<1>6. CASE StartCheck
  BY <1>6 DEF StartCheck
<1>7. CASE Halt
  BY <1>7 DEF Halt
<1>8. CASE Join
  BY <1>8 DEF Join
<1>9. CASE Spawn
  BY <1>9 DEF Spawn
<1>10. CASE StopCheck
  BY <1>10 DEF StopCheck
<1>11. CASE DestroyCheck
  BY <1>11 DEF DestroyCheck
<1>12. CASE DestroyStops
  BY <1>12 DEF DestroyStops
<1>13. CASE DestroyRefused
  BY <1>13 DEF DestroyRefused
<1>14. CASE FreeCallbacks
  BY <1>14 DEF FreeCallbacks
<1>15. CASE DestroyRender
  BY <1>15 DEF DestroyRender
<1>16. ASSUME NEW w \in Workers, FinishAnalysis(w) PROVE IInv'
  BY <1>16 DEF FinishAnalysis
<1>17. ASSUME NEW k \in Tasks, FinishRender(k) \/ FinishRenderForeign(k) PROVE IInv'
  <2>1. CASE FinishRender(k)
    BY <2>1 DEF FinishRender
  <2>2. CASE FinishRenderForeign(k)
    BY <2>2 DEF FinishRenderForeign
  <2> QED
    BY <1>17, <2>1, <2>2
<1>18. ASSUME NEW t \in Workers \cup Tasks, ReportError(t) \/ ReportClean(t) PROVE IInv'
  BY <1>18 DEF ReportError, ReportClean
<1>19. ASSUME NEW t \in Workers \cup Tasks, CheckAnalysis(t) \/ CheckRender(t) PROVE IInv'
  BY <1>19 DEF CheckAnalysis, CheckRender
<1>20. ASSUME NEW t \in Workers \cup Tasks, LaunchRender(t) PROVE IInv'
  BY <1>20 DEF LaunchRender
<1>21. ASSUME NEW t \in Workers \cup Tasks, AdoptRender(t) PROVE IInv'
  BY <1>21 DEF AdoptRender
<1>22. ASSUME NEW t \in Workers \cup Tasks, DropRender(t) PROVE IInv'
  BY <1>22 DEF DropRender
<1> HIDE DEF IInv
<1> QED
  BY <1>1, <1>2, <1>3, <1>4, <1>5, <1>6, <1>7, <1>8, <1>9, <1>10, <1>11, <1>12,
     <1>13, <1>14, <1>15, <1>16, <1>17, <1>18, <1>19, <1>20, <1>21, <1>22
     DEF Next, Call, AppStep, WorkerStep, TaskStep, Completion

----
LEMMA InitIInv == Init => IInv
<1> SUFFICES ASSUME Init PROVE IInv
  OBVIOUS
<1> USE ThreadsDistinct DEF Init, Constructed, Threads
<1>1. TypeOK
  <2>1. pc \in [Threads -> Labels]
    BY DEF Labels
  <2> QED
    BY <2>1 DEF TypeOK, States
<1>2. OnlyCurrent /\ CutIsJoined /\ ParentsPast /\ OwnLabels /\ CutNeverRenders
  BY DEF OnlyCurrent, CutIsJoined, ParentsPast, OwnLabels, CutNeverRenders, Live
<1>3. StoresOfAnalysis /\ NotAnalysing
  BY DEF StoresOfAnalysis, NotAnalysing
<1> QED
  BY <1>1, <1>2, <1>3 DEF IInv

LEMMA InductiveInvariant == Spec => []IInv
  BY InitIInv, IInvKept, PTL DEF Spec

\* Every variable keeps its type.
THEOREM TypeCorrect == Spec => []TypeOK
<1>1. IInv => TypeOK
  BY DEF IInv
<1> QED
  BY InductiveInvariant, <1>1, PTL

\* start() joins the worker of the run before, so two workers never run at once.
THEOREM OneAnalysisHolds == Spec => []OneAnalysis
<1>1. IInv => OneAnalysis
  BY DEF IInv, OnlyCurrent, OneAnalysis
<1> QED
  BY InductiveInvariant, <1>1, PTL

\* The partial result of a stopped analysis, or of a failed one, is never
\* rendered by its own completion.
THEOREM CutNeverRendersHolds == Spec => []CutNeverRenders
<1>1. IInv => CutNeverRenders
  BY DEF IInv
<1> QED
  BY InductiveInvariant, <1>1, PTL

\* When stop() returns no worker runs.
THEOREM StopJoinsHolds == Spec => StopJoins
<1> DEFINE Returns == call = "stop" /\ call' = "none"
           NoneLive == \A w \in Workers : ~Live(w)
<1>1. IInv /\ [Next]_vars => (Returns => NoneLive')
  <2> SUFFICES ASSUME IInv, [Next]_vars, Returns PROVE NoneLive'
    OBVIOUS
  <2> USE ThreadsDistinct DEF IInv, TypeOK, OnlyCurrent, Live, Ended, Goto
  <2>1. CASE Join
    BY <2>1 DEF Join, Threads
  <2>2. CASE \E t \in Threads : Notify(t)
    BY <2>2 DEF Notify, Return
  <2>3. CASE ~Join /\ ~\E t \in Threads : Notify(t)
    <3>1. call' = call \/ call' \in {"start", "stop", "destroy"}
      BY <2>3 DEF Next, Call, AppStep, WorkerStep, TaskStep, Completion, Threads, vars,
         ReadPrevious, WriteState, UseDestroyed, StartCheck, Halt, Spawn, StopCheck,
         DestroyCheck, DestroyStops, DestroyRefused, FreeCallbacks, DestroyRender,
         FinishAnalysis, FinishRender, FinishRenderForeign, ReportError, ReportClean,
         CheckAnalysis, CheckRender, LaunchRender, AdoptRender, DropRender
    <3> QED
      BY <3>1
  <2> QED
    BY <2>1, <2>2, <2>3
<1>2. IInv /\ [Next]_vars =>
        [call = "stop" /\ call' = "none" => (\A w \in Workers : ~Live(w))']_vars
  BY <1>1
<1> HIDE DEF Returns, NoneLive
<1> QED
  BY InductiveInvariant, <1>2, PTL DEF Spec, StopJoins

----
(* Orderly sessions: Serial.  The invariant says, of the one thread that is in a *)
(* section and of those that are in none, where it stands and what it may count on. *)

NoWorker == \A w \in Workers : ~Live(w)
NoTask == \A k \in Tasks : ~Live(k)
OnlyTask(k) == k \in Tasks /\ \A j \in Tasks : Live(j) => j = k

\* The analysis is on, or was ended by a stop() or destroy() that waits for its worker.
Analysing == state = "ANALYSIS" /\ pc[App] = "idle"
Stopped == state = "IDLE" /\ callbacks /\ pc[App] \in {"halt", "join"} /\ call # "start"

\* This is what Serial is for.
OneSection == \A s, t \in Threads : InSection(s) /\ InSection(t) => s = t

\* The labels of a call, and who still runs when the application has come there.
AppPlace ==
    /\ pc[App] = "idle" <=> call = "none"
    /\ call = "start" => pc[App] \in {"halt", "join", "spawn", "read", "write", "notify"}
    /\ call = "stop" => pc[App] \in {"read", "write", "notify", "halt", "join"}
    /\ ~callbacks => call = "destroy" /\ pc[App] \in {"await", "halt", "join", "gone"}
    /\ pc[App] \in {"await", "gone"} => ~callbacks
    /\ pc[App] \notin {"unborn", "done", "analyse", "render", "report", "check",
                       "recheck", "launch", "adopt", "drop"}
    /\ pc[App] = "restop" => state # "IDLE"
    /\ pc[App] \in {"halt", "join", "spawn"} => NoTask /\ (callbacks => state = "IDLE")
    /\ pc[App] \in {"spawn", "free", "await", "gone"} => NoWorker
    /\ pc[App] \in {"halt", "join"} /\ (call = "start" \/ ~callbacks) => NoWorker
    /\ pc[App] = "gone" => NoTask
    /\ pc[App] \in {"read", "write", "notify"} =>
        /\ NoTask
        /\ dataFlow # None /\ pc[dataFlow] = "analyse"
        /\ goal[App] = IF call = "start" THEN "ANALYSIS" ELSE "IDLE"
        /\ state = IF call = "start" <=> pc[App] = "notify" THEN "ANALYSIS" ELSE "IDLE"

\* A worker works and completes in ANALYSIS, or after a stop; there is no render but
\* the one it has made.
WorkerPlace == \A w \in Workers :
    /\ pc[w] = "analyse" =>
        /\ NoTask
        /\ \/ Analysing \/ Stopped
           \/ pc[App] \in {"read", "write", "notify"}
           \/ pc[App] = "restop" /\ state = "ANALYSIS"
    /\ pc[w] \in {"report", "check"} => NoTask /\ (Analysing \/ Stopped)
    /\ pc[w] = "recheck" => NoTask /\ Stopped
    /\ pc[w] = "launch" => NoTask /\ Analysing
    /\ pc[w] = "adopt" =>
        Analysing /\ OnlyTask(held[w]) /\ pc[held[w]] = "render" /\ parent[held[w]] = w
    /\ pc[w] = "drop" =>
        Analysing /\ OnlyTask(render) /\ pc[render] = "render" /\ parent[render] = w
    /\ pc[w] \in {"read", "write", "notify"} =>
        /\ goal[w] \in {"IDLE", "RENDER"}
        /\ goal[w] = "RENDER" =>
            /\ pc[App] = "idle"
            /\ OnlyTask(render) /\ pc[render] = "render" /\ parent[render] = w
            /\ state = IF pc[w] = "notify" THEN "RENDER" ELSE "ANALYSIS"
        /\ goal[w] = "IDLE" =>
            /\ NoTask
            /\ IF pc[w] = "notify" THEN state = "IDLE" /\ (pc[App] = "idle" \/ Stopped)
               ELSE Analysing \/ Stopped

\* A task renders in RENDER, when its worker has ended, or that worker is on its way
\* there; it completes alone.
TaskPlace == \A k \in Tasks :
    /\ goal[k] = "IDLE"
    /\ Live(k) /\ pc[k] # "render" =>
        /\ k = render /\ NoWorker
        /\ pc[k] \in {"report", "check", "recheck", "read", "write", "notify"}
        /\ pc[App] \in {"idle", "free", "await"}
        /\ state = IF pc[k] = "notify" THEN "IDLE" ELSE "RENDER"
    /\ pc[k] = "render" =>
        \/ /\ k = render /\ NoWorker /\ state = "RENDER"
           /\ pc[App] \in {"idle", "restop", "free", "await"}
        \/ \E w \in Workers : pc[w] = "adopt" /\ held[w] = k
        \/ \E w \in Workers : k = render /\ pc[w] = "drop"
        \/ \E w \in Workers :
            k = render /\ pc[w] \in {"read", "write", "notify"} /\ goal[w] = "RENDER"

\* ANALYSIS has a worker.  RENDER has a render, which lives or died of an exception.
StateMeans ==
    /\ state = "ANALYSIS" =>
        /\ dataFlow # None /\ Live(dataFlow) /\ pc[dataFlow] # "recheck"
        /\ pc[App] \in {"idle", "restop", "read", "write", "notify"}
    /\ state = "RENDER" =>
        /\ call \notin {"start", "stop"}
        /\ \/ /\ render # None /\ parent[render] \in Workers
              /\ Live(render) \/ ending[render] = "foreign"
           \/ pc[App] \in {"halt", "join", "gone"}

\* A render that died leaves the session in RENDER, with nothing running.
DiedAlone ==
    /\ \A k \in Tasks : ending[k] = "foreign" =>
        /\ pc[k] = "done" /\ state = "RENDER" /\ NoTask /\ NoWorker
        /\ call \notin {"start", "stop"}
    /\ \A w \in Workers : ending[w] # "foreign"

\* The application was told the state, or is about to be told of the one change.
ToldInStep == callbacks =>
    /\ \A t \in Threads : pc[t] = "notify" => told = prev[t] /\ state = goal[t]
    /\ \A t \in Threads : pc[t] = "write" => prev[t] = state
    /\ (\A t \in Threads : pc[t] # "notify") => told = state

Orderly ==
    /\ OneSection
    /\ AppPlace
    /\ WorkerPlace
    /\ TaskPlace
    /\ StateMeans
    /\ DiedAlone
    /\ ToldInStep

\* A thread that may enter a section finds no other in one: a worker that lives is
\* analysing, a task that lives is rendering.
LEMMA Outside ==
    ASSUME Serial, IInv, MayEnter
    PROVE  /\ \A t \in Threads : ~InSection(t)
           /\ \A w \in Workers : Live(w) => pc[w] = "analyse"
           /\ \A k \in Tasks : Live(k) => pc[k] = "render"
  BY ThreadsDistinct
     DEF IInv, MayEnter, Busy, InSection, OwnLabels, Live, Threads, TypeOK, Labels

\* In ANALYSIS, when the section is not the worker's, the worker is analysing.
LEMMA Alone ==
    ASSUME IInv, Orderly, state = "ANALYSIS", InSection(App)
    PROVE  dataFlow \in Workers /\ pc[dataFlow] = "analyse" /\ NoTask
<1>1. dataFlow \in Workers /\ Live(dataFlow)
  BY DEF IInv, TypeOK, Orderly, StateMeans
<1>2. ~InSection(dataFlow)
  BY <1>1, ThreadsDistinct DEF Orderly, OneSection, Threads
<1>3. pc[dataFlow] = "analyse"
  BY <1>1, <1>2, ThreadsDistinct
     DEF IInv, InSection, OwnLabels, Live, Threads, TypeOK, Labels
<1> QED
  BY <1>1, <1>3 DEF Orderly, WorkerPlace

LEMMA OrderlyKept == Serial /\ IInv /\ Orderly /\ [Next]_vars => Orderly'
<1> SUFFICES ASSUME Serial, IInv, Orderly, [Next]_vars
             PROVE  Orderly'
  OBVIOUS
<1> USE ThreadsDistinct, EndingsAssumption DEF IInv, Orderly, TypeOK, States, Threads,
       Goto, history, life, Live, Ended, Fresh, OwnLabels, OnlyCurrent,
       StoresOfAnalysis, CutIsJoined, NoWorker, NoTask, OnlyTask, Analysing, Stopped,
       InSection, OneSection, AppPlace, WorkerPlace, TaskPlace, StateMeans, DiedAlone,
       ToldInStep
<1>1. CASE UNCHANGED vars
  BY <1>1 DEF vars
<1>2. ASSUME NEW t \in Threads, ReadPrevious(t) PROVE Orderly'
  BY <1>2 DEF ReadPrevious
<1>3. ASSUME NEW t \in Threads, WriteState(t) PROVE Orderly'
  BY <1>3 DEF WriteState
<1>4. ASSUME NEW t \in Threads, Notify(t) PROVE Orderly'
  BY <1>4, SMTT(30) DEF Notify, Return
<1>5. ASSUME NEW t \in Workers \cup Tasks, UseDestroyed(t) PROVE Orderly'
  BY <1>5 DEF UseDestroyed
<1>6. CASE StartCheck
  BY <1>6, Outside DEF StartCheck
<1>7. CASE Halt
  BY <1>7 DEF Halt
<1>8. CASE Join
  BY <1>8 DEF Join
<1>9. CASE Spawn
  BY <1>9, SMTT(30) DEF Spawn
<1>10. CASE StopCheck
  BY <1>10, Outside DEF StopCheck
<1>11. CASE DestroyCheck
  BY <1>11, Outside DEF DestroyCheck
<1>12. CASE DestroyStops
  <2>1. dataFlow \in Workers /\ pc[dataFlow] = "analyse" /\ NoTask
    BY <1>12, Alone DEF DestroyStops
  <2> QED
    BY <1>12, <2>1 DEF DestroyStops
<1>13. CASE DestroyRefused
  BY <1>13 DEF DestroyRefused
<1>14. CASE FreeCallbacks
  BY <1>14 DEF FreeCallbacks
<1>15. CASE DestroyRender
  BY <1>15, SMTT(30) DEF DestroyRender
<1>16. ASSUME NEW w \in Workers, FinishAnalysis(w) PROVE Orderly'
  BY <1>16, Outside DEF FinishAnalysis
<1>17. ASSUME NEW k \in Tasks, FinishRender(k) \/ FinishRenderForeign(k) PROVE Orderly'
  <2>1. k = render /\ NoWorker /\ state = "RENDER" /\ pc[App] \in {"idle", "free", "await"}
    BY <1>17, Outside DEF FinishRender, FinishRenderForeign
  <2>2. \A t \in Threads : ~InSection(t)
    BY <1>17, Outside DEF FinishRender, FinishRenderForeign
  <2>3. CASE FinishRender(k)
    BY <2>1, <2>2, <2>3 DEF FinishRender
  <2>4. CASE FinishRenderForeign(k)
    BY <2>1, <2>2, <2>4 DEF FinishRenderForeign
  <2> QED
    BY <1>17, <2>3, <2>4
<1>18. ASSUME NEW t \in Workers \cup Tasks, ReportError(t) \/ ReportClean(t) PROVE Orderly'
  BY <1>18, SMTT(30) DEF ReportError, ReportClean
<1>19. ASSUME NEW t \in Workers \cup Tasks, CheckAnalysis(t) \/ CheckRender(t) PROVE Orderly'
  BY <1>19, SMTT(30) DEF CheckAnalysis, CheckRender
<1>20. ASSUME NEW t \in Workers \cup Tasks, LaunchRender(t) PROVE Orderly'
  <2>1. t \in Workers /\ Analysing /\ NoTask
    BY <1>20 DEF LaunchRender
  <2>2. \A s \in Threads : InSection(s) => s = t
    BY <1>20 DEF LaunchRender
  <2>3. \A w \in Workers : Live(w) => w = t
    BY <1>20, <2>1 DEF LaunchRender
  <2>4. PICK k \in Tasks :
          /\ Fresh(k)
          /\ pc' = [pc EXCEPT ![t] = "adopt", ![k] = "render"]
          /\ held' = [held EXCEPT ![t] = k]
          /\ parent' = [parent EXCEPT ![k] = t]
    BY <1>20 DEF LaunchRender
  <2>5. UNCHANGED <<state, call, goal, prev, dataFlow, render, run, ending, callbacks, told>>
    BY <1>20 DEF LaunchRender
  <2>6. WorkerPlace'
    BY <2>1, <2>2, <2>3, <2>4, <2>5, <1>20 DEF LaunchRender
  <2>7. TaskPlace'
    BY <2>1, <2>2, <2>3, <2>4, <2>5, <1>20 DEF LaunchRender
  <2>8. OneSection' /\ AppPlace' /\ StateMeans' /\ DiedAlone' /\ ToldInStep'
    BY <2>1, <2>2, <2>3, <2>4, <2>5, <1>20 DEF LaunchRender
  <2> QED
    BY <2>6, <2>7, <2>8
<1>21. ASSUME NEW t \in Workers \cup Tasks, AdoptRender(t) PROVE Orderly'
  BY <1>21, SMTT(30) DEF AdoptRender
<1>22. ASSUME NEW t \in Workers \cup Tasks, DropRender(t) PROVE Orderly'
  BY <1>22 DEF DropRender
<1> HIDE DEF Orderly
<1> QED
  BY <1>1, <1>2, <1>3, <1>4, <1>5, <1>6, <1>7, <1>8, <1>9, <1>10, <1>11, <1>12,
     <1>13, <1>14, <1>15, <1>16, <1>17, <1>18, <1>19, <1>20, <1>21, <1>22
     DEF Next, Call, AppStep, WorkerStep, TaskStep, Completion

LEMMA InitOrderly == Init => Orderly
<1> SUFFICES ASSUME Init PROVE Orderly
  OBVIOUS
<1> USE ThreadsDistinct DEF Init, Constructed, Threads, Live, NoWorker, NoTask
<1>1. OneSection /\ AppPlace
  BY DEF OneSection, InSection, AppPlace
<1>2. WorkerPlace /\ TaskPlace
  BY DEF WorkerPlace, TaskPlace
<1>3. StateMeans /\ DiedAlone /\ ToldInStep
  BY DEF StateMeans, DiedAlone, ToldInStep
<1> QED
  BY <1>1, <1>2, <1>3 DEF Orderly

LEMMA OrderlyInvariant == ASSUME Serial PROVE Spec => [](IInv /\ Orderly)
<1>1. Init => IInv /\ Orderly
  BY InitIInv, InitOrderly
<1>2. IInv /\ Orderly /\ [Next]_vars => (IInv /\ Orderly)'
  BY Serial, IInvKept, OrderlyKept
<1> QED
  BY <1>1, <1>2, PTL DEF Spec

\* The state an orderly session shows is the truth about its threads.
THEOREM StateTellsTruthHolds == ASSUME Serial PROVE Spec => []StateTellsTruth
<1>1. IInv /\ Orderly => StateTellsTruth
  <2> SUFFICES ASSUME IInv, Orderly, Busy = {}, callbacks
               PROVE  /\ state = "ANALYSIS" =>
                            /\ dataFlow # None /\ pc[dataFlow] = "analyse"
                            /\ \A k \in Tasks : ~Live(k)
                      /\ state = "RENDER" =>
                            /\ render # None /\ parent[render] \in Workers
                            /\ pc[render] = "render" \/ ending[render] = "foreign"
                            /\ \A t \in Workers \cup Tasks : Live(t) => t = render
                      /\ state = "IDLE" =>
                            /\ \A k \in Tasks : ~Live(k)
                            /\ \A w \in Workers : Live(w) => call # "none"
    BY DEF StateTellsTruth
  <2>1. /\ \A w \in Workers : Live(w) => pc[w] = "analyse"
        /\ \A k \in Tasks : Live(k) => pc[k] = "render"
    BY Serial, Outside DEF MayEnter
  <2> USE <2>1 DEF IInv, TypeOK, Orderly, NoWorker, NoTask
  <2>2. CASE state = "ANALYSIS"
    BY <2>2 DEF StateMeans, WorkerPlace
  <2>3. CASE state = "RENDER"
    BY <2>3 DEF StateMeans, WorkerPlace, TaskPlace, AppPlace, Analysing, Stopped, Live, DiedAlone
  <2>4. CASE state = "IDLE"
    BY <2>4 DEF WorkerPlace, TaskPlace, AppPlace, Analysing, Stopped
  <2> QED
    BY <2>2, <2>3, <2>4
<1> QED
  BY OrderlyInvariant, <1>1, PTL

\* When no thread is left at work the session is IDLE, unless its render died.
THEOREM NotStrandedHolds == ASSUME Serial PROVE Spec => []NotStranded
<1>1. IInv /\ Orderly => NotStranded
  BY DEF IInv, TypeOK, States, Orderly, NotStranded, Quiet, RenderDied, StateMeans,
         AppPlace, Threads
<1> QED
  BY OrderlyInvariant, <1>1, PTL

\* When delete has returned no thread uses the session any more.
THEOREM NoThreadOutlivesHolds == ASSUME Serial PROVE Spec => []NoThreadOutlives
<1>1. IInv /\ Orderly => NoThreadOutlives
  BY DEF Orderly, AppPlace, NoWorker, NoTask, NoThreadOutlives
<1> QED
  BY OrderlyInvariant, <1>1, PTL

\* A render is created only when the worker has finished what it will read.
THEOREM RenderReadsFinishedHolds == ASSUME Serial PROVE Spec => RenderReadsFinished
<1> DEFINE Reads == \A k \in Tasks : pc[k] = "unborn" /\ pc'[k] = "render" =>
                        \A w \in Workers : pc[w] # "analyse"
<1>1. IInv /\ Orderly /\ [Next]_vars => Reads
  <2> SUFFICES ASSUME IInv, Orderly, [Next]_vars,
                      NEW k \in Tasks, pc[k] = "unborn", pc'[k] = "render",
                      NEW w \in Workers
               PROVE  pc[w] # "analyse"
    OBVIOUS
  <2>1. PICK t \in Workers \cup Tasks : LaunchRender(t)
    BY ThreadsDistinct
       DEF Next, Call, AppStep, WorkerStep, TaskStep, Completion, Threads, vars, Goto,
           IInv, TypeOK, ReadPrevious, WriteState, Notify, Return, UseDestroyed, StartCheck,
           Halt, Join, Spawn, StopCheck, DestroyCheck, DestroyStops, DestroyRefused,
           FreeCallbacks, DestroyRender, FinishAnalysis, FinishRender, FinishRenderForeign,
           ReportError, ReportClean, CheckAnalysis, CheckRender, AdoptRender, DropRender
  <2>2. t \in Workers /\ pc[t] = "launch"
    BY <2>1 DEF LaunchRender, Orderly, TaskPlace, Live
  <2> QED
    BY <2>2 DEF IInv, OnlyCurrent, Live
<1> HIDE DEF Reads
<1>2. IInv /\ Orderly /\ [Next]_vars => [Reads]_vars
  BY <1>1
<1>3. Spec => [][Reads]_vars
  BY OrderlyInvariant, <1>2, PTL DEF Spec
<1> QED
  BY <1>3 DEF Reads, RenderReadsFinished

----
(* An orderly session implements SessionLifeCycle, its liveness apart. *)

Over == call = "destroy" \/ RenderDied

LEMMA InitImplements == Init => LifeCycle!Init
  BY ThreadsDistinct DEF Init, Constructed, RenderDied, LifeCycle!Init

\* A session that is over stays so: no call follows destroy(), no dead task is revived.
LEMMA OverStays == IInv /\ Orderly /\ Over /\ [Next]_vars => Over'
<1> SUFFICES ASSUME IInv, Orderly, Over, [Next]_vars
             PROVE  Over'
  OBVIOUS
<1>1. CASE call = "destroy"
  <2> QED
    BY <1>1, ThreadsDistinct
       DEF Over, Next, Call, AppStep, WorkerStep, TaskStep, Completion, Threads, vars,
           IInv, Orderly, AppPlace, ReadPrevious, WriteState, Notify, Return, UseDestroyed,
           StartCheck, Halt, Join, Spawn, StopCheck, DestroyCheck, DestroyStops,
           DestroyRefused, FreeCallbacks, DestroyRender, FinishAnalysis, FinishRender,
           FinishRenderForeign, ReportError, ReportClean, CheckAnalysis, CheckRender,
           LaunchRender, AdoptRender, DropRender
<1>2. CASE RenderDied
  <2>1. PICK k \in Tasks : ending[k] = "foreign" /\ pc[k] = "done"
    BY <1>2 DEF RenderDied, Orderly, DiedAlone
  <2>2. ending'[k] = "foreign"
    BY <2>1, ThreadsDistinct
       DEF Next, Call, AppStep, WorkerStep, TaskStep, Completion, Threads, vars,
           IInv, TypeOK, ReadPrevious, WriteState, Notify, Return, UseDestroyed,
           StartCheck, Halt, Join, Spawn, StopCheck, DestroyCheck, DestroyStops,
           DestroyRefused, FreeCallbacks, DestroyRender, FinishAnalysis, FinishRender,
           FinishRenderForeign, ReportError, ReportClean, CheckAnalysis, CheckRender,
           LaunchRender, AdoptRender, DropRender
  <2> QED
    BY <2>2 DEF Over, RenderDied
<1> QED
  BY <1>1, <1>2 DEF Over

\* Before that, the steps that store the state are its changes, those that notify tell
\* it, and the session ends between two of them; no other step shows.
LEMMA StepImplements ==
    ASSUME Serial, IInv, Orderly, ~Over, Next
    PROVE  LifeCycle!Next \/ UNCHANGED <<state, told, Over>>
<1> USE DEF Over
<1>1. callbacks
  BY DEF Orderly, AppPlace
<1>2. ASSUME UNCHANGED <<state, told, call, ending>>
      PROVE  UNCHANGED <<state, told, Over>>
  BY <1>2 DEF RenderDied
<1>3. ASSUME UNCHANGED <<state, told>>, MayEnter, Over'
      PROVE  LifeCycle!Next
  <2>1. told = state
    BY <1>1, <1>3, Outside DEF Orderly, ToldInStep, InSection
  <2> QED
    BY <1>3, <2>1 DEF LifeCycle!Next, LifeCycle!GiveUp
<1>4. ASSUME NEW t \in Threads, WriteState(t)
      PROVE  LifeCycle!Next \/ UNCHANGED <<state, told, Over>>
  <2>1. UNCHANGED <<told, Over>> /\ state' = goal[t] /\ pc[t] = "write"
    BY <1>4 DEF WriteState, history, RenderDied
  <2>2. told = state
    BY <1>1, <2>1 DEF Orderly, ToldInStep, OneSection, InSection
  <2>3. \/ state = "IDLE" /\ goal[t] \in {"IDLE", "ANALYSIS"}
        \/ state = "ANALYSIS" /\ goal[t] \in {"IDLE", "RENDER"}
        \/ state = "RENDER" /\ goal[t] = "IDLE"
    BY <2>1 DEF Threads, Orderly, AppPlace, WorkerPlace, TaskPlace, Live, Analysing, Stopped
  <2> QED
    BY <2>1, <2>2, <2>3
       DEF LifeCycle!Next, LifeCycle!Start, LifeCycle!BeginRender, LifeCycle!End,
           LifeCycle!Change
<1>5. ASSUME NEW t \in Threads, Notify(t)
      PROVE  LifeCycle!Next \/ UNCHANGED <<state, told, Over>>
  <2>1. told = prev[t] /\ state = goal[t]
    BY <1>1, <1>5 DEF Notify, Orderly, ToldInStep
  <2>2. state' = state /\ told' = state
    BY <1>1, <1>5, <2>1 DEF Notify
  <2>3. ~Over'
    BY <1>5 DEF Notify, Return, RenderDied
  <2> QED
    BY <2>1, <2>2, <2>3 DEF LifeCycle!Next, LifeCycle!Tell
<1>6. CASE DestroyCheck
  BY <1>3, <1>6 DEF DestroyCheck, history
<1>7. ASSUME NEW k \in Tasks, FinishRenderForeign(k)
      PROVE  LifeCycle!Next
  <2>1. ending'[k] = "foreign"
    BY <1>7, ThreadsDistinct DEF FinishRenderForeign, IInv, TypeOK
  <2> QED
    BY <1>3, <1>7, <2>1 DEF FinishRenderForeign, RenderDied, history
<1>8. ASSUME NEW w \in Workers \cup Tasks, FinishAnalysis(w) \/ FinishRender(w)
      PROVE  UNCHANGED <<state, told, Over>>
  <2>1. \A k \in Tasks : ending'[k] = "foreign" <=> ending[k] = "foreign"
    BY <1>8, ThreadsDistinct
       DEF FinishAnalysis, FinishRender, IInv, TypeOK, RenderDied
  <2> QED
    BY <1>8, <2>1 DEF FinishAnalysis, FinishRender, RenderDied, history
<1>9. CASE StartCheck \/ StopCheck \/ Join
  BY <1>9, <1>1 DEF StartCheck, StopCheck, Join, RenderDied, history
<1>10. CASE \/ Halt \/ Spawn \/ DestroyStops \/ DestroyRefused \/ FreeCallbacks \/ DestroyRender
            \/ \E t \in Threads :
                  \/ ReadPrevious(t) \/ UseDestroyed(t) \/ ReportError(t) \/ ReportClean(t)
                  \/ CheckAnalysis(t) \/ CheckRender(t)
                  \/ LaunchRender(t) \/ AdoptRender(t) \/ DropRender(t)
  <2>1. UNCHANGED <<state, told, call, ending>>
    BY <1>10
       DEF ReadPrevious, UseDestroyed, Halt, Spawn, DestroyStops, DestroyRefused,
           FreeCallbacks, DestroyRender, ReportError, ReportClean, CheckAnalysis,
           CheckRender, LaunchRender, AdoptRender, DropRender, history
  <2> QED
    BY <1>2, <2>1
<1> HIDE DEF Over
<1> QED
  BY <1>4, <1>5, <1>6, <1>7, <1>8, <1>9, <1>10
     DEF Next, Call, AppStep, WorkerStep, TaskStep, Completion, Threads

\* An orderly session implements the safety part of SessionLifeCycle: what it shows its
\* application starts IDLE, changes only along the life cycle, and every change is told
\* before the next.
THEOREM LifeCycleHolds ==
    ASSUME Serial
    PROVE  Spec => LifeCycle!Init /\ [][LifeCycle!Next]_(LifeCycle!vars)
<1>1. IInv /\ Orderly /\ [Next]_vars => [LifeCycle!Next]_(LifeCycle!vars)
  <2> SUFFICES ASSUME IInv, Orderly, [Next]_vars
               PROVE  LifeCycle!Next \/ UNCHANGED <<state, told, Over>>
    BY DEF LifeCycle!vars, Over
  <2>1. CASE Over
    BY <2>1, OverStays DEF LifeCycle!Next, LifeCycle!AfterTheEnd, Over
  <2>2. CASE ~Over /\ Next
    BY <2>2, Serial, StepImplements
  <2>3. CASE UNCHANGED vars
    BY <2>3 DEF vars, Over, RenderDied
  <2> QED
    BY <2>1, <2>2, <2>3
<1> QED
  BY InitImplements, OrderlyInvariant, <1>1, PTL DEF Spec

----
(* The programs that run one session, over the variables of a program of their own. *)

VARIABLES program, at, done, missing, session, stopFlag, keyboard, status,
          phase, heard, over, failing, deletions, cause

Tool == INSTANCE Tools WITH pc <- at, Programs <- {"ovi_session", "ovi_launcher"}

\* The session exists from the call that creates it, in both orders of the setup, until
\* the program leaves; every call of ovi_session_destroy was one for it.
SessionInStep ==
    /\ at \in {"setup", "start", "clear", "spawn", "wait", "exit", "crashed"}
    /\ done \in Nat
    /\ deletions = IF session = "deleted" THEN 1 ELSE 0
    /\ session \in {"none", "alive", "deleted"}
    /\ session = "deleted" => at = "exit"
    /\ session = "alive" => at # "exit"
    /\ at = "setup" =>
         /\ done < Len(Tool!Calls)
         /\ session = "none" <=> done < (IF program = "ovi_session" THEN 2 ELSE 1)

\* What is enough to leave the loop with success.
Reason == IF program = "ovi_session" THEN cause # {} ELSE "end" \in cause

\* The flag is set only by what is remembered as a cause, and only the tool reads Enter.
FlagHasReason ==
    /\ program \in {"ovi_session", "ovi_launcher"}
    /\ stopFlag => Reason
    /\ at \in {"clear", "spawn"} \/ keyboard = "reading" => program = "ovi_session"
    /\ at = "exit" /\ status = 0 => Reason \/ session = "none"

ToolInv == SessionInStep /\ FlagHasReason

LEMMA ToolInitial == Tool!Init => ToolInv
  BY DEF Tool!Init, ToolInv, SessionInStep, FlagHasReason, Reason, Tool!Calls, Tool!Setup

\* A call of the setup that was made: the session exists from its creation on.
LEMMA SetupMade ==
    ASSUME ToolInv, NEW c, at = "setup", c = Tool!Calls[done + 1], Tool!Made(c),
           UNCHANGED cause
    PROVE  ToolInv'
<1>1. Tool!Calls' = Tool!Calls
  BY DEF Tool!Calls, Tool!Made
<1>2. \/ program = "ovi_session" /\ Len(Tool!Calls) = 8 /\ (c = "create" <=> done = 1)
      \/ program = "ovi_launcher" /\ Len(Tool!Calls) = 7 /\ (c = "create" <=> done = 0)
  <2>1. CASE program = "ovi_session"
    <3>1. Tool!Calls = <<"parse", "create", "callbacks", "media", "render", "skip",
                         "plugins", "link">>
      BY <2>1 DEF Tool!Calls, Tool!Setup
    <3>2. done \in 0 .. 7
      BY <3>1 DEF ToolInv, SessionInStep
    <3> QED
      BY <2>1, <3>1, <3>2
  <2>2. CASE program = "ovi_launcher"
    <3>1. Tool!Calls = <<"create", "plugins", "link", "callbacks", "render", "skip", "media">>
      BY <2>2 DEF Tool!Calls, Tool!Setup
    <3>2. done \in 0 .. 6
      BY <3>1 DEF ToolInv, SessionInStep
    <3> QED
      BY <2>2, <3>1, <3>2
  <2> QED
    BY <2>1, <2>2 DEF ToolInv, FlagHasReason
<1> HIDE DEF Tool!Calls
<1> QED
  BY <1>1, <1>2
     DEF ToolInv, SessionInStep, FlagHasReason, Reason, Tool!Made, Tool!Goto

\* Leaving destroys the session that exists.
LEMMA Left ==
    ASSUME ToolInv, at \notin {"exit", "crashed"}, NEW code, Tool!Leave(code),
           code = 0 => Reason \/ session = "none"
    PROVE  ToolInv'
  BY DEF ToolInv, SessionInStep, FlagHasReason, Reason, Tool!Leave, Tool!Delete, Tool!Goto

\* What happens on the session's own threads moves neither the program nor its session.
LEMMA Apart ==
    ASSUME ToolInv, UNCHANGED <<program, at, done, session, status, deletions, keyboard>>,
           cause \subseteq cause', stopFlag' => Reason'
    PROVE  ToolInv'
<1>1. Tool!Calls' = Tool!Calls
  BY DEF Tool!Calls
<1> HIDE DEF Tool!Calls
<1> QED
  BY <1>1 DEF ToolInv, SessionInStep, FlagHasReason, Reason

LEMMA ToolInvKept == ToolInv /\ [Tool!Next]_(Tool!vars) => ToolInv'
<1> SUFFICES ASSUME ToolInv, [Tool!Next]_(Tool!vars)
             PROVE  ToolInv'
  OBVIOUS
<1> HIDE DEF ToolInv
<1>1. CASE Tool!SetupCall \/ Tool!SetupIgnored
  BY <1>1, SetupMade DEF Tool!SetupCall, Tool!SetupIgnored, Tool!Untouched
<1>2. CASE \/ Tool!ArgumentsRefused \/ Tool!MediaRefused \/ Tool!RenderRefused
           \/ Tool!PluginsRefused \/ Tool!LinkRefused \/ Tool!PluginIsNone \/ Tool!RunRefused
  BY <1>2, Left
     DEF Tool!ArgumentsRefused, Tool!MediaRefused, Tool!RenderRefused, Tool!PluginsRefused,
         Tool!LinkRefused, Tool!PluginIsNone, Tool!RunRefused, Tool!Refused, Tool!GiveUp
<1>3. CASE Tool!LoopEnds
  BY <1>3, Left DEF Tool!LoopEnds, ToolInv, FlagHasReason
<1>10. CASE Tool!ShowUsage
  <2>1. session = "none"
    BY <1>10 DEF Tool!ShowUsage, ToolInv, SessionInStep
  <2> QED
    BY <1>10, <2>1, Left DEF Tool!ShowUsage
<1>4. CASE Tool!ParseUndefined \/ Tool!CallbackCrashes
  BY <1>4 DEF Tool!ParseUndefined, Tool!CallbackCrashes, Tool!Untouched, Tool!Goto, Tool!Alive,
              ToolInv, SessionInStep, FlagHasReason, Reason
<1>5. CASE Tool!Run \/ Tool!RunIgnored
  BY <1>5 DEF Tool!Run, Tool!RunIgnored, Tool!Started, Tool!Goto,
              ToolInv, SessionInStep, FlagHasReason, Reason
<1>6. CASE Tool!Clear \/ Tool!SpawnKeyboard
  BY <1>6 DEF Tool!Clear, Tool!SpawnKeyboard, Tool!Untouched, Tool!Goto,
              ToolInv, SessionInStep, FlagHasReason, Reason
<1>7. CASE Tool!Enter
  BY <1>7 DEF Tool!Enter, ToolInv, SessionInStep, FlagHasReason, Reason
<1>8. CASE Tool!Advance \/ Tool!Ends \/ Tool!Dies \/ UNCHANGED (Tool!vars)
  BY <1>8, Apart
     DEF Tool!Advance, Tool!Ends, Tool!Dies, Tool!vars, Tool!main, ToolInv, FlagHasReason, Reason
<1>9. CASE Tool!Tell \/ Tool!ReportError
  <2>1. stopFlag' => Reason'
    BY <1>9 DEF Tool!Tell, Tool!ReportError, Tool!StateChangedCb, Tool!ErrorCb, Tool!main,
                ToolInv, FlagHasReason, Reason
  <2> QED
    BY <1>9, <2>1, Apart
       DEF Tool!Tell, Tool!ReportError, Tool!StateChangedCb, Tool!main
<1> QED
  BY <1>10, <1>1, <1>2, <1>3, <1>4, <1>5, <1>6, <1>7, <1>8, <1>9
     DEF Tool!Next, Tool!Main, Tool!Threads

LEMMA ToolInvariant == Tool!Spec => []ToolInv
  BY ToolInitial, ToolInvKept, PTL DEF Tool!Spec

\* What the variables of a program may hold.
ToolTypes ==
    /\ missing \subseteq {"link", "render", "media"}
    /\ stopFlag \in BOOLEAN
    /\ keyboard \in {"none", "reading", "over"}
    /\ status \in {-1, 0, 1}
    /\ phase \in {"IDLE", "ANALYSIS", "RENDER"} /\ heard \in {"IDLE", "ANALYSIS", "RENDER"}
    /\ over \in BOOLEAN /\ failing \in BOOLEAN
    /\ cause \subseteq {"error", "end", "enter"}

LEMMA ToolTypesKept == ToolTypes /\ [Tool!Next]_(Tool!vars) => ToolTypes'
<1> SUFFICES ASSUME ToolTypes, [Tool!Next]_(Tool!vars)
             PROVE  ToolTypes'
  OBVIOUS
<1> USE DEF ToolTypes, Tool!lifeCycle, Tool!main, Tool!Goto, Tool!Untouched
<1>1. ASSUME NEW code \in {-1, 0, 1}, Tool!Leave(code) PROVE ToolTypes'
  BY <1>1 DEF Tool!Leave, Tool!Delete
<1>2. CASE \/ Tool!ArgumentsRefused \/ Tool!MediaRefused \/ Tool!RenderRefused
           \/ Tool!PluginsRefused \/ Tool!LinkRefused \/ Tool!PluginIsNone
           \/ Tool!RunRefused \/ Tool!LoopEnds \/ Tool!ShowUsage
  <2>1. \E code \in {-1, 0, 1} : Tool!Leave(code)
    BY <1>2
       DEF Tool!ArgumentsRefused, Tool!MediaRefused, Tool!RenderRefused, Tool!PluginsRefused,
           Tool!LinkRefused, Tool!PluginIsNone, Tool!RunRefused, Tool!LoopEnds, Tool!Refused,
           Tool!GiveUp, Tool!ShowUsage
  <2> QED
    BY <1>1, <2>1
<1>3. CASE Tool!SetupCall \/ Tool!SetupIgnored
  <2>1. UNCHANGED <<stopFlag, keyboard, status, phase, heard, over, failing, cause>>
    BY <1>3 DEF Tool!SetupCall, Tool!SetupIgnored, Tool!Made
  <2>2. missing' \subseteq {"link", "render", "media"}
    <3>1. \/ missing' = missing
          \/ \E c \in {"link", "render", "media"} : missing' = missing \cup {c}
      BY <1>3 DEF Tool!SetupCall, Tool!SetupIgnored
    <3> QED
      BY <3>1
  <2> QED
    BY <2>1, <2>2
<1>4. CASE \/ Tool!ParseUndefined \/ Tool!CallbackCrashes \/ Tool!Clear \/ Tool!SpawnKeyboard
           \/ Tool!Enter
  <2>1. UNCHANGED <<missing, status, phase, heard, over, failing>>
    BY <1>4 DEF Tool!ParseUndefined, Tool!CallbackCrashes, Tool!Clear, Tool!SpawnKeyboard,
                Tool!Enter
  <2>2. stopFlag' \in BOOLEAN
    BY <1>4 DEF Tool!ParseUndefined, Tool!CallbackCrashes, Tool!Clear, Tool!SpawnKeyboard,
                Tool!Enter
  <2>3. keyboard' \in {"none", "reading", "over"}
    BY <1>4 DEF Tool!ParseUndefined, Tool!CallbackCrashes, Tool!Clear, Tool!SpawnKeyboard,
                Tool!Enter
  <2>4. cause' = cause \cup {"enter"} \/ cause' = cause
    BY <1>4 DEF Tool!ParseUndefined, Tool!CallbackCrashes, Tool!Clear, Tool!SpawnKeyboard,
                Tool!Enter
  <2> QED
    BY <2>1, <2>2, <2>3, <2>4
<1>5. CASE Tool!Run \/ Tool!RunIgnored
  BY <1>5 DEF Tool!Run, Tool!RunIgnored, Tool!Started, Tool!LifeCycle!Start, Tool!LifeCycle!Change
<1>6. CASE Tool!Advance \/ Tool!Ends \/ Tool!Dies \/ UNCHANGED (Tool!vars)
  BY <1>6
     DEF Tool!Advance, Tool!Ends, Tool!Dies, Tool!vars, Tool!LifeCycle!BeginRender,
         Tool!LifeCycle!End, Tool!LifeCycle!GiveUp, Tool!LifeCycle!Change
<1>7. CASE Tool!Tell
  <2>1. heard' = phase /\ UNCHANGED <<phase, over, failing, missing, keyboard, status>>
    BY <1>7 DEF Tool!Tell, Tool!LifeCycle!Tell
  <2>2. stopFlag' \in BOOLEAN
    <3> DEFINE set == TRUE
    <3>1. stopFlag' \in {set, ~stopFlag, stopFlag}
      BY <1>7 DEF Tool!Tell, Tool!StateChangedCb
    <3>2. set \in BOOLEAN
      OBVIOUS
    <3> HIDE DEF set
    <3> QED
      BY <3>1, <3>2
  <2>3. cause' = cause \cup {"end"} \/ cause' = cause
    BY <1>7 DEF Tool!Tell, Tool!StateChangedCb
  <2> QED
    BY <2>1, <2>2, <2>3
<1>8. CASE Tool!ReportError
  <2>1. /\ UNCHANGED <<phase, heard, over, missing, keyboard, status>>
        /\ failing' = TRUE /\ cause' = cause \cup {"error"}
    BY <1>8 DEF Tool!ReportError
  <2>2. stopFlag' \in BOOLEAN
    BY <1>8 DEF Tool!ReportError, Tool!ErrorCb
  <2> QED
    BY <2>1, <2>2
<1> QED
  BY <1>2, <1>3, <1>4, <1>5, <1>6, <1>7, <1>8 DEF Tool!Next, Tool!Main, Tool!Threads

\* What the variables of both programs may hold, how far each has come in its setup, and
\* what becomes of its session.
THEOREM ToolTypeCorrect == Tool!Spec => [](ToolTypes /\ SessionInStep)
<1>1. Tool!Init => ToolTypes
  BY DEF Tool!Init, Tool!LifeCycle!Init, ToolTypes
<1>2. ToolInv => SessionInStep
  BY DEF ToolInv
<1> QED
  BY <1>1, <1>2, ToolInvariant, ToolTypesKept, PTL DEF Tool!Spec

\* Both programs, however their setup fails and their run ends, leave with the session they
\* created destroyed, and destroyed once (~SessionManager, the catch block of setup,
\* Session.__del__).
THEOREM DeletedOnceHolds == Tool!Spec => []Tool!DeletedOnce
<1>1. ToolInv => Tool!DeletedOnce
  BY DEF ToolInv, SessionInStep, Tool!DeletedOnce
<1> QED
  BY ToolInvariant, <1>1, PTL

\* With a session the tool ends with success only after an error, the end of a render or
\* Enter, and the launcher only after the end of a render (the loops on stopFlag and
\* Statement.state).
THEOREM LeavesForReasonHolds == Tool!Spec => []Tool!LeavesForReason
<1>1. ToolInv => Tool!LeavesForReason
  BY DEF ToolInv, FlagHasReason, Reason, Tool!LeavesForReason
<1> QED
  BY ToolInvariant, <1>1, PTL
====
