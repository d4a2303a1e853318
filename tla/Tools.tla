---- MODULE Tools ----
(***************************************************************************)
(* The two programs that run one session and wait for its end: the command *)
(* line tool ovi_session and the Python script ovi_launcher.               *)
(*                                                                         *)
(* The session is what SessionLifeCycle promises, with errors: an error is *)
(* told to the error callback, then the session goes back to IDLE.  Its    *)
(* callbacks run on its own threads while the program's main thread sets   *)
(* up, starts, clears its flag and waits.                                  *)
(***************************************************************************)
EXTENDS Integers, Sequences

CONSTANT Programs   \* the programs to look at

ASSUME ProgramsAssumption == Programs \subseteq {"ovi_session", "ovi_launcher"}

VARIABLES
    program,
    pc,         \* main: "setup", "start", "clear", "spawn", "wait", "exit", "crashed"
    done,       \* calls of the setup made
    missing,    \* settings that were refused, and nobody looked
    session,    \* "none", "alive", "deleted"
    stopFlag,   \* stopFlag, or Statement.state
    keyboard,   \* the thread that waits for Enter: "none", "reading", "over"
    status,     \* the exit status
    phase, heard, over,   \* of SessionLifeCycle
    failing,    \* an error was reported, IDLE not stored yet
    \* For the properties:
    deletions,  \* calls of ovi_session_destroy
    cause       \* what the program was told: "error", "end", "enter"

lifeCycle == <<phase, heard, over>>
main == <<program, pc, done, missing, session, keyboard, status, deletions>>
vars == <<main, stopFlag, lifeCycle, failing, cause>>

LifeCycle == INSTANCE SessionLifeCycle

\* SessionManager::setup after the parser, and main() of the launcher.
Setup ==
    [ovi_session  |-> <<"parse", "create", "callbacks", "media", "render", "skip",
                        "plugins", "link">>,
     ovi_launcher |-> <<"create", "plugins", "link", "callbacks", "render", "skip", "media">>]
Calls == Setup[program]

Init ==
    /\ program \in Programs
    /\ pc = "setup"
    /\ done = 0
    /\ missing = {}
    /\ session = "none"
    /\ stopFlag = FALSE
    /\ keyboard = "none"
    /\ status = 0
    /\ LifeCycle!Init
    /\ failing = FALSE
    /\ deletions = 0
    /\ cause = {}

Goto(l) == pc' = l
Untouched == UNCHANGED <<lifeCycle, failing, cause>>

\* ~SessionManager, the catch block of setup, Session.__del__: nobody is told after it.
Delete ==
    IF session = "alive"
    THEN /\ session' = "deleted"
         /\ deletions' = deletions + 1
         /\ over' = TRUE
    ELSE UNCHANGED <<session, deletions, over>>

Leave(code) ==
    /\ Goto("exit")
    /\ status' = code
    /\ Delete
    /\ UNCHANGED <<program, done, missing, stopFlag, keyboard, phase, heard, failing, cause>>

Abandon(code) ==   \* variant: a failed setup does not destroy the session
    /\ Goto("exit")
    /\ status' = code
    /\ UNCHANGED <<program, done, missing, session, deletions, over, stopFlag, keyboard,
                   phase, heard, failing, cause>>
GiveUp(code) == Leave(code)

----
(* Setting up. *)

\* Without arguments the tool only shows its usage, and that is a success.
ShowUsage ==
    /\ pc = "setup"
    /\ program = "ovi_session"
    /\ done = 0
    /\ Leave(0)

Made(step) ==
    /\ done' = done + 1
    /\ session' = IF step = "create" THEN "alive" ELSE session
    /\ Goto(IF done + 1 = Len(Calls) THEN "start" ELSE "setup")
    /\ UNCHANGED <<program, stopFlag, keyboard, status, deletions>>

SetupCall ==
    /\ pc = "setup"
    /\ Made(Calls[done + 1])
    /\ UNCHANGED missing
    /\ Untouched

\* The tool throws at the first refusal.
Refused(step) ==
    /\ pc = "setup"
    /\ program = "ovi_session"
    /\ Calls[done + 1] = step
    /\ GiveUp(-1)

ArgumentsRefused == Refused("parse")
MediaRefused == Refused("media")      \* no path, or no file
RenderRefused == Refused("render")    \* no path, an attribute that is not the path
PluginsRefused == Refused("plugins")
LinkRefused == Refused("link")

\* parsePluginInfo reads behind the end of a vector for "plugin(key)".
ParseUndefined ==
    /\ pc = "setup"
    /\ program = "ovi_session"
    /\ Calls[done + 1] = "parse"
    /\ Goto("crashed")
    /\ UNCHANGED <<program, done, missing, session, stopFlag, keyboard, status, deletions>>
    /\ Untouched

\* The launcher does not look at what setters return, and goes on.
SetupIgnored ==
    /\ pc = "setup"
    /\ program = "ovi_launcher"
    /\ Calls[done + 1] \in {"link", "render", "media"}
    /\ Made(Calls[done + 1])
    /\ missing' = missing \cup {Calls[done + 1]}
    /\ Untouched

\* A plugin that does not load is None, on which encode() or bytes() raises.
PluginIsNone ==
    /\ pc = "setup"
    /\ program = "ovi_launcher"
    /\ Calls[done + 1] \in {"plugins", "render"}
    /\ Leave(1)

----
(* Starting and waiting. *)

Started(lc) ==
    /\ pc = "start"
    /\ Goto(IF program = "ovi_session" THEN "clear" ELSE "wait")
    /\ lc
    /\ UNCHANGED <<program, done, missing, session, stopFlag, keyboard, status, failing,
                   deletions, cause>>

Run == missing = {} /\ Started(LifeCycle!Start)

\* start() refuses.  The launcher does not look; and of an effect no render knows even
\* the tool is told 0.
RunRefused == pc = "start" /\ program = "ovi_session" /\ Leave(-1)
RunIgnored == Started(UNCHANGED lifeCycle)

Clear ==
    /\ pc = "clear"
    /\ stopFlag' = FALSE
    /\ Goto("spawn")
    /\ UNCHANGED <<program, done, missing, session, keyboard, status, deletions>>
    /\ Untouched

SpawnKeyboard ==
    /\ pc = "spawn"
    /\ keyboard' = "reading"
    /\ Goto("wait")
    /\ UNCHANGED <<program, done, missing, session, stopFlag, status, deletions>>
    /\ Untouched

Enter ==
    /\ keyboard = "reading"
    /\ pc = "wait"
    /\ keyboard' = "over"
    /\ stopFlag' = TRUE
    /\ cause' = cause \cup {"enter"}
    /\ UNCHANGED <<program, pc, done, missing, session, status, deletions, lifeCycle, failing>>

LoopEnds == pc = "wait" /\ stopFlag /\ Leave(0)

----
(* The session, on its own threads. *)

Alive == session = "alive" /\ pc \notin {"exit", "crashed"}

Advance == Alive /\ ~failing /\ LifeCycle!BeginRender /\ UNCHANGED <<main, stopFlag, failing, cause>>

\* The render is over, or an error has been reported.
Ends ==
    /\ Alive
    /\ phase = "RENDER" \/ failing
    /\ LifeCycle!End
    /\ failing' = FALSE
    /\ UNCHANGED <<main, stopFlag, cause>>

Dies == Alive /\ phase = "RENDER" /\ LifeCycle!GiveUp /\ UNCHANGED <<main, stopFlag, failing, cause>>

ErrorCbPrints == UNCHANGED stopFlag   \* variant: the tool only logs, as the launcher does
ErrorCb == IF program = "ovi_session" THEN stopFlag' = TRUE ELSE UNCHANGED stopFlag

ReportError ==
    /\ Alive
    /\ ~over /\ ~failing
    /\ phase # "IDLE" /\ heard = phase
    /\ failing' = TRUE
    /\ ErrorCb
    /\ cause' = cause \cup {"error"}
    /\ UNCHANGED <<main, lifeCycle>>

StateChangedCbIdle ==   \* variant: whatever it comes from
    /\ stopFlag' = IF phase = "IDLE" THEN TRUE ELSE stopFlag
    /\ cause' = IF heard = "RENDER" /\ phase = "IDLE" THEN cause \cup {"end"} ELSE cause
StateChangedCb ==
    IF heard = "RENDER" /\ phase = "IDLE"
    THEN /\ stopFlag' = IF program = "ovi_launcher" THEN ~stopFlag ELSE TRUE   \* toggle()
         /\ cause' = cause \cup {"end"}
    ELSE UNCHANGED <<stopFlag, cause>>

Tell ==
    /\ Alive
    /\ LifeCycle!Tell
    /\ StateChangedCb
    /\ UNCHANGED <<main, failing>>

\* The user data of the launcher's callbacks is freed when the setters return.
CallbackCrashes ==
    /\ Alive
    /\ program = "ovi_launcher"
    /\ heard # phase
    /\ Goto("crashed")
    /\ UNCHANGED <<program, done, missing, session, stopFlag, keyboard, status, deletions>>
    /\ Untouched

Main ==
    \/ ShowUsage
    \/ SetupCall \/ SetupIgnored \/ PluginIsNone \/ ParseUndefined
    \/ ArgumentsRefused \/ MediaRefused \/ RenderRefused \/ PluginsRefused \/ LinkRefused
    \/ Run \/ RunRefused \/ RunIgnored
    \/ Clear \/ SpawnKeyboard \/ LoopEnds

Threads == Advance \/ Ends \/ Tell

Next == Main \/ Enter \/ Threads \/ Dies \/ ReportError \/ CallbackCrashes

\* Every thread is scheduled; media and renders end; nobody has to press Enter.
Fairness == WF_vars(Main) /\ WF_vars(Threads)

Spec == Init /\ [][Next]_vars /\ Fairness

----
(* Properties. *)

\* Whoever leaves has destroyed the session it created, once: whichever call of the
\* setup failed, and however the run ended.
DeletedOnce ==
    /\ deletions <= 1
    /\ pc = "exit" => (session = "none" <=> deletions = 0) /\ session # "alive"

\* A program that had a session reports success only after a cause to leave its loop:
\* for ovi_session an error, the end of a render or Enter, for the launcher only the end
\* of a render.
LeavesForReason ==
    pc = "exit" /\ status = 0 /\ session # "none" =>
        IF program = "ovi_session" THEN cause # {} ELSE "end" \in cause

\* A program that waits and has seen the session run comes to its end: when the render
\* is over, or on an error in the tool.  Left out: a render that dies, the launcher's
\* callbacks crashing, an error in its analysis.  That the session must be seen to run
\* while the program waits is needed: what happens before the tool clears its flag is
\* forgotten, as is an error that was reported before.
WaitEnds ==
    (pc = "wait" /\ heard # "IDLE" /\ heard = phase /\ ~failing) ~>
        \/ pc \in {"exit", "crashed"}
        \/ over
        \/ program = "ovi_launcher" /\ "error" \in cause
====
