---- MODULE Configuration ----
(***************************************************************************)
(* What an application may say to a session through the C API, and what    *)
(* start() makes of it: the setters of Session, PluginManager and          *)
(* PluginLoader::load, the guards and validations of start(), and the      *)
(* exceptions that become error codes - or do not.                         *)
(*                                                                         *)
(* One application thread; a call is one step.  What the threads of a      *)
(* started session do to each other is module Session; here a run only     *)
(* goes on (Proceed) while the application calls.                          *)
(***************************************************************************)
EXTENDS Sequences, PluginCatalogue

CONSTANTS
    Uids,       \* the uids makeId() hands out; bounds the plugins loaded
    NameOf,     \* the name each uid is made from: the plugin the application wants
    Settings,   \* the <<uid, attribute map>> pairs the application may set
    Requests,   \* the expressions it may link
    Media,      \* the paths it may set: "missing", "locked", "broken" or a file
    Streams,    \* the streams of each file that opens
    Skips,      \* values of skip_frames
    Callbacks,  \* which of the three callbacks it sets
    None        \* an empty uid, path or request

ASSUME NameOfAssumption == NameOf \in [Uids -> DOMAIN Catalogue \cup {"unknown"}]
ASSUME StreamsAssumption == \A m \in Media \ {"missing", "locked", "broken"} :
                                Streams[m] \subseteq {"video", "audio"}
ASSUME RequestsAssumption == Requests \subseteq Seq(Uids \cup {"&", "|", ":", "~"})

VARIABLES
    state,      \* Session::_state
    media,      \* _mediaPath
    loaded,     \* the uids in PluginManager::_loadedPlugins
    attrs,      \* Plugin::attrs, per uid
    applied,    \* the attributes setAttrs() gave the plugin object, per uid
    request,    \* the expression of _logicAnalyzer
    render,     \* _renderUid; _outputFilePath is set with it
    callbacks,  \* the callbacks that are set
    skip,       \* _skipFrames
    opened,     \* the media _frameExtractor and _mediaInfo are about
    answer,     \* what the last call returned
    ended,      \* "no", or how the process ended: "destroyed", "terminated", "undefined"
    run         \* for the properties: the configuration start() accepted, or None

settings == <<media, loaded, attrs, request, render, callbacks, skip>>
vars == <<state, settings, applied, opened, answer, ended, run>>

Configuration == settings
Type(u) == Catalogue[NameOf[u]].type
Form(u) == Catalogue[NameOf[u]].form

Link == INSTANCE LinkExpression WITH
            Detectors <- {u \in loaded : Type(u) # "effect"},
            Effects <- {u \in loaded : Type(u) = "effect"}

Init ==
    /\ state = "IDLE"
    /\ media = None
    /\ loaded = {}
    /\ attrs = [u \in Uids |-> NoAttrs]
    /\ applied = [u \in Uids |-> NoAttrs]
    /\ request = None
    /\ render = None
    /\ callbacks = {}
    /\ skip = 0
    /\ opened = None
    /\ answer = "NONE"
    /\ ended = "no"
    /\ run = None

----
(* What Session makes of a call.  The verdict is the code of the exception it *)
(* throws, "NONE", or how the process ends.                                   *)

Ends == {"terminated", "undefined"}

Conclude(verdict) ==
    /\ ended' = IF verdict \in Ends THEN verdict ELSE ended
    /\ answer' = IF verdict \in Ends THEN answer ELSE verdict

\* A setter: refuse in any state but IDLE, then what the parameter deserves.
Verdict(parameter) == IF state # "IDLE" THEN "INVALID_STATE" ELSE parameter

Running == <<state, applied, opened, run>>

SetMediaPath(path) ==
    LET verdict == Verdict(CASE path = "" -> "INVALID_PARAMETER"
                             [] path = "missing" -> "NO_SUCH_FILE"
                             [] OTHER -> "NONE")
    IN /\ Conclude(verdict)
       \* canonical() answers an empty path for errors that are not looked at
       /\ media' = IF verdict # "NONE" THEN media
                   ELSE IF path = "locked" THEN None ELSE path
       /\ UNCHANGED <<Running, loaded, attrs, request, render, callbacks, skip>>

SetCallback(c, function) ==
    LET verdict == Verdict(IF function = None THEN "INVALID_PARAMETER" ELSE "NONE")
    IN /\ Conclude(verdict)
       /\ callbacks' = IF verdict = "NONE" THEN callbacks \cup {c} ELSE callbacks
       /\ UNCHANGED <<Running, media, loaded, attrs, request, render, skip>>

UnsetCallback(c) ==
    LET verdict == Verdict(IF c \in callbacks THEN "NONE" ELSE "INVALID_OPERATION")
    IN /\ Conclude(verdict)
       /\ callbacks' = IF verdict = "NONE" THEN callbacks \ {c} ELSE callbacks
       /\ UNCHANGED <<Running, media, loaded, attrs, request, render, skip>>

\* PluginLoader::load, create: a known name makes a plugin.
Creatable(name) == name \in DOMAIN Catalogue

AppendPlugin(u) ==
    LET verdict == Verdict(IF Creatable(NameOf[u]) THEN "NONE" ELSE "INVALID_OPERATION")
    IN /\ u \notin loaded
       /\ Conclude(verdict)
       /\ loaded' = IF verdict = "NONE" THEN loaded \cup {u} ELSE loaded
       /\ UNCHANGED <<Running, media, attrs, request, render, callbacks, skip>>

SetPluginAttrsAnyTime(u, more) ==   \* variant: the state is not asked
    /\ Conclude(IF u \in loaded THEN "NONE" ELSE "INVALID_PARAMETER")
    /\ attrs' = IF u \in loaded THEN [attrs EXCEPT ![u] = Assigned(@, more)] ELSE attrs
    /\ UNCHANGED <<Running, media, loaded, request, render, callbacks, skip>>

SetPluginAttrs(u, more) ==
    LET verdict == Verdict(IF u \in loaded THEN "NONE" ELSE "INVALID_PARAMETER")
    IN /\ Conclude(verdict)
       /\ attrs' = IF verdict = "NONE" THEN [attrs EXCEPT ![u] = Assigned(@, more)]
                   ELSE attrs
       /\ UNCHANGED <<Running, media, loaded, request, render, callbacks, skip>>

\* Building a LogicAnalyzer of "~ : e" goes through a null pointer.
RegisterPlugin(s) ==
    LET verdict == Verdict(IF ~Link!ValidLogic(s) THEN "INVALID_PARAMETER"
                           ELSE IF Link!UsesNullNode(s) THEN "undefined" ELSE "NONE")
    IN /\ Conclude(verdict)
       /\ request' = IF verdict = "NONE" THEN s ELSE request
       /\ UNCHANGED <<Running, media, loaded, attrs, render, callbacks, skip>>

SetRenderEarly(u) ==   \* variant: the uid is stored before its type is looked at
    LET verdict == Verdict(IF u \notin loaded \/ Type(u) # "render"
                           THEN "INVALID_PARAMETER" ELSE "NONE")
    IN /\ Conclude(verdict)
       /\ render' = IF state = "IDLE" /\ u \in loaded THEN u ELSE render
       /\ UNCHANGED <<Running, media, loaded, attrs, request, callbacks, skip>>

SetRender(u) ==
    LET verdict == Verdict(IF u \notin loaded \/ Type(u) # "render"
                           THEN "INVALID_PARAMETER" ELSE "NONE")
    IN /\ Conclude(verdict)
       /\ render' = IF verdict = "NONE" THEN u ELSE render
       /\ UNCHANGED <<Running, media, loaded, attrs, request, callbacks, skip>>

SetSkipVideoFrames(n) == skip' = n

----
(* start(): guards, validate_link, the frame extractor, validate,             *)
(* validateAttrs, setAllAttrs.  Each verdict is "fine" or how start() ends.   *)

GuardVerdict ==
    IF state # "IDLE" THEN "INVALID_STATE"
    ELSE IF request = None \/ None \in {media, render} THEN "INVALID_OPERATION"
    ELSE "fine"

\* PluginManager::getMetaForm of a render, for an effect.  FFmpegEffectSpec throws
\* METAFORM_NONE, which is 0, as its error code.
EffectForm(u, name) ==
    IF NameOf[u] = "OTIORender" THEN "ANY"
    ELSE IF KnowsEffect(name) THEN InputForms[name] ELSE "throws"

\* The positions validate_link looks at, and the operand before the operator there.  What
\* follows "&" is looked up for its type, and what follows ":" for its attributes: there
\* is no plugin "~" in either case.
Attached(s, i) ==
    /\ i > 1
    /\ s[i] \notin Link!Operators
    /\ \/ s[i - 1] = ":"
       \/ s[i - 1] = "&" /\ (s[i] = Link!Uncut \/ Type(s[i]) = "effect")
DetectOf(s, i) == s[i - 2]

AttachmentVerdictOfMarker(s, i) ==   \* variant: the marker's own metaform is compared
    IF s[i] = Link!Uncut THEN "INVALID_PARAMETER"
    ELSE IF "name" \notin DOMAIN attrs[s[i]] THEN "terminated"
    ELSE IF EffectForm(render, attrs[s[i]].name) = "throws" THEN "NONE"
    ELSE IF EqualMetaForm(Form(s[i]), "NONE") THEN "fine" ELSE "INVALID_OPERATION"

\* A render that is an operand is asked itself, for an effect without a name.
AttachmentVerdict(s, i) ==
    IF s[i] = Link!Uncut THEN "INVALID_PARAMETER"              \* find() throws
    ELSE IF "name" \notin DOMAIN attrs[s[i]] THEN "terminated" \* map::at
    ELSE IF DetectOf(s, i) = Link!Uncut THEN "undefined"       \* find() == end()
    ELSE LET form == EffectForm(render, attrs[s[i]].name)
             operand == DetectOf(s, i)
             detected == IF Type(operand) = "render" THEN EffectForm(operand, "")
                         ELSE Form(operand)
         IN IF "throws" \in {form, detected} THEN "NONE"
            ELSE IF EqualMetaForm(detected, form) THEN "fine" ELSE "INVALID_OPERATION"

LinkVerdict(s) ==
    LET bad == {i \in DOMAIN s : Attached(s, i) /\ AttachmentVerdict(s, i) # "fine"}
    IN IF bad = {} THEN "fine" ELSE AttachmentVerdict(s, Min(bad))

StreamsVerdict(streams) ==
    IF \E u \in loaded : Type(u) # "render" /\ Catalogue[NameOf[u]].stream \notin streams
    THEN "INVALID_OPERATION" ELSE "fine"

EffectVerdict(u) ==
    IF attrs[u] = NoAttrs THEN "INVALID_OPERATION"
    ELSE IF NameOf[render] = "OTIORender" THEN "fine" ELSE ValidatorVerdict(attrs[u])

\* Plugins are visited in the order of their uids; of several that are not fine
\* any may be met first here.
AttrsVerdicts ==
    LET bad == {u \in loaded : Type(u) = "effect" /\ EffectVerdict(u) # "fine"}
    IN IF bad = {} THEN {"fine"} ELSE {EffectVerdict(u) : u \in bad}

\* setAttrs() of a plugin object: a marker takes the map, or keeps what it had when
\* there is no name in it; a detector that reads a number from garbage throws.
Apply(u) ==
    IF Type(u) # "effect" THEN Assigned(applied[u], attrs[u])
    ELSE IF "name" \in DOMAIN attrs[u] THEN attrs[u] ELSE applied[u]
ApplyVerdict ==
    IF \E u \in loaded : Type(u) = "detect" /\ \E k \in DOMAIN attrs[u] :
                                                attrs[u][k] = "garbage"
    THEN "terminated" ELSE "fine"

StartRefused ==
    LET verdict == IF GuardVerdict # "fine" THEN GuardVerdict ELSE LinkVerdict(request)
    IN /\ verdict # "fine"
       /\ Conclude(verdict)
       /\ UNCHANGED <<Running, settings>>

Admitted == GuardVerdict = "fine" /\ LinkVerdict(request) = "fine"

StartCannotOpen ==
    /\ Admitted
    /\ media = "broken"
    /\ Conclude("NOT_SUPPORTED_MEDIA")
    /\ UNCHANGED <<Running, settings>>

\* The extractor of the new media is in place when a later check fails.
StartInvalid ==
    /\ Admitted
    /\ media # "broken"
    /\ opened' = media
    /\ \E verdict \in IF StreamsVerdict(Streams[media]) # "fine"
                      THEN {StreamsVerdict(Streams[media])}
                      ELSE IF AttrsVerdicts # {"fine"} THEN AttrsVerdicts
                      ELSE {ApplyVerdict} :
            verdict # "fine" /\ Conclude(verdict)
    /\ UNCHANGED <<settings, state, applied, run>>

Reopens == opened' = media

StartRuns ==
    /\ Admitted
    /\ media # "broken"
    /\ Reopens
    /\ StreamsVerdict(Streams[media]) = "fine"
    /\ AttrsVerdicts = {"fine"}
    /\ ApplyVerdict = "fine"
    /\ applied' = [u \in Uids |-> IF u \in loaded /\ attrs[u] # NoAttrs
                                  THEN Apply(u) ELSE applied[u]]
    /\ state' = "ANALYSIS"
    /\ run' = Configuration
    /\ Conclude("NONE")
    /\ UNCHANGED settings

Start == StartRefused \/ StartCannotOpen \/ StartInvalid \/ StartRuns

----
(* The rest of the life of a session. *)

Goto(s) == state' = s /\ run' = IF s = "IDLE" THEN None ELSE run

Stop ==
    /\ Conclude(IF state = "ANALYSIS" THEN "NONE" ELSE "INVALID_STATE")
    /\ IF state = "ANALYSIS" THEN Goto("IDLE") ELSE UNCHANGED <<state, run>>
    /\ UNCHANGED <<settings, applied, opened>>

\* completeCb: the analysis or the render is over.
Proceed ==
    /\ \/ state = "ANALYSIS" /\ (Goto("RENDER") \/ Goto("IDLE"))
       \/ state = "RENDER" /\ Goto("IDLE")
    /\ UNCHANGED <<settings, applied, opened, answer, ended>>

Destroy ==
    /\ ended' = "destroyed"
    /\ UNCHANGED <<settings, Running, answer>>

----
(* The C API: null handles and null parameters are refused, the rest goes to  *)
(* the session, whose ovi::Exception becomes the result.                      *)

Session == "session"
Null(parameters) == None \in parameters

Refuse ==
    /\ Conclude("INVALID_PARAMETER")
    /\ UNCHANGED <<Running, settings>>

ovi_session_set_cb(s, c, function) ==
    IF Null({s}) THEN Refuse ELSE SetCallback(c, function)
ovi_session_unset_cb(s, c) ==
    IF Null({s}) THEN Refuse ELSE UnsetCallback(c)
ovi_session_add_plugin(s, u) ==
    IF Null({s, u}) THEN Refuse ELSE u \notin loaded /\ AppendPlugin(u)

\* A list of odd length makes it read behind the end of a vector.
ovi_session_set_plugin_attribute(s, u, more, odd) ==
    IF Null({s, u}) THEN Refuse
    ELSE IF odd THEN Conclude("undefined") /\ UNCHANGED <<Running, settings>>
    ELSE SetPluginAttrs(u, more)

\* Two ways to hand over the tokens; a list of none is refused before the state is seen.
ovi_session_link_plugins(s, tokens) ==
    IF Null({s}) \/ tokens = <<>> THEN Refuse ELSE RegisterPlugin(tokens)
ovi_session_link_plugins_with_list(s, tokens) ==
    IF Null({s}) \/ Len(tokens) = 0 THEN Refuse ELSE RegisterPlugin(tokens)

ovi_session_set_render(s, u) == IF Null({s, u}) THEN Refuse ELSE SetRender(u)
ovi_session_set_media_path(s, path) == IF Null({s}) THEN Refuse ELSE SetMediaPath(path)
ovi_session_start(s) == IF Null({s}) THEN Refuse ELSE Start
ovi_session_stop(s) == IF Null({s}) THEN Refuse ELSE Stop
ovi_session_destroy(s) == IF Null({s}) THEN Refuse ELSE Destroy

\* The one function that does not catch what Session throws.
ovi_session_set_skip_video_frames(s, n) ==
    IF Null({s}) THEN Refuse
    ELSE /\ IF state # "IDLE" THEN Conclude("terminated") /\ UNCHANGED skip
                              ELSE Conclude("NONE") /\ SetSkipVideoFrames(n)
         /\ UNCHANGED <<Running, media, loaded, attrs, request, render, callbacks>>

Call(s) ==
    \/ \E path \in Media \cup {""} : ovi_session_set_media_path(s, path)
    \/ \E c \in Callbacks : \/ \E function \in {c, None} : ovi_session_set_cb(s, c, function)
                           \/ ovi_session_unset_cb(s, c)
    \/ \E u \in Uids \cup {None} : ovi_session_add_plugin(s, u) \/ ovi_session_set_render(s, u)
    \/ \E set \in Settings, odd \in BOOLEAN :
            ovi_session_set_plugin_attribute(s, set[1], set[2], odd)
    \/ \E tokens \in Requests : \/ ovi_session_link_plugins(s, tokens)
                              \/ ovi_session_link_plugins_with_list(s, tokens)
    \/ \E n \in Skips : ovi_session_set_skip_video_frames(s, n)
    \/ ovi_session_start(s)
    \/ ovi_session_stop(s)
    \/ ovi_session_destroy(s)

Next == ended = "no" /\ (Proceed \/ \E s \in {Session, None} : Call(s))

Spec == Init /\ [][Next]_vars

----
(* Properties. *)

\* Types; the plugins loaded and the render exist, and the extractor is only ever
\* opened on a file that opens.
TypeOK ==
    /\ state \in {"IDLE", "ANALYSIS", "RENDER"}
    /\ media \in (Media \ {"missing", "locked"}) \cup {None}
    /\ opened \in (Media \ {"missing", "locked", "broken"}) \cup {None}
    /\ loaded \subseteq {u \in Uids : NameOf[u] \in DOMAIN Catalogue}
    /\ render \in loaded \cup {None}
    /\ callbacks \subseteq Callbacks

\* A call that returns an error has changed nothing the application configured,
\* nor started the session: whatever step of it fails, nothing is half set.
ErrorsChangeNothing ==
    [][answer' # "NONE" =>
        /\ UNCHANGED <<settings, applied>>
        /\ state' = "ANALYSIS" => state = "ANALYSIS"]_vars

\* From start() to the end of the render nobody can change what was validated: the
\* analyzer, the plugins and the path the two threads read are those start() saw,
\* and the extractor is open on that path, whatever earlier starts left behind.
RunsAsValidated ==
    state # "IDLE" => run = Configuration /\ opened = media

\* What start() let through can be run: every plugin has its stream, every marker that
\* names an effect carries the attributes set last, FFMPEGRender knows the effect of
\* every marker and can read its attributes, and an effect attached to a detector can
\* use what that detector finds.
StartedIsSound ==
    state # "IDLE" =>
        /\ \A u \in loaded : Type(u) # "render" => Catalogue[NameOf[u]].stream \in Streams[opened]
        /\ \A u \in loaded : Type(u) = "effect" =>
                /\ attrs[u] # NoAttrs
                /\ "name" \in DOMAIN attrs[u] => applied[u] = attrs[u]
                /\ NameOf[render] = "FFMPEGRender" =>
                        KnowsEffect(attrs[u].name) /\ ValidatorVerdict(attrs[u]) = "fine"
        /\ \A i \in DOMAIN request :
                i > 2 /\ request[i - 1] = ":" /\ Type(request[i - 2]) = "detect" =>
                    EqualMetaForm(Form(request[i - 2]),
                                  EffectForm(render, attrs[request[i]].name))
====
