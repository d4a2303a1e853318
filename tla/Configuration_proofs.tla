---- MODULE Configuration_proofs ----
(***************************************************************************)
(* Proofs about Configuration, for every set of plugins, attributes,       *)
(* requests and media, and every sequence of calls.                        *)
(***************************************************************************)
EXTENDS Configuration, WellFoundedInduction, TLAPS

\* A set of numbers that is not empty has a least element.
LEMMA LeastNumber ==
    ASSUME NEW S \in SUBSET Nat, S # {}
    PROVE  \E m \in S : \A n \in S : m <= n
<1> DEFINE Less == OpToRel(<, Nat)
<1>1. IsWellFoundedOn(Less, Nat)
  BY NatLessThanWellFounded
<1>2. \A m, n \in Nat : <<m, n>> \in Less <=> m < n
  BY DEF OpToRel
<1> HIDE DEF Less
<1>3. \E m \in S : \A n \in S : ~(<<n, m>> \in Less)
  BY <1>1, WFMin
<1>4. \A m, n \in S : ~(<<n, m>> \in Less) => m <= n
  BY <1>2
<1> QED
  BY <1>3, <1>4

\* The calls that change the configuration, the calls and steps that do not.
Setting ==
    \/ \E path \in Media \cup {""} : SetMediaPath(path)
    \/ \E c \in Callbacks : \E function : SetCallback(c, function)
    \/ \E c : UnsetCallback(c)
    \/ \E u \in Uids : AppendPlugin(u)
    \/ \E u, more : SetPluginAttrs(u, more)
    \/ \E tokens \in Requests : RegisterPlugin(tokens)
    \/ \E u : SetRender(u)

Skipping == \E n : ovi_session_set_skip_video_frames(Session, n)

\* The list of attributes of odd length.
Misreading == Conclude("undefined") /\ UNCHANGED <<Running, settings>>

LEMMA StepKinds ==
    Next => \/ Setting \/ Skipping \/ Refuse \/ Misreading
            \/ Start \/ Stop \/ Proceed \/ Destroy
<1> SUFFICES ASSUME NEW s \in {Session, None}, Call(s)
             PROVE  \/ Setting \/ Skipping \/ Refuse \/ Misreading
                    \/ Start \/ Stop \/ Proceed \/ Destroy
  BY DEF Next
<1>1. CASE \E path \in Media \cup {""} : ovi_session_set_media_path(s, path)
  BY <1>1 DEF ovi_session_set_media_path, Setting
<1>2. CASE \E c \in Callbacks : \E function \in {c, None} : ovi_session_set_cb(s, c, function)
  BY <1>2 DEF ovi_session_set_cb, Setting
<1>3. CASE \E c \in Callbacks : ovi_session_unset_cb(s, c)
  BY <1>3 DEF ovi_session_unset_cb, Setting
<1>4. CASE \E u \in Uids \cup {None} : ovi_session_add_plugin(s, u)
  BY <1>4 DEF ovi_session_add_plugin, Setting, Null
<1>5. CASE \E u \in Uids \cup {None} : ovi_session_set_render(s, u)
  BY <1>5 DEF ovi_session_set_render, Setting
<1>6. CASE \E set \in Settings, odd \in BOOLEAN :
                ovi_session_set_plugin_attribute(s, set[1], set[2], odd)
  BY <1>6 DEF ovi_session_set_plugin_attribute, Setting, Misreading
<1>7. CASE \E tokens \in Requests : ovi_session_link_plugins(s, tokens)
  BY <1>7 DEF ovi_session_link_plugins, Setting
<1>8. CASE \E tokens \in Requests : ovi_session_link_plugins_with_list(s, tokens)
  BY <1>8 DEF ovi_session_link_plugins_with_list, Setting
<1>9. CASE \E n \in Skips : ovi_session_set_skip_video_frames(s, n)
  BY <1>9 DEF ovi_session_set_skip_video_frames, Skipping, Null
<1>10. CASE ovi_session_start(s) \/ ovi_session_stop(s) \/ ovi_session_destroy(s)
  BY <1>10 DEF ovi_session_start, ovi_session_stop, ovi_session_destroy
<1> QED
  BY <1>1, <1>2, <1>3, <1>4, <1>5, <1>6, <1>7, <1>8, <1>9, <1>10 DEF Call

\* A setter that is refused, and any setter of a session that runs, leaves all as it was.
LEMMA SettersRefuse ==
    ASSUME Setting, state # "IDLE" \/ answer' # "NONE"
    PROVE  UNCHANGED <<settings, state, applied, opened, run>>
<1> USE DEF Verdict, Conclude, Ends, Running, settings
<1>1. CASE \E path \in Media \cup {""} : SetMediaPath(path)
  BY <1>1 DEF SetMediaPath
<1>2. CASE \E c \in Callbacks : \E function : SetCallback(c, function)
  BY <1>2 DEF SetCallback
<1>3. CASE \E c : UnsetCallback(c)
  BY <1>3 DEF UnsetCallback
<1>4. CASE \E u \in Uids : AppendPlugin(u)
  BY <1>4 DEF AppendPlugin
<1>5. CASE \E u, more : SetPluginAttrs(u, more)
  BY <1>5 DEF SetPluginAttrs
<1>6. CASE \E tokens \in Requests : RegisterPlugin(tokens)
  BY <1>6 DEF RegisterPlugin
<1>7. CASE \E u : SetRender(u)
  BY <1>7 DEF SetRender
<1> QED
  BY <1>1, <1>2, <1>3, <1>4, <1>5, <1>6, <1>7 DEF Setting

\* Setters run in no state but IDLE that they would change.
LEMMA SettersStay == Setting => UNCHANGED state
  BY DEF Setting, SetMediaPath, SetCallback, UnsetCallback, AppendPlugin, SetPluginAttrs,
         RegisterPlugin, SetRender, Running

LEMMA StartFromIdle == Admitted => state = "IDLE"
  BY DEF Admitted, GuardVerdict

\* The invariant is inductive as it stands: whoever would change one side of it is
\* refused, or is start() or the step to IDLE, which set both.
LEMMA RunKept == RunsAsValidated /\ [Next]_vars => RunsAsValidated'
<1> SUFFICES ASSUME RunsAsValidated, [Next]_vars
             PROVE  RunsAsValidated'
  OBVIOUS
<1> USE DEF RunsAsValidated, Configuration
<1>1. CASE Setting
  <2>1. state # "IDLE" => UNCHANGED <<settings, state, applied, opened, run>>
    BY <1>1, SettersRefuse
  <2> QED
    BY <1>1, <2>1, SettersStay DEF settings
<1>2. CASE Skipping
  BY <1>2 DEF Skipping, ovi_session_set_skip_video_frames, Refuse, Running, settings
<1>3. CASE Refuse \/ Misreading \/ Destroy \/ UNCHANGED vars
  BY <1>3 DEF Refuse, Misreading, Destroy, Running, vars, settings
<1>4. CASE StartRefused \/ StartCannotOpen
  BY <1>4 DEF StartRefused, StartCannotOpen, Running, settings
<1>5. CASE StartInvalid
  BY <1>5, StartFromIdle DEF StartInvalid
<1>6. CASE StartRuns
  BY <1>6 DEF StartRuns, Reopens, settings
<1>7. CASE Stop \/ Proceed
  BY <1>7 DEF Stop, Proceed, Goto, settings
<1> QED
  BY <1>1, <1>2, <1>3, <1>4, <1>5, <1>6, <1>7, StepKinds DEF Start

\* From start() to the end of the render the session runs what start() validated.
THEOREM RunsAsValidatedHolds == Spec => []RunsAsValidated
<1>1. Init => RunsAsValidated
  BY DEF Init, RunsAsValidated
<1> QED
  BY <1>1, RunKept, PTL DEF Spec

\* A call that returns an error has changed nothing and started nothing.
THEOREM ErrorsChangeNothingHolds == Spec => ErrorsChangeNothing
<1> DEFINE Unchanged == answer' # "NONE" =>
                /\ UNCHANGED <<settings, applied>>
                /\ state' = "ANALYSIS" => state = "ANALYSIS"
<1>1. ASSUME [Next]_vars
      PROVE  Unchanged \/ UNCHANGED vars
  <2>1. CASE Setting
    BY <2>1, SettersRefuse
  <2>2. CASE Skipping
    BY <2>2 DEF Skipping, ovi_session_set_skip_video_frames, Refuse, Running, settings,
                Conclude, Ends
  <2>3. CASE Refuse \/ Misreading \/ Destroy
    BY <2>3 DEF Refuse, Misreading, Destroy, Running
  <2>4. CASE StartRefused \/ StartCannotOpen
    BY <2>4 DEF StartRefused, StartCannotOpen, Running
  <2>5. CASE StartInvalid
    BY <2>5 DEF StartInvalid
  <2>6. CASE StartRuns
    BY <2>6 DEF StartRuns, Conclude, Ends
  <2>7. CASE Stop \/ Proceed
    BY <2>7 DEF Stop, Proceed, Goto
  <2> QED
    BY <1>1, <2>1, <2>2, <2>3, <2>4, <2>5, <2>6, <2>7, StepKinds DEF Start
<1> QED
  BY <1>1, PTL DEF Spec, ErrorsChangeNothing

----
(* Types. *)

LEMMA TypesKept == TypeOK /\ [Next]_vars => TypeOK'
<1> SUFFICES ASSUME TypeOK, [Next]_vars
             PROVE  TypeOK'
  OBVIOUS
<1> USE DEF TypeOK
<1>1. CASE \E path \in Media \cup {""} : SetMediaPath(path)
  BY <1>1 DEF SetMediaPath, Verdict, Running
<1>2. CASE \E c \in Callbacks : \E function : SetCallback(c, function)
  BY <1>2 DEF SetCallback, Running
<1>3. CASE \E c : UnsetCallback(c)
  BY <1>3 DEF UnsetCallback, Running
<1>4. CASE \E u \in Uids : AppendPlugin(u)
  BY <1>4 DEF AppendPlugin, Verdict, Creatable, Running
<1>5. CASE \E u, more : SetPluginAttrs(u, more)
  BY <1>5 DEF SetPluginAttrs, Running
<1>6. CASE \E tokens \in Requests : RegisterPlugin(tokens)
  BY <1>6 DEF RegisterPlugin, Running
<1>7. CASE \E u : SetRender(u)
  BY <1>7 DEF SetRender, Verdict, Running
<1>8. CASE Skipping \/ Refuse \/ Misreading \/ Destroy \/ UNCHANGED vars
  BY <1>8 DEF Skipping, ovi_session_set_skip_video_frames, Refuse, Misreading, Destroy,
              Running, settings, vars
<1>9. CASE Stop \/ Proceed
  BY <1>9 DEF Stop, Proceed, Goto, settings
<1>10. CASE StartRefused \/ StartCannotOpen
  BY <1>10 DEF StartRefused, StartCannotOpen, Running, settings
<1>11. CASE StartInvalid
  BY <1>11 DEF StartInvalid, settings
<1>12. CASE StartRuns
  BY <1>12 DEF StartRuns, Reopens, settings
<1> QED
  BY <1>1, <1>2, <1>3, <1>4, <1>5, <1>6, <1>7, <1>8, <1>9, <1>10, <1>11, <1>12, StepKinds
     DEF Setting, Start

\* The session only ever refers to plugins it has loaded and to media that exist.
THEOREM TypeCorrect == Spec => []TypeOK
<1>1. Init => TypeOK
  BY DEF Init, TypeOK
<1> QED
  BY <1>1, TypesKept, PTL DEF Spec

----
(* What start() lets through can be run. *)

Tokens == Uids \cup {"&", "|", ":", "~"}

\* A request keeps what validate_logic saw of it, whatever plugins are added later.
RequestFormed ==
    request # None =>
        /\ request \in Seq(Tokens)
        /\ \A i \in 2 .. Len(request) :
                request[i] \in Link!Operators => request[i - 1] \notin Link!Operators

SoundInv == TypeOK /\ RequestFormed /\ StartedIsSound

LEMMA FormedKept == RequestFormed /\ [Next]_vars => RequestFormed'
<1> SUFFICES ASSUME RequestFormed, [Next]_vars
             PROVE  RequestFormed'
  OBVIOUS
<1>1. ASSUME NEW tokens \in Requests, RegisterPlugin(tokens)
      PROVE  RequestFormed'
  <2>1. CASE UNCHANGED request
    BY <2>1 DEF RequestFormed, Link!Operators
  <2>2. CASE ~UNCHANGED request
    <3>1. request' = tokens /\ Link!ValidLogic(tokens)
      BY <1>1, <2>2 DEF RegisterPlugin, Verdict
    <3>2. tokens \in Seq(Tokens)
      BY RequestsAssumption DEF Tokens
    <3>3. \A i \in 1 .. Len(tokens) :
            tokens[i] \in Link!Operators => tokens[i - 1] \notin Link!Operators
      BY <3>1 DEF Link!ValidLogic
    <3> QED
      BY <3>1, <3>2, <3>3 DEF RequestFormed, Link!Operators
  <2> QED
    BY <2>1, <2>2
<1>2. CASE UNCHANGED request
  BY <1>2 DEF RequestFormed, Link!Operators
<1>3. CASE Setting
  BY <1>1, <1>2, <1>3 DEF Setting, SetMediaPath, SetCallback, UnsetCallback, AppendPlugin,
              SetPluginAttrs, SetRender
<1>4. Skipping \/ Refuse \/ Misreading \/ Destroy \/ Stop \/ Proceed \/ UNCHANGED vars
        => UNCHANGED request
  BY DEF Skipping, ovi_session_set_skip_video_frames, Refuse, Misreading, Destroy, Stop,
         Proceed, Running, settings, vars
<1>5. Start => UNCHANGED request
  BY DEF Start, StartRefused, StartCannotOpen, StartInvalid, StartRuns, settings
<1> QED
  BY <1>2, <1>3, <1>4, <1>5, StepKinds

\* Three parts of StartedIsSound, as start() finds them and as they then stay.
StreamsThere ==
    \A u \in loaded : Type(u) # "render" => Catalogue[NameOf[u]].stream \in Streams[opened]
MarkersSet ==
    \A u \in loaded : Type(u) = "effect" =>
        /\ attrs[u] # NoAttrs
        /\ "name" \in DOMAIN attrs[u] => applied[u] = attrs[u]
        /\ NameOf[render] = "FFMPEGRender" =>
                KnowsEffect(attrs[u].name) /\ ValidatorVerdict(attrs[u]) = "fine"
AttachmentsFit ==
    \A i \in DOMAIN request :
        i > 2 /\ request[i - 1] = ":" /\ Type(request[i - 2]) = "detect" =>
            EqualMetaForm(Form(request[i - 2]),
                                  EffectForm(render, attrs[request[i]].name))

LEMMA StartChecksStreams ==
    ASSUME StreamsVerdict(Streams[media]) = "fine"
    PROVE  \A u \in loaded :
                Type(u) # "render" => Catalogue[NameOf[u]].stream \in Streams[media]
  BY DEF StreamsVerdict

LEMMA EffectsFine ==
    ASSUME AttrsVerdicts = {"fine"}, NEW u \in loaded, Type(u) = "effect"
    PROVE  EffectVerdict(u) = "fine"
<1> SUFFICES ASSUME EffectVerdict(u) # "fine"
             PROVE  FALSE
  OBVIOUS
<1> DEFINE bad == {v \in loaded : Type(v) = "effect" /\ EffectVerdict(v) # "fine"}
<1>1. u \in bad
  OBVIOUS
<1>2. AttrsVerdicts = {EffectVerdict(v) : v \in bad}
  BY <1>1 DEF AttrsVerdicts
<1>3. EffectVerdict(u) \in AttrsVerdicts
  BY <1>1, <1>2
<1> QED
  BY <1>3

LEMMA FineEffect ==
    ASSUME NEW u, EffectVerdict(u) = "fine"
    PROVE  /\ attrs[u] # NoAttrs
           /\ NameOf[render] # "OTIORender" =>
                KnowsEffect(attrs[u].name) /\ ValidatorVerdict(attrs[u]) = "fine"
<1>1. attrs[u] # NoAttrs
  BY DEF EffectVerdict
<1>2. NameOf[render] # "OTIORender" => ValidatorVerdict(attrs[u]) = "fine"
  BY <1>1 DEF EffectVerdict
<1>3. ValidatorVerdict(attrs[u]) = "fine" => KnowsEffect(attrs[u].name)
  BY DEF ValidatorVerdict
<1> QED
  BY <1>1, <1>2, <1>3

LEMMA StartSetsMarkers ==
    ASSUME TypeOK, StartRuns
    PROVE  MarkersSet'
<1>1. UNCHANGED <<loaded, attrs, render>> /\ AttrsVerdicts = {"fine"}
  BY DEF StartRuns, settings
<1>2. SUFFICES ASSUME NEW u \in loaded, Type(u) = "effect"
               PROVE  /\ attrs[u] # NoAttrs
                      /\ "name" \in DOMAIN attrs[u] => applied'[u] = attrs[u]
                      /\ NameOf[render] = "FFMPEGRender" =>
                            KnowsEffect(attrs[u].name) /\ ValidatorVerdict(attrs[u]) = "fine"
  BY <1>1 DEF MarkersSet, Type
<1>3. EffectVerdict(u) = "fine"
  BY <1>1, <1>2, EffectsFine
<1>4. attrs[u] # NoAttrs
  BY <1>3, FineEffect
<1>5. NameOf[render] = "FFMPEGRender" =>
        KnowsEffect(attrs[u].name) /\ ValidatorVerdict(attrs[u]) = "fine"
  BY <1>3, FineEffect
<1>6. ASSUME "name" \in DOMAIN attrs[u]
      PROVE  applied'[u] = attrs[u]
  <2>1. applied' = [v \in Uids |-> IF v \in loaded /\ attrs[v] # NoAttrs
                                    THEN Apply(v) ELSE applied[v]]
    BY DEF StartRuns
  <2>2. applied'[u] = Apply(u)
    BY <2>1, <1>2, <1>4 DEF TypeOK
  <2>3. Apply(u) = attrs[u]
    BY <1>2, <1>6 DEF Apply
  <2> QED
    BY <2>2, <2>3
<1> QED
  BY <1>4, <1>5, <1>6

\* The first position that is not fine is the verdict, so none is if the verdict is.
LEMMA AllAttachmentsFine ==
    ASSUME NEW s \in Seq(Tokens), LinkVerdict(s) = "fine", NEW i \in DOMAIN s, Attached(s, i)
    PROVE  AttachmentVerdict(s, i) = "fine"
<1> SUFFICES ASSUME AttachmentVerdict(s, i) # "fine"
             PROVE  FALSE
  OBVIOUS
<1> DEFINE bad == {k \in DOMAIN s : Attached(s, k) /\ AttachmentVerdict(s, k) # "fine"}
<1>1. bad \subseteq Nat /\ bad # {}
  OBVIOUS
<1> HIDE DEF bad
<1>2. \E k \in bad : \A l \in bad : k <= l
  BY <1>1, LeastNumber
<1>3. Min(bad) \in bad
  BY <1>2 DEF Min
<1>4. LinkVerdict(s) = AttachmentVerdict(s, Min(bad))
  BY <1>1 DEF LinkVerdict, bad
<1> QED
  BY <1>3, <1>4 DEF bad

LEMMA FineAttachment ==
    ASSUME NEW s, NEW i, AttachmentVerdict(s, i) = "fine", Type(DetectOf(s, i)) = "detect"
    PROVE  EqualMetaForm(Form(DetectOf(s, i)), EffectForm(render, attrs[s[i]].name))
<1> DEFINE form == EffectForm(render, attrs[s[i]].name)
           operand == DetectOf(s, i)
           detected == IF Type(operand) = "render" THEN EffectForm(operand, "")
                       ELSE Form(operand)
           verdict == IF "throws" \in {form, detected} THEN "NONE"
                      ELSE IF EqualMetaForm(detected, form) THEN "fine"
                      ELSE "INVALID_OPERATION"
<1>1. AttachmentVerdict(s, i) = verdict
  BY DEF AttachmentVerdict
<1>2. detected = Form(operand)
  OBVIOUS
<1> HIDE DEF form, detected
<1>3. EqualMetaForm(detected, form)
  BY <1>1
<1> QED
  BY <1>2, <1>3 DEF form

LEMMA StartChecksAttachments ==
    ASSUME RequestFormed, StartRuns
    PROVE  AttachmentsFit
<1>1. request # None /\ LinkVerdict(request) = "fine"
  BY DEF StartRuns, Admitted, GuardVerdict
<1>2. request \in Seq(Tokens)
  BY <1>1 DEF RequestFormed
<1>3. SUFFICES ASSUME NEW i \in DOMAIN request, i > 2, request[i - 1] = ":",
                      Type(request[i - 2]) = "detect"
               PROVE  EqualMetaForm(Form(request[i - 2]),
                                  EffectForm(render, attrs[request[i]].name))
  BY DEF AttachmentsFit
<1>4. request[i] \notin Link!Operators
  BY <1>1, <1>2, <1>3 DEF RequestFormed, Link!Operators
<1>5. Attached(request, i)
  BY <1>2, <1>3, <1>4 DEF Attached
<1>6. AttachmentVerdict(request, i) = "fine"
  BY <1>1, <1>2, <1>5, AllAttachmentsFine
<1> QED
  BY <1>3, <1>6, FineAttachment DEF DetectOf

\* Nothing of it changes while the session runs.
LEMMA SoundStays ==
    ASSUME StartedIsSound,
           \/ state' = "IDLE"
           \/ UNCHANGED <<settings, applied, opened>> /\ state # "IDLE"
    PROVE  StartedIsSound'
<1>1. CASE state' = "IDLE"
  BY <1>1 DEF StartedIsSound
<1>2. CASE UNCHANGED <<settings, applied, opened>> /\ state # "IDLE"
  <2>1. UNCHANGED <<loaded, attrs, request, render, applied, opened>>
    BY <1>2 DEF settings
  <2>2. \A e : EffectForm(render, e)' = EffectForm(render, e)
    BY <2>1 DEF EffectForm, KnowsEffect
  <2> QED
    BY <1>2, <2>1, <2>2 DEF StartedIsSound, Type, Form
<1> QED
  BY <1>1, <1>2

LEMMA SoundKept == SoundInv /\ [Next]_vars => StartedIsSound'
<1> SUFFICES ASSUME SoundInv, [Next]_vars
             PROVE  StartedIsSound'
  OBVIOUS
<1> USE DEF SoundInv
<1>1. CASE Setting
  <2>1. CASE state = "IDLE"
    BY <1>1, <2>1, SettersStay, SoundStays
  <2>2. CASE state # "IDLE"
    BY <1>1, <2>2, SettersRefuse, SoundStays
  <2> QED
    BY <2>1, <2>2
<1>2. CASE Skipping
  BY <1>2, SoundStays DEF Skipping, ovi_session_set_skip_video_frames, Refuse, Running, settings
<1>3. CASE Refuse \/ Misreading \/ Destroy \/ StartRefused \/ StartCannotOpen \/ UNCHANGED vars
  BY <1>3, SoundStays DEF Refuse, Misreading, Destroy, StartRefused, StartCannotOpen, Running,
                          vars, settings
<1>4. CASE Stop \/ Proceed
  BY <1>4, SoundStays DEF Stop, Proceed, Goto
<1>5. CASE StartInvalid
  BY <1>5, StartFromIdle, SoundStays DEF StartInvalid
<1>6. CASE StartRuns
  <2>1. UNCHANGED <<loaded, attrs, render, request>> /\ opened' = media
    BY <1>6 DEF StartRuns, Reopens, settings
  <2>2. StreamsThere'
    <3>1. StreamsVerdict(Streams[media]) = "fine"
      BY <1>6 DEF StartRuns
    <3> QED
      BY <2>1, <3>1, StartChecksStreams DEF StreamsThere, Type
  <2>3. MarkersSet'
    BY <1>6, StartSetsMarkers
  <2>4. AttachmentsFit'
    BY <1>6, <2>1, StartChecksAttachments DEF AttachmentsFit, Type, Form, EffectForm,
                                              EqualMetaForm, KnowsEffect
  <2> QED
    BY <2>2, <2>3, <2>4 DEF StartedIsSound, StreamsThere, MarkersSet, AttachmentsFit
<1> QED
  BY <1>1, <1>2, <1>3, <1>4, <1>5, <1>6, StepKinds DEF Start

\* What start() let through can be run: streams, markers and attached effects are as
\* the plugins of the session need them, for every catalogue of uids and every request.
THEOREM StartedIsSoundHolds == Spec => []StartedIsSound
<1>1. Init => SoundInv
  BY DEF Init, SoundInv, TypeOK, RequestFormed, StartedIsSound
<1>2. SoundInv /\ [Next]_vars => SoundInv'
  BY TypesKept, FormedKept, SoundKept DEF SoundInv
<1>3. SoundInv => StartedIsSound
  BY DEF SoundInv
<1> QED
  BY <1>1, <1>2, <1>3, PTL DEF Spec
====
