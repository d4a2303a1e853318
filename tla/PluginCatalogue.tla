---- MODULE PluginCatalogue ----
(***************************************************************************)
(* The plugins that come with the library, what a render's effects need,   *)
(* and the checks of AttributeValidator.                                   *)
(*                                                                         *)
(* An attribute map is a function from keys to values.  Of a value only    *)
(* what a check makes of it is kept: it "fits", is a number or path that   *)
(* does not ("misfit"), or no number at all ("garbage"); the value of      *)
(* "name" is the effect.                                                   *)
(***************************************************************************)
EXTENDS FiniteSetsExt

Plugin(type, stream, form) == [type |-> type, stream |-> stream, form |-> form]

\* What each library answers to type() and supportMetaForm().
Catalogue ==
    [FaceDetect        |-> Plugin("detect", "video", "RECT"),
     AudioDetect       |-> Plugin("detect", "audio", "DOUBLE"),
     VideoEffectMarker |-> Plugin("effect", "video", "NONE"),
     AudioEffectMarker |-> Plugin("effect", "audio", "NONE"),
     FFMPEGRender      |-> Plugin("render", "none", "NONE"),
     OTIORender        |-> Plugin("render", "none", "NONE")]

\* FFmpegEffectSpec::attributes(): "free" values are not checked, a "range" must
\* hold the number, a "file" must be readable, and is mandatory.
Blur == [intensity |-> "range"]
Level == [value |-> "range"]
EffectSpecs ==
    [boxblur    |-> Blur,
     avgblur    |-> Blur,
     drawbox    |-> [color |-> "free", thickness |-> "free"],
     contrast   |-> Level,
     brightness |-> Level,
     saturation |-> Level,
     drawtext   |-> [fontcolor |-> "free", fontsize |-> "free", x |-> "free", y |-> "free"],
     sticker    |-> [path |-> "file"],
     volume     |-> [volume |-> "free"]]

\* FFmpegEffectSpec::inputMetaForm().
InputForms ==
    [boxblur |-> "RECT", avgblur |-> "RECT", drawbox |-> "RECT", drawtext |-> "ANY",
     sticker |-> "RECT", brightness |-> "NONE", contrast |-> "NONE",
     saturation |-> "NONE", volume |-> "DOUBLE"]

KnowsEffect(name) == name \in DOMAIN EffectSpecs
EqualMetaForm(a, b) == a = b \/ "ANY" \in {a, b}

NoAttrs == [k \in {} |-> "fits"]
Assigned(attrs, more) ==   \* insert_or_assign, for every entry of more
    [k \in DOMAIN attrs \cup DOMAIN more |->
        IF k \in DOMAIN more THEN more[k] ELSE attrs[k]]

----
(* AttributeValidator::validate: "fine", the error it throws, or "terminated" *)
(* when std::stof throws what nobody catches.                                 *)

ValueVerdict(kind, value) ==
    IF kind = "free" \/ value = "fits" THEN "fine"
    ELSE IF kind = "range" /\ value = "garbage" THEN "terminated"
    ELSE "INVALID_EFFECT_ATTR_VALUE"

EffectAttributesVerdict(attrs, spec) ==
    LET bad == {k \in DOMAIN spec \cap DOMAIN attrs :
                    ValueVerdict(spec[k], attrs[k]) # "fine"}
        key == CHOOSE k \in bad : TRUE   \* no effect has two checked keys
    IN IF \E k \in DOMAIN spec \ DOMAIN attrs : spec[k] = "file" THEN "INVALID_OPERATION"
       ELSE IF bad # {} THEN ValueVerdict(spec[key], attrs[key])
       ELSE IF DOMAIN attrs \subseteq DOMAIN spec \cup {"name"} THEN "fine"
       ELSE "NOT_SUPPORTED_EFFECT_ATTR"

ValidatorVerdict(attrs) ==
    IF "name" \notin DOMAIN attrs THEN "INVALID_OPERATION"
    ELSE IF ~KnowsEffect(attrs.name) THEN "NOT_SUPPORTED_EFFECT"
    ELSE EffectAttributesVerdict(attrs, EffectSpecs[attrs.name])
====
