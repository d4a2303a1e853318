---- MODULE MCConfiguration ----
(* An application with a detector, two markers, both renders and a typing error. *)
EXTENDS Configuration, TLC

CONSTANTS face, mark1, mark2, otio, ffmpeg, typo

Shelf == (face :> "FaceDetect") @@ (mark1 :> "VideoEffectMarker") @@
         (mark2 :> "AudioEffectMarker") @@ (otio :> "OTIORender") @@
         (ffmpeg :> "FFMPEGRender") @@ (typo :> "unknown")

Files == [movie |-> {"video", "audio"}, song |-> {"audio"}]

\* One marker may go wrong in many ways, the other lacks a name or has one that no render
\* knows.
SomeSettings ==
    {<<mark1, m>> : m \in
        {[name |-> "boxblur"], [name |-> "brightness"],
         [intensity |-> "garbage"]}}
    \cup {<<mark2, [name |-> "mosaic"]>>, <<face, [scale |-> "garbage"]>>}

\* Refused for their shape, for "~" where a plugin is looked up, for a render that is an
\* operand, or for what they attach.
SomeRequests ==
    {<<>>, <<"~", ":", mark1>>,
     <<face, "&", "~", face, ":", mark1>>, <<face, ":", "~", face, ":", mark1>>,
     <<face, ":", mark1>>, <<otio, ":", mark1, "&", mark2>>}
====
