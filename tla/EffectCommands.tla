---- MODULE EffectCommands ----
(***************************************************************************)
(* The ffmpeg command lines of FFmpegEffect and FFmpegRender: which filter *)
(* graph an effect becomes, when ffmpeg can run it, when building it       *)
(* throws, and what a time becomes on the way through its text.            *)
(*                                                                         *)
(* An effect is a marker's effect on one clip: its name, its other         *)
(* attributes, and for each frame the list of what was detected there,     *)
(* "rect" (with or without a tag) or "value".                              *)
(***************************************************************************)
EXTENDS Integers, Sequences, PluginCatalogue

Items(e) == Cardinality(UNION {{f} \X DOMAIN e.frames[f] : f \in DOMAIN e.frames})
AllItems(e) == UNION {{e.frames[f][i] : i \in DOMAIN e.frames[f]} : f \in DOMAIN e.frames}

\* The generators that read a rectangle from every item (getCoordInfo); the others
\* read only the frames (getTimeline), or print any item (getConvertedStringInfo).
RectEffects == {"boxblur", "avgblur", "drawbox", "sticker"}
\* The attributes that are made numbers, whether they have been checked or not.
NumberAttrs == {"intensity", "thickness", "value", "x", "y", "volume"}

\* What std::stoi, std::stof and std::any_cast throw is no ovi::Exception.  After the
\* effect's own attributes are popped, every key left is taken for a frame number.
Throws(e) ==
    /\ KnowsEffect(e.name)
    /\ \/ \E k \in NumberAttrs \cap DOMAIN e.attrs : e.attrs[k] = "garbage"
       \/ DOMAIN e.attrs \ DOMAIN EffectSpecs[e.name] # {}
       \/ e.name \in RectEffects /\ "value" \in AllItems(e)

----
(* A filter graph: filters with the labels they read and the one they write. *)

Video == <<"0:v", 0>>
Image == <<"1:v", 0>>
Unlabelled == <<"", 0>>
Crop(i) == <<"crop", i>>
Scaled(i) == <<"s", i>>
Overlaid(i) == IF i = 0 THEN Video ELSE <<"ovr", i>>

Filter(ins, out) == [ins |-> ins, out |-> out]

BlurGraph(n) ==
    [i \in 1 .. n |-> Filter({Video}, Crop(i))] \o
    [i \in 1 .. n |-> Filter({Overlaid(i - 1), Crop(i)},
                             IF i = n THEN Unlabelled ELSE Overlaid(i))]

\* The first overlay gets its label even when it is the last.
StickerGraph(n) ==
    [i \in 1 .. n |-> Filter({Image}, Scaled(i))] \o
    [i \in 1 .. n |-> Filter({Overlaid(i - 1), Scaled(i)},
                             IF i = n /\ i > 1 THEN Unlabelled ELSE Overlaid(i))]

\* ffmpeg: every label is written once and read once, and one output is left.
Connected(graph) ==
    LET Writers(label) == {j \in DOMAIN graph : graph[j].out = label}
        Readers(label) == {j \in DOMAIN graph : label \in graph[j].ins}
    IN /\ Cardinality(Writers(Unlabelled)) = 1
       /\ \A j \in DOMAIN graph :
            /\ graph[j].out # Unlabelled => Cardinality(Readers(graph[j].out)) = 1
            /\ \A label \in graph[j].ins \ {Video, Image} : Cardinality(Writers(label)) = 1

\* The list of drawbox or drawtext filters, one per item; the eq and volume filters,
\* enabled at some of the frames.
FilterList(n) == n > 0
EnabledAt(frames) == frames # {}

Accepts(e) ==
    CASE e.name \in {"boxblur", "avgblur"} -> Connected(BlurGraph(Items(e)))
      [] e.name = "sticker" -> Connected(StickerGraph(Items(e)))
      [] e.name \in {"drawbox", "drawtext"} -> FilterList(Items(e))
      [] OTHER -> EnabledAt(DOMAIN e.frames)

----
(* Times: a frame number over the rate, in whole milliseconds, written as     *)
(* hours, minutes, seconds and milliseconds of two and three digits.          *)

Milliseconds(frame, rate) == (frame * 1000) \div rate

ToTimeString(time) ==
    LET h == time \div 3600000
        m == (time - h * 3600000) \div 60000
        s == (time - h * 3600000 - m * 60000) \div 1000
    IN [h |-> h % 100, m |-> m % 100, s |-> s % 100, ms |-> time % 1000]

\* The hours have two digits, and begin again after 99.
TimeLimit == 100 * 3600000

\* How ffmpeg reads it.
ReadTime(t) == ((t.h * 60 + t.m) * 60 + t.s) * 1000 + t.ms
====
