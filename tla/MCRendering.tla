---- MODULE MCRendering ----
(* Jobs for TLC. *)
EXTENDS Rendering, TLC

Film == [type |-> "video", pictures |-> TRUE, sound |-> TRUE, rate |-> 25, frames |-> 200000]
Silent == [Film EXCEPT !.sound = FALSE]

Kept(start, duration, collection) ==
    [start |-> start, duration |-> duration, collection |-> collection]
Marker(attrs, details) == [attrs |-> attrs, details |-> details]

Rects(n) == [i \in 1 .. n |-> "rect"]
At(f, list) == f :> list

Markers ==
    {Marker([name |-> "boxblur", intensity |-> "fits"], At(7, Rects(n))) : n \in 0 .. 3}
    \cup {Marker([name |-> "sticker", path |-> "fits"], At(7, Rects(1)) @@ At(8, Rects(n))) : n \in 0 .. 1}
    \cup {Marker([name |-> "drawbox", thickness |-> v], At(7, Rects(1))) : v \in {"fits", "garbage"}}
    \cup {Marker([name |-> "brightness"], At(7, <<"rect">>)), Marker([name |-> "mosaic"], At(7, Rects(1))),
          Marker([name |-> "drawtext"], At(7, <<"value", "value">>)),
          Marker([name |-> "boxblur"], At(7, <<"value">>))}

\* Those that come first in a chain.
ChainHeads == {m \in Markers : m.attrs.name \in {"sticker", "drawtext"}}

Blurred == Marker([name |-> "avgblur"], At(9, Rects(2)))

\* Ranges early, over a minute and an hour into the media, not on a whole millisecond.
Lists ==
    {<<>>, <<Kept(1, 3, <<>>)>>, <<Kept(1, 3, <<>>), Kept(9, 1600, <<Blurred>>)>>,
     <<Kept(1, 3, <<>>), Kept(9, 2, <<>>), Kept(93125, 2, <<>>)>>}
    \cup {<<Kept(7, 2, <<m>>)>> : m \in Markers}
    \cup {<<Kept(7, 2, <<m, Blurred>>), Kept(30, 1, <<m>>)>> : m \in ChainHeads}
    \cup {<<Kept(1, 1, <<>>), Kept(3, 1, <<>>), Kept(5, 1, <<>>), Kept(7, 1, <<>>)>>}

Job(plugin, media, ranges) ==
    [plugin |-> plugin, path |-> "named", media |-> media, ranges |-> ranges]

SomeJobs ==
    {Job("FFMPEGRender", Film, l) : l \in Lists}
    \cup {Job("FFMPEGRender", Silent, <<Kept(1, 3, <<>>), Kept(9, 2, <<>>)>>),
          Job("FFMPEGRender", [Film EXCEPT !.rate = 30], <<Kept(1, 3, <<>>)>>),
          Job("OTIORender", Film, <<Kept(1, 3, <<>>)>>),
          [Job("FFMPEGRender", Film, <<Kept(1, 3, <<>>)>>) EXCEPT !.path = ""]}

\* Renders differ in nothing but the job they are given.
Symmetry == Permutations(Renders)
====
