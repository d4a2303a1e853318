---- MODULE MCMediaDecoder ----
(* Media files for TLC. *)
EXTENDS MediaDecoder

Stream(t, codec, delay, count) ==
    [type |-> t, codec |-> codec, picture |-> FALSE, delay |-> delay, count |-> count,
     format |-> IF t = "video" THEN "rgb24" ELSE "s16", channels |-> 1, samples |-> 2, layout |-> TRUE]

Thumbnail == [Stream("video", "mjpeg", 0, 0) EXCEPT !.picture = TRUE]

\* One stream, sound before or after pictures, two films in one file, a thumbnail.
StreamLists ==
    UNION {
        {<<Stream("video", "h264", d, 0)>>, <<Stream("audio", "aac", d, 2)>>,
         <<Stream("audio", "aac", 0, 2), Stream("video", "h264", d, 0)>>,
         <<Stream("video", "h264", d, 0), Thumbnail>>} : d \in {0, 1}}
    \cup {<<Stream("video", "h264", 0, 2), Stream("video", "h264", 1, 0)>>,
          <<>>, <<Thumbnail>>, <<Stream("video", "none", 0, 0)>>, <<Stream("audio", "none", 0, 2)>>}

Packets(n) == [stream : 1 .. n, frames : {1}, damaged : BOOLEAN] \cup [stream : 1 .. n, frames : {2}, damaged : {FALSE}]

File(s, p) == [access |-> "ok", open |-> "ok", streams |-> s, packets |-> p, readError |-> FALSE]

Readable == UNION {{File(s, p) : p \in SeqOf(Packets(Len(s)), 3)} : s \in StreamLists}

\* More packets than a codec takes in, of one stream.
Long == {File(<<Stream("video", "h264", d, 0)>>, p) :
            d \in {0, 2}, p \in [1 .. 5 -> [stream : {1}, frames : {1, 2}, damaged : {FALSE}]]}

\* Sounds and pictures of every layout, to be converted.
Sounds == {File(<<[Stream("audio", "aac", 0, 1) EXCEPT !.format = f, !.channels = c, !.samples = n, !.layout = l]>>,
                <<[stream |-> 1, frames |-> 1, damaged |-> FALSE]>>) :
            f \in {"s16", "s16p", "fltp", "exotic"}, c \in 1 .. 2, n \in 1 .. 4, l \in BOOLEAN}

Unreadable ==
    {[File(<<Stream("video", "h264", 0, n)>>, <<[stream |-> 1, frames |-> 1, damaged |-> FALSE]>>)
        EXCEPT !.access = a, !.open = o, !.readError = r] :
        a \in {"ok", "denied", "missing"}, o \in {"ok", "invalid", "other"}, r \in BOOLEAN, n \in {0, 2}}

Pictures == {File(<<[Stream("video", "h264", 0, 1) EXCEPT !.format = f, !.samples = n]>>,
                  <<[stream |-> 1, frames |-> 1, damaged |-> FALSE]>>) :
            f \in {"rgb24", "yuv420p", "exotic"}, n \in {0, 3}}

SomeFiles == Readable \cup Long \cup Sounds \cup Pictures \cup Unreadable

SomeFormatLists == {<<"fltp">>, <<"none", "s16">>, <<"u8", "s16p">>, <<"none">>, <<"gray8", "rgb24">>, <<"nv12", "gray8">>}
====
