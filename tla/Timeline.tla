---- MODULE Timeline ----
(***************************************************************************)
(* TimelineHelper and the part of RenderTask that fills a timeline: tracks *)
(* with clips, each clip a range of a referenced media with its effects.   *)
(***************************************************************************)
EXTENDS Integers, Sequences, SequencesExt

NewTimeline == [tracks |-> <<>>, refs |-> <<>>]

AppendTrack(tl, name, type) ==
    [tl EXCEPT !.tracks = Append(@, [name |-> name, kind |-> type, clips |-> <<>>])]

FindRef(tl, path) == {i \in DOMAIN tl.refs : tl.refs[i].path = path}
FindTrack(tl, name) == {i \in DOMAIN tl.tracks : tl.tracks[i].name = name}
First(indices) == CHOOSE i \in indices : \A j \in indices : i <= j

MakeMediaRef(tl, path, rate, duration) ==
    IF FindRef(tl, path) # {} THEN tl
    ELSE [tl EXCEPT !.refs = Append(@, [path |-> path, rate |-> rate, duration |-> duration])]

\* A clip takes its rate from its media.  Callers have made the track and the
\* reference, so that nothing throws.
AppendClip(tl, name, range, path, effects) ==
    LET ref == tl.refs[First(FindRef(tl, path))]
        clip == [path |-> path, start |-> range.start, duration |-> range.duration,
                 rate |-> ref.rate, effects |-> effects]
    IN [tl EXCEPT !.tracks[First(FindTrack(tl, name))].clips = Append(@, clip)]

\* find_clips() of the timeline.
FindClips(tl) == FlattenSeq([i \in DOMAIN tl.tracks |-> tl.tracks[i].clips])

----
(* RenderTask. *)

\* initializeEffect: the marker's attributes but for the name, which may be missing.
InitializeEffect(attrs) ==
    [name |-> IF "name" \in DOMAIN attrs THEN attrs["name"] ELSE "",
     attrs |-> [k \in DOMAIN attrs \ {"name"} |-> attrs[k]]]

\* makeEffectList: an effect for every marker with something detected in the range.
MakeEffectList(collection) ==
    [i \in DOMAIN collection |->
        LET e == InitializeEffect(collection[i].attrs)
        IN [name |-> e.name, attrs |-> e.attrs, frames |-> collection[i].details]]

Track == "Track-001"

FillTimeline(path, media, ranges) ==
    LET base == MakeMediaRef(AppendTrack(NewTimeline, Track, media.type),
                             path, media.rate, media.frames)
        filled[n \in 0 .. Len(ranges)] ==
            IF n = 0 THEN base
            ELSE AppendClip(filled[n - 1], Track, ranges[n], path,
                            MakeEffectList(ranges[n].collection))
    IN filled[Len(ranges)]
====
