---- MODULE MCDataFlow ----
(* Media for TLC: streams of presentation times, regular ones and ragged ones. *)
EXTENDS DataFlow

\* The increasing sequences of at most n times out of 1 .. t.
Streams(n, t) ==
    {s \in UNION {[1 .. len -> 1 .. t] : len \in 0 .. n} :
        \A k, l \in DOMAIN s : k < l => s[k] < s[l]}

AudioAndVideo ==
    {[hasVideo |-> TRUE, hasAudio |-> TRUE, video |-> v, audio |-> a] :
        v \in Streams(3, 4), a \in Streams(4, 5)}

VideoOnly == {[hasVideo |-> TRUE, hasAudio |-> FALSE, video |-> v, audio |-> <<>>] :
                v \in Streams(5, 5)}

AudioOnly == {[hasVideo |-> FALSE, hasAudio |-> TRUE, video |-> <<>>, audio |-> a] :
                a \in Streams(3, 3)}

SomeMedia == AudioAndVideo \cup VideoOnly \cup AudioOnly
====
