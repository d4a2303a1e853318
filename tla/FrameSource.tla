---- MODULE FrameSource ----
(***************************************************************************)
(* What the analysis counts on from a media file: once it is open, frames  *)
(* numbered 1, 2, 3 .. and then an end, which comes.                       *)
(***************************************************************************)
EXTENDS Integers

VARIABLES
    given,      \* the number of the last frame handed out
    status      \* "opening", "open", "over"

vars == <<given, status>>

Init == given = 0 /\ status = "opening"

Open == status = "opening" /\ status' = "open" /\ UNCHANGED given
Deliver == status = "open" /\ given' = given + 1 /\ UNCHANGED status
End == status # "over" /\ status' = "over" /\ UNCHANGED given

Next == Open \/ Deliver \/ End

Spec == Init /\ [][Next]_vars /\ WF_vars(End)
====
