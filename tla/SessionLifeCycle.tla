---- MODULE SessionLifeCycle ----
(***************************************************************************)
(* What a session promises the application that started it.                *)
(*                                                                         *)
(* A run takes the session from IDLE to ANALYSIS, an analysis that ends    *)
(* cleanly to RENDER, and everything else - the end of the render, an      *)
(* error, stop() - back to IDLE.  Every change is told to the application  *)
(* before the next one happens, and every run comes back to IDLE.          *)
(*                                                                         *)
(* The promise ends with the session: when the application destroys it, or *)
(* when its render task dies of an exception nobody knows.                 *)
(***************************************************************************)
VARIABLES
    phase,      \* the session state
    heard,      \* the state the application was told last
    over        \* the session is being destroyed, or its render has died

vars == <<phase, heard, over>>

Init == phase = "IDLE" /\ heard = "IDLE" /\ over = FALSE

Change(from, to) ==
    /\ ~over
    /\ heard = phase
    /\ phase = from
    /\ phase' = to
    /\ UNCHANGED <<heard, over>>

Start == Change("IDLE", "ANALYSIS")
BeginRender == Change("ANALYSIS", "RENDER")
End == Change("ANALYSIS", "IDLE") \/ Change("RENDER", "IDLE")

Tell ==
    /\ ~over
    /\ heard # phase
    /\ heard' = phase
    /\ UNCHANGED <<phase, over>>

\* It ends between two changes, not in the middle of one.
GiveUp ==
    /\ ~over
    /\ heard = phase
    /\ over' = TRUE
    /\ UNCHANGED <<phase, heard>>

AfterTheEnd == over /\ over'

Next == Start \/ BeginRender \/ End \/ Tell \/ GiveUp \/ AfterTheEnd

Spec == Init /\ [][Next]_vars /\ WF_vars(BeginRender \/ End) /\ WF_vars(Tell)
====
