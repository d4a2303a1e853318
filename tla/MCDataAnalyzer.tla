---- MODULE MCDataAnalyzer ----
(* Inputs for TLC: every sequence of a bounded length. *)
EXTENDS DataAnalyzer

CONSTANT MaxLength

\* The detected data of an excluded frame is never looked at.
AllInputs ==
    UNION {[1 .. n -> {f \in [include : BOOLEAN, effects : BOOLEAN] :
                            f.effects => f.include}] : n \in 0 .. MaxLength}
====
