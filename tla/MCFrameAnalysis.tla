---- MODULE MCFrameAnalysis ----
(* Requests for TLC: every one of a bounded length, and some longer. *)
EXTENDS FrameAnalysis

CONSTANT MaxLength

a == "a"    b == "b"    c == "c"
e == "e"    f == "f"
unknown == "x"

Tokens == {a, b, c, e, f, unknown} \cup Operators \cup {Uncut}

FirstAt(s, token) ==
    LET at == {i \in DOMAIN s : s[i] = token}
    IN IF at = {} THEN Len(s) + 1 ELSE CHOOSE i \in at : \A j \in at : i <= j

\* Detectors are interchangeable, and so are effects: one request of each kind,
\* in which they come up in alphabetical order, stands for all.
InOrder(s, x, y) == FirstAt(s, y) <= Len(s) => FirstAt(s, x) < FirstAt(s, y)
Canonical(s) == InOrder(s, a, b) /\ InOrder(s, b, c) /\ InOrder(s, e, f)

ShortOnes == {s \in UNION {[1 .. n -> Tokens] : n \in 1 .. MaxLength} : Canonical(s)}

LongOnes == {
    <<a, ":", e, "|", b, ":", f>>,
    <<a, "|", b, ":", e, "|", c, ":", f>>,
    <<a, "|", b, "&", c, "|", a, "&", b>>,
    <<a, ":", e, ":", f, "&", b>>,
    <<a, ":", e, "&", "~", b, ":", f>>,
    <<"~", a, ":", e, "|", b, "&", c>>,
    <<a, "|", b, "&", c, ":", e, "|", a, ":", f>>,
    <<a, "&", b, "|", b, "&", a, "|", c>>,
    <<a, ":", "~", b, ":", e>>,
    <<a, "|", "~", b, ":", e, "&", c>>,
    <<a, "&", "~", ":", e, "|", b>>,
    <<"~", a, ":", e, "&", f>>,
    <<a, "&", e, "|", "~", b, ":", f, "|", c>>,
    <<"~", a, ":", e, "|", b, "&", f, "|", c>> }

AllRequests == ShortOnes \cup LongOnes
====
