---- MODULE MCSession ----
(* Instances of Session for TLC: threads are model values. *)
EXTENDS Session, TLC

\* Workers and tasks are interchangeable: a thread is picked fresh from its pool.
ThreadSymmetry == Permutations(Workers) \cup Permutations(Tasks)
====
