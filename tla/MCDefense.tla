----------------------------- MODULE MCDefense -----------------------------
(* The instance of Defense for TLC: four connections at a time; the         *)
(* tasks are interchangeable.  Once a power wraps to zero an address is let *)
(* in again and again: FewFailures bounds the failures of one window.       *)
EXTENDS Defense, TLC

CONSTANTS t1, t2, t3, t4
FourTasks == {t1, t2, t3, t4}
FewFailures == failures <= 8
Symmetry == Permutations(Tasks)
=============================================================================
