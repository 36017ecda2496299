---------------------------- MODULE MCGroupLife -----------------------------
(* A small instance of GroupLife for TLC. *)
EXTENDS GroupLife

CONSTANTS t0, p0, p1

(* thread0 has a process of its own, the others share one. *)
MCProcessOf == [t \in Thread |-> IF t = t0 THEN p0 ELSE p1]

MCSymmetry == Permutations(Thread \ {t0}) \cup Permutations(Group)
              \cup Permutations(Caller)
=============================================================================
