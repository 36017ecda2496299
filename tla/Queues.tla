------------------------------- MODULE Queues -------------------------------
(***************************************************************************)
(* Queues: a sequence is the in-order content of a tree or of a list, and  *)
(* the load of a queue is the weight of what is in it.                     *)
(***************************************************************************)
EXTENDS Integers, FiniteSets, SequencesExt

(* q with t inserted before the first position of the set ps, or at the    *)
(* end when ps is empty.                                                   *)
Position(q, ps) == IF ps = {} THEN Len(q) + 1 ELSE Min(ps)
InsertBefore(q, ps, t) == InsertAt(q, Position(q, ps), t)

IndexOf(q, t) == CHOOSE i \in DOMAIN q : q[i] = t
Without(q, t) == RemoveAt(q, IndexOf(q, t))

(* The weight of the entities in S together: the number of its units *)
TotalWeight(weight, S) ==
    Cardinality(UNION {{t} \X (1 .. weight[t]) : t \in S})
=============================================================================
