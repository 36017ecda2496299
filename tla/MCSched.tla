------------------------------ MODULE MCSched -------------------------------
(* Small instances of Sched for TLC. *)
EXTENDS Sched

(* Two nice values: the default weight and half of it. *)
MCNice == {0, 1}
MCPrioToWeight == (0 :> 2 @@ 1 :> 1)
MCOneNice == {0}
MCOneWeight == (0 :> 2)

MCSymmetry == Permutations(Thread)
=============================================================================
