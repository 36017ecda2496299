---------------------------- MODULE MCGroupSched ----------------------------
(* A small instance of GroupSched for TLC. *)
EXTENDS GroupSched

CONSTANTS g1, g2

(* One group inside the other, of different shares. *)
MCNested == (g1 :> Root @@ g2 :> g1)
MCShares == (g1 :> 4 @@ g2 :> 2)

MCSymmetry == Permutations(Thread)
=============================================================================
