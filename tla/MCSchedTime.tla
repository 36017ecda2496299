---------------------------- MODULE MCSchedTime -----------------------------
(* A small instance of SchedTime for TLC. *)
EXTENDS SchedTime

(* A counter that runs backwards, well, or too fast. *)
MCDelta == {-1, 1, 3}
=============================================================================
