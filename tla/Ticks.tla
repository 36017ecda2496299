------------------------------- MODULE Ticks --------------------------------
(***************************************************************************)
(* What runs by the clock besides the scheduler's tick: the period timer   *)
(* of HrTimer, the load averages of CpuLoad and the CPU usage of PctCpu.   *)
(* The three share no variable of the code, so that a behaviour of the     *)
(* whole is seen by each as one of its own; only one of them moves in a    *)
(* behaviour of this module, and the others stay at one initial state.     *)
(***************************************************************************)
EXTENDS HrTimer, FiniteSets

CONSTANTS Load, Count       \* of CpuLoad

CONSTANTS hz, SCHED_TICK_SECS, SCHED_TICK_SHIFT, FSCALE, TickRange, StatGap,
          MaxSleep          \* of PctCpu

VARIABLES
    load, cpu_load,             \* of CpuLoad
    now, ts, running, always, slept, overcounted,   \* of PctCpu
    part                        \* the part that moves

L == INSTANCE CpuLoad
U == INSTANCE PctCpu

ASSUME TicksAssumption == L!LoadConstants /\ U!TickConstants

load_vars == <<load, cpu_load>>
usage_vars == <<now, ts, running, always, slept, overcounted>>
ticks_vars == <<vars, load_vars, usage_vars, part>>

TicksInit ==
    /\ part \in {"timer", "load", "usage"}
    /\ Init
    /\ L!Init /\ (part # "load" => load = L!Greatest)
    /\ U!Init /\ (part # "usage" => now = 0)

TicksNext ==
    \/ part = "timer" /\ Next /\ UNCHANGED <<load_vars, usage_vars, part>>
    \/ part = "load" /\ L!Next /\ UNCHANGED <<vars, usage_vars, part>>
    \/ part = "usage" /\ U!Next /\ UNCHANGED <<vars, load_vars, part>>

(* The fairness of the part that moves. *)
TicksSpec ==
    /\ TicksInit /\ [][TicksNext]_ticks_vars
    /\ part = "timer" => Fairness
    /\ part = "load" => L!Fairness
    /\ part = "usage" => U!Fairness

-----------------------------------------------------------------------------
(* Properties *)

(* CpuLoad: the averages stay between no load and the greatest there was,  *)
(* and from any load in that range, and 1024 times that, the decay of many *)
(* updates at once agrees with one after the other up to the rounding of   *)
(* the table (__update_cpu_load, decay_cpu_load_missed).                   *)
DecayIsAccurate == L!DecayIsAccurate
DecayAgrees == (part = "load" => L!TypeOK) /\ DecayIsAccurate

(* CpuLoad: "Round up to avoid getting stuck while load is increasing".    *)
Settles == part = "load" => L!Settles

(* PctCpu: a thread has not run for longer than its history is long, but   *)
(* for a long sleep that sched_throw has counted as run time; the update   *)
(* divides by the length of no empty history, and who has always run is    *)
(* reported to use the whole CPU (sched_pctcpu_update, sched_pctcpu).      *)
HistoryHolds == U!HistoryHolds

(* PctCpu: the count of a thread that does not run again comes to zero     *)
(* (sched_pctcpu).                                                         *)
Decays == part = "usage" => U!Decays

-----------------------------------------------------------------------------
(* Values of the constants for TLC: an uninitialised timespec is any time  *)
(* from the distant past to later than a period.                           *)
MCGarbage == -5 .. 4
=============================================================================
