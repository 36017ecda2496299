------------------------------- MODULE CpuPri -------------------------------
(***************************************************************************)
(* The map from priorities to CPUs, cpupri.c, as activate_thread keeps it  *)
(* on the one CPU the build supports: the priority of the CPU is that of   *)
(* the thread it runs.  cpupri_find has no caller.                         *)
(***************************************************************************)
EXTENDS Integers

CONSTANTS
    MAX_RT_PRI,         \* PUSER
    PRI_MAX

IDLE_PRI == PRI_MAX + 1
INVALID_PRI == -1
CPUPRI_INVALID == -1

(* "Number of rt_prio + 1 pss_pri + 1 idle_pri" *)
CPUPRI_NR == (MAX_RT_PRI + 1) + 1 + 1

VARIABLES
    cpu_to_pri,         \* the slot of the CPU
    count,              \* pri_to_cpu[i].count
    mask                \* the i for which the CPU is in pri_to_cpu[i].mask

vars == <<cpu_to_pri, count, mask>>

(* Indices the code can compute; the array has 0 .. CPUPRI_NR - 1. *)
Index == (2 - MAX_RT_PRI) .. CPUPRI_NR

(* Larger indices are to be more important. *)
convert_pri(pri) ==
    IF pri = IDLE_PRI THEN 0
    ELSE IF pri = INVALID_PRI THEN CPUPRI_INVALID
    ELSE IF pri > MAX_RT_PRI THEN 1
    ELSE (pri - MAX_RT_PRI) + 2

(* cpupri_init *)
Init == /\ cpu_to_pri = CPUPRI_INVALID
        /\ count = [i \in Index |-> 0]
        /\ mask = {}

(* cpupri_set: into the vector of the new priority, then out of the one of *)
(* the old.                                                                *)
cpupri_set(pri) ==
    LET new == convert_pri(pri)
        old == cpu_to_pri
        Leave(i) == IF old # CPUPRI_INVALID /\ i = old THEN 1 ELSE 0
        Enter(i) == IF new # CPUPRI_INVALID /\ i = new THEN 1 ELSE 0
    IN  /\ cpu_to_pri' = new
        /\ count' = [i \in Index |-> count[i] + Enter(i) - Leave(i)]
        /\ mask' = (mask \cup ({new} \ {CPUPRI_INVALID}))
                        \ ({old} \ {CPUPRI_INVALID})

Next == \E pri \in 0 .. PRI_MAX : cpupri_set(pri)

Spec == Init /\ [][Next]_vars

(* The priority of every thread has a place in the map, which is one array *)
(* of CPUPRI_NR vectors.                                                   *)
IndexInRange == cpu_to_pri \in {CPUPRI_INVALID} \cup 0 .. CPUPRI_NR - 1
=============================================================================
