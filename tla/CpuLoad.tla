------------------------------ MODULE CpuLoad -------------------------------
(***************************************************************************)
(* The load averages of a run queue, sched.c: five averages of rq->load,   *)
(* each slower than the one before, brought up to date by a clock tick     *)
(* that may stand for several.                                             *)
(***************************************************************************)
EXTENDS Integers, Sequences, FiniteSets

CONSTANTS
    Load,           \* the values of rq->load.weight
    Count           \* the numbers of ticks one call of sched_tick stands for

LoadConstants ==
    /\ Load \subseteq Nat /\ IsFiniteSet(Load) /\ Load # {}
    /\ Count \subseteq Nat \ {0}

VARIABLES
    load,           \* rq->load.weight
    cpu_load        \* rq->cpu_load, the averages 1 to 4

vars == <<load, cpu_load>>

Average == 1 .. 4
Scale(i) == 2 ^ i

-----------------------------------------------------------------------------
DECAY_SHIFT == 7

decay_to_zero_ticks == <<8, 32, 64, 128>>

(* Mutant of power_of_2_decay_factors: one factor belongs to another row. *)
DecayFactorsShifted ==
    <<<<64, 32, 8, 0, 0, 0, 0, 0>>,
      <<96, 72, 40, 12, 1, 0, 0, 0>>,
      <<112, 98, 75, 76, 15, 1, 0, 0>>,
      <<120, 112, 98, 76, 45, 16, 2, 0>>>>

power_of_2_decay_factors ==
    <<<<64, 32, 8, 0, 0, 0, 0, 0>>,
      <<96, 72, 40, 12, 1, 0, 0, 0>>,
      <<112, 98, 75, 43, 15, 1, 0, 0>>,
      <<120, 112, 98, 76, 45, 16, 2, 0>>>>

(* decay_cpu_load_missed: one factor for every bit of the number of missed *)
(* updates.                                                                *)
Decay(old, missed, i) ==
    LET Bit(j) == (missed \div 2 ^ j) % 2 = 1
        by[j \in 0 .. DECAY_SHIFT] ==
            IF j = 0 THEN old
            ELSE IF Bit(j - 1)
            THEN (by[j - 1] * power_of_2_decay_factors[i][j])
                    \div 2 ^ DECAY_SHIFT
            ELSE by[j - 1]
    IN  IF missed = 0 THEN old
        ELSE IF missed >= decay_to_zero_ticks[i] THEN 0
        ELSE IF i = 1 THEN old \div 2 ^ missed
        ELSE by[DECAY_SHIFT]

(* Mutant of UpdateAverage: no rounding. *)
UpdateAverageDown(old, cur, pending, i) ==
    (Decay(old, pending - 1, i) * (Scale(i) - 1) + cur) \div Scale(i)

(* __update_cpu_load of one average: it is rounded up while it grows. *)
UpdateAverage(old, cur, pending, i) ==
    LET decayed == Decay(old, pending - 1, i)
        new == IF cur > decayed THEN cur + Scale(i) - 1 ELSE cur
    IN  (decayed * (Scale(i) - 1) + new) \div Scale(i)

-----------------------------------------------------------------------------
Init ==
    /\ load \in Load
    /\ cpu_load = [i \in Average |-> 0]

(* Threads come and go. *)
ChangeLoad ==
    /\ load' \in Load \ {load}
    /\ UNCHANGED cpu_load

(* sched_tick, update_cpu_load *)
SchedTick(cnt) ==
    /\ cpu_load' = [i \in Average |->
                       UpdateAverage(cpu_load[i], load, cnt, i)]
    /\ UNCHANGED load

Next == ChangeLoad \/ \E cnt \in Count : SchedTick(cnt)

Spec == Init /\ [][Next]_vars

(* The clock ticks. *)
Fairness == WF_vars(SchedTick(1))

-----------------------------------------------------------------------------
(* Properties *)

Greatest == CHOOSE l \in Load : \A m \in Load : m <= l

(* The averages stay between no load and the greatest load there was,      *)
(* though growing ones are rounded up (__update_cpu_load).                 *)
TypeOK ==
    /\ load \in Load
    /\ cpu_load \in [Average -> 0 .. Greatest]

(* What a load of 1 stands for: itself, and NICE_0_WEIGHT.                *)
Unit == {1, 1024}

(* The table of powers is as good as the loop it avoids, for every number  *)
(* of missed updates up to and beyond the cut-off of decay_to_zero_ticks.  *)
(* It never gives more than there was.  It gives less than Scale(i) more   *)
(* than one update after the other, which rounds down every time, and at   *)
(* most a 64th of the load and one less, which is what the rounding of the *)
(* factors to 1/128 and the cut-off cost.                                  *)
DecayIsAccurate ==
    \A i \in Average, l \in 0 .. Greatest, u \in Unit :
        LET slow[n \in 0 .. decay_to_zero_ticks[i] + 1] ==
                IF n = 0 THEN l * u
                ELSE (slow[n - 1] * (Scale(i) - 1)) \div Scale(i)
        IN  \A n \in DOMAIN slow :
                LET fast == Decay(l * u, n, i)
                IN  /\ fast <= l * u
                    /\ fast - slow[n] < Scale(i)
                    /\ slow[n] - fast <= (l * u) \div 64 + 1

(* "Round up to avoid getting stuck while load is increasing": a load that *)
(* stays the same is what every average comes to.                          *)
Settles ==
    \A l \in Load :
        <>[](load = l) => <>[](\A i \in Average : cpu_load[i] = l)
=============================================================================
