------------------------------ MODULE SchedTime -----------------------------
(***************************************************************************)
(* The scheduler clock, sched_time.c: every CPU keeps a time of its own,   *)
(* made of the system up-time at its last tick and of a cycle counter that *)
(* may run at any speed, and CPUs read each other's.  A CPU executes one   *)
(* call at a time (the callers hold a spin lock), but calls of different   *)
(* CPUs interleave between any two accesses to a shared time; they are     *)
(* synchronised by atomic_cmpset_64 alone.                                 *)
(*                                                                         *)
(* Loads of 64 bits are atomic here, as they are where __LONG_BIT is 64.   *)
(* Times are nanoseconds of up-time and do not reach 2^63.                 *)
(***************************************************************************)
EXTENDS Integers

CONSTANTS
    Cpu,            \* the CPUs
    tick_ns,        \* nanoseconds between two ticks
    Delta,          \* what cputime_ns() may have advanced since the tick
    MaxUptime       \* bound: the system up-time stops here

ASSUME SchedTimeAssumption ==
    /\ tick_ns \in Nat \ {0}
    /\ Delta \subseteq Int
    /\ MaxUptime \in Nat

VARIABLES
    sched_time_running,
    uptime,         \* nanouptime(), common to all CPUs
    tick_sys_time,  \* up-time at the last tick of a CPU, which alone uses it
    time,           \* the time of a CPU, shared
    call,           \* the call a CPU is in, with its local variables
    seen,           \* history: the last value returned to a CPU
    read            \* history: the largest value returned of a CPU's time

vars == <<sched_time_running, uptime, tick_sys_time, time, call, seen, read>>

-----------------------------------------------------------------------------
(* A call is "idle", at "local" or before the "local_cmpset" of            *)
(* sched_time_local, or at "load_local", "load_remote" or "cmpset" of the  *)
(* loop of sched_time_remote.  cpu is the CPU whose time is asked for,     *)
(* floor what had been read of it when the call began, and val the time    *)
(* that sched_time_local computes; the others have the names of the code.  *)

Pc == {"idle", "local", "local_cmpset", "load_local", "load_remote", "cmpset"}

Call == [pc : Pc, cpu : Cpu, floor : Nat, old_time : Nat, val : Nat,
         local_time : Nat, remote_time : Nat]

Start(pc, cpu, floor) ==
    [pc |-> pc, cpu |-> cpu, floor |-> floor, old_time |-> 0, val |-> 0,
     local_time |-> 0, remote_time |-> 0]

wrap_max_64(x, y) == IF x - y > 0 THEN x ELSE y
wrap_min_64(x, y) == IF x - y < 0 THEN x ELSE y

(* Mutant of NewTime: the time may run ahead of the next tick. *)
NewTimeUnlimited(sys, old_time, delta) ==
    wrap_max_64(sys + wrap_max_64(delta, 0), wrap_max_64(sys, old_time))

(* Mutant of NewTime: the counter is trusted when it runs backwards. *)
NewTimeBack(sys, old_time, delta) == wrap_min_64(sys + delta, sys + tick_ns)

(* The new time, from the time that was read: it follows the counter, but  *)
(* neither goes back nor passes the next tick.                             *)
NewTime(sys, old_time, delta) ==
    LET min_time == wrap_max_64(sys, old_time)
        max_time == wrap_max_64(old_time, sys + tick_ns)
    IN  wrap_min_64(wrap_max_64(sys + (IF delta < 0 THEN 0 ELSE delta),
                                min_time),
                    max_time)

(* The call of CPU p ends and returns v. *)
Return(p, v) ==
    /\ call' = [call EXCEPT ![p] = Start("idle", p, 0)]
    /\ seen' = [seen EXCEPT ![p] = v]
    /\ read' = [read EXCEPT ![call[p].cpu] = wrap_max_64(v, @)]

-----------------------------------------------------------------------------
(* Until sched_time_init has run, sched_time_cpu returns 0 and changes     *)
(* nothing.  It runs at boot, on the only CPU there is.                    *)
Init ==
    /\ sched_time_running = FALSE
    /\ uptime = 0
    /\ tick_sys_time = [p \in Cpu |-> 0]
    /\ time = [p \in Cpu |-> 0]
    /\ call = [p \in Cpu |-> Start("idle", p, 0)]
    /\ seen = [p \in Cpu |-> 0]
    /\ read = [p \in Cpu |-> 0]

SchedTimeInit ==
    /\ ~sched_time_running
    /\ sched_time_running' = TRUE
    /\ tick_sys_time' = [p \in Cpu |-> uptime]
    /\ time' = [p \in Cpu |-> uptime]
    /\ UNCHANGED <<uptime, call, seen, read>>

Uptime ==
    /\ uptime < MaxUptime
    /\ uptime' = uptime + 1
    /\ UNCHANGED <<sched_time_running, tick_sys_time, time, call, seen, read>>

(* sched_time_cpu(cpu) on CPU p.  A remote call brings the local time up   *)
(* to date first.                                                          *)
SchedTimeCpu(p, cpu) ==
    /\ sched_time_running
    /\ call[p].pc = "idle"
    /\ call' = [call EXCEPT ![p] = Start("local", cpu, read[cpu])]
    /\ UNCHANGED <<sched_time_running, uptime, tick_sys_time, time, seen, read>>

(* sched_time_tick on CPU p; what it drops at the end counts as returned. *)
SchedTimeTick(p) ==
    /\ sched_time_running
    /\ call[p].pc = "idle"
    /\ tick_sys_time' = [tick_sys_time EXCEPT ![p] = uptime]
    /\ call' = [call EXCEPT ![p] = Start("local", p, read[p])]
    /\ UNCHANGED <<sched_time_running, uptime, time, seen, read>>

(* sched_time_local from "again" to the cmpset: the one shared load is     *)
(* that of data->time.                                                     *)
LocalLoad(p) ==
    /\ call[p].pc = "local"
    /\ \E delta \in Delta :
          call' = [call EXCEPT
                     ![p].pc = "local_cmpset",
                     ![p].old_time = time[p],
                     ![p].val = NewTime(tick_sys_time[p], time[p], delta)]
    /\ UNCHANGED <<sched_time_running, uptime, tick_sys_time, time, seen, read>>

LocalRetry(p) ==
    /\ call[p].pc = "local_cmpset"
    /\ time[p] # call[p].old_time
    /\ call' = [call EXCEPT ![p] = Start("local", @.cpu, @.floor)]
    /\ UNCHANGED <<sched_time_running, uptime, tick_sys_time, time, seen, read>>

LocalCmpset(p) ==
    /\ call[p].pc = "local_cmpset"
    /\ time[p] = call[p].old_time
    /\ time' = [time EXCEPT ![p] = call[p].val]
    /\ IF call[p].cpu = p
       THEN Return(p, call[p].val)
       ELSE /\ call' = [call EXCEPT
                          ![p] = Start("load_local", @.cpu, @.floor)]
            /\ UNCHANGED <<seen, read>>
    /\ UNCHANGED <<sched_time_running, uptime, tick_sys_time>>

LoadLocal(p) ==
    /\ call[p].pc = "load_local"
    /\ call' = [call EXCEPT ![p].pc = "load_remote", ![p].local_time = time[p]]
    /\ UNCHANGED <<sched_time_running, uptime, tick_sys_time, time, seen, read>>

LoadRemote(p) ==
    /\ call[p].pc = "load_remote"
    /\ call' = [call EXCEPT ![p].pc = "cmpset",
                            ![p].remote_time = time[call[p].cpu]]
    /\ UNCHANGED <<sched_time_running, uptime, tick_sys_time, time, seen, read>>

(* The one that is behind is the one to move, from what was read of it to  *)
(* what was read of the other.                                             *)
Behind(p) == IF call[p].remote_time - call[p].local_time < 0
             THEN call[p].cpu ELSE p

(* Mutant of OldVal: the wrong one of the two is expected. *)
OldValOther(p) == IF Behind(p) = p THEN call[p].remote_time
                                   ELSE call[p].local_time

OldVal(p) == IF Behind(p) = p THEN call[p].local_time ELSE call[p].remote_time

(* Mutant of NewVal: the smaller value is returned. *)
NewValSmaller(p) == wrap_min_64(call[p].local_time, call[p].remote_time)

NewVal(p) == IF Behind(p) = p THEN call[p].remote_time ELSE call[p].local_time

RemoteRetry(p) ==
    /\ call[p].pc = "cmpset"
    /\ time[Behind(p)] # OldVal(p)
    /\ call' = [call EXCEPT ![p] = Start("load_local", @.cpu, @.floor)]
    /\ UNCHANGED <<sched_time_running, uptime, tick_sys_time, time, seen, read>>

(* Mutant of RemoteCmpset: the local time is left behind. *)
RemoteCmpsetOneWay(p) ==
    /\ call[p].pc = "cmpset"
    /\ time[Behind(p)] = OldVal(p)
    /\ time' = IF Behind(p) = p THEN time
               ELSE [time EXCEPT ![Behind(p)] = NewVal(p)]
    /\ Return(p, NewVal(p))
    /\ UNCHANGED <<sched_time_running, uptime, tick_sys_time>>

RemoteCmpset(p) ==
    /\ call[p].pc = "cmpset"
    /\ time[Behind(p)] = OldVal(p)
    /\ time' = [time EXCEPT ![Behind(p)] = NewVal(p)]
    /\ Return(p, NewVal(p))
    /\ UNCHANGED <<sched_time_running, uptime, tick_sys_time>>

Step(p) ==
    \/ LocalLoad(p) \/ LocalRetry(p) \/ LocalCmpset(p)
    \/ LoadLocal(p) \/ LoadRemote(p) \/ RemoteRetry(p) \/ RemoteCmpset(p)

Next ==
    \/ SchedTimeInit
    \/ Uptime
    \/ \E p \in Cpu : SchedTimeTick(p) \/ Step(p)
    \/ \E p, cpu \in Cpu : SchedTimeCpu(p, cpu)

Spec == Init /\ [][Next]_vars

(* A CPU that is in a call goes on with it. *)
FairSpec == Spec /\ \A p \in Cpu : WF_vars(Step(p))

-----------------------------------------------------------------------------
(* Properties *)

TypeOK ==
    /\ sched_time_running \in BOOLEAN
    /\ uptime \in Nat
    /\ tick_sys_time \in [Cpu -> Nat]
    /\ time \in [Cpu -> Nat]
    /\ call \in [Cpu -> Call]
    /\ seen \in [Cpu -> Nat]
    /\ read \in [Cpu -> Nat]

(* However fast the cycle counters run, and however often CPUs pass their  *)
(* times to each other, no time is more than a tick ahead of the system;   *)
(* and a CPU that is not in a call has caught up with its last tick.       *)
WithinATick ==
    \A p \in Cpu :
        /\ time[p] <= uptime + tick_ns
        /\ call[p].pc = "idle" => tick_sys_time[p] <= time[p]

(* No time of a CPU is ever set back, whoever sets it, from readings that  *)
(* were taken before others set it.                                        *)
TimeNeverGoesBack ==
    [][\A p \in Cpu : time'[p] >= time[p]]_vars

(* What a CPU is told, of whichever CPU it asks, never goes back.  (This   *)
(* is why sched_time_remote moves the local time too.)                     *)
CpuSeesTimeAdvance ==
    [][\A p \in Cpu : seen'[p] >= seen[p]]_vars

(* A call that asks for the time of a CPU is told no less than any call    *)
(* that had ended before it began, on this or another CPU.                 *)
ReadingsOrdered ==
    [][\A p \in Cpu :
          call[p].pc # "idle" /\ call'[p].pc = "idle" =>
              seen'[p] >= call[p].floor]_vars

(* The loops around cmpset end: a CPU retries only when another one has    *)
(* moved a time, and none moves for ever while the up-time stands still.   *)
CallsReturn ==
    \A p \in Cpu : call[p].pc # "idle" ~> call[p].pc = "idle"
=============================================================================
