------------------------------ MODULE SfqState ------------------------------
(***************************************************************************)
(* The state that the run-queue lock of the one CPU protects (struct rq,   *)
(* its struct sfq, and the scheduler's fields of every thread), and the    *)
(* helpers of sched.c and sched.h that every scheduling class uses.        *)
(*                                                                         *)
(* Every entry point of the scheduler runs from RQ_LOCK to RQ_UNLOCK with  *)
(* interrupts off, so an entry point is a function from a state to a       *)
(* state.  The operators below, of Pss and of Rt take the state s first    *)
(* and return the state the C function leaves; module Sched makes actions  *)
(* of them.                                                                *)
(***************************************************************************)
EXTENDS Integers, FiniteSets, Queues

CONSTANTS
    Thread,             \* the threads, the idle thread apart
    Idle,               \* PCPU_GET(idlethread)
    NULL,               \* the null pointer
    NoLoad,             \* the threads that have TDF_NOLOAD
    Nice,               \* the values of p_nice
    PrioToWeight,       \* prio_to_weight[], by nice value
    NICE_0_WEIGHT,
    IDLEPRIO_WEIGHT,
    Pri,                \* td_priority of a thread (a smaller one is better)
    NORMAL_PRI,
    IdleThreadPri,      \* td_priority of the idle thread
    RQ_PPQ,             \* priorities that share a queue of a struct runq
    PreemptThresh,      \* preempt_thresh
    SchedLatency,       \* sched_latency
    MinGranularity,     \* sched_min_granularity
    WakeupGranularity,  \* wakeup_granularity
    GentleSleeper,      \* the sysctls gentle_sleeper, start_debit,
    StartDebit,         \*   child_runs_first and sched_last
    ChildRunsFirst,
    SchedLast,
    SchedSlice,         \* sched_slice and sched_slice_min of sched.c, in
    SchedSliceMin,      \*   the unit of sched_time
    Modulus,            \* 2^64 scaled down; 0 means that nothing wraps
    ExecCap             \* bound: execution times saturate here

SCHED_SLICE_MIN_DIVISOR == 5

ASSUME ThreadAssumption ==
    /\ IsFiniteSet(Thread)
    /\ NULL \notin Thread
    /\ Idle \notin Thread
    /\ Idle # NULL
    /\ NoLoad \subseteq Thread

ASSUME WeightAssumption ==
    /\ Nice \subseteq Int
    /\ 0 \in Nice
    /\ PrioToWeight \in [Nice -> Nat \ {0}]
    /\ NICE_0_WEIGHT \in Nat \ {0}
    /\ IDLEPRIO_WEIGHT \in Nat \ {0}

ASSUME PriAssumption ==
    /\ Pri \subseteq Nat
    /\ NORMAL_PRI \in Nat
    /\ IdleThreadPri \in Nat
    /\ RQ_PPQ \in Nat \ {0}
    /\ PreemptThresh \in Nat
    /\ \A p \in Pri : p < IdleThreadPri

ASSUME TimeAssumption ==
    /\ SchedLatency \in Nat \ {0}
    /\ MinGranularity \in Nat \ {0}
    /\ WakeupGranularity \in Nat
    /\ SchedSlice \in Nat
    /\ SchedSliceMin \in Nat
    /\ Modulus \in Nat
    /\ ExecCap \in Nat

-----------------------------------------------------------------------------
(* The state *)

ThreadOrNull == Thread \cup {NULL}
Running == Thread \cup {Idle}

(* "none": not allocated; "new": from sched_fork_thread to the first       *)
(* sched_add, which is when se->initial is set; "sleeping": inhibited.     *)
TdState == {"none", "new", "sleeping", "runq", "running"}

(* td_pri_class: an interrupt thread (PRI_ITHD) is scheduled as a FIFO     *)
(* real-time one; "idle" is PRI_IDLE of an ordinary thread (idprio).       *)
PriClass == {"fifo", "rr", "timeshare", "idle"}

(* The KASSERTs, MPASSes and null dereferences that the code runs into. *)
PanicMsg == {"already on runq", "not on runq", "already on sfq",
             "not on sfq", "inconsistent queue state", "on sfq",
             "removing with 0 load", "joined", "not joined",
             "curr already exists", "no entity to pick"}

(* Fields have the names of the code.  The flags SEF_ONSFQ and SEF_ONRUNQ  *)
(* are membership of timeline and realtime.  curr's accounting is kept as  *)
(* differences of the clocks:                                              *)
(*   unseen     sched_time_cpu() - rq->clock                               *)
(*   delta_exec rq->clock_thread - curr->timing_start                      *)
(*   exec_time  curr->sum_exec_time - curr->prev_sum_exec_time             *)
(*   rt_exec    sched_time_cpu() - timing_start of a real-time curthread   *)
State ==
    [td_state     : [Thread -> TdState],
     joined       : SUBSET Thread,
     pri_class    : [Thread -> PriClass],
     td_priority  : [Thread -> Pri],
     p_nice       : [Thread -> Nice],
     weight       : [Thread -> Nat \ {0}],
     vruntime     : [Thread -> Int],
     timeline     : Seq(Thread),
     leftmost     : ThreadOrNull,
     curr         : ThreadOrNull,
     skip         : ThreadOrNull,
     next         : ThreadOrNull,
     last         : ThreadOrNull,
     vtime        : Int,
     sfq_running  : Int,
     load         : Int,
     nr_running   : Int,
     nr_sysrunning : Int,
     realtime     : Seq(Thread),
     td_rqindex   : [Thread -> Nat],
     curthread    : Running,
     need_resched : SUBSET Running,
     owepreempt   : SUBSET Thread,
     unseen       : Nat,
     delta_exec   : Nat,
     exec_time    : Nat,
     rt_exec      : Nat,
     panics       : SUBSET PanicMsg]

RtClass == {"fifo", "rr"}

(* The class of a thread, ts->class. *)
IsPss(s, t) == t \in Thread /\ s.pri_class[t] \notin RtClass
IsRt(s, t)  == t \in Thread /\ s.pri_class[t] \in RtClass

OnSfq(s, t)  == t \in ToSet(s.timeline)
OnRunq(s, t) == t \in ToSet(s.realtime)

(* KASSERT and MPASS: a failure is recorded, and the code goes on. *)
Kassert(s, cond, msg) ==
    [s EXCEPT !.panics = IF cond THEN @ ELSE @ \cup {msg}]

-----------------------------------------------------------------------------
(* Virtual time: 64-bit unsigned numbers compared by the sign of their     *)
(* difference.                                                             *)

Wrap(x) == IF Modulus = 0 THEN x ELSE x % Modulus

(* (int64_t)(a - b) *)
Diff(a, b) ==
    IF Modulus = 0 THEN a - b
    ELSE LET d == (a - b) % Modulus
         IN  IF 2 * d >= Modulus THEN d - Modulus ELSE d

MaxVruntime(v, w) == IF Diff(w, v) > 0 THEN w ELSE v
MinVruntime(v, w) == IF Diff(w, v) < 0 THEN w ELSE v

SaturatingAdd(x, y) == IF x + y > ExecCap THEN ExecCap ELSE x + y

-----------------------------------------------------------------------------
(* struct runq of the kernel: queues in the order of td_rqindex, a fifo    *)
(* per index; SRQ_PREEMPTED asks for the head of the fifo.  td_rqindex is  *)
(* meaningless, and 0 here, off the queue.                                 *)
RunqAdd(s, t, preempted) ==
    LET idx == s.td_priority[t] \div RQ_PPQ
        ps  == {i \in DOMAIN s.realtime :
                   IF preempted THEN s.td_rqindex[s.realtime[i]] >= idx
                                ELSE s.td_rqindex[s.realtime[i]] > idx}
    IN  [s EXCEPT !.realtime = InsertBefore(@, ps, t),
                  !.td_rqindex[t] = idx]

RunqRemove(s, t) ==
    [s EXCEPT !.realtime = Without(@, t), !.td_rqindex[t] = 0]

-----------------------------------------------------------------------------
(* Common helpers of sched.c and sched.h *)

(* Mutant of UpdateRqClock: the difference of the clocks is reversed. *)
UpdateRqClockReversed(s) ==
    [s EXCEPT !.unseen = 0,
              !.delta_exec = IF s.curr = NULL THEN 0 ELSE @ - s.unseen]

UpdateRqClock(s) ==
    [s EXCEPT !.unseen = 0,
              !.delta_exec = IF s.curr = NULL THEN 0 ELSE @ + s.unseen]

ReschedThread(s, t) == [s EXCEPT !.need_resched = @ \cup {t}]

PreemptThread(s, t) ==
    [s EXCEPT !.need_resched = @ \cup {t}, !.owepreempt = @ \cup {t}]

Priority(s, t) == IF t = Idle THEN IdleThreadPri ELSE s.td_priority[t]

(* Mutant of CheckPriorityPreempt: nothing is asked above the threshold. *)
CheckPriorityPreemptOverThresh(s, t) ==
    IF \/ Priority(s, t) >= Priority(s, s.curthread)
       \/ Priority(s, t) > PreemptThresh \/ s.curthread = Idle
    THEN s ELSE PreemptThread(s, s.curthread)

(* A running curthread is never TD_IS_INHIBITED here: it gives up the lock *)
(* it sleeps on only inside sched_switch.                                  *)
CheckPriorityPreempt(s, t) ==
    LET ctd == s.curthread
    IN  IF Priority(s, t) >= Priority(s, ctd) THEN s
        ELSE IF ctd # Idle /\ Priority(s, t) <= PreemptThresh
        THEN PreemptThread(s, ctd)
        ELSE ReschedThread(s, ctd)

SysLoad(t) == IF t \in NoLoad THEN 0 ELSE 1

RqRunAdd(s, t) ==
    [s EXCEPT !.nr_running = @ + 1, !.nr_sysrunning = @ + SysLoad(t)]

(* Mutant of RqRunRem: the system load is never taken back. *)
RqRunRemKeepsSysload(s, t) ==
    [Kassert(s, s.nr_running # 0, "removing with 0 load")
        EXCEPT !.nr_running = @ - 1]

RqRunRem(s, t) ==
    [Kassert(s, s.nr_running # 0, "removing with 0 load")
        EXCEPT !.nr_running = @ - 1, !.nr_sysrunning = @ - SysLoad(t)]

RqSlice(s) ==
    LET load == s.nr_sysrunning - 1
    IN  IF load >= SCHED_SLICE_MIN_DIVISOR THEN SchedSliceMin
        ELSE IF load <= 1 THEN SchedSlice
        ELSE SchedSlice \div load
=============================================================================
