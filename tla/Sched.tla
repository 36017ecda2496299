------------------------------- MODULE Sched --------------------------------
(***************************************************************************)
(* The scheduler of one CPU: the entry points of sched.c over the classes  *)
(* realtime, pss and idle, driven by an environment that makes the calls   *)
(* the FreeBSD kernel makes, in any order the kernel allows.               *)
(***************************************************************************)
EXTENDS Pss, Rt

CONSTANTS
    TickPeriod,     \* time between two calls of sched_tick
    Honoured,       \* TRUE: a pending preemption is taken before time passes
    MaxTime,        \* bound: time passes while vtime is below it
    Calls           \* the optional kernel calls the environment makes

KernelCall == {"fork", "kthread", "exit", "sleep", "relinquish", "nice",
               "class", "class_new", "priority"}

ASSUME SchedAssumption ==
    /\ TickPeriod \in Nat \ {0}
    /\ MaxTime \in Nat
    /\ Calls \subseteq KernelCall

VARIABLES
    rq,             \* everything the run-queue lock protects
    since_tick      \* time since the last sched_tick

vars == <<rq, since_tick>>

-----------------------------------------------------------------------------
(* Dispatch to the class of a thread.  The operations of idle_class do     *)
(* nothing but set the state of the idle thread, which nothing reads.      *)

ClassEnqueue(s, t, wakeup) ==
    IF IsPss(s, t) THEN PssEnqueue(s, t, wakeup) ELSE RtEnqueue(s, t)

ClassDequeue(s, t, sleep) ==
    IF IsPss(s, t) THEN PssDequeue(s, t, sleep) ELSE RtDequeue(s, t)

ClassPutPrev(s, t, swt) ==
    IF t = Idle THEN s
    ELSE IF IsPss(s, t) THEN PssPutPrev(s, t, swt) ELSE RtPutPrev(s, t, swt)

ClassActivate(s, t) ==
    IF t = Idle THEN s
    ELSE IF IsPss(s, t) THEN PssActivate(s, t) ELSE RtActivate(s, t)

(* put_prev_thread: the clock is not read when the idle thread, or a       *)
(* thread that was just dequeued, is put away.                             *)
PutPrevThread(s, t, swt) ==
    ClassPutPrev(IF t \in s.joined THEN UpdateRqClock(s) ELSE s, t, swt)

EnqueueThread(s, t, wakeup) == ClassEnqueue(UpdateRqClock(s), t, wakeup)
DequeueThread(s, t, sleep) == ClassDequeue(UpdateRqClock(s), t, sleep)

CheckPreemptCurr(s, t) ==
    LET s1 == CheckPriorityPreempt(s, t)
    IN  IF IsPss(s, t) /\ IsPss(s, s.curthread)
        THEN PssCheckPreemptCurr(s1, t) ELSE s1

PssSwitchedTo(s, t) ==
    IF s.td_state[t] = "sleeping" THEN Absolute(s, t)
    ELSE IF s.curthread = t THEN ReschedThread(s, t)
    ELSE CheckPreemptCurr(s, t)

(* Mutant of SchedChoose: the fair queue is asked first. *)
SchedChooseFairFirst(s) ==
    IF s.leftmost # NULL
    THEN LET t == PickNextEntity(s)
         IN  [ClassActivate(ClearCandidates(s, t), t) EXCEPT !.curthread = t]
    ELSE IF s.realtime = <<>> THEN [s EXCEPT !.curthread = Idle]
    ELSE [ClassActivate(s, Head(s.realtime)) EXCEPT
            !.curthread = Head(s.realtime)]

(* sched_choose: the real-time queue, then the fair queue, then idle; the  *)
(* chosen thread, which may be a raised pss thread of the real-time queue, *)
(* is activated by its own class.                                          *)
SchedChoose(s) ==
    IF s.realtime # <<>>
    THEN [ClassActivate(s, Head(s.realtime)) EXCEPT
            !.curthread = Head(s.realtime)]
    ELSE IF s.sfq_running = 0 THEN [s EXCEPT !.curthread = Idle]
    ELSE IF s.leftmost = NULL
    THEN [Kassert(s, FALSE, "no entity to pick") EXCEPT !.curthread = Idle]
    ELSE LET t == PickNextEntity(s)
         IN  [ClassActivate(ClearCandidates(s, t), t) EXCEPT !.curthread = t]

(* sched_switch by a thread that stays runnable *)
SwitchRunnable(s, swt) ==
    LET td == s.curthread
        s1 == [s EXCEPT !.need_resched = @ \ {td}, !.owepreempt = @ \ {td}]
    IN  SchedChoose(PutPrevThread(s1, td, swt))

(* sched_switch by a thread that is going to sleep *)
SwitchSleeping(s) ==
    LET td == s.curthread
        s1 == [s EXCEPT !.need_resched = @ \ {td}, !.owepreempt = @ \ {td},
                        !.td_state[td] = "sleeping"]
    IN  SchedChoose(PutPrevThread(DequeueThread(s1, td, TRUE), td, "sleepq"))

(* sched_throw; the flags of the thread are gone with it. *)
SwitchThrow(s) ==
    LET td == s.curthread
        s1 == PutPrevThread(DequeueThread(s, td, FALSE), td, "none")
    IN  SchedChoose([s1 EXCEPT !.need_resched = @ \ {td},
                               !.owepreempt = @ \ {td},
                               !.td_state[td] = "none"])

(* sched_add *)
Add(s, t) ==
    CheckPreemptCurr(EnqueueThread(s, t, s.td_state[t] = "sleeping"), t)

(* sched_fork_thread.  The kernel has copied class and nice value to the   *)
(* child; its base priority, prio, is the parent's without what it borrows.*)
ForkThread(s, t, child, prio) ==
    LET s1 == [s EXCEPT !.td_state[child] = "new",
                        !.pri_class[child] = s.pri_class[t],
                        !.p_nice[child] = s.p_nice[t],
                        !.weight[child] = s.weight[t],
                        !.td_priority[child] = prio]
    IN  IF IsPss(s, t) THEN PssFork(s1, t, child) ELSE s1

(* The body of the loop of sched_nice for one thread.  A thread that is    *)
(* queued or running leaves the queue and comes back with its new weight.  *)
SetNice(s, t, nice) ==
    LET delta   == s.p_nice[t] - nice
        running == s.td_state[t] = "running"
        queued  == s.td_state[t] = "runq" \/ running
        s0 == [s EXCEPT !.p_nice[t] = nice]
        s1 == IF queued THEN DequeueThread(s0, t, FALSE) ELSE s0
        s2 == IF running THEN PutPrevThread(s1, t, "none") ELSE s1
        s3 == SetThreadWeight(s2, t)
        s4 == IF queued THEN EnqueueThread(s3, t, FALSE) ELSE s3
        s5 == IF running THEN ClassActivate(s4, t) ELSE s4
    IN  IF ~IsPss(s, t) THEN SetThreadWeight(s0, t)
        ELSE IF delta < 0 \/ (delta > 0 /\ running)
        THEN ReschedThread(s5, s5.curthread)
        ELSE s5

(* sched_class: the same detour, with the operations of the old class on   *)
(* the way out and those of the new one on the way in, and no clock update.*)
SetClass(s, t, class) ==
    LET running == s.td_state[t] = "running"
        queued  == s.td_state[t] = "runq" \/ running
        s1 == IF queued THEN ClassDequeue(s, t, FALSE) ELSE s
        s2 == IF running THEN ClassPutPrev(s1, t, "none") ELSE s1
        s3 == [s2 EXCEPT !.pri_class[t] = class]
        s4 == IF queued THEN ClassEnqueue(s3, t, FALSE) ELSE s3
        s5 == IF running THEN ClassActivate(s4, t) ELSE s4
    IN  IF IsPss(s, t) /\ IsRt(s5, t) THEN PssSwitchedFrom(s5, t)
        ELSE IF IsRt(s, t) /\ IsPss(s5, t) THEN PssSwitchedTo(s5, t)
        ELSE s5

ThreadPriority(s, t, prio) ==
    IF IsPss(s, t) THEN PssChangePriority(s, t, prio)
                   ELSE RtChangePriority(s, t, prio)

(* class->sched_tick of curthread *)
Tick(s) ==
    LET s1 == UpdateRqClock(s)
    IN  IF IsPss(s, s.curthread) THEN PssTick(s1, s.curthread)
        ELSE IF IsRt(s, s.curthread) THEN RtTick(s1, s.curthread)
        ELSE s1

-----------------------------------------------------------------------------
(* The initial state: thread0, a timeshare thread of nice 0 that           *)
(* sched_setup has enqueued and activated, runs; nothing else exists.      *)

Init ==
    \E t \in Thread, prio \in Pri :
    /\ since_tick = 0
    /\ rq = [td_state     |-> [u \in Thread |->
                                 IF u = t THEN "running" ELSE "none"],
             joined       |-> {t},
             pri_class    |-> [u \in Thread |-> "timeshare"],
             td_priority  |-> [u \in Thread |-> prio],
             p_nice       |-> [u \in Thread |-> 0],
             weight       |-> [u \in Thread |-> PrioToWeight[0]],
             vruntime     |-> [u \in Thread |-> 0],
             timeline     |-> <<>>,
             leftmost     |-> NULL,
             curr         |-> t,
             skip         |-> NULL,
             next         |-> NULL,
             last         |-> NULL,
             vtime        |-> 0,
             sfq_running  |-> 1,
             load         |-> PrioToWeight[0],
             nr_running   |-> 1,
             nr_sysrunning |-> SysLoad(t),
             realtime     |-> <<>>,
             td_rqindex   |-> [u \in Thread |-> 0],
             curthread    |-> t,
             need_resched |-> {},
             owepreempt   |-> {},
             unseen       |-> 0,
             delta_exec   |-> 0,
             exec_time    |-> 0,
             rt_exec      |-> 0,
             panics       |-> {}]

-----------------------------------------------------------------------------
(* Time and the clock interrupt *)

(* sched_runnable, asked by the idle thread *)
SchedRunnable == rq.curthread = Idle /\ rq.nr_running > 0

PreemptionPending ==
    \/ rq.curthread \in rq.need_resched
    \/ SchedRunnable

(* Bounds on virtual time.  Without wrap-around vtime, and the vruntime of *)
(* a thread that is charged for the time, stop at MaxTime (a fork, a new   *)
(* nice value or class can move vtime without time passing); with it       *)
(* nobody sleeps for more than a quarter of the range, beyond which the    *)
(* sign of a difference no longer tells which is later.                    *)
VtimeBound ==
    IF Modulus = 0 THEN rq.vtime <= MaxTime
    ELSE \A t \in Thread :
            rq.td_state[t] = "sleeping" /\ IsPss(rq, t) =>
                4 * Diff(rq.vtime, rq.vruntime[t]) < Modulus

TimeBound ==
    /\ VtimeBound
    /\ Modulus = 0 =>
          \A t \in IF rq.curthread = Idle THEN rq.joined ELSE {rq.curthread} :
              rq.vruntime[t] < MaxTime

CanElapse ==
    /\ since_tick < TickPeriod
    /\ TimeBound
    /\ Honoured => ~PreemptionPending

Elapse ==
    /\ CanElapse
    /\ since_tick' = since_tick + 1
    /\ rq' = [rq EXCEPT !.unseen = @ + 1,
                        !.rt_exec = IF IsRt(rq, rq.curthread)
                                    THEN SaturatingAdd(@, 1) ELSE 0]

SchedTick ==
    /\ since_tick = TickPeriod
    /\ since_tick' = 0
    /\ rq' = Tick(rq)

-----------------------------------------------------------------------------
(* Calls that switch threads *)

(* ast() of a thread that was asked to reschedule *)
CanResched == rq.curthread \in rq.need_resched \ {Idle}

NeedResched ==
    /\ CanResched
    /\ rq' = SwitchRunnable(rq, "needresched")
    /\ UNCHANGED since_tick

(* critical_exit() of a thread that owes a preemption *)
OwePreempt ==
    /\ rq.curthread \in rq.owepreempt
    /\ rq' = SwitchRunnable(rq, "owepreempt")
    /\ UNCHANGED since_tick

SchedRelinquish ==
    /\ "relinquish" \in Calls
    /\ rq.curthread # Idle
    /\ rq' = SwitchRunnable(rq, "relinquish")
    /\ UNCHANGED since_tick

(* The loop of sched_idletd leaves cpu_idle when sched_runnable says so. *)
SchedIdletd ==
    /\ SchedRunnable
    /\ rq' = SwitchRunnable(rq, "idle")
    /\ UNCHANGED since_tick

Sleep ==
    /\ "sleep" \in Calls
    /\ rq.curthread # Idle
    /\ rq' = SwitchSleeping(rq)
    /\ UNCHANGED since_tick

(* Some thread always stays (init does not exit). *)
SchedThrow ==
    /\ "exit" \in Calls
    /\ rq.curthread # Idle
    /\ \E t \in Thread \ {rq.curthread} : rq.td_state[t] # "none"
    /\ rq' = SwitchThrow(rq)
    /\ UNCHANGED since_tick

-----------------------------------------------------------------------------
(* Calls that do not *)

SchedAdd(t) ==
    /\ rq.td_state[t] \in {"new", "sleeping"}
    /\ rq' = Add(rq, t)
    /\ UNCHANGED since_tick

SchedFork(child, prio) ==
    /\ "fork" \in Calls
    /\ VtimeBound
    /\ rq.curthread # Idle
    /\ rq.td_state[child] = "none"
    /\ rq' = ForkThread(rq, rq.curthread, child, prio)
    /\ UNCHANGED since_tick

(* kern_kthread.c forks from the first thread of a process, whatever that  *)
(* thread is doing.                                                        *)
KthreadAdd(t, child, prio) ==
    /\ "kthread" \in Calls
    /\ VtimeBound
    /\ rq.td_state[t] \in {"runq", "sleeping"}
    /\ rq.td_state[child] = "none"
    /\ rq' = ForkThread(rq, t, child, prio)
    /\ UNCHANGED since_tick

SchedNice(t, nice) ==
    /\ "nice" \in Calls
    /\ VtimeBound
    /\ rq.td_state[t] # "none"
    /\ nice # rq.p_nice[t]
    /\ rq' = SetNice(rq, t, nice)
    /\ UNCHANGED since_tick

(* The class of a thread that has not started yet is set by ithread_create *)
(* (to real-time) and by create_thread of a real-time parent, which runs;  *)
(* "class_new" adds a parent that lost its real-time class meanwhile.      *)
SchedClass(t, class) ==
    /\ "class" \in Calls
    /\ VtimeBound
    /\ rq.td_state[t] # "none"
    /\ class # rq.pri_class[t]
    /\ rq.td_state[t] = "new" =>
           \/ class \in RtClass
           \/ IsRt(rq, rq.curthread)
           \/ "class_new" \in Calls
    /\ rq' = SetClass(rq, t, class)
    /\ UNCHANGED since_tick

(* sched_prio, sched_lend_prio, sched_unlend_prio and sched_userret: any   *)
(* thread may be given any other priority.                                 *)
SchedThreadPriority(t, prio) ==
    /\ "priority" \in Calls
    /\ rq.td_state[t] # "none"
    /\ prio # rq.td_priority[t]
    /\ rq' = ThreadPriority(rq, t, prio)
    /\ UNCHANGED since_tick

Next ==
    \/ Elapse
    \/ SchedTick
    \/ NeedResched
    \/ OwePreempt
    \/ SchedRelinquish
    \/ SchedIdletd
    \/ Sleep
    \/ SchedThrow
    \/ \E t \in Thread : SchedAdd(t)
    \/ \E child \in Thread, prio \in Pri : SchedFork(child, prio)
    \/ \E t, child \in Thread, prio \in Pri : KthreadAdd(t, child, prio)
    \/ \E t \in Thread, nice \in Nice : SchedNice(t, nice)
    \/ \E t \in Thread, class \in PriClass : SchedClass(t, class)
    \/ \E t \in Thread, prio \in Pri : SchedThreadPriority(t, prio)

Spec == Init /\ [][Next]_vars

(* Time goes on, the clock interrupts, and a thread that was asked to give *)
(* up the CPU does so when it returns to user mode; the idle loop spins.   *)
(* This is weak fairness of the four actions, with ENABLED spelled out:    *)
(* their guards say when they can happen, and each changes the state.      *)
Fairness ==
    /\ []<>~CanElapse \/ []<><<Elapse>>_vars
    /\ []<>(since_tick # TickPeriod) \/ []<><<SchedTick>>_vars
    /\ []<>~CanResched \/ []<><<NeedResched>>_vars
    /\ []<>~SchedRunnable \/ []<><<SchedIdletd>>_vars

FairSpec == Spec /\ Fairness

-----------------------------------------------------------------------------
(* Invariants *)

TypeOK ==
    /\ rq \in State
    /\ since_tick \in 0 .. TickPeriod

PssJoined(s) == {t \in s.joined : IsPss(s, t)}

(* The tree holds exactly the runnable timeshare threads but the running   *)
(* one, each once, and the cache of its first entity (pss.c:697) is right. *)
TimelineInv(s) ==
    /\ IsInjective(s.timeline)
    /\ ToSet(s.timeline) = PssJoined(s) \ {s.curr}
    /\ s.leftmost = IF s.timeline = <<>> THEN NULL ELSE Head(s.timeline)

(* sfq->curr is the running thread when that is a timeshare thread. *)
CurrInv(s) ==
    s.curr = IF IsPss(s, s.curthread) THEN s.curthread ELSE NULL

(* Exactly the queued and running threads have joined, and the state of a  *)
(* thread tells which it is.                                               *)
JoinedInv(s) ==
    /\ s.joined = {t \in Thread : s.td_state[t] \in {"runq", "running"}}
    /\ \A t \in Thread : s.td_state[t] = "running" <=> t = s.curthread

(* The real-time queue holds runnable threads other than the running one,  *)
(* each once: every real-time one and every timeshare one that has a       *)
(* raised priority.                                                        *)
RealtimeInv(s) ==
    /\ IsInjective(s.realtime)
    /\ ToSet(s.realtime) \subseteq s.joined \ {s.curthread}
    /\ \A t \in s.joined \ {s.curthread} :
          IsRt(s, t) \/ s.td_priority[t] < NORMAL_PRI => OnRunq(s, t)

(* A candidate that pick_next_entity may return is runnable. *)
CandidateInv(s) == {s.skip, s.next, s.last} \subseteq PssJoined(s) \cup {NULL}

(* The queues of the scheduler agree with each other, with the flags of    *)
(* the threads and with the running thread after every call, whatever      *)
(* calls were made in whatever order (the detours of sched_nice and        *)
(* sched_class through dequeue, put_prev, enqueue and activate included).  *)
QueueInv ==
    /\ TimelineInv(rq)
    /\ CurrInv(rq)
    /\ JoinedInv(rq)
    /\ RealtimeInv(rq)
    /\ CandidateInv(rq)

(* No KASSERT or MPASS of sched.c, pss.c and rt.c fails, and pick_next_    *)
(* entity is never called on an empty tree.                                *)
KassertsHold == rq.panics = {}

(* The tree is in the order of vruntime: every insertion relies on it.     *)
TimelineSorted ==
    \A i, j \in DOMAIN rq.timeline :
        i < j => ~EntityBefore(rq, rq.timeline[j], rq.timeline[i])

(* The real-time queue is in the order of the queue index, and no thread   *)
(* waits in a worse queue than its priority deserves: a priority that gets *)
(* worse may leave it where it is (rt.c:371), one that gets better, or a   *)
(* change of class, has to move it.                                        *)
RealtimeSorted ==
    /\ \A i, j \in DOMAIN rq.realtime :
          i < j => rq.td_rqindex[rq.realtime[i]] <= rq.td_rqindex[rq.realtime[j]]
    /\ \A t \in ToSet(rq.realtime) :
          rq.td_rqindex[t] <= rq.td_priority[t] \div RQ_PPQ

(* sfq->load, sfq->nr_running, rq->nr_running and rq->nr_sysrunning are    *)
(* what a recount of the runnable threads would give: a weight that        *)
(* changes while it is part of the load, or a dequeue that is counted      *)
(* twice, would show here.                                                 *)
LoadInv ==
    /\ rq.load = TotalWeight(rq.weight, PssJoined(rq))
    /\ rq.sfq_running = Cardinality(PssJoined(rq))
    /\ rq.nr_running = Cardinality(rq.joined)
    /\ rq.nr_sysrunning = Cardinality(rq.joined \ NoLoad)

(* The promise of fair queueing, over an unbounded time: as long as a      *)
(* pending preemption is taken before time passes, no runnable thread gets *)
(* further from the virtual time, in either direction, than one scheduling *)
(* period of the lightest thread.  A thread that is ahead has used more    *)
(* than its share, one that is behind less.                                *)
LightestWeight == Min({PrioToWeight[n] : n \in Nice})

FairnessBound ==
    LET bound == ScaleByWeight(SchedPeriod(Cardinality(Thread)),
                               NICE_0_WEIGHT, LightestWeight)
    IN  \A t \in PssJoined(rq) :
            Diff(rq.vruntime[t], rq.vtime) \in -bound .. bound

-----------------------------------------------------------------------------
(* Action properties *)

(* pss.c:747 "minimum virtual time of all runnable threads includes the    *)
(* running thread": virtual time never goes back, and when it advances it  *)
(* does not pass a thread that stays where it is in the queue.             *)
VtimeNeverOvertakes ==
    [][/\ Diff(rq'.vtime, rq.vtime) >= 0
       /\ rq'.vtime # rq.vtime =>
             \A t \in PssJoined(rq) \cap PssJoined(rq') :
                 rq'.vruntime[t] = rq.vruntime[t] =>
                     Diff(rq.vruntime[t], rq'.vtime) >= 0]_vars

(* Nobody gets virtual time back while it stays runnable: what was used is *)
(* paid for, through a new nice value or a change between timeshare and    *)
(* idle class too.                                                         *)
VruntimeNeverDecreases ==
    [][\A t \in PssJoined(rq) \cap PssJoined(rq') :
          Diff(rq'.vruntime[t], rq.vruntime[t]) >= 0]_vars

(* A switch is a step that starts another thread. *)
Switched == rq'.curthread # rq.curthread

(* A thread that is picked from the tree in place of the leftmost one      *)
(* (because it woke up, was preempted, or the leftmost one yielded) is     *)
(* ahead of nobody by more than the wakeup granularity.                    *)
PickIsFair ==
    [][Switched /\ IsPss(rq', rq'.curthread) /\ ~OnRunq(rq, rq'.curthread) =>
          \A t \in ToSet(rq'.timeline) :
              Diff(rq'.vruntime[rq'.curthread], rq'.vruntime[t])
                 <= ScaleDelta(rq', WakeupGranularity, rq'.leftmost)]_vars

(* sched.c:901 "Choose the highest priority thread to run": a switch never *)
(* leaves a queued real-time thread of a better queue behind, nor any      *)
(* runnable thread when it picks the idle thread.                          *)
SwitchPicksBest ==
    [][Switched =>
          /\ rq'.curthread = Idle => rq'.joined = {}
          /\ \A t \in ToSet(rq'.realtime) :
                /\ OnRunq(rq, rq'.curthread)
                /\ rq.td_rqindex[rq'.curthread] <= rq'.td_rqindex[t]]_vars

(* sched.c:961 "Request preemption ... if required": a thread that comes   *)
(* into the real-time queue, or moves up in it, ahead of the running one   *)
(* leaves the running one asked to give up the CPU.  Only sched_class asks *)
(* for nothing: rt_switched_to is empty.                                   *)
PreemptionRequested ==
    [][\A t \in ToSet(rq'.realtime) :
          /\ ~Switched /\ rq'.pri_class[t] = rq.pri_class[t]
          /\ ~OnRunq(rq, t) \/ rq'.td_priority[t] < rq.td_priority[t]
          /\ Priority(rq', t) < Priority(rq', rq'.curthread)
          => rq'.curthread \in rq'.need_resched]_vars

-----------------------------------------------------------------------------
(* Liveness *)

(* Every runnable thread runs again, whatever the others do: the clock     *)
(* interrupt ends every slice, and a thread that waits falls behind until  *)
(* it is picked.                                                           *)
NoStarvation ==
    \A t \in Thread :
        rq.td_state[t] = "runq" ~> rq.td_state[t] = "running"
=============================================================================
