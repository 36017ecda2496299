---------------------------- MODULE SchedProofs -----------------------------
(***************************************************************************)
(* What the operations on the scheduler's state do to the queues, for      *)
(* every set of threads, every weight table and every setting of the       *)
(* sysctls.  Each operation returns a state:                               *)
(*   - those that keep time and ask for preemptions touch no queue, no     *)
(*     counter of threads and no assertion;                                *)
(*   - those of the two classes have a thread join (enqueue), leave        *)
(*     (dequeue), stop (put_prev) or start (activate), keep the queues     *)
(*     consistent, and fail no assertion on the way.                       *)
(*                                                                         *)
(* QueueInv holds between calls only: inside sched_switch, sched_nice and  *)
(* sched_class a thread is dequeued, put away, enqueued and activated in   *)
(* turn.  Consistent is the part of it that every one of those operations  *)
(* restores by itself, so that the calls can be proved about one operation *)
(* at a time; Settled is what the calls add.  The calls themselves, and    *)
(* the theorems on the specification, are in the second half.              *)
(***************************************************************************)
EXTENDS Sched, QueueProofs, FiniteSetTheorems

-----------------------------------------------------------------------------
(* Time and preemption requests *)

(* The part of the state that the invariants of the queues are about: what *)
(* is known of the threads, and what struct sfq holds.                     *)
SameThreads(s, r) ==
    /\ r.td_state = s.td_state
    /\ r.joined = s.joined
    /\ r.pri_class = s.pri_class
    /\ r.td_priority = s.td_priority
    /\ r.weight = s.weight
    /\ r.load = s.load
    /\ r.nr_running = s.nr_running
    /\ r.nr_sysrunning = s.nr_sysrunning
    /\ r.curthread = s.curthread
    /\ r.panics = s.panics

SameCandidates(s, r) == r.skip = s.skip /\ r.next = s.next /\ r.last = s.last

SameSfq(s, r) ==
    /\ r.timeline = s.timeline
    /\ r.leftmost = s.leftmost
    /\ r.curr = s.curr
    /\ r.sfq_running = s.sfq_running
    /\ SameCandidates(s, r)

SameRunq(s, r) == r.realtime = s.realtime /\ r.td_rqindex = s.td_rqindex

SameQueues(s, r) == SameThreads(s, r) /\ SameSfq(s, r) /\ SameRunq(s, r)

(* The types of the fields, spelled out for the provers. *)
LEMMA StateFields ==
    ASSUME NEW s \in State
    PROVE  /\ s.td_state \in [Thread -> TdState]
           /\ s.joined \in SUBSET Thread
           /\ s.pri_class \in [Thread -> PriClass]
           /\ s.td_priority \in [Thread -> Pri]
           /\ s.p_nice \in [Thread -> Nice]
           /\ s.weight \in [Thread -> Nat \ {0}]
           /\ s.vruntime \in [Thread -> Int]
           /\ s.timeline \in Seq(Thread)
           /\ s.leftmost \in ThreadOrNull
           /\ s.curr \in ThreadOrNull
           /\ s.skip \in ThreadOrNull
           /\ s.next \in ThreadOrNull
           /\ s.last \in ThreadOrNull
           /\ s.vtime \in Int
           /\ s.sfq_running \in Int
           /\ s.load \in Int
           /\ s.nr_running \in Int
           /\ s.nr_sysrunning \in Int
           /\ s.realtime \in Seq(Thread)
           /\ s.td_rqindex \in [Thread -> Nat]
           /\ s.curthread \in Running
           /\ s.need_resched \in SUBSET Running
           /\ s.owepreempt \in SUBSET Thread
           /\ s.unseen \in Nat
           /\ s.delta_exec \in Nat
           /\ s.exec_time \in Nat
           /\ s.rt_exec \in Nat
           /\ s.panics \in SUBSET PanicMsg
    BY Zenon DEF State

(* A state has the queues of itself. *)
LEMMA SameQueuesReflexive == \A s : SameQueues(s, s)
    BY DEF SameQueues, SameThreads, SameSfq, SameCandidates,
        SameRunq

(* Leaving the queues alone composes. *)
LEMMA SameQueuesTransitive ==
    ASSUME NEW s, NEW r, NEW q, SameQueues(s, r), SameQueues(r, q)
    PROVE  SameQueues(s, q)
    BY DEF SameQueues, SameThreads, SameSfq, SameCandidates,
        SameRunq

-----------------------------------------------------------------------------
(* Arithmetic *)

(* The quotient of natural numbers is one. *)
LEMMA DivType ==
    ASSUME NEW x \in Nat, NEW n \in Nat \ {0} PROVE x \div n \in Nat
    OBVIOUS

(* The quotient does not decrease with the dividend. *)
LEMMA DivMonotone ==
    ASSUME NEW x \in Nat, NEW y \in Nat, x <= y, NEW n \in Nat \ {0}
    PROVE  x \div n <= y \div n
<1> DEFINE a == x \div n
           b == y \div n
<1>1. /\ a \in Int /\ b \in Int
      /\ n * a <= x /\ y < n * (b + 1)
    OBVIOUS
<1> HIDE DEF a, b
<1>2. n * a < n * (b + 1)
    BY <1>1
<1>3. a < b + 1
    BY <1>1, <1>2
<1> QED
    BY <1>1, <1>3 DEF a, b

(* A wrapped virtual time is an integer. *)
LEMMA WrapType == ASSUME NEW x \in Int PROVE Wrap(x) \in Int
    BY TimeAssumption DEF Wrap

(* A difference of virtual times is an integer. *)
LEMMA DiffType == ASSUME NEW x \in Int, NEW y \in Int PROVE Diff(x, y) \in Int
    BY TimeAssumption DEF Diff

(* max_vruntime and min_vruntime return a virtual time. *)
LEMMA VruntimeType ==
    ASSUME NEW x \in Int, NEW y \in Int
    PROVE  MaxVruntime(x, y) \in Int /\ MinVruntime(x, y) \in Int
    BY DEF MaxVruntime, MinVruntime

(* An execution time that saturates is still one. *)
LEMMA SaturatingAddType ==
    ASSUME NEW x \in Nat, NEW y \in Nat PROVE SaturatingAdd(x, y) \in Nat
    BY TimeAssumption DEF SaturatingAdd

(* scale_by_weight returns a number, for an empty load too: it never       *)
(* divides by zero.                                                        *)
LEMMA ScaleByWeightType ==
    ASSUME NEW delta \in Int, NEW weight \in Int, NEW lw \in Int
    PROVE  ScaleByWeight(delta, weight, lw) \in Int
<1> DEFINE w == IF lw > 0 THEN lw ELSE 1
           n == 2 * delta * weight + w
<1>1. w \in Int /\ 2 * w > 0 /\ n \in Int
    OBVIOUS
<1>2. ScaleByWeight(delta, weight, lw) = n \div (2 * w)
    BY DEF ScaleByWeight
<1> HIDE DEF w, n
<1> QED
    BY <1>1, <1>2

(* scale_delta returns a number for every thread. *)
LEMMA ScaleDeltaType ==
    ASSUME NEW s \in State, NEW delta \in Int, NEW t \in Thread
    PROVE  ScaleDelta(s, delta, t) \in Int
<1>1. s.weight[t] \in Int
    BY StateFields
<1>2. NICE_0_WEIGHT \in Int
    BY WeightAssumption
<1>3. ScaleByWeight(delta, NICE_0_WEIGHT, s.weight[t]) \in Int
    BY <1>1, <1>2, ScaleByWeightType
<1> QED
    BY <1>3 DEF ScaleDelta

(* sched_slice and sched_vslice return a number for every thread, queued   *)
(* or not.                                                                 *)
LEMMA SchedVsliceType ==
    ASSUME NEW s \in State, NEW t \in Thread
    PROVE  SfqSlice(s, t) \in Int /\ SchedVslice(s, t) \in Int
<1>1. s.weight[t] \in Int /\ s.load \in Int /\ s.sfq_running \in Int
    BY StateFields
<1>2. SchedPeriod(s.sfq_running) \in Int
    BY <1>1, TimeAssumption DEF SchedPeriod
<1> DEFINE lw == IF t \in s.joined THEN s.load ELSE s.load + s.weight[t]
<1>3. SfqSlice(s, t) \in Int
    <2>1. lw \in Int
        BY <1>1
    <2>2. SfqSlice(s, t) =
            ScaleByWeight(SchedPeriod(s.sfq_running), s.weight[t], lw)
        BY DEF SfqSlice
    <2> HIDE DEF lw
    <2> QED
        BY ZenonT(120), <1>1, <1>2, <2>1, <2>2, ScaleByWeightType
<1> QED
    BY <1>3, ScaleDeltaType DEF SchedVslice

-----------------------------------------------------------------------------
(* Virtual time *)

(* Writing the vruntime of a thread leaves the queues alone. *)
LEMMA SetVruntime ==
    ASSUME NEW s \in State, NEW t \in Thread, NEW v \in Int
    PROVE  /\ [s EXCEPT !.vruntime[t] = v] \in State
           /\ SameQueues(s, [s EXCEPT !.vruntime[t] = v])
<1> DEFINE f == [s.vruntime EXCEPT ![t] = v]
<1>1. f \in [Thread -> Int]
    BY StateFields
<1>2. [s EXCEPT !.vruntime[t] = v] = [s EXCEPT !.vruntime = f]
    OBVIOUS
<1> HIDE DEF f
<1>3. [s EXCEPT !.vruntime = f] \in State
    BY <1>1, ZenonT(60) DEF State
<1>4. SameQueues(s, [s EXCEPT !.vruntime = f])
    BY DEF SameQueues, SameThreads, SameSfq, SameCandidates, State,
        SameRunq
<1> QED
    BY <1>2, <1>3, <1>4

(* update_rq_clock leaves the queues alone. *)
LEMMA UpdateRqClockKeeps ==
    ASSUME NEW s \in State
    PROVE  UpdateRqClock(s) \in State /\ SameQueues(s, UpdateRqClock(s))
<1> DEFINE d == IF s.curr = NULL THEN 0 ELSE s.delta_exec + s.unseen
<1>1. d \in Nat /\ 0 \in Nat
    BY StateFields
<1>2. UpdateRqClock(s) = [s EXCEPT !.unseen = 0, !.delta_exec = d]
    BY DEF UpdateRqClock
<1> HIDE DEF d
<1>3. UpdateRqClock(s) \in State
    BY <1>1, <1>2, ZenonT(120) DEF State
<1> QED
    BY ZenonT(120), <1>2, <1>3
       DEF SameQueues, SameThreads, SameSfq, SameCandidates, State,
        SameRunq

(* resched_thread leaves the queues alone, for the idle thread too. *)
LEMMA ReschedThreadKeeps ==
    ASSUME NEW s \in State, NEW t \in Running
    PROVE  ReschedThread(s, t) \in State /\ SameQueues(s, ReschedThread(s, t))
    BY ZenonT(60)
       DEF ReschedThread, SameQueues, SameThreads, SameSfq, SameCandidates,
           State,
        SameRunq

(* preempt_thread leaves the queues alone. *)
LEMMA PreemptThreadKeeps ==
    ASSUME NEW s \in State, NEW t \in Thread
    PROVE  PreemptThread(s, t) \in State /\ SameQueues(s, PreemptThread(s, t))
    BY ZenonT(120)
       DEF PreemptThread, SameQueues, SameThreads, SameSfq, SameCandidates,
           State, Running,
        SameRunq

(* check_priority_preempt leaves the queues alone. *)
LEMMA CheckPriorityPreemptKeeps ==
    ASSUME NEW s \in State, NEW t
    PROVE  /\ CheckPriorityPreempt(s, t) \in State
           /\ SameQueues(s, CheckPriorityPreempt(s, t))
<1>1. s.curthread \in Running /\ (s.curthread # Idle => s.curthread \in Thread)
    BY DEF State, Running
<1> QED
    BY <1>1, ReschedThreadKeeps, PreemptThreadKeeps, SameQueuesReflexive, Zenon
    DEF CheckPriorityPreempt

(* update_sfq_vtime reads the vruntime of a thread that exists, and leaves *)
(* the queues alone.                                                       *)
LEMMA UpdateSfqVtimeKeeps ==
    ASSUME NEW s \in State
    PROVE  UpdateSfqVtime(s) \in State /\ SameQueues(s, UpdateSfqVtime(s))
<1> DEFINE least == IF s.curr \notin s.joined THEN s.vruntime[s.leftmost]
                    ELSE IF s.leftmost = NULL THEN s.vruntime[s.curr]
                    ELSE MinVruntime(s.vruntime[s.curr],
                                     s.vruntime[s.leftmost])
           v == MaxVruntime(s.vtime, least)
<1>1. CASE s.curr \notin s.joined /\ s.leftmost = NULL
    BY <1>1, SameQueuesReflexive DEF UpdateSfqVtime
<1>2. CASE s.curr \in s.joined \/ s.leftmost # NULL
    <2>1. /\ s.leftmost # NULL => s.vruntime[s.leftmost] \in Int
          /\ s.curr \in s.joined => s.vruntime[s.curr] \in Int
          /\ s.vtime \in Int
        BY StateFields DEF ThreadOrNull
    <2>2. least \in Int
        BY <1>2, <2>1, VruntimeType
    <2>3. v \in Int
        BY <2>1, <2>2, VruntimeType
    <2>4. UpdateSfqVtime(s) = [s EXCEPT !.vtime = v]
        BY <1>2 DEF UpdateSfqVtime
    <2> HIDE DEF v
    <2>5. UpdateSfqVtime(s) \in State
        BY <2>3, <2>4, ZenonT(120) DEF State
    <2> QED
        BY ZenonT(120), <2>4, <2>5
        DEF SameQueues, SameThreads, SameSfq, SameCandidates, State,
            SameRunq
<1> QED
    BY <1>1, <1>2

(* Making a vruntime absolute or relative leaves the queues alone. *)
LEMMA AbsoluteRelativeKeep ==
    ASSUME NEW s \in State, NEW t \in Thread
    PROVE  /\ Absolute(s, t) \in State /\ SameQueues(s, Absolute(s, t))
           /\ Relative(s, t) \in State /\ SameQueues(s, Relative(s, t))
<1>1. s.vruntime[t] + s.vtime \in Int /\ s.vruntime[t] - s.vtime \in Int
    BY StateFields
<1> QED
    BY <1>1, WrapType, SetVruntime DEF Absolute, Relative

(* place_entity leaves the queues alone, whether the thread is new or      *)
(* wakes up.                                                               *)
LEMMA PlaceKeeps ==
    ASSUME NEW s \in State, NEW t \in Thread
    PROVE  /\ PlaceInitial(s, t) \in State /\ SameQueues(s, PlaceInitial(s, t))
           /\ PlaceWakeup(s, t) \in State /\ SameQueues(s, PlaceWakeup(s, t))
<1>1. s.vruntime[t] \in Int /\ s.vtime \in Int
    BY StateFields
<1>2. SchedVslice(s, t) \in Int
    BY SchedVsliceType
<1>3. s.vtime + SchedVslice(s, t) \in Int
    BY <1>1, <1>2
<1>4. Wrap(s.vtime + SchedVslice(s, t)) \in Int
    BY <1>3, WrapType
<1>5. SleeperCredit \in Int
    BY TimeAssumption DEF SleeperCredit
<1>6. s.vtime - SleeperCredit \in Int
    BY <1>1, <1>5
<1>7. Wrap(s.vtime - SleeperCredit) \in Int
    BY <1>6, WrapType
<1> DEFINE v == IF StartDebit THEN Wrap(s.vtime + SchedVslice(s, t))
                              ELSE s.vtime
<1>8. v \in Int
    BY <1>1, <1>4
<1>9. PlaceInitial(s, t) =
        [s EXCEPT !.vruntime[t] = MaxVruntime(s.vruntime[t], v)]
    BY DEF PlaceInitial
<1> HIDE DEF v
<1>10. MaxVruntime(s.vruntime[t], v) \in Int
    BY <1>1, <1>8, VruntimeType
<1>11. MaxVruntime(s.vruntime[t], Wrap(s.vtime - SleeperCredit)) \in Int
    BY <1>1, <1>7, VruntimeType
<1> QED
    BY <1>9, <1>10, <1>11, SetVruntime DEF PlaceWakeup

(* update_curr leaves the queues alone. *)
LEMMA UpdateCurrKeeps ==
    ASSUME NEW s \in State
    PROVE  UpdateCurr(s) \in State /\ SameQueues(s, UpdateCurr(s))
<1>1. CASE s.curr = NULL \/ s.delta_exec = 0
    BY <1>1, SameQueuesReflexive DEF UpdateCurr
<1>2. CASE ~ (s.curr = NULL \/ s.delta_exec = 0)
    <2>1. s.curr \in Thread /\ s.delta_exec \in Nat /\ s.exec_time \in Nat
        BY <1>2, StateFields DEF ThreadOrNull
    <2> DEFINE delta == ScaleDelta(s, s.delta_exec, s.curr)
               v == Wrap(s.vruntime[s.curr] + delta)
               f == [s.vruntime EXCEPT ![s.curr] = v]
               e == SaturatingAdd(s.exec_time, s.delta_exec)
               z == [s EXCEPT !.vruntime = f, !.exec_time = e, !.delta_exec = 0]
    <2>2. delta \in Int
        BY <2>1, ScaleDeltaType
    <2>3. s.vruntime \in [Thread -> Int]
        BY StateFields
    <2>4. v \in Int
        <3> HIDE DEF delta
        <3>1. s.vruntime[s.curr] + delta \in Int
            BY <2>1, <2>2, <2>3
        <3> QED
            BY <3>1, WrapType
    <2>5. f \in [Thread -> Int]
        <3> HIDE DEF v
        <3> QED
            BY <2>1, <2>3, <2>4
    <2>6. e \in Nat /\ 0 \in Nat
        BY <2>1, SaturatingAddType
    <2>7. UpdateCurr(s) = UpdateSfqVtime(z)
        BY <1>2 DEF UpdateCurr
    <2> HIDE DEF f, e
    <2>8. z \in State
        BY <2>5, <2>6, ZenonT(60) DEF State
    <2>9. SameQueues(s, z)
        BY DEF SameQueues, SameThreads, SameSfq, SameCandidates, State,
            SameRunq
    <2> HIDE DEF z
    <2> QED
        BY <2>7, <2>8, <2>9, UpdateSfqVtimeKeeps, SameQueuesTransitive
<1> QED
    BY <1>1, <1>2

(* Only the virtual times of the two threads, and the request to switch,   *)
(* come out of a fork changed.                                             *)
LEMMA PssForkKeeps ==
    ASSUME NEW s \in State, NEW t \in Thread, NEW child \in Thread
    PROVE  /\ PssFork(s, t, child) \in State
           /\ SameQueues(s, PssFork(s, t, child))
<1> DEFINE s1 == UpdateCurr(UpdateRqClock(s))
           sc == [s1 EXCEPT !.vruntime[child] = s1.vruntime[t]]
           s2 == PlaceInitial(sc, child)
           sp == [s2 EXCEPT !.vruntime[t] = s2.vruntime[child]]
           sw == [sp EXCEPT !.vruntime[child] = s2.vruntime[t]]
           s3 == IF ChildRunsFirst /\ EntityBefore(s2, t, child)
                 THEN ReschedThread(sw, t) ELSE s2
<1>1. s1 \in State /\ SameQueues(s, s1)
    BY UpdateRqClockKeeps, UpdateCurrKeeps, SameQueuesTransitive
<1>2. sc \in State /\ SameQueues(s, sc)
    <2> HIDE DEF s1
    <2>1. s1.vruntime[t] \in Int
        BY <1>1, StateFields
    <2> QED
        BY <1>1, <2>1, SetVruntime, SameQueuesTransitive
<1>3. s2 \in State /\ SameQueues(s, s2)
    <2> HIDE DEF sc
    <2> QED
        BY <1>2, PlaceKeeps, SameQueuesTransitive
<1>4. sw \in State /\ SameQueues(s, sw)
    <2> HIDE DEF s2
    <2>1. s2.vruntime[t] \in Int /\ s2.vruntime[child] \in Int
        BY <1>3, StateFields
    <2>2. sp \in State /\ SameQueues(s, sp)
        BY <1>3, <2>1, SetVruntime, SameQueuesTransitive
    <2> HIDE DEF sp
    <2> QED
        BY <2>1, <2>2, SetVruntime, SameQueuesTransitive
<1>5. s3 \in State /\ SameQueues(s, s3)
    <2> HIDE DEF s2, sw
    <2>1. t \in Running
        BY DEF Running
    <2> QED
        BY <1>3, <1>4, <2>1, ReschedThreadKeeps, SameQueuesTransitive
<1>6. PssFork(s, t, child) = Relative(s3, child)
    <2>1. [s2 EXCEPT !.vruntime[t] = s2.vruntime[child],
                     !.vruntime[child] = s2.vruntime[t]] = sw
        <3> HIDE DEF s2
        <3> QED
            BY <1>3, SetVruntime DEF State
    <2> QED
        BY <2>1 DEF PssFork
<1> HIDE DEF s3
<1> QED
    BY <1>5, <1>6, AbsoluteRelativeKeep, SameQueuesTransitive

(* pss_switched_from leaves the queues alone. *)
LEMMA PssSwitchedFromKeeps ==
    ASSUME NEW s \in State, NEW t \in Thread
    PROVE  /\ PssSwitchedFrom(s, t) \in State
           /\ SameQueues(s, PssSwitchedFrom(s, t))
<1>1. PlaceWakeup(s, t) \in State /\ SameQueues(s, PlaceWakeup(s, t))
    BY PlaceKeeps
<1>2. /\ Relative(PlaceWakeup(s, t), t) \in State
      /\ SameQueues(s, Relative(PlaceWakeup(s, t), t))
    BY <1>1, AbsoluteRelativeKeep, SameQueuesTransitive
<1> QED
    BY <1>2, SameQueuesReflexive DEF PssSwitchedFrom

-----------------------------------------------------------------------------
(* The queues agree *)

Waiting(s) == {t \in s.joined : s.td_state[t] = "runq"}

TreeOK(s) ==
    /\ IsInjective(s.timeline)
    /\ ToSet(s.timeline) = {t \in Waiting(s) : IsPss(s, t)}
    /\ s.leftmost = IF s.timeline = <<>> THEN NULL ELSE Head(s.timeline)

(* The real-time queue without a word on which threads it holds: in the    *)
(* order of the index, and no thread behind where its priority belongs     *)
RunqShape(s) ==
    /\ IsInjective(s.realtime)
    /\ Ordered(s.realtime, s.td_rqindex)
    /\ \A t \in ToSet(s.realtime) :
          s.td_rqindex[t] <= s.td_priority[t] \div RQ_PPQ

RunqOK(s) ==
    /\ RunqShape(s)
    /\ ToSet(s.realtime) \subseteq Waiting(s)
    /\ \A t \in Waiting(s) :
          IsRt(s, t) \/ s.td_priority[t] < NORMAL_PRI => t \in ToSet(s.realtime)

CountOK(s) ==
    /\ s.sfq_running = Cardinality(PssJoined(s))
    /\ s.load = TotalWeight(s.weight, PssJoined(s))
    /\ s.nr_running = Cardinality(s.joined)
    /\ s.nr_sysrunning = Cardinality(s.joined \ NoLoad)

Consistent(s) ==
    /\ s \in State
    /\ TreeOK(s)
    /\ RunqOK(s)
    /\ CandidateInv(s)
    /\ CountOK(s)
    /\ s.panics = {}

Settled(s) == Consistent(s) /\ JoinedInv(s) /\ CurrInv(s)

(* What enqueue, dequeue, put_prev and activate do to a thread. *)
SameElse(s, r) ==
    /\ r.pri_class = s.pri_class
    /\ r.td_priority = s.td_priority
    /\ r.weight = s.weight
    /\ r.curthread = s.curthread

(* Only t has another place in the real-time queue. *)
OnlyPlace(s, r, t) ==
    \A u \in Thread \ {t} :
        /\ r.td_rqindex[u] = s.td_rqindex[u]
        /\ u \in ToSet(r.realtime) <=> u \in ToSet(s.realtime)

Joins(s, r, t) ==
    /\ SameElse(s, r) /\ OnlyPlace(s, r, t)
    /\ r.joined = s.joined \cup {t}
    /\ r.td_state = [s.td_state EXCEPT ![t] = "runq"]
    /\ r.curr = s.curr

Leaves(s, r, t) ==
    /\ SameElse(s, r) /\ OnlyPlace(s, r, t)
    /\ r.joined = s.joined \ {t}
    /\ r.td_state = s.td_state
    /\ r.curr = s.curr

Stops(s, r, t) ==
    /\ SameElse(s, r) /\ OnlyPlace(s, r, t)
    /\ r.joined = s.joined
    /\ r.td_state = [s.td_state EXCEPT ![t] = "runq"]
    /\ r.curr = IF IsPss(s, t) THEN NULL ELSE s.curr

Starts(s, r, t) ==
    /\ SameElse(s, r) /\ OnlyPlace(s, r, t)
    /\ r.joined = s.joined
    /\ r.td_state = [s.td_state EXCEPT ![t] = "running"]
    /\ r.curr = IF IsPss(s, t) THEN t ELSE s.curr

(* The shape depends on the queue, the indexes and the priorities alone. *)
LEMMA SameRunqShape ==
    ASSUME NEW s, NEW r, RunqShape(s), SameRunq(s, r),
           r.td_priority = s.td_priority
    PROVE  RunqShape(r)
    BY DEF RunqShape, SameRunq

-----------------------------------------------------------------------------
(* Operations that leave the queues alone *)

(* An operation that leaves the queues alone keeps them consistent. *)
LEMMA SameQueuesConsistent ==
    ASSUME NEW s, NEW r, Consistent(s), r \in State, SameQueues(s, r)
    PROVE  Consistent(r)
<1>1. RunqShape(r)
    BY SameRunqShape
    DEF Consistent, RunqOK, SameQueues, SameThreads
<1> QED
    BY <1>1
    DEF Consistent, TreeOK, RunqOK, CandidateInv, CountOK, Waiting, PssJoined,
        IsPss, IsRt, SameQueues, SameThreads, SameSfq, SameCandidates,
        SameRunq

(* An operation that leaves the queues alone keeps them settled. *)
LEMMA SameQueuesSettled ==
    ASSUME NEW s, NEW r, Settled(s), r \in State, SameQueues(s, r)
    PROVE  Settled(r)
<1>1. Consistent(r)
    BY SameQueuesConsistent DEF Settled
<1>2. JoinedInv(r) /\ CurrInv(r)
    BY DEF Settled, JoinedInv, CurrInv, IsPss, SameQueues, SameThreads, SameSfq,
        SameRunq
<1> QED
    BY <1>1, <1>2 DEF Settled

-----------------------------------------------------------------------------
(* The real-time queue *)

(* runq_add adds the thread, at whichever place, and nothing else. *)
LEMMA RunqAddEffect ==
    ASSUME NEW s \in State, NEW t \in Thread, NEW preempted,
           RunqShape(s), t \notin ToSet(s.realtime)
    PROVE  LET r == RunqAdd(s, t, preempted)
           IN  /\ r \in State
               /\ SameThreads(s, r)
               /\ SameSfq(s, r)
               /\ RunqShape(r)
               /\ OnlyPlace(s, r, t)
               /\ ToSet(r.realtime) = ToSet(s.realtime) \cup {t}
<1> DEFINE idx == s.td_priority[t] \div RQ_PPQ
           ps  == {i \in DOMAIN s.realtime :
                      IF preempted THEN s.td_rqindex[s.realtime[i]] >= idx
                                   ELSE s.td_rqindex[s.realtime[i]] > idx}
           q == InsertBefore(s.realtime, ps, t)
           f == [s.td_rqindex EXCEPT ![t] = idx]
           r == RunqAdd(s, t, preempted)
<1>1. r = [s EXCEPT !.realtime = q, !.td_rqindex = f]
    BY DEF RunqAdd
<1>2. idx \in Nat
    <2>1. s.td_priority[t] \in Pri
        BY StateFields
    <2>2. Pri \subseteq Nat /\ RQ_PPQ \in Nat \ {0}
        BY PriAssumption
    <2>3. s.td_priority[t] \in Nat
        BY <2>1, <2>2
    <2> QED
        BY <2>2, <2>3, DivType
<1> HIDE DEF idx
<1>3. f \in [Thread -> Nat]
    <2>1. s.td_rqindex \in [Thread -> Nat]
        BY StateFields
    <2> QED
        BY <1>2, <2>1
<1>4. s.realtime \in Seq(Thread)
    BY StateFields
<1>5. ps \in SUBSET DOMAIN s.realtime
    OBVIOUS
<1> HIDE DEF ps, f
<1>6. /\ q \in Seq(Thread)
      /\ IsInjective(q)
      /\ ToSet(q) = ToSet(s.realtime) \cup {t}
    <2>1. IsInjective(s.realtime)
        BY DEF RunqShape
    <2> QED
        BY <1>4, <1>5, <2>1, InsertBeforeContent, InsertBeforeInjective
<1>9. f[t] = idx /\ \A u \in Thread \ {t} : f[u] = s.td_rqindex[u]
    BY StateFields DEF f
<1>10. Ordered(q, f)
    <2>1. \A i \in DOMAIN s.realtime : s.realtime[i] \in Thread \ {t}
        BY <1>4 DEF ToSet
    <2>2. \A i \in DOMAIN s.realtime :
            f[s.realtime[i]] = s.td_rqindex[s.realtime[i]]
        BY <1>9, <2>1
    <2>3. \A i \in DOMAIN s.realtime : s.td_rqindex[s.realtime[i]] \in Nat
        BY <2>1, StateFields
    <2>4. Ordered(s.realtime, f)
        BY <2>2 DEF Ordered, RunqShape
    <2>5. \A i \in ps : f[t] <= f[s.realtime[i]]
        BY <1>2, <1>9, <2>2, <2>3 DEF ps
    <2>6. \A i \in DOMAIN s.realtime \ ps : f[s.realtime[i]] <= f[t]
        BY <1>2, <1>9, <2>2, <2>3 DEF ps
    <2>7. f \in [Thread -> Int]
        BY <1>3
    <2> QED
        BY <1>4, <1>5, <2>4, <2>5, <2>6, <2>7, InsertBeforeOrdered
<1>11. \A u \in ToSet(q) : f[u] <= s.td_priority[u] \div RQ_PPQ
    <2>1. f[t] <= s.td_priority[t] \div RQ_PPQ
        BY <1>2, <1>9 DEF idx
    <2>2. \A u \in ToSet(s.realtime) : u \in Thread \ {t}
        BY <1>4 DEF ToSet
    <2> QED
        BY <1>6, <1>9, <2>1, <2>2 DEF RunqShape
<1> HIDE DEF q
<1>7. [s EXCEPT !.realtime = q, !.td_rqindex = f] \in State
    BY <1>3, <1>6, ZenonT(60) DEF State
<1>8. SameThreads(s, r) /\ SameSfq(s, r) /\ r.realtime = q
      /\ r.td_rqindex = f
    BY <1>1 DEF SameThreads, SameSfq, SameCandidates, State
<1>12. RunqShape(r) /\ OnlyPlace(s, r, t)
    BY <1>6, <1>8, <1>9, <1>10, <1>11 DEF RunqShape, OnlyPlace, SameThreads
<1> QED
    BY <1>1, <1>6, <1>7, <1>8, <1>12

(* runq_remove takes the thread out, and nothing else. *)
LEMMA RunqRemoveEffect ==
    ASSUME NEW s \in State, NEW t \in Thread,
           RunqShape(s), t \in ToSet(s.realtime)
    PROVE  LET r == RunqRemove(s, t)
           IN  /\ r \in State
               /\ SameThreads(s, r)
               /\ SameSfq(s, r)
               /\ RunqShape(r)
               /\ OnlyPlace(s, r, t)
               /\ ToSet(r.realtime) = ToSet(s.realtime) \ {t}
<1> DEFINE q == Without(s.realtime, t)
           f == [s.td_rqindex EXCEPT ![t] = 0]
           r == RunqRemove(s, t)
<1>1. r = [s EXCEPT !.realtime = q, !.td_rqindex = f]
    BY DEF RunqRemove
<1>2. f \in [Thread -> Nat]
    <2>1. s.td_rqindex \in [Thread -> Nat]
        BY StateFields
    <2> QED
        BY <2>1
<1>3. s.realtime \in Seq(Thread)
    BY StateFields
<1>4. /\ q \in Seq(Thread)
      /\ IsInjective(q)
      /\ ToSet(q) = ToSet(s.realtime) \ {t}
    BY <1>3, WithoutProperties DEF RunqShape
<1>7. \A u \in Thread \ {t} : f[u] = s.td_rqindex[u]
    BY StateFields DEF f
<1>8. Ordered(q, f)
    <2>1. Ordered(q, s.td_rqindex)
        BY <1>3, WithoutOrdered DEF RunqShape
    <2>2. \A i \in DOMAIN q : q[i] \in Thread \ {t}
        BY <1>4 DEF ToSet
    <2> QED
        BY <1>7, <2>1, <2>2 DEF Ordered
<1>9. \A u \in ToSet(q) : f[u] <= s.td_priority[u] \div RQ_PPQ
    <2>1. \A u \in ToSet(s.realtime) : u \in Thread
        BY <1>3 DEF ToSet
    <2> QED
        BY <1>4, <1>7, <2>1 DEF RunqShape
<1> HIDE DEF q, f
<1>5. [s EXCEPT !.realtime = q, !.td_rqindex = f] \in State
    BY <1>2, <1>4, ZenonT(60) DEF State
<1>6. SameThreads(s, r) /\ SameSfq(s, r) /\ r.realtime = q
      /\ r.td_rqindex = f
    BY <1>1 DEF SameThreads, SameSfq, SameCandidates, State
<1>10. RunqShape(r) /\ OnlyPlace(s, r, t)
    BY <1>4, <1>6, <1>7, <1>8, <1>9 DEF RunqShape, OnlyPlace, SameThreads
<1> QED
    BY <1>1, <1>4, <1>5, <1>6, <1>10

(* __enqueue_entity adds to the real-time queue exactly a thread whose     *)
(* priority is raised.                                                     *)
LEMMA RunqEnqueueRaisedEffect ==
    ASSUME NEW s \in State, NEW t \in Thread, NEW preempted,
           RunqShape(s), t \notin ToSet(s.realtime)
    PROVE  LET r == RunqEnqueueRaised(s, t, preempted)
           IN  /\ r \in State
               /\ SameThreads(s, r)
               /\ SameSfq(s, r)
               /\ RunqShape(r)
               /\ OnlyPlace(s, r, t)
               /\ ToSet(r.realtime) = ToSet(s.realtime) \cup
                     {u \in {t} : s.td_priority[u] < NORMAL_PRI}
<1>1. CASE s.td_priority[t] < NORMAL_PRI
    <2>1. RunqEnqueueRaised(s, t, preempted) = RunqAdd(s, t, preempted)
        BY <1>1 DEF RunqEnqueueRaised, RunqEnqueue, OnRunq
    <2> QED
        BY <1>1, <2>1, RunqAddEffect
<1>2. CASE ~ (s.td_priority[t] < NORMAL_PRI)
    BY <1>2 DEF RunqEnqueueRaised, SameThreads, SameSfq, SameCandidates,
                  OnlyPlace
<1> QED
    BY <1>1, <1>2

(* __runq_dequeue leaves the thread off the real-time queue, whether it    *)
(* was on it or not.                                                       *)
LEMMA RunqDequeueEffect ==
    ASSUME NEW s \in State, NEW t \in Thread, RunqShape(s)
    PROVE  LET r == RunqDequeue(s, t)
           IN  /\ r \in State
               /\ SameThreads(s, r)
               /\ SameSfq(s, r)
               /\ RunqShape(r)
               /\ OnlyPlace(s, r, t)
               /\ ToSet(r.realtime) = ToSet(s.realtime) \ {t}
<1>1. CASE t \in ToSet(s.realtime)
    BY <1>1, RunqRemoveEffect DEF RunqDequeue, OnRunq
<1>2. CASE t \notin ToSet(s.realtime)
    BY <1>2 DEF RunqDequeue, OnRunq, SameThreads, SameSfq, SameCandidates,
                  OnlyPlace
<1> QED
    BY <1>1, <1>2

-----------------------------------------------------------------------------
(* The timeline *)

(* An assertion that holds does nothing. *)
LEMMA KassertTrue ==
    ASSUME NEW s \in State, NEW cond, cond, NEW msg
    PROVE  Kassert(s, cond, msg) = s
    BY DEF Kassert, State

(* The tree without a word on which threads it holds. *)
TreeShape(s) ==
    /\ IsInjective(s.timeline)
    /\ s.leftmost = IF s.timeline = <<>> THEN NULL ELSE Head(s.timeline)

(* What an operation on the tree leaves alone. *)
OnlyTree(s, r) ==
    /\ SameThreads(s, r)
    /\ SameCandidates(s, r)
    /\ r.curr = s.curr
    /\ r.sfq_running = s.sfq_running
    /\ SameRunq(s, r)

(* __enqueue_entity adds the entity to the tree and keeps the cache of its *)
(* first entity right.                                                     *)
LEMMA EnqueueTimelineEffect ==
    ASSUME NEW s \in State, NEW t \in Thread,
           TreeShape(s), t \notin ToSet(s.timeline)
    PROVE  LET r == EnqueueTimeline(s, t)
           IN  /\ r \in State
               /\ OnlyTree(s, r)
               /\ TreeShape(r)
               /\ ToSet(r.timeline) = ToSet(s.timeline) \cup {t}
<1> DEFINE later == {i \in DOMAIN s.timeline :
                        EntityBefore(s, t, s.timeline[i])}
           q == InsertBefore(s.timeline, later, t)
           l == IF Position(s.timeline, later) = 1 THEN t ELSE s.leftmost
           r == EnqueueTimeline(s, t)
<1>1. r = [s EXCEPT !.timeline = q, !.leftmost = l]
    <2>1. Kassert(s, ~OnSfq(s, t), "already on sfq") = s
        BY ZenonT(60), KassertTrue DEF OnSfq
    <2> QED
        BY ZenonT(60), <2>1 DEF EnqueueTimeline
<1>2. s.timeline \in Seq(Thread) /\ s.leftmost \in ThreadOrNull
    BY StateFields
<1>3. later \in SUBSET DOMAIN s.timeline
    OBVIOUS
<1> HIDE DEF later
<1>4. /\ q \in Seq(Thread)
      /\ IsInjective(q)
      /\ ToSet(q) = ToSet(s.timeline) \cup {t}
    BY <1>2, <1>3, InsertBeforeContent, InsertBeforeInjective DEF TreeShape
<1>5. q # <<>> /\ l = Head(q)
    <2>1. /\ InsertBefore(s.timeline, later, t) # <<>>
          /\ Position(s.timeline, later) = 1 =>
                Head(InsertBefore(s.timeline, later, t)) = t
          /\ Position(s.timeline, later) # 1 =>
                /\ s.timeline # <<>>
                /\ Head(InsertBefore(s.timeline, later, t)) = Head(s.timeline)
        BY <1>2, <1>3, InsertBeforeHead
    <2> QED
        BY <2>1 DEF TreeShape
<1>6. l \in ThreadOrNull
    BY <1>2 DEF ThreadOrNull
<1> HIDE DEF q, l
<1>7. [s EXCEPT !.timeline = q, !.leftmost = l] \in State
    BY <1>4, <1>6, ZenonT(60) DEF State
<1>8. OnlyTree(s, r) /\ r.timeline = q /\ r.leftmost = l
    BY <1>1 DEF OnlyTree, SameThreads, SameCandidates, State,
        SameRunq
<1> QED
    BY <1>1, <1>4, <1>5, <1>7, <1>8 DEF TreeShape

(* __dequeue_entity takes the entity out of the tree and keeps the cache   *)
(* of its first entity right, when it takes out the first one too.         *)
LEMMA DequeueTimelineEffect ==
    ASSUME NEW s \in State, NEW t \in Thread,
           TreeShape(s), t \in ToSet(s.timeline)
    PROVE  LET r == DequeueTimeline(s, t)
           IN  /\ r \in State
               /\ OnlyTree(s, r)
               /\ TreeShape(r)
               /\ ToSet(r.timeline) = ToSet(s.timeline) \ {t}
<1> DEFINE q == s.timeline
           n == Len(q)
           i == IndexOf(q, t)
           w == Without(q, t)
           l == IF s.leftmost = t THEN NextEntity(s, t) ELSE s.leftmost
           r == DequeueTimeline(s, t)
<1>1. r = [s EXCEPT !.leftmost = l, !.timeline = w]
    BY DEF DequeueTimeline, OnSfq
<1>2. q \in Seq(Thread) /\ s.leftmost \in ThreadOrNull
    BY StateFields
<1>3. n \in Nat /\ i \in 1 .. n /\ q[i] = t
    BY <1>2, WithoutProperties
<1>4. /\ w \in Seq(Thread)
      /\ IsInjective(w)
      /\ ToSet(w) = ToSet(q) \ {t}
    BY <1>2, WithoutProperties DEF TreeShape
<1>5. /\ w # <<>> => Head(w) = IF i = 1 THEN q[2] ELSE q[1]
      /\ w = <<>> <=> n = 1
    BY <1>2, WithoutProperties
<1>6. s.leftmost = q[1]
    <2>1. q # <<>>
        BY <1>2, <1>3
    <2> QED
        BY <1>2, <2>1 DEF TreeShape
<1>7. s.leftmost = t <=> i = 1
    BY <1>2, <1>3, <1>6 DEF TreeShape, IsInjective
<1>8. NextEntity(s, t) = IF i < n THEN q[i + 1] ELSE NULL
    BY DEF NextEntity
<1> HIDE DEF n, i, w
<1>9. /\ i = 1 /\ n = 1 => l = NULL
      /\ i = 1 /\ n # 1 => l = q[2] /\ 2 \in 1 .. n
      /\ i # 1 => l = q[1]
    <2>1. CASE i = 1
        <3>1. l = IF 1 < n THEN q[1 + 1] ELSE NULL
            BY <1>7, <1>8, <2>1
        <3> HIDE DEF l
        <3>2. CASE n = 1
            BY <2>1, <3>1, <3>2
        <3>3. CASE n # 1
            <4>1. 1 < n /\ 1 + 1 = 2 /\ 2 \in 1 .. n
                BY <1>2, <1>3, <3>3
            <4> QED
                BY <2>1, <3>1, <3>3, <4>1
        <3> QED
            BY <3>2, <3>3
    <2>2. CASE i # 1
        BY <1>6, <1>7, <2>2
    <2> QED
        BY <2>1, <2>2
<1> HIDE DEF l
<1>10. l = IF w = <<>> THEN NULL ELSE Head(w)
    <2>1. i # 1 => n # 1
        BY <1>3
    <2> QED
        BY <1>5, <1>9, <2>1
<1>11. l \in ThreadOrNull
    <2>1. 1 \in 1 .. n
        BY <1>3
    <2>2. \A k \in 1 .. n : q[k] \in Thread
        BY <1>2 DEF n
    <2> QED
        BY <1>9, <2>1, <2>2 DEF ThreadOrNull
<1>12. [s EXCEPT !.leftmost = l, !.timeline = w] \in State
    BY <1>4, <1>11, ZenonT(60) DEF State
<1>13. OnlyTree(s, r) /\ r.timeline = w /\ r.leftmost = l
    BY <1>1 DEF OnlyTree, SameThreads, SameCandidates, State,
        SameRunq
<1> QED
    BY <1>1, <1>4, <1>10, <1>12, <1>13 DEF TreeShape

-----------------------------------------------------------------------------
(* The system load *)

(* The system load counts a thread that comes unless it has TDF_NOLOAD. *)
LEMMA SysLoadAdds ==
    ASSUME NEW S, IsFiniteSet(S), NEW t, t \notin S
    PROVE  /\ IsFiniteSet(S \ NoLoad)
           /\ Cardinality((S \cup {t}) \ NoLoad) =
                Cardinality(S \ NoLoad) + SysLoad(t)
<1>1. IsFiniteSet(S \ NoLoad)
    BY FS_Difference
<1>2. Cardinality(S \ NoLoad) \in Nat
    BY <1>1, FS_CardinalityType
<1>3. CASE t \in NoLoad
    <2>1. (S \cup {t}) \ NoLoad = S \ NoLoad
        BY <1>3
    <2> QED
        BY <1>1, <1>2, <1>3, <2>1 DEF SysLoad
<1>4. CASE t \notin NoLoad
    <2>1. (S \cup {t}) \ NoLoad = (S \ NoLoad) \cup {t}
        BY <1>4
    <2> QED
        BY <1>1, <1>2, <1>4, <2>1, FS_AddElement DEF SysLoad
<1> QED
    BY <1>3, <1>4

(* The same for a thread that goes. *)
LEMMA SysLoadSubtracts ==
    ASSUME NEW S, IsFiniteSet(S), NEW t \in S
    PROVE  Cardinality((S \ {t}) \ NoLoad) =
                Cardinality(S \ NoLoad) - SysLoad(t)
<1> DEFINE R == S \ {t}
<1>1. IsFiniteSet(R) /\ t \notin R /\ R \cup {t} = S
    BY FS_RemoveElement
<1> HIDE DEF R
<1>2. /\ IsFiniteSet(R \ NoLoad)
      /\ Cardinality((R \cup {t}) \ NoLoad) =
            Cardinality(R \ NoLoad) + SysLoad(t)
    BY <1>1, SysLoadAdds
<1>3. Cardinality(R \ NoLoad) \in Nat /\ SysLoad(t) \in Nat
    BY <1>2, FS_CardinalityType DEF SysLoad
<1>4. Cardinality(S \ NoLoad) = Cardinality(R \ NoLoad) + SysLoad(t)
    BY <1>1, <1>2, Zenon
<1>5. Cardinality(R \ NoLoad) = Cardinality(S \ NoLoad) - SysLoad(t)
    BY <1>3, <1>4
<1> QED
    BY <1>5, Zenon DEF R

-----------------------------------------------------------------------------
(* How a thread that joins, leaves, stops or starts keeps the queues       *)
(* consistent, whichever its class.                                        *)

(* The runnable threads are finitely many. *)
LEMMA JoinedFinite ==
    ASSUME NEW s \in State
    PROVE  /\ IsFiniteSet(s.joined)
           /\ IsFiniteSet(PssJoined(s))
<1>1. s.joined \subseteq Thread /\ PssJoined(s) \subseteq Thread
    BY StateFields DEF PssJoined
<1> QED
    BY <1>1, ThreadAssumption, FS_Subset

(* A thread that joins, is queued as its class and priority ask and is     *)
(* counted keeps the queues consistent.                                    *)
LEMMA JoinsConsistent ==
    ASSUME NEW s, NEW r, NEW t \in Thread,
           Consistent(s), t \notin s.joined,
           r \in State, Joins(s, r, t), SameCandidates(s, r),
           r.panics = s.panics,
           TreeShape(r), RunqShape(r),
           ToSet(r.timeline) = ToSet(s.timeline) \cup
                                  {u \in {t} : IsPss(s, u)},
           ToSet(r.realtime) = ToSet(s.realtime) \cup
                 {u \in {t} : IsRt(s, u) \/ s.td_priority[u] < NORMAL_PRI},
           r.sfq_running = s.sfq_running + (IF IsPss(s, t) THEN 1 ELSE 0),
           r.load = s.load + (IF IsPss(s, t) THEN s.weight[t] ELSE 0),
           r.nr_running = s.nr_running + 1,
           r.nr_sysrunning = s.nr_sysrunning + SysLoad(t)
    PROVE  Consistent(r)
<1>1. s \in State /\ TreeOK(s) /\ RunqOK(s) /\ CandidateInv(s) /\ CountOK(s)
    BY DEF Consistent
<1>2. /\ r.pri_class = s.pri_class
      /\ r.td_priority = s.td_priority /\ r.weight = s.weight
      /\ r.joined = s.joined \cup {t}
      /\ r.td_state = [s.td_state EXCEPT ![t] = "runq"]
    BY DEF Joins, SameElse,
        SameRunq, OnlyPlace
<1>3. s.td_state \in [Thread -> TdState] /\ s.joined \subseteq Thread
    BY <1>1, StateFields
<1>4. \A u : (IsPss(r, u) <=> IsPss(s, u)) /\ (IsRt(r, u) <=> IsRt(s, u))
    BY <1>2 DEF IsPss, IsRt
<1>5. Waiting(r) = Waiting(s) \cup {t}
    BY <1>2, <1>3 DEF Waiting
<1>6. TreeOK(r)
    BY <1>1, <1>4, <1>5 DEF TreeOK, TreeShape
<1>7. RunqOK(r)
    BY <1>1, <1>2, <1>4, <1>5 DEF RunqOK
<1>8. CandidateInv(r)
    BY <1>1, <1>2, <1>4 DEF CandidateInv, SameCandidates, PssJoined
<1>9. CountOK(r)
    <2>1. PssJoined(r) = PssJoined(s) \cup {u \in {t} : IsPss(s, u)}
        BY <1>2, <1>4 DEF PssJoined
    <2>2. IsFiniteSet(s.joined) /\ IsFiniteSet(PssJoined(s))
        BY <1>1, JoinedFinite
    <2>3. t \notin PssJoined(s)
        BY DEF PssJoined
    <2>4. Cardinality(r.joined) = Cardinality(s.joined) + 1
        BY ZenonT(60), <1>2, <2>2, FS_AddElement
    <2>7. Cardinality(r.joined \ NoLoad) =
            Cardinality(s.joined \ NoLoad) + SysLoad(t)
        <3>1. Cardinality((s.joined \cup {t}) \ NoLoad) =
                Cardinality(s.joined \ NoLoad) + SysLoad(t)
            BY <2>2, SysLoadAdds, Zenon
        <3> QED
            BY <1>2, <3>1, Zenon
    <2>8. \A u \in Thread : s.weight[u] \in Nat
        BY <1>1, StateFields
    <2>9. PssJoined(s) \subseteq Thread
        BY <1>3 DEF PssJoined
    <2>5. CASE IsPss(s, t)
        <3>1. PssJoined(r) = PssJoined(s) \cup {t}
            BY <2>1, <2>5
        <3>2. Cardinality(PssJoined(r)) = Cardinality(PssJoined(s)) + 1
            BY ZenonT(60), <2>2, <2>3, <3>1, FS_AddElement
        <3>3. \A u \in PssJoined(s) \cup {t} : s.weight[u] \in Nat
            BY <2>8, <2>9
        <3>5. TotalWeight(s.weight, PssJoined(s) \cup {t}) =
                TotalWeight(s.weight, PssJoined(s)) + s.weight[t]
            BY <2>2, <2>3, <3>3, TotalWeightAdds, ZenonT(120)
        <3>4. TotalWeight(r.weight, PssJoined(r)) =
                TotalWeight(s.weight, PssJoined(s)) + s.weight[t]
            BY <1>2, <3>1, <3>5, Zenon
        <3> QED
            BY <1>1, <2>4, <2>5, <2>7, <3>2, <3>4 DEF CountOK
    <2>6. CASE ~ IsPss(s, t)
        <3>1. PssJoined(r) = PssJoined(s)
            BY <2>1, <2>6
        <3>2. s.sfq_running \in Int /\ s.load \in Int
            BY <1>1, StateFields
        <3> QED
            BY <1>1, <1>2, <2>4, <2>6, <2>7, <3>1, <3>2 DEF CountOK
    <2> QED
        BY <2>5, <2>6
<1> QED
    BY <1>6, <1>7, <1>8, <1>9 DEF Consistent

(* A thread that leaves, is taken off both queues and out of the           *)
(* candidates and is no longer counted keeps the queues consistent.        *)
LEMMA LeavesConsistent ==
    ASSUME NEW s, NEW r, NEW t \in s.joined,
           Consistent(s),
           r \in State, Leaves(s, r, t),
           {r.skip, r.next, r.last} \subseteq
              ({s.skip, s.next, s.last} \ {t}) \cup {NULL},
           r.panics = s.panics,
           TreeShape(r), RunqShape(r),
           ToSet(r.timeline) = ToSet(s.timeline) \ {t},
           ToSet(r.realtime) = ToSet(s.realtime) \ {t},
           r.sfq_running = s.sfq_running - (IF IsPss(s, t) THEN 1 ELSE 0),
           r.load = s.load - (IF IsPss(s, t) THEN s.weight[t] ELSE 0),
           r.nr_running = s.nr_running - 1,
           r.nr_sysrunning = s.nr_sysrunning - SysLoad(t)
    PROVE  Consistent(r)
<1>1. s \in State /\ TreeOK(s) /\ RunqOK(s) /\ CandidateInv(s) /\ CountOK(s)
    BY DEF Consistent
<1>2. /\ r.pri_class = s.pri_class
      /\ r.td_priority = s.td_priority /\ r.weight = s.weight
      /\ r.joined = s.joined \ {t}
      /\ r.td_state = s.td_state
    BY DEF Leaves, SameElse,
        SameRunq, OnlyPlace
<1>3. \A u : (IsPss(r, u) <=> IsPss(s, u)) /\ (IsRt(r, u) <=> IsRt(s, u))
    BY <1>2 DEF IsPss, IsRt
<1>4. Waiting(r) = Waiting(s) \ {t}
    BY <1>2 DEF Waiting
<1>5. TreeOK(r)
    BY <1>1, <1>3, <1>4 DEF TreeOK, TreeShape
<1>6. RunqOK(r)
    BY <1>1, <1>2, <1>3, <1>4 DEF RunqOK
<1>7. CandidateInv(r)
    <2>1. PssJoined(r) = PssJoined(s) \ {t}
        BY <1>2, <1>3 DEF PssJoined
    <2> QED
        BY <1>1, <2>1 DEF CandidateInv
<1>8. CountOK(r)
    <2>1. PssJoined(r) = PssJoined(s) \ {t}
        BY <1>2, <1>3 DEF PssJoined
    <2>2. IsFiniteSet(s.joined) /\ IsFiniteSet(PssJoined(s))
        BY <1>1, JoinedFinite
    <2>3. Cardinality(r.joined) = Cardinality(s.joined) - 1
        BY ZenonT(60), <1>2, <2>2, FS_RemoveElement
    <2>7. Cardinality(r.joined \ NoLoad) =
            Cardinality(s.joined \ NoLoad) - SysLoad(t)
        <3>1. Cardinality((s.joined \ {t}) \ NoLoad) =
                Cardinality(s.joined \ NoLoad) - SysLoad(t)
            BY <2>2, SysLoadSubtracts, Zenon
        <3> QED
            BY <1>2, <3>1, Zenon
    <2>8. \A u \in Thread : s.weight[u] \in Nat
        BY <1>1, StateFields
    <2>9. PssJoined(s) \subseteq Thread
        BY <1>1, StateFields DEF PssJoined
    <2>4. CASE IsPss(s, t)
        <3>1. t \in PssJoined(s)
            BY <2>4 DEF PssJoined
        <3>2. Cardinality(PssJoined(r)) = Cardinality(PssJoined(s)) - 1
            BY <2>1, <2>2, <3>1, FS_RemoveElement
        <3>3. \A u \in PssJoined(s) : s.weight[u] \in Nat
            BY <2>8, <2>9
        <3>5. TotalWeight(s.weight, PssJoined(s) \ {t}) =
                TotalWeight(s.weight, PssJoined(s)) - s.weight[t]
            BY <2>2, <3>1, <3>3, TotalWeightSubtracts, ZenonT(60)
        <3>4. TotalWeight(r.weight, PssJoined(r)) =
                TotalWeight(s.weight, PssJoined(s)) - s.weight[t]
            BY <1>2, <2>1, <3>5, Zenon
        <3> QED
            BY <1>1, <2>3, <2>4, <2>7, <3>2, <3>4 DEF CountOK
    <2>5. CASE ~ IsPss(s, t)
        <3>1. PssJoined(r) = PssJoined(s)
            BY <2>1, <2>5 DEF PssJoined
        <3>2. s.sfq_running \in Int /\ s.load \in Int
            BY <1>1, StateFields
        <3> QED
            BY <1>1, <1>2, <2>3, <2>5, <2>7, <3>1, <3>2 DEF CountOK
    <2> QED
        BY <2>4, <2>5
<1> QED
    BY <1>5, <1>6, <1>7, <1>8 DEF Consistent

(* A running thread that stops and is queued as its class and priority ask *)
(* keeps the queues consistent.                                            *)
LEMMA StopsConsistent ==
    ASSUME NEW s, NEW r, NEW t \in s.joined,
           Consistent(s), s.td_state[t] = "running",
           r \in State, Stops(s, r, t),
           {r.skip, r.next, r.last} \subseteq
              {s.skip, s.next, s.last} \cup {u \in {t} : IsPss(s, u)},
           r.panics = s.panics,
           TreeShape(r), RunqShape(r),
           ToSet(r.timeline) = ToSet(s.timeline) \cup
                                  {u \in {t} : IsPss(s, u)},
           ToSet(r.realtime) = ToSet(s.realtime) \cup
                 {u \in {t} : IsRt(s, u) \/ s.td_priority[u] < NORMAL_PRI},
           r.sfq_running = s.sfq_running,
           r.load = s.load,
           r.nr_running = s.nr_running,
           r.nr_sysrunning = s.nr_sysrunning
    PROVE  Consistent(r)
<1>1. s \in State /\ TreeOK(s) /\ RunqOK(s) /\ CandidateInv(s) /\ CountOK(s)
    BY DEF Consistent
<1>2. /\ r.pri_class = s.pri_class
      /\ r.td_priority = s.td_priority /\ r.weight = s.weight
      /\ r.joined = s.joined
      /\ r.td_state = [s.td_state EXCEPT ![t] = "runq"]
    BY DEF Stops, SameElse,
        SameRunq, OnlyPlace
<1>3. s.td_state \in [Thread -> TdState] /\ s.joined \subseteq Thread
    BY <1>1, StateFields
<1>4. \A u : (IsPss(r, u) <=> IsPss(s, u)) /\ (IsRt(r, u) <=> IsRt(s, u))
    BY <1>2 DEF IsPss, IsRt
<1>5. Waiting(r) = Waiting(s) \cup {t}
    BY <1>2, <1>3 DEF Waiting
<1>6. PssJoined(r) = PssJoined(s)
    BY <1>2, <1>4 DEF PssJoined
<1>7. TreeOK(r)
    BY <1>1, <1>4, <1>5 DEF TreeOK, TreeShape
<1>8. RunqOK(r)
    BY <1>1, <1>2, <1>4, <1>5 DEF RunqOK
<1>9. CandidateInv(r)
    <2>1. IsPss(s, t) => t \in PssJoined(s)
        BY DEF PssJoined
    <2> QED
        BY <1>1, <1>6, <2>1 DEF CandidateInv
<1>10. CountOK(r)
    BY <1>1, <1>2, <1>6 DEF CountOK
<1> QED
    BY <1>7, <1>8, <1>9, <1>10 DEF Consistent

(* A waiting thread that starts and is taken off both queues keeps them    *)
(* consistent.                                                             *)
LEMMA StartsConsistent ==
    ASSUME NEW s, NEW r, NEW t \in s.joined,
           Consistent(s),
           r \in State, Starts(s, r, t), SameCandidates(s, r),
           r.panics = s.panics,
           TreeShape(r), RunqShape(r),
           ToSet(r.timeline) = ToSet(s.timeline) \ {t},
           ToSet(r.realtime) = ToSet(s.realtime) \ {t},
           r.sfq_running = s.sfq_running,
           r.load = s.load,
           r.nr_running = s.nr_running,
           r.nr_sysrunning = s.nr_sysrunning
    PROVE  Consistent(r)
<1>1. s \in State /\ TreeOK(s) /\ RunqOK(s) /\ CandidateInv(s) /\ CountOK(s)
    BY DEF Consistent
<1>2. /\ r.pri_class = s.pri_class
      /\ r.td_priority = s.td_priority /\ r.weight = s.weight
      /\ r.joined = s.joined
      /\ r.td_state = [s.td_state EXCEPT ![t] = "running"]
    BY DEF Starts, SameElse,
        SameRunq, OnlyPlace
<1>3. s.td_state \in [Thread -> TdState] /\ s.joined \subseteq Thread
    BY <1>1, StateFields
<1>4. \A u : (IsPss(r, u) <=> IsPss(s, u)) /\ (IsRt(r, u) <=> IsRt(s, u))
    BY <1>2 DEF IsPss, IsRt
<1>5. Waiting(r) = Waiting(s) \ {t}
    BY <1>2, <1>3 DEF Waiting
<1>6. PssJoined(r) = PssJoined(s)
    BY <1>2, <1>4 DEF PssJoined
<1>7. TreeOK(r)
    BY <1>1, <1>4, <1>5 DEF TreeOK, TreeShape
<1>8. RunqOK(r)
    BY <1>1, <1>2, <1>4, <1>5 DEF RunqOK
<1>9. CandidateInv(r)
    BY <1>1, <1>6 DEF CandidateInv, SameCandidates
<1>10. CountOK(r)
    BY <1>1, <1>2, <1>6 DEF CountOK
<1> QED
    BY <1>7, <1>8, <1>9, <1>10 DEF Consistent

-----------------------------------------------------------------------------
(* The candidates *)

(* What an operation on the candidates leaves alone. *)
OnlyCandidates(s, r) ==
    /\ SameThreads(s, r)
    /\ r.timeline = s.timeline
    /\ r.leftmost = s.leftmost
    /\ r.curr = s.curr
    /\ r.sfq_running = s.sfq_running
    /\ SameRunq(s, r)

(* set_skip_candidate and its siblings add the entity to the candidates. *)
LEMMA SetCandidateEffect ==
    ASSUME NEW s \in State, NEW t \in Thread,
           NEW r \in {SetSkip(s, t), SetNext(s, t), SetLast(s, t)}
    PROVE  /\ r \in State
           /\ OnlyCandidates(s, r)
           /\ {r.skip, r.next, r.last} \subseteq {s.skip, s.next, s.last, t}
<1>1. t \in ThreadOrNull
    BY DEF ThreadOrNull
<1>2. /\ [s EXCEPT !.skip = t] \in State
      /\ [s EXCEPT !.next = t] \in State
      /\ [s EXCEPT !.last = t] \in State
    BY <1>1, ZenonT(60) DEF State
<1>3. r \in {s, [s EXCEPT !.skip = t], [s EXCEPT !.next = t],
             [s EXCEPT !.last = t]}
    BY DEF SetSkip, SetNext, SetLast
<1>4. CASE r = s
    BY <1>4 DEF OnlyCandidates, SameThreads,
        SameRunq
<1>5. CASE r = [s EXCEPT !.skip = t]
    BY ZenonT(60), <1>2, <1>5 DEF OnlyCandidates, SameThreads, State,
        SameRunq
<1>6. CASE r = [s EXCEPT !.next = t]
    BY ZenonT(120), <1>2, <1>6 DEF OnlyCandidates, SameThreads, State,
        SameRunq
<1>7. CASE r = [s EXCEPT !.last = t]
    BY ZenonT(120), <1>2, <1>7 DEF OnlyCandidates, SameThreads, State,
        SameRunq
<1> QED
    BY <1>3, <1>4, <1>5, <1>6, <1>7

(* clear_candidates takes the entity out of the candidates. *)
LEMMA ClearCandidatesEffect ==
    ASSUME NEW s \in State, NEW t \in Thread
    PROVE  LET r == ClearCandidates(s, t)
           IN  /\ r \in State
               /\ OnlyCandidates(s, r)
               /\ {r.skip, r.next, r.last} \subseteq
                     ({s.skip, s.next, s.last} \ {t}) \cup {NULL}
<1> DEFINE a == IF s.skip = t THEN NULL ELSE s.skip
           b == IF s.next = t THEN NULL ELSE s.next
           c == IF s.last = t THEN NULL ELSE s.last
           r == ClearCandidates(s, t)
<1>1. r = [s EXCEPT !.skip = a, !.next = b, !.last = c]
    BY DEF ClearCandidates
<1>2. {a, b, c} \subseteq ({s.skip, s.next, s.last} \ {t}) \cup {NULL}
    BY ThreadAssumption
<1>3. a \in ThreadOrNull /\ b \in ThreadOrNull /\ c \in ThreadOrNull
    BY StateFields DEF ThreadOrNull
<1> HIDE DEF a, b, c
<1>4. [s EXCEPT !.skip = a, !.next = b, !.last = c] \in State
    BY <1>3, ZenonT(60) DEF State
<1>5. OnlyCandidates(s, r) /\ r.skip = a /\ r.next = b /\ r.last = c
    BY <1>1 DEF OnlyCandidates, SameThreads, State,
        SameRunq
<1> QED
    BY <1>1, <1>2, <1>4, <1>5

(* Candidates that are runnable timeshare threads are consistent ones. *)
LEMMA OnlyCandidatesConsistent ==
    ASSUME NEW s, NEW r, Consistent(s), r \in State, OnlyCandidates(s, r),
           {r.skip, r.next, r.last} \subseteq PssJoined(s) \cup {NULL}
    PROVE  Consistent(r)
<1>1. RunqShape(r)
    BY SameRunqShape
    DEF Consistent, RunqOK, OnlyCandidates, SameThreads
<1> QED
    BY <1>1
    DEF Consistent, TreeOK, RunqOK, CandidateInv, CountOK, Waiting,
        PssJoined, IsPss, IsRt, OnlyCandidates, SameThreads, SameRunq

-----------------------------------------------------------------------------
(* Single fields *)

(* What a new weight of t leaves alone. *)
OnlyWeight(s, r, t) ==
    /\ r.td_state = s.td_state
    /\ r.joined = s.joined
    /\ r.pri_class = s.pri_class
    /\ r.td_priority = s.td_priority
    /\ r.load = s.load
    /\ r.nr_running = s.nr_running
    /\ r.nr_sysrunning = s.nr_sysrunning
    /\ r.curthread = s.curthread
    /\ r.panics = s.panics
    /\ SameSfq(s, r)
    /\ SameRunq(s, r)
    /\ \A u \in Thread \ {t} : r.weight[u] = s.weight[u]

(* set_thread_weight gives the thread another weight, a positive one. *)
LEMMA SetThreadWeightEffect ==
    ASSUME NEW s \in State, NEW t \in Thread
    PROVE  /\ SetThreadWeight(s, t) \in State
           /\ OnlyWeight(s, SetThreadWeight(s, t), t)
<1> DEFINE w == IF s.pri_class[t] = "idle" THEN IDLEPRIO_WEIGHT
                ELSE PrioToWeight[s.p_nice[t]]
           f == [s.weight EXCEPT ![t] = w]
           r == SetThreadWeight(s, t)
<1>1. w \in Nat \ {0}
    BY StateFields, WeightAssumption
<1>2. /\ f \in [Thread -> Nat \ {0}]
      /\ \A u \in Thread \ {t} : f[u] = s.weight[u]
    <2> HIDE DEF w
    <2>1. s.weight \in [Thread -> Nat \ {0}]
        BY StateFields
    <2> QED
        BY <1>1, <2>1
<1>3. r = [s EXCEPT !.weight = f]
    BY DEF SetThreadWeight
<1> HIDE DEF f, r
<1>4. r \in State
    BY <1>2, <1>3, ZenonT(60) DEF State
<1>5. OnlyWeight(s, r, t)
    BY <1>2, <1>3 DEF OnlyWeight, SameSfq, SameRunq, SameCandidates, State
<1> QED
    BY <1>4, <1>5 DEF r

(* The weight of a thread that is not in the load may change. *)
LEMMA OnlyWeightConsistent ==
    ASSUME NEW s, NEW r, NEW t \in Thread, Consistent(s), r \in State,
           OnlyWeight(s, r, t), t \notin PssJoined(s)
    PROVE  Consistent(r)
<1>1. \A u \in PssJoined(s) : r.weight[u] = s.weight[u]
    BY StateFields DEF OnlyWeight, PssJoined, Consistent
<1>2. TotalWeight(r.weight, PssJoined(s)) = TotalWeight(s.weight, PssJoined(s))
    BY <1>1, SameWeights
<1>3. PssJoined(r) = PssJoined(s)
    BY DEF PssJoined, IsPss, OnlyWeight
<1>4. CountOK(r)
    BY <1>2, <1>3 DEF CountOK, Consistent, OnlyWeight, SameSfq
<1> QED
    BY <1>3, <1>4 DEF Consistent, TreeOK, RunqOK, RunqShape, CandidateInv,
        Waiting, IsPss, IsRt, OnlyWeight, SameSfq, SameRunq, SameCandidates

(* TD_SET_RUNQ, TD_SET_RUNNING and the like set the state of the thread,   *)
(* and nothing else.                                                       *)
LEMMA SetTdStateEffect ==
    ASSUME NEW s \in State, NEW t \in Thread, NEW x \in TdState
    PROVE  LET r == [s EXCEPT !.td_state[t] = x]
           IN  /\ r \in State
               /\ SameSfq(s, r)
               /\ SameElse(s, r)
               /\ r.td_state = [s.td_state EXCEPT ![t] = x]
               /\ r.joined = s.joined
               /\ r.load = s.load
               /\ r.nr_running = s.nr_running
               /\ r.nr_sysrunning = s.nr_sysrunning
               /\ r.panics = s.panics
               /\ SameRunq(s, r)
<1> DEFINE f == [s.td_state EXCEPT ![t] = x]
<1>1. f \in [Thread -> TdState]
    <2>1. s.td_state \in [Thread -> TdState]
        BY StateFields
    <2> QED
        BY <2>1
<1>2. [s EXCEPT !.td_state[t] = x] = [s EXCEPT !.td_state = f]
    OBVIOUS
<1> HIDE DEF f
<1>3. [s EXCEPT !.td_state = f] \in State
    BY <1>1, ZenonT(60) DEF State
<1>4. LET r == [s EXCEPT !.td_state = f]
      IN  /\ SameSfq(s, r)
          /\ SameElse(s, r)
          /\ r.td_state = f
          /\ r.joined = s.joined
          /\ r.load = s.load
          /\ r.nr_running = s.nr_running
          /\ r.nr_sysrunning = s.nr_sysrunning
          /\ r.panics = s.panics
          /\ SameRunq(s, r)
    BY DEF SameSfq, SameCandidates, SameElse, State,
        SameRunq
<1> QED
    BY <1>2, <1>3, <1>4 DEF f

(* What the counters of an enqueue and of a dequeue leave alone. *)
OnlyCounts(s, r) ==
    /\ r.timeline = s.timeline
    /\ r.leftmost = s.leftmost
    /\ r.curr = s.curr
    /\ SameCandidates(s, r)
    /\ SameElse(s, r)
    /\ r.td_state = s.td_state
    /\ r.panics = s.panics
    /\ SameRunq(s, r)

(* account_entity_enqueue counts one entity more. *)
LEMMA AccountEnqueueEffect ==
    ASSUME NEW s \in State, NEW t \in Thread
    PROVE  LET r == AccountEnqueue(s, t)
           IN  /\ r \in State
               /\ OnlyCounts(s, r)
               /\ r.joined = s.joined
               /\ r.nr_running = s.nr_running
               /\ r.sfq_running = s.sfq_running + 1
               /\ r.load = s.load + s.weight[t]
               /\ r.nr_sysrunning = s.nr_sysrunning
<1> DEFINE l == s.load + s.weight[t]
           n == s.sfq_running + 1
           r == [s EXCEPT !.load = l, !.sfq_running = n]
<1>1. l \in Int /\ n \in Int
    BY StateFields
<1>2. AccountEnqueue(s, t) = r
    BY DEF AccountEnqueue
<1> HIDE DEF l, n
<1>3. r \in State
    BY <1>1, ZenonT(60) DEF State
<1>4. /\ OnlyCounts(s, r)
      /\ r.joined = s.joined
      /\ r.nr_running = s.nr_running
      /\ r.sfq_running = n
      /\ r.load = l
      /\ r.nr_sysrunning = s.nr_sysrunning
    BY DEF OnlyCounts, SameCandidates, SameElse, State,
        SameRunq
<1> QED
    BY <1>2, <1>3, <1>4 DEF l, n

(* account_entity_dequeue counts one entity less. *)
LEMMA AccountDequeueEffect ==
    ASSUME NEW s \in State, NEW t \in Thread
    PROVE  LET r == AccountDequeue(s, t)
           IN  /\ r \in State
               /\ OnlyCounts(s, r)
               /\ r.joined = s.joined
               /\ r.nr_running = s.nr_running
               /\ r.sfq_running = s.sfq_running - 1
               /\ r.load = s.load - s.weight[t]
               /\ r.nr_sysrunning = s.nr_sysrunning
<1> DEFINE l == s.load - s.weight[t]
           n == s.sfq_running - 1
           r == [s EXCEPT !.load = l, !.sfq_running = n]
<1>1. l \in Int /\ n \in Int
    BY StateFields
<1>2. AccountDequeue(s, t) = r
    BY DEF AccountDequeue
<1> HIDE DEF l, n
<1>3. r \in State
    BY <1>1, ZenonT(60) DEF State
<1>4. /\ OnlyCounts(s, r)
      /\ r.joined = s.joined
      /\ r.nr_running = s.nr_running
      /\ r.sfq_running = n
      /\ r.load = l
      /\ r.nr_sysrunning = s.nr_sysrunning
    BY DEF OnlyCounts, SameCandidates, SameElse, State,
        SameRunq
<1> QED
    BY <1>2, <1>3, <1>4 DEF l, n

(* Writing se->joined changes nothing else. *)
LEMMA SetJoinedEffect ==
    ASSUME NEW s \in State, NEW j \in SUBSET Thread
    PROVE  LET r == [s EXCEPT !.joined = j]
           IN  /\ r \in State
               /\ OnlyCounts(s, r)
               /\ r.joined = j
               /\ r.nr_running = s.nr_running
               /\ r.sfq_running = s.sfq_running
               /\ r.load = s.load
               /\ r.nr_sysrunning = s.nr_sysrunning
<1>1. [s EXCEPT !.joined = j] \in State
    BY ZenonT(60) DEF State
<1> QED
    BY ZenonT(60), <1>1 DEF OnlyCounts, SameCandidates, SameElse, State,
        SameRunq

(* rq_run_add counts one thread more. *)
LEMMA RqRunAddEffect ==
    ASSUME NEW s \in State, NEW t \in Thread
    PROVE  LET r == RqRunAdd(s, t)
           IN  /\ r \in State
               /\ OnlyCounts(s, r)
               /\ r.joined = s.joined
               /\ r.nr_running = s.nr_running + 1
               /\ r.sfq_running = s.sfq_running
               /\ r.load = s.load
               /\ r.nr_sysrunning = s.nr_sysrunning + SysLoad(t)
<1> DEFINE l == s.nr_sysrunning + SysLoad(t)
           n == s.nr_running + 1
           r == [s EXCEPT !.nr_running = n, !.nr_sysrunning = l]
<1>1. l \in Int /\ n \in Int
    BY StateFields DEF SysLoad
<1>2. RqRunAdd(s, t) = r
    BY DEF RqRunAdd
<1> HIDE DEF l, n
<1>3. r \in State
    BY <1>1, ZenonT(60) DEF State
<1>4. /\ OnlyCounts(s, r)
      /\ r.joined = s.joined
      /\ r.nr_running = n
      /\ r.sfq_running = s.sfq_running
      /\ r.load = s.load
      /\ r.nr_sysrunning = l
    BY DEF OnlyCounts, SameCandidates, SameElse, State,
        SameRunq
<1> QED
    BY <1>2, <1>3, <1>4 DEF l, n

(* rq_run_rem counts one thread less, and its assertion holds as long as   *)
(* one was counted.                                                        *)
LEMMA RqRunRemEffect ==
    ASSUME NEW s \in State, NEW t \in Thread, s.nr_running # 0
    PROVE  LET r == RqRunRem(s, t)
           IN  /\ r \in State
               /\ OnlyCounts(s, r)
               /\ r.joined = s.joined
               /\ r.nr_running = s.nr_running - 1
               /\ r.sfq_running = s.sfq_running
               /\ r.load = s.load
               /\ r.nr_sysrunning = s.nr_sysrunning - SysLoad(t)
<1> DEFINE l == s.nr_sysrunning - SysLoad(t)
           n == s.nr_running - 1
           r == [s EXCEPT !.nr_running = n, !.nr_sysrunning = l]
<1>1. l \in Int /\ n \in Int
    BY StateFields DEF SysLoad
<1>2. RqRunRem(s, t) = r
    <2>1. Kassert(s, s.nr_running # 0, "removing with 0 load") = s
        BY ZenonT(60), KassertTrue
    <2> QED
        BY ZenonT(60), <2>1 DEF RqRunRem
<1> HIDE DEF l, n
<1>3. r \in State
    BY <1>1, ZenonT(60) DEF State
<1>4. /\ OnlyCounts(s, r)
      /\ r.joined = s.joined
      /\ r.nr_running = n
      /\ r.sfq_running = s.sfq_running
      /\ r.load = s.load
      /\ r.nr_sysrunning = l
    BY DEF OnlyCounts, SameCandidates, SameElse, State,
        SameRunq
<1> QED
    BY <1>2, <1>3, <1>4 DEF l, n

-----------------------------------------------------------------------------
(* Threads that join *)

(* pss_enqueue_thread: the thread joins, no assertion fails, and only a    *)
(* raised thread comes into the real-time queue.                           *)
LEMMA PssEnqueueJoins ==
    ASSUME NEW s, NEW t \in Thread, NEW wakeup,
           Consistent(s), IsPss(s, t), t \notin s.joined
    PROVE  LET r == PssEnqueue(s, t, wakeup)
           IN  /\ Consistent(r) /\ Joins(s, r, t)
               /\ t \in ToSet(r.realtime) => s.td_priority[t] < NORMAL_PRI
<1> DEFINE s1 == IF wakeup THEN s ELSE Absolute(s, t)
           s2 == UpdateCurr(s1)
           s3 == IF wakeup THEN PlaceWakeup(s2, t) ELSE s2
           sr == [s3 EXCEPT !.td_state[t] = "runq"]
           s4 == RunqEnqueueRaised(sr, t, FALSE)
           st == EnqueueTimeline(s4, t)
           s5 == AccountEnqueue(st, t)
           sj == [s5 EXCEPT !.joined = @ \cup {t}]
           r  == RqRunAdd(sj, t)
<1>0. /\ s \in State /\ TreeOK(s) /\ RunqOK(s)
      /\ t \notin ToSet(s.timeline) /\ t \notin ToSet(s.realtime)
    BY DEF Consistent, TreeOK, RunqOK, Waiting
<1>1. PssEnqueue(s, t, wakeup) = r
    BY DEF PssEnqueue
<1>2. s1 \in State /\ SameQueues(s, s1)
    BY <1>0, AbsoluteRelativeKeep, SameQueuesReflexive
<1> HIDE DEF s1
<1>3. s2 \in State /\ SameQueues(s, s2)
    BY <1>2, UpdateCurrKeeps, SameQueuesTransitive
<1> HIDE DEF s2
<1>4. s3 \in State /\ SameQueues(s, s3)
    BY <1>3, PlaceKeeps, SameQueuesTransitive
<1> HIDE DEF s3
<1>5. /\ sr \in State /\ SameSfq(s3, sr) /\ SameElse(s3, sr)
      /\ sr.td_state = [s3.td_state EXCEPT ![t] = "runq"]
      /\ sr.joined = s3.joined
      /\ sr.load = s3.load
      /\ sr.nr_running = s3.nr_running
      /\ sr.nr_sysrunning = s3.nr_sysrunning
      /\ sr.panics = s3.panics
      /\ SameRunq(s3, sr)
    <2>1. "runq" \in TdState
        BY DEF TdState
    <2> QED
        BY <1>4, <2>1, SetTdStateEffect
<1> HIDE DEF sr
<1>6. /\ s4 \in State /\ SameThreads(sr, s4) /\ SameSfq(sr, s4)
      /\ RunqShape(s4) /\ OnlyPlace(sr, s4, t)
      /\ ToSet(s4.realtime) = ToSet(sr.realtime) \cup
             {u \in {t} : sr.td_priority[u] < NORMAL_PRI}
    <2>1. SameRunq(s, sr) /\ sr.td_priority = s.td_priority
        BY <1>4, <1>5 DEF SameQueues, SameThreads, SameElse, SameRunq
    <2>2. RunqShape(sr)
        BY <1>0, <2>1, SameRunqShape DEF RunqOK
    <2>3. t \notin ToSet(sr.realtime)
        BY <1>0, <2>1 DEF SameRunq
    <2> QED
        BY ZenonT(60), <1>5, <2>2, <2>3, RunqEnqueueRaisedEffect
<1> HIDE DEF s4
<1>7. /\ st \in State /\ OnlyTree(s4, st) /\ TreeShape(st)
      /\ ToSet(st.timeline) = ToSet(s4.timeline) \cup {t}
    <2>1. TreeShape(s4) /\ t \notin ToSet(s4.timeline)
        BY <1>0, <1>4, <1>5, <1>6 DEF SameQueues, SameSfq, TreeOK, TreeShape,
            SameRunq
    <2> QED
        BY <1>6, <2>1, EnqueueTimelineEffect
<1> HIDE DEF st
<1>8. /\ s5 \in State /\ OnlyCounts(st, s5)
      /\ s5.joined = st.joined
      /\ s5.load = st.load + st.weight[t]
      /\ s5.nr_running = st.nr_running
      /\ s5.nr_sysrunning = st.nr_sysrunning
      /\ s5.sfq_running = st.sfq_running + 1
    BY <1>7, AccountEnqueueEffect
<1> HIDE DEF s5
<1>9. /\ sj \in State /\ OnlyCounts(s5, sj)
      /\ sj.joined = s5.joined \cup {t}
      /\ sj.load = s5.load
      /\ sj.nr_running = s5.nr_running
      /\ sj.nr_sysrunning = s5.nr_sysrunning
      /\ sj.sfq_running = s5.sfq_running
    <2>1. s5.joined \cup {t} \in SUBSET Thread
        BY <1>8, StateFields
    <2> QED
        BY <1>8, <2>1, SetJoinedEffect
<1> HIDE DEF sj
<1>10. /\ r \in State /\ OnlyCounts(sj, r)
       /\ r.joined = sj.joined
       /\ r.load = sj.load
       /\ r.nr_running = sj.nr_running + 1
       /\ r.nr_sysrunning = sj.nr_sysrunning + SysLoad(t)
       /\ r.sfq_running = sj.sfq_running
    BY <1>9, RqRunAddEffect
<1> HIDE DEF r
<1>11. /\ Joins(s, r, t) /\ SameCandidates(s, r) /\ r.panics = s.panics
       /\ r.sfq_running = s.sfq_running + 1
       /\ r.load = s.load + s.weight[t]
       /\ r.nr_running = s.nr_running + 1
       /\ r.nr_sysrunning = s.nr_sysrunning + SysLoad(t)
       /\ r.timeline = st.timeline /\ r.leftmost = st.leftmost
       /\ SameRunq(s4, r)
       /\ sr.td_priority = s.td_priority
       /\ sr.realtime = s.realtime /\ s4.timeline = s.timeline
    BY <1>4, <1>5, <1>6, <1>7, <1>8, <1>9, <1>10
    DEF SameQueues, SameThreads, SameSfq, SameCandidates, SameElse, OnlyTree,
        OnlyCounts, Joins,
        SameRunq, OnlyPlace
<1>12. /\ TreeShape(r) /\ RunqShape(r)
       /\ ToSet(r.timeline) = ToSet(s.timeline) \cup {u \in {t} : IsPss(s, u)}
       /\ ToSet(r.realtime) = ToSet(s.realtime) \cup
             {u \in {t} : IsRt(s, u) \/ s.td_priority[u] < NORMAL_PRI}
    <2>1. ~ IsRt(s, t)
        BY DEF IsPss, IsRt
    <2>2. {u \in {t} : IsPss(s, u)} = {t}
        OBVIOUS
    <2>3. {u \in {t} : IsRt(s, u) \/ s.td_priority[u] < NORMAL_PRI} =
          {u \in {t} : s.td_priority[u] < NORMAL_PRI}
        BY <2>1
    <2>4. r.td_priority = s4.td_priority
        BY <1>6, <1>11 DEF SameThreads, Joins, SameElse
    <2>5. RunqShape(r) /\ r.realtime = s4.realtime
        BY <1>6, <1>11, <2>4, SameRunqShape DEF SameRunq
    <2> QED
        BY <1>6, <1>7, <1>11, <2>2, <2>3, <2>5 DEF TreeShape
<1>13. Consistent(r)
    BY <1>10, <1>11, <1>12, JoinsConsistent
<1>14. t \in ToSet(r.realtime) => s.td_priority[t] < NORMAL_PRI
    BY <1>0, <1>12 DEF IsPss, IsRt
<1> QED
    BY <1>1, <1>11, <1>13, <1>14

(* rt_enqueue_thread: the thread joins, and no assertion fails. *)
LEMMA RtEnqueueJoins ==
    ASSUME NEW s, NEW t \in Thread,
           Consistent(s), IsRt(s, t), t \notin s.joined
    PROVE  LET r == RtEnqueue(s, t)
           IN  Consistent(r) /\ Joins(s, r, t)
<1> DEFINE sa == RunqAdd(s, t, FALSE)
           sc == RqRunAdd(sa, t)
           sr == [sc EXCEPT !.td_state[t] = "runq"]
           r  == [sr EXCEPT !.joined = @ \cup {t}]
<1>0. /\ s \in State /\ TreeOK(s) /\ RunqOK(s)
      /\ t \notin ToSet(s.timeline) /\ t \notin ToSet(s.realtime)
    BY DEF Consistent, TreeOK, RunqOK, Waiting
<1>1. RtEnqueue(s, t) = r
    <2>1. /\ Kassert(s, t \notin s.joined, "joined") = s
          /\ Kassert(s, ~OnRunq(s, t), "already on runq") = s
          /\ Kassert(s, ~OnSfq(s, t), "on sfq") = s
        BY ZenonT(60), <1>0, KassertTrue DEF OnRunq, OnSfq
    <2> QED
        BY <2>1, Zenon DEF RtEnqueue
<1>2. /\ sa \in State /\ SameThreads(s, sa) /\ SameSfq(s, sa)
      /\ RunqShape(sa) /\ OnlyPlace(s, sa, t)
      /\ ToSet(sa.realtime) = ToSet(s.realtime) \cup {t}
    BY <1>0, RunqAddEffect DEF RunqOK
<1> HIDE DEF sa
<1>3. /\ sc \in State /\ OnlyCounts(sa, sc)
      /\ sc.joined = sa.joined
      /\ sc.load = sa.load
      /\ sc.nr_running = sa.nr_running + 1
      /\ sc.nr_sysrunning = sa.nr_sysrunning + SysLoad(t)
      /\ sc.sfq_running = sa.sfq_running
    BY <1>2, RqRunAddEffect
<1> HIDE DEF sc
<1>4. /\ sr \in State /\ SameSfq(sc, sr) /\ SameElse(sc, sr)
      /\ sr.td_state = [sc.td_state EXCEPT ![t] = "runq"]
      /\ sr.joined = sc.joined
      /\ sr.load = sc.load
      /\ sr.nr_running = sc.nr_running
      /\ sr.nr_sysrunning = sc.nr_sysrunning
      /\ sr.panics = sc.panics
      /\ SameRunq(sc, sr)
    <2>1. "runq" \in TdState
        BY DEF TdState
    <2> QED
        BY <1>3, <2>1, SetTdStateEffect
<1> HIDE DEF sr
<1>5. /\ r \in State /\ OnlyCounts(sr, r)
      /\ r.joined = sr.joined \cup {t}
      /\ r.load = sr.load
      /\ r.nr_running = sr.nr_running
      /\ r.nr_sysrunning = sr.nr_sysrunning
      /\ r.sfq_running = sr.sfq_running
    <2>1. sr.joined \cup {t} \in SUBSET Thread
        BY <1>4, StateFields
    <2> QED
        BY <1>4, <2>1, SetJoinedEffect
<1> HIDE DEF r
<1>6. s.sfq_running \in Int /\ s.load \in Int
    BY <1>0, StateFields
<1>7. ~ IsPss(s, t)
    BY DEF IsPss, IsRt
<1>8. /\ Joins(s, r, t) /\ SameCandidates(s, r) /\ r.panics = s.panics
      /\ r.sfq_running = s.sfq_running
      /\ r.load = s.load
      /\ r.nr_running = s.nr_running + 1
      /\ r.nr_sysrunning = s.nr_sysrunning + SysLoad(t)
      /\ r.timeline = s.timeline /\ r.leftmost = s.leftmost
      /\ SameRunq(sa, r)
    BY <1>2, <1>3, <1>4, <1>5
    DEF SameThreads, SameSfq, SameCandidates, SameElse, OnlyCounts, Joins,
        SameRunq, OnlyPlace
<1>9. /\ TreeShape(r) /\ RunqShape(r)
      /\ ToSet(r.timeline) = ToSet(s.timeline) \cup {u \in {t} : IsPss(s, u)}
      /\ ToSet(r.realtime) = ToSet(s.realtime) \cup
             {u \in {t} : IsRt(s, u) \/ s.td_priority[u] < NORMAL_PRI}
    <2>1. {u \in {t} : IsPss(s, u)} = {}
        BY <1>7
    <2>2. {u \in {t} : IsRt(s, u) \/ s.td_priority[u] < NORMAL_PRI} = {t}
        OBVIOUS
    <2>3. r.td_priority = sa.td_priority
        BY <1>2, <1>8 DEF SameThreads, Joins, SameElse
    <2>4. RunqShape(r) /\ r.realtime = sa.realtime
        BY <1>2, <1>8, <2>3, SameRunqShape DEF SameRunq
    <2> QED
        BY <1>0, <1>2, <1>8, <2>1, <2>2, <2>4 DEF TreeShape, TreeOK
<1>10. /\ r.sfq_running = s.sfq_running + (IF IsPss(s, t) THEN 1 ELSE 0)
      /\ r.load = s.load + (IF IsPss(s, t) THEN s.weight[t] ELSE 0)
    BY <1>6, <1>7, <1>8
<1>11. Consistent(r)
    BY <1>5, <1>8, <1>9, <1>10, JoinsConsistent
<1> QED
    BY <1>1, <1>8, <1>11

-----------------------------------------------------------------------------
(* Threads that leave *)

(* rq->nr_running is not zero while a thread is runnable. *)
LEMMA RunningCounted ==
    ASSUME NEW s, Consistent(s), s.joined # {}
    PROVE  s.nr_running # 0
<1>1. s.nr_running = Cardinality(s.joined) /\ IsFiniteSet(s.joined)
    BY JoinedFinite DEF Consistent, CountOK
<1> QED
    BY <1>1, FS_EmptySet

(* pss_dequeue_thread: the thread leaves, be it waiting or running, and no *)
(* assertion fails.                                                        *)
LEMMA PssDequeueLeaves ==
    ASSUME NEW s, NEW t \in s.joined, NEW sleep,
           Consistent(s), IsPss(s, t)
    PROVE  LET r == PssDequeue(s, t, sleep)
           IN  Consistent(r) /\ Leaves(s, r, t)
<1> DEFINE su == UpdateCurr(s)
           sd == RunqDequeue(su, t)
           s1 == ClearCandidates(sd, t)
           s2 == IF OnSfq(s1, t) THEN DequeueTimeline(s1, t) ELSE s1
           sa == AccountDequeue(s2, t)
           s3 == [sa EXCEPT !.joined = @ \ {t}]
           s4 == IF sleep THEN s3 ELSE Relative(s3, t)
           sv == UpdateSfqVtime(s4)
           r  == RqRunRem(sv, t)
<1>0. s \in State /\ TreeOK(s) /\ RunqOK(s) /\ t \in Thread
    BY StateFields DEF Consistent
<1>1. PssDequeue(s, t, sleep) = r
    BY DEF PssDequeue
<1>2. su \in State /\ SameQueues(s, su)
    BY <1>0, UpdateCurrKeeps
<1> HIDE DEF su
<1>3. /\ sd \in State /\ SameThreads(su, sd) /\ SameSfq(su, sd)
      /\ RunqShape(sd) /\ OnlyPlace(su, sd, t)
      /\ ToSet(sd.realtime) = ToSet(su.realtime) \ {t}
    <2>1. RunqShape(su)
        BY <1>0, <1>2, SameRunqShape DEF SameQueues, SameThreads, RunqOK
    <2> QED
        BY <1>0, <1>2, <2>1, RunqDequeueEffect
<1> HIDE DEF sd
<1>4. /\ s1 \in State /\ OnlyCandidates(sd, s1)
      /\ {s1.skip, s1.next, s1.last} \subseteq
            ({sd.skip, sd.next, sd.last} \ {t}) \cup {NULL}
    BY <1>0, <1>3, ClearCandidatesEffect
<1> HIDE DEF s1
<1>5. TreeShape(s1)
    BY <1>0, <1>2, <1>3, <1>4
    DEF SameQueues, SameSfq, OnlyCandidates, TreeOK, TreeShape,
        SameRunq
<1>6. /\ s2 \in State /\ OnlyTree(s1, s2) /\ TreeShape(s2)
      /\ ToSet(s2.timeline) = ToSet(s1.timeline) \ {t}
    <2>1. CASE t \in ToSet(s1.timeline)
        <3>1. s2 = DequeueTimeline(s1, t)
            BY <2>1 DEF OnSfq
        <3> HIDE DEF s2
        <3> QED
            BY <1>0, <1>4, <1>5, <2>1, <3>1, DequeueTimelineEffect
    <2>2. CASE t \notin ToSet(s1.timeline)
        <3>1. s2 = s1
            BY <2>2 DEF OnSfq
        <3> HIDE DEF s2
        <3> QED
            BY <1>4, <1>5, <2>2, <3>1 DEF OnlyTree, SameThreads, SameCandidates,
                SameRunq
    <2> QED
        BY <2>1, <2>2
<1> HIDE DEF s2
<1>7. /\ sa \in State /\ OnlyCounts(s2, sa)
      /\ sa.joined = s2.joined
      /\ sa.load = s2.load - s2.weight[t]
      /\ sa.nr_running = s2.nr_running
      /\ sa.nr_sysrunning = s2.nr_sysrunning
      /\ sa.sfq_running = s2.sfq_running - 1
    BY <1>0, <1>6, AccountDequeueEffect
<1> HIDE DEF sa
<1>8. /\ s3 \in State /\ OnlyCounts(sa, s3)
      /\ s3.joined = sa.joined \ {t}
      /\ s3.load = sa.load
      /\ s3.nr_running = sa.nr_running
      /\ s3.nr_sysrunning = sa.nr_sysrunning
      /\ s3.sfq_running = sa.sfq_running
    <2>1. sa.joined \ {t} \in SUBSET Thread
        BY <1>7, StateFields
    <2> QED
        BY <1>7, <2>1, SetJoinedEffect
<1> HIDE DEF s3
<1>9. s4 \in State /\ SameQueues(s3, s4)
    BY <1>0, <1>8, AbsoluteRelativeKeep, SameQueuesReflexive
<1> HIDE DEF s4
<1>10. sv \in State /\ SameQueues(s3, sv)
    BY <1>9, UpdateSfqVtimeKeeps, SameQueuesTransitive
<1> HIDE DEF sv
<1>11. /\ SameElse(s, sv)
       /\ sv.td_state = s.td_state
       /\ sv.joined = s.joined \ {t}
       /\ sv.curr = s.curr
       /\ sv.panics = s.panics
       /\ sv.load = s.load - s.weight[t]
       /\ sv.nr_running = s.nr_running
       /\ sv.nr_sysrunning = s.nr_sysrunning
       /\ sv.sfq_running = s.sfq_running - 1
       /\ sv.timeline = s2.timeline /\ sv.leftmost = s2.leftmost
       /\ SameRunq(sd, sv)
       /\ su.realtime = s.realtime /\ s1.timeline = s.timeline
       /\ {sv.skip, sv.next, sv.last} = {s1.skip, s1.next, s1.last}
       /\ {sd.skip, sd.next, sd.last} = {s.skip, s.next, s.last}
    BY <1>2, <1>3, <1>4, <1>6, <1>7, <1>8, <1>10
    DEF SameQueues, SameThreads, SameSfq, SameCandidates, SameElse, OnlyTree,
        OnlyCounts, OnlyCandidates,
        SameRunq
<1>12. /\ r \in State /\ OnlyCounts(sv, r)
       /\ r.joined = sv.joined
       /\ r.load = sv.load
       /\ r.nr_running = sv.nr_running - 1
       /\ r.nr_sysrunning = sv.nr_sysrunning - SysLoad(t)
       /\ r.sfq_running = sv.sfq_running
    <2>1. sv.nr_running # 0
        BY <1>11, RunningCounted
    <2> QED
        BY <1>0, <1>10, <2>1, RqRunRemEffect
<1> HIDE DEF r
<1>13. /\ Leaves(s, r, t) /\ r.panics = s.panics
       /\ r.sfq_running = s.sfq_running - 1
       /\ r.load = s.load - s.weight[t]
       /\ r.nr_running = s.nr_running - 1
       /\ r.nr_sysrunning = s.nr_sysrunning - SysLoad(t)
       /\ r.timeline = s2.timeline /\ r.leftmost = s2.leftmost
       /\ SameRunq(sd, r)
       /\ {r.skip, r.next, r.last} = {s1.skip, s1.next, s1.last}
    <2>1. SameRunq(sd, r)
        BY <1>11, <1>12 DEF OnlyCounts, SameRunq
    <2>2. OnlyPlace(s, r, t)
        BY <1>2, <1>3, <2>1 DEF OnlyPlace, SameQueues, SameRunq
    <2> QED
        BY <1>11, <1>12, <2>1, <2>2
        DEF SameCandidates, SameElse, OnlyCounts, Leaves
<1>14. /\ TreeShape(r) /\ RunqShape(r)
       /\ ToSet(r.timeline) = ToSet(s.timeline) \ {t}
       /\ ToSet(r.realtime) = ToSet(s.realtime) \ {t}
    <2>1. r.td_priority = sd.td_priority
        BY <1>2, <1>3, <1>13
        DEF SameQueues, SameThreads, Leaves, SameElse
    <2>2. RunqShape(r) /\ r.realtime = sd.realtime
        BY <1>3, <1>13, <2>1, SameRunqShape DEF SameRunq
    <2> QED
        BY <1>3, <1>6, <1>11, <1>13, <2>2 DEF TreeShape
<1>15. {r.skip, r.next, r.last} \subseteq
          ({s.skip, s.next, s.last} \ {t}) \cup {NULL}
    BY ZenonT(60), <1>4, <1>11, <1>13
<1>16. Consistent(r)
    BY <1>12, <1>13, <1>14, <1>15, LeavesConsistent
<1> QED
    BY <1>1, <1>13, <1>16

(* rt_dequeue_thread: the thread leaves, be it waiting or running, and no  *)
(* assertion fails.                                                        *)
LEMMA RtDequeueLeaves ==
    ASSUME NEW s, NEW t \in s.joined, Consistent(s), IsRt(s, t)
    PROVE  LET r == RtDequeue(s, t)
           IN  Consistent(r) /\ Leaves(s, r, t)
<1> DEFINE s1 == RunqDequeue(s, t)
           s2 == RqRunRem(s1, t)
           r  == [s2 EXCEPT !.joined = @ \ {t}]
<1>0. /\ s \in State /\ TreeOK(s) /\ RunqOK(s) /\ t \in Thread
      /\ ~ IsPss(s, t) /\ t \notin ToSet(s.timeline)
    BY StateFields DEF Consistent, TreeOK, IsPss, IsRt
<1>1. /\ s1 \in State /\ SameThreads(s, s1) /\ SameSfq(s, s1)
      /\ RunqShape(s1) /\ OnlyPlace(s, s1, t)
      /\ ToSet(s1.realtime) = ToSet(s.realtime) \ {t}
    BY <1>0, RunqDequeueEffect DEF RunqOK
<1>2. s1.nr_running # 0
    BY <1>1, RunningCounted DEF SameThreads
<1>3. /\ s2 \in State /\ OnlyCounts(s1, s2)
      /\ s2.joined = s1.joined
      /\ s2.load = s1.load
      /\ s2.nr_running = s1.nr_running - 1
      /\ s2.nr_sysrunning = s1.nr_sysrunning - SysLoad(t)
      /\ s2.sfq_running = s1.sfq_running
    <2> HIDE DEF s1
    <2> QED
        BY <1>0, <1>1, <1>2, RqRunRemEffect
<1>4. RtDequeue(s, t) = r
    <2>1. s1 = IF OnRunq(s, t) THEN RunqRemove(s, t) ELSE s
        BY DEF RunqDequeue
    <2>2. Kassert(s2, ~OnSfq(s, t), "on sfq") = s2
        BY ZenonT(60), <1>0, <1>3, KassertTrue DEF OnSfq
    <2> HIDE DEF s1
    <2> QED
        BY <2>1, <2>2, Zenon DEF RtDequeue
<1> HIDE DEF s1, s2
<1>5. /\ r \in State /\ OnlyCounts(s2, r)
      /\ r.joined = s2.joined \ {t}
      /\ r.load = s2.load
      /\ r.nr_running = s2.nr_running
      /\ r.nr_sysrunning = s2.nr_sysrunning
      /\ r.sfq_running = s2.sfq_running
    <2>1. s2.joined \ {t} \in SUBSET Thread
        BY <1>3, StateFields
    <2> QED
        BY <1>3, <2>1, SetJoinedEffect
<1> HIDE DEF r
<1>6. /\ Leaves(s, r, t) /\ r.panics = s.panics
      /\ r.sfq_running = s.sfq_running
      /\ r.load = s.load
      /\ r.nr_running = s.nr_running - 1
      /\ r.nr_sysrunning = s.nr_sysrunning - SysLoad(t)
      /\ r.timeline = s.timeline /\ r.leftmost = s.leftmost
      /\ SameRunq(s1, r)
      /\ {r.skip, r.next, r.last} = {s.skip, s.next, s.last}
    BY <1>1, <1>3, <1>5
    DEF SameThreads, SameSfq, SameCandidates, SameElse, OnlyCounts, Leaves,
        SameRunq, OnlyPlace
<1>7. /\ TreeShape(r) /\ RunqShape(r)
      /\ ToSet(r.timeline) = ToSet(s.timeline) \ {t}
      /\ ToSet(r.realtime) = ToSet(s.realtime) \ {t}
    <2>1. r.td_priority = s1.td_priority
        BY <1>1, <1>6 DEF SameThreads, Leaves, SameElse
    <2>2. RunqShape(r) /\ r.realtime = s1.realtime
        BY <1>1, <1>6, <2>1, SameRunqShape DEF SameRunq
    <2> QED
        BY <1>0, <1>1, <1>6, <2>2 DEF TreeShape, TreeOK
<1>8. {r.skip, r.next, r.last} \subseteq
          ({s.skip, s.next, s.last} \ {t}) \cup {NULL}
    <2>1. t \notin {s.skip, s.next, s.last}
        <3>1. {s.skip, s.next, s.last} \subseteq PssJoined(s) \cup {NULL}
            BY DEF Consistent, CandidateInv
        <3>2. t # NULL /\ t \notin PssJoined(s)
            BY <1>0, ThreadAssumption DEF PssJoined
        <3> QED
            BY <3>1, <3>2
    <2> QED
        BY <1>6, <2>1
<1>9. /\ r.sfq_running = s.sfq_running - (IF IsPss(s, t) THEN 1 ELSE 0)
      /\ r.load = s.load - (IF IsPss(s, t) THEN s.weight[t] ELSE 0)
    <2>1. s.sfq_running \in Int /\ s.load \in Int
        BY <1>0, StateFields
    <2> QED
        BY <1>0, <1>6, <2>1
<1>10. Consistent(r)
    BY <1>5, <1>6, <1>7, <1>8, <1>9, LeavesConsistent
<1> QED
    BY <1>4, <1>6, <1>10

-----------------------------------------------------------------------------
(* Threads that stop *)

(* What a change of curr, which also ends its accounting, leaves alone. *)
OnlyCurr(s, r) ==
    /\ SameThreads(s, r)
    /\ SameCandidates(s, r)
    /\ r.timeline = s.timeline
    /\ r.leftmost = s.leftmost
    /\ r.sfq_running = s.sfq_running
    /\ SameRunq(s, r)

(* Writing sfq->curr, with the accounting that goes with it, changes       *)
(* nothing else.                                                           *)
LEMMA SetCurrEffect ==
    ASSUME NEW s \in State, NEW c \in ThreadOrNull
    PROVE  LET r == [s EXCEPT !.curr = c, !.delta_exec = 0, !.exec_time = 0]
           IN  r \in State /\ OnlyCurr(s, r) /\ r.curr = c
<1>1. 0 \in Nat
    OBVIOUS
<1>2. [s EXCEPT !.curr = c, !.delta_exec = 0, !.exec_time = 0] \in State
    BY <1>1, ZenonT(60) DEF State
<1> QED
    BY ZenonT(60), <1>2 DEF OnlyCurr, SameThreads, SameCandidates, State,
        SameRunq

(* The consistency of the queues does not depend on sfq->curr. *)
LEMMA OnlyCurrConsistent ==
    ASSUME NEW s, NEW r, Consistent(s), r \in State, OnlyCurr(s, r)
    PROVE  Consistent(r)
<1>1. RunqShape(r)
    BY SameRunqShape
    DEF Consistent, RunqOK, OnlyCurr, SameThreads
<1> QED
    BY <1>1
    DEF Consistent, TreeOK, RunqOK, CandidateInv, CountOK, Waiting,
        PssJoined, IsPss, IsRt, OnlyCurr, SameThreads, SameCandidates,
        SameRunq

(* The accounting of the real-time class leaves the queues alone. *)
LEMMA SetRtExecKeeps ==
    ASSUME NEW s \in State, NEW x \in Nat
    PROVE  /\ [s EXCEPT !.rt_exec = x] \in State
           /\ SameQueues(s, [s EXCEPT !.rt_exec = x])
<1>1. [s EXCEPT !.rt_exec = x] \in State
    BY ZenonT(60) DEF State
<1> QED
    BY ZenonT(60), <1>1
       DEF SameQueues, SameThreads, SameSfq, SameCandidates, State,
        SameRunq

(* pss_put_prev_thread of a running thread: it stops and waits in the      *)
(* tree, and no assertion fails.                                           *)
LEMMA PssPutPrevStops ==
    ASSUME NEW s, NEW t \in s.joined, NEW swt,
           Consistent(s), IsPss(s, t), s.td_state[t] = "running"
    PROVE  LET r == PssPutPrev(s, t, swt)
           IN  Consistent(r) /\ Stops(s, r, t)
<1> DEFINE s1 == IF swt = "relinquish" THEN SetSkip(s, t) ELSE s
           su == UpdateCurr(s1)
           s2 == [su EXCEPT !.td_state[t] = "runq"]
           s3 == RunqEnqueueRaised(s2, t, HasPreemptBit(swt))
           st == EnqueueTimeline(s3, t)
           r  == [st EXCEPT !.curr = NULL, !.delta_exec = 0, !.exec_time = 0]
<1>0. /\ s \in State /\ TreeOK(s) /\ RunqOK(s) /\ t \in Thread
      /\ t \notin ToSet(s.timeline) /\ t \notin ToSet(s.realtime)
    BY StateFields DEF Consistent, TreeOK, RunqOK, Waiting
<1>1. PssPutPrev(s, t, swt) = r
    BY DEF PssPutPrev
<1>2. /\ s1 \in State /\ OnlyCandidates(s, s1)
      /\ {s1.skip, s1.next, s1.last} \subseteq {s.skip, s.next, s.last, t}
    <2>1. CASE swt = "relinquish"
        <3>1. s1 \in {SetSkip(s, t), SetNext(s, t), SetLast(s, t)}
            BY <2>1
        <3> HIDE DEF s1
        <3> QED
            BY ZenonT(60), <1>0, <3>1, SetCandidateEffect
    <2>2. CASE swt # "relinquish"
        BY <1>0, <2>2 DEF OnlyCandidates, SameThreads,
            SameRunq
    <2> QED
        BY <2>1, <2>2
<1> HIDE DEF s1
<1>3. su \in State /\ SameQueues(s1, su)
    BY <1>2, UpdateCurrKeeps
<1> HIDE DEF su
<1>4. /\ s2 \in State /\ SameSfq(su, s2) /\ SameElse(su, s2)
      /\ s2.td_state = [su.td_state EXCEPT ![t] = "runq"]
      /\ s2.joined = su.joined
      /\ s2.load = su.load
      /\ s2.nr_running = su.nr_running
      /\ s2.nr_sysrunning = su.nr_sysrunning
      /\ s2.panics = su.panics
      /\ SameRunq(su, s2)
    <2>1. "runq" \in TdState
        BY DEF TdState
    <2> QED
        BY <1>0, <1>3, <2>1, SetTdStateEffect
<1> HIDE DEF s2
<1>5. /\ s3 \in State /\ SameThreads(s2, s3) /\ SameSfq(s2, s3)
      /\ RunqShape(s3) /\ OnlyPlace(s2, s3, t)
      /\ ToSet(s3.realtime) = ToSet(s2.realtime) \cup
             {u \in {t} : s2.td_priority[u] < NORMAL_PRI}
    <2>1. SameRunq(s, s2) /\ s2.td_priority = s.td_priority
        BY <1>2, <1>3, <1>4
        DEF SameQueues, OnlyCandidates, SameThreads, SameElse, SameRunq
    <2>2. RunqShape(s2)
        BY <1>0, <2>1, SameRunqShape DEF RunqOK
    <2>3. t \notin ToSet(s2.realtime)
        BY <1>0, <2>1 DEF SameRunq
    <2> QED
        BY <1>0, <1>4, <2>2, <2>3, RunqEnqueueRaisedEffect
<1> HIDE DEF s3
<1>6. /\ st \in State /\ OnlyTree(s3, st) /\ TreeShape(st)
      /\ ToSet(st.timeline) = ToSet(s3.timeline) \cup {t}
    <2>1. TreeShape(s3) /\ t \notin ToSet(s3.timeline)
        BY <1>0, <1>2, <1>3, <1>4, <1>5
        DEF SameQueues, SameSfq, OnlyCandidates, TreeOK, TreeShape,
            SameRunq
    <2> QED
        BY <1>0, <1>5, <2>1, EnqueueTimelineEffect
<1> HIDE DEF st
<1>7. r \in State /\ OnlyCurr(st, r) /\ r.curr = NULL
    BY ZenonT(60), <1>6, SetCurrEffect DEF ThreadOrNull
<1> HIDE DEF r
<1>8. /\ SameElse(s, r) /\ r.joined = s.joined
      /\ r.td_state = [s.td_state EXCEPT ![t] = "runq"]
      /\ r.panics = s.panics
      /\ r.sfq_running = s.sfq_running
      /\ r.load = s.load
      /\ r.nr_running = s.nr_running
      /\ r.nr_sysrunning = s.nr_sysrunning
      /\ r.timeline = st.timeline /\ r.leftmost = st.leftmost
      /\ SameRunq(s3, r)
      /\ s2.td_priority = s.td_priority
      /\ s2.realtime = s.realtime /\ s3.timeline = s.timeline
      /\ {r.skip, r.next, r.last} = {s1.skip, s1.next, s1.last}
    BY <1>2, <1>3, <1>4, <1>5, <1>6, <1>7
    DEF SameQueues, SameThreads, SameSfq, SameCandidates, SameElse, OnlyTree,
        OnlyCurr, OnlyCandidates,
        SameRunq
<1>9. Stops(s, r, t)
    BY <1>2, <1>3, <1>4, <1>5, <1>7, <1>8
    DEF Stops, SameElse, OnlyPlace, SameRunq, SameQueues, OnlyCandidates
<1>10. /\ TreeShape(r) /\ RunqShape(r)
       /\ ToSet(r.timeline) = ToSet(s.timeline) \cup {u \in {t} : IsPss(s, u)}
       /\ ToSet(r.realtime) = ToSet(s.realtime) \cup
             {u \in {t} : IsRt(s, u) \/ s.td_priority[u] < NORMAL_PRI}
       /\ {r.skip, r.next, r.last} \subseteq
             {s.skip, s.next, s.last} \cup {u \in {t} : IsPss(s, u)}
    <2>1. ~ IsRt(s, t)
        BY DEF IsPss, IsRt
    <2>2. {u \in {t} : IsPss(s, u)} = {t}
        OBVIOUS
    <2>3. {u \in {t} : IsRt(s, u) \/ s.td_priority[u] < NORMAL_PRI} =
          {u \in {t} : s.td_priority[u] < NORMAL_PRI}
        BY <2>1
    <2>4. r.td_priority = s3.td_priority
        BY <1>5, <1>8 DEF SameThreads, SameElse
    <2>5. RunqShape(r) /\ r.realtime = s3.realtime
        BY <1>5, <1>8, <2>4, SameRunqShape DEF SameRunq
    <2> QED
        BY <1>2, <1>5, <1>6, <1>8, <2>2, <2>3, <2>5 DEF TreeShape
<1>11. Consistent(r)
    BY <1>7, <1>8, <1>9, <1>10, StopsConsistent
<1> QED
    BY <1>1, <1>9, <1>11

(* rt_put_prev_thread of a running thread: it stops and waits, and no      *)
(* assertion fails.                                                        *)
LEMMA RtPutPrevStops ==
    ASSUME NEW s, NEW t \in s.joined, NEW swt,
           Consistent(s), IsRt(s, t), s.td_state[t] = "running"
    PROVE  LET r == RtPutPrev(s, t, swt)
           IN  Consistent(r) /\ Stops(s, r, t)
<1> DEFINE sa == RunqAdd(s, t, swt = "preempt")
           sr == [sa EXCEPT !.td_state[t] = "runq"]
           r  == [sr EXCEPT !.rt_exec = 0]
<1>0. /\ s \in State /\ TreeOK(s) /\ RunqOK(s) /\ t \in Thread
      /\ t \notin ToSet(s.realtime) /\ ~ IsPss(s, t)
    BY StateFields DEF Consistent, RunqOK, Waiting, IsPss, IsRt
<1>1. RtPutPrev(s, t, swt) = r
    <2>1. Kassert(s, ~OnRunq(s, t), "already on runq") = s
        BY ZenonT(60), <1>0, KassertTrue DEF OnRunq
    <2> QED
        BY <2>1, Zenon DEF RtPutPrev
<1>2. /\ sa \in State /\ SameThreads(s, sa) /\ SameSfq(s, sa)
      /\ RunqShape(sa) /\ OnlyPlace(s, sa, t)
      /\ ToSet(sa.realtime) = ToSet(s.realtime) \cup {t}
    BY <1>0, RunqAddEffect DEF RunqOK
<1> HIDE DEF sa
<1>3. /\ sr \in State /\ SameSfq(sa, sr) /\ SameElse(sa, sr)
      /\ sr.td_state = [sa.td_state EXCEPT ![t] = "runq"]
      /\ sr.joined = sa.joined
      /\ sr.load = sa.load
      /\ sr.nr_running = sa.nr_running
      /\ sr.nr_sysrunning = sa.nr_sysrunning
      /\ sr.panics = sa.panics
      /\ SameRunq(sa, sr)
    <2>1. "runq" \in TdState
        BY DEF TdState
    <2> QED
        BY <1>0, <1>2, <2>1, SetTdStateEffect
<1> HIDE DEF sr
<1>4. r \in State /\ SameQueues(sr, r)
    BY <1>3, SetRtExecKeeps
<1> HIDE DEF r
<1>5. /\ Stops(s, r, t) /\ r.panics = s.panics
      /\ r.sfq_running = s.sfq_running
      /\ r.load = s.load
      /\ r.nr_running = s.nr_running
      /\ r.nr_sysrunning = s.nr_sysrunning
      /\ r.timeline = s.timeline /\ r.leftmost = s.leftmost
      /\ SameRunq(sa, r)
      /\ {r.skip, r.next, r.last} = {s.skip, s.next, s.last}
    BY <1>0, <1>2, <1>3, <1>4
    DEF SameQueues, SameThreads, SameSfq, SameCandidates, SameElse, Stops,
        SameRunq, OnlyPlace
<1>6. /\ TreeShape(r) /\ RunqShape(r)
      /\ ToSet(r.timeline) = ToSet(s.timeline) \cup {u \in {t} : IsPss(s, u)}
      /\ ToSet(r.realtime) = ToSet(s.realtime) \cup
             {u \in {t} : IsRt(s, u) \/ s.td_priority[u] < NORMAL_PRI}
      /\ {r.skip, r.next, r.last} \subseteq
             {s.skip, s.next, s.last} \cup {u \in {t} : IsPss(s, u)}
    <2>1. {u \in {t} : IsPss(s, u)} = {}
        BY <1>0
    <2>2. {u \in {t} : IsRt(s, u) \/ s.td_priority[u] < NORMAL_PRI} = {t}
        OBVIOUS
    <2>3. r.td_priority = sa.td_priority
        BY <1>2, <1>5 DEF SameThreads, Stops, SameElse
    <2>4. RunqShape(r) /\ r.realtime = sa.realtime
        BY <1>2, <1>5, <2>3, SameRunqShape DEF SameRunq
    <2> QED
        BY <1>0, <1>2, <1>5, <2>1, <2>2, <2>4 DEF TreeShape, TreeOK
<1>7. Consistent(r)
    BY <1>4, <1>5, <1>6, StopsConsistent
<1> QED
    BY <1>1, <1>5, <1>7

-----------------------------------------------------------------------------
(* Threads that start *)

(* pss_activate_thread of a waiting thread: it starts, and no assertion    *)
(* fails as long as nothing runs.                                          *)
LEMMA PssActivateStarts ==
    ASSUME NEW s, NEW t \in Waiting(s),
           Consistent(s), IsPss(s, t), s.curr = NULL
    PROVE  LET r == PssActivate(s, t)
           IN  Consistent(r) /\ Starts(s, r, t)
<1> DEFINE s1 == RunqDequeue(s, t)
           s2 == DequeueTimeline(s1, t)
           s3 == [s2 EXCEPT !.curr = t, !.delta_exec = 0, !.exec_time = 0]
           r  == [s3 EXCEPT !.td_state[t] = "running"]
<1>0. /\ s \in State /\ TreeOK(s) /\ RunqOK(s) /\ t \in Thread
      /\ t \in s.joined /\ t \in ToSet(s.timeline)
    BY StateFields DEF Consistent, TreeOK, Waiting
<1>1. /\ s1 \in State /\ SameThreads(s, s1) /\ SameSfq(s, s1)
      /\ RunqShape(s1) /\ OnlyPlace(s, s1, t)
      /\ ToSet(s1.realtime) = ToSet(s.realtime) \ {t}
    BY <1>0, RunqDequeueEffect DEF RunqOK
<1>2. /\ s2 \in State /\ OnlyTree(s1, s2) /\ TreeShape(s2)
      /\ ToSet(s2.timeline) = ToSet(s1.timeline) \ {t}
    <2> HIDE DEF s1
    <2>1. TreeShape(s1) /\ t \in ToSet(s1.timeline)
        BY <1>0, <1>1 DEF SameSfq, TreeOK, TreeShape
    <2> QED
        BY <1>0, <1>1, <2>1, DequeueTimelineEffect
<1>3. PssActivate(s, t) = r
    <2>1. Kassert(s, t \in s.joined, "not joined") = s
        BY ZenonT(60), <1>0, KassertTrue
    <2>2. Kassert(s2, s.curr = NULL, "curr already exists") = s2
        <3>1. s2 \in State
            BY <1>2
        <3> HIDE DEF s2
        <3> QED
            BY <3>1 DEF Kassert, State
    <2> QED
        BY <2>1, <2>2, Zenon DEF PssActivate
<1> HIDE DEF s1, s2
<1>4. s3 \in State /\ OnlyCurr(s2, s3) /\ s3.curr = t
    BY ZenonT(60), <1>0, <1>2, SetCurrEffect DEF ThreadOrNull
<1> HIDE DEF s3
<1>5. /\ r \in State /\ SameSfq(s3, r) /\ SameElse(s3, r)
      /\ r.td_state = [s3.td_state EXCEPT ![t] = "running"]
      /\ r.joined = s3.joined
      /\ r.load = s3.load
      /\ r.nr_running = s3.nr_running
      /\ r.nr_sysrunning = s3.nr_sysrunning
      /\ r.panics = s3.panics
      /\ SameRunq(s3, r)
    <2>1. "running" \in TdState
        BY DEF TdState
    <2> QED
        BY <1>0, <1>4, <2>1, SetTdStateEffect
<1> HIDE DEF r
<1>6. /\ Starts(s, r, t) /\ SameCandidates(s, r) /\ r.panics = s.panics
      /\ r.sfq_running = s.sfq_running
      /\ r.load = s.load
      /\ r.nr_running = s.nr_running
      /\ r.nr_sysrunning = s.nr_sysrunning
      /\ r.timeline = s2.timeline /\ r.leftmost = s2.leftmost
      /\ SameRunq(s1, r) /\ s1.timeline = s.timeline
    BY <1>1, <1>2, <1>4, <1>5
    DEF SameThreads, SameSfq, SameCandidates, SameElse, OnlyTree, OnlyCurr,
        Starts,
        SameRunq, OnlyPlace
<1>7. /\ TreeShape(r) /\ RunqShape(r)
      /\ ToSet(r.timeline) = ToSet(s.timeline) \ {t}
      /\ ToSet(r.realtime) = ToSet(s.realtime) \ {t}
    <2>1. r.td_priority = s1.td_priority
        BY <1>1, <1>6 DEF SameThreads, Starts, SameElse
    <2>2. RunqShape(r) /\ r.realtime = s1.realtime
        BY <1>1, <1>6, <2>1, SameRunqShape DEF SameRunq
    <2> QED
        BY <1>1, <1>2, <1>6, <2>2 DEF TreeShape
<1>8. Consistent(r)
    BY <1>0, <1>5, <1>6, <1>7, StartsConsistent
<1> QED
    BY <1>3, <1>6, <1>8

(* rt_activate_thread of a waiting thread: it starts, and no assertion     *)
(* fails.                                                                  *)
LEMMA RtActivateStarts ==
    ASSUME NEW s, NEW t \in Waiting(s), Consistent(s), IsRt(s, t)
    PROVE  LET r == RtActivate(s, t)
           IN  Consistent(r) /\ Starts(s, r, t)
<1> DEFINE s1 == RunqRemove(s, t)
           s2 == [s1 EXCEPT !.td_state[t] = "running"]
           r  == [s2 EXCEPT !.rt_exec = 0]
<1>0. /\ s \in State /\ TreeOK(s) /\ RunqOK(s) /\ t \in Thread
      /\ t \in s.joined /\ t \in ToSet(s.realtime)
      /\ t \notin ToSet(s.timeline) /\ ~ IsPss(s, t)
    BY StateFields DEF Consistent, TreeOK, RunqOK, Waiting, IsPss, IsRt
<1>1. RtActivate(s, t) = r
    <2>1. /\ Kassert(s, t \in s.joined, "not joined") = s
          /\ Kassert(s, OnRunq(s, t), "not on runq") = s
          /\ Kassert(s, ~OnSfq(s, t), "on sfq") = s
        BY ZenonT(60), <1>0, KassertTrue DEF OnRunq, OnSfq
    <2>2. OnRunq(s, t)
        BY <1>0 DEF OnRunq
    <2> QED
        BY <2>1, <2>2, Zenon DEF RtActivate
<1>2. /\ s1 \in State /\ SameThreads(s, s1) /\ SameSfq(s, s1)
      /\ RunqShape(s1) /\ OnlyPlace(s, s1, t)
      /\ ToSet(s1.realtime) = ToSet(s.realtime) \ {t}
    BY <1>0, RunqRemoveEffect DEF RunqOK
<1> HIDE DEF s1
<1>3. /\ s2 \in State /\ SameSfq(s1, s2) /\ SameElse(s1, s2)
      /\ s2.td_state = [s1.td_state EXCEPT ![t] = "running"]
      /\ s2.joined = s1.joined
      /\ s2.load = s1.load
      /\ s2.nr_running = s1.nr_running
      /\ s2.nr_sysrunning = s1.nr_sysrunning
      /\ s2.panics = s1.panics
      /\ SameRunq(s1, s2)
    <2>1. "running" \in TdState
        BY DEF TdState
    <2> QED
        BY <1>0, <1>2, <2>1, SetTdStateEffect
<1> HIDE DEF s2
<1>4. r \in State /\ SameQueues(s2, r)
    BY <1>3, SetRtExecKeeps
<1> HIDE DEF r
<1>5. /\ Starts(s, r, t) /\ SameCandidates(s, r) /\ r.panics = s.panics
      /\ r.sfq_running = s.sfq_running
      /\ r.load = s.load
      /\ r.nr_running = s.nr_running
      /\ r.nr_sysrunning = s.nr_sysrunning
      /\ r.timeline = s.timeline /\ r.leftmost = s.leftmost
      /\ SameRunq(s1, r)
    BY <1>0, <1>2, <1>3, <1>4
    DEF SameQueues, SameThreads, SameSfq, SameCandidates, SameElse, Starts,
        SameRunq, OnlyPlace
<1>6. /\ TreeShape(r) /\ RunqShape(r)
      /\ ToSet(r.timeline) = ToSet(s.timeline) \ {t}
      /\ ToSet(r.realtime) = ToSet(s.realtime) \ {t}
    <2>1. r.td_priority = s1.td_priority
        BY <1>2, <1>5 DEF SameThreads, Starts, SameElse
    <2>2. RunqShape(r) /\ r.realtime = s1.realtime
        BY <1>2, <1>5, <2>1, SameRunqShape DEF SameRunq
    <2> QED
        BY <1>0, <1>2, <1>5, <2>2 DEF TreeShape, TreeOK
<1>7. Consistent(r)
    BY <1>0, <1>4, <1>5, <1>6, StartsConsistent
<1> QED
    BY <1>1, <1>5, <1>7

-----------------------------------------------------------------------------
(* Virtual time flows forward *)

(* From here on nothing wraps around: a comparison of vruntimes is one of  *)
(* numbers.                                                                *)
LEMMA NoWrap ==
    ASSUME Modulus = 0
    PROVE  /\ \A x : Wrap(x) = x
           /\ \A x, y : Diff(x, y) = x - y
    BY DEF Wrap, Diff

(* max_vruntime and min_vruntime are the maximum and the minimum. *)
LEMMA MaxMinVruntime ==
    ASSUME Modulus = 0, NEW x \in Int, NEW y \in Int
    PROVE  /\ MaxVruntime(x, y) = IF x < y THEN y ELSE x
           /\ MinVruntime(x, y) = IF y < x THEN y ELSE x
    BY NoWrap DEF MaxVruntime, MinVruntime

(* The time that is charged is scaled, never reversed. *)
LEMMA ScaleDeltaPositive ==
    ASSUME NEW s \in State, NEW delta \in Nat, NEW t \in Thread
    PROVE  ScaleDelta(s, delta, t) \in Nat
<1> DEFINE lw == s.weight[t]
           n  == 2 * delta * NICE_0_WEIGHT + lw
<1>1. lw \in Nat \ {0} /\ NICE_0_WEIGHT \in Nat \ {0}
    BY StateFields, WeightAssumption
<1>2. n \in Nat
    <2>1. delta * NICE_0_WEIGHT \in Nat
        BY <1>1
    <2>2. 2 * delta * NICE_0_WEIGHT = 2 * (delta * NICE_0_WEIGHT)
        BY <1>1
    <2> HIDE DEF lw
    <2> QED
        BY <1>1, <2>1, <2>2
<1>3. ScaleByWeight(delta, NICE_0_WEIGHT, lw) = n \div (2 * lw)
    BY <1>1 DEF ScaleByWeight
<1>4. n \div (2 * lw) \in Nat
    <2>1. 2 * lw \in Nat \ {0}
        BY <1>1
    <2> HIDE DEF n, lw
    <2> QED
        BY <1>2, <2>1, DivType
<1> QED
    BY <1>3, <1>4 DEF ScaleDelta

(* The tree is in the order of vruntime. *)
Orderly(s) == Ordered(s.timeline, s.vruntime)

(* A state in which virtual time can be brought up to date. *)
Fair(s) ==
    /\ s \in State
    /\ TreeShape(s)
    /\ Orderly(s)
    /\ s.curr \notin ToSet(s.timeline)

(* The threads update_sfq_vtime looks at, or could. *)
Counted(s) == ToSet(s.timeline) \cup ({s.curr} \cap s.joined)

(* From s to r virtual time moves on, and t, whose vruntime becomes v,     *)
(* loses nothing and is not passed while it stays where it was.            *)
FlowsTo(s, r, t, v) ==
    /\ s.vruntime[t] <= v
    /\ s.vtime # r.vtime /\ s.vruntime[t] = v => r.vtime <= v

(* ... none of the threads in X does. *)
Flows(s, r, X) ==
    /\ s.vtime <= r.vtime
    /\ \A t \in X : FlowsTo(s, r, t, r.vruntime[t])

(* Nothing that has to do with time changes. *)
SameTimes(s, r) ==
    /\ r.vtime = s.vtime
    /\ r.vruntime = s.vruntime
    /\ r.unseen = s.unseen
    /\ r.delta_exec = s.delta_exec

(* The running thread has been charged for all of its time. *)
Charged(s) == s.curr = NULL \/ s.delta_exec = 0

(* Nobody loses anything while nothing changes. *)
LEMMA FlowsReflexive ==
    ASSUME NEW s \in State, NEW X \in SUBSET Thread, NEW r,
           r.vtime = s.vtime, \A t \in X : r.vruntime[t] = s.vruntime[t]
    PROVE  Flows(s, r, X)
<1>1. s.vtime \in Int /\ \A t \in Thread : s.vruntime[t] \in Int
    BY StateFields
<1> QED
    BY <1>1 DEF Flows, FlowsTo

(* What holds of one step after another holds of both together, for one    *)
(* thread ...                                                              *)
LEMMA FlowsToTransitive ==
    ASSUME NEW s \in State, NEW r \in State, NEW q \in State,
           s.vtime <= r.vtime, r.vtime <= q.vtime,
           NEW t \in Thread, NEW v \in Int,
           FlowsTo(s, r, t, r.vruntime[t]), FlowsTo(r, q, t, v)
    PROVE  FlowsTo(s, q, t, v)
<1>1. /\ s.vtime \in Int /\ r.vtime \in Int /\ q.vtime \in Int
      /\ s.vruntime[t] \in Int /\ r.vruntime[t] \in Int
    BY StateFields
<1> QED
    BY <1>1 DEF FlowsTo

(* ... and for all. *)
LEMMA FlowsTransitive ==
    ASSUME NEW s \in State, NEW r \in State, NEW q \in State,
           NEW X \in SUBSET Thread, Flows(s, r, X), Flows(r, q, X)
    PROVE  Flows(s, q, X)
<1>1. /\ s.vtime \in Int /\ r.vtime \in Int /\ q.vtime \in Int
      /\ \A t \in Thread : q.vruntime[t] \in Int
    BY StateFields
<1>2. s.vtime <= q.vtime
    BY <1>1 DEF Flows
<1>3. ASSUME NEW t \in X
      PROVE  FlowsTo(s, q, t, q.vruntime[t])
    BY <1>1, FlowsToTransitive DEF Flows
<1> QED
    BY <1>2, <1>3 DEF Flows

(* What holds of many threads holds of fewer. *)
LEMMA FlowsOfFewer ==
    ASSUME NEW s, NEW r, NEW X, NEW Y \in SUBSET X, Flows(s, r, X)
    PROVE  Flows(s, r, Y)
    BY DEF Flows

(* The order of the tree depends on the vruntimes in it alone. *)
LEMMA OrderlyFrame ==
    ASSUME NEW s \in State, NEW r, Orderly(s), r.timeline = s.timeline,
           \A u \in ToSet(s.timeline) : r.vruntime[u] = s.vruntime[u]
    PROVE  Orderly(r)
<1>1. \A i \in DOMAIN s.timeline : s.timeline[i] \in ToSet(s.timeline)
    BY StateFields DEF ToSet
<1> QED
    BY <1>1 DEF Orderly, Ordered

(* No entity of the tree is before the leftmost one. *)
LEMMA LeftmostIsLeast ==
    ASSUME NEW s, Fair(s), NEW u \in ToSet(s.timeline)
    PROVE  /\ s.leftmost \in Thread
           /\ s.vruntime[s.leftmost] <= s.vruntime[u]
<1>1. s.timeline \in Seq(Thread) /\ s.vruntime \in [Thread -> Int]
    BY StateFields DEF Fair
<1>2. PICK i \in 1 .. Len(s.timeline) : s.timeline[i] = u
    BY <1>1, ToSetMember
<1>3. /\ s.leftmost = s.timeline[1] /\ 1 \in DOMAIN s.timeline
      /\ i \in DOMAIN s.timeline /\ u \in Thread /\ s.timeline[1] \in Thread
    BY <1>1, <1>2 DEF Fair, TreeShape
<1>4. CASE i = 1
    <2>1. s.leftmost = u /\ s.vruntime[u] \in Int
        BY <1>1, <1>2, <1>3, <1>4
    <2> QED
        BY <1>3, <2>1
<1>5. CASE i # 1
    <2>1. 1 < i
        BY <1>2, <1>5
    <2> QED
        BY <1>2, <1>3, <2>1 DEF Fair, Orderly, Ordered
<1> QED
    BY <1>4, <1>5

(* update_sfq_vtime: virtual time goes up to the least vruntime at most.   *)
LEMMA UpdateSfqVtimeFlows ==
    ASSUME Modulus = 0, NEW s, Fair(s), NEW X \in SUBSET Counted(s)
    PROVE  LET r == UpdateSfqVtime(s)
           IN  /\ Flows(s, r, X)
               /\ r.vruntime = s.vruntime
               /\ r.unseen = s.unseen
               /\ r.delta_exec = s.delta_exec
<1> DEFINE least == IF s.curr \notin s.joined THEN s.vruntime[s.leftmost]
                    ELSE IF s.leftmost = NULL THEN s.vruntime[s.curr]
                    ELSE MinVruntime(s.vruntime[s.curr],
                                     s.vruntime[s.leftmost])
           v == MaxVruntime(s.vtime, least)
           r == UpdateSfqVtime(s)
<1>0. /\ s \in State /\ s.vtime \in Int /\ s.vruntime \in [Thread -> Int]
      /\ s.joined \subseteq Thread /\ s.timeline \in Seq(Thread)
      /\ ToSet(s.timeline) \subseteq Thread
      /\ s.leftmost \in ThreadOrNull
    BY StateFields DEF Fair, ToSet
<1>1. X \in SUBSET Thread
    BY <1>0 DEF Counted
<1>2. CASE s.curr \notin s.joined /\ s.leftmost = NULL
    <2>1. r = s
        BY <1>2 DEF UpdateSfqVtime
    <2> QED
        BY <1>0, <1>1, <2>1, FlowsReflexive
<1>3. CASE s.curr \in s.joined \/ s.leftmost # NULL
    <2>1. r = [s EXCEPT !.vtime = v]
        BY <1>3 DEF UpdateSfqVtime
    <2>2. /\ s.curr \in s.joined => s.vruntime[s.curr] \in Int
          /\ s.leftmost # NULL => s.vruntime[s.leftmost] \in Int
        BY <1>0 DEF ThreadOrNull
    <2>3. /\ least \in Int
          /\ s.curr \in s.joined => least <= s.vruntime[s.curr]
          /\ s.leftmost # NULL => least <= s.vruntime[s.leftmost]
        BY <1>3, <2>2, MaxMinVruntime
    <2> HIDE DEF least
    <2>4. v = IF s.vtime < least THEN least ELSE s.vtime
        BY <1>0, <2>3, MaxMinVruntime
    <2> HIDE DEF v
    <2>5. /\ r.vtime = v /\ r.vruntime = s.vruntime
          /\ r.unseen = s.unseen /\ r.delta_exec = s.delta_exec
        BY <1>0, <2>1 DEF State
    <2> HIDE DEF r
    <2>6. ASSUME NEW t \in X
          PROVE  least <= s.vruntime[t]
        <3>1. CASE t \in ToSet(s.timeline)
            <4>1. /\ s.leftmost \in Thread
                  /\ s.vruntime[s.leftmost] <= s.vruntime[t]
                BY <3>1, LeftmostIsLeast
            <4>2. s.leftmost # NULL
                BY <4>1, ThreadAssumption
            <4> QED
                BY <1>0, <1>1, <2>2, <2>3, <4>1, <4>2
        <3>2. CASE t \in {s.curr} \cap s.joined
            BY <2>3, <3>2
        <3> QED
            BY <3>1, <3>2 DEF Counted
    <2>7. ASSUME NEW t \in X
          PROVE  FlowsTo(s, r, t, r.vruntime[t])
        <3>1. s.vruntime[t] \in Int /\ r.vruntime[t] = s.vruntime[t]
            BY <1>0, <1>1, <2>5
        <3> QED
            BY <1>0, <2>3, <2>4, <2>5, <2>6, <3>1 DEF FlowsTo
    <2>8. s.vtime <= r.vtime
        BY <1>0, <2>3, <2>4, <2>5
    <2> QED
        BY <2>5, <2>7, <2>8 DEF Flows, r
<1> QED
    BY <1>2, <1>3

(* update_curr charges the running thread, and nobody else. *)
LEMMA UpdateCurrFlows ==
    ASSUME Modulus = 0, NEW s, Fair(s), NEW X \in SUBSET Counted(s)
    PROVE  LET r == UpdateCurr(s)
           IN  /\ Flows(s, r, X)
               /\ Charged(r)
               /\ Charged(s) => r = s
               /\ r.unseen = s.unseen
               /\ \A u \in Thread \ {s.curr} : r.vruntime[u] = s.vruntime[u]
<1> DEFINE r == UpdateCurr(s)
<1>0. /\ s \in State /\ s.vtime \in Int /\ s.vruntime \in [Thread -> Int]
      /\ s.joined \subseteq Thread /\ ToSet(s.timeline) \subseteq Thread
      /\ s.curr \in ThreadOrNull
      /\ s.delta_exec \in Nat /\ s.exec_time \in Nat
    BY StateFields DEF Fair, ToSet
<1>1. X \in SUBSET Thread
    BY <1>0 DEF Counted
<1>2. CASE Charged(s)
    <2>1. r = s
        BY <1>2 DEF UpdateCurr, Charged
    <2> QED
        BY <1>0, <1>1, <1>2, <2>1, FlowsReflexive
<1>3. CASE ~Charged(s)
    <2> DEFINE delta == ScaleDelta(s, s.delta_exec, s.curr)
               v == s.vruntime[s.curr] + delta
               f == [s.vruntime EXCEPT ![s.curr] = v]
               e == SaturatingAdd(s.exec_time, s.delta_exec)
               z == [s EXCEPT !.vruntime = f, !.exec_time = e, !.delta_exec = 0]
    <2>1. s.curr \in Thread /\ s.curr # NULL /\ s.delta_exec # 0
        BY <1>0, <1>3 DEF Charged, ThreadOrNull
    <2>2. delta \in Nat
        BY <1>0, <2>1, ScaleDeltaPositive
    <2>3. r = UpdateSfqVtime(z)
        BY <2>1, NoWrap DEF UpdateCurr
    <2>4. v \in Int /\ s.vruntime[s.curr] <= v
        <3> HIDE DEF delta
        <3> QED
            BY <1>0, <2>1, <2>2
    <2> HIDE DEF v, delta
    <2>5. /\ f \in [Thread -> Int] /\ f[s.curr] = v
          /\ \A u \in Thread \ {s.curr} : f[u] = s.vruntime[u]
        BY <1>0, <2>1, <2>4
    <2>6. e \in Nat /\ 0 \in Nat
        BY <1>0, SaturatingAddType
    <2> HIDE DEF f, e
    <2>7. z \in State
        BY <1>0, <2>5, <2>6, ZenonT(60) DEF State
    <2>8. /\ z.vruntime = f /\ z.delta_exec = 0 /\ z.vtime = s.vtime
          /\ z.timeline = s.timeline /\ z.leftmost = s.leftmost
          /\ z.curr = s.curr /\ z.joined = s.joined /\ z.unseen = s.unseen
        BY <1>0 DEF State
    <2> HIDE DEF z
    <2>9. Fair(z)
        <3>1. \A u \in ToSet(s.timeline) : z.vruntime[u] = s.vruntime[u]
            BY <1>0, <2>5, <2>8 DEF Fair
        <3>2. Orderly(z)
            BY <1>0, <2>8, <3>1, OrderlyFrame DEF Fair
        <3> QED
            BY <2>7, <2>8, <3>2 DEF Fair, TreeShape
    <2>10. Counted(z) = Counted(s)
        BY <2>8 DEF Counted
    <2>11. Flows(s, z, X)
        <3>1. ASSUME NEW t \in X
              PROVE  FlowsTo(s, z, t, z.vruntime[t])
            <4>1. s.vruntime[t] <= z.vruntime[t]
                BY <1>0, <1>1, <2>4, <2>5, <2>8
            <4> QED
                BY <2>8, <4>1 DEF FlowsTo
        <3> QED
            BY <1>0, <2>8, <3>1 DEF Flows
    <2>12. /\ Flows(z, r, X) /\ r.vruntime = f
           /\ r.unseen = s.unseen /\ r.delta_exec = 0
        BY <2>3, <2>8, <2>9, <2>10, UpdateSfqVtimeFlows
    <2>13. r \in State
        BY <2>3, <2>7, UpdateSfqVtimeKeeps
    <2> HIDE DEF r
    <2>14. Flows(s, r, X)
        BY <1>0, <1>1, <2>7, <2>11, <2>12, <2>13, FlowsTransitive
    <2>15. /\ Charged(r)
           /\ \A u \in Thread \ {s.curr} : r.vruntime[u] = s.vruntime[u]
        BY <2>5, <2>12 DEF Charged
    <2> QED
        BY <1>3, <2>12, <2>14, <2>15 DEF r
<1> QED
    BY <1>2, <1>3

(* ... and leaves a state in which virtual time can be updated again. *)
LEMMA UpdateCurrFair ==
    ASSUME Modulus = 0, NEW s, Fair(s)
    PROVE  Fair(UpdateCurr(s))
<1> DEFINE r == UpdateCurr(s)
<1>1. s \in State /\ ToSet(s.timeline) \subseteq Thread
    BY StateFields DEF Fair, ToSet
<1>2. r \in State /\ SameQueues(s, r)
    BY <1>1, UpdateCurrKeeps
<1>3. {} \in SUBSET Counted(s)
    OBVIOUS
<1>4. \A u \in Thread \ {s.curr} : r.vruntime[u] = s.vruntime[u]
    BY <1>3, UpdateCurrFlows
<1> HIDE DEF r
<1>5. Orderly(r)
    BY <1>1, <1>2, <1>4, OrderlyFrame DEF Fair, SameQueues, SameSfq
<1> QED
    BY <1>2, <1>5 DEF Fair, TreeShape, SameQueues, SameSfq, r

-----------------------------------------------------------------------------
(* What leaves the times alone *)

(* Two operations that leave the times alone leave them alone together. *)
LEMMA SameTimesTransitive ==
    ASSUME NEW s, NEW r, NEW q, SameTimes(s, r), SameTimes(r, q)
    PROVE  SameTimes(s, q)
    BY DEF SameTimes

(* As long as the times stay, nobody loses anything ... *)
LEMMA SameTimesFlow ==
    ASSUME NEW s \in State, NEW r, SameTimes(s, r), NEW X \in SUBSET Thread
    PROVE  Flows(s, r, X)
    BY FlowsReflexive DEF SameTimes

(* ... and the tree stays in order. *)
LEMMA SameTimesOrderly ==
    ASSUME NEW s, NEW r, Orderly(s), SameTimes(s, r), r.timeline = s.timeline
    PROVE  Orderly(r)
    BY DEF Orderly, SameTimes

(* The operations on the real-time queue do not touch the times, *)
LEMMA RunqTimes ==
    ASSUME NEW s \in State, NEW t, NEW b
    PROVE  /\ SameTimes(s, RunqAdd(s, t, b))
           /\ SameTimes(s, RunqRemove(s, t))
           /\ SameTimes(s, RunqEnqueueRaised(s, t, b))
           /\ SameTimes(s, RunqDequeue(s, t))
<1>1. SameTimes(s, RunqAdd(s, t, b))
    BY DEF SameTimes, RunqAdd, State
<1>2. SameTimes(s, RunqRemove(s, t))
    BY DEF SameTimes, RunqRemove, State
<1>3. SameTimes(s, s)
    BY DEF SameTimes
<1>4. SameTimes(s, Kassert(s, FALSE, "already on runq"))
    BY DEF SameTimes, Kassert, State
<1> QED
    BY ZenonT(60), <1>1, <1>2, <1>3, <1>4
       DEF RunqEnqueueRaised, RunqEnqueue, RunqDequeue

(* nor do those that count threads and name candidates, *)
LEMMA CounterTimes ==
    ASSUME NEW s \in State, NEW t
    PROVE  /\ SameTimes(s, AccountEnqueue(s, t))
           /\ SameTimes(s, AccountDequeue(s, t))
           /\ SameTimes(s, RqRunAdd(s, t))
           /\ SameTimes(s, RqRunRem(s, t))
           /\ SameTimes(s, ClearCandidates(s, t))
           /\ SameTimes(s, SetSkip(s, t))
           /\ SameTimes(s, SetNext(s, t))
           /\ SameTimes(s, SetLast(s, t))
<1>1. /\ SameTimes(s, AccountEnqueue(s, t))
      /\ SameTimes(s, AccountDequeue(s, t))
      /\ SameTimes(s, RqRunAdd(s, t))
    BY DEF SameTimes, AccountEnqueue, AccountDequeue, RqRunAdd, State
<1>2. SameTimes(s, RqRunRem(s, t))
    BY DEF SameTimes, RqRunRem, Kassert, State
<1>3. /\ SameTimes(s, ClearCandidates(s, t))
      /\ SameTimes(s, SetSkip(s, t))
      /\ SameTimes(s, SetNext(s, t))
      /\ SameTimes(s, SetLast(s, t))
    BY DEF SameTimes, ClearCandidates, SetSkip, SetNext, SetLast, State
<1> QED
    BY <1>1, <1>2, <1>3

(* nor does a write to another field. *)
LEMMA FieldTimes ==
    ASSUME NEW s \in State, NEW x
    PROVE  /\ SameTimes(s, [s EXCEPT !.joined = x])
           /\ SameTimes(s, [s EXCEPT !.td_state = x])
           /\ SameTimes(s, [s EXCEPT !.rt_exec = x])
           /\ SameTimes(s, [s EXCEPT !.curthread = x])
           /\ SameTimes(s, [s EXCEPT !.pri_class = x])
           /\ SameTimes(s, [s EXCEPT !.p_nice = x])
           /\ SameTimes(s, [s EXCEPT !.td_priority = x])
           /\ SameTimes(s, [s EXCEPT !.weight = x])
           /\ SameTimes(s, [s EXCEPT !.panics = x])
    BY DEF SameTimes, State

(* An insertion keeps the tree in order: the search finds the right place. *)
LEMMA EnqueueTimelineOrderly ==
    ASSUME Modulus = 0, NEW s \in State, NEW t \in Thread,
           Orderly(s), t \notin ToSet(s.timeline)
    PROVE  LET r == EnqueueTimeline(s, t)
           IN  Orderly(r) /\ SameTimes(s, r)
<1> DEFINE later == {i \in DOMAIN s.timeline :
                        EntityBefore(s, t, s.timeline[i])}
           q == InsertBefore(s.timeline, later, t)
           r == EnqueueTimeline(s, t)
<1>1. Kassert(s, ~OnSfq(s, t), "already on sfq") = s
    BY ZenonT(60), KassertTrue DEF OnSfq
<1>2. r.timeline = q /\ SameTimes(s, r)
    BY ZenonT(60), <1>1 DEF EnqueueTimeline, SameTimes, State
<1>3. s.timeline \in Seq(Thread) /\ s.vruntime \in [Thread -> Int]
    BY StateFields
<1>4. later \in SUBSET DOMAIN s.timeline
    OBVIOUS
<1>5. \A i \in DOMAIN s.timeline :
        /\ s.vruntime[s.timeline[i]] \in Int
        /\ i \in later <=> s.vruntime[t] - s.vruntime[s.timeline[i]] < 0
    BY <1>3, NoWrap DEF EntityBefore
<1> HIDE DEF later
<1>6. \A i \in later : s.vruntime[t] <= s.vruntime[s.timeline[i]]
    BY <1>3, <1>4, <1>5
<1>7. \A i \in DOMAIN s.timeline \ later :
        s.vruntime[s.timeline[i]] <= s.vruntime[t]
    BY <1>3, <1>5
<1>8. Ordered(q, s.vruntime)
    BY <1>3, <1>4, <1>6, <1>7, InsertBeforeOrdered DEF Orderly
<1> HIDE DEF q, r
<1> QED
    BY <1>2, <1>8 DEF Orderly, SameTimes, r

(* A removal keeps it in order, and in front whoever was there. *)
LEMMA DequeueTimelineOrderly ==
    ASSUME NEW s \in State, NEW t \in Thread,
           Orderly(s), t \in ToSet(s.timeline)
    PROVE  LET r == DequeueTimeline(s, t)
           IN  /\ Orderly(r) /\ SameTimes(s, r)
               /\ t # s.leftmost => r.leftmost = s.leftmost
<1> DEFINE r == DequeueTimeline(s, t)
<1>1. /\ r.timeline = Without(s.timeline, t) /\ SameTimes(s, r)
      /\ t # s.leftmost => r.leftmost = s.leftmost
    BY DEF DequeueTimeline, OnSfq, SameTimes, State
<1>2. Ordered(Without(s.timeline, t), s.vruntime)
    BY StateFields, WithoutOrdered DEF Orderly
<1> HIDE DEF r
<1> QED
    BY <1>1, <1>2 DEF Orderly, SameTimes, r

-----------------------------------------------------------------------------
(* The operations of the classes *)

(* A consistent state whose curr does not wait is fair if its tree is in   *)
(* order.                                                                  *)
LEMMA ConsistentFair ==
    ASSUME NEW s, Consistent(s), Orderly(s), s.curr \notin Waiting(s)
    PROVE  Fair(s)
    BY DEF Consistent, TreeOK, TreeShape, Fair

(* Making a vruntime absolute or relative, or placing a thread that wakes  *)
(* up, changes one vruntime and nothing else.                              *)
LEMMA OneVruntime ==
    ASSUME Modulus = 0, NEW s \in State, NEW t \in Thread,
           NEW r \in {Absolute(s, t), Relative(s, t), PlaceWakeup(s, t),
                      PlaceInitial(s, t)}
    PROVE  /\ r.vtime = s.vtime /\ r.unseen = s.unseen
           /\ r.delta_exec = s.delta_exec
           /\ \A u \in Thread \ {t} : r.vruntime[u] = s.vruntime[u]
           /\ r = Absolute(s, t) => r.vruntime[t] = s.vruntime[t] + s.vtime
           /\ r = Relative(s, t) => r.vruntime[t] = s.vruntime[t] - s.vtime
<1>1. s.vruntime \in [Thread -> Int]
    BY StateFields
<1>2. ASSUME NEW v
      PROVE  LET z == [s EXCEPT !.vruntime[t] = v]
             IN  /\ z.vtime = s.vtime /\ z.unseen = s.unseen
                 /\ z.delta_exec = s.delta_exec
                 /\ \A u \in Thread \ {t} : z.vruntime[u] = s.vruntime[u]
                 /\ z.vruntime[t] = v
    BY <1>1 DEF State
<1>3. Absolute(s, t) = [s EXCEPT !.vruntime[t] = s.vruntime[t] + s.vtime]
    BY NoWrap DEF Absolute
<1>4. Relative(s, t) = [s EXCEPT !.vruntime[t] = s.vruntime[t] - s.vtime]
    BY NoWrap DEF Relative
<1>5. \E v : PlaceWakeup(s, t) = [s EXCEPT !.vruntime[t] = v]
    BY DEF PlaceWakeup
<1>6. \E v : PlaceInitial(s, t) = [s EXCEPT !.vruntime[t] = v]
    BY DEF PlaceInitial
<1>7. PICK v : r = [s EXCEPT !.vruntime[t] = v]
    BY <1>3, <1>4, <1>5, <1>6
<1>8. r = Absolute(s, t) => r.vruntime[t] = s.vruntime[t] + s.vtime
    BY <1>2, <1>3
<1>9. r = Relative(s, t) => r.vruntime[t] = s.vruntime[t] - s.vtime
    BY <1>2, <1>4
<1> QED
    BY <1>2, <1>7, <1>8, <1>9

(* The vruntime of a thread out of the tree does not matter to it. *)
LEMMA OneVruntimeFair ==
    ASSUME NEW s, Fair(s), NEW t \in Thread, t \notin ToSet(s.timeline),
           NEW r \in State, SameQueues(s, r),
           \A u \in Thread \ {t} : r.vruntime[u] = s.vruntime[u]
    PROVE  Fair(r)
<1>1. s \in State /\ ToSet(s.timeline) \subseteq Thread
    BY StateFields DEF Fair, ToSet
<1>2. Orderly(r)
    BY <1>1, OrderlyFrame DEF Fair, SameQueues, SameSfq
<1> QED
    BY <1>2 DEF Fair, TreeShape, SameQueues, SameSfq

(* pss_enqueue_thread.  A thread that comes back to the queue it has left  *)
(* has its vruntime made absolute again.                                   *)
LEMMA PssEnqueueFlows ==
    ASSUME Modulus = 0, NEW s, NEW t \in Thread, NEW wakeup,
           Consistent(s), Fair(s), IsPss(s, t), t \notin s.joined,
           NEW X \in SUBSET Counted(s)
    PROVE  LET r == PssEnqueue(s, t, wakeup)
           IN  /\ Orderly(r)
               /\ Flows(s, r, X)
               /\ Charged(s) /\ ~wakeup =>
                     /\ r.vtime = s.vtime
                     /\ r.vruntime[t] = s.vruntime[t] + s.vtime
<1> DEFINE s1 == IF wakeup THEN s ELSE Absolute(s, t)
           s2 == UpdateCurr(s1)
           s3 == IF wakeup THEN PlaceWakeup(s2, t) ELSE s2
           sr == [s3 EXCEPT !.td_state[t] = "runq"]
           s4 == RunqEnqueueRaised(sr, t, FALSE)
           st == EnqueueTimeline(s4, t)
           s5 == AccountEnqueue(st, t)
           sj == [s5 EXCEPT !.joined = @ \cup {t}]
           r  == RqRunAdd(sj, t)
<1>0. /\ s \in State /\ TreeOK(s) /\ RunqOK(s)
      /\ t \notin ToSet(s.timeline) /\ t \notin ToSet(s.realtime)
      /\ s.joined \subseteq Thread /\ ToSet(s.timeline) \subseteq Thread
    BY StateFields DEF Consistent, TreeOK, RunqOK, Waiting, ToSet
<1>1. PssEnqueue(s, t, wakeup) = r
    BY DEF PssEnqueue
<1>2. X \in SUBSET (Thread \ {t})
    BY <1>0 DEF Counted
<1>3. /\ s1 \in State /\ SameQueues(s, s1)
      /\ s1.vtime = s.vtime /\ s1.unseen = s.unseen
      /\ s1.delta_exec = s.delta_exec
      /\ \A u \in Thread \ {t} : s1.vruntime[u] = s.vruntime[u]
      /\ ~wakeup => s1.vruntime[t] = s.vruntime[t] + s.vtime
    <2>1. CASE wakeup
        BY <1>0, <2>1, SameQueuesReflexive
    <2>2. CASE ~wakeup
        <3>1. s1 = Absolute(s, t)
            BY <2>2
        <3> HIDE DEF s1
        <3> QED
            BY ZenonT(60), <1>0, <3>1, AbsoluteRelativeKeep, OneVruntime
    <2> QED
        BY <2>1, <2>2
<1> HIDE DEF s1
<1>4. Fair(s1) /\ X \in SUBSET Counted(s1)
    <2>1. Counted(s1) = Counted(s)
        BY <1>3 DEF Counted, SameQueues, SameSfq, SameThreads
    <2> QED
        BY <1>0, <1>3, <2>1, OneVruntimeFair
<1>5. Flows(s, s1, X)
    BY <1>0, <1>2, <1>3, FlowsReflexive
<1>6. /\ s2 \in State /\ SameQueues(s1, s2) /\ Fair(s2)
      /\ Flows(s1, s2, X) /\ (Charged(s1) => s2 = s1)
    BY <1>3, <1>4, UpdateCurrKeeps, UpdateCurrFlows, UpdateCurrFair
<1> HIDE DEF s2
<1>7. Flows(s, s2, X) /\ SameQueues(s, s2)
    BY <1>0, <1>2, <1>3, <1>5, <1>6, FlowsTransitive, SameQueuesTransitive
<1>8. Charged(s) /\ ~wakeup =>
         s2.vtime = s.vtime /\ s2.vruntime[t] = s.vruntime[t] + s.vtime
    BY <1>3, <1>6 DEF Charged, SameQueues, SameSfq
<1>9. /\ s3 \in State /\ SameQueues(s, s3) /\ s3.vtime = s2.vtime
      /\ \A u \in Thread \ {t} : s3.vruntime[u] = s2.vruntime[u]
      /\ ~wakeup => s3 = s2
      /\ SameQueues(s2, s3)
    <2>1. CASE wakeup
        <3>1. s3 = PlaceWakeup(s2, t)
            BY <2>1
        <3> HIDE DEF s3
        <3> QED
            BY ZenonT(60), <1>6, <1>7, <2>1, <3>1, PlaceKeeps, OneVruntime,
               SameQueuesTransitive
    <2>2. CASE ~wakeup
        BY <1>6, <1>7, <2>2, SameQueuesReflexive
    <2> QED
        BY <2>1, <2>2
<1> HIDE DEF s3
<1>10. Flows(s, s3, X)
    <2>1. Flows(s2, s3, X)
        BY <1>2, <1>6, <1>9, FlowsReflexive
    <2> QED
        BY <1>0, <1>2, <1>6, <1>7, <1>9, <2>1, FlowsTransitive
<1>11. Orderly(s3)
    <2>1. t \notin ToSet(s2.timeline)
        BY <1>0, <1>7 DEF SameQueues, SameSfq
    <2>2. Fair(s3)
        BY <1>6, <1>9, <2>1, OneVruntimeFair
    <2> QED
        BY <2>2 DEF Fair
<1>12. sr \in State /\ SameSfq(s3, sr) /\ SameTimes(s3, sr)
       /\ SameRunq(s3, sr) /\ SameElse(s3, sr)
    <2>1. "runq" \in TdState
        BY DEF TdState
    <2> QED
        BY <1>9, <2>1, SetTdStateEffect, FieldTimes
<1> HIDE DEF sr
<1>13. s4 \in State /\ SameSfq(sr, s4) /\ SameTimes(sr, s4)
    <2>1. SameRunq(s, sr) /\ sr.td_priority = s.td_priority
        BY <1>9, <1>12 DEF SameQueues, SameThreads, SameElse, SameRunq
    <2>2. RunqShape(sr)
        BY <1>0, <2>1, SameRunqShape DEF RunqOK
    <2>3. t \notin ToSet(sr.realtime)
        BY <1>0, <2>1 DEF SameRunq
    <2> QED
        BY <1>12, <2>2, <2>3, RunqEnqueueRaisedEffect, RunqTimes
<1> HIDE DEF s4
<1>14. /\ SameTimes(s3, s4) /\ Orderly(s4)
       /\ t \notin ToSet(s4.timeline) /\ TreeShape(s4)
    <2>1. SameTimes(s3, s4) /\ s4.timeline = s3.timeline
        BY <1>12, <1>13, SameTimesTransitive DEF SameSfq
    <2> QED
        BY <1>0, <1>9, <1>11, <1>12, <1>13, <2>1, SameTimesOrderly
        DEF SameQueues, SameSfq, TreeOK, TreeShape
<1>15. st \in State /\ Orderly(st) /\ SameTimes(s4, st)
    BY <1>13, <1>14, EnqueueTimelineEffect, EnqueueTimelineOrderly
<1> HIDE DEF st
<1>16. s5 \in State /\ SameTimes(st, s5) /\ s5.timeline = st.timeline
    BY <1>15, AccountEnqueueEffect, CounterTimes DEF OnlyCounts
<1> HIDE DEF s5
<1>17. sj \in State /\ SameTimes(s5, sj) /\ sj.timeline = s5.timeline
    <2>1. s5.joined \cup {t} \in SUBSET Thread
        BY <1>16, StateFields
    <2> QED
        BY ZenonT(60), <1>16, <2>1, SetJoinedEffect, FieldTimes DEF OnlyCounts
<1> HIDE DEF sj
<1>18. r \in State /\ SameTimes(sj, r) /\ r.timeline = sj.timeline
    BY <1>17, RqRunAddEffect, CounterTimes DEF OnlyCounts
<1> HIDE DEF r
<1>19. SameTimes(st, r) /\ r.timeline = st.timeline
    BY <1>16, <1>17, <1>18 DEF SameTimes
<1>20. SameTimes(s3, r)
    BY <1>14, <1>15, <1>19 DEF SameTimes
<1>21. Flows(s, r, X)
    <2>1. Flows(s3, r, X)
        BY <1>2, <1>9, <1>20, SameTimesFlow
    <2> QED
        BY <1>0, <1>2, <1>9, <1>10, <1>18, <2>1, FlowsTransitive
<1>22. Orderly(r)
    BY <1>15, <1>19, SameTimesOrderly
<1>23. Charged(s) /\ ~wakeup =>
          r.vtime = s.vtime /\ r.vruntime[t] = s.vruntime[t] + s.vtime
    BY <1>8, <1>9, <1>20 DEF SameTimes
<1> QED
    BY <1>1, <1>21, <1>22, <1>23

(* pss_dequeue_thread.  A thread that stays runnable takes its vruntime    *)
(* relative to the virtual time with it.                                   *)
LEMMA PssDequeueFlows ==
    ASSUME Modulus = 0, NEW s, NEW t \in s.joined, NEW sleep,
           Consistent(s), Fair(s), IsPss(s, t),
           NEW X \in SUBSET (Counted(s) \ {t})
    PROVE  LET r == PssDequeue(s, t, sleep)
           IN  /\ Orderly(r)
               /\ Flows(s, r, X)
               /\ Charged(r)
               /\ r.unseen = s.unseen
               /\ ~sleep /\ t \in Counted(s) =>
                     FlowsTo(s, r, t, r.vruntime[t] + r.vtime)
<1> DEFINE su == UpdateCurr(s)
           sd == RunqDequeue(su, t)
           s1 == ClearCandidates(sd, t)
           s2 == IF OnSfq(s1, t) THEN DequeueTimeline(s1, t) ELSE s1
           sa == AccountDequeue(s2, t)
           s3 == [sa EXCEPT !.joined = @ \ {t}]
           s4 == IF sleep THEN s3 ELSE Relative(s3, t)
           sv == UpdateSfqVtime(s4)
           r  == RqRunRem(sv, t)
<1>0. /\ s \in State /\ TreeOK(s) /\ RunqOK(s) /\ t \in Thread
      /\ s.joined \subseteq Thread /\ ToSet(s.timeline) \subseteq Thread
    BY StateFields DEF Consistent, ToSet
<1>1. PssDequeue(s, t, sleep) = r
    BY DEF PssDequeue
<1>2. X \in SUBSET (Thread \ {t}) /\ X \in SUBSET Counted(s)
    BY <1>0 DEF Counted
<1>3. /\ su \in State /\ SameQueues(s, su) /\ Fair(su)
      /\ Flows(s, su, X) /\ su.unseen = s.unseen /\ Charged(su)
    BY <1>0, <1>2, UpdateCurrKeeps, UpdateCurrFlows, UpdateCurrFair
<1>4. t \in Counted(s) => FlowsTo(s, su, t, su.vruntime[t])
    <2>1. ASSUME t \in Counted(s)
          PROVE  Flows(s, su, {t})
        BY <2>1, UpdateCurrFlows
    <2> QED
        BY <2>1 DEF Flows
<1> HIDE DEF su
<1>5. /\ sd \in State /\ SameThreads(su, sd) /\ SameSfq(su, sd)
      /\ SameTimes(su, sd)
    <2>1. RunqShape(su)
        BY <1>0, <1>3, SameRunqShape DEF SameQueues, SameThreads, RunqOK
    <2> QED
        BY <1>0, <1>3, <2>1, RunqDequeueEffect, RunqTimes
<1> HIDE DEF sd
<1>6. s1 \in State /\ OnlyCandidates(sd, s1) /\ SameTimes(sd, s1)
    BY <1>0, <1>5, ClearCandidatesEffect, CounterTimes
<1> HIDE DEF s1
<1>7. /\ SameTimes(su, s1) /\ s1.timeline = s.timeline
      /\ s1.leftmost = s.leftmost /\ s1.curr = s.curr
      /\ s1.joined = s.joined
    BY <1>3, <1>5, <1>6
    DEF SameTimes, SameQueues, SameSfq, SameThreads, OnlyCandidates
<1>8. TreeShape(s1) /\ Orderly(s1)
    <2>1. Orderly(su) /\ s1.timeline = su.timeline
        BY <1>3, <1>7 DEF Fair, SameQueues, SameSfq
    <2> QED
        BY <1>0, <1>7, <2>1, SameTimesOrderly DEF TreeOK, TreeShape
<1>9. /\ s2 \in State /\ OnlyTree(s1, s2) /\ TreeShape(s2)
      /\ ToSet(s2.timeline) = ToSet(s1.timeline) \ {t}
      /\ Orderly(s2) /\ SameTimes(s1, s2)
    <2>1. CASE t \in ToSet(s1.timeline)
        <3>1. s2 = DequeueTimeline(s1, t)
            BY <2>1 DEF OnSfq
        <3> HIDE DEF s2
        <3> QED
            BY <1>0, <1>6, <1>8, <2>1, <3>1, DequeueTimelineEffect,
               DequeueTimelineOrderly
    <2>2. CASE t \notin ToSet(s1.timeline)
        <3>1. s2 = s1
            BY <2>2 DEF OnSfq
        <3> HIDE DEF s2
        <3> QED
            BY <1>6, <1>8, <2>2, <3>1 DEF OnlyTree, SameThreads,
               SameCandidates, SameRunq, SameTimes
    <2> QED
        BY <2>1, <2>2
<1> HIDE DEF s2
<1>10. /\ sa \in State /\ OnlyCounts(s2, sa) /\ sa.joined = s2.joined
       /\ SameTimes(s2, sa) /\ sa.nr_running = s2.nr_running
    BY <1>0, <1>9, AccountDequeueEffect, CounterTimes
<1> HIDE DEF sa
<1>11. /\ s3 \in State /\ OnlyCounts(sa, s3) /\ s3.joined = sa.joined \ {t}
       /\ SameTimes(sa, s3) /\ s3.nr_running = sa.nr_running
    <2>1. sa.joined \ {t} \in SUBSET Thread
        BY <1>10, StateFields
    <2> QED
        BY ZenonT(60), <1>10, <2>1, SetJoinedEffect, FieldTimes
<1> HIDE DEF s3
<1>12. /\ SameTimes(su, s3) /\ s3.timeline = s2.timeline
       /\ s3.leftmost = s2.leftmost /\ s3.curr = s.curr
       /\ s3.joined = s.joined \ {t}
       /\ ToSet(s3.timeline) = ToSet(s.timeline) \ {t}
    BY <1>7, <1>9, <1>10, <1>11
    DEF SameTimes, OnlyTree, OnlyCounts, SameThreads
<1>13. Fair(s3)
    <2>1. s.curr \notin ToSet(s3.timeline)
        BY <1>12 DEF Fair
    <2>2. SameTimes(s2, s3)
        BY <1>10, <1>11, SameTimesTransitive
    <2>3. Orderly(s3) /\ TreeShape(s3)
        BY <1>9, <1>12, <2>2, SameTimesOrderly DEF TreeShape
    <2> QED
        BY <1>11, <1>12, <2>1, <2>3 DEF Fair
<1>14. /\ s4 \in State /\ SameQueues(s3, s4)
       /\ s4.vtime = s3.vtime /\ s4.unseen = s3.unseen
       /\ s4.delta_exec = s3.delta_exec
       /\ \A u \in Thread \ {t} : s4.vruntime[u] = s3.vruntime[u]
       /\ ~sleep => s4.vruntime[t] = s3.vruntime[t] - s3.vtime
    <2>1. CASE sleep
        BY <1>11, <2>1, SameQueuesReflexive
    <2>2. CASE ~sleep
        <3>1. s4 = Relative(s3, t)
            BY <2>2
        <3> HIDE DEF s4
        <3> QED
            BY ZenonT(120), <1>0, <1>11, <3>1, AbsoluteRelativeKeep,
               OneVruntime
    <2> QED
        BY <2>1, <2>2
<1> HIDE DEF s4
<1>15. Fair(s4) /\ X \in SUBSET Counted(s4)
    <2>1. Counted(s4) = (ToSet(s.timeline) \ {t}) \cup
                        ({s.curr} \cap (s.joined \ {t}))
        BY <1>12, <1>14 DEF Counted, SameQueues, SameSfq, SameThreads
    <2>2. t \notin ToSet(s3.timeline)
        BY <1>12
    <2> QED
        BY <1>0, <1>2, <1>13, <1>14, <2>1, <2>2, OneVruntimeFair DEF Counted
<1>16. /\ sv \in State /\ SameQueues(s4, sv)
       /\ Flows(s4, sv, X) /\ sv.vruntime = s4.vruntime
       /\ sv.unseen = s4.unseen /\ sv.delta_exec = s4.delta_exec
    BY <1>14, <1>15, UpdateSfqVtimeKeeps, UpdateSfqVtimeFlows
<1> HIDE DEF sv
<1>17. sv.nr_running = s.nr_running /\ sv.timeline = s3.timeline
       /\ sv.curr = s.curr
    BY <1>3, <1>5, <1>6, <1>9, <1>10, <1>11, <1>12, <1>14, <1>16
    DEF SameQueues, SameSfq, SameThreads, OnlyCandidates, OnlyTree
<1>18. /\ r \in State /\ OnlyCounts(sv, r) /\ SameTimes(sv, r)
    <2>1. sv.nr_running # 0
        BY <1>17, RunningCounted
    <2> QED
        BY <1>0, <1>16, <2>1, RqRunRemEffect, CounterTimes
<1> HIDE DEF r
<1>19. Flows(s, r, X)
    <2>1. Flows(s, s3, X)
        BY <1>3, <1>12 DEF Flows, FlowsTo, SameTimes
    <2>2. Flows(s3, s4, X)
        BY <1>2, <1>11, <1>14, FlowsReflexive
    <2>3. Flows(sv, r, X)
        BY <1>2, <1>16, <1>18, SameTimesFlow
    <2>4. X \in SUBSET Thread
        BY <1>2
    <2>5. Flows(s, s4, X)
        BY <1>0, <1>11, <1>14, <2>1, <2>2, <2>4, FlowsTransitive
    <2>6. Flows(s, sv, X)
        BY <1>0, <1>14, <1>16, <2>4, <2>5, FlowsTransitive
    <2> QED
        BY <1>0, <1>16, <1>18, <2>3, <2>4, <2>6, FlowsTransitive
<1>20. Orderly(r)
    <2>1. Orderly(s4) /\ r.timeline = s4.timeline
        BY <1>14, <1>15, <1>17, <1>18
        DEF Fair, SameQueues, SameSfq, OnlyCounts
    <2> QED
        BY <1>16, <1>18, <2>1 DEF Orderly, SameTimes
<1>21. Charged(r) /\ r.unseen = s.unseen
    BY <1>3, <1>12, <1>14, <1>16, <1>17, <1>18
    DEF Charged, SameTimes, OnlyCounts, SameQueues, SameSfq
<1>22. ASSUME ~sleep, t \in Counted(s)
       PROVE  FlowsTo(s, r, t, r.vruntime[t] + r.vtime)
    <2>1. /\ r.vruntime[t] = su.vruntime[t] - su.vtime
          /\ su.vtime <= r.vtime
        BY <1>12, <1>14, <1>16, <1>18, <1>22 DEF SameTimes, Flows
    <2>2. /\ s.vruntime[t] \in Int /\ su.vruntime[t] \in Int
          /\ su.vtime \in Int /\ r.vtime \in Int /\ s.vtime \in Int
        BY <1>0, <1>3, <1>18, StateFields
    <2>3. FlowsTo(s, su, t, su.vruntime[t])
        BY <1>4, <1>22
    <2> QED
        BY <2>1, <2>2, <2>3 DEF FlowsTo
<1> QED
    BY <1>1, <1>19, <1>20, <1>21, <1>22

(* pss_put_prev_thread of a running thread: it is charged, and goes back   *)
(* to its place in the tree.                                               *)
LEMMA PssPutPrevFlows ==
    ASSUME Modulus = 0, NEW s, NEW t \in s.joined, NEW swt,
           Consistent(s), Fair(s), IsPss(s, t), s.td_state[t] = "running",
           NEW X \in SUBSET Counted(s)
    PROVE  LET r == PssPutPrev(s, t, swt)
           IN  Orderly(r) /\ Flows(s, r, X)
<1> DEFINE s1 == IF swt = "relinquish" THEN SetSkip(s, t) ELSE s
           su == UpdateCurr(s1)
           s2 == [su EXCEPT !.td_state[t] = "runq"]
           s3 == RunqEnqueueRaised(s2, t, HasPreemptBit(swt))
           st == EnqueueTimeline(s3, t)
           r  == [st EXCEPT !.curr = NULL, !.delta_exec = 0, !.exec_time = 0]
<1>0. /\ s \in State /\ TreeOK(s) /\ RunqOK(s) /\ t \in Thread
      /\ t \notin ToSet(s.timeline) /\ t \notin ToSet(s.realtime)
      /\ s.joined \subseteq Thread /\ ToSet(s.timeline) \subseteq Thread
    BY StateFields DEF Consistent, TreeOK, RunqOK, Waiting, ToSet
<1>1. PssPutPrev(s, t, swt) = r
    BY DEF PssPutPrev
<1>2. X \in SUBSET Thread
    BY <1>0 DEF Counted
<1>3. s1 \in State /\ OnlyCandidates(s, s1) /\ SameTimes(s, s1)
    <2>1. CASE swt = "relinquish"
        <3>1. s1 = SetSkip(s, t)
            BY <2>1
        <3>2. s1 \in {SetSkip(s, t), SetNext(s, t), SetLast(s, t)}
            BY <3>1
        <3> HIDE DEF s1
        <3> QED
            BY <1>0, <3>1, <3>2, SetCandidateEffect, CounterTimes
    <2>2. CASE swt # "relinquish"
        BY <1>0, <2>2 DEF OnlyCandidates, SameThreads, SameRunq, SameTimes
    <2> QED
        BY <2>1, <2>2
<1> HIDE DEF s1
<1>4. Fair(s1) /\ Counted(s1) = Counted(s)
    BY <1>3, SameTimesOrderly
    DEF Fair, TreeShape, Counted, OnlyCandidates, SameThreads
<1>5. /\ su \in State /\ SameQueues(s1, su) /\ Fair(su)
      /\ Flows(s1, su, X)
    BY <1>3, <1>4, UpdateCurrKeeps, UpdateCurrFlows, UpdateCurrFair
<1> HIDE DEF su
<1>6. Flows(s, su, X)
    <2>1. Flows(s, s1, X)
        BY <1>0, <1>2, <1>3, SameTimesFlow
    <2> QED
        BY <1>0, <1>2, <1>3, <1>5, <2>1, FlowsTransitive
<1>7. /\ s2 \in State /\ SameSfq(su, s2) /\ SameElse(su, s2)
      /\ SameRunq(su, s2) /\ SameTimes(su, s2)
    <2>1. "runq" \in TdState
        BY DEF TdState
    <2> QED
        BY <1>0, <1>5, <2>1, SetTdStateEffect, FieldTimes
<1> HIDE DEF s2
<1>8. s3 \in State /\ SameSfq(s2, s3) /\ SameTimes(s2, s3)
    <2>1. SameRunq(s, s2) /\ s2.td_priority = s.td_priority
        BY <1>3, <1>5, <1>7
        DEF SameQueues, OnlyCandidates, SameThreads, SameElse, SameRunq
    <2>2. RunqShape(s2)
        BY <1>0, <2>1, SameRunqShape DEF RunqOK
    <2>3. t \notin ToSet(s2.realtime)
        BY <1>0, <2>1 DEF SameRunq
    <2> QED
        BY <1>0, <1>7, <2>2, <2>3, RunqEnqueueRaisedEffect, RunqTimes
<1> HIDE DEF s3
<1>9. /\ SameTimes(su, s3) /\ s3.timeline = s.timeline
      /\ TreeShape(s3) /\ Orderly(s3)
    <2>1. SameTimes(su, s3) /\ s3.timeline = su.timeline
        BY <1>7, <1>8, SameTimesTransitive DEF SameSfq
    <2>2. Orderly(s3)
        BY <1>5, <2>1, SameTimesOrderly DEF Fair
    <2> QED
        BY <1>0, <1>3, <1>5, <1>7, <1>8, <2>1, <2>2
        DEF SameQueues, SameSfq, OnlyCandidates, TreeOK, TreeShape
<1>10. st \in State /\ Orderly(st) /\ SameTimes(s3, st)
    BY <1>0, <1>8, <1>9, EnqueueTimelineEffect, EnqueueTimelineOrderly
<1> HIDE DEF st
<1>11. /\ r \in State /\ r.timeline = st.timeline
       /\ r.vtime = st.vtime /\ r.vruntime = st.vruntime
    <2>1. r \in State
        BY ZenonT(60), <1>10, SetCurrEffect DEF ThreadOrNull
    <2> QED
        BY ZenonT(60), <1>10, <2>1 DEF State
<1> HIDE DEF r
<1>12. Flows(su, r, X)
    BY <1>2, <1>5, <1>9, <1>10, <1>11, FlowsReflexive DEF SameTimes
<1>13. Flows(s, r, X)
    BY <1>0, <1>2, <1>5, <1>6, <1>11, <1>12, FlowsTransitive
<1> QED
    BY <1>1, <1>10, <1>11, <1>13 DEF Orderly

(* pss_put_prev_thread of a thread that has left only forgets it. *)
LEMMA PssPutPrevGone ==
    ASSUME NEW s \in State, NEW t \in Thread \ s.joined, NEW swt
    PROVE  LET r == PssPutPrev(s, t, swt)
           IN  /\ r.vtime = s.vtime /\ r.vruntime = s.vruntime
               /\ r.unseen = s.unseen
               /\ r.timeline = s.timeline
               /\ r.curr = NULL
    BY DEF PssPutPrev, State

(* pss_activate takes the thread out of the tree, with its vruntime. *)
LEMMA PssActivateOrderly ==
    ASSUME NEW s, NEW t \in Waiting(s),
           Consistent(s), Orderly(s), IsPss(s, t), s.curr = NULL
    PROVE  LET r == PssActivate(s, t)
           IN  /\ Orderly(r) /\ r.vtime = s.vtime /\ r.vruntime = s.vruntime
               /\ t # s.leftmost => r.leftmost = s.leftmost
<1> DEFINE s1 == RunqDequeue(s, t)
           s2 == DequeueTimeline(s1, t)
           s3 == [s2 EXCEPT !.curr = t, !.delta_exec = 0, !.exec_time = 0]
           f  == [s3.td_state EXCEPT ![t] = "running"]
           r  == [s3 EXCEPT !.td_state = f]
<1>0. /\ s \in State /\ TreeOK(s) /\ RunqOK(s) /\ t \in Thread
      /\ t \in ToSet(s.timeline) /\ t \in s.joined
    BY StateFields DEF Consistent, TreeOK, Waiting
<1>1. /\ s1 \in State /\ SameSfq(s, s1) /\ SameTimes(s, s1)
    BY <1>0, RunqDequeueEffect, RunqTimes DEF RunqOK
<1>2. PssActivate(s, t) =
        [Kassert(DequeueTimeline(s1, t), s.curr = NULL, "curr already exists")
            EXCEPT !.curr = t, !.delta_exec = 0, !.exec_time = 0,
                   !.td_state[t] = "running"]
    <2>1. Kassert(s, t \in s.joined, "not joined") = s
        BY ZenonT(60), <1>0, KassertTrue
    <2> QED
        BY ZenonT(60), <2>1 DEF PssActivate
<1> HIDE DEF s1
<1>3. Orderly(s1) /\ TreeShape(s1) /\ t \in ToSet(s1.timeline)
    BY <1>0, <1>1, SameTimesOrderly DEF SameSfq, TreeOK, TreeShape
<1>4. /\ s2 \in State /\ Orderly(s2) /\ SameTimes(s1, s2)
      /\ t # s1.leftmost => s2.leftmost = s1.leftmost
    BY <1>0, <1>1, <1>3, DequeueTimelineEffect, DequeueTimelineOrderly
<1> HIDE DEF s2
<1>5. Kassert(s2, s.curr = NULL, "curr already exists") = s2
    BY <1>4 DEF Kassert, State
<1>6. LET z == [s2 EXCEPT !.curr = t, !.delta_exec = 0, !.exec_time = 0,
                          !.td_state[t] = "running"]
      IN  /\ z.timeline = s2.timeline
          /\ z.leftmost = s2.leftmost
          /\ z.vtime = s2.vtime /\ z.vruntime = s2.vruntime
    BY <1>4 DEF State
<1> QED
    BY ZenonT(60), <1>1, <1>2, <1>4, <1>5, <1>6
       DEF Orderly, SameTimes, SameSfq, s2

(* The real-time class does not know of virtual time. *)
LEMMA RtTimes ==
    ASSUME NEW s \in State, NEW t \in Thread, NEW swt
    PROVE  \A r \in {RtEnqueue(s, t), RtDequeue(s, t), RtPutPrev(s, t, swt),
                     RtActivate(s, t)} :
               SameTimes(s, r) /\ r.timeline = s.timeline
<1> DEFINE Ok(r) == SameTimes(s, r) /\ r.timeline = s.timeline
<1>1. Ok(RtEnqueue(s, t))
    BY ZenonT(120) DEF RtEnqueue, RqRunAdd, RunqAdd, Kassert, SameTimes, State
<1>2. Ok(RtDequeue(s, t))
    BY DEF RtDequeue, RqRunRem, RunqRemove, Kassert, SameTimes, State
<1>3. Ok(RtPutPrev(s, t, swt))
    BY DEF RtPutPrev, RunqAdd, Kassert, SameTimes, State
<1>4. Ok(RtActivate(s, t))
    BY DEF RtActivate, RunqRemove, Kassert, SameTimes, State
<1> QED
    BY SMTT(120), <1>1, <1>2, <1>3, <1>4

-----------------------------------------------------------------------------
(* Dispatch *)

(* enqueue_thread, and class->enqueue of sched_class *)
LEMMA EnqueueJoins ==
    ASSUME NEW s, NEW t \in Thread, NEW wakeup,
           Consistent(s), t \notin s.joined
    PROVE  LET r == ClassEnqueue(s, t, wakeup)
           IN  Consistent(r) /\ Joins(s, r, t)
<1>1. CASE IsPss(s, t)
    BY <1>1, PssEnqueueJoins DEF ClassEnqueue
<1>2. CASE ~ IsPss(s, t)
    <2>1. IsRt(s, t)
        BY <1>2 DEF IsPss, IsRt
    <2> QED
        BY <1>2, <2>1, RtEnqueueJoins DEF ClassEnqueue
<1> QED
    BY <1>1, <1>2

(* class->dequeue, of whichever class the thread is. *)
LEMMA DequeueLeaves ==
    ASSUME NEW s, NEW t \in s.joined, NEW sleep, Consistent(s)
    PROVE  LET r == ClassDequeue(s, t, sleep)
           IN  Consistent(r) /\ Leaves(s, r, t)
<1>1. CASE IsPss(s, t)
    BY <1>1, PssDequeueLeaves DEF ClassDequeue
<1>2. CASE ~ IsPss(s, t)
    <2>1. IsRt(s, t)
        BY <1>2, StateFields DEF IsPss, IsRt, Consistent
    <2> QED
        BY <1>2, <2>1, RtDequeueLeaves DEF ClassDequeue
<1> QED
    BY <1>1, <1>2

(* class->put_prev of a running thread, of whichever class it is. *)
LEMMA PutPrevStops ==
    ASSUME NEW s, NEW t \in s.joined, NEW swt,
           Consistent(s), s.td_state[t] = "running"
    PROVE  LET r == ClassPutPrev(s, t, swt)
           IN  Consistent(r) /\ Stops(s, r, t)
<1>0. t \in Thread /\ t # Idle
    BY StateFields, ThreadAssumption DEF Consistent
<1>1. CASE IsPss(s, t)
    BY <1>0, <1>1, PssPutPrevStops DEF ClassPutPrev
<1>2. CASE ~ IsPss(s, t)
    <2>1. IsRt(s, t)
        BY <1>0, <1>2 DEF IsPss, IsRt
    <2> QED
        BY <1>0, <1>2, <2>1, RtPutPrevStops DEF ClassPutPrev
<1> QED
    BY <1>1, <1>2

(* put_prev of a thread that was dequeued before *)
LEMMA PutPrevGone ==
    ASSUME NEW s, NEW t \in Thread, NEW swt, Consistent(s), t \notin s.joined
    PROVE  LET r == ClassPutPrev(s, t, swt)
           IN  /\ Consistent(r)
               /\ SameThreads(s, r)
               /\ SameRunq(s, r)
               /\ r.curr = IF IsPss(s, t) THEN NULL ELSE s.curr
<1>0. t # Idle /\ s \in State
    BY ThreadAssumption DEF Consistent
<1>1. CASE IsPss(s, t)
    <2> DEFINE r == [s EXCEPT !.curr = NULL, !.delta_exec = 0, !.exec_time = 0]
    <2>1. ClassPutPrev(s, t, swt) = r
        BY <1>0, <1>1 DEF ClassPutPrev, PssPutPrev
    <2>2. r \in State /\ OnlyCurr(s, r) /\ r.curr = NULL
        BY ZenonT(60), <1>0, SetCurrEffect DEF ThreadOrNull
    <2> HIDE DEF r
    <2>3. Consistent(r)
        BY <2>2, OnlyCurrConsistent
    <2> QED
        BY <1>1, <2>1, <2>2, <2>3 DEF OnlyCurr
<1>2. CASE ~ IsPss(s, t)
    <2> DEFINE r == [s EXCEPT !.rt_exec = 0]
    <2>1. ClassPutPrev(s, t, swt) = r
        BY <1>0, <1>2 DEF ClassPutPrev, RtPutPrev
    <2>2. r \in State /\ SameQueues(s, r)
        BY <1>0, SetRtExecKeeps
    <2> HIDE DEF r
    <2>3. Consistent(r)
        BY <2>2, SameQueuesConsistent
    <2> QED
        BY <1>2, <2>1, <2>2, <2>3 DEF SameQueues, SameSfq
<1> QED
    BY <1>1, <1>2

(* class->activate of a waiting thread, of whichever class it is. *)
LEMMA ActivateStarts ==
    ASSUME NEW s, NEW t \in Waiting(s),
           Consistent(s), IsPss(s, t) => s.curr = NULL
    PROVE  LET r == ClassActivate(s, t)
           IN  Consistent(r) /\ Starts(s, r, t)
<1>0. t \in Thread /\ t # Idle
    BY StateFields, ThreadAssumption DEF Consistent, Waiting
<1>1. CASE IsPss(s, t)
    BY <1>0, <1>1, PssActivateStarts DEF ClassActivate
<1>2. CASE ~ IsPss(s, t)
    <2>1. IsRt(s, t)
        BY <1>0, <1>2 DEF IsPss, IsRt
    <2> QED
        BY <1>0, <1>2, <2>1, RtActivateStarts DEF ClassActivate
<1> QED
    BY <1>1, <1>2

(* The same with update_rq_clock before *)
LEMMA ClockConsistent ==
    ASSUME NEW s, Consistent(s)
    PROVE  /\ Consistent(UpdateRqClock(s))
           /\ SameQueues(s, UpdateRqClock(s))
<1>1. UpdateRqClock(s) \in State /\ SameQueues(s, UpdateRqClock(s))
    BY UpdateRqClockKeeps DEF Consistent
<1> QED
    BY <1>1, SameQueuesConsistent

(* enqueue_thread. *)
LEMMA EnqueueThreadJoins ==
    ASSUME NEW s, NEW t \in Thread, NEW wakeup,
           Consistent(s), t \notin s.joined
    PROVE  LET r == EnqueueThread(s, t, wakeup)
           IN  Consistent(r) /\ Joins(s, r, t)
<1> DEFINE u == UpdateRqClock(s)
           r == ClassEnqueue(u, t, wakeup)
<1>1. Consistent(u) /\ SameQueues(s, u)
    BY ClockConsistent
<1> HIDE DEF u
<1>2. Consistent(r) /\ Joins(u, r, t)
    BY <1>1, EnqueueJoins DEF SameQueues, SameThreads
<1> HIDE DEF r
<1>3. Joins(s, r, t)
    BY <1>1, <1>2
    DEF Joins, SameElse, OnlyPlace, SameQueues, SameThreads, SameSfq, SameRunq
<1> QED
    BY <1>2, <1>3 DEF EnqueueThread, u, r

(* enqueue_thread of a timeshare thread. *)
LEMMA EnqueueThreadRaised ==
    ASSUME NEW s, NEW t \in Thread, NEW wakeup,
           Consistent(s), IsPss(s, t), t \notin s.joined,
           t \in ToSet(EnqueueThread(s, t, wakeup).realtime)
    PROVE  s.td_priority[t] < NORMAL_PRI
<1> DEFINE u == UpdateRqClock(s)
<1>1. Consistent(u) /\ SameQueues(s, u)
    BY ClockConsistent
<1>2. IsPss(u, t) /\ t \notin u.joined /\ u.td_priority = s.td_priority
    BY <1>1 DEF SameQueues, SameThreads, IsPss
<1>3. EnqueueThread(s, t, wakeup) = PssEnqueue(u, t, wakeup)
    BY <1>2 DEF EnqueueThread, ClassEnqueue
<1> HIDE DEF u
<1> QED
    BY <1>1, <1>2, <1>3, PssEnqueueJoins

(* dequeue_thread. *)
LEMMA DequeueThreadLeaves ==
    ASSUME NEW s, NEW t \in s.joined, NEW sleep, Consistent(s)
    PROVE  LET r == DequeueThread(s, t, sleep)
           IN  Consistent(r) /\ Leaves(s, r, t)
<1> DEFINE u == UpdateRqClock(s)
           r == ClassDequeue(u, t, sleep)
<1>1. Consistent(u) /\ SameQueues(s, u)
    BY ClockConsistent
<1> HIDE DEF u
<1>2. Consistent(r) /\ Leaves(u, r, t)
    BY <1>1, DequeueLeaves DEF SameQueues, SameThreads
<1> HIDE DEF r
<1>3. Leaves(s, r, t)
    BY <1>1, <1>2
    DEF Leaves, SameElse, OnlyPlace, SameQueues, SameThreads, SameSfq, SameRunq
<1> QED
    BY <1>2, <1>3 DEF DequeueThread, u, r

(* put_prev_thread of a running thread. *)
LEMMA PutPrevThreadStops ==
    ASSUME NEW s, NEW t \in s.joined, NEW swt,
           Consistent(s), s.td_state[t] = "running"
    PROVE  LET r == PutPrevThread(s, t, swt)
           IN  Consistent(r) /\ Stops(s, r, t)
<1> DEFINE u == UpdateRqClock(s)
           r == ClassPutPrev(u, t, swt)
<1>1. Consistent(u) /\ SameQueues(s, u)
    BY ClockConsistent
<1>2. PutPrevThread(s, t, swt) = r
    BY DEF PutPrevThread
<1> HIDE DEF u
<1>3. Consistent(r) /\ Stops(u, r, t)
    BY <1>1, PutPrevStops DEF SameQueues, SameThreads
<1> HIDE DEF r
<1>4. Stops(s, r, t)
    BY <1>1, <1>3
    DEF Stops, SameElse, OnlyPlace, SameQueues, SameThreads, SameSfq, SameRunq,
        IsPss
<1> QED
    BY <1>2, <1>3, <1>4

(* put_prev_thread of a thread that was dequeued before. *)
LEMMA PutPrevThreadGone ==
    ASSUME NEW s, NEW t \in Thread, NEW swt, Consistent(s), t \notin s.joined
    PROVE  LET r == PutPrevThread(s, t, swt)
           IN  /\ Consistent(r)
               /\ SameThreads(s, r)
               /\ SameRunq(s, r)
               /\ r.curr = IF IsPss(s, t) THEN NULL ELSE s.curr
    BY PutPrevGone DEF PutPrevThread

-----------------------------------------------------------------------------
(* Fairness *)

(* In a settled state whose tree is in order virtual time can be updated,  *)
(* and no runnable timeshare thread is left out.                           *)
LEMMA SettledFair ==
    ASSUME NEW s, Settled(s), Orderly(s)
    PROVE  /\ Fair(s) /\ s \in State
           /\ PssJoined(s) \subseteq Counted(s)
           /\ PssJoined(s) \subseteq Thread
<1>1. s \in State /\ TreeOK(s) /\ s.joined \subseteq Thread
    BY StateFields DEF Settled, Consistent
<1>2. s.curr \notin Waiting(s)
    BY <1>1, ThreadAssumption
    DEF Settled, CurrInv, JoinedInv, Waiting, IsPss
<1>3. ASSUME NEW u \in PssJoined(s)
      PROVE  u \in Counted(s)
    <2>1. u \in s.joined /\ IsPss(s, u) /\ u \in Thread
        BY <1>1 DEF PssJoined
    <2>2. CASE s.td_state[u] = "runq"
        BY <1>1, <2>1, <2>2 DEF Waiting, TreeOK, Counted
    <2>3. CASE s.td_state[u] = "running"
        BY <2>1, <2>3 DEF Settled, JoinedInv, CurrInv, Counted
    <2> QED
        BY <2>1, <2>2, <2>3 DEF Settled, JoinedInv
<1> QED
    BY <1>1, <1>2, <1>3, ConsistentFair DEF Settled, PssJoined

(* Reading the clocks moves nobody. *)
LEMMA ClockFlows ==
    ASSUME NEW s \in State
    PROVE  LET r == UpdateRqClock(s)
           IN  /\ r.vtime = s.vtime /\ r.vruntime = s.vruntime
               /\ r.timeline = s.timeline
               /\ r.unseen = 0
               /\ Charged(s) /\ s.unseen = 0 => Charged(r)
    BY DEF UpdateRqClock, State, Charged

(* Reading the clocks keeps the tree in order and everybody counted.      *)
LEMMA ClockFair ==
    ASSUME NEW s, Fair(s)
    PROVE  LET r == UpdateRqClock(s)
           IN  Fair(r) /\ Counted(r) = Counted(s)
    BY ClockFlows, UpdateRqClockKeeps
    DEF Fair, Orderly, TreeShape, Counted, SameQueues, SameSfq, SameThreads

(* class->enqueue *)
LEMMA EnqueueFlows ==
    ASSUME Modulus = 0, NEW s, NEW t \in Thread, NEW wakeup,
           Consistent(s), Fair(s), t \notin s.joined,
           NEW X \in SUBSET Counted(s)
    PROVE  LET r == ClassEnqueue(s, t, wakeup)
           IN  /\ Orderly(r)
               /\ Flows(s, r, X)
               /\ Charged(s) /\ ~wakeup /\ IsPss(s, t) =>
                     /\ r.vtime = s.vtime
                     /\ r.vruntime[t] = s.vruntime[t] + s.vtime
<1>1. CASE IsPss(s, t)
    BY <1>1, PssEnqueueFlows DEF ClassEnqueue
<1>2. CASE ~IsPss(s, t)
    <2> DEFINE r == RtEnqueue(s, t)
    <2>1. ClassEnqueue(s, t, wakeup) = r
        BY <1>2 DEF ClassEnqueue
    <2>2. s \in State /\ X \in SUBSET Thread
        BY StateFields DEF Fair, Counted, ToSet
    <2>3. SameTimes(s, r) /\ r.timeline = s.timeline
        BY <2>2, RtTimes
    <2> HIDE DEF r
    <2> QED
        BY <1>2, <2>1, <2>2, <2>3, SameTimesFlow, SameTimesOrderly DEF Fair
<1> QED
    BY <1>1, <1>2

(* enqueue_thread *)
LEMMA EnqueueThreadFlows ==
    ASSUME Modulus = 0, NEW s, NEW t \in Thread, NEW wakeup,
           Consistent(s), Fair(s), t \notin s.joined,
           NEW X \in SUBSET Counted(s)
    PROVE  LET r == EnqueueThread(s, t, wakeup)
           IN  /\ Orderly(r)
               /\ Flows(s, r, X)
               /\ Charged(s) /\ s.unseen = 0 /\ ~wakeup /\ IsPss(s, t) =>
                     /\ r.vtime = s.vtime
                     /\ r.vruntime[t] = s.vruntime[t] + s.vtime
<1> DEFINE c == UpdateRqClock(s)
           r == ClassEnqueue(c, t, wakeup)
<1>1. s \in State
    BY DEF Fair
<1>2. /\ Consistent(c) /\ Fair(c) /\ X \in SUBSET Counted(c)
      /\ t \notin c.joined /\ (IsPss(s, t) => IsPss(c, t))
    BY ClockConsistent, ClockFair DEF SameQueues, SameThreads, IsPss
<1>3. /\ c.vtime = s.vtime /\ c.vruntime = s.vruntime
      /\ Charged(s) /\ s.unseen = 0 => Charged(c)
    BY <1>1, ClockFlows
<1> HIDE DEF c
<1>4. /\ Orderly(r) /\ Flows(c, r, X)
      /\ Charged(c) /\ ~wakeup /\ IsPss(c, t) =>
            r.vtime = c.vtime /\ r.vruntime[t] = c.vruntime[t] + c.vtime
    BY <1>2, EnqueueFlows
<1>5. Flows(s, r, X)
    BY <1>3, <1>4 DEF Flows, FlowsTo
<1> QED
    BY <1>2, <1>3, <1>4, <1>5 DEF EnqueueThread, c

(* class->dequeue *)
LEMMA DequeueFlows ==
    ASSUME Modulus = 0, NEW s, NEW t \in s.joined, NEW sleep,
           Consistent(s), Fair(s), NEW X \in SUBSET (Counted(s) \ {t})
    PROVE  LET r == ClassDequeue(s, t, sleep)
           IN  /\ Orderly(r)
               /\ Flows(s, r, X)
               /\ IsPss(s, t) => Charged(r)
               /\ r.unseen = s.unseen
               /\ ~sleep /\ IsPss(s, t) /\ t \in Counted(s) =>
                     FlowsTo(s, r, t, r.vruntime[t] + r.vtime)
<1>1. CASE IsPss(s, t)
    BY <1>1, PssDequeueFlows DEF ClassDequeue
<1>2. CASE ~IsPss(s, t)
    <2> DEFINE r == RtDequeue(s, t)
    <2>1. ClassDequeue(s, t, sleep) = r
        BY <1>2 DEF ClassDequeue
    <2>2. s \in State /\ X \in SUBSET Thread /\ t \in Thread
        BY StateFields DEF Fair, Counted, ToSet
    <2>3. SameTimes(s, r) /\ r.timeline = s.timeline
        BY <2>2, RtTimes
    <2> HIDE DEF r
    <2>4. r.unseen = s.unseen
        BY <2>3 DEF SameTimes
    <2> QED
        BY <1>2, <2>1, <2>2, <2>3, <2>4, SameTimesFlow, SameTimesOrderly
        DEF Fair
<1> QED
    BY <1>1, <1>2

(* dequeue_thread *)
LEMMA DequeueThreadFlows ==
    ASSUME Modulus = 0, NEW s, NEW t \in s.joined, NEW sleep,
           Consistent(s), Fair(s), NEW X \in SUBSET (Counted(s) \ {t})
    PROVE  LET r == DequeueThread(s, t, sleep)
           IN  /\ Orderly(r)
               /\ Flows(s, r, X)
               /\ IsPss(s, t) => Charged(r)
               /\ r.unseen = 0
               /\ ~sleep /\ IsPss(s, t) /\ t \in Counted(s) =>
                     FlowsTo(s, r, t, r.vruntime[t] + r.vtime)
<1> DEFINE c == UpdateRqClock(s)
           r == ClassDequeue(c, t, sleep)
<1>1. s \in State
    BY DEF Fair
<1>2. /\ Consistent(c) /\ Fair(c) /\ X \in SUBSET (Counted(c) \ {t})
      /\ t \in c.joined /\ (IsPss(s, t) => IsPss(c, t))
      /\ Counted(c) = Counted(s)
    BY ClockConsistent, ClockFair DEF SameQueues, SameThreads, IsPss
<1>3. /\ c.vtime = s.vtime /\ c.vruntime = s.vruntime /\ c.unseen = 0
    BY <1>1, ClockFlows
<1> HIDE DEF c
<1>4. /\ Orderly(r) /\ Flows(c, r, X)
      /\ IsPss(c, t) => Charged(r)
      /\ r.unseen = c.unseen
      /\ ~sleep /\ IsPss(c, t) /\ t \in Counted(c) =>
            FlowsTo(c, r, t, r.vruntime[t] + r.vtime)
    BY <1>2, DequeueFlows
<1> HIDE DEF r
<1>5. Flows(s, r, X)
    BY <1>3, <1>4 DEF Flows, FlowsTo
<1>6. DequeueThread(s, t, sleep) = r
    BY DEF DequeueThread, r, c
<1> QED
    BY <1>2, <1>3, <1>4, <1>5, <1>6 DEF FlowsTo

(* put_prev_thread of a running thread *)
LEMMA PutPrevThreadFlows ==
    ASSUME Modulus = 0, NEW s, NEW t \in s.joined, NEW swt,
           Consistent(s), Fair(s), s.td_state[t] = "running",
           NEW X \in SUBSET Counted(s)
    PROVE  LET r == PutPrevThread(s, t, swt)
           IN  Orderly(r) /\ Flows(s, r, X)
<1> DEFINE c == UpdateRqClock(s)
           r == ClassPutPrev(c, t, swt)
<1>1. /\ s \in State /\ t \in Thread /\ X \in SUBSET Thread
      /\ t # Idle
    BY StateFields, ThreadAssumption DEF Fair, Counted, ToSet
<1>2. /\ Consistent(c) /\ Fair(c) /\ X \in SUBSET Counted(c) /\ c \in State
      /\ t \in c.joined /\ c.td_state[t] = "running"
    BY ClockConsistent, ClockFair
    DEF SameQueues, SameThreads, Consistent
<1>3. c.vtime = s.vtime /\ c.vruntime = s.vruntime
    BY <1>1, ClockFlows
<1> HIDE DEF c
<1>4. Orderly(r) /\ Flows(c, r, X)
    <2>1. CASE IsPss(c, t)
        BY <1>1, <1>2, <2>1, PssPutPrevFlows DEF ClassPutPrev
    <2>2. CASE ~IsPss(c, t)
        <3>1. r = RtPutPrev(c, t, swt)
            BY <1>1, <2>2 DEF ClassPutPrev
        <3> HIDE DEF r
        <3>2. SameTimes(c, r) /\ r.timeline = c.timeline
            BY <1>1, <1>2, <3>1, RtTimes
        <3> QED
            BY <1>1, <1>2, <3>2, SameTimesFlow, SameTimesOrderly DEF Fair
    <2> QED
        BY <2>1, <2>2
<1> HIDE DEF r
<1>5. Flows(s, r, X)
    BY <1>3, <1>4 DEF Flows, FlowsTo
<1>6. PutPrevThread(s, t, swt) = r
    BY DEF PutPrevThread, r, c
<1> QED
    BY <1>4, <1>5, <1>6

(* put_prev_thread of one that has left *)
LEMMA PutPrevGoneTimes ==
    ASSUME NEW s \in State, NEW t \in Thread \ s.joined, NEW swt,
           NEW r \in {ClassPutPrev(s, t, swt), PutPrevThread(s, t, swt)}
    PROVE  /\ r.vtime = s.vtime /\ r.vruntime = s.vruntime
           /\ r.timeline = s.timeline /\ r.unseen = s.unseen
           /\ Charged(s) => Charged(r)
<1>1. r = IF IsPss(s, t) THEN PssPutPrev(s, t, swt) ELSE RtPutPrev(s, t, swt)
    BY ThreadAssumption DEF PutPrevThread, ClassPutPrev
<1>2. CASE IsPss(s, t)
    BY <1>1, <1>2, PssPutPrevGone DEF Charged
<1>3. CASE ~IsPss(s, t)
    <2>1. r = [s EXCEPT !.rt_exec = 0]
        BY <1>1, <1>3 DEF RtPutPrev
    <2> QED
        BY <2>1 DEF State, Charged
<1> QED
    BY <1>2, <1>3

(* class->activate *)
LEMMA ActivateOrderly ==
    ASSUME NEW s, NEW t \in Waiting(s),
           Consistent(s), Orderly(s), IsPss(s, t) => s.curr = NULL
    PROVE  LET r == ClassActivate(s, t)
           IN  /\ Orderly(r) /\ r.vtime = s.vtime /\ r.vruntime = s.vruntime
               /\ IsPss(s, t) /\ t # s.leftmost => r.leftmost = s.leftmost
<1>1. s \in State /\ t \in Thread /\ t # Idle
    BY StateFields, ThreadAssumption DEF Consistent, Waiting
<1>2. CASE IsPss(s, t)
    BY <1>1, <1>2, PssActivateOrderly DEF ClassActivate
<1>3. CASE ~IsPss(s, t)
    <2> DEFINE r == RtActivate(s, t)
    <2>1. ClassActivate(s, t) = r
        BY <1>1, <1>3 DEF ClassActivate
    <2>2. SameTimes(s, r) /\ r.timeline = s.timeline
        BY <1>1, RtTimes
    <2> HIDE DEF r
    <2> QED
        BY <1>3, <2>1, <2>2 DEF SameTimes, Orderly
<1> QED
    BY <1>2, <1>3

-----------------------------------------------------------------------------
(* Calls that switch threads *)

(* Between put_prev_thread and sched_choose nothing runs. *)
Parked(s) ==
    /\ Consistent(s)
    /\ s.curr = NULL
    /\ \A t \in Thread : s.td_state[t] # "running"
    /\ s.joined = {t \in Thread : s.td_state[t] = "runq"}

(* What is counted, and how. *)
SameCounts(s, r) ==
    /\ r.weight = s.weight
    /\ r.load = s.load
    /\ r.nr_running = s.nr_running
    /\ r.nr_sysrunning = s.nr_sysrunning

(* The consistency of the queues does not depend on which thread runs. *)
LEMMA SetCurthreadEffect ==
    ASSUME NEW s, NEW c \in Running, Consistent(s)
    PROVE  LET r == [s EXCEPT !.curthread = c]
           IN  /\ Consistent(r)
               /\ r.curthread = c
               /\ r.td_state = s.td_state
               /\ r.joined = s.joined
               /\ r.pri_class = s.pri_class
               /\ r.curr = s.curr
               /\ SameRunq(s, r)
<1> DEFINE r == [s EXCEPT !.curthread = c]
<1>1. s \in State
    BY DEF Consistent
<1>2. r \in State
    BY <1>1, ZenonT(60) DEF State
<1>3. /\ r.curthread = c
      /\ r.td_state = s.td_state
      /\ r.joined = s.joined
      /\ r.pri_class = s.pri_class
      /\ r.td_priority = s.td_priority
      /\ SameCounts(s, r)
      /\ r.panics = s.panics
      /\ SameRunq(s, r)
      /\ SameSfq(s, r)
    BY <1>1 DEF SameCounts, SameSfq, SameRunq, SameCandidates, State
<1> HIDE DEF r
<1>5. RunqShape(r)
    BY <1>3, SameRunqShape DEF Consistent, RunqOK
<1>4. Consistent(r)
    BY <1>2, <1>3, <1>5
    DEF SameCounts, SameRunq, Consistent, TreeOK, RunqOK, CandidateInv,
        CountOK, Waiting, PssJoined, IsPss, IsRt, SameSfq, SameCandidates
<1> QED
    BY <1>3, <1>4 DEF r

(* When nothing runs, starting a waiting thread settles the queues. *)
LEMMA ActivateSettles ==
    ASSUME NEW s, Parked(s), NEW t \in Waiting(s)
    PROVE  Settled([ClassActivate(s, t) EXCEPT !.curthread = t])
<1> DEFINE a == ClassActivate(s, t)
           r == [a EXCEPT !.curthread = t]
<1>1. t \in Thread /\ t \in Running /\ t \in s.joined
    BY StateFields DEF Parked, Consistent, Waiting, Running
<1>2. Consistent(a) /\ Starts(s, a, t)
    BY ActivateStarts DEF Parked
<1> HIDE DEF a
<1>3. /\ Consistent(r)
      /\ r.curthread = t
      /\ r.td_state = a.td_state
      /\ r.joined = a.joined
      /\ r.pri_class = a.pri_class
      /\ r.curr = a.curr
    BY <1>1, <1>2, SetCurthreadEffect
<1> HIDE DEF r
<1>4. /\ r.td_state = [s.td_state EXCEPT ![t] = "running"]
      /\ r.joined = s.joined
      /\ r.pri_class = s.pri_class
      /\ r.curr = IF IsPss(s, t) THEN t ELSE NULL
    BY <1>2, <1>3 DEF Starts, SameElse, Parked
<1>5. s.td_state \in [Thread -> TdState]
    BY StateFields DEF Parked, Consistent
<1>6. JoinedInv(r)
    BY <1>1, <1>3, <1>4, <1>5 DEF JoinedInv, Parked
<1>7. CurrInv(r)
    BY <1>3, <1>4 DEF CurrInv, IsPss
<1> QED
    BY <1>3, <1>6, <1>7 DEF Settled, a, r

(* When nothing runs, starting the idle thread settles the queues. *)
LEMMA IdleSettles ==
    ASSUME NEW s, Parked(s)
    PROVE  Settled([s EXCEPT !.curthread = Idle])
<1> DEFINE r == [s EXCEPT !.curthread = Idle]
<1>1. /\ Consistent(r)
      /\ r.curthread = Idle
      /\ r.td_state = s.td_state
      /\ r.joined = s.joined
      /\ r.curr = s.curr
    BY SetCurthreadEffect DEF Parked, Running
<1> HIDE DEF r
<1>2. Idle \notin Thread
    BY ThreadAssumption
<1>3. JoinedInv(r)
    BY <1>1, <1>2 DEF JoinedInv, Parked
<1>4. CurrInv(r)
    BY <1>1, <1>2 DEF CurrInv, IsPss, Parked
<1> QED
    BY <1>1, <1>3, <1>4 DEF Settled, r

(* pick_next_entity returns an entity of the tree. *)
LEMMA PickNextEntityInTree ==
    ASSUME NEW s, Parked(s), s.leftmost # NULL
    PROVE  /\ PickNextEntity(s) \in Waiting(s)
           /\ PickNextEntity(s) \in Thread
<1> DEFINE q == s.timeline
           first == s.leftmost
           second == NextEntity(s, first)
<1>1. /\ s \in State /\ q \in Seq(Thread) /\ TreeOK(s)
      /\ s.joined \subseteq Thread
    BY StateFields DEF Parked, Consistent
<1>2. q # <<>> /\ first = Head(q)
    BY <1>1 DEF TreeOK
<1>3. first \in ToSet(q)
    BY <1>1, <1>2, ToSetMember
<1>4. second \in ToSet(q) \cup {NULL}
    <2> DEFINE i == IndexOf(q, first)
               n == Len(q)
    <2>1. n \in Nat /\ i \in 1 .. n
        BY <1>1, <1>3, WithoutProperties DEF TreeOK
    <2>2. second = IF i < n THEN q[i + 1] ELSE NULL
        BY DEF NextEntity
    <2> HIDE DEF i, second
    <2>3. CASE i < n
        <3>1. i + 1 \in 1 .. n
            BY <2>1, <2>3
        <3>2. q[i + 1] \in ToSet(q)
            BY <1>1, <3>1, ToSetMember
        <3> QED
            BY <2>2, <2>3, <3>2
    <2>4. CASE ~ (i < n)
        BY <2>2, <2>4
    <2> QED
        BY <2>3, <2>4
<1>5. PssJoined(s) \subseteq Waiting(s)
    BY DEF Parked, PssJoined, Waiting
<1>6. ToSet(q) \subseteq Waiting(s)
    BY <1>1 DEF TreeOK
<1>7. {s.next, s.last} \subseteq Waiting(s) \cup {NULL}
    BY <1>5 DEF Parked, Consistent, CandidateInv
<1>8. PickNextEntity(s) \in ({s.next, s.last, second} \ {NULL}) \cup {first}
    BY DEF PickNextEntity
<1>9. Waiting(s) \subseteq Thread
    BY <1>1 DEF Waiting
<1> HIDE DEF first, second
<1> QED
    BY <1>3, <1>4, <1>6, <1>7, <1>8, <1>9

(* A fair queue that is counted as not empty has a first entity. *)
LEMMA SchedChooseFinds ==
    ASSUME NEW s, Parked(s), s.sfq_running # 0
    PROVE  s.leftmost # NULL
<1>0. s \in State /\ TreeOK(s) /\ s.timeline \in Seq(Thread)
    BY StateFields DEF Parked, Consistent
<1>1. PssJoined(s) # {}
    <2>1. s.sfq_running = Cardinality(PssJoined(s))
        BY DEF Parked, Consistent, CountOK
    <2> QED
        BY <2>1, FS_EmptySet
<1>2. PssJoined(s) \subseteq ToSet(s.timeline)
    BY <1>0 DEF TreeOK, Waiting, PssJoined, Parked
<1>3. s.timeline # <<>>
    BY <1>0, <1>1, <1>2 DEF ToSet
<1>4. Head(s.timeline) \in Thread
    BY <1>0, <1>3
<1> QED
    BY <1>0, <1>3, <1>4, ThreadAssumption DEF TreeOK

(* The thread that was picked is no candidate any more, and still waits. *)
LEMMA ClearCandidatesParked ==
    ASSUME NEW s, Parked(s), NEW t \in Waiting(s)
    PROVE  LET c == ClearCandidates(s, t)
           IN  OnlyCandidates(s, c) /\ Parked(c) /\ t \in Waiting(c)
<1> DEFINE c == ClearCandidates(s, t)
<1>0. Consistent(s) /\ s \in State /\ t \in Thread
    BY StateFields DEF Parked, Consistent, Waiting
<1>1. /\ c \in State /\ OnlyCandidates(s, c)
      /\ {c.skip, c.next, c.last} \subseteq
            ({s.skip, s.next, s.last} \ {t}) \cup {NULL}
    BY <1>0, ClearCandidatesEffect
<1> HIDE DEF c
<1>2. Consistent(c)
    <2>1. {c.skip, c.next, c.last} \subseteq PssJoined(s) \cup {NULL}
        BY <1>0, <1>1 DEF Consistent, CandidateInv
    <2> QED
        BY <1>0, <1>1, <2>1, OnlyCandidatesConsistent
<1>3. Parked(c) /\ t \in Waiting(c)
    BY <1>1, <1>2 DEF Parked, OnlyCandidates, SameThreads, Waiting
<1> QED
    BY <1>1, <1>3 DEF c

(* sched_choose always finds a thread whose activation settles the queues, *)
(* and it never asks an empty tree for its first entity.                   *)
LEMMA SchedChooseSettles ==
    ASSUME NEW s, Parked(s)
    PROVE  Settled(SchedChoose(s))
<1>0. Consistent(s) /\ s \in State /\ TreeOK(s) /\ RunqOK(s)
    BY DEF Parked, Consistent
<1>1. CASE s.realtime # <<>>
    <2> DEFINE h == Head(s.realtime)
    <2>1. s.realtime \in Seq(Thread)
        BY <1>0, StateFields
    <2>2. h \in Waiting(s)
        BY <1>0, <1>1, <2>1, ToSetMember DEF RunqOK
    <2> QED
        BY <1>1, <2>2, ActivateSettles DEF SchedChoose
<1>2. CASE s.realtime = <<>> /\ s.sfq_running = 0
    BY <1>2, IdleSettles DEF SchedChoose
<1>3. CASE s.realtime = <<>> /\ s.sfq_running # 0
    <2> DEFINE t == PickNextEntity(s)
               c == ClearCandidates(s, t)
    <2>1. s.leftmost # NULL
        BY <1>3, SchedChooseFinds
    <2>2. t \in Waiting(s)
        BY <2>1, PickNextEntityInTree
    <2>3. SchedChoose(s) = [ClassActivate(c, t) EXCEPT !.curthread = t]
        BY <1>3, <2>1 DEF SchedChoose
    <2> HIDE DEF t
    <2>4. Parked(c) /\ t \in Waiting(c)
        BY <2>2, ClearCandidatesParked
    <2> QED
        BY <2>3, <2>4, ActivateSettles
<1> QED
    BY <1>1, <1>2, <1>3

(* The thread that r runs was the best to choose from what waited in p:    *)
(* none but the first of the real-time queue if there was one, and the     *)
(* idle thread only if nothing waited.                                     *)
Best(p, r) ==
    /\ r.curthread = Idle => r.joined = {}
    /\ \A t \in ToSet(r.realtime) :
          /\ OnRunq(p, r.curthread)
          /\ p.td_rqindex[r.curthread] <= r.td_rqindex[t]

(* The first thread of the real-time queue is the best choice, and any     *)
(* waiting thread is if that queue is empty.                               *)
LEMMA FirstIsBest ==
    ASSUME NEW p, Parked(p), NEW h \in Waiting(p),
           p.realtime = <<>> \/ h = Head(p.realtime)
    PROVE  Best(p, [ClassActivate(p, h) EXCEPT !.curthread = h])
<1> DEFINE a == ClassActivate(p, h)
           r == [a EXCEPT !.curthread = h]
<1>1. /\ h \in Thread /\ h \in Running /\ h # Idle
      /\ p.td_state \in [Thread -> TdState] /\ p.realtime \in Seq(Thread)
    BY StateFields, ThreadAssumption DEF Parked, Consistent, Waiting, Running
<1>2. Consistent(a) /\ Starts(p, a, h)
    BY ActivateStarts DEF Parked
<1> HIDE DEF a
<1>3. r.curthread = h /\ SameRunq(a, r)
    BY <1>1, <1>2, SetCurthreadEffect
<1> HIDE DEF r
<1>4. SUFFICES ASSUME NEW t \in ToSet(r.realtime)
               PROVE  OnRunq(p, h) /\ p.td_rqindex[h] <= r.td_rqindex[t]
    BY <1>1, <1>3, Zenon DEF Best, r, a
<1>5. t \in Waiting(a) /\ t \in Thread /\ t \in ToSet(a.realtime)
    BY <1>2, <1>3, StateFields DEF Consistent, RunqOK, Waiting, SameRunq
<1>6. t # h
    BY <1>1, <1>2, <1>5 DEF Starts, Waiting
<1>7. t \in ToSet(p.realtime) /\ r.td_rqindex[t] = p.td_rqindex[t]
    BY <1>2, <1>3, <1>5, <1>6 DEF Starts, OnlyPlace, SameRunq
<1>8. PICK i \in DOMAIN p.realtime : p.realtime[i] = t
    BY <1>7 DEF ToSet
<1>9. p.realtime # <<>> /\ 1 \in DOMAIN p.realtime /\ 1 <= i
    BY <1>1, <1>8
<1>10. h = p.realtime[1]
    BY <1>1, <1>9
<1>11. h \in ToSet(p.realtime)
    BY <1>9, <1>10 DEF ToSet
<1>12. i # 1
    BY <1>6, <1>8, <1>10
<1>13. 1 < i
    BY <1>1, <1>8, <1>9, <1>12
<1>14. p.td_rqindex[h] <= p.td_rqindex[t]
    BY <1>8, <1>9, <1>10, <1>13
    DEF Parked, Consistent, RunqOK, RunqShape, Ordered
<1> QED
    BY <1>7, <1>11, <1>14 DEF OnRunq

(* sched_choose makes the best choice. *)
LEMMA SchedChooseBest ==
    ASSUME NEW s, Parked(s)
    PROVE  Best(s, SchedChoose(s))
<1>0. Consistent(s) /\ s \in State /\ TreeOK(s) /\ RunqOK(s)
    BY DEF Parked, Consistent
<1>1. CASE s.realtime # <<>>
    <2> DEFINE h == Head(s.realtime)
    <2>1. s.realtime \in Seq(Thread)
        BY <1>0, StateFields
    <2>2. h \in Waiting(s)
        BY <1>0, <1>1, <2>1, ToSetMember DEF RunqOK
    <2> QED
        BY <1>1, <2>2, FirstIsBest DEF SchedChoose
<1>2. CASE s.realtime = <<>> /\ s.sfq_running = 0
    <2> DEFINE r == [s EXCEPT !.curthread = Idle]
    <2>1. SchedChoose(s) = r
        BY <1>2 DEF SchedChoose
    <2>2. r.joined = s.joined /\ SameRunq(s, r)
        BY <1>0, SetCurthreadEffect DEF Running
    <2> HIDE DEF r
    <2>3. PssJoined(s) = {}
        BY <1>0, <1>2, JoinedFinite, FS_EmptySet DEF Consistent, CountOK
    <2>4. \A t \in s.joined : t \in Waiting(s) /\ ~ IsPss(s, t)
        BY <2>3 DEF Parked, Waiting, PssJoined
    <2>5. \A t \in s.joined : IsRt(s, t)
        BY <1>0, <2>4, StateFields DEF IsPss, IsRt
    <2>6. s.joined \subseteq ToSet(s.realtime)
        BY <1>0, <2>4, <2>5 DEF RunqOK
    <2>7. ToSet(s.realtime) = {}
        BY <1>2 DEF ToSet
    <2> QED
        BY <2>1, <2>2, <2>6, <2>7 DEF Best, SameRunq
<1>3. CASE s.realtime = <<>> /\ s.sfq_running # 0
    <2> DEFINE t == PickNextEntity(s)
               c == ClearCandidates(s, t)
               r == SchedChoose(s)
    <2>1. s.leftmost # NULL
        BY <1>0, <1>3, SchedChooseFinds
    <2>2. t \in Waiting(s) /\ t \in Thread
        BY <2>1, PickNextEntityInTree
    <2>3. r = [ClassActivate(c, t) EXCEPT !.curthread = t]
        BY <1>3, <2>1 DEF SchedChoose
    <2> HIDE DEF t
    <2>4. OnlyCandidates(s, c) /\ Parked(c) /\ t \in Waiting(c)
        BY <2>2, ClearCandidatesParked
    <2> HIDE DEF c, r
    <2>5. Best(c, r)
        BY <1>3, <2>3, <2>4, FirstIsBest DEF OnlyCandidates, SameRunq
    <2>6. Best(s, r)
        BY <2>4, <2>5 DEF Best, OnRunq, OnlyCandidates, SameRunq
    <2> QED
        BY <2>6 DEF r
<1> QED
    BY <1>1, <1>2, <1>3

(* What a call that switches threads does: the running thread goes, or     *)
(* takes its place in the queues, and sched_choose follows.                *)
Chooses(s, r) ==
    \E p : /\ Parked(p)
           /\ OnlyPlace(s, p, s.curthread)
           /\ p.td_priority = s.td_priority
           /\ r = SchedChoose(p)

(* The choice seen from the state in which the running thread still runs. *)
PicksBest(s, r) == r.curthread # s.curthread => Best(s, r)

(* Whatever became of the running thread, another one that runs was the    *)
(* best to choose before too.                                              *)
LEMMA ChoosesSettles ==
    ASSUME NEW s, NEW r, Chooses(s, r)
    PROVE  Settled(r) /\ PicksBest(s, r)
<1>1. PICK p : Parked(p) /\ OnlyPlace(s, p, s.curthread) /\ r = SchedChoose(p)
    BY DEF Chooses
<1>2. Settled(r) /\ Best(p, r)
    BY <1>1, SchedChooseSettles, SchedChooseBest
<1>3. ToSet(p.realtime) \subseteq Thread
    BY <1>1 DEF Parked, Consistent, RunqOK, Waiting, TreeOK, State
<1>4. ASSUME r.curthread # s.curthread
      PROVE  Best(s, r)
    <2>1. ASSUME NEW t \in ToSet(r.realtime)
          PROVE  /\ OnRunq(s, r.curthread)
                 /\ s.td_rqindex[r.curthread] <= r.td_rqindex[t]
        <3>1. /\ r.curthread \in ToSet(p.realtime)
              /\ p.td_rqindex[r.curthread] <= r.td_rqindex[t]
            BY <1>2, <2>1 DEF Best, OnRunq
        <3>2. r.curthread \in Thread \ {s.curthread}
            BY <1>3, <1>4, <3>1
        <3> QED
            BY <1>1, <3>1, <3>2 DEF OnlyPlace, OnRunq
    <2> QED
        BY <1>2, <2>1 DEF Best
<1> QED
    BY <1>2, <1>4 DEF PicksBest

(* Clearing the flags of a thread leaves the queues alone. *)
LEMMA ClearFlagsKeeps ==
    ASSUME NEW s \in State, NEW t
    PROVE  LET r == [s EXCEPT !.need_resched = @ \ {t}, !.owepreempt = @ \ {t}]
           IN  r \in State /\ SameQueues(s, r)
<1> DEFINE n == s.need_resched \ {t}
           o == s.owepreempt \ {t}
           r == [s EXCEPT !.need_resched = n, !.owepreempt = o]
<1>1. n \in SUBSET Running /\ o \in SUBSET Thread
    BY StateFields
<1> HIDE DEF n, o
<1>2. r \in State
    BY <1>1, ZenonT(60) DEF State
<1>3. SameQueues(s, r)
    BY DEF SameQueues, SameThreads, SameSfq, SameCandidates, SameRunq, State
<1> QED
    BY <1>2, <1>3 DEF n, o

(* sched_switch of a thread that stays runnable, or of the idle thread. *)
LEMMA SwitchRunnableChooses ==
    ASSUME NEW s, NEW swt, Settled(s)
    PROVE  Chooses(s, SwitchRunnable(s, swt))
<1> DEFINE td == s.curthread
           s1 == [s EXCEPT !.need_resched = @ \ {td}, !.owepreempt = @ \ {td}]
           p  == PutPrevThread(s1, td, swt)
<1>0. s \in State /\ td \in Running /\ s.td_state \in [Thread -> TdState]
    BY StateFields DEF Settled, Consistent
<1>1. SwitchRunnable(s, swt) = SchedChoose(p)
    BY DEF SwitchRunnable
<1>2. s1 \in State /\ SameQueues(s, s1)
    BY ZenonT(60), <1>0, ClearFlagsKeeps
<1> HIDE DEF s1
<1>3. Settled(s1) /\ s1.curthread = td
    BY <1>2, SameQueuesSettled DEF SameQueues, SameThreads
<1> HIDE DEF td
<1>4. s1.td_state \in [Thread -> TdState] /\ s1.joined \subseteq Thread
    BY <1>2, StateFields
<1>5. CASE td = Idle
    <2>1. td \notin Thread
        BY <1>5, ThreadAssumption
    <2>2. p = s1
        BY <1>4, <1>5, <2>1 DEF PutPrevThread, ClassPutPrev
    <2>3. s1.curr = NULL
        BY <1>3, <2>1 DEF Settled, CurrInv, IsPss
    <2>4. Parked(s1)
        BY <1>3, <2>1, <2>3 DEF Settled, JoinedInv, Parked
    <2>5. OnlyPlace(s, s1, td) /\ s1.td_priority = s.td_priority
        BY <1>2 DEF OnlyPlace, SameQueues, SameRunq, SameThreads
    <2> QED
        BY <1>1, <2>2, <2>4, <2>5 DEF Chooses, td
<1>6. CASE td # Idle
    <2>1. td \in Thread /\ s1.td_state[td] = "running" /\ td \in s1.joined
        BY <1>0, <1>3, <1>6 DEF Running, Settled, JoinedInv
    <2>2. Consistent(p) /\ Stops(s1, p, td)
        BY <1>3, <2>1, PutPrevThreadStops DEF Settled
    <2> HIDE DEF p
    <2>3. p.curr = NULL
        BY <1>3, <2>2 DEF Stops, Settled, CurrInv
    <2>4. p.td_state = [s1.td_state EXCEPT ![td] = "runq"]
          /\ p.joined = s1.joined
        BY <2>2 DEF Stops
    <2>5. /\ \A t \in Thread : p.td_state[t] # "running"
          /\ p.joined = {t \in Thread : p.td_state[t] = "runq"}
        BY <1>3, <1>4, <2>1, <2>4 DEF Settled, JoinedInv
    <2>6. Parked(p)
        BY <2>2, <2>3, <2>5 DEF Parked
    <2>7. OnlyPlace(s, p, td) /\ p.td_priority = s.td_priority
        BY <1>2, <2>2
        DEF OnlyPlace, Stops, SameElse, SameQueues, SameRunq, SameThreads
    <2> QED
        BY <1>1, <2>6, <2>7 DEF Chooses, td
<1> QED
    BY <1>5, <1>6

(* A thread that is not waiting may change its state to another in which   *)
(* it does not wait.                                                       *)
LEMMA TdStateConsistent ==
    ASSUME NEW s, NEW t \in Thread, NEW x \in TdState \ {"runq"},
           Consistent(s), s.td_state[t] # "runq" \/ t \notin s.joined
    PROVE  Consistent([s EXCEPT !.td_state[t] = x])
<1> DEFINE r == [s EXCEPT !.td_state[t] = x]
<1>0. s \in State /\ s.td_state \in [Thread -> TdState]
    BY StateFields DEF Consistent
<1>1. /\ r \in State
      /\ SameSfq(s, r)
      /\ SameElse(s, r)
      /\ r.td_state = [s.td_state EXCEPT ![t] = x]
      /\ r.joined = s.joined
      /\ r.load = s.load
      /\ r.nr_running = s.nr_running
      /\ r.nr_sysrunning = s.nr_sysrunning
      /\ r.panics = s.panics
      /\ SameRunq(s, r)
    BY <1>0, SetTdStateEffect
<1> HIDE DEF r
<1>2. Waiting(r) = Waiting(s)
    BY <1>0, <1>1 DEF Waiting
<1>4. RunqShape(r)
    BY <1>1, SameRunqShape DEF Consistent, RunqOK, SameElse
<1>3. Consistent(r)
    BY <1>1, <1>2, <1>4
    DEF SameRunq, Consistent, TreeOK, RunqOK, CandidateInv, CountOK, PssJoined,
        IsPss, IsRt, SameSfq, SameCandidates, SameElse
<1> QED
    BY <1>3 DEF r

(* sched_switch of a thread that goes to sleep: it is dequeued first and   *)
(* put away after that.                                                    *)
LEMMA SwitchSleepingChooses ==
    ASSUME NEW s, Settled(s), s.curthread # Idle
    PROVE  Chooses(s, SwitchSleeping(s))
<1> DEFINE td == s.curthread
           s0 == [s EXCEPT !.need_resched = @ \ {td}, !.owepreempt = @ \ {td}]
           s1 == [s0 EXCEPT !.td_state[td] = "sleeping"]
           d  == DequeueThread(s1, td, TRUE)
           p  == PutPrevThread(d, td, "sleepq")
<1>0. /\ s \in State /\ td \in Thread
      /\ s.td_state \in [Thread -> TdState] /\ s.joined \subseteq Thread
    BY StateFields DEF Settled, Consistent, Running
<1>1. SwitchSleeping(s) = SchedChoose(p)
    BY DEF SwitchSleeping
<1>2. s0 \in State /\ SameQueues(s, s0)
    BY ZenonT(60), <1>0, ClearFlagsKeeps
<1> HIDE DEF s0
<1>3. Settled(s0) /\ s0.curthread = td
    BY <1>2, SameQueuesSettled DEF SameQueues, SameThreads
<1> HIDE DEF td
<1>4. s0.td_state \in [Thread -> TdState]
    BY <1>2, StateFields
<1>5. /\ s0.td_state[td] = "running" /\ td \in s0.joined
    BY <1>0, <1>3 DEF Settled, JoinedInv
<1>6. "sleeping" \in TdState \ {"runq"}
    BY DEF TdState
<1>7. Consistent(s1)
    BY <1>0, <1>3, <1>5, <1>6, TdStateConsistent DEF Settled
<1>8. /\ SameSfq(s0, s1) /\ SameElse(s0, s1)
      /\ s1.td_state = [s0.td_state EXCEPT ![td] = "sleeping"]
      /\ s1.joined = s0.joined
      /\ SameRunq(s0, s1)
    BY <1>0, <1>2, <1>6, SetTdStateEffect
<1> HIDE DEF s1
<1>9. Consistent(d) /\ Leaves(s1, d, td)
    BY <1>5, <1>7, <1>8, DequeueThreadLeaves
<1> HIDE DEF d
<1>10. /\ Consistent(p)
       /\ SameThreads(d, p)
       /\ SameRunq(d, p)
       /\ p.curr = IF IsPss(d, td) THEN NULL ELSE d.curr
    BY <1>0, <1>9, PutPrevThreadGone DEF Leaves
<1> HIDE DEF p
<1>11. p.curr = NULL
    <2>1. d.curr = s0.curr /\ d.pri_class = s0.pri_class
        BY <1>8, <1>9 DEF Leaves, SameElse, SameSfq
    <2> QED
        BY <1>3, <1>10, <2>1 DEF Settled, CurrInv, IsPss
<1>12. /\ p.td_state = [s0.td_state EXCEPT ![td] = "sleeping"]
       /\ p.joined = s0.joined \ {td}
    BY <1>8, <1>9, <1>10 DEF Leaves, SameThreads
<1>13. /\ \A t \in Thread : p.td_state[t] # "running"
       /\ p.joined = {t \in Thread : p.td_state[t] = "runq"}
    BY <1>0, <1>3, <1>4, <1>12 DEF Settled, JoinedInv
<1>14. Parked(p)
    BY <1>10, <1>11, <1>13 DEF Parked
<1>15. OnlyPlace(s, p, td) /\ p.td_priority = s.td_priority
    BY <1>2, <1>8, <1>9, <1>10
    DEF OnlyPlace, Leaves, SameElse, SameQueues, SameRunq, SameThreads
<1> QED
    BY <1>1, <1>14, <1>15 DEF Chooses, td

(* sched_throw of a thread that exits: it is dequeued and put away while   *)
(* it is still marked running.                                             *)
LEMMA SwitchThrowChooses ==
    ASSUME NEW s, Settled(s), s.curthread # Idle
    PROVE  Chooses(s, SwitchThrow(s))
<1> DEFINE td == s.curthread
           d  == DequeueThread(s, td, FALSE)
           s1 == PutPrevThread(d, td, "none")
           s2 == [s1 EXCEPT !.need_resched = @ \ {td}, !.owepreempt = @ \ {td}]
           p  == [s2 EXCEPT !.td_state[td] = "none"]
<1>0. /\ s \in State /\ td \in Thread
      /\ s.td_state \in [Thread -> TdState] /\ s.joined \subseteq Thread
    BY StateFields DEF Settled, Consistent, Running
<1>1. SwitchThrow(s) = SchedChoose(p)
    BY DEF SwitchThrow
<1>2. s.td_state[td] = "running" /\ td \in s.joined
    BY <1>0 DEF Settled, JoinedInv
<1>3. s.curr = IF IsPss(s, td) THEN td ELSE NULL
    BY DEF Settled, CurrInv
<1>4. /\ s.joined = {t \in Thread : s.td_state[t] \in {"runq", "running"}}
      /\ \A t \in Thread : s.td_state[t] = "running" <=> t = td
    BY DEF Settled, JoinedInv
<1> HIDE DEF td
<1>5. Consistent(d) /\ Leaves(s, d, td)
    BY <1>2, DequeueThreadLeaves DEF Settled
<1> HIDE DEF d
<1>6. /\ Consistent(s1)
      /\ SameThreads(d, s1)
      /\ SameRunq(d, s1)
      /\ s1.curr = IF IsPss(d, td) THEN NULL ELSE d.curr
    BY <1>0, <1>5, PutPrevThreadGone DEF Leaves
<1> HIDE DEF s1
<1>7. s1.curr = NULL /\ s1.td_state = s.td_state /\ s1.joined = s.joined \ {td}
    BY <1>3, <1>5, <1>6 DEF Leaves, SameElse, SameThreads, IsPss
<1>8. s2 \in State /\ SameQueues(s1, s2)
    BY ZenonT(60), <1>6, ClearFlagsKeeps DEF Consistent
<1> HIDE DEF s2
<1>9. /\ Consistent(s2) /\ s2.curr = NULL /\ s2.td_state = s.td_state
      /\ s2.joined = s.joined \ {td}
    BY <1>6, <1>7, <1>8, SameQueuesConsistent
    DEF SameQueues, SameThreads, SameSfq
<1>10. "none" \in TdState \ {"runq"}
    BY DEF TdState
<1>11. Consistent(p)
    BY <1>0, <1>9, <1>10, TdStateConsistent
<1>12. /\ SameSfq(s2, p)
       /\ p.td_state = [s2.td_state EXCEPT ![td] = "none"]
       /\ p.joined = s2.joined
       /\ SameElse(s2, p)
       /\ SameRunq(s2, p)
    BY <1>0, <1>8, <1>10, SetTdStateEffect
<1> HIDE DEF p
<1>13. p.curr = NULL
    BY <1>9, <1>12 DEF SameSfq
<1>14. /\ \A t \in Thread : p.td_state[t] # "running"
       /\ p.joined = {t \in Thread : p.td_state[t] = "runq"}
    BY <1>0, <1>4, <1>9, <1>12
<1>15. Parked(p)
    BY <1>11, <1>13, <1>14 DEF Parked
<1>16. OnlyPlace(s, p, td) /\ p.td_priority = s.td_priority
    BY <1>5, <1>6, <1>8, <1>12
    DEF OnlyPlace, Leaves, SameElse, SameQueues, SameRunq, SameThreads
<1> QED
    BY <1>1, <1>15, <1>16 DEF Chooses, td

(* sched_choose takes one thread out of the tree and moves no time. *)
LEMMA SchedChooseOrderly ==
    ASSUME NEW s, Parked(s), Orderly(s)
    PROVE  LET r == SchedChoose(s)
           IN  /\ Orderly(r)
               /\ r.vtime = s.vtime /\ r.vruntime = s.vruntime
               /\ r.joined = s.joined
<1> DEFINE Kept(r) == /\ Orderly(r)
                      /\ r.vtime = s.vtime /\ r.vruntime = s.vruntime
                      /\ r.joined = s.joined
<1>0. Consistent(s) /\ s \in State /\ RunqOK(s)
    BY DEF Parked, Consistent
<1>1. ASSUME NEW z, NEW c, z \in State, Kept(z)
      PROVE  Kept([z EXCEPT !.curthread = c])
    <2> DEFINE y == [z EXCEPT !.curthread = c]
    <2>1. y.vtime = z.vtime /\ y.vruntime = z.vruntime
          /\ y.timeline = z.timeline /\ y.joined = z.joined
        BY <1>1 DEF State
    <2> HIDE DEF y
    <2>2. Kept(y)
        BY <1>1, <2>1 DEF Orderly
    <2> QED
        BY <2>2 DEF y
<1>2. ASSUME NEW z, NEW t \in Waiting(z), Parked(z), Kept(z)
      PROVE  Kept([ClassActivate(z, t) EXCEPT !.curthread = t])
    <2> DEFINE a == ClassActivate(z, t)
    <2>1. Kept(a)
        BY ZenonT(120), <1>2, ActivateOrderly, ActivateStarts
           DEF Parked, Starts
    <2>2. a \in State
        BY <1>2, ActivateStarts DEF Parked, Consistent
    <2> HIDE DEF a, Kept
    <2>3. Kept([a EXCEPT !.curthread = t])
        BY <1>1, <2>1, <2>2
    <2> QED
        BY <2>3 DEF a
<1>3. Kept(s)
    OBVIOUS
<1>4. CASE s.realtime # <<>>
    <2> DEFINE h == Head(s.realtime)
    <2>1. s.realtime \in Seq(Thread)
        BY <1>0, StateFields
    <2>2. h \in Waiting(s)
        BY <1>0, <1>4, <2>1, ToSetMember DEF RunqOK
    <2> HIDE DEF Kept
    <2>3. Kept([ClassActivate(s, h) EXCEPT !.curthread = h])
        BY <1>2, <1>3, <2>2
    <2>4. Kept(SchedChoose(s))
        BY <1>4, <2>3 DEF SchedChoose
    <2> QED
        BY <2>4 DEF Kept
<1>5. CASE s.realtime = <<>> /\ s.sfq_running = 0
    <2> HIDE DEF Kept
    <2>1. Kept([s EXCEPT !.curthread = Idle])
        BY <1>0, <1>1, <1>3
    <2>2. Kept(SchedChoose(s))
        BY <1>5, <2>1 DEF SchedChoose
    <2> QED
        BY <2>2 DEF Kept
<1>6. CASE s.realtime = <<>> /\ s.sfq_running # 0
    <2> DEFINE t == PickNextEntity(s)
               c == ClearCandidates(s, t)
    <2>1. s.leftmost # NULL
        BY <1>6, SchedChooseFinds
    <2>2. t \in Waiting(s)
        BY <2>1, PickNextEntityInTree
    <2>3. SchedChoose(s) = [ClassActivate(c, t) EXCEPT !.curthread = t]
        BY <1>6, <2>1 DEF SchedChoose
    <2> HIDE DEF t
    <2>4. Parked(c) /\ t \in Waiting(c) /\ OnlyCandidates(s, c)
        BY <2>2, ClearCandidatesParked
    <2>5. SameTimes(s, c)
        BY <1>0, CounterTimes
    <2> HIDE DEF c
    <2>6. Kept(c)
        BY <2>4, <2>5 DEF OnlyCandidates, SameThreads, SameTimes, Orderly
    <2> HIDE DEF Kept
    <2>7. Kept(SchedChoose(s))
        BY <1>2, <2>3, <2>4, <2>6
    <2> QED
        BY <2>7 DEF Kept
<1> QED
    BY <1>4, <1>5, <1>6

-----------------------------------------------------------------------------
(* The running thread is ahead of nobody in the tree by more than the      *)
(* wakeup granularity, scaled by the weight of the leftmost one.           *)
AheadOfNone(r) ==
    \A t \in ToSet(r.timeline) :
        Diff(r.vruntime[r.curthread], r.vruntime[t])
            <= ScaleDelta(r, WakeupGranularity, r.leftmost)

(* What PickIsFair says of a step from s to r. *)
PicksFair(s, r) ==
    r.curthread # s.curthread /\ IsPss(r, r.curthread)
        /\ ~OnRunq(s, r.curthread) => AheadOfNone(r)

(* pick_next_entity takes the leftmost entity or one that is within the    *)
(* granularity of it.                                                      *)
LEMMA PickNextEntityFair ==
    ASSUME NEW s, Parked(s), s.leftmost # NULL
    PROVE  \/ PickNextEntity(s) = s.leftmost
           \/ WithinGranularity(s, PickNextEntity(s), s.leftmost)
    BY DEF PickNextEntity

(* A thread that sched_choose takes out of the tree is ahead of nobody by  *)
(* more than the granularity: the leftmost entity that was passed over     *)
(* stays the leftmost one, and the others are behind it.                   *)
LEMMA TreeChoiceFair ==
    ASSUME Modulus = 0, NEW s, Parked(s), Orderly(s),
           s.realtime = <<>>, s.sfq_running # 0
    PROVE  LET r == SchedChoose(s)
           IN  IsPss(r, r.curthread) => AheadOfNone(r)
<1> DEFINE t == PickNextEntity(s)
           c == ClearCandidates(s, t)
           a == ClassActivate(c, t)
           r == [a EXCEPT !.curthread = t]
           first == s.leftmost
<1>0. Consistent(s) /\ s \in State /\ TreeOK(s) /\ s.curr = NULL
    BY DEF Parked, Consistent
<1>1. s.leftmost # NULL
    BY SchedChooseFinds
<1>2. /\ t \in Waiting(s) /\ t \in Thread
      /\ t = first \/ WithinGranularity(s, t, first)
    BY <1>1, PickNextEntityInTree, PickNextEntityFair
<1>3. SchedChoose(s) = r
    BY <1>1 DEF SchedChoose
<1> HIDE DEF t
<1>4. Parked(c) /\ t \in Waiting(c) /\ OnlyCandidates(s, c)
    BY <1>2, ClearCandidatesParked
<1>5. SameTimes(s, c)
    BY <1>0, CounterTimes
<1> HIDE DEF c
<1>6. Orderly(c) /\ Consistent(c) /\ c.curr = NULL
    BY <1>4, <1>5 DEF OnlyCandidates, SameTimes, Orderly, Parked
<1>7. /\ Consistent(a) /\ Starts(c, a, t)
      /\ a.vruntime = s.vruntime
      /\ IsPss(c, t) /\ t # c.leftmost => a.leftmost = c.leftmost
    BY <1>4, <1>5, <1>6, ActivateStarts, ActivateOrderly DEF SameTimes
<1> HIDE DEF a
<1>8. /\ r.curthread = t /\ r.vruntime = s.vruntime
      /\ r.timeline = a.timeline /\ r.leftmost = a.leftmost
      /\ r.weight = a.weight /\ r.pri_class = a.pri_class
    BY <1>7 DEF Consistent, State
<1>9. /\ a.weight = s.weight /\ a.pri_class = s.pri_class
      /\ c.leftmost = first /\ c.timeline = s.timeline
      /\ c.pri_class = s.pri_class
    BY <1>4, <1>7 DEF OnlyCandidates, SameThreads, Starts, SameElse
<1>10. ToSet(a.timeline) \subseteq ToSet(s.timeline)
    <2>1. /\ ToSet(a.timeline) = {u \in Waiting(a) : IsPss(a, u)}
          /\ ToSet(c.timeline) = {u \in Waiting(c) : IsPss(c, u)}
        BY <1>6, <1>7 DEF Consistent, TreeOK
    <2>2. /\ a.joined = c.joined /\ a.pri_class = c.pri_class
          /\ a.td_state = [c.td_state EXCEPT ![t] = "running"]
          /\ c.td_state \in [Thread -> TdState] /\ c.joined \subseteq Thread
        BY <1>6, <1>7, StateFields DEF Starts, SameElse, Consistent
    <2>3. Waiting(a) \subseteq Waiting(c)
        BY <1>2, <2>2 DEF Waiting
    <2> QED
        BY <1>9, <2>1, <2>2, <2>3 DEF IsPss
<1>11. ASSUME IsPss(s, t), NEW u \in ToSet(a.timeline)
       PROVE  Diff(s.vruntime[t], s.vruntime[u])
                <= ScaleDelta(r, WakeupGranularity, r.leftmost)
    <2>1. /\ first \in Thread /\ s.vruntime[first] <= s.vruntime[u]
          /\ u \in Thread
        <3>1. Fair(s)
            BY <1>0, ConsistentFair, StateFields, ThreadAssumption DEF Waiting
        <3>2. u \in ToSet(s.timeline)
            BY <1>10, <1>11
        <3>3. u \in Thread
            BY <1>0, <3>2, StateFields DEF TreeOK, Waiting
        <3> QED
            BY <3>1, <3>2, <3>3, LeftmostIsLeast
    <2>2. /\ s.vruntime[t] \in Int /\ s.vruntime[u] \in Int
          /\ s.vruntime[first] \in Int
        BY <1>0, <1>2, <2>1, StateFields
    <2>3. CASE t = first
        <3>1. a.leftmost \in Thread
            <4>1. a.timeline # <<>> /\ a.timeline \in Seq(Thread)
                BY <1>7, <1>11, StateFields DEF ToSet, Consistent
            <4> QED
                BY <1>7, <4>1 DEF Consistent, TreeOK
        <3>2. ScaleDelta(a, WakeupGranularity, a.leftmost) \in Nat
            BY <1>7, <3>1, TimeAssumption, ScaleDeltaPositive DEF Consistent
        <3>3. ScaleDelta(r, WakeupGranularity, r.leftmost)
                = ScaleDelta(a, WakeupGranularity, a.leftmost)
            BY <1>8 DEF ScaleDelta
        <3>4. s.vruntime[t] - s.vruntime[u] <= 0
            BY <2>1, <2>2, <2>3
        <3> HIDE DEF r
        <3> QED
            BY <2>2, <3>2, <3>3, <3>4, NoWrap
    <2>4. CASE t # first
        <3>1. s.vruntime[t] - s.vruntime[first]
                <= ScaleDelta(s, WakeupGranularity, first)
            BY <1>2, <2>4, NoWrap DEF WithinGranularity
        <3>2. a.leftmost = first
            BY <1>7, <1>9, <1>11, <2>4 DEF IsPss
        <3>3. ScaleDelta(r, WakeupGranularity, r.leftmost)
                = ScaleDelta(s, WakeupGranularity, first)
            BY <1>8, <1>9, <3>2 DEF ScaleDelta
        <3>4. ScaleDelta(s, WakeupGranularity, first) \in Int
            BY <1>0, <2>1, TimeAssumption, ScaleDeltaType
        <3> HIDE DEF r, first
        <3> QED
            BY <2>1, <2>2, <3>1, <3>3, <3>4, NoWrap
    <2> QED
        BY <2>3, <2>4
<1>12. IsPss(r, r.curthread) => AheadOfNone(r)
    <2> HIDE DEF r
    <2>1. IsPss(r, r.curthread) => IsPss(s, t)
        BY <1>8, <1>9 DEF IsPss
    <2> QED
        BY <1>8, <1>11, <2>1 DEF AheadOfNone
<1> QED
    BY <1>3, <1>12

(* Whatever sched_choose takes, it is fair to those that are left.  A      *)
(* thread it takes from the real-time queue was there before, unless the   *)
(* running thread is put there and chosen again.                           *)
LEMMA ChoosePicksFair ==
    ASSUME Modulus = 0, NEW s, NEW p, Parked(p), Orderly(p),
           OnlyPlace(s, p, s.curthread)
    PROVE  PicksFair(s, SchedChoose(p))
<1> DEFINE r == SchedChoose(p)
<1>0. p \in State /\ RunqOK(p) /\ p.realtime \in Seq(Thread)
    BY StateFields DEF Parked, Consistent
<1>1. SUFFICES ASSUME r.curthread # s.curthread, IsPss(r, r.curthread),
                      ~OnRunq(s, r.curthread)
               PROVE  AheadOfNone(r)
    BY DEF PicksFair
<1>2. r.curthread \in Thread
    BY <1>1 DEF IsPss
<1>3. r.curthread \notin ToSet(p.realtime)
    BY <1>1, <1>2 DEF OnlyPlace, OnRunq
<1>4. CASE p.realtime # <<>>
    <2> DEFINE h == Head(p.realtime)
               a == ClassActivate(p, h)
    <2>1. h \in ToSet(p.realtime)
        BY <1>0, <1>4, ToSetMember
    <2>2. h \in Waiting(p)
        BY <1>0, <2>1 DEF RunqOK
    <2>3. a \in State
        BY <2>2, ActivateStarts DEF Parked, Consistent
    <2>4. r = [a EXCEPT !.curthread = h]
        BY <1>4 DEF SchedChoose
    <2> HIDE DEF a, r
    <2>5. r.curthread = h
        BY <2>3, <2>4 DEF State
    <2> QED
        BY <1>3, <2>1, <2>5
<1>5. CASE p.realtime = <<>> /\ p.sfq_running = 0
    <2>1. r = [p EXCEPT !.curthread = Idle]
        BY <1>5 DEF SchedChoose
    <2> HIDE DEF r
    <2>2. r.curthread = Idle
        BY <1>0, <2>1 DEF State
    <2> QED
        BY <1>2, <2>2, ThreadAssumption
<1>6. CASE p.realtime = <<>> /\ p.sfq_running # 0
    <2> QED
        BY <1>1, <1>6, TreeChoiceFair
<1> QED
    BY <1>4, <1>5, <1>6

(* What a call does to the times of the threads that are runnable before   *)
(* and after it.                                                           *)
FairStep(s, r) ==
    Orderly(r) /\ Flows(s, r, PssJoined(s) \cap PssJoined(r))

(* As long as the running thread keeps its place or goes, sched_choose is  *)
(* fair to those that stay.                                                *)
LEMMA ChooseFair ==
    ASSUME Modulus = 0, NEW s, NEW p, Settled(s), Parked(p), Orderly(p),
           OnlyPlace(s, p, s.curthread),
           Flows(s, p, PssJoined(s) \cap p.joined)
    PROVE  LET r == SchedChoose(p) IN FairStep(s, r) /\ PicksFair(s, r)
<1> DEFINE r == SchedChoose(p)
           X == PssJoined(s) \cap p.joined
<1>1. /\ Orderly(r) /\ r.vtime = p.vtime /\ r.vruntime = p.vruntime
      /\ r.joined = p.joined
    BY SchedChooseOrderly
<1>2. PicksFair(s, r)
    BY ChoosePicksFair
<1> HIDE DEF r
<1>3. Flows(s, r, X)
    BY <1>1 DEF Flows, FlowsTo
<1>4. PssJoined(s) \cap PssJoined(r) \subseteq X
    BY <1>1 DEF PssJoined
<1>5. Flows(s, r, PssJoined(s) \cap PssJoined(r))
    BY <1>3, <1>4, FlowsOfFewer
<1> QED
    BY <1>1, <1>2, <1>5 DEF FairStep, r

(* The flags of a thread have nothing to do with time. *)
LEMMA FlagTimes ==
    ASSUME NEW s \in State, NEW x, NEW y
    PROVE  SameTimes(s, [s EXCEPT !.need_resched = x, !.owepreempt = y])
    BY DEF SameTimes, State

(* sched_switch of a thread that stays runnable: it goes back to the tree  *)
(* with all its time charged.                                              *)
LEMMA SwitchRunnableFair ==
    ASSUME Modulus = 0, NEW s, NEW swt, Settled(s), Orderly(s)
    PROVE  LET r == SwitchRunnable(s, swt) IN FairStep(s, r) /\ PicksFair(s, r)
<1> DEFINE td == s.curthread
           s1 == [s EXCEPT !.need_resched = @ \ {td}, !.owepreempt = @ \ {td}]
           p  == PutPrevThread(s1, td, swt)
           X  == PssJoined(s)
<1>0. s \in State /\ td \in Running /\ s.td_state \in [Thread -> TdState]
    BY StateFields DEF Settled, Consistent
<1>1. SwitchRunnable(s, swt) = SchedChoose(p)
    BY SMTT(60) DEF SwitchRunnable
<1>2. s1 \in State /\ SameQueues(s, s1) /\ SameTimes(s, s1)
    BY ZenonT(60), <1>0, ClearFlagsKeeps, FlagTimes
<1> HIDE DEF s1
<1>3. Settled(s1) /\ s1.curthread = td /\ PssJoined(s1) = X
    BY <1>2, SameQueuesSettled DEF SameQueues, SameThreads, PssJoined, IsPss
<1>4. Orderly(s1)
    BY <1>2, SameTimesOrderly DEF SameQueues, SameSfq
<1> HIDE DEF td
<1>5. /\ Fair(s1) /\ X \subseteq Counted(s1) /\ X \subseteq Thread
      /\ s1.td_state \in [Thread -> TdState] /\ s1.joined \subseteq Thread
    BY <1>2, <1>3, <1>4, SettledFair, StateFields
<1>6. Parked(p) /\ Orderly(p) /\ Flows(s, p, X) /\ OnlyPlace(s, p, td)
    <2>1. CASE td = Idle
        <3>1. td \notin Thread
            BY <2>1, ThreadAssumption
        <3>2. p = s1
            BY <1>5, <2>1, <3>1 DEF PutPrevThread, ClassPutPrev
        <3>3. Parked(s1)
            BY <1>3, <3>1 DEF Settled, CurrInv, IsPss, JoinedInv, Parked
        <3>4. OnlyPlace(s, s1, td)
            BY <1>2 DEF OnlyPlace, SameQueues, SameRunq
        <3> QED
            BY <1>0, <1>2, <1>4, <1>5, <3>2, <3>3, <3>4, SameTimesFlow
    <2>2. CASE td # Idle
        <3>1. td \in Thread /\ s1.td_state[td] = "running" /\ td \in s1.joined
            BY <1>0, <1>3, <2>2 DEF Running, Settled, JoinedInv
        <3>2. Consistent(p) /\ Stops(s1, p, td)
            BY <1>3, <3>1, PutPrevThreadStops DEF Settled
        <3>3. Orderly(p) /\ Flows(s1, p, X)
            BY <1>3, <1>5, <3>1, PutPrevThreadFlows DEF Settled
        <3> HIDE DEF p
        <3>4. p.curr = NULL
            BY <1>3, <3>2 DEF Stops, Settled, CurrInv
        <3>5. p.td_state = [s1.td_state EXCEPT ![td] = "runq"]
              /\ p.joined = s1.joined
            BY <3>2 DEF Stops
        <3>6. /\ \A t \in Thread : p.td_state[t] # "running"
              /\ p.joined = {t \in Thread : p.td_state[t] = "runq"}
            BY <1>3, <1>5, <3>1, <3>5 DEF Settled, JoinedInv
        <3>7. Flows(s, p, X)
            BY <1>2, <3>3 DEF SameTimes, Flows, FlowsTo
        <3>8. OnlyPlace(s, p, td)
            BY <1>2, <3>2 DEF OnlyPlace, Stops, SameQueues, SameRunq
        <3> QED
            BY <3>2, <3>3, <3>4, <3>6, <3>7, <3>8 DEF Parked
    <2> QED
        BY <2>1, <2>2
<1> HIDE DEF p
<1>7. Flows(s, p, X \cap p.joined)
    BY <1>6, FlowsOfFewer
<1> QED
    BY <1>1, <1>6, <1>7, ChooseFair DEF td

(* sched_switch of a thread that goes to sleep *)
LEMMA SwitchSleepingFair ==
    ASSUME Modulus = 0, NEW s, Settled(s), Orderly(s), s.curthread # Idle
    PROVE  LET r == SwitchSleeping(s) IN FairStep(s, r) /\ PicksFair(s, r)
<1> DEFINE td == s.curthread
           s0 == [s EXCEPT !.need_resched = @ \ {td}, !.owepreempt = @ \ {td}]
           s1 == [s0 EXCEPT !.td_state[td] = "sleeping"]
           d  == DequeueThread(s1, td, TRUE)
           p  == PutPrevThread(d, td, "sleepq")
           X  == PssJoined(s) \ {td}
<1>0. /\ s \in State /\ td \in Thread
      /\ s.td_state \in [Thread -> TdState] /\ s.joined \subseteq Thread
    BY StateFields DEF Settled, Consistent, Running
<1>1. SwitchSleeping(s) = SchedChoose(p)
    BY DEF SwitchSleeping
<1>2. s0 \in State /\ SameQueues(s, s0) /\ SameTimes(s, s0)
    BY ZenonT(60), <1>0, ClearFlagsKeeps, FlagTimes
<1> HIDE DEF s0
<1>3. Settled(s0) /\ s0.curthread = td /\ PssJoined(s0) = PssJoined(s)
    BY <1>2, SameQueuesSettled DEF SameQueues, SameThreads, PssJoined, IsPss
<1>4. Orderly(s0)
    BY <1>2, SameTimesOrderly DEF SameQueues, SameSfq
<1> HIDE DEF td
<1>5. /\ s0.td_state \in [Thread -> TdState]
      /\ s0.td_state[td] = "running" /\ td \in s0.joined
      /\ Fair(s0) /\ X \subseteq Counted(s0) \ {td} /\ X \subseteq Thread
    BY <1>0, <1>2, <1>3, <1>4, SettledFair, StateFields
    DEF Settled, JoinedInv
<1>6. "sleeping" \in TdState \ {"runq"}
    BY DEF TdState
<1>7. Consistent(s1)
    BY <1>0, <1>3, <1>5, <1>6, TdStateConsistent DEF Settled
<1>8. /\ SameSfq(s0, s1) /\ SameElse(s0, s1)
      /\ s1.td_state = [s0.td_state EXCEPT ![td] = "sleeping"]
      /\ s1.joined = s0.joined
      /\ SameRunq(s0, s1)
    BY <1>0, <1>2, <1>6, SetTdStateEffect
<1>9. SameTimes(s0, s1)
    BY <1>2, FieldTimes
<1> HIDE DEF s1
<1>10. Fair(s1) /\ X \subseteq Counted(s1) \ {td}
    BY <1>5, <1>7, <1>8, <1>9
    DEF Fair, TreeShape, Orderly, Counted, SameSfq, SameTimes, Consistent
<1>11. Consistent(d) /\ Leaves(s1, d, td) /\ d \in State
    BY <1>5, <1>7, <1>8, DequeueThreadLeaves DEF Consistent
<1>12. Orderly(d) /\ Flows(s1, d, X)
    BY <1>5, <1>7, <1>8, <1>10, DequeueThreadFlows
<1> HIDE DEF d
<1>13. td \in Thread \ d.joined
    BY <1>0, <1>11 DEF Leaves
<1>14. /\ Consistent(p)
       /\ SameThreads(d, p) /\ SameRunq(d, p)
       /\ p.curr = IF IsPss(d, td) THEN NULL ELSE d.curr
    BY <1>11, <1>13, PutPrevThreadGone
<1>15. p.vtime = d.vtime /\ p.vruntime = d.vruntime /\ p.timeline = d.timeline
    BY <1>11, <1>13, PutPrevGoneTimes
<1> HIDE DEF p
<1>16. p.curr = NULL
    <2>1. d.curr = s0.curr /\ d.pri_class = s0.pri_class
        BY <1>8, <1>11 DEF Leaves, SameElse, SameSfq
    <2> QED
        BY <1>3, <1>14, <2>1 DEF Settled, CurrInv, IsPss
<1>17. /\ p.td_state = [s0.td_state EXCEPT ![td] = "sleeping"]
       /\ p.joined = s0.joined \ {td}
    BY <1>8, <1>11, <1>14 DEF Leaves, SameThreads
<1>18. /\ \A t \in Thread : p.td_state[t] # "running"
       /\ p.joined = {t \in Thread : p.td_state[t] = "runq"}
    BY <1>0, <1>3, <1>5, <1>17 DEF Settled, JoinedInv
<1>19. Parked(p)
    BY <1>14, <1>16, <1>18 DEF Parked
<1>20. Orderly(p) /\ Flows(s, p, X)
    BY <1>2, <1>9, <1>12, <1>15 DEF SameTimes, Orderly, Flows, FlowsTo
<1>21. Flows(s, p, PssJoined(s) \cap p.joined)
    <2>1. PssJoined(s) \cap p.joined \subseteq X
        BY <1>17
    <2> QED
        BY <1>20, <2>1, FlowsOfFewer
<1>22. OnlyPlace(s, p, td)
    BY <1>2, <1>8, <1>11, <1>14 DEF OnlyPlace, Leaves, SameQueues, SameRunq
<1> QED
    BY <1>1, <1>19, <1>20, <1>21, <1>22, ChooseFair DEF td

(* sched_throw *)
LEMMA SwitchThrowFair ==
    ASSUME Modulus = 0, NEW s, Settled(s), Orderly(s), s.curthread # Idle
    PROVE  LET r == SwitchThrow(s) IN FairStep(s, r) /\ PicksFair(s, r)
<1> DEFINE td == s.curthread
           d  == DequeueThread(s, td, FALSE)
           s1 == PutPrevThread(d, td, "none")
           s2 == [s1 EXCEPT !.need_resched = @ \ {td}, !.owepreempt = @ \ {td}]
           p  == [s2 EXCEPT !.td_state[td] = "none"]
           X  == PssJoined(s) \ {td}
<1>0. /\ s \in State /\ td \in Thread
      /\ s.td_state \in [Thread -> TdState] /\ s.joined \subseteq Thread
    BY StateFields DEF Settled, Consistent, Running
<1>1. SwitchThrow(s) = SchedChoose(p)
    BY DEF SwitchThrow
<1>2. /\ s.td_state[td] = "running" /\ td \in s.joined
      /\ s.curr = IF IsPss(s, td) THEN td ELSE NULL
    BY <1>0 DEF Settled, JoinedInv, CurrInv
<1>4. /\ s.joined = {t \in Thread : s.td_state[t] \in {"runq", "running"}}
      /\ \A t \in Thread : s.td_state[t] = "running" <=> t = td
    BY DEF Settled, JoinedInv
<1> HIDE DEF td
<1>3. Fair(s) /\ X \subseteq Counted(s) \ {td} /\ X \subseteq Thread
    BY SettledFair
<1>5. Consistent(d) /\ Leaves(s, d, td) /\ d \in State
    BY <1>2, DequeueThreadLeaves DEF Settled, Consistent
<1>6. Orderly(d) /\ Flows(s, d, X)
    BY <1>2, <1>3, DequeueThreadFlows DEF Settled
<1> HIDE DEF d
<1>7. td \in Thread \ d.joined
    BY <1>0, <1>5 DEF Leaves
<1>8. /\ Consistent(s1) /\ s1 \in State
      /\ SameThreads(d, s1) /\ SameRunq(d, s1)
      /\ s1.curr = IF IsPss(d, td) THEN NULL ELSE d.curr
    BY <1>5, <1>7, PutPrevThreadGone DEF Consistent
<1>9. s1.vtime = d.vtime /\ s1.vruntime = d.vruntime
      /\ s1.timeline = d.timeline
    BY <1>5, <1>7, PutPrevGoneTimes
<1> HIDE DEF s1
<1>10. s1.curr = NULL /\ s1.td_state = s.td_state
       /\ s1.joined = s.joined \ {td}
    BY SMTT(60), <1>2, <1>5, <1>8 DEF Leaves, SameElse, SameThreads, IsPss
<1>11. s2 \in State /\ SameQueues(s1, s2) /\ SameTimes(s1, s2)
    BY ZenonT(60), <1>8, ClearFlagsKeeps, FlagTimes
<1> HIDE DEF s2
<1>12. /\ Consistent(s2) /\ s2.curr = NULL /\ s2.td_state = s.td_state
       /\ s2.joined = s.joined \ {td}
    BY <1>8, <1>10, <1>11, SameQueuesConsistent
    DEF SameQueues, SameThreads, SameSfq
<1>13. "none" \in TdState \ {"runq"}
    BY DEF TdState
<1>14. Consistent(p)
    BY <1>0, <1>12, <1>13, TdStateConsistent
<1>15. /\ SameSfq(s2, p)
       /\ p.td_state = [s2.td_state EXCEPT ![td] = "none"]
       /\ p.joined = s2.joined
       /\ SameRunq(s2, p)
    BY <1>0, <1>11, <1>13, SetTdStateEffect
<1>16. SameTimes(s2, p)
    BY <1>11, FieldTimes
<1> HIDE DEF p
<1>17. Parked(p)
    <2>1. p.curr = NULL
        BY <1>12, <1>15 DEF SameSfq
    <2>2. /\ \A t \in Thread : p.td_state[t] # "running"
          /\ p.joined = {t \in Thread : p.td_state[t] = "runq"}
        BY <1>0, <1>4, <1>12, <1>15
    <2> QED
        BY <1>14, <2>1, <2>2 DEF Parked
<1>18. Orderly(p) /\ Flows(s, p, X)
    BY <1>6, <1>9, <1>11, <1>15, <1>16
    DEF SameTimes, SameQueues, SameSfq, Orderly, Flows, FlowsTo
<1>19. Flows(s, p, PssJoined(s) \cap p.joined)
    <2>1. PssJoined(s) \cap p.joined \subseteq X
        BY <1>12, <1>15
    <2> QED
        BY <1>18, <2>1, FlowsOfFewer
<1>20. OnlyPlace(s, p, td)
    BY <1>5, <1>8, <1>11, <1>15 DEF OnlyPlace, Leaves, SameQueues, SameRunq
<1> QED
    BY <1>1, <1>17, <1>18, <1>19, <1>20, ChooseFair DEF td

-----------------------------------------------------------------------------
(* Requests to preempt the running thread *)

(* Settled, and nothing has become of the threads meanwhile. *)
StaysSettled(s, r) == Settled(r) /\ SameThreads(s, r) /\ SameRunq(s, r)

(* Settled, and the same thread still runs. *)
SettledOn(s, r) == Settled(r) /\ r.curthread = s.curthread

(* But for t, no thread has come into the real-time queue or moved in it,  *)
(* and none of those in it has another priority.                           *)
OthersStay(s, r, t) ==
    \A u \in ToSet(r.realtime) \ {t} :
        u \in ToSet(s.realtime) /\ r.td_priority[u] = s.td_priority[u]

(* What PreemptionRequested says of a step from s to r. *)
Asks(s, r) ==
    \A t \in ToSet(r.realtime) :
        /\ r.curthread = s.curthread
        /\ r.pri_class[t] = s.pri_class[t]
        /\ ~OnRunq(s, t) \/ r.td_priority[t] < s.td_priority[t]
        /\ Priority(r, t) < Priority(r, r.curthread)
        => r.curthread \in r.need_resched

(* Staying settled composes. *)
LEMMA StaysSettledTransitive ==
    ASSUME NEW s, NEW r, NEW q, SameThreads(s, r), SameRunq(s, r),
           StaysSettled(r, q)
    PROVE  StaysSettled(s, q)
    BY DEF StaysSettled, SameThreads, SameRunq

(* An operation that leaves the queues alone stays settled. *)
LEMMA SameQueuesStays ==
    ASSUME NEW s, NEW r, Settled(s), r \in State, SameQueues(s, r)
    PROVE  StaysSettled(s, r)
    BY SameQueuesSettled DEF StaysSettled, SameQueues

(* New candidates that are runnable stay settled. *)
LEMMA CandidatesStay ==
    ASSUME NEW s, NEW r, Settled(s), r \in State, OnlyCandidates(s, r),
           {r.skip, r.next, r.last} \subseteq PssJoined(s) \cup {NULL}
    PROVE  StaysSettled(s, r)
<1>1. Consistent(r)
    BY OnlyCandidatesConsistent DEF Settled
<1>2. JoinedInv(r) /\ CurrInv(r)
    BY DEF Settled, JoinedInv, CurrInv, IsPss, OnlyCandidates, SameThreads
<1> QED
    BY <1>1, <1>2 DEF StaysSettled, Settled, OnlyCandidates

(* A runnable timeshare thread may become a candidate. *)
LEMMA SetCandidateStays ==
    ASSUME NEW s, NEW t \in PssJoined(s), Settled(s),
           NEW r \in {SetSkip(s, t), SetNext(s, t), SetLast(s, t)}
    PROVE  StaysSettled(s, r)
<1>1. s \in State /\ t \in Thread /\ CandidateInv(s)
    BY StateFields DEF Settled, Consistent, PssJoined
<1>2. /\ r \in State
      /\ OnlyCandidates(s, r)
      /\ {r.skip, r.next, r.last} \subseteq {s.skip, s.next, s.last, t}
    BY ZenonT(60), <1>1, SetCandidateEffect
<1>3. {r.skip, r.next, r.last} \subseteq PssJoined(s) \cup {NULL}
    BY <1>1, <1>2 DEF CandidateInv
<1> QED
    BY <1>2, <1>3, CandidatesStay

(* clear_candidates stays settled. *)
LEMMA ClearCandidatesStays ==
    ASSUME NEW s, NEW t \in Thread, Settled(s)
    PROVE  StaysSettled(s, ClearCandidates(s, t))
<1> DEFINE r == ClearCandidates(s, t)
<1>1. s \in State /\ CandidateInv(s)
    BY DEF Settled, Consistent
<1>2. /\ r \in State
      /\ OnlyCandidates(s, r)
      /\ {r.skip, r.next, r.last} \subseteq
            ({s.skip, s.next, s.last} \ {t}) \cup {NULL}
    BY <1>1, ClearCandidatesEffect
<1> HIDE DEF r
<1>3. {r.skip, r.next, r.last} \subseteq PssJoined(s) \cup {NULL}
    BY <1>1, <1>2 DEF CandidateInv
<1>4. StaysSettled(s, r)
    BY <1>2, <1>3, CandidatesStay
<1> QED
    BY <1>4 DEF r

(* resched_thread stays settled. *)
LEMMA ReschedStays ==
    ASSUME NEW s, NEW t \in Running, Settled(s)
    PROVE  StaysSettled(s, ReschedThread(s, t))
<1>1. s \in State
    BY DEF Settled, Consistent
<1> QED
    BY <1>1, ReschedThreadKeeps, SameQueuesStays

(* update_curr stays settled. *)
LEMMA UpdateCurrStays ==
    ASSUME NEW s, Settled(s)
    PROVE  StaysSettled(s, UpdateCurr(s))
<1>1. s \in State
    BY DEF Settled, Consistent
<1> QED
    BY <1>1, UpdateCurrKeeps, SameQueuesStays

(* check_priority_preempt asks the running thread to give up the CPU to    *)
(* one of a better priority.                                               *)
LEMMA CheckPriorityPreemptAsks ==
    ASSUME NEW s \in State, NEW t \in Thread,
           Priority(s, t) < Priority(s, s.curthread)
    PROVE  s.curthread \in CheckPriorityPreempt(s, t).need_resched
<1>1. /\ s.td_priority \in [Thread -> Pri] /\ s.curthread \in Running
      /\ Pri \subseteq Nat /\ IdleThreadPri \in Nat /\ Idle \notin Thread
    BY StateFields, PriAssumption, ThreadAssumption
<1>2. Priority(s, t) \in Nat /\ Priority(s, s.curthread) \in Nat
    BY <1>1 DEF Priority, Running
<1>3. ~ (Priority(s, t) >= Priority(s, s.curthread))
    BY <1>2
<1>4. CheckPriorityPreempt(s, t) \in
         {PreemptThread(s, s.curthread), ReschedThread(s, s.curthread)}
    BY <1>3 DEF CheckPriorityPreempt
<1>5. /\ s.curthread \in PreemptThread(s, s.curthread).need_resched
      /\ s.curthread \in ReschedThread(s, s.curthread).need_resched
    BY DEF PreemptThread, ReschedThread, State
<1> QED
    BY <1>4, <1>5

(* check_preempt_curr takes back nothing that was asked. *)
LEMMA CheckPreemptCurrAsks ==
    ASSUME NEW s \in State, NEW t \in Thread,
           Priority(s, t) < Priority(s, s.curthread)
    PROVE  s.curthread \in CheckPreemptCurr(s, t).need_resched
<1> DEFINE s1 == CheckPriorityPreempt(s, t)
<1>1. s.curthread \in s1.need_resched /\ s1.curthread = s.curthread
    BY CheckPriorityPreemptAsks, CheckPriorityPreemptKeeps
    DEF SameQueues, SameThreads
<1>2. PssCheckPreemptCurr(s1, t) = s1
    BY <1>1 DEF PssCheckPreemptCurr
<1> QED
    BY <1>1, <1>2 DEF CheckPreemptCurr

(* pss_check_preempt_curr makes candidates of runnable threads only. *)
LEMMA PssCheckPreemptCurrStays ==
    ASSUME NEW s, NEW t \in PssJoined(s), Settled(s)
    PROVE  StaysSettled(s, PssCheckPreemptCurr(s, t))
<1> DEFINE ctd == s.curthread
           scale == s.sfq_running >= SchedNrLatency
           Preempt(z) == IF SchedLast /\ scale
                         THEN SetLast(ReschedThread(z, ctd), t)
                         ELSE ReschedThread(z, ctd)
           s1 == UpdateCurr(s)
           s2 == SetNext(s1, t)
           p  == Preempt(s)
           q  == Preempt(s2)
<1>1. PssCheckPreemptCurr(s, t) \in {s, p, q, s1}
    BY DEF PssCheckPreemptCurr
<1>2. ctd \in Running
    BY StateFields DEF Settled, Consistent
<1>3. StaysSettled(s, s)
    BY DEF StaysSettled, SameThreads, SameRunq
<1>4. ASSUME NEW z, StaysSettled(s, z)
      PROVE  StaysSettled(s, Preempt(z))
    <2> DEFINE y == ReschedThread(z, ctd)
    <2> HIDE DEF ctd, scale
    <2>1. StaysSettled(z, y)
        BY <1>2, <1>4, ReschedStays DEF StaysSettled
    <2>2. StaysSettled(s, y)
        BY <1>4, <2>1, StaysSettledTransitive DEF StaysSettled
    <2> HIDE DEF y
    <2>3. t \in PssJoined(y)
        BY <2>2 DEF StaysSettled, SameThreads, PssJoined, IsPss
    <2>4. StaysSettled(y, SetLast(y, t))
        BY <2>2, <2>3, SetCandidateStays DEF StaysSettled
    <2>5. StaysSettled(s, SetLast(y, t))
        BY <2>2, <2>4, StaysSettledTransitive DEF StaysSettled
    <2> QED
        BY <2>2, <2>5 DEF y
<1> HIDE DEF ctd, scale
<1>5. StaysSettled(s, s1)
    BY UpdateCurrStays
<1>6. StaysSettled(s, s2)
    <2> HIDE DEF s1
    <2>1. t \in PssJoined(s1)
        BY <1>5 DEF StaysSettled, SameThreads, PssJoined, IsPss
    <2>2. StaysSettled(s1, SetNext(s1, t))
        BY <1>5, <2>1, SetCandidateStays DEF StaysSettled
    <2> QED
        BY <1>5, <2>2, StaysSettledTransitive DEF StaysSettled
<1>7. StaysSettled(s, p)
    BY <1>3, <1>4
<1>8. StaysSettled(s, q)
    <2> HIDE DEF s2, Preempt
    <2> QED
        BY <1>4, <1>6
<1> HIDE DEF s1, p, q
<1> QED
    BY <1>1, <1>3, <1>5, <1>7, <1>8

(* check_preempt_curr for a runnable thread. *)
LEMMA CheckPreemptCurrStays ==
    ASSUME NEW s, NEW t \in s.joined, Settled(s)
    PROVE  StaysSettled(s, CheckPreemptCurr(s, t))
<1> DEFINE s1 == CheckPriorityPreempt(s, t)
<1>1. s \in State
    BY DEF Settled, Consistent
<1>2. StaysSettled(s, s1)
    BY <1>1, CheckPriorityPreemptKeeps, SameQueuesStays
<1> HIDE DEF s1
<1>3. CASE IsPss(s, t) /\ IsPss(s, s.curthread)
    <2>1. t \in PssJoined(s1)
        BY <1>2, <1>3 DEF StaysSettled, SameThreads, PssJoined, IsPss
    <2>2. StaysSettled(s1, PssCheckPreemptCurr(s1, t))
        BY <1>2, <2>1, PssCheckPreemptCurrStays DEF StaysSettled
    <2>3. StaysSettled(s, PssCheckPreemptCurr(s1, t))
        BY <1>2, <2>2, StaysSettledTransitive DEF StaysSettled
    <2> QED
        BY <1>3, <2>3 DEF CheckPreemptCurr, s1
<1>4. CASE ~ (IsPss(s, t) /\ IsPss(s, s.curthread))
    BY <1>2, <1>4 DEF CheckPreemptCurr, s1
<1> QED
    BY <1>3, <1>4

(* pss_switched_to.  A thread that has not started is not runnable: the    *)
(* caller guarantees that the running thread is not a timeshare one then.  *)
LEMMA PssSwitchedToStays ==
    ASSUME NEW s, NEW t \in Thread, Settled(s),
           s.td_state[t] \in {"sleeping", "runq", "running"}
              \/ IsRt(s, s.curthread)
    PROVE  StaysSettled(s, PssSwitchedTo(s, t))
<1>1. s \in State /\ t \in Running
    BY DEF Settled, Consistent, Running
<1>2. CASE s.td_state[t] = "sleeping"
    BY <1>1, <1>2, AbsoluteRelativeKeep, SameQueuesStays DEF PssSwitchedTo
<1>3. CASE s.td_state[t] # "sleeping" /\ s.curthread = t
    BY <1>1, <1>3, ReschedStays DEF PssSwitchedTo
<1>4. CASE s.td_state[t] # "sleeping" /\ s.curthread # t
    <2>1. PssSwitchedTo(s, t) = CheckPreemptCurr(s, t)
        BY <1>4 DEF PssSwitchedTo
    <2>2. CASE t \in s.joined
        BY <2>1, <2>2, CheckPreemptCurrStays
    <2>3. CASE t \notin s.joined
        <3>1. s.td_state[t] \notin {"runq", "running"}
            BY <2>3 DEF Settled, JoinedInv
        <3>2. ~ IsPss(s, s.curthread)
            BY <1>4, <3>1 DEF IsPss, IsRt
        <3>3. CheckPreemptCurr(s, t) = CheckPriorityPreempt(s, t)
            BY <3>2 DEF CheckPreemptCurr
        <3> QED
            BY <1>1, <2>1, <3>3, CheckPriorityPreemptKeeps, SameQueuesStays
    <2> QED
        BY <2>2, <2>3
<1> QED
    BY <1>2, <1>3, <1>4

(* class->sched_tick *)
LEMMA TickStays ==
    ASSUME NEW s, Settled(s)
    PROVE  StaysSettled(s, Tick(s))
<1> DEFINE c  == s.curthread
           s1 == UpdateRqClock(s)
           s2 == UpdateCurr(s1)
           s3 == ClearCandidates(s2, c)
<1>1. s \in State
    BY DEF Settled, Consistent
<1>2. StaysSettled(s, s1)
    BY <1>1, UpdateRqClockKeeps, SameQueuesStays
<1>3. c \in Running /\ Tick(s) = IF IsPss(s, c) THEN PssTick(s1, c)
                                ELSE IF IsRt(s, c) THEN RtTick(s1, c) ELSE s1
    BY <1>1, StateFields DEF Tick
<1>4. ASSUME NEW z, StaysSettled(s, z)
      PROVE  StaysSettled(s, ReschedThread(z, c))
    <2> HIDE DEF c
    <2>1. StaysSettled(z, ReschedThread(z, c))
        BY <1>3, <1>4, ReschedStays DEF StaysSettled
    <2> QED
        BY <1>4, <2>1, StaysSettledTransitive DEF StaysSettled
<1> HIDE DEF s1
<1>5. CASE IsPss(s, c)
    <2>1. c \in Thread
        BY <1>5 DEF IsPss
    <2>2. StaysSettled(s, s2)
        <3>1. StaysSettled(s1, s2)
            BY <1>2, UpdateCurrStays DEF StaysSettled
        <3> QED
            BY <1>2, <3>1, StaysSettledTransitive DEF StaysSettled
    <2>3. s2.curthread = c
        BY <2>2 DEF StaysSettled, SameThreads
    <2> HIDE DEF s2, c
    <2>4. StaysSettled(s, s3)
        <3>1. StaysSettled(s2, s3)
            BY <2>1, <2>2, ClearCandidatesStays DEF StaysSettled
        <3> QED
            BY <2>2, <3>1, StaysSettledTransitive DEF StaysSettled
    <2>5. PssTick(s1, c) \in {s2, ReschedThread(s3, c), ReschedThread(s2, c)}
        BY <2>3 DEF PssTick, CheckPreemptTick, s2
    <2> HIDE DEF s3
    <2> QED
        BY <1>3, <1>4, <1>5, <2>2, <2>4, <2>5
<1>6. CASE ~ IsPss(s, c)
    <2>1. Tick(s) \in {s1, ReschedThread(s1, c)}
        BY <1>3, <1>6 DEF RtTick
    <2> HIDE DEF c
    <2> QED
        BY <1>2, <1>4, <2>1
<1> QED
    BY <1>5, <1>6

-----------------------------------------------------------------------------
(* Calls that leave every thread where it is *)

(* The tree and the times in it are the same. *)
SameClock(s, r) ==
    /\ r.vtime = s.vtime
    /\ r.vruntime = s.vruntime
    /\ r.timeline = s.timeline

(* Nobody who is runnable loses anything. *)
FlowsOn(s, r) == Orderly(r) /\ Flows(s, r, PssJoined(s))

(* Neither a request nor a candidate nor the clock of the queue changes    *)
(* the tree.                                                               *)
LEMMA RequestClock ==
    ASSUME NEW s \in State, NEW t \in Running
    PROVE  \A r \in {s, ReschedThread(s, t), CheckPriorityPreempt(s, t),
                     SetNext(s, t), SetLast(s, t), ClearCandidates(s, t),
                     UpdateRqClock(s)} : SameClock(s, r)
<1>1. SameClock(s, s)
    BY DEF SameClock
<1>2. \A x : /\ SameClock(s, ReschedThread(s, x))
             /\ SameClock(s, PreemptThread(s, x))
    BY DEF SameClock, ReschedThread, PreemptThread, State
<1>3. SameClock(s, CheckPriorityPreempt(s, t))
    BY <1>1, <1>2 DEF CheckPriorityPreempt
<1>4. SameClock(s, SetNext(s, t)) /\ SameClock(s, SetLast(s, t))
    BY DEF SameClock, SetNext, SetLast, State
<1>5. SameClock(s, ClearCandidates(s, t)) /\ SameClock(s, UpdateRqClock(s))
    BY DEF SameClock, ClearCandidates, UpdateRqClock, State
<1> QED
    BY <1>1, <1>2, <1>3, <1>4, <1>5

(* What is the same composes. *)
LEMMA SameClockTransitive ==
    ASSUME NEW s, NEW r, NEW q, SameClock(s, r), SameClock(r, q)
    PROVE  SameClock(s, q)
    BY DEF SameClock

(* What is the same as a fair outcome is a fair outcome.                   *)
LEMMA SameClockFlowsOn ==
    ASSUME NEW s, NEW r, NEW q, FlowsOn(s, r), SameClock(r, q)
    PROVE  FlowsOn(s, q)
    BY DEF SameClock, FlowsOn, Orderly, Flows, FlowsTo

(* The running thread may be charged, with the time passed since or        *)
(* without it.                                                             *)
LEMMA ChargeFlowsOn ==
    ASSUME Modulus = 0, NEW s, Settled(s), Orderly(s),
           NEW z \in State, SameQueues(s, z), SameClock(s, z)
    PROVE  FlowsOn(s, z) /\ FlowsOn(s, UpdateCurr(z))
<1>1. Settled(z) /\ Orderly(z) /\ PssJoined(z) = PssJoined(s)
    BY SameQueuesSettled
    DEF SameClock, Orderly, SameQueues, SameThreads, PssJoined, IsPss
<1>2. /\ Fair(z) /\ PssJoined(s) \subseteq Counted(z)
      /\ PssJoined(s) \subseteq Thread
    BY <1>1, SettledFair
<1>3. FlowsOn(s, z)
    <2>1. s \in State /\ \A t \in PssJoined(s) : z.vruntime[t] = s.vruntime[t]
        BY DEF Settled, Consistent, SameClock
    <2> QED
        BY <1>1, <1>2, <2>1, FlowsReflexive DEF FlowsOn, SameClock
<1>4. Flows(z, UpdateCurr(z), PssJoined(s)) /\ Orderly(UpdateCurr(z))
    BY <1>2, UpdateCurrFlows, UpdateCurrFair DEF Fair
<1>5. FlowsOn(s, UpdateCurr(z))
    BY <1>4 DEF FlowsOn, Flows, FlowsTo, SameClock
<1> QED
    BY <1>3, <1>5

(* pss_check_preempt_curr charges the running thread, or does not. *)
LEMMA PssCheckPreemptCurrClock ==
    ASSUME NEW s \in State, NEW t \in Thread
    PROVE  LET r == PssCheckPreemptCurr(s, t)
           IN  SameClock(s, r) \/ SameClock(UpdateCurr(s), r)
<1> DEFINE ctd == s.curthread
           scale == s.sfq_running >= SchedNrLatency
           Preempt(z) == IF SchedLast /\ scale
                         THEN SetLast(ReschedThread(z, ctd), t)
                         ELSE ReschedThread(z, ctd)
           s1 == UpdateCurr(s)
           s2 == SetNext(s1, t)
           p  == Preempt(s)
           q  == Preempt(s2)
<1>1. PssCheckPreemptCurr(s, t) \in {s, p, q, s1}
    BY DEF PssCheckPreemptCurr
<1>2. ctd \in Running /\ t \in Running
    BY StateFields DEF Running
<1> HIDE DEF ctd, scale
<1>3. ASSUME NEW z \in State
      PROVE  SameClock(z, Preempt(z))
    <2>1. ReschedThread(z, ctd) \in State
        BY <1>2, ReschedThreadKeeps
    <2> QED
        BY <1>2, <2>1, RequestClock, SameClockTransitive
<1>4. s1 \in State
    BY UpdateCurrKeeps
<1> HIDE DEF s1
<1>5. s2 \in State /\ SameClock(s1, s2)
    BY <1>2, <1>4, SetCandidateEffect, RequestClock
<1>6. SameClock(s, s) /\ SameClock(s1, s1)
    BY DEF SameClock
<1> HIDE DEF s2, Preempt
<1>7. SameClock(s, p) /\ SameClock(s1, q)
    BY <1>3, <1>5, SameClockTransitive
<1> HIDE DEF p, q
<1> QED
    BY <1>1, <1>6, <1>7 DEF s1

(* check_preempt_curr *)
LEMMA CheckPreemptCurrFlows ==
    ASSUME Modulus = 0, NEW s, NEW t \in Thread, Settled(s), Orderly(s)
    PROVE  FlowsOn(s, CheckPreemptCurr(s, t))
<1> DEFINE s1 == CheckPriorityPreempt(s, t)
<1>1. s \in State /\ t \in Running
    BY DEF Settled, Consistent, Running
<1>2. s1 \in State /\ SameQueues(s, s1) /\ SameClock(s, s1)
    BY <1>1, CheckPriorityPreemptKeeps, RequestClock
<1> HIDE DEF s1
<1>3. FlowsOn(s, s1) /\ FlowsOn(s, UpdateCurr(s1))
    BY <1>2, ChargeFlowsOn
<1>4. FlowsOn(s, PssCheckPreemptCurr(s1, t))
    BY <1>2, <1>3, PssCheckPreemptCurrClock, SameClockFlowsOn
<1> QED
    BY <1>3, <1>4 DEF CheckPreemptCurr, s1

(* The vruntime of a thread that is not runnable is nobody else's concern. *)
LEMMA OutsideFlowsOn ==
    ASSUME NEW s, NEW r, Settled(s), Orderly(s), NEW t \in Thread \ s.joined,
           r.vtime = s.vtime, r.timeline = s.timeline,
           \A u \in Thread \ {t} : r.vruntime[u] = s.vruntime[u]
    PROVE  FlowsOn(s, r)
<1>1. /\ s \in State /\ PssJoined(s) \subseteq Thread \ {t}
      /\ ToSet(s.timeline) \subseteq Thread \ {t}
    BY StateFields
    DEF Settled, Consistent, TreeOK, Waiting, PssJoined
<1> QED
    BY <1>1, OrderlyFrame, FlowsReflexive DEF FlowsOn

(* pss_switched_to and pss_switched_from *)
LEMMA SwitchedFlows ==
    ASSUME Modulus = 0, NEW s, NEW t \in Thread, Settled(s), Orderly(s)
    PROVE  FlowsOn(s, PssSwitchedTo(s, t)) /\ FlowsOn(s, PssSwitchedFrom(s, t))
<1>1. s \in State /\ t \in Running
    BY DEF Settled, Consistent, Running
<1>2. FlowsOn(s, s) /\ FlowsOn(s, ReschedThread(s, t))
    BY <1>1, SameQueuesReflexive, RequestClock, ChargeFlowsOn, SameClockFlowsOn
<1>3. FlowsOn(s, CheckPreemptCurr(s, t))
    BY CheckPreemptCurrFlows
<1>4. ASSUME s.td_state[t] = "sleeping"
      PROVE  FlowsOn(s, Absolute(s, t)) /\ FlowsOn(s, PssSwitchedFrom(s, t))
    <2> DEFINE a == Absolute(s, t)
               p == PlaceWakeup(s, t)
               r == Relative(p, t)
    <2>1. t \in Thread \ s.joined
        BY <1>4 DEF Settled, JoinedInv
    <2>2. /\ a.vtime = s.vtime /\ a.timeline = s.timeline
          /\ \A u \in Thread \ {t} : a.vruntime[u] = s.vruntime[u]
        BY <1>1, OneVruntime, AbsoluteRelativeKeep DEF SameQueues, SameSfq
    <2>3. /\ p.vtime = s.vtime /\ p.timeline = s.timeline /\ p \in State
          /\ \A u \in Thread \ {t} : p.vruntime[u] = s.vruntime[u]
        BY <1>1, OneVruntime, PlaceKeeps DEF SameQueues, SameSfq
    <2> HIDE DEF p
    <2>4. /\ r.vtime = s.vtime /\ r.timeline = s.timeline
          /\ \A u \in Thread \ {t} : r.vruntime[u] = s.vruntime[u]
        BY <2>3, OneVruntime, AbsoluteRelativeKeep DEF SameQueues, SameSfq
    <2>5. PssSwitchedFrom(s, t) = r
        BY <1>4 DEF PssSwitchedFrom, p
    <2> HIDE DEF a, r
    <2>6. FlowsOn(s, a) /\ FlowsOn(s, r)
        BY <2>1, <2>2, <2>4, OutsideFlowsOn
    <2> QED
        BY <2>5, <2>6 DEF a
<1> QED
    BY <1>2, <1>3, <1>4 DEF PssSwitchedTo, PssSwitchedFrom

(* class->sched_tick *)
LEMMA TickFlows ==
    ASSUME Modulus = 0, NEW s, Settled(s), Orderly(s)
    PROVE  FlowsOn(s, Tick(s))
<1> DEFINE c  == s.curthread
           s1 == UpdateRqClock(s)
           s2 == UpdateCurr(s1)
           s3 == ClearCandidates(s2, c)
<1>1. s \in State /\ c \in Running
    BY StateFields DEF Settled, Consistent
<1>2. s1 \in State /\ SameQueues(s, s1) /\ SameClock(s, s1)
    BY <1>1, UpdateRqClockKeeps, RequestClock
<1>3. Tick(s) = IF IsPss(s, c) THEN PssTick(s1, c)
                ELSE IF IsRt(s, c) THEN RtTick(s1, c) ELSE s1
    BY DEF Tick
<1> HIDE DEF s1
<1>4. FlowsOn(s, s1) /\ FlowsOn(s, s2) /\ s2 \in State
    BY <1>2, ChargeFlowsOn, UpdateCurrKeeps
<1>5. s2.curthread = c
    BY <1>2, UpdateCurrKeeps DEF SameQueues, SameThreads
<1>6. CASE IsPss(s, c)
    <2>1. c \in Thread
        BY <1>6 DEF IsPss
    <2> HIDE DEF s2, c
    <2>2. s3 \in State /\ FlowsOn(s, s3)
        BY <1>1, <1>4, <2>1, ClearCandidatesEffect, RequestClock,
           SameClockFlowsOn
    <2>3. PssTick(s1, c) \in {s2, ReschedThread(s3, c), ReschedThread(s2, c)}
        BY <1>5 DEF PssTick, CheckPreemptTick, s2
    <2> HIDE DEF s3
    <2>4. FlowsOn(s, ReschedThread(s3, c)) /\ FlowsOn(s, ReschedThread(s2, c))
        BY <1>1, <1>4, <2>2, RequestClock, SameClockFlowsOn
    <2> QED
        BY <1>3, <1>4, <1>6, <2>3, <2>4
<1>7. CASE ~IsPss(s, c)
    <2>1. Tick(s) \in {s1, ReschedThread(s1, c)}
        BY <1>3, <1>7 DEF RtTick
    <2> HIDE DEF c
    <2>2. FlowsOn(s, ReschedThread(s1, c))
        BY <1>1, <1>2, <1>4, RequestClock, SameClockFlowsOn
    <2> QED
        BY <1>4, <2>1, <2>2
<1> QED
    BY <1>6, <1>7

-----------------------------------------------------------------------------
(* sched_add and sched_fork_thread *)

(* When nobody but the running thread has come into the real-time queue    *)
(* or moved in it, there is nothing to ask.                                *)
LEMMA OthersStayAsks ==
    ASSUME NEW s, NEW r \in State, OthersStay(s, r, s.curthread)
    PROVE  Asks(s, r)
<1> SUFFICES ASSUME NEW t \in ToSet(r.realtime),
                    r.curthread = s.curthread,
                    ~OnRunq(s, t) \/ r.td_priority[t] < s.td_priority[t],
                    Priority(r, t) < Priority(r, r.curthread)
             PROVE  FALSE
    BY DEF Asks
<1>1. /\ r.td_priority \in [Thread -> Pri] /\ r.realtime \in Seq(Thread)
      /\ Pri \subseteq Nat /\ IdleThreadPri \in Nat
    BY StateFields, PriAssumption
<1>2. t \in Thread
    BY <1>1 DEF ToSet
<1>3. r.td_priority[t] \in Nat /\ Priority(r, t) \in Nat
    BY <1>1, <1>2 DEF Priority
<1>4. t # s.curthread
    BY <1>3
<1> QED
    BY <1>3, <1>4 DEF OthersStay, OnRunq

(* sched_choose gives nobody another priority, and takes only the thread   *)
(* it chooses off the real-time queue.                                     *)
LEMMA SchedChooseKeeps ==
    ASSUME NEW s, Parked(s)
    PROVE  LET r == SchedChoose(s)
           IN  /\ r.td_priority = s.td_priority
               /\ ToSet(r.realtime) \subseteq ToSet(s.realtime)
<1>0. s \in State /\ RunqOK(s) /\ s.curr = NULL
    BY DEF Parked, Consistent
<1>1. ASSUME NEW p, Parked(p), SameRunq(s, p), p.td_priority = s.td_priority,
             NEW h \in Waiting(p)
      PROVE  LET r == [ClassActivate(p, h) EXCEPT !.curthread = h]
             IN  /\ r.td_priority = s.td_priority
                 /\ ToSet(r.realtime) \subseteq ToSet(s.realtime)
    <2> DEFINE a == ClassActivate(p, h)
               r == [a EXCEPT !.curthread = h]
    <2>1. Consistent(a) /\ Starts(p, a, h)
        BY <1>1, ActivateStarts DEF Parked
    <2>2. a \in State /\ h \in Thread
        BY <1>1, <2>1, StateFields DEF Parked, Consistent, Waiting
    <2> HIDE DEF a
    <2>3. r.td_priority = a.td_priority /\ r.realtime = a.realtime
        BY <2>2 DEF State
    <2>4. ToSet(a.realtime) \subseteq Waiting(a)
        BY <2>1 DEF Consistent, RunqOK
    <2>5. \A u \in Waiting(a) : u \in Thread \ {h}
        BY <1>1, <2>1, <2>2, StateFields
        DEF Starts, Waiting, Parked, Consistent
    <2> QED
        BY <1>1, <2>1, <2>3, <2>4, <2>5
        DEF Starts, SameElse, OnlyPlace, SameRunq, a
<1>2. CASE s.realtime # <<>>
    <2> DEFINE h == Head(s.realtime)
    <2>1. s.realtime \in Seq(Thread)
        BY <1>0, StateFields
    <2>2. h \in Waiting(s)
        BY <1>0, <1>2, <2>1, ToSetMember DEF RunqOK
    <2> HIDE DEF h
    <2>3. SchedChoose(s) = [ClassActivate(s, h) EXCEPT !.curthread = h]
        BY <1>2 DEF SchedChoose, h
    <2> QED
        BY <1>1, <2>2, <2>3 DEF SameRunq
<1>3. CASE s.realtime = <<>> /\ s.sfq_running = 0
    <2>1. SchedChoose(s) = [s EXCEPT !.curthread = Idle]
        BY <1>3 DEF SchedChoose
    <2> QED
        BY <1>0, <2>1 DEF State
<1>4. CASE s.realtime = <<>> /\ s.sfq_running # 0
    <2> DEFINE t == PickNextEntity(s)
               c == ClearCandidates(s, t)
    <2>1. s.leftmost # NULL
        BY <1>4, SchedChooseFinds
    <2>2. t \in Waiting(s)
        BY <2>1, PickNextEntityInTree
    <2>3. SchedChoose(s) = [ClassActivate(c, t) EXCEPT !.curthread = t]
        BY <1>4, <2>1 DEF SchedChoose
    <2> HIDE DEF t
    <2>4. OnlyCandidates(s, c) /\ Parked(c) /\ t \in Waiting(c)
        BY <2>2, ClearCandidatesParked
    <2> HIDE DEF c
    <2> QED
        BY <1>1, <2>3, <2>4 DEF OnlyCandidates, SameThreads
<1> QED
    BY <1>2, <1>3, <1>4

(* A call that switches threads puts only the one that ran into the        *)
(* real-time queue.                                                        *)
LEMMA ChoosesAsks ==
    ASSUME NEW s, NEW r, Chooses(s, r)
    PROVE  Asks(s, r)
<1>1. PICK p : /\ Parked(p)
               /\ OnlyPlace(s, p, s.curthread)
               /\ p.td_priority = s.td_priority
               /\ r = SchedChoose(p)
    BY DEF Chooses
<1>2. r \in State
    BY <1>1, SchedChooseSettles DEF Settled, Consistent
<1>3. /\ r.td_priority = s.td_priority
      /\ ToSet(r.realtime) \subseteq ToSet(p.realtime)
    BY <1>1, SchedChooseKeeps
<1>4. r.realtime \in Seq(Thread)
    BY <1>2, StateFields
<1>5. ToSet(r.realtime) \subseteq Thread
    BY <1>4 DEF ToSet
<1>6. OthersStay(s, r, s.curthread)
    BY <1>1, <1>3, <1>5 DEF OthersStay, OnlyPlace
<1> QED
    BY <1>2, <1>6, OthersStayAsks

(* When one other thread has come into the real-time queue or moved in it, *)
(* it is the only one to ask for.                                          *)
LEMMA OneMovesAsks ==
    ASSUME NEW s, NEW r \in State, NEW t, OthersStay(s, r, t),
           \/ r.pri_class[t] # s.pri_class[t]
           \/ Priority(r, t) < Priority(r, r.curthread) =>
                 r.curthread \in r.need_resched
    PROVE  Asks(s, r)
<1> SUFFICES ASSUME NEW u \in ToSet(r.realtime) \ {t},
                    ~OnRunq(s, u) \/ r.td_priority[u] < s.td_priority[u]
             PROVE  FALSE
    BY DEF Asks
<1>1. r.td_priority \in [Thread -> Pri] /\ r.realtime \in Seq(Thread)
    BY StateFields
<1>2. u \in Thread
    BY <1>1 DEF ToSet
<1>3. r.td_priority[u] \in Nat
    BY <1>1, <1>2, PriAssumption
<1> QED
    BY <1>3 DEF OthersStay, OnRunq

(* sched_add of a thread that is new or wakes up. *)
LEMMA AddSettles ==
    ASSUME NEW s, NEW t \in Thread, Settled(s),
           s.td_state[t] \in {"new", "sleeping"}
    PROVE  SettledOn(s, Add(s, t)) /\ Asks(s, Add(s, t))
<1> DEFINE wakeup == s.td_state[t] = "sleeping"
           e == EnqueueThread(s, t, wakeup)
<1>1. t \notin s.joined /\ t # s.curthread
    BY DEF Settled, JoinedInv
<1> HIDE DEF wakeup
<1>2. Consistent(e) /\ Joins(s, e, t)
    BY <1>1, EnqueueThreadJoins DEF Settled
<1> HIDE DEF e
<1>3. s.td_state \in [Thread -> TdState]
    BY StateFields DEF Settled, Consistent
<1>4. JoinedInv(e)
    BY <1>1, <1>2, <1>3 DEF Settled, JoinedInv, Joins, SameElse
<1>5. CurrInv(e)
    BY <1>2 DEF Settled, CurrInv, Joins, SameElse, IsPss
<1>6. Settled(e) /\ t \in e.joined
    BY <1>2, <1>4, <1>5 DEF Settled, Joins
<1>7. StaysSettled(e, CheckPreemptCurr(e, t))
    BY <1>6, CheckPreemptCurrStays
<1>8. e.curthread = s.curthread
    BY <1>2 DEF Joins, SameElse
<1>9. SettledOn(s, CheckPreemptCurr(e, t))
    BY <1>7, <1>8 DEF StaysSettled, SameThreads, SettledOn
<1> DEFINE r == CheckPreemptCurr(e, t)
<1>10. /\ r \in State /\ e \in State
       /\ SameThreads(e, r) /\ SameRunq(e, r)
       /\ e.realtime \in Seq(Thread)
    BY <1>6, <1>7, StateFields DEF StaysSettled, Settled, Consistent
<1>11. Priority(e, t) < Priority(e, e.curthread) =>
          e.curthread \in r.need_resched
    BY <1>10, CheckPreemptCurrAsks
<1> HIDE DEF r
<1>12. OthersStay(s, r, t)
    BY <1>2, <1>10
    DEF OthersStay, Joins, SameElse, OnlyPlace, SameThreads, SameRunq, ToSet
<1>13. Asks(s, r)
    BY <1>10, <1>11, <1>12, OneMovesAsks DEF SameThreads, Priority
<1> QED
    BY <1>9, <1>13 DEF Add, e, wakeup, r

(* The fields a new thread inherits do not matter to the queues. *)
LEMMA NewThreadSettles ==
    ASSUME NEW s, NEW child \in Thread, Settled(s),
           s.td_state[child] = "none",
           NEW class \in PriClass, NEW nice \in Nice,
           NEW w \in Nat \ {0}, NEW prio \in Pri
    PROVE  LET r == [s EXCEPT !.td_state[child] = "new",
                              !.pri_class[child] = class,
                              !.p_nice[child] = nice,
                              !.weight[child] = w,
                              !.td_priority[child] = prio]
           IN  SettledOn(s, r) /\ OthersStay(s, r, s.curthread)
<1> DEFINE a == [s.td_state EXCEPT ![child] = "new"]
           b == [s.pri_class EXCEPT ![child] = class]
           c == [s.p_nice EXCEPT ![child] = nice]
           d == [s.weight EXCEPT ![child] = w]
           e == [s.td_priority EXCEPT ![child] = prio]
           r == [s EXCEPT !.td_state = a, !.pri_class = b, !.p_nice = c,
                          !.weight = d, !.td_priority = e]
<1>0. s \in State /\ s.joined \subseteq Thread
    BY StateFields DEF Settled, Consistent
<1>1. [s EXCEPT !.td_state[child] = "new",
                !.pri_class[child] = class,
                !.p_nice[child] = nice,
                !.weight[child] = w,
                !.td_priority[child] = prio] = r
    BY <1>0, ZenonT(60)
<1>2. /\ a \in [Thread -> TdState] /\ b \in [Thread -> PriClass]
      /\ c \in [Thread -> Nice] /\ e \in [Thread -> Pri]
      /\ d \in [Thread -> Nat \ {0}]
    <2>1. /\ s.td_state \in [Thread -> TdState]
          /\ s.pri_class \in [Thread -> PriClass]
          /\ s.p_nice \in [Thread -> Nice]
          /\ s.td_priority \in [Thread -> Pri]
          /\ s.weight \in [Thread -> Nat \ {0}]
        BY <1>0, StateFields
    <2>2. "new" \in TdState
        BY DEF TdState
    <2> QED
        BY <2>1, <2>2, Zenon
<1>3. s.td_state \in [Thread -> TdState] /\ s.pri_class \in [Thread -> PriClass]
      /\ s.td_priority \in [Thread -> Pri]
    BY <1>0, StateFields
<1>4. child \notin s.joined /\ child # s.curthread
    BY DEF Settled, JoinedInv
<1>5. \A u \in Thread \ {child} :
          /\ a[u] = s.td_state[u] /\ b[u] = s.pri_class[u]
          /\ e[u] = s.td_priority[u] /\ d[u] = s.weight[u]
    BY <1>0, <1>3, StateFields
<1>6. a[child] = "new"
    BY <1>3
<1> HIDE DEF a, b, c, d, e
<1>7. r \in State
    BY <1>0, <1>2, ZenonT(60) DEF State
<1>8. /\ r.td_state = a /\ r.pri_class = b /\ r.td_priority = e
      /\ r.weight = d
      /\ SameSfq(s, r)
      /\ r.joined = s.joined
      /\ r.load = s.load
      /\ r.nr_running = s.nr_running
      /\ r.nr_sysrunning = s.nr_sysrunning
      /\ r.curthread = s.curthread
      /\ r.panics = s.panics
      /\ SameRunq(s, r)
    BY <1>0 DEF SameSfq, SameCandidates, SameRunq, State
<1> HIDE DEF r
<1>9. \A u \in s.joined \cup {s.curthread} :
         (IsPss(r, u) <=> IsPss(s, u)) /\ (IsRt(r, u) <=> IsRt(s, u))
    BY <1>0, <1>4, <1>5, <1>8 DEF IsPss, IsRt
<1>10. Waiting(r) = Waiting(s) /\ PssJoined(r) = PssJoined(s)
    BY <1>0, <1>4, <1>5, <1>8, <1>9 DEF Waiting, PssJoined
<1>11. TreeOK(r)
    <2>1. {t \in Waiting(r) : IsPss(r, t)} = {t \in Waiting(s) : IsPss(s, t)}
        BY <1>9, <1>10 DEF Waiting
    <2> QED
        BY <1>8, <2>1 DEF Settled, Consistent, TreeOK, SameSfq
<1>12. RunqOK(r)
    <2>1. \A t \in Waiting(s) : r.td_priority[t] = s.td_priority[t]
        BY <1>0, <1>4, <1>5, <1>8 DEF Waiting
    <2>2. RunqShape(s) /\ ToSet(s.realtime) \subseteq Waiting(s)
        BY DEF Settled, Consistent, RunqOK
    <2>3. RunqShape(r)
        BY <1>8, <2>1, <2>2 DEF RunqShape, SameRunq
    <2> QED
        BY <1>8, <1>9, <1>10, <2>1, <2>3
        DEF Settled, Consistent, RunqOK, Waiting, SameRunq
<1>16. CountOK(r)
    <2>1. \A u \in PssJoined(s) : r.weight[u] = s.weight[u]
        BY <1>0, <1>4, <1>5, <1>8 DEF PssJoined
    <2>2. TotalWeight(r.weight, PssJoined(s)) =
            TotalWeight(s.weight, PssJoined(s))
        BY <2>1, SameWeights
    <2> QED
        BY <1>8, <1>10, <2>2 DEF Settled, Consistent, CountOK, SameSfq
<1>13. Consistent(r)
    BY <1>7, <1>8, <1>10, <1>11, <1>12, <1>16
    DEF Settled, Consistent, CandidateInv, SameSfq, SameCandidates
<1>14. JoinedInv(r)
    BY <1>4, <1>5, <1>6, <1>8 DEF Settled, JoinedInv
<1>15. CurrInv(r)
    BY <1>8, <1>9 DEF Settled, CurrInv, SameSfq
<1>17. OthersStay(s, r, s.curthread)
    <2>1. \A t \in ToSet(s.realtime) : t \in Thread \ {child}
        BY <1>0, <1>4 DEF Settled, Consistent, RunqOK, Waiting
    <2> QED
        BY <1>5, <1>8, <2>1 DEF OthersStay, SameRunq
<1> QED
    BY <1>1, <1>8, <1>13, <1>14, <1>15, <1>17 DEF Settled, SettledOn

(* sched_fork_thread, whatever the parent is doing. *)
LEMMA ForkThreadSettles ==
    ASSUME NEW s, NEW t \in Thread, NEW child \in Thread, NEW prio \in Pri,
           Settled(s), s.td_state[child] = "none"
    PROVE  LET r == ForkThread(s, t, child, prio)
           IN  SettledOn(s, r) /\ OthersStay(s, r, s.curthread)
<1> DEFINE s1 == [s EXCEPT !.td_state[child] = "new",
                           !.pri_class[child] = s.pri_class[t],
                           !.p_nice[child] = s.p_nice[t],
                           !.weight[child] = s.weight[t],
                           !.td_priority[child] = prio]
<1>1. /\ s.pri_class[t] \in PriClass
      /\ s.p_nice[t] \in Nice
      /\ s.weight[t] \in Nat \ {0}
    BY StateFields DEF Settled, Consistent
<1>2. SettledOn(s, s1) /\ OthersStay(s, s1, s.curthread)
    BY ZenonT(60), <1>1, NewThreadSettles
<1>3. ForkThread(s, t, child, prio) =
         IF IsPss(s, t) THEN PssFork(s1, t, child) ELSE s1
    BY DEF ForkThread
<1> HIDE DEF s1
<1>4. PssFork(s1, t, child) \in State /\ SameQueues(s1, PssFork(s1, t, child))
    BY <1>2, PssForkKeeps DEF SettledOn, Settled, Consistent
<1>5. LET r == PssFork(s1, t, child)
      IN  SettledOn(s, r) /\ OthersStay(s, r, s.curthread)
    BY <1>2, <1>4, SameQueuesSettled
    DEF SettledOn, OthersStay, SameQueues, SameThreads, SameRunq
<1> QED
    BY <1>2, <1>3, <1>5

-----------------------------------------------------------------------------
(* Calls that bring a thread *)

(* Whatever happens after s is fair to those of s if it is fair to those   *)
(* of a later state that has them all.                                     *)
LEMMA FlowsOnAfter ==
    ASSUME NEW s \in State, NEW z \in State, NEW r \in State,
           Flows(s, z, PssJoined(s)), FlowsOn(z, r),
           PssJoined(s) \subseteq PssJoined(z)
    PROVE  FlowsOn(s, r)
<1>1. PssJoined(s) \subseteq Thread
    BY StateFields DEF PssJoined
<1>2. Flows(z, r, PssJoined(s))
    BY FlowsOfFewer DEF FlowsOn
<1> QED
    BY <1>1, <1>2, FlowsTransitive DEF FlowsOn

(* A call that is fair to those who were there is fair to those who stay.  *)
LEMMA FlowsOnFair ==
    ASSUME NEW s, NEW r, FlowsOn(s, r)
    PROVE  FairStep(s, r)
    BY FlowsOfFewer DEF FlowsOn, FairStep

(* sched_add *)
LEMMA AddFair ==
    ASSUME Modulus = 0, NEW s, NEW t \in Thread, Settled(s), Orderly(s),
           s.td_state[t] \in {"new", "sleeping"}
    PROVE  FairStep(s, Add(s, t))
<1> DEFINE wakeup == s.td_state[t] = "sleeping"
           e == EnqueueThread(s, t, wakeup)
           r == CheckPreemptCurr(e, t)
<1>1. /\ t \notin s.joined /\ t # s.curthread /\ s \in State
      /\ s.td_state \in [Thread -> TdState]
    BY StateFields DEF Settled, JoinedInv, Consistent
<1>2. Add(s, t) = r
    BY DEF Add
<1> HIDE DEF wakeup
<1>3. Consistent(e) /\ Joins(s, e, t) /\ e \in State
    BY <1>1, EnqueueThreadJoins DEF Settled, Consistent
<1>4. Orderly(e) /\ Flows(s, e, PssJoined(s))
    <2>1. Fair(s) /\ PssJoined(s) \subseteq Counted(s)
        BY SettledFair
    <2> QED
        BY <1>1, <2>1, EnqueueThreadFlows DEF Settled
<1> HIDE DEF e
<1>5. JoinedInv(e)
    BY <1>1, <1>3 DEF Settled, JoinedInv, Joins, SameElse
<1>6. CurrInv(e)
    BY <1>3 DEF Settled, CurrInv, Joins, SameElse, IsPss
<1>7. Settled(e) /\ t \in e.joined
    BY <1>3, <1>5, <1>6 DEF Settled, Joins
<1>8. FlowsOn(e, r) /\ r \in State
    BY <1>4, <1>7, CheckPreemptCurrFlows, CheckPreemptCurrStays
    DEF StaysSettled, Settled, Consistent
<1>9. PssJoined(s) \subseteq PssJoined(e)
    BY <1>3 DEF PssJoined, IsPss, Joins, SameElse
<1> QED
    BY <1>1, <1>2, <1>3, <1>4, <1>8, <1>9, FlowsOnAfter, FlowsOnFair

(* pss_fork: beyond what update_curr does, the parent may only lose, and   *)
(* nobody else's vruntime changes but that of the child.                   *)
LEMMA PssForkMoves ==
    ASSUME Modulus = 0, NEW s \in State,
           NEW t \in Thread, NEW child \in Thread \ {t}
    PROVE  LET z == UpdateCurr(UpdateRqClock(s))
               r == PssFork(s, t, child)
           IN  /\ r.vtime = z.vtime /\ r.timeline = z.timeline
               /\ \A u \in Thread \ {t, child} : r.vruntime[u] = z.vruntime[u]
               /\ z.vruntime[t] <= r.vruntime[t]
               /\ ~ChildRunsFirst => r.vruntime[t] = z.vruntime[t]
<1> DEFINE z  == UpdateCurr(UpdateRqClock(s))
           sc == [z EXCEPT !.vruntime[child] = z.vruntime[t]]
           s2 == PlaceInitial(sc, child)
           a  == s2.vruntime[child]
           b  == s2.vruntime[t]
           f  == [s2.vruntime EXCEPT ![t] = a, ![child] = b]
           sw == [s2 EXCEPT !.vruntime[t] = s2.vruntime[child],
                            !.vruntime[child] = s2.vruntime[t]]
           s3 == IF ChildRunsFirst /\ EntityBefore(s2, t, child)
                 THEN ReschedThread(sw, t) ELSE s2
           r  == PssFork(s, t, child)
<1>1. z \in State /\ SameQueues(s, z)
    BY UpdateRqClockKeeps, UpdateCurrKeeps, SameQueuesTransitive
<1>2. r \in State /\ SameQueues(s, r)
    BY PssForkKeeps
<1>3. r = Relative(s3, child)
    BY DEF PssFork
<1> HIDE DEF z, r
<1>4. /\ sc \in State /\ sc.vtime = z.vtime
      /\ \A u \in Thread \ {child} : sc.vruntime[u] = z.vruntime[u]
    <2>1. z.vruntime \in [Thread -> Int]
        BY <1>1, StateFields
    <2>2. sc \in State
        BY <1>1, <2>1, SetVruntime
    <2> QED
        BY ZenonT(60), <1>1, <2>1, <2>2 DEF State
<1> HIDE DEF sc
<1>5. /\ s2 \in State /\ s2.vtime = z.vtime
      /\ \A u \in Thread \ {child} : s2.vruntime[u] = z.vruntime[u]
    BY <1>4, PlaceKeeps, OneVruntime
<1> HIDE DEF s2
<1>6. s2.vruntime \in [Thread -> Int] /\ a \in Int /\ b \in Int
    BY <1>5, StateFields
<1>7. /\ sw \in State /\ sw.vtime = z.vtime
      /\ \A u \in Thread \ {t, child} : sw.vruntime[u] = z.vruntime[u]
      /\ sw.vruntime[t] = a
    <2>1. f \in [Thread -> Int]
        BY <1>6
    <2>2. /\ f[t] = a
          /\ \A u \in Thread \ {t, child} : f[u] = s2.vruntime[u]
        BY <1>6
    <2>5. sw = [s2 EXCEPT !.vruntime = f]
        BY <1>5, <1>6 DEF State
    <2> HIDE DEF f, sw
    <2>3. sw \in State
        BY <1>5, <2>1, <2>5, ZenonT(60) DEF State
    <2>4. sw.vtime = s2.vtime /\ sw.vruntime = f
        BY <1>5, <2>5 DEF State
    <2> QED
        BY <1>5, <2>2, <2>3, <2>4
<1> HIDE DEF sw, f
<1>8. /\ s3 \in State /\ s3.vtime = z.vtime
      /\ \A u \in Thread \ {t, child} : s3.vruntime[u] = z.vruntime[u]
      /\ z.vruntime[t] <= s3.vruntime[t]
      /\ ~ChildRunsFirst => s3.vruntime[t] = z.vruntime[t]
    <2>1. CASE ChildRunsFirst /\ EntityBefore(s2, t, child)
        <3>1. t \in Running
            BY DEF Running
        <3>2. /\ s3 = ReschedThread(sw, t)
              /\ s3 \in State /\ SameClock(sw, s3)
            BY <1>7, <2>1, <3>1, ReschedThreadKeeps, RequestClock
        <3>3. b < a
            BY <1>6, <2>1, NoWrap DEF EntityBefore
        <3>4. b = z.vruntime[t]
            BY <1>5
        <3> QED
            BY <1>6, <1>7, <2>1, <3>2, <3>3, <3>4 DEF SameClock
    <2>2. CASE ~(ChildRunsFirst /\ EntityBefore(s2, t, child))
        BY <1>5, <1>6, <2>2
    <2> QED
        BY <2>1, <2>2
<1> HIDE DEF s3
<1>9. /\ r.vtime = z.vtime
      /\ \A u \in Thread \ {child} : r.vruntime[u] = s3.vruntime[u]
    BY <1>3, <1>8, OneVruntime
<1> QED
    BY <1>1, <1>2, <1>8, <1>9 DEF SameQueues, SameSfq, r, z

(* sched_fork_thread.  A parent in the tree may not change places with its *)
(* child: pss_fork does not move it.                                       *)
LEMMA ForkFair ==
    ASSUME Modulus = 0, NEW s, NEW t \in Thread, NEW child \in Thread,
           NEW prio \in Pri, Settled(s), Orderly(s),
           s.td_state[child] = "none", s.td_state[t] # "none",
           t = s.curthread \/ ~ChildRunsFirst
    PROVE  FairStep(s, ForkThread(s, t, child, prio))
<1> DEFINE a == [s.td_state EXCEPT ![child] = "new"]
           b == [s.pri_class EXCEPT ![child] = s.pri_class[t]]
           c == [s.p_nice EXCEPT ![child] = s.p_nice[t]]
           d == [s.weight EXCEPT ![child] = s.weight[t]]
           e == [s.td_priority EXCEPT ![child] = prio]
           s1 == [s EXCEPT !.td_state[child] = "new",
                           !.pri_class[child] = s.pri_class[t],
                           !.p_nice[child] = s.p_nice[t],
                           !.weight[child] = s.weight[t],
                           !.td_priority[child] = prio]
           z == UpdateCurr(UpdateRqClock(s1))
           r == PssFork(s1, t, child)
<1>0. /\ s \in State /\ s.pri_class \in [Thread -> PriClass]
      /\ s.p_nice[t] \in Nice /\ s.weight[t] \in Nat \ {0}
      /\ s.joined \subseteq Thread /\ s.pri_class[t] \in PriClass
    BY StateFields DEF Settled, Consistent
<1>1. Settled(s1) /\ s1.curthread = s.curthread /\ s1 \in State
    <2>1. SettledOn(s, s1)
        BY ZenonT(60), <1>0, NewThreadSettles
    <2> HIDE DEF s1
    <2> QED
        BY SMTT(60), <2>1 DEF SettledOn, Settled, Consistent
<1>2. /\ s1.joined = s.joined /\ s1.pri_class = b /\ SameClock(s, s1)
    <2>1. s1 = [s EXCEPT !.td_state = a, !.pri_class = b, !.p_nice = c,
                         !.weight = d, !.td_priority = e]
        BY <1>0, ZenonT(60)
    <2> HIDE DEF a, b, c, d, e, s1
    <2> QED
        BY <1>0, <2>1 DEF SameClock, State
<1>3. ForkThread(s, t, child, prio) = IF IsPss(s, t) THEN r ELSE s1
    BY DEF ForkThread
<1>4. child \notin s.joined /\ child # t
    BY DEF Settled, JoinedInv
<1> HIDE DEF s1
<1>5. PssJoined(s1) = PssJoined(s) /\ PssJoined(s) \subseteq Thread \ {child}
    BY <1>0, <1>2, <1>4 DEF PssJoined, IsPss
<1>6. Orderly(s1) /\ FlowsOn(s, s1)
    <2>1. Orderly(s1)
        BY <1>2 DEF SameClock, Orderly
    <2>2. Flows(s, s1, PssJoined(s))
        BY <1>0, <1>2, <1>5, FlowsReflexive DEF SameClock
    <2> QED
        BY <2>1, <2>2 DEF FlowsOn
<1>7. /\ UpdateRqClock(s1) \in State /\ SameQueues(s1, UpdateRqClock(s1))
      /\ SameClock(s1, UpdateRqClock(s1))
    BY <1>1, UpdateRqClockKeeps, RequestClock, StateFields
<1>8. FlowsOn(s1, z) /\ z \in State /\ SameQueues(s1, z)
    BY <1>1, <1>6, <1>7, ChargeFlowsOn, UpdateCurrKeeps, SameQueuesTransitive
<1>9. /\ r.vtime = z.vtime /\ r.timeline = z.timeline
      /\ \A u \in Thread \ {t, child} : r.vruntime[u] = z.vruntime[u]
      /\ z.vruntime[t] <= r.vruntime[t]
      /\ ~ChildRunsFirst => r.vruntime[t] = z.vruntime[t]
    BY <1>1, <1>4, PssForkMoves
<1>10. r \in State
    BY <1>1, PssForkKeeps
<1> HIDE DEF z, r
<1>11. ToSet(z.timeline) \subseteq Thread \ {child}
    <2>1. z.timeline = s1.timeline
        BY <1>8 DEF SameQueues, SameSfq
    <2> QED
        BY <1>0, <1>1, <1>2, <1>4, <2>1
        DEF Settled, Consistent, TreeOK, Waiting
<1>12. \A u \in ToSet(z.timeline) : r.vruntime[u] = z.vruntime[u]
    <2>1. CASE ~ChildRunsFirst
        BY <1>9, <1>11, <2>1
    <2>2. CASE t = s.curthread
        <3>1. z.timeline = s1.timeline
            BY <1>8 DEF SameQueues, SameSfq
        <3>2. s1.td_state[t] = "running"
            BY <1>1, <2>2 DEF Settled, JoinedInv
        <3>3. t \notin ToSet(z.timeline)
            BY <1>1, <3>1, <3>2 DEF Settled, Consistent, TreeOK, Waiting
        <3> QED
            BY <1>9, <1>11, <3>3
    <2> QED
        BY <2>1, <2>2
<1>13. Orderly(r)
    BY <1>8, <1>9, <1>12, OrderlyFrame DEF FlowsOn
<1>14. Flows(z, r, PssJoined(s))
    <2>1. /\ z.vtime \in Int
          /\ \A u \in Thread : z.vruntime[u] \in Int
        BY <1>8, StateFields
    <2> QED
        BY <1>5, <1>9, <2>1 DEF Flows, FlowsTo
<1>15. FlowsOn(s, r)
    <2>1. Flows(s1, z, PssJoined(s))
        BY <1>5, <1>8 DEF FlowsOn
    <2>2. Flows(s1, r, PssJoined(s))
        BY <1>1, <1>5, <1>8, <1>10, <1>14, <2>1, FlowsTransitive
    <2> QED
        BY <1>2, <1>13, <2>2 DEF FlowsOn, Flows, FlowsTo, SameClock
<1> QED
    BY <1>3, <1>6, <1>15, FlowsOnFair

-----------------------------------------------------------------------------
(* The detour of sched_nice and sched_class: the thread is out of the      *)
(* queues, its weight or class changes, and it comes back.                 *)

(* In a, the thread t of s is out of the queues. *)
Out(s, a, t) ==
    /\ Consistent(a)
    /\ a.td_state = s.td_state
    /\ a.joined = s.joined \ {t}
    /\ a.curthread = s.curthread
    /\ \A u \in Thread \ {t} : a.pri_class[u] = s.pri_class[u]
    /\ a.curr = IF t = s.curthread THEN NULL ELSE s.curr
    /\ OnlyPlace(s, a, t) /\ a.td_priority = s.td_priority

(* After dequeue, and put_prev if it runs, the thread is out. *)
LEMMA DetourOut ==
    ASSUME NEW s, NEW t \in s.joined, NEW d, NEW p,
           Settled(s), Consistent(d), Leaves(s, d, t),
           IF s.td_state[t] = "running"
           THEN /\ Consistent(p) /\ SameThreads(d, p) /\ SameRunq(d, p)
                /\ p.curr = IF IsPss(d, t) THEN NULL ELSE d.curr
           ELSE p = d
    PROVE  Out(s, p, t)
<1>1. t \in Thread /\ (s.td_state[t] = "running" <=> t = s.curthread)
    BY StateFields DEF Settled, Consistent, JoinedInv
<1>2. s.curr = IF IsPss(s, s.curthread) THEN s.curthread ELSE NULL
    BY DEF Settled, CurrInv
<1>3. CASE s.td_state[t] = "running"
    BY <1>1, <1>2, <1>3
    DEF Out, Leaves, SameElse, SameThreads, SameRunq, OnlyPlace, IsPss
<1>4. CASE s.td_state[t] # "running"
    BY <1>1, <1>4 DEF Out, Leaves, SameElse
<1> QED
    BY <1>3, <1>4

(* After enqueue, and activate if it ran, the thread is where it was and   *)
(* the queues are settled, in its new class too.                           *)
LEMMA DetourBack ==
    ASSUME NEW s, NEW t \in s.joined, NEW a, NEW b, NEW c,
           Settled(s), Out(s, a, t), Consistent(b), Joins(a, b, t),
           c = IF s.td_state[t] = "running" THEN ClassActivate(b, t) ELSE b
    PROVE  /\ SettledOn(s, c)
           /\ c.td_state[t] = s.td_state[t]
           /\ OthersStay(s, c, t)
           /\ c.pri_class = a.pri_class
<1>1. /\ t \in Thread /\ s.td_state \in [Thread -> TdState]
      /\ s.curthread \in Running
    BY StateFields DEF Settled, Consistent
<1>2. /\ s.joined = {u \in Thread : s.td_state[u] \in {"runq", "running"}}
      /\ \A u \in Thread : s.td_state[u] = "running" <=> u = s.curthread
      /\ s.curr = IF IsPss(s, s.curthread) THEN s.curthread ELSE NULL
    BY DEF Settled, JoinedInv, CurrInv
<1>3. /\ b.td_state = [s.td_state EXCEPT ![t] = "runq"]
      /\ b.joined = s.joined
      /\ b.curthread = s.curthread
      /\ \A u \in Thread \ {t} : b.pri_class[u] = s.pri_class[u]
      /\ b.curr = IF t = s.curthread THEN NULL ELSE s.curr
      /\ b.pri_class = a.pri_class
    BY DEF Out, Joins, SameElse
<1>6. ASSUME Consistent(c), c = b \/ Starts(b, c, t)
      PROVE  OthersStay(s, c, t)
    <2>1. ToSet(c.realtime) \subseteq Thread
        BY <1>6, StateFields DEF Consistent, RunqOK, Waiting
    <2>2. c.td_priority = s.td_priority /\ OnlyPlace(s, c, t)
        BY <1>6 DEF Starts, Joins, Out, SameElse, OnlyPlace
    <2> QED
        BY <2>1, <2>2 DEF OthersStay, OnlyPlace
<1>4. CASE s.td_state[t] = "running"
    <2>1. t = s.curthread
        BY <1>1, <1>2, <1>4
    <2>2. t \in Waiting(b) /\ b.curr = NULL
        BY <1>1, <1>3, <2>1 DEF Waiting
    <2>3. Consistent(c) /\ Starts(b, c, t)
        BY <1>4, <2>2, ActivateStarts
    <2>4. /\ c.td_state = [b.td_state EXCEPT ![t] = "running"]
          /\ c.joined = s.joined
          /\ c.curthread = t
          /\ c.pri_class = b.pri_class
          /\ c.curr = IF IsPss(b, t) THEN t ELSE NULL
        BY <1>3, <2>1, <2>2, <2>3 DEF Starts, SameElse
    <2>5. c.td_state = s.td_state
        BY <1>1, <1>3, <1>4, <2>4
    <2>6. JoinedInv(c)
        BY <1>2, <2>1, <2>4, <2>5 DEF JoinedInv
    <2>7. CurrInv(c)
        BY <2>4 DEF CurrInv, IsPss
    <2> QED
        BY <1>3, <1>6, <2>1, <2>3, <2>4, <2>5, <2>6, <2>7
        DEF Settled, SettledOn
<1>5. CASE s.td_state[t] # "running"
    <2>1. s.td_state[t] = "runq" /\ t # s.curthread
        BY <1>1, <1>2, <1>5
    <2>2. b.td_state = s.td_state
        BY <1>1, <1>3, <2>1
    <2>3. JoinedInv(b)
        BY <1>2, <1>3, <2>2 DEF JoinedInv
    <2>4. IsPss(b, s.curthread) <=> IsPss(s, s.curthread)
        BY <1>3, <2>1 DEF IsPss
    <2>5. CurrInv(b)
        BY <1>2, <1>3, <2>1, <2>4 DEF CurrInv
    <2> QED
        BY <1>3, <1>5, <1>6, <2>2, <2>3, <2>5 DEF Settled, SettledOn
<1> QED
    BY <1>4, <1>5

(* While t is away in a, the others have lost nothing since s, and what t  *)
(* takes along, relative to virtual time, is no less than it had.          *)
Away(s, a, t) ==
    /\ Orderly(a)
    /\ Flows(s, a, PssJoined(s) \ {t})
    /\ IsPss(s, t) =>
          Charged(a) /\ FlowsTo(s, a, t, a.vruntime[t] + a.vtime)

(* While t is out, the queues can be brought up to date, and everybody     *)
(* else is still counted.                                                  *)
LEMMA OutFair ==
    ASSUME NEW s, NEW t \in Thread, NEW a,
           Settled(s), Out(s, a, t), Orderly(a)
    PROVE  Fair(a) /\ PssJoined(s) \ {t} \subseteq Counted(a)
<1>1. /\ a \in State /\ TreeOK(a) /\ s.joined \subseteq Thread
      /\ NULL \notin Thread
    BY StateFields, ThreadAssumption DEF Out, Settled, Consistent
<1>2. a.curr = NULL \/ a.td_state[a.curr] = "running"
    BY DEF Out, Settled, CurrInv, JoinedInv, IsPss
<1>3. a.curr \notin Waiting(a)
    BY <1>1, <1>2 DEF Waiting, Out
<1>4. ASSUME NEW u \in PssJoined(s) \ {t}
      PROVE  u \in Counted(a)
    <2>1. /\ u \in a.joined /\ u \in Thread /\ IsPss(s, u) /\ IsPss(a, u)
          /\ a.td_state = s.td_state
        BY <1>1, <1>4 DEF PssJoined, IsPss, Out
    <2>2. CASE s.td_state[u] = "runq"
        BY <1>1, <2>1, <2>2 DEF TreeOK, Waiting, Counted
    <2>3. CASE s.td_state[u] = "running"
        BY <1>4, <2>1, <2>3 DEF Settled, JoinedInv, CurrInv, Out, Counted
    <2> QED
        BY <1>1, <1>4, <2>2, <2>3 DEF Settled, JoinedInv, PssJoined
<1> QED
    BY <1>3, <1>4, ConsistentFair DEF Out

(* After dequeue, and put_prev if it runs, the thread is away. *)
LEMMA DetourAway ==
    ASSUME Modulus = 0, NEW s, NEW t \in s.joined, Settled(s), Orderly(s),
           NEW d \in {ClassDequeue(s, t, FALSE), DequeueThread(s, t, FALSE)},
           Consistent(d), Leaves(s, d, t),
           NEW p \in {d, ClassPutPrev(d, t, "none"),
                      PutPrevThread(d, t, "none")}
    PROVE  /\ Away(s, p, t)
           /\ d = DequeueThread(s, t, FALSE) => p.unseen = 0
<1> DEFINE X == PssJoined(s) \ {t}
<1>1. t \in Thread /\ d \in State
    BY StateFields DEF Settled, Consistent
<1>2. Fair(s) /\ X \in SUBSET (Counted(s) \ {t})
      /\ (IsPss(s, t) => t \in Counted(s))
    BY SettledFair DEF PssJoined
<1>3. Away(s, d, t)
    <2>1. CASE d = ClassDequeue(s, t, FALSE)
        BY <1>2, <2>1, DequeueFlows DEF Settled, Away
    <2>2. CASE d = DequeueThread(s, t, FALSE)
        BY <1>2, <2>2, DequeueThreadFlows DEF Settled, Away
    <2> QED
        BY <2>1, <2>2
<1>4. d = DequeueThread(s, t, FALSE) => d.unseen = 0
    BY <1>2, DequeueThreadFlows DEF Settled
<1>5. /\ p.vtime = d.vtime /\ p.vruntime = d.vruntime
      /\ p.timeline = d.timeline /\ p.unseen = d.unseen
      /\ Charged(d) => Charged(p)
    <2>1. t \in Thread \ d.joined
        BY <1>1 DEF Leaves
    <2> QED
        BY <1>1, <2>1, PutPrevGoneTimes
<1> QED
    BY <1>3, <1>4, <1>5 DEF Away, Orderly, Flows, FlowsTo

(* After enqueue, and activate if it ran, nobody has lost anything; nor    *)
(* has the thread, if it is a timeshare one before and after.              *)
LEMMA DetourBackFair ==
    ASSUME Modulus = 0, NEW s, NEW t \in s.joined, NEW a, NEW b, NEW c,
           Settled(s), Out(s, a, t), Away(s, a, t),
           Consistent(b), Joins(a, b, t),
           \/ b = ClassEnqueue(a, t, FALSE)
           \/ b = EnqueueThread(a, t, FALSE) /\ a.unseen = 0,
           c = IF s.td_state[t] = "running" THEN ClassActivate(b, t) ELSE b
    PROVE  FairStep(s, c)
<1> DEFINE X == PssJoined(s) \ {t}
<1>1. t \in Thread /\ s.td_state \in [Thread -> TdState] /\ s \in State
    BY StateFields DEF Settled, Consistent
<1>2. Fair(a) /\ X \in SUBSET Counted(a) /\ t \notin a.joined
      /\ a \in State /\ b \in State /\ X \in SUBSET Thread
    BY <1>1, OutFair, StateFields
    DEF Away, Out, Consistent, PssJoined, Settled
<1>3. /\ Orderly(b) /\ Flows(a, b, X)
      /\ IsPss(s, t) /\ IsPss(a, t) =>
            b.vtime = a.vtime /\ b.vruntime[t] = a.vruntime[t] + a.vtime
    <2>1. CASE b = ClassEnqueue(a, t, FALSE)
        BY ZenonT(120), <1>1, <1>2, <2>1, EnqueueFlows DEF Out, Away
    <2>2. CASE b = EnqueueThread(a, t, FALSE) /\ a.unseen = 0
        BY ZenonT(120), <1>1, <1>2, <2>2, EnqueueThreadFlows DEF Out, Away
    <2> QED
        BY <2>1, <2>2
<1>4. Flows(s, b, X)
    BY <1>1, <1>2, <1>3, FlowsTransitive DEF Away
<1>5. IsPss(s, t) /\ IsPss(a, t) => FlowsTo(s, b, t, b.vruntime[t])
    BY <1>3 DEF Away, FlowsTo
<1>6. /\ Orderly(c) /\ c.vtime = b.vtime /\ c.vruntime = b.vruntime
      /\ c.pri_class = a.pri_class
    <2>1. b.pri_class = a.pri_class
        BY DEF Joins, SameElse
    <2>2. CASE s.td_state[t] = "running"
        <3>1. t = s.curthread
            BY <1>1, <2>2 DEF Settled, JoinedInv
        <3>2. t \in Waiting(b) /\ b.curr = NULL
            BY <1>1, <3>1 DEF Waiting, Joins, Out
        <3>3. c = ClassActivate(b, t)
            BY <2>2
        <3>4. c.pri_class = b.pri_class
            BY ZenonT(60), <3>2, <3>3, ActivateStarts DEF Starts, SameElse
        <3>5. Orderly(c) /\ c.vtime = b.vtime /\ c.vruntime = b.vruntime
            BY <1>3, <3>2, <3>3, ActivateOrderly
        <3> QED
            BY <2>1, <3>4, <3>5
    <2>3. CASE s.td_state[t] # "running"
        BY <1>3, <2>1, <2>3
    <2> QED
        BY <2>2, <2>3
<1>7. ASSUME NEW u \in PssJoined(s) \cap PssJoined(c)
      PROVE  FlowsTo(s, b, u, b.vruntime[u])
    <2>1. CASE u \in X
        BY <1>4, <2>1 DEF Flows
    <2>2. CASE u \notin X
        <3>1. u = t /\ IsPss(s, t) /\ IsPss(a, t)
            BY <1>6, <1>7, <2>2 DEF PssJoined, IsPss
        <3> QED
            BY <1>5, <3>1
    <2> QED
        BY <2>1, <2>2
<1>8. s.vtime <= b.vtime
    BY <1>4 DEF Flows
<1> QED
    BY <1>6, <1>7, <1>8 DEF FairStep, Flows, FlowsTo

(* Writing the weight or the class of a thread that is away. *)
LEMMA AwayTimes ==
    ASSUME NEW s, NEW a, NEW b, NEW t, Away(s, a, t),
           SameTimes(a, b), b.timeline = a.timeline, b.curr = a.curr
    PROVE  Away(s, b, t)
    BY DEF Away, SameTimes, Orderly, Flows, FlowsTo, Charged

(* A call that first is fair and then leaves everybody where it is. *)
LEMMA FairStepAfter ==
    ASSUME NEW s \in State, NEW z \in State, NEW r \in State,
           FairStep(s, z), FlowsOn(z, r), SameThreads(z, r)
    PROVE  FairStep(s, r)
<1> DEFINE X == PssJoined(s) \cap PssJoined(z)
<1>1. PssJoined(r) = PssJoined(z) /\ X \in SUBSET Thread
    BY StateFields DEF PssJoined, IsPss, SameThreads
<1>2. Flows(s, z, X) /\ Flows(z, r, X)
    BY FlowsOfFewer DEF FairStep, FlowsOn
<1> QED
    BY <1>1, <1>2, FlowsTransitive DEF FairStep, FlowsOn

(* A call that changes no time and nobody's place in the tree. *)
LEMMA SameClockFair ==
    ASSUME NEW s \in State, NEW r, Orderly(s), SameClock(s, r)
    PROVE  FairStep(s, r)
<1>1. PssJoined(s) \cap PssJoined(r) \subseteq Thread
    BY StateFields DEF PssJoined
<1> QED
    BY <1>1, FlowsReflexive DEF SameClock, FairStep, Orderly

(* Writing p_nice leaves the queues alone. *)
LEMMA SetPNiceKeeps ==
    ASSUME NEW s \in State, NEW t \in Thread, NEW nice \in Nice
    PROVE  /\ [s EXCEPT !.p_nice[t] = nice] \in State
           /\ SameQueues(s, [s EXCEPT !.p_nice[t] = nice])
<1> DEFINE f == [s.p_nice EXCEPT ![t] = nice]
<1>1. f \in [Thread -> Nice]
    <2>1. s.p_nice \in [Thread -> Nice]
        BY StateFields
    <2> QED
        BY <2>1
<1>2. [s EXCEPT !.p_nice[t] = nice] = [s EXCEPT !.p_nice = f]
    OBVIOUS
<1> HIDE DEF f
<1>3. [s EXCEPT !.p_nice = f] \in State
    BY <1>1, ZenonT(60) DEF State
<1>4. SameQueues(s, [s EXCEPT !.p_nice = f])
    BY DEF SameQueues, SameThreads, SameSfq, SameCandidates, SameRunq, State
<1> QED
    BY <1>2, <1>3, <1>4

(* sched_nice, of a thread in any state: one that waited in the real-time  *)
(* queue comes back to it, and one that did not stays out of it.  The tree *)
(* stays in order, and nobody loses virtual time, the thread included.     *)
LEMMA SetNiceSettles ==
    ASSUME NEW s, NEW t \in Thread, NEW nice \in Nice, Settled(s)
    PROVE  LET r == SetNice(s, t, nice)
           IN  /\ SettledOn(s, r) /\ OthersStay(s, r, s.curthread)
               /\ Modulus = 0 /\ Orderly(s) => FairStep(s, r)
<1> DEFINE delta   == s.p_nice[t] - nice
           running == s.td_state[t] = "running"
           queued  == s.td_state[t] = "runq" \/ running
           s0 == [s EXCEPT !.p_nice[t] = nice]
           s1 == IF queued THEN DequeueThread(s0, t, FALSE) ELSE s0
           s2 == IF running THEN PutPrevThread(s1, t, "none") ELSE s1
           s3 == SetThreadWeight(s2, t)
           s4 == IF queued THEN EnqueueThread(s3, t, FALSE) ELSE s3
           s5 == IF running THEN ClassActivate(s4, t) ELSE s4
<1>1. SetNice(s, t, nice) =
         IF ~IsPss(s, t) THEN SetThreadWeight(s0, t)
         ELSE IF delta < 0 \/ (delta > 0 /\ running)
         THEN ReschedThread(s5, s5.curthread) ELSE s5
    BY DEF SetNice
<1>2. /\ s \in State /\ s0 \in State /\ SameQueues(s, s0)
      /\ SameTimes(s, s0)
    BY SetPNiceKeeps, FieldTimes DEF Settled, Consistent
<1> HIDE DEF s0
<1>3. /\ Settled(s0) /\ s0.td_state = s.td_state /\ s0.joined = s.joined
      /\ s0.curthread = s.curthread
    BY <1>2, SameQueuesSettled DEF SameQueues, SameThreads
<1>8. SameClock(s, s0) /\ PssJoined(s0) = PssJoined(s)
      /\ (Orderly(s) => Orderly(s0))
    BY <1>2, SameTimesOrderly
    DEF SameClock, SameTimes, SameQueues, SameSfq, SameThreads, PssJoined,
        IsPss
<1>5. queued <=> t \in s0.joined
    BY <1>3 DEF Settled, JoinedInv
<1>4. ASSUME ~ IsPss(s, t) \/ ~ queued
      PROVE  LET r == SetThreadWeight(s0, t)
             IN  /\ SettledOn(s, r) /\ OthersStay(s, r, s.curthread)
                 /\ Orderly(s) => FairStep(s, r)
    <2> DEFINE r == SetThreadWeight(s0, t)
    <2>1. r \in State /\ OnlyWeight(s0, r, t)
        BY <1>2, SetThreadWeightEffect
    <2>7. SameTimes(s0, r)
        BY <1>2, FieldTimes DEF SetThreadWeight
    <2> HIDE DEF r
    <2>2. t \notin PssJoined(s0)
        BY <1>2, <1>4, <1>5 DEF PssJoined, IsPss, SameQueues, SameThreads
    <2>3. Consistent(r)
        BY <1>3, <2>1, <2>2, OnlyWeightConsistent DEF Settled
    <2>4. JoinedInv(r) /\ CurrInv(r)
        BY <1>3, <2>1
        DEF Settled, JoinedInv, CurrInv, IsPss, OnlyWeight, SameSfq
    <2>5. OthersStay(s, r, s.curthread)
        BY <1>2, <2>1
        DEF OthersStay, OnlyWeight, SameQueues, SameThreads, SameRunq
    <2>6. Orderly(s) => FairStep(s, r)
        <3>1. SameClock(s, r)
            BY SMTT(60), <1>8, <2>1, <2>7
               DEF SameClock, SameTimes, OnlyWeight, SameSfq
        <3> QED
            BY <1>2, <3>1, SameClockFair
    <2> QED
        BY <1>3, <2>1, <2>3, <2>4, <2>5, <2>6
        DEF Settled, SettledOn, OnlyWeight, r
<1>6. IsPss(s, t) =>
         /\ SettledOn(s, s5) /\ OthersStay(s, s5, s.curthread)
         /\ Modulus = 0 /\ Orderly(s) => FairStep(s, s5)
    <2> SUFFICES ASSUME IsPss(s, t)
                 PROVE  /\ SettledOn(s, s5) /\ OthersStay(s, s5, s.curthread)
                        /\ Modulus = 0 /\ Orderly(s) => FairStep(s, s5)
        OBVIOUS
    <2>1. CASE queued
        <3>1. s1 = DequeueThread(s0, t, FALSE)
            BY <2>1
        <3> HIDE DEF s1
        <3>2. Consistent(s1) /\ Leaves(s0, s1, t)
            BY <1>3, <1>5, <2>1, <3>1, DequeueThreadLeaves DEF Settled
        <3>3. t \notin s1.joined
            BY <3>2 DEF Leaves
        <3>4. IF s0.td_state[t] = "running"
              THEN /\ Consistent(s2) /\ SameThreads(s1, s2) /\ SameRunq(s1, s2)
                   /\ s2.curr = IF IsPss(s1, t) THEN NULL ELSE s1.curr
              ELSE s2 = s1
            BY <1>3, <3>2, <3>3, PutPrevThreadGone
        <3>16. s2 \in {s1, PutPrevThread(s1, t, "none")}
            OBVIOUS
        <3> HIDE DEF s2
        <3>5. Out(s0, s2, t)
            BY <1>3, <1>5, <2>1, <3>2, <3>4, DetourOut
        <3>6. s3 \in State /\ OnlyWeight(s2, s3, t)
            BY <3>5, SetThreadWeightEffect DEF Out, Consistent
        <3>17. SameTimes(s2, s3)
            BY <3>5, FieldTimes DEF SetThreadWeight, Out, Consistent
        <3> HIDE DEF s3
        <3>7. Consistent(s3)
            <4>1. t \notin PssJoined(s2)
                BY <3>5 DEF Out, PssJoined
            <4> QED
                BY <3>5, <3>6, <4>1, OnlyWeightConsistent DEF Out
        <3>8. Out(s0, s3, t)
            BY <3>5, <3>6, <3>7
            DEF Out, OnlyWeight, SameSfq, SameRunq, OnlyPlace
        <3>9. t \notin s3.joined
            BY <3>8 DEF Out
        <3>10. s4 = EnqueueThread(s3, t, FALSE)
            BY <2>1
        <3> HIDE DEF s4
        <3>11. Consistent(s4) /\ Joins(s3, s4, t)
            BY <3>7, <3>9, <3>10, EnqueueThreadJoins
        <3>12. s5 = IF s0.td_state[t] = "running" THEN ClassActivate(s4, t)
                    ELSE s4
            BY <1>3
        <3>15. t # s.curthread => s5 = s4
            BY <1>3, <3>12 DEF Settled, JoinedInv
        <3> HIDE DEF s5
        <3>13. SettledOn(s, s5) /\ OthersStay(s0, s5, t)
            BY <1>3, <1>5, <2>1, <3>8, <3>11, <3>12, DetourBack DEF SettledOn
        <3>14. ASSUME t # s.curthread, t \in ToSet(s5.realtime)
               PROVE  /\ t \in ToSet(s.realtime)
                      /\ s5.td_priority[t] = s.td_priority[t]
            <4>1. /\ s3.td_priority = s.td_priority
                  /\ s4.td_priority = s.td_priority
                BY <1>2, <3>8, <3>11
                DEF Out, Joins, SameElse, SameQueues, SameThreads
            <4>2. IsPss(s3, t)
                BY <1>2, <3>2, <3>4, <3>6
                DEF Leaves, SameElse, OnlyWeight, IsPss, SameQueues, SameThreads
            <4>3. s.td_priority[t] < NORMAL_PRI
                BY <3>7, <3>9, <3>10, <3>14, <3>15, <4>1, <4>2,
                   EnqueueThreadRaised
            <4>4. t \in Waiting(s)
                BY <1>3, <1>5, <2>1, <3>14 DEF Waiting, Settled, JoinedInv
            <4> QED
                BY <3>14, <3>15, <4>1, <4>3, <4>4
                DEF Settled, Consistent, RunqOK
        <3>18. ASSUME Modulus = 0, Orderly(s)
               PROVE  FairStep(s, s5)
            <4>1. Away(s0, s2, t) /\ s2.unseen = 0
                BY ZenonT(60), <1>3, <1>5, <1>8, <2>1, <3>1, <3>2, <3>16,
                   <3>18, DetourAway
            <4>2. Away(s0, s3, t) /\ s3.unseen = 0
                BY <3>6, <3>17, <4>1, AwayTimes
                DEF OnlyWeight, SameSfq, SameTimes
            <4>3. FairStep(s0, s5)
                BY <1>3, <1>5, <2>1, <3>8, <3>10, <3>11, <3>12, <3>18, <4>2,
                   DetourBackFair
            <4> QED
                BY <1>8, <4>3 DEF FairStep, Flows, FlowsTo, SameClock
        <3> QED
            BY <1>2, <3>13, <3>14, <3>18
            DEF OthersStay, SameQueues, SameThreads, SameRunq
    <2>2. CASE ~queued
        BY <1>4, <2>2
    <2> QED
        BY <2>1, <2>2
<1> HIDE DEF s5, delta, running
<1>7. ASSUME IsPss(s, t)
      PROVE  LET r == ReschedThread(s5, s5.curthread)
             IN  /\ SettledOn(s, r) /\ OthersStay(s, r, s.curthread)
                 /\ Modulus = 0 /\ Orderly(s) => FairStep(s, r)
    <2> DEFINE r == ReschedThread(s5, s5.curthread)
    <2>1. s5.curthread \in Running /\ Settled(s5)
        BY <1>6, <1>7, StateFields DEF SettledOn, Settled, Consistent
    <2>2. StaysSettled(s5, r)
        BY <2>1, ReschedStays
    <2>3. SameClock(s5, r)
        BY <2>1, RequestClock DEF Settled, Consistent
    <2> HIDE DEF r
    <2>4. FairStep(s, s5) => FairStep(s, r)
        BY <2>2, <2>3
        DEF FairStep, StaysSettled, SameClock, Orderly, Flows, FlowsTo,
            SameThreads, PssJoined, IsPss
    <2>5. SettledOn(s, r) /\ OthersStay(s, r, s.curthread)
        BY <1>6, <1>7, <2>2
        DEF StaysSettled, SettledOn, SameThreads, SameRunq, OthersStay
    <2> QED
        BY <1>6, <1>7, <2>4, <2>5 DEF r
<1> QED
    BY <1>1, <1>4, <1>6, <1>7

(* The class of a thread that is not runnable may change. *)
LEMMA SetPriClassEffect ==
    ASSUME NEW s, NEW t \in Thread, NEW class \in PriClass,
           Consistent(s), t \notin s.joined
    PROVE  LET r == [s EXCEPT !.pri_class[t] = class]
           IN  /\ Consistent(r)
               /\ r.td_state = s.td_state
               /\ r.joined = s.joined
               /\ r.curthread = s.curthread
               /\ r.curr = s.curr
               /\ r.td_priority = s.td_priority
               /\ SameRunq(s, r)
               /\ r.pri_class = [s.pri_class EXCEPT ![t] = class]
<1> DEFINE f == [s.pri_class EXCEPT ![t] = class]
           r == [s EXCEPT !.pri_class = f]
<1>0. s \in State /\ s.joined \subseteq Thread
    BY StateFields DEF Consistent
<1>1. /\ f \in [Thread -> PriClass]
      /\ \A u \in Thread \ {t} : f[u] = s.pri_class[u]
    <2>1. s.pri_class \in [Thread -> PriClass]
        BY <1>0, StateFields
    <2> QED
        BY <2>1
<1>2. [s EXCEPT !.pri_class[t] = class] = r
    OBVIOUS
<1> HIDE DEF f
<1>3. r \in State
    BY <1>0, <1>1, ZenonT(60) DEF State
<1>4. /\ r.pri_class = f
      /\ SameSfq(s, r)
      /\ r.td_state = s.td_state
      /\ r.td_priority = s.td_priority
      /\ r.joined = s.joined
      /\ SameCounts(s, r)
      /\ r.curthread = s.curthread
      /\ r.panics = s.panics
      /\ SameRunq(s, r)
    BY <1>0 DEF SameCounts, SameSfq, SameCandidates, SameRunq, State
<1> HIDE DEF r
<1>5. \A u \in s.joined :
         (IsPss(r, u) <=> IsPss(s, u)) /\ (IsRt(r, u) <=> IsRt(s, u))
    BY <1>0, <1>1, <1>4 DEF IsPss, IsRt
<1>6. Waiting(r) = Waiting(s) /\ PssJoined(r) = PssJoined(s)
    BY <1>4, <1>5 DEF Waiting, PssJoined
<1>7. TreeOK(r)
    <2>1. {u \in Waiting(r) : IsPss(r, u)} = {u \in Waiting(s) : IsPss(s, u)}
        BY <1>5, <1>6 DEF Waiting
    <2> QED
        BY <1>4, <2>1 DEF Consistent, TreeOK, SameSfq
<1>8. RunqOK(r)
    <2>1. RunqShape(r)
        BY <1>4, SameRunqShape DEF Consistent, RunqOK
    <2> QED
        BY <1>4, <1>5, <1>6, <2>1 DEF Consistent, RunqOK, Waiting, SameRunq
<1>9. Consistent(r)
    BY <1>3, <1>4, <1>6, <1>7, <1>8
    DEF Consistent, CandidateInv, CountOK, SameCounts, SameSfq, SameCandidates
<1>10. r.curr = s.curr
    BY <1>4 DEF SameSfq
<1> QED
    BY <1>2, <1>4, <1>9, <1>10 DEF f

(* sched_class, of a thread in any state, from and to any class; for one   *)
(* that has not started, see SchedClass.  No other thread comes into the   *)
(* real-time queue or moves in it, the tree stays in order, and no thread  *)
(* that is a timeshare one before and after loses virtual time.            *)
LEMMA SetClassSettles ==
    ASSUME NEW s, NEW t \in Thread, NEW class \in PriClass, Settled(s),
           s.td_state[t] # "none",
           s.td_state[t] = "new" =>
               class \in RtClass \/ IsRt(s, s.curthread)
    PROVE  LET r == SetClass(s, t, class)
           IN  /\ SettledOn(s, r)
               /\ OthersStay(s, r, t)
               /\ r.pri_class[t] = class
               /\ Modulus = 0 /\ Orderly(s) => FairStep(s, r)
<1> DEFINE running == s.td_state[t] = "running"
           queued  == s.td_state[t] = "runq" \/ running
           s1 == IF queued THEN ClassDequeue(s, t, FALSE) ELSE s
           s2 == IF running THEN ClassPutPrev(s1, t, "none") ELSE s1
           s3 == [s2 EXCEPT !.pri_class[t] = class]
           s4 == IF queued THEN ClassEnqueue(s3, t, FALSE) ELSE s3
           s5 == IF running THEN ClassActivate(s4, t) ELSE s4
<1>1. SetClass(s, t, class) =
         IF IsPss(s, t) /\ IsRt(s5, t) THEN PssSwitchedFrom(s5, t)
         ELSE IF IsRt(s, t) /\ IsPss(s5, t) THEN PssSwitchedTo(s5, t)
         ELSE s5
    BY DEF SetClass
<1>2. queued <=> t \in s.joined
    BY DEF Settled, JoinedInv
<1>3. /\ s.td_state[t] \in TdState /\ s.pri_class \in [Thread -> PriClass]
      /\ s \in State
    BY SMTT(120), StateFields DEF Settled, Consistent
<1>4. /\ SettledOn(s, s5)
      /\ OthersStay(s, s5, t)
      /\ s5.pri_class[t] = class
      /\ \/ s5.td_state[t] \in {"sleeping", "runq", "running"}
         \/ IsRt(s5, s5.curthread)
         \/ ~ IsPss(s5, t)
      /\ Modulus = 0 /\ Orderly(s) => FairStep(s, s5)
    <2>1. CASE queued
        <3>1. s1 = ClassDequeue(s, t, FALSE)
            BY <2>1
        <3> HIDE DEF s1
        <3>2. Consistent(s1) /\ Leaves(s, s1, t)
            BY <1>2, <2>1, <3>1, DequeueLeaves DEF Settled
        <3>3. t \notin s1.joined
            BY <3>2 DEF Leaves
        <3>4. IF s.td_state[t] = "running"
              THEN /\ Consistent(s2) /\ SameThreads(s1, s2) /\ SameRunq(s1, s2)
                   /\ s2.curr = IF IsPss(s1, t) THEN NULL ELSE s1.curr
              ELSE s2 = s1
            BY <3>2, <3>3, PutPrevGone
        <3>14. s2 \in {s1, ClassPutPrev(s1, t, "none")}
            OBVIOUS
        <3> HIDE DEF s2
        <3>5. Out(s, s2, t)
            BY <1>2, <2>1, <3>2, <3>4, DetourOut
        <3>6. /\ Consistent(s3)
              /\ s3.td_state = s2.td_state
              /\ s3.joined = s2.joined
              /\ s3.curthread = s2.curthread
              /\ s3.curr = s2.curr
              /\ s3.td_priority = s2.td_priority
              /\ SameRunq(s2, s3)
              /\ s3.pri_class = [s2.pri_class EXCEPT ![t] = class]
            BY <3>5, SetPriClassEffect DEF Out
        <3>15. SameTimes(s2, s3) /\ s3.timeline = s2.timeline
            BY <3>5 DEF Out, Consistent, SameTimes, State
        <3> HIDE DEF s3
        <3>7. s2.pri_class \in [Thread -> PriClass]
            BY <3>5, StateFields DEF Out, Consistent
        <3>8. Out(s, s3, t)
            BY <3>5, <3>6, <3>7 DEF Out, OnlyPlace, SameRunq
        <3>9. t \notin s3.joined
            BY <3>8 DEF Out
        <3>10. s4 = ClassEnqueue(s3, t, FALSE)
            BY <2>1
        <3> HIDE DEF s4
        <3>11. Consistent(s4) /\ Joins(s3, s4, t)
            BY <3>6, <3>9, <3>10, EnqueueJoins
        <3>12. s5 = IF s.td_state[t] = "running" THEN ClassActivate(s4, t)
                    ELSE s4
            OBVIOUS
        <3> HIDE DEF s5
        <3>13. /\ SettledOn(s, s5) /\ OthersStay(s, s5, t)
               /\ s5.td_state[t] = s.td_state[t]
               /\ s5.pri_class = s3.pri_class
            BY <1>2, <2>1, <3>8, <3>11, <3>12, DetourBack
        <3>16. ASSUME Modulus = 0, Orderly(s)
               PROVE  FairStep(s, s5)
            <4>1. Away(s, s2, t)
                BY <1>2, <2>1, <3>1, <3>2, <3>14, <3>16, DetourAway
            <4>2. Away(s, s3, t)
                BY <3>6, <3>15, <4>1, AwayTimes
            <4> QED
                BY <1>2, <2>1, <3>8, <3>10, <3>11, <3>12, <3>16, <4>2,
                   DetourBackFair
        <3> QED
            BY <2>1, <3>6, <3>7, <3>13, <3>16
    <2>2. CASE ~queued
        <3>1. s5 = [s EXCEPT !.pri_class[t] = class]
            BY <2>2
        <3>10. SameClock(s, s5)
            BY ZenonT(60), <1>3, <3>1 DEF SameClock, State
        <3> HIDE DEF s5
        <3>2. /\ Consistent(s5)
              /\ s5.td_state = s.td_state
              /\ s5.joined = s.joined
              /\ s5.curthread = s.curthread
              /\ s5.curr = s.curr
              /\ s5.td_priority = s.td_priority
              /\ SameRunq(s, s5)
              /\ s5.pri_class = [s.pri_class EXCEPT ![t] = class]
            BY <1>2, <2>2, <3>1, SetPriClassEffect DEF Settled
        <3>3. t # s.curthread
            BY <2>2 DEF Settled, JoinedInv
        <3>4. /\ IsPss(s5, s.curthread) <=> IsPss(s, s.curthread)
              /\ IsRt(s5, s.curthread) <=> IsRt(s, s.curthread)
            BY <1>3, <3>2, <3>3 DEF IsPss, IsRt
        <3>5. JoinedInv(s5)
            BY <3>2 DEF Settled, JoinedInv
        <3>6. CurrInv(s5)
            BY <3>2, <3>4 DEF Settled, CurrInv
        <3>7. s.td_state[t] = "new" \/ s.td_state[t] = "sleeping"
            BY <1>3, <2>2 DEF TdState
        <3>8. s5.pri_class[t] = class /\ (IsPss(s5, t) => class \notin RtClass)
            BY <1>3, <3>2 DEF IsPss
        <3>9. OthersStay(s, s5, t)
            BY <3>2 DEF OthersStay, SameRunq
        <3>11. Orderly(s) => FairStep(s, s5)
            BY <1>3, <3>10, SameClockFair
        <3> QED
            BY SMTT(60), <3>2, <3>4, <3>5, <3>6, <3>7, <3>8, <3>9, <3>11
            DEF Settled, SettledOn
    <2> QED
        BY <2>1, <2>2
<1> HIDE DEF s5
<1>5. ASSUME NEW r, StaysSettled(s5, r),
             Modulus = 0 /\ Orderly(s5) => FlowsOn(s5, r)
      PROVE  /\ SettledOn(s, r) /\ OthersStay(s, r, t)
             /\ r.pri_class[t] = class
             /\ Modulus = 0 /\ Orderly(s) => FairStep(s, r)
    <2>1. /\ SettledOn(s, r) /\ OthersStay(s, r, t)
          /\ r.pri_class[t] = class
        BY <1>4, <1>5
        DEF SettledOn, StaysSettled, SameThreads, SameRunq, OthersStay
    <2>2. s5 \in State /\ r \in State /\ SameThreads(s5, r)
        BY <1>4, <1>5 DEF StaysSettled, SettledOn, Settled, Consistent
    <2>3. ASSUME Modulus = 0, Orderly(s)
          PROVE  FairStep(s, r)
        <3>1. FairStep(s, s5) /\ Orderly(s5)
            BY <1>4, <2>3 DEF FairStep
        <3> QED
            BY <1>3, <1>5, <2>2, <2>3, <3>1, FairStepAfter
    <2> QED
        BY <2>1, <2>3
<1>6. StaysSettled(s5, PssSwitchedFrom(s5, t))
    <2>1. s5 \in State
        BY <1>4 DEF SettledOn, Settled, Consistent
    <2> QED
        BY <1>4, <2>1, PssSwitchedFromKeeps, SameQueuesStays DEF SettledOn
<1>7. IsPss(s5, t) => StaysSettled(s5, PssSwitchedTo(s5, t))
    BY <1>4, PssSwitchedToStays DEF SettledOn
<1>8. Modulus = 0 /\ Orderly(s5) =>
         /\ FlowsOn(s5, PssSwitchedFrom(s5, t))
         /\ FlowsOn(s5, PssSwitchedTo(s5, t))
    BY <1>4, SwitchedFlows DEF SettledOn
<1> QED
    BY <1>1, <1>4, <1>5, <1>6, <1>7, <1>8

-----------------------------------------------------------------------------
(* sched_thread_priority *)

(* A new priority keeps the queues consistent if the thread is on the      *)
(* real-time queue whenever it has to be.                                  *)
LEMMA PriorityConsistent ==
    ASSUME NEW s, NEW r, NEW t \in Thread, NEW prio \in Pri,
           Settled(s), r \in State,
           SameSfq(s, r),
           r.td_state = s.td_state,
           r.joined = s.joined,
           r.pri_class = s.pri_class,
           r.curthread = s.curthread,
           SameCounts(s, r),
           r.panics = s.panics,
           r.td_priority = [s.td_priority EXCEPT ![t] = prio],
           RunqShape(r),
           ToSet(r.realtime) \subseteq Waiting(s),
           ToSet(s.realtime) \ {t} \subseteq ToSet(r.realtime),
           t \in Waiting(s) /\ (IsRt(s, t) \/ prio < NORMAL_PRI) =>
              t \in ToSet(r.realtime)
    PROVE  SettledOn(s, r)
<1>0. /\ s \in State /\ s.joined \subseteq Thread
      /\ s.td_priority \in [Thread -> Pri]
    BY StateFields DEF Settled, Consistent
<1>1. \A u : (IsPss(r, u) <=> IsPss(s, u)) /\ (IsRt(r, u) <=> IsRt(s, u))
    BY DEF IsPss, IsRt
<1>2. Waiting(r) = Waiting(s) /\ PssJoined(r) = PssJoined(s)
    BY <1>1 DEF Waiting, PssJoined
<1>3. TreeOK(r)
    BY <1>1, <1>2 DEF Settled, Consistent, TreeOK, SameSfq
<1>4. RunqOK(r)
    <2> SUFFICES ASSUME NEW u \in Waiting(s),
                        IsRt(s, u) \/ r.td_priority[u] < NORMAL_PRI
                 PROVE  u \in ToSet(r.realtime)
        BY <1>1, <1>2 DEF RunqOK
    <2>1. u \in Thread
        BY <1>0 DEF Waiting
    <2>2. CASE u = t
        BY <1>0, <2>2
    <2>3. CASE u # t
        <3>1. r.td_priority[u] = s.td_priority[u]
            BY <1>0, <2>1, <2>3
        <3>2. u \in ToSet(s.realtime)
            BY <3>1 DEF Settled, Consistent, RunqOK
        <3> QED
            BY <2>3, <3>2
    <2> QED
        BY <2>2, <2>3
<1>5. Consistent(r)
    BY <1>2, <1>3, <1>4
    DEF Settled, Consistent, CandidateInv, CountOK, SameCounts, SameSfq,
        SameCandidates
<1>6. JoinedInv(r)
    BY DEF Settled, JoinedInv
<1>7. CurrInv(r)
    BY <1>1 DEF Settled, CurrInv, SameSfq
<1> QED
    BY <1>5, <1>6, <1>7 DEF Settled, SettledOn

(* Writing td_priority changes nothing else. *)
LEMMA SetTdPriorityEffect ==
    ASSUME NEW s \in State, NEW t \in Thread, NEW prio \in Pri
    PROVE  LET r == [s EXCEPT !.td_priority[t] = prio]
           IN  /\ r \in State
               /\ SameSfq(s, r)
               /\ r.td_state = s.td_state
               /\ r.joined = s.joined
               /\ r.pri_class = s.pri_class
               /\ r.curthread = s.curthread
               /\ SameCounts(s, r)
               /\ r.panics = s.panics
               /\ SameRunq(s, r)
               /\ r.td_priority = [s.td_priority EXCEPT ![t] = prio]
<1> DEFINE f == [s.td_priority EXCEPT ![t] = prio]
           r == [s EXCEPT !.td_priority = f]
<1>1. f \in [Thread -> Pri]
    <2>1. s.td_priority \in [Thread -> Pri]
        BY StateFields
    <2> QED
        BY <2>1
<1>2. [s EXCEPT !.td_priority[t] = prio] = r
    OBVIOUS
<1> HIDE DEF f
<1>3. r \in State
    BY <1>1, ZenonT(60) DEF State
<1>4. /\ SameSfq(s, r)
      /\ r.td_state = s.td_state
      /\ r.joined = s.joined
      /\ r.pri_class = s.pri_class
      /\ r.curthread = s.curthread
      /\ SameCounts(s, r)
      /\ r.panics = s.panics
      /\ SameRunq(s, r)
      /\ r.td_priority = f
    BY DEF SameCounts, SameSfq, SameCandidates, SameRunq, State
<1> QED
    BY <1>2, <1>3, <1>4 DEF f

(* sched_thread_priority: a waiting thread that is raised is on the real-  *)
(* time queue afterwards, and one that is lowered stays where it is.       *)
LEMMA ThreadPrioritySettles ==
    ASSUME NEW s, NEW t \in Thread, NEW prio \in Pri, Settled(s)
    PROVE  LET r == ThreadPriority(s, t, prio)
           IN  SettledOn(s, r) /\ Asks(s, r) /\ SameClock(s, r)
<1> DEFINE d == RunqDequeue(s, t)
           e == [d EXCEPT !.td_priority[t] = prio]
           f == IF IsPss(s, t) THEN RunqEnqueueRaised(e, t, FALSE)
                               ELSE RunqAdd(e, t, FALSE)
           g == [s EXCEPT !.td_priority[t] = prio]
<1>0. /\ s \in State /\ RunqOK(s) /\ s.joined \subseteq Thread
      /\ s.td_priority \in [Thread -> Pri]
    BY StateFields DEF Settled, Consistent
<1>1. CASE s.td_state[t] = "runq" /\ prio < s.td_priority[t]
    <2>1. t \in Waiting(s)
        BY <1>1 DEF Settled, JoinedInv, Waiting
    <2>2. ThreadPriority(s, t, prio) = CheckPriorityPreempt(f, t)
        <3>1. CASE IsPss(s, t)
            BY <1>1, <3>1 DEF ThreadPriority, PssChangePriority
        <3>2. CASE ~ IsPss(s, t)
            <4>1. OnRunq(s, t)
                BY <1>0, <2>1, <3>2 DEF RunqOK, IsPss, IsRt, OnRunq
            <4>2. Kassert(s, OnRunq(s, t), "not on runq") = s
                BY ZenonT(60), <1>0, <4>1, KassertTrue
            <4>3. d = RunqRemove(s, t)
                BY <4>1 DEF RunqDequeue
            <4> HIDE DEF d
            <4>4. RtChangePriority(s, t, prio) =
                     CheckPriorityPreempt(RunqAdd(e, t, FALSE), t)
                BY <1>1, <4>1, <4>2, <4>3, Zenon DEF RtChangePriority
            <4> QED
                BY <3>2, <4>4 DEF ThreadPriority
        <3> QED
            BY <3>1, <3>2
    <2>3. /\ d \in State /\ SameThreads(s, d) /\ SameSfq(s, d)
          /\ RunqShape(d)
          /\ ToSet(d.realtime) = ToSet(s.realtime) \ {t}
        BY <1>0, RunqDequeueEffect DEF RunqOK
    <2>16. SameTimes(s, d)
        BY <1>0, RunqTimes
    <2> HIDE DEF d
    <2>4. /\ e \in State
          /\ SameSfq(d, e)
          /\ e.td_state = d.td_state
          /\ e.joined = d.joined
          /\ e.pri_class = d.pri_class
          /\ e.curthread = d.curthread
          /\ SameCounts(d, e)
          /\ e.panics = d.panics
          /\ SameRunq(d, e)
          /\ e.td_priority = [d.td_priority EXCEPT ![t] = prio]
        BY <2>3, SetTdPriorityEffect
    <2>17. SameTimes(d, e)
        BY <2>3, FieldTimes
    <2> HIDE DEF e
    <2>5. RunqShape(e) /\ t \notin ToSet(e.realtime)
        <3>1. e.realtime = d.realtime /\ t \notin ToSet(e.realtime)
            BY <2>3, <2>4 DEF SameRunq
        <3>2. \A u \in ToSet(e.realtime) : u \in Thread \ {t}
            BY <2>4, <3>1, StateFields DEF ToSet
        <3>3. d.td_priority \in [Thread -> Pri]
            BY <2>3, StateFields
        <3>4. \A u \in ToSet(e.realtime) : e.td_priority[u] = d.td_priority[u]
            BY <2>4, <3>2, <3>3
        <3> QED
            BY <2>3, <2>4, <3>1, <3>4 DEF RunqShape, SameRunq
    <2>6. e.td_priority[t] = prio
        BY <1>0, <2>3, <2>4 DEF SameThreads
    <2>7. /\ f \in State
          /\ SameThreads(e, f)
          /\ SameSfq(e, f)
          /\ RunqShape(f)
          /\ ToSet(f.realtime) \subseteq ToSet(e.realtime) \cup {t}
          /\ ToSet(e.realtime) \subseteq ToSet(f.realtime)
          /\ IsRt(s, t) \/ prio < NORMAL_PRI => t \in ToSet(f.realtime)
        <3>1. CASE IsPss(s, t)
            <4>1. f = RunqEnqueueRaised(e, t, FALSE) /\ ~ IsRt(s, t)
                BY <3>1 DEF IsPss, IsRt
            <4> HIDE DEF f
            <4>2. /\ f \in State
                  /\ SameThreads(e, f)
                  /\ SameSfq(e, f)
                  /\ RunqShape(f)
                  /\ ToSet(f.realtime) = ToSet(e.realtime) \cup
                        {u \in {t} : e.td_priority[u] < NORMAL_PRI}
                BY <2>4, <2>5, <4>1, RunqEnqueueRaisedEffect
            <4>3. prio < NORMAL_PRI =>
                     t \in {u \in {t} : e.td_priority[u] < NORMAL_PRI}
                BY <2>6
            <4> QED
                BY <4>1, <4>2, <4>3
        <3>2. CASE ~ IsPss(s, t)
            <4>1. f = RunqAdd(e, t, FALSE)
                BY <3>2
            <4> HIDE DEF f
            <4>2. /\ f \in State
                  /\ SameThreads(e, f)
                  /\ SameSfq(e, f)
                  /\ RunqShape(f)
                  /\ ToSet(f.realtime) = ToSet(e.realtime) \cup {t}
                BY <2>4, <2>5, <4>1, RunqAddEffect
            <4> QED
                BY <4>2
        <3> QED
            BY <3>1, <3>2
    <2>18. SameTimes(e, f)
        BY <2>4, RunqTimes
    <2> HIDE DEF f
    <2>8. /\ SameSfq(s, f)
          /\ f.td_state = s.td_state
          /\ f.joined = s.joined
          /\ f.pri_class = s.pri_class
          /\ f.curthread = s.curthread
          /\ SameCounts(s, f)
          /\ f.panics = s.panics
          /\ f.td_priority = [s.td_priority EXCEPT ![t] = prio]
        BY <2>3, <2>4, <2>7 DEF SameThreads, SameCounts, SameSfq, SameCandidates
    <2>9. /\ ToSet(f.realtime) \subseteq Waiting(s)
          /\ ToSet(s.realtime) \ {t} \subseteq ToSet(f.realtime)
        BY <1>0, <2>1, <2>3, <2>4, <2>7 DEF RunqOK, SameRunq
    <2>10. SettledOn(s, f)
        BY SMTT(60), <2>7, <2>8, <2>9, PriorityConsistent
    <2>11. SettledOn(s, CheckPriorityPreempt(f, t))
        BY <2>7, <2>10, CheckPriorityPreemptKeeps, SameQueuesSettled
        DEF SettledOn, SameQueues, SameThreads
    <2> DEFINE r == CheckPriorityPreempt(f, t)
    <2>12. r \in State /\ SameThreads(f, r) /\ SameRunq(f, r)
        BY <2>7, CheckPriorityPreemptKeeps DEF SameQueues
    <2>13. Priority(f, t) < Priority(f, f.curthread) =>
              f.curthread \in r.need_resched
        BY <2>7, CheckPriorityPreemptAsks
    <2>19. SameClock(f, r)
        BY <2>7, RequestClock DEF Running
    <2> HIDE DEF r
    <2>20. SameClock(s, r)
        BY <2>8, <2>16, <2>17, <2>18, <2>19 DEF SameTimes, SameSfq, SameClock
    <2>14. OthersStay(s, r, t)
        <3>1. ToSet(f.realtime) \subseteq Thread
            BY <1>0, <2>9 DEF Waiting
        <3>2. \A u \in Thread \ {t} : r.td_priority[u] = s.td_priority[u]
            BY <1>0, <2>8, <2>12 DEF SameThreads
        <3>3. ToSet(f.realtime) \ {t} \subseteq ToSet(s.realtime)
            BY <2>3, <2>4, <2>7 DEF SameRunq
        <3> QED
            BY <2>12, <3>1, <3>2, <3>3 DEF OthersStay, SameRunq
    <2>15. Asks(s, r)
        BY <2>12, <2>13, <2>14, OneMovesAsks DEF SameThreads, Priority
    <2> QED
        BY <2>2, <2>11, <2>15, <2>20 DEF r
<1>2. CASE ~ (s.td_state[t] = "runq" /\ prio < s.td_priority[t])
    <2>1. ThreadPriority(s, t, prio) = g
        BY ZenonT(60), <1>2
           DEF ThreadPriority, PssChangePriority, RtChangePriority
    <2>2. /\ g \in State
          /\ SameSfq(s, g)
          /\ g.td_state = s.td_state
          /\ g.joined = s.joined
          /\ g.pri_class = s.pri_class
          /\ g.curthread = s.curthread
          /\ SameCounts(s, g)
          /\ g.panics = s.panics
          /\ SameRunq(s, g)
          /\ g.td_priority = [s.td_priority EXCEPT ![t] = prio]
        BY <1>0, SetTdPriorityEffect
    <2>8. SameTimes(s, g)
        BY <1>0, FieldTimes
    <2> HIDE DEF g
    <2>9. SameClock(s, g)
        BY <2>2, <2>8 DEF SameTimes, SameSfq, SameClock
    <2>3. t \in Waiting(s) /\ (IsRt(s, t) \/ prio < NORMAL_PRI) =>
             t \in ToSet(s.realtime)
        <3>1. t \in Waiting(s) => ~ (prio < s.td_priority[t])
            BY <1>2 DEF Waiting
        <3>2. /\ prio \in Nat /\ s.td_priority[t] \in Nat
              /\ NORMAL_PRI \in Nat
            BY <1>0, PriAssumption
        <3>3. t \in Waiting(s) /\ prio < NORMAL_PRI =>
                 s.td_priority[t] < NORMAL_PRI
            BY <3>1, <3>2
        <3> QED
            BY <1>0, <3>3 DEF RunqOK
    <2>4. /\ g.realtime = s.realtime
          /\ ToSet(g.realtime) \subseteq Waiting(s)
          /\ ToSet(s.realtime) \ {t} \subseteq ToSet(g.realtime)
        BY <1>0, <2>2 DEF RunqOK, SameRunq
    <2>6. RunqShape(g)
        <3>1. RunqShape(s)
            BY <1>0 DEF RunqOK
        <3>2. \A u \in ToSet(s.realtime) :
                 s.td_rqindex[u] <= g.td_priority[u] \div RQ_PPQ
            <4> SUFFICES ASSUME NEW u \in ToSet(s.realtime)
                         PROVE  s.td_rqindex[u] <= g.td_priority[u] \div RQ_PPQ
                OBVIOUS
            <4>1. u \in Waiting(s) /\ u \in Thread
                BY <1>0 DEF RunqOK, Waiting
            <4>2. s.td_rqindex[u] <= s.td_priority[u] \div RQ_PPQ
                BY <3>1 DEF RunqShape
            <4>3. CASE u # t
                BY <1>0, <2>2, <4>1, <4>2, <4>3
            <4>4. CASE u = t
                <5>1. ~ (prio < s.td_priority[t])
                    BY <1>2, <4>1, <4>4 DEF Waiting
                <5>2. /\ prio \in Nat /\ s.td_priority[t] \in Nat
                      /\ RQ_PPQ \in Nat \ {0}
                    BY <1>0, PriAssumption
                <5> DEFINE a == s.td_priority[t] \div RQ_PPQ
                           b == prio \div RQ_PPQ
                <5>3. a <= b
                    BY <5>1, <5>2, DivMonotone
                <5>4. a \in Nat /\ b \in Nat /\ s.td_rqindex[t] \in Nat
                    BY <1>0, <5>2, DivType, StateFields
                <5>5. g.td_priority[t] = prio
                    BY <1>0, <2>2
                <5>6. s.td_rqindex[t] <= a
                    BY <4>2, <4>4
                <5> HIDE DEF a, b
                <5>7. s.td_rqindex[t] <= b
                    BY <5>3, <5>4, <5>6
                <5> QED
                    BY <4>4, <5>5, <5>7 DEF b
            <4> QED
                BY <4>3, <4>4
        <3> QED
            BY <2>2, <3>1, <3>2 DEF RunqShape, SameRunq
    <2>5. SettledOn(s, g)
        BY <2>2, <2>3, <2>4, <2>6, PriorityConsistent
    <2>7. Asks(s, g)
        <3> SUFFICES ASSUME NEW u \in ToSet(s.realtime),
                            g.td_priority[u] < s.td_priority[u]
                     PROVE  FALSE
            BY <2>4 DEF Asks, OnRunq
        <3>1. u \in Thread /\ s.td_state[u] = "runq"
            BY <1>0 DEF RunqOK, Waiting
        <3>2. s.td_priority[u] \in Nat /\ prio \in Nat
            BY <1>0, <3>1, PriAssumption
        <3> QED
            BY <1>0, <1>2, <2>2, <3>1, <3>2
    <2> QED
        BY <2>1, <2>5, <2>7, <2>9
<1> QED
    BY <1>1, <1>2

-----------------------------------------------------------------------------
(* The specification *)

(* Time passes without touching the queues. *)
LEMMA ElapseSettles ==
    ASSUME NEW s, Settled(s), NEW x \in Nat
    PROVE  LET r == [s EXCEPT !.unseen = @ + 1, !.rt_exec = x]
           IN  /\ SettledOn(s, r) /\ OthersStay(s, r, s.curthread)
               /\ SameClock(s, r)
<1> DEFINE u == s.unseen + 1
           r == [s EXCEPT !.unseen = u, !.rt_exec = x]
<1>1. s \in State /\ u \in Nat
    BY StateFields DEF Settled, Consistent
<1> HIDE DEF u
<1>2. r \in State
    BY <1>1, ZenonT(60) DEF State
<1>3. SameQueues(s, r)
    BY <1>1
    DEF SameQueues, SameThreads, SameSfq, SameCandidates, SameRunq, State
<1>4. SettledOn(s, r) /\ OthersStay(s, r, s.curthread)
    BY <1>2, <1>3, SameQueuesSettled
    DEF SettledOn, SameQueues, SameThreads, SameRunq, OthersStay
<1>5. SameClock(s, r)
    BY <1>1 DEF SameClock, State
<1> QED
    BY <1>4, <1>5 DEF u

(* thread0 runs alone *)
LEMMA InitSettled ==
    ASSUME Init
    PROVE  Settled(rq) /\ since_tick \in 0 .. TickPeriod
<1>1. PICK t \in Thread, prio \in Pri :
        rq = [td_state     |-> [u \in Thread |->
                                 IF u = t THEN "running" ELSE "none"],
             joined       |-> {t},
             pri_class    |-> [u \in Thread |-> "timeshare"],
             td_priority  |-> [u \in Thread |-> prio],
             p_nice       |-> [u \in Thread |-> 0],
             weight       |-> [u \in Thread |-> PrioToWeight[0]],
             vruntime     |-> [u \in Thread |-> 0],
             timeline     |-> <<>>,
             leftmost     |-> NULL,
             curr         |-> t,
             skip         |-> NULL,
             next         |-> NULL,
             last         |-> NULL,
             vtime        |-> 0,
             sfq_running  |-> 1,
             load         |-> PrioToWeight[0],
             nr_running   |-> 1,
             nr_sysrunning |-> SysLoad(t),
             realtime     |-> <<>>,
             td_rqindex   |-> [u \in Thread |-> 0],
             curthread    |-> t,
             need_resched |-> {},
             owepreempt   |-> {},
             unseen       |-> 0,
             delta_exec   |-> 0,
             exec_time    |-> 0,
             rt_exec      |-> 0,
             panics       |-> {}]
    BY ZenonT(60) DEF Init
<1>2. rq \in State
    <2>1. PrioToWeight[0] \in Nat \ {0} /\ 0 \in Nice /\ PrioToWeight[0] \in Int
        BY WeightAssumption
    <2>2. SysLoad(t) \in Int /\ 0 \in Int /\ 1 \in Int /\ 0 \in Nat
        BY DEF SysLoad
    <2>3. <<>> \in Seq(Thread)
        OBVIOUS
    <2>4. /\ NULL \in ThreadOrNull /\ t \in ThreadOrNull /\ t \in Running
          /\ "running" \in TdState /\ "none" \in TdState
          /\ "timeshare" \in PriClass
        BY DEF ThreadOrNull, Running, TdState, PriClass
    <2>5. [u \in Thread |-> IF u = t THEN "running" ELSE "none"]
             \in [Thread -> TdState]
        BY <2>4
    <2> QED
        BY <1>1, <2>1, <2>2, <2>3, <2>4, <2>5, ZenonT(60) DEF State
<1>3. /\ rq.joined = {t} /\ rq.curthread = t /\ rq.curr = t
      /\ rq.timeline = <<>> /\ rq.realtime = <<>> /\ rq.leftmost = NULL
      /\ rq.skip = NULL /\ rq.next = NULL /\ rq.last = NULL
      /\ rq.sfq_running = 1 /\ rq.nr_running = 1 /\ rq.panics = {}
      /\ rq.td_state = [u \in Thread |-> IF u = t THEN "running" ELSE "none"]
      /\ rq.pri_class = [u \in Thread |-> "timeshare"]
    BY <1>1
<1>4. IsPss(rq, t)
    BY <1>3 DEF IsPss, RtClass
<1>5. Waiting(rq) = {} /\ PssJoined(rq) = {t}
    BY <1>3, <1>4 DEF Waiting, PssJoined
<1>6. ToSet(<<>>) = {} /\ IsInjective(<<>>)
    BY DEF ToSet, IsInjective
<1>7. TreeOK(rq) /\ RunqOK(rq) /\ CandidateInv(rq)
    <2>1. RunqShape(rq)
        BY <1>3, <1>6 DEF RunqShape, Ordered
    <2> QED
        BY <1>3, <1>5, <1>6, <2>1 DEF TreeOK, RunqOK, CandidateInv
<1>8. CountOK(rq)
    <2> DEFINE w == rq.weight
    <2>1. /\ w[t] = PrioToWeight[0] /\ w[t] \in Nat
          /\ rq.load = w[t] /\ rq.nr_sysrunning = SysLoad(t)
        BY <1>1, WeightAssumption
    <2> HIDE DEF w
    <2>2. IsFiniteSet({}) /\ Cardinality({}) = 0
        BY FS_EmptySet
    <2>3. TotalWeight(w, {} \cup {t}) = TotalWeight(w, {}) + w[t]
        BY <2>1, <2>2, TotalWeightAdds
    <2>4. TotalWeight(w, {}) = 0 /\ {} \cup {t} = {t}
        BY NoWeight
    <2>5. TotalWeight(w, {t}) = w[t]
        BY <2>1, <2>3, <2>4
    <2>6. Cardinality(({} \cup {t}) \ NoLoad) =
            Cardinality({} \ NoLoad) + SysLoad(t)
        BY <2>2, SysLoadAdds
    <2>7. {} \ NoLoad = {} /\ SysLoad(t) \in Nat
        BY DEF SysLoad
    <2>8. Cardinality({t} \ NoLoad) = SysLoad(t)
        BY <2>2, <2>4, <2>6, <2>7
    <2>9. rq.load = TotalWeight(rq.weight, PssJoined(rq))
        BY <1>5, <2>1, <2>5, Zenon DEF w
    <2>10. rq.nr_sysrunning = Cardinality(rq.joined \ NoLoad)
        BY <1>3, <2>1, <2>8, Zenon
    <2> QED
        BY SMTT(120), <1>3, <1>5, <2>9, <2>10, FS_Singleton DEF CountOK
<1>9. JoinedInv(rq) /\ CurrInv(rq)
    BY <1>3, <1>4 DEF JoinedInv, CurrInv
<1>10. since_tick \in 0 .. TickPeriod
    BY SchedAssumption DEF Init
<1> QED
    BY <1>2, <1>3, <1>7, <1>8, <1>9, <1>10 DEF Settled, Consistent

(* The inductive invariant *)
IInv == Settled(rq) /\ since_tick \in 0 .. TickPeriod

(* The calls that switch threads *)
Switches ==
    \/ NeedResched \/ OwePreempt \/ SchedRelinquish \/ SchedIdletd
    \/ Sleep \/ SchedThrow

(* Every other call leaves the running thread running and the queues       *)
(* settled.                                                                *)
LEMMA CallsStay ==
    ASSUME IInv, [Next]_vars, ~Switches, "class_new" \notin Calls
    PROVE  /\ SettledOn(rq, rq')
           /\ Asks(rq, rq') \/ OthersStay(rq, rq', rq.curthread)
<1>0. /\ Settled(rq) /\ since_tick \in 0 .. TickPeriod
      /\ rq \in State /\ TickPeriod \in Nat \ {0}
    BY SchedAssumption DEF IInv, Settled, Consistent
<1>1. CASE UNCHANGED vars
    BY <1>0, <1>1 DEF vars, SettledOn, OthersStay
<1>2. CASE Elapse
    <2> DEFINE x == IF IsRt(rq, rq.curthread) THEN SaturatingAdd(rq.rt_exec, 1)
                    ELSE 0
    <2>1. x \in Nat
        BY <1>0, StateFields, SaturatingAddType
    <2>2. rq' = [rq EXCEPT !.unseen = @ + 1, !.rt_exec = x]
        BY <1>2 DEF Elapse
    <2> HIDE DEF x
    <2> QED
        BY ZenonT(60), <1>0, <2>1, <2>2, ElapseSettles
<1>3. CASE SchedTick
    BY <1>0, <1>3, TickStays
    DEF SchedTick, StaysSettled, SameThreads, SameRunq, SettledOn, OthersStay
<1>4. CASE \E t \in Thread : SchedAdd(t)
    BY <1>0, <1>4, AddSettles DEF SchedAdd
<1>5. CASE \E child \in Thread, prio \in Pri : SchedFork(child, prio)
    <2>1. PICK child \in Thread, prio \in Pri : SchedFork(child, prio)
        BY <1>5
    <2>2. rq.curthread \in Thread
        BY <1>0, <2>1, StateFields DEF SchedFork, Running
    <2>3. LET r == ForkThread(rq, rq.curthread, child, prio)
          IN  SettledOn(rq, r) /\ OthersStay(rq, r, rq.curthread)
        BY <1>0, <2>1, <2>2, ForkThreadSettles DEF SchedFork
    <2> QED
        BY <2>1, <2>3 DEF SchedFork
<1>6. CASE \E t, child \in Thread, prio \in Pri : KthreadAdd(t, child, prio)
    <2>1. PICK t \in Thread, child \in Thread, prio \in Pri :
             KthreadAdd(t, child, prio)
        BY <1>6
    <2>2. LET r == ForkThread(rq, t, child, prio)
          IN  SettledOn(rq, r) /\ OthersStay(rq, r, rq.curthread)
        BY <1>0, <2>1, ForkThreadSettles DEF KthreadAdd
    <2> QED
        BY <2>1, <2>2 DEF KthreadAdd
<1>7. CASE \E t \in Thread, nice \in Nice : SchedNice(t, nice)
    BY <1>0, <1>7, SetNiceSettles DEF SchedNice
<1>8. CASE \E t \in Thread, class \in PriClass : SchedClass(t, class)
    <2>1. PICK t \in Thread, class \in PriClass : SchedClass(t, class)
        BY <1>8
    <2>2. /\ rq.td_state[t] # "none"
          /\ rq.td_state[t] = "new" =>
                class \in RtClass \/ IsRt(rq, rq.curthread)
        BY <2>1 DEF SchedClass
    <2>3. /\ SettledOn(rq, rq')
          /\ OthersStay(rq, rq', t)
          /\ rq'.pri_class[t] # rq.pri_class[t]
        BY <1>0, <2>1, <2>2, SetClassSettles DEF SchedClass
    <2> QED
        BY <2>3, OneMovesAsks DEF SettledOn, Settled, Consistent
<1>9. CASE \E t \in Thread, prio \in Pri : SchedThreadPriority(t, prio)
    BY SMTT(60), <1>0, <1>9, ThreadPrioritySettles DEF SchedThreadPriority
<1> QED
    BY <1>1, <1>2, <1>3, <1>4, <1>5, <1>6, <1>7, <1>8, <1>9
    DEF Next, Switches

(* Every call keeps the queues settled, and either leaves the running      *)
(* thread running or makes the best choice of another; and it asks for the *)
(* preemption of the running thread if need be.                            *)
LEMMA SettledStep ==
    ASSUME IInv, [Next]_vars, "class_new" \notin Calls
    PROVE  Settled(rq') /\ PicksBest(rq, rq') /\ Asks(rq, rq')
<1>0. Settled(rq) /\ rq \in State
    BY DEF IInv, Settled, Consistent
<1>1. CASE ~Switches
    BY <1>0, <1>1, CallsStay, OthersStayAsks
    DEF SettledOn, PicksBest, Settled, Consistent
<1>2. CASE Switches
    <2>1. Chooses(rq, rq')
        <3>1. CASE NeedResched \/ OwePreempt \/ SchedRelinquish \/ SchedIdletd
            BY <1>0, <3>1, SwitchRunnableChooses
            DEF NeedResched, OwePreempt, SchedRelinquish, SchedIdletd
        <3>2. CASE Sleep
            BY <1>0, <3>2, SwitchSleepingChooses DEF Sleep
        <3>3. CASE SchedThrow
            BY <1>0, <3>3, SwitchThrowChooses DEF SchedThrow
        <3> QED
            BY <1>2, <3>1, <3>2, <3>3 DEF Switches
    <2> QED
        BY <1>0, <2>1, ChoosesSettles, ChoosesAsks
<1> QED
    BY <1>1, <1>2

(* A call that starts another thread is fair to those it leaves waiting.   *)
LEMMA PicksFairStep ==
    ASSUME Modulus = 0, IInv, Orderly(rq), [Next]_vars, "class_new" \notin Calls
    PROVE  PicksFair(rq, rq')
<1>0. Settled(rq)
    BY DEF IInv
<1>1. CASE ~Switches
    BY <1>1, CallsStay DEF SettledOn, PicksFair
<1>2. CASE NeedResched \/ OwePreempt \/ SchedRelinquish \/ SchedIdletd
    BY <1>0, <1>2, SwitchRunnableFair
    DEF NeedResched, OwePreempt, SchedRelinquish, SchedIdletd
<1>3. CASE Sleep
    BY <1>0, <1>3, SwitchSleepingFair DEF Sleep
<1>4. CASE SchedThrow
    BY <1>0, <1>4, SwitchThrowFair DEF SchedThrow
<1> QED
    BY <1>1, <1>2, <1>3, <1>4 DEF Switches

(* Every call keeps the tree in order and takes nothing from anybody who   *)
(* is runnable before and after it; see ForkFair for the one exception.    *)
LEMMA FairlyStep ==
    ASSUME Modulus = 0, "class_new" \notin Calls,
           ~(ChildRunsFirst /\ "kthread" \in Calls),
           IInv, Orderly(rq), [Next]_vars
    PROVE  FairStep(rq, rq')
<1>0. Settled(rq) /\ rq \in State
    BY DEF IInv, Settled, Consistent
<1>1. CASE UNCHANGED vars
    <2>1. SameClock(rq, rq')
        BY <1>1 DEF vars, SameClock
    <2> QED
        BY <1>0, <2>1, SameClockFair
<1>2. CASE Elapse
    <2> DEFINE x == IF IsRt(rq, rq.curthread) THEN SaturatingAdd(rq.rt_exec, 1)
                    ELSE 0
    <2>1. x \in Nat
        BY <1>0, StateFields, SaturatingAddType
    <2>2. rq' = [rq EXCEPT !.unseen = @ + 1, !.rt_exec = x]
        BY <1>2 DEF Elapse
    <2> HIDE DEF x
    <2> QED
        BY ZenonT(60), <1>0, <2>1, <2>2, ElapseSettles, SameClockFair
<1>3. CASE SchedTick
    BY <1>0, <1>3, TickFlows, FlowsOnFair DEF SchedTick
<1>4. CASE NeedResched \/ OwePreempt \/ SchedRelinquish \/ SchedIdletd
    BY <1>0, <1>4, SwitchRunnableFair
    DEF NeedResched, OwePreempt, SchedRelinquish, SchedIdletd
<1>5. CASE Sleep
    BY <1>0, <1>5, SwitchSleepingFair DEF Sleep
<1>6. CASE SchedThrow
    BY <1>0, <1>6, SwitchThrowFair DEF SchedThrow
<1>7. CASE \E t \in Thread : SchedAdd(t)
    BY <1>0, <1>7, AddFair DEF SchedAdd
<1>8. CASE \E child \in Thread, prio \in Pri : SchedFork(child, prio)
    <2>1. PICK child \in Thread, prio \in Pri : SchedFork(child, prio)
        BY <1>8
    <2>2. rq.curthread \in Thread
        BY <1>0, <2>1, StateFields DEF SchedFork, Running
    <2>3. rq.td_state[rq.curthread] # "none"
        BY <1>0, <2>2 DEF Settled, JoinedInv
    <2> QED
        BY <1>0, <2>1, <2>2, <2>3, ForkFair DEF SchedFork
<1>9. CASE \E t, child \in Thread, prio \in Pri : KthreadAdd(t, child, prio)
    <2>1. PICK t \in Thread, child \in Thread, prio \in Pri :
             KthreadAdd(t, child, prio)
        BY <1>9
    <2> QED
        BY <1>0, <2>1, ForkFair DEF KthreadAdd
<1>10. CASE \E t \in Thread, nice \in Nice : SchedNice(t, nice)
    BY <1>0, <1>10, SetNiceSettles DEF SchedNice
<1>11. CASE \E t \in Thread, class \in PriClass : SchedClass(t, class)
    <2>1. PICK t \in Thread, class \in PriClass : SchedClass(t, class)
        BY <1>11
    <2>2. /\ rq.td_state[t] # "none"
          /\ rq.td_state[t] = "new" =>
                class \in RtClass \/ IsRt(rq, rq.curthread)
        BY <2>1 DEF SchedClass
    <2> QED
        BY <1>0, <2>1, <2>2, SetClassSettles DEF SchedClass
<1>12. CASE \E t \in Thread, prio \in Pri : SchedThreadPriority(t, prio)
    BY <1>0, <1>12, ThreadPrioritySettles, SameClockFair
    DEF SchedThreadPriority
<1> QED
    BY <1>1, <1>2, <1>3, <1>4, <1>5, <1>6, <1>7, <1>8, <1>9, <1>10, <1>11,
       <1>12 DEF Next

(* The clock interrupt comes before the next period is over. *)
LEMMA SinceTickStep ==
    ASSUME IInv, [Next]_vars
    PROVE  since_tick' \in 0 .. TickPeriod
<1>0. since_tick \in 0 .. TickPeriod /\ TickPeriod \in Nat \ {0}
    BY SchedAssumption DEF IInv
<1>1. CASE Elapse
    BY <1>0, <1>1 DEF Elapse, CanElapse
<1>2. CASE since_tick' \in {since_tick, 0}
    BY <1>0, <1>2
<1>3. Elapse \/ since_tick' \in {since_tick, 0}
    BY DEF Next, vars, SchedTick, NeedResched, OwePreempt, SchedRelinquish,
           SchedIdletd, Sleep, SchedThrow, SchedAdd, SchedFork, KthreadAdd,
           SchedNice, SchedClass, SchedThreadPriority
<1> QED
    BY <1>1, <1>2, <1>3

(* Every call keeps the inductive invariant. *)
LEMMA IInvStep ==
    ASSUME IInv, [Next]_vars, "class_new" \notin Calls
    PROVE  IInv'
    BY SettledStep, SinceTickStep DEF IInv

(* The inductive invariant holds after every sequence of calls. *)
LEMMA IInvHolds ==
    ASSUME "class_new" \notin Calls
    PROVE  Spec => []IInv
<1>1. Init => IInv
    BY InitSettled DEF IInv
<1>2. IInv /\ [Next]_vars => IInv'
    BY IInvStep
<1> QED
    BY <1>1, <1>2, PTL DEF Spec

(* The queues are settled and the tree is in order after every sequence of *)
(* calls, so that FairlyStep is about every step.                          *)
LEMMA OrderlyHolds ==
    ASSUME Modulus = 0, "class_new" \notin Calls,
           ~(ChildRunsFirst /\ "kthread" \in Calls)
    PROVE  Spec => [](IInv /\ Orderly(rq))
<1>1. Init => IInv /\ Orderly(rq)
    <2>1. Init => rq.timeline = <<>>
        BY DEF Init
    <2> QED
        BY <2>1, InitSettled DEF IInv, Orderly, Ordered
<1>2. IInv /\ Orderly(rq) /\ [Next]_vars => IInv' /\ Orderly(rq)'
    <2> SUFFICES ASSUME IInv, Orderly(rq), [Next]_vars
                 PROVE  IInv' /\ Orderly(rq)'
        OBVIOUS
    <2>1. FairStep(rq, rq')
        BY FairlyStep
    <2> QED
        BY <2>1, IInvStep DEF FairStep, Orderly
<1> QED
    BY <1>1, <1>2, PTL DEF Spec

(* What QueueInv says of the queues follows from what Consistent says of   *)
(* the waiting threads: the running one is the only other that has joined. *)
LEMMA SettledQueueInv ==
    ASSUME Settled(rq)
    PROVE  QueueInv
<1>0. rq \in State /\ rq.joined \subseteq Thread /\ NULL \notin Thread
    BY StateFields, ThreadAssumption DEF Settled, Consistent
<1>1. Waiting(rq) = rq.joined \ {rq.curthread}
    BY <1>0 DEF Settled, JoinedInv, Waiting
<1>2. {t \in Waiting(rq) : IsPss(rq, t)} = PssJoined(rq) \ {rq.curr}
    BY <1>0, <1>1 DEF PssJoined, Settled, CurrInv
<1>3. TimelineInv(rq)
    BY <1>2 DEF Settled, Consistent, TreeOK, TimelineInv
<1>4. RealtimeInv(rq)
    BY <1>1 DEF Settled, Consistent, RunqOK, RunqShape, RealtimeInv, OnRunq
<1> QED
    BY <1>3, <1>4 DEF Settled, Consistent, QueueInv

(* The state of the scheduler has its type after every sequence of calls.  *)
THEOREM TypeCorrect ==
    ASSUME "class_new" \notin Calls
    PROVE  Spec => []TypeOK
<1>1. IInv => TypeOK
    BY DEF IInv, Settled, Consistent, TypeOK
<1>2. Spec => []IInv
    BY IInvHolds
<1> QED
    BY <1>1, <1>2, PTL

(* The tree, its cached first entity, the real-time queue, the candidates  *)
(* of pick_next_entity, sfq->curr and the flags of the threads agree after *)
(* every sequence of calls.                                                *)
THEOREM QueuesAgree ==
    ASSUME "class_new" \notin Calls
    PROVE  Spec => []QueueInv
<1>1. IInv => QueueInv
    BY SettledQueueInv DEF IInv
<1>2. Spec => []IInv
    BY IInvHolds
<1> QED
    BY <1>1, <1>2, PTL

(* No assertion of pss.c, rt.c and sched.c fails in any sequence of calls. *)
THEOREM NoKassertFails ==
    ASSUME "class_new" \notin Calls
    PROVE  Spec => []KassertsHold
<1>1. IInv => KassertsHold
    BY DEF IInv, Settled, Consistent, KassertsHold
<1>2. Spec => []IInv
    BY IInvHolds
<1> QED
    BY <1>1, <1>2, PTL

(* sfq->load, sfq->nr_running, rq->nr_running and rq->nr_sysrunning are    *)
(* what a recount of the runnable threads would give after every sequence  *)
(* of calls: sched_choose never finds an empty tree that is counted as a   *)
(* full one, and sched_slice never divides by a load that a change of      *)
(* weight has left behind.                                                 *)
THEOREM CountsAgree ==
    ASSUME "class_new" \notin Calls
    PROVE  Spec => []LoadInv
<1>1. IInv => LoadInv
    BY DEF IInv, Settled, Consistent, CountOK, LoadInv
<1>2. Spec => []IInv
    BY IInvHolds
<1> QED
    BY <1>1, <1>2, PTL

(* The real-time queue is in the order of the queue index after every      *)
(* sequence of calls, and no thread waits in it behind its priority.       *)
THEOREM RealtimeOrdered ==
    ASSUME "class_new" \notin Calls
    PROVE  Spec => []RealtimeSorted
<1>1. IInv => RealtimeSorted
    BY DEF IInv, Settled, Consistent, RunqOK, RunqShape, Ordered,
           RealtimeSorted
<1>2. Spec => []IInv
    BY IInvHolds
<1> QED
    BY <1>1, <1>2, PTL

(* sched_choose takes the highest priority thread: in no sequence of calls *)
(* does a switch leave a queued thread of a better queue behind, or a      *)
(* runnable thread when it picks the idle thread.                          *)
THEOREM BestIsChosen ==
    ASSUME "class_new" \notin Calls
    PROVE  Spec => SwitchPicksBest
<1> DEFINE A == Switched =>
                   /\ rq'.curthread = Idle => rq'.joined = {}
                   /\ \A t \in ToSet(rq'.realtime) :
                         /\ OnRunq(rq, rq'.curthread)
                         /\ rq.td_rqindex[rq'.curthread] <= rq'.td_rqindex[t]
<1>1. IInv /\ [Next]_vars => [A]_vars
    BY SettledStep DEF PicksBest, Best, Switched
<1>2. Spec => []IInv
    BY IInvHolds
<1>3. Spec => [][A]_vars
    BY <1>1, <1>2, PTL DEF Spec
<1> QED
    BY <1>3 DEF SwitchPicksBest

(* "Request preemption ... if required" (sched.c:961): in no sequence of   *)
(* calls does a thread come into the real-time queue, or move up in it,    *)
(* ahead of a running one that is not asked to give up the CPU, unless a   *)
(* change of its class put it there.                                       *)
THEOREM PreemptionIsRequested ==
    ASSUME "class_new" \notin Calls
    PROVE  Spec => PreemptionRequested
<1> DEFINE A == \A t \in ToSet(rq'.realtime) :
                   /\ ~Switched /\ rq'.pri_class[t] = rq.pri_class[t]
                   /\ ~OnRunq(rq, t) \/ rq'.td_priority[t] < rq.td_priority[t]
                   /\ Priority(rq', t) < Priority(rq', rq'.curthread)
                   => rq'.curthread \in rq'.need_resched
<1>1. IInv /\ [Next]_vars => [A]_vars
    BY SettledStep DEF Asks, Switched
<1>2. Spec => []IInv
    BY IInvHolds
<1>3. Spec => [][A]_vars
    BY <1>1, <1>2, PTL DEF Spec
<1> QED
    BY <1>3 DEF PreemptionRequested

(* The tree stays in the order of vruntime through every sequence of calls *)
(* that may insert into it, remove from it or change a vruntime: no        *)
(* vruntime of a thread in the tree ever changes, and the search always    *)
(* finds the place where a new one belongs.                                *)
THEOREM TreeStaysSorted ==
    ASSUME Modulus = 0, "class_new" \notin Calls,
           ~(ChildRunsFirst /\ "kthread" \in Calls)
    PROVE  Spec => []TimelineSorted
<1>1. IInv /\ Orderly(rq) => TimelineSorted
    <2> SUFFICES ASSUME IInv, Orderly(rq),
                        NEW i \in DOMAIN rq.timeline,
                        NEW j \in DOMAIN rq.timeline, i < j
                 PROVE  ~EntityBefore(rq, rq.timeline[j], rq.timeline[i])
        BY DEF TimelineSorted
    <2>1. rq.vruntime \in [Thread -> Int] /\ rq.timeline \in Seq(Thread)
        BY StateFields DEF IInv, Settled, Consistent
    <2>2. rq.vruntime[rq.timeline[i]] <= rq.vruntime[rq.timeline[j]]
        BY DEF Orderly, Ordered
    <2> QED
        BY <2>1, <2>2, NoWrap DEF EntityBefore
<1>2. Spec => [](IInv /\ Orderly(rq))
    BY OrderlyHolds
<1> QED
    BY <1>1, <1>2, PTL

(* Nobody gets virtual time back while it stays runnable, in no sequence   *)
(* of calls: not through the detours of sched_nice and sched_class, which  *)
(* make a vruntime relative and absolute again, nor as the parent that     *)
(* changes places with its child.                                          *)
THEOREM VruntimeNeverGoesBack ==
    ASSUME Modulus = 0, "class_new" \notin Calls,
           ~(ChildRunsFirst /\ "kthread" \in Calls)
    PROVE  Spec => VruntimeNeverDecreases
<1> DEFINE A == \A t \in PssJoined(rq) \cap PssJoined(rq') :
                   Diff(rq'.vruntime[t], rq.vruntime[t]) >= 0
<1>1. IInv /\ Orderly(rq) /\ [Next]_vars => A
    <2> SUFFICES ASSUME IInv, Orderly(rq), [Next]_vars,
                        NEW t \in PssJoined(rq) \cap PssJoined(rq')
                 PROVE  Diff(rq'.vruntime[t], rq.vruntime[t]) >= 0
        OBVIOUS
    <2>1. rq \in State /\ rq' \in State
        BY IInvStep DEF IInv, Settled, Consistent
    <2>2. rq.vruntime[t] <= rq'.vruntime[t]
        BY FairlyStep DEF FairStep, Flows, FlowsTo
    <2>3. rq.vruntime[t] \in Int /\ rq'.vruntime[t] \in Int
        BY <2>1, StateFields DEF PssJoined
    <2> QED
        BY <2>2, <2>3, NoWrap
<1>2. Spec => [](IInv /\ Orderly(rq))
    BY OrderlyHolds
<1>3. Spec => [][A]_vars
    BY <1>1, <1>2, PTL DEF Spec
<1> QED
    BY <1>3 DEF VruntimeNeverDecreases

(* Virtual time never goes back, and never passes a thread that stays      *)
(* where it is in the queue (pss.c:747), in no sequence of calls.          *)
THEOREM VtimePassesNobody ==
    ASSUME Modulus = 0, "class_new" \notin Calls,
           ~(ChildRunsFirst /\ "kthread" \in Calls)
    PROVE  Spec => VtimeNeverOvertakes
<1> DEFINE A == /\ Diff(rq'.vtime, rq.vtime) >= 0
                /\ rq'.vtime # rq.vtime =>
                      \A t \in PssJoined(rq) \cap PssJoined(rq') :
                          rq'.vruntime[t] = rq.vruntime[t] =>
                              Diff(rq.vruntime[t], rq'.vtime) >= 0
<1>1. IInv /\ Orderly(rq) /\ [Next]_vars => A
    <2> SUFFICES ASSUME IInv, Orderly(rq), [Next]_vars
                 PROVE  A
        OBVIOUS
    <2>1. rq \in State /\ rq' \in State
        BY IInvStep DEF IInv, Settled, Consistent
    <2>2. FairStep(rq, rq')
        BY FairlyStep
    <2>3. /\ rq.vtime \in Int /\ rq'.vtime \in Int
          /\ \A t \in PssJoined(rq) : rq.vruntime[t] \in Int
        BY <2>1, StateFields DEF PssJoined
    <2>4. Diff(rq'.vtime, rq.vtime) >= 0
        BY <2>2, <2>3, NoWrap DEF FairStep, Flows
    <2>5. ASSUME rq'.vtime # rq.vtime,
                 NEW t \in PssJoined(rq) \cap PssJoined(rq'),
                 rq'.vruntime[t] = rq.vruntime[t]
          PROVE  Diff(rq.vruntime[t], rq'.vtime) >= 0
        <3>1. rq'.vtime <= rq'.vruntime[t]
            BY <2>2, <2>5 DEF FairStep, Flows, FlowsTo
        <3> QED
            BY <2>3, <2>5, <3>1, NoWrap
    <2> QED
        BY <2>4, <2>5
<1>2. Spec => [](IInv /\ Orderly(rq))
    BY OrderlyHolds
<1>3. Spec => [][A]_vars
    BY <1>1, <1>2, PTL DEF Spec
<1> QED
    BY <1>3 DEF VtimeNeverOvertakes

(* A thread that is picked from the tree in place of the leftmost one (a   *)
(* candidate for next or last, or the second for one that is skipped, see  *)
(* pick_next_entity, pss.c:1028) is ahead of nobody in it by more than the  *)
(* wakeup granularity, in no sequence of calls.                            *)
THEOREM PicksStayFair ==
    ASSUME Modulus = 0, "class_new" \notin Calls,
           ~(ChildRunsFirst /\ "kthread" \in Calls)
    PROVE  Spec => PickIsFair
<1> DEFINE A == Switched /\ IsPss(rq', rq'.curthread)
                    /\ ~OnRunq(rq, rq'.curthread) =>
                  \A t \in ToSet(rq'.timeline) :
                      Diff(rq'.vruntime[rq'.curthread], rq'.vruntime[t])
                         <= ScaleDelta(rq', WakeupGranularity, rq'.leftmost)
<1>1. IInv /\ Orderly(rq) /\ [Next]_vars => [A]_vars
    BY PicksFairStep DEF PicksFair, AheadOfNone, Switched
<1>2. Spec => [](IInv /\ Orderly(rq))
    BY OrderlyHolds
<1>3. Spec => [][A]_vars
    BY <1>1, <1>2, PTL DEF Spec
<1> QED
    BY <1>3 DEF PickIsFair
=============================================================================
