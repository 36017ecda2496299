-------------------------------- MODULE Pss ---------------------------------
(***************************************************************************)
(* The start-time fair queueing class, pss.c, with the root group only:    *)
(* every entity is a thread, se->parent is NULL and the loops over the     *)
(* ancestors of an entity run once.                                        *)
(***************************************************************************)
EXTENDS SfqState

-----------------------------------------------------------------------------
(* Weights and slices *)

SchedNrLatency == (SchedLatency + MinGranularity - 1) \div MinGranularity

SchedPeriod(nr_running) ==
    IF nr_running > SchedNrLatency THEN MinGranularity * nr_running
                                   ELSE SchedLatency

(* delta * weight / lw, rounded to the nearest integer; an empty load (no  *)
(* load is negative) divides by 1.                                         *)
ScaleByWeight(delta, weight, lw) ==
    LET w == IF lw > 0 THEN lw ELSE 1
    IN  (2 * delta * weight + w) \div (2 * w)

SetThreadWeight(s, t) ==
    [s EXCEPT !.weight[t] = IF s.pri_class[t] = "idle"
                            THEN IDLEPRIO_WEIGHT
                            ELSE PrioToWeight[s.p_nice[t]]]

ScaleDelta(s, delta, t) ==
    IF s.weight[t] = NICE_0_WEIGHT THEN delta
    ELSE ScaleByWeight(delta, NICE_0_WEIGHT, s.weight[t])

SfqSlice(s, t) ==
    ScaleByWeight(SchedPeriod(s.sfq_running), s.weight[t],
                  IF t \in s.joined THEN s.load ELSE s.load + s.weight[t])

SchedVslice(s, t) == ScaleDelta(s, SfqSlice(s, t), t)

AccountEnqueue(s, t) ==
    [s EXCEPT !.load = @ + s.weight[t], !.sfq_running = @ + 1]

(* Mutants of AccountDequeue: one of the two counters is forgotten. *)
AccountDequeueKeepsLoad(s, t) == [s EXCEPT !.sfq_running = @ - 1]
AccountDequeueKeepsCount(s, t) == [s EXCEPT !.load = @ - s.weight[t]]

AccountDequeue(s, t) ==
    [s EXCEPT !.load = @ - s.weight[t], !.sfq_running = @ - 1]

-----------------------------------------------------------------------------
(* The timeline *)

EntityBefore(s, a, b) == Diff(s.vruntime[a], s.vruntime[b]) < 0

(* Mutant of EnqueueTimeline: the keys are compared as unsigned numbers. *)
EnqueueTimelineUnsigned(s, t) ==
    LET later == {i \in DOMAIN s.timeline :
                     s.vruntime[t] < s.vruntime[s.timeline[i]]}
    IN  [Kassert(s, ~OnSfq(s, t), "already on sfq")
            EXCEPT !.timeline = InsertBefore(@, later, t),
                   !.leftmost = IF Position(s.timeline, later) = 1
                                THEN t ELSE @]

(* The search turns left exactly at the entities that t is before, so an   *)
(* entity goes after those of the same vruntime, and it is the leftmost    *)
(* one when the search never turned right.                                 *)
EnqueueTimeline(s, t) ==
    LET later == {i \in DOMAIN s.timeline : EntityBefore(s, t, s.timeline[i])}
    IN  [Kassert(s, ~OnSfq(s, t), "already on sfq")
            EXCEPT !.timeline = InsertBefore(@, later, t),
                   !.leftmost = IF Position(s.timeline, later) = 1
                                THEN t ELSE @]

(* TIMELINE_RB_NEXT *)
NextEntity(s, t) ==
    LET i == IndexOf(s.timeline, t)
    IN  IF i < Len(s.timeline) THEN s.timeline[i + 1] ELSE NULL

DequeueTimeline(s, t) ==
    IF ~OnSfq(s, t) THEN Kassert(s, FALSE, "not on sfq")
    ELSE [s EXCEPT !.leftmost = IF @ = t THEN NextEntity(s, t) ELSE @,
                   !.timeline = Without(@, t)]

RunqEnqueue(s, t, preempted) ==
    IF OnRunq(s, t) THEN Kassert(s, FALSE, "already on runq")
    ELSE RunqAdd(s, t, preempted)

RunqDequeue(s, t) == IF OnRunq(s, t) THEN RunqRemove(s, t) ELSE s

(* A thread whose priority was raised above NORMAL_PRI is queued among the *)
(* real-time threads as well.                                              *)
RunqEnqueueRaised(s, t, preempted) ==
    IF s.td_priority[t] < NORMAL_PRI THEN RunqEnqueue(s, t, preempted) ELSE s

-----------------------------------------------------------------------------
(* Virtual time *)

(* Mutant of UpdateSfqVtime: the running thread is not looked at. *)
UpdateSfqVtimeLeftmostOnly(s) ==
    IF s.leftmost = NULL THEN s
    ELSE [s EXCEPT !.vtime = MaxVruntime(@, s.vruntime[s.leftmost])]

UpdateSfqVtime(s) ==
    LET least == IF s.curr \notin s.joined THEN s.vruntime[s.leftmost]
                 ELSE IF s.leftmost = NULL THEN s.vruntime[s.curr]
                 ELSE MinVruntime(s.vruntime[s.curr], s.vruntime[s.leftmost])
    IN  IF s.curr \notin s.joined /\ s.leftmost = NULL THEN s
        ELSE [s EXCEPT !.vtime = MaxVruntime(@, least)]

(* Mutant of Absolute: the thread comes back with its relative vruntime. *)
AbsoluteForgotten(s, t) == s

(* A thread takes a vruntime relative to vtime out of the queue unless it  *)
(* goes to sleep, and has it made absolute when it comes back.             *)
Absolute(s, t) == [s EXCEPT !.vruntime[t] = Wrap(@ + s.vtime)]
Relative(s, t) == [s EXCEPT !.vruntime[t] = Wrap(@ - s.vtime)]

PlaceInitial(s, t) ==
    LET min == IF StartDebit THEN Wrap(s.vtime + SchedVslice(s, t))
                             ELSE s.vtime
    IN  [s EXCEPT !.vruntime[t] = MaxVruntime(@, min)]

SleeperCredit == IF GentleSleeper THEN MinGranularity \div 2
                                  ELSE MinGranularity

(* Mutant of PlaceWakeup: a sleeper keeps all its credit. *)
PlaceWakeupUnclamped(s, t) == s

PlaceWakeup(s, t) ==
    [s EXCEPT !.vruntime[t] = MaxVruntime(@, Wrap(s.vtime - SleeperCredit))]

(* Mutant of UpdateCurr: the time is not charged to the running thread. *)
UpdateCurrUncharged(s) ==
    IF s.curr = NULL \/ s.delta_exec = 0 THEN s
    ELSE UpdateSfqVtime([s EXCEPT
            !.exec_time = SaturatingAdd(@, s.delta_exec), !.delta_exec = 0])

UpdateCurr(s) ==
    IF s.curr = NULL \/ s.delta_exec = 0 THEN s
    ELSE LET delta == ScaleDelta(s, s.delta_exec, s.curr)
         IN  UpdateSfqVtime(
               [s EXCEPT !.vruntime[s.curr] = Wrap(@ + delta),
                         !.exec_time = SaturatingAdd(@, s.delta_exec),
                         !.delta_exec = 0])

-----------------------------------------------------------------------------
(* The candidates that pick_next_entity prefers to the leftmost entity *)

SetSkip(s, t) == [s EXCEPT !.skip = t]
SetNext(s, t) == IF s.pri_class[t] = "idle" THEN s ELSE [s EXCEPT !.next = t]
SetLast(s, t) == IF s.pri_class[t] = "idle" THEN s ELSE [s EXCEPT !.last = t]

(* Mutant of ClearCandidates: a candidate for next stays one. *)
ClearCandidatesKeepsNext(s, t) ==
    [s EXCEPT !.skip = IF @ = t THEN NULL ELSE @,
              !.last = IF @ = t THEN NULL ELSE @]

ClearCandidates(s, t) ==
    [s EXCEPT !.skip = IF @ = t THEN NULL ELSE @,
              !.next = IF @ = t THEN NULL ELSE @,
              !.last = IF @ = t THEN NULL ELSE @]

(* Mutant of WithinGranularity: the granularity is not looked at. *)
WithinGranularityAlways(s, a, b) == TRUE

(* wakeup_preempt_entity(a, b) < 1: a is not ahead of b by more than the   *)
(* granularity, which b's weight scales.                                   *)
WithinGranularity(s, a, b) ==
    Diff(s.vruntime[a], s.vruntime[b]) <= ScaleDelta(s, WakeupGranularity, b)

PickNextEntity(s) ==
    LET first  == s.leftmost
        second == NextEntity(s, first)
        Fits(t) == t # NULL /\ WithinGranularity(s, t, first)
    IN  IF Fits(s.next) THEN s.next
        ELSE IF Fits(s.last) THEN s.last
        ELSE IF s.skip = first /\ Fits(second) THEN second
        ELSE first

-----------------------------------------------------------------------------
(* The operations of pss_class *)

HasPreemptBit(swt) == swt \in {"preempt", "needresched"}

PssPutPrev(s, t, swt) ==
    LET s1 == IF swt = "relinquish" THEN SetSkip(s, t) ELSE s
        s2 == [UpdateCurr(s1) EXCEPT !.td_state[t] = "runq"]
        s3 == RunqEnqueueRaised(s2, t, HasPreemptBit(swt))
    IN  [IF t \in s.joined THEN EnqueueTimeline(s3, t) ELSE s
            EXCEPT !.curr = NULL, !.delta_exec = 0, !.exec_time = 0]

PssActivate(s, t) ==
    LET s1 == RunqDequeue(Kassert(s, t \in s.joined, "not joined"), t)
        s2 == Kassert(DequeueTimeline(s1, t), s.curr = NULL,
                      "curr already exists")
    IN  [s2 EXCEPT !.curr = t, !.delta_exec = 0, !.exec_time = 0,
                   !.td_state[t] = "running"]

PssEnqueue(s, t, wakeup) ==
    LET s1 == IF wakeup THEN s ELSE Absolute(s, t)
        s2 == UpdateCurr(s1)
        s3 == IF wakeup THEN PlaceWakeup(s2, t) ELSE s2
        s4 == RunqEnqueueRaised([s3 EXCEPT !.td_state[t] = "runq"], t, FALSE)
        s5 == AccountEnqueue(EnqueueTimeline(s4, t), t)
    IN  RqRunAdd(IF t \in s.joined THEN s
                 ELSE [s5 EXCEPT !.joined = @ \cup {t}], t)

PssDequeue(s, t, sleep) ==
    LET s1 == ClearCandidates(RunqDequeue(UpdateCurr(s), t), t)
        s2 == IF OnSfq(s1, t) THEN DequeueTimeline(s1, t) ELSE s1
        s3 == [AccountDequeue(s2, t) EXCEPT !.joined = @ \ {t}]
        s4 == IF sleep THEN s3 ELSE Relative(s3, t)
    IN  RqRunRem(IF t \in s.joined THEN UpdateSfqVtime(s4)
                 ELSE Kassert(s, ~OnRunq(s, t) /\ ~OnSfq(s, t),
                              "inconsistent queue state"), t)

PssChangePriority(s, t, prio) ==
    LET s1 == [RunqDequeue(s, t) EXCEPT !.td_priority[t] = prio]
    IN  IF s.td_state[t] = "runq" /\ prio < s.td_priority[t]
        THEN CheckPriorityPreempt(RunqEnqueueRaised(s1, t, FALSE), t)
        ELSE [s EXCEPT !.td_priority[t] = prio]

(* The caller has checked that curthread is of this class as well. *)
PssCheckPreemptCurr(s, t) ==
    LET ctd     == s.curthread
        scale   == s.sfq_running >= SchedNrLatency
        Preempt(z) == IF SchedLast /\ scale
                      THEN SetLast(ReschedThread(z, ctd), t)
                      ELSE ReschedThread(z, ctd)
        s1      == UpdateCurr(s)
    IN  IF ctd \in s.need_resched THEN s
        ELSE IF s.pri_class[ctd] = "idle" /\ s.pri_class[t] # "idle"
        THEN Preempt(s)
        ELSE IF ~WithinGranularity(s1, ctd, t)
        THEN Preempt(SetNext(s1, t))
        ELSE s1

(* check_preempt_tick *)
CheckPreemptTick(s, t) ==
    LET ideal_slice == SfqSlice(s, t)
    IN  IF s.exec_time > ideal_slice
        THEN ReschedThread(ClearCandidates(s, t), s.curthread)
        ELSE IF /\ s.exec_time >= MinGranularity
                /\ s.leftmost # NULL
                /\ Diff(s.vruntime[t], s.vruntime[s.leftmost]) > ideal_slice
        THEN ReschedThread(s, s.curthread)
        ELSE s

PssTick(s, t) ==
    LET s1 == UpdateCurr(s)
    IN  IF s1.sfq_running > 1 THEN CheckPreemptTick(s1, t) ELSE s1

PssFork(s, t, child) ==
    LET s1 == UpdateCurr(UpdateRqClock(s))
        s2 == PlaceInitial([s1 EXCEPT !.vruntime[child] = s1.vruntime[t]],
                           child)
        s3 == IF ChildRunsFirst /\ EntityBefore(s2, t, child)
              THEN ReschedThread([s2 EXCEPT
                        !.vruntime[t] = s2.vruntime[child],
                        !.vruntime[child] = s2.vruntime[t]], t)
              ELSE s2
    IN  Relative(s3, child)

(* A sleeping thread's vruntime is absolute while it is in this class and  *)
(* relative to vtime while it is in another.                               *)
PssSwitchedFrom(s, t) ==
    IF s.td_state[t] = "sleeping" THEN Relative(PlaceWakeup(s, t), t) ELSE s
=============================================================================
