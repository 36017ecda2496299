----------------------------- MODULE GroupSched -----------------------------
(***************************************************************************)
(* The start-time fair queueing class, pss.c, with SFQ_GROUP_SCHED: every  *)
(* group is an entity of the queue of its parent and has a queue of its    *)
(* own, so that an entry point walks from a thread up to the root queue,   *)
(* or from the root queue down to a thread.                                *)
(*                                                                         *)
(* The hierarchy is fixed here (module GroupLife makes and destroys        *)
(* groups); threads move between groups and the shares of a group change.  *)
(* All threads are timeshare threads of the default weight and priority:   *)
(* the queue of one level, with nice values, classes and priorities, is    *)
(* module Pss.  The cached leftmost entity of a queue, which is checked    *)
(* there, is the head of its timeline.  The list of leaf queues, which the *)
(* code keeps and never reads, is left out.                                *)
(***************************************************************************)
EXTENDS Integers, FiniteSets, Queues

CONSTANTS
    Thread, Group,
    Root,               \* the root group and its queue, rq->sfq
    Parent,             \* sg->parent of every group but the root
    Idle, NULL,
    NICE_0_WEIGHT,
    MIN_SHARES, MAX_SHARES,
    InitShares,         \* sg->shares of a group as it was created
    SharesArg,          \* the arguments of the sysctl "shares"
    SchedLatency, MinGranularity, WakeupGranularity,
    Calls,              \* calls made: fork, exit, sleep, yield, move, shares
    ExecCap,            \* bound: execution times saturate here
    MaxTime             \* bound: time passes while no vtime has reached it

(* Groups hang from the root: no set of them holds the parents of all its  *)
(* members.  A group is made as a leaf below one that exists, and          *)
(* sg->parent is never assigned again (sched.c:1480); GroupLife models     *)
(* that, and that the groups stay a tree is proved there.                  *)
ASSUME GroupAssumption ==
    /\ IsFiniteSet(Thread) /\ IsFiniteSet(Group)
    /\ Thread \cap Group = {} /\ Root \notin Thread \cup Group
    /\ {NULL, Idle} \cap (Thread \cup Group \cup {Root}) = {}
    /\ Parent \in [Group -> Group \cup {Root}]
    /\ \A S \in SUBSET Group : S # {} => \E g \in S : Parent[g] \notin S

ASSUME SharesAssumption ==
    /\ NICE_0_WEIGHT \in Nat \ {0} /\ MIN_SHARES \in Nat \ {0}
    /\ MAX_SHARES \in Nat
    /\ InitShares \in [Group -> MIN_SHARES .. MAX_SHARES]
    /\ SharesArg \subseteq Nat

ASSUME PeriodAssumption ==
    /\ SchedLatency \in Nat \ {0} /\ MinGranularity \in Nat \ {0}
    /\ WakeupGranularity \in Nat /\ ExecCap \in Nat /\ MaxTime \in Nat

VARIABLE rq             \* everything the run-queue lock protects

Entity == Thread \cup Group
Queue == Group \cup {Root}
Candidate == {"skip", "next", "last"}

-----------------------------------------------------------------------------
(* The hierarchy *)

(* se->sfq and se->parent *)
Sfq(s, e) == IF e \in Thread THEN s.group[e] ELSE Parent[e]
ParentEntity(s, e) == IF Sfq(s, e) = Root THEN NULL ELSE Sfq(s, e)

(* WALKUP_SCHED_ENTITY: e, its parent and so on. *)
Walkup(s, e) ==
    LET up[k \in 0 .. Cardinality(Group)] ==
            IF k = 0 THEN <<e>>
            ELSE LET p == ParentEntity(s, Last(up[k - 1]))
                 IN  IF p = NULL THEN up[k - 1] ELSE Append(up[k - 1], p)
    IN  up[Cardinality(Group)]

(* find_common_ancestor: the lowest of the ancestors of a and b, at the    *)
(* same depth, that are in one queue.                                      *)
CommonAncestor(s, a, b) ==
    LET as == Reverse(Walkup(s, a))
        bs == Reverse(Walkup(s, b))
        d  == Max({i \in DOMAIN as \cap DOMAIN bs :
                      Sfq(s, as[i]) = Sfq(s, bs[i])})
    IN  <<as[d], bs[d]>>

Kassert(s, cond, msg) ==
    [s EXCEPT !.panics = IF cond THEN @ ELSE @ \cup {msg}]

-----------------------------------------------------------------------------
(* Weights *)

ScaleByWeight(delta, weight, lw) ==
    LET w == IF lw > 0 THEN lw ELSE 1
    IN  (2 * delta * weight + w) \div (2 * w)

ScaleDelta(s, delta, e) ==
    IF s.weight[e] = NICE_0_WEIGHT THEN delta
    ELSE ScaleByWeight(delta, NICE_0_WEIGHT, s.weight[e])

SchedNrLatency == (SchedLatency + MinGranularity - 1) \div MinGranularity
SchedPeriod(n) == IF n > SchedNrLatency THEN MinGranularity * n
                                        ELSE SchedLatency

(* The slice of the queue is divided at every level. *)
SchedSlice(s, e) ==
    FoldLeft(LAMBDA slice, f :
                ScaleByWeight(slice, s.weight[f],
                              IF f \in s.joined THEN s.load[Sfq(s, f)]
                              ELSE s.load[Sfq(s, f)] + s.weight[f]),
             SchedPeriod(s.nr[Sfq(s, e)]), Walkup(s, e))

(* account_entity_enqueue and _dequeue; rq->load follows the root queue. *)
AccountEnqueue(s, e) ==
    [s EXCEPT !.load[Sfq(s, e)] = @ + s.weight[e],
              !.nr[Sfq(s, e)] = @ + 1,
              !.rq_load = IF ParentEntity(s, e) = NULL THEN @ + s.weight[e]
                          ELSE @]
AccountDequeue(s, e) ==
    [s EXCEPT !.load[Sfq(s, e)] = @ - s.weight[e],
              !.nr[Sfq(s, e)] = @ - 1,
              !.rq_load = IF ParentEntity(s, e) = NULL THEN @ - s.weight[e]
                          ELSE @]

-----------------------------------------------------------------------------
(* The timeline of a queue and its virtual time *)

Leftmost(s, q) == IF s.timeline[q] = <<>> THEN NULL ELSE Head(s.timeline[q])

EnqueueTimeline(s, e) ==
    LET q == Sfq(s, e)
        later == {i \in DOMAIN s.timeline[q] :
                     s.vruntime[e] < s.vruntime[s.timeline[q][i]]}
    IN  [Kassert(s, e \notin ToSet(s.timeline[q]), "already on sfq") EXCEPT
            !.timeline[q] = InsertBefore(@, later, e)]

DequeueTimeline(s, e) ==
    LET q == Sfq(s, e)
    IN  IF e \notin ToSet(s.timeline[q]) THEN Kassert(s, FALSE, "not on sfq")
        ELSE [s EXCEPT !.timeline[q] = Without(@, e)]

(* Mutant of UpdateSfqVtime: only what runs counts. *)
UpdateSfqVtimeCurr(s, q) ==
    LET c == s.curr[q]
    IN  IF c \notin s.joined THEN s
        ELSE [s EXCEPT !.vtime[q] = IF s.vruntime[c] > @ THEN s.vruntime[c]
                                    ELSE @]

UpdateSfqVtime(s, q) ==
    LET runnable == ({s.curr[q]} \cap s.joined)
                    \cup ({Leftmost(s, q)} \ {NULL})
        least == Min({s.vruntime[e] : e \in runnable})
    IN  IF runnable = {} THEN s
        ELSE [s EXCEPT !.vtime[q] = IF least > @ THEN least ELSE @]

UpdateCurr(s, q) ==
    LET c == s.curr[q]
        delta == s.delta_exec[c]
    IN  IF c = NULL THEN s ELSE IF delta = 0 THEN s
        ELSE UpdateSfqVtime(
               [s EXCEPT !.vruntime[c] = @ + ScaleDelta(s, delta, c),
                         !.exec_time[c] = IF @ + delta > ExecCap
                                          THEN ExecCap ELSE @ + delta,
                         !.delta_exec[c] = 0], q)

(* place_entity of a waking and of a new entity *)
PlaceWakeup(s, e) ==
    LET min == s.vtime[Sfq(s, e)] - MinGranularity
    IN  [s EXCEPT !.vruntime[e] = IF min > @ THEN min ELSE @]
PlaceInitial(s, e) ==
    LET min == s.vtime[Sfq(s, e)] + ScaleDelta(s, SchedSlice(s, e), e)
    IN  [s EXCEPT !.vruntime[e] = IF min > @ THEN min ELSE @]

-----------------------------------------------------------------------------
(* The shares of a group are the weight of its entity *)

UpdateEntityWeight(s, g, weight) ==
    LET q  == Sfq(s, g)
        s1 == AccountDequeue(IF s.curr[q] = g THEN UpdateCurr(s, q) ELSE s,
                             g)
    IN  IF g \in s.joined
        THEN AccountEnqueue([s1 EXCEPT !.weight[g] = weight], g)
        ELSE [s EXCEPT !.weight[g] = weight]

(* The root group has no entity. *)
UpdateSfqShares(s, q) ==
    IF q = Root THEN s
    ELSE IF s.weight[q] = s.shares[q] THEN s
    ELSE UpdateEntityWeight(s, q, s.shares[q])

-----------------------------------------------------------------------------
(* Candidates *)

SetCandidate(s, k, e) ==
    FoldLeft(LAMBDA z, f : [z EXCEPT !.cand[k][Sfq(z, f)] = f], s,
             Walkup(s, e))
SetNext(s, e) == SetCandidate(s, "next", e)
SetLast(s, e) == SetCandidate(s, "last", e)

(* Up to the first queue that has something else to run. *)
SetSkip(s, e) ==
    FoldLeft(LAMBDA acc, f :
                IF acc.stop THEN acc
                ELSE [s |-> [acc.s EXCEPT !.cand["skip"][Sfq(s, f)] = f],
                      stop |-> s.nr[Sfq(s, f)] > 1],
             [s |-> s, stop |-> FALSE], Walkup(s, e)).s

(* clear_skip_candidate, clear_next_candidate and clear_last_candidate: as *)
(* far up as the entity is the candidate.                                  *)
ClearCandidate(s, k, e) ==
    FoldLeft(LAMBDA acc, f :
                IF acc.stop \/ s.cand[k][Sfq(s, f)] # f
                THEN [acc EXCEPT !.stop = TRUE]
                ELSE [acc EXCEPT !.s.cand[k][Sfq(s, f)] = NULL],
             [s |-> s, stop |-> FALSE], Walkup(s, e)).s

(* Mutant of ClearCandidates: a candidate for next stays one. *)
ClearCandidatesKeepsNext(s, e) ==
    ClearCandidate(ClearCandidate(s, "skip", e), "last", e)

ClearCandidates(s, e) ==
    ClearCandidate(ClearCandidate(ClearCandidate(s, "skip", e), "next", e),
                   "last", e)

(* wakeup_preempt_entity(a, b) < 1 *)
WithinGranularity(s, a, b) ==
    s.vruntime[a] - s.vruntime[b] <= ScaleDelta(s, WakeupGranularity, b)

PickNextEntity(s, q) ==
    LET first  == Leftmost(s, q)
        second == IF Len(s.timeline[q]) > 1 THEN s.timeline[q][2] ELSE NULL
        Fits(e) == e # NULL /\ WithinGranularity(s, e, first)
    IN  IF Fits(s.cand["next"][q]) THEN s.cand["next"][q]
        ELSE IF Fits(s.cand["last"][q]) THEN s.cand["last"][q]
        ELSE IF s.cand["skip"][q] = first /\ Fits(second) THEN second
        ELSE first

-----------------------------------------------------------------------------
(* The operations of pss_class *)

UpdateRqClock(s) ==
    [s EXCEPT !.unseen = 0,
              !.delta_exec = [e \in Entity |->
                                 IF s.curr[Sfq(s, e)] = e
                                 THEN @[e] + s.unseen ELSE 0]]

PutPrevEntity(s, e, swt) ==
    LET q  == Sfq(s, e)
        s1 == IF e \in Thread /\ swt = "relinquish" THEN SetSkip(s, e) ELSE s
        s2 == UpdateCurr(s1, q)
        s3 == IF e \in Thread THEN [s2 EXCEPT !.td_state[e] = "runq"] ELSE s2
    IN  [IF e \in s.joined THEN EnqueueTimeline(s3, e) ELSE s EXCEPT
            !.curr[q] = NULL, !.delta_exec[e] = 0, !.exec_time[e] = 0]

PutPrev(s, t, swt) ==
    FoldLeft(LAMBDA z, e : PutPrevEntity(z, e, swt), s, Walkup(s, t))

ActivateEntity(s, e) ==
    LET q  == Sfq(s, e)
        s1 == DequeueTimeline(Kassert(s, e \in s.joined, "not joined"), e)
    IN  [Kassert(s1, s.curr[q] = NULL, "curr already exists") EXCEPT
            !.curr[q] = e, !.delta_exec[e] = 0, !.exec_time[e] = 0]

Activate(s, t) ==
    [FoldLeft(ActivateEntity, s, Walkup(s, t)) EXCEPT
        !.td_state[t] = "running"]

EnqueueEntity(s, e, wakeup) ==
    LET q  == Sfq(s, e)
        s0 == Kassert(s, e \notin s.joined, "joined")
        s1 == IF wakeup THEN s0
              ELSE [s0 EXCEPT !.vruntime[e] = @ + s.vtime[q]]
        s2 == UpdateCurr(s1, q)
        s3 == IF wakeup THEN PlaceWakeup(s2, e) ELSE s2
        s4 == IF e \in Thread THEN [s3 EXCEPT !.td_state[e] = "runq"] ELSE s3
        s5 == UpdateSfqShares(AccountEnqueue(EnqueueTimeline(s4, e), e), q)
    IN  [s5 EXCEPT !.joined = @ \cup {e}]

(* Mutant of Enqueue: the parents of a thread are not enqueued. *)
EnqueueThreadOnly(s, t, wakeup) == EnqueueEntity(s, t, wakeup)

(* Entities are enqueued up to the first that has joined; from there on    *)
(* only shares are brought up to date.                                     *)
Enqueue(s, t, wakeup) ==
    FoldLeft(LAMBDA acc, e :
                IF acc.above \/ e \in acc.s.joined
                THEN [acc EXCEPT !.s = UpdateSfqShares(@, Sfq(s, e)),
                                 !.above = TRUE]
                ELSE [s |-> EnqueueEntity(acc.s, e, acc.wakeup),
                      wakeup |-> TRUE, above |-> FALSE],
             [s |-> UpdateRqClock(s), wakeup |-> wakeup, above |-> FALSE],
             Walkup(s, t)).s

OutOfTimeline(s, e) ==
    IF e \in ToSet(s.timeline[Sfq(s, e)]) THEN DequeueTimeline(s, e) ELSE s

(* An entity that does not sleep takes its distance from virtual time along. *)
Leave(s, e, sleep) ==
    [AccountDequeue(s, e) EXCEPT
        !.joined = @ \ {e},
        !.vruntime[e] = IF sleep THEN @ ELSE @ - s.vtime[Sfq(s, e)]]

DequeueEntity(s, e, sleep) ==
    LET q  == Sfq(s, e)
        s1 == OutOfTimeline(ClearCandidates(UpdateCurr(s, q), e), e)
    IN  IF e \in s.joined
        THEN UpdateSfqShares(UpdateSfqVtime(Leave(s1, e, sleep), q), q)
        ELSE Kassert(s, e \notin ToSet(s.timeline[q]),
                     "inconsistent queue state")

(* A queue without load is empty: its entity leaves the parent's queue as  *)
(* if it went to sleep.  When a thread sleeps its group is preferred next. *)
Dequeue(s, t, sleep) ==
    FoldLeft(LAMBDA acc, e :
                LET z == DequeueEntity(acc.s, e, acc.sleep)
                    p == ParentEntity(s, e)
                IN  IF acc.above
                    THEN [acc EXCEPT !.s = UpdateSfqShares(@, Sfq(s, e))]
                    ELSE IF z.load[Sfq(s, e)] # 0
                    THEN [acc EXCEPT !.s = IF sleep /\ p # NULL
                                           THEN SetNext(z, p) ELSE z,
                                     !.above = TRUE]
                    ELSE [s |-> z, sleep |-> TRUE, above |-> FALSE],
             [s |-> UpdateRqClock(s), sleep |-> sleep, above |-> FALSE],
             Walkup(s, t)).s

(* pss_check_preempt_curr compares the ancestors that share a queue. *)
CheckPreemptCurr(s, t) ==
    LET ctd   == s.curthread
        pair  == CommonAncestor(s, ctd, t)
        scale == s.nr[Sfq(s, ctd)] >= SchedNrLatency
        s1    == UpdateCurr(s, Sfq(s, pair[1]))
        s2    == [SetNext(s1, pair[2]) EXCEPT !.need_resched = TRUE]
    IN  IF s.need_resched THEN s
        ELSE IF ctd = Idle THEN [s EXCEPT !.need_resched = TRUE]
        ELSE IF WithinGranularity(s1, pair[1], pair[2]) THEN s1
        ELSE IF scale /\ pair[2] \in Thread THEN SetLast(s2, pair[2])
        ELSE s2

CheckPreemptTick(s, e) ==
    LET q == Sfq(s, e)
        ideal_slice == SchedSlice(s, e)
    IN  IF s.exec_time[e] > ideal_slice
        THEN [ClearCandidates(s, e) EXCEPT !.need_resched = TRUE]
        ELSE IF /\ s.exec_time[e] >= MinGranularity
                /\ Leftmost(s, q) # NULL
                /\ s.vruntime[e] - s.vruntime[Leftmost(s, q)] > ideal_slice
        THEN [s EXCEPT !.need_resched = TRUE]
        ELSE s

EntityTick(s, e) ==
    LET s1 == UpdateCurr(s, Sfq(s, e))
    IN  IF s1.nr[Sfq(s, e)] > 1 THEN CheckPreemptTick(s1, e) ELSE s1

ForkThread(s, t, child) ==
    LET q  == s.group[t]
        s1 == [s EXCEPT !.td_state[child] = "new", !.group[child] = q]
        s2 == UpdateCurr(UpdateRqClock(s1), q)
        s3 == PlaceInitial([s2 EXCEPT !.vruntime[child] = s2.vruntime[t]],
                           child)
    IN  [s3 EXCEPT !.vruntime[child] = @ - s3.vtime[q]]

-----------------------------------------------------------------------------
(* sched.c *)

(* pss_pick_next_thread goes down from the root queue to a thread. *)
PickNext(s) ==
    LET Down(acc, k) ==
            IF acc.q = NULL THEN acc
            ELSE IF Leftmost(acc.s, acc.q) = NULL
            THEN [s |-> Kassert(acc.s, FALSE, "no entity to pick"),
                  e |-> Idle, q |-> NULL]
            ELSE LET e == PickNextEntity(acc.s, acc.q)
                 IN  [s |-> ClearCandidates(acc.s, e), e |-> e,
                      q |-> IF e \in Group THEN e ELSE NULL]
    IN  FoldLeft(Down, [s |-> s, e |-> Idle, q |-> Root],
                 [k \in 1 .. Cardinality(Group) + 1 |-> k])

SchedChoose(s) ==
    LET pick == PickNext(s)
    IN  IF s.nr[Root] = 0 THEN [s EXCEPT !.curthread = Idle]
        ELSE IF pick.e = Idle THEN [pick.s EXCEPT !.curthread = Idle]
        ELSE [Activate(pick.s, pick.e) EXCEPT !.curthread = pick.e]

(* put_prev_thread: the clock is read for a thread that has joined. *)
PutPrevThread(s, t, swt) ==
    IF t = Idle THEN s
    ELSE PutPrev(IF t \in s.joined THEN UpdateRqClock(s) ELSE s, t, swt)

SwitchRunnable(s, swt) ==
    SchedChoose(PutPrevThread([s EXCEPT !.need_resched = FALSE],
                              s.curthread, swt))

SwitchAway(s, state) ==
    LET td == s.curthread
        s1 == Dequeue([s EXCEPT !.need_resched = FALSE,
                                !.td_state[td] = state],
                      td, state = "sleeping")
    IN  SchedChoose(PutPrevThread(s1, td, "none"))

(* A sleeper's vruntime is made relative to its new queue. *)
MoveTo(s, t, g) ==
    [s EXCEPT !.group[t] = g,
              !.vruntime[t] = IF s.td_state[t] = "sleeping"
                              THEN @ + s.vtime[g] - s.vtime[s.group[t]]
                              ELSE @]

(* sched_group_move, pss_sched_group_move: a queued thread is taken out of *)
(* the old queue and put into the new one, a running one put back too.     *)
GroupMove(s, t, g) ==
    LET out == Dequeue(s, t, FALSE)
    IN  CASE s.td_state[t] = "running" ->
                Activate(Enqueue(MoveTo(PutPrevThread(out, t, "none"), t, g),
                                 t, FALSE), t)
          [] s.td_state[t] = "runq" -> Enqueue(MoveTo(out, t, g), t, FALSE)
          [] OTHER -> MoveTo(s, t, g)

(* pss_sched_group_set_shares: 0 is not clamped, and the walk updates the  *)
(* shares of the queues that the group and its ancestors are in.           *)
SetShares(s, g, arg) ==
    LET shares == IF arg = 0 THEN 0
                  ELSE IF arg < MIN_SHARES THEN MIN_SHARES
                  ELSE IF arg > MAX_SHARES THEN MAX_SHARES ELSE arg
    IN  IF arg # 0 /\ shares = s.shares[g] THEN s
        ELSE FoldLeft(LAMBDA z, e : UpdateSfqShares(z, Sfq(z, e)),
                      [s EXCEPT !.shares[g] = shares], Walkup(s, g))

-----------------------------------------------------------------------------
(* sched_setup: thread0 runs in the root group.  A group that no thread    *)
(* was in yet has an entity of weight 0.                                   *)

Init ==
    \E t \in Thread :
        rq = [td_state   |-> [u \in Thread |->
                                 IF u = t THEN "running" ELSE "none"],
              group      |-> [u \in Thread |-> Root],
              joined     |-> {t},
              weight     |-> [e \in Entity |->
                                 IF e \in Thread THEN NICE_0_WEIGHT ELSE 0],
              shares     |-> InitShares,
              vruntime   |-> [e \in Entity |-> 0],
              delta_exec |-> [e \in Entity |-> 0],
              exec_time  |-> [e \in Entity |-> 0],
              timeline   |-> [q \in Queue |-> <<>>],
              curr       |-> [q \in Queue |-> IF q = Root THEN t ELSE NULL],
              cand       |-> [k \in Candidate |-> [q \in Queue |-> NULL]],
              vtime      |-> [q \in Queue |-> 0],
              load       |-> [q \in Queue |->
                                 IF q = Root THEN NICE_0_WEIGHT ELSE 0],
              nr         |-> [q \in Queue |-> IF q = Root THEN 1 ELSE 0],
              rq_load    |-> NICE_0_WEIGHT,
              curthread  |-> t,
              need_resched |-> FALSE,
              unseen     |-> 0,
              panics     |-> {}]

Runs == rq.curthread # Idle
Alive == {t \in Thread : rq.td_state[t] # "none"}

(* Time passes, and threads are made, until the virtual time of a queue or *)
(* the vruntime of what runs in it reaches the bound.                      *)
WithinBound ==
    \A q \in Queue :
        /\ rq.vtime[q] < MaxTime
        /\ rq.curr[q] # NULL => rq.vruntime[rq.curr[q]] < MaxTime

Elapse == /\ rq.unseen = 0 /\ WithinBound
          /\ rq' = [rq EXCEPT !.unseen = 1]

SchedTick ==
    /\ rq.unseen = 1
    /\ rq' = IF Runs THEN FoldLeft(EntityTick, UpdateRqClock(rq),
                                   Walkup(rq, rq.curthread))
             ELSE UpdateRqClock(rq)

NeedResched == /\ rq.need_resched
               /\ rq' = SwitchRunnable(rq, "needresched")

SchedRelinquish == /\ "yield" \in Calls /\ Runs
                   /\ rq' = SwitchRunnable(rq, "relinquish")

Sleep == /\ "sleep" \in Calls /\ Runs
         /\ rq' = SwitchAway(rq, "sleeping")

SchedThrow == /\ "exit" \in Calls /\ Runs /\ Cardinality(Alive) > 1
              /\ rq' = SwitchAway(rq, "none")

SchedAdd(t) ==
    /\ rq.td_state[t] \in {"new", "sleeping"}
    /\ rq' = CheckPreemptCurr(Enqueue(rq, t, rq.td_state[t] = "sleeping"), t)

SchedFork(child) ==
    /\ "fork" \in Calls /\ Runs /\ WithinBound
    /\ rq.td_state[child] = "none"
    /\ rq' = ForkThread(rq, rq.curthread, child)

SchedGroupMove(t, g) ==
    /\ "move" \in Calls /\ t \in Alive /\ rq.group[t] # g
    /\ rq' = GroupMove(rq, t, g)

SetGroupShares(g, arg) ==
    /\ "shares" \in Calls
    /\ rq' = SetShares(rq, g, arg)

Next ==
    \/ Elapse \/ SchedTick \/ NeedResched \/ SchedRelinquish
    \/ Sleep \/ SchedThrow
    \/ \E t \in Thread : SchedAdd(t) \/ SchedFork(t)
    \/ \E t \in Thread, g \in Queue : SchedGroupMove(t, g)
    \/ \E g \in Group, arg \in SharesArg : SetGroupShares(g, arg)

Spec == Init /\ [][Next]_rq

-----------------------------------------------------------------------------
(* Properties *)

In(q) == {e \in rq.joined : Sfq(rq, e) = q}

(* Every field of the run queue and of the entities has its type. *)
TypeOK ==
    /\ rq.td_state \in [Thread -> {"none", "new", "sleeping", "runq",
                                   "running"}]
    /\ rq.group \in [Thread -> Queue]
    /\ rq.joined \subseteq Entity
    /\ rq.weight \in [Entity -> Nat]
    /\ rq.shares \in [Group -> Nat]
    /\ rq.timeline \in [Queue -> Seq(Entity)]
    /\ rq.curr \in [Queue -> Entity \cup {NULL}]
    /\ rq.cand \in [Candidate -> [Queue -> Entity \cup {NULL}]]
    /\ rq.nr \in [Queue -> Nat] /\ rq.load \in [Queue -> Nat]
    /\ rq.curthread \in Thread \cup {Idle}

(* An entity is in the timeline of its queue or is what runs there, the    *)
(* running entities are the running thread and its ancestors, a group is   *)
(* queued exactly when something in it is runnable, and a candidate is     *)
(* queued.                                                                 *)
LevelsAgree ==
    /\ \A q \in Queue :
        /\ IsInjective(rq.timeline[q])
        /\ ToSet(rq.timeline[q]) = In(q) \ {rq.curr[q]}
        /\ rq.curr[q] # NULL => rq.curr[q] \in In(q)
        /\ \A k \in Candidate : rq.cand[k][q] \in In(q) \cup {NULL}
    /\ \A t \in Thread :
        t \in rq.joined <=> rq.td_state[t] \in {"runq", "running"}
    /\ \A g \in Group : g \in rq.joined <=> In(g) # {}
    /\ {rq.curr[q] : q \in Queue} \ {NULL} =
        IF Runs THEN ToSet(Walkup(rq, rq.curthread)) ELSE {}

(* The load of every queue is the sum of the weights in it, and rq->load   *)
(* is the root's, though shares change while a group is queued, running or *)
(* empty (account_entity_enqueue, update_entity_weight).                   *)
LoadInv ==
    /\ \A q \in Queue :
        /\ rq.nr[q] = Cardinality(In(q))
        /\ rq.load[q] = TotalWeight(rq.weight, In(q))
    /\ rq.rq_load = rq.load[Root]

(* The levels agree, with the right loads, and no assertion has failed,    *)
(* though the walks of pss_enqueue_thread, pss_dequeue_thread,             *)
(* pss_put_prev_thread and pss_activate_thread stop at different levels.   *)
HierarchyInv == TypeOK /\ LevelsAgree /\ LoadInv /\ rq.panics = {}

(* The CPU idles, and is not asked to stop idling, only when nothing is    *)
(* runnable: a thread that is runnable can be reached from the root queue. *)
NoIdleWithWork ==
    ~Runs /\ ~rq.need_resched => \A t \in Thread : rq.td_state[t] # "runq"

(* The virtual time of no queue goes back, and when it advances it passes  *)
(* no entity that stays runnable in that queue (update_sfq_vtime, at every *)
(* level of a walk).  A moved thread takes its group out of the queue, and *)
(* brings it back as a sleeper, in one step.                               *)
VtimeNeverOvertakes ==
    [][LET moved == {t \in Thread : rq'.group[t] # rq.group[t]}
           kept  == (rq.joined \cap rq'.joined)
                    \ UNION {ToSet(Walkup(rq, t)) : t \in moved}
       IN  \A q \in Queue :
            /\ rq'.vtime[q] >= rq.vtime[q]
            /\ rq'.vtime[q] > rq.vtime[q] =>
                \A e \in kept :
                    Sfq(rq, e) = q => rq'.vtime[q] <= rq'.vruntime[e]]_rq
=============================================================================
