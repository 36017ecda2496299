--------------------------------- MODULE Rt ---------------------------------
(***************************************************************************)
(* The real-time class, rt.c.  rq->rt_curr is written and never read, and  *)
(* is left out.                                                            *)
(***************************************************************************)
EXTENDS SfqState

RtPutPrev(s, t, swt) ==
    IF t \notin s.joined THEN [s EXCEPT !.rt_exec = 0]
    ELSE [RunqAdd(Kassert(s, ~OnRunq(s, t), "already on runq"),
                  t, swt = "preempt")
            EXCEPT !.td_state[t] = "runq", !.rt_exec = 0]

RtActivate(s, t) ==
    LET s1 == Kassert(Kassert(Kassert(s, t \in s.joined, "not joined"),
                              OnRunq(s, t), "not on runq"),
                      ~OnSfq(s, t), "on sfq")
    IN  [IF OnRunq(s, t) THEN RunqRemove(s1, t) ELSE s1
            EXCEPT !.td_state[t] = "running", !.rt_exec = 0]

(* ENQUEUE_HEAD is never asked for. *)
RtEnqueue(s, t) ==
    LET s1 == Kassert(Kassert(Kassert(s, t \notin s.joined, "joined"),
                              ~OnRunq(s, t), "already on runq"),
                      ~OnSfq(s, t), "on sfq")
    IN  [RqRunAdd(RunqAdd(s1, t, FALSE), t)
            EXCEPT !.td_state[t] = "runq", !.joined = @ \cup {t}]

(* Mutant of RtDequeue: the thread is still joined. *)
RtDequeueStaysJoined(s, t) ==
    LET s1 == IF OnRunq(s, t) THEN RunqRemove(s, t) ELSE s
    IN  IF t \notin s.joined THEN s
        ELSE Kassert(RqRunRem(s1, t), ~OnSfq(s, t), "on sfq")

RtDequeue(s, t) ==
    LET s1 == IF OnRunq(s, t) THEN RunqRemove(s, t) ELSE s
        s2 == Kassert(RqRunRem(s1, t), ~OnSfq(s, t), "on sfq")
    IN  IF t \notin s.joined THEN s ELSE [s2 EXCEPT !.joined = @ \ {t}]

(* Mutant of RtChangePriority: a queued thread is left where it is. *)
RtChangePriorityInPlace(s, t, prio) ==
    LET s1 == [s EXCEPT !.td_priority[t] = prio]
    IN  IF s.td_state[t] = "runq" /\ prio < s.td_priority[t]
        THEN CheckPriorityPreempt(s1, t) ELSE s1

RtChangePriority(s, t, prio) ==
    LET s1 == Kassert(s, OnRunq(s, t), "not on runq")
        s2 == IF OnRunq(s, t) THEN RunqRemove(s1, t) ELSE s1
    IN  IF s.td_state[t] = "runq" /\ prio < s.td_priority[t]
        THEN CheckPriorityPreempt(
                RunqAdd([s2 EXCEPT !.td_priority[t] = prio], t, FALSE), t)
        ELSE [s EXCEPT !.td_priority[t] = prio]

RtTick(s, t) ==
    IF s.pri_class[t] = "rr" /\ s.rt_exec >= RqSlice(s)
    THEN ReschedThread(s, t) ELSE s
=============================================================================
