------------------------------ MODULE PrioList ------------------------------
(***************************************************************************)
(* The priority list of prio_list.c: a list of leaders, one per priority,  *)
(* and behind each leader, in its own qhead, the queue of the threads of   *)
(* that priority, the leader first.  When a leader goes, the next thread   *)
(* of its queue takes over its place and its queue.                        *)
(***************************************************************************)
EXTENDS Queues

CONSTANTS
    Thread,
    Pri,            \* the values of td_priority
    NULL

VARIABLES
    head,           \* list->head, linked by llink
    qhead,          \* ts->qhead, linked by qlink
    prio,           \* ts->prio; 0 off the list
    td_priority,
    corrupted       \* KASSERT(head == ts, ("queue corrupted")) failed

vars == <<head, qhead, prio, td_priority, corrupted>>

OnList(t) == \E h \in ToSet(head) : t \in ToSet(qhead[h])

Init ==
    /\ head = <<>>
    /\ qhead = [t \in Thread |-> <<>>]
    /\ prio = [t \in Thread |-> 0]
    /\ td_priority \in [Thread -> Pri]
    /\ corrupted = FALSE

prio_list_first == IF head = <<>> THEN NULL ELSE Head(head)

(* Mutant of FirstNotBetter: the search goes on over an equal priority. *)
FirstWorse(p) == Position(head, {i \in DOMAIN head : prio[head[i]] > p})

(* Where TAILQ_FOREACH stops: at the first leader that is not better. *)
FirstNotBetter(p) == Position(head, {i \in DOMAIN head : prio[head[i]] >= p})

prio_list_add(t) ==
    LET p  == td_priority[t]
        at == FirstNotBetter(p)
    IN  /\ ~OnList(t)
        /\ prio' = [prio EXCEPT ![t] = p]
        /\ IF at <= Len(head) /\ prio[head[at]] = p
           THEN /\ qhead' = [qhead EXCEPT ![t] = <<>>,
                                          ![head[at]] = Append(@, t)]
                /\ UNCHANGED head
           ELSE /\ qhead' = [qhead EXCEPT ![t] = <<t>>]
                /\ head' = InsertAt(head, at, t)
        /\ UNCHANGED <<td_priority, corrupted>>

(* The leader of t, to which TAILQ_PREV leads back. *)
Leader(t) == CHOOSE h \in ToSet(head) : t \in ToSet(qhead[h])

(* Mutant of TakeOver: the queue stays with the leader that goes. *)
TakeOverPlaceOnly(h, q) ==
    /\ qhead' = [qhead EXCEPT ![h] = q]
    /\ head' = [i \in DOMAIN head |-> IF head[i] = h THEN Head(q) ELSE head[i]]

(* TAILQ_SWAP of the queues, and next in the place of the leader h. *)
TakeOver(h, q) ==
    /\ qhead' = [qhead EXCEPT ![h] = qhead[Head(q)], ![Head(q)] = q]
    /\ head' = [i \in DOMAIN head |-> IF head[i] = h THEN Head(q) ELSE head[i]]

prio_list_del(t) ==
    LET h == Leader(t)
        q == Without(qhead[h], t)
    IN  /\ OnList(t)
        /\ prio' = [prio EXCEPT ![t] = 0]
        /\ IF q = <<>>
           THEN /\ head' = Without(head, h)
                /\ qhead' = [qhead EXCEPT ![h] = q]
                /\ corrupted' = (corrupted \/ h # t)
           ELSE /\ IF t = h THEN TakeOver(h, q)
                   ELSE qhead' = [qhead EXCEPT ![h] = q] /\ UNCHANGED head
                /\ UNCHANGED corrupted
        /\ UNCHANGED td_priority

(* A thread's priority changes while it is on the list. *)
ChangePriority(t) ==
    /\ \E p \in Pri : td_priority' = [td_priority EXCEPT ![t] = p]
    /\ UNCHANGED <<head, qhead, prio, corrupted>>

Next ==
    \E t \in Thread : prio_list_add(t) \/ prio_list_del(t) \/ ChangePriority(t)

Spec == Init /\ [][Next]_vars

-----------------------------------------------------------------------------
(* Properties *)

(* Every variable has its type. *)
TypeOK ==
    /\ head \in Seq(Thread)
    /\ qhead \in [Thread -> Seq(Thread)]
    /\ prio \in [Thread -> Pri \cup {0}]
    /\ td_priority \in [Thread -> Pri]

(* The leaders are in the strict order of their priorities, each at the    *)
(* head of a queue of threads of its own priority; every other qhead is    *)
(* empty, which the swap in prio_list_del relies on; and its assertion has *)
(* not failed.                                                             *)
ListInv ==
    /\ TypeOK /\ ~corrupted
    /\ \A i, j \in DOMAIN head : i < j => prio[head[i]] < prio[head[j]]
    /\ \A h \in ToSet(head) :
          /\ prio[h] \in Pri
          /\ qhead[h] # <<>> /\ Head(qhead[h]) = h
          /\ IsInjective(qhead[h])
          /\ \A t \in ToSet(qhead[h]) : prio[t] = prio[h]
    /\ \A t \in Thread \ ToSet(head) : qhead[t] = <<>>

(* The threads of priority p, as the queue of their leader *)
QueueOf(p) ==
    LET leaders == {h \in ToSet(head) : prio[h] = p}
    IN  IF leaders = {} THEN <<>> ELSE qhead[CHOOSE h \in leaders : TRUE]

(* The two levels of lists are a queue by priority, first in first out     *)
(* among equals, and prio_list_first its first thread.                     *)
Queue == INSTANCE PrioQueue WITH
            queue <- [p \in Pri |-> QueueOf(p)], first <- prio_list_first

ImplementsQueue == Queue!Spec
=============================================================================
