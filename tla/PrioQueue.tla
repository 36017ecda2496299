----------------------------- MODULE PrioQueue ------------------------------
(***************************************************************************)
(* What prio_list.c promises: a queue in the order of priority, first in   *)
(* first out among threads of the same priority.  A thread stays with the  *)
(* priority it was added with, whatever happens to td_priority meanwhile.  *)
(***************************************************************************)
EXTENDS Queues

CONSTANTS Thread, Pri, NULL

VARIABLES
    queue,          \* the threads of every priority
    td_priority,
    first           \* what prio_list_first returns

vars == <<queue, td_priority, first>>

Queued(t) == \E p \in Pri : t \in ToSet(queue[p])

(* The first thread of the best priority that has one *)
First(q) ==
    LET used == {p \in Pri : q[p] # <<>>}
    IN  IF used = {} THEN NULL ELSE Head(q[Min(used)])

Init ==
    /\ queue = [p \in Pri |-> <<>>]
    /\ td_priority \in [Thread -> Pri]
    /\ first = NULL

Add(t) ==
    /\ ~Queued(t)
    /\ queue' = [queue EXCEPT ![td_priority[t]] = Append(@, t)]
    /\ first' = First(queue')
    /\ UNCHANGED td_priority

Del(t) ==
    /\ \E p \in Pri :
        /\ t \in ToSet(queue[p])
        /\ queue' = [queue EXCEPT ![p] = Without(@, t)]
    /\ first' = First(queue')
    /\ UNCHANGED td_priority

ChangePriority(t) ==
    /\ \E p \in Pri : td_priority' = [td_priority EXCEPT ![t] = p]
    /\ UNCHANGED <<queue, first>>

Next == \E t \in Thread : ChangePriority(t) \/ Add(t) \/ Del(t)

Spec == Init /\ [][Next]_vars
=============================================================================
