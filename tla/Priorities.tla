----------------------------- MODULE Priorities -----------------------------
(***************************************************************************)
(* Priorities and their order: the lending of priorities of Lending, and   *)
(* the list of PrioList, which keeps threads in the order of the priority  *)
(* they had when they were added.  The two share no variable of the code:  *)
(* the list has its own copy of a priority, and td_priority may change in  *)
(* any way while a thread is on it.  So only one of them moves in a        *)
(* behaviour of this module, and the other stays at an initial state.      *)
(***************************************************************************)
EXTENDS Lending, TLC

CONSTANTS
    Listed,         \* the threads of PrioList
    Pri             \* their priorities

ASSUME ListAssumption == Pri \subseteq Nat /\ NULL \notin Listed

VARIABLES
    head, qhead, prio, td_priority, corrupted,      \* of PrioList
    part                                            \* the part that moves

Q == INSTANCE PrioList WITH Thread <- Listed

list_vars == <<head, qhead, prio, td_priority, corrupted>>
priorities_vars == <<vars, list_vars, part>>

PrioritiesInit ==
    /\ part \in {"lending", "list"}
    /\ Init
    /\ Q!Init
    /\ part = "lending" => td_priority = [t \in Listed |-> Min(Pri)]

PrioritiesNext ==
    \/ part = "lending" /\ Next /\ UNCHANGED <<list_vars, part>>
    \/ part = "list" /\ Q!Next /\ UNCHANGED <<vars, part>>

PrioritiesSpec == PrioritiesInit /\ [][PrioritiesNext]_priorities_vars

-----------------------------------------------------------------------------
(* Properties *)

(* PrioList: leaders in the strict order of their priorities, each at the  *)
(* head of its own queue, no other queue in use, and the assertion of      *)
(* prio_list_del has not failed (prio_list_add, prio_list_del).            *)
ListInv == Q!ListInv

(* PrioList: the two levels of lists are one queue by priority, first in   *)
(* first out among equals (prio_list_add, prio_list_del, prio_list_first). *)
ImplementsQueue == Q!ImplementsQueue

-----------------------------------------------------------------------------
(* For TLC: Listed has one thread more, which is not permuted. *)
MCSymmetry == Permutations(Thread)
=============================================================================
