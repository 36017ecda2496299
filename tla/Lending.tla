------------------------------ MODULE Lending -------------------------------
(***************************************************************************)
(* The priorities of timeshare threads, sched.c: the base priority, the    *)
(* priority a thread borrows from those that wait for its locks, and the   *)
(* user priority it returns to.  The locks and their turnstiles, and the   *)
(* lending of user priorities by umtx, are external.  What a change of     *)
(* priority does to the run queue is module Sched.                         *)
(***************************************************************************)
EXTENDS Integers, FiniteSets, FiniteSetsExt

CONSTANTS
    Thread, NULL,
    MaxLock,        \* locks are 1 .. MaxLock, and are taken in this order
    NORMAL_PRI,     \* the priority of user mode; larger is less important
    PRI_MAX,
    SleepPri,       \* the priorities that threads sleep with
    UserPri,        \* the user priorities that umtx lends
    prio_boost

ASSUME LendingAssumption ==
    /\ IsFiniteSet(Thread) /\ NULL \notin Thread
    /\ MaxLock \in Nat /\ NORMAL_PRI \in Nat /\ PRI_MAX \in Nat
    /\ NORMAL_PRI < PRI_MAX /\ prio_boost < NORMAL_PRI
    /\ SleepPri \subseteq 0 .. NORMAL_PRI /\ UserPri \subseteq 0 .. PRI_MAX

VARIABLES
    td,             \* td_priority, td_base_pri, td_user_pri and so on
    owner,          \* the owner of every lock
    blocked         \* the lock that a thread waits for, or 0

vars == <<td, owner, blocked>>

Lock == 1 .. MaxLock
Owned(t) == {l \in Lock : owner[l] = t}
Timeshare(p) == p >= NORMAL_PRI

Least(S) == Min(S \cup {PRI_MAX})

-----------------------------------------------------------------------------
(* sched_lend_prio, with sched_thread_priority *)
sched_lend_prio(s, t, prio) ==
    [s EXCEPT ![t].borrowing = TRUE, ![t].pri = prio]

(* Mutant of sched_unlend_prio: the regular priority always returns. *)
UnlendAll(s, t, prio) ==
    [s EXCEPT ![t].borrowing = FALSE, ![t].pri = s[t].base_pri]

(* Mutant of sched_unlend_prio: the mark stays. *)
UnlendMarked(s, t, prio) ==
    LET base == IF Timeshare(s[t].base_pri) THEN s[t].user_pri
                ELSE s[t].base_pri
    IN  [s EXCEPT ![t].pri = IF prio >= base THEN base ELSE prio]

(* prio is what the other waiters need. *)
sched_unlend_prio(s, t, prio) ==
    LET base == IF Timeshare(s[t].base_pri) THEN s[t].user_pri
                ELSE s[t].base_pri
    IN  IF prio >= base
        THEN [s EXCEPT ![t].borrowing = FALSE, ![t].pri = base]
        ELSE sched_lend_prio(s, t, prio)

(* propagate_priority of the turnstile: who is less important than thread  *)
(* t and owns the lock that it waits for, or that one of these waits for.  *)
Reached(s, t) ==
    LET Owner(u) == IF blocked'[u] = 0 THEN NULL ELSE owner'[blocked'[u]]
        Closed(S) ==
            \A u \in S \cup {t} :
                Owner(u) # NULL /\ s[Owner(u)].pri > s[t].pri
                    => Owner(u) \in S
    IN  {o \in Thread : \A S \in SUBSET Thread : Closed(S) => o \in S}

Propagate(s, t) ==
    [u \in Thread |-> IF u \in Reached(s, t)
                      THEN sched_lend_prio(s, u, s[t].pri)[u] ELSE s[u]]

(* sched_prio: a borrower is not lowered; a thread on a turnstile lets it  *)
(* know of the change (turnstile_adjust).                                  *)
sched_prio(s, t, prio) ==
    LET s1 == [s EXCEPT ![t].base_pri = prio]
    IN  IF s[t].borrowing /\ s[t].pri < prio THEN s1
        ELSE Propagate([s1 EXCEPT ![t].pri = prio], t)

-----------------------------------------------------------------------------
(* The locks and their turnstiles *)

CanRun(t) == blocked[t] = 0

Acquire(t, l) ==
    /\ CanRun(t) /\ \A k \in Owned(t) : k < l
    /\ owner[l] = NULL
    /\ owner' = [owner EXCEPT ![l] = t]
    /\ UNCHANGED <<td, blocked>>

Wait(t, l) ==
    /\ CanRun(t) /\ \A k \in Owned(t) : k < l
    /\ owner[l] \notin {NULL, t}
    /\ blocked' = [blocked EXCEPT ![t] = l]
    /\ owner' = owner
    /\ td' = Propagate(td, t)

(* All waiters of the lock run again; the priority of the owner is what    *)
(* the waiters of its other locks need.                                    *)
Release(t, l) ==
    /\ CanRun(t) /\ owner[l] = t
    /\ owner' = [owner EXCEPT ![l] = NULL]
    /\ blocked' = [u \in Thread |-> IF blocked[u] = l THEN 0 ELSE blocked[u]]
    /\ td' = IF \A u \in Thread : blocked[u] # l THEN td
             ELSE sched_unlend_prio(td, t, Least({td[u].pri :
                    u \in {v \in Thread : blocked[v] \in Owned(t) \ {l}}}))

-----------------------------------------------------------------------------
(* The scheduler's entry points *)

(* sched_sleep; a thread that sleeps holds none of these locks. *)
SchedSleep(t, prio) ==
    /\ CanRun(t) /\ Owned(t) = {}
    /\ prio # 0 /\ (prio_boost = 1 \/ prio < prio_boost)
    /\ UNCHANGED <<owner, blocked>>
    /\ td' = sched_prio(td, t, prio)

(* sched_lend_user_prio *)
SchedLendUserPrio(t, prio) ==
    LET user == IF prio < td[t].base_user_pri THEN prio
                ELSE td[t].base_user_pri
        s == [td EXCEPT ![t].lend_user_pri = prio, ![t].user_pri = user]
    IN  /\ UNCHANGED <<owner, blocked>>
        /\ td' = IF td[t].pri > user THEN sched_prio(s, t, user) ELSE s

(* sched_user_prio of a thread that stays a timeshare thread *)
SchedUserPrio(t, prio) ==
    /\ UNCHANGED <<owner, blocked>>
    /\ td' = [td EXCEPT ![t].base_user_pri = prio,
                        ![t].user_pri = IF td[t].lend_user_pri <= prio THEN @
                                        ELSE prio]

(* update_curr of pss.c resets the user priority of what runs. *)
UpdateCurr(t) ==
    /\ CanRun(t)
    /\ UNCHANGED <<owner, blocked>>
    /\ td' = [td EXCEPT ![t].user_pri = NORMAL_PRI]

(* sched_userret; a thread returns to user mode without locks. *)
SchedUserret(t) ==
    /\ CanRun(t) /\ Owned(t) = {}
    /\ UNCHANGED <<owner, blocked>>
    /\ td' = IF td[t].pri = td[t].user_pri THEN td
             ELSE [td EXCEPT ![t].pri = td[t].user_pri,
                             ![t].base_pri = td[t].user_pri]

-----------------------------------------------------------------------------
Init ==
    /\ td = [t \in Thread |->
                [pri |-> NORMAL_PRI, base_pri |-> NORMAL_PRI,
                 user_pri |-> NORMAL_PRI, base_user_pri |-> NORMAL_PRI,
                 lend_user_pri |-> PRI_MAX, borrowing |-> FALSE]]
    /\ owner = [l \in Lock |-> NULL]
    /\ blocked = [t \in Thread |-> 0]

Next ==
    \E t \in Thread :
        \/ \E l \in Lock : Acquire(t, l) \/ Wait(t, l) \/ Release(t, l)
        \/ \E prio \in SleepPri : SchedSleep(t, prio)
        \/ \E prio \in UserPri : SchedLendUserPrio(t, prio)
        \/ \E prio \in {NORMAL_PRI, PRI_MAX} : SchedUserPrio(t, prio)
        \/ UpdateCurr(t)
        \/ SchedUserret(t)

Spec == Init /\ [][Next]_vars

-----------------------------------------------------------------------------
(* Properties *)

PriorityFields ==
    [pri : 0 .. PRI_MAX, base_pri : 0 .. PRI_MAX, user_pri : 0 .. PRI_MAX,
     base_user_pri : 0 .. PRI_MAX, lend_user_pri : 0 .. PRI_MAX,
     borrowing : BOOLEAN]

(* Every variable has its type, and only a lock with an owner is waited    *)
(* for.                                                                    *)
TypeOK ==
    /\ td \in [Thread -> PriorityFields]
    /\ owner \in [Lock -> Thread \cup {NULL}]
    /\ blocked \in [Thread -> 0 .. MaxLock]
    /\ \A t \in Thread : blocked[t] # 0 => owner[blocked[t]] # NULL

(* No priority inversion: who owns a lock is at least as important as all  *)
(* that wait for it, through changes of priority on both sides and through *)
(* chains of locks (sched_lend_prio, sched_unlend_prio, sched_prio).       *)
NoInversion ==
    /\ TypeOK
    /\ \A t \in Thread :
        blocked[t] # 0 => td[owner[blocked[t]]].pri <= td[t].pri

(* A borrower has a lender: "thread with borrowed priority returning to    *)
(* userland" is impossible, as a thread without locks has no waiter.       *)
BorrowersHaveLenders ==
    \A t \in Thread :
        td[t].borrowing => \E u \in Thread : blocked[u] \in Owned(t)
=============================================================================
