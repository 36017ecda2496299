--------------------------- MODULE PrioritiesProofs -------------------------
(***************************************************************************)
(* The lending of priorities, for every number of threads and locks and    *)
(* every set of priorities: no priority inversion, and no borrower without *)
(* a lender; and the priority list, for every number of threads: it keeps  *)
(* its order and implements a queue by priority.                           *)
(***************************************************************************)
EXTENDS Priorities, QueueProofs

LendInv == NoInversion /\ BorrowersHaveLenders

LEMMA Constants ==
    /\ NULL \notin Thread /\ MaxLock \in Nat
    /\ NORMAL_PRI \in Nat /\ PRI_MAX \in Nat /\ NORMAL_PRI < PRI_MAX
    /\ SleepPri \subseteq 0 .. PRI_MAX /\ UserPri \subseteq 0 .. PRI_MAX
    /\ Lock \subseteq Nat \ {0}
BY LendingAssumption DEF Lock

LEMMA LeastNatural ==
    ASSUME NEW T \in SUBSET Nat, T # {}
    PROVE  \E x \in T : \A y \in T : x <= y
<1>1. PICK x \in T : \A y \in T : ~(<<y, x>> \in OpToRel(<, Nat))
    BY NatLessThanWellFounded, WFMin, Zenon
<1>2. \A y \in T : ~(y < x)
    BY <1>1 DEF OpToRel
<1> QED
    BY <1>2

(* The least of some priorities is no greater than any of them. *)
LEMMA LeastIs ==
    ASSUME NEW T \in SUBSET (0 .. PRI_MAX)
    PROVE  /\ Least(T) \in T \cup {PRI_MAX}
           /\ \A y \in T : Least(T) <= y
           /\ Least(T) \in 0 .. PRI_MAX
<1> DEFINE W == T \cup {PRI_MAX}
<1>1. W \in SUBSET Nat /\ W # {} /\ W \subseteq 0 .. PRI_MAX
    BY Constants
<1>2. \E x \in W : \A y \in W : x =< y
    BY <1>1, LeastNatural
<1>3. Least(T) = CHOOSE x \in W : \A y \in W : x =< y
    BY DEF Least, Min
<1>4. Least(T) \in W /\ \A y \in W : Least(T) <= y
    BY <1>2, <1>3
<1> QED
    BY <1>1, <1>4

(* What a change of one thread's priority does *)
LEMMA Lend ==
    ASSUME NEW s \in [Thread -> PriorityFields], NEW t \in Thread,
           NEW p \in 0 .. PRI_MAX
    PROVE  LET q == sched_lend_prio(s, t, p)
           IN  /\ q \in [Thread -> PriorityFields]
               /\ q[t] \in PriorityFields /\ q[t].pri = p
               /\ \A u \in Thread \ {t} : q[u] = s[u]
<1> DEFINE q == [s EXCEPT ![t].borrowing = TRUE, ![t].pri = p]
<1>1. /\ q \in [Thread -> PriorityFields] /\ q[t].pri = p
      /\ \A u \in Thread \ {t} : q[u] = s[u]
    BY ZenonT(60) DEF PriorityFields
<1>2. q = sched_lend_prio(s, t, p)
    BY DEF sched_lend_prio
<1> QED
    BY <1>1, <1>2

-----------------------------------------------------------------------------
(* The turnstile *)

(* The owner of the lock that a thread waits for, after the step *)
Owner(u) == IF blocked'[u] = 0 THEN NULL ELSE owner'[blocked'[u]]

Raises(s, t, u) == Owner(u) # NULL /\ s[Owner(u)].pri > s[t].pri

Turnstiles ==
    /\ owner' \in [Lock -> Thread \cup {NULL}]
    /\ blocked' \in [Thread -> 0 .. MaxLock]

(* Who is reached is less important than t and has a waiter; and whoever   *)
(* would have to be reached is.                                            *)
LEMMA ReachedAre ==
    ASSUME NEW s, NEW t \in Thread, Turnstiles
    PROVE  LET R == Reached(s, t)
           IN  /\ R \subseteq Thread
               /\ \A u \in R \cup {t} : Raises(s, t, u) => Owner(u) \in R
               /\ \A o \in R : /\ s[o].pri > s[t].pri
                               /\ \E u \in Thread : Owner(u) = o
<1> DEFINE Closed(S) == \A u \in S \cup {t} :
                            Raises(s, t, u) => Owner(u) \in S
           R == Reached(s, t)
<1>1. R = {o \in Thread : \A S \in SUBSET Thread : Closed(S) => o \in S}
    BY DEF Reached, Raises, Owner
<1>2. \A u \in Thread : Owner(u) \in Thread \cup {NULL}
    BY DEF Turnstiles, Owner, Lock
<1> HIDE DEF R
<1>3. R \subseteq Thread
    BY <1>1
<1>4. ASSUME NEW u \in R \cup {t}, Raises(s, t, u)
      PROVE  Owner(u) \in R
    <2>1. Owner(u) \in Thread
        BY <1>2, <1>3, <1>4 DEF Raises
    <2>2. ASSUME NEW S \in SUBSET Thread, Closed(S)
          PROVE  Owner(u) \in S
        BY <1>1, <1>4, <2>2
    <2> QED
        BY <1>1, <2>1, <2>2
<1> DEFINE S0 == {o \in R : s[o].pri > s[t].pri
                            /\ \E u \in Thread : Owner(u) = o}
<1>5. Closed(S0)
    BY <1>3, <1>4 DEF Raises
<1>6. R \subseteq S0
    <2>1. S0 \in SUBSET Thread
        BY <1>3
    <2> HIDE DEF S0, Closed
    <2> QED
        BY <1>1, <1>5, <2>1
<1> QED
    BY <1>3, <1>4, <1>6 DEF R

(* If no owner but that of t's lock is less important than a waiter, then  *)
(* after the propagation no owner is; nobody borrows without a waiter who  *)
(* did not before.                                                         *)
LEMMA PropagateLends ==
    ASSUME NEW s \in [Thread -> PriorityFields], NEW t \in Thread, Turnstiles,
           \A u \in Thread \ {t} :
                Owner(u) # NULL => s[Owner(u)].pri <= s[u].pri
    PROVE  LET q == Propagate(s, t)
           IN  /\ q \in [Thread -> PriorityFields]
               /\ \A u \in Thread : Owner(u) # NULL =>
                                        q[Owner(u)].pri <= q[u].pri
               /\ \A o \in Thread : q[o].borrowing =>
                    s[o].borrowing \/ \E u \in Thread : Owner(u) = o
<1> DEFINE R == Reached(s, t)
           p == s[t].pri
           q == Propagate(s, t)
<1>1. /\ R \subseteq Thread
      /\ \A u \in R \cup {t} : Raises(s, t, u) => Owner(u) \in R
      /\ \A o \in R : s[o].pri > p /\ \E u \in Thread : Owner(u) = o
    BY ReachedAre
<1>2. p \in 0 .. PRI_MAX /\ \A u \in Thread : s[u].pri \in 0 .. PRI_MAX
    BY DEF PriorityFields
<1>3. ASSUME NEW u \in Thread
      PROVE  /\ sched_lend_prio(s, u, p)[u] \in PriorityFields
             /\ sched_lend_prio(s, u, p)[u].pri = p
    BY <1>2, Lend
<1>4. q = [u \in Thread |-> IF u \in R THEN sched_lend_prio(s, u, p)[u]
                            ELSE s[u]]
    BY DEF Propagate
<1>5. \A u \in Thread : Owner(u) \in Thread \cup {NULL}
    BY DEF Turnstiles, Owner, Lock
<1> HIDE DEF R, p, q
<1>6. \A u \in R : q[u] \in PriorityFields /\ q[u].pri = p
    BY <1>1, <1>3, <1>4
<1>7. \A u \in Thread \ R : q[u] = s[u]
    BY <1>4
<1>8. q \in [Thread -> PriorityFields]
    BY <1>4, <1>6, <1>7
<1>9. t \notin R
    BY <1>1, <1>2 DEF p
<1>10. ASSUME NEW u \in Thread, Owner(u) # NULL
       PROVE  q[Owner(u)].pri <= q[u].pri
    <2>1. Owner(u) \in Thread
        BY <1>5, <1>10
    <2>2. CASE u \in R \cup {t}
        <3>1. q[u].pri = p
            BY <1>6, <1>7, <1>9, <2>2 DEF p
        <3>2. CASE Owner(u) \in R
            BY <1>2, <1>6, <3>1, <3>2
        <3>3. CASE Owner(u) \notin R
            <4>1. ~(s[Owner(u)].pri > p)
                BY <1>1, <1>10, <2>2, <3>3 DEF Raises, p
            <4> QED
                BY <1>2, <1>7, <2>1, <3>1, <3>3, <4>1
        <3> QED
            BY <3>2, <3>3
    <2>3. CASE u \notin R \cup {t}
        <3>1. s[Owner(u)].pri <= s[u].pri /\ q[u] = s[u]
            BY <1>7, <1>10, <2>3
        <3>2. CASE Owner(u) \in R
            BY <1>1, <1>2, <1>6, <2>1, <3>1, <3>2
        <3>3. CASE Owner(u) \notin R
            BY <1>7, <2>1, <3>1, <3>3
        <3> QED
            BY <3>2, <3>3
    <2> QED
        BY <2>2, <2>3
<1>11. ASSUME NEW o \in Thread, q[o].borrowing
       PROVE  s[o].borrowing \/ \E u \in Thread : Owner(u) = o
    BY <1>1, <1>7, <1>11
<1> QED
    BY <1>8, <1>10, <1>11 DEF q

-----------------------------------------------------------------------------
(* The steps of Lending *)

(* The invariant after a step, in terms of the owners *)
LEMMA Settled ==
    ASSUME td' \in [Thread -> PriorityFields], Turnstiles,
           \A u \in Thread : blocked'[u] # 0 => Owner(u) # NULL,
           \A u \in Thread : Owner(u) # NULL =>
                                td'[Owner(u)].pri <= td'[u].pri,
           \A o \in Thread : td'[o].borrowing =>
                                \E u \in Thread : Owner(u) = o
    PROVE  LendInv'
<1>1. TypeOK'
    BY DEF TypeOK, Turnstiles, Owner, Lock, PriorityFields
<1>2. NoInversion'
    BY <1>1 DEF NoInversion, Owner
<1>3. ASSUME NEW o \in Thread, td'[o].borrowing
      PROVE  \E u \in Thread : blocked'[u] \in {l \in Lock : owner'[l] = o}
    <2>1. PICK u \in Thread : Owner(u) = o
        BY <1>3
    <2>2. blocked'[u] # 0 /\ owner'[blocked'[u]] = o
        BY <2>1, Constants DEF Owner
    <2>3. blocked'[u] \in Lock
        BY <2>2, Constants DEF Turnstiles, Lock
    <2> QED
        BY <2>2, <2>3
<1> QED
    BY <1>2, <1>3 DEF LendInv, BorrowersHaveLenders, Owned, Lock

(* The same before a step, for those who keep their lock *)
LEMMA BeforeStep ==
    ASSUME LendInv
    PROVE  /\ td \in [Thread -> PriorityFields]
           /\ owner \in [Lock -> Thread \cup {NULL}]
           /\ blocked \in [Thread -> 0 .. MaxLock]
           /\ \A u \in Thread : blocked[u] # 0 =>
                /\ blocked[u] \in Lock /\ owner[blocked[u]] \in Thread
                /\ td[owner[blocked[u]]].pri <= td[u].pri
           /\ \A o \in Thread : td[o].borrowing =>
                \E u \in Thread : blocked[u] # 0 /\ owner[blocked[u]] = o
<1>1. TypeOK
    BY DEF LendInv, NoInversion
<1>2. \A u \in Thread : blocked[u] # 0 =>
        /\ blocked[u] \in Lock /\ owner[blocked[u]] \in Thread
        /\ td[owner[blocked[u]]].pri <= td[u].pri
    BY <1>1, Constants DEF LendInv, NoInversion, TypeOK, Lock
<1>3. \A o \in Thread : td[o].borrowing =>
        \E u \in Thread : blocked[u] # 0 /\ owner[blocked[u]] = o
    BY Constants DEF LendInv, BorrowersHaveLenders, Owned
<1> QED
    BY <1>1, <1>2, <1>3 DEF TypeOK

(* sched_unlend_prio leaves a thread at least as important as its waiters. *)
LEMMA Unlend ==
    ASSUME NEW s \in [Thread -> PriorityFields], NEW t \in Thread,
           NEW p \in 0 .. PRI_MAX
    PROVE  LET q == sched_unlend_prio(s, t, p)
           IN  /\ q \in [Thread -> PriorityFields]
               /\ q[t].pri <= p /\ (q[t].borrowing => p # PRI_MAX)
               /\ \A u \in Thread \ {t} : q[u] = s[u]
<1> DEFINE base == IF Timeshare(s[t].base_pri) THEN s[t].user_pri
                   ELSE s[t].base_pri
           q == sched_unlend_prio(s, t, p)
<1>1. base \in 0 .. PRI_MAX
    BY DEF PriorityFields
<1>2. q = IF p >= base
          THEN [s EXCEPT ![t].borrowing = FALSE, ![t].pri = base]
          ELSE sched_lend_prio(s, t, p)
    BY DEF sched_unlend_prio
<1> HIDE DEF base, q
<1>3. CASE p >= base
    <2> DEFINE r == [s EXCEPT ![t].borrowing = FALSE, ![t].pri = base]
    <2>1. /\ r \in [Thread -> PriorityFields]
          /\ r[t].pri = base /\ r[t].borrowing = FALSE
          /\ \A u \in Thread \ {t} : r[u] = s[u]
        BY ZenonT(60), <1>1 DEF PriorityFields
    <2>2. q = r
        BY <1>2, <1>3
    <2> HIDE DEF r
    <2> QED
        BY <1>1, <1>3, <2>1, <2>2 DEF q
<1>4. CASE p < base
    <2>1. q = sched_lend_prio(s, t, p)
        BY <1>1, <1>2, <1>4
    <2>2. /\ q \in [Thread -> PriorityFields] /\ q[t].pri = p
          /\ \A u \in Thread \ {t} : q[u] = s[u]
        BY <2>1, Lend
    <2> QED
        BY <1>1, <1>4, <2>2 DEF q
<1> QED
    BY <1>1, <1>3, <1>4

(* sched_prio with a priority that may be less important only if nobody    *)
(* waits for the thread                                                    *)
LEMMA ChangePrio ==
    ASSUME LendInv, NEW t \in Thread, NEW p \in 0 .. PRI_MAX,
           NEW s \in [Thread -> PriorityFields],
           \A u \in Thread : /\ s[u].pri = td[u].pri
                             /\ s[u].borrowing = td[u].borrowing,
           p <= td[t].pri
             \/ \A u \in Thread : blocked[u] = 0 \/ owner[blocked[u]] # t,
           td' = sched_prio(s, t, p), UNCHANGED <<owner, blocked>>
    PROVE  LendInv'
<1> DEFINE s1 == [s EXCEPT ![t].base_pri = p]
           s2 == [s1 EXCEPT ![t].pri = p]
<1>1. /\ s1 \in [Thread -> PriorityFields]
      /\ \A u \in Thread : /\ s1[u].pri = td[u].pri
                           /\ s1[u].borrowing = td[u].borrowing
    BY DEF PriorityFields
<1>2. td' = IF s[t].borrowing /\ s[t].pri < p THEN s1 ELSE Propagate(s2, t)
    BY DEF sched_prio
<1> HIDE DEF s1
<1>3. /\ s2 \in [Thread -> PriorityFields] /\ s2[t].pri = p
      /\ \A u \in Thread \ {t} : s2[u].pri = td[u].pri
      /\ \A u \in Thread : s2[u].borrowing = td[u].borrowing
    BY <1>1 DEF PriorityFields
<1> HIDE DEF s2
<1>4. Turnstiles
    BY BeforeStep DEF Turnstiles
<1>5. \A u \in Thread :
        /\ Owner(u) = IF blocked[u] = 0 THEN NULL ELSE owner[blocked[u]]
        /\ blocked[u] # 0 => Owner(u) \in Thread /\ Owner(u) # NULL
        /\ Owner(u) # NULL => td[Owner(u)].pri <= td[u].pri
                              /\ Owner(u) \in Thread
    BY BeforeStep, Constants DEF Owner
<1>6. \A o \in Thread : td[o].borrowing => \E u \in Thread : Owner(u) = o
    BY BeforeStep DEF Owner
<1>7. \A u \in Thread : td[u].pri \in 0 .. PRI_MAX
    BY BeforeStep DEF PriorityFields
<1>8. CASE s[t].borrowing /\ s[t].pri < p
    <2>1. td' = s1
        BY <1>2, <1>8
    <2> QED
        BY <1>1, <1>4, <1>5, <1>6, <2>1, Settled
<1>9. CASE ~(s[t].borrowing /\ s[t].pri < p)
    <2>1. td' = Propagate(s2, t)
        BY <1>2, <1>9
    <2>2. ASSUME NEW u \in Thread \ {t}, Owner(u) # NULL
          PROVE  s2[Owner(u)].pri <= s2[u].pri
        <3>1. Owner(u) \in Thread /\ td[Owner(u)].pri <= td[u].pri
              /\ s2[u].pri = td[u].pri
            BY <1>3, <1>5, <2>2
        <3>2. CASE Owner(u) # t
            BY <1>3, <3>1, <3>2
        <3>3. CASE Owner(u) = t
            <4>1. p <= td[t].pri
                BY <1>5, <2>2, <3>3, Constants
            <4> QED
                BY <1>3, <1>7, <3>1, <3>3, <4>1
        <3> QED
            BY <3>2, <3>3
    <2>3. /\ td' \in [Thread -> PriorityFields]
          /\ \A u \in Thread : Owner(u) # NULL =>
                                   td'[Owner(u)].pri <= td'[u].pri
          /\ \A o \in Thread : td'[o].borrowing =>
               s2[o].borrowing \/ \E u \in Thread : Owner(u) = o
        BY <1>3, <1>4, <2>1, <2>2, PropagateLends
    <2>4. \A o \in Thread : td'[o].borrowing =>
                                \E u \in Thread : Owner(u) = o
        BY <1>3, <1>6, <2>3
    <2> QED
        BY <1>4, <1>5, <2>3, <2>4, Settled
<1> QED
    BY <1>8, <1>9

(* A step that changes no priority, lock or waiter *)
LEMMA SamePrio ==
    ASSUME LendInv, td' \in [Thread -> PriorityFields],
           \A u \in Thread : /\ td'[u].pri = td[u].pri
                             /\ td'[u].borrowing = td[u].borrowing,
           UNCHANGED <<owner, blocked>>
    PROVE  LendInv'
<1>1. Turnstiles
    BY BeforeStep DEF Turnstiles
<1>2. \A u \in Thread :
        /\ blocked'[u] # 0 => Owner(u) # NULL
        /\ Owner(u) # NULL => td'[Owner(u)].pri <= td'[u].pri
    BY BeforeStep, Constants DEF Owner
<1>3. \A o \in Thread : td'[o].borrowing => \E u \in Thread : Owner(u) = o
    BY BeforeStep DEF Owner
<1> QED
    BY <1>1, <1>2, <1>3, Settled

LEMMA AcquireStep ==
    ASSUME LendInv, NEW t \in Thread, NEW l \in Lock, Acquire(t, l)
    PROVE  LendInv'
<1>1. /\ owner[l] = NULL /\ owner' = [owner EXCEPT ![l] = t]
      /\ td' = td /\ blocked' = blocked
    BY DEF Acquire
<1>2. Turnstiles
    BY <1>1, BeforeStep DEF Turnstiles
<1>3. \A u \in Thread : blocked[u] # 0 =>
        Owner(u) = owner[blocked[u]] /\ Owner(u) # NULL
    BY <1>1, BeforeStep, Constants DEF Owner
<1>4. \A u \in Thread : blocked[u] = 0 => Owner(u) = NULL
    BY <1>1 DEF Owner
<1> QED
    BY <1>1, <1>2, <1>3, <1>4, BeforeStep, Settled

LEMMA WaitStep ==
    ASSUME LendInv, NEW t \in Thread, NEW l \in Lock, Wait(t, l)
    PROVE  LendInv'
<1>1. /\ blocked[t] = 0 /\ owner[l] # NULL
      /\ blocked' = [blocked EXCEPT ![t] = l] /\ owner' = owner
      /\ td' = Propagate(td, t)
    BY DEF Wait, CanRun
<1>2. Turnstiles
    BY <1>1, BeforeStep DEF Turnstiles, Lock
<1>3. \A u \in Thread \ {t} :
        Owner(u) = IF blocked[u] = 0 THEN NULL ELSE owner[blocked[u]]
    BY <1>1, BeforeStep DEF Owner
<1>4. Owner(t) = owner[l]
    BY <1>1, BeforeStep, Constants DEF Owner
<1>5. \A u \in Thread : blocked'[u] # 0 => Owner(u) # NULL
    BY <1>1, <1>3, <1>4, BeforeStep, Constants
<1>6. \A u \in Thread \ {t} :
        Owner(u) # NULL => td[Owner(u)].pri <= td[u].pri
    BY <1>3, BeforeStep
<1>7. /\ td' \in [Thread -> PriorityFields]
      /\ \A u \in Thread : Owner(u) # NULL =>
                               td'[Owner(u)].pri <= td'[u].pri
      /\ \A o \in Thread : td'[o].borrowing =>
           td[o].borrowing \/ \E u \in Thread : Owner(u) = o
    BY <1>1, <1>2, <1>6, BeforeStep, PropagateLends
<1>8. \A o \in Thread : td[o].borrowing => \E u \in Thread : Owner(u) = o
    <2> SUFFICES ASSUME NEW o \in Thread, td[o].borrowing
                 PROVE  \E u \in Thread : Owner(u) = o
        OBVIOUS
    <2>1. PICK u \in Thread : blocked[u] # 0 /\ owner[blocked[u]] = o
        BY BeforeStep
    <2> QED
        BY <1>1, <1>3, <2>1
<1> QED
    BY <1>2, <1>5, <1>7, <1>8, Settled

LEMMA ReleaseStep ==
    ASSUME LendInv, NEW t \in Thread, NEW l \in Lock, Release(t, l)
    PROVE  LendInv'
<1> DEFINE waiters == {v \in Thread : blocked[v] \in Owned(t) \ {l}}
           need == {td[u].pri : u \in waiters}
           p == Least(need)
<1>1. /\ blocked[t] = 0 /\ owner[l] = t
      /\ owner' = [owner EXCEPT ![l] = NULL]
      /\ blocked' = [u \in Thread |-> IF blocked[u] = l THEN 0
                                      ELSE blocked[u]]
      /\ td' = IF \A u \in Thread : blocked[u] # l THEN td
               ELSE sched_unlend_prio(td, t, p)
    BY DEF Release, CanRun
<1>2. Turnstiles
    BY <1>1, BeforeStep DEF Turnstiles
<1>3. \A u \in Thread :
        Owner(u) = IF blocked[u] \in {0, l} THEN NULL
                   ELSE owner[blocked[u]]
    BY <1>1, BeforeStep, Constants DEF Owner
<1>4. \A u \in Thread : td[u].pri \in 0 .. PRI_MAX
    BY BeforeStep DEF PriorityFields
<1>5. \A u \in Thread : blocked'[u] # 0 => Owner(u) # NULL
    BY <1>1, <1>3, BeforeStep, Constants
<1>6. \A u \in Thread : Owner(u) = t <=> u \in waiters
    BY <1>1, <1>3, BeforeStep, Constants DEF Owned
<1>7. \A o \in Thread \ {t} : td[o].borrowing =>
                                \E u \in Thread : Owner(u) = o
    <2> SUFFICES ASSUME NEW o \in Thread \ {t}, td[o].borrowing
                 PROVE  \E u \in Thread : Owner(u) = o
        OBVIOUS
    <2>1. PICK u \in Thread : blocked[u] # 0 /\ owner[blocked[u]] = o
        BY BeforeStep
    <2> QED
        BY <1>1, <1>3, <2>1
<1>8. CASE \A u \in Thread : blocked[u] # l
    <2>1. td' = td
        BY <1>1, <1>8
    <2>2. \A u \in Thread : Owner(u) # NULL =>
                                td'[Owner(u)].pri <= td'[u].pri
        BY <1>3, <2>1, BeforeStep
    <2>3. \A o \in Thread : td'[o].borrowing =>
                                \E u \in Thread : Owner(u) = o
        BY <1>3, <1>8, <2>1, BeforeStep
    <2> QED
        BY <1>2, <1>5, <2>1, <2>2, <2>3, BeforeStep, Settled
<1>9. CASE ~ \A u \in Thread : blocked[u] # l
    <2>1. td' = sched_unlend_prio(td, t, p)
        BY <1>1, <1>9
    <2>2. need \in SUBSET (0 .. PRI_MAX)
        BY <1>4
    <2>3. /\ p \in need \cup {PRI_MAX} /\ p \in 0 .. PRI_MAX
          /\ \A y \in need : p <= y
        BY <2>2, LeastIs
    <2>4. \A u \in waiters : p <= td[u].pri
        BY <2>3
    <2>5. p # PRI_MAX => waiters # {}
        BY <2>3
    <2> HIDE DEF p, need, waiters
    <2>6. /\ td' \in [Thread -> PriorityFields]
          /\ td'[t].pri <= p /\ (td'[t].borrowing => p # PRI_MAX)
          /\ \A u \in Thread \ {t} : td'[u] = td[u]
        BY <2>1, <2>3, BeforeStep, Unlend
    <2>7. td'[t].pri \in 0 .. PRI_MAX
        BY <2>6 DEF PriorityFields
    <2>8. ASSUME NEW u \in Thread, Owner(u) # NULL
          PROVE  td'[Owner(u)].pri <= td'[u].pri
        <3>1. u # t
            BY <1>1, <1>3, <2>8
        <3>2. CASE Owner(u) = t
            <4>1. p <= td[u].pri
                BY <1>6, <2>4, <3>2
            <4> QED
                BY <1>4, <2>3, <2>6, <2>7, <3>1, <3>2, <4>1
        <3>3. CASE Owner(u) # t
            <4>1. /\ Owner(u) \in Thread
                  /\ td[Owner(u)].pri <= td[u].pri
                BY <1>3, <2>8, BeforeStep
            <4> QED
                BY <2>6, <3>1, <3>3, <4>1
        <3> QED
            BY <3>2, <3>3
    <2>9. ASSUME NEW o \in Thread, td'[o].borrowing
          PROVE  \E u \in Thread : Owner(u) = o
        <3>1. CASE o = t
            <4>1. waiters # {}
                BY <2>5, <2>6, <2>9, <3>1
            <4> QED
                BY <1>6, <3>1, <4>1 DEF waiters
        <3>2. CASE o # t
            BY <1>7, <2>6, <2>9, <3>2
        <3> QED
            BY <3>1, <3>2
    <2> QED
        BY <1>2, <1>5, <2>6, <2>8, <2>9, Settled
<1> QED
    BY <1>8, <1>9

(* Nobody waits for a thread without locks. *)
LEMMA NoWaiters ==
    ASSUME LendInv, NEW t \in Thread, Owned(t) = {}
    PROVE  \A u \in Thread : blocked[u] = 0 \/ owner[blocked[u]] # t
BY BeforeStep DEF Owned

LEMMA SchedSleepStep ==
    ASSUME LendInv, NEW t \in Thread, NEW p \in SleepPri, SchedSleep(t, p)
    PROVE  LendInv'
<1>1. Owned(t) = {} /\ UNCHANGED <<owner, blocked>>
      /\ td' = sched_prio(td, t, p)
    BY DEF SchedSleep
<1>2. p \in 0 .. PRI_MAX /\ td \in [Thread -> PriorityFields]
    BY BeforeStep, Constants
<1>3. \A u \in Thread : blocked[u] = 0 \/ owner[blocked[u]] # t
    BY <1>1, NoWaiters
<1> QED
    BY <1>1, <1>2, <1>3, ChangePrio

LEMMA SchedLendUserPrioStep ==
    ASSUME LendInv, NEW t \in Thread, NEW p \in UserPri,
           SchedLendUserPrio(t, p)
    PROVE  LendInv'
<1> DEFINE user == IF p < td[t].base_user_pri THEN p
                   ELSE td[t].base_user_pri
           s == [td EXCEPT ![t].lend_user_pri = p, ![t].user_pri = user]
<1>1. /\ UNCHANGED <<owner, blocked>>
      /\ td' = IF td[t].pri > user THEN sched_prio(s, t, user) ELSE s
    BY DEF SchedLendUserPrio
<1>2. td \in [Thread -> PriorityFields] /\ p \in 0 .. PRI_MAX
    BY BeforeStep, Constants
<1>3. user \in 0 .. PRI_MAX
    BY <1>2 DEF PriorityFields
<1> HIDE DEF user
<1>4. /\ s \in [Thread -> PriorityFields]
      /\ \A u \in Thread : /\ s[u].pri = td[u].pri
                           /\ s[u].borrowing = td[u].borrowing
    BY ZenonT(60), <1>2, <1>3 DEF PriorityFields
<1> HIDE DEF s
<1>5. CASE td[t].pri > user
    <2>1. user <= td[t].pri
        BY <1>2, <1>3, <1>5 DEF PriorityFields
    <2>2. td' = sched_prio(s, t, user)
        BY <1>1, <1>5
    <2> QED
        BY <1>1, <1>3, <1>4, <2>1, <2>2, ChangePrio
<1>6. CASE ~(td[t].pri > user)
    <2>1. td' = s
        BY <1>1, <1>6
    <2> QED
        BY <1>1, <1>4, <2>1, SamePrio
<1> QED
    BY <1>5, <1>6

LEMMA SchedUserPrioStep ==
    ASSUME LendInv, NEW t \in Thread, NEW p \in {NORMAL_PRI, PRI_MAX},
           SchedUserPrio(t, p)
    PROVE  LendInv'
<1> DEFINE user == IF td[t].lend_user_pri <= p THEN td[t].user_pri ELSE p
           s == [td EXCEPT ![t].base_user_pri = p, ![t].user_pri = user]
<1>1. td \in [Thread -> PriorityFields] /\ p \in 0 .. PRI_MAX
    BY BeforeStep, Constants
<1>2. user \in 0 .. PRI_MAX
    BY <1>1 DEF PriorityFields
<1>3. UNCHANGED <<owner, blocked>> /\ td' = s
    BY <1>1 DEF SchedUserPrio, PriorityFields
<1> HIDE DEF user
<1>4. /\ s \in [Thread -> PriorityFields]
      /\ \A u \in Thread : /\ s[u].pri = td[u].pri
                           /\ s[u].borrowing = td[u].borrowing
    BY ZenonT(60), <1>1, <1>2 DEF PriorityFields
<1> QED
    BY <1>3, <1>4, SamePrio

LEMMA UpdateCurrStep ==
    ASSUME LendInv, NEW t \in Thread, UpdateCurr(t)
    PROVE  LendInv'
<1> DEFINE s == [td EXCEPT ![t].user_pri = NORMAL_PRI]
<1>1. td \in [Thread -> PriorityFields] /\ NORMAL_PRI \in 0 .. PRI_MAX
    BY BeforeStep, Constants
<1>2. /\ s \in [Thread -> PriorityFields]
      /\ \A u \in Thread : /\ s[u].pri = td[u].pri
                           /\ s[u].borrowing = td[u].borrowing
    BY <1>1 DEF PriorityFields
<1>3. UNCHANGED <<owner, blocked>> /\ td' = s
    BY DEF UpdateCurr
<1> QED
    BY <1>2, <1>3, SamePrio

LEMMA SchedUserretStep ==
    ASSUME LendInv, NEW t \in Thread, SchedUserret(t)
    PROVE  LendInv'
<1> DEFINE user == td[t].user_pri
           s == [td EXCEPT ![t].pri = user, ![t].base_pri = user]
<1>1. /\ blocked[t] = 0 /\ Owned(t) = {} /\ UNCHANGED <<owner, blocked>>
      /\ td' = IF td[t].pri = user THEN td ELSE s
    BY DEF SchedUserret, CanRun
<1>2. td \in [Thread -> PriorityFields] /\ user \in 0 .. PRI_MAX
    BY BeforeStep DEF PriorityFields
<1> HIDE DEF user
<1>3. /\ s \in [Thread -> PriorityFields]
      /\ \A u \in Thread \ {t} : s[u] = td[u]
      /\ s[t].borrowing = td[t].borrowing
    BY ZenonT(60), <1>2 DEF PriorityFields
<1> HIDE DEF s
<1>4. \A u \in Thread : blocked[u] = 0 \/ owner[blocked[u]] # t
    BY <1>1, NoWaiters
<1>5. CASE td' = td
    BY <1>1, <1>2, <1>5, SamePrio
<1>6. CASE td' = s
    <2>1. Turnstiles
        BY <1>1, BeforeStep DEF Turnstiles
    <2>2. \A u \in Thread : blocked'[u] # 0 => Owner(u) # NULL
        BY <1>1, BeforeStep, Constants DEF Owner
    <2>3. \A u \in Thread : Owner(u) # NULL =>
                                td'[Owner(u)].pri <= td'[u].pri
        BY <1>1, <1>3, <1>4, <1>6, BeforeStep DEF Owner
    <2>4. \A o \in Thread : td'[o].borrowing =>
                                \E u \in Thread : Owner(u) = o
        BY <1>1, <1>3, <1>6, BeforeStep DEF Owner
    <2> QED
        BY <1>3, <1>6, <2>1, <2>2, <2>3, <2>4, Settled
<1> QED
    BY <1>1, <1>5, <1>6

LEMMA LendInit == Init => LendInv
<1> SUFFICES ASSUME Init
             PROVE  LendInv
    OBVIOUS
<1>1. /\ td \in [Thread -> PriorityFields]
      /\ \A t \in Thread : td[t].borrowing = FALSE
    <2>1. /\ NORMAL_PRI \in 0 .. PRI_MAX /\ PRI_MAX \in 0 .. PRI_MAX
          /\ FALSE \in BOOLEAN
        BY Constants
    <2> QED
        BY <2>1 DEF Init, PriorityFields
<1>2. /\ owner \in [Lock -> Thread \cup {NULL}]
      /\ blocked = [t \in Thread |-> 0] /\ 0 \in 0 .. MaxLock
    BY Constants DEF Init
<1>3. TypeOK
    BY <1>1, <1>2 DEF TypeOK
<1> QED
    BY <1>1, <1>2, <1>3 DEF LendInv, NoInversion, BorrowersHaveLenders

LEMMA LendStep ==
    ASSUME LendInv, [Next]_vars
    PROVE  LendInv'
<1>1. CASE UNCHANGED vars
    BY <1>1, BeforeStep, SamePrio DEF vars
<1>2. ASSUME NEW t \in Thread, NEW l \in Lock,
             Acquire(t, l) \/ Wait(t, l) \/ Release(t, l)
      PROVE  LendInv'
    BY <1>2, AcquireStep, WaitStep, ReleaseStep
<1>3. ASSUME NEW t \in Thread, NEW p \in SleepPri, SchedSleep(t, p)
      PROVE  LendInv'
    BY <1>3, SchedSleepStep
<1>4. ASSUME NEW t \in Thread, NEW p \in UserPri, SchedLendUserPrio(t, p)
      PROVE  LendInv'
    BY <1>4, SchedLendUserPrioStep
<1>5. ASSUME NEW t \in Thread, NEW p \in {NORMAL_PRI, PRI_MAX},
             SchedUserPrio(t, p)
      PROVE  LendInv'
    BY <1>5, SchedUserPrioStep
<1>6. ASSUME NEW t \in Thread, UpdateCurr(t)
      PROVE  LendInv'
    BY <1>6, UpdateCurrStep
<1>7. ASSUME NEW t \in Thread, SchedUserret(t)
      PROVE  LendInv'
    BY <1>7, SchedUserretStep
<1> QED
    BY <1>1, <1>2, <1>3, <1>4, <1>5, <1>6, <1>7 DEF Next

LEMMA LendInvHolds == PrioritiesSpec => []LendInv
<1>1. PrioritiesInit => LendInv
    BY LendInit DEF PrioritiesInit
<1>2. LendInv /\ [PrioritiesNext]_priorities_vars => LendInv'
    BY LendStep DEF PrioritiesNext, priorities_vars
<1> QED
    BY <1>1, <1>2, PTL DEF PrioritiesSpec

(* No priority inversion, for any number of threads and locks and through  *)
(* chains of locks: what sched_lend_prio, sched_unlend_prio and sched_prio *)
(* do is enough, whoever changes the priority of whom.                     *)
THEOREM NoPriorityInversion == PrioritiesSpec => []NoInversion
<1>1. LendInv => NoInversion
    BY DEF LendInv
<1> QED
    BY <1>1, LendInvHolds, PTL

(* No borrower without a lender, so that sched_userret meets no thread     *)
(* with a borrowed priority.                                               *)
THEOREM BorrowersRepay == PrioritiesSpec => []BorrowersHaveLenders
<1>1. LendInv => BorrowersHaveLenders
    BY DEF LendInv
<1> QED
    BY <1>1, LendInvHolds, PTL

-----------------------------------------------------------------------------
(* The priority list, as a value: head, qhead and prio *)

(* The operators that PrioList and PrioQueue take from the libraries are   *)
(* those of the lemmas on queues.                                          *)
LEMMA SameOperators ==
    /\ \A s : Q!ToSet(s) = ToSet(s) /\ Q!IsInjective(s) = IsInjective(s)
    /\ \A s, ps : Q!Position(s, ps) = Position(s, ps)
    /\ \A s, i, x : Q!InsertAt(s, i, x) = InsertAt(s, i, x)
    /\ \A s, x : Q!Without(s, x) = Without(s, x)
    /\ \A s : Q!Queue!ToSet(s) = ToSet(s)
    /\ \A s, x : Q!Queue!Without(s, x) = Without(s, x)
<1>1. \A s : Q!ToSet(s) = ToSet(s) /\ Q!Queue!ToSet(s) = ToSet(s)
    BY Zenon DEF Q!ToSet, ToSet, Q!Queue!ToSet
<1>2. \A s : Q!IsInjective(s) = IsInjective(s)
    BY Zenon DEF Q!IsInjective, IsInjective
<1>3. \A s, ps : Q!Position(s, ps) = Position(s, ps)
    BY Zenon DEF Q!Position, Position, Q!Min, Min
<1>4. \A s, i, x : Q!InsertAt(s, i, x) = InsertAt(s, i, x)
    BY Zenon DEF Q!InsertAt, InsertAt
<1>5. \A s, x : /\ Q!Without(s, x) = Without(s, x)
                /\ Q!Queue!Without(s, x) = Without(s, x)
    BY Zenon DEF Q!Without, Q!Queue!Without, Without, Q!IndexOf,
                 Q!Queue!IndexOf, IndexOf, Q!RemoveAt, Q!Queue!RemoveAt,
                 RemoveAt
<1> QED
    BY <1>1, <1>2, <1>3, <1>4, <1>5, Zenon

ListOK(hd, qh, pr) ==
    /\ hd \in Seq(Listed)
    /\ qh \in [Listed -> Seq(Listed)]
    /\ pr \in [Listed -> Pri \cup {0}]
    /\ \A i, j \in DOMAIN hd : i < j => pr[hd[i]] < pr[hd[j]]
    /\ \A h \in ToSet(hd) :
          /\ pr[h] \in Pri /\ qh[h] # <<>> /\ Head(qh[h]) = h
          /\ IsInjective(qh[h])
          /\ \A t \in ToSet(qh[h]) : pr[t] = pr[h]
    /\ \A t \in Listed \ ToSet(hd) : qh[t] = <<>>

Fifo(hd, qh, pr) ==
    [p \in Pri |->
        LET leaders == {h \in ToSet(hd) : pr[h] = p}
        IN  IF leaders = {} THEN <<>> ELSE qh[CHOOSE h \in leaders : TRUE]]

LEMMA ListInvIs ==
    /\ Q!ListInv <=> /\ ListOK(head, qhead, prio) /\ ~corrupted
                     /\ td_priority \in [Listed -> Pri]
    /\ Q!ListInv' <=> /\ ListOK(head', qhead', prio') /\ ~corrupted'
                      /\ td_priority' \in [Listed -> Pri]
BY SameOperators, Zenon DEF Q!ListInv, Q!TypeOK, ListOK

LEMMA FifoIs ==
    /\ [p \in Pri |-> Q!QueueOf(p)] = Fifo(head, qhead, prio)
    /\ [p \in Pri |-> Q!QueueOf(p)]' = Fifo(head', qhead', prio')
<1>1. Q!ToSet(head) = ToSet(head) /\ Q!ToSet(head') = ToSet(head')
    BY SameOperators, Zenon
<1>2. ASSUME NEW p \in Pri
      PROVE  /\ Q!QueueOf(p) = Fifo(head, qhead, prio)[p]
             /\ Q!QueueOf(p)' = Fifo(head', qhead', prio')[p]
    BY <1>1 DEF Q!QueueOf, Fifo
<1> QED
    BY <1>2 DEF Fifo

LEMMA PriNat == \A p \in Pri \cup {0} : p \in Nat
BY ListAssumption

(* No two leaders have the same priority, and no thread is in two queues.  *)
LEMMA Leaders ==
    ASSUME NEW hd, NEW qh, NEW pr, ListOK(hd, qh, pr)
    PROVE  /\ ToSet(hd) \subseteq Listed /\ IsInjective(hd)
           /\ \A h, g \in ToSet(hd) : pr[h] = pr[g] => h = g
           /\ \A h, g \in ToSet(hd) :
                ToSet(qh[h]) \cap ToSet(qh[g]) # {} => h = g
           /\ \A h \in ToSet(hd) : /\ h \in ToSet(qh[h])
                                   /\ ToSet(qh[h]) \subseteq Listed
           /\ \A h \in ToSet(hd) : \A t \in ToSet(qh[h]) :
                t \in ToSet(hd) => t = h
<1>1. /\ hd \in Seq(Listed) /\ qh \in [Listed -> Seq(Listed)]
      /\ pr \in [Listed -> Pri \cup {0}]
    BY DEF ListOK
<1>2. ToSet(hd) \subseteq Listed
    BY SMTT(60), <1>1, ToSetMember
<1>3. ASSUME NEW i \in DOMAIN hd, NEW j \in DOMAIN hd,
             pr[hd[i]] = pr[hd[j]]
      PROVE  i = j
    <2>1. pr[hd[i]] \in Nat /\ pr[hd[j]] \in Nat
        <3>1. hd[i] \in Listed /\ hd[j] \in Listed
            BY <1>1
        <3>2. pr[hd[i]] \in Pri \cup {0} /\ pr[hd[j]] \in Pri \cup {0}
            BY <1>1, <3>1
        <3> QED
            BY <3>2, PriNat
    <2>2. ~(i < j) /\ ~(j < i)
        BY <1>3, <2>1 DEF ListOK
    <2> QED
        BY <1>1, <2>2
<1>4. \A h, g \in ToSet(hd) : pr[h] = pr[g] => h = g
    BY <1>3, Zenon DEF ToSet
<1>5. IsInjective(hd)
    BY <1>3 DEF IsInjective
<1>6. ASSUME NEW h \in ToSet(hd)
      PROVE  h \in ToSet(qh[h]) /\ ToSet(qh[h]) \subseteq Listed
    <2>1. qh[h] \in Seq(Listed) /\ qh[h] # <<>> /\ Head(qh[h]) = h
        BY <1>1, <1>2, <1>6 DEF ListOK
    <2>2. 1 \in 1 .. Len(qh[h]) /\ qh[h][1] = h
        BY <2>1, HeadTailProperties
    <2> QED
        BY <2>1, <2>2, ToSetMember
<1>7. \A h \in ToSet(hd) : \A t \in ToSet(qh[h]) : pr[t] = pr[h]
    BY DEF ListOK
<1>8. ASSUME NEW h \in ToSet(hd), NEW g \in ToSet(hd),
             ToSet(qh[h]) \cap ToSet(qh[g]) # {}
      PROVE  h = g
    BY <1>4, <1>7, <1>8
<1>9. ASSUME NEW h \in ToSet(hd), NEW t \in ToSet(qh[h]), t \in ToSet(hd)
      PROVE  t = h
    BY <1>4, <1>7, <1>9
<1> QED
    BY <1>2, <1>4, <1>5, <1>6, <1>8, <1>9

LEMMA FifoFunction ==
    ASSUME NEW hd, NEW qh, NEW pr
    PROVE  Fifo(hd, qh, pr) = [x \in Pri |-> Fifo(hd, qh, pr)[x]]
BY DEF Fifo

LEMMA FifoOfLeader ==
    ASSUME NEW hd, NEW qh, NEW pr, ListOK(hd, qh, pr)
    PROVE  /\ \A h \in ToSet(hd) : Fifo(hd, qh, pr)[pr[h]] = qh[h]
           /\ \A p \in Pri : p \notin {pr[h] : h \in ToSet(hd)} =>
                                Fifo(hd, qh, pr)[p] = <<>>
<1>1. ASSUME NEW h \in ToSet(hd)
      PROVE  Fifo(hd, qh, pr)[pr[h]] = qh[h]
    <2>1. {g \in ToSet(hd) : pr[g] = pr[h]} = {h}
        BY <1>1, Leaders
    <2>2. pr[h] \in Pri
        BY <1>1 DEF ListOK
    <2> QED
        BY <2>1, <2>2 DEF Fifo
<1>2. ASSUME NEW p \in Pri, p \notin {pr[h] : h \in ToSet(hd)}
      PROVE  Fifo(hd, qh, pr)[p] = <<>>
    <2>1. {g \in ToSet(hd) : pr[g] = p} = {}
        BY <1>2
    <2> QED
        BY <2>1 DEF Fifo
<1> QED
    BY <1>1, <1>2

(* prio_list_first is the first thread of the best priority. *)
LEMMA FirstIs ==
    ASSUME NEW hd, NEW qh, NEW pr, ListOK(hd, qh, pr)
    PROVE  Q!Queue!First(Fifo(hd, qh, pr))
             = IF hd = <<>> THEN NULL ELSE Head(hd)
<1> DEFINE q == Fifo(hd, qh, pr)
           used == {p \in Pri : q[p] # <<>>}
<1>1. hd \in Seq(Listed)
    BY DEF ListOK
<1>2. used = {pr[h] : h \in ToSet(hd)}
    <2>1. \A h \in ToSet(hd) : pr[h] \in Pri /\ q[pr[h]] # <<>>
        <3>1. \A h \in ToSet(hd) : q[pr[h]] = qh[h]
            BY FifoOfLeader
        <3> HIDE DEF q
        <3> QED
            BY <3>1 DEF ListOK
    <2>2. \A p \in Pri : p \notin {pr[h] : h \in ToSet(hd)} => q[p] = <<>>
        BY FifoOfLeader
    <2> HIDE DEF q
    <2> QED
        BY <2>1, <2>2
<1>3. Q!Queue!First(q) = IF used = {} THEN NULL
                         ELSE Head(q[CHOOSE x \in used :
                                        \A y \in used : x =< y])
    BY Zenon DEF Q!Queue!First, Q!Queue!Min
<1>4. CASE hd = <<>>
    <2>1. used = {}
        BY <1>2, <1>4 DEF ToSet
    <2> QED
        BY <1>3, <1>4, <2>1
<1>5. CASE hd # <<>>
    <2> DEFINE h == Head(hd)
    <2>1. 1 \in DOMAIN hd /\ h = hd[1] /\ DOMAIN hd = 1 .. Len(hd)
        BY <1>1, <1>5, HeadTailProperties
    <2>2. h \in ToSet(hd)
        BY <2>1 DEF ToSet
    <2>3. ASSUME NEW g \in ToSet(hd)
          PROVE  pr[h] <= pr[g] /\ pr[g] \in Nat
        <3>1. pr[g] \in Nat /\ pr[h] \in Nat
            BY <2>2, PriNat DEF ListOK
        <3>2. PICK j \in DOMAIN hd : g = hd[j]
            BY DEF ToSet
        <3>3. j = 1 \/ 1 < j
            BY <2>1
        <3>4. 1 < j => pr[h] < pr[g]
            BY <2>1, <3>2 DEF ListOK
        <3> QED
            BY <2>1, <3>1, <3>2, <3>3, <3>4
    <2>4. pr[h] \in used /\ \A y \in used : pr[h] <= y /\ y \in Nat
        BY <1>2, <2>2, <2>3
    <2> HIDE DEF used, h
    <2>5. (CHOOSE x \in used : \A y \in used : x =< y) = pr[h]
        <3>1. \A x \in used : (\A y \in used : x =< y) => x = pr[h]
            BY <2>4
        <3> QED
            BY <2>4, <3>1
    <2>6. q[pr[h]] = qh[h] /\ Head(qh[h]) = h
        BY SMTT(60), <2>2, FifoOfLeader DEF ListOK
    <2> QED
        BY <1>3, <1>5, <2>4, <2>5, <2>6 DEF h
<1> QED
    BY <1>4, <1>5

-----------------------------------------------------------------------------
(* The operations of the list *)

(* Queues and priorities that differ on some threads only *)
QueuesBut(S, qh, qh2) ==
    /\ qh2 \in [Listed -> Seq(Listed)]
    /\ \A u \in Listed \ S : qh2[u] = qh[u]

PriosBut(S, pr, pr2) ==
    /\ pr2 \in [Listed -> Pri \cup {0}]
    /\ \A u \in Listed \ S : pr2[u] = pr[u]

FifoBut(F, p, v, F2) == \A x \in Pri : F2[x] = IF x = p THEN v ELSE F[x]

(* prio_list_add of a thread whose priority has a leader *)
AddsBehind(hd, qh, pr, p, t, g, qh2, pr2) ==
    /\ ListOK(hd, qh, pr) /\ p \in Pri /\ t \in Listed
    /\ \A h \in ToSet(hd) : t \notin ToSet(qh[h])
    /\ g \in ToSet(hd) /\ pr[g] = p
    /\ QueuesBut({g}, qh, qh2) /\ qh2[g] = Append(qh[g], t)
    /\ PriosBut({t}, pr, pr2) /\ pr2[t] = p

LEMMA AddBehind ==
    ASSUME NEW hd, NEW qh, NEW pr, NEW p, NEW t, NEW g, NEW qh2, NEW pr2,
           AddsBehind(hd, qh, pr, p, t, g, qh2, pr2)
    PROVE  /\ ListOK(hd, qh2, pr2)
           /\ FifoBut(Fifo(hd, qh, pr), p, Append(Fifo(hd, qh, pr)[p], t),
                      Fifo(hd, qh2, pr2))
<1> USE DEF AddsBehind
<1>1. /\ ToSet(hd) \subseteq Listed
      /\ \A h \in ToSet(hd) : /\ h \in ToSet(qh[h])
                              /\ ToSet(qh[h]) \subseteq Listed
    BY Leaders
<1>2. t \notin ToSet(hd) /\ t # g
    BY <1>1
<1>3. /\ hd \in Seq(Listed) /\ qh \in [Listed -> Seq(Listed)]
      /\ pr \in [Listed -> Pri \cup {0}] /\ qh[t] = <<>>
    BY <1>2 DEF ListOK
<1>4. /\ qh2 \in [Listed -> Seq(Listed)]
      /\ qh2[g] = Append(qh[g], t)
      /\ \A u \in Listed \ {g} : qh2[u] = qh[u]
    BY DEF QueuesBut
<1>5. /\ pr2 \in [Listed -> Pri \cup {0}] /\ pr2[t] = p
      /\ \A u \in Listed \ {t} : pr2[u] = pr[u]
    BY DEF PriosBut
<1>6. \A h \in ToSet(hd) : pr2[h] = pr[h]
    BY <1>1, <1>2, <1>5
<1>7. \A i, j \in DOMAIN hd : i < j => pr2[hd[i]] < pr2[hd[j]]
    <2>1. \A i \in DOMAIN hd : hd[i] \in ToSet(hd)
        BY DEF ToSet
    <2> QED
        BY <1>6, <2>1 DEF ListOK
<1>8. ASSUME NEW h \in ToSet(hd)
      PROVE  /\ pr2[h] \in Pri /\ qh2[h] # <<>> /\ Head(qh2[h]) = h
             /\ IsInjective(qh2[h])
             /\ \A u \in ToSet(qh2[h]) : pr2[u] = pr2[h]
    <2>1. /\ pr[h] \in Pri /\ qh[h] # <<>> /\ Head(qh[h]) = h
          /\ IsInjective(qh[h]) /\ qh[h] \in Seq(Listed)
          /\ \A u \in ToSet(qh[h]) : pr[u] = pr[h]
        BY <1>1, <1>3 DEF ListOK
    <2>2. \A u \in ToSet(qh[h]) : pr2[u] = pr2[h]
        BY <1>1, <1>5, <1>6, <2>1
    <2>3. CASE h = g
        <3>1. qh2[h] = Append(qh[h], t) /\ t \notin ToSet(qh[h])
            BY <1>4, <2>3
        <3>2. /\ qh2[h] # <<>> /\ Head(qh2[h]) = h
              /\ IsInjective(qh2[h])
              /\ ToSet(qh2[h]) = ToSet(qh[h]) \cup {t}
            BY <2>1, <3>1, AppendContent
        <3> QED
            BY <1>5, <1>6, <2>1, <2>2, <2>3, <3>2
    <2>4. CASE h # g
        <3>1. qh2[h] = qh[h]
            BY <1>1, <1>4, <2>4
        <3> QED
            BY <1>6, <2>1, <2>2, <3>1
    <2> QED
        BY <2>3, <2>4
<1>9. \A u \in Listed \ ToSet(hd) : qh2[u] = <<>>
    BY <1>4 DEF ListOK
<1>10. ListOK(hd, qh2, pr2)
    BY <1>3, <1>4, <1>5, <1>7, <1>8, <1>9 DEF ListOK
<1>11. ASSUME NEW x \in Pri
       PROVE  Fifo(hd, qh2, pr2)[x] = IF x = p THEN Append(qh[g], t)
                                      ELSE Fifo(hd, qh, pr)[x]
    <2>1. CASE x \in {pr[h] : h \in ToSet(hd)}
        <3>1. PICK h \in ToSet(hd) : pr[h] = x
            BY <2>1
        <3>2. Fifo(hd, qh2, pr2)[x] = qh2[h] /\ Fifo(hd, qh, pr)[x] = qh[h]
            BY <1>6, <1>10, <3>1, FifoOfLeader
        <3>3. x = p <=> h = g
            BY <3>1, Leaders
        <3> QED
            BY <1>1, <1>4, <3>2, <3>3
    <2>2. CASE x \notin {pr[h] : h \in ToSet(hd)}
        <3>1. x \notin {pr2[h] : h \in ToSet(hd)} /\ x # p
            BY <1>6, <2>2
        <3> QED
            BY <1>10, <2>2, <3>1, FifoOfLeader
    <2> QED
        BY <2>1, <2>2
<1>12. Fifo(hd, qh, pr)[p] = qh[g]
    BY FifoOfLeader
<1> QED
    BY <1>10, <1>11, <1>12 DEF FifoBut

(* prio_list_add of a thread that becomes the leader of its priority *)
AddsLeader(hd, qh, pr, p, t, at, qh2, pr2) ==
    /\ ListOK(hd, qh, pr) /\ p \in Pri /\ t \in Listed
    /\ \A h \in ToSet(hd) : t \notin ToSet(qh[h])
    /\ at \in 1 .. Len(hd) + 1
    /\ \A i \in 1 .. Len(hd) : IF i < at THEN pr[hd[i]] < p ELSE p < pr[hd[i]]
    /\ QueuesBut({t}, qh, qh2) /\ qh2[t] = <<t>>
    /\ PriosBut({t}, pr, pr2) /\ pr2[t] = p

LEMMA AddLeader ==
    ASSUME NEW hd, NEW qh, NEW pr, NEW p, NEW t, NEW at, NEW qh2, NEW pr2,
           AddsLeader(hd, qh, pr, p, t, at, qh2, pr2)
    PROVE  /\ ListOK(InsertAt(hd, at, t), qh2, pr2)
           /\ FifoBut(Fifo(hd, qh, pr), p, Append(Fifo(hd, qh, pr)[p], t),
                      Fifo(InsertAt(hd, at, t), qh2, pr2))
<1> USE DEF AddsLeader
<1> DEFINE hd2 == InsertAt(hd, at, t)
<1>1. /\ ToSet(hd) \subseteq Listed
      /\ \A h \in ToSet(hd) : /\ h \in ToSet(qh[h])
                              /\ ToSet(qh[h]) \subseteq Listed
    BY Leaders
<1>2. t \notin ToSet(hd)
    BY <1>1
<1>3. /\ hd \in Seq(Listed) /\ qh \in [Listed -> Seq(Listed)]
      /\ pr \in [Listed -> Pri \cup {0}] /\ qh[t] = <<>>
    BY <1>2 DEF ListOK
<1>4. /\ qh2 \in [Listed -> Seq(Listed)] /\ qh2[t] = <<t>>
      /\ \A u \in Listed \ {t} : qh2[u] = qh[u]
    BY DEF QueuesBut
<1>5. /\ pr2 \in [Listed -> Pri \cup {0}] /\ pr2[t] = p
      /\ \A u \in Listed \ {t} : pr2[u] = pr[u]
    BY DEF PriosBut
<1>6. /\ hd2 \in Seq(Listed) /\ Len(hd2) = Len(hd) + 1
      /\ \A k \in 1 .. Len(hd) + 1 :
            hd2[k] = IF k < at THEN hd[k]
                     ELSE IF k = at THEN t ELSE hd[k - 1]
      /\ ToSet(hd2) = ToSet(hd) \cup {t}
    BY SMTT(60), <1>3, InsertAtProperties, InsertAtContent
<1> HIDE DEF hd2
<1>7. Len(hd) \in Nat /\ DOMAIN hd2 = 1 .. Len(hd) + 1
      /\ DOMAIN hd = 1 .. Len(hd)
    BY <1>3, <1>6
<1>8. \A i \in 1 .. Len(hd) : hd[i] \in ToSet(hd) /\ pr2[hd[i]] = pr[hd[i]]
    <2>1. \A i \in 1 .. Len(hd) : hd[i] \in ToSet(hd)
        BY <1>7 DEF ToSet
    <2> QED
        BY <1>1, <1>2, <1>5, <2>1
<1>9. \A i \in 1 .. Len(hd) : pr[hd[i]] \in Nat
    BY <1>8, PriNat DEF ListOK
<1>10. ASSUME NEW i \in 1 .. Len(hd) + 1, NEW j \in 1 .. Len(hd) + 1, i < j
       PROVE  pr2[hd2[i]] < pr2[hd2[j]]
    <2>1. \A k, l \in 1 .. Len(hd) : k < l => pr[hd[k]] < pr[hd[l]]
        BY <1>7 DEF ListOK
    <2>2. CASE j < at
        BY <1>6, <1>7, <1>8, <1>10, <2>1, <2>2
    <2>3. CASE j = at
        <3>1. hd2[i] = hd[i] /\ hd2[j] = t /\ i \in 1 .. Len(hd)
            BY <1>6, <1>7, <1>10, <2>3
        <3>2. pr[hd[i]] < p
            BY <1>10, <2>3, <3>1
        <3> QED
            BY <1>5, <1>8, <3>1, <3>2
    <2>4. CASE at < j /\ i < at
        <3>1. hd2[i] = hd[i] /\ hd2[j] = hd[j - 1] /\ j - 1 \in 1 .. Len(hd)
              /\ i \in 1 .. Len(hd) /\ i < j - 1
            BY <1>6, <1>7, <1>10, <2>4
        <3> QED
            BY <1>8, <2>1, <3>1
    <2>5. CASE at < j /\ i = at
        <3>1. hd2[i] = t /\ hd2[j] = hd[j - 1] /\ j - 1 \in 1 .. Len(hd)
              /\ ~(j - 1 < at)
            BY <1>6, <1>7, <1>10, <2>5
        <3> QED
            BY <1>5, <1>8, <3>1
    <2>6. CASE at < i
        <3>1. /\ hd2[i] = hd[i - 1] /\ hd2[j] = hd[j - 1]
              /\ j - 1 \in 1 .. Len(hd) /\ i - 1 \in 1 .. Len(hd)
              /\ i - 1 < j - 1
            BY <1>6, <1>7, <1>10, <2>6
        <3> QED
            BY ZenonT(60), <1>8, <2>1, <3>1
    <2> QED
        BY <1>10, <2>2, <2>3, <2>4, <2>5, <2>6
<1>11. \A h \in ToSet(hd) :
        h \in Listed \ {t} /\ pr2[h] = pr[h] /\ qh2[h] = qh[h]
    BY <1>1, <1>2, <1>4, <1>5
<1>12. ASSUME NEW h \in ToSet(hd2)
       PROVE  /\ pr2[h] \in Pri /\ qh2[h] # <<>> /\ Head(qh2[h]) = h
              /\ IsInjective(qh2[h])
              /\ \A u \in ToSet(qh2[h]) : pr2[u] = pr2[h]
    <2>1. CASE h = t
        <3>1. IsInjective(<<t>>) /\ ToSet(<<t>>) = {t}
            BY DEF IsInjective, ToSet
        <3> QED
            BY <1>4, <1>5, <2>1, <3>1
    <2>2. CASE h \in ToSet(hd)
        <3>1. /\ pr[h] \in Pri /\ qh[h] # <<>> /\ Head(qh[h]) = h
              /\ IsInjective(qh[h])
              /\ \A u \in ToSet(qh[h]) : pr[u] = pr[h]
            BY <2>2 DEF ListOK
        <3>2. \A u \in ToSet(qh[h]) : pr2[u] = pr[u]
            BY <1>1, <1>5, <2>2
        <3> QED
            BY <1>11, <2>2, <3>1, <3>2
    <2> QED
        BY <1>6, <2>1, <2>2
<1>13. \A u \in Listed \ ToSet(hd2) : qh2[u] = <<>>
    BY <1>4, <1>6 DEF ListOK
<1>14. ListOK(hd2, qh2, pr2)
    BY <1>4, <1>5, <1>6, <1>7, <1>10, <1>12, <1>13 DEF ListOK
<1>15. p \notin {pr[h] : h \in ToSet(hd)}
    <2>1. ASSUME NEW h \in ToSet(hd)
          PROVE  pr[h] # p
        <3>1. PICK i \in 1 .. Len(hd) : hd[i] = h
            BY <1>3, ToSetMember
        <3> QED
            BY <1>9, <3>1, PriNat
    <2> QED
        BY <2>1
<1>16. ASSUME NEW x \in Pri
       PROVE  Fifo(hd2, qh2, pr2)[x] = IF x = p THEN <<t>>
                                       ELSE Fifo(hd, qh, pr)[x]
    <2>1. CASE x = p
        <3>1. t \in ToSet(hd2) /\ pr2[t] = p /\ qh2[t] = <<t>>
            BY <1>4, <1>5, <1>6
        <3>2. Fifo(hd2, qh2, pr2)[pr2[t]] = qh2[t]
            BY <1>14, <3>1, FifoOfLeader
        <3> QED
            BY <2>1, <3>1, <3>2
    <2>2. CASE x \in {pr[h] : h \in ToSet(hd)}
        <3>1. PICK h \in ToSet(hd) : pr[h] = x
            BY <2>2
        <3>2. h \in ToSet(hd2) /\ pr2[h] = x /\ qh2[h] = qh[h]
            BY <1>6, <1>11, <3>1
        <3>3. Fifo(hd2, qh2, pr2)[x] = qh2[h] /\ Fifo(hd, qh, pr)[x] = qh[h]
            BY <1>14, <3>1, <3>2, FifoOfLeader
        <3> QED
            BY <1>15, <2>2, <3>2, <3>3
    <2>3. CASE x # p /\ x \notin {pr[h] : h \in ToSet(hd)}
        <3>1. x \notin {pr2[h] : h \in ToSet(hd2)}
            BY SMTT(60), <1>5, <1>6, <1>11, <2>3
        <3> QED
            BY <1>14, <2>3, <3>1, FifoOfLeader
    <2> QED
        BY <2>1, <2>2, <2>3
<1>17. Fifo(hd, qh, pr)[p] = <<>> /\ Append(<<>>, t) = <<t>>
    BY <1>15, FifoOfLeader
<1> QED
    BY <1>14, <1>16, <1>17 DEF hd2, FifoBut

(* The leader g and its queue are replaced by another queue of the same    *)
(* priority, with its leader g2.                                           *)
ReplacesQueue(hd, qh, pr, g, g2, r, hd2, qh2, pr2) ==
    /\ ListOK(hd, qh, pr) /\ g \in ToSet(hd) /\ g2 \in ToSet(qh[g])
    /\ r \in Seq(Listed) /\ r # <<>> /\ Head(r) = g2 /\ IsInjective(r)
    /\ hd2 \in Seq(Listed) /\ DOMAIN hd2 = DOMAIN hd
    /\ \A i \in DOMAIN hd : hd2[i] = IF hd[i] = g THEN g2 ELSE hd[i]
    /\ QueuesBut({g, g2}, qh, qh2) /\ qh2[g2] = r /\ (g # g2 => qh2[g] = <<>>)
    /\ pr2 \in [Listed -> Pri \cup {0}] /\ \A u \in ToSet(r) : pr2[u] = pr[g]
    /\ \A h \in ToSet(hd) \ {g} : \A u \in ToSet(qh[h]) : pr2[u] = pr[u]

LEMMA ReplaceQueue ==
    ASSUME NEW hd, NEW qh, NEW pr, NEW g, NEW g2, NEW r, NEW hd2, NEW qh2, NEW pr2,
           ReplacesQueue(hd, qh, pr, g, g2, r, hd2, qh2, pr2)
    PROVE  /\ ListOK(hd2, qh2, pr2)
           /\ FifoBut(Fifo(hd, qh, pr), pr[g], r, Fifo(hd2, qh2, pr2))
<1> USE DEF ReplacesQueue
<1>1. /\ ToSet(hd) \subseteq Listed
      /\ \A h \in ToSet(hd) : /\ h \in ToSet(qh[h])
                              /\ ToSet(qh[h]) \subseteq Listed
      /\ \A h, k \in ToSet(hd) : pr[h] = pr[k] => h = k
      /\ g2 \in ToSet(hd) => g2 = g
      /\ g2 \in Listed
    BY Leaders
<1>2. /\ hd \in Seq(Listed) /\ qh \in [Listed -> Seq(Listed)]
      /\ pr \in [Listed -> Pri \cup {0}]
      /\ DOMAIN hd = 1 .. Len(hd) /\ Len(hd) \in Nat
    BY DEF ListOK
<1>3. g2 \in ToSet(r)
    <2>1. 1 \in 1 .. Len(r) /\ r[1] = g2
        BY HeadTailProperties
    <2> QED
        BY <2>1, ToSetMember
<1>4. /\ pr2[g2] = pr[g] /\ pr[g] \in Pri
      /\ \A h \in ToSet(hd) \ {g} : pr2[h] = pr[h] /\ qh2[h] = qh[h]
    BY <1>1, <1>3 DEF ListOK, QueuesBut
<1>5. /\ hd2 \in Seq(Listed) /\ DOMAIN hd2 = DOMAIN hd
      /\ \A i \in DOMAIN hd : hd2[i] = IF hd[i] = g THEN g2 ELSE hd[i]
    OBVIOUS
<1>6. ToSet(hd2) = (ToSet(hd) \ {g}) \cup {g2}
    <2>1. \A x : x \in ToSet(hd) <=> \E i \in DOMAIN hd : hd[i] = x
        BY Zenon DEF ToSet
    <2>2. \A x : x \in ToSet(hd2) <=> \E i \in DOMAIN hd : hd2[i] = x
        BY <1>5, ZenonT(60) DEF ToSet
    <2>3. ASSUME NEW x \in ToSet(hd2)
          PROVE  x \in (ToSet(hd) \ {g}) \cup {g2}
        BY <1>5, <2>1, <2>2
    <2>4. ASSUME NEW x \in (ToSet(hd) \ {g}) \cup {g2}
          PROVE  x \in ToSet(hd2)
        BY <1>5, <2>1, <2>2
    <2> QED
        BY <2>3, <2>4
<1>7. \A i \in DOMAIN hd : pr2[hd2[i]] = pr[hd[i]]
    <2>1. \A i \in DOMAIN hd : hd[i] \in ToSet(hd)
        BY DEF ToSet
    <2> QED
        BY <1>4, <1>5, <2>1
<1>8. \A i, j \in DOMAIN hd2 : i < j => pr2[hd2[i]] < pr2[hd2[j]]
    BY <1>5, <1>7 DEF ListOK
<1>9. ASSUME NEW h \in ToSet(hd2)
      PROVE  /\ pr2[h] \in Pri /\ qh2[h] # <<>> /\ Head(qh2[h]) = h
             /\ IsInjective(qh2[h])
             /\ \A u \in ToSet(qh2[h]) : pr2[u] = pr2[h]
    <2>1. CASE h = g2
        BY <1>4, <2>1
    <2>2. CASE h \in ToSet(hd) \ {g}
        <3>1. /\ pr[h] \in Pri /\ qh[h] # <<>> /\ Head(qh[h]) = h
              /\ IsInjective(qh[h])
              /\ \A u \in ToSet(qh[h]) : pr[u] = pr[h]
            BY <2>2 DEF ListOK
        <3>2. \A u \in ToSet(qh[h]) : pr2[u] = pr[u]
            BY <2>2
        <3> QED
            BY <1>4, <2>2, <3>1, <3>2
    <2> QED
        BY <1>6, <2>1, <2>2
<1>10. \A u \in Listed \ ToSet(hd2) : qh2[u] = <<>>
    BY SMTT(60), <1>6 DEF ListOK, QueuesBut
<1>11. ListOK(hd2, qh2, pr2)
    BY <1>5, <1>8, <1>9, <1>10 DEF ListOK, QueuesBut
<1>12. ASSUME NEW x \in Pri
       PROVE  Fifo(hd2, qh2, pr2)[x] = IF x = pr[g] THEN r
                                       ELSE Fifo(hd, qh, pr)[x]
    <2>1. CASE x = pr[g]
        <3>1. g2 \in ToSet(hd2)
            BY <1>6
        <3>2. Fifo(hd2, qh2, pr2)[pr2[g2]] = qh2[g2]
            BY <1>11, <3>1, FifoOfLeader
        <3> QED
            BY <1>4, <2>1, <3>2
    <2>2. CASE x \in {pr[h] : h \in ToSet(hd) \ {g}}
        <3>1. PICK h \in ToSet(hd) \ {g} : pr[h] = x
            BY <2>2
        <3>2. h \in ToSet(hd2) /\ pr2[h] = x /\ qh2[h] = qh[h] /\ x # pr[g]
            BY <1>1, <1>4, <1>6, <3>1
        <3>3. Fifo(hd2, qh2, pr2)[x] = qh2[h] /\ Fifo(hd, qh, pr)[x] = qh[h]
            BY <1>11, <3>1, <3>2, FifoOfLeader
        <3> QED
            BY <3>2, <3>3
    <2>3. CASE x # pr[g] /\ x \notin {pr[h] : h \in ToSet(hd) \ {g}}
        <3>1. /\ x \notin {pr2[h] : h \in ToSet(hd2)}
              /\ x \notin {pr[h] : h \in ToSet(hd)}
            <4>1. \A h \in ToSet(hd) : pr[h] # x
                BY <2>3
            <4>2. \A h \in ToSet(hd2) : pr2[h] # x
                BY <1>4, <1>6, <2>3, <4>1
            <4> QED
                BY <4>1, <4>2
        <3> QED
            BY <1>11, <2>3, <3>1, FifoOfLeader
    <2> QED
        BY <2>1, <2>2, <2>3
<1> QED
    BY <1>11, <1>12 DEF FifoBut

(* prio_list_del of the only thread of its priority *)
DropsQueue(hd, qh, pr, t, qh2, pr2) ==
    /\ ListOK(hd, qh, pr) /\ t \in ToSet(hd) /\ ToSet(qh[t]) = {t}
    /\ QueuesBut({t}, qh, qh2) /\ qh2[t] = <<>>
    /\ PriosBut({t}, pr, pr2)

LEMMA DropQueue ==
    ASSUME NEW hd, NEW qh, NEW pr, NEW t, NEW qh2, NEW pr2,
           DropsQueue(hd, qh, pr, t, qh2, pr2)
    PROVE  /\ ListOK(Without(hd, t), qh2, pr2)
           /\ FifoBut(Fifo(hd, qh, pr), pr[t], <<>>,
                      Fifo(Without(hd, t), qh2, pr2))
<1> USE DEF DropsQueue
<1> DEFINE at == IndexOf(hd, t)
           hd2 == Without(hd, t)
<1>1. /\ ToSet(hd) \subseteq Listed /\ IsInjective(hd) /\ t \in Listed
      /\ \A h \in ToSet(hd) : /\ h \in ToSet(qh[h])
                              /\ ToSet(qh[h]) \subseteq Listed
      /\ \A h, k \in ToSet(hd) : pr[h] = pr[k] => h = k
      /\ \A h \in ToSet(hd) : t \in ToSet(qh[h]) => h = t
    BY Leaders
<1>2. /\ hd \in Seq(Listed) /\ qh \in [Listed -> Seq(Listed)]
      /\ pr \in [Listed -> Pri \cup {0}]
      /\ DOMAIN hd = 1 .. Len(hd) /\ Len(hd) \in Nat
    BY DEF ListOK
<1>3. /\ at \in 1 .. Len(hd) /\ hd2 \in Seq(Listed)
      /\ ToSet(hd2) = ToSet(hd) \ {t}
    BY <1>1, <1>2, WithoutProperties
<1>4. /\ Len(hd2) = Len(hd) - 1
      /\ \A k \in 1 .. Len(hd) - 1 :
            hd2[k] = IF k < at THEN hd[k] ELSE hd[k + 1]
    <2>1. hd2 = RemoveAt(hd, at)
        BY SMTT(120) DEF Without
    <2>2. /\ Len(RemoveAt(hd, at)) = Len(hd) - 1
          /\ \A k \in 1 .. Len(hd) - 1 :
                RemoveAt(hd, at)[k] = IF k < at THEN hd[k] ELSE hd[k + 1]
        BY ZenonT(60), <1>2, <1>3, RemoveAtProperties
    <2> QED
        BY <2>1, <2>2, Zenon
<1>5. /\ qh2 \in [Listed -> Seq(Listed)] /\ qh2[t] = <<>>
      /\ \A u \in Listed \ {t} : qh2[u] = qh[u]
    BY DEF QueuesBut
<1>6. /\ pr2 \in [Listed -> Pri \cup {0}]
      /\ \A u \in Listed \ {t} : pr2[u] = pr[u]
    BY DEF PriosBut
<1> HIDE DEF at, hd2
<1>7. DOMAIN hd2 = 1 .. Len(hd) - 1
    BY <1>3, <1>4
<1>8. ASSUME NEW i \in 1 .. Len(hd) - 1, NEW j \in 1 .. Len(hd) - 1, i < j
      PROVE  pr2[hd2[i]] < pr2[hd2[j]]
    <2>1. hd2[i] \in ToSet(hd2) /\ hd2[j] \in ToSet(hd2)
        BY <1>7 DEF ToSet
    <2>2. pr2[hd2[i]] = pr[hd2[i]] /\ pr2[hd2[j]] = pr[hd2[j]]
        BY <1>1, <1>3, <1>6, <2>1
    <2>3. \A k, l \in 1 .. Len(hd) : k < l => pr[hd[k]] < pr[hd[l]]
        BY <1>2 DEF ListOK
    <2>4. CASE j < at
        <3>1. /\ hd2[i] = hd[i] /\ hd2[j] = hd[j]
              /\ i \in 1 .. Len(hd) /\ j \in 1 .. Len(hd)
            <4>1. i < at
                BY <1>3, <1>8, <2>4
            <4>2. hd2[i] = hd[i] /\ hd2[j] = hd[j]
                BY <1>4, <2>4, <4>1
            <4> QED
                BY <1>2, <4>2
        <3> QED
            BY <1>8, <2>2, <2>3, <3>1
    <2>5. CASE at <= j /\ i < at
        <3>1. hd2[i] = hd[i] /\ hd2[j] = hd[j + 1] /\ i < j + 1
              /\ i \in 1 .. Len(hd) /\ j + 1 \in 1 .. Len(hd)
            <4>1. i < at /\ ~(j < at) /\ i \in Int /\ j \in Int
                BY <1>3, <1>8, <2>5
            <4>2. hd2[i] = hd[i] /\ hd2[j] = hd[j + 1]
                BY <1>4, <4>1
            <4> QED
                BY SMTT(60), <1>2, <1>8, <4>2
        <3> QED
            BY <2>2, <2>3, <3>1
    <2>6. CASE at <= i
        <3>1. /\ hd2[i] = hd[i + 1] /\ hd2[j] = hd[j + 1] /\ i + 1 < j + 1
              /\ i + 1 \in 1 .. Len(hd) /\ j + 1 \in 1 .. Len(hd)
            <4>1. ~(i < at) /\ ~(j < at) /\ i \in Int /\ j \in Int
                BY <1>3, <1>8, <2>6
            <4>2. hd2[i] = hd[i + 1] /\ hd2[j] = hd[j + 1]
                BY <1>4, <4>1
            <4> QED
                BY SMTT(60), <1>2, <1>8, <4>2
        <3> QED
            BY <2>2, <2>3, <3>1
    <2> QED
        BY <1>3, <1>8, <2>4, <2>5, <2>6
<1>9. \A h \in ToSet(hd2) :
        h \in ToSet(hd) /\ h # t /\ pr2[h] = pr[h] /\ qh2[h] = qh[h]
    BY <1>1, <1>3, <1>5, <1>6
<1>10. ASSUME NEW h \in ToSet(hd2)
       PROVE  /\ pr2[h] \in Pri /\ qh2[h] # <<>> /\ Head(qh2[h]) = h
              /\ IsInjective(qh2[h])
              /\ \A u \in ToSet(qh2[h]) : pr2[u] = pr2[h]
    <2>1. /\ pr[h] \in Pri /\ qh[h] # <<>> /\ Head(qh[h]) = h
          /\ IsInjective(qh[h])
          /\ \A u \in ToSet(qh[h]) : pr[u] = pr[h]
        BY <1>9 DEF ListOK
    <2>2. \A u \in ToSet(qh[h]) : pr2[u] = pr[u]
        BY <1>1, <1>6, <1>9
    <2> QED
        BY <1>9, <2>1, <2>2
<1>11. \A u \in Listed \ ToSet(hd2) : qh2[u] = <<>>
    BY <1>3, <1>5 DEF ListOK
<1>12. ListOK(hd2, qh2, pr2)
    BY <1>3, <1>5, <1>6, <1>7, <1>8, <1>10, <1>11 DEF ListOK
<1>13. ASSUME NEW x \in Pri
       PROVE  Fifo(hd2, qh2, pr2)[x] = IF x = pr[t] THEN <<>>
                                       ELSE Fifo(hd, qh, pr)[x]
    <2>1. CASE x = pr[t]
        <3>1. x \notin {pr2[h] : h \in ToSet(hd2)}
            BY <1>1, <1>9, <2>1
        <3> QED
            BY <1>12, <2>1, <3>1, FifoOfLeader
    <2>2. CASE x \in {pr[h] : h \in ToSet(hd) \ {t}}
        <3>1. PICK h \in ToSet(hd) \ {t} : pr[h] = x
            BY <2>2
        <3>2. h \in ToSet(hd2) /\ pr2[h] = x /\ qh2[h] = qh[h] /\ x # pr[t]
            BY <1>1, <1>3, <1>9, <3>1
        <3>3. Fifo(hd2, qh2, pr2)[x] = qh2[h] /\ Fifo(hd, qh, pr)[x] = qh[h]
            BY <1>12, <3>1, <3>2, FifoOfLeader
        <3> QED
            BY <3>2, <3>3
    <2>3. CASE x # pr[t] /\ x \notin {pr[h] : h \in ToSet(hd) \ {t}}
        <3>1. /\ x \notin {pr2[h] : h \in ToSet(hd2)}
              /\ x \notin {pr[h] : h \in ToSet(hd)}
            BY <1>9, <2>3
        <3> QED
            BY <1>12, <2>3, <3>1, FifoOfLeader
    <2> QED
        BY <2>1, <2>2, <2>3
<1> QED
    BY <1>12, <1>13 DEF hd2, FifoBut

-----------------------------------------------------------------------------
(* The steps of PrioList *)

(* What a step of the list has to be, in terms of the values *)
LEMMA AbstractStep ==
    ASSUME ListOK(head', qhead', prio')
    PROVE  (Q!prio_list_first)' = Q!Queue!First(Fifo(head', qhead', prio'))
BY FirstIs, Zenon DEF Q!prio_list_first

LEMMA QueuedIs ==
    ASSUME ListOK(head, qhead, prio), NEW t
    PROVE  Q!Queue!Queued(t) <=>
               \E h \in ToSet(head) : t \in ToSet(qhead[h])
<1> DEFINE q == Fifo(head, qhead, prio)
<1>1. Q!Queue!Queued(t) <=> \E p \in Pri : t \in ToSet(q[p])
    <2>1. Q!Queue!Queued(t) <=>
            \E p \in Pri : t \in ToSet([x \in Pri |-> Q!QueueOf(x)][p])
        BY SameOperators, Zenon DEF Q!Queue!Queued
    <2> QED
        BY <2>1, FifoIs, Zenon
<1> HIDE DEF q
<1>2. /\ \A h \in ToSet(head) : prio[h] \in Pri /\ q[prio[h]] = qhead[h]
      /\ \A p \in Pri : p \notin {prio[h] : h \in ToSet(head)} =>
                            q[p] = <<>>
    <2>1. \A h \in ToSet(head) : prio[h] \in Pri
        BY DEF ListOK
    <2>2. \A h \in ToSet(head) : q[prio[h]] = qhead[h]
        BY FifoOfLeader DEF q
    <2>3. \A p \in Pri : p \notin {prio[h] : h \in ToSet(head)} =>
                            q[p] = <<>>
        BY FifoOfLeader DEF q
    <2> QED
        BY <2>1, <2>2, <2>3
<1>3. t \notin ToSet(<<>>)
    BY DEF ToSet
<1> QED
    BY <1>1, <1>2, <1>3

LEMMA AddStep ==
    ASSUME Q!ListInv, NEW t \in Listed, Q!prio_list_add(t)
    PROVE  Q!ListInv' /\ Q!Queue!Add(t)
<1> DEFINE p == td_priority[t]
           ps == {i \in DOMAIN head : prio[head[i]] >= p}
           at == Position(head, ps)
           q == Fifo(head, qhead, prio)
<1>1. /\ ListOK(head, qhead, prio) /\ ~corrupted
      /\ td_priority \in [Listed -> Pri]
    BY ListInvIs
<1>2. p \in Pri /\ head \in Seq(Listed) /\ ps \in SUBSET DOMAIN head
    BY <1>1 DEF ListOK
<1>3. Q!FirstNotBetter(p) = at
    BY SameOperators, Zenon DEF Q!FirstNotBetter
<1>4. \A h \in ToSet(head) : t \notin ToSet(qhead[h])
    BY SameOperators, Zenon DEF Q!prio_list_add, Q!OnList
<1>5. /\ prio' = [prio EXCEPT ![t] = p]
      /\ td_priority' = td_priority /\ corrupted' = corrupted
      /\ IF at <= Len(head) /\ prio[head[at]] = p
         THEN /\ qhead' = [qhead EXCEPT ![t] = <<>>,
                                        ![head[at]] = Append(@, t)]
              /\ head' = head
         ELSE /\ qhead' = [qhead EXCEPT ![t] = <<t>>]
              /\ head' = InsertAt(head, at, t)
    <2>1. Q!InsertAt(head, at, t) = InsertAt(head, at, t)
        BY SameOperators, Zenon
    <2> HIDE DEF at
    <2> QED
        BY <1>3, <2>1 DEF Q!prio_list_add
<1>6. /\ at \in 1 .. Len(head) + 1 /\ \A i \in ps : at <= i
      /\ at \in ps \cup {Len(head) + 1}
    BY <1>2, PositionBounds
<1> HIDE DEF at
<1>7. /\ ListOK(head', qhead', prio')
      /\ Fifo(head', qhead', prio') = [q EXCEPT ![p] = Append(@, t)]
    <2>1. CASE at <= Len(head) /\ prio[head[at]] = p
        <3>1. head[at] \in ToSet(head)
            BY <1>2, <1>6, <2>1, ToSetMember
        <3>2. /\ head' = head
              /\ qhead' = [qhead EXCEPT ![t] = <<>>,
                                        ![head[at]] = Append(@, t)]
            BY <1>5, <2>1
        <3>3. PICK g \in ToSet(head) : g = head[at]
            BY <3>1
        <3>4. g \in Listed /\ t # g /\ qhead[t] = <<>>
            <4>1. g \in Listed /\ t \notin ToSet(head)
                BY <1>1, <1>4, Leaders
            <4> QED
                BY <1>1, <4>1 DEF ListOK
        <3>5. /\ qhead \in [Listed -> Seq(Listed)]
              /\ prio \in [Listed -> Pri \cup {0}]
            BY <1>1 DEF ListOK
        <3>6. /\ qhead'[g] = Append(qhead[g], t)
              /\ QueuesBut({g}, qhead, qhead')
            <4> DEFINE mid == [qhead EXCEPT ![t] = <<>>]
            <4>1. mid \in [Listed -> Seq(Listed)] /\ mid = qhead
                BY <3>4, <3>5
            <4>2. qhead' = [qhead EXCEPT ![t] = <<>>, ![g] = Append(@, t)]
                BY <3>2, <3>3, Zenon
            <4>3. qhead' = [qhead EXCEPT ![g] = Append(qhead[g], t)]
                BY <3>4, <4>1, <4>2, Zenon
            <4>4. Append(qhead[g], t) \in Seq(Listed)
                BY <3>4, <3>5
            <4> QED
                BY <3>4, <3>5, <4>3, <4>4 DEF QueuesBut
        <3>7. prio'[t] = p /\ PriosBut({t}, prio, prio') /\ prio[g] = p
            BY <1>2, <1>5, <2>1, <3>3, <3>5 DEF PriosBut
        <3> HIDE DEF p
        <3>8. /\ ListOK(head, qhead', prio')
              /\ FifoBut(q, p, Append(q[p], t), Fifo(head, qhead', prio'))
            <4>1. AddsBehind(head, qhead, prio, p, t, g, qhead', prio')
                BY <1>1, <1>2, <1>4, <3>6, <3>7, Zenon DEF AddsBehind
            <4> QED
                BY <4>1, AddBehind, Zenon
        <3>9. /\ ListOK(head', qhead', prio')
              /\ FifoBut(q, p, Append(q[p], t), Fifo(head', qhead', prio'))
            BY <3>2, <3>8, Zenon
        <3>10. q = [x \in Pri |-> q[x]]
            BY FifoFunction
        <3>11. PICK q2 : q2 = Fifo(head', qhead', prio')
            OBVIOUS
        <3>12. q2 = [x \in Pri |-> q2[x]]
            BY <3>11, FifoFunction
        <3> HIDE DEF q
        <3> QED
            BY <1>2, <3>9, <3>10, <3>11, <3>12 DEF FifoBut
    <2>2. CASE ~(at <= Len(head) /\ prio[head[at]] = p)
        <3>1. DOMAIN head = 1 .. Len(head) /\ Len(head) \in Nat
            BY <1>2
        <3>2. p \in Nat /\ \A i \in 1 .. Len(head) : prio[head[i]] \in Nat
            <4>1. \A i \in 1 .. Len(head) : head[i] \in ToSet(head)
                BY <3>1 DEF ToSet
            <4> QED
                BY <1>1, <1>2, <4>1, PriNat DEF ListOK
        <3>3. ASSUME NEW i \in 1 .. Len(head)
              PROVE  IF i < at THEN prio[head[i]] < p
                     ELSE p < prio[head[i]]
            <4>1. CASE i < at
                BY <1>6, <3>1, <3>2, <4>1
            <4>2. CASE i >= at
                <5>1. at \in 1 .. Len(head) /\ prio[head[at]] >= p
                    BY <1>6, <3>1, <4>2
                <5>2. prio[head[at]] > p
                    BY <2>2, <3>2, <5>1
                <5>3. at < i => prio[head[at]] < prio[head[i]]
                    BY <1>1, <3>1, <5>1 DEF ListOK
                <5> QED
                    BY SMTT(60), <1>6, <3>2, <4>2, <5>1, <5>2, <5>3
            <4> QED
                BY <1>6, <4>1, <4>2
        <3>4. /\ head' = InsertAt(head, at, t)
              /\ qhead' = [qhead EXCEPT ![t] = <<t>>]
            BY <1>5, <2>2
        <3>5. /\ qhead \in [Listed -> Seq(Listed)]
              /\ prio \in [Listed -> Pri \cup {0}]
            BY <1>1 DEF ListOK
        <3>6. qhead'[t] = <<t>> /\ QueuesBut({t}, qhead, qhead')
            BY <3>4, <3>5 DEF QueuesBut
        <3>7. prio'[t] = p /\ PriosBut({t}, prio, prio')
            BY <1>2, <1>5, <3>5 DEF PriosBut
        <3> HIDE DEF p
        <3>8. /\ ListOK(InsertAt(head, at, t), qhead', prio')
              /\ FifoBut(q, p, Append(q[p], t),
                         Fifo(InsertAt(head, at, t), qhead', prio'))
            <4>1. AddsLeader(head, qhead, prio, p, t, at, qhead', prio')
                BY <1>1, <1>2, <1>4, <1>6, <3>3, <3>6, <3>7, Zenon
                   DEF AddsLeader
            <4> QED
                BY <4>1, AddLeader, Zenon
        <3>9. /\ ListOK(head', qhead', prio')
              /\ FifoBut(q, p, Append(q[p], t), Fifo(head', qhead', prio'))
            BY <3>4, <3>8, Zenon
        <3>10. q = [x \in Pri |-> q[x]]
            BY FifoFunction
        <3>11. PICK q2 : q2 = Fifo(head', qhead', prio')
            OBVIOUS
        <3>12. q2 = [x \in Pri |-> q2[x]]
            BY <3>11, FifoFunction
        <3> HIDE DEF q
        <3> QED
            BY <1>2, <3>9, <3>10, <3>11, <3>12 DEF FifoBut
    <2> QED
        BY <2>1, <2>2
<1>8. Q!ListInv'
    BY <1>1, <1>5, <1>7, ListInvIs
<1>9. ~Q!Queue!Queued(t)
    BY <1>1, <1>4, QueuedIs
<1>10. [x \in Pri |-> Q!QueueOf(x)]'
         = [[x \in Pri |-> Q!QueueOf(x)] EXCEPT ![td_priority[t]]
                = Append(@, t)]
    BY <1>7, FifoIs, Zenon
<1>11. (Q!prio_list_first)'
         = Q!Queue!First([x \in Pri |-> Q!QueueOf(x)]')
    BY <1>7, AbstractStep, FifoIs, Zenon
<1> QED
    BY <1>5, <1>8, <1>9, <1>10, <1>11, Zenon DEF Q!Queue!Add

(* prio_list_del of a leader, of the last thread of its priority, or of a  *)
(* thread in the middle of a queue                                         *)
LEMMA DelStep ==
    ASSUME Q!ListInv, NEW t \in Listed, Q!prio_list_del(t)
    PROVE  Q!ListInv' /\ Q!Queue!Del(t)
<1> DEFINE q == Fifo(head, qhead, prio)
<1>1. /\ ListOK(head, qhead, prio) /\ ~corrupted
      /\ td_priority \in [Listed -> Pri]
    BY ListInvIs
<1>2. PICK h \in ToSet(head) : t \in ToSet(qhead[h]) /\ Q!Leader(t) = h
    <2>1. \E h \in ToSet(head) : t \in ToSet(qhead[h])
        BY SameOperators, Zenon DEF Q!prio_list_del, Q!OnList
    <2>2. Q!Leader(t) = CHOOSE h \in ToSet(head) : t \in ToSet(qhead[h])
        BY SameOperators, Zenon DEF Q!Leader
    <2> QED
        BY <2>1, <2>2, Zenon
<1> DEFINE r == Without(qhead[h], t)
<1>3. /\ prio' = [prio EXCEPT ![t] = 0] /\ td_priority' = td_priority
      /\ r = <<>> => /\ head' = Without(head, h)
                     /\ qhead' = [qhead EXCEPT ![h] = r]
                     /\ corrupted' = (corrupted \/ h # t)
      /\ r # <<>> => corrupted' = corrupted
      /\ r # <<>> /\ t = h => Q!TakeOver(h, r)
      /\ r # <<>> /\ t # h => /\ qhead' = [qhead EXCEPT ![h] = r]
                              /\ head' = head
    <2>1. Q!Without(head, h) = Without(head, h) /\ Q!Without(qhead[h], t) = r
        BY SameOperators, Zenon
    <2> HIDE DEF r
    <2> QED
        BY <1>2, <2>1, Zenon DEF Q!prio_list_del
<1>4. /\ head \in Seq(Listed) /\ qhead \in [Listed -> Seq(Listed)]
      /\ prio \in [Listed -> Pri \cup {0}]
      /\ prio[h] \in Pri /\ qhead[h] # <<>> /\ Head(qhead[h]) = h
      /\ IsInjective(qhead[h]) /\ prio[t] = prio[h]
      /\ \A u \in ToSet(qhead[h]) : prio[u] = prio[h]
    BY <1>1, <1>2 DEF ListOK
<1>5. /\ h \in Listed /\ h \in ToSet(qhead[h])
      /\ ToSet(qhead[h]) \subseteq Listed
      /\ \A g \in ToSet(head) : t \in ToSet(qhead[g]) => g = h
      /\ \A g \in ToSet(head) : g \in ToSet(qhead[g])
      /\ \A g \in ToSet(head) : ToSet(qhead[g]) \subseteq Listed
      /\ \A u \in ToSet(qhead[h]) : u \in ToSet(head) => u = h
    BY <1>1, <1>2, Leaders
<1>6. qhead[h] \in Seq(Listed)
    BY <1>4, <1>5
<1>7. /\ r \in Seq(Listed) /\ IsInjective(r)
      /\ ToSet(r) = ToSet(qhead[h]) \ {t}
      /\ IndexOf(qhead[h], t) \in 1 .. Len(qhead[h])
      /\ qhead[h][IndexOf(qhead[h], t)] = t
      /\ r # <<>> => Head(r) = IF IndexOf(qhead[h], t) = 1
                               THEN qhead[h][2] ELSE qhead[h][1]
    <2>1. PICK s \in Seq(Listed) : s = qhead[h]
        BY <1>6
    <2>2. t \in ToSet(s) /\ IsInjective(s)
        BY <1>2, <1>4, <2>1
    <2>3. /\ Without(s, t) \in Seq(Listed) /\ IsInjective(Without(s, t))
          /\ ToSet(Without(s, t)) = ToSet(s) \ {t}
          /\ IndexOf(s, t) \in 1 .. Len(s) /\ s[IndexOf(s, t)] = t
          /\ Without(s, t) # <<>> =>
                Head(Without(s, t)) = IF IndexOf(s, t) = 1 THEN s[2]
                                      ELSE s[1]
        BY <2>2, WithoutProperties
    <2> QED
        BY <2>1, <2>3, Zenon
<1>8. qhead[h][1] = h /\ 1 \in 1 .. Len(qhead[h])
    BY <1>4, <1>6, HeadTailProperties
<1> HIDE DEF r
<1>9. /\ prio'[t] = 0 /\ PriosBut({t}, prio, prio')
      /\ prio' \in [Listed -> Pri \cup {0}]
      /\ \A u \in Listed \ {t} : prio'[u] = prio[u]
    BY <1>3, <1>4 DEF PriosBut
<1>10. /\ ListOK(head', qhead', prio') /\ ~corrupted'
       /\ FifoBut(q, prio[h], r, Fifo(head', qhead', prio'))
    <2>1. CASE r = <<>>
        <3>1. ToSet(r) = {}
            BY <2>1 DEF ToSet
        <3>2. t = h /\ ToSet(qhead[h]) = {h}
            BY <1>2, <1>5, <1>7, <3>1
        <3>3. qhead'[h] = <<>> /\ QueuesBut({h}, qhead, qhead')
            <4>1. qhead' = [qhead EXCEPT ![h] = <<>>] /\ <<>> \in Seq(Listed)
                BY <1>3, <2>1
            <4> QED
                BY <1>4, <1>5, <4>1 DEF QueuesBut
        <3>4. DropsQueue(head, qhead, prio, h, qhead', prio')
            BY <1>1, <1>9, <3>2, <3>3, Zenon DEF DropsQueue
        <3>5. /\ ListOK(Without(head, h), qhead', prio')
              /\ FifoBut(q, prio[h], <<>>,
                         Fifo(Without(head, h), qhead', prio'))
            BY <3>4, DropQueue, Zenon
        <3>6. head' = Without(head, h) /\ ~corrupted'
            BY <1>1, <1>3, <2>1, <3>2
        <3> QED
            BY <2>1, <3>5, <3>6, Zenon
    <2>2. CASE r # <<>> /\ t = h
        <3> DEFINE g2 == Head(r)
        <3>1. g2 \in ToSet(r)
            <4>1. 1 \in 1 .. Len(r) /\ r[1] = g2
                BY <1>7, <2>2, HeadTailProperties
            <4> QED
                BY <1>7, <4>1, ToSetMember
        <3>2. /\ g2 \in ToSet(qhead[h]) /\ g2 # h /\ g2 \in Listed
              /\ g2 \notin ToSet(head)
            BY <1>5, <1>7, <2>2, <3>1
        <3>3. qhead[g2] = <<>>
            BY <1>1, <3>2 DEF ListOK
        <3> HIDE DEF g2
        <3>4. /\ qhead' = [qhead EXCEPT ![h] = <<>>, ![g2] = r]
              /\ head' = [i \in DOMAIN head |->
                            IF head[i] = h THEN g2 ELSE head[i]]
            <4>1. Q!TakeOver(h, r)
                BY <1>3, <2>2
            <4> QED
                BY <3>3, <4>1, Zenon DEF Q!TakeOver, g2
        <3>5. /\ QueuesBut({h, g2}, qhead, qhead')
              /\ qhead'[g2] = r /\ qhead'[h] = <<>>
            <4>1. /\ r \in Seq(Listed) /\ <<>> \in Seq(Listed)
                  /\ g2 \in Listed /\ g2 # h /\ h \in Listed
                BY <1>5, <1>7, <3>2
            <4> DEFINE mid == [qhead EXCEPT ![h] = <<>>]
            <4>2. /\ mid \in [Listed -> Seq(Listed)] /\ mid[h] = <<>>
                  /\ \A u \in Listed \ {h} : mid[u] = qhead[u]
                BY <1>4, <4>1
            <4>3. qhead' = [mid EXCEPT ![g2] = r]
                BY <3>4, Zenon
            <4> HIDE DEF mid
            <4> QED
                BY SMTT(60), <4>1, <4>2, <4>3 DEF QueuesBut
        <3>6. /\ head' \in Seq(Listed) /\ DOMAIN head' = DOMAIN head
              /\ \A i \in DOMAIN head :
                    head'[i] = IF head[i] = h THEN g2 ELSE head[i]
            <4>1. DOMAIN head = 1 .. Len(head) /\ Len(head) \in Nat
                BY <1>4
            <4>2. head' \in [1 .. Len(head) -> Listed]
                BY <1>4, <3>2, <3>4, <4>1
            <4>3. head' \in Seq(Listed)
                BY <4>1, <4>2, SeqDef
            <4> QED
                BY <3>4, <4>3
        <3>7. /\ \A u \in ToSet(r) : prio'[u] = prio[h]
              /\ \A g \in ToSet(head) \ {h} : \A u \in ToSet(qhead[g]) :
                    prio'[u] = prio[u]
            BY <1>4, <1>5, <1>7, <1>9
        <3>8. ReplacesQueue(head, qhead, prio, h, g2, r, head', qhead', prio')
            BY <1>1, <1>7, <1>9, <2>2, <3>2, <3>5, <3>6, <3>7
               DEF ReplacesQueue, g2
        <3>9. /\ ListOK(head', qhead', prio')
              /\ FifoBut(q, prio[h], r, Fifo(head', qhead', prio'))
            BY <3>8, ReplaceQueue, Zenon
        <3>10. ~corrupted'
            BY <1>1, <1>3, <2>2
        <3> QED
            BY <3>9, <3>10, Zenon
    <2>3. CASE r # <<>> /\ t # h
        <3>1. Head(r) = h
            BY <1>7, <1>8, <2>3
        <3>2. QueuesBut({h, h}, qhead, qhead') /\ qhead'[h] = r
            <4>1. qhead' = [qhead EXCEPT ![h] = r] /\ r \in Seq(Listed)
                BY <1>3, <1>7, <2>3
            <4> QED
                BY <1>4, <1>5, <4>1 DEF QueuesBut
        <3>3. /\ head' \in Seq(Listed) /\ DOMAIN head' = DOMAIN head
              /\ \A i \in DOMAIN head :
                    head'[i] = IF head[i] = h THEN h ELSE head[i]
            BY <1>3, <1>4, <2>3
        <3>4. /\ \A u \in ToSet(r) : prio'[u] = prio[h]
              /\ \A g \in ToSet(head) \ {h} : \A u \in ToSet(qhead[g]) :
                    prio'[u] = prio[u]
            BY <1>4, <1>5, <1>7, <1>9
        <3>5. ReplacesQueue(head, qhead, prio, h, h, r, head', qhead', prio')
            BY <1>1, <1>5, <1>7, <1>9, <2>3, <3>1, <3>2, <3>3, <3>4
               DEF ReplacesQueue
        <3>6. /\ ListOK(head', qhead', prio')
              /\ FifoBut(q, prio[h], r, Fifo(head', qhead', prio'))
            BY <3>5, ReplaceQueue, Zenon
        <3>10. ~corrupted'
            BY <1>1, <1>3, <2>3
        <3> QED
            BY <3>6, <3>10, Zenon
    <2> QED
        BY <2>1, <2>2, <2>3
<1>11. Q!ListInv'
    BY <1>1, <1>3, <1>10, ListInvIs, Zenon
<1>12. q[prio[h]] = qhead[h]
    BY <1>1, FifoOfLeader
<1>13. Fifo(head', qhead', prio')
         = [q EXCEPT ![prio[h]] = Without(@, t)]
    <2>1. q = [x \in Pri |-> q[x]]
        BY FifoFunction
    <2>2. PICK q2 : q2 = Fifo(head', qhead', prio')
        OBVIOUS
    <2>3. q2 = [x \in Pri |-> q2[x]]
        BY <2>2, FifoFunction
    <2>4. Without(q[prio[h]], t) = r
        BY <1>12, Zenon DEF r
    <2> HIDE DEF q
    <2> QED
        BY <1>4, <1>10, <2>1, <2>2, <2>3, <2>4 DEF FifoBut
<1>14. t \in ToSet(q[prio[h]])
    BY <1>2, <1>12, Zenon
<1>15. [x \in Pri |-> Q!QueueOf(x)] = q
    BY FifoIs
<1> HIDE DEF q
<1>16. \E p \in Pri :
         /\ t \in Q!Queue!ToSet([x \in Pri |-> Q!QueueOf(x)][p])
         /\ [x \in Pri |-> Q!QueueOf(x)]'
              = [[x \in Pri |-> Q!QueueOf(x)] EXCEPT ![p]
                    = Q!Queue!Without(@, t)]
    <2>1. /\ \A s : Q!Queue!ToSet(s) = ToSet(s)
          /\ \A s, x : Q!Queue!Without(s, x) = Without(s, x)
        BY SameOperators, Zenon
    <2>2. [x \in Pri |-> Q!QueueOf(x)]' = Fifo(head', qhead', prio')
        BY FifoIs, Zenon
    <2>3. t \in Q!Queue!ToSet(q[prio[h]])
        BY <1>14, <2>1, Zenon
    <2>4. Fifo(head', qhead', prio')
            = [q EXCEPT ![prio[h]] = Q!Queue!Without(@, t)]
        BY <1>13, <2>1, Zenon
    <2> QED
        BY <1>4, <1>15, <2>2, <2>3, <2>4, Zenon
<1>17. (Q!prio_list_first)'
         = Q!Queue!First([x \in Pri |-> Q!QueueOf(x)]')
    BY <1>10, AbstractStep, FifoIs, Zenon
<1> QED
    BY <1>3, <1>11, <1>16, <1>17, Zenon DEF Q!Queue!Del

LEMMA SameList ==
    ASSUME UNCHANGED <<head, qhead, prio>>
    PROVE  /\ Q!ListInv /\ UNCHANGED corrupted
                /\ td_priority' \in [Listed -> Pri] => Q!ListInv'
           /\ [x \in Pri |-> Q!QueueOf(x)]' = [x \in Pri |-> Q!QueueOf(x)]
           /\ (Q!prio_list_first)' = Q!prio_list_first
<1>1. head' = head /\ qhead' = qhead /\ prio' = prio
    OBVIOUS
<1>2. ASSUME Q!ListInv, corrupted' = corrupted,
             td_priority' \in [Listed -> Pri]
      PROVE  Q!ListInv'
    <2>1. ListOK(head, qhead, prio) /\ ~corrupted
        BY <1>2, ListInvIs
    <2>2. ListOK(head', qhead', prio')
        BY <1>1, <2>1
    <2>3. ~corrupted'
        BY <1>2, <2>1
    <2> QED
        BY <1>2, <2>2, <2>3, ListInvIs
<1>3. [x \in Pri |-> Q!QueueOf(x)]' = [x \in Pri |-> Q!QueueOf(x)]
    BY <1>1, FifoIs, Zenon
<1>4. (Q!prio_list_first)' = Q!prio_list_first
    BY <1>1, Zenon DEF Q!prio_list_first
<1> QED
    BY <1>2, <1>3, <1>4

LEMMA ChangePriorityStep ==
    ASSUME Q!ListInv, NEW t \in Listed, Q!ChangePriority(t)
    PROVE  Q!ListInv' /\ Q!Queue!ChangePriority(t)
<1>1. td_priority \in [Listed -> Pri]
    BY ListInvIs
<1>2. PICK p \in Pri : td_priority' = [td_priority EXCEPT ![t] = p]
    BY DEF Q!ChangePriority
<1>3. td_priority' \in [Listed -> Pri]
    BY <1>1, <1>2
<1>4. UNCHANGED <<head, qhead, prio>> /\ UNCHANGED corrupted
    BY DEF Q!ChangePriority
<1>5. Q!ListInv'
    BY <1>3, <1>4, SameList
<1>6. Q!Queue!ChangePriority(t)
    <2>1. \E x \in Pri : td_priority' = [td_priority EXCEPT ![t] = x]
        BY <1>2, Zenon
    <2> QED
        BY <1>4, <2>1, SameList, Zenon DEF Q!Queue!ChangePriority
<1> QED
    BY <1>5, <1>6

LEMMA ListInit == Q!Init => Q!ListInv /\ Q!Queue!Init
<1> SUFFICES ASSUME Q!Init
             PROVE  Q!ListInv /\ Q!Queue!Init
    OBVIOUS
<1>1. /\ head = <<>> /\ qhead = [t \in Listed |-> <<>>]
      /\ prio = [t \in Listed |-> 0] /\ td_priority \in [Listed -> Pri]
      /\ corrupted = FALSE
    BY DEF Q!Init
<1>2. ToSet(head) = {}
    BY <1>1 DEF ToSet
<1>3. ListOK(head, qhead, prio)
    <2>1. head \in Seq(Listed) /\ DOMAIN head = {}
        BY <1>1
    <2>2. /\ qhead \in [Listed -> Seq(Listed)]
          /\ prio \in [Listed -> Pri \cup {0}]
        BY <1>1
    <2>3. \A t \in Listed : qhead[t] = <<>>
        BY <1>1
    <2> QED
        BY <1>2, <2>1, <2>2, <2>3 DEF ListOK
<1>4. Q!ListInv
    BY <1>1, <1>3, ListInvIs
<1>5. [x \in Pri |-> Q!QueueOf(x)] = [x \in Pri |-> <<>>]
    <2>1. Q!ToSet(head) = {}
        BY <1>2, SameOperators
    <2>2. \A x \in Pri : Q!QueueOf(x) = <<>>
        BY <2>1 DEF Q!QueueOf
    <2> QED
        BY <2>2
<1>6. Q!prio_list_first = NULL
    BY <1>1 DEF Q!prio_list_first
<1> QED
    BY <1>1, <1>4, <1>5, <1>6, Zenon DEF Q!Queue!Init

LEMMA ListStep ==
    Q!ListInv /\ [PrioritiesNext]_priorities_vars
        => Q!ListInv' /\ [Q!Queue!Next]_(Q!Queue!vars)
<1> SUFFICES ASSUME Q!ListInv, [PrioritiesNext]_priorities_vars
             PROVE  Q!ListInv' /\ [Q!Queue!Next]_(Q!Queue!vars)
    OBVIOUS
<1>1. CASE UNCHANGED list_vars
    <2>1. /\ UNCHANGED <<head, qhead, prio>> /\ UNCHANGED corrupted
          /\ td_priority' = td_priority
        BY <1>1 DEF list_vars
    <2>2. td_priority' \in [Listed -> Pri]
        BY <2>1, ListInvIs
    <2>3. Q!ListInv'
        BY <2>1, <2>2, SameList
    <2>4. UNCHANGED Q!Queue!vars
        BY <2>1, SameList DEF Q!Queue!vars
    <2> QED
        BY <2>3, <2>4
<1>2. CASE Q!Next
    <2>1. PICK t \in Listed : \/ Q!prio_list_add(t) \/ Q!prio_list_del(t)
                               \/ Q!ChangePriority(t)
        BY <1>2 DEF Q!Next
    <2>2. Q!ListInv' /\ (\/ Q!Queue!ChangePriority(t)
                          \/ Q!Queue!Add(t) \/ Q!Queue!Del(t))
        BY <2>1, AddStep, DelStep, ChangePriorityStep
    <2> QED
        BY <2>2 DEF Q!Queue!Next
<1> QED
    BY <1>1, <1>2 DEF PrioritiesNext, priorities_vars

(* The leaders of prio_list.c stay in the strict order of their            *)
(* priorities, each at the head of the queue of its own priority, with no  *)
(* other queue in use, and the assertion of prio_list_del never fails, for *)
(* any number of threads and any set of priorities.                        *)
THEOREM ListIsOrdered == PrioritiesSpec => []ListInv
<1>1. PrioritiesInit => Q!ListInv
    BY ListInit DEF PrioritiesInit
<1>2. Q!ListInv /\ [PrioritiesNext]_priorities_vars => Q!ListInv'
    BY ListStep
<1> QED
    BY <1>1, <1>2, PTL DEF PrioritiesSpec, ListInv

(* prio_list_add, prio_list_del and prio_list_first implement a queue by   *)
(* priority, first in first out among equals: the two levels of lists, the *)
(* new leader's place and the swapped queues are never visible.            *)
THEOREM ListImplementsQueue == PrioritiesSpec => ImplementsQueue
<1>1. PrioritiesInit => Q!ListInv /\ Q!Queue!Init
    BY ListInit DEF PrioritiesInit
<1>2. Q!ListInv /\ [PrioritiesNext]_priorities_vars
        => Q!ListInv' /\ [Q!Queue!Next]_(Q!Queue!vars)
    BY ListStep
<1> QED
    BY <1>1, <1>2, PTL
       DEF PrioritiesSpec, ImplementsQueue, Q!ImplementsQueue, Q!Queue!Spec
=============================================================================
