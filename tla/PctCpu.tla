------------------------------- MODULE PctCpu -------------------------------
(***************************************************************************)
(* The CPU usage of a thread, sched.c: a count of the ticks it has run in  *)
(* a history that slides along, ltick - ftick long, and that is scaled     *)
(* back when it gets too long.  The tick counter is an int that wraps.     *)
(***************************************************************************)
EXTENDS Integers

CONSTANTS
    hz,
    SCHED_TICK_SECS, SCHED_TICK_SHIFT,
    FSCALE,             \* the usage of a thread that always runs
    TickRange,          \* 2^32: the tick counter wraps around here
    StatGap,            \* sched_clock of a running thread is called at
                        \* least once in that time
    MaxSleep            \* bound: no thread that does not run goes without
                        \* update for longer

(* The last two say that nobody goes without update for so long that a     *)
(* difference of tick counts changes its sign, and what a prover does not  *)
(* know of powers.                                                         *)
TickConstants ==
    /\ hz \in Nat \ {0} /\ SCHED_TICK_SECS \in Nat \ {0}
    /\ SCHED_TICK_SHIFT \in Nat /\ FSCALE \in Nat \ {0}
    /\ StatGap \in 1 .. hz /\ MaxSleep \in Nat
    /\ TickRange \in Nat /\ TickRange % 2 = 0
    /\ hz * SCHED_TICK_SECS + hz + MaxSleep + StatGap <= TickRange \div 2
    /\ 2 ^ SCHED_TICK_SHIFT > 0

VARIABLES
    now,                \* ticks, the clock
    ts,                 \* ltick, ftick and ticks of struct td_sched
    running,
    always,             \* the thread has run from its first tick on
    slept,              \* how long the running thread had been without update
                        \* when it was switched to
    overcounted         \* that time was counted as run time, and was longer
                        \* than the history that holds it

vars == <<now, ts, running, always, slept, overcounted>>

SCHED_TICK_TARG == hz * SCHED_TICK_SECS
SCHED_TICK_MAX == SCHED_TICK_TARG + hz

(* A difference of two ints *)
Diff(a, b) ==
    LET d == (a - b) % TickRange
    IN  IF d < TickRange \div 2 THEN d ELSE d - TickRange

Minus(a, b) == (a - b) % TickRange

-----------------------------------------------------------------------------
(* Mutant of ScaleBack: the history is made shorter, the count is kept. *)
ScaleBackKeeps(s) == [s EXCEPT !.ftick = Minus(now, SCHED_TICK_TARG)]

(* Mutant of ScaleBack: the average is rounded up. *)
ScaleBackUp(s) ==
    LET old == Diff(s.ltick, s.ftick)
    IN  [s EXCEPT !.ticks = ((@ + old - 1) \div old)
                            * Diff(s.ltick, Minus(now, SCHED_TICK_TARG)),
                  !.ftick = Minus(now, SCHED_TICK_TARG)]

(* The history starts SCHED_TICK_TARG ago; the average of it stays. *)
ScaleBack(s) ==
    [ltick |-> s.ltick,
     ftick |-> Minus(now, SCHED_TICK_TARG),
     ticks |-> (s.ticks \div Diff(s.ltick, s.ftick))
               * Diff(s.ltick, Minus(now, SCHED_TICK_TARG))]

Forget(s) ==
    [ltick |-> s.ltick, ftick |-> Minus(now, SCHED_TICK_TARG), ticks |-> 0]

sched_pctcpu_update(s, run) ==
    LET s1 == IF Diff(now, s.ltick) >= SCHED_TICK_TARG THEN Forget(s)
              ELSE IF Diff(now, s.ftick) >= SCHED_TICK_MAX THEN ScaleBack(s)
              ELSE s
    IN  [ltick |-> now, ftick |-> s1.ftick,
         ticks |-> IF run
                   THEN s1.ticks + Diff(now, s.ltick) * 2 ^ SCHED_TICK_SHIFT
                   ELSE s1.ticks]

(* What sched_pctcpu makes of the count it has brought up to date *)
Rtick == (ts.ticks \div 2 ^ SCHED_TICK_SHIFT) \div SCHED_TICK_SECS
Usage == (FSCALE * IF Rtick < hz THEN Rtick ELSE hz) \div hz

-----------------------------------------------------------------------------
(* sched_fork_thread of the thread, which is then switched to *)
Init ==
    /\ now \in 0 .. TickRange - 1
    /\ ts = [ltick |-> now, ftick |-> now, ticks |-> 0]
    /\ running = TRUE /\ always = TRUE
    /\ slept = 0 /\ overcounted = FALSE

(* Age of the last update; not a difference of ints *)
Age == (now - ts.ltick) % TickRange

Tick ==
    /\ Age < IF running THEN slept + StatGap ELSE MaxSleep
    /\ now' = (now + 1) % TickRange
    /\ UNCHANGED <<ts, running, always, slept, overcounted>>

(* A call of sched_pctcpu_update *)
Update(run) ==
    /\ ts' = sched_pctcpu_update(ts, run)
    /\ slept' = 0
    /\ overcounted' = IF Diff(now, ts.ltick) >= SCHED_TICK_TARG
                      THEN run /\ slept > 0 ELSE overcounted
    /\ UNCHANGED now

(* sched_clock *)
SchedClock ==
    /\ running
    /\ Update(TRUE)
    /\ UNCHANGED <<running, always>>

(* sched_switch, away from the thread and to it; a fork by the thread *)
(* updates it as SchedClock does.                                     *)
SwitchAway ==
    /\ running
    /\ Update(TRUE)
    /\ running' = FALSE /\ always' = FALSE

SwitchTo ==
    /\ ~running
    /\ Update(FALSE)
    /\ running' = TRUE
    /\ UNCHANGED always

(* sched_throw switches from an exiting thread without an update: what the *)
(* thread has slept looks like run time later.                             *)
ThrowTo ==
    /\ ~running
    /\ running' = TRUE /\ slept' = Age
    /\ UNCHANGED <<now, ts, always, overcounted>>

(* sched_pctcpu *)
SchedPctcpu ==
    /\ Update(running)
    /\ UNCHANGED <<running, always>>

Next ==
    Tick \/ SchedClock \/ SwitchAway \/ SwitchTo \/ ThrowTo \/ SchedPctcpu

Spec == Init /\ [][Next]_vars

(* Time passes, and somebody looks at the usage now and then. *)
Fairness == WF_vars(Tick) /\ WF_vars(SchedPctcpu)

-----------------------------------------------------------------------------
(* Properties *)

(* Every variable has its type, and the count is no more than a history of *)
(* the greatest length can hold, so that it does not overflow, unless the  *)
(* last history began with a sleep counted as run time (sched_throw).      *)
TypeOK ==
    /\ now \in 0 .. TickRange - 1 /\ running \in BOOLEAN
    /\ ts.ltick \in 0 .. TickRange - 1 /\ ts.ftick \in 0 .. TickRange - 1
    /\ ts.ticks \in Nat
    /\ ~overcounted => ts.ticks <= (SCHED_TICK_MAX + hz) * 2 ^ SCHED_TICK_SHIFT
    /\ always => running

(* A thread has not run for longer than its history is long, unless that   *)
(* began with a sleep counted as run time; and a history that is scaled    *)
(* back is not empty, or the update would divide by zero.  A thread that   *)
(* has always run has all of its history, through any number of roundings, *)
(* and is reported to use the whole CPU once the history is long enough    *)
(* (sched_pctcpu_update, sched_pctcpu, sched_throw).                       *)
HistoryHolds ==
    LET history == Diff(ts.ltick, ts.ftick)
    IN  /\ TypeOK
        /\ ~overcounted => ts.ticks <= history * 2 ^ SCHED_TICK_SHIFT
        /\ Diff(now, ts.ltick) < SCHED_TICK_TARG
            /\ Diff(now, ts.ftick) >= SCHED_TICK_MAX => history > 0
        /\ always =>
            /\ ts.ticks = history * 2 ^ SCHED_TICK_SHIFT
            /\ history >= SCHED_TICK_TARG => Usage = FSCALE

(* "We keep a sliding history of tick counts that slowly decays": a thread *)
(* that does not run again comes to a count of zero, though every look at  *)
(* its usage postpones the end of its history (sched_pctcpu).              *)
Decays == <>[](~running) => <>[](ts.ticks = 0)
=============================================================================
