----------------------------- MODULE TicksProofs ----------------------------
(***************************************************************************)
(* What runs by the clock, for every period, every number of callers and   *)
(* every length of the history: the period timer of hrtimer.c is not lost, *)
(* and the CPU usage of sched.c fits its history.                          *)
(***************************************************************************)
EXTENDS Ticks, TLAPS

(* A cancel has taken the callout away.  As long as it waits for the       *)
(* handler nobody arms it, and a start that returns does not count.        *)
DrainInv == Draining => ~started /\ (handler # "none" => due = NULL)

TimerInv == NeverLost /\ DrainInv

USE TimerAssumption

(* hrtimer_forward never moves an expiry back. *)
LEMMA ForwardLater ==
    ASSUME NEW e \in Int, e >= -Late
    PROVE  /\ Forward(e).expiry \in Int /\ Forward(e).expiry >= -Late
           /\ e > 0 => Forward(e).expiry = e
<1> DEFINE overrun == 1 + (-e) \div Period
<1>1. (-e) \div Period \in Int /\ (-e >= 0 => (-e) \div Period >= 0)
    OBVIOUS
<1>2. CASE -e < 0
    BY <1>2 DEF Forward
<1>3. CASE -e >= Period
    <2>1. overrun \in Nat
        BY <1>1, <1>3
    <2>2. overrun * Period \in Nat
        BY <2>1
    <2>3. Forward(e).expiry = e + overrun * Period + Period
        BY <1>3 DEF Forward
    <2> HIDE DEF overrun
    <2> QED
        BY <1>3, <2>2, <2>3
<1>4. CASE -e >= 0 /\ -e < Period
    BY <1>4 DEF Forward
<1> QED
    BY <1>2, <1>3, <1>4

LEMMA TimerInit == Init => TimerInv
<1> SUFFICES ASSUME Init
             PROVE  TimerInv
    OBVIOUS
<1>1. TypeOK
    <2>1. expiry \in Int /\ expiry >= -Late
        BY DEF Init
    <2>2. active \in BOOLEAN /\ started \in BOOLEAN
        BY Zenon DEF Init
    <2>3. /\ due = NULL
          /\ handler \in {"none", "fired", "function", "restart"}
          /\ caller \in [Caller -> {"idle", "start", "drain"}]
        BY DEF Init
    <2> QED
        BY <2>1, <2>2, <2>3 DEF TypeOK
<1>2. ~Draining
    BY DEF Init, Draining
<1> QED
    BY <1>1, <1>2 DEF Init, TimerInv, NeverLost, DrainInv

LEMMA TimerStep ==
    ASSUME TimerInv, [Next]_vars
    PROVE  TimerInv'
<1> USE DEF TimerInv, NeverLost, TypeOK, DrainInv, Draining
<1>1. ASSUME NEW c \in Caller, StartCheck(c)
      PROVE  TimerInv'
    BY <1>1 DEF StartCheck, Started
<1>2. ASSUME NEW c \in Caller, StartLocked(c)
      PROVE  TimerInv'
    BY <1>2 DEF StartLocked, Started, Arm
<1>3. ASSUME NEW c \in Caller, Cancel(c)
      PROVE  TimerInv'
    <2>1. caller' \in [Caller -> {"idle", "start", "drain"}]
        BY <1>3 DEF Cancel
    <2> QED
        BY <1>3, <2>1 DEF Cancel
<1>4. ASSUME NEW c \in Caller, Drained(c)
      PROVE  TimerInv'
    <2>1. /\ caller' \in [Caller -> {"idle", "start", "drain"}]
          /\ Draining /\ handler = "none" /\ handler' = "none"
        BY <1>4 DEF Drained
    <2>2. started' = FALSE /\ expiry' = expiry
        BY <1>4, <2>1, Zenon DEF Drained
    <2>3. CASE due' = NULL /\ active' = FALSE
        BY <2>1, <2>2, <2>3
    <2>4. CASE due' = due /\ active' = active
        BY <2>1, <2>2, <2>4
    <2> QED
        BY <1>4, <2>3, <2>4 DEF Drained
<1>5. CASE Fire
    BY <1>5 DEF Fire
<1>6. CASE Deactivate
    BY <1>6 DEF Deactivate
<1>7. CASE PeriodTimer
    BY <1>7, ForwardLater DEF PeriodTimer
<1>8. CASE Restart
    BY <1>8 DEF Restart, Arm
<1>9. CASE Tick
    BY <1>9 DEF Tick
<1>10. CASE UNCHANGED vars
    BY <1>10 DEF vars
<1> QED
    BY <1>1, <1>2, <1>3, <1>4, <1>5, <1>6, <1>7, <1>8, <1>9, <1>10 DEF Next

(* The period timer is never lost, but by a start that is made while a     *)
(* cancel is going on: TimerInv is inductive, and every other part of      *)
(* Ticks leaves the timer alone (hrtimer_start, hrtimer_cancel,            *)
(* timeout_handler, start_rt_bandwidth).                                   *)
THEOREM TimerNeverLost == TicksSpec => []NeverLost
<1>1. TicksInit => TimerInv
    BY TimerInit DEF TicksInit
<1>2. TimerInv /\ [TicksNext]_ticks_vars => TimerInv'
    BY TimerStep DEF TicksNext, ticks_vars
<1>3. TimerInv => NeverLost
    BY DEF TimerInv
<1> QED
    BY <1>1, <1>2, <1>3, PTL DEF TicksSpec

-----------------------------------------------------------------------------
(* Differences of tick counts *)

Scale == 2 ^ SCHED_TICK_SHIFT
Targ == U!SCHED_TICK_TARG
Span == U!SCHED_TICK_MAX
Counter == 0 .. TickRange - 1

(* The ticks from b on to a, modulo the range of the counter *)
Since(a, b) == (a - b) % TickRange

LEMMA Lengths ==
    /\ TickRange \in Nat /\ TickRange \div 2 \in Nat
    /\ 2 * (TickRange \div 2) = TickRange
    /\ Scale \in Nat \ {0} /\ Targ \in Nat \ {0} /\ Span \in Nat
    /\ hz \in Nat \ {0} /\ SCHED_TICK_SECS \in Nat \ {0}
    /\ StatGap \in Nat /\ MaxSleep \in Nat /\ Targ < Span
    /\ StatGap <= hz /\ hz <= Targ
    /\ Span + MaxSleep + StatGap <= TickRange \div 2
<1>1. hz * SCHED_TICK_SECS \in Nat /\ hz * SCHED_TICK_SECS >= hz
    BY TicksAssumption DEF U!TickConstants
<1> QED
    BY <1>1, TicksAssumption DEF U!TickConstants, Scale, Targ, Span,
                                 U!SCHED_TICK_TARG, U!SCHED_TICK_MAX

LEMMA SinceIs ==
    ASSUME NEW a \in Counter, NEW b \in Counter
    PROVE  /\ Since(a, b) = IF a >= b THEN a - b ELSE a - b + TickRange
           /\ Since(a, b) \in Counter
BY Lengths DEF Since, Counter

(* Below half of the range the signed difference is the number of ticks. *)
LEMMA DiffIsSince ==
    ASSUME NEW a, NEW b, Since(a, b) < TickRange \div 2
    PROVE  U!Diff(a, b) = Since(a, b)
BY DEF U!Diff, Since

LEMMA SinceAdds ==
    ASSUME NEW a \in Counter, NEW b \in Counter, NEW c \in Counter,
           Since(a, b) + Since(b, c) < TickRange
    PROVE  Since(a, c) = Since(a, b) + Since(b, c)
<1>1. Since(a, b) = IF a >= b THEN a - b ELSE a - b + TickRange
    BY SinceIs
<1>2. Since(b, c) = IF b >= c THEN b - c ELSE b - c + TickRange
    BY SinceIs
<1>3. Since(a, c) = IF a >= c THEN a - c ELSE a - c + TickRange
    BY SinceIs
<1> QED
    BY <1>1, <1>2, <1>3, Lengths DEF Counter

LEMMA SinceAgo ==
    ASSUME NEW a \in Counter, NEW b \in Counter, NEW n \in Nat,
           n < TickRange, Since(a, b) <= n
    PROVE  /\ U!Minus(a, n) \in Counter
           /\ Since(b, U!Minus(a, n)) = n - Since(a, b)
           /\ Since(a, U!Minus(a, n)) = n
<1> DEFINE m == U!Minus(a, n)
<1>1. m = IF a >= n THEN a - n ELSE a - n + TickRange
    BY Lengths DEF Counter, U!Minus
<1>2. m \in Counter
    BY <1>1, Lengths DEF Counter
<1> HIDE DEF m
<1>3. Since(a, b) = IF a >= b THEN a - b ELSE a - b + TickRange
    BY SinceIs
<1>4. Since(b, m) = IF b >= m THEN b - m ELSE b - m + TickRange
    BY <1>2, SinceIs
<1>5. Since(a, m) = IF a >= m THEN a - m ELSE a - m + TickRange
    BY <1>2, SinceIs
<1>6. Since(b, m) = n - Since(a, b) /\ Since(a, m) = n
    BY <1>1, <1>2, <1>3, <1>4, <1>5, Lengths DEF Counter
<1> QED
    BY <1>2, <1>6 DEF m

-----------------------------------------------------------------------------
(* The history of a thread *)

History(s) == Since(s.ltick, s.ftick)

(* The history is shorter than SCHED_TICK_MAX. *)
HistoryOK(s) ==
    /\ s \in [ltick : Counter, ftick : Counter, ticks : Nat]
    /\ History(s) < Span

(* It has no more ticks than it is long; and all of them. *)
Held(s) == s.ticks <= History(s) * Scale
Full(s) == s.ticks = History(s) * Scale

(* A thread that runs was updated when it was switched to, or had slept    *)
(* since the last update.                                                  *)
UsageInv ==
    /\ now \in Counter /\ running \in BOOLEAN /\ always \in BOOLEAN
    /\ slept \in Nat /\ slept <= MaxSleep /\ overcounted \in BOOLEAN
    /\ HistoryOK(ts)
    /\ ~overcounted => Held(ts)
    /\ Since(now, ts.ltick) <= IF running THEN slept + StatGap ELSE MaxSleep
    /\ always => running /\ Full(ts) /\ slept = 0 /\ ~overcounted

(* ScaleBack divides by the length of a history that is not empty, and a   *)
(* full history stays full: the average of the ticks is then the scale.    *)
LEMMA AverageTicks ==
    ASSUME NEW h \in Nat \ {0}, NEW n \in Nat
    PROVE  /\ n \div h \in Nat
           /\ n <= h * Scale => n \div h <= Scale
           /\ n = h * Scale => n \div h = Scale
<1>1. Scale \in Nat
    BY Lengths
<1> QED
    BY <1>1

Usages == [ltick : Counter, ftick : Counter, ticks : Nat]

(* What the update makes of the history, before it counts the ticks that   *)
(* have passed since                                                       *)
Slid(s) ==
    IF U!Diff(now, s.ltick) >= Targ THEN U!Forget(s)
    ELSE IF U!Diff(now, s.ftick) >= Span THEN U!ScaleBack(s) ELSE s

LEMMA UpdateCounts ==
    ASSUME NEW s, NEW run \in BOOLEAN, Slid(s) \in Usages, now \in Counter,
           U!Diff(now, s.ltick) \in Nat
    PROVE  LET u == U!sched_pctcpu_update(s, run)
           IN  /\ u \in Usages
               /\ u.ltick = now /\ u.ftick = Slid(s).ftick
               /\ run => u.ticks = Slid(s).ticks
                                   + U!Diff(now, s.ltick) * Scale
               /\ ~run => u.ticks = Slid(s).ticks
<1> DEFINE d == U!Diff(now, s.ltick)
           r == Slid(s)
           u == U!sched_pctcpu_update(s, run)
<1>1. u = [ltick |-> now, ftick |-> r.ftick,
           ticks |-> IF run THEN r.ticks + d * Scale ELSE r.ticks]
    BY DEF U!sched_pctcpu_update, Slid, Scale, Targ, Span
<1> HIDE DEF d, r, u
<1>2. r \in Usages /\ d \in Nat /\ Scale \in Nat
    BY Lengths DEF d, r
<1>3. d * Scale \in Nat
    BY <1>2
<1> HIDE DEF Scale
<1>4. CASE run
    <2>1. u = [ltick |-> now, ftick |-> r.ftick,
               ticks |-> r.ticks + d * Scale]
        BY <1>1, <1>4
    <2>2. r.ticks + d * Scale \in Nat /\ r.ftick \in Counter
        BY <1>2, <1>3 DEF Usages
    <2>3. u \in Usages /\ u.ltick = now /\ u.ftick = r.ftick
          /\ u.ticks = r.ticks + d * Scale
        BY <2>1, <2>2 DEF Usages
    <2> QED
        BY <1>4, <2>3 DEF d, r, u
<1>5. CASE ~run
    <2>1. u = [ltick |-> now, ftick |-> r.ftick, ticks |-> r.ticks]
        BY <1>1, <1>5
    <2> QED
        BY <1>2, <1>3, <1>5, <2>1 DEF Usages, d, r, u
<1> QED
    BY <1>4, <1>5

(* What the history is before the ticks are counted: it holds them all. *)
LEMMA SlidHistory ==
    ASSUME NEW s, HistoryOK(s), now \in Counter,
           Since(now, s.ltick) + Span <= TickRange \div 2
    PROVE  LET a == Since(now, s.ltick)
               h == Since(now, Slid(s).ftick)
           IN  /\ a \in Nat /\ U!Diff(now, s.ltick) = a
               /\ Slid(s) \in Usages /\ h \in Nat /\ h < Span
               /\ a <= Targ => /\ a <= h
                               /\ Held(s) => Slid(s).ticks <= (h - a) * Scale
                               /\ Full(s) => Slid(s).ticks = (h - a) * Scale
               /\ a >= Targ => Slid(s).ticks = 0
<1> DEFINE a == Since(now, s.ltick)
           h == History(s)
           start == U!Minus(now, Targ)
<1>1. s \in Usages /\ s.ltick \in Counter /\ s.ftick \in Counter
      /\ s.ticks \in Nat
    BY DEF HistoryOK, Usages
<1>2. a \in Counter /\ h \in Counter
    BY <1>1, SinceIs DEF History
<1>3. a \in Nat /\ h \in Nat
    BY <1>2, Lengths DEF Counter
<1>4. h < Span /\ a + Span <= TickRange \div 2
    BY DEF HistoryOK
<1>5. Since(now, s.ftick) = a + h
    <2>1. Since(now, s.ltick) + Since(s.ltick, s.ftick) < TickRange
        BY <1>3, <1>4, Lengths DEF History
    <2> QED
        BY <1>1, <2>1, SinceAdds DEF History
<1>6. U!Diff(now, s.ltick) = a
    BY <1>3, <1>4, DiffIsSince, Lengths
<1>7. U!Diff(now, s.ftick) = a + h
    BY <1>3, <1>4, <1>5, DiffIsSince, Lengths
<1>8. U!Diff(s.ltick, s.ftick) = h
    BY <1>3, <1>4, DiffIsSince, Lengths DEF History
<1>9. start \in Counter /\ Since(now, start) = Targ
    <2>1. Since(now, now) = 0
        BY SinceIs, Lengths DEF Counter
    <2>2. Targ \in Nat /\ Targ < TickRange /\ Since(now, now) <= Targ
        BY <2>1, Lengths
    <2> QED
        BY <2>2, SinceAgo
<1> HIDE DEF a, h, start
<1>10. CASE a >= Targ
    <2>1. Slid(s) = [ltick |-> s.ltick, ftick |-> start, ticks |-> 0]
        BY <1>6, <1>10 DEF Slid, U!Forget, start, Targ
    <2>2. /\ Slid(s) \in Usages /\ Slid(s).ticks = 0
          /\ Slid(s).ftick = start
        BY <1>1, <1>9, <2>1 DEF Usages
    <2>3. a <= Targ => (Targ - a) * Scale = 0
        BY <1>3, <1>10, Lengths
    <2> QED
        BY <1>3, <1>6, <1>9, <1>10, <2>2, <2>3, Lengths DEF a
<1>11. CASE a < Targ /\ a + h >= Span
    <2> DEFINE d == s.ticks \div h
    <2>1. h \in Nat \ {0}
        BY <1>3, <1>11, Lengths
    <2>2. d \in Nat /\ (Held(s) => d <= Scale) /\ (Full(s) => d = Scale)
        BY <1>1, <2>1, AverageTicks DEF Held, Full, h
    <2>3. Targ \in Nat /\ Targ < TickRange /\ a <= Targ
        BY <1>3, <1>11, Lengths
    <2>4. Since(s.ltick, start) = Targ - a
        BY <1>1, <2>3, SinceAgo DEF a, start
    <2>5. U!Diff(s.ltick, start) = Targ - a
        BY <1>3, <2>3, <2>4, DiffIsSince, Lengths
    <2>6. Slid(s) = U!ScaleBack(s)
        BY <1>3, <1>6, <1>7, <1>11, Lengths DEF Slid
    <2>7. Slid(s) = [ltick |-> s.ltick, ftick |-> start,
                     ticks |-> (s.ticks \div h) * (Targ - a)]
        BY <1>8, <2>5, <2>6 DEF U!ScaleBack, start, Targ
    <2>8. Slid(s).ticks = d * (Targ - a) /\ Slid(s).ftick = start
        BY <1>1, <2>7 DEF Usages
    <2> HIDE DEF d
    <2>9. /\ d * (Targ - a) \in Nat
          /\ Held(s) => d * (Targ - a) <= (Targ - a) * Scale
          /\ Full(s) => d * (Targ - a) = (Targ - a) * Scale
        BY <1>3, <1>11, <2>2, Lengths
    <2>10. Slid(s) \in Usages
        BY <1>1, <1>9, <2>7, <2>9 DEF Usages, d
    <2>11. /\ Since(now, Slid(s).ftick) = Targ /\ Targ \in Nat /\ Targ < Span
           /\ ~(a >= Targ) /\ ~(a > Targ)
        BY <1>3, <1>9, <1>11, <2>8, Lengths
    <2>12. /\ Held(s) => Slid(s).ticks <= (Targ - a) * Scale
           /\ Full(s) => Slid(s).ticks = (Targ - a) * Scale
        BY <2>8, <2>9
    <2> QED
        BY <1>3, <1>6, <2>3, <2>10, <2>11, <2>12 DEF a
<1>12. CASE a < Targ /\ a + h < Span
    <2>1. Slid(s) = s
        BY <1>3, <1>6, <1>7, <1>12, Lengths DEF Slid
    <2>2. a + h - a = h
        BY <1>3
    <2>3. /\ Full(s) => s.ticks = h * Scale
          /\ Held(s) => s.ticks <= h * Scale
        BY DEF Held, Full, h
    <2> QED
        BY <1>1, <1>3, <1>4, <1>5, <1>6, <1>12, <2>1, <2>2, <2>3, Lengths
           DEF a
<1> QED
    BY <1>3, <1>10, <1>11, <1>12, Lengths

(* An update loses sight of nothing, and counts no more than there is, if  *)
(* what it counts as run time is not longer than the history.              *)
LEMMA UpdateKeeps ==
    ASSUME NEW s, HistoryOK(s), now \in Counter, NEW run \in BOOLEAN,
           Since(now, s.ltick) + Span <= TickRange \div 2
    PROVE  LET u == U!sched_pctcpu_update(s, run)
               a == Since(now, s.ltick)
           IN  /\ HistoryOK(u) /\ u.ltick = now
               /\ (run => a <= Targ) /\ (Held(s) \/ a >= Targ) => Held(u)
               /\ run /\ Full(s) /\ a <= Targ => Full(u)
<1> DEFINE a == Since(now, s.ltick)
           r == Slid(s)
           h == Since(now, r.ftick)
           u == U!sched_pctcpu_update(s, run)
<1>1. /\ a \in Nat /\ U!Diff(now, s.ltick) = a
      /\ r \in Usages /\ h \in Nat /\ h < Span
      /\ a <= Targ => /\ a <= h
                      /\ Held(s) => r.ticks <= (h - a) * Scale
                      /\ Full(s) => r.ticks = (h - a) * Scale
      /\ a >= Targ => r.ticks = 0
    BY SlidHistory
<1>2. /\ u \in Usages /\ u.ltick = now /\ u.ftick = r.ftick
      /\ run => u.ticks = r.ticks + a * Scale
      /\ ~run => u.ticks = r.ticks
    BY <1>1, UpdateCounts
<1>3. r.ticks \in Nat /\ History(u) = h
    BY <1>1, <1>2 DEF Usages, History
<1> HIDE DEF a, r, h, u
<1>4. HistoryOK(u) /\ u.ltick = now
    BY <1>1, <1>2, <1>3 DEF HistoryOK, Usages
<1>5. a <= h => /\ (h - a) * Scale + a * Scale = h * Scale
                /\ (h - a) * Scale <= h * Scale
                /\ 0 <= (h - a) * Scale
    <2>1. a <= h => (h - a) * Scale + a * Scale = h * Scale
        BY <1>1, Lengths
    <2>2. a * Scale \in Nat /\ (a <= h => (h - a) * Scale \in Nat)
        BY <1>1, Lengths
    <2>3. (h - a) * Scale \in Int /\ h * Scale \in Int
        BY <1>1, Lengths
    <2> QED
        BY <2>1, <2>2, <2>3
<1>6. a * Scale \in Nat /\ h * Scale \in Nat /\ (h - a) * Scale \in Int
      /\ Targ \in Nat
    BY <1>1, Lengths
<1>7. ASSUME run => a <= Targ, Held(s) \/ a >= Targ
      PROVE  Held(u)
    <2>1. CASE a >= Targ /\ ~run
        <3>1. u.ticks = 0
            BY <1>1, <1>2, <2>1
        <3> QED
            BY <1>3, <1>6, <3>1 DEF Held
    <2>2. CASE a <= Targ
        <3>1. r.ticks <= (h - a) * Scale
            BY <1>1, <1>5, <1>6, <1>7, <2>2
        <3>2. u.ticks = r.ticks + a * Scale \/ u.ticks = r.ticks
            BY <1>2
        <3>3. u.ticks <= h * Scale
            BY <1>1, <1>3, <1>5, <1>6, <2>2, <3>1, <3>2
        <3> QED
            BY <1>3, <3>3 DEF Held
    <2> QED
        BY <1>1, <1>6, <1>7, <2>1, <2>2
<1>8. ASSUME run, Full(s), a <= Targ
      PROVE  Full(u)
    <2>1. u.ticks = (h - a) * Scale + a * Scale
        BY <1>1, <1>2, <1>8
    <2> QED
        BY <1>1, <1>3, <1>5, <1>8, <2>1 DEF Full
<1> QED
    BY <1>4, <1>7, <1>8 DEF a, u

-----------------------------------------------------------------------------
(* The steps of PctCpu *)

LEMMA UsageInit == U!Init => UsageInv
<1> SUFFICES ASSUME U!Init
             PROVE  UsageInv
    OBVIOUS
<1>1. now \in Counter
    BY DEF U!Init, Counter
<1>2. running \in BOOLEAN /\ always \in BOOLEAN
    BY Zenon DEF U!Init
<1>3. ts = [ltick |-> now, ftick |-> now, ticks |-> 0] /\ running = TRUE
    BY DEF U!Init
<1>4. Since(now, now) = 0
    BY <1>1, SinceIs, Lengths DEF Counter
<1>5. History(ts) = 0 /\ Since(now, ts.ltick) = 0
    BY <1>3, <1>4 DEF History
<1>6. ts \in [ltick : Counter, ftick : Counter, ticks : Nat] /\ ts.ticks = 0
    BY <1>1, <1>3
<1>7. 0 * Scale = 0 /\ 0 < Span
    BY Lengths
<1>8. HistoryOK(ts) /\ Full(ts) /\ Held(ts)
    BY <1>5, <1>6, <1>7 DEF HistoryOK, Full, Held
<1>9. slept = 0 /\ overcounted = FALSE
    BY Zenon DEF U!Init
<1>10. slept \in Nat /\ slept <= MaxSleep /\ 0 <= slept + StatGap
    BY <1>9, Lengths
<1>11. overcounted \in BOOLEAN
    BY <1>9
<1>12. Since(now, ts.ltick) <= IF running THEN slept + StatGap ELSE MaxSleep
    BY <1>3, <1>5, <1>10
<1> QED
    BY <1>1, <1>2, <1>3, <1>8, <1>9, <1>10, <1>11, <1>12, Zenon DEF UsageInv

(* A thread is brought up to date before its history gets out of sight. *)
LEMMA InSight ==
    ASSUME UsageInv
    PROVE  /\ Since(now, ts.ltick) \in Nat
           /\ Since(now, ts.ltick) + Span <= TickRange \div 2
           /\ running /\ slept = 0 => Since(now, ts.ltick) <= Targ
<1> DEFINE a == Since(now, ts.ltick)
<1>1. ts.ltick \in Counter /\ now \in Counter
    BY DEF UsageInv, HistoryOK
<1>2. a \in Nat
    <2>1. a \in Counter
        BY <1>1, SinceIs
    <2> QED
        BY <2>1, Lengths DEF Counter
<1>3. /\ a <= IF running THEN slept + StatGap ELSE MaxSleep
      /\ slept \in Nat /\ slept <= MaxSleep
    BY DEF UsageInv
<1> HIDE DEF a
<1>4. a <= MaxSleep + StatGap
    BY <1>2, <1>3, Lengths
<1>5. running /\ slept = 0 => a <= StatGap
    BY <1>2, <1>3, Lengths
<1> QED
    BY <1>2, <1>4, <1>5, Lengths DEF a

(* Every operation on the history is an update, as one who runs or as one  *)
(* who does not.                                                           *)
LEMMA UsageUpdate ==
    ASSUME UsageInv, NEW run \in BOOLEAN, run => running,
           U!Update(run), running' \in BOOLEAN, always' \in BOOLEAN,
           always' => always /\ running' /\ run
    PROVE  UsageInv'
<1> DEFINE a == Since(now, ts.ltick)
<1>1. /\ ts' = U!sched_pctcpu_update(ts, run) /\ now' = now /\ slept' = 0
      /\ overcounted' = IF U!Diff(now, ts.ltick) >= Targ
                        THEN run /\ slept > 0 ELSE overcounted
    BY DEF U!Update, Targ
<1>2. /\ now \in Counter /\ HistoryOK(ts)
      /\ ~overcounted => Held(ts)
      /\ always => Full(ts) /\ slept = 0 /\ ~overcounted
      /\ slept \in Nat /\ overcounted \in BOOLEAN
    BY DEF UsageInv
<1>3. a \in Nat /\ a + Span <= TickRange \div 2
      /\ (running /\ slept = 0 => a <= Targ)
    BY InSight
<1>4. U!Diff(now, ts.ltick) = a
    BY <1>3, DiffIsSince, Lengths
<1>5. /\ HistoryOK(ts') /\ ts'.ltick = now
      /\ (run => a <= Targ) /\ (Held(ts) \/ a >= Targ) => Held(ts')
      /\ run /\ Full(ts) /\ a <= Targ => Full(ts')
    BY <1>1, <1>2, <1>3, UpdateKeeps
<1> HIDE DEF a
<1>6. Targ \in Nat /\ Targ <= Span
    BY Lengths
<1>7. ~overcounted' => Held(ts')
    <2> SUFFICES ASSUME ~overcounted'
                 PROVE  Held(ts')
        OBVIOUS
    <2>1. CASE a >= Targ
        <3>1. overcounted' = (run /\ slept > 0)
            BY <1>1, <1>4, <2>1
        <3>2. run => ~(slept > 0)
            BY <3>1
        <3>3. run => slept = 0
            BY <1>2, <3>2
        <3>4. run => a <= Targ
            BY <1>3, <3>3
        <3> QED
            BY <1>5, <2>1, <3>4
    <2>2. CASE a < Targ
        <3>1. overcounted' = overcounted
            BY <1>1, <1>3, <1>4, <1>6, <2>2
        <3>2. Held(ts)
            BY <1>2, <3>1
        <3> QED
            BY <1>3, <1>5, <1>6, <2>2, <3>2
    <2> QED
        BY <1>3, <1>6, <2>1, <2>2
<1>8. always' => running' /\ Full(ts') /\ slept' = 0 /\ ~overcounted'
    <2> SUFFICES ASSUME always'
                 PROVE  running' /\ Full(ts') /\ slept' = 0 /\ ~overcounted'
        OBVIOUS
    <2>1. always /\ running /\ run /\ running' /\ slept = 0 /\ ~overcounted
        BY <1>2
    <2>2. a <= Targ /\ ~(slept > 0)
        BY <1>3, <2>1
    <2> QED
        BY <1>1, <1>2, <1>5, <2>1, <2>2
<1>9. Since(now, ts'.ltick) = 0
    BY <1>2, <1>5, SinceIs, Lengths DEF Counter
<1>10. overcounted' \in BOOLEAN
    BY <1>1, <1>2
<1>11. /\ (HistoryOK(ts))' /\ (~overcounted => Held(ts))'
       /\ (always => running /\ Full(ts) /\ slept = 0 /\ ~overcounted)'
    BY <1>5, <1>7, <1>8 DEF HistoryOK, Held, Full, History, Since, Counter
<1>12. (Since(now, ts.ltick) <= IF running THEN slept + StatGap ELSE MaxSleep)'
    BY <1>1, <1>9, Lengths DEF Since
<1>13. now' \in Counter /\ slept' \in Nat /\ slept' <= MaxSleep
    BY <1>1, <1>2, Lengths
<1> QED
    BY <1>10, <1>11, <1>12, <1>13 DEF UsageInv, Counter

LEMMA UsageTick ==
    ASSUME UsageInv, U!Tick
    PROVE  UsageInv'
<1> DEFINE gap == IF running THEN slept + StatGap ELSE MaxSleep
<1>1. ts.ltick \in Counter /\ now \in Counter
    BY DEF UsageInv, HistoryOK
<1>2. Since(now, ts.ltick) < gap /\ now' = (now + 1) % TickRange
      /\ ts' = ts /\ running' = running /\ always' = always
      /\ slept' = slept /\ overcounted' = overcounted
    BY DEF U!Tick, U!Age, Since
<1>3. now' \in Counter
    BY <1>1, <1>2, Lengths DEF Counter
<1>4. gap \in Nat /\ gap < TickRange
    <2>1. slept \in Nat /\ slept <= MaxSleep
        BY DEF UsageInv
    <2> QED
        BY <2>1, Lengths
<1>5. now' = IF now + 1 < TickRange THEN now + 1 ELSE 0
    BY <1>1, <1>2, Lengths DEF Counter
<1>6. Since(now, ts.ltick) = IF now >= ts.ltick THEN now - ts.ltick
                             ELSE now - ts.ltick + TickRange
    BY <1>1, SinceIs
<1>7. Since(now', ts.ltick) = IF now' >= ts.ltick THEN now' - ts.ltick
                              ELSE now' - ts.ltick + TickRange
    BY <1>1, <1>3, SinceIs
<1> HIDE DEF gap
<1>8. Since(now', ts.ltick) <= gap
    BY <1>1, <1>2, <1>4, <1>5, <1>6, <1>7, Lengths DEF Counter
<1>9. (Since(now, ts.ltick) <= IF running THEN slept + StatGap ELSE MaxSleep)'
    BY <1>2, <1>8 DEF gap, Since
<1>10. /\ (HistoryOK(ts))' /\ (~overcounted => Held(ts))'
       /\ (always => running /\ Full(ts) /\ slept = 0 /\ ~overcounted)'
    BY <1>2 DEF UsageInv, HistoryOK, Held, Full, History, Since, Counter
<1>11. /\ running' \in BOOLEAN /\ always' \in BOOLEAN
       /\ slept' \in Nat /\ slept' <= MaxSleep /\ overcounted' \in BOOLEAN
    BY <1>2 DEF UsageInv
<1> QED
    BY <1>3, <1>9, <1>10, <1>11 DEF UsageInv, Counter

(* After sched_throw the thread runs with the age it has. *)
LEMMA UsageThrow ==
    ASSUME UsageInv, U!ThrowTo
    PROVE  UsageInv'
<1>1. /\ ~running /\ running' = TRUE /\ slept' = Since(now, ts.ltick)
      /\ now' = now /\ ts' = ts /\ always' = always
      /\ overcounted' = overcounted
    BY DEF U!ThrowTo, U!Age, Since
<1>2. Since(now, ts.ltick) \in Nat /\ Since(now, ts.ltick) <= MaxSleep
    BY <1>1, InSight DEF UsageInv
<1>3. ~always
    BY <1>1 DEF UsageInv
<1>4. (Since(now, ts.ltick) <= IF running THEN slept + StatGap ELSE MaxSleep)'
    BY <1>1, <1>2, Lengths DEF Since
<1>5. (HistoryOK(ts))' /\ (~overcounted => Held(ts))'
    BY <1>1 DEF UsageInv, HistoryOK, Held, History, Since, Counter
<1>6. /\ now' \in Counter /\ running' \in BOOLEAN /\ always' \in BOOLEAN
      /\ slept' \in Nat /\ slept' <= MaxSleep /\ overcounted' \in BOOLEAN
    BY <1>1, <1>2 DEF UsageInv
<1> QED
    BY <1>1, <1>3, <1>4, <1>5, <1>6 DEF UsageInv, Counter

LEMMA UsageStep ==
    ASSUME UsageInv, [U!Next]_usage_vars
    PROVE  UsageInv'
<1>1. running \in BOOLEAN /\ always \in BOOLEAN /\ (always => running)
    BY DEF UsageInv
<1>2. CASE U!Tick
    BY <1>2, UsageTick
<1>3. CASE U!SchedClock
    BY <1>1, <1>3, UsageUpdate DEF U!SchedClock
<1>4. CASE U!SwitchAway
    <2>1. /\ running /\ U!Update(TRUE)
          /\ running' \in BOOLEAN /\ always' \in BOOLEAN /\ ~always'
        BY <1>4, Zenon DEF U!SwitchAway
    <2> QED
        BY <2>1, UsageUpdate
<1>5. CASE U!SwitchTo
    <2>1. /\ U!Update(FALSE)
          /\ running' \in BOOLEAN /\ always' = always /\ ~running
        BY <1>5, Zenon DEF U!SwitchTo
    <2> QED
        BY <1>1, <2>1, UsageUpdate
<1>6. CASE U!ThrowTo
    BY <1>6, UsageThrow
<1>7. CASE U!SchedPctcpu
    BY <1>1, <1>7, UsageUpdate DEF U!SchedPctcpu
<1>8. CASE UNCHANGED usage_vars
    BY <1>8 DEF usage_vars, UsageInv, HistoryOK, Held, Full, History, Since,
                Counter
<1> QED
    BY <1>2, <1>3, <1>4, <1>5, <1>6, <1>7, <1>8 DEF U!Next

(* A full history of the length SCHED_TICK_TARG is the whole CPU. *)
LEMMA WholeCpu ==
    ASSUME NEW h \in Nat, h >= Targ, ts.ticks = h * Scale
    PROVE  U!Usage = FSCALE
<1>1. /\ hz \in Nat \ {0} /\ SCHED_TICK_SECS \in Nat \ {0}
      /\ FSCALE \in Nat /\ Scale \in Nat \ {0}
      /\ h >= hz * SCHED_TICK_SECS
    BY Lengths, TicksAssumption DEF U!TickConstants, Targ, U!SCHED_TICK_TARG
<1>2. (h * Scale) \div Scale = h
    BY <1>1
<1>3. h \div SCHED_TICK_SECS >= hz
    BY <1>1
<1>4. U!Rtick = h \div SCHED_TICK_SECS
    BY <1>2 DEF U!Rtick, Scale
<1>5. h \div SCHED_TICK_SECS \in Nat
    BY <1>1
<1>6. (IF U!Rtick < hz THEN U!Rtick ELSE hz) = hz
    BY <1>1, <1>3, <1>4, <1>5
<1>7. (FSCALE * hz) \div hz = FSCALE
    BY <1>1
<1> QED
    BY <1>6, <1>7 DEF U!Usage

LEMMA UsageHolds == UsageInv => HistoryHolds
<1> SUFFICES ASSUME UsageInv
             PROVE  HistoryHolds
    OBVIOUS
<1> DEFINE h == History(ts)
<1>1. /\ now \in Counter /\ running \in BOOLEAN
      /\ ts.ltick \in Counter /\ ts.ftick \in Counter /\ ts.ticks \in Nat
      /\ h < Span /\ (~overcounted => ts.ticks <= h * Scale)
      /\ always => running /\ ts.ticks = h * Scale
    BY DEF UsageInv, HistoryOK, Held, Full
<1>2. h \in Nat
    BY SMTT(60), <1>1, SinceIs DEF History, Counter
<1>3. U!Diff(ts.ltick, ts.ftick) = h
    BY <1>1, <1>2, DiffIsSince, Lengths DEF History
<1> HIDE DEF h
<1>4. h * Scale <= (Span + hz) * Scale
    BY <1>1, <1>2, Lengths
<1>5. h * Scale \in Nat /\ (Span + hz) * Scale \in Nat
    BY <1>2, Lengths
<1>6. ~overcounted => ts.ticks <= (Span + hz) * Scale
    BY <1>1, <1>4, <1>5
<1>7. U!TypeOK
    BY <1>1, <1>6 DEF U!TypeOK, Counter, Span, Scale
<1>8. Since(now, ts.ltick) \in Nat
    BY InSight
<1>9. U!Diff(now, ts.ltick) = Since(now, ts.ltick)
    BY <1>8, InSight, DiffIsSince, Lengths
<1>10. ASSUME U!Diff(now, ts.ltick) < Targ, U!Diff(now, ts.ftick) >= Span
       PROVE  h > 0
    <2> SUFFICES ASSUME h = 0
                 PROVE  FALSE
        BY <1>2
    <2>1. Since(now, ts.ltick) + Since(ts.ltick, ts.ftick) < TickRange
        BY <1>8, InSight, Lengths DEF h, History
    <2>2. Since(now, ts.ftick) = Since(now, ts.ltick)
        BY <1>1, <1>8, <2>1, SinceAdds DEF h, History
    <2> QED
        BY <1>8, <1>9, <1>10, <2>2, Lengths DEF U!Diff, Since
<1>11. always => /\ ts.ticks = h * Scale
                 /\ h >= Targ => U!Usage = FSCALE
    BY <1>1, <1>2, WholeCpu
<1>12. ~overcounted => ts.ticks <= h * Scale
    BY <1>1
<1> QED
    BY <1>3, <1>7, <1>10, <1>11, <1>12
       DEF HistoryHolds, U!HistoryHolds, Targ, Span, Scale

(* For every length of the history, every range of the counter and every   *)
(* gap between updates that a difference of counts can show: a thread has  *)
(* not run for longer than its history is long, unless sched_throw made a  *)
(* sleep that is longer than it count as run time, no update divides by 0, *)
(* and who has always run is reported to use the whole CPU, through any    *)
(* number of roundings and wraps of the counter (sched_pctcpu_update,      *)
(* sched_pctcpu of sched.c).                                               *)
THEOREM UsageFitsHistory == TicksSpec => []HistoryHolds
<1>1. TicksInit => UsageInv
    BY UsageInit DEF TicksInit
<1>2. UsageInv /\ [TicksNext]_ticks_vars => UsageInv'
    BY UsageStep DEF TicksNext, ticks_vars
<1>3. UsageInv => HistoryHolds
    BY UsageHolds
<1> QED
    BY <1>1, <1>2, <1>3, PTL DEF TicksSpec
=============================================================================
