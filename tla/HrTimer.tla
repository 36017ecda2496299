------------------------------ MODULE HrTimer -------------------------------
(***************************************************************************)
(* The high-resolution timer, hrtimer.c, as the period timer of the        *)
(* real-time bandwidth uses it (rt.c, start_bandwidth_timer of sched.c):   *)
(* callers start and cancel the timer while its handler, which the callout *)
(* runs, moves the expiry on and arms the callout again.                   *)
(*                                                                         *)
(* Times are relative to the present: expiry and the time the callout is   *)
(* armed for count down as time passes.                                    *)
(***************************************************************************)
EXTENDS Integers

CONSTANTS
    Caller,
    Period,         \* rt_period
    Garbage,        \* what an uninitialised timespec can hold
    Late,           \* bound: a time further in the past is not told apart
    CanCancel,      \* some caller uses hrtimer_cancel
    NULL

ASSUME TimerAssumption ==
    /\ Period \in Nat \ {0} /\ Late \in Nat \ {0} /\ Late >= Period
    /\ Garbage \subseteq Int /\ \A x \in Garbage : x >= -Late
    /\ NULL \notin Int

VARIABLES
    expiry,         \* timer->expiry - now
    due,            \* the time the callout is armed for - now, or NULL
    active,         \* callout_active
    handler,        \* where timeout_handler is
    caller,         \* where start_rt_bandwidth or hrtimer_cancel is
    started         \* a start has returned that no cancel has undone

vars == <<expiry, due, active, handler, caller, started>>

(* Some hrtimer_cancel has not returned yet. *)
Draining == \E c \in Caller : caller[c] = "drain"

(* A start returns.  A cancel that is going on may undo it, or keep it     *)
(* from arming the callout: it counts as made before the cancel.           *)
Started == started' = (started \/ ~Draining)

-----------------------------------------------------------------------------
(* hrtimer_forward: the overruns it returns, and the expiry it sets *)
Forward(e) ==
    LET delta == -e
        overrun == 1 + delta \div Period
    IN  IF delta < 0 THEN [overrun |-> 0, expiry |-> e]
        ELSE IF delta >= Period
        THEN [overrun |-> overrun, expiry |-> e + overrun * Period + Period]
        ELSE [overrun |-> 1, expiry |-> e + Period]

(* callout_reset_sbt_on: nothing is armed while somebody in callout_drain  *)
(* waits for the handler to finish.                                        *)
Arm(at) ==
    IF Draining /\ handler # "none" THEN UNCHANGED <<due, active>>
    ELSE due' = at /\ active' = TRUE

-----------------------------------------------------------------------------
(* Callers *)

(* start_rt_bandwidth looks at the timer before it takes the lock. *)
StartCheck(c) ==
    /\ caller[c] = "idle"
    /\ IF active THEN Started /\ UNCHANGED caller
       ELSE caller' = [caller EXCEPT ![c] = "start"] /\ UNCHANGED started
    /\ UNCHANGED <<expiry, due, active, handler>>

(* Mutant of StartLocked: the timer is not armed. *)
StartLockedUnarmed(c) ==
    /\ caller[c] = "start"
    /\ expiry' = Forward(expiry).expiry
    /\ UNCHANGED <<due, active>>
    /\ caller' = [caller EXCEPT ![c] = "idle"]
    /\ Started
    /\ UNCHANGED handler

(* start_bandwidth_timer, hrtimer_get_expiry, hrtimer_start: the expiry is *)
(* forwarded, and then replaced by a variable nobody has set.              *)
StartLocked(c) ==
    /\ caller[c] = "start"
    /\ IF active THEN UNCHANGED <<expiry, due, active>>
       ELSE \E x \in Garbage : expiry' = x /\ Arm(x)
    /\ caller' = [caller EXCEPT ![c] = "idle"]
    /\ Started
    /\ UNCHANGED handler

(* hrtimer_cancel, without the timer's lock: callout_drain takes the       *)
(* callout off the queue and waits for the handler, if it is running.      *)
Cancel(c) ==
    /\ CanCancel /\ caller[c] = "idle"
    /\ due' = NULL /\ active' = FALSE /\ started' = FALSE
    /\ handler # "none" => caller' = [caller EXCEPT ![c] = "drain"]
    /\ handler = "none" => UNCHANGED caller
    /\ UNCHANGED <<expiry, handler>>

(* The handler has finished; kernels differ in whether a callout that was  *)
(* armed since then is stopped once more.                                  *)
Drained(c) ==
    /\ caller[c] = "drain" /\ handler = "none"
    /\ caller' = [caller EXCEPT ![c] = "idle"]
    /\ \/ due' = NULL /\ active' = FALSE
       \/ UNCHANGED <<due, active>>
    /\ UNCHANGED <<expiry, handler, started>>

-----------------------------------------------------------------------------
(* The handler *)

(* The callout is no longer pending; it stays active. *)
Fire ==
    /\ due # NULL /\ due <= 0 /\ handler = "none"
    /\ due' = NULL /\ handler' = "fired"
    /\ UNCHANGED <<expiry, active, caller, started>>

Deactivate ==
    /\ handler = "fired"
    /\ active' = FALSE /\ handler' = "function"
    /\ UNCHANGED <<expiry, due, caller, started>>

(* One round of the loop of sched_rt_period_timer, under the timer's lock; *)
(* do_sched_rt_period_timer does nothing and asks for a restart.           *)
PeriodTimer ==
    /\ handler = "function"
    /\ expiry' = Forward(expiry).expiry
    /\ handler' = IF Forward(expiry).overrun = 0 THEN "restart" ELSE handler
    /\ UNCHANGED <<due, active, caller, started>>

(* Mutant of Restart: the timer is not armed. *)
RestartNever ==
    /\ handler = "restart"
    /\ handler' = "none"
    /\ UNCHANGED <<expiry, due, active, caller, started>>

(* The end of timeout_handler: a caller may have started the timer. *)
Restart ==
    /\ handler = "restart"
    /\ handler' = "none"
    /\ IF active THEN UNCHANGED <<due, active>> ELSE Arm(expiry)
    /\ UNCHANGED <<expiry, caller, started>>

Tick ==
    LET Earlier(x) == IF x > -Late THEN x - 1 ELSE x
    IN  /\ expiry' = Earlier(expiry)
        /\ due' = IF due = NULL THEN NULL ELSE Earlier(due)
        /\ UNCHANGED <<active, handler, caller, started>>

-----------------------------------------------------------------------------
(* hrtimer_init sets the expiry to the start of time. *)
Init ==
    /\ expiry = -Late /\ due = NULL /\ active = FALSE
    /\ handler = "none"
    /\ caller = [c \in Caller |-> "idle"]
    /\ started = FALSE

Next ==
    \/ \E c \in Caller : StartCheck(c) \/ StartLocked(c) \/ Cancel(c)
                         \/ Drained(c)
    \/ Fire \/ Deactivate \/ PeriodTimer \/ Restart
    \/ Tick

Spec == Init /\ [][Next]_vars

(* Time passes, the callout fires when it is due, and what runs goes on.   *)
Fairness ==
    /\ WF_vars(Tick)
    /\ WF_vars(Fire)
    /\ WF_vars(Deactivate)
    /\ WF_vars(PeriodTimer)
    /\ WF_vars(Restart)
    /\ \A c \in Caller : WF_vars(StartLocked(c)) /\ WF_vars(Drained(c))

-----------------------------------------------------------------------------
(* Properties *)

(* Every variable has its type. *)
TypeOK ==
    /\ expiry \in Int /\ expiry >= -Late
    /\ due = NULL \/ (due \in Int /\ due >= -Late)
    /\ active \in BOOLEAN /\ started \in BOOLEAN
    /\ handler \in {"none", "fired", "function", "restart"}
    /\ caller \in [Caller -> {"idle", "start", "drain"}]

(* A timer that was started, and not while a cancel was going on, is armed *)
(* or its handler will arm it, however starts, cancels and the handler     *)
(* overlap: the flag that lets a second start return, and the handler      *)
(* leave, is true only of a callout that will run; and what the callout is *)
(* armed for, while that is in the future, is the expiry of the timer      *)
(* (timeout_handler, start_bandwidth_timer, hrtimer_start, hrtimer_cancel).*)
NeverLost ==
    /\ TypeOK
    /\ started => due # NULL \/ handler # "none"
    /\ active => due # NULL \/ handler = "fired"
    /\ due # NULL => due <= 0 \/ due = expiry

(* A timer that was started runs its function again and again, until it is *)
(* cancelled (timeout_handler).                                            *)
FiresAgain == started ~> handler = "function" \/ ~started
=============================================================================
