# A TLA+ model of the SFQ scheduler

The repository is a scheduler for the FreeBSD kernel: a start-time fair queueing
class for timeshare threads (`pss.c`), a real-time class (`rt.c`), an idle class
(`idle.c`) and the kernel's scheduler interface on top of them (`sched.c`), with
its own clock (`sched_time.c`), groups of threads that share the CPU, and a file
system that shows the groups as directories (`sgfs.c`). Its README says that it does
not support SMP; the model is of the run queue of one CPU, except for the parts that
only exist for several CPUs, which are modelled on their own. `Sched` and what it
uses are the scheduler without `SFQ_GROUP_SCHED`, `GroupSched` and `GroupLife` what
that option adds.

## Inventory

| part | state | operations | interacts with |
|---|---|---|---|
| scheduler core, `sched.c` | `struct rq`: counters, `realtime` runq, clocks; flags and priority of every thread | `sched_tick`, `sched_switch`, `sched_throw`, `sched_add`, `sched_fork_thread`, `sched_nice`, `sched_class`, `sched_prio` and the lending of priorities, `sched_idletd` | calls the operations of the class of a thread; is called by the kernel with the thread lock held |
| pss class, `pss.c` | `struct sfq`: `timeline` (red-black tree), `leftmost`, `curr`, candidates `skip`/`next`/`last`, `vtime`, `load`; `vruntime`, `load`, `joined`, `initial` of an entity | enqueue, dequeue, put_prev, pick_next, activate, tick, fork, change_priority, check_preempt_curr, switched_from/to | puts raised threads into the `realtime` runq too; requests preemption |
| real-time class, `rt.c` | `realtime` runq, `timing_start` | the same operations | |
| idle class, `idle.c` | none | the same, empty | |
| groups, `sched.c`, `pss.c` | tree of groups, one `sfq` and entity per group, shares, the threads of a group | create, destroy, list, move a process, set shares; every pss operation walks the hierarchy | a group's `sfq` is an entity of its parent's |
| load averages, CPU usage, `sched.c` | `cpu_load[5]`; `ticks`, `ltick`, `ftick` of a thread | `update_cpu_load`, `sched_pctcpu_update` | the clock tick, switches, `ps` |
| real-time bandwidth, `rt.c`, `sched.c` | runtime and period, a timer | start, period timer | `hrtimer.c` |
| timers, `hrtimer.c` | expiry, callout | start, cancel, forward | callout(9) |
| clock, `sched_time.c` | per CPU: `time`, `tick_sys_time`, `tick_cpu_time` | `sched_time_cpu`, `sched_time_tick` | called by the core for every clock update; CPUs read and move each other's time |
| priority list, `prio_list.c` | list of leaders and a queue behind each | add, del, first | for pushable real-time threads |
| CPU priorities, `cpupri.c` | per priority: mask and count of CPUs | set, find | `activate_thread` |
| group file system, `sgfs.c` | nodes with reference counts, parent, children, file numbers, attributes; vnodes; the kernel's name cache | root, lookup, mkdir, rmdir, readdir, setattr, inactive, reclaim, unmount | the vnode layer of the kernel |
| `halflife.c`, `group.c`, `tree.h` | - | a table generator; dead code; third-party tree macros | |

Hard behaviours: an entry point that takes a thread out of the queue and puts it
back (`sched_nice`, `sched_class`) while it is queued, running, asleep or not
started; a thread on two queues at once; pointers kept across sleeps (candidates,
`leftmost`); virtual time that wraps around; counters kept by hand on every path;
requests for preemption that are raised now and honoured later; cmpset loops on
clocks of several CPUs; walks that stop at different levels of a hierarchy; locks that
are dropped between finding a thing and using it (groups, nodes, the timer).
`PROJECT.json` lists them as hazards with the line where each bites and the properties
that would catch it.

What makes each part correct:

- core: the queues, flags, counters and the running thread agree after every call;
  no assertion fails; a switch picks the best thread; a thread that comes ahead of
  the running one leaves it asked to reschedule;
- pss: virtual time is monotonic and passes nobody; no one gets time back; runnable
  threads stay close to virtual time; nobody starves;
- clock: no time goes back or runs ahead; readings are ordered;
- priority list: it is one stable queue sorted by priority;
- groups: the levels of the hierarchy agree, no runnable thread is out of reach of the
  root; the groups stay a tree and none is freed under its threads;
- lending: no owner of a lock is less important than who waits for it;
- timer: a start is never lost, unless a cancel is going on; averages and usage: rounding neither sticks nor drifts;
- group file system: reference counts are exact, nothing in use is freed, names agree
  with the tree.

## Modules

`SfqState`, `Pss`, `Rt`, `Sched` model one CPU. Every entry point of the code runs
from `RQ_LOCK` to `RQ_UNLOCK` with interrupts off, so it is atomic, and the C
functions it calls are operators from a state record to a state record, composed in
the order of the calls. All that the lock protects is one record, `rq`, whose
fields have the names of the code.

- **SfqState**: the record; wrap-around comparison; `struct runq` (external, as the
  code uses it); `check_priority_preempt`, `rq_run_add`/`rem`, `rq_slice`,
  `update_rq_clock`, `resched_thread`, `preempt_thread`.
- **Pss**: `pss.c` for threads of the root group. The tree is its in-order sequence;
  an insertion finds its place by the comparisons of the search, `leftmost` is kept
  as the code keeps it.
- **Rt**: `rt.c`.
- **Sched**: dispatch to the classes, the entry points as actions, the environment,
  the properties.

| action | code |
|---|---|
| `Elapse` | time passes (external) |
| `SchedTick` | `sched_tick` of the hardware clock |
| `NeedResched`, `OwePreempt` | `ast()` and `critical_exit()` (external) calling `sched_switch` |
| `SchedRelinquish` | `sched_relinquish` |
| `SchedIdletd` | the loop of `sched_idletd` |
| `Sleep` | `sched_sleep` and `sched_switch` of an inhibited thread |
| `SchedThrow` | `sched_throw` of an exiting thread |
| `SchedAdd` | `sched_add` of a new thread, `sched_wakeup` |
| `SchedFork`, `KthreadAdd` | `sched_fork_thread` from the running thread, and from one that is not running (`kern_kthread.c`) |
| `SchedNice`, `SchedClass` | `sched_nice`, `sched_class` on a thread in any state |
| `SchedThreadPriority` | `sched_thread_priority` as called by `sched_prio`, `sched_lend_prio`, `sched_unlend_prio`, and `sched_userret` |

- **SchedTime**: `sched_time.c` with several CPUs, one step per access to a shared
  `time`. The cycle counter may have advanced by anything since the tick, also
  backwards (its frequency changes), so `tick_cpu_time` is folded into `Delta`.
- **Queues**: insertion into and removal from the sequences that stand for trees and
  lists, and the weight of a set of entities (`TotalWeight`).
- **PrioList**: `prio_list.c`. **PrioQueue** is what it promises: a fifo for every
  priority, a thread in that of the priority it had when it was added, and the head of the
  best nonempty one as the first thread. `PrioList` implements it (`ImplementsQueue`): the
  fifo of a priority is the queue of the leader that has it.
- **GroupSched**: `pss.c` with `SFQ_GROUP_SCHED`, one CPU, all threads of one weight
  and class, below a hierarchy of groups that does not change (`GroupAssumption`: it is a
  tree, as `GroupLife` has it at any time). Queues and candidates are functions of the group; `Walkup` is
  `WALKUP_SCHED_ENTITY`, and enqueue, dequeue, put_prev, pick_next and activate are folds
  over it that stop where the code's loops do. `SchedGroupMove` is
  `pss_sched_group_move`, `SetGroupShares` is `pss_sched_group_set_shares`; `SchedTick`,
  `NeedResched`, `Sleep`, ... are as in `Sched`.
- **GroupLife**: the sysctl handlers of `sched.c` for groups (`create`, `destroy`,
  `move`, `shares`, `subgroup`), one step between two points where a handler drops a
  lock, may sleep or shares its lock, with `sched_fork_thread`, `sched_exit_thread` and
  `sched_throw`. Memory of groups is a set, so that it is used again after a free; a step
  that touches freed memory stops the system and is recorded in `misuse`. The walk of the
  list of all groups and the unlinking of a group have a beginning and an end, because the
  tree lock is only shared then; when another handler comes to the lists in between, and
  one of the two unlinks, the model stops too (`misuse` is `"lists"`).
- **Lending**: base, borrowed and user priorities (`sched_prio`, `sched_lend_prio`,
  `sched_unlend_prio`, `sched_user_prio`, `sched_lend_user_prio`, `sched_userret`,
  `sched_sleep`, the boost of `update_curr`). Turnstiles are external: they lend along
  the chain of owners and unlend at a release. **Priorities** puts `Lending` and
  `PrioList` side by side.
- **HrTimer**: `hrtimer.c` with its only user, the period timer of `rt_bandwidth`.
  Steps of callers that start or cancel it, and of the handler, over callout(9), which
  arms nothing while a cancel waits for the handler to end.
  **CpuLoad**: `update_cpu_load`. **PctCpu**: `sched_pctcpu_update` and its callers, and
  `sched_throw`, which switches to a thread without a call of it, with a tick counter that
  wraps. **Ticks** puts the three side by side.
- **CpuPri**: `cpupri_init` and `cpupri_set` as `activate_thread` calls it.
- **Sgfs**: `sgfs.c` between its locks; one step per section under `fs->lock`, and one
  per access outside of it. Vnodes, their locks, use and hold counts, `vnlru` and the name
  cache are external. **SgfsAttr**: `sgfs_setattr`; a step is a test or what the code
  assigns after it, and a mount has one call at a time. **SgfsFull** has both, **MCSgfs**
  puts them side by side.
- **MCSched**, **MCSchedTime**, **MCGroupSched**, **MCGroupLife**, **MCSgfs** define the
  constants of the runs.
- **QueueProofs**, **SchedProofs**, **GroupSchedProofs**, **SchedTimeProofs**,
  **TicksProofs**, **PrioritiesProofs**, **GroupLifeProofs**, **SgfsProofs**: the proofs.

### Abstractions

- The fixed-point inverse weights of `scale_by_weight` are division rounded to the
  nearest integer; a load of 0 divides by 1.
- The clocks are kept as differences (`unseen`, `delta_exec`, `exec_time`,
  `rt_exec`), and the execution times of the running thread saturate at `ExecCap`,
  which is larger than any slice they are compared with.
- `td_base_pri`, `td_user_pri` and `TDF_BORROWING` are kept in `Lending` and not in
  `Sched`, where any thread may be given any priority, and a child starts with any.
- A KASSERT or MPASS that fails is recorded in `panics` and the code goes on, so
  that `KassertsHold` sees the first failure of any kind.
- One thread per process, so the loop of `sched_nice` runs once.
- Left out of `Sched` because nothing in it reads them: `rt_curr`, `switchcnt`, the
  pctcpu and cpu_load statistics and the CPU priority map, which have modules of their own.
- `Priorities`, `Ticks` and `MCSgfs` are sums: their parts share no variable of the
  code, so every behaviour of the whole is, for each part, a behaviour of that part and
  stuttering. The variable `part` says which one moves, and the others keep one initial
  state; a product would only multiply the states. `MCSgfs` has the file system three times:
  two threads in the tree at once, by one mount; one thread at a time with `readdir`, which
  alone gives file numbers (the variable `number`, apart from `node`, because a number is the
  result of a fold); and two threads that enter by two mounts, with fewer calls, on a second
  copy of the variables (`Two`), so that what holds for one mount only can be stated for it.
- `GroupSched` has one weight of threads and no `sched_nice` or classes: they are in
  `Sched`, and the walks do not look at them.
- A node's `.` and `..` are counted as its base references and not as nodes.
- `sgfs_setattr`: atime and mtime are one value, and what nobody can set is left out. A `mkdir` of a name that exists neither looks into the name cache nor
  enters the name.
- A thread forked by a real-time thread gets no vruntime (`rt_fork_thread` is empty):
  it keeps what the thread structure held before.

## Runs

| run | instance | result |
|---|---|---|
| `fair` | 3 symmetric threads, 2 weights, all calls of the fair class, `child_runs_first` on | 420,119 states: `TypeOK`, `QueueInv`, `LoadInv`, `VtimeNeverOvertakes`, `VruntimeNeverDecreases`, `PickIsFair` hold |
| `classes` | 2 threads, one with TDF_NOLOAD, 4 classes, 3 priorities | 570,496 states: `KassertsHold`, `RealtimeSorted`, `LoadInv`, `SwitchPicksBest`, `PreemptionRequested` hold |
| `wrap` | 3 threads, time unbounded, 64 bits scaled to 32 values | 360,128 states: `FairnessBound`, `TimelineSorted` hold |
| `live` | 3 threads, time unbounded, fair | 171,552 states: `NoStarvation` holds |
| `clock` | 2 CPUs, up-time up to 2, a tick of 2, counters backwards, right and too fast | 481,413 states: safety of the clock and `CallsReturn` hold |
| `groups` | a group inside a group, 2 threads, shares that change | 144,166 states: `HierarchyInv`, `NoIdleWithWork`, `VtimeNeverOvertakes` hold |
| `group_life` | 2 callers of all handlers, 3 threads in 2 processes, memory for 2 groups | 153,700 states: `TreeInv`, `ThreadsListed`, `NoUseAfterFree` hold |
| `priorities` | 3 threads, 2 locks; a list of 4 threads and 3 priorities | 795,631 states: `NoInversion`, `BorrowersHaveLenders`, `ListInv`, `ImplementsQueue` hold |
| `ticks` | 2 callers of the timer; loads 0 and 24; a history of 3 seconds of 2 ticks, a counter of 34 | 116,469 states: `NeverLost`, `FiresAgain`, `DecayAgrees`, `Settles`, `HistoryHolds`, `Decays` hold |
| `sgfs` | 2 threads, 1 or 2 mounts, memory for 3 nodes and 4 vnodes; 2 users and the superuser, 2 groups | 226,283 states: `RefcountExact`, `NodesSafe`, `NamesAgree`, `MountsAgree`, `SetattrSafe` hold |
| `class_new` | 3 threads, class change before the first `sched_add` | `KassertsHold` is violated |
| `cpupri` | priorities up to 10, 6 of them real-time | `IndexInRange` is violated |

The properties in words:

- `QueueInv`: the tree holds exactly the runnable timeshare threads but the running
  one, `leftmost` is its first, `curr` is the running thread if that is a timeshare
  one, the real-time queue holds every queued real-time thread and every raised
  timeshare one, and candidates are runnable.
- `LoadInv`: load and counters are what a recount would give.
- `TimelineSorted`, `RealtimeSorted`: the queues are in order, insertion relies on it;
  and no thread waits in a worse real-time queue than its priority deserves.
- `VtimeNeverOvertakes`: virtual time never goes back nor passes a thread that stays
  in the queue. `VruntimeNeverDecreases`: a detour through the queue gives nobody
  virtual time back. `PickIsFair`: a candidate that is preferred to the leftmost
  thread is within the wakeup granularity. `FairnessBound`: a runnable thread stays
  within one scheduling period of virtual time if preemptions are taken in time.
- `SwitchPicksBest`, `PreemptionRequested`: priorities are obeyed at a switch, and
  asked for between switches.
- `NoStarvation`: every queued thread runs.
- `WithinATick`, `TimeNeverGoesBack`, `CpuSeesTimeAdvance`, `ReadingsOrdered`,
  `CallsReturn`: see `SchedTime`.
- `HierarchyInv`: on every level an entity is queued or running exactly when something
  below it is runnable, the entities that run are the running thread and its ancestors,
  loads are sums of weights, candidates are queued, no assertion has failed.
  `NoIdleWithWork`: the idle thread does not run on while a thread is runnable.
- `TreeInv`: groups are a tree with unique numbers and sibling names, up to the first time
  that two callers meet in the lists, one of them unlinking. `ThreadsListed`: a
  live thread is in the list of its group. `NoUseAfterFree`: no group is freed under a
  live thread, and no fork, exit or move touches a freed one.
- `NoInversion`, `BorrowersHaveLenders`: an owner is as important as its waiters, and
  nobody borrows without one. `ListInv`, `ImplementsQueue`: the list's levels agree, and
  it behaves as one queue.
- `NeverLost`: a timer that was started, and not while a cancel was going on, is armed or
  its handler will arm it. `FiresAgain`: it fires again and again. `DecayAgrees`: the table
  of powers is as good as a loop of single updates up to rounding, through the cut-off and
  from loads of the run and 1024 (`NICE_0_WEIGHT`) times those: it gives less than the scale
  of the average more, and at most a 64th of the load and one less. `Settles`: every average
  comes to a load that stays. `HistoryHolds`: usage is never more than the history, never
  divided by 0, and exactly 100 % for who always runs, except for a history that began with
  a sleep of its whole length that `sched_throw` let count as run time. `Decays`: usage of
  who stopped running ends.
- `RefcountExact`: a node's count is what a recount of links, subdirectories, vnodes and
  callers gives. `NodesSafe`: nothing in use is freed, nothing freed twice, one vnode per
  node and mount, and no removed directory without entries stays behind when nobody uses it:
  by one mount in any case, by two when it has no vnode left (one that has entries can stay
  for ever, see `sgfs.c:1186` below, and the parent that `..` reads may be freed, `sgfs.c:725`).
  `NamesAgree`: names in a directory differ, a cached name is an entry, except between the
  unlinking and the purge of an rmdir that has the vnode locked, and file numbers are unique;
  for one mount. `MountsAgree`: the first two for two mounts.
- `SetattrSafe`: by one mount, a failed `setattr` has changed nothing, whatever parts it had,
  and nobody changes what is not theirs.

### The violations

- `class_new`: `pss_switched_to` checks for preemption on behalf of a thread that
  has not been enqueued yet, and makes it a candidate; the MPASS at `pss.c:1074` fails
  when it is picked. In the kernel the class of such a thread is set when it is
  created by a real-time thread; the run adds a parent that has lost its real-time
  class in between.
- `cpupri`: `convert_pri` (`cpupri.c:41`) subtracts the number of real-time priorities, so
  that the index is negative for all but the last three, where the array has a place for
  each (`sched.h:62`); the MPASS at `cpupri.c:85` checks the upper bound only.

### Divergences seen while modelling, not kept as runs

The modules have this behaviour; each item says which state shows it.

- `pss.c:1304` makes the thread that preempts the last candidate; the comment at
  `pss.c:1299` says the preempted one.
- `pss.c:1369`: with `child_runs_first`, a fork for a parent that is not running
  (`kern_kthread.c`, `sched.c:699`) exchanges the key of an entity that is in the tree, and
  virtual time passes a runnable thread, against the comment at `pss.c:747`.
- `rt_switched_to` is empty (`rt.c:397`), so a queued thread that becomes real-time waits
  until something else makes the running timeshare thread give up the CPU, whereas
  `sched.c:318` assumes that no load of higher priority exists then.
- `pss.c:1542`: setting the shares of a group updates the weights of its ancestors and
  not its own, until a thread of it is enqueued or dequeued.
- `pss.c:1526`: shares of 0 are to mean the default, but `pss.c:1536` stores the 0. The
  entity then weighs nothing, a queue with members has a load of 0, the walks take it for
  empty, and the CPU idles with a runnable thread. The run has shares of 1 and more.
- `pss.c:258`: a group inside a group whose parent is not in the leaf list goes to its
  tail, and the parent in front of it, against the comment at `pss.c:253`. Nothing
  reads the list, and it is left out of `GroupSched`.
- `sched.c:1689`: `sysctl_sched_group_destroy` has the tree lock shared while it unlinks
  and frees; the handlers that set shares or list groups, which have it shared too, may
  then use the freed group (`misuse` is `"shares"` or `"subgroup"`).
- `sched.c:1514`: under the same shared lock two destroys may both take their group out of
  the list of all groups and out of the list of one parent, and a handler may walk the list
  (`sched.c:1409`) meanwhile: links are lost or followed into freed memory (`misuse` is
  `"lists"`).
- `sched.c:1162`: `sched_throw` switches to a thread without `sched_pctcpu_update`, so that
  its next update, as a running thread, counts the time it has slept as run time. After a
  sleep longer than the history the count stands for more time than the history has
  (`overcounted`); the usage is cut off at 100 %, but a sleep of 2^21 ticks and more, which is
  35 minutes at 1000 Hz, overflows the int.
- `sched.c:807`: an exiting thread is off the list of its group while it still runs in the
  group's queue; a destroy between that and `sched_throw` frees the queue (`misuse` is
  `"throw"`).
- `hrtimer.h:70`: `hrtimer_cancel` drains the callout without the timer's lock. While it
  waits for the handler a `callout_reset` is ignored, so a start made then, and the handler's
  own restart, arm nothing. Its one caller, `destroy_rt_bandwidth` (`rt.c:140`), is in code
  that does not compile.
- `hrtimer.h:78`: `hrtimer_get_expiry` assigns the wrong way, so that
  `start_bandwidth_timer` arms the timer for an uninitialised value (`Garbage`).
- `hrtimer.c:129`: when a full interval has passed, the expiry moves by one interval more
  than the number of overruns that is returned.
- `sched.c:935`: after a sleep of more than half of the range of `ticks` (25 days at
  1000 Hz) the difference is negative and the old usage is reported. `MaxSleep` excludes it.
- `sgfs.c:725`: `..` in a directory that another thread has removed fails a KASSERT
  (`panic` is `"non-root directory has no parent"`), and so does listing one whose `..` has
  no file number yet (`sgfs.c:222`). The parent is read without lock or reference, and may
  be freed memory (`"freed node"`).
- `sgfs.c:613`: the thread that loses the race to allocate a vnode calls `vgone` on one
  whose `v_data` is NULL, which `sgfs_reclaim` follows (`"v_data is NULL in
  sgfs_reclaim"`).
- `sgfs.c:759`: `sgfs_lookup` enters the name whenever there is no error, also for a doomed
  vnode that `vget` with `LK_RETRY` (`sgfs.c:589`) has returned; `cache_enter` asserts that it
  is not doomed (`WalkDoomed`, `"cache_enter: Adding a doomed vnode"`).
- `sgfs.c:1253`: an rmdir drops `fs->lock` before it purges the names, so that a cached name
  may be of a directory that is already unlinked. Only the lock of the vnode, which the remover
  has, keeps the name from being used (`CacheFresh`).
- `sgfs.c:1186`: `sgfs_mkdir` does not look whether its directory has been removed. A thread
  that still works in it makes a child there, which keeps a reference to its parent. No path
  leads there any more, so that both stay for ever once that thread has left. `NoLeak` leaves
  out removed directories with entries.
- `sgfs.c:986`: `sgfs_setattr` reads and changes a node under the lock of the vnode, and the
  vnodes of two mounts do not exclude each other. A chown by one mount that comes between the
  test and the assignments of one by the other is undone, or a user changes a node that is no
  longer his (`SetattrSafe` does not hold with two mounts in `Mount`).
- `sgfs.c:1186`: a directory is locked by its vnode, and a node has one for every mount. Two
  threads that make the same name by two mounts both find it free, and both succeed
  (`NamesAgree` does not hold with two mounts).
- `sgfs.c:1254`: an rmdir purges the names of the vnode it came by. The vnode that
  another mount has for the same directory keeps the removed node, with its
  cached names, until the kernel recycles it.
- `sgfs.c:725`: by two mounts the parent of `..`, read without a reference, may be a node
  whose last reference has just been dropped: the thread gives it a vnode, and the node is freed
  behind it. The model stops when it gets the vnode (`AllocInsert`, `"freed node"`).

A panic ends the behaviour; the invariants hold up to it and in it.

### Bounds

- `MaxTime`: in the runs without wrap-around (`Modulus = 0`) time passes only while
  virtual time, and the vruntime of whoever would be charged, are below it
  (`TimeBound`). Two units are enough for a thread to use up its slice, for a sleeper
  to be placed before virtual time, and for a child to be placed after it.
- `Modulus`: in `wrap` and `live` virtual time wraps at 32 and time never ends. Nobody
  sleeps for more than a quarter of the range (in the code, 2^62 ns).
- `ExecCap` as above; `TickPeriod` of 1 unit, with a latency of 2 (4 in `live`).
- `MaxUptime` in `clock`: with the up-time at its bound nothing moves any more but
  calls, which is the assumption of `CallsReturn`: a CPU could retry for ever only if
  others moved its time for ever.
- `GroupSched` has `MaxTime` 1 for each queue: enough for a slice to be used up on one
  level while another has not moved, and for a moved or woken thread to be placed.
  `ExecCap` is the longest slice.
- `Group`, `Node`, `Vnode` are memory: with two groups, three nodes and four vnodes an
  allocation may fail, and memory is used again while someone still points at it.
- `MaxLock` 2 gives a chain of two owners. Locks are taken in order, as turnstiles need.
- `Late`: how far an expiry may lie in the past, more than two periods. `Load` of 0 and 24
  and single ticks: `DecayAgrees` itself goes through the loads from 0 to 24, and 1024 times
  those, and all numbers of missed ticks up to one beyond the cut-off of the average.
  `TickRange` 34 with a history of at most 8 ticks and sleeps of at most `MaxSleep` 7, so that
  differences stay below half of the range, and that a sleep may be longer than the history
  (`SCHED_TICK_TARG` 6).
- `Calls` selects what the environment does in a run. Three symmetric threads are the
  least for a running, a leftmost and a waiting one; symmetry is used in safety runs
  only.

### Fairness

`FairSpec` of `Sched` assumes that time passes, that the clock interrupts, that a
thread that was asked to reschedule does so (`ast()` on the return to user mode), and
that the idle loop spins. It is weak fairness of four actions, with their enabling
conditions spelled out. Nothing is assumed of the calls of threads: none has to fork,
sleep or yield. `live` has no exit, because a chain of threads that each fork, yield and exit
can postpone others for ever, and no `sched_nice`, which can move a waiting thread's
key for ever. `SchedTime` assumes that a CPU goes on with the call it is in.

In `Ticks`: time passes, a due callout fires, its handler and the callers that wait for
the lock or for the handler go on (`HrTimer`); the clock ticks (`CpuLoad`); time passes and
somebody looks at the usage now and then (`PctCpu`), as `ps` and the kernel do; without a
look nothing updates the count of a sleeper, and nothing reads it. Each is asked for only of
the part that moves.

## Proofs

Checked by TLAPS for every value of the constants that the named assumptions allow
(any finite set of threads, any weights, priorities, granularities and wrap-around).

`SchedProofs`, for any environment without `"class_new"` (the scenario in which the
assertion does fail):

- `TypeCorrect`: `Spec => []TypeOK`
- `QueuesAgree`: `Spec => []QueueInv`
- `NoKassertFails`: `Spec => []KassertsHold`
- `CountsAgree`: `Spec => []LoadInv`
- `RealtimeOrdered`: `Spec => []RealtimeSorted`
- `BestIsChosen`: `Spec => SwitchPicksBest`
- `PreemptionIsRequested`: `Spec => PreemptionRequested`
- `TreeStaysSorted`: `Spec => []TimelineSorted`
- `VruntimeNeverGoesBack`: `Spec => VruntimeNeverDecreases`
- `VtimePassesNobody`: `Spec => VtimeNeverOvertakes`
- `PicksStayFair`: `Spec => PickIsFair`

The last four have two more assumptions. `Modulus = 0`: virtual time does not wrap around;
where it does, comparisons are an order only among times less than half of the range apart,
which is `FairnessBound`, and that needs bounds on time. And there is no `"kthread"` together
with `ChildRunsFirst`: a child made for a parent that waits in the tree takes the parent's place
in it without a move (`pss.c:1369`, under the divergences), and with it the properties are false.

None of the invariants is inductive alone. The inductive invariant `IInv` is
`Settled(rq)` and the range of `since_tick`. `Settled` is `Consistent`, `JoinedInv`
and `CurrInv`; `Consistent` joins the type, the shape of the tree and of the runq, the
candidates, the counters and the absence of panics. `Consistent` does not mention the
running thread, and so each class operation restores it by itself
(the first half of `SchedProofs`), even in the middle of an entry point; the states in between are
named `Parked` (after put_prev, before sched_choose) and `Out` (on the detours of
`sched_nice` and `sched_class`). The second half shows for each entry point that it
comes back to `Settled`. Counters are needed for `KassertsHold`: that
`sched_choose` never picks from an empty tree follows from `sfq_running` being the
number of joined timeshare threads. `QueueProofs` has the facts about insertion in
and removal from sequences; `SchedProofs` begins with the type of every operator.

The load is a sum over any finite set of threads. `TotalWeight` counts its units, one
element of a set for each, so that a thread that comes or goes adds or takes away
`weight` elements, and cardinalities do the rest; that a weight changes only while its
thread is out of the load is what the steps of `sched_nice` and `sched_class` have to show.
`RunqShape` has the order of the real-time queue and that the index is never behind the
priority, for which a priority that gets worse needs that `\div` is monotone
(`DivMonotone`). `BestIsChosen` is about two states: each entry point that switches is
shown to park the running thread and to end in `sched_choose` (`Chooses`), which takes
the head of an ordered queue or else joins nobody (`PicksBest`), and the dequeue of the
head leaves everybody else's place as it was (`OnlyPlace`). `PreemptionIsRequested` is shown
the same way, for the entry points that do not switch: each either lets no thread into the
real-time queue nor raises one there (`OthersStay`), or moves one thread and compares its priority
with that of the running thread afterwards (`Asks`), and nothing on the way withdraws the request.

The four theorems about time are one invariant and one statement about steps. The invariant,
`Orderly`, says that the tree is in the order of vruntime; with it the leftmost entity has the least
vruntime of all that wait, so that `update_sfq_vtime`, which looks at it and at the running thread
only, passes nobody. The statement about a step, `FairStep`, is that the tree is still in order and
that for everybody who is runnable before and after the step `Flows` holds: its vruntime does not
go back, and if it stays where it is virtual time does not pass it. `Flows` composes, so that an
entry point is a chain of class operations each of which is shown fair once. The
difficult calls are `sched_nice` and `sched_class`: they take a thread out, with its vruntime relative to
virtual time, and bring it back, so that in between nobody has the vruntime it is compared
with. `Away` describes those states, and what it needs is that the running thread has been charged
(`Charged`): otherwise virtual time would move between the two conversions. `PicksStayFair` is about
the switches alone: a thread that did not come from the real-time queue is the leftmost entity or
within the granularity of it, and the one that is passed over stays the leftmost, so that everybody
left in the tree is behind it (`AheadOfNone`).

`GroupSchedProofs`, for any finite set of threads, any finite tree of groups, and any shares
and granularities:

- `LevelsStayInAgreement`: `0 \notin SharesArg => (Spec => []HierarchyInv)`
- `WorkIsFound`: `0 \notin SharesArg => (Spec => []NoIdleWithWork)`

The hypothesis is needed: after shares are set to 0 both are false (`pss.c:1526`, under the
divergences). Every operation is a fold over the path from an entity to the root that
stops at some level, and `HierarchyInv` is false in the middle of each. The folds are reasoned
about by position: `SetCandidateSteps`, `SharesSteps` and their like turn a fold into a
sequence of states, one for each entity of the path, each got from the one before by one step of
the code's loop, and `StepByStep` carries a statement from one position to the next. That a path
ends at the root, and meets no group twice, is `PathsAreShort`, which is where the tree is needed.
`Sound` is what every step of every walk keeps: each queue's timeline, count, load and
candidates are those of its members, and the queue's current entity, if any, is not in the
timeline. `Nested(s, X)` says of the groups outside of `X` that they are queued exactly when
something has joined their queue; in the middle of a walk `X` is the one group where the walk
is, and a walk may stop where `X` becomes empty. `OnPath` says that the current entities
are those of the path to the running thread, which the walks that put it back and take the
next one suspend and restore. The inductive invariant `Inv` is `Settled` (`Sound`, `Nested`
without exception, `OnPath` or `AllIdle`, and the states of the threads) and the statement of
`WorkIsFound`. That a pick at any level finds something follows from the counts: a group is queued
only if its own queue is not empty.

`SchedTimeProofs`, for any number of CPUs: `ClockInvariant`, and from it
`ClockWithinATick`, `ClockMonotonic`, `CpuMonotonic`, `ClockOrdersReadings`. The
invariant says what a CPU remembers between its loads and its cmpset: what it has
read of a time is a lower bound of that time now, and no less than what had been
returned before.

`TicksProofs`:

- `TimerNeverLost`: `NeverLost`, for any period and any set of callers, of any number of
  starts and cancels at once. Inductive with `DrainInv`: while a cancel waits for the handler
  nothing is armed. A start made while a cancel is going on counts as made before it, because
  `callout_reset` does nothing then; `started` stays as it was. `TimerAssumption` is what the
  code passes: a positive period, and an expiry that is not further in the past
  than the bound `Late`.
- `UsageFitsHistory`: `HistoryHolds`, for any tick rate, shift and wrap-around of `ticks`.
  The inductive invariant `UsageInv` adds that the last update is not longer ago than
  the longest gap, which after `sched_throw` is the longest sleep and a gap between two clock
  ticks, and that the history of a thread that always ran is full. The count may stand for
  more than the history only when `overcounted`: the history began with a sleep of its
  whole length that `sched_throw` let count as run time, and nothing has restarted it since.
  `TickConstants` asks that a history of full length, the longest sleep and such a gap together
  stay below half of the range of `ticks`, which is 25 days at 1000 Hz.

`PrioritiesProofs`, for any number of threads, locks and priorities:

- `NoPriorityInversion` and `BorrowersRepay`: `NoInversion` and `BorrowersHaveLenders`
  are one invariant, `LendInv`: an owner has at least the priority of everybody who waits
  for it through any chain of locks, and borrows only what a waiter has. `Reached`, the
  owners along a chain, is the smallest set of threads that contains the first one and is
  closed under "waits for a lock of", so that a proof can reason with any closed set where
  the code has a loop.
- `ListIsOrdered` and `ListImplementsQueue`: `ListInv` is inductive as it stands, and under
  it each call of the list is the call of `PrioQueue`, or, for a call that changes nothing,
  a stutter. That needs that the leader of a priority is unique, and that the next thread
  takes over the very queue of a leader that goes.

`GroupLifeProofs`, for any number of callers, threads, processes and groups in memory:

- `GroupsStayATree`, `ThreadsStayListed`, `NoGroupFreedUnderThread`. The inductive invariant
  `LifeInv` adds what the handlers hold between two of their steps: who has the tree
  lock in which mode agrees with where the callers are, a move goes to an allocated group
  and has the lock of its process, and a group between the check of `destroy` and its free has
  no thread and no child (`CallOK`); a group without its queues has exactly one caller that is
  about to unlink it (`Emptied`); parents and children point at each other (`LinksOK`), every
  group reaches the root (`Rooted`, with `Ancestors` as the smallest closed set), numbers and
  sibling names differ (`Distinct`), and the group of a live thread is live (`ThreadsOK`). A
  group that is being unlinked is still in the lists; that nobody comes across it there until
  it is freed is what the stop at `"lists"` gives, so that all three theorems are about
  behaviours up to the first such race: after it a handler may find anything. `NoUseAfterFree` is about forks, exits and moves: the shared lock of
  `destroy` does let other handlers touch a freed group, and the invariant says which ones.

`SgfsProofs`, for any number of threads, mounts, nodes and vnodes in memory
(`FiniteAssumption`: threads, mounts and vnodes are finite, because what is counted is; the root
is a node, and `NULL` is none of them):

- `ReferencesExact`: `Spec => []RefcountExact`
- `NodesStaySafe`: `Spec => []NodesSafe`, with `NothingLeaks` behind it
- `SetattrIsSafe`: `Cardinality(Mount) = 1 => (Attr!Spec => SetattrSafe)`, for any users,
  groups and times. `AttrInv` says for each step of a call what of the node it has changed so
  far, and what its tests have established about the caller and the node as it was
- `NamesStayRight`: `Cardinality(Mount) = 1 => (Spec => [](NamesUnique /\ CacheFresh))`
- `NumbersStayRight`: `IsFiniteSet(Node) => (Spec => []NumbersConsistent)`
- `NamesStayInAgreement`: the two together,
  `IsFiniteSet(Node) /\ Cardinality(Mount) = 1 => (Spec => []NamesAgree)`

The inductive invariant is `SgfsInv`. A node's count is right only if one knows what every
vnode and every call holds at each of its steps, and `Book` says that: the use and hold
counts of a vnode are what the working directories and calls add up to, whoever needs a lock has
it, and what a call remembers (`dvp`, `vp`, `pn`, `ref`, `put`) is in order for its `pc`.
`Tree` has the nodes: parents and children point at each other, every live node is under the
root (`Below` is the smallest closed set, as for groups), the count is `Expected`, and a count
of 2, that of a node nobody refers to any more, stands exactly while one call is about to free
it (`KillsOK`). `Exact` carries a set of nodes with one reference too many, for the states
in the middle of a step, between the removal of what refers to a node and `sgnode_release`.
`RecycleOK` has that a node has one vnode per mount, and that by one mount the
vnode of a removed directory without users is on its way to `sgfs_reclaim`; without it a
removed directory could leak. `CacheOK` and `PanicOK` say what a cached name points at and which
call a panic belongs to. `NodesSafe` follows by cases on the panic.

The names need an invariant of their own, `NameInv`, on top of `SgfsInv`. `sgfs_mkdir` does not
look again for the name that its lookup did not find, and so `Knows` says what a call knows of
the tree as long as it has its directory locked: that the name is free, or which node has it.
`CacheTrue` says that a cached name is an entry of its directory, and that the two vnodes it
joins are in use; it is about the names that are not about to be purged (`Cached`), since
between the two steps of an rmdir the names of the removed directory are still there. What one call knows no other call may spoil, and that is `OneSearcher`: with one
mount a directory has one vnode, and two threads that search the same directory would hold
the same exclusive lock. The hypothesis is needed: with two mounts both statements about names
are false (`sgfs.c:1186` and `sgfs.c:1254`, under the divergences).

File numbers do not depend on locks or mounts. `NumberInv` has `NumbersOK` (a free node has no
number, numbers differ, a node has one only if its parent has, and its `..` has the
parent's) and `NoCycle` (from every node the way to the parent ends). `sgfs_fileno_alloc` and
`sgfs_readdir` are folds over a path and over the children, which `NumberSteps`,
`EntrySteps` and `UnnumberedSteps` turn into sequences of states, one for each number given, that
`StepByStep` can follow. That the way up from a node is shorter than the number of nodes is
`UpwardIsShort`, and that a free number is left for every node is `AllocUnrFacts`, by the
pigeonhole principle (`LowestFree` of `QueueProofs`); both count nodes, which is why the set of nodes has to be finite, as memory is.
`MountsAgree` of the run needs no theorem of its own: `ReferencesExact` and `NodesStaySafe` are
for any number of mounts.

Only model-checked: liveness (`NoStarvation`, `CallsReturn`, `FiresAgain`, `Settles`,
`Decays`); `FairnessBound`, which needs bounds on time; the virtual times of groups
(`VtimeNeverOvertakes` of `GroupSched`), for which the order of the
timeline would have to be carried through every walk as well; `DecayAgrees`, for which a theorem
would have to bound the error of a loop by an induction over data; what the two runs `cpupri` and `class_new` find violated
(`IndexInRange`, and `KassertsHold` without its assumption).

## Not modelled

- `halflife.c` generates a table and shares no state with the scheduler; `group.c` is dead
  code that does not compile; `tree.h` is third-party (the tree is its in-order sequence).
- The queues of `RT_GROUP_SCHED` (`rt.c:136-240`) do not compile, and the runtime
  accounting of the real-time bandwidth is empty (`do_sched_rt_period_timer` returns 0).
- SMP stops with `#error`: load averages of groups, `cpupri_find`, pushing of threads.
- Affinity and binding, which do nothing on one CPU; tunables, statistics and `sysctl`s that
  only report.
- `sgfs.c`: a lookup of `.`, open, close, getattr, read of a file, offsets of readdir: they
  change nothing that a property is about.
- Fixed-point inverse weights: `scale_by_weight` is rounding division.

## Plan

1. (done) `SfqState`, `Pss`, `Rt`, `Sched`, their runs and the first theorems;
   `SchedTime` with proofs; `PrioList`.
2. (done) `Lending`, `CpuPri`, `HrTimer`, `CpuLoad`, `PctCpu`, `GroupSched`, `GroupLife`,
   `Sgfs`, `SgfsAttr`, their compositions and runs.
3. (done) Proofs of `HrTimer`, `GroupLife`, `Lending`, `PctCpu`, `PrioList` and the
   refinement of `PrioQueue`.
4. (done) Proofs about `Sched`: the order of the real-time queue, the sum of weights and
   `nr_sysrunning`, `SwitchPicksBest`, `PreemptionRequested`, the order of the tree and what
   virtual time may do. Proofs about `GroupSched`: `HierarchyInv` and `NoIdleWithWork`.
5. (done) Proofs of the file system: `RefcountExact`, `NodesSafe`, `SetattrSafe`, and
   `NamesUnique`, `CacheFresh` and `NumbersConsistent`, of which `NamesAgree` is made.
6. `VtimeNeverOvertakes` of `GroupSched`.
7. Fixed-point arithmetic: `scale_by_weight` against exact division.
