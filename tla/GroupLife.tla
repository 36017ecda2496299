----------------------------- MODULE GroupLife ------------------------------
(***************************************************************************)
(* The life of the scheduling groups, sched.c under SFQ_GROUP_SCHED: the   *)
(* tree of groups, the threads each one lists, and the sysctl handlers     *)
(* that create, list and destroy groups, move a process into one and set   *)
(* its shares, while threads fork and exit.  What a move and the shares do *)
(* to the run queue is module GroupSched.                                  *)
(*                                                                         *)
(* A handler is a sequence of steps wherever it drops a lock, may sleep or *)
(* shares its lock with another handler.  One that finds no group or no    *)
(* process returns an error and changes nothing.  A step that touches      *)
(* freed memory, or a list of groups while another caller unlinks one from *)
(* it, stops the system: the shared lock does not keep sched_group_destroy *)
(* from the lists that others walk or change under it.                     *)
(***************************************************************************)
EXTENDS Queues, FiniteSets

CONSTANTS
    Thread, Process,
    Thread0,            \* never exits and is never moved
    ProcessOf,          \* the process of every thread
    Group,              \* the group structures that can be allocated
    Root,               \* root_sched_group
    Name,               \* the names that can be given, beside the empty one
    Caller,             \* the threads that run sysctl handlers
    Ops,                \* the handlers and calls that are used
    NULL

ASSUME LifeAssumption ==
    /\ Thread0 \in Thread /\ ProcessOf \in [Thread -> Process]
    /\ Root \notin Group /\ NULL \notin Group \cup {Root} \cup Thread \cup Caller
    /\ NULL \notin {"fork", "exit", "move"}
    /\ IsFiniteSet(Group)

VARIABLES
    mem,        \* the structure of a group: free, live, or without its queues
    sg,         \* struct sched_group: id, name, parent, children, threads
    all,        \* all_sched_groups
    ts,         \* state of a thread, and td_sched.group
    tree,       \* sg_tree_lock: its exclusive and its shared holders
    proclock,   \* PROC_LOCK of a process
    call,       \* the handler a caller runs, and its local variables
    misuse      \* the use of freed memory, or the race, that stopped it all

vars == <<mem, sg, all, ts, tree, proclock, call, misuse>>
lists == <<mem, sg, all>>

Groups == Group \cup {Root}
NoName == "unnamed"
MaxId == Cardinality(Group)

-----------------------------------------------------------------------------
(* Helpers *)

(* sched_group_find, as the group that was found *)
Found(id, g) == g \in all /\ sg[g].id = id

(* sched_group_find_by_name *)
NameTaken(parent, name) ==
    \E i \in DOMAIN sg[parent].children :
        sg[sg[parent].children[i]].name = name

(* alloc_unr: the lowest number that is not in use *)
FreeId == Min((1 .. MaxId) \ {sg[g].id : g \in {h \in Group : mem[h] # "free"}})

(* Where a walk up the tree cannot leave *)
Closed(S) == \A h \in S : sg[h].parent \in S \cup {NULL}

(* A group and its ancestors *)
Ancestors(g) ==
    {h \in Groups : \A S \in SUBSET Groups : g \in S /\ Closed(S) => h \in S}

Allocated(g) == mem[g] # "free"
HasQueues(g) == \A h \in Ancestors(g) : mem[h] = "live"

(* Where a caller is, and its local variables *)
Doing(pc, g, at, todo) == [pc |-> pc, sg |-> g, at |-> at, todo |-> todo]
Idle == Doing("idle", NULL, NULL, {})

(* A stopped system takes no step. *)
At(c, pc) == misuse = NULL /\ call[c].pc = pc
Is(t, state) == misuse = NULL /\ ts[t].state = state

(* The step A, or the stop when it would touch what it must not *)
Safely(ok, what, A) ==
    \/ ok /\ A /\ UNCHANGED misuse
    \/ /\ ~ok /\ misuse' = what
       /\ UNCHANGED <<mem, sg, all, ts, tree, proclock, call>>

SUnlock(c) ==
    /\ tree' = [tree EXCEPT !.s = @ \ {c}]
    /\ call' = [call EXCEPT ![c] = Idle]

XFree == tree.x = NULL /\ tree.s = {}

(* Who walks all_sched_groups, and who takes a group out of the lists *)
Finding == {c \in Caller : call[c].pc = "find"}
Unlinking == {c \in Caller : call[c].pc = "unlinking"}

(* The list of children of g is not being changed. *)
Steady(g) == \A c \in Unlinking : sg[call[c].sg].parent # g

-----------------------------------------------------------------------------
(* Threads *)

(* Mutant of Fork: the child is not registered. *)
ForkUnlisted(t, u) ==
    /\ "fork" \in Ops /\ Is(t, "alive") /\ ts[u].state = "none"
    /\ ts' = [ts EXCEPT ![u] = ts[t]]
    /\ UNCHANGED <<lists, tree, proclock, call, misuse>>

(* sched_fork_thread, sched_group_register_thread.  A thread of the same   *)
(* process is made with the process locked, any other is the first of its  *)
(* process.                                                                *)
Fork(t, u) ==
    /\ "fork" \in Ops /\ Is(t, "alive") /\ ts[u].state = "none"
    /\ IF ProcessOf[t] = ProcessOf[u] THEN proclock[ProcessOf[t]] = NULL
       ELSE \A v \in Thread : ProcessOf[v] = ProcessOf[u] =>
                ts[v].state = "none"
    /\ Safely(HasQueues(ts[t].group), "fork",
              /\ ts' = [ts EXCEPT ![u] = ts[t]]
              /\ sg' = [sg EXCEPT ![ts[t].group].threads = @ \cup {u}]
              /\ UNCHANGED <<mem, all, tree, proclock, call>>)

(* sched_exit_thread: the thread leaves the list, and still runs. *)
ExitUnregister(t) ==
    /\ "exit" \in Ops /\ t # Thread0 /\ Is(t, "alive")
    /\ proclock[ProcessOf[t]] = NULL
    /\ Safely(Allocated(ts[t].group), "exit",
              /\ sg' = [sg EXCEPT ![ts[t].group].threads = @ \ {t}]
              /\ ts' = [ts EXCEPT ![t].state = "exiting"]
              /\ UNCHANGED <<mem, all, tree, proclock, call>>)

(* sched_throw: it leaves the queues of its group. *)
ExitThrow(t) ==
    /\ Is(t, "exiting")
    /\ Safely(HasQueues(ts[t].group), "throw",
              /\ ts' = [ts EXCEPT ![t] = [state |-> "none", group |-> Root]]
              /\ UNCHANGED <<lists, tree, proclock, call>>)

-----------------------------------------------------------------------------
(* create *)

(* Mutant of Create: the name is not looked up. *)
CreateAnyName(c, id, name, g) ==
    \E parent \in Groups :
        /\ "create" \in Ops /\ At(c, "idle") /\ XFree
        /\ Found(id, parent) /\ mem[g] = "free"
        /\ mem' = [mem EXCEPT ![g] = "live"]
        /\ sg' = [sg EXCEPT ![g] = [id |-> FreeId, name |-> name,
                                    parent |-> parent, children |-> <<>>,
                                    threads |-> {}],
                            ![parent].children = Append(@, g)]
        /\ all' = all \cup {g}
        /\ call' = [call EXCEPT ![c] = Doing("created", g, NULL, {})]
        /\ UNCHANGED <<ts, tree, proclock, misuse>>

(* sysctl_sched_group_create under the exclusive lock, sched_group_create, *)
(* pss_alloc_sched_group *)
Create(c, id, name, g) ==
    \E parent \in Groups :
        /\ "create" \in Ops /\ At(c, "idle") /\ XFree
        /\ Found(id, parent) /\ mem[g] = "free"
        /\ name # NoName => ~NameTaken(parent, name)
        /\ mem' = [mem EXCEPT ![g] = "live"]
        /\ sg' = [sg EXCEPT ![g] = [id |-> FreeId, name |-> name,
                                    parent |-> parent, children |-> <<>>,
                                    threads |-> {}],
                            ![parent].children = Append(@, g)]
        /\ all' = all \cup {g}
        /\ call' = [call EXCEPT ![c] = Doing("created", g, NULL, {})]
        /\ UNCHANGED <<ts, tree, proclock, misuse>>

(* The number of the new group is read after the unlock. *)
CreateReadId(c) ==
    /\ At(c, "created")
    /\ Safely(Allocated(call[c].sg), "create",
              /\ call' = [call EXCEPT ![c] = Idle]
              /\ UNCHANGED <<lists, ts, tree, proclock>>)

-----------------------------------------------------------------------------
(* move *)

Alive(p) == {t \in Thread : ts[t].state = "alive" /\ ProcessOf[t] = p}

(* sysctl_sched_group_move: pfind returns the process locked. *)
Move(c, p, id) ==
    \E g \in Groups :
        /\ "move" \in Ops /\ At(c, "idle") /\ XFree
        /\ p # ProcessOf[Thread0] /\ Alive(p) # {} /\ proclock[p] = NULL
        /\ Found(id, g)
        /\ tree' = [tree EXCEPT !.x = c]
        /\ proclock' = [proclock EXCEPT ![p] = c]
        /\ call' = [call EXCEPT ![c] = Doing("move", g, NULL, Alive(p))]
        /\ UNCHANGED <<lists, ts, misuse>>

(* Under sched_group_lock the next thread changes lists. *)
MoveList(c, t) ==
    LET g == call[c].sg
        old == ts[t].group
    IN  /\ At(c, "move") /\ t \in call[c].todo
        /\ IF old = g
           THEN /\ call' = [call EXCEPT ![c] =
                                Doing("move", g, NULL, @.todo \ {t})]
                /\ UNCHANGED sg
           ELSE /\ call' = [call EXCEPT ![c] = Doing("set", g, t, @.todo)]
                /\ sg' = [sg EXCEPT ![old].threads = @ \ {t},
                                    ![g].threads = @ \cup {t}]
        /\ UNCHANGED <<mem, all, ts, tree, proclock, misuse>>

(* sched_group_move, under the run-queue lock *)
MoveSet(c) ==
    LET t == call[c].at
    IN  /\ At(c, "set")
        /\ Safely(HasQueues(ts[t].group) /\ HasQueues(call[c].sg), "move",
                  /\ ts' = [ts EXCEPT ![t].group = call[c].sg]
                  /\ call' = [call EXCEPT ![c] =
                                  Doing("move", @.sg, NULL, @.todo \ {t})]
                  /\ UNCHANGED <<lists, tree, proclock>>)

MoveDone(c) ==
    /\ At(c, "move") /\ call[c].todo = {}
    /\ tree' = [tree EXCEPT !.x = NULL]
    /\ proclock' = [p \in Process |-> IF proclock[p] = c THEN NULL
                                      ELSE proclock[p]]
    /\ call' = [call EXCEPT ![c] = Idle]
    /\ UNCHANGED <<lists, ts, misuse>>

-----------------------------------------------------------------------------
(* The handlers that take the tree lock shared *)

Proceed(c, new) ==
    /\ call' = [call EXCEPT ![c] = new]
    /\ UNCHANGED <<lists, ts, tree, proclock, misuse>>

(* They lock it, and walk all_sched_groups up to the number they are given.*)
Find(c) ==
    /\ {"shares", "subgroup", "destroy"} \cap Ops # {}
    /\ At(c, "idle") /\ tree.x = NULL
    /\ Safely(Unlinking = {}, "lists",
              /\ tree' = [tree EXCEPT !.s = @ \cup {c}]
              /\ call' = [call EXCEPT ![c] = Doing("find", NULL, NULL, {})]
              /\ UNCHANGED <<lists, ts, proclock>>)

FoundNone(c) ==
    /\ At(c, "find")
    /\ SUnlock(c)
    /\ UNCHANGED <<lists, ts, proclock, misuse>>

(* sysctl_sched_group_set_shares; it copies the old shares out. *)
Shares(c, id) ==
    \E g \in Groups :
        /\ "shares" \in Ops /\ At(c, "find") /\ Found(id, g)
        /\ Proceed(c, Doing("shares", g, NULL, {}))

(* pss_sched_group_set_shares walks up the tree. *)
SharesSet(c) ==
    /\ At(c, "shares")
    /\ Safely(HasQueues(call[c].sg), "shares",
              SUnlock(c) /\ UNCHANGED <<lists, ts, proclock>>)

(* sysctl_sched_group_get_sub_groups copies one child out after another. *)
SubGroups(c, id) ==
    \E g \in Groups :
        /\ "subgroup" \in Ops /\ At(c, "find") /\ Found(id, g)
        /\ Proceed(c, Doing("walk", g, IF sg[g].children = <<>> THEN NULL
                                    ELSE Head(sg[g].children), {}))

SubGroupsNext(c) ==
    LET g == call[c].sg
        at == call[c].at
        kids == sg[g].children
        next == {i \in DOMAIN kids : i > 1 /\ kids[i - 1] = at}
    IN  /\ At(c, "walk")
        /\ IF at = NULL
           THEN SUnlock(c) /\ UNCHANGED <<lists, ts, proclock, misuse>>
           ELSE Safely(Allocated(at) /\ Steady(g), "subgroup",
                       /\ call' = [call EXCEPT ![c] =
                                Doing("walk", g, IF next = {} THEN NULL
                                                 ELSE kids[Min(next)], {})]
                       /\ UNCHANGED <<lists, ts, tree, proclock>>)

-----------------------------------------------------------------------------
(* destroy *)

(* sysctl_sched_group_destroy *)
Destroy(c, id) ==
    \E g \in Groups :
        /\ "destroy" \in Ops /\ At(c, "find") /\ Found(id, g)
        /\ Proceed(c, Doing("destroy", g, NULL, {}))

(* Mutant of DestroyCheck: the children are not looked at. *)
DestroyCheckThreads(c) ==
    /\ At(c, "destroy")
    /\ IF sg[call[c].sg].threads # {} THEN SUnlock(c)
       ELSE /\ call' = [call EXCEPT ![c] = Doing("free", @.sg, NULL, {})]
            /\ UNCHANGED tree
    /\ UNCHANGED <<lists, ts, proclock, misuse>>

(* sched_group_destroy: a group that has children or threads is busy. *)
DestroyCheck(c) ==
    LET g == call[c].sg
    IN  /\ At(c, "destroy")
        /\ Safely(Allocated(g) /\ Steady(g), "destroy",
                  /\ IF sg[g].children # <<>> \/ sg[g].threads # {}
                     THEN SUnlock(c)
                     ELSE /\ call' = [call EXCEPT ![c] =
                                        Doing("free", g, NULL, {})]
                          /\ UNCHANGED tree
                  /\ UNCHANGED <<lists, ts, proclock>>)

(* pss_unregister_sched_group, pss_free_sched_group *)
DestroyFree(c) ==
    /\ At(c, "free")
    /\ Safely(mem[call[c].sg] = "live", "destroy",
              /\ mem' = [mem EXCEPT ![call[c].sg] = "emptied"]
              /\ call' = [call EXCEPT ![c] =
                                Doing("unlink", @.sg, NULL, {})]
              /\ UNCHANGED <<sg, all, ts, tree, proclock>>)

(* The two TAILQ_REMOVEs begin, a race if another caller is in the lists,  *)
DestroyUnlink(c) ==
    /\ At(c, "unlink")
    /\ Safely(Finding \cup Unlinking = {}, "lists",
              /\ call' = [call EXCEPT ![c] =
                                Doing("unlinking", @.sg, NULL, {})]
              /\ UNCHANGED <<lists, ts, tree, proclock>>)

(* and when they are done, the group is off the list of its parent and the *)
(* list of all groups, and its number and its structure are free again.    *)
DestroyDone(c) ==
    LET g == call[c].sg
    IN  /\ At(c, "unlinking")
        /\ Safely(mem[g] = "emptied" /\ Allocated(sg[g].parent), "destroy",
                  /\ sg' = [sg EXCEPT ![sg[g].parent].children = Without(@, g),
                                      ![g].parent = NULL]
                  /\ all' = all \ {g}
                  /\ mem' = [mem EXCEPT ![g] = "free"]
                  /\ SUnlock(c)
                  /\ UNCHANGED <<ts, proclock>>)

-----------------------------------------------------------------------------
(* sched_setup: the root group has thread0. *)

Init ==
    /\ mem = [g \in Groups |-> IF g = Root THEN "live" ELSE "free"]
    /\ sg = [g \in Groups |->
                [id |-> 0, name |-> NoName, parent |-> NULL,
                 children |-> <<>>,
                 threads |-> IF g = Root THEN {Thread0} ELSE {}]]
    /\ all = {Root}
    /\ ts = [t \in Thread |-> [state |-> IF t = Thread0 THEN "alive"
                                         ELSE "none", group |-> Root]]
    /\ tree = [x |-> NULL, s |-> {}]
    /\ proclock = [p \in Process |-> NULL]
    /\ call = [c \in Caller |-> Idle]
    /\ misuse = NULL

ThreadStep ==
    \E t \in Thread :
        \/ \E u \in Thread : Fork(t, u)
        \/ ExitUnregister(t)
        \/ ExitThrow(t)

Start(c) ==
    \/ Find(c)
    \/ \E id \in 0 .. MaxId :
        \/ \E name \in Name \cup {NoName}, g \in Group : Create(c, id, name, g)
        \/ \E p \in Process : Move(c, p, id)
        \/ Shares(c, id)
        \/ SubGroups(c, id)
        \/ Destroy(c, id)

Step(c) ==
    \/ CreateReadId(c)
    \/ (\E t \in Thread : MoveList(c, t)) \/ MoveSet(c) \/ MoveDone(c)
    \/ FoundNone(c) \/ SharesSet(c) \/ SubGroupsNext(c)
    \/ DestroyCheck(c) \/ DestroyFree(c) \/ DestroyUnlink(c) \/ DestroyDone(c)

Stopped == misuse # NULL /\ UNCHANGED vars

Next == ThreadStep \/ (\E c \in Caller : Start(c) \/ Step(c)) \/ Stopped

Spec == Init /\ [][Next]_vars

-----------------------------------------------------------------------------
(* Properties *)

GroupFields ==
    [id : 0 .. MaxId, name : Name \cup {NoName}, parent : Groups \cup {NULL},
     children : Seq(Group), threads : SUBSET Thread]

CallFields ==
    [pc : {"idle", "created", "move", "set", "find", "shares", "walk",
           "destroy", "free", "unlink", "unlinking"},
     sg : Groups \cup {NULL}, at : Group \cup Thread \cup {NULL},
     todo : SUBSET Thread]

(* Every variable has its type. *)
TypeOK ==
    /\ mem \in [Groups -> {"free", "live", "emptied"}]
    /\ sg \in [Groups -> GroupFields]
    /\ all \subseteq Groups
    /\ ts \in [Thread -> [state : {"none", "alive", "exiting"},
                          group : Groups]]
    /\ tree \in [x : Caller \cup {NULL}, s : SUBSET Caller]
    /\ tree.x # NULL => tree.s = {}
    /\ proclock \in [Process -> Caller \cup {NULL}]
    /\ call \in [Caller -> CallFields]
    /\ misuse \in {NULL, "fork", "exit", "throw", "create", "move", "shares",
                   "subgroup", "destroy", "lists"}

(* The groups are a tree: the list of all groups has exactly the allocated *)
(* ones, each is once in the list of an allocated parent, and numbers, and *)
(* the names in one parent, are unique (sched_group_create,                *)
(* sched_group_destroy).  It holds up to the first time that two callers   *)
(* meet in the lists, one of them unlinking: the model stops there, and    *)
(* the code goes on with what is left of the lists.                        *)
TreeInv ==
    /\ TypeOK
    /\ all = {g \in Groups : Allocated(g)}
    /\ \A g \in all :
        /\ IsInjective(sg[g].children)
        /\ ToSet(sg[g].children) = {h \in all \ {Root} : sg[h].parent = g}
        /\ g # Root => Root \in Ancestors(g)
    /\ \A g, h \in all :
        g # h => /\ sg[g].id # sg[h].id
                 /\ \/ sg[g].parent # sg[h].parent
                    \/ sg[g].name = NoName
                    \/ sg[g].name # sg[h].name

(* A live thread is in the list of its group and of no other, but for the  *)
(* moment between the two steps of its move, when it is in the list of the *)
(* group it goes to (sched_group_register_thread, sysctl_sched_group_move).*)
(* As TreeInv, up to the first misuse.                                     *)
ThreadsListed ==
    \A g \in Groups :
        sg[g].threads = {t \in Thread :
            /\ ts[t].state = "alive"
            /\ LET to == {call[c].sg : c \in {d \in Caller :
                                call[d].pc = "set" /\ call[d].at = t}}
               IN  IF to = {} THEN ts[t].group = g ELSE g \in to}

(* No live thread is left in a group whose queues were freed               *)
(* (sched_group_destroy, which has the tree lock only shared, against      *)
(* sched_fork_thread and the two steps of a move).  A thread that exits is *)
(* off the list of its group, and then nothing keeps the queue it runs in. *)
QueuesLive ==
    \A t \in Thread : ts[t].state = "alive" => HasQueues(ts[t].group)

(* No group is freed under a live thread, and no fork, exit or move        *)
(* touches a group that was freed.  The handlers that hold the tree lock   *)
(* shared, or have given it back, do: another thread destroys the group    *)
(* under them.  That stops the model, and so does the race in the lists.   *)
NoUseAfterFree == QueuesLive /\ misuse \notin {"fork", "exit", "move"}
=============================================================================
