-------------------------- MODULE GroupLifeProofs ---------------------------
(***************************************************************************)
(* The groups stay a tree, every live thread stays in the list of its      *)
(* group, and no group is freed under a live thread, for any number of     *)
(* threads, processes, groups and callers of the sysctl handlers.          *)
(***************************************************************************)
EXTENDS GroupLife, QueueProofs, FiniteSetTheorems

-----------------------------------------------------------------------------
(* The inductive invariant *)

(* The lists of groups agree: all_sched_groups has the allocated ones, and *)
(* the list of children of each one is what their parents say.             *)
LinksOK ==
    /\ all = {g \in Groups : Allocated(g)}
    /\ mem[Root] = "live" /\ sg[Root].parent = NULL /\ sg[Root].id = 0
    /\ \A g \in Groups \ all : sg[g].parent = NULL /\ sg[g].threads = {}
    /\ \A g \in all \ {Root} : sg[g].parent \in all
    /\ \A g \in all :
        /\ IsInjective(sg[g].children)
        /\ ToSet(sg[g].children) = {h \in all \ {Root} : sg[h].parent = g}

Rooted == \A g \in all : Root \in Ancestors(g)

Distinct ==
    \A g, h \in all :
        g # h => /\ sg[g].id # sg[h].id
                 /\ \/ sg[g].parent # sg[h].parent
                    \/ sg[g].name = NoName
                    \/ sg[g].name # sg[h].name

Exclusive == {"move", "set"}
Removing == {"unlink", "unlinking"}
Shared == {"find", "shares", "walk", "destroy", "free"} \cup Removing

(* The lock a caller holds, and what it knows by holding it *)
CallOK(c) ==
    /\ call[c].pc \in Exclusive <=> tree.x = c
    /\ call[c].pc \in Shared <=> c \in tree.s
    /\ call[c].pc \notin {"idle", "find"} => call[c].sg \in Groups
    /\ call[c].pc \in Exclusive =>
        /\ call[c].sg \in all
        /\ \E p \in Process : /\ p # ProcessOf[Thread0] /\ proclock[p] = c
                              /\ call[c].todo \subseteq Alive(p)
    /\ call[c].pc = "set" =>
        call[c].at \in call[c].todo /\ ts[call[c].at].group # call[c].sg
    /\ call[c].pc \in {"free"} \cup Removing =>
        /\ call[c].sg # Root
        /\ sg[call[c].sg].children = <<>> /\ sg[call[c].sg].threads = {}
    /\ call[c].pc \in Removing => mem[call[c].sg] = "emptied"

Emptied ==
    /\ \A g \in Groups : mem[g] = "emptied" =>
            \E c \in Caller : call[c].pc \in Removing /\ call[c].sg = g
    /\ \A c, d \in Caller :
            call[c].pc \in Removing /\ call[d].pc \in Removing
                /\ call[c].sg = call[d].sg => c = d

ThreadsOK ==
    /\ ts[Thread0] = [state |-> "alive", group |-> Root]
    /\ \A t \in Thread : ts[t].state = "alive" => mem[ts[t].group] = "live"

LifeInv ==
    /\ TypeOK /\ LinksOK /\ Rooted /\ Distinct
    /\ \A c \in Caller : CallOK(c)
    /\ Emptied /\ ThreadsOK /\ ThreadsListed
    /\ misuse \notin {"fork", "exit", "move"}

-----------------------------------------------------------------------------
(* What the invariant says, in the form the steps use *)

LEMMA NullIsNone ==
    /\ NULL \notin Groups /\ NULL \notin Caller /\ NULL \notin Thread
    /\ Root \in Groups /\ Group \subseteq Groups
    /\ MaxId \in Nat
BY LifeAssumption, FS_CardinalityType DEF Groups, MaxId

(* A thread is listed by its group, or by the group it is on its way to. *)
Moving(t) == \E c \in Caller : call[c].pc = "set" /\ call[c].at = t
MovesTo(t, g) ==
    \E c \in Caller : /\ call[c].pc = "set" /\ call[c].at = t
                      /\ call[c].sg = g
Lists(t, g) ==
    /\ ts[t].state = "alive"
    /\ IF Moving(t) THEN MovesTo(t, g) ELSE ts[t].group = g

LEMMA ListsIs ==
    ThreadsListed <=> \A g \in Groups :
                        sg[g].threads = {t \in Thread : Lists(t, g)}
<1> DEFINE To(t) == {call[c].sg : c \in {d \in Caller :
                            call[d].pc = "set" /\ call[d].at = t}}
<1>1. \A t : To(t) = {} <=> ~Moving(t)
    BY DEF Moving
<1>2. \A t, g : g \in To(t) <=> MovesTo(t, g)
    BY DEF MovesTo
<1>3. ThreadsListed <=> \A g \in Groups :
        sg[g].threads = {t \in Thread :
            /\ ts[t].state = "alive"
            /\ IF To(t) = {} THEN ts[t].group = g ELSE g \in To(t)}
    BY Zenon DEF ThreadsListed
<1> HIDE DEF To
<1> QED
    BY <1>1, <1>2, <1>3 DEF Lists

(* The queues of a live group are there, and those of its ancestors. *)
LEMMA LiveHasQueues ==
    ASSUME LifeInv, NEW g \in Groups, mem[g] = "live"
    PROVE  HasQueues(g)
<1> DEFINE live == {h \in Groups : mem[h] = "live"}
<1>1. ASSUME NEW h \in live
      PROVE  sg[h].parent \in live \cup {NULL}
    <2>1. CASE h = Root
        BY <2>1 DEF LifeInv, LinksOK
    <2>2. CASE h # Root
        <3> DEFINE p == sg[h].parent
        <3>1. h \in all \ {Root}
            BY <2>2 DEF LifeInv, LinksOK, Allocated
        <3>2. p \in all /\ p \in Groups /\ h \in ToSet(sg[p].children)
            BY <3>1 DEF LifeInv, LinksOK
        <3>3. sg[p].children # <<>>
            BY <3>2 DEF ToSet
        <3>4. mem[p] # "emptied"
            BY <3>2, <3>3 DEF LifeInv, Emptied, CallOK
        <3>5. mem[p] # "free"
            BY <3>2 DEF LifeInv, LinksOK, Allocated
        <3>6. mem[p] \in {"free", "live", "emptied"}
            BY <3>2 DEF LifeInv, TypeOK
        <3> QED
            BY <3>2, <3>4, <3>5, <3>6
    <2> QED
        BY <2>1, <2>2
<1>2. Ancestors(g) \subseteq live
    BY <1>1 DEF Ancestors, Closed
<1> QED
    BY <1>2 DEF HasQueues

(* While a caller holds the tree lock shared, no thread is being moved. *)
LEMMA SharedListed ==
    ASSUME LifeInv, NEW c \in Caller, call[c].pc \in Shared
    PROVE  /\ tree.x = NULL
           /\ \A d \in Caller : call[d].pc \notin Exclusive
           /\ \A t \in Thread : ts[t].state = "alive" =>
                    t \in sg[ts[t].group].threads
<1>1. tree.x = NULL /\ \A d \in Caller : call[d].pc \notin Exclusive
    BY NullIsNone DEF LifeInv, TypeOK, CallOK
<1>2. \A t : ~Moving(t)
    BY <1>1 DEF Moving, Exclusive
<1>3. ASSUME NEW t \in Thread, ts[t].state = "alive"
      PROVE  t \in sg[ts[t].group].threads
    <2>1. ts[t].group \in Groups
        BY DEF LifeInv, TypeOK
    <2>2. Lists(t, ts[t].group)
        BY <1>2, <1>3 DEF Lists
    <2> QED
        BY <2>1, <2>2, ListsIs DEF LifeInv
<1> QED
    BY <1>1, <1>3

(* While a caller holds it exclusively, every group that is allocated has  *)
(* its queues.                                                             *)
LEMMA ExclusiveLive ==
    ASSUME LifeInv, tree.s = {}
    PROVE  \A g \in Groups : mem[g] # "emptied"
BY DEF LifeInv, Emptied, CallOK, Shared

(* A step that leaves the tree alone *)
LEMMA SameTree ==
    ASSUME LifeInv, mem' = mem, all' = all,
           \A g \in Groups : /\ sg'[g].id = sg[g].id
                             /\ sg'[g].name = sg[g].name
                             /\ sg'[g].parent = sg[g].parent
                             /\ sg'[g].children = sg[g].children,
           \A g \in Groups \ all : sg'[g].threads = {}
    PROVE  LinksOK' /\ Rooted' /\ Distinct'
<1>1. all \subseteq Groups /\ Root \in Groups
    BY NullIsNone DEF LifeInv, TypeOK
<1>2. LinksOK'
    BY <1>1 DEF LifeInv, LinksOK, Allocated
<1>3. Rooted'
    <2>1. \A S \in SUBSET Groups : Closed(S)' <=> Closed(S)
        BY DEF Closed
    <2>2. \A g \in Groups : Root \in Ancestors(g) => Root \in Ancestors(g)'
        BY <2>1 DEF Ancestors
    <2> QED
        BY <1>1, <2>2 DEF LifeInv, Rooted
<1>4. Distinct'
    BY <1>1 DEF LifeInv, Distinct
<1> QED
    BY <1>2, <1>3, <1>4

-----------------------------------------------------------------------------
(* Changes of one field of one group, and of one caller *)

WithThreads(s, g, x) == [s EXCEPT ![g].threads = x]

OnlyThreads(s, g, x, s2) ==
    /\ s2 \in [Groups -> GroupFields] /\ s2[g].threads = x
    /\ \A h \in Groups :
        /\ s2[h].id = s[h].id
        /\ s2[h].name = s[h].name
        /\ s2[h].parent = s[h].parent
        /\ s2[h].children = s[h].children
        /\ h # g => s2[h].threads = s[h].threads

LEMMA WithThreadsIs ==
    ASSUME NEW s \in [Groups -> GroupFields], NEW g \in Groups,
           NEW x \in SUBSET Thread
    PROVE  OnlyThreads(s, g, x, WithThreads(s, g, x))
<1>1. PICK r \in GroupFields : r = s[g]
    OBVIOUS
<1>2. PICK n : n = [r EXCEPT !.threads = x]
    OBVIOUS
<1>3. /\ n \in GroupFields /\ n.id = r.id /\ n.name = r.name
      /\ n.parent = r.parent /\ n.children = r.children /\ n.threads = x
    BY <1>2 DEF GroupFields
<1>4. WithThreads(s, g, x) = [s EXCEPT ![g] = n]
    BY <1>1, <1>2, Zenon DEF WithThreads
<1> HIDE DEF GroupFields
<1> QED
    BY <1>1, <1>3, <1>4 DEF OnlyThreads

WithChildren(s, g, q) == [s EXCEPT ![g].children = q]

OnlyChildren(s, g, q, s2) ==
    /\ s2 \in [Groups -> GroupFields] /\ s2[g].children = q
    /\ \A h \in Groups :
        /\ s2[h].id = s[h].id
        /\ s2[h].name = s[h].name
        /\ s2[h].parent = s[h].parent
        /\ h # g => s2[h].children = s[h].children
        /\ s2[h].threads = s[h].threads

LEMMA WithChildrenIs ==
    ASSUME NEW s \in [Groups -> GroupFields], NEW g \in Groups,
           NEW q \in Seq(Group)
    PROVE  OnlyChildren(s, g, q, WithChildren(s, g, q))
<1>1. PICK r \in GroupFields : r = s[g]
    OBVIOUS
<1>2. PICK n : n = [r EXCEPT !.children = q]
    OBVIOUS
<1>3. /\ n \in GroupFields /\ n.id = r.id /\ n.name = r.name
      /\ n.parent = r.parent /\ n.children = q /\ n.threads = r.threads
    BY <1>2 DEF GroupFields
<1>4. WithChildren(s, g, q) = [s EXCEPT ![g] = n]
    BY <1>1, <1>2, Zenon DEF WithChildren
<1> HIDE DEF GroupFields
<1> QED
    BY <1>1, <1>3, <1>4 DEF OnlyChildren

WithParent(s, g, p) == [s EXCEPT ![g].parent = p]

OnlyParent(s, g, p, s2) ==
    /\ s2 \in [Groups -> GroupFields] /\ s2[g].parent = p
    /\ \A h \in Groups :
        /\ s2[h].id = s[h].id
        /\ s2[h].name = s[h].name
        /\ h # g => s2[h].parent = s[h].parent
        /\ s2[h].children = s[h].children
        /\ s2[h].threads = s[h].threads

LEMMA WithParentIs ==
    ASSUME NEW s \in [Groups -> GroupFields], NEW g \in Groups,
           NEW p \in Groups \cup {NULL}
    PROVE  OnlyParent(s, g, p, WithParent(s, g, p))
<1>1. PICK r \in GroupFields : r = s[g]
    OBVIOUS
<1>2. PICK n : n = [r EXCEPT !.parent = p]
    OBVIOUS
<1>3. /\ n \in GroupFields /\ n.id = r.id /\ n.name = r.name
      /\ n.parent = p /\ n.children = r.children /\ n.threads = r.threads
    BY <1>2 DEF GroupFields
<1>4. WithParent(s, g, p) = [s EXCEPT ![g] = n]
    BY <1>1, <1>2, Zenon DEF WithParent
<1> HIDE DEF GroupFields
<1> QED
    BY <1>1, <1>3, <1>4 DEF OnlyParent

(* A caller that goes on, and what it does then *)
LEMMA Doings ==
    /\ \A pc, g, at, todo :
        /\ Doing(pc, g, at, todo).pc = pc /\ Doing(pc, g, at, todo).sg = g
        /\ Doing(pc, g, at, todo).at = at /\ Doing(pc, g, at, todo).todo = todo
    /\ Idle.pc = "idle" /\ Idle \in CallFields
BY DEF Doing, Idle, CallFields

Goes(c, n) == call' = [call EXCEPT ![c] = n]

LEMMA CallerGoes ==
    ASSUME TypeOK, NEW c \in Caller, NEW n \in CallFields, Goes(c, n)
    PROVE  /\ call' \in [Caller -> CallFields] /\ call'[c] = n
           /\ \A d \in Caller \ {c} : call'[d] = call[d]
<1> HIDE DEF CallFields
<1> QED
    BY DEF Goes, TypeOK

LEMMA ListsIsNext ==
    (ThreadsListed <=> \A g \in Groups :
                        sg[g].threads = {t \in Thread : Lists(t, g)})'
BY ListsIs, PTL

-----------------------------------------------------------------------------
(* The steps of the threads *)

LEMMA ForkStep ==
    ASSUME LifeInv, NEW t \in Thread, NEW u \in Thread, Fork(t, u)
    PROVE  LifeInv'
<1> DEFINE g == ts[t].group
<1>1. /\ g \in Groups /\ mem[g] = "live" /\ g \in all
      /\ ts[t].state = "alive" /\ ts[u].state = "none" /\ u # t
    BY DEF LifeInv, TypeOK, ThreadsOK, LinksOK, Allocated, Fork, Is
<1>2. HasQueues(g)
    BY <1>1, LiveHasQueues
<1>3. /\ ts' = [ts EXCEPT ![u] = ts[t]]
      /\ sg' = [sg EXCEPT ![g].threads = @ \cup {u}]
      /\ UNCHANGED <<mem, all, tree, proclock, call, misuse>>
    BY <1>2, Zenon DEF Fork, Safely
<1>4. /\ sg' \in [Groups -> GroupFields]
      /\ sg'[g].threads = sg[g].threads \cup {u}
      /\ \A h \in Groups :
        /\ sg'[h].id = sg[h].id /\ sg'[h].name = sg[h].name
        /\ sg'[h].parent = sg[h].parent /\ sg'[h].children = sg[h].children
        /\ h # g => sg'[h].threads = sg[h].threads
    <2>1. /\ sg \in [Groups -> GroupFields]
          /\ sg[g].threads \cup {u} \in SUBSET Thread
        BY <1>1 DEF LifeInv, TypeOK, GroupFields
    <2>2. sg' = WithThreads(sg, g, sg[g].threads \cup {u})
        BY <1>3, Zenon DEF WithThreads
    <2>3. OnlyThreads(sg, g, sg[g].threads \cup {u}, sg')
        BY <1>1, <2>1, <2>2, WithThreadsIs, Zenon
    <2> QED
        BY <2>3 DEF OnlyThreads
<1>5. TypeOK'
    <2>1. ts' \in [Thread -> [state : {"none", "alive", "exiting"},
                              group : Groups]]
        BY <1>1, <1>3 DEF LifeInv, TypeOK
    <2> QED
        BY <1>3, <1>4, <2>1 DEF LifeInv, TypeOK
<1>6. \A h \in Groups \ all : sg'[h].threads = {}
    BY SMTT(60), <1>1, <1>4 DEF LifeInv, LinksOK
<1>7. LinksOK' /\ Rooted' /\ Distinct'
    BY <1>3, <1>4, <1>6, SameTree
<1>8. /\ ts'[u] = ts[t] /\ \A v \in Thread \ {u} : ts'[v] = ts[v]
    BY <1>3 DEF LifeInv, TypeOK
<1>9. ThreadsOK'
    BY <1>1, <1>3, <1>8 DEF LifeInv, ThreadsOK
<1>10. ASSUME NEW c \in Caller
       PROVE  CallOK(c)'
    <2>1. CallOK(c)
        BY DEF LifeInv
    <2>2. ASSUME NEW p \in Process
          PROVE  Alive(p) \subseteq Alive(p)'
        BY SMTT(60), <1>1, <1>8 DEF Alive
    <2>3. CASE call[c].pc \in {"free"} \cup Removing
        <3>1. t \in sg[g].threads
            BY <1>1, <2>3, SharedListed DEF Shared, Removing
        <3>2. call[c].sg # g /\ call[c].sg \in Groups
            BY <2>1, <2>3, <3>1 DEF CallOK, Shared, Removing
        <3> QED
            BY <1>3, <1>4, <2>1, <2>3, <3>2 DEF CallOK, Exclusive, Removing
    <2>4. CASE call[c].pc \notin {"free"} \cup Removing
        <3>1. call[c].pc = "set" => ts'[call[c].at] = ts[call[c].at]
            BY <1>1, <1>8, <2>1 DEF CallOK, Alive, Exclusive
        <3> QED
            BY <1>3, <2>1, <2>2, <2>4, <3>1 DEF CallOK
    <2> QED
        BY <2>3, <2>4
<1>11. Emptied'
    BY <1>3 DEF LifeInv, Emptied
<1>12. ThreadsListed'
    <2>1. ~Moving(u)
        BY <1>1 DEF LifeInv, CallOK, Moving, Exclusive, Alive
    <2>2. \A v, h : /\ Moving(v)' <=> Moving(v)
                    /\ MovesTo(v, h)' <=> MovesTo(v, h)
        BY <1>3 DEF Moving, MovesTo
    <2>3. ASSUME NEW h \in Groups, NEW v \in Thread
          PROVE  v \in sg'[h].threads <=> Lists(v, h)'
        <3>1. v \in sg[h].threads <=> Lists(v, h)
            BY ListsIs DEF LifeInv
        <3>2. CASE v = u
            <4>1. v \notin sg[h].threads
                BY <1>1, <3>1, <3>2 DEF Lists
            <4>2. v \in sg'[h].threads <=> h = g
                BY <1>4, <3>2, <4>1
            <4>3. ts'[v].group = g /\ ts'[v].state = "alive"
                BY <1>1, <1>8, <3>2
            <4>4. ~Moving(v)'
                BY <2>1, <2>2, <3>2, Zenon
            <4>5. Lists(v, h)' <=> ts'[v].group = h
                BY <4>3, <4>4 DEF Lists
            <4>6. Lists(v, h)' <=> h = g
                BY <4>3, <4>5
            <4> QED
                BY <4>2, <4>6, Zenon
        <3>3. CASE v # u
            <4>1. v \in sg'[h].threads <=> v \in sg[h].threads
                BY <1>1, <1>4, <3>3
            <4> QED
                BY <1>8, <2>2, <3>1, <3>3, <4>1 DEF Lists
        <3> QED
            BY <3>2, <3>3
    <2>4. \A h \in Groups : sg'[h].threads \subseteq Thread
        BY <1>5 DEF TypeOK, GroupFields
    <2> QED
        BY <2>3, <2>4, ListsIsNext
<1> QED
    BY <1>3, <1>5, <1>7, <1>9, <1>10, <1>11, <1>12 DEF LifeInv

SameThreads == \A h \in Groups : sg'[h].threads = sg[h].threads

SameMoves ==
    \A v, h : /\ Moving(v)' <=> Moving(v)
              /\ MovesTo(v, h)' <=> MovesTo(v, h)

LEMMA SameLists ==
    ASSUME LifeInv, TypeOK', ts' = ts, SameThreads, SameMoves
    PROVE  ThreadsListed'
<1>1. ASSUME NEW h \in Groups, NEW v \in Thread
      PROVE  v \in sg'[h].threads <=> Lists(v, h)'
    <2>1. v \in sg[h].threads <=> Lists(v, h)
        BY ListsIs DEF LifeInv
    <2>2. sg'[h].threads = sg[h].threads
        BY DEF SameThreads
    <2>3. Lists(v, h)' <=> Lists(v, h)
        BY DEF Lists, SameMoves
    <2> QED
        BY <2>1, <2>2, <2>3, Zenon
<1>2. \A h \in Groups : sg'[h].threads \subseteq Thread
    BY DEF TypeOK, GroupFields
<1> QED
    BY <1>1, <1>2, ListsIsNext

(* A step that touches freed memory, in a handler that may meet it *)
LEMMA StopStep ==
    ASSUME LifeInv,
           misuse' \in {"throw", "create", "shares", "subgroup", "destroy",
                        "lists"},
           UNCHANGED <<mem, sg, all, ts, tree, proclock, call>>
    PROVE  LifeInv'
<1>1. TypeOK'
    BY DEF LifeInv, TypeOK
<1>2. \A g \in Groups \ all : sg'[g].threads = {}
    BY DEF LifeInv, LinksOK
<1>3. LinksOK' /\ Rooted' /\ Distinct'
    BY <1>2, SameTree
<1>4. ASSUME NEW c \in Caller
      PROVE  CallOK(c)'
    BY DEF LifeInv, CallOK, Alive
<1>5. Emptied' /\ ThreadsOK'
    BY DEF LifeInv, Emptied, ThreadsOK
<1>6. SameThreads /\ SameMoves /\ ts' = ts
    BY DEF SameThreads, SameMoves, Moving, MovesTo
<1>7. ThreadsListed'
    BY <1>1, <1>6, SameLists, Zenon
<1>8. misuse' \notin {"fork", "exit", "move"}
    OBVIOUS
<1> QED
    BY <1>1, <1>3, <1>4, <1>5, <1>7, <1>8 DEF LifeInv

LEMMA ExitThrowStep ==
    ASSUME LifeInv, NEW t \in Thread, ExitThrow(t)
    PROVE  LifeInv'
<1>1. CASE ~HasQueues(ts[t].group)
    <2>1. /\ misuse' = "throw"
          /\ UNCHANGED <<mem, sg, all, ts, tree, proclock, call>>
        BY <1>1, Zenon DEF ExitThrow, Safely
    <2> QED
        BY <2>1, StopStep
<1>2. CASE HasQueues(ts[t].group)
    <2>1. /\ ts' = [ts EXCEPT ![t] = [state |-> "none", group |-> Root]]
          /\ UNCHANGED <<mem, sg, all, tree, proclock, call, misuse>>
          /\ ts[t].state = "exiting"
        BY <1>2, Zenon DEF ExitThrow, Safely, lists, Is
    <2>2. TypeOK'
        BY <2>1, NullIsNone DEF LifeInv, TypeOK
    <2>3. /\ ts'[t].state = "none" /\ \A v \in Thread \ {t} : ts'[v] = ts[v]
        BY <2>1 DEF LifeInv, TypeOK
    <2>4. \A g \in Groups \ all : sg'[g].threads = {}
        BY <2>1 DEF LifeInv, LinksOK
    <2>5. LinksOK' /\ Rooted' /\ Distinct'
        BY <2>1, <2>4, SameTree
    <2>6. \A p : Alive(p)' = Alive(p)
        BY <2>1, <2>3 DEF Alive
    <2>7. ASSUME NEW c \in Caller
          PROVE  CallOK(c)'
        <3>1. CallOK(c)
            BY DEF LifeInv
        <3>2. call[c].pc = "set" => ts'[call[c].at] = ts[call[c].at]
            BY <2>1, <2>3, <3>1 DEF CallOK, Alive, Exclusive
        <3> QED
            BY <2>1, <2>6, <3>1, <3>2 DEF CallOK
    <2>8. Emptied' /\ ThreadsOK'
        BY <2>1, <2>3 DEF LifeInv, Emptied, ThreadsOK
    <2>9. ThreadsListed'
        <3>1. \A v, h : /\ Moving(v)' <=> Moving(v)
                        /\ MovesTo(v, h)' <=> MovesTo(v, h)
            BY <2>1 DEF Moving, MovesTo
        <3>2. ASSUME NEW h \in Groups, NEW v \in Thread
              PROVE  v \in sg'[h].threads <=> Lists(v, h)'
            <4>1. v \in sg[h].threads <=> Lists(v, h)
                BY ListsIs DEF LifeInv
            <4>2. Lists(v, h)' <=> Lists(v, h)
                BY <2>1, <2>3, <3>1 DEF Lists
            <4> QED
                BY <2>1, <4>1, <4>2, Zenon
        <3>3. \A h \in Groups : sg'[h].threads \subseteq Thread
            BY <2>2 DEF TypeOK, GroupFields
        <3> QED
            BY <3>2, <3>3, ListsIsNext
    <2> QED
        BY <2>1, <2>2, <2>5, <2>7, <2>8, <2>9 DEF LifeInv
<1> QED
    BY <1>1, <1>2

LEMMA ExitUnregisterStep ==
    ASSUME LifeInv, NEW t \in Thread, ExitUnregister(t)
    PROVE  LifeInv'
<1> DEFINE g == ts[t].group
<1>1. /\ g \in Groups /\ mem[g] = "live" /\ g \in all
      /\ ts[t].state = "alive" /\ t # Thread0
      /\ proclock[ProcessOf[t]] = NULL
    BY DEF LifeInv, TypeOK, ThreadsOK, LinksOK, Allocated, ExitUnregister, Is
<1>2. /\ ts' = [ts EXCEPT ![t].state = "exiting"]
      /\ sg' = [sg EXCEPT ![g].threads = @ \ {t}]
      /\ UNCHANGED <<mem, all, tree, proclock, call, misuse>>
    <2>1. Allocated(g)
        BY <1>1 DEF Allocated
    <2> QED
        BY <2>1, Zenon DEF ExitUnregister, Safely
<1>3. /\ sg' \in [Groups -> GroupFields]
      /\ sg'[g].threads = sg[g].threads \ {t}
      /\ \A h \in Groups :
        /\ sg'[h].id = sg[h].id /\ sg'[h].name = sg[h].name
        /\ sg'[h].parent = sg[h].parent /\ sg'[h].children = sg[h].children
        /\ h # g => sg'[h].threads = sg[h].threads
    <2>1. /\ sg \in [Groups -> GroupFields]
          /\ sg[g].threads \ {t} \in SUBSET Thread
        BY <1>1 DEF LifeInv, TypeOK, GroupFields
    <2>2. sg' = WithThreads(sg, g, sg[g].threads \ {t})
        BY <1>2, Zenon DEF WithThreads
    <2>3. OnlyThreads(sg, g, sg[g].threads \ {t}, sg')
        BY <1>1, <2>1, <2>2, WithThreadsIs, Zenon
    <2> QED
        BY <2>3 DEF OnlyThreads
<1>4. /\ ts' \in [Thread -> [state : {"none", "alive", "exiting"},
                            group : Groups]]
      /\ ts'[t].state = "exiting" /\ \A v \in Thread \ {t} : ts'[v] = ts[v]
    <2> DEFINE S == [state : {"none", "alive", "exiting"}, group : Groups]
    <2>1. ts \in [Thread -> S]
        BY DEF LifeInv, TypeOK
    <2>2. PICK r \in S : r = ts[t]
        BY <2>1
    <2>3. PICK n : n = [r EXCEPT !.state = "exiting"]
        OBVIOUS
    <2>4. n \in S /\ n.state = "exiting"
        BY <2>3
    <2>5. ts' = [ts EXCEPT ![t] = n]
        BY <1>2, <2>2, <2>3, Zenon
    <2> HIDE DEF S
    <2> QED
        BY <2>1, <2>4, <2>5 DEF S
<1>5. TypeOK'
    BY <1>2, <1>3, <1>4 DEF LifeInv, TypeOK
<1>6. \A h \in Groups \ all : sg'[h].threads = {}
    BY SMTT(60), <1>1, <1>3 DEF LifeInv, LinksOK
<1>7. LinksOK' /\ Rooted' /\ Distinct'
    BY <1>2, <1>3, <1>6, SameTree
<1>8. ThreadsOK'
    BY <1>1, <1>2, <1>4 DEF LifeInv, ThreadsOK
<1>9. ASSUME NEW c \in Caller
      PROVE  CallOK(c)'
    <2>1. CallOK(c)
        BY DEF LifeInv
    <2>2. ASSUME NEW p \in Process, proclock[p] = c
          PROVE  Alive(p) \subseteq Alive(p)'
        <3>1. p # ProcessOf[t]
            BY <1>1, <2>2, NullIsNone
        <3> QED
            BY <1>4, <3>1 DEF Alive
    <2>3. call[c].pc \in Exclusive =>
            \E p \in Process : /\ p # ProcessOf[Thread0] /\ proclock'[p] = c
                               /\ call[c].todo \subseteq Alive(p)'
        BY <1>2, <2>1, <2>2 DEF CallOK
    <2>4. call[c].pc = "set" => ts'[call[c].at] = ts[call[c].at]
        BY <1>4, <2>1, <2>3 DEF CallOK, Alive, Exclusive
    <2>5. call[c].pc \in {"free"} \cup Removing =>
            sg'[call[c].sg].children = <<>> /\ sg'[call[c].sg].threads = {}
        <3>1. call[c].pc \in {"free"} \cup Removing =>
                call[c].sg \in Groups /\ sg[call[c].sg].children = <<>>
                /\ sg[call[c].sg].threads = {}
            BY <2>1 DEF CallOK, Shared, Removing
        <3> QED
            BY <1>1, <1>3, <3>1
    <2> QED
        BY <1>2, <2>1, <2>3, <2>4, <2>5 DEF CallOK
<1>10. Emptied'
    BY <1>2 DEF LifeInv, Emptied
<1>11. ThreadsListed'
    <2>1. \A v, h : /\ Moving(v)' <=> Moving(v)
                    /\ MovesTo(v, h)' <=> MovesTo(v, h)
        BY <1>2 DEF Moving, MovesTo
    <2>2. ~Moving(t)
        <3>1. ASSUME NEW c \in Caller, call[c].pc = "set", call[c].at = t
              PROVE  FALSE
            <4>1. \E p \in Process : proclock[p] = c /\ t \in Alive(p)
                BY <3>1 DEF LifeInv, CallOK, Exclusive
            <4> QED
                BY <1>1, <4>1, NullIsNone DEF Alive
        <3> QED
            BY <3>1 DEF Moving
    <2>3. ASSUME NEW h \in Groups, NEW v \in Thread
          PROVE  v \in sg'[h].threads <=> Lists(v, h)'
        <3>1. v \in sg[h].threads <=> Lists(v, h)
            BY ListsIs DEF LifeInv
        <3>2. CASE v = t
            <4>1. Lists(v, h) => h = g
                BY <2>2, <3>2 DEF Lists
            <4>2. v \notin sg'[h].threads
                BY <1>1, <1>3, <3>1, <3>2, <4>1
            <4>3. ~Lists(v, h)'
                BY <1>4, <3>2 DEF Lists
            <4> QED
                BY <4>2, <4>3
        <3>3. CASE v # t
            <4>1. v \in sg'[h].threads <=> v \in sg[h].threads
                BY <1>1, <1>3, <3>3
            <4> QED
                BY <1>4, <2>1, <3>1, <3>3, <4>1 DEF Lists
        <3> QED
            BY <3>2, <3>3
    <2>4. \A h \in Groups : sg'[h].threads \subseteq Thread
        BY <1>5 DEF TypeOK, GroupFields
    <2> QED
        BY <2>3, <2>4, ListsIsNext
<1> QED
    BY <1>2, <1>5, <1>7, <1>8, <1>9, <1>10, <1>11 DEF LifeInv

-----------------------------------------------------------------------------
(* The handlers that hold the tree lock shared, and the end of create *)

(* A step of a caller that changes no group *)
LEMMA SharedStep ==
    ASSUME LifeInv, NEW c \in Caller, NEW n \in CallFields, Goes(c, n),
           UNCHANGED <<mem, sg, all, ts, proclock, misuse>>,
           call[c].pc \notin Exclusive \cup Removing,
           n.pc \notin Exclusive \cup Removing,
           n.pc \in {"idle", "find"} \/ n.sg \in Groups,
           n.pc = "free" => /\ n.sg # Root /\ sg[n.sg].children = <<>>
                            /\ sg[n.sg].threads = {},
           tree' \in [x : Caller \cup {NULL}, s : SUBSET Caller],
           tree'.x = tree.x, tree'.x # NULL => tree'.s = {},
           c \in tree'.s <=> n.pc \in Shared,
           tree'.s \ {c} = tree.s \ {c}
    PROVE  LifeInv'
<1>1. /\ call' \in [Caller -> CallFields] /\ call'[c] = n
      /\ \A d \in Caller \ {c} : call'[d] = call[d]
    BY CallerGoes DEF LifeInv
<1>2. TypeOK'
    BY <1>1 DEF LifeInv, TypeOK
<1>3. \A g \in Groups \ all : sg'[g].threads = {}
    BY DEF LifeInv, LinksOK
<1>4. LinksOK' /\ Rooted' /\ Distinct'
    BY <1>3, SameTree
<1>5. \A p : Alive(p)' = Alive(p)
    BY DEF Alive
<1>6. ASSUME NEW d \in Caller
      PROVE  CallOK(d)'
    <2>1. CallOK(d) /\ CallOK(c)
        BY DEF LifeInv
    <2>2. CASE d = c
        <3>1. tree'.x # c
            BY <2>1 DEF CallOK
        <3> QED
            BY <1>1, <2>2, <3>1 DEF CallOK, Exclusive, Shared, Removing
    <2>3. CASE d # c
        BY <1>1, <1>5, <2>1, <2>3 DEF CallOK
    <2> QED
        BY <2>2, <2>3
<1>7. Emptied'
    <2>1. \A d \in Caller : call'[d].pc \in Removing <=>
                              call[d].pc \in Removing
        BY <1>1
    <2>2. \A d \in Caller : call[d].pc \in Removing => call'[d] = call[d]
        BY <1>1
    <2> QED
        BY <2>1, <2>2 DEF LifeInv, Emptied
<1>8. ThreadsOK'
    BY DEF LifeInv, ThreadsOK
<1>9. SameThreads /\ SameMoves
    BY <1>1 DEF SameThreads, SameMoves, Moving, MovesTo, Exclusive
<1>10. ThreadsListed'
    BY <1>2, <1>9, SameLists
<1> QED
    BY <1>2, <1>4, <1>6, <1>7, <1>8, <1>10 DEF LifeInv

LEMMA CreateReadIdStep ==
    ASSUME LifeInv, NEW c \in Caller, CreateReadId(c)
    PROVE  LifeInv'
<1>1. CASE ~Allocated(call[c].sg)
    <2>1. /\ misuse' = "create"
          /\ UNCHANGED <<mem, sg, all, ts, tree, proclock, call>>
        BY <1>1, Zenon DEF CreateReadId, Safely
    <2> QED
        BY <2>1, StopStep
<1>2. CASE Allocated(call[c].sg)
    <2>1. /\ call' = [call EXCEPT ![c] = Idle] /\ call[c].pc = "created"
          /\ UNCHANGED <<mem, sg, all, ts, tree, proclock, misuse>>
        BY <1>2, Zenon DEF CreateReadId, Safely, At, lists
    <2>2. /\ tree \in [x : Caller \cup {NULL}, s : SUBSET Caller]
          /\ tree.x # NULL => tree.s = {}
          /\ c \notin tree.s
        BY <2>1 DEF LifeInv, TypeOK, CallOK, Shared, Removing
    <2>3. Goes(c, Idle) /\ Idle \in CallFields /\ Idle.pc = "idle"
        BY <2>1, Doings DEF Goes
    <2> QED
        BY <2>1, <2>2, <2>3, SharedStep DEF Exclusive, Shared, Removing
<1> QED
    BY <1>1, <1>2

(* A caller takes the tree lock shared, and looks for its group. *)
LEMMA FindStep ==
    ASSUME LifeInv, NEW c \in Caller, Find(c)
    PROVE  LifeInv'
<1> DEFINE n == Doing("find", NULL, NULL, {})
<1>1. n \in CallFields /\ n.pc = "find"
    BY DEF CallFields, Doing
<1> HIDE DEF n
<1>2. call[c].pc = "idle" /\ tree.x = NULL
    BY DEF Find, At
<1>3. CASE Unlinking # {}
    <2>1. /\ misuse' = "lists"
          /\ UNCHANGED <<mem, sg, all, ts, tree, proclock, call>>
        BY <1>3, Zenon DEF Find, Safely
    <2> QED
        BY <2>1, StopStep
<1>4. CASE Unlinking = {}
    <2>1. /\ Goes(c, n) /\ tree' = [tree EXCEPT !.s = @ \cup {c}]
          /\ UNCHANGED <<mem, sg, all, ts, proclock, misuse>>
        BY <1>4, Zenon DEF Find, Safely, Goes, n, lists
    <2>2. /\ tree' \in [x : Caller \cup {NULL}, s : SUBSET Caller]
          /\ tree'.x = tree.x /\ tree'.s = tree.s \cup {c}
        <3>1. tree \in [x : Caller \cup {NULL}, s : SUBSET Caller]
            BY DEF LifeInv, TypeOK
        <3> QED
            BY <2>1, <3>1
    <2> QED
        BY <1>1, <1>2, <2>1, <2>2, SharedStep
           DEF Exclusive, Shared, Removing
<1> QED
    BY <1>3, <1>4

(* A caller gives the tree lock back. *)
LEMMA SUnlockStep ==
    ASSUME LifeInv, NEW c \in Caller, SUnlock(c),
           call[c].pc \in Shared \ Removing,
           UNCHANGED <<mem, sg, all, ts, proclock, misuse>>
    PROVE  LifeInv'
<1>1. Idle \in CallFields /\ Idle.pc = "idle"
    BY Doings
<1>2. Goes(c, Idle)
    BY DEF SUnlock, Goes
<1>3. tree.x = NULL
    BY SharedListed
<1>4. /\ tree' \in [x : Caller \cup {NULL}, s : SUBSET Caller]
      /\ tree'.x = tree.x /\ tree'.s = tree.s \ {c}
    <2>1. tree \in [x : Caller \cup {NULL}, s : SUBSET Caller]
        BY DEF LifeInv, TypeOK
    <2>2. tree' = [tree EXCEPT !.s = tree.s \ {c}]
        BY DEF SUnlock
    <2> QED
        BY <2>1, <2>2
<1> QED
    BY <1>1, <1>2, <1>3, <1>4, SharedStep DEF Exclusive, Shared, Removing

(* A caller goes on under the shared lock. *)
LEMMA SGoesStep ==
    ASSUME LifeInv, NEW c \in Caller, NEW n \in CallFields, Goes(c, n),
           call[c].pc \in Shared \ Removing,
           n.pc \in Shared \ Removing, n.sg \in Groups,
           n.pc = "free" => /\ n.sg # Root /\ sg[n.sg].children = <<>>
                            /\ sg[n.sg].threads = {},
           UNCHANGED <<mem, sg, all, ts, tree, proclock, misuse>>
    PROVE  LifeInv'
<1>1. tree.x = NULL
    BY SharedListed
<1>2. /\ tree \in [x : Caller \cup {NULL}, s : SUBSET Caller]
      /\ c \in tree.s
    BY DEF LifeInv, TypeOK, CallOK
<1> QED
    BY <1>1, <1>2, SharedStep DEF Exclusive, Shared, Removing

LEMMA FoundNoneStep ==
    ASSUME LifeInv, NEW c \in Caller, FoundNone(c)
    PROVE  LifeInv'
<1>1. /\ call[c].pc = "find" /\ SUnlock(c)
      /\ UNCHANGED <<mem, sg, all, ts, proclock, misuse>>
    BY DEF FoundNone, At, lists
<1> QED
    BY <1>1, SUnlockStep DEF Shared, Removing

(* It has found its group. *)
LEMMA FoundStep ==
    ASSUME LifeInv, NEW c \in Caller, NEW g \in Groups,
           NEW pc \in {"shares", "walk", "destroy"},
           NEW at \in Group \cup {NULL}, At(c, "find"),
           Proceed(c, Doing(pc, g, at, {}))
    PROVE  LifeInv'
<1> DEFINE n == Doing(pc, g, at, {})
<1>1. n \in CallFields /\ n.pc = pc /\ n.sg = g
    BY DEF CallFields, Doing
<1>2. /\ Goes(c, n) /\ call[c].pc = "find"
      /\ UNCHANGED <<mem, sg, all, ts, tree, proclock, misuse>>
    BY DEF Proceed, At, Goes, lists
<1> HIDE DEF n
<1> QED
    BY <1>1, <1>2, SGoesStep DEF Shared, Removing

LEMMA SharesStep ==
    ASSUME LifeInv, NEW c \in Caller, NEW id, Shares(c, id)
    PROVE  LifeInv'
<1>1. PICK g \in Groups : /\ At(c, "find")
                           /\ Proceed(c, Doing("shares", g, NULL, {}))
    BY DEF Shares
<1> QED
    BY <1>1, FoundStep

LEMMA DestroyStep ==
    ASSUME LifeInv, NEW c \in Caller, NEW id, Destroy(c, id)
    PROVE  LifeInv'
<1>1. PICK g \in Groups : /\ At(c, "find")
                           /\ Proceed(c, Doing("destroy", g, NULL, {}))
    BY DEF Destroy
<1> QED
    BY <1>1, FoundStep

LEMMA SubGroupsStep ==
    ASSUME LifeInv, NEW c \in Caller, NEW id, SubGroups(c, id)
    PROVE  LifeInv'
<1>1. PICK g \in Groups :
        /\ At(c, "find")
        /\ Proceed(c, Doing("walk", g, IF sg[g].children = <<>> THEN NULL
                                       ELSE Head(sg[g].children), {}))
    BY Zenon DEF SubGroups
<1>2. sg[g].children \in Seq(Group)
    BY DEF LifeInv, TypeOK, GroupFields
<1>3. PICK at : at = IF sg[g].children = <<>> THEN NULL
                    ELSE Head(sg[g].children)
    OBVIOUS
<1>4. at \in Group \cup {NULL}
    BY <1>2, <1>3
<1>5. Proceed(c, Doing("walk", g, at, {}))
    BY <1>1, <1>3, Zenon
<1> QED
    BY <1>1, <1>4, <1>5, FoundStep

LEMMA SharesSetStep ==
    ASSUME LifeInv, NEW c \in Caller, SharesSet(c)
    PROVE  LifeInv'
<1>1. call[c].pc = "shares"
    BY DEF SharesSet, At
<1>2. CASE ~HasQueues(call[c].sg)
    <2>1. /\ misuse' = "shares"
          /\ UNCHANGED <<mem, sg, all, ts, tree, proclock, call>>
        BY <1>2, Zenon DEF SharesSet, Safely
    <2> QED
        BY <2>1, StopStep
<1>3. CASE HasQueues(call[c].sg)
    <2>1. /\ SUnlock(c)
          /\ UNCHANGED <<mem, sg, all, ts, proclock, misuse>>
        BY <1>3, Zenon DEF SharesSet, Safely, lists
    <2> QED
        BY <1>1, <2>1, SUnlockStep DEF Shared, Removing
<1> QED
    BY <1>2, <1>3

LEMMA SubGroupsNextStep ==
    ASSUME LifeInv, NEW c \in Caller, SubGroupsNext(c)
    PROVE  LifeInv'
<1> DEFINE at == call[c].at
           kids == sg[call[c].sg].children
           next == {i \in DOMAIN kids : i > 1 /\ kids[i - 1] = at}
<1>1. call[c].pc = "walk"
    BY DEF SubGroupsNext, At
<1>2. CASE at = NULL
    <2>1. /\ SUnlock(c)
          /\ UNCHANGED <<mem, sg, all, ts, proclock, misuse>>
        BY <1>2, Zenon DEF SubGroupsNext, lists
    <2> QED
        BY <1>1, <2>1, SUnlockStep DEF Shared, Removing
<1>3. CASE at # NULL /\ ~(Allocated(at) /\ Steady(call[c].sg))
    <2>1. /\ misuse' = "subgroup"
          /\ UNCHANGED <<mem, sg, all, ts, tree, proclock, call>>
        BY <1>3, Zenon DEF SubGroupsNext, Safely
    <2> QED
        BY <2>1, StopStep
<1>4. CASE at # NULL /\ Allocated(at) /\ Steady(call[c].sg)
    <2>1. /\ call' = [call EXCEPT ![c] =
                    Doing("walk", call[c].sg, IF next = {} THEN NULL
                                              ELSE kids[Min(next)], {})]
          /\ UNCHANGED <<mem, sg, all, ts, tree, proclock, misuse>>
        BY <1>4, Zenon DEF SubGroupsNext, Safely, lists
    <2>2. PICK to : to = IF next = {} THEN NULL ELSE kids[Min(next)]
        OBVIOUS
    <2>3. kids \in Seq(Group) /\ call[c].sg \in Groups
        BY <1>1 DEF LifeInv, TypeOK, GroupFields, CallOK, Shared
    <2>4. to \in Group \cup {NULL}
        <3>1. next # {} => Min(next) \in DOMAIN kids
            <4>1. next \in SUBSET Nat
                BY SMTT(60), <2>3
            <4>2. next # {} => Min(next) \in next
                BY <4>1, MinOfPositions
            <4> QED
                BY <4>2
        <3> HIDE DEF kids, next
        <3> QED
            BY <2>2, <2>3, <3>1
    <2> DEFINE n == Doing("walk", call[c].sg, to, {})
    <2>5. n \in CallFields /\ n.pc = "walk" /\ n.sg = call[c].sg
        BY <2>3, <2>4 DEF CallFields, Doing
    <2>6. Goes(c, n)
        BY <2>1, <2>2, Zenon DEF Goes
    <2> HIDE DEF n
    <2> QED
        BY <1>1, <2>1, <2>3, <2>5, <2>6, SGoesStep DEF Shared, Removing
<1> QED
    BY <1>2, <1>3, <1>4

LEMMA DestroyCheckStep ==
    ASSUME LifeInv, NEW c \in Caller, DestroyCheck(c)
    PROVE  LifeInv'
<1> DEFINE g == call[c].sg
<1>1. call[c].pc = "destroy" /\ g \in Groups
    BY DEF DestroyCheck, At, LifeInv, CallOK, Shared
<1>2. CASE ~(Allocated(g) /\ Steady(g))
    <2>1. /\ misuse' = "destroy"
          /\ UNCHANGED <<mem, sg, all, ts, tree, proclock, call>>
        BY <1>2, Zenon DEF DestroyCheck, Safely
    <2> QED
        BY <2>1, StopStep
<1>3. CASE Allocated(g) /\ Steady(g)
    <2>1. /\ IF sg[g].children # <<>> \/ sg[g].threads # {}
             THEN SUnlock(c)
             ELSE /\ call' = [call EXCEPT ![c] = Doing("free", g, NULL, {})]
                  /\ UNCHANGED tree
          /\ UNCHANGED <<mem, sg, all, ts, proclock, misuse>>
        BY <1>3, Zenon DEF DestroyCheck, Safely, lists
    <2>2. CASE sg[g].children # <<>> \/ sg[g].threads # {}
        BY <1>1, <2>1, <2>2, SUnlockStep DEF Shared, Removing
    <2>3. CASE sg[g].children = <<>> /\ sg[g].threads = {}
        <3> DEFINE n == Doing("free", g, NULL, {})
        <3>1. n \in CallFields /\ n.pc = "free" /\ n.sg = g
            BY <1>1 DEF CallFields, Doing
        <3>2. Goes(c, n) /\ tree' = tree
            BY <2>1, <2>3 DEF Goes
        <3>3. Thread0 \in sg[Root].threads
            <4>1. ts[Thread0].state = "alive" /\ ts[Thread0].group = Root
                BY DEF LifeInv, ThreadsOK
            <4>2. Thread0 \in Thread
                BY LifeAssumption
            <4> QED
                BY <1>1, <4>1, <4>2, SharedListed DEF Shared, Removing
        <3>4. g # Root
            BY <2>3, <3>3
        <3> HIDE DEF n
        <3> QED
            BY <1>1, <2>1, <2>3, <3>1, <3>2, <3>4, SGoesStep DEF Shared, Removing
    <2> QED
        BY <2>2, <2>3
<1> QED
    BY <1>2, <1>3

LEMMA DestroyFreeStep ==
    ASSUME LifeInv, NEW c \in Caller, DestroyFree(c)
    PROVE  LifeInv'
<1> DEFINE g == call[c].sg
<1>1. /\ call[c].pc = "free" /\ g \in Groups /\ g # Root
      /\ sg[g].children = <<>> /\ sg[g].threads = {}
    BY DEF DestroyFree, At, LifeInv, CallOK, Shared
<1>2. CASE mem[g] # "live"
    <2>1. /\ misuse' = "destroy"
          /\ UNCHANGED <<mem, sg, all, ts, tree, proclock, call>>
        BY <1>2, Zenon DEF DestroyFree, Safely
    <2> QED
        BY <2>1, StopStep
<1>3. CASE mem[g] = "live"
    <2> DEFINE n == Doing("unlink", g, NULL, {})
    <2>1. /\ mem' = [mem EXCEPT ![g] = "emptied"]
          /\ Goes(c, n)
          /\ UNCHANGED <<sg, all, ts, tree, proclock, misuse>>
        BY <1>3, Zenon DEF DestroyFree, Safely, Goes
    <2>2. n \in CallFields /\ n.pc = "unlink" /\ n.sg = g
        BY <1>1 DEF CallFields, Doing
    <2> HIDE DEF n
    <2>3. /\ call' \in [Caller -> CallFields] /\ call'[c] = n
          /\ \A d \in Caller \ {c} : call'[d] = call[d]
        BY <2>1, <2>2, CallerGoes DEF LifeInv
    <2>4. /\ mem' \in [Groups -> {"free", "live", "emptied"}]
          /\ mem'[g] = "emptied" /\ \A h \in Groups \ {g} : mem'[h] = mem[h]
        BY <1>1, <2>1 DEF LifeInv, TypeOK
    <2>5. TypeOK'
        BY <2>1, <2>3, <2>4 DEF LifeInv, TypeOK
    <2>6. /\ tree.x = NULL /\ \A d \in Caller : call[d].pc \notin Exclusive
          /\ \A t \in Thread : ts[t].state = "alive" =>
                    t \in sg[ts[t].group].threads
        BY <1>1, SharedListed DEF Shared, Removing
    <2>7. LinksOK'
        <3>1. all = {h \in Groups : mem'[h] # "free"}
            BY <1>1, <1>3, <2>4 DEF LifeInv, LinksOK, Allocated
        <3> QED
            BY <1>1, <2>1, <2>4, <3>1, NullIsNone
               DEF LifeInv, LinksOK, Allocated
    <2>8. Rooted' /\ Distinct'
        BY <2>1 DEF LifeInv, Rooted, Distinct, Ancestors, Closed
    <2>9. ASSUME NEW d \in Caller
          PROVE  CallOK(d)'
        <3>1. CallOK(d) /\ CallOK(c)
            BY DEF LifeInv
        <3>2. CASE d = c
            <4>1. tree'.x # c /\ c \in tree'.s
                BY <1>1, <2>1, <3>1 DEF CallOK, Shared, Exclusive, Removing
            <4> QED
                BY <1>1, <2>1, <2>2, <2>3, <2>4, <3>2, <4>1
                   DEF CallOK, Exclusive, Shared, Removing
        <3>3. CASE d # c
            <4>1. call'[d] = call[d] /\ call[d].pc \notin Exclusive
                BY <2>3, <2>6, <3>3
            <4>2. call[d].pc \in Removing =>
                    call[d].sg \in Groups /\ mem'[call[d].sg] = "emptied"
                BY <2>4, <3>1 DEF CallOK, Shared, Removing
            <4> QED
                BY <2>1, <3>1, <4>1, <4>2 DEF CallOK, Exclusive
        <3> QED
            BY <3>2, <3>3
    <2>10. Emptied'
        <3>1. ASSUME NEW h \in Groups, mem'[h] = "emptied"
              PROVE  \E d \in Caller : call'[d].pc \in Removing
                                       /\ call'[d].sg = h
            <4>1. CASE h = g
                BY <2>2, <2>3, <4>1 DEF Removing
            <4>2. CASE h # g
                <5>1. PICK d \in Caller : call[d].pc \in Removing
                                          /\ call[d].sg = h
                    BY <2>4, <3>1, <4>2 DEF LifeInv, Emptied
                <5> QED
                    BY <1>1, <2>3, <5>1 DEF Removing
            <4> QED
                BY <4>1, <4>2
        <3>2. ASSUME NEW d \in Caller, NEW e \in Caller,
                     call'[d].pc \in Removing, call'[e].pc \in Removing,
                     call'[d].sg = call'[e].sg
              PROVE  d = e
            <4>1. \A f \in Caller \ {c} :
                    call'[f].pc \in Removing => call'[f].sg # g
                BY <1>3, <2>3 DEF LifeInv, CallOK
            <4>2. CASE d = c \/ e = c
                BY <2>2, <2>3, <3>2, <4>1, <4>2
            <4>3. CASE d # c /\ e # c
                BY <2>3, <3>2, <4>3 DEF LifeInv, Emptied
            <4> QED
                BY <4>2, <4>3
        <3> QED
            BY <3>1, <3>2 DEF Emptied
    <2>11. ThreadsOK'
        <3>1. ASSUME NEW t \in Thread, ts[t].state = "alive"
              PROVE  mem'[ts[t].group] = "live"
            <4>1. ts[t].group # g /\ mem[ts[t].group] = "live"
                BY <1>1, <2>6, <3>1 DEF LifeInv, ThreadsOK
            <4>2. ts[t].group \in Groups
                BY DEF LifeInv, TypeOK
            <4> QED
                BY <2>4, <4>1, <4>2
        <3> QED
            BY <2>1, <3>1 DEF LifeInv, ThreadsOK
    <2>12. ThreadsListed'
        <3>1. SameThreads /\ SameMoves /\ ts' = ts
            BY SMTT(60), <1>1, <2>1, <2>2, <2>3
               DEF SameThreads, SameMoves, Moving, MovesTo
        <3> QED
            BY <2>5, <3>1, SameLists, Zenon
    <2> QED
        BY <2>1, <2>5, <2>7, <2>8, <2>9, <2>10, <2>11, <2>12 DEF LifeInv
<1> QED
    BY <1>2, <1>3

(* The removals begin: who was to unlink a group now unlinks it. *)
LEMMA DestroyUnlinkStep ==
    ASSUME LifeInv, NEW c \in Caller, DestroyUnlink(c)
    PROVE  LifeInv'
<1>1. call[c].pc = "unlink"
    BY DEF DestroyUnlink, At
<1>2. CASE Finding \cup Unlinking # {}
    <2>1. /\ misuse' = "lists"
          /\ UNCHANGED <<mem, sg, all, ts, tree, proclock, call>>
        BY <1>2, Zenon DEF DestroyUnlink, Safely
    <2> QED
        BY <2>1, StopStep
<1>3. CASE Finding \cup Unlinking = {}
    <2> DEFINE n == Doing("unlinking", call[c].sg, NULL, {})
    <2>1. /\ Goes(c, n)
          /\ UNCHANGED <<mem, sg, all, ts, tree, proclock, misuse>>
        BY <1>3, Zenon DEF DestroyUnlink, Safely, Goes, lists
    <2>2. call[c].sg \in Groups
        BY <1>1 DEF LifeInv, CallOK
    <2>3. n \in CallFields /\ n.pc = "unlinking" /\ n.sg = call[c].sg
        BY <2>2 DEF CallFields, Doing
    <2> HIDE DEF n
    <2>4. /\ call' \in [Caller -> CallFields]
          /\ call'[c].pc = "unlinking" /\ call'[c].sg = call[c].sg
          /\ \A d \in Caller \ {c} : call'[d] = call[d]
        BY <2>1, <2>3, CallerGoes DEF LifeInv
    <2>5. TypeOK'
        BY <2>1, <2>4 DEF LifeInv, TypeOK
    <2>6. \A h \in Groups \ all : sg'[h].threads = {}
        BY <2>1 DEF LifeInv, LinksOK
    <2>7. LinksOK' /\ Rooted' /\ Distinct'
        BY <2>1, <2>6, SameTree
    <2>8. /\ \A d \in Caller : call'[d].sg = call[d].sg
          /\ \A d \in Caller : call'[d].pc \in Removing <=>
                                call[d].pc \in Removing
        BY <1>1, <2>4 DEF Removing
    <2>9. \A p : Alive(p)' = Alive(p)
        BY <2>1 DEF Alive
    <2>10. ASSUME NEW d \in Caller
          PROVE  CallOK(d)'
        <3>1. CallOK(d)
            BY DEF LifeInv
        <3>2. CASE d = c
            BY <1>1, <2>1, <2>4, <3>1, <3>2
               DEF CallOK, Exclusive, Shared, Removing
        <3>3. CASE d # c
            BY <2>1, <2>4, <2>9, <3>1, <3>3 DEF CallOK
        <3> QED
            BY <3>2, <3>3
    <2>11. Emptied'
        BY <2>1, <2>8 DEF LifeInv, Emptied
    <2>12. ThreadsOK'
        BY <2>1 DEF LifeInv, ThreadsOK
    <2>13. SameThreads /\ SameMoves /\ ts' = ts
        BY <1>1, <2>1, <2>4 DEF SameThreads, SameMoves, Moving, MovesTo
    <2>14. ThreadsListed'
        BY <2>5, <2>13, SameLists, Zenon
    <2> QED
        BY <2>1, <2>5, <2>7, <2>10, <2>11, <2>12, <2>14 DEF LifeInv
<1> QED
    BY <1>2, <1>3

LEMMA DestroyDoneStep ==
    ASSUME LifeInv, NEW c \in Caller, DestroyDone(c)
    PROVE  LifeInv'
<1> DEFINE g == call[c].sg
           p == sg[g].parent
<1>1. /\ call[c].pc = "unlinking" /\ g \in Groups /\ g # Root
      /\ sg[g].children = <<>> /\ sg[g].threads = {}
      /\ mem[g] = "emptied" /\ c \in tree.s
    BY ZenonT(60) DEF DestroyDone, At, LifeInv, CallOK, Shared, Removing
<1>2. g \in all /\ p \in all /\ p \in Groups /\ p # g /\ mem[p] # "free"
    <2>1. g \in all /\ p \in all /\ p \in Groups /\ mem[p] # "free"
        BY <1>1 DEF LifeInv, LinksOK, Allocated
    <2>2. g \in ToSet(sg[p].children)
        BY SMTT(60), <1>1, <2>1 DEF LifeInv, LinksOK
    <2>3. sg[p].children # <<>>
        BY <2>2 DEF ToSet
    <2> QED
        BY <1>1, <2>1, <2>3
<1>3. /\ sg' = [sg EXCEPT ![p].children = Without(@, g), ![g].parent = NULL]
      /\ all' = all \ {g}
      /\ mem' = [mem EXCEPT ![g] = "free"]
      /\ SUnlock(c)
      /\ UNCHANGED <<ts, proclock, misuse>>
    BY <1>1, <1>2, ZenonT(60) DEF DestroyDone, Safely, Allocated
<1> DEFINE q == Without(sg[p].children, g)
<1> HIDE DEF g, p
<1>4. /\ sg[p].children \in Seq(Group) /\ g \in ToSet(sg[p].children)
      /\ IsInjective(sg[p].children) /\ g \in Group
    BY SMTT(60), <1>1, <1>2
       DEF LifeInv, LinksOK, TypeOK, GroupFields, Groups, p
<1>5. /\ q \in Seq(Group) /\ IsInjective(q)
      /\ ToSet(q) = ToSet(sg[p].children) \ {g}
    <2>1. PICK s \in Seq(Group) : s = sg[p].children
        BY SMTT(60), <1>4
    <2>2. g \in ToSet(s) /\ IsInjective(s)
        BY <1>4, <2>1
    <2>3. /\ Without(s, g) \in Seq(Group) /\ IsInjective(Without(s, g))
          /\ ToSet(Without(s, g)) = ToSet(s) \ {g}
        BY SMTT(60), <2>2, WithoutProperties
    <2> QED
        BY <2>1, <2>3, Zenon
<1> HIDE DEF q
<1>6. /\ sg' \in [Groups -> GroupFields]
      /\ sg'[p].children = q /\ sg'[g].parent = NULL
      /\ \A h \in Groups :
            /\ sg'[h].id = sg[h].id /\ sg'[h].name = sg[h].name
            /\ sg'[h].threads = sg[h].threads
            /\ h # g => sg'[h].parent = sg[h].parent
            /\ h # p => sg'[h].children = sg[h].children
    <2> DEFINE mid == WithChildren(sg, p, q)
    <2>1. sg \in [Groups -> GroupFields]
        BY DEF LifeInv, TypeOK
    <2>2. OnlyChildren(sg, p, q, mid)
        BY <1>2, <1>5, <2>1, WithChildrenIs, Zenon
    <2>3. sg' = WithParent(mid, g, NULL)
        BY <1>3, Zenon DEF WithParent, WithChildren, q
    <2> HIDE DEF mid
    <2>4. mid \in [Groups -> GroupFields]
        BY <2>2 DEF OnlyChildren
    <2>5. NULL \in Groups \cup {NULL}
        OBVIOUS
    <2>6. OnlyParent(mid, g, NULL, sg')
        BY <1>1, <2>3, <2>4, <2>5, WithParentIs, ZenonT(60)
    <2> QED
        BY <1>2, <2>2, <2>6 DEF OnlyChildren, OnlyParent
<1>7. /\ mem' \in [Groups -> {"free", "live", "emptied"}]
      /\ mem'[g] = "free" /\ \A h \in Groups \ {g} : mem'[h] = mem[h]
    BY <1>1, <1>3 DEF LifeInv, TypeOK
<1>8. /\ call' \in [Caller -> CallFields] /\ call'[c] = Idle
      /\ \A d \in Caller \ {c} : call'[d] = call[d]
    <2>1. Goes(c, Idle) /\ Idle \in CallFields
        BY <1>3, Doings DEF SUnlock, Goes
    <2> QED
        BY SMTT(60), <2>1, CallerGoes DEF LifeInv
<1>9. /\ tree' \in [x : Caller \cup {NULL}, s : SUBSET Caller]
      /\ tree'.x = tree.x /\ tree'.s = tree.s \ {c}
    <2>1. tree \in [x : Caller \cup {NULL}, s : SUBSET Caller]
        BY SMTT(60) DEF LifeInv, TypeOK
    <2>2. tree' = [tree EXCEPT !.s = tree.s \ {c}]
        BY <1>3 DEF SUnlock
    <2> QED
        BY <2>1, <2>2
<1>10. /\ tree.x = NULL /\ \A d \in Caller : call[d].pc \notin Exclusive
       /\ \A t \in Thread : ts[t].state = "alive" =>
                    t \in sg[ts[t].group].threads
    BY SMTT(120), <1>1, SharedListed DEF Shared, Removing
<1>11. TypeOK'
    BY ZenonT(60), <1>3, <1>6, <1>7, <1>8, <1>9, <1>10 DEF LifeInv, TypeOK
<1>12. Idle.pc = "idle"
    BY Doings
<1>13. \A h \in all : h # g => sg[h].parent # g
    <2>1. ToSet(sg[g].children) = {}
        BY <1>1 DEF ToSet
    <2>2. \A h \in all \ {Root} : sg[h].parent # g
        BY <1>2, <2>1 DEF LifeInv, LinksOK
    <2>3. sg[Root].parent # g
        BY <1>1, NullIsNone DEF LifeInv, LinksOK
    <2> QED
        BY <2>2, <2>3
<1>14. LinksOK'
    <2>1. all' = {h \in Groups : mem'[h] # "free"}
        BY <1>3, <1>7 DEF LifeInv, LinksOK, Allocated
    <2>2. mem'[Root] = "live" /\ sg'[Root].parent = NULL /\ sg'[Root].id = 0
        BY <1>1, <1>6, <1>7, NullIsNone DEF LifeInv, LinksOK
    <2>3. \A h \in Groups \ all' : sg'[h].parent = NULL /\ sg'[h].threads = {}
        <3>1. \A h \in Groups \ all :
                sg[h].parent = NULL /\ sg[h].threads = {}
            BY SMTT(60) DEF LifeInv, LinksOK
        <3>2. \A h \in Groups \ all' : h = g \/ h \in Groups \ all
            BY <1>3
        <3> HIDE DEF g
        <3> QED
            BY <1>1, <1>6, <3>1, <3>2
    <2>4. ASSUME NEW h \in all' \ {Root}
          PROVE  sg'[h].parent \in all' /\ sg'[h].parent = sg[h].parent
        <3>1. h \in all \ {Root} /\ h # g /\ h \in Groups
            BY <1>3 DEF LifeInv, TypeOK
        <3>2. sg[h].parent \in all
            BY <3>1 DEF LifeInv, LinksOK
        <3>3. sg[h].parent # g
            BY <1>13, <3>1
        <3>4. sg'[h].parent = sg[h].parent
            BY SMTT(60), <1>6, <3>1
        <3>5. sg[h].parent \in all'
            BY <1>3, <3>2, <3>3
        <3> QED
            BY SMTT(60), <3>4, <3>5
    <2>5. ASSUME NEW h \in all'
          PROVE  /\ IsInjective(sg'[h].children)
                 /\ ToSet(sg'[h].children)
                        = {k \in all' \ {Root} : sg'[k].parent = h}
        <3>1. h \in all /\ h # g /\ h \in Groups
            BY <1>3 DEF LifeInv, TypeOK
        <3>2. /\ IsInjective(sg[h].children)
              /\ ToSet(sg[h].children) = {k \in all \ {Root} : sg[k].parent = h}
            BY SMTT(120), <3>1 DEF LifeInv, LinksOK
        <3>3. {k \in all' \ {Root} : sg'[k].parent = h}
                = {k \in all \ {Root} : sg[k].parent = h} \ {g}
            BY ZenonT(120), <1>3, <2>4
        <3>4. CASE h = p
            BY <1>5, <1>6, <3>2, <3>3, <3>4
        <3>5. CASE h # p
            BY <1>6, <3>1, <3>2, <3>3, <3>5 DEF p
        <3> QED
            BY SMTT(60), <3>4, <3>5
    <2> QED
        BY SMTT(60), <2>1, <2>2, <2>3, <2>4, <2>5 DEF LinksOK, Allocated
<1>15. Rooted'
    <2>1. ASSUME NEW h \in all', NEW S \in SUBSET Groups, h \in S, Closed(S)'
          PROVE  Root \in S
        <3>1. h \in all /\ h # g /\ Root \in Ancestors(h)
            BY <1>3, <2>1 DEF LifeInv, Rooted
        <3>2. \A k \in S \ {g} : k \in Groups /\ sg[k].parent \in S \cup {NULL}
            BY <1>6, <2>1 DEF Closed
        <3>3. \A k \in S \ {g} : sg[k].parent # g
            <4>1. \A k \in Groups \ all : sg[k].parent = NULL
                BY DEF LifeInv, LinksOK
            <4>2. g # NULL
                BY <1>1, NullIsNone
            <4> QED
                BY <1>13, <3>2, <4>1, <4>2
        <3>4. Closed(S \ {g})
            BY <3>2, <3>3 DEF Closed
        <3>5. h \in S \ {g} /\ S \ {g} \in SUBSET Groups
            BY <2>1, <3>1
        <3>6. Root \in S \ {g}
            BY <3>1, <3>4, <3>5 DEF Ancestors
        <3> QED
            BY SMTT(60), <3>6
    <2>2. \A h \in all' : Root \in Ancestors(h)'
        BY <2>1, NullIsNone DEF Ancestors
    <2> QED
        BY <2>2 DEF Rooted
<1>16. Distinct'
    <2>1. \A h \in all' : h \in all /\ h # g /\ h \in Groups
        BY <1>3 DEF LifeInv, TypeOK
    <2> QED
        BY SMTT(60), <1>6, <2>1 DEF LifeInv, Distinct
<1>17. \A d \in Caller \ {c} : call[d].pc \in Removing => call[d].sg # g
    BY <1>1 DEF LifeInv, Emptied, Removing, g
<1>18. ASSUME NEW d \in Caller
       PROVE  CallOK(d)'
    <2>1. CallOK(d) /\ CallOK(c)
        BY DEF LifeInv
    <2>2. CASE d = c
        <3>1. tree'.x # c /\ c \notin tree'.s
            BY <1>9, <1>10, NullIsNone
        <3> QED
            BY <1>8, <1>12, <2>2, <3>1 DEF CallOK, Exclusive, Shared, Removing
    <2>3. CASE d # c
        <3>1. call'[d] = call[d] /\ call[d].pc \notin Exclusive
            BY <1>8, <1>10, <2>3
        <3>2. call[d].pc \in Removing =>
                call[d].sg \in Groups /\ mem'[call[d].sg] = "emptied"
            BY <1>7, <1>17, <2>1, <2>3 DEF CallOK, Shared, Removing
        <3>3. call[d].pc \in {"free"} \cup Removing =>
                /\ call[d].sg \in Groups /\ sg[call[d].sg].children = <<>>
                /\ sg[call[d].sg].threads = {}
            BY SMTT(60), <2>1 DEF CallOK, Shared, Removing
        <3>4. sg[p].children # <<>>
            BY <1>4 DEF ToSet
        <3>5. call[d].pc \in {"free"} \cup Removing =>
                /\ sg'[call[d].sg].children = <<>>
                /\ sg'[call[d].sg].threads = {}
            BY <1>6, <3>3, <3>4
        <3>6. (tree'.x = d <=> tree.x = d) /\ (d \in tree'.s <=> d \in tree.s)
            BY <1>9, <2>3
        <3> QED
            BY <2>1, <3>1, <3>2, <3>5, <3>6 DEF CallOK, Exclusive
    <2> QED
        BY <2>2, <2>3
<1>19. Emptied'
    <2>1. ASSUME NEW h \in Groups, mem'[h] = "emptied"
          PROVE  \E d \in Caller : call'[d].pc \in Removing /\ call'[d].sg = h
        <3>1. h # g /\ mem[h] = "emptied"
            BY <1>7, <2>1
        <3>2. PICK d \in Caller : call[d].pc \in Removing /\ call[d].sg = h
            BY <3>1 DEF LifeInv, Emptied
        <3> QED
            BY <1>8, <3>1, <3>2 DEF g
    <2>2. \A d \in Caller : call'[d].pc \in Removing => call'[d] = call[d]
        BY SMTT(60), <1>8, <1>12 DEF Removing
    <2> QED
        BY <2>1, <2>2 DEF LifeInv, Emptied
<1>20. ThreadsOK'
    <2>1. ASSUME NEW t \in Thread, ts[t].state = "alive"
          PROVE  mem'[ts[t].group] = "live"
        <3>1. mem[ts[t].group] = "live" /\ ts[t].group \in Groups
            BY <2>1 DEF LifeInv, ThreadsOK, TypeOK
        <3> QED
            BY <1>1, <1>7, <3>1
    <2> QED
        BY <1>3, <2>1 DEF LifeInv, ThreadsOK
<1>21. ThreadsListed'
    <2>1. SameThreads /\ ts' = ts
        BY ZenonT(60), <1>3, <1>6 DEF SameThreads
    <2>2. SameMoves
        BY <1>1, <1>8, <1>12 DEF SameMoves, Moving, MovesTo
    <2> QED
        BY <1>11, <2>1, <2>2, SameLists, ZenonT(120)
<1> QED
    BY SMTT(120), <1>3, <1>11, <1>14, <1>15, <1>16, <1>18, <1>19, <1>20, <1>21
       DEF LifeInv

-----------------------------------------------------------------------------
(* create *)

(* There is a number that is not in use, as the new group has none yet.    *)
LEMMA FreeIdIsNew ==
    ASSUME LifeInv, NEW g \in Group, mem[g] = "free"
    PROVE  /\ FreeId \in 1 .. MaxId
           /\ \A h \in all : sg[h].id # FreeId
<1> DEFINE used == {h \in Group : mem[h] # "free"}
           ids == {sg[h].id : h \in used}
           free == (1 .. MaxId) \ ids
<1>1. IsFiniteSet(Group) /\ MaxId = Cardinality(Group) /\ MaxId \in Nat
    BY LifeAssumption, NullIsNone DEF MaxId
<1>2. IsFiniteSet(Group \ {g}) /\ Cardinality(Group \ {g}) = MaxId - 1
    BY <1>1, FS_RemoveElement
<1>3. used \subseteq Group \ {g}
    OBVIOUS
<1>4. IsFiniteSet(used) /\ Cardinality(used) <= MaxId - 1
    BY <1>2, <1>3, FS_Subset
<1>5. IsFiniteSet(ids) /\ Cardinality(ids) <= MaxId - 1
    <2>1. [h \in used |-> sg[h].id] \in Surjection(used, ids)
        BY DEF Surjection
    <2>2. IsFiniteSet(ids) /\ Cardinality(ids) <= Cardinality(used)
        BY <1>4, <2>1, FS_Surjection
    <2>3. Cardinality(ids) \in Nat /\ Cardinality(used) \in Nat
        BY <1>4, <2>2, FS_CardinalityType
    <2> QED
        BY <1>1, <1>4, <2>2, <2>3
<1>6. free # {}
    <2>1. SUFFICES ASSUME 1 .. MaxId \subseteq ids
                   PROVE  FALSE
        OBVIOUS
    <2>2. Cardinality(1 .. MaxId) = MaxId
        BY <1>1, FS_Interval
    <2>3. Cardinality(1 .. MaxId) <= Cardinality(ids)
        BY <1>5, <2>1, FS_Subset
    <2>4. Cardinality(ids) \in Nat
        BY <1>5, FS_CardinalityType
    <2> QED
        BY <1>1, <1>5, <2>2, <2>3, <2>4
<1>7. FreeId = Min(free)
    BY Zenon DEF FreeId
<1>8. free \in SUBSET Nat
    OBVIOUS
<1> HIDE DEF free
<1>9. Min(free) \in free
    BY <1>6, <1>8, MinOfPositions
<1>10. FreeId \in 1 .. MaxId /\ FreeId \notin ids
    BY <1>7, <1>9 DEF free
<1>11. ASSUME NEW h \in all
       PROVE  sg[h].id # FreeId
    <2>1. h \in Groups /\ mem[h] # "free" /\ sg[Root].id = 0
        BY DEF LifeInv, LinksOK, Allocated
    <2>2. CASE h = Root
        BY <1>1, <1>10, <2>1, <2>2
    <2>3. CASE h # Root
        <3>1. h \in used
            BY <2>1, <2>3 DEF Groups
        <3>2. sg[h].id \in ids
            BY <3>1
        <3> QED
            BY <1>10, <3>2
    <2> QED
        BY <2>2, <2>3
<1> QED
    BY <1>10, <1>11

LEMMA CreateStep ==
    ASSUME LifeInv, NEW c \in Caller, NEW id, NEW name \in Name \cup {NoName},
           NEW g \in Group, Create(c, id, name, g)
    PROVE  LifeInv'
<1>1. PICK p \in Groups :
        /\ At(c, "idle") /\ XFree
        /\ Found(id, p) /\ mem[g] = "free"
        /\ name # NoName => ~NameTaken(p, name)
        /\ mem' = [mem EXCEPT ![g] = "live"]
        /\ sg' = [sg EXCEPT ![g] = [id |-> FreeId, name |-> name,
                                    parent |-> p, children |-> <<>>,
                                    threads |-> {}],
                            ![p].children = Append(@, g)]
        /\ all' = all \cup {g}
        /\ call' = [call EXCEPT ![c] = Doing("created", g, NULL, {})]
        /\ UNCHANGED <<ts, tree, proclock, misuse>>
    BY Zenon DEF Create
<1>2. /\ p \in all /\ p # g /\ g \in Groups /\ g # Root /\ g \notin all
      /\ tree.x = NULL /\ tree.s = {} /\ call[c].pc = "idle"
    BY <1>1, LifeAssumption
       DEF LifeInv, LinksOK, Allocated, Found, Groups, XFree, At
<1>3. FreeId \in 1 .. MaxId /\ \A h \in all : sg[h].id # FreeId
    BY <1>1, FreeIdIsNew
<1> DEFINE new == [id |-> FreeId, name |-> name, parent |-> p,
                   children |-> <<>>, threads |-> {}]
           q == Append(sg[p].children, g)
<1>4. /\ new \in GroupFields /\ new.id = FreeId /\ new.name = name
      /\ new.parent = p /\ new.children = <<>> /\ new.threads = {}
    BY <1>3, NullIsNone DEF GroupFields
<1>5. sg[p].children \in Seq(Group) /\ IsInjective(sg[p].children)
      /\ ToSet(sg[p].children) = {h \in all \ {Root} : sg[h].parent = p}
    BY <1>2 DEF LifeInv, LinksOK, TypeOK, GroupFields
<1>6. q \in Seq(Group) /\ IsInjective(q)
      /\ ToSet(q) = ToSet(sg[p].children) \cup {g}
    <2>1. PICK s \in Seq(Group) : s = sg[p].children
        BY <1>5
    <2>2. g \notin ToSet(s) /\ IsInjective(s)
        BY <1>2, <1>5, <2>1
    <2>3. /\ Append(s, g) \in Seq(Group) /\ IsInjective(Append(s, g))
          /\ ToSet(Append(s, g)) = ToSet(s) \cup {g}
        BY <2>2, AppendContent
    <2> QED
        BY <2>1, <2>3, Zenon
<1> HIDE DEF new, q
<1>7. /\ sg' \in [Groups -> GroupFields] /\ sg'[g] = new
      /\ sg'[p].children = q
      /\ \A h \in Groups \ {g} :
            /\ sg'[h].id = sg[h].id /\ sg'[h].name = sg[h].name
            /\ sg'[h].threads = sg[h].threads
            /\ sg'[h].parent = sg[h].parent
            /\ h # p => sg'[h].children = sg[h].children
    <2> DEFINE mid == [sg EXCEPT ![g] = new]
    <2>1. sg \in [Groups -> GroupFields]
        BY DEF LifeInv, TypeOK
    <2>2. /\ mid \in [Groups -> GroupFields] /\ mid[g] = new
          /\ \A h \in Groups \ {g} : mid[h] = sg[h]
        <3> HIDE DEF GroupFields
        <3> QED
            BY <1>2, <1>4, <2>1
    <2>4. sg' = WithChildren(mid, p, q)
        BY <1>1, Zenon DEF WithChildren, new, q
    <2> HIDE DEF mid
    <2>5. OnlyChildren(mid, p, q, sg')
        BY <1>6, <2>2, <2>4, WithChildrenIs, Zenon
    <2>6. sg'[g] = mid[g]
        <3>1. \A h \in Groups : h # p => sg'[h] = mid[h]
            BY <2>2, <2>4 DEF WithChildren
        <3> QED
            BY <1>2, <3>1
    <2> QED
        BY <1>2, <2>2, <2>5, <2>6 DEF OnlyChildren
<1>8. /\ mem' \in [Groups -> {"free", "live", "emptied"}]
      /\ mem'[g] = "live" /\ \A h \in Groups \ {g} : mem'[h] = mem[h]
    BY <1>1, <1>2 DEF LifeInv, TypeOK
<1> DEFINE n == Doing("created", g, NULL, {})
<1>9. n \in CallFields /\ n.pc = "created" /\ n.sg = g
    BY <1>2 DEF CallFields, Doing
<1>10. Goes(c, n)
    BY <1>1 DEF Goes
<1> HIDE DEF n
<1>11. /\ call' \in [Caller -> CallFields] /\ call'[c] = n
       /\ \A d \in Caller \ {c} : call'[d] = call[d]
    BY <1>9, <1>10, CallerGoes DEF LifeInv
<1>12. TypeOK'
    BY ZenonT(60), <1>1, <1>2, <1>7, <1>8, <1>11 DEF LifeInv, TypeOK
<1>13. \A h \in all : h # g /\ h \in Groups /\ sg[h].parent # g
    BY <1>2, NullIsNone DEF LifeInv, LinksOK, TypeOK
<1>14. LinksOK'
    <2>1. all' = {h \in Groups : mem'[h] # "free"}
        BY <1>1, <1>2, <1>8 DEF LifeInv, LinksOK, Allocated
    <2>2. mem'[Root] = "live" /\ sg'[Root].parent = NULL /\ sg'[Root].id = 0
        BY <1>2, <1>7, <1>8, NullIsNone DEF LifeInv, LinksOK
    <2>3. \A h \in Groups \ all' : sg'[h].parent = NULL /\ sg'[h].threads = {}
        BY <1>1, <1>7 DEF LifeInv, LinksOK
    <2>4. ASSUME NEW h \in all' \ {Root}
          PROVE  sg'[h].parent \in all'
        <3>1. CASE h = g
            BY <1>1, <1>2, <1>4, <1>7, <3>1
        <3>2. CASE h # g
            <4>1. h \in all \ {Root} /\ sg'[h].parent = sg[h].parent
                BY <1>1, <1>7, <1>13, <3>2
            <4> QED
                BY <1>1, <4>1 DEF LifeInv, LinksOK
        <3> QED
            BY <3>1, <3>2
    <2>5. ASSUME NEW h \in all'
          PROVE  /\ IsInjective(sg'[h].children)
                 /\ ToSet(sg'[h].children)
                        = {k \in all' \ {Root} : sg'[k].parent = h}
        <3>1. /\ \A k \in all : sg'[k].parent = sg[k].parent
              /\ sg'[g].parent = p
            BY <1>4, <1>7, <1>13
        <3>2. CASE h = g
            <4>1. {k \in all' \ {Root} : sg'[k].parent = h} = {}
                BY <1>1, <1>2, <1>13, <3>1, <3>2
            <4>2. ToSet(<<>>) = {} /\ IsInjective(<<>>)
                BY DEF ToSet, IsInjective
            <4> QED
                BY <1>4, <1>7, <3>2, <4>1, <4>2
        <3>3. CASE h = p
            <4>1. {k \in all' \ {Root} : sg'[k].parent = h}
                    = {k \in all \ {Root} : sg[k].parent = h} \cup {g}
                BY <1>1, <1>2, <3>1, <3>3
            <4> QED
                BY <1>5, <1>6, <1>7, <3>3, <4>1
        <3>4. CASE h # g /\ h # p
            <4>1. {k \in all' \ {Root} : sg'[k].parent = h}
                    = {k \in all \ {Root} : sg[k].parent = h}
                BY <1>1, <1>2, <3>1, <3>4
            <4>2. h \in all /\ sg'[h].children = sg[h].children
                BY <1>1, <1>7, <1>13, <3>4
            <4> QED
                BY <4>1, <4>2 DEF LifeInv, LinksOK
        <3> QED
            BY <3>2, <3>3, <3>4
    <2> QED
        BY <2>1, <2>2, <2>3, <2>4, <2>5 DEF LinksOK, Allocated
<1>15. Rooted'
    <2>1. ASSUME NEW h \in all, NEW S \in SUBSET Groups, h \in S, Closed(S)'
          PROVE  Root \in S
        <3>1. \A k \in S \ {g} : sg[k].parent \in (S \ {g}) \cup {NULL}
            <4>1. \A k \in S \ {g} : sg[k].parent \in S \cup {NULL}
                BY <1>7, <2>1 DEF Closed
            <4>2. \A k \in S \ {g} : sg[k].parent # g
                BY <1>2, <1>13, NullIsNone DEF LifeInv, LinksOK
            <4> QED
                BY <4>1, <4>2
        <3>2. Closed(S \ {g}) /\ h \in S \ {g} /\ S \ {g} \in SUBSET Groups
            BY <1>13, <2>1, <3>1 DEF Closed
        <3>3. Root \in S \ {g}
            BY <3>2 DEF LifeInv, Rooted, Ancestors
        <3> QED
            BY <3>3
    <2>2. ASSUME NEW S \in SUBSET Groups, g \in S, Closed(S)'
          PROVE  Root \in S
        <3>1. p \in S
            <4>1. sg'[g].parent \in S \cup {NULL}
                BY <2>2 DEF Closed
            <4> QED
                BY <1>4, <1>7, <4>1, NullIsNone
        <3> QED
            BY <1>2, <2>1, <2>2, <3>1
    <2>3. \A h \in all' : Root \in Ancestors(h)'
        BY <1>1, <2>1, <2>2, NullIsNone DEF Ancestors
    <2> QED
        BY <2>3 DEF Rooted
<1>16. Distinct'
    <2>1. \A h \in all : /\ sg'[h].id = sg[h].id /\ sg'[h].name = sg[h].name
                         /\ sg'[h].parent = sg[h].parent
        BY <1>7, <1>13
    <2>2. ASSUME NEW h \in all
          PROVE  /\ sg'[h].id # sg'[g].id
                 /\ \/ sg'[h].parent # sg'[g].parent
                    \/ sg'[g].name = NoName
                    \/ sg'[h].name # sg'[g].name
        <3>1. sg'[g].id = FreeId /\ sg'[g].parent = p /\ sg'[g].name = name
            BY <1>4, <1>7
        <3>2. ASSUME name # NoName, sg[h].parent = p
              PROVE  sg[h].name # name
            <4>1. h # Root
                BY <3>2, NullIsNone DEF LifeInv, LinksOK
            <4>2. h \in ToSet(sg[p].children)
                BY <1>5, <3>2, <4>1
            <4>3. PICK i \in DOMAIN sg[p].children : sg[p].children[i] = h
                BY <4>2 DEF ToSet
            <4> QED
                BY <1>1, <3>2, <4>3 DEF NameTaken
        <3> QED
            BY <1>3, <2>1, <3>1, <3>2
    <2>3. ASSUME NEW h \in all, NEW k \in all, h # k
          PROVE  /\ sg'[h].id # sg'[k].id
                 /\ \/ sg'[h].parent # sg'[k].parent
                    \/ sg'[h].name = NoName
                    \/ sg'[h].name # sg'[k].name
        BY <2>1, <2>3 DEF LifeInv, Distinct
    <2>4. ASSUME NEW h \in all', NEW k \in all', h # k
          PROVE  /\ sg'[h].id # sg'[k].id
                 /\ \/ sg'[h].parent # sg'[k].parent
                    \/ sg'[h].name = NoName
                    \/ sg'[h].name # sg'[k].name
        <3>1. (h \in all \/ h = g) /\ (k \in all \/ k = g)
            BY <1>1
        <3>2. CASE h = g
            <4>1. k \in all
                BY <2>4, <3>1, <3>2
            <4> QED
                BY <2>2, <3>2, <4>1
        <3>3. CASE k = g
            <4>1. h \in all
                BY <2>4, <3>1, <3>3
            <4> QED
                BY <2>2, <3>3, <4>1
        <3> QED
            BY <2>3, <2>4, <3>1, <3>2, <3>3
    <2> QED
        BY <2>4 DEF Distinct
<1>17. ASSUME NEW d \in Caller
       PROVE  /\ CallOK(d)' /\ call[d].pc \notin Shared \cup Exclusive
              /\ call'[d].pc \notin Shared \cup Exclusive
    <2>1. CallOK(d)
        BY DEF LifeInv
    <2>2. /\ tree' = tree /\ tree.x # d /\ d \notin tree.s
          /\ call[d].pc \notin Shared \cup Exclusive
        BY <1>1, <1>2, <2>1, NullIsNone DEF CallOK
    <2>3. CASE d = c
        BY <1>2, <1>9, <1>11, <2>2, <2>3 DEF CallOK, Shared, Exclusive, Removing
    <2>4. CASE d # c
        BY <1>11, <2>1, <2>2, <2>4 DEF CallOK, Shared, Exclusive, Removing
    <2> QED
        BY <2>2, <2>3, <2>4
<1>18. Emptied'
    <2>1. \A h \in Groups : mem[h] # "emptied"
        BY <1>2, ExclusiveLive
    <2>2. \A h \in Groups : mem'[h] # "emptied"
        BY <1>8, <2>1
    <2> QED
        BY <1>17, <2>2 DEF Emptied, Shared
<1>19. ThreadsOK'
    <2>1. ASSUME NEW t \in Thread, ts[t].state = "alive"
          PROVE  mem'[ts[t].group] = "live"
        <3>1. mem[ts[t].group] = "live" /\ ts[t].group \in Groups
            BY <2>1 DEF LifeInv, ThreadsOK, TypeOK
        <3> QED
            BY <1>8, <3>1
    <2> QED
        BY <1>1, <2>1 DEF LifeInv, ThreadsOK
<1>20. ThreadsListed'
    <2>1. SameThreads /\ ts' = ts
        <3>1. sg[g].threads = {}
            BY <1>2 DEF LifeInv, LinksOK
        <3> QED
            BY <1>1, <1>4, <1>7, <3>1 DEF SameThreads
    <2>2. SameMoves
        BY <1>17 DEF SameMoves, Moving, MovesTo, Exclusive
    <2> QED
        BY <1>12, <2>1, <2>2, SameLists, Zenon
<1> QED
    BY <1>1, <1>12, <1>14, <1>15, <1>16, <1>17, <1>18, <1>19, <1>20
       DEF LifeInv

-----------------------------------------------------------------------------
(* move *)

(* The exclusive holder of the tree lock is alone. *)
LEMMA MoverAlone ==
    ASSUME LifeInv, NEW c \in Caller, call[c].pc \in Exclusive
    PROVE  /\ tree.x = c /\ tree.s = {} /\ call[c].sg \in all
           /\ mem[call[c].sg] = "live"
           /\ \A d \in Caller : call[d].pc \notin Shared
           /\ \A d \in Caller \ {c} : call[d].pc \notin Exclusive
           /\ \A t \in Thread, g \in Groups :
                /\ Moving(t) <=> call[c].pc = "set" /\ call[c].at = t
                /\ MovesTo(t, g) <=> /\ call[c].pc = "set" /\ call[c].at = t
                                     /\ call[c].sg = g
<1>1. tree.x = c /\ tree.s = {}
    BY NullIsNone DEF LifeInv, TypeOK, CallOK
<1>2. \A d \in Caller : call[d].pc \notin Shared
    BY <1>1 DEF LifeInv, CallOK
<1>3. \A d \in Caller \ {c} : call[d].pc \notin Exclusive
    BY <1>1 DEF LifeInv, CallOK
<1>4. call[c].sg \in all /\ call[c].sg \in Groups
    BY DEF LifeInv, CallOK, LinksOK
<1>5. mem[call[c].sg] = "live"
    <2>1. mem[call[c].sg] # "emptied"
        BY <1>1, <1>4, ExclusiveLive
    <2>2. mem[call[c].sg] # "free"
        BY <1>4 DEF LifeInv, LinksOK, Allocated
    <2>3. mem[call[c].sg] \in {"free", "live", "emptied"}
        BY <1>4 DEF LifeInv, TypeOK
    <2> QED
        BY <2>1, <2>2, <2>3
<1>6. \A d \in Caller : call[d].pc = "set" => d = c
    BY <1>3 DEF Exclusive
<1> QED
    BY <1>1, <1>2, <1>3, <1>4, <1>5, <1>6 DEF Moving, MovesTo

(* What a step of the one caller that moves threads must show: nobody else *)
(* has the tree lock.                                                      *)
LEMMA MoverStep ==
    ASSUME LifeInv, NEW c \in Caller, NEW n \in CallFields, Goes(c, n),
           \A d \in Caller : call[d].pc \notin Shared,
           \A d \in Caller \ {c} : call[d].pc \notin Exclusive,
           tree.s = {},
           TypeOK', LinksOK', Rooted', Distinct', ThreadsOK', ThreadsListed',
           n.pc \in {"idle", "move", "set"}, tree'.s = {},
           n.pc \in Exclusive <=> tree'.x = c,
           tree'.x \in {c, NULL}, UNCHANGED <<mem, all, misuse>>,
           n.pc \in Exclusive =>
                /\ n.sg \in all
                /\ \E p \in Process : /\ p # ProcessOf[Thread0]
                                      /\ proclock'[p] = c
                                      /\ n.todo \subseteq Alive(p)',
           n.pc = "set" => n.at \in n.todo /\ ts'[n.at].group # n.sg
    PROVE  LifeInv'
<1>1. /\ call'[c] = n /\ \A d \in Caller \ {c} : call'[d] = call[d]
    BY CallerGoes DEF LifeInv
<1>2. ASSUME NEW d \in Caller
      PROVE  CallOK(d)'
    <2>1. CASE d = c
        <3>1. n.pc \in Exclusive => n.sg \in Groups
            BY DEF LifeInv, LinksOK
        <3> QED
            BY <1>1, <2>1, <3>1 DEF CallOK, Exclusive, Shared, Removing
    <2>2. CASE d # c
        <3>1. call'[d] = call[d] /\ tree'.x # d /\ d \notin tree'.s
            BY <1>1, <2>2, NullIsNone
        <3>2. call[d].pc \notin Exclusive \cup Shared
            BY <2>2
        <3>3. CallOK(d)
            BY DEF LifeInv
        <3> QED
            BY <3>1, <3>2, <3>3 DEF CallOK, Exclusive, Shared, Removing
    <2> QED
        BY <2>1, <2>2
<1>3. Emptied'
    <2>1. \A g \in Groups : mem[g] # "emptied"
        BY ExclusiveLive
    <2>2. \A d \in Caller : call'[d].pc \notin Removing
        BY <1>1 DEF Shared, Removing
    <2> QED
        BY <2>1, <2>2 DEF Emptied
<1>4. misuse' \notin {"fork", "exit", "move"}
    BY DEF LifeInv
<1> QED
    BY <1>2, <1>3, <1>4 DEF LifeInv

LEMMA MoveStep ==
    ASSUME LifeInv, NEW c \in Caller, NEW p \in Process, NEW id,
           Move(c, p, id)
    PROVE  LifeInv'
<1>1. PICK g \in Groups :
        /\ At(c, "idle") /\ XFree
        /\ p # ProcessOf[Thread0] /\ Alive(p) # {} /\ proclock[p] = NULL
        /\ Found(id, g)
        /\ tree' = [tree EXCEPT !.x = c]
        /\ proclock' = [proclock EXCEPT ![p] = c]
        /\ call' = [call EXCEPT ![c] = Doing("move", g, NULL, Alive(p))]
        /\ UNCHANGED <<lists, ts, misuse>>
    BY Zenon DEF Move
<1> DEFINE n == Doing("move", g, NULL, Alive(p))
<1>2. n \in CallFields /\ n.pc = "move" /\ n.sg = g /\ n.todo = Alive(p)
    BY DEF CallFields, Doing, Alive
<1>3. Goes(c, n)
    BY <1>1 DEF Goes
<1> HIDE DEF n
<1>4. /\ UNCHANGED <<mem, sg, all, ts, misuse>> /\ g \in all
      /\ tree.x = NULL /\ tree.s = {} /\ call[c].pc = "idle"
    BY <1>1 DEF lists, Found, XFree, At
<1>5. \A d \in Caller : call[d].pc \notin Shared \cup Exclusive
    BY <1>4, NullIsNone DEF LifeInv, CallOK
<1>6. /\ tree' \in [x : Caller \cup {NULL}, s : SUBSET Caller]
      /\ tree'.x = c /\ tree'.s = {}
    <2>1. tree \in [x : Caller \cup {NULL}, s : SUBSET Caller]
        BY DEF LifeInv, TypeOK
    <2>2. tree' = [tree EXCEPT !.x = c]
        BY <1>1
    <2> QED
        BY <1>4, <2>1, <2>2
<1>7. proclock' \in [Process -> Caller \cup {NULL}] /\ proclock'[p] = c
    BY <1>1 DEF LifeInv, TypeOK
<1>8. /\ call' \in [Caller -> CallFields] /\ call'[c] = n
      /\ \A d \in Caller \ {c} : call'[d] = call[d]
    BY <1>2, <1>3, CallerGoes DEF LifeInv
<1>9. TypeOK'
    BY <1>4, <1>6, <1>7, <1>8 DEF LifeInv, TypeOK
<1>10. \A h \in Groups \ all : sg'[h].threads = {}
    BY <1>4 DEF LifeInv, LinksOK
<1>11. LinksOK' /\ Rooted' /\ Distinct'
    BY <1>4, <1>10, SameTree
<1>12. ThreadsOK' /\ Alive(p)' = Alive(p)
    BY <1>4 DEF LifeInv, ThreadsOK, Alive
<1>13. ThreadsListed'
    <2>1. SameThreads /\ ts' = ts
        BY <1>4 DEF SameThreads
    <2>2. \A d \in Caller : call[d].pc # "set" /\ call'[d].pc # "set"
        BY <1>2, <1>5, <1>8 DEF Exclusive
    <2>3. SameMoves
        BY <2>2 DEF SameMoves, Moving, MovesTo
    <2> QED
        BY <1>9, <2>1, <2>3, SameLists, Zenon
<1>14. n.pc \in Exclusive =>
        /\ n.sg \in all
        /\ \E o \in Process : /\ o # ProcessOf[Thread0] /\ proclock'[o] = c
                              /\ n.todo \subseteq Alive(o)'
    BY <1>1, <1>2, <1>4, <1>7, <1>12
<1>15. /\ \A d \in Caller : call[d].pc \notin Shared
       /\ \A d \in Caller \ {c} : call[d].pc \notin Exclusive
    BY <1>5
<1>16. /\ n.pc \in {"idle", "move", "set"} /\ n.pc # "set"
       /\ n.pc \in Exclusive <=> tree'.x = c
    BY <1>2, <1>6 DEF Exclusive
<1> QED
    BY <1>2, <1>3, <1>4, <1>6, <1>9, <1>11, <1>12, <1>13, <1>14, <1>15,
       <1>16, MoverStep

LEMMA MoveDoneStep ==
    ASSUME LifeInv, NEW c \in Caller, MoveDone(c)
    PROVE  LifeInv'
<1>1. /\ call[c].pc = "move"
      /\ tree' = [tree EXCEPT !.x = NULL]
      /\ proclock' = [p \in Process |-> IF proclock[p] = c THEN NULL
                                        ELSE proclock[p]]
      /\ call' = [call EXCEPT ![c] = Idle]
      /\ UNCHANGED <<mem, sg, all, ts, misuse>>
    BY Zenon DEF MoveDone, At, lists
<1>2. Idle \in CallFields /\ Idle.pc = "idle" /\ Goes(c, Idle)
    BY <1>1, Doings DEF Goes
<1>3. /\ tree.x = c /\ tree.s = {}
      /\ \A d \in Caller : call[d].pc \notin Shared
      /\ \A d \in Caller \ {c} : call[d].pc \notin Exclusive
    BY <1>1, MoverAlone DEF Exclusive
<1>4. /\ tree' \in [x : Caller \cup {NULL}, s : SUBSET Caller]
      /\ tree'.x = NULL /\ tree'.s = {}
    <2>1. tree \in [x : Caller \cup {NULL}, s : SUBSET Caller]
        BY DEF LifeInv, TypeOK
    <2> QED
        BY <1>1, <1>3, <2>1
<1>5. proclock' \in [Process -> Caller \cup {NULL}]
    BY <1>1 DEF LifeInv, TypeOK
<1>6. /\ call' \in [Caller -> CallFields] /\ call'[c] = Idle
      /\ \A d \in Caller \ {c} : call'[d] = call[d]
    BY <1>2, CallerGoes DEF LifeInv
<1>7. TypeOK'
    BY <1>1, <1>4, <1>5, <1>6 DEF LifeInv, TypeOK
<1>8. \A h \in Groups \ all : sg'[h].threads = {}
    BY <1>1 DEF LifeInv, LinksOK
<1>9. LinksOK' /\ Rooted' /\ Distinct'
    BY <1>1, <1>8, SameTree
<1>10. ThreadsOK'
    BY <1>1 DEF LifeInv, ThreadsOK
<1>11. ThreadsListed'
    <2>1. SameThreads /\ ts' = ts
        BY <1>1 DEF SameThreads
    <2>2. \A d \in Caller : call[d].pc # "set" /\ call'[d].pc # "set"
        BY <1>1, <1>2, <1>3, <1>6 DEF Exclusive
    <2>3. SameMoves
        BY <2>2 DEF SameMoves, Moving, MovesTo
    <2> QED
        BY <1>7, <2>1, <2>3, SameLists, ZenonT(60)
<1>12. /\ Idle.pc \notin Exclusive /\ Idle.pc # "set"
       /\ Idle.pc \in {"idle", "move", "set"}
    BY <1>2 DEF Exclusive
<1>13. tree'.x # c
    BY <1>4, NullIsNone
<1> QED
    BY <1>1, <1>2, <1>3, <1>4, <1>7, <1>9, <1>10, <1>11, <1>12, <1>13,
       MoverStep

LEMMA MoveListStep ==
    ASSUME LifeInv, NEW c \in Caller, NEW t \in Thread, MoveList(c, t)
    PROVE  LifeInv'
<1> DEFINE g == call[c].sg
           old == ts[t].group
           todo == call[c].todo
<1>1. /\ call[c].pc = "move" /\ t \in todo
      /\ UNCHANGED <<mem, all, ts, tree, proclock, misuse>>
    BY DEF MoveList, At
<1>2. /\ tree.x = c /\ tree.s = {} /\ g \in all /\ g \in Groups
      /\ \A d \in Caller : call[d].pc \notin Shared
      /\ \A d \in Caller \ {c} : call[d].pc \notin Exclusive
      /\ \A v \in Thread : ~Moving(v)
    BY <1>1, MoverAlone DEF Exclusive, LifeInv, LinksOK
<1>3. PICK p \in Process : /\ p # ProcessOf[Thread0] /\ proclock[p] = c
                           /\ todo \subseteq Alive(p)
    BY <1>1 DEF LifeInv, CallOK, Exclusive
<1>4. /\ ts[t].state = "alive" /\ old \in Groups /\ mem[old] = "live"
      /\ old \in all /\ todo \in SUBSET Thread
    BY <1>1, <1>3 DEF LifeInv, TypeOK, ThreadsOK, Alive, LinksOK, Allocated
<1>5. ThreadsOK' /\ Alive(p)' = Alive(p)
    BY <1>1 DEF LifeInv, ThreadsOK, Alive
<1>6. tree' \in [x : Caller \cup {NULL}, s : SUBSET Caller]
    BY <1>1 DEF LifeInv, TypeOK
<1>7. CASE old = g
    <2> DEFINE n == Doing("move", g, NULL, todo \ {t})
    <2>1. call' = [call EXCEPT ![c] = n] /\ sg' = sg
        BY <1>7, Zenon DEF MoveList
    <2>2. /\ n \in CallFields /\ n.pc = "move" /\ n.sg = g
          /\ n.todo = todo \ {t}
        BY <1>2, <1>4 DEF CallFields, Doing
    <2>3. Goes(c, n)
        BY <2>1 DEF Goes
    <2> HIDE DEF n
    <2>4. /\ call' \in [Caller -> CallFields] /\ call'[c] = n
          /\ \A d \in Caller \ {c} : call'[d] = call[d]
        BY <2>2, <2>3, CallerGoes DEF LifeInv
    <2>5. TypeOK'
        BY <1>1, <2>1, <2>4 DEF LifeInv, TypeOK
    <2>6. \A h \in Groups \ all : sg'[h].threads = {}
        BY <2>1 DEF LifeInv, LinksOK
    <2>7. LinksOK' /\ Rooted' /\ Distinct'
        BY <1>1, <2>1, <2>6, SameTree
    <2>8. ThreadsListed'
        <3>1. SameThreads /\ ts' = ts
            BY <1>1, <2>1 DEF SameThreads
        <3>2. \A d \in Caller : call[d].pc # "set" /\ call'[d].pc # "set"
            BY <1>1, <1>2, <2>2, <2>4 DEF Exclusive
        <3>3. SameMoves
            BY <3>2 DEF SameMoves, Moving, MovesTo
        <3> QED
            BY <2>5, <3>1, <3>3, SameLists, Zenon
    <2>9. /\ n.pc \in {"idle", "move", "set"} /\ n.pc # "set"
          /\ n.pc \in Exclusive /\ tree'.x = c /\ tree'.s = {}
        BY <1>1, <1>2, <2>2 DEF Exclusive
    <2>10. /\ n.sg \in all
           /\ \E o \in Process : /\ o # ProcessOf[Thread0]
                                 /\ proclock'[o] = c
                                 /\ n.todo \subseteq Alive(o)'
        BY <1>1, <1>2, <1>3, <1>5, <2>2
    <2> QED
        BY <1>1, <1>2, <1>5, <2>2, <2>3, <2>5, <2>7, <2>8, <2>9, <2>10,
           MoverStep
<1>8. CASE old # g
    <2> DEFINE n == Doing("set", g, t, todo)
    <2>1. /\ call' = [call EXCEPT ![c] = n]
          /\ sg' = [sg EXCEPT ![old].threads = @ \ {t},
                              ![g].threads = @ \cup {t}]
        BY <1>8, Zenon DEF MoveList
    <2>2. /\ n \in CallFields /\ n.pc = "set" /\ n.sg = g /\ n.at = t
          /\ n.todo = todo
        BY <1>2, <1>4 DEF CallFields, Doing
    <2>3. Goes(c, n)
        BY <2>1 DEF Goes
    <2> HIDE DEF n
    <2>4. /\ call' \in [Caller -> CallFields] /\ call'[c] = n
          /\ \A d \in Caller \ {c} : call'[d] = call[d]
        BY <2>2, <2>3, CallerGoes DEF LifeInv
    <2>5. /\ sg' \in [Groups -> GroupFields]
          /\ sg'[old].threads = sg[old].threads \ {t}
          /\ sg'[g].threads = sg[g].threads \cup {t}
          /\ \A h \in Groups :
            /\ sg'[h].id = sg[h].id /\ sg'[h].name = sg[h].name
            /\ sg'[h].parent = sg[h].parent
            /\ sg'[h].children = sg[h].children
            /\ h # old /\ h # g => sg'[h].threads = sg[h].threads
        <3> DEFINE x == sg[old].threads \ {t}
                   y == sg[g].threads \cup {t}
                   mid == WithThreads(sg, old, x)
        <3>1. sg \in [Groups -> GroupFields]
            BY DEF LifeInv, TypeOK
        <3>2. x \in SUBSET Thread /\ y \in SUBSET Thread
            BY <1>2, <1>4, <3>1 DEF GroupFields
        <3>3. OnlyThreads(sg, old, x, mid)
            BY <1>4, <3>1, <3>2, WithThreadsIs, ZenonT(60)
        <3>4. mid[g].threads = sg[g].threads
            BY <1>2, <1>8, <3>3 DEF OnlyThreads
        <3>5. sg' = WithThreads(mid, g, mid[g].threads \cup {t})
            BY <2>1, Zenon DEF WithThreads
        <3>6. sg' = WithThreads(mid, g, y)
            BY <3>4, <3>5, Zenon
        <3>7. mid \in [Groups -> GroupFields]
            BY <3>3 DEF OnlyThreads
        <3> HIDE DEF mid, y
        <3>8. OnlyThreads(mid, g, y, sg')
            BY <1>2, <3>2, <3>6, <3>7, WithThreadsIs, Zenon
        <3> QED
            BY <1>2, <1>4, <1>8, <3>3, <3>8 DEF OnlyThreads, y
    <2>6. TypeOK'
        BY <1>1, <2>4, <2>5 DEF LifeInv, TypeOK
    <2>7. \A h \in Groups \ all : sg'[h].threads = {}
        BY <1>2, <1>4, <2>5 DEF LifeInv, LinksOK
    <2>8. LinksOK' /\ Rooted' /\ Distinct'
        BY <1>1, <2>5, <2>7, SameTree
    <2>9. /\ \A v \in Thread : Moving(v)' <=> v = t
          /\ \A h \in Groups : MovesTo(t, h)' <=> h = g
        <3>1. \A d \in Caller : call'[d].pc = "set" <=> d = c
            BY <1>2, <2>2, <2>4 DEF Exclusive
        <3>2. call'[c].at = t /\ call'[c].sg = g
            BY <2>2, <2>4
        <3> QED
            BY <3>1, <3>2 DEF Moving, MovesTo
    <2>10. ThreadsListed'
        <3>1. ASSUME NEW h \in Groups, NEW v \in Thread
              PROVE  v \in sg'[h].threads <=> Lists(v, h)'
            <4>1. v \in sg[h].threads <=> Lists(v, h)
                BY ListsIs DEF LifeInv
            <4>2. v \in sg[h].threads
                    <=> ts[v].state = "alive" /\ ts[v].group = h
                BY <1>2, <4>1 DEF Lists
            <4>3. CASE v = t
                <5>1. Lists(v, h)' <=> h = g
                    BY <1>1, <1>4, <2>9, <4>3 DEF Lists
                <5>2. v \in sg'[h].threads <=> h = g
                    BY <1>8, <2>5, <4>2, <4>3
                <5> QED
                    BY <5>1, <5>2, Zenon
            <4>4. CASE v # t
                <5>1. Lists(v, h)' <=> ts[v].state = "alive"
                                        /\ ts[v].group = h
                    BY <1>1, <2>9, <4>4 DEF Lists
                <5>2. v \in sg'[h].threads <=> v \in sg[h].threads
                    BY <1>2, <1>4, <2>5, <4>4
                <5> QED
                    BY <4>2, <5>1, <5>2, Zenon
            <4> QED
                BY <4>3, <4>4
        <3>2. \A h \in Groups : sg'[h].threads \subseteq Thread
            BY <2>6 DEF TypeOK, GroupFields
        <3> QED
            BY <3>1, <3>2, ListsIsNext
    <2>11. /\ n.pc \in {"idle", "move", "set"}
           /\ n.pc \in Exclusive /\ tree'.x = c /\ tree'.s = {}
        BY <1>1, <1>2, <2>2 DEF Exclusive
    <2>12. /\ n.sg \in all /\ n.at \in n.todo /\ ts'[n.at].group # n.sg
           /\ \E o \in Process : /\ o # ProcessOf[Thread0]
                                 /\ proclock'[o] = c
                                 /\ n.todo \subseteq Alive(o)'
        BY <1>1, <1>2, <1>3, <1>5, <1>8, <2>2
    <2> QED
        BY <1>1, <1>2, <1>5, <2>2, <2>3, <2>6, <2>8, <2>10, <2>11, <2>12,
           MoverStep
<1> QED
    BY <1>7, <1>8

LEMMA MoveSetStep ==
    ASSUME LifeInv, NEW c \in Caller, MoveSet(c)
    PROVE  LifeInv'
<1> DEFINE g == call[c].sg
           t == call[c].at
           todo == call[c].todo
<1>1. call[c].pc = "set"
    BY DEF MoveSet, At
<1>2. /\ tree.x = c /\ tree.s = {} /\ g \in all /\ g \in Groups
      /\ mem[g] = "live"
      /\ \A d \in Caller : call[d].pc \notin Shared
      /\ \A d \in Caller \ {c} : call[d].pc \notin Exclusive
      /\ \A v \in Thread, h \in Groups :
            /\ Moving(v) <=> t = v
            /\ MovesTo(v, h) <=> t = v /\ g = h
    <2>1. call[c].pc \in Exclusive
        BY <1>1 DEF Exclusive
    <2>2. g \in all => g \in Groups
        BY DEF LifeInv, LinksOK
    <2> QED
        BY <1>1, <2>1, <2>2, MoverAlone
<1>3. PICK p \in Process : /\ p # ProcessOf[Thread0] /\ proclock[p] = c
                           /\ todo \subseteq Alive(p)
    BY <1>1 DEF LifeInv, CallOK, Exclusive
<1>4. /\ t \in todo /\ t \in Thread /\ ts[t].state = "alive"
      /\ ts[t].group \in Groups /\ mem[ts[t].group] = "live"
      /\ t # Thread0 /\ todo \in SUBSET Thread
    BY <1>1, <1>3 DEF LifeInv, TypeOK, ThreadsOK, Alive, CallOK
<1>5. HasQueues(ts[t].group) /\ HasQueues(g)
    BY <1>2, <1>4, LiveHasQueues
<1> DEFINE n == Doing("move", g, NULL, todo \ {t})
<1>6. /\ ts' = [ts EXCEPT ![t].group = g]
      /\ call' = [call EXCEPT ![c] = n]
      /\ UNCHANGED <<mem, sg, all, tree, proclock, misuse>>
    BY <1>5, Zenon DEF MoveSet, Safely, lists
<1>7. /\ n \in CallFields /\ n.pc = "move" /\ n.sg = g
      /\ n.todo = todo \ {t}
    BY <1>2, <1>4 DEF CallFields, Doing
<1>8. Goes(c, n)
    BY <1>6 DEF Goes
<1> HIDE DEF n
<1>9. /\ call' \in [Caller -> CallFields] /\ call'[c] = n
      /\ \A d \in Caller \ {c} : call'[d] = call[d]
    BY <1>7, <1>8, CallerGoes DEF LifeInv
<1>10. /\ ts' \in [Thread -> [state : {"none", "alive", "exiting"},
                             group : Groups]]
       /\ ts'[t].state = "alive" /\ ts'[t].group = g
       /\ \A v \in Thread \ {t} : ts'[v] = ts[v]
    <2> DEFINE S == [state : {"none", "alive", "exiting"}, group : Groups]
    <2>1. ts \in [Thread -> S]
        BY DEF LifeInv, TypeOK
    <2>2. PICK r \in S : r = ts[t]
        BY <1>4, <2>1
    <2>3. PICK m : m = [r EXCEPT !.group = g]
        OBVIOUS
    <2>4. m \in S /\ m.state = "alive" /\ m.group = g
        BY <1>2, <1>4, <2>2, <2>3
    <2>5. ts' = [ts EXCEPT ![t] = m]
        BY <1>6, <2>2, <2>3, Zenon
    <2> HIDE DEF S
    <2> QED
        BY <1>4, <2>1, <2>4, <2>5 DEF S
<1>11. TypeOK'
    BY <1>6, <1>9, <1>10 DEF LifeInv, TypeOK
<1>12. \A h \in Groups \ all : sg'[h].threads = {}
    BY <1>6 DEF LifeInv, LinksOK
<1>13. LinksOK' /\ Rooted' /\ Distinct'
    BY SMTT(60), <1>6, <1>12, SameTree
<1>14. ThreadsOK'
    BY <1>2, <1>4, <1>6, <1>10 DEF LifeInv, ThreadsOK
<1>15. Alive(p)' = Alive(p)
    BY <1>4, <1>10 DEF Alive
<1>16. ThreadsListed'
    <2>1. \A v \in Thread : ~Moving(v)'
        <3>1. \A d \in Caller : call'[d].pc # "set"
            BY <1>2, <1>7, <1>9 DEF Exclusive
        <3> QED
            BY <3>1 DEF Moving
    <2>2. ASSUME NEW h \in Groups, NEW v \in Thread
          PROVE  v \in sg'[h].threads <=> Lists(v, h)'
        <3>1. v \in sg[h].threads <=> Lists(v, h)
            BY ListsIs DEF LifeInv
        <3>2. sg'[h].threads = sg[h].threads
            BY <1>6
        <3>3. CASE v = t
            <4>1. Lists(v, h) <=> g = h
                BY <1>2, <1>4, <3>3 DEF Lists
            <4>2. Lists(v, h)' <=> g = h
                BY <1>10, <2>1, <3>3 DEF Lists
            <4> QED
                BY <3>1, <3>2, <4>1, <4>2, Zenon
        <3>4. CASE v # t
            <4>1. Lists(v, h) <=> ts[v].state = "alive" /\ ts[v].group = h
                BY <1>2, <3>4 DEF Lists
            <4>2. Lists(v, h)' <=> ts[v].state = "alive" /\ ts[v].group = h
                BY <1>10, <2>1, <3>4 DEF Lists
            <4> QED
                BY <3>1, <3>2, <4>1, <4>2, Zenon
        <3> QED
            BY <3>3, <3>4
    <2>3. \A h \in Groups : sg'[h].threads \subseteq Thread
        BY <1>11 DEF TypeOK, GroupFields
    <2> QED
        BY <2>2, <2>3, ListsIsNext
<1>17. /\ n.pc \in {"idle", "move", "set"} /\ n.pc # "set"
       /\ n.pc \in Exclusive /\ tree'.x = c /\ tree'.s = {}
    BY <1>2, <1>6, <1>7 DEF Exclusive
<1>18. /\ n.sg \in all
       /\ \E o \in Process : /\ o # ProcessOf[Thread0] /\ proclock'[o] = c
                             /\ n.todo \subseteq Alive(o)'
    BY <1>2, <1>3, <1>6, <1>7, <1>15
<1> QED
    BY <1>2, <1>6, <1>7, <1>8, <1>11, <1>13, <1>14, <1>16, <1>17, <1>18,
       MoverStep

-----------------------------------------------------------------------------
(* The theorems *)

LEMMA LifeInit == Init => LifeInv
<1> SUFFICES ASSUME Init PROVE LifeInv
    OBVIOUS
<1>1. /\ \A g \in Groups \ {Root} : mem[g] = "free"
      /\ mem[Root] = "live" /\ all = {Root}
      /\ \A g \in Groups : /\ sg[g].id = 0 /\ sg[g].name = NoName
                           /\ sg[g].parent = NULL /\ sg[g].children = <<>>
                           /\ g # Root => sg[g].threads = {}
      /\ sg[Root].threads = {Thread0}
      /\ \A t \in Thread : /\ ts[t].group = Root
                           /\ ts[t].state = "alive" <=> t = Thread0
      /\ \A c \in Caller : call[c] = Idle
      /\ tree.x = NULL /\ tree.s = {} /\ misuse = NULL
    BY NullIsNone DEF Init
<1>2. TypeOK
    <2>1. mem \in [Groups -> {"free", "live", "emptied"}]
        BY DEF Init
    <2>2. sg \in [Groups -> GroupFields]
        BY NullIsNone, LifeAssumption DEF Init, GroupFields
    <2>3. ts \in [Thread -> [state : {"none", "alive", "exiting"},
                             group : Groups]]
        BY NullIsNone DEF Init
    <2>4. call \in [Caller -> CallFields]
        BY Doings DEF Init
    <2>5. proclock \in [Process -> Caller \cup {NULL}]
        BY DEF Init
    <2>6. tree \in [x : Caller \cup {NULL}, s : SUBSET Caller]
        BY DEF Init
    <2> QED
        BY <1>1, <2>1, <2>2, <2>3, <2>4, <2>5, <2>6, NullIsNone DEF TypeOK
<1>3. LinksOK
    <2>1. ToSet(<<>>) = {} /\ IsInjective(<<>>)
        BY DEF ToSet, IsInjective
    <2> QED
        BY <1>1, <2>1, NullIsNone DEF LinksOK, Allocated
<1>4. Rooted
    BY <1>1, NullIsNone DEF Rooted, Ancestors
<1>5. Distinct
    BY <1>1 DEF Distinct
<1>6. \A c \in Caller : call[c].pc = "idle" /\ CallOK(c)
    BY <1>1, Doings, NullIsNone DEF CallOK, Exclusive, Shared, Removing
<1>7. Emptied
    BY <1>1, <1>6 DEF Emptied, Removing
<1>8. ThreadsOK
    <2>1. ts[Thread0] = [state |-> "alive", group |-> Root]
        BY LifeAssumption DEF Init
    <2> QED
        BY <1>1, <2>1 DEF ThreadsOK
<1>9. ThreadsListed
    <2>1. \A t, g : Lists(t, g) <=> ts[t].state = "alive" /\ ts[t].group = g
        BY <1>6 DEF Lists, Moving
    <2>2. ASSUME NEW g \in Groups
          PROVE  sg[g].threads = {t \in Thread : Lists(t, g)}
        BY <1>1, <2>1, LifeAssumption
    <2> QED
        BY <2>2, ListsIs
<1>10. misuse \notin {"fork", "exit", "move"}
    BY <1>1, LifeAssumption
<1> QED
    BY <1>2, <1>3, <1>4, <1>5, <1>6, <1>7, <1>8, <1>9, <1>10 DEF LifeInv

LEMMA SameStep ==
    ASSUME LifeInv, UNCHANGED vars
    PROVE  LifeInv'
<1> USE DEF vars
<1>1. TypeOK'
    BY DEF LifeInv, TypeOK
<1>2. \A g \in Groups \ all : sg'[g].threads = {}
    BY DEF LifeInv, LinksOK
<1>3. LinksOK' /\ Rooted' /\ Distinct'
    BY <1>2, SameTree
<1>4. ASSUME NEW c \in Caller
      PROVE  CallOK(c)'
    BY DEF LifeInv, CallOK, Alive
<1>5. Emptied' /\ ThreadsOK'
    BY DEF LifeInv, Emptied, ThreadsOK
<1>6. SameThreads /\ SameMoves /\ ts' = ts
    BY DEF SameThreads, SameMoves, Moving, MovesTo
<1>7. ThreadsListed'
    BY <1>1, <1>6, SameLists, Zenon
<1>8. misuse' \notin {"fork", "exit", "move"}
    BY DEF LifeInv
<1> QED
    BY <1>1, <1>3, <1>4, <1>5, <1>7, <1>8 DEF LifeInv

LEMMA LifeNext ==
    ASSUME LifeInv, [Next]_vars
    PROVE  LifeInv'
<1>1. CASE ThreadStep
    <2>1. PICK t \in Thread : \/ \E u \in Thread : Fork(t, u)
                              \/ ExitUnregister(t)
                              \/ ExitThrow(t)
        BY <1>1 DEF ThreadStep
    <2> QED
        BY <2>1, ForkStep, ExitUnregisterStep, ExitThrowStep
<1>2. ASSUME NEW c \in Caller, Start(c)
      PROVE  LifeInv'
    <2>1. PICK id \in 0 .. MaxId :
            \/ \E name \in Name \cup {NoName}, g \in Group :
                    Create(c, id, name, g)
            \/ Find(c)
            \/ \E p \in Process : Move(c, p, id)
            \/ Shares(c, id)
            \/ SubGroups(c, id)
            \/ Destroy(c, id)
        BY <1>2, NullIsNone DEF Start
    <2> QED
        BY <2>1, FindStep, CreateStep, MoveStep, SharesStep, SubGroupsStep,
           DestroyStep
<1>3. ASSUME NEW c \in Caller, Step(c)
      PROVE  LifeInv'
    <2>1. CASE \/ CreateReadId(c) \/ FoundNone(c)
               \/ SharesSet(c) \/ SubGroupsNext(c)
        BY <2>1, CreateReadIdStep, FoundNoneStep, SharesSetStep,
           SubGroupsNextStep
    <2>2. CASE (\E t \in Thread : MoveList(c, t)) \/ MoveSet(c) \/ MoveDone(c)
        BY <2>2, MoveListStep, MoveSetStep, MoveDoneStep
    <2>3. CASE \/ DestroyCheck(c) \/ DestroyFree(c)
               \/ DestroyUnlink(c) \/ DestroyDone(c)
        BY <2>3, DestroyCheckStep, DestroyFreeStep, DestroyUnlinkStep,
           DestroyDoneStep
    <2> QED
        BY <1>3, <2>1, <2>2, <2>3 DEF Step
<1>4. CASE Stopped \/ UNCHANGED vars
    BY <1>4, SameStep DEF Stopped
<1> QED
    BY <1>1, <1>2, <1>3, <1>4 DEF Next

LEMMA LifeInvHolds == Spec => []LifeInv
<1>1. LifeInv /\ [Next]_vars => LifeInv'
    BY LifeNext
<1> QED
    BY <1>1, LifeInit, PTL DEF Spec

(* The list of all groups, the lists of children, the parents, the numbers *)
(* and the names agree, whatever handlers run together, as long as no      *)
(* caller walks or changes the lists while another unlinks a group from    *)
(* them (sched_group_create, sched_group_destroy,                          *)
(* sysctl_sched_group_destroy); the model stops when one does.             *)
THEOREM GroupsStayATree == Spec => []TreeInv
<1>1. LifeInv => TreeInv
    BY DEF LifeInv, TreeInv, LinksOK, Rooted, Distinct
<1> QED
    BY <1>1, LifeInvHolds, PTL

(* A live thread is in the list of exactly one group, its own or the one   *)
(* it moves to (sched_group_register_thread, sched_exit_thread,            *)
(* sysctl_sched_group_move), up to the same point.                         *)
THEOREM ThreadsStayListed == Spec => []ThreadsListed
<1>1. LifeInv => ThreadsListed
    BY DEF LifeInv
<1> QED
    BY <1>1, LifeInvHolds, PTL

(* The emptiness test of sched_group_destroy is enough for live threads:   *)
(* no group loses its queues under one, and fork, exit and move never      *)
(* touch a group that was freed, unless the lists are broken first.        *)
THEOREM NoGroupFreedUnderThread == Spec => []NoUseAfterFree
<1>1. LifeInv => NoUseAfterFree
    <2> SUFFICES ASSUME LifeInv PROVE NoUseAfterFree
        OBVIOUS
    <2>1. \A t \in Thread : ts[t].state = "alive" =>
            ts[t].group \in Groups /\ mem[ts[t].group] = "live"
        BY DEF LifeInv, ThreadsOK, TypeOK
    <2>2. QueuesLive
        BY <2>1, LiveHasQueues DEF QueuesLive
    <2> QED
        BY <2>2 DEF NoUseAfterFree, LifeInv
<1> QED
    BY <1>1, LifeInvHolds, PTL
=============================================================================
