-------------------------------- MODULE Sgfs --------------------------------
(***************************************************************************)
(* The group file system of sgfs.c: a tree of directory nodes, counted by  *)
(* reference, and the vnodes through which the kernel uses them.  Threads  *)
(* walk, list, make and remove directories relative to a current one.      *)
(*                                                                         *)
(* A section of code between sx_xlock(&fs->lock) and sx_xunlock is one     *)
(* action; every access to a node outside of it is a step of its own.  The *)
(* nodes "." and ".." of a directory are its two base references.  Vnodes, *)
(* their locks and counts and the name cache belong to the kernel and are  *)
(* modelled from how sgfs.c uses them.                                     *)
(***************************************************************************)
EXTENDS Integers, FiniteSets, Queues

CONSTANTS
    Proc,           \* threads in system calls
    Mount,          \* mount points of the only instance, sgfs_data
    Name,           \* names of directories
    Op,             \* what happens, of the list in OpAssumption; an unmount
                    \* is by force
    Node,           \* memory for nodes, Root among them
    Root,           \* fs->root
    Vnode,          \* memory for vnodes
    NULL

ASSUME RootAssumption == Root \in Node
ASSUME NullAssumption == NULL \notin Node \cup Vnode \cup Proc
ASSUME OpAssumption ==
    Op \subseteq {"walk", "dotdot", "mkdir", "rmdir", "readdir", "unmount"}
ASSUME FiniteAssumption ==
    IsFiniteSet(Proc) /\ IsFiniteSet(Vnode) /\ IsFiniteSet(Mount)

VARIABLES
    node,           \* struct sgfs_node
    number,         \* its file number, and that of its ".."
    vnode,          \* struct vnode, with v_data->node as data
    cwd,            \* the directory a thread keeps a use reference on
    call,           \* the call a thread is in
    cache,          \* the kernel's name cache
    panic           \* how the kernel stopped, "no" while it runs

vars == <<node, number, vnode, cwd, call, cache, panic>>

Base == 3           \* exp of sgnode_release: linked, "." and ".."

FreeNode == [live |-> FALSE, parent |-> NULL, children |-> <<>>,
             deleted |-> FALSE, refcount |-> 0, name |-> NULL]
NoNumber == [fileno |-> 0, ddno |-> 0]
FreeVnode == [st |-> "free", mount |-> NULL, data |-> NULL, use |-> 0,
              hold |-> 0, lock |-> NULL]
Idle == [pc |-> "idle", op |-> "none", name |-> NULL, dvp |-> NULL,
         pd |-> NULL, vp |-> NULL, pn |-> NULL, ref |-> FALSE,
         mount |-> NULL, old |-> 0, put |-> NULL]

Live(n) == node[n].live
VnodesOf(n) == {v \in Vnode : vnode[v].data = n}
VnodesOn(n, m) == {v \in VnodesOf(n) : vnode[v].mount = m}
FreeNodes == {n \in Node : ~Live(n)}
FreeVnodes == {v \in Vnode : vnode[v].st = "free"}

(* A doomed vnode is memory again once nobody counts on it. *)
Settled(vs) ==
    [v \in Vnode |-> IF /\ vs[v].st = "doomed" /\ vs[v].use = 0
                        /\ vs[v].hold = 0 /\ vs[v].lock = NULL
                     THEN FreeVnode ELSE vs[v]]

-----------------------------------------------------------------------------
(* Nodes *)

(* Numbers that alloc_unr may hand out: the lowest free one is taken. *)
AllocUnr(nb) ==
    CHOOSE k \in 1 .. Cardinality(Node) + 1 :
        /\ \A n \in Node : nb[n].fileno # k
        /\ \A j \in 1 .. k - 1 : \E n \in Node : nb[n].fileno = j

(* n and the ancestors without a number that sgfs_fileno_alloc climbs to, *)
(* the uppermost first.                                                   *)
Unnumbered(nb, n) ==
    LET up[k \in 0 .. Cardinality(Node)] ==
            IF k = 0 THEN <<n>>
            ELSE LET c == up[k - 1]
                     q == node[Head(c)].parent
                 IN  IF q # NULL /\ nb[q].fileno = 0 THEN <<q>> \o c ELSE c
    IN  up[Cardinality(Node)]

sgfs_fileno_alloc(nb, n) ==
    FoldLeft(LAMBDA acc, q : [acc EXCEPT ![q].fileno = AllocUnr(acc)], nb,
             Unnumbered(nb, n))

(* sgfs_fileno_free of what is no node any more *)
Numbers(ns) == [n \in Node |-> IF ns[n].live THEN number[n] ELSE NoNumber]

sgnode_addref(ns, n) == [ns EXCEPT ![n].refcount = @ + 1]

(* sgfs_create_dir: a linked node with "." and "..", put first.  The *)
(* caller's sgnode_addref is included.                               *)
sgfs_create_dir(ns, pd, n, nm) ==
    [ns EXCEPT ![n] = [FreeNode EXCEPT !.live = TRUE, !.parent = pd,
                                       !.refcount = Base + 1, !.name = nm],
               ![pd].children = <<n>> \o @,
               ![pd].refcount = @ + 1]

(* A node and all that hangs below it, which sgfs_destroy frees: the *)
(* smallest set with the children of its members.                    *)
Below(ns, n) ==
    {m \in Node : \A S \in SUBSET Node :
        n \in S /\ (\A k \in S : ToSet(ns[k].children) \subseteq S) => m \in S}

sgfs_destroy(ns, n) ==
    [m \in Node |->
        IF m \in Below(ns, n) THEN FreeNode
        ELSE IF m = ns[n].parent THEN [ns[m] EXCEPT !.children = Without(@, n)]
        ELSE ns[m]]

(* sgnode_release by a thread that has fs->lock. *)
ReleaseLocked(ns, n) ==
    LET dec == [ns EXCEPT ![n].refcount = @ - 1]
    IN  IF ns[n].refcount = Base THEN sgfs_destroy(dec, n) ELSE dec

sgfs_search(pd, nm) ==
    LET list == node[pd].children
        hits == {i \in DOMAIN list : node[list[i]].name = nm}
    IN  IF hits = {} THEN NULL ELSE list[Min(hits)]

-----------------------------------------------------------------------------
(* sgfs_init *)

Init ==
    /\ node = [n \in Node |->
                  IF n = Root
                  THEN [FreeNode EXCEPT !.live = TRUE, !.refcount = Base]
                  ELSE FreeNode]
    /\ number = [n \in Node |-> IF n = Root THEN [fileno |-> 1, ddno |-> 0]
                               ELSE NoNumber]
    /\ vnode = [v \in Vnode |-> FreeVnode]
    /\ cwd = [p \in Proc |-> NULL]
    /\ call = [p \in Proc |-> Idle]
    /\ cache = {}
    /\ panic = "no"

At(p, pc) == panic = "no" /\ call[p].pc = pc

Panic(why) == /\ panic' = why
              /\ UNCHANGED <<node, number, vnode, cwd, call, cache>>

(* Calls of the kernel *)

(* A thread starts namei at its directory, which it locks. *)
StartCall(p, op, nm) ==
    LET v == cwd[p]
    IN  /\ At(p, "idle") /\ v # NULL
        /\ vnode[v].st = "live" /\ vnode[v].lock = NULL
        /\ vnode' = [vnode EXCEPT ![v].lock = p]
        /\ call' = [call EXCEPT ![p] =
                       [Idle EXCEPT !.pc = IF op = "dotdot" THEN "dotdot"
                                           ELSE "lookup",
                                    !.op = op, !.name = nm, !.dvp = v,
                                    !.pd = vnode[v].data,
                                    !.mount = vnode[v].mount]]
        /\ UNCHANGED <<node, number, cwd, cache, panic>>

(* sgfs_root, when a path enters the mount point. *)
sgfs_root(p, m) ==
    /\ At(p, "idle") /\ cwd[p] = NULL
    /\ call' = [call EXCEPT ![p] =
                   [Idle EXCEPT !.pc = "find", !.op = "root", !.pn = Root,
                                !.mount = m]]
    /\ UNCHANGED <<node, number, vnode, cwd, cache, panic>>

(* A thread leaves: vrele of its directory. *)
Leave(p) ==
    LET v == cwd[p]
    IN  /\ At(p, "idle") /\ v # NULL /\ vnode[v].lock = NULL
        /\ vnode' = [vnode EXCEPT ![v].lock = p]
        /\ cwd' = [cwd EXCEPT ![p] = NULL]
        /\ call' = [call EXCEPT ![p] = [Idle EXCEPT !.pc = "put",
                                                    !.op = "leave",
                                                    !.put = v]]
        /\ UNCHANGED <<node, number, cache, panic>>

Goto(p, pc) == call' = [call EXCEPT ![p].pc = pc]

-----------------------------------------------------------------------------
(* sgfs_lookupx *)

Pd(p) == call[p].pd

(* The call is over; its directory is unlocked and stays referenced. *)
EndCall(p, vs) ==
    /\ vnode' = Settled([vs EXCEPT ![call[p].dvp].lock = NULL])
    /\ call' = [call EXCEPT ![p] = Idle]

(* Mutant of LookupNamed: the node found is not referenced. *)
LookupNoRef(p) ==
    LET pn == sgfs_search(Pd(p), call[p].name)
    IN  /\ At(p, "lookup")
        /\ \/ /\ pn # NULL
              /\ call' = [call EXCEPT ![p].pc = "find", ![p].pn = pn,
                                      ![p].ref = TRUE]
              /\ UNCHANGED vnode
           \/ /\ pn = NULL /\ call[p].op = "mkdir"
              /\ Goto(p, "mkdir")
              /\ UNCHANGED vnode
           \/ /\ pn = NULL
              /\ EndCall(p, vnode)
        /\ UNCHANGED <<node, number, cwd, cache, panic>>

(* Found: the node is referenced under fs->lock.  Not found: an entry may *)
(* be created where VOP_ACCESS allows it, otherwise the lookup fails.     *)
LookupNamed(p) ==
    LET pn == sgfs_search(Pd(p), call[p].name)
    IN  /\ At(p, "lookup")
        /\ \/ /\ pn # NULL
              /\ node' = sgnode_addref(node, pn)
              /\ call' = [call EXCEPT ![p].pc = "find", ![p].pn = pn,
                                      ![p].ref = TRUE]
              /\ UNCHANGED vnode
           \/ /\ pn = NULL /\ call[p].op = "mkdir"
              /\ Goto(p, "mkdir")
              /\ UNCHANGED <<node, vnode>>
           \/ /\ pn = NULL
              /\ EndCall(p, vnode)
              /\ UNCHANGED node
        /\ UNCHANGED <<number, cwd, cache, panic>>

(* VOP_ACCESS(dvp, VWRITE) refuses to delete: the node is let go. *)
LookupDenied(p) ==
    /\ At(p, "find") /\ call[p].op = "rmdir"
    /\ Goto(p, "release")
    /\ UNCHANGED <<node, number, vnode, cwd, cache, panic>>

(* vfs_cache_lookup answers without the file system, except where the *)
(* entry is about to be changed.                                      *)
CacheHit(p) ==
    /\ At(p, "lookup") /\ call[p].op = "walk"
    /\ \E v \in Vnode :
        /\ [dvp |-> call[p].dvp, name |-> call[p].name, vp |-> v] \in cache
        /\ vnode[v].st = "live" /\ vnode[v].lock = NULL
        /\ vnode' = [vnode EXCEPT ![v].lock = p, ![v].use = @ + 1]
        /\ call' = [call EXCEPT ![p].pc = "done", ![p].vp = v]
    /\ UNCHANGED <<node, number, cwd, cache, panic>>

(* "..": the directory is unlocked before its parent is read. *)
DotDot(p) ==
    LET d == call[p].dvp
    IN  /\ At(p, "dotdot")
        /\ IF Pd(p) = Root THEN EndCall(p, vnode)
           ELSE /\ vnode' = [vnode EXCEPT ![d].lock = NULL]
                /\ Goto(p, "parent")
        /\ UNCHANGED <<node, number, cwd, cache, panic>>

DotDotParent(p) ==
    LET pn == node[Pd(p)].parent
    IN  /\ At(p, "parent")
        /\ \/ /\ ~Live(Pd(p)) /\ Panic("freed node")
           \/ /\ Live(Pd(p)) /\ pn = NULL
              /\ Panic("non-root directory has no parent")
           \/ /\ pn # NULL
              /\ call' = [call EXCEPT ![p].pc = "find", ![p].pn = pn]
              /\ UNCHANGED <<node, number, vnode, cwd, cache, panic>>

-----------------------------------------------------------------------------
(* sgfs_allocv *)

(* What follows: the caller's reference is released, or the directory of *)
(* a ".." is locked again.                                               *)
AfterAlloc(p) == IF call[p].ref THEN "release"
                 ELSE IF call[p].op = "dotdot" THEN "relock" ELSE "done"

(* The node may have been freed under a thread that has no reference. *)
AllocFind(p) ==
    LET pn  == call[p].pn
        old == VnodesOn(pn, call[p].mount)
    IN  /\ At(p, "find")
        /\ \/ /\ ~Live(pn) /\ Panic("freed node")
           \/ /\ Live(pn)
              /\ \/ /\ old # {}
                    /\ \E v \in old :
                        /\ vnode' = [vnode EXCEPT ![v].hold = @ + 1]
                        /\ call' = [call EXCEPT ![p].pc = "vget",
                                                ![p].vp = v]
                 \/ /\ old = {}
                    /\ Goto(p, "getnew")
                    /\ UNCHANGED vnode
              /\ UNCHANGED <<node, number, cwd, cache, panic>>

(* vget waits for the lock; with LK_RETRY it takes a doomed vnode too. *)
Vget(p) ==
    LET v == call[p].vp
    IN  /\ At(p, "vget") /\ vnode[v].lock = NULL
        /\ vnode' = [vnode EXCEPT ![v].lock = p, ![v].use = @ + 1,
                                  ![v].hold = @ - 1]
        /\ Goto(p, AfterAlloc(p))
        /\ UNCHANGED <<node, number, cwd, cache, panic>>

(* getnewvnode, vn_lock and insmntque; a mount that goes away refuses. *)
AllocNew(p) ==
    /\ At(p, "getnew")
    /\ \/ \E v \in FreeVnodes :
            /\ vnode' = [vnode EXCEPT ![v] =
                            [FreeVnode EXCEPT !.st = "new", !.use = 1,
                                              !.lock = p,
                                              !.mount = call[p].mount]]
            /\ call' = [call EXCEPT ![p].pc = "insert", ![p].vp = v]
       \/ /\ Goto(p, AfterAlloc(p))
          /\ UNCHANGED vnode
    /\ UNCHANGED <<node, number, cwd, cache, panic>>

(* Thread p has dropped the last reference of n and is going to free it. *)
Dying(n, p) ==
    /\ call[p].pn = n
    /\ call[p].pc = "destroy" \/ (call[p].pc = "compare" /\ call[p].old = Base)

(* Under fs->lock again.  A thread that comes second gives its vnode up,  *)
(* and vgone calls sgfs_reclaim, which follows v_data.  A node that dies  *)
(* will be freed with the vnode that a thread without a reference gives   *)
(* it: the model stops at once.                                           *)
AllocInsert(p) ==
    LET pn == call[p].pn
        v  == call[p].vp
    IN  /\ At(p, "insert")
        /\ \/ /\ ~Live(pn) \/ (\E q \in Proc : Dying(pn, q))
              /\ Panic("freed node")
           \/ /\ Live(pn) /\ VnodesOn(pn, call[p].mount) # {}
              /\ Panic("v_data is NULL in sgfs_reclaim")
           \/ /\ Live(pn) /\ VnodesOn(pn, call[p].mount) = {}
              /\ \A q \in Proc : ~Dying(pn, q)
              /\ node' = sgnode_addref(node, pn)
              /\ vnode' = [vnode EXCEPT ![v].st = "live", ![v].data = pn]
              /\ Goto(p, AfterAlloc(p))
              /\ UNCHANGED <<number, cwd, cache, panic>>

(* "..": vn_lock(dvp, LK_EXCLUSIVE | LK_RETRY). *)
Relock(p) ==
    LET d == call[p].dvp
    IN  /\ At(p, "relock") /\ vnode[d].lock = NULL
        /\ vnode' = [vnode EXCEPT ![d].lock = p]
        /\ Goto(p, "done")
        /\ UNCHANGED <<node, number, cwd, cache, panic>>

-----------------------------------------------------------------------------
(* sgnode_release by a thread without fs->lock: the counter first, *)
(* then node->type, then fs->lock and sgfs_destroy.                *)

ReleaseDec(p) ==
    LET pn == call[p].pn
    IN  /\ At(p, "release")
        /\ node' = [node EXCEPT ![pn].refcount = @ - 1]
        /\ call' = [call EXCEPT ![p].pc = "compare", ![p].ref = FALSE,
                                ![p].old = node[pn].refcount]
        /\ UNCHANGED <<number, vnode, cwd, cache, panic>>

(* A node that another thread has freed by now has any type. *)
ReleaseCompare(p) ==
    LET c == call[p]
    IN  /\ At(p, "compare")
        /\ \E exp \in IF Live(c.pn) THEN {Base} ELSE {1, Base} :
            call' = [call EXCEPT ![p] =
                        IF c.old = exp
                        THEN [c EXCEPT !.pc = "destroy"]
                        ELSE [c EXCEPT !.pc = "done", !.old = 0,
                                       !.pn = NULL]]
        /\ UNCHANGED <<node, number, vnode, cwd, cache, panic>>

ReleaseDestroy(p) ==
    /\ At(p, "destroy")
    /\ IF Live(call[p].pn)
       THEN /\ node' = sgfs_destroy(node, call[p].pn)
            /\ number' = Numbers(node')
            /\ call' = [call EXCEPT ![p].pc = "done", ![p].old = 0,
                                    ![p].pn = NULL]
            /\ UNCHANGED <<vnode, cwd, cache, panic>>
       ELSE Panic("freed twice")

-----------------------------------------------------------------------------
(* The end of a call, by what it was for *)

(* An error leaves no vnode; a doomed vnode is of type VBAD. *)
Got(p) == call[p].vp # NULL
Usable(p) == Got(p) /\ vnode[call[p].vp].st = "live"

(* cache_enter asserts that the vnode is not doomed; sgfs_lookupx does not *)
(* look, and vget with LK_RETRY may have got it such a vnode.              *)
WalkDoomed(p) ==
    /\ At(p, "done") /\ call[p].op = "walk" /\ Got(p) /\ ~Usable(p)
    /\ Panic("cache_enter: Adding a doomed vnode")

(* The new directory replaces the old one, which is released. *)
DoneWalk(p) ==
    LET c == call[p]
    IN  /\ At(p, "done") /\ c.op \in {"walk", "dotdot", "root"} /\ Got(p)
        /\ c.op = "walk" => Usable(p)
        /\ cwd' = [cwd EXCEPT ![p] = c.vp]
        /\ vnode' = [vnode EXCEPT ![c.vp].lock = NULL]
        /\ cache' = IF c.op = "walk"
                    THEN cache \cup {[dvp |-> c.dvp, name |-> c.name,
                                      vp |-> c.vp]}
                    ELSE cache
        /\ call' = [call EXCEPT ![p] =
                       IF c.op = "root" THEN Idle
                       ELSE [Idle EXCEPT !.pc = "put", !.op = c.op,
                                         !.put = c.dvp]]
        /\ UNCHANGED <<node, number, panic>>

DoneError(p) ==
    LET c == call[p]
    IN  /\ At(p, "done") /\ ~Got(p)
        /\ IF c.dvp = NULL
           THEN call' = [call EXCEPT ![p] = Idle] /\ UNCHANGED vnode
           ELSE EndCall(p, vnode)
        /\ UNCHANGED <<node, number, cwd, cache, panic>>

(* mkdir: a made directory is let go again, and one that was there *)
(* (EEXIST); rmdir of what is no directory any more.               *)
DonePut(p) ==
    LET c == call[p]
    IN  /\ At(p, "done") /\ Got(p)
        /\ c.op = "mkdir" \/ (c.op = "rmdir" /\ ~Usable(p))
        /\ call' = [call EXCEPT ![p].pc = "put", ![p].put = c.vp,
                                ![p].vp = NULL]
        /\ UNCHANGED <<node, number, vnode, cwd, cache, panic>>

(* ENOSPC when there is no memory. *)
sgfs_mkdir(p) ==
    /\ At(p, "mkdir")
    /\ \/ \E n \in FreeNodes :
            /\ node' = sgfs_create_dir(node, Pd(p), n, call[p].name)
            /\ call' = [call EXCEPT ![p].pc = "find", ![p].pn = n,
                                    ![p].ref = TRUE]
       \/ /\ FreeNodes = {}
          /\ Goto(p, "done")
          /\ UNCHANGED node
    /\ UNCHANGED <<number, vnode, cwd, cache, panic>>

(* Mutant of Unlink: the parent keeps the child's reference. *)
UnlinkKeepParent(n) ==
    LET pt == node[n].parent
        unlinked == [node EXCEPT ![n].parent = NULL, ![n].deleted = TRUE,
                                 ![pt].children = Without(@, n)]
    IN  ReleaseLocked(unlinked, n)

Unlink(n) ==
    LET pt == node[n].parent
        unlinked == [node EXCEPT ![n].parent = NULL, ![n].deleted = TRUE,
                                 ![pt].children = Without(@, n)]
    IN  ReleaseLocked(ReleaseLocked(unlinked, n), pt)

(* ENOENT, ENOTEMPTY, or unlinked under fs->lock and let go of. *)
sgfs_rmdir(p) ==
    LET c  == call[p]
        pn == vnode[c.vp].data
        ok == ~node[pn].deleted /\ node[pn].children = <<>>
    IN  /\ At(p, "done") /\ c.op = "rmdir" /\ Usable(p)
        /\ node' = IF ok THEN Unlink(pn) ELSE node
        /\ number' = Numbers(node')
        /\ call' = [call EXCEPT ![p].pc = IF ok THEN "purge" ELSE "put",
                                ![p].put = c.vp, ![p].vp = NULL]
        /\ UNCHANGED <<vnode, cwd, cache, panic>>

Purge(v) == {e \in cache : v \notin {e.vp, e.dvp}}

(* Mutant of RmdirPurge: no cache_purge. *)
RmdirNoPurge(p) ==
    /\ At(p, "purge")
    /\ Goto(p, "put")
    /\ UNCHANGED <<node, number, vnode, cwd, cache, panic>>

(* Only then, without fs->lock, it goes out of the name cache. *)
RmdirPurge(p) ==
    /\ At(p, "purge")
    /\ cache' = Purge(call[p].put)
    /\ Goto(p, "put")
    /\ UNCHANGED <<node, number, vnode, cwd, panic>>

-----------------------------------------------------------------------------
(* vput: sgfs_inactive, sgfs_reclaim *)

(* After the last step of a vput of a call that still has its directory. *)
AfterPut(p, vs) ==
    LET c == call[p]
    IN  IF c.op \in {"mkdir", "rmdir"}
        THEN EndCall(p, vs)
        ELSE /\ vnode' = Settled(vs)
             /\ call' = [call EXCEPT ![p] = Idle]

Vput(p) ==
    LET v   == call[p].put
        dec == [vnode EXCEPT ![v].use = @ - 1]
    IN  /\ At(p, "put")
        /\ IF dec[v].use = 0 /\ vnode[v].st = "live"
           THEN vnode' = dec /\ Goto(p, "inactive")
           ELSE AfterPut(p, [dec EXCEPT ![v].lock = NULL])
        /\ UNCHANGED <<node, number, cwd, cache, panic>>

(* Mutant of sgfs_inactive: no vrecycle. *)
InactiveKeeps(p) ==
    /\ At(p, "inactive")
    /\ AfterPut(p, [vnode EXCEPT ![call[p].put].lock = NULL])
    /\ UNCHANGED <<node, number, cwd, cache, panic>>

(* sgfs_inactive reads node->deleted without fs->lock. *)
sgfs_inactive(p) ==
    LET v == call[p].put
    IN  /\ At(p, "inactive")
        /\ IF node[vnode[v].data].deleted /\ vnode[v].use = 0
           THEN Goto(p, "reclaim") /\ UNCHANGED vnode
           ELSE AfterPut(p, [vnode EXCEPT ![v].lock = NULL])
        /\ UNCHANGED <<node, number, cwd, cache, panic>>

(* What vgone leaves: no data, no names, no node reference. *)
Doom(v) == [vnode EXCEPT ![v].st = "doomed", ![v].data = NULL,
                         ![v].lock = NULL]

sgfs_reclaim(p) ==
    LET v == call[p].put
    IN  /\ At(p, "reclaim")
        /\ node' = ReleaseLocked(node, vnode[v].data)
        /\ number' = Numbers(node')
        /\ cache' = Purge(v)
        /\ AfterPut(p, Doom(v))
        /\ UNCHANGED <<cwd, panic>>

(* vgone of a vnode that no thread has locked. *)
Vgone(v) ==
    /\ panic = "no"
    /\ vnode[v].st = "live" /\ vnode[v].lock = NULL
    /\ node' = ReleaseLocked(node, vnode[v].data)
    /\ number' = Numbers(node')
    /\ cache' = Purge(v)
    /\ vnode' = Settled(Doom(v))
    /\ UNCHANGED <<cwd, call, panic>>

(* The kernel's vnlru takes a vnode that is not in use. *)
Vnlru(v) == vnode[v].use = 0 /\ Vgone(v)

(* vflush with FORCECLOSE takes one that is, too. *)
sgfs_unmount(v) == "unmount" \in Op /\ vnode[v].use > 0 /\ Vgone(v)

-----------------------------------------------------------------------------
(* sgfs_readdir: entries without a file number get one.  The directories *)
(* come first, then "..", then "."; a short buffer ends it early.        *)

NumberChildren(pd, k) ==
    FoldLeft(LAMBDA acc, n : IF acc[n].fileno = 0
                             THEN sgfs_fileno_alloc(acc, n) ELSE acc,
             number, SubSeq(node[pd].children, 1, k))

(* ".." takes the number of the parent, or of the root itself. *)
NumberDotDot(nb, pd) ==
    LET up == IF nb[pd].fileno = 0 THEN sgfs_fileno_alloc(nb, pd) ELSE nb
    IN  [up EXCEPT ![pd].ddno = IF pd = Root THEN up[pd].fileno
                                ELSE up[node[pd].parent].fileno]

sgfs_readdir(p) ==
    LET v  == cwd[p]
        pd == vnode[v].data
        n  == Len(node[pd].children)
    IN  /\ At(p, "idle") /\ v # NULL /\ "readdir" \in Op
        /\ vnode[v].st = "live" /\ vnode[v].lock = NULL
        /\ \/ /\ number[pd].ddno = 0 /\ pd # Root /\ node[pd].parent = NULL
              /\ Panic("sgfstype_parent node has no grandparent")
           \/ /\ \/ \E k \in 1 .. n : number' = NumberChildren(pd, k)
                 \/ /\ number[pd].ddno = 0
                    /\ pd = Root \/ node[pd].parent # NULL
                    /\ number' = NumberDotDot(NumberChildren(pd, n), pd)
              /\ UNCHANGED <<node, vnode, cwd, call, cache, panic>>

-----------------------------------------------------------------------------

(* A kernel that has stopped does nothing more. *)
Stopped == panic # "no" /\ UNCHANGED vars

Step(p) ==
    \/ LookupNamed(p) \/ LookupDenied(p) \/ CacheHit(p)
    \/ DotDot(p) \/ DotDotParent(p) \/ Relock(p)
    \/ AllocFind(p) \/ Vget(p) \/ AllocNew(p) \/ AllocInsert(p)
    \/ ReleaseDec(p) \/ ReleaseCompare(p) \/ ReleaseDestroy(p)
    \/ WalkDoomed(p) \/ DoneWalk(p) \/ DoneError(p) \/ DonePut(p)
    \/ sgfs_mkdir(p) \/ sgfs_rmdir(p) \/ RmdirPurge(p)
    \/ Vput(p) \/ sgfs_inactive(p) \/ sgfs_reclaim(p)

(* A thread enters the file system, makes a call, or leaves. *)
Start(p) ==
    \/ \E op \in Op \ {"readdir", "unmount"}, nm \in Name : StartCall(p, op, nm)
    \/ \E m \in Mount : sgfs_root(p, m)
    \/ Leave(p)

Kernel == \E v \in Vnode : Vnlru(v) \/ sgfs_unmount(v)

Next ==
    \/ \E p \in Proc : Start(p) \/ Step(p) \/ sgfs_readdir(p)
    \/ Kernel
    \/ Stopped

Spec == Init /\ [][Next]_vars

-----------------------------------------------------------------------------
(* Properties *)

(* Every variable has the type of the structure it stands for. *)
NodeType == [live : BOOLEAN, parent : Node \cup {NULL}, children : Seq(Node),
             deleted : BOOLEAN, refcount : Nat, name : Name \cup {NULL}]
VnodeType == [st : {"free", "new", "live", "doomed"},
              mount : Mount \cup {NULL}, data : Node \cup {NULL},
              use : Nat, hold : Nat, lock : Proc \cup {NULL}]
CallType == [pc : {"idle", "lookup", "dotdot", "parent", "find", "getnew",
                   "insert", "vget", "relock", "release", "compare",
                   "destroy", "done", "mkdir", "purge", "put", "inactive",
                   "reclaim"},
             op : Op \cup {"none", "root", "leave"}, name : Name \cup {NULL},
             dvp : Vnode \cup {NULL}, pd : Node \cup {NULL},
             vp : Vnode \cup {NULL}, pn : Node \cup {NULL}, ref : BOOLEAN,
             mount : Mount \cup {NULL}, old : Nat, put : Vnode \cup {NULL}]

Panics == {"no", "freed node", "freed twice",
           "v_data is NULL in sgfs_reclaim",
           "non-root directory has no parent",
           "cache_enter: Adding a doomed vnode",
           "sgfstype_parent node has no grandparent"}

TypeOK ==
    /\ node \in [Node -> NodeType]
    /\ vnode \in [Vnode -> VnodeType]
    /\ cwd \in [Proc -> Vnode \cup {NULL}]
    /\ call \in [Proc -> CallType]
    /\ cache \subseteq [dvp : Vnode, name : Name, vp : Vnode]
    /\ panic \in Panics

(* The threads that hold a reference from sgnode_addref. *)
Holders(n) == {p \in Proc : call[p].ref /\ call[p].pn = n}

(* A node's refcount is what a recount finds: its own link, ".", "..", its *)
(* subdirectories, its vnodes, and the calls between sgnode_addref and     *)
(* sgnode_release (sgfs.c: sgnode_addref, sgnode_release and all callers). *)
RefcountExact ==
    \A n \in Node : Live(n) =>
        node[n].refcount = (IF node[n].deleted THEN 0 ELSE 1) + 2
                           + Len(node[n].children)
                           + Cardinality(VnodesOf(n))
                           + Cardinality(Holders(n))

(* A node has one vnode per mount, although sgfs_allocv drops fs->lock *)
(* between looking for it and making it.                               *)
OneVnodePerMount ==
    \A n \in Node, m \in Mount : Cardinality(VnodesOn(n, m)) <= 1

(* A removed directory that has no entries and that nobody uses is being   *)
(* freed, as sgfs_inactive recycles its vnode; with several mounts, as     *)
(* soon as the kernel has taken the unused vnodes of the others.  Left out *)
(* are directories with entries, and what is in them: sgfs_mkdir does not  *)
(* look whether its directory has been removed, and one that it makes      *)
(* there keeps both for ever.                                              *)
NoLeak ==
    \A n \in Node :
        /\ Live(n) /\ node[n].deleted /\ node[n].children = <<>>
        /\ \A v \in VnodesOf(n) : vnode[v].use = 0
        /\ VnodesOf(n) = {} \/ Cardinality(Mount) = 1
        => \E p \in Proc : \/ call[p].put \in VnodesOf(n)
                            \/ call[p].pn = n

(* Nothing that is linked, used through a vnode or referenced by a call has *)
(* been freed, no node is freed twice, and the lists agree with the parent  *)
(* pointers (sgfs_destroy frees without looking at what still points at the *)
(* node).  Left out is the parent that a ".." lookup reads without a        *)
(* reference: it may have been freed.  A node has no two vnodes on a mount, *)
(* and none is left behind but for the case that NoLeak names.              *)
NodesSafe ==
    /\ TypeOK
    /\ OneVnodePerMount
    /\ NoLeak
    /\ Live(Root)
    /\ \A v \in Vnode : vnode[v].st = "live" => Live(vnode[v].data)
    /\ \A n \in Node : Live(n) =>
        /\ \A m \in ToSet(node[n].children) : Live(m) /\ node[m].parent = n
        /\ node[n].parent # NULL =>
            n \in ToSet(node[node[n].parent].children)
        /\ node[n].deleted => node[n].parent = NULL
    /\ \A p \in Proc :
        call[p].ref \/ call[p].pc = "destroy" => Live(call[p].pn)
    /\ panic # "freed twice"
    /\ panic = "freed node" =>
        \E p \in Proc : call[p].op = "dotdot" /\ ~call[p].ref

(* A directory has one entry of a name: mkdir does not look again, it *)
(* relies on the lookup under the same vnode lock.                    *)
NamesUnique ==
    \A n, m \in Node :
        /\ Live(n) /\ Live(m) /\ n # m /\ node[n].parent # NULL
        /\ node[n].parent = node[m].parent
        => node[n].name # node[m].name

(* What the name cache says is still so (cache_enter, cache_purge).  Only *)
(* between the unlinking and the cache_purge of rmdir it is not, and then *)
(* the thread that removes the directory has it locked, so that nobody    *)
(* else follows the entry.                                                *)
CacheFresh ==
    \A e \in cache :
        LET n == vnode[e.vp].data
        IN  \/ /\ Live(n) /\ node[n].name = e.name
               /\ node[n].parent = vnode[e.dvp].data
            \/ \E p \in Proc : /\ call[p].pc = "purge" /\ call[p].put = e.vp
                              /\ vnode[e.vp].lock = p

(* File numbers are not shared, an entry has one only when its parent has, *)
(* and ".." has its parent's (sgfs_fileno_alloc gives them on demand and   *)
(* sgfs_destroy takes them back).                                          *)
NumbersConsistent ==
    /\ number \in [Node -> [fileno : Nat, ddno : Nat]]
    /\ \A n \in Node : Live(n) =>
        LET q == node[n].parent
        IN  /\ number[n].fileno # 0 =>
                /\ \A m \in Node \ {n} : number[m].fileno # number[n].fileno
                /\ q # NULL => number[q].fileno # 0
            /\ number[n].ddno # 0 /\ q # NULL =>
                number[n].ddno = number[q].fileno

(* What names, the name cache and file numbers say of the tree agrees: a   *)
(* directory's names differ, a cached name is still an entry, a number is  *)
(* one node's (sgfs_lookupx, sgfs_mkdir, sgfs_rmdir, sgfs_readdir).        *)
NamesAgree == NamesUnique /\ CacheFresh /\ NumbersConsistent
=============================================================================
