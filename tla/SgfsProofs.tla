----------------------------- MODULE SgfsProofs -----------------------------
(***************************************************************************)
(* Proofs about the group file system, for any number of threads, mounts,  *)
(* nodes and vnodes: reference counts are exact, nothing that is in use is *)
(* freed, names and file numbers agree with the tree, and attributes       *)
(* change all at once and only by who may.                                 *)
(*                                                                         *)
(* The invariant has two layers.  Book says how the calls and the vnodes   *)
(* fit together: use and hold counts, locks, and what a call knows at each *)
(* of its steps.  Tree says how the nodes fit together with what refers to *)
(* them.  Both are stated of functions and not of the variables, so that   *)
(* the states inside of a step can be reasoned about.  NameInv and         *)
(* NumberInv, of what names and file numbers say, stand on both.           *)
(***************************************************************************)
EXTENDS SgfsFull, QueueProofs, FiniteSetTheorems

(* What a call c uses next to the current directory, has a hold of, and *)
(* has locked                                                           *)
Uses(c, v) ==
    \/ c.vp = v /\ c.pc # "vget"
    \/ c.put = v /\ c.pc \in {"put", "purge"}

Holds(c, v) == c.vp = v /\ c.pc = "vget"

DirLocked(c) ==
    c.dvp # NULL /\ (c.op = "dotdot" => c.pc \in {"dotdot", "done"})

Locks(c, v) ==
    \/ c.dvp = v /\ DirLocked(c)
    \/ c.vp = v /\ c.pc # "vget"
    \/ c.put = v

CwdOf(cw, v) == {p \in Proc : cw[p] = v}
UsersOf(cl, v) == {p \in Proc : Uses(cl[p], v)}
HoldersOf(cl, v) == {p \in Proc : Holds(cl[p], v)}

VnodeOK(r) ==
    /\ r.st = "free" => r = FreeVnode
    /\ r.st = "live" <=> r.data # NULL
    /\ r.st = "live" => r.mount \in Mount

CountsOK(vs, cl, cw, v) ==
    /\ vs[v].use = Cardinality(CwdOf(cw, v)) + Cardinality(UsersOf(cl, v))
    /\ vs[v].hold = Cardinality(HoldersOf(cl, v))

(* What is set in a call, by its step *)
Walking == {"find", "getnew", "insert", "vget"}
Leaving == {"release", "compare", "destroy"}
Putting == {"purge", "put", "inactive", "reclaim"}

SetOK(c, w) ==
    /\ c.pc = "idle" => c = Idle
    /\ c.pc \in {"lookup", "dotdot", "parent", "mkdir", "relock"} =>
        c.dvp # NULL
    /\ c.pc \in {"lookup", "dotdot", "parent", "mkdir"} =>
        c.pd # NULL /\ c.vp = NULL
    /\ c.pc \in {"find", "getnew"} => c.vp = NULL
    /\ c.pc \in {"insert", "vget"} => c.vp # NULL
    /\ c.pc \in Walking \cup Leaving => c.pn # NULL
    /\ c.pc \in Putting <=> c.put # NULL
    /\ c.put # NULL => c.vp = NULL /\ c.put # c.dvp
    /\ c.pc = "purge" => c.op = "rmdir"
    /\ c.dvp # NULL => c.dvp = w /\ c.op \notin {"none", "root", "leave"}
    /\ c.dvp # NULL => c.name \in Name
    /\ c.pc # "idle" /\ c.put = NULL => c.mount \in Mount
    /\ c.pc \in {"dotdot", "parent", "relock"} => c.op = "dotdot"
    /\ c.pc \in {"lookup", "mkdir"} \cup Leaving => c.op # "dotdot"
    /\ c.op = "root" => c.dvp = NULL /\ c.pn = Root /\ w = NULL
    /\ c.op \in {"mkdir", "rmdir"} => c.dvp # NULL
    /\ c.dvp = NULL /\ c.put = NULL => c.op \in {"none", "root"}
    /\ c.dvp # NULL /\ c.vp = c.dvp /\ DirLocked(c) => c.pc = "vget"

(* What a call knows of references to nodes *)
RefOK(c) ==
    /\ c.ref => c.pc \in Walking \cup {"release"} /\ c.pn # Root
    /\ c.pc = "release" => c.ref
    /\ c.pc \in Walking /\ ~c.ref => c.op \in {"dotdot", "root"}
    /\ c.op \in {"dotdot", "root"} => ~c.ref /\ c.pc \notin Leaving
    /\ c.pc = "compare" => c.old >= Base
    /\ c.pc = "destroy" => c.old = Base

(* What a call knows of the vnodes it has *)
DirOK(vs, c, w) ==
    /\ c.pc \in {"lookup", "dotdot", "mkdir"} =>
        vs[c.dvp].st = "live" /\ vs[c.dvp].data = c.pd
    /\ w # NULL => vs[w].st \in {"live", "doomed"}

VpOK(vs, c) ==
    /\ c.vp # NULL =>
        /\ c.pc = "insert" =>
            vs[c.vp].st = "new" /\ vs[c.vp].mount = c.mount
        /\ c.pc # "insert" => vs[c.vp].st \in {"live", "doomed"}
        /\ c.op = "rmdir" => vs[c.vp].data # Root
    /\ c.put # NULL => vs[c.put].st \in {"live", "doomed"}
    /\ c.pc \in {"inactive", "reclaim"} =>
        vs[c.put].st = "live" /\ vs[c.put].use = 0

CallOK(vs, c, w) == SetOK(c, w) /\ RefOK(c) /\ DirOK(vs, c, w) /\ VpOK(vs, c)

LocksOK(vs, cl) ==
    \A p \in Proc, v \in Vnode : Locks(cl[p], v) => vs[v].lock = p

Book(vs, cl, cw) ==
    /\ vs \in [Vnode -> VnodeType]
    /\ cl \in [Proc -> CallType]
    /\ cw \in [Proc -> Vnode \cup {NULL}]
    /\ \A v \in Vnode : VnodeOK(vs[v])
    /\ \A v \in Vnode : CountsOK(vs, cl, cw, v)
    /\ LocksOK(vs, cl)
    /\ \A p \in Proc : CallOK(vs, cl[p], cw[p])

-----------------------------------------------------------------------------
(* Counting *)

Dirs(w, v) == IF w = v THEN 1 ELSE 0
UseBit(c, v) == IF Uses(c, v) THEN 1 ELSE 0
HoldBit(c, v) == IF Holds(c, v) THEN 1 ELSE 0

(* One thread that joins or leaves a set of threads changes its size by *)
(* one.                                                                 *)
LEMMA CountStep ==
    ASSUME NEW A \in SUBSET Proc, NEW B \in SUBSET Proc, NEW p \in Proc,
           A \ {p} = B \ {p}
    PROVE  /\ Cardinality(A) \in Nat /\ Cardinality(B) \in Nat
           /\ (p \in A <=> p \in B) => Cardinality(B) = Cardinality(A)
           /\ p \in A /\ p \notin B => Cardinality(B) = Cardinality(A) - 1
           /\ p \notin A /\ p \in B => Cardinality(B) = Cardinality(A) + 1
<1>1. IsFiniteSet(A) /\ IsFiniteSet(B)
    BY FiniteAssumption, FS_Subset
<1> QED
    BY <1>1, OneMoreOrLess

(* Nobody is counted in a set of size 0. *)
LEMMA CountNone ==
    ASSUME NEW A \in SUBSET Proc, Cardinality(A) = 0
    PROVE  A = {}
<1>1. IsFiniteSet(A)
    BY FiniteAssumption, FS_Subset
<1> QED
    BY <1>1, FS_EmptySet

(* How many threads there are of a kind is a number. *)
LEMMA CountType ==
    ASSUME NEW A \in SUBSET Proc
    PROVE  Cardinality(A) \in Nat
    BY FiniteAssumption, FS_Subset, FS_CardinalityType

-----------------------------------------------------------------------------
(* Book *)

(* A vnode that thread p changes to s, while others have it *)
Fits(p, r, s) ==
    /\ s \in VnodeType /\ VnodeOK(s)
    /\ r.lock \notin {NULL, p} =>
        /\ s.st = r.st /\ s.data = r.data /\ s.mount = r.mount
        /\ s.lock = r.lock /\ s.use = r.use
    /\ r.st \in {"live", "doomed"} =>
        s.st \in {"live", "doomed"} /\ s.data \in {r.data, NULL}

(* The counts of a vnode follow those of the thread *)
Follows(r, s, c, d, w, x, v) ==
    /\ s.use = r.use - Dirs(w, v) - UseBit(c, v) + Dirs(x, v) + UseBit(d, v)
    /\ s.hold = r.hold - HoldBit(c, v) + HoldBit(d, v)

(* A step of a thread that leaves to the others what they have locked, and *)
(* counts what it uses itself, keeps the books.                            *)
LEMMA BookStep ==
    ASSUME NEW vs, NEW cl, NEW cw, Book(vs, cl, cw),
           NEW p \in Proc, NEW d \in CallType, NEW x \in Vnode \cup {NULL},
           NEW vt, vt = [v \in Vnode |-> vt[v]],
           \A v \in Vnode : Fits(p, vs[v], vt[v]),
           \A v \in Vnode : Follows(vs[v], vt[v], cl[p], d, cw[p], x, v),
           \A v \in Vnode : Locks(d, v) => vt[v].lock = p,
           CallOK(vt, d, x)
    PROVE  Book(vt, [cl EXCEPT ![p] = d], [cw EXCEPT ![p] = x])
<1> DEFINE cm == [cl EXCEPT ![p] = d]
           cx == [cw EXCEPT ![p] = x]
<1>1. /\ vs \in [Vnode -> VnodeType] /\ cl \in [Proc -> CallType]
      /\ cw \in [Proc -> Vnode \cup {NULL}]
    BY DEF Book
<1>2. cm \in [Proc -> CallType] /\ cx \in [Proc -> Vnode \cup {NULL}]
    BY <1>1
<1>3. vt \in [Vnode -> VnodeType]
    BY DEF Fits
<1>4. \A v \in Vnode : VnodeOK(vt[v])
    BY DEF Fits
<1>5. ASSUME NEW v \in Vnode
      PROVE  CountsOK(vt, cm, cx, v)
    <2>1. /\ CwdOf(cw, v) \ {p} = CwdOf(cx, v) \ {p}
          /\ p \in CwdOf(cw, v) <=> cw[p] = v
          /\ p \in CwdOf(cx, v) <=> x = v
        BY <1>1 DEF CwdOf
    <2>2. /\ UsersOf(cl, v) \ {p} = UsersOf(cm, v) \ {p}
          /\ p \in UsersOf(cl, v) <=> Uses(cl[p], v)
          /\ p \in UsersOf(cm, v) <=> Uses(d, v)
        BY <1>1 DEF UsersOf
    <2>3. /\ HoldersOf(cl, v) \ {p} = HoldersOf(cm, v) \ {p}
          /\ p \in HoldersOf(cl, v) <=> Holds(cl[p], v)
          /\ p \in HoldersOf(cm, v) <=> Holds(d, v)
        BY <1>1 DEF HoldersOf
    <2>4. /\ Cardinality(CwdOf(cw, v)) \in Nat
          /\ Cardinality(CwdOf(cx, v)) \in Nat
          /\ Cardinality(CwdOf(cx, v)) =
                Cardinality(CwdOf(cw, v)) - Dirs(cw[p], v) + Dirs(x, v)
        <3>1. CwdOf(cw, v) \in SUBSET Proc /\ CwdOf(cx, v) \in SUBSET Proc
            BY DEF CwdOf
        <3>2. /\ Cardinality(CwdOf(cw, v)) \in Nat
              /\ Cardinality(CwdOf(cx, v)) \in Nat
            BY <3>1, CountType
        <3>3. (p \in CwdOf(cw, v) <=> p \in CwdOf(cx, v)) =>
                Cardinality(CwdOf(cx, v)) = Cardinality(CwdOf(cw, v))
            BY <2>1, <3>1, CountStep
        <3>4. p \in CwdOf(cw, v) /\ p \notin CwdOf(cx, v) =>
                Cardinality(CwdOf(cx, v)) = Cardinality(CwdOf(cw, v)) - 1
            BY <2>1, <3>1, CountStep
        <3>5. p \notin CwdOf(cw, v) /\ p \in CwdOf(cx, v) =>
                Cardinality(CwdOf(cx, v)) = Cardinality(CwdOf(cw, v)) + 1
            BY <2>1, <3>1, CountStep
        <3> QED
            BY <2>1, <3>2, <3>3, <3>4, <3>5 DEF Dirs
    <2>5. /\ Cardinality(UsersOf(cl, v)) \in Nat
          /\ Cardinality(UsersOf(cm, v)) \in Nat
          /\ Cardinality(UsersOf(cm, v)) = Cardinality(UsersOf(cl, v))
                - UseBit(cl[p], v) + UseBit(d, v)
        <3>1. UsersOf(cl, v) \in SUBSET Proc /\ UsersOf(cm, v) \in SUBSET Proc
            BY DEF UsersOf
        <3>2. /\ Cardinality(UsersOf(cl, v)) \in Nat
              /\ Cardinality(UsersOf(cm, v)) \in Nat
            BY <3>1, CountType
        <3>3. (p \in UsersOf(cl, v) <=> p \in UsersOf(cm, v)) =>
                Cardinality(UsersOf(cm, v)) = Cardinality(UsersOf(cl, v))
            BY <2>2, <3>1, CountStep
        <3>4. p \in UsersOf(cl, v) /\ p \notin UsersOf(cm, v) =>
                Cardinality(UsersOf(cm, v)) = Cardinality(UsersOf(cl, v)) - 1
            BY <2>2, <3>1, CountStep
        <3>5. p \notin UsersOf(cl, v) /\ p \in UsersOf(cm, v) =>
                Cardinality(UsersOf(cm, v)) = Cardinality(UsersOf(cl, v)) + 1
            BY <2>2, <3>1, CountStep
        <3> QED
            BY <2>2, <3>2, <3>3, <3>4, <3>5 DEF UseBit
    <2>6. /\ Cardinality(HoldersOf(cl, v)) \in Nat
          /\ Cardinality(HoldersOf(cm, v)) \in Nat
          /\ Cardinality(HoldersOf(cm, v)) = Cardinality(HoldersOf(cl, v))
                - HoldBit(cl[p], v) + HoldBit(d, v)
        <3>1. HoldersOf(cl, v) \in SUBSET Proc
              /\ HoldersOf(cm, v) \in SUBSET Proc
            BY DEF HoldersOf
        <3>2. /\ Cardinality(HoldersOf(cl, v)) \in Nat
              /\ Cardinality(HoldersOf(cm, v)) \in Nat
            BY <3>1, CountType
        <3>3. (p \in HoldersOf(cl, v) <=> p \in HoldersOf(cm, v)) =>
                Cardinality(HoldersOf(cm, v)) = Cardinality(HoldersOf(cl, v))
            BY <2>3, <3>1, CountStep
        <3>4. p \in HoldersOf(cl, v) /\ p \notin HoldersOf(cm, v) =>
                Cardinality(HoldersOf(cm, v)) = Cardinality(HoldersOf(cl, v)) - 1
            BY <2>3, <3>1, CountStep
        <3>5. p \notin HoldersOf(cl, v) /\ p \in HoldersOf(cm, v) =>
                Cardinality(HoldersOf(cm, v)) = Cardinality(HoldersOf(cl, v)) + 1
            BY <2>3, <3>1, CountStep
        <3> QED
            BY <2>3, <3>2, <3>3, <3>4, <3>5 DEF HoldBit
    <2>7. /\ vs[v].use = Cardinality(CwdOf(cw, v)) + Cardinality(UsersOf(cl, v))
          /\ vs[v].hold = Cardinality(HoldersOf(cl, v))
        BY DEF Book, CountsOK
    <2>8. Follows(vs[v], vt[v], cl[p], d, cw[p], x, v)
        OBVIOUS
    <2>a. /\ Dirs(cw[p], v) \in Int /\ Dirs(x, v) \in Int
          /\ UseBit(cl[p], v) \in Int /\ UseBit(d, v) \in Int
          /\ HoldBit(cl[p], v) \in Int /\ HoldBit(d, v) \in Int
        BY DEF Dirs, UseBit, HoldBit
    <2>9. /\ vt[v].use = Cardinality(CwdOf(cx, v)) + Cardinality(UsersOf(cm, v))
          /\ vt[v].hold = Cardinality(HoldersOf(cm, v))
        BY <2>4, <2>5, <2>6, <2>7, <2>8, <2>a DEF Follows
    <2> QED
        BY <2>9 DEF CountsOK
<1>6. LocksOK(vt, cm)
    <2> SUFFICES ASSUME NEW q \in Proc, NEW v \in Vnode, Locks(cm[q], v)
                 PROVE  vt[v].lock = q
        BY DEF LocksOK
    <2>1. CASE q = p
        BY <2>1, <1>1
    <2>2. CASE q # p
        <3>1. cm[q] = cl[q]
            BY <2>2, <1>1
        <3>2. vs[v].lock = q
            BY <3>1 DEF Book, LocksOK
        <3>3. Fits(p, vs[v], vt[v])
            OBVIOUS
        <3> QED
            BY <2>2, <3>2, <3>3, NullAssumption DEF Fits
    <2> QED
        BY <2>1, <2>2
<1>7. ASSUME NEW q \in Proc
      PROVE  CallOK(vt, cm[q], cx[q])
    <2>1. CASE q = p
        BY <2>1, <1>1
    <2>2. CASE q # p
        <3>1. cm[q] = cl[q] /\ cx[q] = cw[q]
            BY <2>2, <1>1
        <3>2. /\ SetOK(cl[q], cw[q]) /\ RefOK(cl[q])
              /\ DirOK(vs, cl[q], cw[q]) /\ VpOK(vs, cl[q])
            BY DEF Book, CallOK
        <3>3. \A v \in Vnode : Locks(cl[q], v) =>
                /\ vt[v].st = vs[v].st /\ vt[v].data = vs[v].data
                /\ vt[v].mount = vs[v].mount /\ vt[v].use = vs[v].use
            BY <2>2, NullAssumption DEF Book, LocksOK, Fits
        <3>4. \A v \in Vnode : vs[v].st \in {"live", "doomed"} =>
                /\ vt[v].st \in {"live", "doomed"}
                /\ vt[v].data \in {vs[v].data, NULL}
            BY DEF Fits
        <3>5. cl[q] \in CallType /\ cw[q] \in Vnode \cup {NULL}
            BY <1>1
        <3>6. DirOK(vt, cl[q], cw[q])
            BY SMTT(60), <3>2, <3>3, <3>4, <3>5
               DEF DirOK, SetOK, Locks, DirLocked, CallType
        <3>7. VpOK(vt, cl[q])
            BY <3>2, <3>3, <3>4, <3>5, RootAssumption, NullAssumption
               DEF VpOK, SetOK, Locks, CallType, Putting
        <3> QED
            BY <3>1, <3>2, <3>6, <3>7 DEF CallOK
    <2> QED
        BY <2>1, <2>2
<1> QED
    BY <1>2, <1>3, <1>4, <1>5, <1>6, <1>7 DEF Book

(* Giving a doomed vnode that nobody counts on back to the kernel keeps the *)
(* books.                                                                   *)
LEMMA BookSettled ==
    ASSUME NEW vs, NEW cl, NEW cw, Book(vs, cl, cw)
    PROVE  Book(Settled(vs), cl, cw)
<1> DEFINE vt == Settled(vs)
           Gone(v) == /\ vs[v].st = "doomed" /\ vs[v].use = 0
                      /\ vs[v].hold = 0 /\ vs[v].lock = NULL
<1>1. /\ vs \in [Vnode -> VnodeType] /\ cl \in [Proc -> CallType]
      /\ cw \in [Proc -> Vnode \cup {NULL}]
    BY DEF Book
<1>2. /\ \A v \in Vnode : Gone(v) => vt[v] = FreeVnode
      /\ \A v \in Vnode : ~Gone(v) => vt[v] = vs[v]
    BY DEF Settled
<1>3. FreeVnode \in VnodeType
    BY DEF FreeVnode, VnodeType
<1>4. vt = [v \in Vnode |-> vt[v]]
    BY DEF Settled
<1>5. \A v \in Vnode : vt[v] \in VnodeType
    BY <1>1, <1>2, <1>3
<1>6. vt \in [Vnode -> VnodeType]
    BY <1>4, <1>5
<1>7. ASSUME NEW v \in Vnode, Gone(v), NEW p \in Proc
      PROVE  cw[p] # v /\ ~Uses(cl[p], v) /\ ~Holds(cl[p], v) /\ ~Locks(cl[p], v)
    <2>1. /\ CwdOf(cw, v) \in SUBSET Proc /\ UsersOf(cl, v) \in SUBSET Proc
          /\ HoldersOf(cl, v) \in SUBSET Proc
        BY DEF CwdOf, UsersOf, HoldersOf
    <2>2. /\ 0 = Cardinality(CwdOf(cw, v)) + Cardinality(UsersOf(cl, v))
          /\ 0 = Cardinality(HoldersOf(cl, v))
        BY <1>7 DEF Book, CountsOK
    <2>3. /\ Cardinality(CwdOf(cw, v)) \in Nat
          /\ Cardinality(UsersOf(cl, v)) \in Nat
        BY <2>1, CountType
    <2>4. Cardinality(CwdOf(cw, v)) = 0 /\ Cardinality(UsersOf(cl, v)) = 0
        BY <2>2, <2>3
    <2>5. CwdOf(cw, v) = {} /\ UsersOf(cl, v) = {} /\ HoldersOf(cl, v) = {}
        BY <2>1, <2>2, <2>4, CountNone
    <2>6. ~Locks(cl[p], v)
        BY <1>7, NullAssumption DEF Book, LocksOK
    <2> QED
        BY <2>5, <2>6 DEF CwdOf, UsersOf, HoldersOf
<1>8. \A v \in Vnode : VnodeOK(vt[v])
    BY <1>2 DEF Book, VnodeOK, FreeVnode
<1>9. ASSUME NEW v \in Vnode
      PROVE  CountsOK(vt, cl, cw, v)
    <2>1. vt[v].use = vs[v].use /\ vt[v].hold = vs[v].hold
        BY <1>2 DEF FreeVnode
    <2> QED
        BY <2>1 DEF Book, CountsOK
<1>10. LocksOK(vt, cl)
    <2> SUFFICES ASSUME NEW p \in Proc, NEW v \in Vnode, Locks(cl[p], v)
                 PROVE  vt[v].lock = p
        BY DEF LocksOK
    <2>1. ~Gone(v)
        BY <1>7
    <2> QED
        BY <2>1, <1>2 DEF Book, LocksOK
<1>11. ASSUME NEW p \in Proc
       PROVE  CallOK(vt, cl[p], cw[p])
    <2>1. /\ SetOK(cl[p], cw[p]) /\ RefOK(cl[p])
          /\ DirOK(vs, cl[p], cw[p]) /\ VpOK(vs, cl[p])
        BY DEF Book, CallOK
    <2>2. cl[p] \in CallType /\ cw[p] \in Vnode \cup {NULL}
        BY <1>1
    <2>3. \A v \in Vnode : cw[p] = v \/ Uses(cl[p], v) \/ Holds(cl[p], v)
                           \/ Locks(cl[p], v) => vt[v] = vs[v]
        BY <1>2, <1>7
    <2>4. DirOK(vt, cl[p], cw[p])
        BY <2>1, <2>2, <2>3 DEF DirOK, SetOK, CallType
    <2>5. cl[p].vp # NULL => vt[cl[p].vp] = vs[cl[p].vp]
        BY <2>2, <2>3 DEF Uses, Holds, CallType
    <2>6. cl[p].put # NULL => vt[cl[p].put] = vs[cl[p].put]
        BY <2>2, <2>3 DEF Locks, CallType
    <2>7. cl[p].pc \in {"inactive", "reclaim"} => cl[p].put # NULL
        BY <2>1 DEF SetOK, Putting
    <2>8. VpOK(vt, cl[p])
        BY <2>1, <2>5, <2>6, <2>7 DEF VpOK
    <2> QED
        BY <2>1, <2>4, <2>8 DEF CallOK
<1> QED
    BY <1>1, <1>6, <1>8, <1>9, <1>10, <1>11 DEF Book

(* The kernel may take back a vnode that nobody has locked. *)
LEMMA BookDoom ==
    ASSUME NEW vs, NEW cl, NEW cw, Book(vs, cl, cw), NEW v \in Vnode,
           vs[v].st = "live", vs[v].lock = NULL
    PROVE  Book([vs EXCEPT ![v].st = "doomed", ![v].data = NULL,
                           ![v].lock = NULL], cl, cw)
<1> DEFINE vt == [vs EXCEPT ![v].st = "doomed", ![v].data = NULL,
                            ![v].lock = NULL]
<1>1. /\ vs \in [Vnode -> VnodeType] /\ cl \in [Proc -> CallType]
      /\ cw \in [Proc -> Vnode \cup {NULL}]
    BY DEF Book
<1>2. vt \in [Vnode -> VnodeType]
    <2>1. vs[v] \in VnodeType
        BY <1>1
    <2>2. [vs[v] EXCEPT !.st = "doomed", !.data = NULL, !.lock = NULL]
            \in VnodeType
        BY ZenonT(60), <2>1 DEF VnodeType
    <2>3. vt = [vs EXCEPT ![v] = [vs[v] EXCEPT !.st = "doomed", !.data = NULL,
                                               !.lock = NULL]]
        BY <1>1 DEF VnodeType
    <2> QED
        BY <1>1, <2>2, <2>3
<1>3. \A u \in Vnode : u # v => vt[u] = vs[u]
    BY <1>1
<1>4. /\ vt[v].st = "doomed" /\ vt[v].data = NULL /\ vt[v].lock = NULL
      /\ vt[v].use = vs[v].use /\ vt[v].hold = vs[v].hold
    BY <1>1 DEF VnodeType
<1>5. \A u \in Vnode : VnodeOK(vt[u])
    BY <1>3, <1>4 DEF Book, VnodeOK
<1>6. \A u \in Vnode : CountsOK(vt, cl, cw, u)
    BY <1>3, <1>4 DEF Book, CountsOK
<1>7. \A p \in Proc : ~Locks(cl[p], v)
    BY NullAssumption DEF Book, LocksOK
<1>8. LocksOK(vt, cl)
    BY <1>3, <1>7 DEF Book, LocksOK
<1>9. ASSUME NEW p \in Proc
      PROVE  CallOK(vt, cl[p], cw[p])
    <2>1. /\ SetOK(cl[p], cw[p]) /\ RefOK(cl[p])
          /\ DirOK(vs, cl[p], cw[p]) /\ VpOK(vs, cl[p])
        BY DEF Book, CallOK
    <2>2. cl[p] \in CallType /\ cw[p] \in Vnode \cup {NULL}
        BY <1>1
    <2>3. \A u \in Vnode : Locks(cl[p], u) => vt[u] = vs[u]
        BY <1>3, <1>7
    <2>4. DirOK(vt, cl[p], cw[p])
        BY ZenonT(120), <2>1, <2>2, <2>3, <1>3, <1>4
           DEF DirOK, SetOK, Locks, DirLocked, CallType
    <2>5. cl[p].put # NULL => vt[cl[p].put] = vs[cl[p].put]
        BY <2>2, <2>3 DEF Locks, CallType
    <2>6. cl[p].vp # NULL /\ cl[p].pc # "vget" =>
            vt[cl[p].vp] = vs[cl[p].vp]
        BY <2>2, <2>3 DEF Locks, CallType
    <2>7. cl[p].vp # NULL /\ cl[p].pc = "vget" =>
            /\ vt[cl[p].vp].st \in {vs[cl[p].vp].st, "doomed"}
            /\ vt[cl[p].vp].data \in {vs[cl[p].vp].data, NULL}
        BY ZenonT(60), <2>2, <1>3, <1>4 DEF CallType
    <2>8. cl[p].pc \in {"inactive", "reclaim"} => cl[p].put # NULL
        BY <2>1 DEF SetOK, Putting
    <2>9. VpOK(vt, cl[p])
        BY ZenonT(60), <2>1, <2>5, <2>6, <2>7, <2>8, RootAssumption,
           NullAssumption DEF VpOK
    <2> QED
        BY <2>1, <2>4, <2>9 DEF CallOK
<1> QED
    BY <1>1, <1>2, <1>5, <1>6, <1>8, <1>9 DEF Book

-----------------------------------------------------------------------------
(* Tree *)

NodeOK(ns, n) ==
    /\ ~ns[n].live => ns[n] = FreeNode
    /\ ns[n].live =>
        /\ IsInjective(ns[n].children)
        /\ \A m \in ToSet(ns[n].children) : ns[m].live /\ ns[m].parent = n
        /\ ns[n].parent # NULL =>
            /\ ns[ns[n].parent].live
            /\ n \in ToSet(ns[ns[n].parent].children)
        /\ ns[n].deleted => ns[n].parent = NULL
        /\ ns[n].parent = NULL => ns[n].deleted \/ n = Root

RootOK(ns) == ns[Root].live /\ ~ns[Root].deleted /\ ns[Root].parent = NULL

VnodesAt(vs, n) == {v \in Vnode : vs[v].data = n}
RefsTo(cl, n) == {p \in Proc : cl[p].ref /\ cl[p].pn = n}

UsedOK(ns, vs) ==
    \A v \in Vnode :
        vs[v].data # NULL => vs[v].data \in Node /\ ns[vs[v].data].live
RefsOK(ns, cl) ==
    \A p \in Proc : cl[p].ref => cl[p].pn \in Node /\ ns[cl[p].pn].live

Expected(ns, vs, cl, n) ==
    (IF ns[n].deleted THEN 0 ELSE 1) + 2 + Len(ns[n].children)
        + Cardinality(VnodesAt(vs, n)) + Cardinality(RefsTo(cl, n))

(* The nodes in S have a reference too many, which is about to be released. *)
Exact(ns, vs, cl, S) ==
    \A n \in Node : ns[n].live =>
        ns[n].refcount = Expected(ns, vs, cl, n) + (IF n \in S THEN 1 ELSE 0)

(* Call c has dropped the last reference of n. *)
Kills(c, n) ==
    c.pn = n /\ (c.pc = "destroy" \/ (c.pc = "compare" /\ c.old = Base))

KillsOK(ns, cl) ==
    /\ \A n \in Node, p \in Proc : Kills(cl[p], n) =>
            ns[n].live /\ ns[n].deleted /\ ns[n].refcount = 2
    /\ \A n \in Node, p, q \in Proc :
            Kills(cl[p], n) /\ Kills(cl[q], n) => p = q
    /\ \A n \in Node : ns[n].live /\ ns[n].refcount = 2 =>
            \E p \in Proc : Kills(cl[p], n)

Tree(ns, vs, cl, S) ==
    /\ ns \in [Node -> NodeType]
    /\ \A n \in Node : NodeOK(ns, n)
    /\ RootOK(ns)
    /\ UsedOK(ns, vs)
    /\ RefsOK(ns, cl)
    /\ Exact(ns, vs, cl, S)
    /\ KillsOK(ns, cl)

(* What a recount finds is a number, at least 2, and 2 only for a directory *)
(* that is removed and empty and that nobody refers to.                     *)
LEMMA ExpectedBounds ==
    ASSUME NEW ns \in [Node -> NodeType], NEW vs, NEW cl, NEW n \in Node
    PROVE  /\ Expected(ns, vs, cl, n) \in Nat
           /\ Expected(ns, vs, cl, n) >= 2
           /\ VnodesAt(vs, n) # {} => Expected(ns, vs, cl, n) > 2
           /\ ~ns[n].deleted => Expected(ns, vs, cl, n) > 2
           /\ Expected(ns, vs, cl, n) = 2 =>
                /\ ns[n].deleted /\ ns[n].children = <<>>
                /\ VnodesAt(vs, n) = {} /\ RefsTo(cl, n) = {}
<1>1. /\ IsFiniteSet(VnodesAt(vs, n)) /\ IsFiniteSet(RefsTo(cl, n))
    BY FiniteAssumption, FS_Subset DEF VnodesAt, RefsTo
<1>2. /\ Cardinality(VnodesAt(vs, n)) \in Nat
      /\ Cardinality(RefsTo(cl, n)) \in Nat
      /\ Cardinality(VnodesAt(vs, n)) = 0 <=> VnodesAt(vs, n) = {}
      /\ Cardinality(RefsTo(cl, n)) = 0 <=> RefsTo(cl, n) = {}
    BY <1>1, FS_CardinalityType, FS_EmptySet
<1>3. /\ ns[n].children \in Seq(Node) /\ ns[n].deleted \in BOOLEAN
      /\ Len(ns[n].children) \in Nat
      /\ Len(ns[n].children) = 0 => ns[n].children = <<>>
    BY DEF NodeType
<1> DEFINE d == IF ns[n].deleted THEN 0 ELSE 1
           l == Len(ns[n].children)
           k == Cardinality(VnodesAt(vs, n))
           r == Cardinality(RefsTo(cl, n))
<1>4. d \in 0 .. 1 /\ (d = 0 <=> ns[n].deleted)
    BY <1>3
<1>5. Expected(ns, vs, cl, n) = d + 2 + l + k + r
    BY DEF Expected
<1>6. l \in Nat /\ k \in Nat /\ r \in Nat
    BY <1>2, <1>3
<1> HIDE DEF d, l, k, r
<1>7. /\ d + 2 + l + k + r \in Nat
      /\ d + 2 + l + k + r >= 2
      /\ d = 1 => d + 2 + l + k + r > 2
      /\ k # 0 => d + 2 + l + k + r > 2
      /\ d + 2 + l + k + r = 2 => d = 0 /\ l = 0 /\ k = 0 /\ r = 0
    BY <1>4, <1>6
<1>8. d = 0 \/ d = 1
    BY <1>4
<1> USE DEF d, l, k, r
<1> QED
    BY <1>2, <1>3, <1>4, <1>5, <1>7, <1>8

(* A step that leaves nodes and references alone. *)
LEMMA TreeQuiet ==
    ASSUME NEW ns, NEW vs, NEW cl, NEW S, Tree(ns, vs, cl, S),
           NEW vt, NEW cm,
           \A v \in Vnode : vt[v].data = vs[v].data,
           \A p \in Proc : cm[p].ref <=> cl[p].ref,
           \A p \in Proc : cl[p].ref => cm[p].pn = cl[p].pn,
           \A p \in Proc, n \in Node : Kills(cm[p], n) <=> Kills(cl[p], n)
    PROVE  Tree(ns, vt, cm, S)
<1>1. \A n \in Node : VnodesAt(vt, n) = VnodesAt(vs, n)
    BY DEF VnodesAt
<1>2. \A n \in Node : RefsTo(cm, n) = RefsTo(cl, n)
    BY DEF RefsTo
<1>3. UsedOK(ns, vt)
    BY DEF Tree, UsedOK
<1>4. RefsOK(ns, cm)
    BY DEF Tree, RefsOK
<1>5. Exact(ns, vt, cm, S)
    BY <1>1, <1>2 DEF Tree, Exact, Expected
<1>6. KillsOK(ns, cm)
    BY DEF Tree, KillsOK
<1> QED
    BY <1>3, <1>4, <1>5, <1>6 DEF Tree

(* Only the directory itself is freed when it has no children. *)
LEMMA DestroyLeaf ==
    ASSUME NEW ns \in [Node -> NodeType], NEW n \in Node,
           ns[n].children = <<>>, ns[n].parent = NULL
    PROVE  sgfs_destroy(ns, n) =
                [m \in Node |-> IF m = n THEN FreeNode ELSE ns[m]]
<1>1. ToSet(ns[n].children) = {}
    BY DEF ToSet
<1>2. n \in Below(ns, n)
    BY DEF Below
<1>3. ASSUME NEW m \in Below(ns, n)
      PROVE  m = n
    <2>1. {n} \in SUBSET Node /\ n \in {n}
          /\ \A k \in {n} : ToSet(ns[k].children) \subseteq {n}
        BY <1>1
    <2> QED
        BY <1>3, <2>1 DEF Below
<1>4. \A m \in Node : m # ns[n].parent
    BY NullAssumption
<1>5. \A m \in Node :
        (IF m \in Below(ns, n) THEN FreeNode
         ELSE IF m = ns[n].parent THEN [ns[m] EXCEPT !.children = Without(@, n)]
         ELSE ns[m])
        = (IF m = n THEN FreeNode ELSE ns[m])
    BY <1>2, <1>3, <1>4
<1> QED
    BY <1>5, Zenon DEF sgfs_destroy

Freed(ns, n) == [m \in Node |-> IF m = n THEN FreeNode ELSE ns[m]]

(* Freeing a directory that nothing refers to. *)
LEMMA TreeFree ==
    ASSUME NEW ns, NEW vs, NEW cl, NEW S, Tree(ns, vs, cl, S),
           NEW n \in Node, ns[n].live, Expected(ns, vs, cl, n) = 2,
           NEW cm,
           \A p \in Proc : cm[p].ref <=> cl[p].ref,
           \A p \in Proc : cl[p].ref => cm[p].pn = cl[p].pn,
           \A p \in Proc, m \in Node : m # n =>
                (Kills(cm[p], m) <=> Kills(cl[p], m)),
           \A p \in Proc : ~Kills(cm[p], n)
    PROVE  Tree(Freed(ns, n), vs, cm, S \ {n})
<1> DEFINE r == Freed(ns, n)
<1>1. ns \in [Node -> NodeType]
    BY DEF Tree
<1>2. /\ ns[n].deleted /\ ns[n].children = <<>>
      /\ VnodesAt(vs, n) = {} /\ RefsTo(cl, n) = {}
    BY <1>1, ExpectedBounds
<1>3. ns[n].parent = NULL
    BY <1>2 DEF Tree, NodeOK
<1>4. r[n] = FreeNode /\ \A m \in Node : m # n => r[m] = ns[m]
    BY DEF Freed
<1>5. FreeNode \in NodeType /\ ~FreeNode.live
    BY EmptySeq DEF FreeNode, NodeType
<1>6. r \in [Node -> NodeType]
    BY <1>1, <1>5 DEF Freed
<1>7. ASSUME NEW m \in Node
      PROVE  NodeOK(r, m)
    <2>1. CASE m = n
        BY <2>1, <1>4, <1>5 DEF NodeOK
    <2>2. CASE m # n
        <3>1. r[m] = ns[m] /\ NodeOK(ns, m)
            BY <2>2, <1>4 DEF Tree
        <3>2. ns[m] \in NodeType
            BY <1>1
        <3>3. ns[m].live => \A k \in ToSet(ns[m].children) : k \in Node /\ k # n
            BY <1>3, <3>1, <3>2, NullAssumption, ToSetMember
               DEF NodeOK, NodeType
        <3>4. ns[m].live /\ ns[m].parent # NULL => ns[m].parent # n
            <4>1. ToSet(ns[n].children) = {}
                BY <1>2 DEF ToSet
            <4> QED
                BY <4>1, <3>1 DEF NodeOK
        <3>5. ns[m].parent \in Node \cup {NULL}
            BY <3>2 DEF NodeType
        <3> QED
            BY <3>1, <3>3, <3>4, <3>5, <1>4 DEF NodeOK
    <2> QED
        BY <2>1, <2>2
<1>8. n # Root
    BY <1>2 DEF Tree, RootOK
<1>9. RootOK(r)
    BY <1>4, <1>8, RootAssumption DEF Tree, RootOK
<1>10. \A v \in Vnode : vs[v].data # n
    BY <1>2 DEF VnodesAt
<1>11. UsedOK(r, vs)
    BY <1>4, <1>10 DEF Tree, UsedOK
<1>12. \A p \in Proc : cl[p].ref => cl[p].pn # n
    BY <1>2 DEF RefsTo
<1>13. RefsOK(r, cm)
    BY <1>4, <1>12 DEF Tree, RefsOK
<1>14. Exact(r, vs, cm, S \ {n})
    <2> SUFFICES ASSUME NEW m \in Node, r[m].live
                 PROVE  r[m].refcount = Expected(r, vs, cm, m)
                            + (IF m \in S \ {n} THEN 1 ELSE 0)
        BY DEF Exact
    <2>1. m # n /\ r[m] = ns[m]
        BY <1>4, <1>5
    <2>2. RefsTo(cm, m) = RefsTo(cl, m)
        BY DEF RefsTo
    <2>3. Expected(r, vs, cm, m) = Expected(ns, vs, cl, m)
        BY <2>1, <2>2 DEF Expected
    <2> QED
        BY <2>1, <2>3 DEF Tree, Exact
<1>15. KillsOK(r, cm)
    BY <1>4, <1>5 DEF Tree, KillsOK
<1> QED
    BY <1>6, <1>7, <1>9, <1>11, <1>13, <1>14, <1>15 DEF Tree

(* What stands in the nodes besides the counter *)
SameShape(ns, r) ==
    \A n \in Node :
        /\ r[n].live = ns[n].live /\ r[n].parent = ns[n].parent
        /\ r[n].children = ns[n].children /\ r[n].deleted = ns[n].deleted
        /\ ~ns[n].live => r[n] = ns[n]

(* What makes a node well-formed says nothing about counts. *)
LEMMA ShapeNodes ==
    ASSUME NEW ns \in [Node -> NodeType], NEW r, SameShape(ns, r),
           \A n \in Node : NodeOK(ns, n), RootOK(ns)
    PROVE  /\ \A n \in Node : NodeOK(r, n)
           /\ RootOK(r)
<1>1. RootOK(r)
    BY RootAssumption DEF RootOK, SameShape
<1>2. ASSUME NEW n \in Node
      PROVE  NodeOK(r, n)
    <2>1. NodeOK(ns, n) /\ ns[n] \in NodeType
        OBVIOUS
    <2>2. \A m \in ToSet(ns[n].children) : m \in Node
        BY <2>1, ToSetMember DEF NodeType
    <2>3. ns[n].parent \in Node \cup {NULL}
        BY <2>1 DEF NodeType
    <2> QED
        BY <2>1, <2>2, <2>3 DEF NodeOK, SameShape
<1> QED
    BY <1>1, <1>2

(* sgnode_release by a thread that has the lock of the file system gives up *)
(* the reference too many, and frees the node when it was the last one.     *)
LEMMA TreeRelease ==
    ASSUME NEW ns, NEW vs, NEW cl, NEW S, Tree(ns, vs, cl, S),
           NEW n \in Node, n \in S, ns[n].live
    PROVE  /\ Tree(ReleaseLocked(ns, n), vs, cl, S \ {n})
           /\ \A m \in Node : m # n => ReleaseLocked(ns, n)[m] = ns[m]
           /\ \A m \in Node : ReleaseLocked(ns, n)[m].live =>
                ReleaseLocked(ns, n)[m].deleted = ns[m].deleted
<1> DEFINE r == ReleaseLocked(ns, n)
           dec == [ns EXCEPT ![n].refcount = @ - 1]
           x == Expected(ns, vs, cl, n)
<1>1. ns \in [Node -> NodeType]
    BY DEF Tree
<1>2. /\ x \in Nat /\ x >= 2
      /\ x = 2 => ns[n].deleted /\ ns[n].children = <<>>
    BY <1>1, ExpectedBounds
<1>3. ns[n].refcount = x + 1
    BY DEF Tree, Exact
<1>4. /\ \A m \in Node : m # n => dec[m] = ns[m]
      /\ dec[n].refcount = ns[n].refcount - 1
      /\ dec[n].live = ns[n].live /\ dec[n].parent = ns[n].parent
      /\ dec[n].children = ns[n].children /\ dec[n].deleted = ns[n].deleted
    BY <1>1 DEF NodeType
<1>5. dec \in [Node -> NodeType]
    <2>1. [ns[n] EXCEPT !.refcount = @ - 1] \in NodeType
        BY SMTT(60), <1>1, <1>2, <1>3 DEF NodeType
    <2>2. dec = [ns EXCEPT ![n] = [ns[n] EXCEPT !.refcount = @ - 1]]
        BY <1>1 DEF NodeType
    <2> QED
        BY <1>1, <2>1, <2>2
<1>6. \A p \in Proc : ~Kills(cl[p], n)
    BY <1>2, <1>3 DEF Tree, KillsOK
<1>7. CASE ns[n].refcount = Base
    <2>1. x = 2
        BY <1>2, <1>3, <1>7 DEF Base
    <2>2. ns[n].children = <<>> /\ ns[n].deleted
        BY <1>2, <2>1
    <2>3. ns[n].parent = NULL
        BY <2>2 DEF Tree, NodeOK
    <2>4. r = sgfs_destroy(dec, n)
        BY <1>7 DEF ReleaseLocked
    <2>5. sgfs_destroy(dec, n) =
            [m \in Node |-> IF m = n THEN FreeNode ELSE dec[m]]
        <3>1. dec[n].children = <<>> /\ dec[n].parent = NULL
            BY <1>4, <2>2, <2>3
        <3> HIDE DEF dec
        <3> QED
            BY <1>5, <3>1, DestroyLeaf
    <2>6. r = Freed(ns, n)
        BY <2>4, <2>5, <1>4 DEF Freed
    <2>7. Tree(Freed(ns, n), vs, cl, S \ {n})
        BY <1>6, <2>1, TreeFree
    <2>8. /\ \A m \in Node : m # n => r[m] = ns[m]
          /\ ~r[n].live
        BY <2>6 DEF Freed, FreeNode
    <2> QED
        BY <2>6, <2>7, <2>8
<1>8. CASE ns[n].refcount # Base
    <2>1. r = dec
        BY <1>8 DEF ReleaseLocked
    <2>2. SameShape(ns, dec)
        BY <1>4 DEF SameShape
    <2>3. (\A m \in Node : NodeOK(dec, m)) /\ RootOK(dec)
        BY <1>1, <2>2, ShapeNodes DEF Tree
    <2>4. UsedOK(dec, vs) /\ RefsOK(dec, cl)
        BY <2>2 DEF Tree, UsedOK, RefsOK, SameShape
    <2>5. \A m \in Node : Expected(dec, vs, cl, m) = Expected(ns, vs, cl, m)
        BY <2>2 DEF Expected, SameShape
    <2>6. Exact(dec, vs, cl, S \ {n})
        <3> SUFFICES ASSUME NEW m \in Node, dec[m].live
                     PROVE  dec[m].refcount = Expected(dec, vs, cl, m)
                                + (IF m \in S \ {n} THEN 1 ELSE 0)
            BY DEF Exact
        <3>1. CASE m = n
            <4>1. Expected(dec, vs, cl, m) = x
                BY <3>1, <2>5
            <4>2. m \notin S \ {n}
                BY <3>1
            <4>3. x \in Nat
                BY <1>2
            <4>4. /\ dec[m].refcount = dec[n].refcount
                  /\ dec[n].refcount = ns[n].refcount - 1
                  /\ ns[n].refcount = x + 1
                BY <3>1, <1>3, <1>4, Zenon
            <4> HIDE DEF x, dec
            <4> QED
                BY <4>1, <4>2, <4>3, <4>4
        <3>2. CASE m # n
            BY ZenonT(60), <3>2, <2>5, <1>4 DEF Tree, Exact
        <3> QED
            BY <3>1, <3>2
    <2>7. dec[n].refcount # 2
        BY <1>2, <1>3, <1>4, <1>8 DEF Base
    <2>8. KillsOK(dec, cl)
        BY <1>4, <1>6, <2>7 DEF Tree, KillsOK
    <2>9. Tree(dec, vs, cl, S \ {n})
        BY <1>5, <2>3, <2>4, <2>6, <2>8 DEF Tree
    <2> QED
        BY <2>1, <2>9, <1>4
<1> QED
    BY <1>7, <1>8

(* A vnode that loses its node leaves it with a reference too many. *)
LEMMA TreeDrop ==
    ASSUME NEW ns, NEW vs, NEW cl, Tree(ns, vs, cl, {}),
           NEW v \in Vnode, NEW n \in Node, vs[v].data = n, NEW vt,
           vt[v].data = NULL,
           \A u \in Vnode : u # v => vt[u].data = vs[u].data
    PROVE  Tree(ns, vt, cl, {n})
<1>1. IsFiniteSet(VnodesAt(vs, n))
    BY FiniteAssumption, FS_Subset DEF VnodesAt
<1>2. v \in VnodesAt(vs, n) /\ VnodesAt(vt, n) = VnodesAt(vs, n) \ {v}
    BY NullAssumption DEF VnodesAt
<1>3. /\ Cardinality(VnodesAt(vt, n)) = Cardinality(VnodesAt(vs, n)) - 1
      /\ Cardinality(VnodesAt(vs, n)) \in Nat
    BY <1>1, <1>2, FS_RemoveElement, FS_CardinalityType
<1>4. \A m \in Node : m # n => VnodesAt(vt, m) = VnodesAt(vs, m)
    BY NullAssumption DEF VnodesAt
<1>5. UsedOK(ns, vt)
    BY DEF Tree, UsedOK
<1>6. Exact(ns, vt, cl, {n})
    <2> SUFFICES ASSUME NEW m \in Node, ns[m].live
                 PROVE  ns[m].refcount = Expected(ns, vt, cl, m)
                                         + (IF m \in {n} THEN 1 ELSE 0)
        BY DEF Exact
    <2>1. ns[m].refcount = Expected(ns, vs, cl, m)
        <3>1. ns[m].refcount = Expected(ns, vs, cl, m)
                               + (IF m \in {} THEN 1 ELSE 0)
            BY DEF Tree, Exact
        <3>2. Expected(ns, vs, cl, m) \in Nat
            BY ExpectedBounds DEF Tree
        <3> QED
            BY <3>1, <3>2
    <2>2. CASE m # n
        <3>1. Expected(ns, vt, cl, m) = Expected(ns, vs, cl, m)
            BY <2>2, <1>4 DEF Expected
        <3>2. Expected(ns, vs, cl, m) \in Nat
            BY ExpectedBounds DEF Tree
        <3> QED
            BY <2>1, <2>2, <3>1, <3>2
    <2>3. CASE m = n
        <3>1. Expected(ns, vs, cl, n) = Expected(ns, vt, cl, n) + 1
            <4> DEFINE d == (IF ns[n].deleted THEN 0 ELSE 1) + 2
                            + Len(ns[n].children)
                       rr == Cardinality(RefsTo(cl, n))
            <4>1. /\ Expected(ns, vs, cl, n) =
                        d + Cardinality(VnodesAt(vs, n)) + rr
                  /\ Expected(ns, vt, cl, n) =
                        d + Cardinality(VnodesAt(vt, n)) + rr
                BY DEF Expected
            <4>2. d \in Int
                BY DEF Tree, NodeType
            <4>3. rr \in Nat
                BY CountType DEF RefsTo
            <4> HIDE DEF d, rr
            <4> QED
                BY <1>3, <4>1, <4>2, <4>3
        <3> QED
            BY <2>1, <2>3, <3>1
    <2> QED
        BY <2>2, <2>3
<1> QED
    BY <1>5, <1>6 DEF Tree

RefBit(c, n) == IF c.ref /\ c.pn = n THEN 1 ELSE 0

(* How the thread p changes what a recount of node n finds, by the reference *)
(* that it takes or gives up                                                 *)
LEMMA ExpectedRef ==
    ASSUME NEW ns \in [Node -> NodeType], NEW vs, NEW cl, NEW cm,
           NEW p \in Proc, NEW n \in Node,
           \A q \in Proc : q # p => cm[q] = cl[q]
    PROVE  /\ Expected(ns, vs, cl, n) \in Nat
           /\ Expected(ns, vs, cm, n) \in Nat
           /\ Expected(ns, vs, cm, n) = Expected(ns, vs, cl, n)
                    - RefBit(cl[p], n) + RefBit(cm[p], n)
<1> DEFINE A == RefsTo(cl, n)
           B == RefsTo(cm, n)
           base == (IF ns[n].deleted THEN 0 ELSE 1) + 2
                        + Len(ns[n].children) + Cardinality(VnodesAt(vs, n))
<1>1. A \in SUBSET Proc /\ B \in SUBSET Proc
    BY DEF RefsTo
<1>2. A \ {p} = B \ {p}
    BY DEF RefsTo
<1>3. /\ p \in A <=> (cl[p].ref /\ cl[p].pn = n)
      /\ p \in B <=> (cm[p].ref /\ cm[p].pn = n)
    BY DEF RefsTo
<1>4. /\ Cardinality(A) \in Nat /\ Cardinality(B) \in Nat
      /\ (p \in A <=> p \in B) => Cardinality(B) = Cardinality(A)
      /\ p \in A /\ p \notin B => Cardinality(B) = Cardinality(A) - 1
      /\ p \notin A /\ p \in B => Cardinality(B) = Cardinality(A) + 1
    <2> HIDE DEF A, B
    <2> QED
        BY <1>1, <1>2, CountStep
<1>5. /\ Expected(ns, vs, cl, n) = base + Cardinality(A)
      /\ Expected(ns, vs, cm, n) = base + Cardinality(B)
    BY DEF Expected
<1>6. /\ Expected(ns, vs, cl, n) \in Nat
      /\ Expected(ns, vs, cm, n) \in Nat
    BY ExpectedBounds
<1>7. base \in Int
    <2> DEFINE d == IF ns[n].deleted THEN 0 ELSE 1
               l == Len(ns[n].children)
               k == Cardinality(VnodesAt(vs, n))
    <2>1. IsFiniteSet(VnodesAt(vs, n))
        BY FiniteAssumption, FS_Subset DEF VnodesAt
    <2>2. k \in Int
        BY <2>1, FS_CardinalityType
    <2>3. l \in Int
        BY DEF NodeType
    <2>4. d \in Int
        OBVIOUS
    <2> HIDE DEF d, l, k
    <2>5. d + 2 + l + k \in Int
        BY <2>2, <2>3, <2>4
    <2> QED
        BY <2>5 DEF d, l, k
<1>8. /\ RefBit(cl[p], n) = IF p \in A THEN 1 ELSE 0
      /\ RefBit(cm[p], n) = IF p \in B THEN 1 ELSE 0
    BY <1>3 DEF RefBit
<1> HIDE DEF A, B, base
<1> QED
    BY <1>4, <1>5, <1>6, <1>7, <1>8

(* A node that is not about to be freed is referenced once more. *)
LEMMA TreeAdd ==
    ASSUME NEW ns, NEW vs, NEW cl, Tree(ns, vs, cl, {}),
           NEW n \in Node, ns[n].live, \A p \in Proc : ~Kills(cl[p], n),
           NEW vt, NEW cm, UsedOK(ns, vt), RefsOK(ns, cm),
           \A m \in Node : m # n =>
                Expected(ns, vt, cm, m) = Expected(ns, vs, cl, m),
           Expected(ns, vt, cm, n) = Expected(ns, vs, cl, n) + 1,
           \A p \in Proc, m \in Node : Kills(cm[p], m) <=> Kills(cl[p], m)
    PROVE  Tree(sgnode_addref(ns, n), vt, cm, {})
<1> DEFINE r == sgnode_addref(ns, n)
           x == Expected(ns, vs, cl, n)
<1>1. ns \in [Node -> NodeType]
    BY DEF Tree
<1>2. /\ x \in Nat /\ x >= 2
    BY <1>1, ExpectedBounds
<1>3. ns[n].refcount = x
    BY <1>2 DEF Tree, Exact
<1>4. /\ \A m \in Node : m # n => r[m] = ns[m]
      /\ r[n].refcount = ns[n].refcount + 1
      /\ r[n].live = ns[n].live /\ r[n].parent = ns[n].parent
      /\ r[n].children = ns[n].children /\ r[n].deleted = ns[n].deleted
    BY <1>1 DEF sgnode_addref, NodeType
<1>5. r \in [Node -> NodeType]
    <2>1. [ns[n] EXCEPT !.refcount = @ + 1] \in NodeType
        BY <1>1, <1>2, <1>3 DEF NodeType
    <2>2. r = [ns EXCEPT ![n] = [ns[n] EXCEPT !.refcount = @ + 1]]
        BY <1>1 DEF sgnode_addref, NodeType
    <2> QED
        BY <1>1, <2>1, <2>2
<1>6. SameShape(ns, r)
    BY <1>4 DEF SameShape
<1>7. (\A m \in Node : NodeOK(r, m)) /\ RootOK(r)
    BY <1>1, <1>6, ShapeNodes DEF Tree
<1>8. UsedOK(r, vt) /\ RefsOK(r, cm)
    BY <1>6 DEF UsedOK, RefsOK, SameShape
<1>9. \A m \in Node : Expected(r, vt, cm, m) = Expected(ns, vt, cm, m)
    BY <1>6 DEF Expected, SameShape
<1> HIDE DEF r
<1>10. Exact(r, vt, cm, {})
    <2> SUFFICES ASSUME NEW m \in Node, r[m].live
                 PROVE  r[m].refcount = Expected(r, vt, cm, m)
        <3>1. \A m \in Node : Expected(r, vt, cm, m) \in Nat
            BY <1>5, ExpectedBounds
        <3> QED
            BY <3>1 DEF Exact
    <2>1. CASE m = n
        BY <2>1, <1>3, <1>4, <1>9
    <2>2. CASE m # n
        <3>1. ns[m].refcount = Expected(ns, vs, cl, m)
            <4>1. Expected(ns, vs, cl, m) \in Nat
                BY <1>1, ExpectedBounds
            <4> QED
                BY <4>1, <2>2, <1>4 DEF Tree, Exact
        <3> QED
            BY <3>1, <2>2, <1>4, <1>9
    <2> QED
        BY <2>1, <2>2
<1>11. r[n].refcount # 2
    BY <1>2, <1>3, <1>4
<1>12. KillsOK(r, cm)
    BY <1>4, <1>11 DEF Tree, KillsOK
<1> QED
    BY <1>5, <1>7, <1>8, <1>10, <1>12 DEF Tree, r

(* sgnode_release without the lock of the file system: the counter goes down *)
(* first, and the thread that took it to nothing is going to free the node.  *)
LEMMA TreeDec ==
    ASSUME NEW ns, NEW vs, NEW cl, Tree(ns, vs, cl, {}),
           NEW p \in Proc, NEW n \in Node, cl[p].ref, cl[p].pn = n,
           NEW cm, \A q \in Proc : q # p => cm[q] = cl[q],
           ~cm[p].ref, cm[p].pn = n, cm[p].pc = "compare",
           cm[p].old = ns[n].refcount,
           \A m \in Node : ~Kills(cl[p], m)
    PROVE  /\ Tree([ns EXCEPT ![n].refcount = @ - 1], vs, cm, {})
           /\ ns[n].refcount >= Base
<1> DEFINE r == [ns EXCEPT ![n].refcount = @ - 1]
           x == Expected(ns, vs, cm, n)
<1>1. ns \in [Node -> NodeType]
    BY DEF Tree
<1>2. ns[n].live
    BY DEF Tree, RefsOK
<1>3. /\ Expected(ns, vs, cl, n) = x + 1 /\ x \in Nat /\ x >= 2
      /\ x = 2 => ns[n].deleted
    <2>1. /\ x \in Nat /\ x >= 2
          /\ x = 2 => ns[n].deleted
        BY <1>1, ExpectedBounds
    <2>2. Expected(ns, vs, cm, n) = Expected(ns, vs, cl, n) - 1
        <3>1. RefBit(cl[p], n) = 1 /\ RefBit(cm[p], n) = 0
            BY DEF RefBit
        <3>2. Expected(ns, vs, cm, n) = Expected(ns, vs, cl, n)
                    - RefBit(cl[p], n) + RefBit(cm[p], n)
            BY <1>1, ExpectedRef
        <3>3. Expected(ns, vs, cl, n) \in Nat
            BY <1>1, ExpectedBounds
        <3> QED
            BY <3>1, <3>2, <3>3
    <2>3. Expected(ns, vs, cl, n) \in Nat
        BY <1>1, ExpectedBounds
    <2> HIDE DEF x
    <2>4. x = Expected(ns, vs, cl, n) - 1
        BY <2>2 DEF x
    <2> QED
        BY <2>1, <2>3, <2>4
<1> HIDE DEF x
<1>4. ns[n].refcount = x + 1
    BY <1>2, <1>3 DEF Tree, Exact
<1>5. /\ \A m \in Node : m # n => r[m] = ns[m]
      /\ r[n].refcount = x
      /\ r[n].live = ns[n].live /\ r[n].parent = ns[n].parent
      /\ r[n].children = ns[n].children /\ r[n].deleted = ns[n].deleted
    <2>1. r[n].refcount = ns[n].refcount - 1
        BY <1>1 DEF NodeType
    <2>2. ns[n].refcount - 1 = x
        BY <1>3, <1>4
    <2> QED
        BY <1>1, <2>1, <2>2 DEF NodeType
<1>6. r \in [Node -> NodeType]
    <2>1. [ns[n] EXCEPT !.refcount = x] \in NodeType
        BY ZenonT(60), <1>1, <1>3 DEF NodeType
    <2>2. ns[n].refcount - 1 = x
        BY <1>3, <1>4
    <2>3. r = [ns EXCEPT ![n] = [ns[n] EXCEPT !.refcount = x]]
        BY <1>1, <2>2 DEF NodeType
    <2> QED
        BY <1>1, <2>1, <2>3
<1> HIDE DEF r
<1>7. SameShape(ns, r)
    BY <1>2, <1>5 DEF SameShape
<1>8. (\A m \in Node : NodeOK(r, m)) /\ RootOK(r)
    BY <1>1, <1>7, ShapeNodes DEF Tree
<1>9. UsedOK(r, vs)
    BY <1>7 DEF Tree, UsedOK, SameShape
<1>10. RefsOK(r, cm)
    BY <1>7 DEF Tree, RefsOK, SameShape
<1>11. \A m \in Node : Expected(r, vs, cm, m) = Expected(ns, vs, cm, m)
    BY <1>7 DEF Expected, SameShape
<1>12. Exact(r, vs, cm, {})
    <2> SUFFICES ASSUME NEW m \in Node, r[m].live
                 PROVE  r[m].refcount = Expected(r, vs, cm, m)
        <3>1. \A m \in Node : Expected(r, vs, cm, m) \in Nat
            BY <1>6, ExpectedBounds
        <3> QED
            BY <3>1 DEF Exact
    <2>1. CASE m = n
        BY <2>1, <1>5, <1>11 DEF x
    <2>2. CASE m # n
        <3>1. Expected(ns, vs, cl, m) \in Nat
            BY <1>1, ExpectedBounds
        <3>2. ns[m].refcount = Expected(ns, vs, cl, m)
            BY <3>1, <2>2, <1>5 DEF Tree, Exact
        <3>3. RefBit(cl[p], m) = 0 /\ RefBit(cm[p], m) = 0
            BY <2>2 DEF RefBit
        <3>5. Expected(ns, vs, cm, m) = Expected(ns, vs, cl, m)
                    - RefBit(cl[p], m) + RefBit(cm[p], m)
            BY <1>1, ExpectedRef
        <3>4. Expected(ns, vs, cm, m) = Expected(ns, vs, cl, m)
            BY <3>1, <3>3, <3>5
        <3> QED
            BY <3>2, <3>4, <2>2, <1>5, <1>11
    <2> QED
        BY <2>1, <2>2
<1>13. \A q \in Proc : ~Kills(cl[q], n)
    BY <1>3, <1>4 DEF Tree, KillsOK
<1>14. \A m \in Node : Kills(cm[p], m) <=> m = n /\ x = 2
    BY <1>3, <1>4 DEF Kills, Base
<1>15. KillsOK(r, cm)
    <2>1. ASSUME NEW m \in Node, NEW q \in Proc, Kills(cm[q], m)
          PROVE  r[m].live /\ r[m].deleted /\ r[m].refcount = 2
        <3>1. CASE q = p
            BY <3>1, <2>1, <1>2, <1>3, <1>5, <1>14
        <3>2. CASE q # p
            BY <3>2, <2>1, <1>5, <1>13 DEF Tree, KillsOK
        <3> QED
            BY <3>1, <3>2
    <2>2. ASSUME NEW m \in Node, NEW q \in Proc, NEW o \in Proc,
                 Kills(cm[q], m), Kills(cm[o], m)
          PROVE  q = o
        BY <2>2, <1>13, <1>14 DEF Tree, KillsOK
    <2>3. ASSUME NEW m \in Node, r[m].live, r[m].refcount = 2
          PROVE  \E q \in Proc : Kills(cm[q], m)
        <3>1. CASE m = n
            BY <3>1, <2>3, <1>5, <1>14
        <3>2. CASE m # n
            <4>1. PICK q \in Proc : Kills(cl[q], m)
                BY <3>2, <2>3, <1>5 DEF Tree, KillsOK
            <4>2. q # p
                BY <4>1
            <4> QED
                BY <4>1, <4>2
        <3> QED
            BY <3>1, <3>2
    <2> QED
        BY <2>1, <2>2, <2>3 DEF KillsOK
<1>16. ns[n].refcount >= Base
    BY <1>3, <1>4 DEF Base
<1> QED
    BY <1>6, <1>8, <1>9, <1>10, <1>12, <1>15, <1>16 DEF Tree, r

(* ... which is then still there, and is freed. *)
LEMMA TreeDestroy ==
    ASSUME NEW ns, NEW vs, NEW cl, Tree(ns, vs, cl, {}),
           NEW p \in Proc, NEW n \in Node, Kills(cl[p], n), ~cl[p].ref,
           NEW cm, \A q \in Proc : q # p => cm[q] = cl[q],
           ~cm[p].ref, \A m \in Node : ~Kills(cm[p], m)
    PROVE  /\ ns[n].live
           /\ sgfs_destroy(ns, n) = Freed(ns, n)
           /\ Tree(Freed(ns, n), vs, cm, {})
<1>1. ns \in [Node -> NodeType]
    BY DEF Tree
<1>2. ns[n].live /\ ns[n].refcount = 2
    BY DEF Tree, KillsOK
<1>3. Expected(ns, vs, cl, n) = 2
    <2>1. Expected(ns, vs, cl, n) \in Nat
        BY <1>1, ExpectedBounds
    <2>2. ns[n].refcount = Expected(ns, vs, cl, n) + 0
        BY <1>2 DEF Tree, Exact
    <2> QED
        BY <1>2, <2>1, <2>2
<1>4. ns[n].children = <<>> /\ ns[n].deleted
    BY <1>1, <1>3, ExpectedBounds
<1>5. ns[n].parent = NULL
    BY <1>2, <1>4 DEF Tree, NodeOK
<1>6. sgfs_destroy(ns, n) = Freed(ns, n)
    BY <1>1, <1>4, <1>5, DestroyLeaf DEF Freed
<1>7. \A q \in Proc : ~Kills(cm[q], n)
    BY DEF Tree, KillsOK
<1>8. \A q \in Proc, m \in Node : m # n => (Kills(cm[q], m) <=> Kills(cl[q], m))
    BY DEF Kills
<1>9. /\ \A q \in Proc : cm[q].ref <=> cl[q].ref
      /\ \A q \in Proc : cl[q].ref => cm[q].pn = cl[q].pn
    OBVIOUS
<1>10. Tree(Freed(ns, n), vs, cm, {} \ {n})
    BY <1>2, <1>3, <1>7, <1>8, <1>9, TreeFree
<1>11. {} \ {n} = {}
    OBVIOUS
<1> QED
    BY <1>2, <1>6, <1>10, <1>11

Unlinked(ns, n) ==
    [ns EXCEPT ![n].parent = NULL, ![n].deleted = TRUE,
               ![ns[n].parent].children = Without(@, n)]

(* A removed directory is no entry of its parent any more.  It lacks the *)
(* link that counted, and the parent an entry.                           *)
LEMMA TreeUnlink ==
    ASSUME NEW ns, NEW vs, NEW cl, Tree(ns, vs, cl, {}),
           NEW n \in Node, ns[n].live, ~ns[n].deleted, n # Root,
           ns[n].children = <<>>
    PROVE  /\ ns[n].parent \in Node \ {n} /\ ns[ns[n].parent].live
           /\ Tree(Unlinked(ns, n), vs, cl, {n, ns[n].parent})
           /\ \A m \in Node : Unlinked(ns, n)[m].live = ns[m].live
           /\ \A m \in Node :
                m # n => Unlinked(ns, n)[m].deleted = ns[m].deleted
<1> DEFINE u == Unlinked(ns, n)
           pt == ns[n].parent
           list == Without(ns[pt].children, n)
<1>1. ns \in [Node -> NodeType]
    BY DEF Tree
<1>2. ToSet(ns[n].children) = {}
    BY DEF ToSet
<1>3. pt # NULL /\ ns[pt].live /\ n \in ToSet(ns[pt].children) /\ pt # n
    BY <1>2 DEF Tree, NodeOK
<1>4. pt \in Node
    BY <1>1, <1>3 DEF NodeType
<1>5. ns[pt].children \in Seq(Node) /\ IsInjective(ns[pt].children)
    BY <1>1, <1>3, <1>4 DEF Tree, NodeOK, NodeType
<1>6. /\ list \in Seq(Node) /\ IsInjective(list)
      /\ ToSet(list) = ToSet(ns[pt].children) \ {n}
    BY <1>3, <1>5, WithoutProperties
<1>7. Len(list) = Len(ns[pt].children) - 1 /\ Len(ns[pt].children) \in Nat
    <2>1. IndexOf(ns[pt].children, n) \in 1 .. Len(ns[pt].children)
        BY <1>3, <1>5, WithoutProperties
    <2> QED
        BY SMTT(30), <1>5, <2>1, RemoveAtProperties DEF Without
<1> HIDE DEF list
<1>8. u = [ns EXCEPT ![n] = [ns[n] EXCEPT !.parent = NULL, !.deleted = TRUE],
                     ![pt] = [ns[pt] EXCEPT !.children = list]]
    BY <1>1, <1>3, <1>4 DEF NodeType, list, Unlinked
<1> HIDE DEF pt
<1>18. \A m \in Node : m # n /\ m # pt => u[m] = ns[m]
    BY <1>1, <1>3, <1>4, <1>8
<1>9. /\ u[n] = [ns[n] EXCEPT !.parent = NULL, !.deleted = TRUE]
      /\ u[pt] = [ns[pt] EXCEPT !.children = list]
    BY <1>1, <1>3, <1>4, <1>8
<1>10. /\ u[n].live = ns[n].live /\ u[n].parent = NULL /\ u[n].deleted
       /\ u[n].children = <<>> /\ u[n].refcount = ns[n].refcount
       /\ u[pt].live = ns[pt].live /\ u[pt].parent = ns[pt].parent
       /\ u[pt].deleted = ns[pt].deleted /\ u[pt].children = list
       /\ u[pt].refcount = ns[pt].refcount
    <2>1. ns[n] \in NodeType /\ ns[pt] \in NodeType
        BY <1>1, <1>4
    <2> QED
        BY ZenonT(60), <1>3, <1>9, <2>1 DEF NodeType
<1>11. u \in [Node -> NodeType]
    <2>1. [ns[n] EXCEPT !.parent = NULL, !.deleted = TRUE] \in NodeType
        BY ZenonT(60), <1>1 DEF NodeType
    <2>2. [ns[pt] EXCEPT !.children = list] \in NodeType
        BY SMTT(60), <1>1, <1>4, <1>6 DEF NodeType
    <2> QED
        BY <1>1, <1>4, <1>8, <2>1, <2>2
<1>12. /\ \A m \in Node : u[m].live = ns[m].live
       /\ \A m \in Node : m # n => /\ u[m].deleted = ns[m].deleted
                                   /\ u[m].parent = ns[m].parent
       /\ \A m \in Node : m # pt => u[m].children = ns[m].children
       /\ \A m \in Node : u[m].refcount = ns[m].refcount
    BY <1>3, <1>4, <1>10, <1>18
<1>13. ASSUME NEW m \in Node
       PROVE  NodeOK(u, m)
    <2> USE <1>12
    <2>1. CASE m = n
        BY <2>1, <1>2, <1>10 DEF NodeOK, Tree
    <2>2. CASE m # n
        <3>1. NodeOK(ns, m) /\ ns[m] \in NodeType
            BY <1>1 DEF Tree
        <3>2. ~ns[m].live => u[m] = FreeNode
            BY <2>2, <3>1, <1>3, <1>18 DEF NodeOK
        <3>3. IsInjective(ns[m].children) => IsInjective(u[m].children)
            BY <1>6, <1>10, <1>12
        <3>4. ASSUME ns[m].live, NEW k \in ToSet(u[m].children)
              PROVE  u[k].live /\ u[k].parent = m
            <4>1. k \in ToSet(ns[m].children) /\ k \in Node
                BY <3>1, <3>4, <1>6, <1>10, <1>12, ToSetMember DEF NodeType
            <4>2. k # n
                <5>1. CASE m = pt
                    BY <5>1, <3>4, <1>6, <1>10
                <5>2. CASE m # pt
                    BY <5>2, <4>1, <3>1, <3>4 DEF NodeOK, pt
                <5> QED
                    BY <5>1, <5>2
            <4> QED
                BY <4>1, <4>2, <3>1, <3>4, <1>12 DEF NodeOK
        <3>5. ASSUME ns[m].live, u[m].parent # NULL
              PROVE  /\ u[u[m].parent].live
                     /\ m \in ToSet(u[u[m].parent].children)
            <4> DEFINE g == ns[m].parent
            <4>1. u[m].parent = g
                BY <2>2, <1>12
            <4>2. g # NULL /\ g \in Node /\ ns[g].live
                  /\ m \in ToSet(ns[g].children)
                BY <3>1, <3>5, <4>1 DEF NodeOK, NodeType
            <4> HIDE DEF g
            <4>3. m \in ToSet(u[g].children)
                <5>1. CASE g = pt
                    BY <5>1, <4>2, <2>2, <1>6, <1>10
                <5>2. CASE g # pt
                    BY <5>2, <4>2, <1>12
                <5> QED
                    BY <5>1, <5>2
            <4> QED
                BY <4>1, <4>2, <4>3, <1>12
        <3> QED
            BY <2>2, <3>1, <3>2, <3>3, <3>4, <3>5, <1>12 DEF NodeOK
    <2> QED
        BY <2>1, <2>2
<1>14. RootOK(u)
    BY <1>12, RootAssumption DEF Tree, RootOK
<1>15. UsedOK(u, vs) /\ RefsOK(u, cl)
    BY <1>12 DEF Tree, UsedOK, RefsOK
<1>16. Exact(u, vs, cl, {n, pt})
    <2> SUFFICES ASSUME NEW m \in Node, u[m].live
                 PROVE  u[m].refcount = Expected(u, vs, cl, m)
                            + (IF m \in {n, pt} THEN 1 ELSE 0)
        BY DEF Exact
    <2> DEFINE rest == Cardinality(VnodesAt(vs, m))
                       + Cardinality(RefsTo(cl, m))
               d == IF ns[m].deleted THEN 0 ELSE 1
               e == IF u[m].deleted THEN 0 ELSE 1
               l == Len(ns[m].children)
               k == Len(u[m].children)
    <2>1. ns[m].refcount = Expected(ns, vs, cl, m)
        <3>1. Expected(ns, vs, cl, m) \in Nat
            BY <1>1, ExpectedBounds
        <3> QED
            BY <3>1, <1>12 DEF Tree, Exact
    <2>2. IsFiniteSet(VnodesAt(vs, m)) /\ IsFiniteSet(RefsTo(cl, m))
        BY FiniteAssumption, FS_Subset DEF VnodesAt, RefsTo
    <2>3. /\ Cardinality(VnodesAt(vs, m)) \in Nat
          /\ Cardinality(RefsTo(cl, m)) \in Nat
        BY <2>2, FS_CardinalityType
    <2>4. d \in Nat /\ e \in Nat /\ l \in Nat /\ k \in Nat
        BY <1>1, <1>11 DEF NodeType
    <2>5. /\ Expected(ns, vs, cl, m) =
                d + 2 + l + Cardinality(VnodesAt(vs, m))
                    + Cardinality(RefsTo(cl, m))
          /\ Expected(u, vs, cl, m) =
                e + 2 + k + Cardinality(VnodesAt(vs, m))
                    + Cardinality(RefsTo(cl, m))
        BY DEF Expected
    <2>6. d + l = e + k + (IF m \in {n, pt} THEN 1 ELSE 0)
        <3>1. CASE m = n
            <4>1. d = 1 /\ e = 0 /\ l = 0 /\ k = 0
                BY <3>1, <1>10
            <4> QED
                BY <3>1, <4>1
        <3>2. CASE m = pt
            <4>1. d = e /\ k = Len(list) /\ l = k + 1
                <5>1. d = e
                    BY <3>2, <1>3, <1>12
                <5>2. k = Len(list)
                    BY <3>2, <1>10
                <5>3. l = Len(ns[pt].children)
                    BY <3>2
                <5>4. Len(list) = Len(ns[pt].children) - 1
                      /\ Len(ns[pt].children) \in Nat
                    BY <1>7 DEF pt
                <5>5. Len(list) + 1 = Len(ns[pt].children)
                    BY <5>4
                <5> QED
                    BY <5>1, <5>2, <5>3, <5>5, Zenon
            <4>2. m \in {n, pt}
                BY <3>2
            <4> HIDE DEF d, e, l, k
            <4> QED
                BY <4>1, <4>2, <2>4
        <3>3. CASE m \notin {n, pt}
            <4>1. d = e /\ l = k
                BY <3>3, <1>12
            <4> HIDE DEF d, e, l, k
            <4> QED
                BY <3>3, <4>1, <2>4
        <3> QED
            BY <3>1, <3>2, <3>3
    <2>7. u[m].refcount = ns[m].refcount
        BY <1>12
    <2> HIDE DEF d, e, l, k
    <2> QED
        BY <2>1, <2>3, <2>4, <2>5, <2>6, <2>7
<1>17. KillsOK(u, cl)
    <2>1. \A p \in Proc : ~Kills(cl[p], n)
        BY DEF Tree, KillsOK
    <2>2. ns[n].refcount # 2
        <3>1. /\ Expected(ns, vs, cl, n) \in Nat
              /\ Expected(ns, vs, cl, n) > 2
            BY <1>1, ExpectedBounds
        <3>2. ns[n].refcount = Expected(ns, vs, cl, n) + 0
            BY DEF Tree, Exact
        <3> QED
            BY <3>1, <3>2
    <2> QED
        BY <2>1, <2>2, <1>12 DEF Tree, KillsOK
<1> QED
    BY <1>3, <1>4, <1>11, <1>12, <1>13, <1>14, <1>15, <1>16, <1>17 DEF Tree, pt

(* What a lookup finds is an entry of the directory. *)
LEMMA SearchFinds ==
    ASSUME NEW pd \in Node, NEW nm, node[pd].children \in Seq(Node),
           sgfs_search(pd, nm) # NULL
    PROVE  sgfs_search(pd, nm) \in ToSet(node[pd].children)
<1> DEFINE list == node[pd].children
           hits == {i \in DOMAIN list : node[list[i]].name = nm}
<1>1. hits # {}
    BY DEF sgfs_search
<1>2. sgfs_search(pd, nm) = list[Min(hits)]
    BY <1>1 DEF sgfs_search
<1>3. hits \in SUBSET Nat /\ hits \subseteq DOMAIN list
    OBVIOUS
<1>4. Min(hits) \in hits
    <2> HIDE DEF hits
    <2> QED
        BY <1>1, <1>3, MinOfPositions
<1> HIDE DEF hits, list
<1> QED
    BY <1>2, <1>3, <1>4 DEF ToSet, list

(* A new directory is an entry of its parent and is referenced by the call *)
(* that made it.                                                           *)
LEMMA TreeCreate ==
    ASSUME NEW ns, NEW vs, NEW cl, Tree(ns, vs, cl, {}),
           NEW n \in Node, ~ns[n].live, NEW pd \in Node, ns[pd].live,
           \A q \in Proc : ~Kills(cl[q], pd),
           NEW nm \in Name \cup {NULL}, NEW p \in Proc, ~cl[p].ref,
           NEW cm, \A q \in Proc : q # p => cm[q] = cl[q],
           cm[p].ref, cm[p].pn = n,
           \A m \in Node : ~Kills(cl[p], m) /\ ~Kills(cm[p], m)
    PROVE  /\ Tree(sgfs_create_dir(ns, pd, n, nm), vs, cm, {})
           /\ \A m \in Node :
                m # n => /\ sgfs_create_dir(ns, pd, n, nm)[m].live = ns[m].live
                         /\ sgfs_create_dir(ns, pd, n, nm)[m].deleted
                                = ns[m].deleted
<1> DEFINE u == sgfs_create_dir(ns, pd, n, nm)
           list == <<n>> \o ns[pd].children
           new == [FreeNode EXCEPT !.live = TRUE, !.parent = pd,
                                   !.refcount = Base + 1, !.name = nm]
<1>1. ns \in [Node -> NodeType]
    BY DEF Tree
<1>2. pd # n
    OBVIOUS
<1>3. ns[pd].children \in Seq(Node) /\ IsInjective(ns[pd].children)
    BY <1>1 DEF Tree, NodeOK, NodeType
<1>4. n \notin ToSet(ns[pd].children)
    BY DEF Tree, NodeOK
<1>5. /\ list \in Seq(Node) /\ IsInjective(list)
      /\ Len(list) = Len(ns[pd].children) + 1 /\ Len(ns[pd].children) \in Nat
      /\ ToSet(list) = ToSet(ns[pd].children) \cup {n}
    <2> HIDE DEF list
    <2>1. Len(ns[pd].children) \in Nat
        BY <1>3
    <2> QED
        BY <1>3, <1>4, <2>1, Prepend DEF list
<1> HIDE DEF list
<1>6. /\ new \in NodeType /\ new.live /\ new.parent = pd /\ ~new.deleted
      /\ new.children = <<>> /\ new.refcount = 4
    <2>1. FreeNode \in NodeType /\ ~FreeNode.deleted /\ FreeNode.children = <<>>
        BY EmptySeq DEF FreeNode, NodeType
    <2>2. Base + 1 = 4
        BY DEF Base
    <2>3. new = [FreeNode EXCEPT !.live = TRUE, !.parent = pd,
                                 !.refcount = 4, !.name = nm]
        BY <2>2
    <2> HIDE DEF new
    <2> QED
        BY <2>1, <2>3 DEF NodeType
<1> DEFINE up == ns[pd].refcount + 1
           par == [ns[pd] EXCEPT !.children = list, !.refcount = up]
<1>7. up \in Nat /\ up = ns[pd].refcount + 1 /\ ns[pd] \in NodeType
    BY <1>1 DEF NodeType
<1> HIDE DEF up
<1>8. u = [ns EXCEPT ![n] = new, ![pd] = par]
    BY <1>1, <1>2 DEF NodeType, list, sgfs_create_dir, up
<1> HIDE DEF new
<1>9. /\ par \in NodeType
      /\ par.live = ns[pd].live /\ par.parent = ns[pd].parent
      /\ par.deleted = ns[pd].deleted /\ par.children = list
      /\ par.refcount = up
    BY <1>5, <1>7 DEF NodeType
<1> HIDE DEF par
<1>10. \A m \in Node : m # n /\ m # pd => u[m] = ns[m]
    BY <1>1, <1>8
<1>11. /\ u[pd].live = ns[pd].live /\ u[pd].parent = ns[pd].parent
       /\ u[pd].deleted = ns[pd].deleted /\ u[pd].children = list
       /\ u[pd].refcount = ns[pd].refcount + 1
    <2>1. u[pd] = par
        BY <1>1, <1>2, <1>8
    <2> QED
        BY <2>1, <1>7, <1>9
<1>12. u \in [Node -> NodeType]
    BY <1>1, <1>6, <1>8, <1>9
<1>13. u[n] = new
    BY <1>1, <1>2, <1>8
<1>14. \A m \in Node : m # n => /\ u[m].live = ns[m].live
                                /\ u[m].deleted = ns[m].deleted
                                /\ u[m].parent = ns[m].parent
                                /\ m # pd => u[m].children = ns[m].children
    BY <1>10, <1>11
<1>15. ToSet(new.children) = {}
    BY <1>6 DEF ToSet
<1>16. IsInjective(new.children)
    BY <1>6 DEF IsInjective
<1>17. ASSUME NEW m \in Node
       PROVE  NodeOK(u, m)
    <2>1. CASE m = n
        <3>1. u[pd].live /\ n \in ToSet(u[pd].children)
            BY <1>5, <1>11
        <3>2. new.parent # NULL
            BY <1>6, NullAssumption
        <3> QED
            BY <2>1, <3>1, <3>2, <1>6, <1>13, <1>15, <1>16 DEF NodeOK
    <2>2. CASE m # n
        <3>1. NodeOK(ns, m) /\ ns[m] \in NodeType
            BY <1>1 DEF Tree
        <3>2. ~ns[m].live => u[m] = FreeNode
            BY <2>2, <3>1, <1>10 DEF NodeOK
        <3>3. ns[m].live => IsInjective(u[m].children)
            BY <2>2, <3>1, <1>5, <1>11, <1>14 DEF NodeOK
        <3>4. ASSUME ns[m].live, NEW k \in ToSet(u[m].children)
              PROVE  u[k].live /\ u[k].parent = m
            <4>1. CASE k = n
                <5>1. m = pd
                    BY <2>2, <3>1, <3>4, <4>1, <1>14 DEF NodeOK
                <5> QED
                    BY <4>1, <5>1, <1>6, <1>13
            <4>2. CASE k # n
                <5>1. k \in ToSet(ns[m].children)
                    BY <2>2, <3>4, <4>2, <1>5, <1>11, <1>14
                <5>2. k \in Node
                    BY <5>1, <3>1, ToSetMember DEF NodeType
                <5> QED
                    BY <4>2, <5>1, <5>2, <3>1, <3>4, <1>14 DEF NodeOK
            <4> QED
                BY <4>1, <4>2
        <3>5. ASSUME ns[m].live, u[m].parent # NULL
              PROVE  /\ u[u[m].parent].live
                     /\ m \in ToSet(u[u[m].parent].children)
            <4> DEFINE g == ns[m].parent
            <4>1. u[m].parent = g
                BY <2>2, <1>14
            <4>2. g # NULL /\ g \in Node /\ ns[g].live
                  /\ m \in ToSet(ns[g].children)
                BY <3>1, <3>5, <4>1 DEF NodeOK, NodeType
            <4> HIDE DEF g
            <4>3. g # n
                BY <4>2
            <4>4. m \in ToSet(u[g].children)
                <5>1. CASE g = pd
                    BY <5>1, <4>2, <1>5, <1>11
                <5>2. CASE g # pd
                    BY <5>2, <4>2, <4>3, <1>14
                <5> QED
                    BY <5>1, <5>2
            <4> QED
                BY <4>1, <4>2, <4>3, <4>4, <1>14
        <3> QED
            BY <2>2, <3>1, <3>2, <3>3, <3>4, <3>5, <1>14 DEF NodeOK
    <2> QED
        BY <2>1, <2>2
<1>18. RootOK(u)
    BY <1>14, RootAssumption DEF Tree, RootOK
<1>19. UsedOK(u, vs)
    BY <1>6, <1>13, <1>14 DEF Tree, UsedOK
<1>20. RefsOK(u, cm)
    BY <1>6, <1>13, <1>14 DEF Tree, RefsOK
<1>21. VnodesAt(vs, n) = {} /\ RefsTo(cl, n) = {}
    BY NullAssumption DEF VnodesAt, RefsTo, Tree, UsedOK, RefsOK
<1>22. RefsTo(cm, n) = {p}
    BY <1>21 DEF RefsTo
<1>23. Expected(u, vs, cm, n) = 4
    <2>1. Cardinality(VnodesAt(vs, n)) = 0 /\ Cardinality(RefsTo(cm, n)) = 1
        BY SMTT(60), <1>21, <1>22, FS_EmptySet, FS_Singleton
    <2>2. Len(u[n].children) = 0
        BY <1>6, <1>13
    <2>3. (IF u[n].deleted THEN 0 ELSE 1) = 1
        BY <1>6, <1>13
    <2> QED
        BY <2>1, <2>2, <2>3 DEF Expected
<1>24. ASSUME NEW m \in Node, m # n
       PROVE  /\ RefsTo(cm, m) = RefsTo(cl, m)
              /\ m # pd => Expected(u, vs, cm, m) = Expected(ns, vs, cl, m)
              /\ Expected(u, vs, cm, pd) = Expected(ns, vs, cl, pd) + 1
    <2>1. \A k \in Node : k # n => RefsTo(cm, k) = RefsTo(cl, k)
        BY DEF RefsTo
    <2>2. m # pd => Expected(u, vs, cm, m) = Expected(ns, vs, cl, m)
        BY <1>24, <2>1, <1>14 DEF Expected
    <2>3. Expected(u, vs, cm, pd) = Expected(ns, vs, cl, pd) + 1
        <3> DEFINE d == IF ns[pd].deleted THEN 0 ELSE 1
                   v == Cardinality(VnodesAt(vs, pd))
                   r == Cardinality(RefsTo(cl, pd))
                   l == Len(ns[pd].children)
                   k == Len(u[pd].children)
        <3>1. IsFiniteSet(VnodesAt(vs, pd)) /\ IsFiniteSet(RefsTo(cl, pd))
            BY FiniteAssumption, FS_Subset DEF VnodesAt, RefsTo
        <3>2. v \in Nat /\ r \in Nat
            BY <3>1, FS_CardinalityType
        <3>3. d \in Nat /\ l \in Nat
            BY <1>1 DEF NodeType
        <3>4. k = l + 1
            BY <1>5, <1>11
        <3>5. /\ Expected(ns, vs, cl, pd) = d + 2 + l + v + r
              /\ Expected(u, vs, cm, pd) = d + 2 + k + v + r
            <4>1. RefsTo(cm, pd) = RefsTo(cl, pd)
                BY <1>2, <2>1
            <4> QED
                BY <4>1, <1>11 DEF Expected
        <3> HIDE DEF d, v, r, l, k
        <3> QED
            BY <3>2, <3>3, <3>4, <3>5
    <2> QED
        BY <1>24, <2>1, <2>2, <2>3
<1>25. \A m \in Node : ns[m].live => ns[m].refcount = Expected(ns, vs, cl, m)
    <2>1. \A m \in Node : Expected(ns, vs, cl, m) \in Nat
        BY <1>1, ExpectedBounds
    <2> QED
        BY <2>1 DEF Tree, Exact
<1>26. Exact(u, vs, cm, {})
    <2> SUFFICES ASSUME NEW m \in Node, u[m].live
                 PROVE  u[m].refcount = Expected(u, vs, cm, m)
        <3>1. \A m \in Node : Expected(u, vs, cm, m) \in Nat
            BY <1>12, ExpectedBounds
        <3> QED
            BY <3>1 DEF Exact
    <2>1. CASE m = n
        BY <2>1, <1>6, <1>13, <1>23
    <2>2. CASE m = pd
        BY <2>2, <1>2, <1>11, <1>24, <1>25
    <2>3. CASE m # n /\ m # pd
        BY <2>3, <1>10, <1>24, <1>25
    <2> QED
        BY <2>1, <2>2, <2>3
<1>27. KillsOK(u, cm)
    <2>1. u[n].refcount # 2
        BY <1>6, <1>13
    <2>2. u[pd].refcount # 2
        <3>1. Expected(ns, vs, cl, pd) \in Nat /\ Expected(ns, vs, cl, pd) >= 2
            BY <1>1, ExpectedBounds
        <3>2. ns[pd].refcount = Expected(ns, vs, cl, pd)
            BY <1>25
        <3> QED
            BY <3>1, <3>2, <1>11
    <2>3. ASSUME NEW m \in Node, NEW q \in Proc, Kills(cm[q], m)
          PROVE  q # p /\ Kills(cl[q], m) /\ m # n /\ m # pd
        <3>1. q # p
            BY <2>3
        <3>2. Kills(cl[q], m)
            BY <2>3, <3>1
        <3>3. ns[m].live
            BY <3>2 DEF Tree, KillsOK
        <3> QED
            BY <3>1, <3>2, <3>3
    <2>4. ASSUME NEW m \in Node, NEW q \in Proc, Kills(cm[q], m)
          PROVE  u[m].live /\ u[m].deleted /\ u[m].refcount = 2
        BY <2>3, <2>4, <1>10 DEF Tree, KillsOK
    <2>5. ASSUME NEW m \in Node, NEW q \in Proc, NEW o \in Proc,
                 Kills(cm[q], m), Kills(cm[o], m)
          PROVE  q = o
        BY <2>3, <2>5 DEF Tree, KillsOK
    <2>6. ASSUME NEW m \in Node, u[m].live, u[m].refcount = 2
          PROVE  \E q \in Proc : Kills(cm[q], m)
        <3>1. m # n /\ m # pd
            BY <2>1, <2>2, <2>6
        <3>2. PICK q \in Proc : Kills(cl[q], m)
            BY <3>1, <2>6, <1>10 DEF Tree, KillsOK
        <3>3. q # p
            BY <3>2
        <3> QED
            BY <3>2, <3>3
    <2> QED
        BY <2>4, <2>5, <2>6 DEF KillsOK
<1> QED
    BY <1>12, <1>14, <1>17, <1>18, <1>19, <1>20, <1>26, <1>27 DEF Tree

-----------------------------------------------------------------------------
(* The invariant *)

(* A node has one vnode on a mount. *)
OneVnode(vs) ==
    \A u, v \in Vnode :
        vs[u].data # NULL /\ vs[u].data = vs[v].data /\ vs[u].mount = vs[v].mount
        => u = v

Recycling == {"inactive", "reclaim"}

(* With one mount, the vnode of a removed directory that nobody uses is *)
(* being recycled.                                                      *)
RecycleOK(ns, vs, cl) ==
    /\ OneVnode(vs)
    /\ \A p \in Proc :
        cl[p].pc = "reclaim" => ns[vs[cl[p].put].data].deleted
    /\ Cardinality(Mount) = 1 =>
        \A v \in Vnode :
            vs[v].data # NULL /\ ns[vs[v].data].deleted /\ vs[v].use = 0 =>
                \E p \in Proc : cl[p].put = v /\ cl[p].pc \in Recycling

PanicOK(why, cl) ==
    /\ why \in Panics /\ why # "freed twice"
    /\ why = "freed node" => \E p \in Proc : cl[p].op = "dotdot" /\ ~cl[p].ref

CacheOK(ch) == ch \subseteq [dvp : Vnode, name : Name, vp : Vnode]

SgfsInv ==
    /\ Book(vnode, call, cwd)
    /\ Tree(node, vnode, call, {})
    /\ RecycleOK(node, vnode, call)
    /\ CacheOK(cache)
    /\ PanicOK(panic, call)

(* What the books say about one thread *)
LEMMA BookFacts ==
    ASSUME NEW vs, NEW cl, NEW cw, Book(vs, cl, cw), NEW p \in Proc
    PROVE  /\ vs \in [Vnode -> VnodeType]
           /\ cl \in [Proc -> CallType] /\ cl[p] \in CallType
           /\ cw \in [Proc -> Vnode \cup {NULL}] /\ cw[p] \in Vnode \cup {NULL}
           /\ \A v \in Vnode : vs[v] \in VnodeType /\ VnodeOK(vs[v])
           /\ SetOK(cl[p], cw[p]) /\ RefOK(cl[p])
           /\ DirOK(vs, cl[p], cw[p]) /\ VpOK(vs, cl[p])
           /\ \A v \in Vnode : Locks(cl[p], v) => vs[v].lock = p
    BY DEF Book, CallOK, LocksOK

(* A step that makes no vnode and removes no directory. *)
LEMMA RecycleStep ==
    ASSUME NEW vs, NEW cl, NEW cw, Book(vs, cl, cw),
           NEW ns, RecycleOK(ns, vs, cl),
           NEW p, NEW cm, \A q \in Proc : q # p => cm[q] = cl[q],
           NEW mt, NEW vt, UsedOK(mt, vt),
           \A v \in Vnode : vt[v].data # NULL =>
                vt[v].data = vs[v].data /\ vt[v].mount = vs[v].mount,
           \A v \in Vnode : vs[v].lock \notin {NULL, p} =>
                vt[v].data = vs[v].data,
           \A n \in Node : mt[n].live => mt[n].deleted = ns[n].deleted,
           p \in Proc /\ cm[p].pc = "reclaim" =>
                mt[vt[cm[p].put].data].deleted,
           \A v \in Vnode :
                /\ vt[v].data # NULL /\ mt[vt[v].data].deleted
                /\ vt[v].use = 0
                => \/ /\ vs[v].use = 0
                      /\ p \in Proc => cl[p].put # v \/ cl[p].pc \notin Recycling
                   \/ p \in Proc /\ cm[p].put = v /\ cm[p].pc \in Recycling
    PROVE  RecycleOK(mt, vt, cm)
<1>1. OneVnode(vt)
    BY DEF RecycleOK, OneVnode
<1>2. ASSUME NEW q \in Proc, cm[q].pc = "reclaim"
      PROVE  mt[vt[cm[q].put].data].deleted
    <2>1. CASE q = p
        BY SMTT(60), <2>1, <1>2
    <2>2. CASE q # p
        <3> DEFINE v == cl[q].put
        <3>1. cm[q] = cl[q] /\ cl[q].pc = "reclaim"
            BY <2>2, <1>2
        <3>2. v \in Vnode /\ vs[v].lock = q /\ vs[v].data # NULL
              /\ cl[q] \in CallType
            <4>1. /\ cl[q] \in CallType /\ SetOK(cl[q], cw[q])
                  /\ VpOK(vs, cl[q])
                  /\ \A u \in Vnode : Locks(cl[q], u) => vs[u].lock = q
                  /\ \A u \in Vnode : VnodeOK(vs[u])
                BY BookFacts
            <4>2. v # NULL /\ v \in Vnode
                BY <3>1, <4>1 DEF SetOK, Putting, CallType
            <4>3. vs[v].st = "live"
                BY <3>1, <4>1, <4>2 DEF VpOK
            <4>4. Locks(cl[q], v)
                BY DEF Locks
            <4> QED
                BY <4>1, <4>2, <4>3, <4>4 DEF VnodeOK
        <3>3. vt[v].data = vs[v].data
            BY <2>2, <3>2, NullAssumption
        <3>4. ns[vs[v].data].deleted
            BY <3>1 DEF RecycleOK
        <3>5. vt[v].data \in Node /\ mt[vt[v].data].live
            BY <3>2, <3>3 DEF UsedOK
        <3> QED
            BY <3>1, <3>3, <3>4, <3>5
    <2> QED
        BY <2>1, <2>2
<1>3. ASSUME Cardinality(Mount) = 1, NEW v \in Vnode,
             vt[v].data # NULL, mt[vt[v].data].deleted, vt[v].use = 0
      PROVE  \E q \in Proc : cm[q].put = v /\ cm[q].pc \in Recycling
    <2>1. CASE p \in Proc /\ cm[p].put = v /\ cm[p].pc \in Recycling
        BY <2>1
    <2>2. CASE /\ vs[v].use = 0
               /\ p \in Proc => cl[p].put # v \/ cl[p].pc \notin Recycling
        <3>1. vt[v].data = vs[v].data /\ vt[v].data \in Node
              /\ mt[vt[v].data].live
            BY <1>3 DEF UsedOK
        <3>2. vs[v].data # NULL /\ ns[vs[v].data].deleted
            BY <1>3, <3>1
        <3>3. PICK q \in Proc : cl[q].put = v /\ cl[q].pc \in Recycling
            BY <1>3, <2>2, <3>2 DEF RecycleOK
        <3>4. q # p
            BY <2>2, <3>3
        <3> QED
            BY <3>3, <3>4
    <2> QED
        BY <1>3, <2>1, <2>2
<1> QED
    BY <1>1, <1>2, <1>3 DEF RecycleOK

(* Memory given back held no node. *)
LEMMA SettledData ==
    ASSUME NEW vs, NEW cl, NEW cw, Book(vs, cl, cw), NEW v \in Vnode
    PROVE  /\ Settled(vs)[v].data = vs[v].data
           /\ Settled(vs)[v].use = vs[v].use
           /\ vs[v].data # NULL => Settled(vs)[v] = vs[v]
<1>1. VnodeOK(vs[v])
    BY DEF Book
<1>2. Settled(vs)[v] = IF /\ vs[v].st = "doomed" /\ vs[v].use = 0
                          /\ vs[v].hold = 0 /\ vs[v].lock = NULL
                       THEN FreeVnode ELSE vs[v]
    BY DEF Settled
<1> QED
    BY <1>1, <1>2 DEF VnodeOK, FreeVnode

(* While the kernel runs the invariant asks nothing of the panic. *)
LEMMA PanicNo ==
    ASSUME NEW cl
    PROVE  PanicOK("no", cl)
    BY DEF PanicOK, Panics

(* A step of thread p that leaves the nodes alone: its call c becomes d, its *)
(* directory w becomes x, and the vnodes vs become vt.                       *)
Quiet(p, ns, vs, c, w, vt, d, x) ==
    /\ d \in CallType /\ x \in Vnode \cup {NULL}
    /\ vt = [v \in Vnode |-> vt[v]]
    /\ \A v \in Vnode : Fits(p, vs[v], vt[v])
    /\ \A v \in Vnode : Follows(vs[v], vt[v], c, d, w, x, v)
    /\ \A v \in Vnode : Locks(d, v) => vt[v].lock = p
    /\ CallOK(vt, d, x)
    /\ \A v \in Vnode : vt[v].data = vs[v].data
    /\ \A v \in Vnode : vt[v].data # NULL => vt[v].mount = vs[v].mount
    /\ d.ref <=> c.ref
    /\ c.ref => d.pn = c.pn
    /\ \A n \in Node : Kills(d, n) <=> Kills(c, n)
    /\ d.pc = "reclaim" => ns[vs[d.put].data].deleted
    /\ \A v \in Vnode :
        vs[v].data # NULL /\ ns[vs[v].data].deleted /\ vt[v].use = 0
        => \/ vs[v].use = 0 /\ (c.put # v \/ c.pc \notin Recycling)
           \/ d.put = v /\ d.pc \in Recycling

(* A quiet step keeps the invariant, also when it puts the last use of a *)
(* vnode and the vnode settles.                                          *)
LEMMA QuietTail ==
    ASSUME NEW ns, NEW vs, NEW cl, NEW cw, Book(vs, cl, cw),
           Tree(ns, vs, cl, {}), RecycleOK(ns, vs, cl), NEW p \in Proc,
           NEW vt, NEW d, NEW x, Quiet(p, ns, vs, cl[p], cw[p], vt, d, x),
           NEW cm, NEW cx, Book(vt, cm, cx),
           cm[p] = d, \A q \in Proc : q # p => cm[q] = cl[q],
           NEW wt, wt = vt \/ wt = Settled(vt)
    PROVE  Book(wt, cm, cx) /\ Tree(ns, wt, cm, {}) /\ RecycleOK(ns, wt, cm)
<1>1. Tree(ns, vt, cm, {})
    <2>1. \A q \in Proc : cm[q].ref <=> cl[q].ref
        BY DEF Quiet
    <2>2. \A q \in Proc : cl[q].ref => cm[q].pn = cl[q].pn
        BY DEF Quiet
    <2>3. \A q \in Proc, n \in Node : Kills(cm[q], n) <=> Kills(cl[q], n)
        BY DEF Quiet
    <2>4. \A v \in Vnode : vt[v].data = vs[v].data
        BY DEF Quiet
    <2> QED
        BY <2>1, <2>2, <2>3, <2>4, TreeQuiet
<1>2. RecycleOK(ns, vt, cm)
    <2>1. UsedOK(ns, vt)
        BY <1>1 DEF Tree
    <2>2. cm[p].pc = "reclaim" => ns[vt[cm[p].put].data].deleted
        <3>1. d.pc = "reclaim" => d.put \in Vnode
            BY DEF Quiet, CallOK, SetOK, Putting, CallType
        <3> QED
            BY <3>1 DEF Quiet
    <2>3. \A v \in Vnode :
            vt[v].data # NULL /\ ns[vt[v].data].deleted /\ vt[v].use = 0
            => \/ /\ vs[v].use = 0
                  /\ p \in Proc => cl[p].put # v \/ cl[p].pc \notin Recycling
               \/ p \in Proc /\ cm[p].put = v /\ cm[p].pc \in Recycling
        BY DEF Quiet
    <2>4. \A v \in Vnode : vt[v].data # NULL =>
            vt[v].data = vs[v].data /\ vt[v].mount = vs[v].mount
        BY DEF Quiet
    <2>5. \A v \in Vnode : vs[v].lock \notin {NULL, p} =>
            vt[v].data = vs[v].data
        BY DEF Quiet
    <2> QED
        BY <2>1, <2>2, <2>3, <2>4, <2>5, RecycleStep
<1>3. /\ Book(Settled(vt), cm, cx) /\ Tree(ns, Settled(vt), cm, {})
      /\ RecycleOK(ns, Settled(vt), cm)
    <2>1. Book(Settled(vt), cm, cx)
        BY BookSettled
    <2>2. \A v \in Vnode : /\ Settled(vt)[v].data = vt[v].data
                           /\ Settled(vt)[v].use = vt[v].use
                           /\ vt[v].data # NULL => Settled(vt)[v] = vt[v]
        BY SettledData
    <2>3. Tree(ns, Settled(vt), cm, {})
        BY SMTT(60), <1>1, <2>2, TreeQuiet
    <2>4. RecycleOK(ns, Settled(vt), cm)
        <3>1. OneVnode(Settled(vt))
            BY <1>2, <2>2 DEF RecycleOK, OneVnode
        <3>2. ASSUME NEW q \in Proc, cm[q].pc = "reclaim"
              PROVE  ns[Settled(vt)[cm[q].put].data].deleted
            <4>1. cm[q].put \in Vnode
                <5>1. cm[q] \in CallType /\ SetOK(cm[q], cx[q])
                    BY BookFacts
                <5> QED
                    BY <3>2, <5>1 DEF SetOK, Putting, CallType
            <4> QED
                BY <3>2, <4>1, <1>2, <2>2 DEF RecycleOK
        <3> QED
            BY SMTT(60), <3>1, <3>2, <1>2, <2>2 DEF RecycleOK
    <2> QED
        BY <2>1, <2>3, <2>4
<1> QED
    BY <1>1, <1>2, <1>3

(* A function that differs from f at p only, where it is y *)
Sets(f, g, p, y) ==
    /\ g = [q \in Proc |-> g[q]]
    /\ g[p] = y /\ \A q \in Proc : q # p => g[q] = f[q]

(* An assignment to the call or the directory of p changes that entry alone. *)
LEMMA SetsExcept ==
    ASSUME NEW S, NEW f \in [Proc -> S], NEW p \in Proc, NEW y
    PROVE  Sets(f, [f EXCEPT ![p] = y], p, y)
    BY DEF Sets

(* So does leaving it alone, with the entry it has. *)
LEMMA SetsSame ==
    ASSUME NEW S, NEW f \in [Proc -> S], NEW p \in Proc
    PROVE  Sets(f, f, p, f[p])
    BY DEF Sets

(* And there is only one function with that entry changed. *)
LEMMA SetsUnique ==
    ASSUME NEW S, NEW f \in [Proc -> S], NEW p \in Proc, NEW y, NEW g,
           Sets(f, g, p, y)
    PROVE  g = [f EXCEPT ![p] = y]
    BY DEF Sets

(* A step of the system that is quiet keeps the invariant. *)
LEMMA QuietNext ==
    ASSUME SgfsInv, NEW p \in Proc, NEW vt, NEW d, NEW x,
           Quiet(p, node, vnode, call[p], cwd[p], vt, d, x),
           vnode' = vt \/ vnode' = Settled(vt),
           Sets(call, call', p, d), Sets(cwd, cwd', p, x),
           node' = node, cache' = cache \/ CacheOK(cache'), panic' = "no"
    PROVE  SgfsInv'
<1>1. /\ Book(vnode, call, cwd) /\ Tree(node, vnode, call, {})
      /\ RecycleOK(node, vnode, call)
    BY DEF SgfsInv
<1>2. call' = [call EXCEPT ![p] = d] /\ cwd' = [cwd EXCEPT ![p] = x]
    BY <1>1, SetsUnique DEF Book
<1>3. Book(vt, [call EXCEPT ![p] = d], [cwd EXCEPT ![p] = x])
    BY <1>1, BookStep DEF Quiet
<1>4. Book(vt, call', cwd')
    BY <1>2, <1>3, Zenon
<1>5. call'[p] = d /\ \A q \in Proc : q # p => call'[q] = call[q]
    BY DEF Sets
<1>6. Book(vnode', call', cwd') /\ Tree(node, vnode', call', {})
      /\ RecycleOK(node, vnode', call')
    BY SMTT(60), <1>1, <1>4, <1>5, QuietTail
<1>7. PanicOK(panic', call')
    BY PanicNo
<1> QED
    BY <1>6, <1>7 DEF SgfsInv

(* A change of counts and lock of a vnode that no other thread has locked *)
LEMMA Fitting ==
    ASSUME NEW p, NEW r \in VnodeType, VnodeOK(r), NEW s \in VnodeType,
           s.st = r.st, s.data = r.data, s.mount = r.mount,
           s = r \/ r.st # "free",
           r.lock \in {NULL, p} \/ (s.lock = r.lock /\ s.use = r.use)
    PROVE  Fits(p, r, s)
    BY DEF Fits, VnodeOK

(* A vnode that gets another lock *)
LEMMA LockVnode ==
    ASSUME NEW vs \in [Vnode -> VnodeType], NEW v \in Vnode,
           NEW l \in Proc \cup {NULL}
    PROVE  LET vt == [vs EXCEPT ![v].lock = l]
           IN  /\ vt \in [Vnode -> VnodeType]
               /\ \A u \in Vnode : u # v => vt[u] = vs[u]
               /\ vt[v].lock = l /\ vt[v].st = vs[v].st
               /\ vt[v].data = vs[v].data /\ vt[v].mount = vs[v].mount
               /\ vt[v].use = vs[v].use /\ vt[v].hold = vs[v].hold
<1> DEFINE s == [vs[v] EXCEPT !.lock = l]
           vt == [vs EXCEPT ![v].lock = l]
<1>1. vs[v] \in VnodeType
    OBVIOUS
<1>2. /\ s \in VnodeType
      /\ s.lock = l /\ s.st = vs[v].st /\ s.data = vs[v].data
      /\ s.mount = vs[v].mount /\ s.use = vs[v].use /\ s.hold = vs[v].hold
    BY <1>1 DEF VnodeType
<1>3. vt = [vs EXCEPT ![v] = s]
    BY <1>1 DEF VnodeType
<1> HIDE DEF s
<1>4. vt[v] = s /\ \A u \in Vnode : u # v => vt[u] = vs[u]
    BY <1>3
<1>5. vt \in [Vnode -> VnodeType]
    BY <1>2, <1>3
<1> HIDE DEF vt
<1>6. /\ vt \in [Vnode -> VnodeType]
      /\ \A u \in Vnode : u # v => vt[u] = vs[u]
      /\ vt[v].lock = l /\ vt[v].st = vs[v].st
      /\ vt[v].data = vs[v].data /\ vt[v].mount = vs[v].mount
      /\ vt[v].use = vs[v].use /\ vt[v].hold = vs[v].hold
    BY <1>2, <1>4, <1>5
<1> QED
    BY <1>6 DEF vt

(* A call starts. *)
LEMMA KeepStartCall ==
    ASSUME SgfsInv, NEW p \in Proc, NEW op \in Op, NEW nm \in Name,
           op \notin {"readdir", "unmount"}, StartCall(p, op, nm)
    PROVE  SgfsInv'
<1> DEFINE v == cwd[p]
           d == [Idle EXCEPT !.pc = IF op = "dotdot" THEN "dotdot" ELSE "lookup",
                             !.op = op, !.name = nm, !.dvp = v,
                             !.pd = vnode[v].data, !.mount = vnode[v].mount]
           vt == [vnode EXCEPT ![v].lock = p]
<1>1. /\ Book(vnode, call, cwd) /\ Tree(node, vnode, call, {})
      /\ RecycleOK(node, vnode, call) /\ CacheOK(cache)
    BY DEF SgfsInv
<1>2. /\ vnode \in [Vnode -> VnodeType] /\ call \in [Proc -> CallType]
      /\ cwd \in [Proc -> Vnode \cup {NULL}]
      /\ \A u \in Vnode : vnode[u] \in VnodeType /\ VnodeOK(vnode[u])
      /\ SetOK(call[p], cwd[p])
    BY <1>1, BookFacts
<1>3. /\ v \in Vnode /\ vnode[v].st = "live" /\ vnode[v].lock = NULL
      /\ call[p] = Idle /\ cwd[p] = v
      /\ vnode' = vt /\ UNCHANGED <<node, cwd, cache, panic>> /\ panic = "no"
    BY <1>2 DEF StartCall, At, SetOK
<1>15. Sets(call, call', p, d) /\ Sets(cwd, cwd', p, cwd[p])
    <2>1. call' = [call EXCEPT ![p] = d] /\ cwd' = cwd
        BY DEF StartCall
    <2> HIDE DEF d
    <2> QED
        BY <1>2, <2>1, SetsExcept, SetsSame
<1>4. vnode[v].data \in Node /\ vnode[v].mount \in Mount
    BY <1>2, <1>3 DEF VnodeOK, VnodeType
<1>5. /\ d \in CallType
      /\ d.pc = IF op = "dotdot" THEN "dotdot" ELSE "lookup"
      /\ d.op = op /\ d.name = nm /\ d.dvp = v /\ d.pd = vnode[v].data
      /\ d.mount = vnode[v].mount /\ d.vp = NULL /\ d.pn = NULL /\ ~d.ref
      /\ d.put = NULL
    BY ZenonT(120), <1>3, <1>4 DEF Idle, CallType
<1> HIDE DEF d
<1>6. /\ vt \in [Vnode -> VnodeType]
      /\ \A u \in Vnode : u # v => vt[u] = vnode[u]
      /\ vt[v].lock = p /\ vt[v].st = vnode[v].st
      /\ vt[v].data = vnode[v].data /\ vt[v].mount = vnode[v].mount
      /\ vt[v].use = vnode[v].use /\ vt[v].hold = vnode[v].hold
    BY <1>2, <1>3, LockVnode
<1> HIDE DEF vt
<1>7. \A u \in Vnode : Fits(p, vnode[u], vt[u])
    BY <1>2, <1>3, <1>6, Fitting
<1>8. \A u \in Vnode : /\ UseBit(call[p], u) = 0 /\ HoldBit(call[p], u) = 0
                       /\ UseBit(d, u) = 0 /\ HoldBit(d, u) = 0
    BY <1>3, <1>5, NullAssumption DEF UseBit, HoldBit, Uses, Holds, Idle
<1>9. \A u \in Vnode :
        Follows(vnode[u], vt[u], call[p], d, cwd[p], cwd[p], u)
    BY <1>2, <1>6, <1>8 DEF Follows, Dirs, VnodeType
<1>10. \A u \in Vnode : Locks(d, u) => vt[u].lock = p
    BY <1>5, <1>6, NullAssumption DEF Locks
<1>11. SetOK(d, cwd[p]) /\ RefOK(d)
    BY <1>3, <1>4, <1>5, NullAssumption, OpAssumption
       DEF SetOK, RefOK, DirLocked, Walking, Leaving, Putting
<1>12. DirOK(vt, d, cwd[p]) /\ VpOK(vt, d)
    BY <1>3, <1>5, <1>6 DEF DirOK, VpOK
<1>13. /\ call[p].ref = FALSE /\ call[p].pc = "idle" /\ call[p].put = NULL
       /\ \A n \in Node : ~Kills(call[p], n) /\ ~Kills(d, n)
    BY <1>3, <1>5 DEF Idle, Kills
<1>14. Quiet(p, node, vnode, call[p], cwd[p], vt, d, cwd[p])
    BY <1>3, <1>5, <1>6, <1>7, <1>9, <1>10, <1>11, <1>12, <1>13
       DEF Quiet, CallOK, Recycling
<1> QED
    BY <1>1, <1>3, <1>14, <1>15, QuietNext

(* What is known of a thread that takes a step *)
LEMMA Known ==
    ASSUME SgfsInv, NEW p \in Proc
    PROVE  /\ vnode \in [Vnode -> VnodeType] /\ call \in [Proc -> CallType]
           /\ cwd \in [Proc -> Vnode \cup {NULL}]
           /\ node \in [Node -> NodeType]
           /\ call[p] \in CallType /\ cwd[p] \in Vnode \cup {NULL}
           /\ \A v \in Vnode : vnode[v] \in VnodeType /\ VnodeOK(vnode[v])
           /\ SetOK(call[p], cwd[p]) /\ RefOK(call[p])
           /\ DirOK(vnode, call[p], cwd[p]) /\ VpOK(vnode, call[p])
           /\ \A v \in Vnode : Locks(call[p], v) => vnode[v].lock = p
           /\ UsedOK(node, vnode) /\ RefsOK(node, call)
           /\ \A n \in Node : NodeOK(node, n)
           /\ RootOK(node) /\ KillsOK(node, call) /\ CacheOK(cache)
<1>1. Book(vnode, call, cwd) /\ Tree(node, vnode, call, {}) /\ CacheOK(cache)
    BY DEF SgfsInv
<1> QED
    BY <1>1, BookFacts DEF Tree

(* A step of a thread that changes its call only. *)
LEMMA GoNext ==
    ASSUME SgfsInv, NEW p \in Proc, NEW d \in CallType,
           \A v \in Vnode : /\ UseBit(d, v) = UseBit(call[p], v)
                            /\ HoldBit(d, v) = HoldBit(call[p], v)
                            /\ Locks(d, v) => Locks(call[p], v),
           SetOK(d, cwd[p]), RefOK(d), DirOK(vnode, d, cwd[p]), VpOK(vnode, d),
           d.ref <=> call[p].ref, call[p].ref => d.pn = call[p].pn,
           \A n \in Node : Kills(d, n) <=> Kills(call[p], n),
           d.pc = "reclaim" => node[vnode[d.put].data].deleted,
           call[p].pc \in Recycling =>
                d.put = call[p].put /\ d.pc \in Recycling,
           vnode' = vnode, Sets(call, call', p, d), cwd' = cwd,
           node' = node, cache' = cache \/ CacheOK(cache'), panic' = "no"
    PROVE  SgfsInv'
<1>1. /\ vnode \in [Vnode -> VnodeType] /\ cwd \in [Proc -> Vnode \cup {NULL}]
      /\ \A v \in Vnode : vnode[v] \in VnodeType /\ VnodeOK(vnode[v])
      /\ \A v \in Vnode : Locks(call[p], v) => vnode[v].lock = p
      /\ CacheOK(cache)
    BY Known
<1>2. \A v \in Vnode : Fits(p, vnode[v], vnode[v])
    BY <1>1, Fitting
<1>3. \A v \in Vnode :
        Follows(vnode[v], vnode[v], call[p], d, cwd[p], cwd[p], v)
    <2> SUFFICES ASSUME NEW v \in Vnode
                 PROVE  Follows(vnode[v], vnode[v], call[p], d, cwd[p], cwd[p], v)
        OBVIOUS
    <2>1. /\ vnode[v].use \in Nat /\ vnode[v].hold \in Nat
          /\ Dirs(cwd[p], v) \in 0 .. 1 /\ UseBit(d, v) \in 0 .. 1
          /\ HoldBit(d, v) \in 0 .. 1
        BY <1>1 DEF VnodeType, Dirs, UseBit, HoldBit
    <2> QED
        BY <2>1 DEF Follows
<1>4. CallOK(vnode, d, cwd[p])
    BY DEF CallOK
<1>5. Quiet(p, node, vnode, call[p], cwd[p], vnode, d, cwd[p])
    BY <1>1, <1>2, <1>3, <1>4 DEF Quiet
<1>6. Sets(cwd, cwd', p, cwd[p])
    BY <1>1, SetsSame
<1> QED
    BY <1>1, <1>5, <1>6, QuietNext

(* The end of a call: what it has used and locked is given up. *)
LEMMA EndNext ==
    ASSUME SgfsInv, NEW p \in Proc, NEW vt \in [Vnode -> VnodeType],
           \A v \in Vnode :
                /\ vt[v].st = vnode[v].st /\ vt[v].data = vnode[v].data
                /\ vt[v].mount = vnode[v].mount
                /\ vt[v].use = vnode[v].use - UseBit(call[p], v)
                /\ vt[v].hold = vnode[v].hold - HoldBit(call[p], v)
                /\ vt[v] = vnode[v] \/ Locks(call[p], v),
           ~call[p].ref, \A n \in Node : ~Kills(call[p], n),
           \A v \in Vnode :
                /\ vnode[v].data # NULL /\ node[vnode[v].data].deleted
                /\ vt[v].use = 0
                => vnode[v].use = 0 /\ (call[p].put # v \/ call[p].pc \notin Recycling),
           vnode' = vt \/ vnode' = Settled(vt),
           Sets(call, call', p, Idle), cwd' = cwd,
           node' = node, cache' = cache, panic' = "no"
    PROVE  SgfsInv'
<1>1. /\ vnode \in [Vnode -> VnodeType] /\ cwd \in [Proc -> Vnode \cup {NULL}]
      /\ \A v \in Vnode : vnode[v] \in VnodeType /\ VnodeOK(vnode[v])
      /\ \A v \in Vnode : Locks(call[p], v) => vnode[v].lock = p
      /\ DirOK(vnode, call[p], cwd[p]) /\ VpOK(vnode, call[p])
      /\ cwd[p] \in Vnode \cup {NULL} /\ SetOK(call[p], cwd[p])
      /\ call[p] \in CallType /\ CacheOK(cache)
    BY Known
<1>2. /\ Idle \in CallType /\ Idle.pc = "idle" /\ Idle.op = "none"
      /\ Idle.name = NULL /\ Idle.dvp = NULL /\ Idle.vp = NULL
      /\ Idle.pn = NULL /\ Idle.ref = FALSE /\ Idle.put = NULL
    BY DEF Idle, CallType
<1>3. \A v \in Vnode : /\ UseBit(Idle, v) = 0 /\ HoldBit(Idle, v) = 0
                       /\ ~Locks(Idle, v)
    BY <1>2, NullAssumption DEF UseBit, HoldBit, Uses, Holds, Locks
<1>4. \A v \in Vnode : Locks(call[p], v) => vnode[v].st # "free"
    BY <1>1, NullAssumption DEF VnodeOK, FreeVnode
<1>5. ASSUME NEW v \in Vnode
      PROVE  Fits(p, vnode[v], vt[v])
    BY <1>1, <1>4, Fitting
<1>6. \A v \in Vnode :
        Follows(vnode[v], vt[v], call[p], Idle, cwd[p], cwd[p], v)
    <2> SUFFICES ASSUME NEW v \in Vnode
                 PROVE  Follows(vnode[v], vt[v], call[p], Idle, cwd[p], cwd[p], v)
        OBVIOUS
    <2>1. /\ vnode[v].use \in Nat /\ vnode[v].hold \in Nat
          /\ Dirs(cwd[p], v) \in 0 .. 1 /\ UseBit(call[p], v) \in 0 .. 1
          /\ HoldBit(call[p], v) \in 0 .. 1
        BY <1>1 DEF VnodeType, Dirs, UseBit, HoldBit
    <2>2. UseBit(Idle, v) = 0 /\ HoldBit(Idle, v) = 0
        BY <1>3
    <2> QED
        BY <2>1, <2>2 DEF Follows
<1>7. CallOK(vt, Idle, cwd[p])
    <2>1. SetOK(Idle, cwd[p]) /\ RefOK(Idle)
        BY <1>2 DEF SetOK, RefOK, Walking, Leaving, Putting, DirLocked
    <2>2. DirOK(vt, Idle, cwd[p]) /\ VpOK(vt, Idle)
        BY <1>1, <1>2 DEF DirOK, VpOK
    <2> QED
        BY <2>1, <2>2 DEF CallOK
<1>8. \A n \in Node : ~Kills(Idle, n)
    BY <1>2 DEF Kills
<1> HIDE DEF Idle
<1>9. Quiet(p, node, vnode, call[p], cwd[p], vt, Idle, cwd[p])
    BY <1>1, <1>2, <1>3, <1>5, <1>6, <1>7, <1>8 DEF Quiet
<1>10. Sets(cwd, cwd', p, cwd[p])
    BY <1>1, SetsSame
<1> QED
    BY <1>1, <1>9, <1>10, QuietNext

(* A kernel that stops keeps what it had. *)
LEMMA KeepPanic ==
    ASSUME SgfsInv, NEW why \in Panics, Panic(why), why # "freed twice",
           why = "freed node" =>
                \E p \in Proc : call[p].op = "dotdot" /\ ~call[p].ref
    PROVE  SgfsInv'
<1>1. /\ UNCHANGED <<node, vnode, cwd, call, cache>> /\ panic' = why
    BY ZenonT(60) DEF Panic
<1>2. PanicOK(panic', call')
    BY ZenonT(60), <1>1 DEF PanicOK
<1> QED
    BY ZenonT(60), <1>1, <1>2 DEF SgfsInv

(* A path enters the mount point. *)
LEMMA KeepRoot ==
    ASSUME SgfsInv, NEW p \in Proc, NEW m \in Mount, sgfs_root(p, m)
    PROVE  SgfsInv'
<1> DEFINE d == [Idle EXCEPT !.pc = "find", !.op = "root", !.pn = Root,
                             !.mount = m]
<1>1. /\ call \in [Proc -> CallType] /\ cwd \in [Proc -> Vnode \cup {NULL}]
      /\ call[p] \in CallType /\ cwd[p] \in Vnode \cup {NULL}
      /\ SetOK(call[p], cwd[p]) /\ RefOK(call[p])
      /\ DirOK(vnode, call[p], cwd[p]) /\ VpOK(vnode, call[p])
    BY Known
<1>2. /\ vnode' = vnode /\ cwd' = cwd /\ node' = node /\ cache' = cache
      /\ panic' = "no"
      /\ call[p] = Idle /\ call[p].pc = "idle" /\ cwd[p] = NULL
      /\ ~call[p].ref /\ call[p].dvp = NULL /\ call[p].vp = NULL
      /\ call[p].put = NULL
    BY <1>1 DEF sgfs_root, At, SetOK, Idle
<1>3. Sets(call, call', p, d)
    <2>1. call' = [call EXCEPT ![p] = d]
        BY <1>1 DEF sgfs_root
    <2> HIDE DEF d
    <2> QED
        BY <1>1, <2>1, SetsExcept
<1>4. /\ d \in CallType /\ d.pc = "find" /\ d.op = "root"
      /\ d.name = call[p].name /\ d.dvp = call[p].dvp /\ d.pd = call[p].pd
      /\ d.vp = call[p].vp /\ d.pn = Root /\ d.ref = call[p].ref
      /\ d.mount = m /\ d.old = call[p].old /\ d.put = call[p].put
    <2>1. Root \in Node \cup {NULL} /\ m \in Mount \cup {NULL}
          /\ "root" \in Op \cup {"none", "root", "leave"}
        BY RootAssumption
    <2> QED
        BY <1>2, <2>1 DEF Idle, CallType
<1> HIDE DEF d
<1>5. \A v \in Vnode : /\ UseBit(d, v) = UseBit(call[p], v)
                       /\ HoldBit(d, v) = HoldBit(call[p], v)
                       /\ Locks(d, v) => Locks(call[p], v)
    BY <1>1, <1>2, <1>4, NullAssumption
       DEF UseBit, HoldBit, Uses, Holds, Locks, DirLocked, SetOK
<1>6. SetOK(d, cwd[p]) /\ RefOK(d)
    BY <1>1, <1>2, <1>4, NullAssumption, RootAssumption
       DEF SetOK, RefOK, DirLocked, Walking, Leaving, Putting
<1>7. DirOK(vnode, d, cwd[p]) /\ VpOK(vnode, d)
    BY <1>1, <1>2, <1>4 DEF DirOK, VpOK, SetOK
<1>8. /\ d.ref <=> call[p].ref
      /\ call[p].ref => d.pn = call[p].pn
      /\ \A n \in Node : Kills(d, n) <=> Kills(call[p], n)
    BY <1>1, <1>2, <1>4 DEF Kills, RefOK
<1> QED
    BY <1>2, <1>3, <1>4, <1>5, <1>6, <1>7, <1>8, GoNext DEF Recycling

(* VOP_ACCESS refuses, and the node is let go. *)
LEMMA KeepLookupDenied ==
    ASSUME SgfsInv, NEW p \in Proc, LookupDenied(p)
    PROVE  SgfsInv'
<1> DEFINE d == [call[p] EXCEPT !.pc = "release"]
<1>1. /\ call \in [Proc -> CallType] /\ cwd \in [Proc -> Vnode \cup {NULL}]
      /\ call[p] \in CallType /\ cwd[p] \in Vnode \cup {NULL}
      /\ SetOK(call[p], cwd[p]) /\ RefOK(call[p])
      /\ DirOK(vnode, call[p], cwd[p]) /\ VpOK(vnode, call[p])
    BY Known
<1>2. /\ vnode' = vnode /\ cwd' = cwd /\ node' = node /\ cache' = cache
      /\ panic' = "no"
      /\ call[p].pc = "find" /\ call[p].op = "rmdir"
    BY DEF LookupDenied, At
<1>3. Sets(call, call', p, d)
    <2>1. call' = [call EXCEPT ![p] = d]
        BY <1>1 DEF CallType, Goto, LookupDenied
    <2> HIDE DEF d
    <2> QED
        BY <1>1, <2>1, SetsExcept
<1>4. /\ d \in CallType /\ d.pc = "release" /\ d.op = call[p].op
      /\ d.name = call[p].name /\ d.dvp = call[p].dvp /\ d.pd = call[p].pd
      /\ d.vp = call[p].vp /\ d.pn = call[p].pn /\ d.ref = call[p].ref
      /\ d.mount = call[p].mount /\ d.old = call[p].old /\ d.put = call[p].put
    BY <1>1, <1>2 DEF CallType
<1> HIDE DEF d
<1>5. \A v \in Vnode : /\ UseBit(d, v) = UseBit(call[p], v)
                       /\ HoldBit(d, v) = HoldBit(call[p], v)
                       /\ Locks(d, v) => Locks(call[p], v)
    BY <1>1, <1>2, <1>4, NullAssumption
       DEF UseBit, HoldBit, Uses, Holds, Locks, DirLocked, SetOK
<1>6. SetOK(d, cwd[p]) /\ RefOK(d)
    BY <1>1, <1>2, <1>4, NullAssumption
       DEF SetOK, RefOK, DirLocked, Walking, Leaving, Putting
<1>7. DirOK(vnode, d, cwd[p]) /\ VpOK(vnode, d)
    BY <1>1, <1>2, <1>4 DEF DirOK, VpOK, SetOK
<1>8. /\ d.ref <=> call[p].ref
      /\ call[p].ref => d.pn = call[p].pn
      /\ \A n \in Node : Kills(d, n) <=> Kills(call[p], n)
    BY <1>1, <1>2, <1>4 DEF Kills, RefOK
<1> QED
    BY <1>2, <1>3, <1>4, <1>5, <1>6, <1>7, <1>8, GoNext DEF Recycling

(* What a thread lets go of: what it has looked up and does not purge, *)
(* and what it has purged                                              *)
LetsGo(p) ==
    [call[p] EXCEPT !.pc = "put", !.vp = NULL,
                    !.put = IF call[p].pc = "purge" THEN call[p].put
                            ELSE call[p].vp]

(* mkdir and rmdir let go of a directory. *)
LEMMA KeepLetGo ==
    ASSUME SgfsInv, NEW p \in Proc,
           UNCHANGED <<node, vnode, cwd>>, CacheOK(cache'), panic' = "no",
           call[p].pc = "purge" \/ (call[p].pc = "done" /\ call[p].vp # NULL),
           call[p].op \in {"mkdir", "rmdir"},
           call' = [call EXCEPT ![p] = LetsGo(p)]
    PROVE  SgfsInv'
<1> DEFINE d == LetsGo(p)
<1>1. /\ call \in [Proc -> CallType] /\ cwd \in [Proc -> Vnode \cup {NULL}]
      /\ call[p] \in CallType /\ cwd[p] \in Vnode \cup {NULL}
      /\ SetOK(call[p], cwd[p]) /\ RefOK(call[p])
      /\ DirOK(vnode, call[p], cwd[p]) /\ VpOK(vnode, call[p])
    BY SMTT(60), Known
<1>2. call[p].pc = "purge" => call[p].put # NULL /\ call[p].vp = NULL
    BY <1>1 DEF SetOK, Putting
<1>3. Sets(call, call', p, d)
    <2>1. /\ call'[p] = d /\ \A q \in Proc : q # p => call'[q] = call[q]
          /\ call' = [q \in Proc |-> call'[q]]
        BY <1>1
    <2> QED
        BY <2>1 DEF Sets
<1>4. /\ d \in CallType /\ d.pc = "put" /\ d.op = call[p].op
      /\ d.name = call[p].name /\ d.dvp = call[p].dvp /\ d.pd = call[p].pd
      /\ d.vp = NULL /\ d.pn = call[p].pn /\ d.ref = call[p].ref
      /\ d.mount = call[p].mount /\ d.old = call[p].old
      /\ call[p].pc = "purge" => d.put = call[p].put
      /\ call[p].pc = "done" => d.put = call[p].vp
    <2> DEFINE r == IF call[p].pc = "purge" THEN call[p].put ELSE call[p].vp
    <2>1. /\ r \in Vnode \cup {NULL}
          /\ call[p].pc = "purge" => r = call[p].put
          /\ call[p].pc = "done" => r = call[p].vp
        BY ZenonT(60), <1>1 DEF CallType
    <2>2. d = [call[p] EXCEPT !.pc = "put", !.vp = NULL, !.put = r]
        BY DEF LetsGo
    <2> HIDE DEF r, d
    <2> QED
        BY ZenonT(60), <1>1, <2>1, <2>2 DEF CallType
<1> HIDE DEF d
<1>5. \A v \in Vnode : /\ UseBit(d, v) = UseBit(call[p], v)
                       /\ HoldBit(d, v) = HoldBit(call[p], v)
                       /\ Locks(d, v) => Locks(call[p], v)
    BY <1>1, <1>2, <1>4, NullAssumption
       DEF UseBit, HoldBit, Uses, Holds, Locks, DirLocked, SetOK
<1>6. SetOK(d, cwd[p]) /\ RefOK(d)
    BY <1>1, <1>2, <1>4, NullAssumption
       DEF SetOK, RefOK, DirLocked, Walking, Leaving, Putting
<1>7. DirOK(vnode, d, cwd[p]) /\ VpOK(vnode, d)
    BY <1>1, <1>2, <1>4 DEF DirOK, VpOK, SetOK
<1>8. /\ d.ref <=> call[p].ref
      /\ call[p].ref => d.pn = call[p].pn
      /\ \A n \in Node : Kills(d, n) <=> Kills(call[p], n)
    BY <1>1, <1>2, <1>4 DEF Kills, RefOK
<1> QED
    BY <1>2, <1>3, <1>4, <1>5, <1>6, <1>7, <1>8, GoNext DEF Recycling

(* mkdir lets go of what it has made, rmdir of what is not removed. *)
LEMMA KeepDonePut ==
    ASSUME SgfsInv, NEW p \in Proc,
           DonePut(p) \/ (sgfs_rmdir(p) /\ call'[p].pc = "put" /\ node' = node)
    PROVE  SgfsInv'
<1>1. call \in [Proc -> CallType] /\ call[p] \in CallType /\ CacheOK(cache)
    BY Known
<1>2. /\ UNCHANGED <<node, vnode, cwd>> /\ cache' = cache /\ panic' = "no"
      /\ call[p].pc = "done" /\ call[p].vp # NULL
      /\ call[p].op \in {"mkdir", "rmdir"}
    <2>1. CASE DonePut(p)
        BY <2>1 DEF DonePut, At, Got
    <2>2. CASE sgfs_rmdir(p) /\ node' = node
        BY <2>2 DEF sgfs_rmdir, At, Got, Usable
    <2> QED
        BY <2>1, <2>2
<1>3. call' = [call EXCEPT ![p] = LetsGo(p)]
    <2>1. LetsGo(p) = [call[p] EXCEPT !.pc = "put", !.vp = NULL,
                                      !.put = call[p].vp]
        BY <1>2 DEF LetsGo
    <2>2. CASE DonePut(p)
        BY ZenonT(60), <1>1, <2>1, <2>2 DEF CallType, DonePut
    <2>3. CASE sgfs_rmdir(p) /\ call'[p].pc = "put"
        BY ZenonT(60), <1>1, <2>1, <2>3 DEF CallType, sgfs_rmdir
    <2> QED
        BY <2>2, <2>3
<1> QED
    BY <1>1, <1>2, <1>3, KeepLetGo

(* rmdir lets go of what it has taken out of the name cache. *)
LEMMA KeepRmdirPurge ==
    ASSUME SgfsInv, NEW p \in Proc, RmdirPurge(p)
    PROVE  SgfsInv'
<1>1. /\ call \in [Proc -> CallType] /\ call[p] \in CallType /\ CacheOK(cache)
      /\ SetOK(call[p], cwd[p])
    BY Known
<1>2. /\ UNCHANGED <<node, vnode, cwd>> /\ cache' \subseteq cache
      /\ panic' = "no" /\ call[p].pc = "purge"
      /\ call' = [call EXCEPT ![p].pc = "put"]
    BY DEF RmdirPurge, Goto, At, Purge
<1>3. call[p].op = "rmdir" /\ call[p].vp = NULL
    BY <1>1, <1>2 DEF SetOK, Putting
<1>4. call' = [call EXCEPT ![p] = LetsGo(p)]
    BY ZenonT(60), <1>1, <1>2, <1>3 DEF CallType, LetsGo
<1> QED
    BY <1>1, <1>2, <1>3, <1>4, KeepLetGo DEF CacheOK

(* A walk that has got a doomed vnode stops the kernel. *)
LEMMA KeepWalkDoomed ==
    ASSUME SgfsInv, NEW p \in Proc, WalkDoomed(p)
    PROVE  SgfsInv'
    BY KeepPanic DEF WalkDoomed, Panics

(* A call that has looked up nothing ends. *)
LEMMA KeepEndCall ==
    ASSUME SgfsInv, NEW p \in Proc, EndCall(p, vnode), call[p].vp = NULL,
           call[p].put = NULL, ~call[p].ref, call[p].dvp # NULL,
           \A n \in Node : ~Kills(call[p], n), DirLocked(call[p]),
           UNCHANGED <<node, cwd, cache>>, panic' = "no"
    PROVE  SgfsInv'
<1> DEFINE dvp == call[p].dvp
           vt == [vnode EXCEPT ![dvp].lock = NULL]
<1>1. /\ vnode \in [Vnode -> VnodeType] /\ call \in [Proc -> CallType]
      /\ SetOK(call[p], cwd[p]) /\ dvp \in Vnode
      /\ \A v \in Vnode : vnode[v] \in VnodeType
    BY Known DEF CallType
<1>2. vnode' = Settled(vt) /\ Sets(call, call', p, Idle)
    <2>1. vnode' = Settled(vt) /\ call' = [call EXCEPT ![p] = Idle]
        BY DEF EndCall
    <2> QED
        BY <1>1, <2>1, SetsExcept
<1>3. /\ vt \in [Vnode -> VnodeType]
      /\ \A u \in Vnode : u # dvp => vt[u] = vnode[u]
      /\ vt[dvp].lock = NULL /\ vt[dvp].st = vnode[dvp].st
      /\ vt[dvp].data = vnode[dvp].data /\ vt[dvp].mount = vnode[dvp].mount
      /\ vt[dvp].use = vnode[dvp].use /\ vt[dvp].hold = vnode[dvp].hold
    <2>1. dvp \in Vnode /\ vnode \in [Vnode -> VnodeType]
        BY <1>1
    <2>2. NULL \in Proc \cup {NULL}
        OBVIOUS
    <2>3. \A w \in Vnode :
            LET wt == [vnode EXCEPT ![w].lock = NULL]
            IN  /\ wt \in [Vnode -> VnodeType]
                /\ \A u \in Vnode : u # w => wt[u] = vnode[u]
                /\ wt[w].lock = NULL /\ wt[w].st = vnode[w].st
                /\ wt[w].data = vnode[w].data /\ wt[w].mount = vnode[w].mount
                /\ wt[w].use = vnode[w].use /\ wt[w].hold = vnode[w].hold
        BY <2>1, <2>2, LockVnode
    <2> QED
        BY <2>1, <2>3, Zenon
<1> HIDE DEF vt
<1>4. \A v \in Vnode : UseBit(call[p], v) = 0 /\ HoldBit(call[p], v) = 0
    BY NullAssumption DEF UseBit, HoldBit, Uses, Holds
<1>5. Locks(call[p], dvp)
    BY DEF Locks
<1>6. ASSUME NEW v \in Vnode
      PROVE  /\ vt[v].st = vnode[v].st /\ vt[v].data = vnode[v].data
             /\ vt[v].mount = vnode[v].mount
             /\ vt[v].use = vnode[v].use - UseBit(call[p], v)
             /\ vt[v].hold = vnode[v].hold - HoldBit(call[p], v)
             /\ vt[v] = vnode[v] \/ Locks(call[p], v)
    <2>1. vnode[v].use \in Nat /\ vnode[v].hold \in Nat
        BY <1>1 DEF VnodeType
    <2>2. vt[v].use = vnode[v].use /\ vt[v].hold = vnode[v].hold
        BY <1>3
    <2>3. /\ vnode[v].use - UseBit(call[p], v) = vnode[v].use
          /\ vnode[v].hold - HoldBit(call[p], v) = vnode[v].hold
        BY <1>4, <2>1
    <2> QED
        BY <1>3, <1>5, <2>2, <2>3
<1>7. \A v \in Vnode :
        vnode[v].data # NULL /\ node[vnode[v].data].deleted /\ vt[v].use = 0
        => vnode[v].use = 0 /\ (call[p].put # v \/ call[p].pc \notin Recycling)
    <2>1. \A v \in Vnode : vt[v].use = vnode[v].use
        BY <1>3
    <2> QED
        BY <2>1, NullAssumption
<1> QED
    BY <1>2, <1>3, <1>6, <1>7, EndNext

(* ".." reads the parent of a directory that nobody may hold. *)
LEMMA KeepDotDotParent ==
    ASSUME SgfsInv, NEW p \in Proc, DotDotParent(p)
    PROVE  SgfsInv'
<1> DEFINE pn == node[Pd(p)].parent
<1>1. /\ call[p] \in CallType /\ SetOK(call[p], cwd[p]) /\ RefOK(call[p])
      /\ call[p].pc = "parent"
    BY ZenonT(60), Known DEF DotDotParent, At
<1>2. call[p].op = "dotdot" /\ ~call[p].ref
    BY <1>1 DEF SetOK, RefOK
<1>3. CASE Panic("freed node")
    BY ZenonT(60), <1>2, <1>3, KeepPanic DEF Panics
<1>4. CASE Panic("non-root directory has no parent")
    BY ZenonT(60), <1>4, KeepPanic DEF Panics
<1>5. CASE /\ pn # NULL
           /\ call' = [call EXCEPT ![p].pc = "find", ![p].pn = pn]
           /\ UNCHANGED <<node, number, vnode, cwd, cache, panic>>
    <2> DEFINE d == [call[p] EXCEPT !.pc = "find", !.pn = pn]
    <2>1. /\ call \in [Proc -> CallType] /\ cwd \in [Proc -> Vnode \cup {NULL}]
          /\ call[p] \in CallType /\ cwd[p] \in Vnode \cup {NULL}
          /\ SetOK(call[p], cwd[p]) /\ RefOK(call[p])
          /\ DirOK(vnode, call[p], cwd[p]) /\ VpOK(vnode, call[p])
        BY Known
    <2>a. Pd(p) \in Node
        BY <1>1, NullAssumption DEF SetOK, CallType, Pd
    <2>b. pn \in Node
        <3>1. node[Pd(p)] \in NodeType
            BY <2>a, Known
        <3> QED
            BY <3>1, <1>5 DEF NodeType
    <2>2. /\ vnode' = vnode /\ cwd' = cwd /\ node' = node /\ cache' = cache
          /\ panic' = "no"
          /\ call[p].pc = "parent" /\ call[p].op = "dotdot" /\ ~call[p].ref
          /\ pn \in Node /\ pn # NULL
        BY ZenonT(60), <2>1, <2>a, <2>b, <1>1, <1>2, <1>5 DEF DotDotParent, At
    <2>3. Sets(call, call', p, d)
        <3>1. call' = [call EXCEPT ![p] = d]
            BY <2>1, <1>5 DEF CallType
        <3> HIDE DEF d
        <3> QED
            BY <2>1, <3>1, SetsExcept
    <2>4. /\ d \in CallType /\ d.pc = "find" /\ d.op = call[p].op
          /\ d.name = call[p].name /\ d.dvp = call[p].dvp /\ d.pd = call[p].pd
          /\ d.vp = call[p].vp /\ d.pn = pn /\ d.ref = call[p].ref
          /\ d.mount = call[p].mount /\ d.old = call[p].old /\ d.put = call[p].put
        BY ZenonT(120), <2>1, <2>2 DEF CallType
    <2> HIDE DEF d
    <2>5. \A v \in Vnode : /\ UseBit(d, v) = UseBit(call[p], v)
                           /\ HoldBit(d, v) = HoldBit(call[p], v)
                           /\ Locks(d, v) => Locks(call[p], v)
        BY <2>1, <2>2, <2>4, NullAssumption
           DEF UseBit, HoldBit, Uses, Holds, Locks, DirLocked, SetOK
    <2>6. SetOK(d, cwd[p]) /\ RefOK(d)
        BY <2>1, <2>2, <2>4, NullAssumption
           DEF SetOK, RefOK, DirLocked, Walking, Leaving, Putting
    <2>7. DirOK(vnode, d, cwd[p]) /\ VpOK(vnode, d)
        BY <2>1, <2>2, <2>4 DEF DirOK, VpOK, SetOK
    <2>8. /\ d.ref <=> call[p].ref
          /\ call[p].ref => d.pn = call[p].pn
          /\ \A n \in Node : Kills(d, n) <=> Kills(call[p], n)
        BY <2>1, <2>2, <2>4 DEF Kills, RefOK
    <2> QED
        BY <2>2, <2>3, <2>4, <2>5, <2>6, <2>7, <2>8, GoNext DEF Recycling
<1> QED
    BY ZenonT(60), <1>3, <1>4, <1>5 DEF DotDotParent

(* A step that only goes on to what comes next: from a lookup that has found *)
(* nothing to mkdir, from a node without a vnode to getnewvnode, from there  *)
(* and from mkdir to the end without any, from sgfs_inactive to reclaim      *)
Move(p, pc) ==
    \/ call[p].pc = "lookup" /\ pc = "mkdir" /\ call[p].op = "mkdir"
    \/ call[p].pc = "find" /\ pc = "getnew"
    \/ call[p].pc = "getnew" /\ pc = AfterAlloc(p)
    \/ call[p].pc = "mkdir" /\ pc = "done"
    \/ /\ call[p].pc = "inactive" /\ pc = "reclaim"
       /\ node[vnode[call[p].put].data].deleted

(* Going on, an action that only changes pc, keeps the invariant: what the *)
(* call has is right for the next step too.                               *)
LEMMA KeepGoto ==
    ASSUME SgfsInv, NEW p \in Proc, NEW pc, Move(p, pc), Goto(p, pc),
           UNCHANGED <<node, vnode, cwd, cache>>, panic' = "no"
    PROVE  SgfsInv'
<1> DEFINE d == [call[p] EXCEPT !.pc = pc]
<1>1. /\ call \in [Proc -> CallType] /\ cwd \in [Proc -> Vnode \cup {NULL}]
      /\ call[p] \in CallType /\ cwd[p] \in Vnode \cup {NULL}
      /\ SetOK(call[p], cwd[p]) /\ RefOK(call[p])
      /\ DirOK(vnode, call[p], cwd[p]) /\ VpOK(vnode, call[p])
    BY Known
<1>2. /\ vnode' = vnode /\ cwd' = cwd /\ node' = node /\ cache' = cache
      /\ panic' = "no"
      /\ Move(p, pc) /\ call[p].pc # "insert"
      /\ call[p].pc = "getnew" => pc = AfterAlloc(p)
    BY DEF Move
<1>a. pc \in {"mkdir", "getnew", "release", "relock", "done", "reclaim"}
    BY <1>2 DEF Move, AfterAlloc
<1>3. Sets(call, call', p, d)
    <2>1. call' = [call EXCEPT ![p] = d]
        BY <1>1 DEF CallType, Goto
    <2> HIDE DEF d
    <2> QED
        BY <1>1, <2>1, SetsExcept
<1>4. /\ d \in CallType /\ d.pc = pc /\ d.op = call[p].op
      /\ d.name = call[p].name /\ d.dvp = call[p].dvp /\ d.pd = call[p].pd
      /\ d.vp = call[p].vp /\ d.pn = call[p].pn /\ d.ref = call[p].ref
      /\ d.mount = call[p].mount /\ d.old = call[p].old /\ d.put = call[p].put
    BY <1>1, <1>2, <1>a DEF CallType
<1> HIDE DEF d
<1>5. \A v \in Vnode : /\ UseBit(d, v) = UseBit(call[p], v)
                       /\ HoldBit(d, v) = HoldBit(call[p], v)
                       /\ Locks(d, v) => Locks(call[p], v)
    BY <1>1, <1>2, <1>4, NullAssumption
       DEF Move, AfterAlloc, UseBit, HoldBit, Uses, Holds, Locks, DirLocked, SetOK
<1>6. SetOK(d, cwd[p]) /\ RefOK(d)
    <2>1. SetOK(d, cwd[p])
        BY SMTT(60), <1>1, <1>2, <1>4, NullAssumption
           DEF Move, AfterAlloc, SetOK, RefOK, Walking, Leaving, Putting
    <2>2. RefOK(d)
        BY SMTT(60), <1>1, <1>2, <1>4
           DEF Move, AfterAlloc, SetOK, RefOK, Walking, Leaving
    <2> QED
        BY <2>1, <2>2
<1>7. DirOK(vnode, d, cwd[p]) /\ VpOK(vnode, d)
    BY <1>1, <1>2, <1>4 DEF Move, AfterAlloc, DirOK, VpOK, SetOK
<1>8. /\ d.ref <=> call[p].ref
      /\ call[p].ref => d.pn = call[p].pn
      /\ \A n \in Node : Kills(d, n) <=> Kills(call[p], n)
    BY <1>1, <1>2, <1>4 DEF Move, AfterAlloc, Kills, RefOK
<1> QED
    BY <1>2, <1>3, <1>4, <1>5, <1>6, <1>7, <1>8, GoNext
       DEF Move, AfterAlloc, Recycling

(* A step that changes one vnode, s from then on, and leaves the nodes alone *)
LEMMA TouchNext ==
    ASSUME SgfsInv, NEW p \in Proc, NEW v \in Vnode, NEW s,
           NEW d \in CallType, NEW x \in Vnode \cup {NULL},
           NEW vt \in [Vnode -> VnodeType],
           vt[v] = s, \A u \in Vnode : u # v => vt[u] = vnode[u],
           Fits(p, vnode[v], s), s.data = vnode[v].data,
           s.data # NULL => s.mount = vnode[v].mount,
           Follows(vnode[v], s, call[p], d, cwd[p], x, v),
           \A u \in Vnode : u # v =>
                /\ Dirs(cwd[p], u) + UseBit(call[p], u)
                        = Dirs(x, u) + UseBit(d, u)
                /\ HoldBit(call[p], u) = HoldBit(d, u),
           \A u \in Vnode :
                Locks(d, u) /\ u # v => Locks(call[p], u),
           Locks(d, v) => s.lock = p,
           SetOK(d, x), RefOK(d), DirOK(vt, d, x), VpOK(vt, d),
           d.ref = call[p].ref, call[p].ref => d.pn = call[p].pn,
           \A n \in Node : Kills(d, n) <=> Kills(call[p], n),
           call[p].pc \notin Recycling, d.pc # "reclaim",
           s.data # NULL /\ s.use = 0 =>
                vnode[v].use = 0 \/ (d.put = v /\ d.pc = "inactive"),
           vnode' = vt, Sets(call, call', p, d), Sets(cwd, cwd', p, x),
           node' = node, cache' = cache \/ CacheOK(cache'), panic' = "no"
    PROVE  SgfsInv'
<1>1. /\ vnode \in [Vnode -> VnodeType]
      /\ \A u \in Vnode : vnode[u] \in VnodeType /\ VnodeOK(vnode[u])
      /\ \A u \in Vnode : Locks(call[p], u) => vnode[u].lock = p
    BY Known
<1>2. \A u \in Vnode : Fits(p, vnode[u], vt[u])
    <2>1. \A u \in Vnode : Fits(p, vnode[u], vnode[u])
        BY <1>1, Fitting
    <2> QED
        BY <2>1
<1>3. ASSUME NEW u \in Vnode
      PROVE  Follows(vnode[u], vt[u], call[p], d, cwd[p], x, u)
    <2>1. CASE u = v
        BY <2>1
    <2>2. CASE u # v
        <3>1. /\ vnode[u].use \in Nat /\ vnode[u].hold \in Nat
              /\ Dirs(cwd[p], u) \in Nat /\ UseBit(d, u) \in Nat
              /\ Dirs(x, u) \in Nat /\ UseBit(call[p], u) \in Nat
              /\ HoldBit(d, u) \in Nat
            BY <1>1 DEF VnodeType, Dirs, UseBit, HoldBit
        <3>2. /\ Dirs(cwd[p], u) + UseBit(call[p], u) = Dirs(x, u) + UseBit(d, u)
              /\ HoldBit(call[p], u) = HoldBit(d, u) /\ vt[u] = vnode[u]
            BY <2>2
        <3> QED
            BY <3>1, <3>2 DEF Follows
    <2> QED
        BY <2>1, <2>2
<1>4. \A u \in Vnode : Locks(d, u) => vt[u].lock = p
    BY <1>1
<1>5. \A u \in Vnode : /\ vt[u].data = vnode[u].data
                       /\ vt[u].data # NULL => vt[u].mount = vnode[u].mount
    OBVIOUS
<1>6. \A u \in Vnode :
        vnode[u].data # NULL /\ vt[u].use = 0
        => \/ vnode[u].use = 0 /\ call[p].pc \notin Recycling
           \/ d.put = u /\ d.pc \in Recycling
    BY DEF Recycling
<1>7. CallOK(vt, d, x)
    BY DEF CallOK
<1>8. Quiet(p, node, vnode, call[p], cwd[p], vt, d, x)
    BY <1>1, <1>2, <1>3, <1>4, <1>5, <1>6, <1>7 DEF Quiet
<1> QED
    BY <1>8, QuietNext

(* The vnode v becomes s. *)
LEMMA PutVnode ==
    ASSUME NEW vs \in [Vnode -> VnodeType], NEW v \in Vnode,
           NEW s \in VnodeType, NEW vt, vt = [vs EXCEPT ![v] = s]
    PROVE  /\ vt \in [Vnode -> VnodeType] /\ vt[v] = s
           /\ \A u \in Vnode : u # v => vt[u] = vs[u]
    OBVIOUS

(* Who uses or holds a vnode is counted. *)
LEMMA CountsFacts ==
    ASSUME SgfsInv, NEW p \in Proc, NEW v \in Vnode
    PROVE  /\ Uses(call[p], v) => vnode[v].use >= 1
           /\ Holds(call[p], v) => vnode[v].hold >= 1
           /\ cwd[p] = v => vnode[v].use >= 1
<1>1. CountsOK(vnode, call, cwd, v)
    BY DEF SgfsInv, Book
<1>2. /\ Cardinality(CwdOf(cwd, v)) \in Nat
      /\ Cardinality(UsersOf(call, v)) \in Nat
      /\ Cardinality(HoldersOf(call, v)) \in Nat
    BY CountType DEF CwdOf, UsersOf, HoldersOf
<1>3. Uses(call[p], v) => Cardinality(UsersOf(call, v)) # 0
    BY CountNone DEF UsersOf
<1>4. Holds(call[p], v) => Cardinality(HoldersOf(call, v)) # 0
    BY CountNone DEF HoldersOf
<1>5. cwd[p] = v => Cardinality(CwdOf(cwd, v)) # 0
    BY CountNone DEF CwdOf
<1> QED
    BY <1>1, <1>2, <1>3, <1>4, <1>5 DEF CountsOK

(* vget: the vnode is locked, used, and not held any more. *)
LEMMA KeepVget ==
    ASSUME SgfsInv, NEW p \in Proc, Vget(p)
    PROVE  SgfsInv'
<1> DEFINE v == call[p].vp
           s == [vnode[v] EXCEPT !.lock = p, !.use = @ + 1, !.hold = @ - 1]
           d == [call[p] EXCEPT !.pc = AfterAlloc(p)]
           vt == [vnode EXCEPT ![v] = s]
<1>1. /\ vnode \in [Vnode -> VnodeType] /\ call \in [Proc -> CallType]
      /\ cwd \in [Proc -> Vnode \cup {NULL}]
      /\ call[p] \in CallType /\ cwd[p] \in Vnode \cup {NULL}
      /\ \A u \in Vnode : vnode[u] \in VnodeType /\ VnodeOK(vnode[u])
      /\ SetOK(call[p], cwd[p]) /\ RefOK(call[p])
      /\ DirOK(vnode, call[p], cwd[p]) /\ VpOK(vnode, call[p])
      /\ \A u \in Vnode : Locks(call[p], u) => vnode[u].lock = p
      /\ RefsOK(node, call) /\ CacheOK(cache)
    BY Known
<1>2. /\ v \in Vnode /\ call[p].pc = "vget" /\ call[p].vp = v
      /\ vnode[v].lock = NULL /\ vnode[v].st # "free" /\ vnode[v].hold >= 1
      /\ AfterAlloc(p) \in {"release", "relock", "done"}
    <2>1. call[p].pc = "vget" /\ v \in Vnode /\ vnode[v].lock = NULL
        BY <1>1 DEF Vget, At, SetOK, CallType
    <2>2. Holds(call[p], v)
        BY <2>1 DEF Holds
    <2>3. vnode[v].hold >= 1
        BY <2>1, <2>2, CountsFacts
    <2> QED
        BY <1>1, <2>1, <2>3, NullAssumption DEF VpOK, AfterAlloc
<1>3. /\ s \in VnodeType /\ s.st = vnode[v].st
      /\ s.mount = vnode[v].mount /\ s.data = vnode[v].data
      /\ s.use = vnode[v].use + 1 /\ s.hold = vnode[v].hold - 1 /\ s.lock = p
    <2> DEFINE a == vnode[v].use + 1
               b == vnode[v].hold - 1
    <2>1. a \in Nat /\ b \in Nat
        BY <1>1, <1>2 DEF VnodeType
    <2>2. s = [vnode[v] EXCEPT !.lock = p, !.use = a, !.hold = b]
        OBVIOUS
    <2> HIDE DEF s, a, b
    <2>3. /\ s \in VnodeType
          /\ s.st = vnode[v].st
          /\ s.mount = vnode[v].mount
          /\ s.data = vnode[v].data
          /\ s.use = a
          /\ s.hold = b
          /\ s.lock = p
        BY ZenonT(120), <1>1, <1>2, <2>1, <2>2 DEF VnodeType
    <2> QED
        BY <2>3 DEF a, b
<1>4. vnode' = vt
    BY <1>1, <1>2 DEF VnodeType, Vget
<1>5. /\ d \in CallType /\ d.pc = AfterAlloc(p) /\ d.op = call[p].op
      /\ d.name = call[p].name /\ d.dvp = call[p].dvp /\ d.pd = call[p].pd
      /\ d.vp = call[p].vp /\ d.pn = call[p].pn /\ d.ref = call[p].ref
      /\ d.mount = call[p].mount /\ d.old = call[p].old /\ d.put = call[p].put
    BY SMTT(60), <1>1, <1>2 DEF CallType
<1>6. Sets(call, call', p, d) /\ Sets(cwd, cwd', p, cwd[p])
    <2>1. call' = [call EXCEPT ![p] = d]
        BY <1>1 DEF CallType, Goto, Vget
    <2>2. cwd' = [cwd EXCEPT ![p] = cwd[p]]
        BY <1>1 DEF Vget
    <2> HIDE DEF d
    <2> QED
        BY <1>1, <2>1, <2>2, SetsExcept
<1> HIDE DEF s, d
<1>7. /\ vt \in [Vnode -> VnodeType] /\ vt[v] = s
      /\ \A u \in Vnode : u # v => vt[u] = vnode[u]
    BY <1>1, <1>2, <1>3, PutVnode
<1> HIDE DEF vt
<1>8. Fits(p, vnode[v], s)
    BY <1>1, <1>2, <1>3, Fitting
<1>9. \A u \in Vnode :
        /\ UseBit(call[p], u) = 0 /\ UseBit(d, u) = (IF u = v THEN 1 ELSE 0)
        /\ HoldBit(call[p], u) = (IF u = v THEN 1 ELSE 0) /\ HoldBit(d, u) = 0
        /\ Dirs(cwd[p], u) = Dirs(cwd[p], u)
        /\ Dirs(cwd[p], u) = Dirs(cwd[p], u)
    BY <1>1, <1>2, <1>5, NullAssumption
       DEF UseBit, HoldBit, Uses, Holds, SetOK, Dirs, Idle, AfterAlloc
<1>10. Follows(vnode[v], s, call[p], d, cwd[p], cwd[p], v)
    <2>1. /\ vnode[v].use \in Nat /\ vnode[v].hold \in Nat
          /\ \A u \in Vnode : Dirs(cwd[p], u) \in Nat
        BY <1>1, <1>2 DEF VnodeType, Dirs
    <2> QED
        BY <1>2, <1>3, <1>9, <2>1 DEF Follows
<1>11. \A u \in Vnode : u # v =>
        /\ Dirs(cwd[p], u) + UseBit(call[p], u) = Dirs(cwd[p], u) + UseBit(d, u)
        /\ HoldBit(call[p], u) = HoldBit(d, u)
    BY <1>9
<1>12. /\ \A u \in Vnode : Locks(d, u) /\ u # v => Locks(call[p], u)
       /\ Locks(d, v) => s.lock = p
    BY <1>1, <1>2, <1>3, <1>5, NullAssumption
       DEF Locks, DirLocked, SetOK, AfterAlloc
<1>13. SetOK(d, cwd[p]) /\ RefOK(d)
    BY <1>1, <1>2, <1>5, NullAssumption DEF SetOK, RefOK, DirLocked, Locks,
       Walking, Leaving, Putting, AfterAlloc
<1>14. DirOK(vt, d, cwd[p]) /\ VpOK(vt, d)
    BY <1>1, <1>2, <1>3, <1>5, <1>7, NullAssumption
       DEF DirOK, VpOK, SetOK, RefOK, AfterAlloc, VnodeOK, Walking
<1>15. /\ d.ref = call[p].ref
       /\ call[p].ref => d.pn = call[p].pn
       /\ \A n \in Node : Kills(d, n) <=> Kills(call[p], n)
       /\ call[p].pc \notin Recycling /\ d.pc # "reclaim"
    BY <1>1, <1>2, <1>5 DEF Kills, RefOK, Recycling, AfterAlloc, Walking
<1>16. s.data # NULL /\ s.use = 0 =>
            vnode[v].use = 0 \/ (d.put = v /\ d.pc = "inactive")
    BY <1>1, <1>2, <1>3, <1>5 DEF VnodeType
<1>17. UNCHANGED node /\ CacheOK(cache') /\ panic' = "no"
    BY <1>1, <1>2 DEF At, Vget
<1> HIDE DEF v
<1> QED
    BY <1>1, <1>2, <1>3, <1>4, <1>5, <1>6, <1>7, <1>8, <1>10, <1>11, <1>12,
       <1>13, <1>14, <1>15, <1>16, <1>17, TouchNext

(* ".." locks its directory again. *)
LEMMA KeepRelock ==
    ASSUME SgfsInv, NEW p \in Proc, Relock(p)
    PROVE  SgfsInv'
<1> DEFINE v == call[p].dvp
           s == [vnode[v] EXCEPT !.lock = p]
           d == [call[p] EXCEPT !.pc = "done"]
           vt == [vnode EXCEPT ![v] = s]
<1>1. /\ vnode \in [Vnode -> VnodeType] /\ call \in [Proc -> CallType]
      /\ cwd \in [Proc -> Vnode \cup {NULL}]
      /\ call[p] \in CallType /\ cwd[p] \in Vnode \cup {NULL}
      /\ \A u \in Vnode : vnode[u] \in VnodeType /\ VnodeOK(vnode[u])
      /\ SetOK(call[p], cwd[p]) /\ RefOK(call[p])
      /\ DirOK(vnode, call[p], cwd[p]) /\ VpOK(vnode, call[p])
      /\ \A u \in Vnode : Locks(call[p], u) => vnode[u].lock = p
      /\ RefsOK(node, call) /\ CacheOK(cache)
    BY Known
<1>2. /\ v \in Vnode /\ call[p].pc = "relock" /\ call[p].dvp = v
      /\ vnode[v].lock = NULL /\ vnode[v].st # "free" /\ v # call[p].vp
      /\ call[p].op = "dotdot" /\ cwd[p] = v
    <2>1. /\ call[p].pc = "relock" /\ v \in Vnode /\ vnode[v].lock = NULL
          /\ call[p].op = "dotdot" /\ cwd[p] = v
        BY <1>1, NullAssumption DEF Relock, At, SetOK, CallType
    <2>2. call[p].vp = v => Locks(call[p], v)
        BY <2>1 DEF Locks
    <2> QED
        BY <1>1, <2>1, <2>2, NullAssumption DEF DirOK
<1>3. /\ s \in VnodeType /\ s.st = vnode[v].st
      /\ s.mount = vnode[v].mount /\ s.data = vnode[v].data
      /\ s.use = vnode[v].use /\ s.hold = vnode[v].hold /\ s.lock = p
    BY <1>1, <1>2 DEF VnodeType
<1>4. vnode' = vt
    BY <1>1, <1>2 DEF VnodeType, Relock
<1>5. /\ d \in CallType /\ d.pc = "done" /\ d.op = call[p].op
      /\ d.name = call[p].name /\ d.dvp = call[p].dvp /\ d.pd = call[p].pd
      /\ d.vp = call[p].vp /\ d.pn = call[p].pn /\ d.ref = call[p].ref
      /\ d.mount = call[p].mount /\ d.old = call[p].old /\ d.put = call[p].put
    BY <1>1, <1>2 DEF CallType
<1>6. Sets(call, call', p, d) /\ Sets(cwd, cwd', p, cwd[p])
    <2>1. call' = [call EXCEPT ![p] = d]
        BY <1>1 DEF CallType, Goto, Relock
    <2>2. cwd' = [cwd EXCEPT ![p] = cwd[p]]
        BY <1>1 DEF Relock
    <2> HIDE DEF d
    <2> QED
        BY <1>1, <2>1, <2>2, SetsExcept
<1> HIDE DEF s, d
<1>7. /\ vt \in [Vnode -> VnodeType] /\ vt[v] = s
      /\ \A u \in Vnode : u # v => vt[u] = vnode[u]
    BY <1>1, <1>2, <1>3, PutVnode
<1> HIDE DEF vt
<1>8. Fits(p, vnode[v], s)
    BY <1>1, <1>2, <1>3, Fitting
<1>9. \A u \in Vnode :
        /\ UseBit(call[p], u) = (UseBit(call[p], u))
        /\ UseBit(d, u) = (UseBit(call[p], u))
        /\ HoldBit(call[p], u) = 0 /\ HoldBit(d, u) = 0
        /\ Dirs(cwd[p], u) = Dirs(cwd[p], u)
        /\ Dirs(cwd[p], u) = Dirs(cwd[p], u)
    BY <1>1, <1>2, <1>5, NullAssumption
       DEF UseBit, HoldBit, Uses, Holds, SetOK, Dirs, Idle, AfterAlloc
<1>10. Follows(vnode[v], s, call[p], d, cwd[p], cwd[p], v)
    <2>1. /\ vnode[v].use \in Nat /\ vnode[v].hold \in Nat
          /\ \A u \in Vnode : Dirs(cwd[p], u) \in Nat
          /\ UseBit(call[p], v) \in Nat
        BY <1>1, <1>2 DEF VnodeType, Dirs, UseBit
    <2> QED
        BY <1>2, <1>3, <1>9, <2>1 DEF Follows
<1>11. \A u \in Vnode : u # v =>
        /\ Dirs(cwd[p], u) + UseBit(call[p], u) = Dirs(cwd[p], u) + UseBit(d, u)
        /\ HoldBit(call[p], u) = HoldBit(d, u)
    BY <1>9
<1>12. /\ \A u \in Vnode : Locks(d, u) /\ u # v => Locks(call[p], u)
       /\ Locks(d, v) => s.lock = p
    BY <1>1, <1>2, <1>3, <1>5, NullAssumption
       DEF Locks, DirLocked, SetOK, AfterAlloc
<1>13. SetOK(d, cwd[p]) /\ RefOK(d)
    <2>1. SetOK(d, cwd[p])
        BY <1>1, <1>2, <1>5, NullAssumption
           DEF SetOK, DirLocked, Locks, Walking, Leaving, Putting, AfterAlloc
    <2>2. RefOK(d)
        BY <1>1, <1>2, <1>5, NullAssumption
           DEF SetOK, RefOK, Walking, Leaving, AfterAlloc
    <2> QED
        BY <2>1, <2>2
<1>14. DirOK(vt, d, cwd[p]) /\ VpOK(vt, d)
    <2>1. /\ d.vp \in Vnode \cup {NULL} /\ d.put \in Vnode \cup {NULL}
          /\ call[p].dvp \in Vnode \cup {NULL}
        BY <1>1, <1>5 DEF CallType
    <2>2. \A u \in Vnode : /\ vt[u].st = vnode[u].st
                          /\ vt[u].data = vnode[u].data
                          /\ vt[u].mount = vnode[u].mount
        BY <1>3, <1>7
    <2>3. DirOK(vt, d, cwd[p])
        BY SMTT(60), <1>1, <1>2, <1>3, <1>5, <1>7, <2>1, <2>2, NullAssumption
           DEF DirOK, SetOK, AfterAlloc
    <2>4. VpOK(vt, d)
        BY <1>1, <1>2, <1>3, <1>5, <1>7, <2>1, <2>2, NullAssumption
           DEF VpOK, SetOK, RefOK, AfterAlloc, VnodeOK, Walking
    <2> QED
        BY <2>3, <2>4
<1>15. /\ d.ref = call[p].ref
       /\ call[p].ref => d.pn = call[p].pn
       /\ \A n \in Node : Kills(d, n) <=> Kills(call[p], n)
       /\ call[p].pc \notin Recycling /\ d.pc # "reclaim"
    BY <1>1, <1>2, <1>5 DEF Kills, RefOK, Recycling, AfterAlloc, Walking
<1>16. s.data # NULL /\ s.use = 0 =>
            vnode[v].use = 0 \/ (d.put = v /\ d.pc = "inactive")
    BY <1>1, <1>2, <1>3, <1>5 DEF VnodeType
<1>17. UNCHANGED node /\ CacheOK(cache') /\ panic' = "no"
    BY <1>1, <1>2 DEF At, Relock
<1> HIDE DEF v
<1> QED
    BY SMTT(60), <1>1, <1>2, <1>3, <1>4, <1>5, <1>6, <1>7, <1>8, <1>10, <1>11,
       <1>12,
       <1>13, <1>14, <1>15, <1>16, <1>17, TouchNext

(* ".." unlocks its directory. *)
LEMMA KeepUnlock ==
    ASSUME SgfsInv, NEW p \in Proc, DotDot(p), Pd(p) # Root
    PROVE  SgfsInv'
<1> DEFINE v == call[p].dvp
           s == [vnode[v] EXCEPT !.lock = NULL]
           d == [call[p] EXCEPT !.pc = "parent"]
           vt == [vnode EXCEPT ![v] = s]
<1>1. /\ vnode \in [Vnode -> VnodeType] /\ call \in [Proc -> CallType]
      /\ cwd \in [Proc -> Vnode \cup {NULL}]
      /\ call[p] \in CallType /\ cwd[p] \in Vnode \cup {NULL}
      /\ \A u \in Vnode : vnode[u] \in VnodeType /\ VnodeOK(vnode[u])
      /\ SetOK(call[p], cwd[p]) /\ RefOK(call[p])
      /\ DirOK(vnode, call[p], cwd[p]) /\ VpOK(vnode, call[p])
      /\ \A u \in Vnode : Locks(call[p], u) => vnode[u].lock = p
      /\ RefsOK(node, call) /\ CacheOK(cache)
    BY Known
<1>2. /\ v \in Vnode /\ call[p].pc = "dotdot" /\ call[p].dvp = v
      /\ vnode[v].lock = p /\ vnode[v].st # "free" /\ call[p].vp = NULL
      /\ call[p].op = "dotdot" /\ cwd[p] = v /\ panic = "no"
    <2>1. /\ call[p].pc = "dotdot" /\ v \in Vnode /\ panic = "no"
          /\ call[p].op = "dotdot" /\ cwd[p] = v /\ call[p].vp = NULL
        BY <1>1, NullAssumption DEF DotDot, At, SetOK, CallType
    <2>2. Locks(call[p], v)
        BY <2>1, NullAssumption DEF Locks, DirLocked
    <2> QED
        BY <1>1, <2>1, <2>2, NullAssumption DEF DirOK
<1>3. /\ s \in VnodeType /\ s.st = vnode[v].st
      /\ s.mount = vnode[v].mount /\ s.data = vnode[v].data
      /\ s.use = vnode[v].use /\ s.hold = vnode[v].hold /\ s.lock = NULL
    BY <1>1, <1>2 DEF VnodeType
<1>4. vnode' = vt
    BY <1>1, <1>2 DEF VnodeType, DotDot
<1>5. /\ d \in CallType /\ d.pc = "parent" /\ d.op = call[p].op
      /\ d.name = call[p].name /\ d.dvp = call[p].dvp /\ d.pd = call[p].pd
      /\ d.vp = call[p].vp /\ d.pn = call[p].pn /\ d.ref = call[p].ref
      /\ d.mount = call[p].mount /\ d.old = call[p].old /\ d.put = call[p].put
    BY SMTT(60), <1>1, <1>2 DEF CallType
<1>6. Sets(call, call', p, d) /\ Sets(cwd, cwd', p, cwd[p])
    <2>1. call' = [call EXCEPT ![p] = d]
        BY <1>1 DEF CallType, Goto, DotDot
    <2>2. cwd' = [cwd EXCEPT ![p] = cwd[p]]
        BY <1>1 DEF DotDot
    <2> HIDE DEF d
    <2> QED
        BY <1>1, <2>1, <2>2, SetsExcept
<1> HIDE DEF s, d
<1>7. /\ vt \in [Vnode -> VnodeType] /\ vt[v] = s
      /\ \A u \in Vnode : u # v => vt[u] = vnode[u]
    BY <1>1, <1>2, <1>3, PutVnode
<1> HIDE DEF vt
<1>8. Fits(p, vnode[v], s)
    BY <1>1, <1>2, <1>3, Fitting
<1>9. \A u \in Vnode :
        /\ UseBit(call[p], u) = 0 /\ UseBit(d, u) = 0
        /\ HoldBit(call[p], u) = 0 /\ HoldBit(d, u) = 0
        /\ Dirs(cwd[p], u) = Dirs(cwd[p], u)
        /\ Dirs(cwd[p], u) = Dirs(cwd[p], u)
    BY <1>1, <1>2, <1>5, NullAssumption
       DEF UseBit, HoldBit, Uses, Holds, SetOK, Dirs, Idle, AfterAlloc
<1>10. Follows(vnode[v], s, call[p], d, cwd[p], cwd[p], v)
    <2>1. /\ vnode[v].use \in Nat /\ vnode[v].hold \in Nat
          /\ \A u \in Vnode : Dirs(cwd[p], u) \in Nat
        BY <1>1, <1>2 DEF VnodeType, Dirs
    <2> QED
        BY <1>2, <1>3, <1>9, <2>1 DEF Follows
<1>11. \A u \in Vnode : u # v =>
        /\ Dirs(cwd[p], u) + UseBit(call[p], u) = Dirs(cwd[p], u) + UseBit(d, u)
        /\ HoldBit(call[p], u) = HoldBit(d, u)
    BY <1>9
<1>12. /\ \A u \in Vnode : Locks(d, u) /\ u # v => Locks(call[p], u)
       /\ Locks(d, v) => s.lock = p
    BY <1>1, <1>2, <1>3, <1>5, NullAssumption
       DEF Locks, DirLocked, SetOK, AfterAlloc
<1>13. SetOK(d, cwd[p]) /\ RefOK(d)
    <2>1. SetOK(d, cwd[p])
        BY <1>1, <1>2, <1>5, NullAssumption
           DEF SetOK, DirLocked, Locks, Walking, Leaving, Putting, AfterAlloc
    <2>2. RefOK(d)
        BY <1>1, <1>2, <1>5, NullAssumption
           DEF SetOK, RefOK, Walking, Leaving, AfterAlloc
    <2> QED
        BY <2>1, <2>2
<1>14. DirOK(vt, d, cwd[p]) /\ VpOK(vt, d)
    <2>1. /\ d.vp \in Vnode \cup {NULL} /\ d.put \in Vnode \cup {NULL}
          /\ call[p].dvp \in Vnode \cup {NULL}
        BY <1>1, <1>5 DEF CallType
    <2>2. \A u \in Vnode : /\ vt[u].st = vnode[u].st
                          /\ vt[u].data = vnode[u].data
                          /\ vt[u].mount = vnode[u].mount
        BY <1>3, <1>7
    <2>3. DirOK(vt, d, cwd[p])
        BY SMTT(60), <1>1, <1>2, <1>3, <1>5, <1>7, <2>1, <2>2, NullAssumption
           DEF DirOK, SetOK, AfterAlloc
    <2>4. VpOK(vt, d)
        BY <1>1, <1>2, <1>3, <1>5, <1>7, <2>1, <2>2, NullAssumption
           DEF VpOK, SetOK, RefOK, AfterAlloc, VnodeOK, Walking
    <2> QED
        BY <2>3, <2>4
<1>15. /\ d.ref = call[p].ref
       /\ call[p].ref => d.pn = call[p].pn
       /\ \A n \in Node : Kills(d, n) <=> Kills(call[p], n)
       /\ call[p].pc \notin Recycling /\ d.pc # "reclaim"
    BY <1>1, <1>2, <1>5 DEF Kills, RefOK, Recycling, AfterAlloc, Walking
<1>16. s.data # NULL /\ s.use = 0 =>
            vnode[v].use = 0 \/ (d.put = v /\ d.pc = "inactive")
    BY <1>1, <1>2, <1>3, <1>5 DEF VnodeType
<1>17. UNCHANGED node /\ CacheOK(cache') /\ panic' = "no"
    BY <1>1, <1>2 DEF At, DotDot
<1> HIDE DEF v
<1> QED
    BY ZenonT(60), <1>1, <1>2, <1>3, <1>4, <1>5, <1>6, <1>7, <1>8, <1>10,
       <1>11, <1>12,
       <1>13, <1>14, <1>15, <1>16, <1>17, TouchNext

(* The name cache answers: the vnode is locked and used. *)
LEMMA KeepCacheHit ==
    ASSUME SgfsInv, NEW p \in Proc, CacheHit(p)
    PROVE  SgfsInv'
<1>0. PICK v \in Vnode :
        /\ vnode[v].st = "live" /\ vnode[v].lock = NULL
        /\ vnode' = [vnode EXCEPT ![v].lock = p, ![v].use = @ + 1]
        /\ call' = [call EXCEPT ![p].pc = "done", ![p].vp = v]
    BY DEF CacheHit
<1> DEFINE s == [vnode[v] EXCEPT !.lock = p, !.use = @ + 1]
           d == [call[p] EXCEPT !.pc = "done", !.vp = v]
           vt == [vnode EXCEPT ![v] = s]
<1>1. /\ vnode \in [Vnode -> VnodeType] /\ call \in [Proc -> CallType]
      /\ cwd \in [Proc -> Vnode \cup {NULL}]
      /\ call[p] \in CallType /\ cwd[p] \in Vnode \cup {NULL}
      /\ \A u \in Vnode : vnode[u] \in VnodeType /\ VnodeOK(vnode[u])
      /\ SetOK(call[p], cwd[p]) /\ RefOK(call[p])
      /\ DirOK(vnode, call[p], cwd[p]) /\ VpOK(vnode, call[p])
      /\ \A u \in Vnode : Locks(call[p], u) => vnode[u].lock = p
      /\ RefsOK(node, call) /\ CacheOK(cache)
    BY Known
<1>2. /\ v \in Vnode /\ call[p].pc = "lookup" /\ call[p].op = "walk"
      /\ vnode[v].lock = NULL /\ vnode[v].st = "live" /\ v # call[p].dvp
      /\ call[p].vp = NULL /\ call[p].put = NULL
    <2>1. call[p].pc = "lookup" /\ call[p].op = "walk"
        BY DEF CacheHit, At
    <2>2. call[p].dvp = v => Locks(call[p], v)
        BY <1>1, <2>1, NullAssumption DEF Locks, DirLocked, SetOK
    <2> QED
        BY <1>0, <1>1, <2>1, <2>2, NullAssumption DEF SetOK, Putting
<1>3. /\ s \in VnodeType /\ s.st = vnode[v].st
      /\ s.mount = vnode[v].mount /\ s.data = vnode[v].data
      /\ s.use = vnode[v].use + 1 /\ s.hold = vnode[v].hold /\ s.lock = p
    <2> DEFINE a == vnode[v].use + 1
    <2>1. a \in Nat
        BY <1>1, <1>2 DEF VnodeType
    <2>2. s = [vnode[v] EXCEPT !.lock = p, !.use = a]
        OBVIOUS
    <2> HIDE DEF s, a
    <2>3. /\ s \in VnodeType
          /\ s.st = vnode[v].st
          /\ s.mount = vnode[v].mount
          /\ s.data = vnode[v].data
          /\ s.use = a
          /\ s.hold = vnode[v].hold
          /\ s.lock = p
        BY ZenonT(60), <1>1, <1>2, <2>1, <2>2 DEF VnodeType
    <2> QED
        BY <2>3 DEF a
<1>4. vnode' = vt
    BY <1>0, <1>1, <1>2 DEF VnodeType
<1>5. /\ d \in CallType /\ d.pc = "done" /\ d.op = call[p].op
      /\ d.name = call[p].name /\ d.dvp = call[p].dvp /\ d.pd = call[p].pd
      /\ d.vp = v /\ d.pn = call[p].pn /\ d.ref = call[p].ref
      /\ d.mount = call[p].mount /\ d.old = call[p].old /\ d.put = call[p].put
    BY ZenonT(120), <1>1, <1>2 DEF CallType
<1>6. Sets(call, call', p, d) /\ Sets(cwd, cwd', p, cwd[p])
    <2>1. call' = [call EXCEPT ![p] = d]
        BY ZenonT(60), <1>0, <1>1 DEF CallType
    <2>2. cwd' = [cwd EXCEPT ![p] = cwd[p]]
        BY <1>1 DEF CacheHit
    <2> HIDE DEF d
    <2> QED
        BY <1>1, <2>1, <2>2, SetsExcept
<1> HIDE DEF s, d
<1>7. /\ vt \in [Vnode -> VnodeType] /\ vt[v] = s
      /\ \A u \in Vnode : u # v => vt[u] = vnode[u]
    BY <1>1, <1>2, <1>3, PutVnode
<1> HIDE DEF vt
<1>8. Fits(p, vnode[v], s)
    BY <1>1, <1>2, <1>3, Fitting
<1>9. \A u \in Vnode :
        /\ UseBit(call[p], u) = 0 /\ UseBit(d, u) = (IF u = v THEN 1 ELSE 0)
        /\ HoldBit(call[p], u) = 0 /\ HoldBit(d, u) = 0
    BY <1>1, <1>2, <1>5, NullAssumption
       DEF UseBit, HoldBit, Uses, Holds, SetOK, Dirs, Idle, AfterAlloc
<1>10. Follows(vnode[v], s, call[p], d, cwd[p], cwd[p], v)
    <2>1. /\ vnode[v].use \in Nat /\ vnode[v].hold \in Nat
          /\ \A u \in Vnode : Dirs(cwd[p], u) \in Nat
        BY <1>1, <1>2 DEF VnodeType, Dirs
    <2> QED
        BY <1>2, <1>3, <1>9, <2>1 DEF Follows
<1>11. \A u \in Vnode : u # v =>
        /\ Dirs(cwd[p], u) + UseBit(call[p], u) = Dirs(cwd[p], u) + UseBit(d, u)
        /\ HoldBit(call[p], u) = HoldBit(d, u)
    BY <1>9
<1>12. /\ \A u \in Vnode : Locks(d, u) /\ u # v => Locks(call[p], u)
       /\ Locks(d, v) => s.lock = p
    BY <1>1, <1>2, <1>3, <1>5, NullAssumption
       DEF Locks, DirLocked, SetOK, AfterAlloc
<1>13. SetOK(d, cwd[p]) /\ RefOK(d)
    <2>1. SetOK(d, cwd[p])
        BY <1>1, <1>2, <1>5, NullAssumption
           DEF SetOK, DirLocked, Locks, Walking, Leaving, Putting, AfterAlloc
    <2>2. RefOK(d)
        BY <1>1, <1>2, <1>5, NullAssumption
           DEF SetOK, RefOK, Walking, Leaving, AfterAlloc
    <2> QED
        BY <2>1, <2>2
<1>14. DirOK(vt, d, cwd[p]) /\ VpOK(vt, d)
    <2>1. /\ d.vp \in Vnode \cup {NULL} /\ d.put \in Vnode \cup {NULL}
          /\ call[p].dvp \in Vnode \cup {NULL}
        BY <1>1, <1>5 DEF CallType
    <2>2. \A u \in Vnode : /\ vt[u].st = vnode[u].st
                          /\ vt[u].data = vnode[u].data
                          /\ vt[u].mount = vnode[u].mount
        BY <1>3, <1>7
    <2>3. DirOK(vt, d, cwd[p])
        BY <1>1, <1>2, <1>3, <1>5, <1>7, <2>1, <2>2, NullAssumption
           DEF DirOK, SetOK, AfterAlloc
    <2>4. VpOK(vt, d)
        BY <1>1, <1>2, <1>3, <1>5, <1>7, <2>1, <2>2, NullAssumption
           DEF VpOK, SetOK, RefOK, AfterAlloc, VnodeOK, Walking
    <2> QED
        BY <2>3, <2>4
<1>15. /\ d.ref = call[p].ref
       /\ call[p].ref => d.pn = call[p].pn
       /\ \A n \in Node : Kills(d, n) <=> Kills(call[p], n)
       /\ call[p].pc \notin Recycling /\ d.pc # "reclaim"
    BY <1>1, <1>2, <1>5 DEF Kills, RefOK, Recycling, AfterAlloc, Walking
<1>16. s.data # NULL /\ s.use = 0 =>
            vnode[v].use = 0 \/ (d.put = v /\ d.pc = "inactive")
    BY <1>1, <1>2, <1>3, <1>5 DEF VnodeType
<1>17. UNCHANGED node /\ CacheOK(cache') /\ panic' = "no"
    BY <1>1, <1>2 DEF At, CacheHit
<1> QED
    BY SMTT(60), <1>1, <1>2, <1>3, <1>4, <1>5, <1>6, <1>7, <1>8, <1>10, <1>11,
       <1>12,
       <1>13, <1>14, <1>15, <1>16, <1>17, TouchNext

(* sgfs_allocv finds a vnode and holds it. *)
LEMMA KeepHold ==
    ASSUME SgfsInv, NEW p \in Proc, AllocFind(p), Live(call[p].pn),
           VnodesOn(call[p].pn, call[p].mount) # {}
    PROVE  SgfsInv'
<1>0. PICK v \in VnodesOn(call[p].pn, call[p].mount) :
        /\ vnode' = [vnode EXCEPT ![v].hold = @ + 1]
        /\ call' = [call EXCEPT ![p].pc = "vget", ![p].vp = v]
        /\ UNCHANGED <<node, number, cwd, cache, panic>>
    BY DEF AllocFind
<1> DEFINE s == [vnode[v] EXCEPT !.hold = @ + 1]
           d == [call[p] EXCEPT !.pc = "vget", !.vp = v]
           vt == [vnode EXCEPT ![v] = s]
<1>1. /\ vnode \in [Vnode -> VnodeType] /\ call \in [Proc -> CallType]
      /\ cwd \in [Proc -> Vnode \cup {NULL}]
      /\ call[p] \in CallType /\ cwd[p] \in Vnode \cup {NULL}
      /\ \A u \in Vnode : vnode[u] \in VnodeType /\ VnodeOK(vnode[u])
      /\ SetOK(call[p], cwd[p]) /\ RefOK(call[p])
      /\ DirOK(vnode, call[p], cwd[p]) /\ VpOK(vnode, call[p])
      /\ \A u \in Vnode : Locks(call[p], u) => vnode[u].lock = p
      /\ RefsOK(node, call) /\ CacheOK(cache)
    BY Known
<1>2. /\ v \in Vnode /\ call[p].pc = "find" /\ panic = "no"
      /\ vnode[v].st = "live" /\ vnode[v].data = call[p].pn
      /\ call[p].vp = NULL /\ call[p].put = NULL /\ call[p].pn # NULL
    <2>1. call[p].pc = "find" /\ panic = "no"
        BY DEF AllocFind, At
    <2>2. v \in Vnode /\ vnode[v].data = call[p].pn
        BY DEF VnodesOn, VnodesOf
    <2> QED
        BY <1>1, <2>1, <2>2 DEF SetOK, Putting, Walking, VnodeOK
<1>3. /\ s \in VnodeType /\ s.st = vnode[v].st
      /\ s.mount = vnode[v].mount /\ s.data = vnode[v].data
      /\ s.use = vnode[v].use /\ s.hold = vnode[v].hold + 1
      /\ s.lock = vnode[v].lock
    <2> DEFINE b == vnode[v].hold + 1
    <2>1. b \in Nat
        BY <1>1, <1>2 DEF VnodeType
    <2>2. s = [vnode[v] EXCEPT !.hold = b]
        OBVIOUS
    <2> HIDE DEF s, b
    <2>3. /\ s \in VnodeType
          /\ s.st = vnode[v].st
          /\ s.mount = vnode[v].mount
          /\ s.data = vnode[v].data
          /\ s.use = vnode[v].use
          /\ s.hold = b
          /\ s.lock = vnode[v].lock
        BY <1>1, <1>2, <2>1, <2>2 DEF VnodeType
    <2> QED
        BY <2>3 DEF b
<1>4. vnode' = vt
    BY <1>0, <1>1, <1>2 DEF VnodeType
<1>5. /\ d \in CallType /\ d.pc = "vget" /\ d.op = call[p].op
      /\ d.name = call[p].name /\ d.dvp = call[p].dvp /\ d.pd = call[p].pd
      /\ d.vp = v /\ d.pn = call[p].pn /\ d.ref = call[p].ref
      /\ d.mount = call[p].mount /\ d.old = call[p].old /\ d.put = call[p].put
    BY ZenonT(120), <1>1, <1>2 DEF CallType
<1>6. Sets(call, call', p, d) /\ Sets(cwd, cwd', p, cwd[p])
    <2>1. call' = [call EXCEPT ![p] = d]
        BY <1>0, <1>1 DEF CallType
    <2>2. cwd' = [cwd EXCEPT ![p] = cwd[p]]
        BY <1>0, <1>1
    <2> HIDE DEF d
    <2> QED
        BY <1>1, <2>1, <2>2, SetsExcept
<1> HIDE DEF s, d
<1>7. /\ vt \in [Vnode -> VnodeType] /\ vt[v] = s
      /\ \A u \in Vnode : u # v => vt[u] = vnode[u]
    BY <1>1, <1>2, <1>3, PutVnode
<1> HIDE DEF vt
<1>8. Fits(p, vnode[v], s)
    BY <1>1, <1>2, <1>3, Fitting
<1>9. \A u \in Vnode :
        /\ UseBit(call[p], u) = 0 /\ UseBit(d, u) = 0
        /\ HoldBit(call[p], u) = 0 /\ HoldBit(d, u) = (IF u = v THEN 1 ELSE 0)
    BY <1>1, <1>2, <1>5, NullAssumption
       DEF UseBit, HoldBit, Uses, Holds, SetOK, Dirs, Idle, AfterAlloc
<1>10. Follows(vnode[v], s, call[p], d, cwd[p], cwd[p], v)
    <2>1. /\ vnode[v].use \in Nat /\ vnode[v].hold \in Nat
          /\ \A u \in Vnode : Dirs(cwd[p], u) \in Nat
        BY <1>1, <1>2 DEF VnodeType, Dirs
    <2> QED
        BY <1>2, <1>3, <1>9, <2>1 DEF Follows
<1>11. \A u \in Vnode : u # v =>
        /\ Dirs(cwd[p], u) + UseBit(call[p], u) = Dirs(cwd[p], u) + UseBit(d, u)
        /\ HoldBit(call[p], u) = HoldBit(d, u)
    BY <1>9
<1>12. /\ \A u \in Vnode : Locks(d, u) /\ u # v => Locks(call[p], u)
       /\ Locks(d, v) => s.lock = p
    BY <1>1, <1>2, <1>3, <1>5, NullAssumption
       DEF Locks, DirLocked, SetOK, AfterAlloc
<1>13. SetOK(d, cwd[p]) /\ RefOK(d)
    <2>1. SetOK(d, cwd[p])
        BY <1>1, <1>2, <1>5, NullAssumption
           DEF SetOK, DirLocked, Locks, Walking, Leaving, Putting, AfterAlloc
    <2>2. RefOK(d)
        BY <1>1, <1>2, <1>5, NullAssumption
           DEF SetOK, RefOK, Walking, Leaving, AfterAlloc
    <2> QED
        BY <2>1, <2>2
<1>14. DirOK(vt, d, cwd[p]) /\ VpOK(vt, d)
    <2>1. /\ d.vp \in Vnode \cup {NULL} /\ d.put \in Vnode \cup {NULL}
          /\ call[p].dvp \in Vnode \cup {NULL}
        BY <1>1, <1>5 DEF CallType
    <2>2. \A u \in Vnode : /\ vt[u].st = vnode[u].st
                          /\ vt[u].data = vnode[u].data
                          /\ vt[u].mount = vnode[u].mount
        BY <1>3, <1>7
    <2>3. DirOK(vt, d, cwd[p])
        BY <1>1, <1>2, <1>3, <1>5, <1>7, <2>1, <2>2, NullAssumption
           DEF DirOK, SetOK, AfterAlloc
    <2>4. VpOK(vt, d)
        BY <1>1, <1>2, <1>3, <1>5, <1>7, <2>1, <2>2, NullAssumption
           DEF VpOK, SetOK, RefOK, AfterAlloc, VnodeOK, Walking
    <2> QED
        BY <2>3, <2>4
<1>15. /\ d.ref = call[p].ref
       /\ call[p].ref => d.pn = call[p].pn
       /\ \A n \in Node : Kills(d, n) <=> Kills(call[p], n)
       /\ call[p].pc \notin Recycling /\ d.pc # "reclaim"
    BY <1>1, <1>2, <1>5 DEF Kills, RefOK, Recycling, AfterAlloc, Walking
<1>16. s.data # NULL /\ s.use = 0 =>
            vnode[v].use = 0 \/ (d.put = v /\ d.pc = "inactive")
    BY <1>1, <1>2, <1>3, <1>5 DEF VnodeType
<1>17. UNCHANGED node /\ CacheOK(cache') /\ panic' = "no"
    BY <1>0, <1>1, <1>2
<1> QED
    BY SMTT(60), <1>1, <1>2, <1>3, <1>4, <1>5, <1>6, <1>7, <1>8, <1>10, <1>11,
       <1>12,
       <1>13, <1>14, <1>15, <1>16, <1>17, TouchNext

(* A thread gives its directory up. *)
LEMMA KeepLeave ==
    ASSUME SgfsInv, NEW p \in Proc, Leave(p)
    PROVE  SgfsInv'
<1> DEFINE v == cwd[p]
           s == [vnode[v] EXCEPT !.lock = p]
           d == [Idle EXCEPT !.pc = "put", !.op = "leave", !.put = v]
           vt == [vnode EXCEPT ![v] = s]
<1>1. /\ vnode \in [Vnode -> VnodeType] /\ call \in [Proc -> CallType]
      /\ cwd \in [Proc -> Vnode \cup {NULL}]
      /\ call[p] \in CallType /\ cwd[p] \in Vnode \cup {NULL}
      /\ \A u \in Vnode : vnode[u] \in VnodeType /\ VnodeOK(vnode[u])
      /\ SetOK(call[p], cwd[p]) /\ RefOK(call[p])
      /\ DirOK(vnode, call[p], cwd[p]) /\ VpOK(vnode, call[p])
      /\ \A u \in Vnode : Locks(call[p], u) => vnode[u].lock = p
      /\ RefsOK(node, call) /\ CacheOK(cache)
    BY Known
<1>2. /\ v \in Vnode /\ call[p] = Idle /\ cwd[p] = v
      /\ vnode[v].lock = NULL /\ vnode[v].st \in {"live", "doomed"}
    <2>1. call[p] = Idle /\ v \in Vnode /\ vnode[v].lock = NULL
        BY <1>1 DEF Leave, At, SetOK
    <2> QED
        BY <1>1, <2>1, NullAssumption DEF DirOK
<1>3. /\ s \in VnodeType /\ s.st = vnode[v].st
      /\ s.mount = vnode[v].mount /\ s.data = vnode[v].data
      /\ s.use = vnode[v].use /\ s.hold = vnode[v].hold /\ s.lock = p
    BY <1>1, <1>2 DEF VnodeType
<1>4. vnode' = vt
    BY <1>1, <1>2 DEF VnodeType, Leave
<1>5. /\ d \in CallType /\ d.pc = "put" /\ d.op = "leave" /\ d.put = v
      /\ d.name = NULL /\ d.dvp = NULL /\ d.vp = NULL /\ d.pn = NULL
      /\ d.ref = FALSE /\ call[p].ref = FALSE /\ call[p].pc = "idle"
      /\ call[p].pn = NULL /\ call[p].vp = NULL /\ call[p].put = NULL
    <2>1. /\ d \in CallType /\ d.pc = "put" /\ d.op = "leave" /\ d.put = v
          /\ d.name = NULL /\ d.dvp = NULL /\ d.vp = NULL /\ d.pn = NULL
          /\ d.ref = FALSE
        BY ZenonT(120), <1>2 DEF CallType, Idle
    <2>2. /\ call[p].ref = FALSE /\ call[p].pc = "idle"
          /\ call[p].pn = NULL /\ call[p].vp = NULL /\ call[p].put = NULL
        BY <1>2 DEF Idle
    <2> QED
        BY <2>1, <2>2
<1>6. Sets(call, call', p, d) /\ Sets(cwd, cwd', p, NULL)
    <2>1. call' = [call EXCEPT ![p] = d]
        BY <1>1 DEF CallType, Goto, Leave
    <2>2. cwd' = [cwd EXCEPT ![p] = NULL]
        BY <1>1 DEF Leave
    <2> HIDE DEF d
    <2> QED
        BY <1>1, <2>1, <2>2, SetsExcept
<1> HIDE DEF s, d
<1>7. /\ vt \in [Vnode -> VnodeType] /\ vt[v] = s
      /\ \A u \in Vnode : u # v => vt[u] = vnode[u]
    BY <1>1, <1>2, <1>3, PutVnode
<1> HIDE DEF vt
<1>8. Fits(p, vnode[v], s)
    BY <1>1, <1>2, <1>3, Fitting
<1>9. \A u \in Vnode :
        /\ UseBit(call[p], u) = 0 /\ UseBit(d, u) = (IF u = v THEN 1 ELSE 0)
        /\ HoldBit(call[p], u) = 0 /\ HoldBit(d, u) = 0
        /\ Dirs(cwd[p], u) = (IF u = v THEN 1 ELSE 0) /\ Dirs(NULL, u) = 0
    BY <1>1, <1>2, <1>5, NullAssumption
       DEF UseBit, HoldBit, Uses, Holds, SetOK, Dirs, Idle, AfterAlloc
<1>10. Follows(vnode[v], s, call[p], d, cwd[p], NULL, v)
    <2>1. /\ vnode[v].use \in Nat /\ vnode[v].hold \in Nat
          /\ \A u \in Vnode : Dirs(cwd[p], u) \in Nat
        BY <1>1, <1>2 DEF VnodeType, Dirs
    <2> QED
        BY <1>2, <1>3, <1>9, <2>1 DEF Follows
<1>11. \A u \in Vnode : u # v =>
        /\ Dirs(cwd[p], u) + UseBit(call[p], u) = Dirs(NULL, u) + UseBit(d, u)
        /\ HoldBit(call[p], u) = HoldBit(d, u)
    BY <1>9
<1>12. /\ \A u \in Vnode : Locks(d, u) /\ u # v => Locks(call[p], u)
       /\ Locks(d, v) => s.lock = p
    BY <1>1, <1>2, <1>3, <1>5, NullAssumption
       DEF Locks, DirLocked, SetOK, AfterAlloc
<1>13. SetOK(d, NULL) /\ RefOK(d)
    <2>1. SetOK(d, NULL)
        BY <1>1, <1>2, <1>5, NullAssumption
           DEF SetOK, DirLocked, Locks, Walking, Leaving, Putting, AfterAlloc
    <2>2. RefOK(d)
        BY <1>1, <1>2, <1>5, NullAssumption
           DEF SetOK, RefOK, Walking, Leaving, AfterAlloc
    <2> QED
        BY <2>1, <2>2
<1>14. DirOK(vt, d, NULL) /\ VpOK(vt, d)
    <2>1. /\ d.vp \in Vnode \cup {NULL} /\ d.put \in Vnode \cup {NULL}
          /\ call[p].dvp \in Vnode \cup {NULL}
        BY <1>1, <1>5 DEF CallType
    <2>2. \A u \in Vnode : /\ vt[u].st = vnode[u].st
                          /\ vt[u].data = vnode[u].data
                          /\ vt[u].mount = vnode[u].mount
        BY <1>3, <1>7
    <2>3. DirOK(vt, d, NULL)
        BY SMTT(60), <1>1, <1>2, <1>3, <1>5, <1>7, <2>1, <2>2, NullAssumption
           DEF DirOK, SetOK, AfterAlloc
    <2>4. VpOK(vt, d)
        BY <1>1, <1>2, <1>3, <1>5, <1>7, <2>1, <2>2, NullAssumption
           DEF VpOK, SetOK, RefOK, AfterAlloc, VnodeOK, Walking
    <2> QED
        BY <2>3, <2>4
<1>15. /\ d.ref = call[p].ref
       /\ call[p].ref => d.pn = call[p].pn
       /\ \A n \in Node : Kills(d, n) <=> Kills(call[p], n)
       /\ call[p].pc \notin Recycling /\ d.pc # "reclaim"
    BY <1>1, <1>2, <1>5 DEF Kills, RefOK, Recycling, AfterAlloc, Walking
<1>16. s.data # NULL /\ s.use = 0 =>
            vnode[v].use = 0 \/ (d.put = v /\ d.pc = "inactive")
    BY <1>1, <1>2, <1>3, <1>5 DEF VnodeType
<1>17. UNCHANGED node /\ CacheOK(cache') /\ panic' = "no"
    BY <1>1, <1>2 DEF At, Leave
<1> HIDE DEF v
<1> QED
    BY SMTT(60), <1>1, <1>2, <1>3, <1>4, <1>5, <1>6, <1>7, <1>8, <1>10,
        <1>11, <1>12,
       <1>13, <1>14, <1>15, <1>16, <1>17, TouchNext

(* getnewvnode: a new vnode is locked, used, and on no list yet. *)
LEMMA KeepNewVnode ==
    ASSUME SgfsInv, NEW p \in Proc, AllocNew(p), vnode' # vnode
    PROVE  SgfsInv'
<1>0. PICK v \in FreeVnodes :
        /\ vnode' = [vnode EXCEPT ![v] =
                        [FreeVnode EXCEPT !.st = "new", !.use = 1, !.lock = p,
                                          !.mount = call[p].mount]]
        /\ call' = [call EXCEPT ![p].pc = "insert", ![p].vp = v]
    BY DEF AllocNew
<1> DEFINE s == [FreeVnode EXCEPT !.st = "new", !.use = 1, !.lock = p,
                              !.mount = call[p].mount]
           d == [call[p] EXCEPT !.pc = "insert", !.vp = v]
           vt == [vnode EXCEPT ![v] = s]
<1>1. /\ vnode \in [Vnode -> VnodeType] /\ call \in [Proc -> CallType]
      /\ cwd \in [Proc -> Vnode \cup {NULL}]
      /\ call[p] \in CallType /\ cwd[p] \in Vnode \cup {NULL}
      /\ \A u \in Vnode : vnode[u] \in VnodeType /\ VnodeOK(vnode[u])
      /\ SetOK(call[p], cwd[p]) /\ RefOK(call[p])
      /\ DirOK(vnode, call[p], cwd[p]) /\ VpOK(vnode, call[p])
      /\ \A u \in Vnode : Locks(call[p], u) => vnode[u].lock = p
      /\ RefsOK(node, call) /\ CacheOK(cache)
    BY Known
<1>2. /\ v \in Vnode /\ call[p].pc = "getnew" /\ vnode[v] = FreeVnode
      /\ vnode[v].st = "free" /\ vnode[v].use = 0 /\ vnode[v].hold = 0
      /\ vnode[v].lock = NULL /\ vnode[v].data = NULL
      /\ call[p].vp = NULL /\ call[p].put = NULL /\ call[p].pn # NULL
      /\ call[p].mount \in Mount /\ cwd[p] # v
    <2>1. call[p].pc = "getnew" /\ v \in Vnode /\ vnode[v].st = "free"
        BY <1>0 DEF AllocNew, At, FreeVnodes
    <2>2. vnode[v] = FreeVnode
        BY <1>1, <2>1 DEF VnodeOK
    <2>3. /\ vnode[v].use = 0 /\ vnode[v].hold = 0
          /\ vnode[v].lock = NULL /\ vnode[v].data = NULL
        BY <2>2 DEF FreeVnode
    <2>4. /\ call[p].vp = NULL /\ call[p].put = NULL /\ call[p].pn # NULL
          /\ call[p].mount \in Mount
        BY <1>1, <2>1 DEF SetOK, Putting, Walking
    <2>5. cwd[p] # v
        BY <1>1, <2>1, NullAssumption DEF DirOK
    <2> QED
        BY <2>1, <2>2, <2>3, <2>4, <2>5
<1>3. /\ s \in VnodeType /\ s.st = "new" /\ s.mount = call[p].mount /\ s.data = NULL
      /\ s.use = 1 /\ s.hold = 0 /\ s.lock = p
    BY <1>1, <1>2 DEF VnodeType, FreeVnode
<1>4. vnode' = vt
    BY <1>0
<1>5. /\ d \in CallType /\ d.pc = "insert" /\ d.op = call[p].op
      /\ d.name = call[p].name /\ d.dvp = call[p].dvp /\ d.pd = call[p].pd
      /\ d.vp = v /\ d.pn = call[p].pn /\ d.ref = call[p].ref
      /\ d.mount = call[p].mount /\ d.old = call[p].old /\ d.put = call[p].put
    BY ZenonT(60), <1>1, <1>2 DEF CallType
<1>6. Sets(call, call', p, d) /\ Sets(cwd, cwd', p, cwd[p])
    <2>1. call' = [call EXCEPT ![p] = d]
        BY <1>0, <1>1 DEF CallType
    <2>2. cwd' = [cwd EXCEPT ![p] = cwd[p]]
        BY <1>1 DEF AllocNew
    <2> HIDE DEF d
    <2> QED
        BY <1>1, <2>1, <2>2, SetsExcept
<1> HIDE DEF s, d
<1>7. /\ vt \in [Vnode -> VnodeType] /\ vt[v] = s
      /\ \A u \in Vnode : u # v => vt[u] = vnode[u]
    BY <1>1, <1>2, <1>3, PutVnode
<1> HIDE DEF vt
<1>8. Fits(p, vnode[v], s)
    BY <1>1, <1>2, <1>3, NullAssumption DEF Fits, VnodeOK
<1>9. \A u \in Vnode :
        /\ UseBit(call[p], u) = 0 /\ UseBit(d, u) = (IF u = v THEN 1 ELSE 0)
        /\ HoldBit(call[p], u) = 0 /\ HoldBit(d, u) = 0
    BY <1>1, <1>2, <1>5, NullAssumption
       DEF UseBit, HoldBit, Uses, Holds, SetOK, Dirs, Idle, AfterAlloc
<1>10. Follows(vnode[v], s, call[p], d, cwd[p], cwd[p], v)
    <2>1. /\ vnode[v].use \in Nat /\ vnode[v].hold \in Nat
          /\ \A u \in Vnode : Dirs(cwd[p], u) \in Nat
        BY <1>1, <1>2 DEF VnodeType, Dirs
    <2> QED
        BY <1>2, <1>3, <1>9, <2>1 DEF Follows
<1>11. \A u \in Vnode : u # v =>
        /\ Dirs(cwd[p], u) + UseBit(call[p], u) = Dirs(cwd[p], u) + UseBit(d, u)
        /\ HoldBit(call[p], u) = HoldBit(d, u)
    BY <1>9
<1>12. /\ \A u \in Vnode : Locks(d, u) /\ u # v => Locks(call[p], u)
       /\ Locks(d, v) => s.lock = p
    BY <1>1, <1>2, <1>3, <1>5, NullAssumption
       DEF Locks, DirLocked, SetOK, AfterAlloc
<1>13. SetOK(d, cwd[p]) /\ RefOK(d)
    <2>1. SetOK(d, cwd[p])
        BY <1>1, <1>2, <1>5, NullAssumption
           DEF SetOK, DirLocked, Locks, Walking, Leaving, Putting, AfterAlloc
    <2>2. RefOK(d)
        BY <1>1, <1>2, <1>5, NullAssumption
           DEF SetOK, RefOK, Walking, Leaving, AfterAlloc
    <2> QED
        BY <2>1, <2>2
<1>14. DirOK(vt, d, cwd[p]) /\ VpOK(vt, d)
    <2>1. /\ d.vp \in Vnode \cup {NULL} /\ d.put \in Vnode \cup {NULL}
          /\ call[p].dvp \in Vnode \cup {NULL}
        BY <1>1, <1>5 DEF CallType
    <2>2. \A u \in Vnode : u # v => /\ vt[u].st = vnode[u].st
                          /\ vt[u].data = vnode[u].data
                          /\ vt[u].mount = vnode[u].mount
        BY <1>3, <1>7
    <2>3. DirOK(vt, d, cwd[p])
        BY <1>1, <1>2, <1>3, <1>5, <1>7, <2>1, <2>2, NullAssumption
           DEF DirOK, SetOK, AfterAlloc
    <2>4. VpOK(vt, d)
        BY <1>1, <1>2, <1>3, <1>5, <1>7, <2>1, <2>2, NullAssumption,
           RootAssumption DEF VpOK, SetOK, RefOK, VnodeOK, Walking
    <2> QED
        BY <2>3, <2>4
<1>15. /\ d.ref = call[p].ref
       /\ call[p].ref => d.pn = call[p].pn
       /\ \A n \in Node : Kills(d, n) <=> Kills(call[p], n)
       /\ call[p].pc \notin Recycling /\ d.pc # "reclaim"
    BY <1>1, <1>2, <1>5 DEF Kills, RefOK, Recycling, AfterAlloc, Walking
<1>16. s.data # NULL /\ s.use = 0 =>
            vnode[v].use = 0 \/ (d.put = v /\ d.pc = "inactive")
    BY <1>1, <1>2, <1>3, <1>5 DEF VnodeType
<1>17. UNCHANGED node /\ CacheOK(cache') /\ panic' = "no"
    BY <1>1, <1>2 DEF At, AllocNew
<1>18. s.data = vnode[v].data /\ (s.data # NULL => s.mount = vnode[v].mount)
    BY <1>2, <1>3
<1>19. v \in Vnode /\ d \in CallType /\ cwd[p] \in Vnode \cup {NULL}
    BY <1>1, <1>2, <1>5
<1> QED
    BY <1>4, <1>6, <1>7, <1>8, <1>10, <1>11, <1>12,
       <1>13, <1>14, <1>15, <1>16, <1>17, <1>18, <1>19, TouchNext

(* The walk ends in another directory: the old one is let go. *)
LEMMA KeepDoneWalk ==
    ASSUME SgfsInv, NEW p \in Proc, DoneWalk(p)
    PROVE  SgfsInv'
<1> DEFINE v == call[p].vp
           s == [vnode[v] EXCEPT !.lock = NULL]
           d == IF call[p].op = "root" THEN Idle
                ELSE [Idle EXCEPT !.pc = "put", !.op = call[p].op,
                                  !.put = call[p].dvp]
           vt == [vnode EXCEPT ![v] = s]
<1>1. /\ vnode \in [Vnode -> VnodeType] /\ call \in [Proc -> CallType]
      /\ cwd \in [Proc -> Vnode \cup {NULL}]
      /\ call[p] \in CallType /\ cwd[p] \in Vnode \cup {NULL}
      /\ \A u \in Vnode : vnode[u] \in VnodeType /\ VnodeOK(vnode[u])
      /\ SetOK(call[p], cwd[p]) /\ RefOK(call[p])
      /\ DirOK(vnode, call[p], cwd[p]) /\ VpOK(vnode, call[p])
      /\ \A u \in Vnode : Locks(call[p], u) => vnode[u].lock = p
      /\ RefsOK(node, call) /\ CacheOK(cache)
    BY Known
<1>2. /\ v \in Vnode /\ call[p].pc = "done" /\ call[p].vp = v
      /\ call[p].op \in {"walk", "dotdot", "root"} /\ call[p].ref = FALSE
      /\ vnode[v].lock = p /\ vnode[v].st \in {"live", "doomed"}
      /\ call[p].put = NULL /\ v # call[p].dvp /\ cwd[p] = call[p].dvp
      /\ call[p].op = "root" <=> call[p].dvp = NULL
    <2>1. /\ call[p].pc = "done" /\ v \in Vnode
          /\ call[p].op \in {"walk", "dotdot", "root"}
        BY <1>1 DEF DoneWalk, At, Got, CallType
    <2>2. Locks(call[p], v)
        BY <2>1 DEF Locks
    <2>3. call[p].put = NULL /\ ~call[p].ref
        BY <1>1, <2>1 DEF SetOK, RefOK, Putting, Walking
    <2>4. vnode[v].st \in {"live", "doomed"}
        BY <1>1, <2>1, NullAssumption DEF VpOK
    <2>5. call[p].op = "root" <=> call[p].dvp = NULL
        BY <1>1, <2>1, <2>3 DEF SetOK
    <2>6. v # call[p].dvp /\ cwd[p] = call[p].dvp
        BY <1>1, <2>1, <2>5, NullAssumption DEF SetOK, DirLocked
    <2> QED
        BY <1>1, <2>1, <2>2, <2>3, <2>4, <2>5, <2>6 DEF CallType
<1>3. /\ s \in VnodeType /\ s.st = vnode[v].st
      /\ s.mount = vnode[v].mount /\ s.data = vnode[v].data
      /\ s.use = vnode[v].use /\ s.hold = vnode[v].hold /\ s.lock = NULL
    BY <1>1, <1>2 DEF VnodeType
<1>4. vnode' = vt
    BY <1>1, <1>2 DEF VnodeType, DoneWalk
<1>5. /\ d \in CallType /\ d.put = call[p].dvp /\ d.dvp = NULL /\ d.vp = NULL
      /\ d.pn = NULL /\ d.ref = FALSE
      /\ call[p].op = "root" => d = Idle /\ d.pc = "idle" /\ d.op = "none"
      /\ call[p].op # "root" => d.pc = "put" /\ d.op = call[p].op
    <2>1. CASE call[p].op = "root"
        BY <1>2, <2>1 DEF Idle, CallType
    <2>2. CASE call[p].op # "root"
        <3>1. d = [Idle EXCEPT !.pc = "put", !.op = call[p].op,
                               !.put = call[p].dvp]
            BY <2>2
        <3>2. /\ call[p].op \in Op \cup {"none", "root", "leave"}
              /\ call[p].dvp \in Vnode \cup {NULL}
            BY <1>1 DEF CallType
        <3> HIDE DEF d
        <3> QED
            BY <2>2, <3>1, <3>2 DEF Idle, CallType
    <2> QED
        BY <2>1, <2>2
<1>6. Sets(call, call', p, d) /\ Sets(cwd, cwd', p, v)
    <2>1. call' = [call EXCEPT ![p] = d]
        BY <1>1 DEF CallType, Goto, DoneWalk
    <2>2. cwd' = [cwd EXCEPT ![p] = v]
        BY <1>1 DEF DoneWalk
    <2> HIDE DEF d
    <2> QED
        BY <1>1, <2>1, <2>2, SetsExcept
<1> HIDE DEF s, d
<1>7. /\ vt \in [Vnode -> VnodeType] /\ vt[v] = s
      /\ \A u \in Vnode : u # v => vt[u] = vnode[u]
    BY <1>1, <1>2, <1>3, PutVnode
<1> HIDE DEF vt
<1>8. Fits(p, vnode[v], s)
    BY SMTT(60), <1>1, <1>2, <1>3, Fitting
<1>9. \A u \in Vnode :
        /\ UseBit(call[p], u) = (IF u = v THEN 1 ELSE 0)
        /\ UseBit(d, u) = (IF u = call[p].dvp THEN 1 ELSE 0)
        /\ HoldBit(call[p], u) = 0 /\ HoldBit(d, u) = 0
        /\ Dirs(cwd[p], u) = (IF u = call[p].dvp THEN 1 ELSE 0)
        /\ Dirs(v, u) = (IF u = v THEN 1 ELSE 0)
    BY <1>1, <1>2, <1>5, NullAssumption
       DEF UseBit, HoldBit, Uses, Holds, SetOK, Dirs, Idle, AfterAlloc
<1>10. Follows(vnode[v], s, call[p], d, cwd[p], v, v)
    <2>1. /\ vnode[v].use \in Nat /\ vnode[v].hold \in Nat
          /\ \A u \in Vnode : Dirs(cwd[p], u) \in Nat
        BY <1>1, <1>2 DEF VnodeType, Dirs
    <2> QED
        BY <1>2, <1>3, <1>9, <2>1 DEF Follows
<1>11. \A u \in Vnode : u # v =>
        /\ Dirs(cwd[p], u) + UseBit(call[p], u) = Dirs(v, u) + UseBit(d, u)
        /\ HoldBit(call[p], u) = HoldBit(d, u)
    BY <1>9
<1>12. /\ \A u \in Vnode : Locks(d, u) /\ u # v => Locks(call[p], u)
       /\ Locks(d, v) => s.lock = p
    BY <1>1, <1>2, <1>3, <1>5, NullAssumption
       DEF Locks, DirLocked, SetOK, AfterAlloc
<1>13. SetOK(d, v) /\ RefOK(d)
    <2>1. SetOK(d, v)
        BY <1>1, <1>2, <1>5, NullAssumption
           DEF SetOK, DirLocked, Locks, Walking, Leaving, Putting, AfterAlloc
    <2>2. RefOK(d)
        BY <1>1, <1>2, <1>5, NullAssumption
           DEF SetOK, RefOK, Walking, Leaving, AfterAlloc
    <2> QED
        BY <2>1, <2>2
<1>14. DirOK(vt, d, v) /\ VpOK(vt, d)
    <2>1. /\ d.vp \in Vnode \cup {NULL} /\ d.put \in Vnode \cup {NULL}
          /\ call[p].dvp \in Vnode \cup {NULL}
        BY <1>1, <1>5 DEF CallType
    <2>2. \A u \in Vnode : /\ vt[u].st = vnode[u].st
                          /\ vt[u].data = vnode[u].data
                          /\ vt[u].mount = vnode[u].mount
        BY <1>3, <1>7
    <2>3. DirOK(vt, d, v)
        BY SMTT(60), <1>1, <1>2, <1>3, <1>5, <1>7, <2>1, <2>2, NullAssumption
           DEF DirOK, SetOK, AfterAlloc
    <2>4. VpOK(vt, d)
        BY <1>1, <1>2, <1>3, <1>5, <2>1, <2>2, NullAssumption DEF VpOK, DirOK
    <2> QED
        BY <2>3, <2>4
<1>15. /\ d.ref = call[p].ref
       /\ call[p].ref => d.pn = call[p].pn
       /\ \A n \in Node : Kills(d, n) <=> Kills(call[p], n)
       /\ call[p].pc \notin Recycling /\ d.pc # "reclaim"
    BY <1>1, <1>2, <1>5 DEF Kills, RefOK, Recycling, AfterAlloc, Walking
<1>16. s.data # NULL /\ s.use = 0 =>
            vnode[v].use = 0 \/ (d.put = v /\ d.pc = "inactive")
    BY <1>1, <1>2, <1>3, <1>5 DEF VnodeType
<1>17. UNCHANGED node /\ CacheOK(cache') /\ panic' = "no"
    <2>1. [dvp |-> call[p].dvp, name |-> call[p].name, vp |-> v]
                \in [dvp : Vnode, name : Name, vp : Vnode] \/ call[p].op # "walk"
        BY <1>1, <1>2 DEF SetOK, CallType
    <2>2. CacheOK(cache')
        BY <1>1, <2>1 DEF DoneWalk, CacheOK
    <2> QED
        BY <2>2 DEF DoneWalk, At
<1>18. s.data = vnode[v].data /\ (s.data # NULL => s.mount = vnode[v].mount)
    BY <1>2, <1>3
<1>19. v \in Vnode /\ d \in CallType /\ v \in Vnode \cup {NULL}
    BY <1>1, <1>2, <1>5
<1> HIDE DEF v
<1> QED
    BY <1>4, <1>6, <1>7, <1>8, <1>10, <1>11, <1>12,
       <1>13, <1>14, <1>15, <1>16, <1>17, <1>18, <1>19, TouchNext

(* The last vput of a vnode: sgfs_inactive is called. *)
LEMMA KeepLastPut ==
    ASSUME SgfsInv, NEW p \in Proc, Vput(p), vnode[call[p].put].use = 1,
           vnode[call[p].put].st = "live"
    PROVE  SgfsInv'
<1> DEFINE v == call[p].put
           s == [vnode[v] EXCEPT !.use = @ - 1]
           d == [call[p] EXCEPT !.pc = "inactive"]
           vt == [vnode EXCEPT ![v] = s]
<1>1. /\ vnode \in [Vnode -> VnodeType] /\ call \in [Proc -> CallType]
      /\ cwd \in [Proc -> Vnode \cup {NULL}]
      /\ call[p] \in CallType /\ cwd[p] \in Vnode \cup {NULL}
      /\ \A u \in Vnode : vnode[u] \in VnodeType /\ VnodeOK(vnode[u])
      /\ SetOK(call[p], cwd[p]) /\ RefOK(call[p])
      /\ DirOK(vnode, call[p], cwd[p]) /\ VpOK(vnode, call[p])
      /\ \A u \in Vnode : Locks(call[p], u) => vnode[u].lock = p
      /\ RefsOK(node, call) /\ CacheOK(cache)
    BY Known
<1>2. /\ v \in Vnode /\ call[p].pc = "put" /\ call[p].put = v
      /\ call[p].vp = NULL
      /\ vnode[v].use = 1 /\ vnode[v].lock = p /\ vnode[v].st = "live"
    <2>1. call[p].pc = "put" /\ v \in Vnode /\ call[p].vp = NULL
        BY <1>1 DEF Vput, At, SetOK, Putting, CallType
    <2>2. Locks(call[p], v)
        BY <2>1 DEF Locks
    <2> QED
        BY <1>1, <2>1, <2>2
<1>3. /\ s \in VnodeType /\ s.st = vnode[v].st
      /\ s.mount = vnode[v].mount /\ s.data = vnode[v].data
      /\ s.use = vnode[v].use - 1 /\ s.hold = vnode[v].hold
      /\ s.lock = vnode[v].lock
    <2> DEFINE a == vnode[v].use - 1
    <2>1. a \in Nat
        BY <1>1, <1>2 DEF VnodeType
    <2>2. s = [vnode[v] EXCEPT !.use = a]
        OBVIOUS
    <2> HIDE DEF s, a
    <2>3. /\ s \in VnodeType
          /\ s.st = vnode[v].st
          /\ s.mount = vnode[v].mount
          /\ s.data = vnode[v].data
          /\ s.use = a
          /\ s.hold = vnode[v].hold
          /\ s.lock = vnode[v].lock
        BY SMTT(60), <1>1, <1>2, <2>1, <2>2 DEF VnodeType
    <2> QED
        BY <2>3 DEF a
<1>4. vnode' = vt /\ Goto(p, "inactive")
    <2>1. vt = [vnode EXCEPT ![v].use = @ - 1]
        BY <1>1, <1>2 DEF VnodeType
    <2>2. vt[v].use = 0
        BY <1>1, <1>2, <1>3
    <2> QED
        BY <1>2, <2>1, <2>2 DEF Vput
<1>5. /\ d \in CallType /\ d.pc = "inactive" /\ d.op = call[p].op
      /\ d.name = call[p].name /\ d.dvp = call[p].dvp /\ d.pd = call[p].pd
      /\ d.vp = call[p].vp /\ d.pn = call[p].pn /\ d.ref = call[p].ref
      /\ d.mount = call[p].mount /\ d.old = call[p].old /\ d.put = call[p].put
    BY <1>1, <1>2 DEF CallType
<1>6. Sets(call, call', p, d) /\ Sets(cwd, cwd', p, cwd[p])
    <2>1. call' = [call EXCEPT ![p] = d]
        BY <1>1, <1>4 DEF CallType, Goto
    <2>2. cwd' = [cwd EXCEPT ![p] = cwd[p]]
        BY <1>1 DEF Vput
    <2> HIDE DEF d
    <2> QED
        BY <1>1, <2>1, <2>2, SetsExcept
<1> HIDE DEF s, d
<1>7. /\ vt \in [Vnode -> VnodeType] /\ vt[v] = s
      /\ \A u \in Vnode : u # v => vt[u] = vnode[u]
    BY <1>1, <1>2, <1>3, PutVnode
<1> HIDE DEF vt
<1>8. Fits(p, vnode[v], s)
    BY SMTT(60), <1>1, <1>2, <1>3, Fitting
<1>9. \A u \in Vnode :
        /\ UseBit(call[p], u) = (IF u = v THEN 1 ELSE 0) /\ UseBit(d, u) = 0
        /\ HoldBit(call[p], u) = 0 /\ HoldBit(d, u) = 0
    BY <1>1, <1>2, <1>5, NullAssumption
       DEF UseBit, HoldBit, Uses, Holds, SetOK, Dirs, Idle, AfterAlloc
<1>10. Follows(vnode[v], s, call[p], d, cwd[p], cwd[p], v)
    <2>1. /\ vnode[v].use \in Nat /\ vnode[v].hold \in Nat
          /\ \A u \in Vnode : Dirs(cwd[p], u) \in Nat
        BY <1>1, <1>2 DEF VnodeType, Dirs
    <2> QED
        BY <1>2, <1>3, <1>9, <2>1 DEF Follows
<1>11. \A u \in Vnode : u # v =>
        /\ Dirs(cwd[p], u) + UseBit(call[p], u) = Dirs(cwd[p], u) + UseBit(d, u)
        /\ HoldBit(call[p], u) = HoldBit(d, u)
    BY <1>9
<1>12. /\ \A u \in Vnode : Locks(d, u) /\ u # v => Locks(call[p], u)
       /\ Locks(d, v) => s.lock = p
    BY <1>1, <1>2, <1>3, <1>5, NullAssumption
       DEF Locks, DirLocked, SetOK, AfterAlloc
<1>13. SetOK(d, cwd[p]) /\ RefOK(d)
    <2>1. SetOK(d, cwd[p])
        BY <1>1, <1>2, <1>5, NullAssumption
           DEF SetOK, DirLocked, Locks, Walking, Leaving, Putting, AfterAlloc
    <2>2. RefOK(d)
        BY <1>1, <1>2, <1>5, NullAssumption
           DEF SetOK, RefOK, Walking, Leaving, AfterAlloc
    <2> QED
        BY <2>1, <2>2
<1>14. DirOK(vt, d, cwd[p]) /\ VpOK(vt, d)
    <2>1. /\ d.vp \in Vnode \cup {NULL} /\ d.put \in Vnode \cup {NULL}
          /\ call[p].dvp \in Vnode \cup {NULL}
        BY <1>1, <1>5 DEF CallType
    <2>2. \A u \in Vnode : /\ vt[u].st = vnode[u].st
                          /\ vt[u].data = vnode[u].data
                          /\ vt[u].mount = vnode[u].mount
        BY <1>3, <1>7
    <2>3. DirOK(vt, d, cwd[p])
        BY SMTT(60), <1>1, <1>2, <1>3, <1>5, <1>7, <2>1, <2>2, NullAssumption
           DEF DirOK, SetOK, AfterAlloc
    <2>4. VpOK(vt, d)
        BY <1>1, <1>2, <1>3, <1>5, <1>7, <2>1, <2>2, NullAssumption
           DEF VpOK, SetOK, RefOK, AfterAlloc, VnodeOK, Walking
    <2> QED
        BY <2>3, <2>4
<1>15. /\ d.ref = call[p].ref
       /\ call[p].ref => d.pn = call[p].pn
       /\ \A n \in Node : Kills(d, n) <=> Kills(call[p], n)
       /\ call[p].pc \notin Recycling /\ d.pc # "reclaim"
    BY <1>1, <1>2, <1>5 DEF Kills, RefOK, Recycling, AfterAlloc, Walking
<1>16. s.data # NULL /\ s.use = 0 =>
            vnode[v].use = 0 \/ (d.put = v /\ d.pc = "inactive")
    BY <1>1, <1>2, <1>3, <1>5 DEF VnodeType
<1>17. UNCHANGED node /\ CacheOK(cache') /\ panic' = "no"
    BY <1>1, <1>2 DEF At, Vput
<1>18. s.data = vnode[v].data /\ (s.data # NULL => s.mount = vnode[v].mount)
    BY <1>2, <1>3
<1>19. v \in Vnode /\ d \in CallType /\ cwd[p] \in Vnode \cup {NULL}
    BY <1>1, <1>2, <1>5
<1> HIDE DEF v
<1> QED
    BY <1>4, <1>6, <1>7, <1>8, <1>10, <1>11, <1>12,
       <1>13, <1>14, <1>15, <1>16, <1>17, <1>18, <1>19, TouchNext

(* The end of a vput, with the vnode unlocked: s from then on *)
LEMMA KeepAfterPut ==
    ASSUME SgfsInv, NEW p \in Proc, call[p].pc \in {"put", "inactive"},
           NEW v \in Vnode, v = call[p].put, NEW s \in VnodeType,
           NEW vs \in [Vnode -> VnodeType], vs[v] = s,
           \A u \in Vnode : u # v => vs[u] = vnode[u],
           s.st = vnode[v].st, s.data = vnode[v].data,
           s.mount = vnode[v].mount, s.hold = vnode[v].hold, s.lock = NULL,
           s.use = vnode[v].use - UseBit(call[p], v),
           vnode[v].data # NULL => ~node[vnode[v].data].deleted \/ s.use # 0,
           AfterPut(p, vs), UNCHANGED <<node, cwd, cache>>, panic' = "no"
    PROVE  SgfsInv'
<1>1. /\ vnode \in [Vnode -> VnodeType] /\ call \in [Proc -> CallType]
      /\ \A u \in Vnode : vnode[u] \in VnodeType
      /\ SetOK(call[p], cwd[p]) /\ RefOK(call[p]) /\ call[p] \in CallType
    BY Known
<1>2. /\ call[p].vp = NULL /\ call[p].ref = FALSE
      /\ \A n \in Node : ~Kills(call[p], n)
      /\ call[p].dvp \in Vnode \cup {NULL}
    BY <1>1, NullAssumption DEF SetOK, RefOK, Kills, Walking, CallType
<1>3. Locks(call[p], v)
    BY DEF Locks
<1>4. ASSUME NEW u \in Vnode
      PROVE  /\ vs[u].st = vnode[u].st /\ vs[u].data = vnode[u].data
             /\ vs[u].mount = vnode[u].mount
             /\ vs[u].use = vnode[u].use - UseBit(call[p], u)
             /\ vs[u].hold = vnode[u].hold - HoldBit(call[p], u)
             /\ vs[u] = vnode[u] \/ Locks(call[p], u)
    <2>1. vnode[u].use \in Nat /\ vnode[u].hold \in Nat
        BY <1>1 DEF VnodeType
    <2>2. HoldBit(call[p], u) = 0 /\ (u # v => UseBit(call[p], u) = 0)
        BY <1>2, NullAssumption DEF HoldBit, UseBit, Holds, Uses
    <2>3. CASE u = v
        BY <1>3, <2>1, <2>2, <2>3
    <2>4. CASE u # v
        <3>1. vs[u] = vnode[u]
            BY <2>4
        <3>2. /\ vnode[u].use = vnode[u].use - UseBit(call[p], u)
              /\ vnode[u].hold = vnode[u].hold - HoldBit(call[p], u)
            BY <2>1, <2>2, <2>4
        <3> QED
            BY <3>1, <3>2
    <2> QED
        BY <2>3, <2>4
<1>5. ASSUME NEW vt \in [Vnode -> VnodeType],
             \A u \in Vnode :
                /\ vt[u].st = vs[u].st /\ vt[u].data = vs[u].data
                /\ vt[u].mount = vs[u].mount
                /\ vt[u].use = vs[u].use /\ vt[u].hold = vs[u].hold
                /\ vt[u] = vs[u] \/ Locks(call[p], u),
             vnode' = Settled(vt), call' = [call EXCEPT ![p] = Idle]
      PROVE  SgfsInv'
    <2>1. \A u \in Vnode :
                /\ vt[u].st = vnode[u].st /\ vt[u].data = vnode[u].data
                /\ vt[u].mount = vnode[u].mount
                /\ vt[u].use = vnode[u].use - UseBit(call[p], u)
                /\ vt[u].hold = vnode[u].hold - HoldBit(call[p], u)
                /\ vt[u] = vnode[u] \/ Locks(call[p], u)
        BY <1>4, <1>5
    <2>2. \A u \in Vnode :
            vnode[u].data # NULL /\ node[vnode[u].data].deleted /\ vt[u].use = 0
            => /\ vnode[u].use = 0
               /\ call[p].put # u \/ call[p].pc \notin Recycling
        BY <1>5
    <2>3. Sets(call, call', p, Idle)
        BY <1>1, <1>5, SetsExcept
    <2> QED
        BY ZenonT(60), <1>2, <1>5, <2>1, <2>2, <2>3, EndNext
<1>6. CASE call[p].op \in {"mkdir", "rmdir"}
    <2>1. call[p].dvp \in Vnode /\ Locks(call[p], call[p].dvp)
        BY <1>1, <1>2, <1>6 DEF SetOK, Locks, DirLocked
    <2>2. PICK w \in Vnode : w = call[p].dvp
        BY <2>1
    <2> DEFINE vt == [vs EXCEPT ![w].lock = NULL]
    <2>3. /\ vt \in [Vnode -> VnodeType]
          /\ \A u \in Vnode : u # w => vt[u] = vs[u]
          /\ vt[w].lock = NULL /\ vt[w].st = vs[w].st
          /\ vt[w].data = vs[w].data /\ vt[w].mount = vs[w].mount
          /\ vt[w].use = vs[w].use /\ vt[w].hold = vs[w].hold
        <3>1. NULL \in Proc \cup {NULL}
            OBVIOUS
        <3> QED
            BY SMTT(60), <3>1, LockVnode
    <2>4. vnode' = Settled(vt) /\ call' = [call EXCEPT ![p] = Idle]
        BY <1>6, <2>2 DEF AfterPut, EndCall
    <2> HIDE DEF vt
    <2>5. ASSUME NEW u \in Vnode
          PROVE  /\ vt[u].st = vs[u].st /\ vt[u].data = vs[u].data
                 /\ vt[u].mount = vs[u].mount
                 /\ vt[u].use = vs[u].use /\ vt[u].hold = vs[u].hold
                 /\ vt[u] = vs[u] \/ Locks(call[p], u)
        <3>1. CASE u = w
            BY <2>1, <2>2, <2>3, <3>1
        <3>2. CASE u # w
            BY <2>3, <3>2
        <3> QED
            BY <3>1, <3>2
    <2> QED
        BY <2>3, <2>4, <2>5, <1>5
<1>7. CASE call[p].op \notin {"mkdir", "rmdir"}
    <2>1. vnode' = Settled(vs) /\ call' = [call EXCEPT ![p] = Idle]
        BY <1>7 DEF AfterPut
    <2> QED
        BY <2>1, <1>5
<1> QED
    BY <1>6, <1>7

(* Another vput than the last one *)
LEMMA KeepPut ==
    ASSUME SgfsInv, NEW p \in Proc, Vput(p)
    PROVE  SgfsInv'
<1> DEFINE v == call[p].put
           u == vnode[v].use - 1
           s == [vnode[v] EXCEPT !.use = u, !.lock = NULL]
           dec == [vnode EXCEPT ![v].use = @ - 1]
           vs == [dec EXCEPT ![v].lock = NULL]
<1>1. /\ vnode \in [Vnode -> VnodeType] /\ call[p] \in CallType
      /\ SetOK(call[p], cwd[p])
      /\ \A w \in Vnode : vnode[w] \in VnodeType /\ VnodeOK(vnode[w])
    BY Known
<1>2. v \in Vnode /\ call[p].pc = "put" /\ vnode[v] \in VnodeType
    BY <1>1 DEF Vput, At, SetOK, Putting, CallType
<1>3. Uses(call[p], v)
    BY <1>2 DEF Uses
<1>4. vnode[v].use >= 1 /\ u \in Nat /\ UseBit(call[p], v) = 1
    BY <1>2, <1>3, CountsFacts DEF VnodeType, UseBit
<1>5. dec[v] = [vnode[v] EXCEPT !.use = u]
    BY <1>1, <1>2
<1>6. dec[v].use = u
    BY <1>2, <1>5 DEF VnodeType
<1>7. CASE u = 0 /\ vnode[v].st = "live"
    <2>1. vnode[v].use = 1
        BY <1>2, <1>7 DEF VnodeType
    <2> QED
        BY <1>7, <2>1, KeepLastPut
<1>8. CASE ~(u = 0 /\ vnode[v].st = "live")
    <2>1. AfterPut(p, vs)
        BY SMTT(60), <1>6, <1>8 DEF Vput
    <2>2. vs = [vnode EXCEPT ![v] = s]
        BY <1>1, <1>2 DEF VnodeType
    <2> HIDE DEF u, vs
    <2>3. /\ s \in VnodeType
          /\ s.st = vnode[v].st /\ s.data = vnode[v].data
          /\ s.mount = vnode[v].mount /\ s.hold = vnode[v].hold
          /\ s.lock = NULL /\ s.use = u
        BY <1>2, <1>4 DEF VnodeType
    <2> HIDE DEF s
    <2>4. /\ vs \in [Vnode -> VnodeType] /\ vs[v] = s
          /\ \A w \in Vnode : w # v => vs[w] = vnode[w]
        BY <1>1, <1>2, <2>2, <2>3, PutVnode
    <2>5. s.use = vnode[v].use - UseBit(call[p], v)
        BY <1>4, <2>3 DEF u
    <2>6. vnode[v].data # NULL => ~node[vnode[v].data].deleted \/ s.use # 0
        BY SMTT(60), <1>1, <1>2, <1>8, <2>3 DEF VnodeOK
    <2>7. UNCHANGED <<node, cwd, cache>> /\ panic' = "no"
        BY DEF Vput, At
    <2> HIDE DEF v
    <2> QED
        BY SMTT(60), <1>2, <2>1, <2>3, <2>4, <2>5, <2>6, <2>7, KeepAfterPut
           DEF v
<1> QED
    BY <1>7, <1>8

(* sgfs_inactive *)
LEMMA KeepInactive ==
    ASSUME SgfsInv, NEW p \in Proc, sgfs_inactive(p)
    PROVE  SgfsInv'
<1> DEFINE v == call[p].put
           s == [vnode[v] EXCEPT !.lock = NULL]
           vs == [vnode EXCEPT ![v].lock = NULL]
<1>1. /\ vnode \in [Vnode -> VnodeType] /\ call[p] \in CallType
      /\ SetOK(call[p], cwd[p]) /\ VpOK(vnode, call[p])
      /\ \A w \in Vnode : vnode[w] \in VnodeType /\ VnodeOK(vnode[w])
    BY SMTT(60), Known
<1>2. /\ v \in Vnode /\ call[p].pc = "inactive" /\ vnode[v] \in VnodeType
      /\ vnode[v].use = 0
    BY <1>1, NullAssumption DEF sgfs_inactive, At, SetOK, Putting, CallType, VpOK
<1>3. CASE node[vnode[v].data].deleted
    <2>1. Goto(p, "reclaim") /\ UNCHANGED <<node, vnode, cwd, cache>> /\ panic' = "no"
        BY <1>2, <1>3 DEF sgfs_inactive, At
    <2>2. Move(p, "reclaim")
        BY SMTT(60), <1>2, <1>3 DEF Move
    <2> QED
        BY <2>1, <2>2, KeepGoto
<1>4. CASE ~node[vnode[v].data].deleted
    <2>1. AfterPut(p, vs) /\ UNCHANGED <<node, cwd, cache>> /\ panic' = "no"
        BY <1>4 DEF sgfs_inactive, At
    <2>2. vs = [vnode EXCEPT ![v] = s]
        BY <1>1, <1>2 DEF VnodeType
    <2> HIDE DEF vs
    <2>3. /\ s \in VnodeType
          /\ s.st = vnode[v].st /\ s.data = vnode[v].data
          /\ s.mount = vnode[v].mount /\ s.hold = vnode[v].hold
          /\ s.lock = NULL /\ s.use = vnode[v].use
        BY <1>2 DEF VnodeType
    <2> HIDE DEF s
    <2>4. /\ vs \in [Vnode -> VnodeType] /\ vs[v] = s
          /\ \A w \in Vnode : w # v => vs[w] = vnode[w]
        BY <1>1, <1>2, <2>2, <2>3, PutVnode
    <2>5. UseBit(call[p], v) = 0
        BY <1>1, <1>2, NullAssumption DEF UseBit, Uses, SetOK
    <2>6. s.use = vnode[v].use - UseBit(call[p], v)
        BY <1>2, <2>3, <2>5 DEF VnodeType
    <2> HIDE DEF v
    <2> QED
        BY <1>2, <1>4, <2>1, <2>3, <2>4, <2>6, KeepAfterPut DEF v
<1> QED
    BY <1>3, <1>4

(* sgfs_allocv looks for a vnode. *)
LEMMA KeepAllocFind ==
    ASSUME SgfsInv, NEW p \in Proc, AllocFind(p)
    PROVE  SgfsInv'
<1>1. /\ call[p].pc = "find" /\ call[p] \in CallType
      /\ SetOK(call[p], cwd[p]) /\ RefOK(call[p])
      /\ RefsOK(node, call) /\ RootOK(node)
    BY ZenonT(60), Known DEF AllocFind, At
<1>2. CASE ~Live(call[p].pn)
    <2>1. ~call[p].ref /\ call[p].op # "root"
        BY <1>1, <1>2 DEF RefsOK, RootOK, SetOK, Live
    <2>2. call[p].op = "dotdot" /\ ~call[p].ref
        BY <1>1, <2>1 DEF RefOK, Walking
    <2>3. Panic("freed node")
        BY ZenonT(60), <1>2 DEF AllocFind
    <2> QED
        BY ZenonT(60), <2>2, <2>3, KeepPanic DEF Panics
<1>3. CASE Live(call[p].pn) /\ VnodesOn(call[p].pn, call[p].mount) # {}
    BY <1>3, KeepHold
<1>4. CASE Live(call[p].pn) /\ VnodesOn(call[p].pn, call[p].mount) = {}
    <2>1. /\ Goto(p, "getnew") /\ UNCHANGED <<node, vnode, cwd, cache>>
          /\ panic' = "no"
        BY <1>4 DEF AllocFind, At
    <2>2. Move(p, "getnew")
        BY <1>1 DEF Move
    <2> QED
        BY <2>1, <2>2, KeepGoto
<1> QED
    BY <1>2, <1>3, <1>4

(* getnewvnode, or insmntque refuses *)
LEMMA KeepAllocNew ==
    ASSUME SgfsInv, NEW p \in Proc, AllocNew(p)
    PROVE  SgfsInv'
<1>1. CASE vnode' # vnode
    BY <1>1, KeepNewVnode
<1>2. CASE vnode' = vnode
    <2>1. call[p].pc = "getnew" /\ UNCHANGED <<node, cwd, cache>> /\ panic' = "no"
        BY DEF AllocNew, At
    <2>2. CASE Goto(p, AfterAlloc(p))
        <3>1. Move(p, AfterAlloc(p))
            BY <2>1 DEF Move
        <3> QED
            BY <1>2, <2>1, <2>2, <3>1, KeepGoto
    <2>3. CASE ~Goto(p, AfterAlloc(p))
        <3>1. PICK v \in FreeVnodes :
                vnode' = [vnode EXCEPT ![v] =
                            [FreeVnode EXCEPT !.st = "new", !.use = 1,
                                !.lock = p, !.mount = call[p].mount]]
            BY <2>3 DEF AllocNew
        <3>2. v \in Vnode /\ vnode[v].st = "free" /\ vnode \in [Vnode -> VnodeType]
            BY Known DEF FreeVnodes
        <3>3. vnode'[v].st = "new"
            BY <3>1, <3>2 DEF FreeVnode
        <3> QED
            BY <1>2, <3>2, <3>3
    <2> QED
        BY <2>2, <2>3
<1> QED
    BY <1>1, <1>2

(* ".." of the root is the root; otherwise the directory is unlocked. *)
LEMMA KeepDotDot ==
    ASSUME SgfsInv, NEW p \in Proc, DotDot(p)
    PROVE  SgfsInv'
<1>1. CASE Pd(p) # Root
    BY <1>1, KeepUnlock
<1>2. CASE Pd(p) = Root
    <2>1. /\ call[p].pc = "dotdot" /\ UNCHANGED <<node, cwd, cache>>
          /\ panic' = "no" /\ EndCall(p, vnode)
        BY <1>2 DEF DotDot, At
    <2>2. SetOK(call[p], cwd[p]) /\ RefOK(call[p])
        BY Known
    <2>3. /\ call[p].vp = NULL /\ call[p].put = NULL /\ ~call[p].ref
          /\ call[p].dvp # NULL /\ \A n \in Node : ~Kills(call[p], n)
          /\ DirLocked(call[p])
        BY <2>1, <2>2 DEF SetOK, RefOK, Putting, Walking, Kills, DirLocked
    <2> QED
        BY <2>1, <2>3, KeepEndCall
<1> QED
    BY <1>1, <1>2

(* The call has failed, or found that the mount goes away. *)
LEMMA KeepDoneError ==
    ASSUME SgfsInv, NEW p \in Proc, DoneError(p)
    PROVE  SgfsInv'
<1>1. /\ call[p].pc = "done" /\ UNCHANGED <<node, cwd, cache>>
      /\ panic' = "no" /\ call[p].vp = NULL
    BY DEF DoneError, At, Got
<1>2. /\ SetOK(call[p], cwd[p]) /\ RefOK(call[p])
      /\ call \in [Proc -> CallType]
    BY Known
<1>3. /\ call[p].put = NULL /\ ~call[p].ref
      /\ \A n \in Node : ~Kills(call[p], n)
    BY <1>1, <1>2 DEF SetOK, RefOK, Putting, Walking, Kills
<1>4. CASE call[p].dvp # NULL
    <2>1. DirLocked(call[p]) /\ EndCall(p, vnode)
        BY <1>1, <1>4 DEF DirLocked, DoneError
    <2> QED
        BY <1>1, <1>3, <1>4, <2>1, KeepEndCall
<1>5. CASE call[p].dvp = NULL
    <2>1. vnode' = vnode /\ Sets(call, call', p, Idle)
        <3>1. vnode' = vnode /\ call' = [call EXCEPT ![p] = Idle]
            BY <1>5 DEF DoneError
        <3> QED
            BY <1>2, <3>1, SetsExcept
    <2>2. /\ vnode \in [Vnode -> VnodeType]
          /\ \A v \in Vnode : vnode[v] \in VnodeType
        BY Known
    <2>3. \A v \in Vnode : UseBit(call[p], v) = 0 /\ HoldBit(call[p], v) = 0
        BY <1>1, <1>3, NullAssumption DEF UseBit, HoldBit, Uses, Holds
    <2>4. \A v \in Vnode : /\ vnode[v].use = vnode[v].use - UseBit(call[p], v)
                           /\ vnode[v].hold = vnode[v].hold - HoldBit(call[p], v)
        <3> SUFFICES ASSUME NEW v \in Vnode
                     PROVE  /\ vnode[v].use = vnode[v].use - UseBit(call[p], v)
                            /\ vnode[v].hold = vnode[v].hold - HoldBit(call[p], v)
            OBVIOUS
        <3>1. vnode[v].use \in Nat /\ vnode[v].hold \in Nat
            BY <2>2 DEF VnodeType
        <3> QED
            BY <2>3, <3>1
    <2>5. \A v \in Vnode : call[p].put # v
        BY <1>3, NullAssumption
    <2> QED
        BY <1>1, <1>3, <2>1, <2>2, <2>4, <2>5, EndNext
<1> QED
    BY <1>4, <1>5

(* sgnode_release compares: who has dropped the last reference goes on. *)
LEMMA KeepReleaseCompare ==
    ASSUME SgfsInv, NEW p \in Proc, ReleaseCompare(p)
    PROVE  SgfsInv'
<1>1. /\ call[p].pc = "compare" /\ call[p] \in CallType
      /\ SetOK(call[p], cwd[p]) /\ RefOK(call[p]) /\ KillsOK(node, call)
    BY Known DEF ReleaseCompare, At
<1>2. call[p].pn \in Node /\ call[p].ref = FALSE
    BY <1>1 DEF SetOK, RefOK, CallType, Walking, Leaving
<1>3. CASE call[p].old = Base
    <2>a. Kills(call[p], call[p].pn)
        BY <1>1, <1>3 DEF Kills
    <2>b. Live(call[p].pn)
        BY <1>1, <1>2, <2>a DEF KillsOK, Live
    <2> DEFINE d == [call[p] EXCEPT !.pc = "destroy"]
    <2>1. /\ call \in [Proc -> CallType] /\ cwd \in [Proc -> Vnode \cup {NULL}]
          /\ call[p] \in CallType /\ cwd[p] \in Vnode \cup {NULL}
          /\ SetOK(call[p], cwd[p]) /\ RefOK(call[p])
          /\ DirOK(vnode, call[p], cwd[p]) /\ VpOK(vnode, call[p])
        BY Known
    <2>2. /\ vnode' = vnode /\ cwd' = cwd /\ node' = node /\ cache' = cache
          /\ panic' = "no"
          /\ call[p].pc = "compare" /\ call[p].ref = FALSE
          /\ call[p].old = Base
        BY <1>1, <1>2, <1>3 DEF ReleaseCompare, At
    <2>3. Sets(call, call', p, d)
        <3>1. call' = [call EXCEPT ![p] = d]
            BY <1>2, <2>1, <2>b, <1>3 DEF CallType, ReleaseCompare
        <3> HIDE DEF d
        <3> QED
            BY <2>1, <3>1, SetsExcept
    <2>4. /\ d \in CallType /\ d.pc = "destroy" /\ d.op = call[p].op
          /\ d.name = call[p].name /\ d.dvp = call[p].dvp /\ d.pd = call[p].pd
          /\ d.vp = call[p].vp /\ d.pn = call[p].pn /\ d.ref = call[p].ref
          /\ d.mount = call[p].mount /\ d.old = call[p].old
          /\ d.put = call[p].put
        BY <2>1, <2>2 DEF CallType
    <2> HIDE DEF d
    <2>5. \A v \in Vnode : /\ UseBit(d, v) = UseBit(call[p], v)
                           /\ HoldBit(d, v) = HoldBit(call[p], v)
                           /\ Locks(d, v) => Locks(call[p], v)
        BY <2>1, <2>2, <2>4, NullAssumption
           DEF UseBit, HoldBit, Uses, Holds, Locks, DirLocked, SetOK
    <2>6. SetOK(d, cwd[p]) /\ RefOK(d)
        BY <2>1, <2>2, <2>4, NullAssumption
           DEF SetOK, RefOK, DirLocked, Walking, Leaving, Putting
    <2>7. DirOK(vnode, d, cwd[p]) /\ VpOK(vnode, d)
        BY <2>1, <2>2, <2>4 DEF DirOK, VpOK, SetOK
    <2>8. /\ d.ref <=> call[p].ref
          /\ call[p].ref => d.pn = call[p].pn
          /\ \A n \in Node : Kills(d, n) <=> Kills(call[p], n)
        BY <2>1, <2>2, <2>4 DEF Kills, RefOK
    <2> QED
        BY <2>2, <2>3, <2>4, <2>5, <2>6, <2>7, <2>8, GoNext DEF Recycling
<1>4. CASE call[p].old # Base
    <2>a. call[p].old \in Nat /\ call[p].old > Base
        BY <1>1, <1>4 DEF RefOK, CallType, Base
    <2>b. call[p].old \notin {1, Base}
        BY <2>a DEF Base
    <2> DEFINE z == 0
               d == [call[p] EXCEPT !.pc = "done", !.old = z, !.pn = NULL]
    <2>1. /\ call \in [Proc -> CallType] /\ cwd \in [Proc -> Vnode \cup {NULL}]
          /\ call[p] \in CallType /\ cwd[p] \in Vnode \cup {NULL}
          /\ SetOK(call[p], cwd[p]) /\ RefOK(call[p])
          /\ DirOK(vnode, call[p], cwd[p]) /\ VpOK(vnode, call[p])
        BY Known
    <2>2. /\ vnode' = vnode /\ cwd' = cwd /\ node' = node /\ cache' = cache
          /\ panic' = "no"
          /\ call[p].pc = "compare" /\ call[p].ref = FALSE
          /\ call[p].old # Base
        BY <1>1, <1>2, <1>4 DEF ReleaseCompare, At
    <2>3. Sets(call, call', p, d)
        <3>1. call' = [call EXCEPT ![p] = d]
            BY <1>2, <2>1, <2>b, <1>4 DEF CallType, ReleaseCompare
        <3> HIDE DEF d
        <3> QED
            BY <2>1, <3>1, SetsExcept
    <2>4. /\ d \in CallType /\ d.pc = "done" /\ d.op = call[p].op
          /\ d.name = call[p].name /\ d.dvp = call[p].dvp /\ d.pd = call[p].pd
          /\ d.vp = call[p].vp /\ d.pn = NULL /\ d.ref = call[p].ref
          /\ d.mount = call[p].mount /\ d.old = 0 /\ d.put = call[p].put
        <3>1. z \in Nat
            OBVIOUS
        <3> HIDE DEF z
        <3>2. /\ d \in CallType /\ d.pc = "done" /\ d.op = call[p].op
              /\ d.name = call[p].name /\ d.dvp = call[p].dvp
              /\ d.pd = call[p].pd /\ d.vp = call[p].vp /\ d.pn = NULL
              /\ d.ref = call[p].ref /\ d.mount = call[p].mount
              /\ d.old = z /\ d.put = call[p].put
            <4>1. call[p] \in CallType
                BY <2>1
            <4> QED
                BY ZenonT(120), <3>1, <4>1 DEF CallType
        <3> QED
            BY <3>2 DEF z
    <2> HIDE DEF d
    <2>5. \A v \in Vnode : /\ UseBit(d, v) = UseBit(call[p], v)
                           /\ HoldBit(d, v) = HoldBit(call[p], v)
                           /\ Locks(d, v) => Locks(call[p], v)
        BY <2>1, <2>2, <2>4, NullAssumption
           DEF UseBit, HoldBit, Uses, Holds, Locks, DirLocked, SetOK, Leaving
    <2>6. SetOK(d, cwd[p]) /\ RefOK(d)
        BY <2>1, <2>2, <2>4, NullAssumption
           DEF SetOK, RefOK, DirLocked, Walking, Leaving, Putting
    <2>7. DirOK(vnode, d, cwd[p]) /\ VpOK(vnode, d)
        BY <2>1, <2>2, <2>4 DEF DirOK, VpOK, SetOK
    <2>8. /\ d.ref <=> call[p].ref
          /\ call[p].ref => d.pn = call[p].pn
          /\ \A n \in Node : Kills(d, n) <=> Kills(call[p], n)
        BY <2>1, <2>2, <2>4 DEF Kills, RefOK
    <2> QED
        BY <2>2, <2>3, <2>4, <2>5, <2>6, <2>7, <2>8, GoNext DEF Recycling
<1> QED
    BY <1>3, <1>4

(* A vnode whose memory is given back changes nothing. *)
LEMMA SettledTail ==
    ASSUME NEW ns, NEW vs, NEW cl, NEW cw, Book(vs, cl, cw),
           Tree(ns, vs, cl, {}), RecycleOK(ns, vs, cl)
    PROVE  /\ Book(Settled(vs), cl, cw) /\ Tree(ns, Settled(vs), cl, {})
           /\ RecycleOK(ns, Settled(vs), cl)
<1>1. Book(Settled(vs), cl, cw)
    BY BookSettled
<1>2. \A v \in Vnode : /\ Settled(vs)[v].data = vs[v].data
                       /\ Settled(vs)[v].use = vs[v].use
                       /\ vs[v].data # NULL => Settled(vs)[v] = vs[v]
    BY SettledData
<1>3. Tree(ns, Settled(vs), cl, {})
    BY <1>2, TreeQuiet
<1>4. OneVnode(Settled(vs))
    BY <1>2 DEF RecycleOK, OneVnode
<1>5. ASSUME NEW q \in Proc, cl[q].pc = "reclaim"
      PROVE  ns[Settled(vs)[cl[q].put].data].deleted
    <2>1. cl[q] \in CallType /\ SetOK(cl[q], cw[q])
        BY BookFacts
    <2>2. cl[q].put \in Vnode
        BY <1>5, <2>1 DEF SetOK, Putting, CallType
    <2> QED
        BY <1>2, <1>5, <2>2 DEF RecycleOK
<1>6. RecycleOK(ns, Settled(vs), cl)
    BY <1>2, <1>4, <1>5 DEF RecycleOK
<1> QED
    BY <1>1, <1>3, <1>6

(* Any step of a thread *)
LEMMA BooksNext ==
    ASSUME SgfsInv, NEW p \in Proc, NEW vt, vt = [v \in Vnode |-> vt[v]],
           NEW d \in CallType, NEW x \in Vnode \cup {NULL},
           \A v \in Vnode : Fits(p, vnode[v], vt[v]),
           \A v \in Vnode :
                Follows(vnode[v], vt[v], call[p], d, cwd[p], x, v),
           \A v \in Vnode : Locks(d, v) => vt[v].lock = p,
           SetOK(d, x), RefOK(d), DirOK(vt, d, x), VpOK(vt, d),
           vnode' = vt \/ vnode' = Settled(vt),
           Sets(call, call', p, d), Sets(cwd, cwd', p, x),
           Tree(node', vt, call', {}), RecycleOK(node', vt, call'),
           CacheOK(cache'), panic' = "no"
    PROVE  SgfsInv'
<1>1. /\ Book(vnode, call, cwd) /\ call \in [Proc -> CallType]
      /\ cwd \in [Proc -> Vnode \cup {NULL}]
    BY DEF SgfsInv, Book
<1>2. call' = [call EXCEPT ![p] = d] /\ cwd' = [cwd EXCEPT ![p] = x]
    BY <1>1, SetsUnique
<1>3. CallOK(vt, d, x)
    BY DEF CallOK
<1>4. Book(vt, [call EXCEPT ![p] = d], [cwd EXCEPT ![p] = x])
    BY <1>1, <1>3, BookStep
<1>5. Book(vt, call', cwd')
    BY <1>2, <1>4, Zenon
<1>6. /\ Book(vnode', call', cwd') /\ Tree(node', vnode', call', {})
      /\ RecycleOK(node', vnode', call')
    BY <1>5, SettledTail
<1>7. PanicOK(panic', call')
    BY PanicNo
<1> QED
    BY <1>6, <1>7 DEF SgfsInv

(* A step that leaves the vnodes alone *)
LEMMA NodeNext ==
    ASSUME SgfsInv, NEW p \in Proc, NEW d \in CallType,
           \A v \in Vnode : /\ UseBit(d, v) = UseBit(call[p], v)
                            /\ HoldBit(d, v) = HoldBit(call[p], v)
                            /\ Locks(d, v) => Locks(call[p], v),
           SetOK(d, cwd[p]), RefOK(d), DirOK(vnode, d, cwd[p]), VpOK(vnode, d),
           vnode' = vnode, Sets(call, call', p, d), cwd' = cwd,
           Tree(node', vnode, call', {}), RecycleOK(node', vnode, call'),
           CacheOK(cache'), panic' = "no"
    PROVE  SgfsInv'
<1>1. /\ vnode \in [Vnode -> VnodeType] /\ cwd \in [Proc -> Vnode \cup {NULL}]
      /\ \A v \in Vnode : vnode[v] \in VnodeType /\ VnodeOK(vnode[v])
      /\ \A v \in Vnode : Locks(call[p], v) => vnode[v].lock = p
    BY Known
<1>2. \A v \in Vnode : Fits(p, vnode[v], vnode[v])
    BY <1>1, Fitting
<1>3. \A v \in Vnode :
        Follows(vnode[v], vnode[v], call[p], d, cwd[p], cwd[p], v)
    <2> SUFFICES ASSUME NEW v \in Vnode
                 PROVE  Follows(vnode[v], vnode[v], call[p], d, cwd[p], cwd[p], v)
        OBVIOUS
    <2>1. /\ vnode[v].use \in Nat /\ vnode[v].hold \in Nat
          /\ Dirs(cwd[p], v) \in 0 .. 1 /\ UseBit(d, v) \in 0 .. 1
          /\ HoldBit(d, v) \in 0 .. 1
        BY <1>1 DEF VnodeType, Dirs, UseBit, HoldBit
    <2> QED
        BY <2>1 DEF Follows
<1>4. Sets(cwd, cwd', p, cwd[p])
    BY <1>1, SetsSame
<1>5. cwd[p] \in Vnode \cup {NULL} /\ vnode = [v \in Vnode |-> vnode[v]]
    BY <1>1
<1>6. \A v \in Vnode : Locks(d, v) => vnode[v].lock = p
    BY <1>1
<1> QED
    BY <1>2, <1>3, <1>4, <1>5, <1>6, BooksNext

(* What is deleted stays so: nothing new is to be recycled. *)
LEMMA RecycleSame ==
    ASSUME SgfsInv, NEW p \in Proc, NEW d, NEW cm, Sets(call, cm, p, d),
           call[p].pc \notin Recycling, d.pc \notin Recycling,
           NEW mt, UsedOK(mt, vnode),
           \A n \in Node : mt[n].live /\ node[n].live =>
                mt[n].deleted = node[n].deleted
    PROVE  RecycleOK(mt, vnode, cm)
<1>1. RecycleOK(node, vnode, call) /\ UsedOK(node, vnode)
    BY DEF SgfsInv, Tree
<1>2. cm[p] = d /\ \A q \in Proc : q # p => cm[q] = call[q]
    BY DEF Sets
<1>3. \A v \in Vnode : vnode[v].data # NULL =>
            mt[vnode[v].data].deleted = node[vnode[v].data].deleted
    BY <1>1 DEF UsedOK
<1>4. ASSUME NEW q \in Proc, cm[q].pc = "reclaim"
      PROVE  mt[vnode[cm[q].put].data].deleted
    <2>1. q # p /\ cm[q] = call[q] /\ call[q].pc = "reclaim"
        BY <1>2, <1>4 DEF Recycling
    <2>2. /\ call[q] \in CallType /\ SetOK(call[q], cwd[q])
          /\ VpOK(vnode, call[q]) /\ \A u \in Vnode : VnodeOK(vnode[u])
        BY Known
    <2>3. call[q].put \in Vnode /\ call[q].put # NULL
        BY <2>1, <2>2 DEF SetOK, Putting, CallType
    <2>4. vnode[call[q].put].data # NULL
        BY <2>1, <2>2, <2>3 DEF VpOK, VnodeOK
    <2>5. node[vnode[call[q].put].data].deleted
        BY <1>1, <2>1 DEF RecycleOK
    <2> QED
        BY <1>3, <2>1, <2>3, <2>4, <2>5
<1>5. ASSUME Cardinality(Mount) = 1, NEW v \in Vnode,
             vnode[v].data # NULL, mt[vnode[v].data].deleted, vnode[v].use = 0
      PROVE  \E q \in Proc : cm[q].put = v /\ cm[q].pc \in Recycling
    <2>1. PICK q \in Proc : call[q].put = v /\ call[q].pc \in Recycling
        BY <1>1, <1>3, <1>5 DEF RecycleOK
    <2> QED
        BY <1>2, <2>1
<1> QED
    BY <1>1, <1>4, <1>5 DEF RecycleOK

(* A lookup finds an entry and takes a reference of its node. *)
LEMMA KeepLookupFound ==
    ASSUME SgfsInv, NEW p \in Proc, LookupNamed(p),
           sgfs_search(Pd(p), call[p].name) # NULL
    PROVE  SgfsInv'
<1> DEFINE pn == sgfs_search(Pd(p), call[p].name)
           d == [call[p] EXCEPT !.pc = "find", !.pn = pn, !.ref = TRUE]
<1>1. /\ call \in [Proc -> CallType] /\ cwd \in [Proc -> Vnode \cup {NULL}]
      /\ call[p] \in CallType /\ cwd[p] \in Vnode \cup {NULL}
      /\ node \in [Node -> NodeType]
      /\ SetOK(call[p], cwd[p]) /\ RefOK(call[p])
      /\ DirOK(vnode, call[p], cwd[p]) /\ VpOK(vnode, call[p])
      /\ UsedOK(node, vnode) /\ RefsOK(node, call) /\ KillsOK(node, call)
      /\ RootOK(node) /\ CacheOK(cache)
      /\ \A n \in Node : NodeOK(node, n)
    BY Known
<1>2. /\ call[p].pc = "lookup" /\ call[p].ref = FALSE /\ call[p].vp = NULL
      /\ pn \in Node /\ pn # Root /\ pn # NULL /\ node[pn].live
      /\ \A q \in Proc : ~Kills(call[q], pn)
    <2>1. call[p].pc = "lookup"
        BY DEF LookupNamed, At
    <2>2. /\ call[p].ref = FALSE /\ call[p].vp = NULL /\ call[p].dvp \in Vnode
          /\ Pd(p) \in Node
        BY <1>1, <2>1 DEF SetOK, RefOK, CallType, Walking, Pd
    <2>3. vnode[call[p].dvp].data = Pd(p)
        BY <1>1, <2>1 DEF DirOK, Pd
    <2>4. node[Pd(p)].live /\ node[Pd(p)].children \in Seq(Node)
        BY <1>1, <2>2, <2>3, NullAssumption DEF UsedOK, NodeType
    <2>5. pn \in ToSet(node[Pd(p)].children)
        BY <2>2, <2>4, SearchFinds
    <2>6. pn \in Node
        BY <2>4, <2>5 DEF ToSet
    <2>7. node[pn].live /\ node[pn].parent = Pd(p)
        BY <1>1, <2>2, <2>4, <2>5 DEF NodeOK
    <2>8. node[pn].parent # NULL
        BY <2>2, <2>7, NullAssumption
    <2>9. ~node[pn].deleted /\ pn # Root
        BY <1>1, <2>6, <2>7, <2>8 DEF NodeOK, RootOK
    <2>10. \A q \in Proc : ~Kills(call[q], pn)
        BY <1>1, <2>6, <2>9 DEF KillsOK
    <2> QED
        BY <2>1, <2>2, <2>6, <2>7, <2>9, <2>10, NullAssumption
<1>3. Sets(call, call', p, d)
    <2>1. call' = [call EXCEPT ![p] = d]
        BY <1>1 DEF CallType, LookupNamed
    <2> HIDE DEF d
    <2> QED
        BY <1>1, <2>1, SetsExcept
<1>4. /\ d \in CallType /\ d.pc = "find" /\ d.op = call[p].op
      /\ d.name = call[p].name /\ d.dvp = call[p].dvp /\ d.pd = call[p].pd
      /\ d.vp = call[p].vp /\ d.pn = pn /\ d.ref = TRUE
      /\ d.mount = call[p].mount /\ d.old = call[p].old /\ d.put = call[p].put
    <2>1. call[p] \in CallType /\ pn \in Node
        BY <1>1, <1>2
    <2> HIDE DEF pn
    <2> QED
        BY ZenonT(120), <2>1 DEF CallType
<1> HIDE DEF d
<1>5. \A v \in Vnode : /\ UseBit(d, v) = UseBit(call[p], v)
                       /\ HoldBit(d, v) = HoldBit(call[p], v)
                       /\ Locks(d, v) => Locks(call[p], v)
    BY <1>1, <1>2, <1>4, NullAssumption
       DEF UseBit, HoldBit, Uses, Holds, Locks, DirLocked, SetOK, Leaving
<1>6. SetOK(d, cwd[p]) /\ RefOK(d)
    <2>1. SetOK(d, cwd[p])
        BY <1>1, <1>2, <1>4, NullAssumption
           DEF SetOK, RefOK, DirLocked, Walking, Leaving, Putting
    <2>2. RefOK(d)
        BY <1>1, <1>2, <1>4 DEF RefOK, SetOK, Walking, Leaving
    <2> QED
        BY <2>1, <2>2
<1>7. DirOK(vnode, d, cwd[p]) /\ VpOK(vnode, d)
    BY <1>1, <1>2, <1>4 DEF DirOK, VpOK, SetOK
<1>8. /\ call'[p] = d /\ \A q \in Proc : q # p => call'[q] = call[q]
      /\ Tree(node, vnode, call, {}) /\ Book(vnode, call, cwd)
    BY <1>3 DEF Sets, SgfsInv
<1>9. Tree(node', vnode, call', {})
    <2>1. node' = sgnode_addref(node, pn)
        BY DEF LookupNamed
    <2>2. RefsOK(node, call')
        BY <1>1, <1>2, <1>4, <1>8 DEF RefsOK
    <2>3. \A m \in Node : /\ RefBit(call[p], m) = 0
                          /\ RefBit(d, m) = IF m = pn THEN 1 ELSE 0
        BY <1>2, <1>4 DEF RefBit
    <2>4. \A m \in Node :
            /\ Expected(node, vnode, call, m) \in Nat
            /\ Expected(node, vnode, call', m) = Expected(node, vnode, call, m)
                    - RefBit(call[p], m) + RefBit(d, m)
        BY <1>1, <1>8, ExpectedRef
    <2>5. \A m \in Node : m # pn => Expected(node, vnode, call', m)
                                        = Expected(node, vnode, call, m)
        BY <2>3, <2>4
    <2>6. Expected(node, vnode, call', pn) = Expected(node, vnode, call, pn) + 1
        BY <1>2, <2>3, <2>4
    <2>7. \A q \in Proc, m \in Node : Kills(call'[q], m) <=> Kills(call[q], m)
        BY <1>2, <1>4, <1>8 DEF Kills
    <2>8. Tree(sgnode_addref(node, pn), vnode, call', {})
        <3> HIDE DEF pn
        <3> QED
            BY <1>1, <1>2, <1>8, <2>2, <2>5, <2>6, <2>7, TreeAdd
    <2> QED
        BY <2>1, <2>8
<1>10. RecycleOK(node', vnode, call')
    <2>1. UsedOK(node', vnode)
        BY <1>9 DEF Tree
    <2>2. \A n \in Node : node'[n].live /\ node[n].live =>
                node'[n].deleted = node[n].deleted
        BY SMTT(60), <1>1, <1>2 DEF LookupNamed, sgnode_addref, NodeType
    <2>3. call[p].pc \notin Recycling /\ d.pc \notin Recycling
        BY <1>2, <1>4 DEF Recycling
    <2> QED
        BY <1>3, <2>1, <2>2, <2>3, RecycleSame
<1>11. vnode' = vnode /\ cwd' = cwd /\ CacheOK(cache') /\ panic' = "no"
    BY <1>1 DEF At, LookupNamed
<1> QED
    BY <1>3, <1>4, <1>5, <1>6, <1>7, <1>9, <1>10, <1>11, NodeNext

(* sgnode_release takes the reference away. *)
LEMMA KeepReleaseDec ==
    ASSUME SgfsInv, NEW p \in Proc, ReleaseDec(p)
    PROVE  SgfsInv'
<1> DEFINE pn == call[p].pn
           old == node[pn].refcount
           d == [call[p] EXCEPT !.pc = "compare", !.ref = FALSE, !.old = old]
<1>1. /\ call \in [Proc -> CallType] /\ cwd \in [Proc -> Vnode \cup {NULL}]
      /\ call[p] \in CallType /\ cwd[p] \in Vnode \cup {NULL}
      /\ node \in [Node -> NodeType]
      /\ SetOK(call[p], cwd[p]) /\ RefOK(call[p])
      /\ DirOK(vnode, call[p], cwd[p]) /\ VpOK(vnode, call[p])
      /\ UsedOK(node, vnode) /\ RefsOK(node, call) /\ KillsOK(node, call)
      /\ RootOK(node) /\ CacheOK(cache)
      /\ \A n \in Node : NodeOK(node, n)
    BY Known
<1>2. /\ call[p].pc = "release" /\ call[p].ref = TRUE /\ old \in Nat
      /\ pn \in Node /\ node[pn].live /\ old >= Base
      /\ Tree([node EXCEPT ![pn].refcount = @ - 1], vnode, call', {})
      /\ call' = [call EXCEPT ![p] = d] /\ d.pc = "compare"
      /\ d.ref = FALSE /\ d.pn = pn /\ d.old = old
    <2>1. call[p].pc = "release" /\ call[p].ref = TRUE
        BY <1>1 DEF ReleaseDec, At, RefOK, CallType
    <2>2. pn \in Node /\ node[pn].live
        BY <1>1, <2>1 DEF RefsOK
    <2>3. old \in Nat
        BY <1>1, <2>2 DEF NodeType
    <2>4. call' = [call EXCEPT ![p] = d]
        BY <1>1 DEF CallType, ReleaseDec
    <2>5. d.pc = "compare" /\ d.ref = FALSE /\ d.pn = pn /\ d.old = old
        BY <1>1 DEF CallType
    <2> HIDE DEF d
    <2>6. Sets(call, call', p, d)
        BY <1>1, <2>4, SetsExcept
    <2>7. call'[p] = d /\ \A q \in Proc : q # p => call'[q] = call[q]
        BY <2>6 DEF Sets
    <2>8. \A m \in Node : ~Kills(call[p], m)
        BY <2>1 DEF Kills
    <2>9. Tree(node, vnode, call, {})
        BY DEF SgfsInv
    <2>10. /\ Tree([node EXCEPT ![pn].refcount = @ - 1], vnode, call', {})
           /\ node[pn].refcount >= Base
        <3> HIDE DEF pn, old
        <3>1. pn = call[p].pn /\ old = node[pn].refcount
            BY DEF pn, old
        <3> QED
            BY <2>1, <2>2, <2>5, <2>7, <2>8, <2>9, <3>1, TreeDec
    <2> QED
        BY <2>1, <2>2, <2>3, <2>4, <2>5, <2>10
<1>3. Sets(call, call', p, d)
    <2>1. call' = [call EXCEPT ![p] = d]
        BY <1>2
    <2> HIDE DEF d
    <2> QED
        BY <1>1, <2>1, SetsExcept
<1>4. /\ d \in CallType /\ d.pc = "compare" /\ d.op = call[p].op
      /\ d.name = call[p].name /\ d.dvp = call[p].dvp /\ d.pd = call[p].pd
      /\ d.vp = call[p].vp /\ d.pn = call[p].pn /\ d.ref = FALSE
      /\ d.mount = call[p].mount /\ d.old = old /\ d.put = call[p].put
    <2>1. call[p] \in CallType /\ old \in Nat
        BY <1>1, <1>2
    <2>2. d = [call[p] EXCEPT !.pc = "compare", !.ref = FALSE, !.old = old]
        OBVIOUS
    <2> HIDE DEF d, old
    <2>3. PICK c \in CallType : c = call[p]
        BY <2>1
    <2>4. d = [c EXCEPT !.pc = "compare", !.ref = FALSE, !.old = old]
        BY <2>2, <2>3
    <2>5. /\ d \in CallType /\ d.pc = "compare" /\ d.op = c.op
          /\ d.name = c.name /\ d.dvp = c.dvp /\ d.pd = c.pd
          /\ d.vp = c.vp /\ d.pn = c.pn /\ d.ref = FALSE
          /\ d.mount = c.mount /\ d.old = old /\ d.put = c.put
        BY ZenonT(60), <2>1, <2>4 DEF CallType
    <2> QED
        BY <2>3, <2>5
<1> HIDE DEF d
<1>5. \A v \in Vnode : /\ UseBit(d, v) = UseBit(call[p], v)
                       /\ HoldBit(d, v) = HoldBit(call[p], v)
                       /\ Locks(d, v) => Locks(call[p], v)
    BY <1>1, <1>2, <1>4, NullAssumption
       DEF UseBit, HoldBit, Uses, Holds, Locks, DirLocked, SetOK, Leaving
<1>6. SetOK(d, cwd[p]) /\ RefOK(d)
    <2>1. SetOK(d, cwd[p])
        BY <1>1, <1>2, <1>4, NullAssumption
           DEF SetOK, RefOK, DirLocked, Walking, Leaving, Putting
    <2>2. RefOK(d)
        BY <1>1, <1>2, <1>4 DEF RefOK, SetOK, Walking, Leaving
    <2> QED
        BY <2>1, <2>2
<1>7. DirOK(vnode, d, cwd[p]) /\ VpOK(vnode, d)
    BY <1>1, <1>2, <1>4 DEF DirOK, VpOK, SetOK
<1>8. /\ call'[p] = d /\ \A q \in Proc : q # p => call'[q] = call[q]
      /\ Tree(node, vnode, call, {}) /\ Book(vnode, call, cwd)
    BY <1>3 DEF Sets, SgfsInv
<1>9. Tree(node', vnode, call', {})
    BY <1>2 DEF ReleaseDec
<1>10. RecycleOK(node', vnode, call')
    <2>1. UsedOK(node', vnode)
        BY <1>9 DEF Tree
    <2>2. \A n \in Node : node'[n].live /\ node[n].live =>
                node'[n].deleted = node[n].deleted
        BY <1>1, <1>2 DEF ReleaseDec, NodeType
    <2>3. call[p].pc \notin Recycling /\ d.pc \notin Recycling
        BY <1>2, <1>4 DEF Recycling
    <2> QED
        BY <1>3, <2>1, <2>2, <2>3, RecycleSame
<1>11. vnode' = vnode /\ cwd' = cwd /\ CacheOK(cache') /\ panic' = "no"
    BY <1>1 DEF At, ReleaseDec
<1> QED
    BY <1>3, <1>4, <1>5, <1>6, <1>7, <1>9, <1>10, <1>11, NodeNext

(* A node with a vnode is alive and is not being freed. *)
LEMMA NotKilled ==
    ASSUME SgfsInv, NEW v \in Vnode, NEW n \in Node, vnode[v].data = n
    PROVE  node[n].live /\ \A q \in Proc : ~Kills(call[q], n)
<1>1. /\ Tree(node, vnode, call, {}) /\ UsedOK(node, vnode)
      /\ Exact(node, vnode, call, {}) /\ KillsOK(node, call)
      /\ node \in [Node -> NodeType]
    BY DEF SgfsInv, Tree
<1>2. node[n].live
    BY <1>1, NullAssumption DEF UsedOK
<1>3. v \in VnodesAt(vnode, n)
    BY DEF VnodesAt
<1>4. Expected(node, vnode, call, n) \in Nat /\ Expected(node, vnode, call, n) > 2
    BY <1>1, <1>3, ExpectedBounds
<1>5. node[n].refcount = Expected(node, vnode, call, n) + 0
    BY <1>1, <1>2 DEF Exact
<1>6. node[n].refcount # 2
    BY <1>4, <1>5
<1> QED
    BY <1>1, <1>2, <1>6 DEF KillsOK

(* The last reference is gone: the node is freed. *)
LEMMA KeepReleaseDestroy ==
    ASSUME SgfsInv, NEW p \in Proc, ReleaseDestroy(p)
    PROVE  SgfsInv'
<1> DEFINE n == call[p].pn
           z == 0
           d == [call[p] EXCEPT !.pc = "done", !.old = z, !.pn = NULL]
<1>1. /\ call \in [Proc -> CallType] /\ cwd \in [Proc -> Vnode \cup {NULL}]
      /\ call[p] \in CallType /\ cwd[p] \in Vnode \cup {NULL}
      /\ node \in [Node -> NodeType]
      /\ SetOK(call[p], cwd[p]) /\ RefOK(call[p])
      /\ DirOK(vnode, call[p], cwd[p]) /\ VpOK(vnode, call[p])
      /\ UsedOK(node, vnode) /\ RefsOK(node, call) /\ KillsOK(node, call)
      /\ RootOK(node) /\ CacheOK(cache)
      /\ \A m \in Node : NodeOK(node, m)
    BY Known
<1>2. /\ call[p].pc = "destroy" /\ call[p].ref = FALSE
      /\ n \in Node /\ Kills(call[p], n) /\ node[n].live /\ z \in Nat
    <2>1. call[p].pc = "destroy" /\ call[p].ref = FALSE
        BY ZenonT(60), <1>1 DEF ReleaseDestroy, At, RefOK, CallType, Walking
    <2>2. n \in Node /\ Kills(call[p], n)
        BY <1>1, <2>1 DEF SetOK, Leaving, CallType, Kills
    <2> QED
        BY <1>1, <2>1, <2>2 DEF KillsOK
<1>3. Sets(call, call', p, d)
    <2>1. call' = [call EXCEPT ![p] = d]
        BY ZenonT(60), <1>1, <1>2 DEF CallType, ReleaseDestroy, Live
    <2> HIDE DEF d
    <2> QED
        BY <1>1, <2>1, SetsExcept
<1>4. /\ d \in CallType /\ d.pc = "done" /\ d.op = call[p].op
      /\ d.name = call[p].name /\ d.dvp = call[p].dvp /\ d.pd = call[p].pd
      /\ d.vp = call[p].vp /\ d.pn = NULL /\ d.ref = call[p].ref
      /\ d.mount = call[p].mount /\ d.old = z /\ d.put = call[p].put
    <2>1. call[p] \in CallType /\ z \in Nat
        BY <1>1, <1>2
    <2>2. PICK c \in CallType : c = call[p]
        BY <2>1
    <2>3. d = [c EXCEPT !.pc = "done", !.old = z, !.pn = NULL]
        BY <2>2
    <2> HIDE DEF d, n, z
    <2>4. /\ d \in CallType /\ d.pc = "done" /\ d.op = c.op
          /\ d.name = c.name /\ d.dvp = c.dvp /\ d.pd = c.pd
          /\ d.vp = c.vp /\ d.pn = NULL /\ d.ref = c.ref
          /\ d.mount = c.mount /\ d.old = z /\ d.put = c.put
        BY ZenonT(60), <2>1, <2>3 DEF CallType
    <2> QED
        BY <2>2, <2>4
<1> HIDE DEF d
<1>5. \A v \in Vnode : /\ UseBit(d, v) = UseBit(call[p], v)
                       /\ HoldBit(d, v) = HoldBit(call[p], v)
                       /\ Locks(d, v) => Locks(call[p], v)
    BY <1>1, <1>2, <1>4, NullAssumption
       DEF UseBit, HoldBit, Uses, Holds, Locks, DirLocked, SetOK, Leaving
<1>6. SetOK(d, cwd[p]) /\ RefOK(d)
    <2>1. SetOK(d, cwd[p])
        BY <1>1, <1>2, <1>4, NullAssumption
           DEF SetOK, RefOK, DirLocked, Walking, Leaving, Putting
    <2>2. RefOK(d)
        BY <1>1, <1>2, <1>4 DEF RefOK, SetOK, Walking, Leaving
    <2> QED
        BY <2>1, <2>2
<1>7. DirOK(vnode, d, cwd[p]) /\ VpOK(vnode, d)
    BY <1>1, <1>2, <1>4 DEF DirOK, VpOK, SetOK
<1>8. /\ call'[p] = d /\ \A q \in Proc : q # p => call'[q] = call[q]
      /\ Tree(node, vnode, call, {}) /\ Book(vnode, call, cwd)
    BY <1>3 DEF Sets, SgfsInv
<1>9. Tree(node', vnode, call', {}) /\ node' = Freed(node, n)
    <2>1. \A m \in Node : ~Kills(d, m)
        BY <1>4 DEF Kills
    <2>2. /\ sgfs_destroy(node, n) = Freed(node, n)
          /\ Tree(Freed(node, n), vnode, call', {})
        <3> HIDE DEF n
        <3> QED
            BY <1>2, <1>4, <1>8, <2>1, TreeDestroy
    <2>3. node' = sgfs_destroy(node, n)
        BY <1>2 DEF ReleaseDestroy, Live
    <2> QED
        BY <2>2, <2>3
<1>10. RecycleOK(node', vnode, call')
    <2>1. UsedOK(node', vnode)
        BY <1>9 DEF Tree
    <2>2. \A m \in Node : node'[m].live /\ node[m].live =>
                node'[m].deleted = node[m].deleted
        BY <1>9 DEF Freed, FreeNode
    <2>3. call[p].pc \notin Recycling /\ d.pc \notin Recycling
        BY <1>2, <1>4 DEF Recycling
    <2> QED
        BY <1>3, <2>1, <2>2, <2>3, RecycleSame
<1>11. vnode' = vnode /\ cwd' = cwd /\ CacheOK(cache') /\ panic' = "no"
    BY <1>1, <1>2 DEF At, ReleaseDestroy, Live
<1> QED
    BY <1>3, <1>4, <1>5, <1>6, <1>7, <1>9, <1>10, <1>11, NodeNext

(* mkdir makes a directory and takes a reference, unless memory is short. *)
LEMMA KeepMkdir ==
    ASSUME SgfsInv, NEW p \in Proc, sgfs_mkdir(p)
    PROVE  SgfsInv'
<1>1. CASE FreeNodes = {}
    <2>1. /\ call[p].pc = "mkdir" /\ Goto(p, "done") /\ panic' = "no"
          /\ UNCHANGED <<node, vnode, cwd, cache>>
        BY <1>1 DEF sgfs_mkdir, At
    <2>2. Move(p, "done")
        BY <2>1 DEF Move
    <2> QED
        BY <2>1, <2>2, KeepGoto
<1>2. CASE FreeNodes # {}
    <2>0. PICK n \in FreeNodes :
            /\ node' = sgfs_create_dir(node, Pd(p), n, call[p].name)
            /\ call' = [call EXCEPT ![p].pc = "find", ![p].pn = n,
                                    ![p].ref = TRUE]
        BY ZenonT(60), <1>2 DEF sgfs_mkdir
    <2> DEFINE d == [call[p] EXCEPT !.pc = "find", !.pn = n, !.ref = TRUE]
    <2>1. /\ call \in [Proc -> CallType] /\ cwd \in [Proc -> Vnode \cup {NULL}]
          /\ call[p] \in CallType /\ cwd[p] \in Vnode \cup {NULL}
          /\ node \in [Node -> NodeType]
          /\ SetOK(call[p], cwd[p]) /\ RefOK(call[p])
          /\ DirOK(vnode, call[p], cwd[p]) /\ VpOK(vnode, call[p])
          /\ UsedOK(node, vnode) /\ RefsOK(node, call) /\ KillsOK(node, call)
          /\ RootOK(node) /\ CacheOK(cache)
          /\ \A m \in Node : NodeOK(node, m)
        BY Known
    <2>2. /\ call[p].pc = "mkdir" /\ call[p].ref = FALSE /\ call[p].vp = NULL
          /\ n \in Node /\ ~node[n].live /\ n # Root /\ n # NULL
          /\ Pd(p) \in Node /\ node[Pd(p)].live
          /\ \A q \in Proc : ~Kills(call[q], Pd(p))
        <3>1. call[p].pc = "mkdir" /\ n \in Node /\ ~node[n].live
            BY ZenonT(60) DEF sgfs_mkdir, At, FreeNodes, Live
        <3>2. /\ call[p].ref = FALSE /\ call[p].vp = NULL /\ call[p].dvp \in Vnode
              /\ Pd(p) \in Node
            BY <2>1, <3>1 DEF SetOK, RefOK, CallType, Walking, Pd
        <3>3. vnode[call[p].dvp].data = Pd(p)
            BY <2>1, <3>1 DEF DirOK, Pd
        <3>4. node[Pd(p)].live /\ \A q \in Proc : ~Kills(call[q], Pd(p))
            BY <3>2, <3>3, NotKilled
        <3>5. n # Root
            BY <2>1, <3>1 DEF RootOK
        <3> QED
            BY <3>1, <3>2, <3>4, <3>5, NullAssumption
    <2>3. Sets(call, call', p, d)
        <3>1. call' = [call EXCEPT ![p] = d]
            BY <2>1, <2>0 DEF CallType
        <3> HIDE DEF d
        <3> QED
            BY <2>1, <3>1, SetsExcept
    <2>4. /\ d \in CallType /\ d.pc = "find" /\ d.op = call[p].op
          /\ d.name = call[p].name /\ d.dvp = call[p].dvp /\ d.pd = call[p].pd
          /\ d.vp = call[p].vp /\ d.pn = n /\ d.ref = TRUE
          /\ d.mount = call[p].mount /\ d.old = call[p].old
          /\ d.put = call[p].put
        <3>1. call[p] \in CallType /\ n \in Node
            BY <2>1, <2>2
        <3> QED
            BY ZenonT(120), <3>1 DEF CallType
    <2> HIDE DEF d
    <2>5. \A v \in Vnode : /\ UseBit(d, v) = UseBit(call[p], v)
                           /\ HoldBit(d, v) = HoldBit(call[p], v)
                           /\ Locks(d, v) => Locks(call[p], v)
        BY <2>1, <2>2, <2>4, NullAssumption
           DEF UseBit, HoldBit, Uses, Holds, Locks, DirLocked, SetOK, Leaving
    <2>6. SetOK(d, cwd[p]) /\ RefOK(d)
        <3>1. SetOK(d, cwd[p])
            BY <2>1, <2>2, <2>4, NullAssumption
               DEF SetOK, RefOK, DirLocked, Walking, Leaving, Putting
        <3>2. RefOK(d)
            BY <2>1, <2>2, <2>4 DEF RefOK, SetOK, Walking, Leaving
        <3> QED
            BY <3>1, <3>2
    <2>7. DirOK(vnode, d, cwd[p]) /\ VpOK(vnode, d)
        BY <2>1, <2>2, <2>4 DEF DirOK, VpOK, SetOK
    <2>8. /\ call'[p] = d /\ \A q \in Proc : q # p => call'[q] = call[q]
          /\ Tree(node, vnode, call, {}) /\ Book(vnode, call, cwd)
        BY <2>3 DEF Sets, SgfsInv
    <2>9. /\ Tree(node', vnode, call', {})
          /\ \A m \in Node : m # n => /\ node'[m].live = node[m].live
                                      /\ node'[m].deleted = node[m].deleted
        <3>1. call[p].name \in Name \cup {NULL}
            BY <2>1 DEF CallType
        <3>2. \A m \in Node : ~Kills(call[p], m) /\ ~Kills(d, m)
            BY <2>2, <2>4 DEF Kills
        <3> DEFINE nd == sgfs_create_dir(node, Pd(p), n, call[p].name)
        <3>3. /\ Tree(nd, vnode, call', {})
              /\ \A m \in Node : m # n => /\ nd[m].live = node[m].live
                                          /\ nd[m].deleted = node[m].deleted
            BY <2>2, <2>4, <2>8, <3>1, <3>2, TreeCreate
        <3> QED
            BY <3>3, <2>0, Zenon
    <2>10. RecycleOK(node', vnode, call')
        <3>1. UsedOK(node', vnode)
            BY <2>9 DEF Tree
        <3>2. \A m \in Node : node'[m].live /\ node[m].live =>
                    node'[m].deleted = node[m].deleted
            BY <2>2, <2>9
        <3>3. call[p].pc \notin Recycling /\ d.pc \notin Recycling
            BY <2>2, <2>4 DEF Recycling
        <3> QED
            BY <2>3, <3>1, <3>2, <3>3, RecycleSame
    <2>11. vnode' = vnode /\ cwd' = cwd /\ CacheOK(cache') /\ panic' = "no"
        BY ZenonT(60), <2>1 DEF At, sgfs_mkdir
    <2> QED
        BY SMTT(60), <2>3, <2>4, <2>5, <2>6, <2>7, <2>9, <2>10, <2>11, NodeNext
<1> QED
    BY <1>1, <1>2

(* A lookup by name *)
LEMMA KeepLookupNamed ==
    ASSUME SgfsInv, NEW p \in Proc, LookupNamed(p)
    PROVE  SgfsInv'
<1> DEFINE pn == sgfs_search(Pd(p), call[p].name)
<1>1. /\ call[p] \in CallType /\ SetOK(call[p], cwd[p]) /\ RefOK(call[p])
      /\ call[p].pc = "lookup" /\ panic' = "no" /\ UNCHANGED <<cwd, cache>>
    BY Known DEF LookupNamed, At
<1>2. CASE pn # NULL
    BY <1>2, KeepLookupFound
<1>3. CASE /\ call[p].op = "mkdir" /\ Goto(p, "mkdir")
           /\ UNCHANGED <<node, vnode>>
    <2>1. Move(p, "mkdir")
        BY <1>1, <1>3 DEF Move
    <2> QED
        BY <1>1, <1>3, <2>1, KeepGoto
<1>4. CASE EndCall(p, vnode) /\ UNCHANGED node
    <2>1. /\ call[p].vp = NULL /\ call[p].put = NULL /\ ~call[p].ref
          /\ call[p].dvp # NULL /\ DirLocked(call[p])
        BY <1>1 DEF SetOK, RefOK, DirLocked, Walking, Putting, Leaving
    <2>2. \A n \in Node : ~Kills(call[p], n)
        BY <1>1 DEF Kills
    <2> QED
        BY <1>1, <1>4, <2>1, <2>2, KeepEndCall
<1> QED
    BY <1>2, <1>3, <1>4 DEF LookupNamed

(* A step that changes none of what the invariant speaks of *)
LEMMA KeepSame ==
    ASSUME SgfsInv, UNCHANGED <<node, vnode, cwd, call, cache, panic>>
    PROVE  SgfsInv'
    BY DEF SgfsInv

(* sgfs_readdir gives out file numbers, or stops without a grandparent. *)
LEMMA KeepReaddir ==
    ASSUME SgfsInv, NEW p \in Proc, sgfs_readdir(p)
    PROVE  SgfsInv'
<1>1. CASE Panic("sgfstype_parent node has no grandparent")
    BY ZenonT(60), <1>1, KeepPanic DEF Panics
<1>2. CASE UNCHANGED <<node, vnode, cwd, call, cache, panic>>
    BY <1>2, KeepSame
<1> QED
    BY ZenonT(60), <1>1, <1>2 DEF sgfs_readdir

(* A directory becomes removed whose vnode v is in use. *)
LEMMA RecycleRemoved ==
    ASSUME SgfsInv, NEW p \in Proc, NEW d, NEW cm, Sets(call, cm, p, d),
           call[p].pc \notin Recycling, d.pc \notin Recycling,
           NEW mt, UsedOK(mt, vnode), NEW n \in Node, ~node[n].deleted,
           NEW v \in Vnode, vnode[v].data = n, vnode[v].use # 0,
           \A m \in Node : m # n /\ mt[m].live =>
                mt[m].deleted = node[m].deleted
    PROVE  RecycleOK(mt, vnode, cm)
<1>1. /\ RecycleOK(node, vnode, call) /\ UsedOK(node, vnode)
      /\ \A u \in Vnode : vnode[u] \in VnodeType /\ VnodeOK(vnode[u])
    BY Known DEF SgfsInv, Tree
<1>2. cm[p] = d /\ \A q \in Proc : q # p => cm[q] = call[q]
    BY DEF Sets
<1>3. \A u \in Vnode : vnode[u].data # NULL /\ vnode[u].data # n =>
            mt[vnode[u].data].deleted = node[vnode[u].data].deleted
    BY <1>1 DEF UsedOK
<1>4. ASSUME NEW q \in Proc, cm[q].pc = "reclaim"
      PROVE  mt[vnode[cm[q].put].data].deleted
    <2>1. q # p /\ cm[q] = call[q] /\ call[q].pc = "reclaim"
        BY <1>2, <1>4 DEF Recycling
    <2>2. /\ call[q] \in CallType /\ SetOK(call[q], cwd[q])
          /\ VpOK(vnode, call[q])
        BY Known
    <2>3. call[q].put \in Vnode /\ call[q].put # NULL
        BY <2>1, <2>2 DEF SetOK, Putting, CallType
    <2>4. vnode[call[q].put].data # NULL
        BY <1>1, <2>1, <2>2, <2>3 DEF VpOK, VnodeOK
    <2>5. node[vnode[call[q].put].data].deleted
        BY <1>1, <2>1 DEF RecycleOK
    <2>6. vnode[call[q].put].data # n
        BY <2>5
    <2> QED
        BY <1>3, <2>1, <2>3, <2>4, <2>5, <2>6
<1>5. ASSUME Cardinality(Mount) = 1, NEW u \in Vnode,
             vnode[u].data # NULL, mt[vnode[u].data].deleted, vnode[u].use = 0
      PROVE  \E q \in Proc : cm[q].put = u /\ cm[q].pc \in Recycling
    <2>1. vnode[u].mount = vnode[v].mount
        <3>1. PICK m : Mount = {m}
            BY <1>5, FiniteAssumption, FS_Singleton
        <3>2. vnode[v].data # NULL
            BY NullAssumption
        <3> QED
            BY <1>1, <1>5, <3>1, <3>2 DEF VnodeOK
    <2>2. vnode[u].data # n
        BY <1>1, <1>5, <2>1 DEF RecycleOK, OneVnode
    <2>3. PICK q \in Proc : call[q].put = u /\ call[q].pc \in Recycling
        BY <1>1, <1>3, <1>5, <2>2 DEF RecycleOK
    <2> QED
        BY <1>2, <2>3
<1> QED
    BY <1>1, <1>4, <1>5 DEF RecycleOK

(* The name is gone: two references are released, the link of the directory *)
(* and the one of its parent.                                               *)
LEMMA TreeRmdir ==
    ASSUME NEW vs, NEW cl, Tree(node, vs, cl, {}),
           NEW n \in Node, node[n].live, ~node[n].deleted, n # Root,
           node[n].children = <<>>
    PROVE  /\ Tree(Unlink(n), vs, cl, {})
           /\ \A m \in Node : m # n /\ Unlink(n)[m].live =>
                Unlink(n)[m].deleted = node[m].deleted
<1> DEFINE u == Unlinked(node, n)
           pt == node[n].parent
           r == ReleaseLocked(u, n)
           t == ReleaseLocked(r, pt)
<1>1. /\ pt \in Node \ {n} /\ node[pt].live
      /\ Tree(u, vs, cl, {n, pt})
      /\ \A m \in Node : u[m].live = node[m].live
      /\ \A m \in Node : m # n => u[m].deleted = node[m].deleted
    BY TreeUnlink
<1>2. Unlink(n) = t
    BY DEF Unlink, Unlinked
<1> HIDE DEF u, pt, r, t
<1>3. /\ Tree(r, vs, cl, {n, pt} \ {n})
      /\ \A m \in Node : m # n => r[m] = u[m]
    <2>1. n \in {n, pt} /\ u[n].live
        BY <1>1
    <2> QED
        BY SMTT(60), <1>1, <2>1, TreeRelease DEF r
<1>4. {n, pt} \ {n} = {pt} /\ pt \in {pt} /\ r[pt].live
    BY <1>1, <1>3
<1>5. /\ Tree(t, vs, cl, {pt} \ {pt})
      /\ \A m \in Node : m # pt => t[m] = r[m]
      /\ \A m \in Node : t[m].live => t[m].deleted = r[m].deleted
    <2>1. Tree(r, vs, cl, {pt})
        BY <1>3, <1>4, Zenon
    <2> QED
        BY <1>1, <1>4, <2>1, TreeRelease DEF t
<1>6. Tree(t, vs, cl, {})
    <2>1. {pt} \ {pt} = {}
        OBVIOUS
    <2> QED
        BY <1>5, <2>1, Zenon
<1>7. \A m \in Node : m # n /\ t[m].live => t[m].deleted = node[m].deleted
    BY SMTT(60), <1>1, <1>3, <1>5
<1> QED
    BY <1>2, <1>6, <1>7

(* rmdir removes the directory, or finds that it cannot. *)
LEMMA KeepRmdir ==
    ASSUME SgfsInv, NEW p \in Proc, sgfs_rmdir(p)
    PROVE  SgfsInv'
<1> DEFINE v == call[p].vp
           n == vnode[v].data
           ok == ~node[n].deleted /\ node[n].children = <<>>
<1>1. CASE ~ok
    <2>1. node' = node
        BY Zenon, <1>1 DEF sgfs_rmdir
    <2>2. call \in [Proc -> CallType]
        BY Known
    <2>3. call'[p].pc = "put"
        BY <1>1, <2>2 DEF sgfs_rmdir, CallType
    <2> QED
        BY SMTT(30), <2>1, <2>3, KeepDonePut
<1>2. CASE ok
    <2> DEFINE d == [call[p] EXCEPT !.pc = "purge", !.put = v, !.vp = NULL]
    <2>1. /\ call \in [Proc -> CallType] /\ cwd \in [Proc -> Vnode \cup {NULL}]
          /\ call[p] \in CallType /\ cwd[p] \in Vnode \cup {NULL}
          /\ SetOK(call[p], cwd[p]) /\ RefOK(call[p])
          /\ DirOK(vnode, call[p], cwd[p]) /\ VpOK(vnode, call[p])
          /\ UsedOK(node, vnode) /\ CacheOK(cache)
          /\ \A w \in Vnode : VnodeOK(vnode[w])
        BY SMTT(60), Known
    <2>2. /\ vnode' = vnode /\ cwd' = cwd /\ node' = Unlink(n)
          /\ cache' = cache /\ panic' = "no"
          /\ call[p].pc = "done" /\ call[p].op = "rmdir"
          /\ call[p].vp # NULL /\ vnode[v].st = "live"
        BY <1>2 DEF sgfs_rmdir, At, Got, Usable
    <2>3. Sets(call, call', p, d)
        <3>1. call' = [call EXCEPT ![p] = d]
            BY <1>2, <2>1 DEF CallType, sgfs_rmdir
        <3> HIDE DEF d
        <3> QED
            BY <2>1, <3>1, SetsExcept
    <2>4. /\ d \in CallType /\ d.pc = "purge" /\ d.op = call[p].op
          /\ d.name = call[p].name /\ d.dvp = call[p].dvp /\ d.pd = call[p].pd
          /\ d.vp = NULL /\ d.pn = call[p].pn /\ d.ref = call[p].ref
          /\ d.mount = call[p].mount /\ d.old = call[p].old
          /\ d.put = call[p].vp
        BY ZenonT(60), <2>1, <2>2 DEF CallType
    <2> HIDE DEF d
    <2>5. \A w \in Vnode : /\ UseBit(d, w) = UseBit(call[p], w)
                           /\ HoldBit(d, w) = HoldBit(call[p], w)
                           /\ Locks(d, w) => Locks(call[p], w)
        BY <2>1, <2>2, <2>4, NullAssumption
           DEF UseBit, HoldBit, Uses, Holds, Locks, DirLocked, SetOK
    <2>6. SetOK(d, cwd[p]) /\ RefOK(d)
        BY <2>1, <2>2, <2>4, NullAssumption
           DEF SetOK, RefOK, DirLocked, Walking, Leaving, Putting
    <2>7. DirOK(vnode, d, cwd[p]) /\ VpOK(vnode, d)
        BY <2>1, <2>2, <2>4 DEF DirOK, VpOK, SetOK
    <2>8. /\ call'[p] = d /\ \A q \in Proc : q # p => call'[q] = call[q]
          /\ Tree(node, vnode, call, {})
        BY <2>3 DEF Sets, SgfsInv
    <2>9. /\ v \in Vnode /\ n \in Node /\ n # Root /\ node[n].live
          /\ Uses(call[p], v)
        <3>1. v \in Vnode /\ Uses(call[p], v)
            BY <2>1, <2>2 DEF CallType, Uses
        <3>2. n # NULL /\ n # Root
            BY <2>1, <2>2, <3>1 DEF VnodeOK, VpOK
        <3> QED
            BY <2>1, <3>1, <3>2 DEF UsedOK
    <2>10. /\ Tree(node', vnode, call, {})
           /\ \A m \in Node : m # n /\ node'[m].live =>
                node'[m].deleted = node[m].deleted
        <3> HIDE DEF n
        <3>1. /\ Tree(Unlink(n), vnode, call, {})
              /\ \A m \in Node : m # n /\ Unlink(n)[m].live =>
                    Unlink(n)[m].deleted = node[m].deleted
            BY <1>2, <2>8, <2>9, TreeRmdir
        <3> QED
            BY <2>2, <3>1, Zenon
    <2>11. Tree(node', vnode, call', {})
        <3>1. \A q \in Proc, m \in Node : Kills(call'[q], m) <=> Kills(call[q], m)
            BY <2>2, <2>4, <2>8 DEF Kills
        <3>2. \A q \in Proc : /\ call'[q].ref <=> call[q].ref
                              /\ call'[q].pn = call[q].pn
            BY <2>4, <2>8
        <3> QED
            BY <2>10, <3>1, <3>2, TreeQuiet
    <2>12. RecycleOK(node', vnode, call')
        <3>1. UsedOK(node', vnode)
            BY <2>11 DEF Tree
        <3>2. vnode[v].use # 0
            <4>1. vnode[v].use >= 1
                BY <2>9, CountsFacts
            <4> QED
                BY <4>1
        <3>3. call[p].pc \notin Recycling /\ d.pc \notin Recycling
            BY <2>2, <2>4 DEF Recycling
        <3>4. PICK m \in Node : m = n
            BY <2>9
        <3>5. PICK w \in Vnode : w = v
            BY <2>9
        <3> HIDE DEF v, n
        <3>6. vnode[w].data = m /\ vnode[w].use # 0 /\ ~node[m].deleted
            BY <1>2, <3>2, <3>4, <3>5 DEF n
        <3> QED
            BY <2>3, <2>10, <3>1, <3>3, <3>4, <3>6, RecycleRemoved
    <2>13. CacheOK(cache')
        BY <2>1, <2>2 DEF CacheOK
    <2> QED
        BY <2>2, <2>3, <2>4, <2>5, <2>6, <2>7, <2>11, <2>12, <2>13, NodeNext
<1> QED
    BY <1>1, <1>2

(* A vnode that gets a node is found there by a recount. *)
LEMMA ExpectedVnode ==
    ASSUME NEW ns \in [Node -> NodeType], NEW vs, NEW cl,
           NEW v \in Vnode, vs[v].data = NULL, NEW n \in Node, NEW vt,
           vt[v].data = n, \A u \in Vnode : u # v => vt[u].data = vs[u].data
    PROVE  /\ Expected(ns, vt, cl, n) = Expected(ns, vs, cl, n) + 1
           /\ \A m \in Node : m # n =>
                Expected(ns, vt, cl, m) = Expected(ns, vs, cl, m)
<1>1. IsFiniteSet(VnodesAt(vs, n))
    BY FiniteAssumption, FS_Subset DEF VnodesAt
<1>2. v \notin VnodesAt(vs, n) /\ VnodesAt(vt, n) = VnodesAt(vs, n) \cup {v}
    BY NullAssumption DEF VnodesAt
<1>3. /\ Cardinality(VnodesAt(vt, n)) = Cardinality(VnodesAt(vs, n)) + 1
      /\ Cardinality(VnodesAt(vs, n)) \in Nat
    BY ZenonT(60), <1>1, <1>2, FS_AddElement, FS_CardinalityType
<1>4. \A m \in Node : m # n => VnodesAt(vt, m) = VnodesAt(vs, m)
    BY NullAssumption DEF VnodesAt
<1>5. Expected(ns, vt, cl, n) = Expected(ns, vs, cl, n) + 1
    <2> DEFINE d == (IF ns[n].deleted THEN 0 ELSE 1) + 2
                    + Len(ns[n].children)
               rr == Cardinality(RefsTo(cl, n))
    <2>1. /\ Expected(ns, vs, cl, n) = d + Cardinality(VnodesAt(vs, n)) + rr
          /\ Expected(ns, vt, cl, n) = d + Cardinality(VnodesAt(vt, n)) + rr
        BY DEF Expected
    <2>2. d \in Int
        BY DEF NodeType
    <2>3. rr \in Nat
        BY CountType DEF RefsTo
    <2> HIDE DEF d, rr
    <2> QED
        BY <1>3, <2>1, <2>2, <2>3
<1>6. \A m \in Node : m # n =>
        Expected(ns, vt, cl, m) = Expected(ns, vs, cl, m)
    BY <1>4 DEF Expected
<1> QED
    BY <1>5, <1>6

(* Nobody refers to a node that is being freed. *)
LEMMA KilledFacts ==
    ASSUME SgfsInv, NEW n \in Node, NEW q \in Proc, Kills(call[q], n)
    PROVE  /\ n # Root /\ node[n].live /\ node[n].deleted
           /\ \A v \in Vnode : vnode[v].data # n
           /\ \A p \in Proc : call[p].ref => call[p].pn # n
<1>1. /\ Exact(node, vnode, call, {}) /\ KillsOK(node, call)
      /\ node \in [Node -> NodeType] /\ RootOK(node)
    BY DEF SgfsInv, Tree
<1>2. node[n].live /\ node[n].deleted /\ node[n].refcount = 2
    BY <1>1 DEF KillsOK
<1>3. Expected(node, vnode, call, n) \in Nat
    BY <1>1, ExpectedBounds
<1>4. node[n].refcount = Expected(node, vnode, call, n) + 0
    BY <1>1, <1>2 DEF Exact
<1>5. Expected(node, vnode, call, n) = 2
    BY <1>2, <1>3, <1>4
<1>6. VnodesAt(vnode, n) = {} /\ RefsTo(call, n) = {}
    BY <1>1, <1>5, ExpectedBounds
<1> QED
    BY <1>1, <1>2, <1>6 DEF VnodesAt, RefsTo, RootOK

(* sgfs_allocv gives the new vnode its node. *)
LEMMA KeepInsert ==
    ASSUME SgfsInv, NEW p \in Proc, AllocInsert(p), panic' = "no"
    PROVE  SgfsInv'
<1>0. PICK n \in Node : n = call[p].pn
    <2>1. call[p] \in CallType /\ SetOK(call[p], cwd[p]) /\ call[p].pc = "insert"
        BY ZenonT(60), Known DEF AllocInsert, At
    <2> QED
        BY <2>1 DEF SetOK, Walking, CallType
<1>a. /\ node[n].live /\ VnodesOn(n, call[p].mount) = {}
      /\ \A q \in Proc : ~Kills(call[q], n)
    <2>1. \A q \in Proc : Dying(n, q) <=> Kills(call[q], n)
        BY DEF Dying, Kills
    <2> QED
        BY <1>0, <2>1 DEF AllocInsert, Panic, Live
<1>b. /\ node' = sgnode_addref(node, n)
      /\ UNCHANGED <<cwd, cache>>
    BY <1>0 DEF AllocInsert, Panic
<1>c. Goto(p, AfterAlloc(p))
    BY <1>0 DEF AllocInsert, Panic
<1> DEFINE v == call[p].vp
           s == [vnode[v] EXCEPT !.st = "live", !.data = n]
           d == [call[p] EXCEPT !.pc = AfterAlloc(p)]
           vt == [vnode EXCEPT ![v] = s]
<1>1. /\ vnode \in [Vnode -> VnodeType] /\ call \in [Proc -> CallType]
      /\ cwd \in [Proc -> Vnode \cup {NULL}]
      /\ call[p] \in CallType /\ cwd[p] \in Vnode \cup {NULL}
      /\ \A u \in Vnode : vnode[u] \in VnodeType /\ VnodeOK(vnode[u])
      /\ SetOK(call[p], cwd[p]) /\ RefOK(call[p])
      /\ DirOK(vnode, call[p], cwd[p]) /\ VpOK(vnode, call[p])
      /\ \A u \in Vnode : Locks(call[p], u) => vnode[u].lock = p
      /\ UsedOK(node, vnode) /\ RefsOK(node, call) /\ CacheOK(cache)
      /\ node \in [Node -> NodeType]
    BY Known
<1>2. /\ v \in Vnode /\ call[p].pc = "insert" /\ call[p].vp = v
      /\ vnode[v].lock = p /\ vnode[v].st = "new" /\ vnode[v].data = NULL
      /\ vnode[v].use >= 1 /\ vnode[v].mount = call[p].mount
      /\ call[p].mount \in Mount
      /\ AfterAlloc(p) \in {"release", "relock", "done"}
    <2>1. call[p].pc = "insert" /\ v \in Vnode
        BY ZenonT(60), <1>1 DEF AllocInsert, At, SetOK, CallType
    <2>2. Uses(call[p], v) /\ Locks(call[p], v)
        BY <2>1 DEF Uses, Locks
    <2>3. vnode[v].use >= 1 /\ vnode[v].lock = p
        BY <1>1, <2>1, <2>2, CountsFacts
    <2>4. /\ vnode[v].st = "new" /\ vnode[v].mount = call[p].mount
          /\ vnode[v].data = NULL
        BY <1>1, <2>1, NullAssumption DEF VpOK, VnodeOK
    <2>5. call[p].mount \in Mount
        BY <1>1, <2>1 DEF SetOK, Putting
    <2> QED
        BY <2>1, <2>3, <2>4, <2>5 DEF AfterAlloc
<1>3. /\ s \in VnodeType /\ s.st = "live" /\ s.mount = vnode[v].mount
      /\ s.data = n /\ s.use = vnode[v].use /\ s.hold = vnode[v].hold
      /\ s.lock = p
    BY ZenonT(120), <1>1, <1>2 DEF VnodeType
<1>4. vnode' = vt
    <2>1. vnode' = [vnode EXCEPT ![v].st = "live", ![v].data = n]
        BY <1>0 DEF AllocInsert, Panic
    <2> QED
        BY ZenonT(60), <1>1, <1>2, <2>1 DEF VnodeType
<1>5. /\ d \in CallType /\ d.pc = AfterAlloc(p) /\ d.op = call[p].op
      /\ d.name = call[p].name /\ d.dvp = call[p].dvp /\ d.pd = call[p].pd
      /\ d.vp = call[p].vp /\ d.pn = call[p].pn /\ d.ref = call[p].ref
      /\ d.mount = call[p].mount /\ d.old = call[p].old /\ d.put = call[p].put
    BY SMTT(60), <1>1, <1>2 DEF CallType
<1>6. Sets(call, call', p, d) /\ Sets(cwd, cwd', p, cwd[p])
    <2>1. call' = [call EXCEPT ![p] = d]
        BY <1>1, <1>c DEF CallType, Goto
    <2>2. cwd' = [cwd EXCEPT ![p] = cwd[p]]
        BY <1>1, <1>b
    <2> HIDE DEF d
    <2> QED
        BY <1>1, <2>1, <2>2, SetsExcept
<1> HIDE DEF s, d
<1>7. /\ vt \in [Vnode -> VnodeType] /\ vt[v] = s
      /\ \A u \in Vnode : u # v => vt[u] = vnode[u]
    BY <1>1, <1>2, <1>3, PutVnode
<1> HIDE DEF vt
<1>8. \A u \in Vnode : Fits(p, vnode[u], vt[u])
    <2>1. VnodeOK(s)
        BY <1>2, <1>3, NullAssumption DEF VnodeOK
    <2>2. Fits(p, vnode[v], s)
        BY <1>2, <1>3, <2>1 DEF Fits
    <2>3. \A u \in Vnode : Fits(p, vnode[u], vnode[u])
        BY <1>1, Fitting
    <2> QED
        BY <1>7, <2>2, <2>3
<1>9. \A u \in Vnode : /\ UseBit(d, u) = UseBit(call[p], u)
                       /\ HoldBit(d, u) = HoldBit(call[p], u)
                       /\ Locks(d, u) => Locks(call[p], u)
    BY <1>1, <1>2, <1>5, NullAssumption
       DEF UseBit, HoldBit, Uses, Holds, SetOK, Locks, DirLocked, AfterAlloc
<1>10. ASSUME NEW u \in Vnode
       PROVE  Follows(vnode[u], vt[u], call[p], d, cwd[p], cwd[p], u)
    <2>1. /\ vnode[u].use \in Nat /\ vnode[u].hold \in Nat
          /\ Dirs(cwd[p], u) \in 0 .. 1 /\ UseBit(d, u) \in 0 .. 1
          /\ HoldBit(d, u) \in 0 .. 1
        BY <1>1 DEF VnodeType, Dirs, UseBit, HoldBit
    <2>2. vt[u].use = vnode[u].use /\ vt[u].hold = vnode[u].hold
        BY <1>3, <1>7
    <2> QED
        BY <1>9, <2>1, <2>2 DEF Follows
<1>11. \A u \in Vnode : Locks(d, u) => vt[u].lock = p
    BY <1>1, <1>3, <1>7, <1>9
<1>12. SetOK(d, cwd[p]) /\ RefOK(d)
    BY SMTT(60), <1>1, <1>2, <1>5, NullAssumption DEF SetOK, RefOK, DirLocked,
       Locks, Walking, Leaving, Putting, AfterAlloc
<1>13. DirOK(vt, d, cwd[p]) /\ VpOK(vt, d)
    BY <1>0, <1>1, <1>2, <1>3, <1>5, <1>7, NullAssumption
       DEF DirOK, VpOK, SetOK, RefOK, AfterAlloc, VnodeOK, Walking
<1>14. /\ call'[p] = d /\ \A q \in Proc : q # p => call'[q] = call[q]
       /\ Tree(node, vnode, call, {}) /\ RecycleOK(node, vnode, call)
    BY <1>6 DEF Sets, SgfsInv
<1>15. /\ Tree(node', vt, call', {})
       /\ \A m \in Node : node'[m].deleted = node[m].deleted
    <2>1. UsedOK(node, vt)
        BY <1>a, <1>1, <1>2, <1>3, <1>7 DEF UsedOK
    <2>2. RefsOK(node, call')
        BY <1>1, <1>5, <1>14 DEF RefsOK
    <2>3. vnode[v].data = NULL /\ vt[v].data = n
          /\ \A u \in Vnode : u # v => vt[u].data = vnode[u].data
        BY <1>2, <1>3, <1>7
    <2>4. /\ Expected(node, vt, call, n) = Expected(node, vnode, call, n) + 1
          /\ \A m \in Node : m # n =>
                Expected(node, vt, call, m) = Expected(node, vnode, call, m)
        <3>1. v \in Vnode /\ node \in [Node -> NodeType]
            BY <1>1, <1>2
        <3> HIDE DEF v
        <3> QED
            BY SMTT(60), <2>3, <3>1, ExpectedVnode
    <2>5. ASSUME NEW m \in Node
          PROVE  Expected(node, vt, call', m) = Expected(node, vt, call, m)
        <3>1. RefBit(call[p], m) = RefBit(call'[p], m) /\ RefBit(call[p], m) \in 0 .. 1
            BY <1>5, <1>14 DEF RefBit
        <3>2. /\ Expected(node, vt, call, m) \in Nat
              /\ Expected(node, vt, call', m) = Expected(node, vt, call, m)
                    - RefBit(call[p], m) + RefBit(call'[p], m)
            BY <1>1, <1>14, ExpectedRef
        <3> QED
            BY <3>1, <3>2
    <2>6. \A q \in Proc, m \in Node : Kills(call'[q], m) <=> Kills(call[q], m)
        <3>1. \A m \in Node : ~Kills(d, m) /\ ~Kills(call[p], m)
            BY <1>2, <1>5 DEF Kills, AfterAlloc
        <3> QED
            BY <1>14, <3>1
    <2>7. Tree(sgnode_addref(node, n), vt, call', {})
        BY SMTT(60), <1>a, <1>14, <2>1, <2>2, <2>4, <2>5, <2>6, TreeAdd
    <2>8. \A m \in Node : sgnode_addref(node, n)[m].deleted = node[m].deleted
        BY <1>1 DEF sgnode_addref, NodeType
    <2> QED
        BY <1>b, <2>7, <2>8
<1>16. RecycleOK(node', vt, call')
    <2>1. OneVnode(vt)
        <3>1. \A u \in Vnode : vnode[u].data = n => vnode[u].mount # vnode[v].mount
            BY <1>a, <1>2 DEF VnodesOn, VnodesOf
        <3> QED
            BY <1>3, <1>7, <1>14, <3>1 DEF RecycleOK, OneVnode
    <2>2. ASSUME NEW q \in Proc, call'[q].pc = "reclaim"
          PROVE  node'[vt[call'[q].put].data].deleted
        <3>1. q # p /\ call'[q] = call[q] /\ call[q].pc = "reclaim"
            BY <1>2, <1>5, <1>14, <2>2
        <3>2. /\ call[q] \in CallType /\ SetOK(call[q], cwd[q])
              /\ VpOK(vnode, call[q])
            BY Known
        <3>3. call[q].put \in Vnode /\ vnode[call[q].put].st = "live"
            BY SMTT(60), <3>1, <3>2 DEF SetOK, VpOK, Putting, CallType
        <3>4. /\ call[q].put # v /\ vnode[call[q].put].data \in Node
              /\ node[vnode[call[q].put].data].deleted
            BY <1>1, <1>2, <1>14, <3>1, <3>3 DEF VnodeOK, UsedOK, RecycleOK
        <3> QED
            BY <1>7, <1>15, <3>1, <3>3, <3>4
    <2>3. ASSUME Cardinality(Mount) = 1, NEW u \in Vnode,
                 vt[u].data # NULL, node'[vt[u].data].deleted, vt[u].use = 0
          PROVE  \E q \in Proc : call'[q].put = u /\ call'[q].pc \in Recycling
        <3>1. u # v /\ vt[u] = vnode[u]
            BY <1>2, <1>3, <1>7, <2>3
        <3>2. node[vnode[u].data].deleted
            BY <1>1, <1>15, <2>3, <3>1 DEF UsedOK
        <3>3. PICK q \in Proc : call[q].put = u /\ call[q].pc \in Recycling
            BY <1>14, <2>3, <3>1, <3>2 DEF RecycleOK
        <3>4. q # p
            BY <1>2, <3>3 DEF Recycling
        <3> QED
            BY <1>14, <3>3, <3>4
    <2> QED
        BY SMTT(60), <2>1, <2>2, <2>3 DEF RecycleOK
<1>17. CacheOK(cache') /\ panic' = "no" /\ vt = [u \in Vnode |-> vt[u]]
    BY <1>1, <1>7, <1>b
<1> HIDE DEF v
<1> QED
    BY <1>1, <1>4, <1>5, <1>6, <1>8, <1>10, <1>11, <1>12, <1>13, <1>15,
       <1>16, <1>17, BooksNext

(* The second part of sgfs_allocv *)
LEMMA KeepAllocInsert ==
    ASSUME SgfsInv, NEW p \in Proc, AllocInsert(p)
    PROVE  SgfsInv'
<1> DEFINE n == call[p].pn
<1>1. /\ call[p] \in CallType /\ SetOK(call[p], cwd[p]) /\ RefOK(call[p])
      /\ RefsOK(node, call) /\ RootOK(node)
    BY Known
<1>2. call[p].pc = "insert" /\ n \in Node
    BY ZenonT(60), <1>1 DEF AllocInsert, At, SetOK, Walking, CallType
<1>3. \A q \in Proc : Dying(n, q) <=> Kills(call[q], n)
    BY DEF Dying, Kills
<1>4. CASE /\ ~Live(n) \/ (\E q \in Proc : Dying(n, q))
           /\ Panic("freed node")
    <2>1. ~call[p].ref /\ n # Root
        <3>1. CASE ~Live(n)
            BY <1>1, <3>1 DEF RefsOK, RootOK, Live
        <3>2. CASE \E q \in Proc : Dying(n, q)
            <4>1. PICK q \in Proc : Kills(call[q], n)
                BY <1>3, <3>2
            <4> QED
                BY <1>2, <4>1, KilledFacts
        <3> QED
            BY ZenonT(60), <1>4, <3>1, <3>2
    <2>2. call[p].op = "dotdot"
        BY <1>1, <1>2, <2>1 DEF RefOK, SetOK, Walking
    <2> QED
        BY ZenonT(60), <1>4, <2>1, <2>2, KeepPanic DEF Panics
<1>5. CASE Panic("v_data is NULL in sgfs_reclaim")
    BY ZenonT(60), <1>5, KeepPanic DEF Panics
<1>6. CASE panic' = panic
    BY ZenonT(60), <1>6, KeepInsert DEF AllocInsert, At
<1> QED
    BY ZenonT(60), <1>4, <1>5, <1>6 DEF AllocInsert

(* sgfs_reclaim takes the node from its vnode and releases it. *)
LEMMA TreeReclaim ==
    ASSUME NEW ns, NEW vs, NEW cl, Tree(ns, vs, cl, {}),
           NEW v \in Vnode, NEW n \in Node, vs[v].data = n, NEW vt,
           vt[v].data = NULL,
           \A u \in Vnode : u # v => vt[u].data = vs[u].data
    PROVE  /\ Tree(ReleaseLocked(ns, n), vt, cl, {})
           /\ \A m \in Node : ReleaseLocked(ns, n)[m].live =>
                ReleaseLocked(ns, n)[m].deleted = ns[m].deleted
<1>1. Tree(ns, vt, cl, {n})
    BY TreeDrop
<1>2. n \in {n} /\ ns[n].live /\ {n} \ {n} = {}
    BY NullAssumption DEF Tree, UsedOK
<1>3. /\ Tree(ReleaseLocked(ns, n), vt, cl, {n} \ {n})
      /\ \A m \in Node : ReleaseLocked(ns, n)[m].live =>
                ReleaseLocked(ns, n)[m].deleted = ns[m].deleted
    BY <1>1, <1>2, TreeRelease
<1>4. Tree(ReleaseLocked(ns, n), vt, cl, {})
    BY <1>2, <1>3, Zenon
<1> QED
    BY <1>3, <1>4

(* What vgone leaves of a vnode *)
LEMMA DoomFacts ==
    ASSUME vnode \in [Vnode -> VnodeType], NEW v \in Vnode
    PROVE  /\ Doom(v) \in [Vnode -> VnodeType]
           /\ Doom(v)[v].st = "doomed" /\ Doom(v)[v].data = NULL
           /\ Doom(v)[v].mount = vnode[v].mount
           /\ Doom(v)[v].use = vnode[v].use
           /\ Doom(v)[v].hold = vnode[v].hold
           /\ \A u \in Vnode : u # v => Doom(v)[u] = vnode[u]
<1> DEFINE s == [vnode[v] EXCEPT !.st = "doomed", !.data = NULL, !.lock = NULL]
           vt == Doom(v)
<1>1. vt = [vnode EXCEPT ![v] = s]
    BY DEF Doom, VnodeType
<1>2. /\ s \in VnodeType /\ s.st = "doomed" /\ s.data = NULL
      /\ s.mount = vnode[v].mount /\ s.use = vnode[v].use
      /\ s.hold = vnode[v].hold
    BY ZenonT(60) DEF VnodeType
<1> HIDE DEF s, vt
<1>3. /\ vt \in [Vnode -> VnodeType] /\ vt[v] = s
      /\ \A u \in Vnode : u # v => vt[u] = vnode[u]
    BY <1>1, <1>2, PutVnode
<1> QED
    BY <1>2, <1>3 DEF vt

(* The kernel recycles a vnode. *)
LEMMA KeepVgone ==
    ASSUME SgfsInv, NEW v \in Vnode, Vgone(v)
    PROVE  SgfsInv'
<1> DEFINE n == vnode[v].data
           vt == Doom(v)
<1>1. /\ vnode \in [Vnode -> VnodeType] /\ UsedOK(node, vnode)
      /\ Book(vnode, call, cwd) /\ Tree(node, vnode, call, {})
      /\ RecycleOK(node, vnode, call) /\ CacheOK(cache)
      /\ VnodeOK(vnode[v])
    BY DEF SgfsInv, Book, Tree
<1>2. /\ vnode[v].st = "live" /\ vnode[v].lock = NULL /\ panic' = "no"
      /\ node' = ReleaseLocked(node, n) /\ vnode' = Settled(vt)
      /\ cache' \subseteq cache /\ call' = call /\ cwd' = cwd
    BY DEF Vgone, Purge
<1>3. n \in Node
    BY SMTT(30), <1>1, <1>2 DEF VnodeOK, UsedOK
<1>4. Book(vt, call, cwd)
    BY ZenonT(60), <1>1, <1>2, BookDoom DEF Doom
<1>5. /\ vt[v].data = NULL
      /\ \A u \in Vnode : u # v => vt[u] = vnode[u]
    BY <1>1, DoomFacts
<1> HIDE DEF n, vt
<1>6. /\ Tree(node', vt, call, {})
      /\ \A m \in Node : node'[m].live => node'[m].deleted = node[m].deleted
    <2>1. vnode[v].data = n
        BY DEF n
    <2>2. /\ Tree(ReleaseLocked(node, n), vt, call, {})
          /\ \A m \in Node : ReleaseLocked(node, n)[m].live =>
                ReleaseLocked(node, n)[m].deleted = node[m].deleted
        BY SMTT(60), <1>1, <1>3, <1>5, <2>1, TreeReclaim
    <2> QED
        BY <1>2, <2>2, Zenon
<1>7. RecycleOK(node', vt, call)
    <2>1. UsedOK(node', vt)
        BY <1>6 DEF Tree
    <2>2. \A u \in Vnode : vt[u].data # NULL =>
            /\ u # v /\ vt[u] = vnode[u]
            /\ node'[vt[u].data].deleted = node[vnode[u].data].deleted
        BY <1>5, <1>6, <2>1 DEF UsedOK
    <2>3. OneVnode(vt)
        BY <1>1, <2>2 DEF RecycleOK, OneVnode
    <2>4. ASSUME NEW q \in Proc, call[q].pc = "reclaim"
          PROVE  node'[vt[call[q].put].data].deleted
        <3>1. /\ call[q] \in CallType /\ SetOK(call[q], cwd[q])
              /\ VpOK(vnode, call[q])
              /\ \A u \in Vnode : VnodeOK(vnode[u])
              /\ \A u \in Vnode : Locks(call[q], u) => vnode[u].lock = q
            BY Known
        <3>2. PICK u \in Vnode : u = call[q].put
            BY <2>4, <3>1 DEF SetOK, Putting, CallType
        <3>3. vnode[u].lock = q /\ vnode[u].data # NULL
            BY <2>4, <3>1, <3>2, NullAssumption DEF Locks, VpOK, VnodeOK
        <3>4. vt[u] = vnode[u] /\ node[vnode[u].data].deleted
            BY <1>1, <1>2, <1>5, <2>4, <3>2, <3>3, NullAssumption DEF RecycleOK
        <3> QED
            BY <2>2, <3>2, <3>3, <3>4
    <2> QED
        BY <1>1, <2>2, <2>3, <2>4 DEF RecycleOK
<1>8. /\ Book(vnode', call', cwd') /\ Tree(node', vnode', call', {})
      /\ RecycleOK(node', vnode', call')
    BY <1>2, <1>4, <1>6, <1>7, SettledTail
<1>9. CacheOK(cache') /\ PanicOK(panic', call')
    BY SMTT(60), <1>1, <1>2, PanicNo DEF CacheOK
<1> QED
    BY <1>8, <1>9 DEF SgfsInv

(* What sgfs_reclaim makes of the vnodes: it takes the node from v, and *)
(* those that p has locked may be unlocked.                             *)
NodeTaken(p, v, vt) ==
    /\ vt[v].st = "doomed" /\ vt[v].data = NULL
    /\ vt[v].use = vnode[v].use /\ vt[v].hold = vnode[v].hold
    /\ \A u \in Vnode : u # v =>
        /\ vt[u].st = vnode[u].st /\ vt[u].data = vnode[u].data
        /\ vt[u].mount = vnode[u].mount
        /\ vt[u].use = vnode[u].use /\ vt[u].hold = vnode[u].hold
        /\ vt[u] = vnode[u] \/ Locks(call[p], u)

(* A thread without a call holds nothing. *)
LEMMA IdleFacts ==
    /\ Idle \in CallType /\ Idle.pc = "idle" /\ Idle.op = "none"
    /\ Idle.name = NULL /\ Idle.dvp = NULL /\ Idle.vp = NULL
    /\ Idle.pn = NULL /\ Idle.ref = FALSE /\ Idle.put = NULL
    /\ \A u \in Vnode : /\ UseBit(Idle, u) = 0 /\ HoldBit(Idle, u) = 0
                         /\ ~Locks(Idle, u)
    /\ \A m \in Node : ~Kills(Idle, m)
<1>1. /\ Idle \in CallType /\ Idle.pc = "idle" /\ Idle.op = "none"
      /\ Idle.name = NULL /\ Idle.dvp = NULL /\ Idle.vp = NULL
      /\ Idle.pn = NULL /\ Idle.ref = FALSE /\ Idle.put = NULL
    BY DEF Idle, CallType
<1>2. \A u \in Vnode : /\ UseBit(Idle, u) = 0 /\ HoldBit(Idle, u) = 0
                       /\ ~Locks(Idle, u)
    BY <1>1, NullAssumption DEF UseBit, HoldBit, Uses, Holds, Locks
<1>3. \A m \in Node : ~Kills(Idle, m)
    BY <1>1 DEF Kills
<1> QED
    BY <1>1, <1>2, <1>3

(* A call that is about to reclaim has v locked and uses nothing else. *)
LEMMA ReclaimingCall ==
    ASSUME SgfsInv, NEW p \in Proc, call[p].pc = "reclaim",
           NEW v \in Vnode, v = call[p].put
    PROVE  /\ \A u \in Vnode :
                UseBit(call[p], u) = 0 /\ HoldBit(call[p], u) = 0
           /\ call[p].ref = FALSE /\ \A m \in Node : ~Kills(call[p], m)
           /\ Locks(call[p], v) /\ vnode[v].lock = p
           /\ \A u \in Vnode : Locks(call[p], u) =>
                vnode[u].lock = p /\ vnode[u].st # "free"
           /\ vnode[v].data # NULL /\ vnode[v].st = "live"
<1>1. /\ \A u \in Vnode : VnodeOK(vnode[u])
      /\ \A u \in Vnode : Locks(call[p], u) => vnode[u].lock = p
      /\ DirOK(vnode, call[p], cwd[p]) /\ RefOK(call[p])
      /\ SetOK(call[p], cwd[p]) /\ VpOK(vnode, call[p])
      /\ call[p] \in CallType
    BY Known
<1>2. /\ \A u \in Vnode : UseBit(call[p], u) = 0 /\ HoldBit(call[p], u) = 0
      /\ call[p].ref = FALSE /\ \A m \in Node : ~Kills(call[p], m)
    <2>1. call[p].vp = NULL
        BY <1>1, NullAssumption DEF SetOK
    <2>2. \A u \in Vnode : ~Uses(call[p], u) /\ ~Holds(call[p], u)
        BY <2>1, NullAssumption DEF Uses, Holds
    <2>3. call[p].ref = FALSE
        BY <1>1 DEF RefOK, Walking, CallType
    <2>4. \A m \in Node : ~Kills(call[p], m)
        BY DEF Kills
    <2> QED
        BY <2>2, <2>3, <2>4, Zenon DEF UseBit, HoldBit
<1>3. /\ Locks(call[p], v) /\ vnode[v].lock = p
      /\ \A u \in Vnode : Locks(call[p], u) => vnode[u].st # "free"
    <2>1. Locks(call[p], v)
        BY <1>1, NullAssumption DEF Locks
    <2>2. FreeVnode.lock = NULL
        BY DEF FreeVnode
    <2>3. ASSUME NEW u \in Vnode, Locks(call[p], u) PROVE vnode[u].st # "free"
        BY <1>1, <2>2, <2>3, NullAssumption DEF VnodeOK
    <2> QED
        BY <1>1, <2>1, <2>3
<1>4. vnode[v].data # NULL /\ vnode[v].st = "live"
    BY <1>1, NullAssumption DEF VnodeOK, VpOK
<1> QED
    BY <1>1, <1>2, <1>3, <1>4

(* The vnodes still fit the call, which has ended. *)
LEMMA ReclaimedVnodes ==
    ASSUME SgfsInv, NEW p \in Proc, call[p].pc = "reclaim",
           NEW v \in Vnode, v = call[p].put,
           NEW vt \in [Vnode -> VnodeType], NodeTaken(p, v, vt)
    PROVE  /\ \A u \in Vnode : Fits(p, vnode[u], vt[u])
           /\ \A u \in Vnode :
                Follows(vnode[u], vt[u], call[p], Idle, cwd[p], cwd[p], u)
           /\ DirOK(vt, Idle, cwd[p])
<1>1. /\ vnode \in [Vnode -> VnodeType] /\ DirOK(vnode, call[p], cwd[p])
      /\ \A u \in Vnode : vnode[u] \in VnodeType /\ VnodeOK(vnode[u])
      /\ cwd[p] \in Vnode \cup {NULL}
    BY Known
<1>2. /\ \A u \in Vnode : UseBit(call[p], u) = 0 /\ HoldBit(call[p], u) = 0
      /\ vnode[v].lock = p /\ vnode[v].st = "live"
      /\ \A u \in Vnode : Locks(call[p], u) =>
            vnode[u].lock = p /\ vnode[u].st # "free"
    BY ReclaimingCall
<1>3. /\ \A u \in Vnode : UseBit(Idle, u) = 0 /\ HoldBit(Idle, u) = 0
      /\ Idle.pc = "idle"
    BY IdleFacts
<1>4. ASSUME NEW u \in Vnode
      PROVE  Fits(p, vnode[u], vt[u])
    <2>1. vnode[u] \in VnodeType /\ VnodeOK(vnode[u]) /\ vt[u] \in VnodeType
        BY <1>1
    <2>2. CASE u = v
        <3>1. vt[u].st = "doomed" /\ vt[u].data = NULL
            BY <2>2 DEF NodeTaken
        <3> QED
            BY <1>2, <2>1, <2>2, <3>1 DEF Fits, VnodeOK
    <2>3. CASE u # v
        <3>1. /\ vt[u].st = vnode[u].st /\ vt[u].data = vnode[u].data
              /\ vt[u].mount = vnode[u].mount
              /\ vt[u] = vnode[u] \/ Locks(call[p], u)
            BY <2>3 DEF NodeTaken
        <3> QED
            BY <1>2, <2>1, <3>1, Fitting
    <2> QED
        BY <2>2, <2>3
<1>5. ASSUME NEW u \in Vnode
      PROVE  Follows(vnode[u], vt[u], call[p], Idle, cwd[p], cwd[p], u)
    <2>1. /\ vnode[u].use \in Nat /\ vnode[u].hold \in Nat
          /\ Dirs(cwd[p], u) \in 0 .. 1
        BY <1>1 DEF VnodeType, Dirs
    <2>2. vt[u].use = vnode[u].use /\ vt[u].hold = vnode[u].hold
        BY DEF NodeTaken
    <2> QED
        BY <1>2, <1>3, <2>1, <2>2 DEF Follows
<1>6. DirOK(vt, Idle, cwd[p])
    <2>1. cwd[p] # NULL => vt[cwd[p]].st \in {"live", "doomed"}
        BY <1>1 DEF DirOK, NodeTaken
    <2> QED
        BY <1>3, <2>1 DEF DirOK
<1> QED
    BY <1>4, <1>5, <1>6

(* Such a step leaves nothing behind either. *)
LEMMA RecycleTaken ==
    ASSUME NEW vs, NEW cl, NEW cw, Book(vs, cl, cw),
           NEW ns, RecycleOK(ns, vs, cl),
           NEW p, NEW cm, \A q \in Proc : q # p => cm[q] = cl[q],
           cm[p].pc # "reclaim", NEW mt, NEW vt, UsedOK(mt, vt),
           \A v \in Vnode : vt[v].data # NULL =>
                /\ vt[v].data = vs[v].data /\ vt[v].mount = vs[v].mount
                /\ vt[v].use = vs[v].use /\ cl[p].put # v,
           \A v \in Vnode : vs[v].lock \notin {NULL, p} =>
                vt[v].data = vs[v].data,
           \A n \in Node : mt[n].live => mt[n].deleted = ns[n].deleted
    PROVE  RecycleOK(mt, vt, cm)
<1>1. \A v \in Vnode : vt[v].data # NULL =>
            vt[v].data = vs[v].data /\ vt[v].mount = vs[v].mount
    OBVIOUS
<1>2. \A v \in Vnode :
            /\ vt[v].data # NULL /\ mt[vt[v].data].deleted /\ vt[v].use = 0
            => vs[v].use = 0 /\ cl[p].put # v
    OBVIOUS
<1> QED
    BY SMTT(60), <1>1, <1>2, RecycleStep

(* The node is one reference down, and removed directories still have *)
(* somebody who gives them up.                                        *)
LEMMA ReclaimedNodes ==
    ASSUME SgfsInv, NEW p \in Proc, call[p].pc = "reclaim",
           NEW v \in Vnode, v = call[p].put, NEW n \in Node,
           n = vnode[v].data, NEW vt, NodeTaken(p, v, vt),
           node' = ReleaseLocked(node, n), Sets(call, call', p, Idle)
    PROVE  Tree(node', vt, call', {}) /\ RecycleOK(node', vt, call')
<1>1. /\ call'[p] = Idle /\ \A q \in Proc : q # p => call'[q] = call[q]
      /\ Book(vnode, call, cwd) /\ Tree(node, vnode, call, {})
      /\ RecycleOK(node, vnode, call)
    BY DEF Sets, SgfsInv
<1>2. /\ Idle.pc = "idle" /\ Idle.ref = FALSE
      /\ \A m \in Node : ~Kills(Idle, m)
    BY IdleFacts
<1>3. /\ call[p].ref = FALSE /\ \A m \in Node : ~Kills(call[p], m)
      /\ vnode[v].lock = p
    BY ReclaimingCall
<1>4. /\ vt[v].data = NULL
      /\ \A u \in Vnode : u # v => vt[u].data = vnode[u].data
    BY DEF NodeTaken
<1>5. /\ Tree(node', vt, call, {})
      /\ \A m \in Node : node'[m].live => node'[m].deleted = node[m].deleted
    <2>1. /\ Tree(ReleaseLocked(node, n), vt, call, {})
          /\ \A m \in Node : ReleaseLocked(node, n)[m].live =>
                ReleaseLocked(node, n)[m].deleted = node[m].deleted
        BY SMTT(60), <1>1, <1>4, TreeReclaim
    <2> QED
        BY <2>1, Zenon
<1>6. Tree(node', vt, call', {})
    <2>1. \A q \in Proc, m \in Node : Kills(call'[q], m) <=> Kills(call[q], m)
        BY <1>1, <1>2, <1>3
    <2>2. \A q \in Proc : /\ call'[q].ref <=> call[q].ref
                          /\ call[q].ref => call'[q].pn = call[q].pn
        BY ZenonT(60), <1>1, <1>2, <1>3
    <2> QED
        BY <1>5, <2>1, <2>2, TreeQuiet
<1>7. RecycleOK(node', vt, call')
    <2>1. UsedOK(node', vt)
        BY <1>6 DEF Tree
    <2>2. \A u \in Vnode : vt[u].data # NULL =>
            /\ vt[u].data = vnode[u].data /\ vt[u].mount = vnode[u].mount
            /\ vt[u].use = vnode[u].use /\ call[p].put # u
        BY DEF NodeTaken
    <2>3. \A u \in Vnode : vnode[u].lock \notin {NULL, p} =>
            vt[u].data = vnode[u].data
        BY <1>3, <1>4
    <2>4. call'[p].pc # "reclaim"
        BY <1>1, <1>2
    <2> QED
        BY SMTT(60), <1>1, <1>5, <2>1, <2>2, <2>3, <2>4, RecycleTaken
<1> QED
    BY <1>6, <1>7

(* A removed directory that was used last through vnode v is given up, and *)
(* the call ends.                                                          *)
LEMMA KeepReclaimed ==
    ASSUME SgfsInv, NEW p \in Proc, call[p].pc = "reclaim",
           NEW v \in Vnode, v = call[p].put, NEW n \in Node,
           n = vnode[v].data, NEW vt \in [Vnode -> VnodeType],
           NodeTaken(p, v, vt),
           node' = ReleaseLocked(node, n), vnode' = Settled(vt),
           Sets(call, call', p, Idle), cwd' = cwd,
           CacheOK(cache'), panic' = "no"
    PROVE  SgfsInv'
<1>1. /\ cwd \in [Proc -> Vnode \cup {NULL}] /\ cwd[p] \in Vnode \cup {NULL}
      /\ SetOK(call[p], cwd[p])
    BY Known
<1>2. /\ Idle \in CallType /\ Idle.pc = "idle" /\ Idle.op = "none"
      /\ Idle.dvp = NULL /\ Idle.vp = NULL /\ Idle.pn = NULL
      /\ Idle.ref = FALSE /\ Idle.put = NULL
      /\ \A u \in Vnode : ~Locks(Idle, u)
    BY IdleFacts
<1>3. SetOK(Idle, cwd[p]) /\ RefOK(Idle) /\ VpOK(vt, Idle)
    BY <1>2 DEF SetOK, RefOK, VpOK, Walking, Leaving, Putting, DirLocked
<1>4. /\ \A u \in Vnode : Fits(p, vnode[u], vt[u])
      /\ \A u \in Vnode :
            Follows(vnode[u], vt[u], call[p], Idle, cwd[p], cwd[p], u)
      /\ DirOK(vt, Idle, cwd[p])
    BY ReclaimedVnodes
<1>5. Tree(node', vt, call', {}) /\ RecycleOK(node', vt, call')
    BY ReclaimedNodes
<1>6. Sets(cwd, cwd', p, cwd[p])
    BY <1>1, SetsSame
<1>7. vt = [u \in Vnode |-> vt[u]]
    OBVIOUS
<1> QED
    BY SMTT(60), <1>1, <1>2, <1>3, <1>4, <1>5, <1>6, <1>7, BooksNext

(* sgfs_reclaim at the end of a vput *)
LEMMA KeepReclaim ==
    ASSUME SgfsInv, NEW p \in Proc, sgfs_reclaim(p)
    PROVE  SgfsInv'
<1>1. /\ vnode \in [Vnode -> VnodeType] /\ call \in [Proc -> CallType]
      /\ SetOK(call[p], cwd[p]) /\ VpOK(vnode, call[p]) /\ CacheOK(cache)
      /\ call[p] \in CallType /\ UsedOK(node, vnode)
      /\ \A u \in Vnode : VnodeOK(vnode[u])
    BY Known
<1>2. /\ call[p].pc = "reclaim" /\ cwd' = cwd /\ panic' = "no"
      /\ cache' \subseteq cache
    BY DEF sgfs_reclaim, At, Purge
<1>3. PICK v \in Vnode : v = call[p].put
    BY <1>1, <1>2 DEF SetOK, Putting, CallType
<1>4. PICK n \in Node : n = vnode[v].data
    BY <1>1, <1>2, <1>3, NullAssumption DEF VpOK, VnodeOK, UsedOK
<1>5. node' = ReleaseLocked(node, n) /\ AfterPut(p, Doom(v))
    BY <1>3, <1>4 DEF sgfs_reclaim
<1>6. CacheOK(cache')
    BY <1>1, <1>2 DEF CacheOK
<1> DEFINE vs == Doom(v)
<1>7. /\ vs \in [Vnode -> VnodeType]
      /\ vs[v].st = "doomed" /\ vs[v].data = NULL
      /\ vs[v].use = vnode[v].use /\ vs[v].hold = vnode[v].hold
      /\ \A u \in Vnode : u # v => vs[u] = vnode[u]
    BY <1>1, DoomFacts
<1> HIDE DEF vs
<1>8. call' = [call EXCEPT ![p] = Idle]
    BY <1>5 DEF AfterPut, EndCall
<1>9. Sets(call, call', p, Idle)
    BY <1>1, <1>8, SetsExcept
<1>10. CASE call[p].op \in {"mkdir", "rmdir"}
    <2>1. PICK w \in Vnode : w = call[p].dvp
        BY <1>1, <1>10 DEF SetOK, CallType
    <2>2. Locks(call[p], w)
        BY <1>1, <1>10, <2>1 DEF Locks, DirLocked, SetOK
    <2> DEFINE vt == [vs EXCEPT ![w].lock = NULL]
    <2>3. /\ vt \in [Vnode -> VnodeType]
          /\ \A u \in Vnode : u # w => vt[u] = vs[u]
          /\ vt[w].lock = NULL /\ vt[w].st = vs[w].st
          /\ vt[w].data = vs[w].data /\ vt[w].mount = vs[w].mount
          /\ vt[w].use = vs[w].use /\ vt[w].hold = vs[w].hold
        <3>1. NULL \in Proc \cup {NULL}
            OBVIOUS
        <3> QED
            BY <1>7, <3>1, LockVnode
    <2>4. vnode' = Settled(vt)
        BY <1>5, <1>10, <2>1 DEF AfterPut, EndCall, vs
    <2> HIDE DEF vt
    <2>5. /\ vt[v].st = "doomed" /\ vt[v].data = NULL
          /\ vt[v].use = vnode[v].use /\ vt[v].hold = vnode[v].hold
        BY <1>7, <2>3
    <2>6. \A u \in Vnode : u # v =>
                /\ vt[u].st = vnode[u].st /\ vt[u].data = vnode[u].data
                /\ vt[u].mount = vnode[u].mount
                /\ vt[u].use = vnode[u].use /\ vt[u].hold = vnode[u].hold
                /\ vt[u] = vnode[u] \/ Locks(call[p], u)
        BY SMTT(60), <1>7, <2>2, <2>3
    <2>7. NodeTaken(p, v, vt)
        BY ZenonT(60), <2>5, <2>6 DEF NodeTaken
    <2> QED
        BY <1>2, <1>3, <1>4, <1>5, <1>6, <1>9, <2>3, <2>4, <2>7, KeepReclaimed
<1>11. CASE call[p].op \notin {"mkdir", "rmdir"}
    <2>1. vnode' = Settled(vs)
        BY <1>5, <1>11 DEF AfterPut, vs
    <2>2. NodeTaken(p, v, vs)
        BY <1>7 DEF NodeTaken
    <2> QED
        BY <1>2, <1>3, <1>4, <1>5, <1>6, <1>7, <1>9, <2>1, <2>2, KeepReclaimed
<1> QED
    BY <1>10, <1>11

-----------------------------------------------------------------------------
(* The invariant holds. *)

(* The file system that sgfs_init leaves *)
LEMMA SgfsInit == Init => SgfsInv
<1> SUFFICES ASSUME Init PROVE SgfsInv
    OBVIOUS
<1>1. /\ FreeVnode \in VnodeType /\ FreeVnode.st = "free"
      /\ FreeVnode.data = NULL /\ FreeVnode.use = 0 /\ FreeVnode.hold = 0
    BY DEF FreeVnode, VnodeType
<1>2. /\ Idle \in CallType /\ Idle.pc = "idle" /\ Idle.op = "none"
      /\ Idle.dvp = NULL /\ Idle.vp = NULL
      /\ Idle.ref = FALSE /\ Idle.put = NULL
    BY DEF Idle, CallType
<1>3. /\ vnode \in [Vnode -> VnodeType] /\ \A v \in Vnode : vnode[v] = FreeVnode
      /\ call \in [Proc -> CallType] /\ \A p \in Proc : call[p] = Idle
      /\ cwd \in [Proc -> Vnode \cup {NULL}] /\ \A p \in Proc : cwd[p] = NULL
    BY <1>1, <1>2 DEF Init
<1>4. Book(vnode, call, cwd)
    <2>1. \A v \in Vnode : VnodeOK(vnode[v])
        BY <1>1, <1>3 DEF VnodeOK
    <2>2. ASSUME NEW v \in Vnode
          PROVE  CountsOK(vnode, call, cwd, v)
        <3>1. /\ CwdOf(cwd, v) = {} /\ UsersOf(call, v) = {}
              /\ HoldersOf(call, v) = {}
            BY <1>2, <1>3, NullAssumption
               DEF CwdOf, UsersOf, HoldersOf, Uses, Holds
        <3>2. Cardinality({}) = 0
            BY FS_EmptySet
        <3> QED
            BY <1>1, <1>3, <3>1, <3>2 DEF CountsOK
    <2>3. LocksOK(vnode, call)
        BY <1>2, <1>3, NullAssumption DEF LocksOK, Locks
    <2>4. \A p \in Proc : CallOK(vnode, call[p], cwd[p])
        BY <1>2, <1>3 DEF CallOK, SetOK, RefOK, DirOK, VpOK, Walking, Leaving,
                          Putting, DirLocked
    <2> QED
        BY <1>3, <2>1, <2>2, <2>3, <2>4 DEF Book
<1> DEFINE top == [FreeNode EXCEPT !.live = TRUE, !.refcount = Base]
<1>5. /\ FreeNode \in NodeType /\ ~FreeNode.live /\ top \in NodeType
      /\ top.live /\ ~top.deleted /\ top.parent = NULL
      /\ top.children = <<>> /\ top.refcount = 3
    <2>1. FreeNode \in NodeType
        <3>1. <<>> \in Seq(Node)
            OBVIOUS
        <3> QED
            BY <3>1 DEF FreeNode, NodeType
    <2>2. /\ FreeNode.live = FALSE /\ FreeNode.deleted = FALSE
          /\ FreeNode.parent = NULL /\ FreeNode.children = <<>>
        BY DEF FreeNode
    <2>3. Base \in Nat /\ Base = 3
        BY DEF Base
    <2>4. PICK f \in NodeType : f = FreeNode
        BY <2>1
    <2>5. top = [f EXCEPT !.live = TRUE, !.refcount = Base]
        BY <2>4
    <2> HIDE DEF top
    <2>6. /\ top \in NodeType /\ top.live = TRUE /\ top.deleted = f.deleted
          /\ top.parent = f.parent /\ top.children = f.children
          /\ top.refcount = Base
        BY <2>3, <2>5 DEF NodeType
    <2> QED
        BY <2>1, <2>2, <2>3, <2>4, <2>6
<1>6. /\ node[Root] = top /\ node \in [Node -> NodeType]
      /\ \A n \in Node : n # Root => node[n] = FreeNode
    BY <1>5, RootAssumption DEF Init
<1> HIDE DEF top
<1>7. Tree(node, vnode, call, {})
    <2>1. \A n \in Node : NodeOK(node, n)
        <3>1. IsInjective(<<>>) /\ ToSet(<<>>) = {}
            BY DEF IsInjective, ToSet
        <3> QED
            BY <1>5, <1>6, <3>1 DEF NodeOK
    <2>2. RootOK(node)
        BY <1>5, <1>6 DEF RootOK
    <2>3. UsedOK(node, vnode) /\ RefsOK(node, call)
        BY <1>1, <1>2, <1>3 DEF UsedOK, RefsOK
    <2>4. Exact(node, vnode, call, {})
        <3> SUFFICES ASSUME NEW n \in Node, node[n].live
                     PROVE  node[n].refcount = Expected(node, vnode, call, n) + 0
            BY DEF Exact
        <3>1. n = Root
            BY <1>5, <1>6
        <3>2. VnodesAt(vnode, n) = {} /\ RefsTo(call, n) = {}
            BY <1>1, <1>2, <1>3, NullAssumption DEF VnodesAt, RefsTo
        <3>3. Cardinality({}) = 0
            BY FS_EmptySet
        <3>4. Len(node[n].children) = 0
            BY <1>5, <1>6, <3>1
        <3>5. Expected(node, vnode, call, n) = 1 + 2 + 0 + 0 + 0
            BY <1>5, <1>6, <3>1, <3>2, <3>3, <3>4 DEF Expected
        <3> QED
            BY <1>5, <1>6, <3>1, <3>5
    <2>5. KillsOK(node, call)
        BY <1>2, <1>3, <1>5, <1>6 DEF KillsOK, Kills
    <2> QED
        BY <1>6, <2>1, <2>2, <2>3, <2>4, <2>5 DEF Tree
<1>8. RecycleOK(node, vnode, call)
    BY <1>1, <1>2, <1>3 DEF RecycleOK, OneVnode
<1>9. CacheOK(cache) /\ PanicOK(panic, call)
    BY PanicNo DEF Init, CacheOK
<1> QED
    BY <1>4, <1>7, <1>8, <1>9 DEF SgfsInv

(* Every step of the threads and of the kernel keeps it. *)
LEMMA SgfsNext == SgfsInv /\ [Next]_vars => SgfsInv'
<1> SUFFICES ASSUME SgfsInv, [Next]_vars PROVE SgfsInv'
    OBVIOUS
<1>1. ASSUME NEW p \in Proc, Start(p)
      PROVE  SgfsInv'
    <2>1. ASSUME NEW op \in Op \ {"readdir", "unmount"}, NEW nm \in Name,
                 StartCall(p, op, nm)
          PROVE  SgfsInv'
        BY <2>1, KeepStartCall
    <2>2. ASSUME NEW m \in Mount, sgfs_root(p, m)
          PROVE  SgfsInv'
        BY <2>2, KeepRoot
    <2>3. CASE Leave(p)
        BY <2>3, KeepLeave
    <2> QED
        BY <1>1, <2>1, <2>2, <2>3 DEF Start
<1>2. ASSUME NEW p \in Proc, Step(p)
      PROVE  SgfsInv'
    <2>1. CASE LookupNamed(p) \/ LookupDenied(p) \/ CacheHit(p)
        BY <2>1, KeepLookupNamed, KeepLookupDenied, KeepCacheHit
    <2>2. CASE DotDot(p) \/ DotDotParent(p) \/ Relock(p)
        BY <2>2, KeepDotDot, KeepDotDotParent, KeepRelock
    <2>3. CASE AllocFind(p) \/ Vget(p) \/ AllocNew(p) \/ AllocInsert(p)
        BY <2>3, KeepAllocFind, KeepVget, KeepAllocNew, KeepAllocInsert
    <2>4. CASE ReleaseDec(p) \/ ReleaseCompare(p) \/ ReleaseDestroy(p)
        BY <2>4, KeepReleaseDec, KeepReleaseCompare, KeepReleaseDestroy
    <2>5. CASE WalkDoomed(p) \/ DoneWalk(p) \/ DoneError(p) \/ DonePut(p)
        BY <2>5, KeepWalkDoomed, KeepDoneWalk, KeepDoneError, KeepDonePut
    <2>6. CASE sgfs_mkdir(p) \/ sgfs_rmdir(p) \/ RmdirPurge(p)
        BY <2>6, KeepMkdir, KeepRmdir, KeepRmdirPurge
    <2>7. CASE Vput(p) \/ sgfs_inactive(p) \/ sgfs_reclaim(p)
        BY <2>7, KeepPut, KeepInactive, KeepReclaim
    <2> QED
        BY <1>2, <2>1, <2>2, <2>3, <2>4, <2>5, <2>6, <2>7 DEF Step
<1>3. ASSUME NEW p \in Proc, sgfs_readdir(p)
      PROVE  SgfsInv'
    BY <1>3, KeepReaddir
<1>4. CASE Kernel
    BY <1>4, KeepVgone DEF Kernel, Vnlru, sgfs_unmount
<1>5. CASE UNCHANGED vars
    BY <1>5, KeepSame DEF vars
<1> QED
    BY <1>1, <1>2, <1>3, <1>4, <1>5 DEF Next, Stopped

(* The inductive invariant holds in every reachable state. *)
LEMMA SgfsInvHolds == Spec => []SgfsInv
    BY SgfsInit, SgfsNext, PTL DEF Spec

(* The counter of a directory is what a recount finds: its own link, "."   *)
(* and "..", its subdirectories, its vnodes, and the calls that are        *)
(* between sgnode_addref and sgnode_release.                               *)
THEOREM ReferencesExact == Spec => []RefcountExact
<1>1. SgfsInv => RefcountExact
    <2> SUFFICES ASSUME SgfsInv, NEW n \in Node, Live(n)
                 PROVE  node[n].refcount = (IF node[n].deleted THEN 0 ELSE 1)
                            + 2 + Len(node[n].children)
                            + Cardinality(VnodesOf(n))
                            + Cardinality(Holders(n))
        BY DEF RefcountExact
    <2>1. /\ Exact(node, vnode, call, {}) /\ node \in [Node -> NodeType]
        BY DEF SgfsInv, Tree
    <2>2. node[n].refcount = Expected(node, vnode, call, n) + 0
        BY <2>1 DEF Exact, Live
    <2>3. Expected(node, vnode, call, n) \in Nat
        BY <2>1, ExpectedBounds
    <2>4. node[n].refcount = Expected(node, vnode, call, n)
        BY <2>2, <2>3
    <2>5. VnodesAt(vnode, n) = VnodesOf(n) /\ RefsTo(call, n) = Holders(n)
        BY DEF VnodesAt, VnodesOf, RefsTo, Holders
    <2> QED
        BY <2>4, <2>5 DEF Expected
<1> QED
    BY <1>1, SgfsInvHolds, PTL

(* With one mount, a removed and empty directory that nobody uses is being *)
(* recycled or released by some thread.                                    *)
LEMMA NothingLeaks == SgfsInv => NoLeak
<1> SUFFICES ASSUME SgfsInv, NEW n \in Node, Live(n), node[n].deleted,
                    node[n].children = <<>>,
                    \A v \in VnodesOf(n) : vnode[v].use = 0,
                    VnodesOf(n) = {} \/ Cardinality(Mount) = 1
             PROVE  \E p \in Proc : \/ call[p].put \in VnodesOf(n)
                                    \/ call[p].pn = n
    BY DEF NoLeak
<1>1. /\ Exact(node, vnode, call, {}) /\ KillsOK(node, call)
      /\ RecycleOK(node, vnode, call) /\ node \in [Node -> NodeType]
    BY DEF SgfsInv, Tree
<1>2. CASE VnodesOf(n) # {}
    <2>1. PICK v \in Vnode : vnode[v].data = n
        BY <1>2 DEF VnodesOf
    <2>2. v \in VnodesOf(n) /\ vnode[v].use = 0 /\ n # NULL
        BY <2>1, NullAssumption DEF VnodesOf
    <2>3. \E p \in Proc : call[p].put = v /\ call[p].pc \in Recycling
        BY <1>1, <1>2, <2>1, <2>2 DEF RecycleOK
    <2> QED
        BY <2>2, <2>3
<1>3. CASE RefsTo(call, n) # {}
    BY <1>3 DEF RefsTo
<1>4. CASE VnodesOf(n) = {} /\ RefsTo(call, n) = {}
    <2>1. VnodesAt(vnode, n) = {}
        BY <1>4 DEF VnodesAt, VnodesOf
    <2>2. Cardinality({}) = 0 /\ Len(<<>>) = 0
        BY FS_EmptySet
    <2>3. Expected(node, vnode, call, n) = 0 + 2 + 0 + 0 + 0
        BY <1>4, <2>1, <2>2 DEF Expected
    <2>4. node[n].refcount = 2
        BY <1>1, <2>3 DEF Exact, Live
    <2>5. \E p \in Proc : Kills(call[p], n)
        BY <1>1, <2>4 DEF KillsOK, Live
    <2> QED
        BY <2>5 DEF Kills
<1> QED
    BY <1>2, <1>3, <1>4

(* What has a vnode, is referenced by a call or is an entry of a directory  *)
(* has not been freed, nothing is freed twice, entries and parents agree,   *)
(* and a directory has one vnode per mount, although sgfs_allocv drops      *)
(* fs->lock and sgnode_release takes it late.  Only the parent that a ".."  *)
(* lookup reads may be freed.                                               *)
THEOREM NodesStaySafe == Spec => []NodesSafe
<1>1. SgfsInv => NodesSafe
    <2> SUFFICES ASSUME SgfsInv PROVE NodesSafe
        OBVIOUS
    <2>1. TypeOK
        BY ZenonT(60), Known DEF SgfsInv, Book, Tree, CacheOK, PanicOK, TypeOK
    <2>2. OneVnodePerMount
        <3> SUFFICES ASSUME NEW n \in Node, NEW m \in Mount
                     PROVE  Cardinality(VnodesOn(n, m)) <= 1
            BY DEF OneVnodePerMount
        <3>1. \A u, v \in VnodesOn(n, m) : u = v
            BY NullAssumption
               DEF SgfsInv, RecycleOK, OneVnode, VnodesOn, VnodesOf
        <3>2. CASE VnodesOn(n, m) = {}
            BY <3>2, FS_EmptySet
        <3>3. CASE VnodesOn(n, m) # {}
            <4>1. PICK v : VnodesOn(n, m) = {v}
                BY <3>1, <3>3
            <4>2. Cardinality({v}) = 1
                BY FS_Singleton
            <4> QED
                BY <4>1, <4>2
        <3> QED
            BY <3>2, <3>3
    <2>3. Live(Root)
        BY DEF SgfsInv, Tree, RootOK, Live
    <2>4. \A v \in Vnode : vnode[v].st = "live" => Live(vnode[v].data)
        BY DEF SgfsInv, Book, Tree, VnodeOK, UsedOK, Live
    <2>5. \A n \in Node : Live(n) =>
            /\ \A m \in ToSet(node[n].children) : Live(m) /\ node[m].parent = n
            /\ node[n].parent # NULL =>
                n \in ToSet(node[node[n].parent].children)
            /\ node[n].deleted => node[n].parent = NULL
        BY DEF SgfsInv, Tree, NodeOK, Live
    <2>6. ASSUME NEW p \in Proc, call[p].ref \/ call[p].pc = "destroy"
          PROVE  Live(call[p].pn)
        <3>1. CASE call[p].ref
            BY <3>1 DEF SgfsInv, Tree, RefsOK, Live
        <3>2. CASE call[p].pc = "destroy"
            <4>1. call[p] \in CallType /\ SetOK(call[p], cwd[p])
                BY Known
            <4>2. PICK n \in Node : n = call[p].pn
                BY <3>2, <4>1 DEF SetOK, Leaving, CallType
            <4>3. Kills(call[p], n)
                BY <3>2, <4>2 DEF Kills
            <4> QED
                BY <4>2, <4>3, KilledFacts DEF Live
        <3> QED
            BY <2>6, <3>1, <3>2
    <2>7. /\ panic # "freed twice"
          /\ panic = "freed node" =>
                \E p \in Proc : call[p].op = "dotdot" /\ ~call[p].ref
        BY ZenonT(60) DEF SgfsInv, PanicOK
    <2> QED
        BY ZenonT(60), <2>1, <2>2, <2>3, <2>4, <2>5, <2>6, <2>7, NothingLeaks
           DEF NodesSafe
<1> QED
    BY <1>1, SgfsInvHolds, PTL

-----------------------------------------------------------------------------
(* Names *)

(* Call c looks for, makes or removes an entry of the directory that it has *)
(* locked.                                                                  *)
Searching(c) ==
    /\ c.op \notin {"none", "root", "leave", "dotdot"}
    /\ c.dvp # NULL /\ c.put = NULL

IsEntry(ns, n, d, nm) ==
    n \in Node /\ ns[n].live /\ ns[n].parent = d /\ ns[n].name = nm

(* What such a call knows of the directory: until it lets go of it, what it *)
(* did not find is not there, and what it found is still there.             *)
Knows(ns, vs, c) ==
    Searching(c) =>
        /\ vs[c.dvp].st = "live" /\ vs[c.dvp].data = c.pd
        /\ c.pc = "mkdir" => \A n \in Node : ~IsEntry(ns, n, c.pd, c.name)
        /\ c.pc \in {"find", "getnew", "insert"} =>
            IsEntry(ns, c.pn, c.pd, c.name)
        /\ c.vp # NULL /\ vs[c.vp].st = "live" =>
            IsEntry(ns, vs[c.vp].data, c.pd, c.name)

CacheTrue(ns, vs, ch) ==
    \A e \in ch :
        /\ vs[e.dvp].st = "live" /\ vs[e.vp].st = "live"
        /\ IsEntry(ns, vs[e.vp].data, vs[e.dvp].data, e.name)

(* The entries but those of a directory that has been removed and has still *)
(* to be purged                                                             *)
Cached ==
    {e \in cache : \A q \in Proc : call[q].pc = "purge" => call[q].put # e.vp}

NameInv ==
    /\ NamesUnique
    /\ CacheTrue(node, vnode, Cached)
    /\ \A p \in Proc : Knows(node, vnode, call[p])

(* Nodes may be freed, and none is made, renamed or moved. *)
Named(ns, mt) ==
    \A n \in Node : mt[n].live =>
        ns[n].live /\ mt[n].name = ns[n].name /\ mt[n].parent = ns[n].parent

(* No vnode gets or loses a node, except that thread p may take the node   *)
(* from one that no other thread has locked.                               *)
Keeps(p, vs, vt) ==
    \A v \in Vnode :
        /\ vt[v].st = "live" => vs[v].st = "live" /\ vt[v].data = vs[v].data
        /\ vs[v].st = "live" /\ vs[v].lock \notin {NULL, p} =>
            vt[v].st = "live"

LiveKept(vs, vt) ==
    \A v \in Vnode :
        /\ vt[v].st = "live" <=> vs[v].st = "live"
        /\ vs[v].st = "live" => vt[v].data = vs[v].data

(* What the thread finds, it has found in its directory, or it is what the *)
(* name it has got stands for.                                             *)
LEMMA KnowsNext ==
    ASSUME SgfsInv, SgfsInv', NEW p \in Proc, Named(node, node'),
           Knows(node, vnode, call[p]), NEW d, d = call'[p],
           NEW c, c = call[p],
           Searching(d) => /\ Searching(c) /\ d.op = c.op /\ d.name = c.name
                           /\ d.dvp = c.dvp /\ d.pd = c.pd,
           vnode'[c.dvp].st = vnode[c.dvp].st,
           vnode'[c.dvp].data = vnode[c.dvp].data,
           d.pc = "mkdir" => c.pc = "mkdir",
           d.pc \in {"find", "getnew", "insert"} =>
                c.pc \in {"find", "getnew", "insert"} /\ d.pn = c.pn,
           d.vp # NULL /\ vnode'[d.vp].st = "live" =>
                \/ /\ c.pc \in {"find", "getnew", "insert"}
                   /\ vnode'[d.vp].data = c.pn
                \/ /\ d.vp = c.vp /\ vnode[d.vp].st = "live"
                   /\ vnode'[d.vp].data = vnode[d.vp].data
    PROVE  Knows(node', vnode', d)
<1> SUFFICES ASSUME Searching(d), Searching(c)
             PROVE  Knows(node', vnode', d)
    BY DEF Knows
<1>1. /\ d \in CallType /\ SetOK(d, cwd'[p]) /\ RefOK(d)
      /\ UsedOK(node', vnode') /\ RefsOK(node', call')
      /\ \A v \in Vnode : VnodeOK(vnode'[v])
    BY DEF SgfsInv, Book, Tree, CallOK
<1>2. vnode'[d.dvp].st = "live" /\ vnode'[d.dvp].data = d.pd
    BY DEF Knows
<1>5. ASSUME d.pc = "mkdir", NEW n \in Node
      PROVE  ~IsEntry(node', n, d.pd, d.name)
    BY <1>5 DEF Knows, Named, IsEntry
<1>3. ASSUME d.pc \in {"find", "getnew", "insert"}
      PROVE  IsEntry(node', d.pn, d.pd, d.name)
    <2>1. IsEntry(node, d.pn, d.pd, d.name)
        BY <1>3 DEF Knows
    <2>2. d.ref
        BY <1>1, <1>3 DEF RefOK, Walking, Searching
    <2>3. node'[d.pn].live
        BY SMTT(60), <1>1, <2>2 DEF RefsOK
    <2> QED
        BY <2>1, <2>3 DEF IsEntry, Named
<1>4. ASSUME d.vp # NULL, vnode'[d.vp].st = "live"
      PROVE  IsEntry(node', vnode'[d.vp].data, d.pd, d.name)
    <2>1. IsEntry(node, vnode'[d.vp].data, d.pd, d.name)
        BY <1>4 DEF Knows
    <2>2. node'[vnode'[d.vp].data].live
        BY ZenonT(60), <1>1, <1>4 DEF UsedOK, VnodeOK, CallType
    <2> QED
        BY <2>1, <2>2 DEF IsEntry, Named
<1> QED
    BY <1>2, <1>3, <1>4, <1>5 DEF Knows

(* What another call knows it goes on knowing. *)
LEMMA KnowsOn ==
    ASSUME SgfsInv, SgfsInv', NEW p, Keeps(p, vnode, vnode'),
           Named(node, node'), NEW q \in Proc, q # p, call'[q] = call[q],
           Knows(node, vnode, call[q])
    PROVE  Knows(node', vnode', call'[q])
<1> DEFINE c == call[q]
<1>1. /\ c \in CallType
      /\ \A v \in Vnode : Locks(c, v) => vnode[v].lock = q
    BY Known
<1> SUFFICES ASSUME Searching(c) PROVE Knows(node', vnode', c)
    BY DEF Knows
<1>2. vnode[c.dvp].st = "live" /\ c.dvp \in Vnode
    BY <1>1 DEF Knows, Searching, CallType
<1>3. vnode'[c.dvp].st = "live" /\ vnode'[c.dvp].data = vnode[c.dvp].data
    <2>1. Locks(c, c.dvp)
        BY DEF Searching, Locks, DirLocked
    <2>2. vnode[c.dvp].lock = q
        BY <1>1, <1>2, <2>1
    <2> QED
        BY <1>2, <2>2, NullAssumption DEF Keeps
<1>4. c.vp # NULL /\ vnode'[c.vp].st = "live" =>
        vnode[c.vp].st = "live" /\ vnode'[c.vp].data = vnode[c.vp].data
    BY <1>1 DEF Keeps, CallType
<1> QED
    BY <1>2, <1>3, <1>4, KnowsNext

(* Where nothing is made or moved, the names of a directory still differ. *)
LEMMA UniqueOn ==
    ASSUME NameInv, Named(node, node')
    PROVE  NamesUnique'
<1> SUFFICES ASSUME NEW n \in Node, NEW m \in Node,
                    node'[n].live, node'[m].live, n # m,
                    node'[n].parent # NULL,
                    node'[n].parent = node'[m].parent
             PROVE  node'[n].name # node'[m].name
    BY DEF NamesUnique, Live
<1> QED
    BY DEF NameInv, NamesUnique, Live, Named

(* The calls of all other threads stay what they are. *)
OnlyCall(p) == \A q \in Proc : q # p => call'[q] = call[q]

(* No entry comes back when another thread than one that purges takes a step. *)
LEMMA CachedLess ==
    ASSUME NEW p, p \in Proc => call[p].pc # "purge", OnlyCall(p),
           cache' \subseteq cache
    PROVE  Cached' \subseteq Cached
    BY DEF Cached, OnlyCall

(* Entries of the name cache whose vnodes keep their nodes are still true. *)
LEMMA CacheOn ==
    ASSUME SgfsInv, SgfsInv', NameInv, Named(node, node'),
           Cached' \subseteq Cached,
           \A e \in Cached' : \A v \in {e.dvp, e.vp} :
                vnode'[v].st = "live" /\ vnode'[v].data = vnode[v].data
    PROVE  CacheTrue(node', vnode', Cached')
<1> SUFFICES ASSUME NEW e \in Cached'
             PROVE  IsEntry(node', vnode'[e.vp].data, vnode'[e.dvp].data,
                            e.name)
    BY DEF CacheTrue
<1>1. e.dvp \in Vnode /\ e.vp \in Vnode
    BY DEF SgfsInv, CacheOK, Cached
<1>2. IsEntry(node, vnode[e.vp].data, vnode[e.dvp].data, e.name)
    BY DEF NameInv, CacheTrue
<1>3. node'[vnode'[e.vp].data].live
    <2>1. UsedOK(node', vnode') /\ VnodeOK(vnode'[e.vp])
        BY <1>1 DEF SgfsInv, Tree, Book
    <2> QED
        BY <1>1, <2>1 DEF UsedOK, VnodeOK
<1> QED
    BY <1>2, <1>3 DEF IsEntry, Named

(* A step in which nothing is made, renamed or moved *)
LEMMA NameStep ==
    ASSUME SgfsInv, SgfsInv', NameInv, NEW p, Keeps(p, vnode, vnode'),
           Named(node, node'), OnlyCall(p),
           p \in Proc => Knows(node', vnode', call'[p]),
           Cached' \subseteq Cached,
           \A e \in Cached' :
                vnode'[e.dvp].st = "live" /\ vnode'[e.vp].st = "live"
    PROVE  NameInv'
<1>1. CacheTrue(node', vnode', Cached')
    <2>1. \A e \in Cached' : \A v \in {e.dvp, e.vp} :
                vnode'[v].st = "live" /\ vnode'[v].data = vnode[v].data
        BY DEF SgfsInv, CacheOK, Keeps, Cached
    <2> QED
        BY <2>1, CacheOn
<1>2. ASSUME NEW q \in Proc PROVE Knows(node', vnode', call'[q])
    BY KnowsOn DEF NameInv, OnlyCall
<1> QED
    BY <1>1, <1>2, UniqueOn DEF NameInv

(* A step of a thread in which the vnodes keep their nodes as well *)
LEMMA NameQuiet ==
    ASSUME SgfsInv, SgfsInv', NameInv, NEW p \in Proc,
           call[p].pc # "purge", OnlyCall(p),
           LiveKept(vnode, vnode'), Named(node, node'),
           Knows(node', vnode', call'[p]), cache' \subseteq cache
    PROVE  NameInv'
<1>1. Keeps(p, vnode, vnode')
    BY DEF LiveKept, Keeps
<1>2. Cached' \subseteq Cached
    BY CachedLess
<1>3. ASSUME NEW e \in Cached'
      PROVE  vnode'[e.dvp].st = "live" /\ vnode'[e.vp].st = "live"
    <2>1. e.dvp \in Vnode /\ e.vp \in Vnode
        BY <1>3 DEF SgfsInv, CacheOK, Cached
    <2>2. vnode[e.dvp].st = "live" /\ vnode[e.vp].st = "live"
        BY <1>2, <1>3 DEF NameInv, CacheTrue
    <2> QED
        BY <2>1, <2>2 DEF LiveKept
<1> QED
    BY <1>1, <1>2, <1>3, NameStep

(* Calls that are over, of another kind, or at their vput know nothing. *)
LEMMA NameIdle ==
    ASSUME SgfsInv, SgfsInv', NameInv, NEW p \in Proc,
           call[p].pc # "purge", OnlyCall(p),
           LiveKept(vnode, vnode'), Named(node, node'),
           ~Searching(call'[p]), cache' \subseteq cache
    PROVE  NameInv'
    BY NameQuiet DEF Knows

(* Memory of vnodes that is given back held no node. *)
LEMMA SettledKept ==
    ASSUME NEW vs, NEW vt, LiveKept(vs, vt)
    PROVE  LiveKept(vs, Settled(vt))
<1> SUFFICES ASSUME NEW v \in Vnode
             PROVE  /\ Settled(vt)[v].st = "live" <=> vt[v].st = "live"
                    /\ vt[v].st = "live" => Settled(vt)[v] = vt[v]
    BY DEF LiveKept
<1>1. \/ Settled(vt)[v] = FreeVnode /\ vt[v].st = "doomed"
      \/ Settled(vt)[v] = vt[v]
    BY DEF Settled
<1>2. FreeVnode.st = "free"
    BY DEF FreeVnode
<1> QED
    BY <1>1, <1>2

(* A vnode that gets another lock keeps what it is. *)
LEMMA LockKept ==
    ASSUME NEW vs \in [Vnode -> VnodeType], NEW v \in Vnode,
           NEW l \in Proc \cup {NULL}
    PROVE  LiveKept(vs, [vs EXCEPT ![v].lock = l])
    BY LockVnode DEF LiveKept


(* Only pc changes. *)
LEMMA GotoFacts ==
    ASSUME SgfsInv, NEW p \in Proc, NEW pc, Goto(p, pc)
    PROVE  LET c == call[p]
               d == call'[p]
           IN  /\ OnlyCall(p) /\ d.pc = pc /\ d.op = c.op /\ d.name = c.name
               /\ d.dvp = c.dvp /\ d.pd = c.pd /\ d.vp = c.vp
               /\ d.pn = c.pn /\ d.ref = c.ref /\ d.put = c.put
<1>1. call \in [Proc -> CallType]
    BY Known
<1> QED
    BY <1>1 DEF Goto, OnlyCall, CallType

(* Counters, and what is freed, say nothing of names. *)
LEMMA DestroyNamed ==
    ASSUME NEW ns \in [Node -> NodeType], NEW n \in Node
    PROVE  Named(ns, sgfs_destroy(ns, n))
<1> SUFFICES ASSUME NEW m \in Node, sgfs_destroy(ns, n)[m].live
             PROVE  /\ ns[m].live
                    /\ sgfs_destroy(ns, n)[m].name = ns[m].name
                    /\ sgfs_destroy(ns, n)[m].parent = ns[m].parent
    BY DEF Named
<1> DEFINE x == [ns[m] EXCEPT !.children = Without(@, n)]
<1>1. sgfs_destroy(ns, n)[m] \in {FreeNode, x, ns[m]}
    BY DEF sgfs_destroy
<1>2. FreeNode.live = FALSE
    BY DEF FreeNode
<1>3. ns[m] \in NodeType
    OBVIOUS
<1>4. x.live = ns[m].live /\ x.name = ns[m].name /\ x.parent = ns[m].parent
    BY <1>3 DEF NodeType
<1> HIDE DEF x
<1> QED
    BY <1>1, <1>2, <1>4

(* So says what sgnode_release does to a node that somebody refers to. *)
LEMMA ReleaseNamed ==
    ASSUME NEW ns \in [Node -> NodeType], NEW n \in Node,
           ns[n].refcount > 0
    PROVE  Named(ns, ReleaseLocked(ns, n))
<1> DEFINE dec == [ns EXCEPT ![n].refcount = @ - 1]
<1>1. dec \in [Node -> NodeType] /\ Named(ns, dec)
    <2>1. ns[n] \in NodeType /\ ns[n].refcount - 1 \in Nat
        BY DEF NodeType
    <2> QED
        BY <2>1 DEF Named, NodeType
<1> HIDE DEF dec
<1>2. Named(dec, sgfs_destroy(dec, n))
    BY <1>1, DestroyNamed
<1>3. Named(ns, sgfs_destroy(dec, n))
    BY <1>1, <1>2 DEF Named
<1>4. ReleaseLocked(ns, n) = dec \/ ReleaseLocked(ns, n) = sgfs_destroy(dec, n)
    BY DEF ReleaseLocked, dec
<1> QED
    BY <1>1, <1>3, <1>4

(* Neither does another reference to a node. *)
LEMMA AddrefNamed ==
    ASSUME NEW ns \in [Node -> NodeType], NEW n \in Node
    PROVE  Named(ns, sgnode_addref(ns, n))
    BY DEF Named, sgnode_addref, NodeType

(* A lookup under the lock of the directory finds the entry, if there is one. *)
LEMMA SearchNames ==
    ASSUME node \in [Node -> NodeType], \A n \in Node : NodeOK(node, n),
           NEW pd \in Node, node[pd].live, NEW nm
    PROVE  /\ sgfs_search(pd, nm) # NULL =>
                IsEntry(node, sgfs_search(pd, nm), pd, nm)
           /\ sgfs_search(pd, nm) = NULL =>
                \A n \in Node : ~IsEntry(node, n, pd, nm)
<1> DEFINE list == node[pd].children
           hits == {i \in DOMAIN list : node[list[i]].name = nm}
<1>1. list \in Seq(Node) /\ hits \subseteq Nat /\ hits \subseteq DOMAIN list
    BY DEF NodeType
<1>2. hits # {} => Min(hits) \in hits
    <2> HIDE DEF hits
    <2> QED
        BY <1>1, MinOfPositions
<1>3. sgfs_search(pd, nm) = IF hits = {} THEN NULL ELSE list[Min(hits)]
    BY DEF sgfs_search
<1>4. ASSUME hits # {}
      PROVE  IsEntry(node, sgfs_search(pd, nm), pd, nm)
    <2>1. PICK i \in hits : i = Min(hits)
        BY Zenon, <1>2, <1>4
    <2>2. PICK n \in Node : n = list[i]
        BY <1>1
    <2>3. n \in ToSet(list) /\ node[n].name = nm
        BY Zenon, <2>1, <2>2 DEF ToSet
    <2>4. node[n].live /\ node[n].parent = pd
        BY SMTT(30), <2>3 DEF NodeOK
    <2>5. sgfs_search(pd, nm) = n
        BY Zenon, <1>3, <1>4, <2>1, <2>2
    <2> QED
        BY SMTT(30), <2>3, <2>4, <2>5 DEF IsEntry
<1>5. ASSUME hits = {}, NEW n \in Node, IsEntry(node, n, pd, nm)
      PROVE  FALSE
    <2>1. n \in ToSet(list)
        BY <1>5, NullAssumption DEF IsEntry, NodeOK
    <2>2. PICK i \in DOMAIN list : list[i] = n
        BY <2>1 DEF ToSet
    <2>3. i \in hits
        BY <1>5, <2>2 DEF IsEntry
    <2> QED
        BY <1>5, <2>3
<1> HIDE DEF hits, list
<1>6. CASE hits = {}
    BY <1>3, <1>5, <1>6
<1>7. CASE hits # {}
    BY <1>4, <1>7, NullAssumption DEF IsEntry
<1> QED
    BY <1>6, <1>7

(* A step of a thread that leaves nodes and vnodes alone, and looks for *)
(* nothing else                                                         *)
LEMMA NameGoto ==
    ASSUME SgfsInv, SgfsInv', NameInv, NEW p \in Proc,
           call[p].pc # "purge", OnlyCall(p),
           UNCHANGED <<node, vnode, cache>>,
           NEW d, d = call'[p], NEW c, c = call[p],
           Searching(d) => /\ Searching(c) /\ d.op = c.op /\ d.name = c.name
                           /\ d.dvp = c.dvp /\ d.pd = c.pd,
           d.pc # "mkdir",
           d.pc \in {"find", "getnew", "insert"} =>
                c.pc \in {"find", "getnew", "insert"} /\ d.pn = c.pn,
           d.vp # NULL => d.vp = c.vp
    PROVE  NameInv'
<1>1. LiveKept(vnode, vnode') /\ Named(node, node')
    BY DEF LiveKept, Named
<1>2. Knows(node, vnode, call[p])
    BY DEF NameInv
<1>3. Knows(node', vnode', d)
    BY <1>1, <1>2, KnowsNext
<1> QED
    BY <1>1, <1>3, NameQuiet

(* The end of a call: the directory is unlocked. *)
LEMMA NameEnd ==
    ASSUME SgfsInv, SgfsInv', NameInv, NEW p \in Proc,
           call[p].pc # "purge",
           NEW vs \in [Vnode -> VnodeType], LiveKept(vnode, vs),
           EndCall(p, vs), call[p].dvp # NULL, Named(node, node'),
           cache' \subseteq cache
    PROVE  NameInv'
<1>1. call \in [Proc -> CallType] /\ call[p].dvp \in Vnode
    BY Known DEF CallType
<1>2. OnlyCall(p) /\ call'[p] = Idle
    BY <1>1 DEF EndCall, OnlyCall
<1>3. ~Searching(call'[p])
    BY <1>2 DEF Searching, Idle
<1> DEFINE vt == [vs EXCEPT ![call[p].dvp].lock = NULL]
<1>4. LiveKept(vs, vt)
    BY <1>1, LockKept
<1>5. vnode' = Settled(vt)
    BY DEF EndCall
<1> HIDE DEF vt
<1>6. LiveKept(vnode, vt)
    BY <1>4 DEF LiveKept
<1>7. LiveKept(vnode, vnode')
    BY <1>5, <1>6, SettledKept
<1> QED
    BY <1>2, <1>3, <1>7, NameIdle

(* The same vnodes keep their nodes. *)
LEMMA SameKept ==
    ASSUME NEW vs PROVE LiveKept(vs, vs)
    BY DEF LiveKept

(* The same nodes keep their names. *)
LEMMA SameNamed ==
    ASSUME NEW ns PROVE Named(ns, ns)
    BY DEF Named

(* A call starts in its directory, of which it knows nothing but the node. *)
LEMMA NameStartCall ==
    ASSUME SgfsInv, SgfsInv', NameInv, NEW p \in Proc,
           call[p].pc # "purge", NEW op, NEW nm,
           StartCall(p, op, nm)
    PROVE  NameInv'
<1> DEFINE v == cwd[p]
           d == [Idle EXCEPT !.pc = IF op = "dotdot" THEN "dotdot"
                                    ELSE "lookup",
                             !.op = op, !.name = nm, !.dvp = v,
                             !.pd = vnode[v].data, !.mount = vnode[v].mount]
<1>1. /\ vnode \in [Vnode -> VnodeType] /\ call \in [Proc -> CallType]
      /\ v \in Vnode /\ vnode[v].st = "live"
      /\ vnode' = [vnode EXCEPT ![v].lock = p]
      /\ node' = node /\ cache' = cache
    BY Known DEF StartCall
<1>2. OnlyCall(p) /\ call'[p] = d
    BY <1>1 DEF StartCall, OnlyCall
<1>3. /\ d.pc \in {"dotdot", "lookup"} /\ d.vp = NULL
      /\ d.dvp = v /\ d.pd = vnode[v].data
    BY DEF Idle
<1> HIDE DEF d
<1>4. LiveKept(vnode, vnode')
    BY <1>1, LockKept
<1>5. Knows(node', vnode', d)
    BY <1>1, <1>3, <1>4 DEF Knows, LiveKept
<1> QED
    BY <1>1, <1>2, <1>4, <1>5, NameQuiet, SameNamed

(* A path enters the mount point: nothing is searched for. *)
LEMMA NameRoot ==
    ASSUME SgfsInv, SgfsInv', NameInv, NEW p \in Proc,
           call[p].pc # "purge", NEW m, sgfs_root(p, m)
    PROVE  NameInv'
<1>1. call \in [Proc -> CallType]
    BY Known
<1>2. /\ OnlyCall(p) /\ call'[p].op = "root"
      /\ node' = node /\ cache' = cache /\ vnode' = vnode
    BY <1>1 DEF sgfs_root, OnlyCall, Idle
<1>3. ~Searching(call'[p])
    BY <1>2 DEF Searching
<1> QED
    BY <1>2, <1>3, NameIdle, SameNamed, SameKept

(* A thread leaves. *)
LEMMA NameLeave ==
    ASSUME SgfsInv, SgfsInv', NameInv, NEW p \in Proc,
           call[p].pc # "purge", Leave(p)
    PROVE  NameInv'
<1>1. /\ call \in [Proc -> CallType] /\ vnode \in [Vnode -> VnodeType]
      /\ cwd[p] \in Vnode
    BY Known DEF Leave
<1>2. /\ OnlyCall(p) /\ call'[p].op = "leave"
      /\ node' = node /\ cache' = cache
      /\ vnode' = [vnode EXCEPT ![cwd[p]].lock = p]
    BY <1>1 DEF Leave, OnlyCall, Idle
<1>3. ~Searching(call'[p])
    BY <1>2 DEF Searching
<1>4. LiveKept(vnode, vnode')
    BY <1>1, <1>2, LockKept
<1> QED
    BY <1>2, <1>3, <1>4, NameIdle, SameNamed

(* A lookup by name finds the entry and refers to its node, or learns that *)
(* there is none.                                                          *)
LEMMA NameLookupNamed ==
    ASSUME SgfsInv, SgfsInv', NameInv, NEW p \in Proc,
           call[p].pc # "purge", LookupNamed(p)
    PROVE  NameInv'
<1> DEFINE c == call[p]
           pn == sgfs_search(Pd(p), c.name)
<1>1. /\ call \in [Proc -> CallType] /\ node \in [Node -> NodeType]
      /\ vnode \in [Vnode -> VnodeType]
      /\ c \in CallType /\ SetOK(c, cwd[p]) /\ DirOK(vnode, c, cwd[p])
      /\ UsedOK(node, vnode) /\ \A n \in Node : NodeOK(node, n)
    BY Known
<1>2. /\ c.pc = "lookup" /\ c.dvp \in Vnode /\ Pd(p) = c.pd /\ c.pd \in Node
      /\ c.vp = NULL /\ node[c.pd].live /\ cache' = cache
      /\ vnode[c.dvp].st = "live" /\ vnode[c.dvp].data = c.pd
    <2>1. /\ c.pc = "lookup" /\ c.dvp \in Vnode /\ Pd(p) = c.pd /\ c.pd \in Node
          /\ c.vp = NULL /\ cache' = cache
        BY <1>1 DEF LookupNamed, At, SetOK, CallType, Pd
    <2>2. vnode[c.dvp].st = "live" /\ vnode[c.dvp].data = c.pd
        BY <1>1, <2>1 DEF DirOK
    <2> QED
        BY <1>1, <2>1, <2>2, NullAssumption DEF UsedOK
<1>3. /\ pn # NULL => IsEntry(node, pn, c.pd, c.name)
      /\ pn = NULL => \A n \in Node : ~IsEntry(node, n, c.pd, c.name)
    BY <1>1, <1>2, SearchNames
<1> HIDE DEF pn
<1>4. CASE /\ pn # NULL /\ node' = sgnode_addref(node, pn) /\ vnode' = vnode
           /\ call' = [call EXCEPT ![p].pc = "find", ![p].pn = pn,
                                   ![p].ref = TRUE]
    <2>1. /\ OnlyCall(p) /\ call'[p].pc = "find" /\ call'[p].pn = pn
          /\ call'[p].vp = NULL /\ call'[p].dvp = c.dvp /\ call'[p].pd = c.pd
          /\ call'[p].name = c.name
        BY <1>1, <1>2, <1>4 DEF OnlyCall, CallType
    <2>2. pn \in Node
        BY <1>3, <1>4 DEF IsEntry
    <2>3. Named(node, node')
        BY <1>1, <1>4, <2>2, AddrefNamed
    <2>4. node'[pn].live
        BY <1>1, <1>3, <1>4, <2>2 DEF sgnode_addref, NodeType, IsEntry
    <2>5. IsEntry(node', pn, c.pd, c.name)
        BY SMTT(60), <1>3, <1>4, <2>3, <2>4 DEF IsEntry, Named
    <2>6. Knows(node', vnode', call'[p])
        BY <1>2, <1>4, <2>1, <2>5 DEF Knows
    <2> QED
        BY <1>2, <1>4, <2>1, <2>3, <2>6, NameQuiet, SameKept
<1>5. CASE /\ pn = NULL /\ c.op = "mkdir" /\ Goto(p, "mkdir")
           /\ UNCHANGED <<node, vnode>>
    <2>1. /\ OnlyCall(p) /\ call'[p].pc = "mkdir" /\ call'[p].op = "mkdir"
          /\ call'[p].vp = NULL /\ call'[p].dvp = c.dvp /\ call'[p].pd = c.pd
          /\ call'[p].name = c.name
        BY <1>2, <1>5, GotoFacts
    <2>2. Knows(node', vnode', call'[p])
        BY <1>2, <1>3, <1>5, <2>1 DEF Knows
    <2> QED
        BY SMTT(60), <1>2, <1>5, <2>1, <2>2, NameQuiet, SameNamed, SameKept
<1>6. CASE EndCall(p, vnode) /\ node' = node
    <2>1. c.dvp # NULL
        BY <1>2, NullAssumption
    <2> QED
        BY <1>1, <1>2, <1>6, <2>1, NameEnd, SameNamed, SameKept
<1> QED
    BY <1>4, <1>5, <1>6 DEF LookupNamed, pn

(* The node that was found is let go. *)
LEMMA NameLookupDenied ==
    ASSUME SgfsInv, SgfsInv', NameInv, NEW p \in Proc,
           call[p].pc # "purge", LookupDenied(p)
    PROVE  NameInv'
<1>1. Goto(p, "release") /\ UNCHANGED <<node, vnode, cache>>
    BY DEF LookupDenied
<1> QED
    BY <1>1, GotoFacts, NameGoto DEF Searching

(* The name cache answers with what it says is the entry. *)
LEMMA NameCacheHit ==
    ASSUME SgfsInv, SgfsInv', NameInv, NEW p \in Proc,
           call[p].pc # "purge", CacheHit(p)
    PROVE  NameInv'
<1> DEFINE c == call[p]
<1>1. /\ call \in [Proc -> CallType] /\ vnode \in [Vnode -> VnodeType]
      /\ c \in CallType /\ SetOK(c, cwd[p]) /\ DirOK(vnode, c, cwd[p])
    BY Known
<1>2. PICK v \in Vnode :
        /\ [dvp |-> c.dvp, name |-> c.name, vp |-> v] \in cache
        /\ vnode[v].lock = NULL
        /\ vnode' = [vnode EXCEPT ![v].lock = p, ![v].use = @ + 1]
        /\ call' = [call EXCEPT ![p].pc = "done", ![p].vp = v]
    BY DEF CacheHit
<1>3. c.pc = "lookup" /\ node' = node /\ cache' = cache
    BY DEF CacheHit, At
<1>4. /\ OnlyCall(p) /\ call'[p].pc = "done" /\ call'[p].vp = v
      /\ call'[p].dvp = c.dvp /\ call'[p].pd = c.pd /\ call'[p].name = c.name
    BY <1>1, <1>2 DEF OnlyCall, CallType
<1>5. LiveKept(vnode, vnode')
    BY <1>1, <1>2 DEF LiveKept, VnodeType
<1>6. c.dvp \in Vnode /\ vnode[c.dvp].st = "live" /\ vnode[c.dvp].data = c.pd
    BY <1>1, <1>3 DEF DirOK, SetOK, CallType
<1>7. IsEntry(node, vnode[v].data, c.pd, c.name) /\ vnode[v].st = "live"
    <2> DEFINE e == [dvp |-> c.dvp, name |-> c.name, vp |-> v]
    <2>1. e.dvp = c.dvp /\ e.name = c.name /\ e.vp = v /\ e \in cache
        BY <1>2
    <2> HIDE DEF e
    <2>2. ASSUME NEW q \in Proc, call[q].put = v
          PROVE  FALSE
        <3>1. \A u \in Vnode : Locks(call[q], u) => vnode[u].lock = q
            BY Known
        <3> QED
            BY <1>2, <2>2, <3>1, NullAssumption DEF Locks
    <2>3. e \in Cached
        BY <2>1, <2>2 DEF Cached
    <2> QED
        BY <1>6, <2>1, <2>3 DEF NameInv, CacheTrue
<1>8. Knows(node', vnode', call'[p])
    BY SMTT(60), <1>3, <1>4, <1>5, <1>6, <1>7 DEF Knows, LiveKept
<1> QED
    BY <1>3, <1>4, <1>5, <1>8, NameQuiet, SameNamed

(* A kernel that stops keeps what it had. *)
LEMMA NamePanic ==
    ASSUME NameInv, UNCHANGED <<node, vnode, call, cache>>
    PROVE  NameInv'
    BY DEF NameInv, NamesUnique, Live, CacheTrue, Cached, Knows, IsEntry

(* A ".." goes by no name. *)
LEMMA NameDotDot ==
    ASSUME SgfsInv, SgfsInv', NameInv, NEW p \in Proc,
           call[p].pc # "purge",
           DotDot(p) \/ DotDotParent(p) \/ Relock(p)
    PROVE  NameInv'
<1> DEFINE c == call[p]
<1>1. /\ call \in [Proc -> CallType] /\ vnode \in [Vnode -> VnodeType]
      /\ c \in CallType /\ SetOK(c, cwd[p])
    BY Known
<1>2. c.op = "dotdot" /\ c.dvp \in Vnode
    BY ZenonT(60), <1>1 DEF DotDot, DotDotParent, Relock, At, SetOK, CallType
<1>3. CASE EndCall(p, vnode) /\ UNCHANGED <<node, cache>>
    <2>1. c.dvp # NULL
        BY <1>2, NullAssumption
    <2> QED
        BY <1>1, <1>3, <2>1, NameEnd, SameNamed, SameKept
<1>4. CASE /\ \E l \in Proc \cup {NULL} :
                vnode' = [vnode EXCEPT ![c.dvp].lock = l]
           /\ \E pc : Goto(p, pc)
           /\ UNCHANGED <<node, cache>>
    <2>1. OnlyCall(p) /\ call'[p].op = "dotdot"
        BY <1>2, <1>4, GotoFacts
    <2>2. ~Searching(call'[p])
        BY <2>1 DEF Searching
    <2>3. LiveKept(vnode, vnode')
        <3>1. PICK l \in Proc \cup {NULL} :
                vnode' = [vnode EXCEPT ![c.dvp].lock = l]
            BY <1>4
        <3>2. LiveKept(vnode, [vnode EXCEPT ![c.dvp].lock = l])
            BY <1>1, <1>2, LockKept
        <3> QED
            BY <3>1, <3>2
    <2> QED
        BY <1>4, <2>1, <2>2, <2>3, NameIdle, SameNamed
<1>5. CASE UNCHANGED <<node, vnode, call, cache>>
    BY <1>5, NamePanic
<1>6. CASE /\ \E pn : call' = [call EXCEPT ![p].pc = "find", ![p].pn = pn]
           /\ UNCHANGED <<node, vnode, cache>>
    <2>1. OnlyCall(p) /\ call'[p].op = "dotdot"
        BY <1>1, <1>2, <1>6 DEF OnlyCall, CallType
    <2>2. ~Searching(call'[p])
        BY <2>1 DEF Searching
    <2> QED
        BY <1>6, <2>1, <2>2, NameIdle, SameNamed, SameKept
<1>7. CASE DotDot(p)
    <2>1. NULL \in Proc \cup {NULL}
        OBVIOUS
    <2> QED
        BY <1>3, <1>4, <1>7, <2>1 DEF DotDot
<1>8. CASE DotDotParent(p)
    BY ZenonT(60), <1>5, <1>6, <1>8 DEF DotDotParent, Panic
<1>9. CASE Relock(p)
    <2>1. p \in Proc \cup {NULL}
        OBVIOUS
    <2> QED
        BY <1>4, <1>9, <2>1 DEF Relock
<1> QED
    BY <1>7, <1>8, <1>9

(* sgfs_allocv goes to look for a vnode of the node that was found, or to *)
(* make one.                                                              *)
LEMMA NameAllocFind ==
    ASSUME SgfsInv, SgfsInv', NameInv, NEW p \in Proc,
           call[p].pc # "purge", AllocFind(p)
    PROVE  NameInv'
<1> DEFINE c == call[p]
<1>1. /\ call \in [Proc -> CallType] /\ vnode \in [Vnode -> VnodeType]
      /\ c \in CallType /\ SetOK(c, cwd[p]) /\ c.pc = "find"
    BY ZenonT(60), Known DEF AllocFind, At
<1>2. CASE Panic("freed node")
    BY ZenonT(60), <1>2, NamePanic DEF Panic
<1>3. CASE Goto(p, "getnew") /\ UNCHANGED <<node, vnode, cache>>
    BY <1>1, <1>3, GotoFacts, NameGoto DEF Searching
<1>4. ASSUME NEW v \in VnodesOn(c.pn, c.mount),
             vnode' = [vnode EXCEPT ![v].hold = @ + 1],
             call' = [call EXCEPT ![p].pc = "vget", ![p].vp = v],
             UNCHANGED <<node, cache>>
      PROVE  NameInv'
    <2>1. v \in Vnode /\ vnode[v].data = c.pn
        BY DEF VnodesOn, VnodesOf
    <2>2. /\ OnlyCall(p) /\ call'[p].pc = "vget" /\ call'[p].op = c.op
          /\ call'[p].name = c.name /\ call'[p].dvp = c.dvp
          /\ call'[p].pd = c.pd /\ call'[p].vp = v /\ call'[p].put = c.put
        BY <1>1, <1>4 DEF OnlyCall, CallType
    <2>3. \A u \in Vnode : vnode'[u].st = vnode[u].st
                           /\ vnode'[u].data = vnode[u].data
        BY <1>1, <1>4, <2>1 DEF VnodeType
    <2>4. LiveKept(vnode, vnode') /\ Named(node, node')
        BY <1>4, <2>3 DEF LiveKept, Named
    <2>5. Searching(call'[p]) => Searching(c) /\ c.dvp \in Vnode
        BY <1>1, <2>2 DEF Searching, CallType
    <2>6. Knows(node', vnode', call'[p])
        <3>1. CASE ~Searching(call'[p])
            BY <3>1 DEF Knows
        <3>2. CASE Searching(call'[p])
            <4>1. /\ vnode'[c.dvp].st = vnode[c.dvp].st
                  /\ vnode'[c.dvp].data = vnode[c.dvp].data
                BY <2>3, <2>5, <3>2
            <4>2. Knows(node, vnode, call[p])
                BY DEF NameInv
            <4>3. vnode'[v].data = c.pn
                BY SMTT(120), <2>1, <2>3
            <4> QED
                BY <1>1, <2>2, <2>4, <2>5, <4>1, <4>2, <4>3, KnowsNext
        <3> QED
            BY <3>1, <3>2
    <2> QED
        BY <1>4, <2>2, <2>4, <2>6, NameQuiet
<1> QED
    BY ZenonT(60), <1>2, <1>3, <1>4 DEF AllocFind

(* vget locks the vnode that stands for the node. *)
LEMMA NameVget ==
    ASSUME SgfsInv, SgfsInv', NameInv, NEW p \in Proc,
           call[p].pc # "purge", Vget(p)
    PROVE  NameInv'
<1> DEFINE c == call[p]
           v == c.vp
<1>1. /\ call \in [Proc -> CallType] /\ vnode \in [Vnode -> VnodeType]
      /\ c \in CallType /\ SetOK(c, cwd[p]) /\ c.pc = "vget"
    BY Known DEF Vget, At
<1>2. /\ v \in Vnode /\ UNCHANGED <<node, cache>>
      /\ vnode' = [vnode EXCEPT ![v].lock = p, ![v].use = @ + 1,
                                ![v].hold = @ - 1]
      /\ Goto(p, AfterAlloc(p))
    BY SMTT(60), <1>1 DEF Vget, SetOK, CallType
<1>3. \A u \in Vnode : vnode'[u].st = vnode[u].st
                       /\ vnode'[u].data = vnode[u].data
    BY SMTT(30), <1>1, <1>2 DEF VnodeType
<1>4. LiveKept(vnode, vnode') /\ Named(node, node')
    BY <1>2, <1>3 DEF LiveKept, Named
<1>5. /\ OnlyCall(p) /\ call'[p].pc = AfterAlloc(p) /\ call'[p].op = c.op
      /\ call'[p].name = c.name /\ call'[p].dvp = c.dvp
      /\ call'[p].pd = c.pd /\ call'[p].vp = v /\ call'[p].put = c.put
    BY <1>2, GotoFacts
<1>6. AfterAlloc(p) \in {"release", "relock", "done"}
    BY DEF AfterAlloc
<1>7. Knows(node', vnode', call'[p])
    <2>1. CASE ~Searching(call'[p])
        BY SMTT(60), <2>1 DEF Knows
    <2>2. CASE Searching(call'[p])
        <3>1. Searching(c) /\ c.dvp \in Vnode
            BY SMTT(120), <1>1, <1>5, <2>2 DEF Searching, CallType
        <3>2. /\ vnode'[c.dvp].st = vnode[c.dvp].st
              /\ vnode'[c.dvp].data = vnode[c.dvp].data
              /\ vnode'[v].st = vnode[v].st /\ vnode'[v].data = vnode[v].data
            BY <1>2, <1>3, <3>1
        <3>3. Knows(node, vnode, call[p])
            BY DEF NameInv
        <3> QED
            BY <1>4, <1>5, <1>6, <3>1, <3>2, <3>3, KnowsNext
    <2> QED
        BY <2>1, <2>2
<1> QED
    BY <1>2, <1>4, <1>5, <1>7, NameQuiet

(* The new vnode has no node yet. *)
LEMMA NameAllocNew ==
    ASSUME SgfsInv, SgfsInv', NameInv, NEW p \in Proc,
           call[p].pc # "purge", AllocNew(p)
    PROVE  NameInv'
<1> DEFINE c == call[p]
<1>1. /\ call \in [Proc -> CallType] /\ vnode \in [Vnode -> VnodeType]
      /\ c \in CallType /\ SetOK(c, cwd[p]) /\ c.pc = "getnew"
      /\ UNCHANGED <<node, cache>>
      /\ AfterAlloc(p) \in {"release", "relock", "done"}
    BY Known DEF AllocNew, At, AfterAlloc
<1>2. CASE Goto(p, AfterAlloc(p)) /\ UNCHANGED vnode
    BY <1>1, <1>2, GotoFacts, NameGoto DEF Searching
<1>3. ASSUME NEW v \in FreeVnodes,
             vnode' = [vnode EXCEPT ![v] =
                          [FreeVnode EXCEPT !.st = "new", !.use = 1,
                                            !.lock = p,
                                            !.mount = c.mount]],
             call' = [call EXCEPT ![p].pc = "insert", ![p].vp = v]
      PROVE  NameInv'
    <2>1. v \in Vnode /\ vnode[v].st = "free"
        BY DEF FreeVnodes
    <2>2. /\ OnlyCall(p) /\ call'[p].pc = "insert" /\ call'[p].op = c.op
          /\ call'[p].name = c.name /\ call'[p].dvp = c.dvp
          /\ call'[p].pd = c.pd /\ call'[p].vp = v /\ call'[p].put = c.put
          /\ call'[p].pn = c.pn
        BY <1>1, <1>3 DEF OnlyCall, CallType
    <2>3. vnode'[v].st = "new" /\ \A u \in Vnode : u # v => vnode'[u] = vnode[u]
        BY <1>1, <1>3, <2>1 DEF FreeVnode
    <2>4. LiveKept(vnode, vnode') /\ Named(node, node')
        BY <1>1, <2>1, <2>3 DEF LiveKept, Named
    <2>5. Knows(node', vnode', call'[p])
        <3>1. CASE ~Searching(call'[p])
            BY <3>1 DEF Knows
        <3>2. CASE Searching(call'[p])
            <4>1. Searching(c) /\ c.dvp \in Vnode
                BY <1>1, <2>2, <3>2 DEF Searching, CallType
            <4>2. Knows(node, vnode, call[p])
                BY DEF NameInv
            <4>3. vnode[c.dvp].st = "live"
                BY <4>1, <4>2 DEF Knows
            <4>4. vnode'[c.dvp] = vnode[c.dvp]
                BY SMTT(60), <2>1, <2>3, <4>1, <4>3
            <4> QED
                BY <1>1, <2>2, <2>3, <2>4, <4>1, <4>2, <4>4, KnowsNext
        <3> QED
            BY <3>1, <3>2
    <2> QED
        BY <1>1, <2>2, <2>4, <2>5, NameQuiet
<1> QED
    BY <1>2, <1>3 DEF AllocNew

(* The new vnode gets the node. *)
LEMMA NameAllocInsert ==
    ASSUME SgfsInv, SgfsInv', NameInv, NEW p \in Proc,
           call[p].pc # "purge", AllocInsert(p)
    PROVE  NameInv'
<1> DEFINE c == call[p]
           v == c.vp
<1>1. /\ call \in [Proc -> CallType] /\ vnode \in [Vnode -> VnodeType]
      /\ node \in [Node -> NodeType] /\ CacheOK(cache)
      /\ c \in CallType /\ SetOK(c, cwd[p]) /\ VpOK(vnode, c) /\ c.pc = "insert"
      /\ \A u \in Vnode : Locks(c, u) => vnode[u].lock = p
    BY ZenonT(60), Known DEF AllocInsert, At
<1>2. /\ v \in Vnode /\ c.pn \in Node /\ vnode[v].st = "new"
      /\ vnode[v].lock = p
    BY <1>1 DEF SetOK, VpOK, Locks, CallType, Walking
<1>3. CASE \E why : Panic(why)
    BY <1>3, NamePanic DEF Panic
<1>4. CASE /\ node' = sgnode_addref(node, c.pn)
           /\ vnode' = [vnode EXCEPT ![v].st = "live", ![v].data = c.pn]
           /\ Goto(p, AfterAlloc(p)) /\ cache' = cache
    <2>1. Named(node, node')
        BY <1>1, <1>2, <1>4, AddrefNamed
    <2>2. /\ \A u \in Vnode : u # v => vnode'[u] = vnode[u]
          /\ vnode'[v].st = "live" /\ vnode'[v].data = c.pn
        BY <1>1, <1>2, <1>4 DEF VnodeType
    <2>3. /\ OnlyCall(p) /\ call'[p].pc = AfterAlloc(p) /\ call'[p].op = c.op
          /\ call'[p].name = c.name /\ call'[p].dvp = c.dvp
          /\ call'[p].pd = c.pd /\ call'[p].vp = v /\ call'[p].put = c.put
        BY SMTT(60), <1>4, GotoFacts
    <2>4. AfterAlloc(p) \in {"release", "relock", "done"}
        BY DEF AfterAlloc
    <2>5. Knows(node', vnode', call'[p])
        <3>1. CASE ~Searching(call'[p])
            BY <3>1 DEF Knows
        <3>2. CASE Searching(call'[p])
            <4>1. Searching(c) /\ c.dvp \in Vnode
                BY <1>1, <2>3, <3>2 DEF Searching, CallType
            <4>2. Knows(node, vnode, call[p])
                BY DEF NameInv
            <4>3. vnode[c.dvp].st = "live"
                BY <4>1, <4>2 DEF Knows
            <4>4. vnode'[c.dvp] = vnode[c.dvp]
                BY <1>2, <2>2, <4>1, <4>3
            <4> QED
                BY <1>1, <2>1, <2>2, <2>3, <2>4, <4>1, <4>2, <4>4, KnowsNext
        <3> QED
            BY <3>1, <3>2
    <2>6. ASSUME NEW q \in Proc, q # p
          PROVE  Knows(node', vnode', call'[q])
        <3>1. /\ call[q] \in CallType /\ SetOK(call[q], cwd[q])
              /\ VpOK(vnode, call[q])
              /\ \A u \in Vnode : Locks(call[q], u) => vnode[u].lock = q
            BY Known, <2>6
        <3>2. Knows(node, vnode, call[q]) /\ call'[q] = call[q]
            BY <2>3, <2>6 DEF NameInv, OnlyCall
        <3>3. call[q].vp # v
            BY <1>2, <2>6, <3>1, NullAssumption DEF VpOK, Locks
        <3>4. CASE ~Searching(call[q])
            BY <3>2, <3>4 DEF Knows
        <3>5. CASE Searching(call[q])
            <4>1. vnode[call[q].dvp].st = "live" /\ call[q].dvp \in Vnode
                BY <3>1, <3>2, <3>5 DEF Knows, Searching, CallType
            <4>2. vnode'[call[q].dvp] = vnode[call[q].dvp]
                BY <1>2, <2>2, <4>1
            <4>3. call[q].vp # NULL => vnode'[call[q].vp] = vnode[call[q].vp]
                BY SMTT(30), <2>2, <3>1, <3>3 DEF CallType
            <4> QED
                BY <2>1, <3>2, <4>2, <4>3, KnowsNext
        <3> QED
            BY <3>4, <3>5
    <2>7. CacheTrue(node', vnode', Cached')
        <3>0. Cached' \subseteq Cached
            BY <1>4, <2>3, CachedLess
        <3>1. ASSUME NEW e \in Cached', NEW u \in {e.dvp, e.vp}
              PROVE  vnode'[u].st = "live" /\ vnode'[u].data = vnode[u].data
            <4>1. u \in Vnode /\ vnode[u].st = "live"
                BY <1>1, <3>0, <3>1 DEF NameInv, CacheTrue, CacheOK, Cached
            <4> QED
                BY <1>2, <2>2, <4>1
        <3> QED
            BY <2>1, <3>0, <3>1, CacheOn
    <2> QED
        BY <2>1, <2>5, <2>6, <2>7, UniqueOn DEF NameInv
<1> QED
    BY ZenonT(60), <1>3, <1>4 DEF AllocInsert

(* The reference of the lookup is dropped. *)
LEMMA NameRelease ==
    ASSUME SgfsInv, SgfsInv', NameInv, NEW p \in Proc,
           call[p].pc # "purge",
           ReleaseDec(p) \/ ReleaseCompare(p) \/ ReleaseDestroy(p)
    PROVE  NameInv'
<1> DEFINE c == call[p]
           d == call'[p]
<1>1. /\ call \in [Proc -> CallType] /\ node \in [Node -> NodeType]
      /\ c \in CallType /\ SetOK(c, cwd[p]) /\ RefOK(c) /\ RefsOK(node, call)
    BY Known
<1>2. CASE Panic("freed twice")
    BY ZenonT(60), <1>2, NamePanic DEF Panic
<1>3. CASE ~Panic("freed twice")
    <2>1. /\ c.pc \in Leaving /\ c.pn \in Node
          /\ vnode' = vnode /\ cache' = cache
        BY ZenonT(60), <1>1, <1>3 DEF ReleaseDec, ReleaseCompare,
           ReleaseDestroy, At, SetOK, CallType, Leaving
    <2>2. /\ OnlyCall(p) /\ d.pc \in {"compare", "destroy", "done"}
          /\ d.op = c.op /\ d.name = c.name /\ d.dvp = c.dvp /\ d.pd = c.pd
          /\ d.vp = c.vp /\ d.put = c.put
        <3>1. CASE ReleaseDec(p)
            BY <1>1, <3>1 DEF ReleaseDec, OnlyCall, CallType
        <3>2. CASE ReleaseCompare(p)
            <4> DEFINE x == [c EXCEPT !.pc = "destroy"]
                       y == [c EXCEPT !.pc = "done", !.old = 0, !.pn = NULL]
            <4>1. /\ x.pc = "destroy"
                  /\ x.op = c.op /\ x.name = c.name /\ x.dvp = c.dvp
                  /\ x.pd = c.pd /\ x.vp = c.vp /\ x.put = c.put
                BY <1>1 DEF CallType
            <4>2. /\ y.pc = "done"
                  /\ y.op = c.op /\ y.name = c.name /\ y.dvp = c.dvp
                  /\ y.pd = c.pd /\ y.vp = c.vp /\ y.put = c.put
                BY <1>1 DEF CallType
            <4>3. \/ call' = [call EXCEPT ![p] = x]
                  \/ call' = [call EXCEPT ![p] = y]
                BY <3>2 DEF ReleaseCompare
            <4> HIDE DEF x, y
            <4> QED
                BY <1>1, <4>1, <4>2, <4>3 DEF OnlyCall
        <3>3. CASE ReleaseDestroy(p)
            <4>1. call' = [call EXCEPT ![p].pc = "done", ![p].old = 0,
                                       ![p].pn = NULL]
                BY ZenonT(60), <1>3, <3>3 DEF ReleaseDestroy
            <4> QED
                BY <1>1, <4>1 DEF OnlyCall, CallType
        <3> QED
            BY ZenonT(60), <1>3, <3>1, <3>2, <3>3
    <2>3. Named(node, node')
        <3>1. CASE ReleaseDec(p)
            BY <1>1, <3>1 DEF ReleaseDec, Named, NodeType
        <3>2. CASE ReleaseCompare(p)
            BY <3>2, SameNamed DEF ReleaseCompare
        <3>3. CASE node' = sgfs_destroy(node, c.pn)
            BY <1>1, <2>1, <3>3, DestroyNamed
        <3> QED
            BY ZenonT(60), <1>3, <3>1, <3>2, <3>3 DEF ReleaseDestroy
    <2>4. Knows(node', vnode', d)
        <3>1. Knows(node, vnode, call[p])
            BY DEF NameInv
        <3> QED
            BY <2>1, <2>2, <2>3, <3>1, KnowsNext DEF Searching
    <2> QED
        BY <2>1, <2>2, <2>3, <2>4, NameQuiet, SameKept
<1> QED
    BY ZenonT(60), <1>2, <1>3

(* The walk has come to a directory, and its name is put into the cache. *)
LEMMA NameDoneWalk ==
    ASSUME SgfsInv, SgfsInv', NameInv, NEW p \in Proc,
           call[p].pc # "purge", DoneWalk(p)
    PROVE  NameInv'
<1> DEFINE c == call[p]
           e == [dvp |-> c.dvp, name |-> c.name, vp |-> c.vp]
<1>1. /\ call \in [Proc -> CallType] /\ vnode \in [Vnode -> VnodeType]
      /\ c \in CallType /\ SetOK(c, cwd[p]) /\ c.pc = "done" /\ CacheOK(cache)
    BY Known DEF DoneWalk, At
<1>2. c.vp \in Vnode /\ node' = node /\ c.op \in {"walk", "dotdot", "root"}
    BY <1>1 DEF DoneWalk, Got, CallType
<1>3. OnlyCall(p) /\ ~Searching(call'[p])
    <2>1. PICK d : call' = [call EXCEPT ![p] = d] /\ ~Searching(d)
        <3> DEFINE x == [Idle EXCEPT !.pc = "put", !.op = c.op, !.put = c.dvp]
        <3>1. x.put = c.dvp /\ x.dvp = NULL /\ Idle.dvp = NULL
            BY DEF Idle
        <3>2. ~Searching(x) /\ ~Searching(Idle)
            BY <3>1 DEF Searching
        <3>3. \/ call' = [call EXCEPT ![p] = x]
              \/ call' = [call EXCEPT ![p] = Idle]
            BY DEF DoneWalk
        <3> HIDE DEF x
        <3> QED
            BY <3>2, <3>3
    <2> QED
        BY <1>1, <2>1 DEF OnlyCall
<1>4. LiveKept(vnode, vnode')
    <2>1. vnode' = [vnode EXCEPT ![c.vp].lock = NULL]
        BY DEF DoneWalk
    <2>2. NULL \in Proc \cup {NULL}
        OBVIOUS
    <2> QED
        BY <1>1, <1>2, <2>1, <2>2, LockKept
<1>5. \A q \in Proc : Knows(node', vnode', call'[q])
    <2>1. Keeps(p, vnode, vnode') /\ Named(node, node')
        BY <1>2, <1>4 DEF LiveKept, Keeps, Named
    <2>2. Knows(node', vnode', call'[p])
        BY <1>3 DEF Knows
    <2> QED
        BY <1>3, <2>1, <2>2, KnowsOn DEF NameInv, OnlyCall
<1>6. CacheTrue(node', vnode', Cached')
    <2> SUFFICES ASSUME NEW f \in Cached'
                 PROVE  /\ vnode'[f.dvp].st = "live" /\ vnode'[f.vp].st = "live"
                        /\ IsEntry(node', vnode'[f.vp].data,
                                   vnode'[f.dvp].data, f.name)
        BY DEF CacheTrue
    <2>1. /\ f.dvp \in Vnode /\ f.vp \in Vnode
          /\ vnode[f.dvp].st = "live" /\ vnode[f.vp].st = "live"
          /\ IsEntry(node, vnode[f.vp].data, vnode[f.dvp].data, f.name)
        <3>1. CASE f \in cache
            <4>1. f \in Cached
                BY <1>3, <3>1 DEF Cached, OnlyCall
            <4> QED
                BY <1>1, <3>1, <4>1 DEF NameInv, CacheTrue, CacheOK
        <3>2. CASE f \notin cache
            <4>1. /\ f.dvp = c.dvp /\ f.name = c.name /\ f.vp = c.vp
                  /\ c.op = "walk" /\ vnode[c.vp].st = "live"
                <5>1. f = e /\ c.op = "walk" /\ Usable(p)
                    BY <3>2 DEF DoneWalk, Cached
                <5> QED
                    BY <5>1 DEF Usable
            <4>2. c.put = NULL /\ c.dvp # NULL
                BY <1>1, <4>1 DEF SetOK, Putting
            <4>3. /\ Searching(c) /\ c.dvp \in Vnode /\ c.vp # NULL
                BY <1>1, <1>2, <4>1, <4>2, NullAssumption
                   DEF Searching, CallType
            <4>4. Knows(node, vnode, c)
                BY DEF NameInv
            <4>5. /\ vnode[c.dvp].st = "live" /\ vnode[c.dvp].data = c.pd
                  /\ IsEntry(node, vnode[c.vp].data, c.pd, c.name)
                BY <4>1, <4>3, <4>4 DEF Knows
            <4> QED
                BY <1>2, <4>1, <4>3, <4>5
        <3> QED
            BY <3>1, <3>2
    <2> QED
        BY <1>2, <1>4, <2>1 DEF LiveKept
<1> QED
    BY <1>2, <1>5, <1>6, UniqueOn, SameNamed DEF NameInv

(* Nothing was found, and the call ends. *)
LEMMA NameDoneError ==
    ASSUME SgfsInv, SgfsInv', NameInv, NEW p \in Proc,
           call[p].pc # "purge", DoneError(p)
    PROVE  NameInv'
<1>1. /\ call \in [Proc -> CallType] /\ vnode \in [Vnode -> VnodeType]
      /\ node' = node /\ cache' = cache
    BY Known DEF DoneError
<1>2. CASE call[p].dvp = NULL
    <2>1. vnode' = vnode /\ OnlyCall(p) /\ call'[p] = Idle
        BY <1>1, <1>2 DEF DoneError, OnlyCall
    <2>2. ~Searching(call'[p])
        BY <2>1 DEF Searching, Idle
    <2> QED
        BY <1>1, <2>1, <2>2, NameIdle, SameKept, SameNamed
<1>3. CASE call[p].dvp # NULL
    <2>1. EndCall(p, vnode)
        BY <1>3 DEF DoneError
    <2> QED
        BY <1>1, <1>3, <2>1, NameEnd, SameKept, SameNamed
<1> QED
    BY <1>2, <1>3

(* What was looked up is let go; from then on the call knows nothing. *)
LEMMA PutFacts ==
    ASSUME SgfsInv, NEW p \in Proc, call[p].vp # NULL, NEW pc,
           call' = [call EXCEPT ![p].pc = pc, ![p].put = call[p].vp,
                                ![p].vp = NULL]
    PROVE  /\ OnlyCall(p) /\ ~Searching(call'[p])
           /\ call'[p].pc = pc /\ call'[p].put = call[p].vp
<1>1. call \in [Proc -> CallType]
    BY Known
<1>2. OnlyCall(p) /\ call'[p].pc = pc /\ call'[p].put = call[p].vp
    BY <1>1 DEF OnlyCall, CallType
<1> QED
    BY <1>2 DEF Searching

(* What mkdir or rmdir has found is let go. *)
LEMMA NameDonePut ==
    ASSUME SgfsInv, SgfsInv', NameInv, NEW p \in Proc,
           call[p].pc # "purge", DonePut(p)
    PROVE  NameInv'
<1>1. /\ call[p].vp # NULL /\ UNCHANGED <<node, vnode, cache>>
      /\ call' = [call EXCEPT ![p].pc = "put", ![p].put = call[p].vp,
                              ![p].vp = NULL]
    BY DEF DonePut, Got
<1> QED
    BY ZenonT(60), <1>1, PutFacts, NameIdle, SameKept, SameNamed

(* The end of a vput that leaves the vnode its node, or of one that has *)
(* taken it                                                             *)
LEMMA AfterPutFacts ==
    ASSUME SgfsInv, NEW p \in Proc, NEW vs \in [Vnode -> VnodeType],
           AfterPut(p, vs)
    PROVE  OnlyCall(p) /\ ~Searching(call'[p]) /\ LiveKept(vs, vnode')
<1>1. /\ call \in [Proc -> CallType] /\ call[p] \in CallType
      /\ SetOK(call[p], cwd[p])
    BY Known
<1>2. OnlyCall(p) /\ call'[p] = Idle
    BY <1>1 DEF AfterPut, EndCall, OnlyCall
<1>3. ~Searching(call'[p])
    BY <1>2 DEF Searching, Idle
<1>4. LiveKept(vs, vnode')
    <2>1. CASE vnode' = Settled(vs)
        BY <2>1, SettledKept, SameKept
    <2>2. CASE call[p].op \in {"mkdir", "rmdir"}
        <3>1. call[p].dvp \in Vnode /\ NULL \in Proc \cup {NULL}
            BY <1>1, <2>2 DEF SetOK, CallType
        <3> DEFINE vt == [vs EXCEPT ![call[p].dvp].lock = NULL]
        <3>2. LiveKept(vs, vt)
            BY <3>1, LockKept
        <3>3. vnode' = Settled(vt)
            BY <2>2 DEF AfterPut, EndCall
        <3> HIDE DEF vt
        <3> QED
            BY <3>2, <3>3, SettledKept
    <2> QED
        BY <2>1, <2>2 DEF AfterPut
<1> QED
    BY <1>2, <1>3, <1>4

(* A vput that does not recycle the vnode leaves it its node. *)
LEMMA NameVput ==
    ASSUME SgfsInv, SgfsInv', NameInv, NEW p \in Proc,
           call[p].pc # "purge",
           Vput(p) \/ sgfs_inactive(p)
    PROVE  NameInv'
<1> DEFINE c == call[p]
           v == c.put
           dec == [vnode EXCEPT ![v].use = @ - 1]
<1>1. /\ call \in [Proc -> CallType] /\ vnode \in [Vnode -> VnodeType]
      /\ c \in CallType /\ SetOK(c, cwd[p]) /\ node' = node /\ cache' = cache
    <2>1. /\ call \in [Proc -> CallType] /\ vnode \in [Vnode -> VnodeType]
          /\ c \in CallType /\ SetOK(c, cwd[p])
        BY SMTT(60), Known
    <2>2. node' = node /\ cache' = cache
        BY ZenonT(60) DEF Vput, sgfs_inactive
    <2> QED
        BY <2>1, <2>2
<1>2. c.pc \in Putting /\ v \in Vnode /\ v # NULL
    BY <1>1, NullAssumption
       DEF Vput, sgfs_inactive, At, Putting, SetOK, CallType
<1>3. CASE /\ vnode' = vnode \/ vnode' = dec
           /\ \E pc : Goto(p, pc)
    <2>1. OnlyCall(p) /\ ~Searching(call'[p])
        BY <1>2, <1>3, GotoFacts DEF Searching
    <2>2. LiveKept(vnode, dec)
        BY <1>1, <1>2 DEF LiveKept, VnodeType
    <2> HIDE DEF dec
    <2> QED
        BY <1>1, <1>3, <2>1, <2>2, NameIdle, SameKept, SameNamed
<1>4. ASSUME NEW vs, vs \in [Vnode -> VnodeType], LiveKept(vnode, vs),
             AfterPut(p, vs)
      PROVE  NameInv'
    <2>1. OnlyCall(p) /\ ~Searching(call'[p]) /\ LiveKept(vs, vnode')
        BY <1>4, AfterPutFacts
    <2>2. LiveKept(vnode, vnode')
        BY SMTT(60), <1>4, <2>1 DEF LiveKept
    <2> QED
        BY <1>1, <2>1, <2>2, NameIdle, SameNamed
<1>5. CASE Vput(p)
    <2> DEFINE vs == [dec EXCEPT ![v].lock = NULL]
    <2>1. CASE AfterPut(p, vs)
        <3>1. Uses(c, v)
            BY <1>2, <1>5 DEF Uses, Vput, At
        <3>2. vnode[v].use \in Nat /\ vnode[v].use >= 1
            BY <1>1, <1>2, <3>1, CountsFacts DEF VnodeType
        <3>3. dec \in [Vnode -> VnodeType] /\ LiveKept(vnode, dec)
            BY <1>1, <1>2, <3>2 DEF VnodeType, LiveKept
        <3> HIDE DEF dec
        <3>4. vs \in [Vnode -> VnodeType] /\ LiveKept(dec, vs)
            BY <1>2, <3>3, LockVnode, LockKept
        <3> HIDE DEF vs
        <3>5. LiveKept(vnode, vs)
            BY <3>3, <3>4 DEF LiveKept
        <3> QED
            BY SMTT(60), <1>4, <2>1, <3>4, <3>5
    <2> QED
        BY <1>3, <1>5, <2>1 DEF Vput
<1>6. CASE sgfs_inactive(p)
    <2> DEFINE vs == [vnode EXCEPT ![v].lock = NULL]
    <2>1. CASE AfterPut(p, vs)
        <3>4. vs \in [Vnode -> VnodeType] /\ LiveKept(vnode, vs)
            BY <1>1, <1>2, LockVnode, LockKept
        <3> HIDE DEF vs
        <3> QED
            BY <1>4, <2>1, <3>4
    <2> QED
        BY <1>3, <1>6, <2>1 DEF sgfs_inactive
<1> QED
    BY <1>5, <1>6

(* A vnode that is recycled takes its names out of the cache. *)
LEMMA NameDoom ==
    ASSUME SgfsInv, SgfsInv', NameInv, NEW v \in Vnode, NEW p,
           p \in Proc => call[p].pc # "purge", vnode[v].lock \in {NULL, p},
           vnode[v].st = "live", LiveKept(Doom(v), vnode'),
           node' = ReleaseLocked(node, vnode[v].data), cache' = Purge(v),
           OnlyCall(p), p \in Proc => ~Searching(call'[p])
    PROVE  NameInv'
<1>1. /\ vnode \in [Vnode -> VnodeType] /\ node \in [Node -> NodeType]
      /\ UsedOK(node, vnode) /\ CacheOK(cache) /\ VnodeOK(vnode[v])
      /\ Tree(node, vnode, call, {})
    BY DEF SgfsInv, Book, Tree
<1>2. PICK n \in Node : n = vnode[v].data /\ node[n].live
    BY <1>1 DEF VnodeOK, UsedOK
<1>3. Named(node, node')
    <2>1. node[n].refcount = Expected(node, vnode, call, n) + 0
        BY <1>1, <1>2 DEF Tree, Exact
    <2>2. Expected(node, vnode, call, n) \in Nat
          /\ Expected(node, vnode, call, n) >= 2
        BY <1>1, ExpectedBounds
    <2>3. node[n].refcount > 0
        BY <2>1, <2>2
    <2> QED
        BY <1>1, <1>2, <2>3, ReleaseNamed
<1>4. /\ Doom(v)[v].st = "doomed"
      /\ \A u \in Vnode : u # v => Doom(v)[u] = vnode[u]
    BY <1>1, DoomFacts
<1>5. Keeps(p, vnode, vnode')
    BY <1>4 DEF Keeps, LiveKept
<1>7. Cached' \subseteq Cached
    BY CachedLess DEF Purge
<1>6. ASSUME NEW e \in Cached'
      PROVE  vnode'[e.dvp].st = "live" /\ vnode'[e.vp].st = "live"
    <2>1. /\ e \in Cached /\ e.dvp \in Vnode \ {v} /\ e.vp \in Vnode \ {v}
        BY <1>1, <1>6, <1>7 DEF Purge, CacheOK, Cached
    <2>2. vnode[e.dvp].st = "live" /\ vnode[e.vp].st = "live"
        BY <2>1 DEF NameInv, CacheTrue
    <2> QED
        BY <1>4, <2>1, <2>2 DEF LiveKept
<1>8. p \in Proc => Knows(node', vnode', call'[p])
    BY DEF Knows
<1> QED
    BY <1>3, <1>5, <1>6, <1>7, <1>8, NameStep

(* A vput recycles the vnode, which the thread has locked. *)
LEMMA NameReclaim ==
    ASSUME SgfsInv, SgfsInv', NameInv, NEW p \in Proc,
           call[p].pc # "purge", sgfs_reclaim(p)
    PROVE  NameInv'
<1>1. /\ vnode \in [Vnode -> VnodeType] /\ call[p] \in CallType
      /\ SetOK(call[p], cwd[p]) /\ VpOK(vnode, call[p])
      /\ \A v \in Vnode : Locks(call[p], v) => vnode[v].lock = p
      /\ call[p].pc = "reclaim"
    BY Known DEF sgfs_reclaim, At
<1>2. PICK v \in Vnode : v = call[p].put
    BY <1>1 DEF SetOK, Putting, CallType
<1>3. vnode[v].lock = p /\ vnode[v].st = "live"
    BY <1>1, <1>2, NullAssumption DEF Locks, VpOK
<1>4. /\ node' = ReleaseLocked(node, vnode[v].data) /\ cache' = Purge(v)
      /\ AfterPut(p, Doom(v))
    BY <1>2 DEF sgfs_reclaim
<1>5. Doom(v) \in [Vnode -> VnodeType]
    BY <1>1, DoomFacts
<1>6. OnlyCall(p) /\ ~Searching(call'[p]) /\ LiveKept(Doom(v), vnode')
    BY <1>4, <1>5, AfterPutFacts
<1> QED
    BY <1>3, <1>4, <1>6, NameDoom

(* The kernel takes a vnode that nobody has locked. *)
LEMMA NameVgone ==
    ASSUME SgfsInv, SgfsInv', NameInv, NEW v \in Vnode, Vgone(v)
    PROVE  NameInv'
<1>1. /\ vnode[v].lock = NULL /\ vnode[v].st = "live"
      /\ node' = ReleaseLocked(node, vnode[v].data) /\ cache' = Purge(v)
      /\ vnode' = Settled(Doom(v)) /\ call' = call
    BY DEF Vgone
<1>2. LiveKept(Doom(v), vnode')
    BY <1>1, SettledKept, SameKept
<1>3. OnlyCall(NULL) /\ NULL \notin Proc
    BY <1>1, NullAssumption DEF OnlyCall
<1> QED
    BY <1>1, <1>2, <1>3, NameDoom

(* With one mount, a directory has one vnode, and one thread looks for, *)
(* makes and removes its entries.                                       *)
LEMMA OneDir ==
    ASSUME SgfsInv, Cardinality(Mount) = 1, NEW u \in Vnode, NEW v \in Vnode,
           vnode[u].st = "live", vnode[v].st = "live",
           vnode[u].data = vnode[v].data
    PROVE  u = v
<1>1. /\ VnodeOK(vnode[u]) /\ VnodeOK(vnode[v]) /\ OneVnode(vnode)
    BY DEF SgfsInv, Book, RecycleOK
<1>2. PICK m : Mount = {m}
    BY FiniteAssumption, FS_Singleton
<1>3. vnode[u].mount = vnode[v].mount /\ vnode[u].data # NULL
    BY <1>1, <1>2 DEF VnodeOK
<1> QED
    BY <1>1, <1>3 DEF OneVnode

(* So two threads never search the same directory. *)
LEMMA OneSearcher ==
    ASSUME SgfsInv, NameInv, Cardinality(Mount) = 1,
           NEW p \in Proc, NEW q \in Proc,
           Searching(call[p]), Searching(call[q]), call[p].pd = call[q].pd
    PROVE  p = q
<1>1. ASSUME NEW r \in Proc, Searching(call[r])
      PROVE  /\ call[r].dvp \in Vnode /\ vnode[call[r].dvp].st = "live"
             /\ vnode[call[r].dvp].data = call[r].pd
             /\ vnode[call[r].dvp].lock = r
    <2>1. /\ call[r] \in CallType
          /\ \A v \in Vnode : Locks(call[r], v) => vnode[v].lock = r
        BY Known
    <2>2. call[r].dvp \in Vnode /\ Locks(call[r], call[r].dvp)
        BY <1>1, <2>1 DEF Searching, CallType, Locks, DirLocked
    <2> QED
        BY <1>1, <2>1, <2>2 DEF NameInv, Knows
<1>2. call[p].dvp = call[q].dvp
    BY <1>1, OneDir
<1> QED
    BY <1>1, <1>2

(* What stands in a new directory and around it *)
LEMMA CreateFacts ==
    ASSUME NEW ns \in [Node -> NodeType], NEW n \in Node, NEW pd \in Node,
           n # pd, NEW nm
    PROVE  LET u == sgfs_create_dir(ns, pd, n, nm)
           IN  /\ u[n].live /\ u[n].parent = pd /\ u[n].name = nm
               /\ \A m \in Node : m # n =>
                    /\ u[m].live = ns[m].live /\ u[m].name = ns[m].name
                    /\ u[m].parent = ns[m].parent
<1> DEFINE new == [FreeNode EXCEPT !.live = TRUE, !.parent = pd,
                                   !.refcount = Base + 1, !.name = nm]
           u == sgfs_create_dir(ns, pd, n, nm)
<1>1. new.live /\ new.parent = pd /\ new.name = nm
    BY DEF FreeNode
<1> HIDE DEF new
<1>2. u = [ns EXCEPT ![n] = new, ![pd].children = <<n>> \o @,
                     ![pd].refcount = @ + 1]
    BY DEF sgfs_create_dir, new
<1>3. u[n] = new
    BY <1>2
<1>4. ASSUME NEW m \in Node, m # n
      PROVE  /\ u[m].live = ns[m].live /\ u[m].name = ns[m].name
             /\ u[m].parent = ns[m].parent
    <2>1. CASE m # pd
        BY <1>2, <1>4, <2>1
    <2>2. CASE m = pd
        <3>1. u[m] = [ns[m] EXCEPT !.children = <<n>> \o @, !.refcount = @ + 1]
            BY <1>2, <1>4, <2>2 DEF NodeType
        <3>2. ns[m] \in NodeType
            OBVIOUS
        <3> QED
            BY <3>1, <3>2 DEF NodeType
    <2> QED
        BY <2>1, <2>2
<1> HIDE DEF u
<1> QED
    BY <1>1, <1>3, <1>4 DEF u

(* A directory is made by a call that has found no entry of the name, and *)
(* has its directory still locked.                                        *)
LEMMA NameMkdir ==
    ASSUME SgfsInv, SgfsInv', NameInv, Cardinality(Mount) = 1,
           NEW p \in Proc,
           call[p].pc # "purge", sgfs_mkdir(p)
    PROVE  NameInv'
<1> DEFINE c == call[p]
<1>1. /\ call \in [Proc -> CallType] /\ node \in [Node -> NodeType]
      /\ c \in CallType /\ SetOK(c, cwd[p]) /\ DirOK(vnode, c, cwd[p])
      /\ c.pc = "mkdir" /\ vnode' = vnode /\ cache' = cache
      /\ UsedOK(node, vnode) /\ CacheOK(cache)
      /\ \A v \in Vnode : VnodeOK(vnode[v])
    BY ZenonT(60), Known DEF sgfs_mkdir, At
<1>2. CASE Goto(p, "done") /\ UNCHANGED node
    BY <1>1, <1>2, GotoFacts, NameGoto DEF Searching
<1>3. ASSUME NEW n \in FreeNodes,
             node' = sgfs_create_dir(node, Pd(p), n, c.name),
             call' = [call EXCEPT ![p].pc = "find", ![p].pn = n,
                                      ![p].ref = TRUE]
      PROVE  NameInv'
    <2>1. /\ n \in Node /\ ~node[n].live
        BY DEF FreeNodes, Live
    <2>2. /\ Searching(c) /\ c.pd \in Node /\ c.pd # NULL /\ node[c.pd].live
          /\ c.vp = NULL /\ vnode[c.dvp].st = "live" /\ vnode[c.dvp].data = c.pd
        <3>1. /\ Searching(c) /\ c.pd \in Node /\ c.dvp \in Vnode /\ c.vp = NULL
            BY <1>1 DEF SetOK, Searching, Putting, CallType
        <3>2. vnode[c.dvp].st = "live" /\ vnode[c.dvp].data = c.pd
            BY <1>1 DEF DirOK
        <3> QED
            BY SMTT(60), <1>1, <3>1, <3>2, NullAssumption DEF UsedOK
    <2>3. Knows(node, vnode, c)
        BY SMTT(60) DEF NameInv
    <2>4. /\ node'[n].live /\ node'[n].parent = c.pd /\ node'[n].name = c.name
          /\ \A m \in Node : m # n =>
                /\ node'[m].live = node[m].live /\ node'[m].name = node[m].name
                /\ node'[m].parent = node[m].parent
        BY <1>1, <1>3, <2>1, <2>2, CreateFacts DEF Pd
    <2>5. /\ OnlyCall(p) /\ call'[p].pc = "find" /\ call'[p].pn = n
          /\ call'[p].vp = NULL /\ call'[p].dvp = c.dvp /\ call'[p].pd = c.pd
          /\ call'[p].name = c.name
        BY <1>1, <1>3, <2>2 DEF OnlyCall, CallType
    <2>6. \A m, d, nm : IsEntry(node, m, d, nm) => IsEntry(node', m, d, nm)
        BY <2>1, <2>4 DEF IsEntry
    <2>7. NamesUnique'
        <3> SUFFICES ASSUME NEW k \in Node, NEW m \in Node,
                            node'[k].live, node'[m].live, k # m,
                            node'[k].parent # NULL,
                            node'[k].parent = node'[m].parent
                     PROVE  node'[k].name # node'[m].name
            BY DEF NamesUnique, Live
        <3>1. \A j \in Node : ~IsEntry(node, j, c.pd, c.name)
            BY <1>1, <2>2, <2>3 DEF Knows
        <3>2. CASE k # n /\ m # n
            BY <2>4, <3>2 DEF NameInv, NamesUnique, Live
        <3>3. CASE k = n \/ m = n
            BY <2>4, <3>1, <3>3 DEF IsEntry
        <3> QED
            BY <3>2, <3>3
    <2>8. CacheTrue(node', vnode', Cached')
        <3>1. Cached' \subseteq Cached
            BY <1>1, <2>5, CachedLess
        <3> QED
            BY <1>1, <2>6, <3>1 DEF NameInv, CacheTrue
    <2>9. Knows(node', vnode', call'[p])
        <3>1. IsEntry(node', n, c.pd, c.name)
            BY <2>1, <2>4 DEF IsEntry
        <3> QED
            BY <1>1, <2>2, <2>5, <3>1 DEF Knows
    <2>10. ASSUME NEW q \in Proc, q # p
           PROVE  Knows(node', vnode', call'[q])
        <3> SUFFICES ASSUME Searching(call[q])
                     PROVE  Knows(node', vnode', call[q])
            BY <2>5, <2>10 DEF Knows, OnlyCall
        <3>1. call[q].pd # c.pd
            BY <2>2, <2>10, OneSearcher
        <3>2. \A m \in Node : IsEntry(node', m, call[q].pd, call[q].name) =>
                IsEntry(node, m, call[q].pd, call[q].name)
            BY <2>4, <3>1 DEF IsEntry
        <3>3. Knows(node, vnode, call[q])
            BY DEF NameInv
        <3> QED
            BY <1>1, <2>6, <3>2, <3>3 DEF Knows
    <2> QED
        BY <2>7, <2>8, <2>9, <2>10 DEF NameInv
<1> QED
    BY ZenonT(60), <1>2, <1>3 DEF sgfs_mkdir

(* The names and parents that a removal leaves *)
LEMMA UnlinkFacts ==
    ASSUME SgfsInv, NEW n \in Node, node[n].live, ~node[n].deleted, n # Root,
           node[n].children = <<>>
    PROVE  \A m \in Node : Unlink(n)[m].live =>
                /\ node[m].live /\ Unlink(n)[m].name = node[m].name
                /\ Unlink(n)[m].parent = IF m = n THEN NULL ELSE node[m].parent
<1> DEFINE u == Unlinked(node, n)
           pt == node[n].parent
           r == ReleaseLocked(u, n)
           t == ReleaseLocked(r, pt)
<1>0. Tree(node, vnode, call, {}) /\ node \in [Node -> NodeType]
    BY DEF SgfsInv, Tree
<1>1. /\ pt \in Node \ {n} /\ node[pt].live
      /\ Tree(u, vnode, call, {n, pt})
      /\ \A m \in Node : u[m].live = node[m].live
    BY SMTT(60), <1>0, TreeUnlink
<1>2. Unlink(n) = t
    BY DEF Unlink, Unlinked
<1>3. \A m \in Node :
        /\ u[m].name = node[m].name
        /\ u[m].parent = IF m = n THEN NULL ELSE node[m].parent
    <2> SUFFICES ASSUME NEW m \in Node
                 PROVE  /\ u[m].name = node[m].name
                        /\ u[m].parent = IF m = n THEN NULL ELSE node[m].parent
        OBVIOUS
    <2>1. node[m] \in NodeType
        BY <1>0
    <2>2. CASE m = n
        BY SMTT(60), <1>0, <1>1, <2>1, <2>2 DEF Unlinked, NodeType
    <2>3. CASE m = pt
        BY SMTT(60), <1>0, <1>1, <2>1, <2>3 DEF Unlinked, NodeType
    <2>4. CASE m # n /\ m # pt
        BY <1>0, <1>1, <2>4 DEF Unlinked
    <2> QED
        BY <1>1, <2>2, <2>3, <2>4
<1> HIDE DEF u, pt, r, t
<1>4. ASSUME NEW w, NEW S, Tree(w, vnode, call, S), NEW m \in Node, m \in S,
             w[m].live
      PROVE  Named(w, ReleaseLocked(w, m))
    <2>1. /\ w \in [Node -> NodeType]
          /\ w[m].refcount = Expected(w, vnode, call, m) + 1
        BY <1>4 DEF Tree, Exact
    <2>2. Expected(w, vnode, call, m) \in Nat
        BY <2>1, ExpectedBounds
    <2>3. w[m].refcount > 0
        BY <2>1, <2>2
    <2> QED
        BY <2>1, <2>3, ReleaseNamed
<1>5. /\ Tree(r, vnode, call, {n, pt} \ {n}) /\ Named(u, r)
      /\ \A m \in Node : m # n => r[m] = u[m]
    <2>1. n \in {n, pt} /\ u[n].live
        BY <1>1
    <2>2. Named(u, r)
        BY <1>1, <1>4, <2>1 DEF r
    <2>3. /\ Tree(r, vnode, call, {n, pt} \ {n})
          /\ \A m \in Node : m # n => r[m] = u[m]
        BY <1>1, <2>1, TreeRelease DEF r
    <2> QED
        BY <2>2, <2>3
<1>6. {n, pt} \ {n} = {pt} /\ pt \in {n, pt} \ {n} /\ r[pt].live
    BY <1>1, <1>5
<1>7. Named(r, t)
    BY <1>1, <1>4, <1>5, <1>6 DEF t
<1>8. Named(u, t)
    BY SMTT(60), <1>5, <1>7 DEF Named
<1> QED
    BY <1>1, <1>2, <1>3, <1>8 DEF Named

(* A directory is removed, and its vnode is going to leave the name cache. *)
LEMMA NameRmdir ==
    ASSUME SgfsInv, SgfsInv', NameInv, Cardinality(Mount) = 1,
           NEW p \in Proc,
           call[p].pc # "purge", sgfs_rmdir(p)
    PROVE  NameInv'
<1> DEFINE c == call[p]
           v == c.vp
           n == vnode[v].data
           ok == ~node[n].deleted /\ node[n].children = <<>>
<1>1. /\ call \in [Proc -> CallType] /\ node \in [Node -> NodeType]
      /\ c \in CallType /\ SetOK(c, cwd[p]) /\ VpOK(vnode, c)
      /\ UsedOK(node, vnode) /\ CacheOK(cache)
      /\ RefsOK(node, call) /\ \A u \in Vnode : VnodeOK(vnode[u])
    BY SMTT(60), Known
<1>2. /\ c.pc = "done" /\ c.op = "rmdir" /\ v \in Vnode /\ v # NULL
      /\ vnode[v].st = "live" /\ vnode' = vnode
      /\ call' = [call EXCEPT ![p].pc = IF ok THEN "purge" ELSE "put",
                              ![p].put = c.vp, ![p].vp = NULL]
      /\ cache' = cache
    <2>1. c.pc = "done" /\ c.op = "rmdir" /\ Usable(p)
        BY DEF sgfs_rmdir, At, Got
    <2>2. v \in Vnode /\ v # NULL /\ vnode[v].st = "live"
        BY <1>1, <2>1 DEF Usable, Got, CallType
    <2> QED
        BY Zenon, <2>1, <2>2 DEF sgfs_rmdir
<1>3. /\ OnlyCall(p) /\ ~Searching(call'[p])
      /\ ok => call'[p].pc = "purge" /\ call'[p].put = v
    <2> HIDE DEF ok
    <2> QED
        BY ZenonT(60), <1>2, PutFacts
<1>4. CASE ~ok
    <2>1. node' = node
        BY Zenon, <1>4 DEF sgfs_rmdir
    <2> QED
        BY Zenon, <1>2, <1>3, <2>1, NameIdle, SameKept, SameNamed
<1>5. CASE ok
    <2>1. node' = Unlink(n)
        BY <1>5 DEF sgfs_rmdir
    <2>2. n \in Node /\ node[n].live /\ n # Root
        BY SMTT(60), <1>1, <1>2 DEF UsedOK, VnodeOK, VpOK
    <2>3. \A m \in Node : node'[m].live =>
                /\ node[m].live /\ node'[m].name = node[m].name
                /\ node'[m].parent = IF m = n THEN NULL ELSE node[m].parent
        BY <1>5, <2>1, <2>2, UnlinkFacts
    <2>4. Searching(c)
        BY <1>1, <1>2 DEF Searching, SetOK, Putting
    <2>5. IsEntry(node, n, c.pd, c.name)
        BY <1>2, <2>4 DEF NameInv, Knows
    <2> HIDE DEF n
    <2>6. NamesUnique'
        <3> SUFFICES ASSUME NEW k \in Node, NEW m \in Node,
                            node'[k].live, node'[m].live, k # m,
                            node'[k].parent # NULL,
                            node'[k].parent = node'[m].parent
                     PROVE  node'[k].name # node'[m].name
            BY DEF NamesUnique, Live
        <3> QED
            BY <2>3 DEF NameInv, NamesUnique, Live
    <2>7. ASSUME NEW m, NEW d, NEW nm, IsEntry(node, m, d, nm), node'[m].live,
                 m # n
          PROVE  IsEntry(node', m, d, nm)
        BY <2>3, <2>7 DEF IsEntry
    <2>8. ASSUME NEW u \in Vnode, vnode[u].st = "live"
          PROVE  node'[vnode[u].data].live
        <3>1. UsedOK(node', vnode')
            BY DEF SgfsInv, Tree
        <3> QED
            BY <1>1, <1>2, <2>8, <3>1 DEF UsedOK, VnodeOK
    <2>9. CacheTrue(node', vnode', Cached')
        <3> SUFFICES ASSUME NEW e \in Cached'
                     PROVE  /\ vnode[e.dvp].st = "live"
                            /\ vnode[e.vp].st = "live"
                            /\ IsEntry(node', vnode[e.vp].data,
                                       vnode[e.dvp].data, e.name)
            BY <1>2 DEF CacheTrue
        <3>1. /\ e.dvp \in Vnode /\ e.vp \in Vnode /\ e.vp # v
              /\ vnode[e.dvp].st = "live" /\ vnode[e.vp].st = "live"
              /\ IsEntry(node, vnode[e.vp].data, vnode[e.dvp].data, e.name)
            <4>1. e \in Cached
                BY <1>2, <1>3, CachedLess
            <4>2. e \in cache /\ e.vp # v
                BY <1>2, <1>3, <1>5 DEF Cached
            <4> QED
                BY <1>1, <4>1, <4>2 DEF NameInv, CacheTrue, CacheOK
        <3>2. vnode[e.vp].data # n
            BY <1>2, <3>1, OneDir DEF n
        <3> QED
            BY <2>7, <2>8, <3>1, <3>2
    <2>10. ASSUME NEW q \in Proc, q # p
           PROVE  Knows(node', vnode', call'[q])
        <3> SUFFICES ASSUME Searching(call[q])
                     PROVE  Knows(node', vnode, call[q])
            BY <1>2, <1>3, <2>10 DEF Knows, OnlyCall
        <3>1. call[q].pd # c.pd
            BY <2>4, <2>10, OneSearcher
        <3>2. ~IsEntry(node, n, call[q].pd, call[q].name)
            BY <2>5, <3>1 DEF IsEntry
        <3>3. /\ Knows(node, vnode, call[q]) /\ call[q] \in CallType
              /\ RefOK(call[q])
            BY Known DEF NameInv
        <3>4. /\ vnode[call[q].dvp].st = "live"
              /\ vnode[call[q].dvp].data = call[q].pd /\ call[q].pd # NULL
            <4>1. call[q].dvp \in Vnode
                BY <3>3 DEF Searching, CallType
            <4> QED
                BY <1>1, <3>3, <4>1 DEF Knows, VnodeOK
        <3>5. ASSUME call[q].pc = "mkdir", NEW m \in Node
              PROVE  ~IsEntry(node', m, call[q].pd, call[q].name)
            <4>1. ~IsEntry(node, m, call[q].pd, call[q].name)
                BY <3>3, <3>5 DEF Knows
            <4> QED
                BY <2>3, <3>4, <4>1 DEF IsEntry
        <3>6. ASSUME call[q].pc \in {"find", "getnew", "insert"}
              PROVE  IsEntry(node', call[q].pn, call[q].pd, call[q].name)
            <4>1. IsEntry(node, call[q].pn, call[q].pd, call[q].name)
                BY <3>3, <3>6 DEF Knows
            <4>2. call[q].ref
                BY <3>3, <3>6 DEF RefOK, Walking, Searching
            <4>3. node'[call[q].pn].live
                <5>1. RefsOK(node', call')
                    BY DEF SgfsInv, Tree
                <5> QED
                    BY <1>3, <2>10, <4>2, <5>1 DEF RefsOK, OnlyCall
            <4> QED
                BY <2>7, <3>2, <4>1, <4>3
        <3>7. ASSUME call[q].vp # NULL, vnode[call[q].vp].st = "live"
              PROVE  IsEntry(node', vnode[call[q].vp].data, call[q].pd,
                             call[q].name)
            <4>1. IsEntry(node, vnode[call[q].vp].data, call[q].pd,
                          call[q].name)
                BY <3>3, <3>7 DEF Knows
            <4>2. node'[vnode[call[q].vp].data].live
                BY <2>8, <3>3, <3>7 DEF CallType
            <4> QED
                BY <2>7, <3>2, <4>1, <4>2
        <3> QED
            BY SMTT(60), <3>4, <3>5, <3>6, <3>7 DEF Knows
    <2>11. Knows(node', vnode', call'[p])
        BY <1>3 DEF Knows
    <2> QED
        BY SMTT(60), <2>6, <2>9, <2>10, <2>11 DEF NameInv
<1> QED
    BY <1>4, <1>5

(* The entries of a removed directory leave the name cache. *)
LEMMA NameRmdirPurge ==
    ASSUME SgfsInv, SgfsInv', NameInv, NEW p \in Proc, RmdirPurge(p)
    PROVE  NameInv'
<1>1. /\ SetOK(call[p], cwd[p]) /\ call[p].pc = "purge" /\ Goto(p, "put")
      /\ cache' = Purge(call[p].put) /\ node' = node /\ vnode' = vnode
    BY Known DEF RmdirPurge, At
<1>2. OnlyCall(p) /\ ~Searching(call'[p])
    BY <1>1, GotoFacts DEF Searching, SetOK, Putting
<1>3. Cached' \subseteq Cached
    BY <1>1, <1>2 DEF Cached, OnlyCall, Purge
<1>4. \A e \in Cached' :
        vnode'[e.dvp].st = "live" /\ vnode'[e.vp].st = "live"
    BY <1>1, <1>3 DEF NameInv, CacheTrue
<1>5. Keeps(p, vnode, vnode') /\ Named(node, node')
      /\ Knows(node', vnode', call'[p])
    BY <1>1, <1>2 DEF Keeps, Named, Knows
<1> QED
    BY <1>2, <1>3, <1>4, <1>5, NameStep

(* Nobody calls yet, and there is no directory but the root. *)
LEMMA NameInit == Init => NameInv
<1> SUFFICES ASSUME Init PROVE NameInv
    OBVIOUS
<1>1. FreeNode.live = FALSE /\ Idle.op = "none"
    BY DEF FreeNode, Idle
<1>2. /\ \A n \in Node \ {Root} : ~node[n].live
      /\ \A p \in Proc : call[p] = Idle
      /\ cache = {}
    BY <1>1 DEF Init
<1>3. NamesUnique
    BY <1>2 DEF NamesUnique, Live
<1>4. CacheTrue(node, vnode, Cached)
    BY <1>2 DEF CacheTrue, Cached
<1>5. \A p \in Proc : Knows(node, vnode, call[p])
    BY <1>1, <1>2 DEF Knows, Searching
<1> QED
    BY <1>3, <1>4, <1>5 DEF NameInv

(* Every step of the file system keeps what its names say. *)
LEMMA NameNext ==
    ASSUME Cardinality(Mount) = 1, SgfsInv, NameInv, [Next]_vars
    PROVE  NameInv'
<1>0. SgfsInv'
    BY SgfsNext
<1>1. ASSUME NEW p \in Proc, Start(p)
      PROVE  NameInv'
    <2>1. call[p].pc # "purge"
        BY <1>1 DEF Start, StartCall, sgfs_root, Leave, At
    <2> QED
        BY <1>0, <1>1, <2>1, NameStartCall, NameRoot, NameLeave DEF Start
<1>2. ASSUME NEW p \in Proc, Step(p)
      PROVE  NameInv'
    <2>1. CASE LookupNamed(p) \/ LookupDenied(p) \/ CacheHit(p)
        <3>1. call[p].pc # "purge"
            BY <2>1 DEF LookupNamed, LookupDenied, CacheHit, At
        <3> QED
            BY <1>0, <2>1, <3>1, NameLookupNamed, NameLookupDenied, NameCacheHit
    <2>2. CASE DotDot(p) \/ DotDotParent(p) \/ Relock(p)
        <3>1. call[p].pc # "purge"
            BY ZenonT(60), <2>2 DEF DotDot, DotDotParent, Relock, At
        <3> QED
            BY <1>0, <2>2, <3>1, NameDotDot
    <2>3. CASE AllocFind(p) \/ Vget(p) \/ AllocNew(p) \/ AllocInsert(p)
        <3>1. call[p].pc # "purge"
            BY ZenonT(60), <2>3 DEF AllocFind, Vget, AllocNew, AllocInsert, At
        <3> QED
            BY <1>0, <2>3, <3>1, NameAllocFind, NameVget, NameAllocNew,
               NameAllocInsert
    <2>4. CASE ReleaseDec(p) \/ ReleaseCompare(p) \/ ReleaseDestroy(p)
        <3>1. call[p].pc # "purge"
            BY ZenonT(60), <2>4
               DEF ReleaseDec, ReleaseCompare, ReleaseDestroy, At
        <3> QED
            BY <1>0, <2>4, <3>1, NameRelease
    <2>5. CASE DoneWalk(p) \/ DoneError(p) \/ DonePut(p)
        <3>1. call[p].pc # "purge"
            BY <2>5 DEF DoneWalk, DoneError, DonePut, At
        <3> QED
            BY <1>0, <2>5, <3>1, NameDoneWalk, NameDoneError, NameDonePut
    <2>6. CASE sgfs_mkdir(p) \/ sgfs_rmdir(p)
        <3>1. call[p].pc # "purge"
            BY ZenonT(60), <2>6 DEF sgfs_mkdir, sgfs_rmdir, At
        <3> QED
            BY <1>0, <2>6, <3>1, NameMkdir, NameRmdir
    <2>7. CASE Vput(p) \/ sgfs_inactive(p) \/ sgfs_reclaim(p)
        <3>1. call[p].pc # "purge"
            BY ZenonT(60), <2>7 DEF Vput, sgfs_inactive, sgfs_reclaim, At
        <3> QED
            BY SMTT(60), <1>0, <2>7, <3>1, NameVput, NameReclaim
    <2>8. CASE RmdirPurge(p)
        BY <1>0, <2>8, NameRmdirPurge
    <2>9. CASE WalkDoomed(p)
        BY ZenonT(60), <2>9, NamePanic DEF WalkDoomed, Panic
    <2> QED
        BY <1>2, <2>1, <2>2, <2>3, <2>4, <2>5, <2>6, <2>7, <2>8, <2>9 DEF Step
<1>3. ASSUME NEW p \in Proc, sgfs_readdir(p)
      PROVE  NameInv'
    BY ZenonT(60), <1>3, NamePanic DEF sgfs_readdir, Panic
<1>4. CASE Kernel
    BY <1>0, <1>4, NameVgone DEF Kernel, Vnlru, sgfs_unmount
<1>5. CASE UNCHANGED vars
    BY <1>5, NamePanic DEF vars
<1> QED
    BY <1>1, <1>2, <1>3, <1>4, <1>5 DEF Next, Stopped

(* What names say of the tree is always so. *)
LEMMA NameInvHolds == Cardinality(Mount) = 1 => (Spec => []NameInv)
<1> SUFFICES ASSUME Cardinality(Mount) = 1 PROVE Spec => []NameInv
    OBVIOUS
<1>1. SgfsInv /\ NameInv /\ [Next]_vars => NameInv'
    BY NameNext
<1> QED
    BY <1>1, NameInit, SgfsInvHolds, PTL DEF Spec

(* The names of a directory differ although sgfs_mkdir does not look again  *)
(* after the lookup, and the name cache says nothing that is not so any     *)
(* more, as long as there is one mount: the locks of the two vnodes that a  *)
(* directory has with two mounts do not keep two mkdirs apart.              *)
THEOREM NamesStayRight ==
    Cardinality(Mount) = 1 => (Spec => [](NamesUnique /\ CacheFresh))
<1>1. SgfsInv /\ NameInv => NamesUnique /\ CacheFresh
    <2> SUFFICES ASSUME SgfsInv, NameInv, NEW e \in cache, e \notin Cached
                 PROVE  \E p \in Proc : /\ call[p].pc = "purge"
                                        /\ call[p].put = e.vp
                                        /\ vnode[e.vp].lock = p
        BY DEF NameInv, CacheTrue, IsEntry, CacheFresh, Live
    <2>1. PICK p \in Proc : call[p].pc = "purge" /\ call[p].put = e.vp
        BY DEF Cached
    <2>2. /\ CacheOK(cache)
          /\ \A v \in Vnode : Locks(call[p], v) => vnode[v].lock = p
        BY Known
    <2> QED
        BY <2>1, <2>2 DEF CacheOK, Locks
<1> QED
    BY <1>1, NameInvHolds, SgfsInvHolds, PTL

-----------------------------------------------------------------------------
(* File numbers *)

(* Going from parent to parent comes to an end. *)
NoCycle(ns) ==
    \A S \in SUBSET Node : S # {} => \E n \in S : ns[n].parent \notin S

NumberType == [fileno : Nat, ddno : Nat]

(* What nodes say of their numbers, and of the numbers of their parents *)
NumbersOK(ns, nb) ==
    /\ nb \in [Node -> NumberType]
    /\ \A n \in Node : ~ns[n].live => nb[n] = NoNumber
    /\ \A n, m \in Node :
        n # m /\ nb[n].fileno # 0 => nb[m].fileno # nb[n].fileno
    /\ \A n \in Node : ns[n].live /\ ns[n].parent # NULL =>
        /\ nb[n].fileno # 0 => nb[ns[n].parent].fileno # 0
        /\ nb[n].ddno # 0 => nb[n].ddno = nb[ns[n].parent].fileno

NumberInv == NoCycle(node) /\ NumbersOK(node, number)

(* Nodes may be freed or cut off, and what is freed gives its number back. *)
NumbersKept ==
    /\ \A n \in Node : node'[n].live =>
        node[n].live /\ node'[n].parent \in {node[n].parent, NULL}
    /\ \/ number' = Numbers(node')
       \/ /\ number' = number
          /\ \A n \in Node : node[n].live => node'[n].live

(* Such a step keeps the invariant. *)
LEMMA NumberMoves ==
    ASSUME SgfsInv, SgfsInv', NumberInv, NumbersKept
    PROVE  NumberInv'
<1>1. \A n \in Node : NodeOK(node', n) /\ NodeOK(node, n)
    BY DEF SgfsInv, Tree
<1>2. FreeNode.parent = NULL /\ NoNumber \in NumberType
      /\ NoNumber.fileno = 0 /\ NoNumber.ddno = 0
    BY DEF FreeNode, NoNumber, NumberType
<1>3. NoCycle(node')
    <2> SUFFICES ASSUME NEW S \in SUBSET Node, S # {}
                 PROVE  \E n \in S : node'[n].parent \notin S
        BY DEF NoCycle
    <2>1. PICK n \in S : node[n].parent \notin S
        BY DEF NumberInv, NoCycle
    <2>2. node'[n].parent \in {node[n].parent, NULL}
        BY <1>1, <1>2 DEF NumbersKept, NodeOK
    <2> QED
        BY <2>1, <2>2, NullAssumption
<1>4. /\ number \in [Node -> NumberType]
      /\ \A n \in Node : ~node[n].live => number[n] = NoNumber
    BY DEF NumberInv, NumbersOK
<1>5. /\ number' \in [Node -> NumberType]
      /\ \A n \in Node :
            number'[n] = IF node'[n].live THEN number[n] ELSE NoNumber
    <2>1. CASE number' = Numbers(node')
        BY <1>2, <1>4, <2>1 DEF Numbers
    <2>2. CASE number' = number /\ \A n \in Node : node[n].live => node'[n].live
        BY <1>4, <2>2 DEF NumbersKept
    <2> QED
        BY <2>1, <2>2 DEF NumbersKept
<1>6. ASSUME NEW n \in Node, node'[n].live, node'[n].parent # NULL
      PROVE  /\ node[n].live /\ node[n].parent = node'[n].parent
             /\ node'[n].parent \in Node /\ node'[node'[n].parent].live
    <2>1. node' \in [Node -> NodeType]
        BY DEF SgfsInv, Tree
    <2> QED
        BY <1>1, <1>6, <2>1 DEF NodeOK, NumbersKept, NodeType
<1>7. \A n, m \in Node :
        n # m /\ number'[n].fileno # 0 => number'[m].fileno # number'[n].fileno
    BY <1>2, <1>5 DEF NumberInv, NumbersOK
<1>8. ASSUME NEW n \in Node, node'[n].live, node'[n].parent # NULL
      PROVE  LET q == node'[n].parent
             IN  /\ number'[n].fileno # 0 => number'[q].fileno # 0
                 /\ number'[n].ddno # 0 => number'[n].ddno = number'[q].fileno
    <2>1. number'[n] = number[n]
          /\ number'[node'[n].parent] = number[node'[n].parent]
        BY <1>5, <1>6, <1>8
    <2> QED
        BY <1>6, <1>8, <2>1 DEF NumberInv, NumbersOK
<1> QED
    BY <1>3, <1>5, <1>7, <1>8 DEF NumberInv, NumbersOK

(* A new directory has no number yet, and is nobody's parent. *)
LEMMA NumberMkdir ==
    ASSUME SgfsInv, SgfsInv', NumberInv, NEW p \in Proc, sgfs_mkdir(p)
    PROVE  NumberInv'
<1> DEFINE c == call[p]
<1>1. /\ node \in [Node -> NodeType] /\ c \in CallType /\ SetOK(c, cwd[p])
      /\ DirOK(vnode, c, cwd[p]) /\ c.pc = "mkdir" /\ number' = number
      /\ UsedOK(node, vnode) /\ \A n \in Node : NodeOK(node, n)
    BY ZenonT(60), Known DEF sgfs_mkdir, At
<1>2. CASE UNCHANGED node
    BY <1>1, <1>2 DEF NumberInv
<1>3. ASSUME NEW n \in FreeNodes,
             node' = sgfs_create_dir(node, Pd(p), n, c.name)
      PROVE  NumberInv'
    <2>1. /\ n \in Node /\ ~node[n].live
        BY DEF FreeNodes, Live
    <2>2. c.pd \in Node /\ node[c.pd].live /\ Pd(p) = c.pd
        <3>1. /\ c.pd \in Node /\ c.dvp \in Vnode
            BY <1>1 DEF SetOK, CallType
        <3>2. vnode[c.dvp].data = c.pd
            BY <1>1 DEF DirOK
        <3> QED
            BY <1>1, <3>1, <3>2, NullAssumption DEF UsedOK, Pd
    <2>3. /\ node'[n].live /\ node'[n].parent = c.pd /\ c.pd # n
          /\ \A m \in Node : m # n =>
                node'[m].live = node[m].live /\ node'[m].parent = node[m].parent
        BY <1>1, <1>3, <2>1, <2>2, CreateFacts
    <2>4. \A m \in Node : node[m].parent # n
        <3> SUFFICES ASSUME NEW m \in Node, node[m].parent = n PROVE FALSE
            OBVIOUS
        <3>1. NodeOK(node, m) /\ n # NULL
            BY <1>1, <2>1, NullAssumption
        <3> QED
            BY <2>1, <3>1 DEF NodeOK, FreeNode
    <2>5. NoCycle(node')
        <3> SUFFICES ASSUME NEW S \in SUBSET Node, S # {}
                     PROVE  \E m \in S : node'[m].parent \notin S
            BY DEF NoCycle
        <3>1. CASE S \ {n} = {}
            BY <2>3, <3>1
        <3>2. CASE S \ {n} # {}
            <4>1. S \ {n} \in SUBSET Node
                OBVIOUS
            <4>2. PICK m \in S \ {n} : node[m].parent \notin S \ {n}
                BY <3>2, <4>1 DEF NumberInv, NoCycle
            <4> QED
                BY <2>3, <2>4, <4>2
        <3> QED
            BY <3>1, <3>2
    <2>6. number[n].fileno = 0 /\ number[n].ddno = 0
        BY <2>1 DEF NumberInv, NumbersOK, NoNumber
    <2>7. NumbersOK(node', number)
        <3>1. \A m \in Node : ~node'[m].live => number[m] = NoNumber
            BY <2>3 DEF NumberInv, NumbersOK
        <3>2. ASSUME NEW m \in Node, node'[m].live, node'[m].parent # NULL
              PROVE  /\ number[m].fileno # 0 =>
                            number[node'[m].parent].fileno # 0
                     /\ number[m].ddno # 0 =>
                            number[m].ddno = number[node'[m].parent].fileno
            <4>1. CASE m = n
                BY <2>6, <4>1
            <4>2. CASE m # n
                BY <2>3, <3>2, <4>2 DEF NumberInv, NumbersOK
            <4> QED
                BY <4>1, <4>2
        <3> QED
            BY <3>1, <3>2 DEF NumberInv, NumbersOK
    <2> QED
        BY <1>1, <2>5, <2>7 DEF NumberInv
<1> QED
    BY ZenonT(60), <1>2, <1>3 DEF sgfs_mkdir

(* Counters of nodes change, and no number does. *)
LEMMA NumberCount ==
    ASSUME SgfsInv, SgfsInv', NumberInv, number' = number,
           \A n \in Node : /\ node'[n].live = node[n].live
                           /\ node'[n].parent = node[n].parent
    PROVE  NumberInv'
    BY NumberMoves DEF NumbersKept

(* A node is let go, and perhaps freed with all that is below it. *)
LEMMA NumberFree ==
    ASSUME SgfsInv, SgfsInv', NumberInv, number' = Numbers(node'),
           Named(node, node')
    PROVE  NumberInv'
<1>1. \A n \in Node : node'[n].live =>
        node[n].live /\ node'[n].parent \in {node[n].parent, NULL}
    BY DEF Named
<1>2. NumbersKept
    BY <1>1 DEF NumbersKept
<1> QED
    BY <1>2, NumberMoves

(* So it is when a vnode that is recycled lets its node go, *)
LEMMA NumberRelease ==
    ASSUME SgfsInv, SgfsInv', NumberInv, NEW n, NEW v \in Vnode,
           n = vnode[v].data, vnode[v].st = "live",
           node' = ReleaseLocked(node, n), number' = Numbers(node')
    PROVE  NumberInv'
<1>1. /\ node \in [Node -> NodeType] /\ UsedOK(node, vnode)
      /\ VnodeOK(vnode[v]) /\ Tree(node, vnode, call, {})
    BY DEF SgfsInv, Book, Tree
<1>2. n \in Node /\ node[n].live
    BY <1>1 DEF VnodeOK, UsedOK
<1>3. /\ node[n].refcount = Expected(node, vnode, call, n) + 0
      /\ Expected(node, vnode, call, n) \in Nat
      /\ Expected(node, vnode, call, n) >= 2
    <2>1. node[n].refcount = Expected(node, vnode, call, n) + 0
        BY <1>1, <1>2 DEF Tree, Exact
    <2> QED
        BY <1>1, <1>2, <2>1, ExpectedBounds
<1>4. node[n].refcount > 0
    BY <1>3
<1> QED
    BY <1>1, <1>2, <1>4, ReleaseNamed, NumberFree

(* when a directory is removed, and its node is let go twice, *)
LEMMA NumberRmdir ==
    ASSUME SgfsInv, SgfsInv', NumberInv, NEW p \in Proc, sgfs_rmdir(p)
    PROVE  NumberInv'
<1> DEFINE c == call[p]
           n == vnode[c.vp].data
           ok == ~node[n].deleted /\ node[n].children = <<>>
<1>1. /\ c \in CallType /\ SetOK(c, cwd[p]) /\ VpOK(vnode, c)
      /\ UsedOK(node, vnode) /\ \A u \in Vnode : VnodeOK(vnode[u])
    BY SMTT(30), Known
<1>2. /\ c.pc = "done" /\ c.op = "rmdir" /\ c.vp \in Vnode
      /\ vnode[c.vp].st = "live" /\ number' = Numbers(node')
    BY Zenon, <1>1 DEF sgfs_rmdir, At, Usable, Got, CallType
<1>3. n \in Node /\ node[n].live /\ n # Root
    BY <1>1, <1>2, NullAssumption DEF UsedOK, VnodeOK, VpOK
<1>4. CASE ~ok
    <2>1. node' = node
        BY Zenon, <1>4 DEF sgfs_rmdir
    <2> QED
        BY SMTT(30), <1>2, <2>1, NumberFree, SameNamed
<1>5. CASE ok
    <2>1. node' = Unlink(n)
        BY ZenonT(60), <1>5 DEF sgfs_rmdir
    <2>2. \A m \in Node : node'[m].live =>
            /\ node[m].live
            /\ node'[m].parent = IF m = n THEN NULL ELSE node[m].parent
        BY <1>3, <1>5, <2>1, UnlinkFacts
    <2>3. NumbersKept
        BY <1>2, <2>2 DEF NumbersKept
    <2> QED
        BY SMTT(60), <2>3, NumberMoves
<1> QED
    BY <1>4, <1>5

(* and at every other step of a call. *)
LEMMA NumberStep ==
    ASSUME SgfsInv, SgfsInv', NumberInv, NEW p \in Proc, Step(p)
    PROVE  NumberInv'
<1>1. node \in [Node -> NodeType] /\ vnode \in [Vnode -> VnodeType]
      /\ \A n \in Node : NodeOK(node, n)
    BY Known
<1>2. CASE UNCHANGED <<node, number>>
    BY <1>2 DEF NumberInv
<1>3. ASSUME NEW n \in Node, node' = sgnode_addref(node, n), number' = number
      PROVE  NumberInv'
    <2>1. \A m \in Node : /\ node'[m].live = node[m].live
                          /\ node'[m].parent = node[m].parent
        BY <1>1, <1>3 DEF sgnode_addref, NodeType
    <2> QED
        BY <1>3, <2>1, NumberCount
<1>4. CASE LookupNamed(p)
    <2> DEFINE pn == sgfs_search(Pd(p), call[p].name)
    <2>1. CASE UNCHANGED <<node, number>>
        BY <1>2, <2>1
    <2>2. CASE pn # NULL /\ node' = sgnode_addref(node, pn)
        <3>1. /\ call[p] \in CallType /\ SetOK(call[p], cwd[p])
              /\ DirOK(vnode, call[p], cwd[p]) /\ UsedOK(node, vnode)
            BY Known
        <3>2. /\ Pd(p) \in Node /\ node[Pd(p)].live
            <4>1. /\ call[p].pc = "lookup" /\ call[p].dvp \in Vnode
                  /\ Pd(p) = call[p].pd /\ call[p].pd \in Node
                BY <1>4, <3>1 DEF LookupNamed, At, SetOK, CallType, Pd
            <4>2. vnode[call[p].dvp].data = call[p].pd
                BY <3>1, <4>1 DEF DirOK
            <4> QED
                BY <3>1, <4>1, <4>2, NullAssumption DEF UsedOK
        <3>3. pn \in Node
            BY <1>1, <2>2, <3>2, SearchNames DEF IsEntry
        <3> QED
            BY <1>3, <1>4, <2>2, <3>3 DEF LookupNamed
    <2> QED
        BY <1>4, <2>1, <2>2 DEF LookupNamed
<1>5. CASE AllocInsert(p)
    <2>1. call[p].pn \in Node
        <3>1. call[p] \in CallType /\ SetOK(call[p], cwd[p])
            BY Known
        <3> QED
            BY ZenonT(60), <1>5, <3>1
               DEF AllocInsert, At, SetOK, CallType, Walking
    <2> QED
        BY ZenonT(60), <1>2, <1>3, <1>5, <2>1 DEF AllocInsert, Panic
<1>6. CASE ReleaseDec(p)
    <2>1. \A m \in Node : /\ node'[m].live = node[m].live
                          /\ node'[m].parent = node[m].parent
        <3>1. PICK n : node' = [node EXCEPT ![n].refcount = @ - 1]
            BY <1>6 DEF ReleaseDec
        <3> QED
            BY <1>1, <3>1 DEF NodeType
    <2> QED
        BY <1>6, <2>1, NumberCount DEF ReleaseDec
<1>7. CASE ReleaseDestroy(p)
    <2>1. CASE UNCHANGED <<node, number>>
        BY <1>2, <2>1
    <2>2. CASE /\ node' = sgfs_destroy(node, call[p].pn)
               /\ number' = Numbers(node')
        <3>1. call[p] \in CallType /\ SetOK(call[p], cwd[p])
            BY Known
        <3>2. call[p].pn \in Node
            BY ZenonT(60), <1>7, <3>1
               DEF ReleaseDestroy, At, SetOK, CallType, Leaving
        <3> QED
            BY <1>1, <2>2, <3>2, DestroyNamed, NumberFree
    <2> QED
        BY ZenonT(60), <1>7, <2>1, <2>2 DEF ReleaseDestroy, Panic
<1>8. CASE sgfs_reclaim(p)
    <2>1. /\ call[p] \in CallType /\ SetOK(call[p], cwd[p])
          /\ VpOK(vnode, call[p]) /\ call[p].pc = "reclaim"
        BY <1>8, Known DEF sgfs_reclaim, At
    <2>2. PICK v \in Vnode : v = call[p].put
        BY <2>1 DEF SetOK, Putting, CallType
    <2>3. vnode[v].st = "live"
        BY SMTT(30), <2>1, <2>2 DEF VpOK
    <2> QED
        BY <1>8, <2>2, <2>3, NumberRelease DEF sgfs_reclaim
<1>9. CASE \/ LookupDenied(p) \/ CacheHit(p) \/ DotDot(p) \/ Relock(p)
           \/ AllocFind(p) \/ Vget(p) \/ AllocNew(p) \/ ReleaseCompare(p)
    BY ZenonT(60), <1>2, <1>9 DEF LookupDenied, CacheHit, DotDot, Relock,
       AllocFind, Vget, AllocNew, ReleaseCompare, Panic
<1>10. CASE \/ DotDotParent(p) \/ DoneWalk(p) \/ DoneError(p) \/ DonePut(p)
            \/ Vput(p) \/ sgfs_inactive(p) \/ RmdirPurge(p) \/ WalkDoomed(p)
    BY ZenonT(60), <1>2, <1>10 DEF DotDotParent, DoneWalk, DoneError, DonePut,
       Vput, sgfs_inactive, RmdirPurge, WalkDoomed, Panic
<1> QED
    BY <1>4, <1>5, <1>6, <1>7, <1>8, <1>9, <1>10, NumberMkdir, NumberRmdir
       DEF Step

(* A thread that enters, makes a call or leaves changes no number. *)
LEMMA NumberStart ==
    ASSUME NumberInv, NEW p \in Proc, Start(p)
    PROVE  NumberInv'
<1>1. UNCHANGED <<node, number>>
    BY ZenonT(60) DEF Start, StartCall, sgfs_root, Leave
<1> QED
    BY SMTT(60), <1>1 DEF NumberInv

(* The kernel takes a vnode and lets its node go. *)
LEMMA NumberKernel ==
    ASSUME SgfsInv, SgfsInv', NumberInv, Kernel
    PROVE  NumberInv'
<1>1. PICK v \in Vnode : Vgone(v)
    BY DEF Kernel, Vnlru, sgfs_unmount
<1> QED
    BY <1>1, NumberRelease DEF Vgone

(* There is always a number that no node has, and the lowest one is taken. *)
LEMMA AllocUnrFacts ==
    ASSUME IsFiniteSet(Node), NEW nb \in [Node -> NumberType]
    PROVE  /\ AllocUnr(nb) \in Nat /\ AllocUnr(nb) # 0
           /\ \A n \in Node : nb[n].fileno # AllocUnr(nb)
<1> DEFINE f == [n \in Node |-> nb[n].fileno]
<1>1. \E k \in 1 .. Cardinality(Node) + 1 :
        /\ \A n \in Node : f[n] # k
        /\ \A j \in 1 .. k - 1 : \E n \in Node : f[n] = j
    <2> HIDE DEF f
    <2> QED
        BY LowestFree
<1>2. Cardinality(Node) \in Nat
    BY FS_CardinalityType
<1>3. AllocUnr(nb) \in 1 .. Cardinality(Node) + 1
      /\ \A n \in Node : nb[n].fileno # AllocUnr(nb)
    BY <1>1 DEF AllocUnr
<1> QED
    BY <1>2, <1>3

(* sgfs_fileno_alloc gives a node its number. *)
NumberNode(nb, q) == [nb EXCEPT ![q].fileno = AllocUnr(nb)]

(* Numbers are given, and none is changed. *)
Extends(nb, nt) ==
    \A n \in Node : /\ nb[n].fileno # 0 => nt[n].fileno = nb[n].fileno
                    /\ nt[n].ddno = nb[n].ddno

(* A live node whose parent has a number may get one. *)
LEMMA OneNumber ==
    ASSUME SgfsInv, IsFiniteSet(Node), NEW nb, NumbersOK(node, nb),
           NEW q \in Node, node[q].live, nb[q].fileno = 0,
           node[q].parent # NULL => nb[node[q].parent].fileno # 0
    PROVE  /\ NumbersOK(node, NumberNode(nb, q))
           /\ Extends(nb, NumberNode(nb, q))
           /\ NumberNode(nb, q)[q].fileno # 0
           /\ \A n \in Node : n # q => NumberNode(nb, q)[n] = nb[n]
<1> DEFINE a == AllocUnr(nb)
           nt == NumberNode(nb, q)
<1>1. nb \in [Node -> NumberType]
    BY DEF NumbersOK
<1>2. a \in Nat /\ a # 0 /\ \A n \in Node : nb[n].fileno # a
    BY <1>1, AllocUnrFacts
<1> HIDE DEF a
<1>3. nt = [nb EXCEPT ![q].fileno = a]
    BY DEF NumberNode, a
<1> HIDE DEF nt
<1>4. /\ nt \in [Node -> NumberType]
      /\ nt[q].fileno = a /\ nt[q].ddno = nb[q].ddno
      /\ \A n \in Node : n # q => nt[n] = nb[n]
    BY <1>1, <1>2, <1>3 DEF NumberType
<1>5. Extends(nb, nt)
    BY <1>4 DEF Extends
<1>6. ASSUME NEW n \in Node, node[n].live, node[n].parent # NULL
      PROVE  /\ nt[n].fileno # 0 => nt[node[n].parent].fileno # 0
             /\ nt[n].ddno # 0 => nt[n].ddno = nt[node[n].parent].fileno
    <2>1. node[n].parent \in Node
        <3>1. node \in [Node -> NodeType]
            BY DEF SgfsInv, Tree
        <3> QED
            BY <1>6, <3>1 DEF NodeType
    <2>2. /\ nb[n].fileno # 0 => nb[node[n].parent].fileno # 0
          /\ nb[n].ddno # 0 => nb[n].ddno = nb[node[n].parent].fileno
        BY <1>6 DEF NumbersOK
    <2>3. nt[n].ddno = nb[n].ddno
        BY <1>4
    <2>4. CASE node[n].parent = q
        <3>1. nb[n].ddno \in Nat /\ nb[n].ddno = 0
            BY <1>1, <2>2, <2>4 DEF NumberType
        <3> QED
            BY <1>2, <1>4, <2>3, <2>4, <3>1
    <2>5. CASE node[n].parent # q
        BY <1>4, <1>6, <2>1, <2>2, <2>3, <2>5
    <2> QED
        BY <2>4, <2>5
<1>7. \A n, m \in Node :
        n # m /\ nt[n].fileno # 0 => nt[m].fileno # nt[n].fileno
    BY <1>2, <1>4 DEF NumbersOK
<1>8. \A n \in Node : ~node[n].live => nt[n] = NoNumber
    BY <1>4 DEF NumbersOK
<1>9. NumbersOK(node, nt)
    BY <1>4, <1>6, <1>7, <1>8 DEF NumbersOK
<1> QED
    BY <1>2, <1>4, <1>5, <1>9 DEF nt

(* Numbers that are given after others were given *)
LEMMA ExtendsOn ==
    ASSUME NEW nb, NEW nc, NEW nd, Extends(nb, nc), Extends(nc, nd)
    PROVE  Extends(nb, nd)
    BY DEF Extends

(* A way up from n along nodes without a number, the uppermost first *)
Upward(nb, n, c) ==
    /\ c \in Seq(Node) /\ Len(c) >= 1 /\ c[Len(c)] = n
    /\ \A i \in 1 .. Len(c) : nb[c[i]].fileno = 0
    /\ \A i \in 1 .. Len(c) - 1 : node[c[i + 1]].parent = c[i]

(* The way goes as far as it can. *)
WholeWay(nb, n, c) ==
    /\ Upward(nb, n, c)
    /\ node[c[1]].parent # NULL => nb[node[c[1]].parent].fileno # 0

(* Nobody is met twice on the way, so there are no more steps than nodes. *)
LEMMA UpwardIsShort ==
    ASSUME IsFiniteSet(Node), NoCycle(node), NEW nb, NEW n, NEW c,
           Upward(nb, n, c)
    PROVE  /\ \A i, j \in 1 .. Len(c) : c[i] = c[j] => i = j
           /\ Len(c) <= Cardinality(Node)
<1> DEFINE k == Len(c)
<1>0. k \in Nat /\ c \in [1 .. k -> Node]
    BY DEF Upward
<1>1. ASSUME NEW i \in 1 .. k, NEW j \in 1 .. k, c[i] = c[j], i < j
      PROVE  FALSE
    <2> DEFINE S == {c[m] : m \in i + 1 .. j}
    <2>1. S \in SUBSET Node /\ c[j] \in S
        BY <1>0, <1>1
    <2>2. PICK g \in S : node[g].parent \notin S
        BY <2>1, Zenon DEF NoCycle
    <2>3. PICK m \in i + 1 .. j : g = c[m]
        BY <2>2
    <2>4. m - 1 \in 1 .. k - 1 /\ (m - 1) + 1 = m
        BY <1>0, <1>1, <2>3
    <2>5. node[g].parent = c[m - 1]
        BY <2>3, <2>4 DEF Upward
    <2>6. m - 1 = i \/ m - 1 \in i + 1 .. j
        BY <2>3
    <2>7. c[m - 1] \in S
        BY <1>1, <2>1, <2>6
    <2> QED
        BY <2>2, <2>5, <2>7
<1>2. \A i, j \in 1 .. k : c[i] = c[j] => i = j
    <2> SUFFICES ASSUME NEW i \in 1 .. k, NEW j \in 1 .. k, c[i] = c[j]
                 PROVE  i = j
        OBVIOUS
    <2>1. ~ (i < j) /\ ~ (j < i)
        BY <1>1
    <2> QED
        BY <1>0, <2>1
<1>3. k <= Cardinality(Node)
    <2>1. c \in Injection(1 .. k, Node)
        BY <1>0, <1>2 DEF Injection, IsInjective
    <2>2. Cardinality(1 .. k) <= Cardinality(Node)
        BY <2>1, FS_Injection, Zenon
    <2>3. Cardinality(1 .. k) = k
        BY SMTT(60), <1>0, FS_Interval
    <2> QED
        BY <2>2, <2>3
<1> QED
    BY <1>2, <1>3

(* sgfs_fileno_alloc climbs one step after the other. *)
LEMMA UnnumberedSteps ==
    ASSUME IsFiniteSet(Node), NEW nb, NEW n
    PROVE  \E u :
            /\ u[0] = <<n>>
            /\ \A k \in 1 .. Cardinality(Node) :
                u[k] = LET q == node[Head(u[k - 1])].parent
                       IN  IF q # NULL /\ nb[q].fileno = 0
                           THEN <<q>> \o u[k - 1] ELSE u[k - 1]
            /\ Unnumbered(nb, n) = u[Cardinality(Node)]
<1> DEFINE N == Cardinality(Node)
           Climb(c) == LET q == node[Head(c)].parent
                       IN  IF q # NULL /\ nb[q].fileno = 0
                           THEN <<q>> \o c ELSE c
           F(i, g) == g = [k \in 0 .. i |-> IF k = 0 THEN <<n>>
                                            ELSE Climb(g[k - 1])]
           S == {i \in 0 .. N : \E g : F(i, g)}
           up == CHOOSE g : F(N, g)
<1>0. N \in Nat
    BY FS_CardinalityType
<1> HIDE DEF Climb
<1>1. 0 \in S
    <2>1. F(0, [k \in 0 .. 0 |-> <<n>>])
        OBVIOUS
    <2> HIDE DEF F
    <2> QED
        BY <1>0, <2>1
<1>2. ASSUME NEW i \in 1 .. N, i - 1 \in S PROVE i \in S
    <2>1. PICK g : F(i - 1, g)
        BY <1>2, Zenon
    <2> DEFINE h == [k \in 0 .. i |-> IF k = i THEN Climb(g[i - 1]) ELSE g[k]]
    <2>2. ASSUME NEW k \in 0 .. i
          PROVE  h[k] = IF k = 0 THEN <<n>> ELSE Climb(h[k - 1])
        <3>1. CASE k = i
            <4>1. i - 1 \in 0 .. i /\ i - 1 # i /\ i # 0
                BY <1>0
            <4> QED
                BY <3>1, <4>1
        <3>2. CASE k # i
            <4>1. k \in 0 .. i - 1 /\ h[k] = g[k]
                BY <1>0, <3>2
            <4>2. k # 0 => k - 1 \in 0 .. i /\ k - 1 # i
                BY <1>0, <3>2
            <4>3. k # 0 => h[k - 1] = g[k - 1]
                BY <4>2
            <4> HIDE DEF h
            <4> QED
                BY <2>1, <4>1, <4>3
        <3> QED
            BY <3>1, <3>2
    <2>3. F(i, h)
        <3>1. h = [k \in 0 .. i |-> h[k]]
            OBVIOUS
        <3> HIDE DEF h
        <3> QED
            BY <2>2, <3>1, Zenon
    <2> HIDE DEF F, h
    <2> QED
        BY <1>0, <2>3
<1>3. \E g : F(N, g)
    <2> HIDE DEF F
    <2>1. \A k \in 0 .. N : k \in S
        <3> HIDE DEF S
        <3> QED
            BY <1>0, <1>1, <1>2, StepByStep
    <2> QED
        BY <1>0, <2>1
<1>4. F(N, up)
    BY <1>3, Zenon
<1>5. Unnumbered(nb, n) = up[N]
    BY Zenon DEF Unnumbered, Climb
<1>6. up[0] = <<n>> /\ \A k \in 1 .. N : up[k] = Climb(up[k - 1])
    <2> HIDE DEF up
    <2> QED
        BY <1>0, <1>4
<1> HIDE DEF up
<1> QED
    BY <1>5, <1>6 DEF Climb

(* It climbs to a node that has no parent, or whose parent has a number. *)
LEMMA UnnumberedIsWay ==
    ASSUME SgfsInv, IsFiniteSet(Node), NoCycle(node), NEW nb,
           NEW n \in Node, nb[n].fileno = 0
    PROVE  WholeWay(nb, n, Unnumbered(nb, n))
<1> DEFINE N == Cardinality(Node)
<1>0. N \in Nat /\ node \in [Node -> NodeType]
    BY SMTT(60), FS_CardinalityType DEF SgfsInv, Tree
<1>1. PICK u :
        /\ u[0] = <<n>>
        /\ \A k \in 1 .. N :
            u[k] = LET q == node[Head(u[k - 1])].parent
                   IN  IF q # NULL /\ nb[q].fileno = 0
                       THEN <<q>> \o u[k - 1] ELSE u[k - 1]
        /\ Unnumbered(nb, n) = u[N]
    BY SMTT(60), UnnumberedSteps
<1> DEFINE P(k) == Upward(nb, n, u[k])
                   /\ (WholeWay(nb, n, u[k]) \/ Len(u[k]) = k + 1)
           S == {k \in 0 .. N : P(k)}
<1>2. 0 \in S
    <2>1. /\ <<n>> \in Seq(Node) /\ Len(<<n>>) = 1 /\ <<n>>[1] = n
          /\ 0 + 1 = 1 /\ 1 >= 1 /\ 1 .. 1 - 1 = {} /\ 1 .. 1 = {1}
        OBVIOUS
    <2>2. P(0)
        BY SMTT(60), <1>1, <2>1 DEF Upward
    <2> QED
        BY <1>0, <2>2
<1>3. ASSUME NEW k \in 1 .. N, k - 1 \in S PROVE k \in S
    <2> DEFINE c == u[k - 1]
               q == node[c[1]].parent
    <2>1. /\ Upward(nb, n, c)
          /\ WholeWay(nb, n, c) \/ Len(c) = (k - 1) + 1
        BY <1>3
    <2>2. /\ c \in Seq(Node) /\ Len(c) \in Nat /\ Len(c) >= 1 /\ c[1] \in Node
          /\ Head(c) = c[1] /\ node[c[1]].parent = q
        BY SMTT(60), <2>1 DEF Upward
    <2>3. u[k] = IF q # NULL /\ nb[q].fileno = 0 THEN <<q>> \o c ELSE c
        BY <1>1, <2>2
    <2>c. c[Len(c)] = n /\ \A i \in 1 .. Len(c) : nb[c[i]].fileno = 0
        BY <2>1 DEF Upward
    <2> HIDE DEF c, q
    <2>4. CASE ~(q # NULL /\ nb[q].fileno = 0)
        <3>1. u[k] = c
            BY SMTT(60), <2>3, <2>4
        <3>2. WholeWay(nb, n, c)
            BY <2>1, <2>2, <2>4 DEF WholeWay
        <3>3. k \in 0 .. N
            BY <1>0
        <3> QED
            BY SMTT(30), <2>1, <3>1, <3>2, <3>3
    <2>5. CASE q # NULL /\ nb[q].fileno = 0
        <3> DEFINE x == <<q>> \o c
        <3>1. q \in Node
            BY <1>0, <2>2, <2>5 DEF NodeType
        <3>2. /\ x \in Seq(Node) /\ Len(x) = Len(c) + 1 /\ x[1] = q
              /\ \A i \in 2 .. Len(x) : x[i] = c[i - 1]
            BY <2>2, <3>1
        <3> HIDE DEF x
        <3>3. ASSUME NEW i \in 1 .. Len(x) - 1
              PROVE  node[x[i + 1]].parent = x[i]
            <4>1. x[i + 1] = c[i] /\ i \in 1 .. Len(c)
                BY SMTT(60), <2>2, <3>2
            <4>2. CASE i = 1
                BY <2>2, <3>2, <4>1, <4>2
            <4>3. CASE i # 1
                <5>1. /\ i - 1 \in 1 .. Len(c) - 1 /\ (i - 1) + 1 = i
                      /\ i \in 2 .. Len(x)
                    BY <2>2, <3>2, <4>3
                <5>2. x[i] = c[i - 1]
                    BY <3>2, <5>1
                <5>3. node[c[(i - 1) + 1]].parent = c[i - 1]
                    BY <2>1, <5>1 DEF Upward
                <5> QED
                    BY <4>1, <5>1, <5>2, <5>3
            <4> QED
                BY <4>2, <4>3
        <3>4. ASSUME NEW i \in 1 .. Len(x) PROVE nb[x[i]].fileno = 0
            <4>1. CASE i = 1
                BY <2>5, <3>2, <4>1
            <4>2. CASE i # 1
                <5>1. i \in 2 .. Len(x) /\ i - 1 \in 1 .. Len(c)
                    BY <2>2, <3>2, <4>2
                <5>2. x[i] = c[i - 1]
                    BY <3>2, <5>1
                <5> QED
                    BY <2>c, <5>1, <5>2
            <4> QED
                BY <4>1, <4>2
        <3>5. x[Len(x)] = n /\ Len(x) >= 1
            <4>1. Len(x) \in 2 .. Len(x) /\ Len(x) - 1 = Len(c)
                BY <2>2, <3>2
            <4> QED
                BY SMTT(60), <2>c, <2>2, <3>2, <4>1
        <3>6. Upward(nb, n, x)
            BY <3>2, <3>3, <3>4, <3>5 DEF Upward
        <3>7. ~WholeWay(nb, n, c)
            BY <2>2, <2>5 DEF WholeWay
        <3>8. Len(x) = k + 1 /\ k \in 0 .. N
            BY SMTT(60), <1>0, <2>1, <2>2, <3>2, <3>7
        <3>9. u[k] = x
            BY <2>3, <2>5 DEF x
        <3> QED
            BY SMTT(60), <3>6, <3>8, <3>9
    <2> QED
        BY <2>4, <2>5
<1>4. \A k \in 0 .. N : k \in S
    <2> HIDE DEF S, N
    <2> QED
        BY <1>0, <1>2, <1>3, StepByStep
<1>5. P(N)
    BY <1>0, <1>4
<1>6. Len(u[N]) <= N
    BY <1>5, UpwardIsShort
<1> QED
    BY <1>0, <1>1, <1>5, <1>6

(* sgfs_fileno_alloc, on the way w, and sgfs_readdir, of the entries w *)
NumberAll(nb, w) ==
    FoldLeft(LAMBDA acc, q : [acc EXCEPT ![q].fileno = AllocUnr(acc)], nb, w)

NumberEntry(nb, n) == IF nb[n].fileno = 0 THEN sgfs_fileno_alloc(nb, n) ELSE nb
NumberEntries(nb, w) ==
    FoldLeft(LAMBDA acc, n : IF acc[n].fileno = 0
                             THEN sgfs_fileno_alloc(acc, n) ELSE acc, nb, w)

(* The nodes on the way get their numbers one after the other. *)
LEMMA NumberSteps ==
    ASSUME NEW nb, NEW w, Len(w) \in Nat, DOMAIN w = 1 .. Len(w)
    PROVE  \E z : /\ z[0] = nb
                  /\ \A k \in 1 .. Len(w) : z[k] = NumberNode(z[k - 1], w[k])
                  /\ NumberAll(nb, w) = z[Len(w)]
<1> DEFINE Do(x, y) == NumberNode(x, y)
           F(n, g) == g = [d \in SUBSET (1 .. n) |->
                              IF d = {} THEN nb
                              ELSE Do(g[d \ {Max(d)}], w[Max(d)])]
           S == {n \in 0 .. Len(w) : \E g : F(n, g)}
           iter == CHOOSE g : F(Len(w), g)
           z == [k \in 0 .. Len(w) |-> iter[1 .. k]]
<1>b. NumberAll(nb, w) = iter[DOMAIN w]
    BY Zenon DEF NumberAll, NumberNode, FoldLeft, MapThenFoldSet
<1> HIDE DEF Do
<1> DEFINE N == Len(w)
<1>0. N \in Nat /\ DOMAIN w = 1 .. N
    OBVIOUS
<1>1. 0 \in S
    <2>1. F(0, [d \in SUBSET (1 .. 0) |-> nb])
        OBVIOUS
    <2> HIDE DEF F
    <2> QED
        BY <1>0, <2>1
<1>2. ASSUME NEW n \in 1 .. N, n - 1 \in S PROVE n \in S
    <2>1. PICK g : F(n - 1, g)
        BY <1>2, Zenon
    <2> DEFINE h == [d \in SUBSET (1 .. n) |->
                        IF n \in d THEN Do(g[d \ {n}], w[n]) ELSE g[d]]
    <2>2. ASSUME NEW d \in SUBSET (1 .. n)
          PROVE  h[d] = IF d = {} THEN nb
                        ELSE Do(h[d \ {Max(d)}], w[Max(d)])
        <3>1. CASE n \in d
            <4>1. Max(d) = n
                BY <1>0, <3>1, MaxIsLast
            <4>2. d \ {n} \in SUBSET (1 .. n) /\ n \notin d \ {n}
                BY <3>1
            <4>3. h[d \ {n}] = g[d \ {n}]
                BY <4>2
            <4>4. h[d] = Do(g[d \ {n}], w[n])
                BY <3>1
            <4> HIDE DEF h
            <4> QED
                BY <3>1, <4>1, <4>3, <4>4
        <3>2. CASE n \notin d
            <4>1. d \in SUBSET (1 .. n - 1)
                BY <1>0, <3>2
            <4>2. h[d] = g[d]
                BY <3>2
            <4>3. h[d \ {Max(d)}] = g[d \ {Max(d)}]
                BY <3>2
            <4> HIDE DEF h
            <4> QED
                BY <2>1, <4>1, <4>2, <4>3
        <3> QED
            BY <3>1, <3>2
    <2>3. F(n, h)
        <3>1. h = [d \in SUBSET (1 .. n) |-> h[d]]
            OBVIOUS
        <3> HIDE DEF h
        <3> QED
            BY <2>2, <3>1, Zenon
    <2> HIDE DEF F, h
    <2> QED
        BY <1>0, <2>3
<1>3. \E g : F(N, g)
    <2> HIDE DEF F
    <2>1. \A k \in 0 .. N : k \in S
        <3> HIDE DEF S, N
        <3> QED
            BY <1>0, <1>1, <1>2, StepByStep
    <2> QED
        BY <1>0, <2>1
<1>4. F(N, iter)
    BY <1>3, Zenon
<1>5. z[0] = nb
    <2>1. 1 .. 0 = {} /\ 0 \in 0 .. N
        BY <1>0
    <2>2. iter[{}] = nb
        <3> HIDE DEF iter
        <3>1. {} \in SUBSET (1 .. N)
            OBVIOUS
        <3> QED
            BY <1>4, <3>1
    <2> QED
        BY <2>1, <2>2
<1>6. ASSUME NEW k \in 1 .. N PROVE z[k] = Do(z[k - 1], w[k])
    <2>1. z[k] = iter[1 .. k] /\ z[k - 1] = iter[1 .. k - 1]
        BY <1>0
    <2> HIDE DEF iter, N
    <2>2. /\ 1 .. k \in SUBSET (1 .. N) /\ 1 .. k # {}
          /\ (1 .. k) \ {k} = 1 .. k - 1 /\ Max(1 .. k) = k
        BY <1>0, FirstPositions
    <2>3. iter[1 .. k] = Do(iter[(1 .. k) \ {Max(1 .. k)}], w[Max(1 .. k)])
        <3> HIDE DEF z
        <3> QED
            BY <1>4, <2>2, Zenon
    <2> HIDE DEF z
    <2> QED
        BY <2>1, <2>2, <2>3
<1>7. z[N] = iter[DOMAIN w]
    BY <1>0
<1> HIDE DEF iter, z
<1> QED
    BY <1>b, <1>5, <1>6, <1>7, Zenon DEF Do

(* sgfs_readdir goes through the entries one after the other. *)
LEMMA EntrySteps ==
    ASSUME NEW nb, NEW w, Len(w) \in Nat, DOMAIN w = 1 .. Len(w)
    PROVE  \E z : /\ z[0] = nb
                  /\ \A k \in 1 .. Len(w) : z[k] = NumberEntry(z[k - 1], w[k])
                  /\ NumberEntries(nb, w) = z[Len(w)]
<1> DEFINE Do(x, y) == NumberEntry(x, y)
           F(n, g) == g = [d \in SUBSET (1 .. n) |->
                              IF d = {} THEN nb
                              ELSE Do(g[d \ {Max(d)}], w[Max(d)])]
           S == {n \in 0 .. Len(w) : \E g : F(n, g)}
           iter == CHOOSE g : F(Len(w), g)
           z == [k \in 0 .. Len(w) |-> iter[1 .. k]]
<1>b. NumberEntries(nb, w) = iter[DOMAIN w]
    BY Zenon DEF NumberEntries, NumberEntry, FoldLeft, MapThenFoldSet
<1> HIDE DEF Do
<1> DEFINE N == Len(w)
<1>0. N \in Nat /\ DOMAIN w = 1 .. N
    OBVIOUS
<1>1. 0 \in S
    <2>1. F(0, [d \in SUBSET (1 .. 0) |-> nb])
        OBVIOUS
    <2> HIDE DEF F
    <2> QED
        BY <1>0, <2>1
<1>2. ASSUME NEW n \in 1 .. N, n - 1 \in S PROVE n \in S
    <2>1. PICK g : F(n - 1, g)
        BY <1>2, Zenon
    <2> DEFINE h == [d \in SUBSET (1 .. n) |->
                        IF n \in d THEN Do(g[d \ {n}], w[n]) ELSE g[d]]
    <2>2. ASSUME NEW d \in SUBSET (1 .. n)
          PROVE  h[d] = IF d = {} THEN nb
                        ELSE Do(h[d \ {Max(d)}], w[Max(d)])
        <3>1. CASE n \in d
            <4>1. Max(d) = n
                BY <1>0, <3>1, MaxIsLast
            <4>2. d \ {n} \in SUBSET (1 .. n) /\ n \notin d \ {n}
                BY <3>1
            <4>3. h[d \ {n}] = g[d \ {n}]
                BY <4>2
            <4>4. h[d] = Do(g[d \ {n}], w[n])
                BY <3>1
            <4> HIDE DEF h
            <4> QED
                BY <3>1, <4>1, <4>3, <4>4
        <3>2. CASE n \notin d
            <4>1. d \in SUBSET (1 .. n - 1)
                BY <1>0, <3>2
            <4>2. h[d] = g[d]
                BY <3>2
            <4>3. h[d \ {Max(d)}] = g[d \ {Max(d)}]
                BY <3>2
            <4> HIDE DEF h
            <4> QED
                BY <2>1, <4>1, <4>2, <4>3
        <3> QED
            BY <3>1, <3>2
    <2>3. F(n, h)
        <3>1. h = [d \in SUBSET (1 .. n) |-> h[d]]
            OBVIOUS
        <3> HIDE DEF h
        <3> QED
            BY <2>2, <3>1, Zenon
    <2> HIDE DEF F, h
    <2> QED
        BY <1>0, <2>3
<1>3. \E g : F(N, g)
    <2> HIDE DEF F
    <2>1. \A k \in 0 .. N : k \in S
        <3> HIDE DEF S, N
        <3> QED
            BY <1>0, <1>1, <1>2, StepByStep
    <2> QED
        BY <1>0, <2>1
<1>4. F(N, iter)
    BY <1>3, Zenon
<1>5. z[0] = nb
    <2>1. 1 .. 0 = {} /\ 0 \in 0 .. N
        BY <1>0
    <2>2. iter[{}] = nb
        <3> HIDE DEF iter
        <3>1. {} \in SUBSET (1 .. N)
            OBVIOUS
        <3> QED
            BY <1>4, <3>1
    <2> QED
        BY <2>1, <2>2
<1>6. ASSUME NEW k \in 1 .. N PROVE z[k] = Do(z[k - 1], w[k])
    <2>1. z[k] = iter[1 .. k] /\ z[k - 1] = iter[1 .. k - 1]
        BY <1>0
    <2> HIDE DEF iter, N
    <2>2. /\ 1 .. k \in SUBSET (1 .. N) /\ 1 .. k # {}
          /\ (1 .. k) \ {k} = 1 .. k - 1 /\ Max(1 .. k) = k
        BY <1>0, FirstPositions
    <2>3. iter[1 .. k] = Do(iter[(1 .. k) \ {Max(1 .. k)}], w[Max(1 .. k)])
        <3> HIDE DEF z
        <3> QED
            BY <1>4, <2>2, Zenon
    <2> HIDE DEF z
    <2> QED
        BY <2>1, <2>2, <2>3
<1>7. z[N] = iter[DOMAIN w]
    BY <1>0
<1> HIDE DEF iter, z
<1> QED
    BY <1>b, <1>5, <1>6, <1>7, Zenon DEF Do

(* Who is on the way up from a live node is live. *)
LEMMA WayIsLive ==
    ASSUME SgfsInv, NEW nb, NEW n \in Node, node[n].live,
           NEW c, Upward(nb, n, c)
    PROVE  \A i \in 1 .. Len(c) : c[i] \in Node /\ node[c[i]].live
<1> DEFINE N == Len(c) - 1
           S == {k \in 0 .. N : node[c[Len(c) - k]].live}
<1>0. /\ c \in Seq(Node) /\ Len(c) \in Nat /\ N \in Nat /\ c[Len(c)] = n
      /\ \A m \in Node : NodeOK(node, m)
    BY DEF Upward, SgfsInv, Tree
<1>1. 0 \in S
    BY <1>0
<1>2. ASSUME NEW k \in 1 .. N, k - 1 \in S PROVE k \in S
    <2> DEFINE i == Len(c) - k
    <2>1. /\ i \in 1 .. Len(c) - 1 /\ i + 1 = Len(c) - (k - 1)
          /\ i \in 1 .. Len(c) /\ i + 1 \in 1 .. Len(c) /\ k \in 0 .. N
        BY <1>0
    <2>2. node[c[i + 1]].live
        BY <1>2, <2>1
    <2>3. node[c[i + 1]].parent = c[i] /\ c[i] \in Node /\ c[i + 1] \in Node
        BY <1>0, <2>1 DEF Upward
    <2>4. node[c[i]].live
        BY <1>0, <2>2, <2>3, NullAssumption DEF NodeOK
    <2> QED
        BY <2>1, <2>4
<1>3. \A k \in 0 .. N : k \in S
    <2> HIDE DEF S, N
    <2> QED
        BY <1>0, <1>1, <1>2, StepByStep
<1>4. ASSUME NEW i \in 1 .. Len(c) PROVE c[i] \in Node /\ node[c[i]].live
    <2>1. Len(c) - i \in 0 .. N /\ Len(c) - (Len(c) - i) = i
        BY <1>0
    <2>2. node[c[Len(c) - (Len(c) - i)]].live
        BY <1>3, <2>1
    <2> QED
        BY <1>0, <2>1, <2>2
<1> QED
    BY <1>4

(* sgfs_fileno_alloc gives a node and its ancestors numbers, the uppermost *)
(* first, so that no node has one before its parent.                       *)
LEMMA AllocKeeps ==
    ASSUME SgfsInv, IsFiniteSet(Node), NoCycle(node),
           NEW nb, NumbersOK(node, nb), NEW n \in Node, node[n].live,
           nb[n].fileno = 0
    PROVE  LET nt == sgfs_fileno_alloc(nb, n)
           IN  NumbersOK(node, nt) /\ Extends(nb, nt) /\ nt[n].fileno # 0
<1> DEFINE w == Unnumbered(nb, n)
           N == Len(w)
<1>1. WholeWay(nb, n, w)
    BY UnnumberedIsWay
<1> HIDE DEF w
<1>2. /\ Upward(nb, n, w) /\ w \in Seq(Node) /\ N \in Nat /\ N >= 1
      /\ DOMAIN w = 1 .. N /\ w[N] = n
    BY <1>1 DEF WholeWay, Upward
<1>3. \A i, j \in 1 .. N : w[i] = w[j] => i = j
    BY <1>2, UpwardIsShort
<1>4. \A i \in 1 .. N : w[i] \in Node /\ node[w[i]].live
    BY <1>2, WayIsLive
<1>5. PICK z : /\ z[0] = nb
               /\ \A k \in 1 .. N : z[k] = NumberNode(z[k - 1], w[k])
               /\ NumberAll(nb, w) = z[N]
    BY SMTT(60), <1>2, NumberSteps
<1>6. sgfs_fileno_alloc(nb, n) = NumberAll(nb, w)
    BY DEF sgfs_fileno_alloc, NumberAll, w
<1> DEFINE P(k) == /\ NumbersOK(node, z[k]) /\ Extends(nb, z[k])
                   /\ \A i \in 1 .. N : z[k][w[i]].fileno # 0 <=> i <= k
           S == {k \in 0 .. N : P(k)}
<1>7. 0 \in S
    <2>1. \A i \in 1 .. N : nb[w[i]].fileno = 0
        BY <1>2 DEF Upward
    <2>2. Extends(nb, nb)
        BY DEF Extends
    <2>3. P(0)
        BY <1>2, <1>5, <2>1, <2>2
    <2> HIDE DEF P
    <2> QED
        BY <1>2, <2>3
<1>8. ASSUME NEW k \in 1 .. N, k - 1 \in S PROVE k \in S
    <2> DEFINE q == w[k]
               pre == z[k - 1]
    <2>1. /\ NumbersOK(node, pre) /\ Extends(nb, pre)
          /\ \A i \in 1 .. N : pre[w[i]].fileno # 0 <=> i <= k - 1
        BY <1>8
    <2>2. q \in Node /\ node[q].live /\ pre[q].fileno = 0
        BY SMTT(60), <1>2, <1>4, <2>1
    <2>3. node[q].parent # NULL => pre[node[q].parent].fileno # 0
        <3>1. CASE k = 1
            <4>1. node[q].parent # NULL =>
                    node[q].parent \in Node /\ nb[node[q].parent].fileno # 0
                BY <1>1, <2>2, <3>1 DEF WholeWay, SgfsInv, Tree, NodeType
            <4> QED
                BY <2>1, <4>1 DEF Extends
        <3>2. CASE k # 1
            <4>1. k - 1 \in 1 .. N /\ k - 1 \in 1 .. N - 1 /\ (k - 1) + 1 = k
                BY <1>2, <3>2
            <4>2. node[w[(k - 1) + 1]].parent = w[k - 1]
                BY <1>2, <4>1 DEF Upward
            <4> QED
                BY <2>1, <4>1, <4>2
        <3> QED
            BY <3>1, <3>2
    <2>4. z[k] = NumberNode(pre, q)
        BY <1>5
    <2> HIDE DEF pre
    <2>5. /\ NumbersOK(node, z[k]) /\ Extends(pre, z[k]) /\ z[k][q].fileno # 0
          /\ \A m \in Node : m # q => z[k][m] = pre[m]
        BY <2>1, <2>2, <2>3, <2>4, OneNumber
    <2>6. Extends(nb, z[k])
        BY <2>1, <2>5, ExtendsOn
    <2>7. ASSUME NEW i \in 1 .. N PROVE z[k][w[i]].fileno # 0 <=> i <= k
        <3>1. CASE i = k
            BY <1>2, <2>5, <3>1
        <3>2. CASE i # k
            <4>1. w[i] # q /\ w[i] \in Node
                BY <1>3, <1>4, <3>2
            <4>2. z[k][w[i]] = pre[w[i]]
                BY <2>5, <4>1
            <4>3. i <= k <=> i <= k - 1
                BY <1>2, <3>2
            <4> QED
                BY <2>1, <4>2, <4>3
        <3> QED
            BY <3>1, <3>2
    <2>8. P(k) /\ k \in 0 .. N
        BY <1>2, <2>5, <2>6, <2>7
    <2> HIDE DEF P
    <2> QED
        BY <2>8
<1>9. \A k \in 0 .. N : k \in S
    <2> HIDE DEF S, N
    <2> QED
        BY <1>2, <1>7, <1>8, StepByStep
<1>10. P(N) /\ N \in 1 .. N
    <2>1. N \in 0 .. N /\ N \in 1 .. N
        BY <1>2
    <2> HIDE DEF P
    <2> QED
        BY <1>9, <2>1
<1>11. z[N][n].fileno # 0
    BY <1>2, <1>10
<1> QED
    BY <1>5, <1>6, <1>10, <1>11

(* The entries that sgfs_readdir returns get their numbers. *)
LEMMA EntriesKeep ==
    ASSUME SgfsInv, IsFiniteSet(Node), NoCycle(node),
           NEW nb, NumbersOK(node, nb),
           NEW w \in Seq(Node), \A i \in 1 .. Len(w) : node[w[i]].live
    PROVE  LET nt == NumberEntries(nb, w)
           IN  NumbersOK(node, nt) /\ Extends(nb, nt)
<1> DEFINE N == Len(w)
<1>1. N \in Nat /\ DOMAIN w = 1 .. N /\ \A i \in 1 .. N : w[i] \in Node
    OBVIOUS
<1>2. PICK z : /\ z[0] = nb
               /\ \A k \in 1 .. N : z[k] = NumberEntry(z[k - 1], w[k])
               /\ NumberEntries(nb, w) = z[N]
    BY <1>1, EntrySteps
<1> DEFINE P(k) == NumbersOK(node, z[k]) /\ Extends(nb, z[k])
           S == {k \in 0 .. N : P(k)}
<1>3. 0 \in S
    BY <1>1, <1>2 DEF Extends
<1>4. ASSUME NEW k \in 1 .. N, k - 1 \in S PROVE k \in S
    <2> DEFINE pre == z[k - 1]
    <2>1. P(k - 1) /\ k \in 0 .. N
        BY <1>1, <1>4
    <2>2. z[k] = NumberEntry(pre, w[k])
        BY <1>2
    <2>3. CASE pre[w[k]].fileno # 0
        BY <2>1, <2>2, <2>3 DEF NumberEntry
    <2>4. CASE pre[w[k]].fileno = 0
        <3>1. z[k] = sgfs_fileno_alloc(pre, w[k])
            BY <2>2, <2>4 DEF NumberEntry
        <3> HIDE DEF pre
        <3>2. NumbersOK(node, pre) /\ Extends(nb, pre)
            BY <2>1 DEF pre
        <3>3. NumbersOK(node, z[k]) /\ Extends(pre, z[k])
            BY <1>1, <2>4, <3>1, <3>2, AllocKeeps
        <3>4. Extends(nb, z[k])
            BY <3>2, <3>3, ExtendsOn
        <3> QED
            BY <2>1, <3>3, <3>4
    <2> QED
        BY <2>3, <2>4
<1>5. \A k \in 0 .. N : k \in S
    <2> HIDE DEF S, N
    <2> QED
        BY <1>1, <1>3, <1>4, StepByStep
<1>6. P(N)
    BY <1>1, <1>5
<1> QED
    BY <1>2, <1>6

(* ".." gets the number of the parent, which has one. *)
LEMMA DotDotKeeps ==
    ASSUME SgfsInv, IsFiniteSet(Node), NoCycle(node),
           NEW nb, NumbersOK(node, nb), NEW pd \in Node, node[pd].live,
           pd = Root \/ node[pd].parent # NULL
    PROVE  NumbersOK(node, NumberDotDot(nb, pd))
<1> DEFINE up == IF nb[pd].fileno = 0 THEN sgfs_fileno_alloc(nb, pd) ELSE nb
           x == IF pd = Root THEN up[pd].fileno ELSE up[node[pd].parent].fileno
           r == [up EXCEPT ![pd].ddno = x]
<1>1. NumbersOK(node, up)
    BY AllocKeeps
<1>2. NumberDotDot(nb, pd) = r
    BY DEF NumberDotDot
<1> HIDE DEF up
<1>3. /\ node \in [Node -> NodeType] /\ up \in [Node -> NumberType]
      /\ node[Root].parent = NULL
    BY <1>1 DEF SgfsInv, Tree, RootOK, NumbersOK
<1>4. x \in Nat
    <2>1. pd = Root \/ node[pd].parent \in Node
        BY <1>3 DEF NodeType
    <2> QED
        BY <1>3, <2>1 DEF NumberType
<1>5. /\ r \in [Node -> NumberType]
      /\ \A n \in Node : r[n].fileno = up[n].fileno
      /\ \A n \in Node : n # pd => r[n] = up[n]
      /\ r[pd].ddno = x
    <2> HIDE DEF x
    <2> QED
        BY <1>3, <1>4 DEF NumberType
<1> HIDE DEF r
<1>6. ASSUME NEW n \in Node, node[n].live, node[n].parent # NULL
      PROVE  /\ r[n].fileno # 0 => r[node[n].parent].fileno # 0
             /\ r[n].ddno # 0 => r[n].ddno = r[node[n].parent].fileno
    <2>1. node[n].parent \in Node
        BY <1>3, <1>6 DEF NodeType
    <2>2. /\ up[n].fileno # 0 => up[node[n].parent].fileno # 0
          /\ up[n].ddno # 0 => up[n].ddno = up[node[n].parent].fileno
        BY <1>1, <1>6 DEF NumbersOK
    <2>3. CASE n = pd
        BY <1>3, <1>5, <1>6, <2>1, <2>2, <2>3
    <2>4. CASE n # pd
        BY <1>5, <2>1, <2>2, <2>4
    <2> QED
        BY <2>3, <2>4
<1>7. \A n, m \in Node :
        n # m /\ r[n].fileno # 0 => r[m].fileno # r[n].fileno
    BY <1>1, <1>5 DEF NumbersOK
<1>8. \A n \in Node : ~node[n].live => r[n] = NoNumber
    BY SMTT(60), <1>1, <1>5 DEF NumbersOK
<1> QED
    BY <1>2, <1>5, <1>6, <1>7, <1>8 DEF NumbersOK

(* sgfs_readdir, however far it gets *)
LEMMA NumberReaddir ==
    ASSUME SgfsInv, IsFiniteSet(Node), NumberInv, NEW p \in Proc,
           sgfs_readdir(p)
    PROVE  NumberInv'
<1> DEFINE v == cwd[p]
           pd == vnode[v].data
           n == Len(node[pd].children)
<1>1. /\ node \in [Node -> NodeType] /\ cwd \in [Proc -> Vnode \cup {NULL}]
      /\ UsedOK(node, vnode) /\ NoCycle(node) /\ NumbersOK(node, number)
      /\ \A u \in Vnode : VnodeOK(vnode[u])
      /\ \A m \in Node : NodeOK(node, m)
    BY Known DEF NumberInv
<1>2. v \in Vnode /\ vnode[v].st = "live"
    BY ZenonT(60), <1>1 DEF sgfs_readdir
<1>3. pd \in Node /\ node[pd].live
    BY <1>1, <1>2 DEF UsedOK, VnodeOK
<1>4. /\ node[pd].children \in Seq(Node) /\ n \in Nat
      /\ \A i \in 1 .. n : node[node[pd].children[i]].live
    <2>1. node[pd].children \in Seq(Node)
        BY <1>1, <1>3 DEF NodeType
    <2>2. \A m \in ToSet(node[pd].children) : node[m].live
        BY <1>1, <1>3 DEF NodeOK
    <2>3. ToSet(node[pd].children) = {node[pd].children[i] : i \in 1 .. n}
        BY SMTT(60), <2>1 DEF ToSet
    <2> HIDE DEF pd
    <2> QED
        BY <2>1, <2>2, <2>3
<1> HIDE DEF pd
<1> DEFINE list == node[pd].children
<1>5. ASSUME NEW k \in 0 .. n PROVE NumbersOK(node, NumberChildren(pd, k))
    <2> DEFINE w == SubSeq(list, 1, k)
    <2>1. /\ w \in Seq(Node) /\ Len(w) = k
          /\ \A i \in 1 .. k : w[i] = list[i] /\ i \in 1 .. n
        BY <1>4
    <2>2. NumberChildren(pd, k) = NumberEntries(number, w)
        BY DEF NumberChildren, NumberEntries
    <2> HIDE DEF w
    <2>3. \A i \in 1 .. Len(w) : node[w[i]].live
        BY <1>4, <2>1
    <2> QED
        BY <1>1, <2>1, <2>2, <2>3, EntriesKeep
<1>6. CASE UNCHANGED <<node, number>>
    BY <1>6 DEF NumberInv
<1>7. CASE node' = node /\ \E k \in 1 .. n : number' = NumberChildren(pd, k)
    <2>1. NumbersOK(node, number')
        BY <1>4, <1>5, <1>7
    <2> QED
        BY <1>1, <1>7, <2>1 DEF NumberInv
<1>8. CASE /\ node' = node /\ (pd = Root \/ node[pd].parent # NULL)
           /\ number' = NumberDotDot(NumberChildren(pd, n), pd)
    <2>1. NumbersOK(node, NumberChildren(pd, n))
        BY <1>4, <1>5
    <2>2. NumbersOK(node, number')
        BY <1>1, <1>3, <1>8, <2>1, DotDotKeeps
    <2> QED
        BY <1>1, <1>8, <2>2 DEF NumberInv
<1> QED
    BY ZenonT(60), <1>6, <1>7, <1>8 DEF sgfs_readdir, Panic, pd

(* At first only the root has a number. *)
LEMMA NumberInit == Init => NumberInv
<1> SUFFICES ASSUME Init PROVE NumberInv
    OBVIOUS
<1>1. /\ \A n \in Node : node[n].parent = NULL
      /\ \A n \in Node \ {Root} : number[n] = NoNumber
      /\ number[Root] = [fileno |-> 1, ddno |-> 0]
      /\ number \in [Node -> NumberType] /\ node[Root].live
    BY RootAssumption DEF Init, FreeNode, NoNumber, NumberType
<1>2. NoCycle(node)
    BY <1>1, NullAssumption DEF NoCycle
<1>3. NumbersOK(node, number)
    BY <1>1 DEF NumbersOK, NoNumber
<1> QED
    BY <1>2, <1>3 DEF NumberInv

(* Every step of the file system keeps what its numbers say. *)
LEMMA NumberNext ==
    ASSUME IsFiniteSet(Node), SgfsInv, NumberInv, [Next]_vars
    PROVE  NumberInv'
<1>1. SgfsInv'
    BY SgfsNext
<1>2. CASE UNCHANGED vars
    BY <1>2 DEF vars, NumberInv
<1> QED
    BY <1>1, <1>2, NumberStart, NumberStep, NumberReaddir, NumberKernel
       DEF Next, Stopped

(* File numbers are given on demand, from the uppermost node that has none *)
(* downwards, and are taken back when a node is freed: two nodes never     *)
(* have the same one, nobody has one before its parent, and ".." has its   *)
(* parent's, with any number of mounts and of nodes.                       *)
THEOREM NumbersStayRight ==
    IsFiniteSet(Node) => (Spec => []NumbersConsistent)
<1> SUFFICES ASSUME IsFiniteSet(Node) PROVE Spec => []NumbersConsistent
    OBVIOUS
<1>1. NumberInv => NumbersConsistent
    BY DEF NumberInv, NumbersOK, NumbersConsistent, NumberType, Live
<1>2. SgfsInv /\ NumberInv /\ [Next]_vars => NumberInv'
    BY NumberNext
<1> QED
    BY <1>1, <1>2, NumberInit, SgfsInvHolds, PTL DEF Spec

(* With one mount, names, the name cache and file numbers all agree with *)
(* the tree.                                                             *)
THEOREM NamesStayInAgreement ==
    IsFiniteSet(Node) /\ Cardinality(Mount) = 1 => (Spec => []NamesAgree)
<1>1. NamesUnique /\ CacheFresh /\ NumbersConsistent => NamesAgree
    BY DEF NamesAgree
<1> QED
    BY <1>1, NamesStayRight, NumbersStayRight, PTL

-----------------------------------------------------------------------------
(* The attributes of a node *)

(* What a call of sgfs_setattr c has done and may still do: what it changed, *)
(* its caller may change, and may go on changing; nothing is undated before  *)
(* the first change.                                                         *)
MayDo(c, a) ==
    /\ a.uid # c.old.uid => Attr!Privileged(c.cred)
    /\ a.mode # c.old.mode \/ a.gid # c.old.gid =>
        Attr!VAdmin(c.old, c.cred)
    /\ a.time # c.old.time =>
        Attr!VAdmin(c.old, c.cred) \/ Attr!VWrite(c.old, c.cred)
    /\ c.pc = "owner" => \/ Attr!Privileged(c.cred)
                         \/ c.cred = a.uid /\ c.uid = a.uid
    /\ c.pc = "mode" => Attr!VAdmin(a, c.cred) /\ c.mode \in Attr!Mode
    /\ c.pc = "time" =>
        /\ c.time \in Stamp
        /\ Attr!VAdmin(c.old, c.cred) \/ Attr!VWrite(c.old, c.cred)

Progress(c, a, dt) ==
    /\ c.pc \in {"chown", "owner"} => ~c.c
    /\ ~c.c => a = c.old /\ dt
    /\ c.c /\ c.pc # "ctime" => Attr!VAdmin(a, c.cred)

AttrInv ==
    /\ Attr!TypeOK
    /\ \A m \in Mount :
        \/ setattr[m] = Attr!Unlocked /\ dated
        \/ /\ setattr[m].pc # "none"
           /\ MayDo(setattr[m], attr) /\ Progress(setattr[m], attr, dated)

(* With one mount a step has to keep the invariant of one call, c, which *)
(* becomes d.                                                            *)
LEMMA AttrNext ==
    ASSUME NEW m \in Mount, Mount = {m}, AttrInv,
           NEW d \in {Attr!Unlocked} \cup Attr!CallType,
           setattr' = [setattr EXCEPT ![m] = d],
           attr' \in Attr!Attributes, dated' \in BOOLEAN,
           \/ d = Attr!Unlocked /\ dated'
           \/ d.pc # "none" /\ MayDo(d, attr') /\ Progress(d, attr', dated')
    PROVE  AttrInv'
<1>1. /\ setattr' \in [Mount -> {Attr!Unlocked} \cup Attr!CallType]
      /\ setattr'[m] = d
    BY DEF AttrInv, Attr!TypeOK
<1>2. Attr!TypeOK'
    BY <1>1 DEF Attr!TypeOK
<1> QED
    BY <1>1, <1>2 DEF AttrInv

(* A call begins with the node as it is. *)
LEMMA AttrBegin ==
    ASSUME NEW m \in Mount, Mount = {m}, AttrInv,
           NEW cred \in Uid, NEW uid \in Uid \cup {VNOVAL},
           NEW gid \in Gid \cup {VNOVAL}, Attr!Begin(m, cred, uid, gid)
    PROVE  AttrInv' /\ Attr!EndsWell(m)
<1> DEFINE d == [pc |-> "chown", cred |-> cred, old |-> attr,
                 uid |-> Attr!Given(uid, attr.uid),
                 gid |-> Attr!Given(gid, attr.gid),
                 mode |-> VNOVAL, time |-> VNOVAL, c |-> FALSE]
<1>1. /\ setattr[m] = Attr!Unlocked /\ setattr' = [setattr EXCEPT ![m] = d]
      /\ attr' = attr /\ dated' = dated
    BY DEF Attr!Begin
<1>2. /\ attr \in Attr!Attributes /\ dated \in BOOLEAN
      /\ attr.uid \in Uid /\ attr.gid \in Gid
    BY DEF AttrInv, Attr!TypeOK, Attr!Attributes
<1>3. Attr!Given(uid, attr.uid) \in Uid /\ Attr!Given(gid, attr.gid) \in Gid
    BY <1>2 DEF Attr!Given
<1>4. d \in Attr!CallType /\ d.pc = "chown" /\ d.old = attr /\ d.c = FALSE
    BY <1>2, <1>3 DEF Attr!CallType
<1> HIDE DEF d
<1>5. dated
    BY <1>1 DEF AttrInv, Attr!Unlocked
<1>6. MayDo(d, attr') /\ Progress(d, attr', dated')
    BY <1>1, <1>4, <1>5 DEF MayDo, Progress
<1>7. AttrInv'
    BY <1>1, <1>2, <1>4, <1>6, AttrNext
<1> QED
    BY <1>1, <1>7 DEF Attr!EndsWell, Attr!Ends

(* What is known of a call that is going on. *)
LEMMA AttrCall ==
    ASSUME NEW m \in Mount, AttrInv, setattr[m].pc # "none"
    PROVE  /\ setattr \in [Mount -> {Attr!Unlocked} \cup Attr!CallType]
           /\ setattr[m] \in Attr!CallType /\ setattr[m] # Attr!Unlocked
           /\ attr \in Attr!Attributes /\ dated \in BOOLEAN
           /\ MayDo(setattr[m], attr) /\ Progress(setattr[m], attr, dated)
    BY DEF AttrInv, Attr!TypeOK, Attr!Unlocked

(* A call returns: either it did nothing, or it got to its end. *)
LEMMA AttrReturn ==
    ASSUME NEW m \in Mount, Mount = {m}, AttrInv, setattr[m].pc # "none",
           Attr!Return(m), attr' = attr, dated' \in BOOLEAN, dated',
           ~setattr[m].c \/ setattr[m].pc = "ctime"
    PROVE  AttrInv' /\ Attr!EndsWell(m)
<1>1. /\ setattr[m] \in Attr!CallType /\ attr \in Attr!Attributes
      /\ MayDo(setattr[m], attr) /\ Progress(setattr[m], attr, dated)
    BY AttrCall
<1>2. AttrInv'
    BY <1>1, AttrNext DEF Attr!Return
<1>3. Attr!AllOrNothing(setattr[m])
    BY <1>1 DEF Attr!AllOrNothing, Progress
<1>4. Attr!Entitled(setattr[m])
    BY <1>1 DEF Attr!Entitled, MayDo
<1> QED
    BY <1>2, <1>3, <1>4 DEF Attr!EndsWell

(* A call goes on: c becomes d, which is the same call. *)
LEMMA AttrGo ==
    ASSUME NEW m \in Mount, Mount = {m}, AttrInv, setattr[m].pc # "none",
           NEW d \in Attr!CallType, setattr' = [setattr EXCEPT ![m] = d],
           attr' \in Attr!Attributes, dated' \in BOOLEAN,
           MayDo(d, attr'), Progress(d, attr', dated')
    PROVE  AttrInv' /\ Attr!EndsWell(m)
<1>1. d.pc # "none" /\ d # Attr!Unlocked
    BY DEF Attr!CallType, Attr!Unlocked
<1>2. AttrInv'
    BY <1>1, AttrNext
<1>3. setattr'[m] = d
    BY AttrCall
<1> QED
    BY <1>1, <1>2, <1>3 DEF Attr!EndsWell, Attr!Ends

(* The tests of the owner and the group *)
LEMMA AttrChown ==
    ASSUME NEW m \in Mount, Mount = {m}, AttrInv, Attr!Chown(m)
    PROVE  AttrInv' /\ Attr!EndsWell(m)
<1> DEFINE c == setattr[m]
<1>1. /\ c.pc = "chown" /\ attr' = attr /\ dated' = dated
    BY DEF Attr!Chown
<1>2. /\ setattr \in [Mount -> {Attr!Unlocked} \cup Attr!CallType]
      /\ c \in Attr!CallType /\ attr \in Attr!Attributes /\ dated \in BOOLEAN
      /\ MayDo(c, attr) /\ Progress(c, attr, dated)
    BY <1>1, AttrCall
<1>3. ~c.c /\ attr = c.old /\ dated
    BY <1>1, <1>2 DEF Progress
<1>4. CASE Attr!Return(m)
    BY <1>1, <1>2, <1>3, <1>4, AttrReturn
<1>5. ASSUME NEW pc \in {"chmod", "owner"}, Attr!Goto(m, pc),
             pc = "owner" => Attr!MayChown(c)
      PROVE  AttrInv' /\ Attr!EndsWell(m)
    <2> DEFINE d == [c EXCEPT !.pc = pc]
    <2>1. /\ d \in Attr!CallType /\ d.pc = pc /\ d.cred = c.cred
          /\ d.old = c.old /\ d.uid = c.uid /\ d.c = c.c
        BY <1>2 DEF Attr!CallType
    <2>2. setattr' = [setattr EXCEPT ![m] = d]
        BY <1>2, <1>5 DEF Attr!Goto, Attr!CallType
    <2> HIDE DEF d
    <2>3. pc = "owner" => \/ Attr!Privileged(c.cred)
                          \/ c.cred = attr.uid /\ c.uid = attr.uid
        BY <1>5 DEF Attr!MayChown
    <2>4. MayDo(d, attr')
        BY <1>1, <1>2, <1>3, <2>1, <2>3 DEF MayDo
    <2>5. Progress(d, attr', dated')
        BY <1>1, <1>3, <2>1 DEF Progress
    <2> QED
        BY <1>1, <1>2, <2>1, <2>2, <2>4, <2>5, AttrGo
<1> QED
    BY <1>4, <1>5 DEF Attr!Chown

(* The owner and the group are set: whoever may, may go on. *)
LEMMA AttrSetOwner ==
    ASSUME NEW m \in Mount, Mount = {m}, AttrInv, Attr!SetOwner(m)
    PROVE  AttrInv' /\ Attr!EndsWell(m)
<1> DEFINE c == setattr[m]
           d == [c EXCEPT !.pc = "chmod", !.c = TRUE]
<1>1. /\ c.pc = "owner" /\ attr' = [attr EXCEPT !.uid = c.uid, !.gid = c.gid]
      /\ dated' = FALSE
    BY DEF Attr!SetOwner
<1>2. /\ setattr \in [Mount -> {Attr!Unlocked} \cup Attr!CallType]
      /\ c \in Attr!CallType /\ attr \in Attr!Attributes
      /\ MayDo(c, attr) /\ Progress(c, attr, dated)
    BY <1>1, AttrCall
<1>3. attr = c.old
    BY <1>1, <1>2 DEF Progress
<1>4. /\ attr' \in Attr!Attributes /\ attr'.uid = c.uid
      /\ attr'.mode = attr.mode /\ attr'.time = attr.time
    BY <1>1, <1>2 DEF Attr!Attributes, Attr!CallType
<1>5. /\ d \in Attr!CallType /\ d.pc = "chmod" /\ d.cred = c.cred
      /\ d.old = c.old /\ d.c = TRUE
    BY <1>2 DEF Attr!CallType
<1>6. setattr' = [setattr EXCEPT ![m] = d]
    BY <1>2 DEF Attr!SetOwner, Attr!CallType
<1> HIDE DEF d
<1>7. Attr!Privileged(c.cred) \/ (c.cred = attr.uid /\ c.uid = attr.uid)
    BY <1>1, <1>2 DEF MayDo
<1>8. /\ Attr!VAdmin(c.old, c.cred)
      /\ attr'.uid # c.old.uid => Attr!Privileged(c.cred)
    BY <1>3, <1>4, <1>7 DEF Attr!VAdmin
<1>9. Attr!VAdmin(attr', c.cred)
    BY <1>4, <1>7 DEF Attr!VAdmin
<1>10. MayDo(d, attr') /\ Progress(d, attr', dated')
    BY <1>3, <1>4, <1>5, <1>8, <1>9 DEF MayDo, Progress
<1> QED
    BY <1>1, <1>4, <1>5, <1>6, <1>10, AttrGo

(* Who may administer the node as the call has left it could do so when *)
(* the call found it: only the superuser changes the owner.             *)
LEMMA AttrAdmin ==
    ASSUME NEW c, MayDo(c, attr), Attr!VAdmin(attr, c.cred)
    PROVE  Attr!VAdmin(c.old, c.cred)
    BY DEF MayDo, Attr!VAdmin

(* A call gets past a test. *)
LEMMA AttrPass ==
    ASSUME NEW m \in Mount, Mount = {m}, AttrInv,
           setattr[m].pc \in {"chmod", "utimes"},
           NEW d \in Attr!CallType, setattr' = [setattr EXCEPT ![m] = d],
           attr' = attr, dated' = dated,
           d.old = setattr[m].old, d.cred = setattr[m].cred, d.c = setattr[m].c,
           d.pc \in {"mode", "utimes", "time", "ctime"},
           d.pc = "mode" =>
                Attr!VAdmin(attr, d.cred) /\ d.mode \in Attr!Mode,
           d.pc = "time" =>
                /\ d.time \in Stamp
                /\ Attr!VAdmin(d.old, d.cred) \/ Attr!VWrite(d.old, d.cred)
    PROVE  AttrInv' /\ Attr!EndsWell(m)
<1>1. /\ attr \in Attr!Attributes /\ dated \in BOOLEAN
      /\ MayDo(setattr[m], attr) /\ Progress(setattr[m], attr, dated)
    BY AttrCall
<1>2. MayDo(d, attr')
    BY <1>1 DEF MayDo
<1>3. Progress(d, attr', dated')
    BY <1>1 DEF Progress
<1> QED
    BY <1>1, <1>2, <1>3, AttrGo

(* The test of the mode *)
LEMMA AttrChmod ==
    ASSUME NEW m \in Mount, Mount = {m}, AttrInv,
           NEW mode \in Attr!NewMode, Attr!Chmod(m, mode)
    PROVE  AttrInv' /\ Attr!EndsWell(m)
<1> DEFINE c == setattr[m]
<1>1. c.pc = "chmod" /\ attr' = attr /\ dated' = dated
    BY DEF Attr!Chmod
<1>2. /\ setattr \in [Mount -> {Attr!Unlocked} \cup Attr!CallType]
      /\ c \in Attr!CallType /\ dated \in BOOLEAN
      /\ Progress(c, attr, dated)
    BY <1>1, AttrCall
<1>3. CASE mode = VNOVAL /\ Attr!Goto(m, "utimes")
    <2> DEFINE d == [c EXCEPT !.pc = "utimes"]
    <2>1. /\ d \in Attr!CallType /\ d.pc = "utimes" /\ d.cred = c.cred
          /\ d.old = c.old /\ d.c = c.c
        BY <1>2 DEF Attr!CallType
    <2>2. setattr' = [setattr EXCEPT ![m] = d]
        BY <1>2, <1>3 DEF Attr!Goto, Attr!CallType
    <2> HIDE DEF d
    <2> QED
        BY <1>1, <2>1, <2>2, AttrPass
<1>4. CASE /\ mode # VNOVAL /\ Attr!VAdmin(attr, c.cred)
           /\ setattr' = [setattr EXCEPT ![m].pc = "mode", ![m].mode = mode]
    <2> DEFINE d == [c EXCEPT !.pc = "mode", !.mode = mode]
    <2>1. mode \in Attr!Mode
        BY <1>4 DEF Attr!NewMode, Attr!Mode
    <2>2. /\ d \in Attr!CallType /\ d.pc = "mode" /\ d.cred = c.cred
          /\ d.old = c.old /\ d.c = c.c /\ d.mode = mode
        BY <1>2, <2>1 DEF Attr!CallType
    <2>3. setattr' = [setattr EXCEPT ![m] = d]
        BY <1>2, <1>4 DEF Attr!CallType
    <2> HIDE DEF d
    <2> QED
        BY <1>1, <1>4, <2>1, <2>2, <2>3, AttrPass
<1>5. CASE ~Attr!VAdmin(attr, c.cred) /\ Attr!Return(m)
    <2>1. ~c.c /\ dated
        BY <1>1, <1>2, <1>5 DEF Progress, Attr!CallType
    <2> QED
        BY <1>1, <1>2, <1>5, <2>1, AttrReturn
<1> QED
    BY <1>3, <1>4, <1>5 DEF Attr!Chmod

(* The mode is set. *)
LEMMA AttrSetMode ==
    ASSUME NEW m \in Mount, Mount = {m}, AttrInv, Attr!SetMode(m)
    PROVE  AttrInv' /\ Attr!EndsWell(m)
<1> DEFINE c == setattr[m]
           d == [c EXCEPT !.pc = "utimes", !.c = TRUE]
<1>1. /\ c.pc = "mode" /\ attr' = [attr EXCEPT !.mode = c.mode]
      /\ dated' = FALSE
    BY DEF Attr!SetMode
<1>2. /\ setattr \in [Mount -> {Attr!Unlocked} \cup Attr!CallType]
      /\ c \in Attr!CallType /\ attr \in Attr!Attributes
      /\ MayDo(c, attr)
    BY <1>1, AttrCall
<1>3. c.mode \in Attr!Mode /\ Attr!VAdmin(attr, c.cred)
    BY <1>1, <1>2 DEF MayDo
<1>4. /\ attr' \in Attr!Attributes /\ attr'.uid = attr.uid
      /\ attr'.gid = attr.gid /\ attr'.time = attr.time
    BY <1>1, <1>2, <1>3 DEF Attr!Attributes
<1>5. /\ d \in Attr!CallType /\ d.pc = "utimes" /\ d.cred = c.cred
      /\ d.old = c.old /\ d.c = TRUE
    BY <1>2 DEF Attr!CallType
<1>6. setattr' = [setattr EXCEPT ![m] = d]
    BY <1>2 DEF Attr!SetMode, Attr!CallType
<1> HIDE DEF d
<1>7. Attr!VAdmin(c.old, c.cred)
    BY <1>2, <1>3, AttrAdmin
<1>8. Attr!VAdmin(attr', c.cred)
    BY <1>3, <1>4 DEF Attr!VAdmin
<1>9. MayDo(d, attr') /\ Progress(d, attr', dated')
    BY <1>2, <1>4, <1>5, <1>7, <1>8 DEF MayDo, Progress
<1> QED
    BY <1>1, <1>4, <1>5, <1>6, <1>9, AttrGo

(* The test of the times *)
LEMMA AttrUtimes ==
    ASSUME NEW m \in Mount, Mount = {m}, AttrInv,
           NEW time \in Stamp \cup {VNOVAL}, NEW null \in BOOLEAN,
           Attr!Utimes(m, time, null)
    PROVE  AttrInv' /\ Attr!EndsWell(m)
<1> DEFINE c == setattr[m]
           may == \/ Attr!VAdmin(attr, c.cred)
                  \/ null /\ Attr!VWrite(attr, c.cred)
<1>1. c.pc = "utimes" /\ attr' = attr /\ dated' = dated
    BY DEF Attr!Utimes
<1>2. /\ setattr \in [Mount -> {Attr!Unlocked} \cup Attr!CallType]
      /\ c \in Attr!CallType /\ dated \in BOOLEAN
      /\ MayDo(c, attr) /\ Progress(c, attr, dated)
    BY <1>1, AttrCall
<1>3. CASE time = VNOVAL /\ Attr!Goto(m, "ctime")
    <2> DEFINE d == [c EXCEPT !.pc = "ctime"]
    <2>1. /\ d \in Attr!CallType /\ d.pc = "ctime" /\ d.cred = c.cred
          /\ d.old = c.old /\ d.c = c.c
        BY <1>2 DEF Attr!CallType
    <2>2. setattr' = [setattr EXCEPT ![m] = d]
        BY <1>2, <1>3 DEF Attr!Goto, Attr!CallType
    <2> HIDE DEF d
    <2> QED
        BY <1>1, <2>1, <2>2, AttrPass
<1>4. CASE /\ time # VNOVAL /\ may
           /\ setattr' = [setattr EXCEPT ![m].pc = "time", ![m].time = time]
    <2> DEFINE d == [c EXCEPT !.pc = "time", !.time = time]
    <2>1. /\ d \in Attr!CallType /\ d.pc = "time" /\ d.cred = c.cred
          /\ d.old = c.old /\ d.c = c.c /\ d.time = time
        BY <1>2 DEF Attr!CallType
    <2>2. setattr' = [setattr EXCEPT ![m] = d]
        BY <1>2, <1>4 DEF Attr!CallType
    <2> HIDE DEF d
    <2>3. Attr!VAdmin(c.old, c.cred) \/ Attr!VWrite(c.old, c.cred)
        <3>1. CASE Attr!VAdmin(attr, c.cred)
            BY <1>2, <3>1, AttrAdmin
        <3>2. CASE ~Attr!VAdmin(attr, c.cred) /\ Attr!VWrite(attr, c.cred)
            <4>1. attr = c.old
                BY <1>1, <1>2, <3>2 DEF Progress
            <4> QED
                BY <3>2, <4>1
        <3> QED
            BY <1>4, <3>1, <3>2
    <2> QED
        BY <1>1, <1>4, <2>1, <2>2, <2>3, AttrPass
<1>5. CASE ~may /\ Attr!Return(m)
    <2>1. ~c.c /\ dated
        BY <1>1, <1>2, <1>5 DEF Progress, Attr!CallType
    <2> QED
        BY <1>1, <1>2, <1>5, <2>1, AttrReturn
<1> QED
    BY <1>3, <1>4, <1>5 DEF Attr!Utimes

(* The times are set. *)
LEMMA AttrSetTime ==
    ASSUME NEW m \in Mount, Mount = {m}, AttrInv, Attr!SetTime(m)
    PROVE  AttrInv' /\ Attr!EndsWell(m)
<1> DEFINE c == setattr[m]
           d == [c EXCEPT !.pc = "ctime", !.c = TRUE]
<1>1. /\ c.pc = "time" /\ attr' = [attr EXCEPT !.time = c.time]
      /\ dated' = FALSE
    BY DEF Attr!SetTime
<1>2. /\ setattr \in [Mount -> {Attr!Unlocked} \cup Attr!CallType]
      /\ c \in Attr!CallType /\ attr \in Attr!Attributes
      /\ MayDo(c, attr)
    BY <1>1, AttrCall
<1>3. /\ c.time \in Stamp
      /\ Attr!VAdmin(c.old, c.cred) \/ Attr!VWrite(c.old, c.cred)
    BY <1>1, <1>2 DEF MayDo
<1>4. /\ attr' \in Attr!Attributes /\ attr'.uid = attr.uid
      /\ attr'.gid = attr.gid /\ attr'.mode = attr.mode
    BY <1>1, <1>2, <1>3 DEF Attr!Attributes
<1>5. /\ d \in Attr!CallType /\ d.pc = "ctime" /\ d.cred = c.cred
      /\ d.old = c.old /\ d.c = TRUE
    BY <1>2 DEF Attr!CallType
<1>6. setattr' = [setattr EXCEPT ![m] = d]
    BY <1>2 DEF Attr!SetTime, Attr!CallType
<1> HIDE DEF d
<1>7. MayDo(d, attr') /\ Progress(d, attr', dated')
    BY <1>2, <1>3, <1>4, <1>5 DEF MayDo, Progress
<1> QED
    BY <1>1, <1>4, <1>5, <1>6, <1>7, AttrGo

(* A call that has changed something dates it. *)
LEMMA AttrSetCtime ==
    ASSUME NEW m \in Mount, Mount = {m}, AttrInv, Attr!SetCtime(m)
    PROVE  AttrInv' /\ Attr!EndsWell(m)
<1>1. /\ setattr[m].pc = "ctime" /\ Attr!Return(m) /\ attr' = attr
      /\ dated' = (dated \/ setattr[m].c)
    BY DEF Attr!SetCtime
<1>2. dated \in BOOLEAN /\ setattr[m].c \in BOOLEAN
      /\ Progress(setattr[m], attr, dated)
    BY <1>1, AttrCall DEF Attr!CallType
<1>3. dated' = TRUE
    BY Zenon, <1>1, <1>2 DEF Progress
<1> QED
    BY <1>1, <1>3, AttrReturn

(* For any users, groups, modes and times, on one mount: sgfs_setattr       *)
(* changes all that it was asked to or nothing, only what the caller is     *)
(* entitled to, and what it changes it dates.                               *)
THEOREM SetattrIsSafe == Cardinality(Mount) = 1 => (Attr!Spec => SetattrSafe)
<1> SUFFICES ASSUME Cardinality(Mount) = 1
             PROVE  Attr!Spec => SetattrSafe
    OBVIOUS
<1>1. PICK m \in Mount : Mount = {m}
    BY FiniteAssumption, FS_Singleton
<1>2. Attr!Init => AttrInv
    BY DEF Attr!Init, AttrInv, Attr!TypeOK, Attr!Attributes, Attr!Mode
<1>3. AttrInv /\ [Attr!Next]_Attr!vars
      => AttrInv' /\ (Attr!Next => Attr!EndsWell(m))
    <2>1. ASSUME AttrInv, Attr!Step(m)
          PROVE  AttrInv' /\ Attr!EndsWell(m)
        BY <1>1, <2>1, AttrBegin, AttrChown, AttrSetOwner, AttrChmod,
           AttrSetMode, AttrUtimes, AttrSetTime, AttrSetCtime DEF Attr!Step
    <2>2. ASSUME AttrInv, UNCHANGED Attr!vars
          PROVE  AttrInv'
        BY <2>2 DEF Attr!vars, AttrInv, Attr!TypeOK
    <2> QED
        BY <1>1, <2>1, <2>2 DEF Attr!Next
<1>4. AttrInv /\ [Attr!Next]_Attr!vars => [Attr!CallsEndWell]_Attr!vars
    BY <1>1, <1>3 DEF Attr!CallsEndWell
<1> QED
    BY <1>2, <1>3, <1>4, PTL DEF Attr!Spec, Attr!SetattrSafe, SetattrSafe
=============================================================================
