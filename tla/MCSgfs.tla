------------------------------- MODULE MCSgfs -------------------------------
(***************************************************************************)
(* Small instances of the group file system for TLC.  A behaviour shows    *)
(* one of four things: two threads in the tree, without readdir; one       *)
(* thread at a time, with readdir, which gives the file numbers; two       *)
(* threads that enter by two mounts, without ".." and vnlru, and with      *)
(* mkdir only in an empty file system, which move a second copy of the     *)
(* variables, Two; or the attributes of one node, SgfsAttr, which no other *)
(* call looks at.                                                          *)
(***************************************************************************)
EXTENDS SgfsFull

CONSTANT m2         \* the second mount

VARIABLES
    part,
    node2, number2, vnode2, cwd2, call2, cache2, panic2     \* of Two

Two == INSTANCE Sgfs
       WITH Mount <- Mount \cup {m2}, node <- node2, number <- number2,
            vnode <- vnode2, cwd <- cwd2, call <- call2, cache <- cache2,
            panic <- panic2

two_vars == <<node2, number2, vnode2, cwd2, call2, cache2, panic2>>
mc_vars == <<vars, two_vars, attr_vars, part>>

MCInit ==
    /\ part \in {"tree", "mounts", "numbers", "attr"}
    /\ Init
    /\ Two!Init
    /\ Attr!Init
    /\ part # "attr" =>
        attr = [uid |-> Superuser, gid |-> CHOOSE g \in Gid : TRUE,
                mode |-> {"u"}, time |-> 1]

FewDirectories ==
    \A p \in Proc :
        /\ call2'[p].op # "dotdot"
        /\ call2'[p].op = "mkdir" /\ call2[p].op # "mkdir" =>
            \A n \in Node \ {Root} : ~Two!Live(n)

Alone(p) == \A q \in Proc \ {p} : cwd[q] = NULL /\ call[q] = Idle

MCNext ==
    \/ /\ part = "tree"
       /\ (\E p \in Proc : Start(p) \/ Step(p)) \/ Kernel \/ Stopped
       /\ UNCHANGED <<two_vars, attr_vars, part>>
    \/ /\ part = "numbers"
       /\ \/ \E p \in Proc :
                /\ Alone(p)
                /\ Start(p) \/ Step(p) \/ sgfs_readdir(p)
          \/ Kernel
          \/ Stopped
       /\ UNCHANGED <<two_vars, attr_vars, part>>
    \/ /\ part = "mounts"
       /\ \/ \E p \in Proc : Two!Start(p) \/ Two!Step(p)
          \/ panic2 # "no" /\ UNCHANGED two_vars
       /\ FewDirectories
       /\ UNCHANGED <<vars, attr_vars, part>>
    \/ /\ part = "attr"
       /\ Attr!Next
       /\ UNCHANGED <<vars, two_vars, part>>

MCSpec == MCInit /\ [][MCNext]_mc_vars

(* RefcountExact and NodesSafe, of Sgfs, for threads that come in by two   *)
(* mounts: a directory has a vnode for each, and the locks of the two do   *)
(* not exclude each other (sgfs_mkdir, sgfs_rmdir, sgfs_allocv).           *)
MountsAgree == Two!RefcountExact /\ Two!NodesSafe

-----------------------------------------------------------------------------
CONSTANTS alice, bob, users, staff

(* Alice is in both groups, Bob in one. *)
MCGroupsOf == [u \in Uid |-> IF u = alice THEN {users, staff}
                             ELSE IF u = bob THEN {users} ELSE {}]

MCSymmetry == Permutations(Proc) \cup Permutations(Node \ {Root})
              \cup Permutations(Vnode)
=============================================================================
