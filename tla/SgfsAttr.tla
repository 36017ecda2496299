------------------------------ MODULE SgfsAttr ------------------------------
(***************************************************************************)
(* The attributes of a node of the group file system, sgfs.c: processes    *)
(* with different credentials change owner, group, mode and times of one   *)
(* node.  A call may change several of them and fail at the second.        *)
(*                                                                         *)
(* sgfs_setattr does not take fs->lock.  What is locked during a call is   *)
(* the vnode, and a node has one on every mount: a mount has one call at a *)
(* time, and the steps of calls on different mounts interleave.  A step is *)
(* a test, or what the code assigns when the test has passed.              *)
(***************************************************************************)
EXTENDS Integers, FiniteSets

CONSTANTS
    Mount,
    Uid, Gid,
    GroupsOf,           \* the groups that each user is a member of
    Superuser,          \* the user with privilege
    Stamp,              \* atime and mtime, taken together
    VNOVAL              \* an attribute that is not to be changed

AttrConstants ==
    /\ Superuser \in Uid /\ GroupsOf \in [Uid -> SUBSET Gid]
    /\ VNOVAL \notin Uid \cup Gid \cup Stamp

VARIABLES
    attr,               \* uid, gid, mode, time
    dated,              \* ctime is no older than the last change
    setattr             \* the call that has the vnode of a mount locked

vars == <<attr, dated, setattr>>

Unlocked == [pc |-> "none"]

(* The users that may write: u the owner, g the group, o the others *)
Mode == SUBSET {"u", "g", "o"}
NewMode == {VNOVAL, {"u", "g"}, {"u", "o"}}

-----------------------------------------------------------------------------
(* priv_check, and vaccess of VADMIN and VWRITE *)
Privileged(cred) == cred = Superuser

VAdmin(n, cred) == cred = n.uid \/ Privileged(cred)

VWrite(n, cred) ==
    \/ Privileged(cred)
    \/ IF cred = n.uid THEN "u" \in n.mode
       ELSE IF n.gid \in GroupsOf[cred] THEN "g" \in n.mode
       ELSE "o" \in n.mode

Given(new, old) == IF new = VNOVAL THEN old ELSE new

(* sgfs_create_node *)
Init ==
    /\ \E cred \in Uid, gid \in Gid, now \in Stamp :
        attr = [uid |-> cred, gid |-> gid, mode |-> {"u"}, time |-> now]
    /\ dated = TRUE
    /\ setattr = [m \in Mount |-> Unlocked]

(* sgfs_setattr.  A call that names an attribute that nobody can change is *)
(* refused before it begins.  What a part is to set is chosen when the     *)
(* call comes to that part.                                                *)

Goto(m, pc) == setattr' = [setattr EXCEPT ![m].pc = pc]
Return(m) == setattr' = [setattr EXCEPT ![m] = Unlocked]

(* The owner and group that are to be, read from the node where not given; *)
(* old is not in the code, it is the node as the call found it.            *)
Begin(m, cred, uid, gid) ==
    /\ setattr[m] = Unlocked
    /\ setattr' = [setattr EXCEPT ![m] =
                      [pc |-> "chown", cred |-> cred, old |-> attr,
                       uid |-> Given(uid, attr.uid),
                       gid |-> Given(gid, attr.gid),
                       mode |-> VNOVAL, time |-> VNOVAL, c |-> FALSE]]
    /\ UNCHANGED <<attr, dated>>

(* Mutant of MayChown: an owner may give the node away. *)
MayGiveAway(c) ==
    /\ VAdmin(attr, c.cred)
    /\ \/ /\ c.cred = attr.uid
          /\ c.gid = attr.gid \/ c.gid \in GroupsOf[c.cred]
       \/ Privileged(c.cred)

(* The owner gives it to one of his groups, and to no other user. *)
MayChown(c) ==
    /\ VAdmin(attr, c.cred)
    /\ \/ /\ c.cred = attr.uid /\ c.uid = attr.uid
          /\ c.gid = attr.gid \/ c.gid \in GroupsOf[c.cred]
       \/ Privileged(c.cred)

Chown(m) ==
    LET c == setattr[m]
        change == c.uid # attr.uid \/ c.gid # attr.gid
    IN  /\ c.pc = "chown"
        /\ \/ ~change /\ Goto(m, "chmod")
           \/ change /\ MayChown(c) /\ Goto(m, "owner")
           \/ change /\ ~MayChown(c) /\ Return(m)
        /\ UNCHANGED <<attr, dated>>

SetOwner(m) ==
    LET c == setattr[m]
    IN  /\ c.pc = "owner"
        /\ attr' = [attr EXCEPT !.uid = c.uid, !.gid = c.gid]
        /\ dated' = FALSE
        /\ setattr' = [setattr EXCEPT ![m].pc = "chmod", ![m].c = TRUE]

Chmod(m, mode) ==
    LET c == setattr[m]
    IN  /\ c.pc = "chmod"
        /\ \/ mode = VNOVAL /\ Goto(m, "utimes")
           \/ /\ mode # VNOVAL /\ VAdmin(attr, c.cred)
              /\ setattr' = [setattr EXCEPT ![m].pc = "mode", ![m].mode = mode]
           \/ mode # VNOVAL /\ ~VAdmin(attr, c.cred) /\ Return(m)
        /\ UNCHANGED <<attr, dated>>

SetMode(m) ==
    /\ setattr[m].pc = "mode"
    /\ attr' = [attr EXCEPT !.mode = setattr[m].mode]
    /\ dated' = FALSE
    /\ setattr' = [setattr EXCEPT ![m].pc = "utimes", ![m].c = TRUE]

(* null: utimes without times, which sets both to the present. *)
Utimes(m, time, null) ==
    LET c == setattr[m]
        may == VAdmin(attr, c.cred) \/ (null /\ VWrite(attr, c.cred))
    IN  /\ c.pc = "utimes"
        /\ \/ time = VNOVAL /\ Goto(m, "ctime")
           \/ /\ time # VNOVAL /\ may
              /\ setattr' = [setattr EXCEPT ![m].pc = "time", ![m].time = time]
           \/ time # VNOVAL /\ ~may /\ Return(m)
        /\ UNCHANGED <<attr, dated>>

SetTime(m) ==
    /\ setattr[m].pc = "time"
    /\ attr' = [attr EXCEPT !.time = setattr[m].time]
    /\ dated' = FALSE
    /\ setattr' = [setattr EXCEPT ![m].pc = "ctime", ![m].c = TRUE]

SetCtime(m) ==
    /\ setattr[m].pc = "ctime"
    /\ dated' = (dated \/ setattr[m].c)
    /\ Return(m)
    /\ UNCHANGED attr

-----------------------------------------------------------------------------
Step(m) ==
    \/ \E cred \in Uid, uid \in Uid \cup {VNOVAL}, gid \in Gid \cup {VNOVAL} :
        Begin(m, cred, uid, gid)
    \/ Chown(m) \/ SetOwner(m)
    \/ (\E mode \in NewMode : Chmod(m, mode)) \/ SetMode(m)
    \/ \E time \in Stamp \cup {VNOVAL}, null \in BOOLEAN : Utimes(m, time, null)
    \/ SetTime(m) \/ SetCtime(m)

Next == \E m \in Mount : Step(m)

Spec == Init /\ [][Next]_vars

-----------------------------------------------------------------------------
(* Properties *)

(* Every variable has its type. *)
Attributes == [uid : Uid, gid : Gid, mode : Mode, time : Stamp]
CallType == [pc : {"chown", "owner", "chmod", "mode", "utimes", "time",
                   "ctime"},
             cred : Uid, old : Attributes, uid : Uid, gid : Gid,
             mode : Mode \cup {VNOVAL}, time : Stamp \cup {VNOVAL},
             c : BOOLEAN]
TypeOK ==
    /\ attr \in Attributes
    /\ dated \in BOOLEAN
    /\ setattr \in [Mount -> {Unlocked} \cup CallType]

Ends(m) == setattr[m] # Unlocked /\ setattr'[m] = Unlocked

(* A call that fails has changed nothing, though its parts are checked one *)
(* after the other against a node that the earlier parts have changed.     *)
AllOrNothing(c) == c.pc # "ctime" => attr' = c.old

(* Through no combination of parts does a user without privilege get or    *)
(* give away a node, change the mode of another's, or the times of one he  *)
(* can neither administer nor write.                                       *)
Entitled(c) ==
    /\ attr'.uid # c.old.uid => Privileged(c.cred)
    /\ attr'.mode # c.old.mode \/ attr'.gid # c.old.gid => VAdmin(c.old, c.cred)
    /\ attr'.time # c.old.time => VAdmin(c.old, c.cred) \/ VWrite(c.old, c.cred)

(* sgfs_setattr changes all that it was asked to or nothing, only what the *)
(* caller is entitled to, and what it changes it dates.                    *)
EndsWell(m) ==
    Ends(m) => AllOrNothing(setattr[m]) /\ Entitled(setattr[m]) /\ dated'
CallsEndWell == \A m \in Mount : EndsWell(m)

SetattrSafe == [][CallsEndWell]_vars
=============================================================================
