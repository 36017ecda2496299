------------------------------ MODULE SgfsFull ------------------------------
(***************************************************************************)
(* The whole group file system: the tree of nodes and vnodes, Sgfs, and    *)
(* the attributes of a node, SgfsAttr, which no other call looks at.       *)
(***************************************************************************)
EXTENDS Sgfs

CONSTANTS Uid, Gid, GroupsOf, Superuser, Stamp, VNOVAL      \* of SgfsAttr

VARIABLES attr, dated, setattr

Attr == INSTANCE SgfsAttr

ASSUME AttrAssumption == Attr!AttrConstants

attr_vars == <<attr, dated, setattr>>

(* SgfsAttr: sgfs_setattr changes all or nothing, and only what the caller *)
(* is entitled to, in every combination of its parts.  The runs and the    *)
(* theorem show it for one mount.                                          *)
SetattrSafe == Attr!SetattrSafe
=============================================================================
