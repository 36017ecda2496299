\* Two threads in one mounted file system with two directories below the root;
\* two users and the superuser, two groups.
SPECIFICATION MCSpec
CONSTANTS
    Proc = {p1, p2}
    Mount = {m1}
    m2 = m2
    Name = {x}
    Op = {"walk", "dotdot", "mkdir", "rmdir", "readdir", "unmount"}
    Node = {root, a, b}
    Root = root
    Vnode = {v1, v2, v3, v4}
    NULL = NULL
    alice = alice
    bob = bob
    users = users
    staff = staff
    Uid = {alice, bob, su}
    Gid = {users, staff}
    GroupsOf <- MCGroupsOf
    Superuser = su
    Stamp = {1, 2}
    VNOVAL = VNOVAL
SYMMETRY MCSymmetry
INVARIANTS
    RefcountExact
    NodesSafe
    NamesAgree
    MountsAgree
PROPERTIES
    SetattrSafe
