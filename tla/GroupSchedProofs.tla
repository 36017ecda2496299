-------------------------- MODULE GroupSchedProofs ---------------------------
(***************************************************************************)
(* The walks of pss.c over the hierarchy of groups keep its levels in      *)
(* agreement, for every finite hierarchy, every set of threads and every   *)
(* setting of the granularities, as long as no shares are set to 0.        *)
(*                                                                         *)
(* HierarchyInv holds between calls only.  A walk breaks it at the level   *)
(* where it is and mends it one level up, so each walk has its own         *)
(* invariant, by the position it has reached (StepByStep); Sound is what   *)
(* every step of every walk keeps, Nested(s, X) what holds of the groups   *)
(* outside of X.                                                           *)
(***************************************************************************)
EXTENDS GroupSched, QueueProofs

-----------------------------------------------------------------------------
(* Walks *)

(* The types of what an entity hangs from. *)
LEMMA ParentTypes ==
    ASSUME NEW s, s.group \in [Thread -> Queue], NEW e \in Entity
    PROVE  /\ Sfq(s, e) \in Queue
           /\ ParentEntity(s, e) \in Group \cup {NULL}
           /\ ParentEntity(s, e) = NULL <=> Sfq(s, e) = Root
           /\ ParentEntity(s, e) # NULL => ParentEntity(s, e) = Sfq(s, e)
    BY GroupAssumption DEF Entity, Queue, Sfq, ParentEntity

(* Following sg->parent downwards, no group is met twice, so that there    *)
(* are no more steps than groups.                                          *)
LEMMA PathsAreShort ==
    ASSUME NEW n \in Nat, NEW f \in [1 .. n -> Group],
           \A i \in 1 .. n - 1 : Parent[f[i + 1]] = f[i]
    PROVE  /\ \A i, j \in 1 .. n : f[i] = f[j] => i = j
           /\ n <= Cardinality(Group)
<1>1. ASSUME NEW i \in 1 .. n, NEW j \in 1 .. n, f[i] = f[j], i < j
      PROVE  FALSE
    <2> DEFINE S == {f[m] : m \in i + 1 .. j}
    <2>1. S \in SUBSET Group /\ f[j] \in S
        BY <1>1
    <2>2. PICK g \in S : Parent[g] \notin S
        BY <2>1, GroupAssumption, Zenon
    <2>3. PICK m \in i + 1 .. j : g = f[m]
        BY <2>2
    <2>4. m - 1 \in 1 .. n - 1 /\ (m - 1) + 1 = m
        BY <1>1, <2>3
    <2>5. Parent[g] = f[m - 1]
        BY <2>3, <2>4
    <2>6. m - 1 = i \/ m - 1 \in i + 1 .. j
        BY <2>3
    <2>7. f[m - 1] \in S
        BY <1>1, <2>1, <2>6
    <2> QED
        BY <2>2, <2>5, <2>7
<1>2. \A i, j \in 1 .. n : f[i] = f[j] => i = j
    <2> SUFFICES ASSUME NEW i \in 1 .. n, NEW j \in 1 .. n, f[i] = f[j]
                 PROVE  i = j
        OBVIOUS
    <2>1. ~ (i < j) /\ ~ (j < i)
        BY <1>1
    <2> QED
        BY <2>1
<1>3. n <= Cardinality(Group)
    <2>1. f \in Injection(1 .. n, Group)
        BY <1>2 DEF Injection, IsInjective
    <2>2. Cardinality(1 .. n) <= Cardinality(Group)
        BY <2>1, FS_Injection, GroupAssumption, Zenon
    <2>3. Cardinality(1 .. n) = n
        BY FS_Interval
    <2> QED
        BY <2>2, <2>3
<1> QED
    BY <1>2, <1>3

(* A walk from e to the root queue *)
Climbs(s, e, w) ==
    /\ w \in Seq(Entity) /\ Len(w) >= 1 /\ w[1] = e
    /\ \A i \in 1 .. Len(w) - 1 :
        w[i + 1] \in Group /\ ParentEntity(s, w[i]) = w[i + 1]

IsWalk(s, e, w) == Climbs(s, e, w) /\ ParentEntity(s, w[Len(w)]) = NULL

(* A walk that goes on has met another group at every step. *)
LEMMA WalkIsShort ==
    ASSUME NEW s, s.group \in [Thread -> Queue], NEW e \in Entity,
           NEW w, Climbs(s, e, w)
    PROVE  /\ Len(w) - 1 <= Cardinality(Group)
           /\ \A i, j \in 2 .. Len(w) : w[i] = w[j] => i = j
           /\ ParentEntity(s, w[Len(w)]) # NULL => Len(w) <= Cardinality(Group)
<1> DEFINE n == Len(w)
           f == [i \in 1 .. n - 1 |-> w[n + 1 - i]]
           p == ParentEntity(s, w[n])
           h == [i \in 1 .. n |-> IF i = 1 THEN p ELSE w[n + 2 - i]]
<1>0. n \in Nat /\ n >= 1 /\ w \in Seq(Entity)
    BY DEF Climbs
<1>1. ASSUME NEW i \in 2 .. n PROVE w[i] \in Group
    <2>1. i - 1 \in 1 .. n - 1 /\ (i - 1) + 1 = i
        BY <1>0
    <2> QED
        BY <2>1 DEF Climbs
<1>2. ASSUME NEW i \in 2 .. n - 1 PROVE Parent[w[i]] = w[i + 1]
    <2>1. i \in 1 .. n - 1 /\ i \in 2 .. n
        BY <1>0
    <2>2. w[i] \in Group /\ ParentEntity(s, w[i]) = w[i + 1] /\ w[i + 1] # NULL
        BY <1>1, <2>1, GroupAssumption DEF Climbs
    <2>3. Sfq(s, w[i]) = w[i + 1]
        BY <2>2 DEF ParentEntity
    <2> QED
        BY <2>2, <2>3, GroupAssumption DEF Sfq
<1>3. /\ \A i, j \in 1 .. n - 1 : f[i] = f[j] => i = j
      /\ n - 1 <= Cardinality(Group)
    <2>1. f \in [1 .. n - 1 -> Group]
        <3>1. \A i \in 1 .. n - 1 : n + 1 - i \in 2 .. n
            BY <1>0
        <3> QED
            BY <1>1, <3>1
    <2>2. ASSUME NEW i \in 1 .. (n - 1) - 1 PROVE Parent[f[i + 1]] = f[i]
        <3>1. /\ n - i \in 2 .. n - 1 /\ (n - i) + 1 = n + 1 - i
              /\ n + 1 - (i + 1) = n - i
              /\ i \in 1 .. n - 1 /\ i + 1 \in 1 .. n - 1
            BY <1>0
        <3>2. f[i] = w[n + 1 - i] /\ f[i + 1] = w[n - i]
            BY <3>1
        <3>3. Parent[w[n - i]] = w[n + 1 - i]
            BY <1>2, <3>1
        <3> QED
            BY <3>2, <3>3
    <2>3. n - 1 \in Nat
        BY <1>0
    <2> HIDE DEF f, n
    <2> QED
        BY <2>1, <2>2, <2>3, PathsAreShort
<1>4. ASSUME NEW i \in 2 .. n, NEW j \in 2 .. n, w[i] = w[j] PROVE i = j
    <2>1. /\ n + 1 - i \in 1 .. n - 1 /\ n + 1 - j \in 1 .. n - 1
          /\ n + 1 - (n + 1 - i) = i /\ n + 1 - (n + 1 - j) = j
        BY <1>0
    <2>2. f[n + 1 - i] = w[i] /\ f[n + 1 - j] = w[j]
        BY <2>1
    <2>3. n + 1 - i = n + 1 - j
        BY <1>3, <1>4, <2>1, <2>2
    <2> QED
        BY <1>0, <2>3
<1>5. ASSUME p # NULL PROVE n <= Cardinality(Group)
    <2>1. w[n] \in Entity
        BY <1>0
    <2>2. p \in Group /\ p = Sfq(s, w[n])
        BY <1>5, <2>1, ParentTypes
    <2>3. h \in [1 .. n -> Group]
        <3>1. \A i \in 2 .. n : n + 2 - i \in 2 .. n
            BY <1>0
        <3> QED
            BY <1>1, <2>2, <3>1
    <2>4. ASSUME NEW i \in 1 .. n - 1 PROVE Parent[h[i + 1]] = h[i]
        <3>1. /\ h[i + 1] = w[n + 1 - i] /\ n + 1 - i \in 2 .. n
              /\ h[i] = IF i = 1 THEN p ELSE w[n + 2 - i]
            <4>1. /\ i \in 1 .. n /\ i + 1 \in 1 .. n /\ i + 1 # 1
                  /\ n + 2 - (i + 1) = n + 1 - i /\ n + 1 - i \in 2 .. n
                BY <1>0
            <4> HIDE DEF n, p
            <4> QED
                BY <4>1
        <3>2. CASE i = 1
            <4>1. w[n] \in Group /\ n + 1 - i = n
                BY <1>0, <1>1, <3>2
            <4>2. Sfq(s, w[n]) = Parent[w[n]]
                BY <4>1, GroupAssumption DEF Sfq
            <4> QED
                BY <2>2, <3>1, <3>2, <4>1, <4>2
        <3>3. CASE i # 1
            <4>1. n + 1 - i \in 2 .. n - 1 /\ (n + 1 - i) + 1 = n + 2 - i
                BY <1>0, <3>3
            <4> QED
                BY <1>2, <3>1, <3>3, <4>1
        <3> QED
            BY <3>2, <3>3
    <2> HIDE DEF h, p, n
    <2> QED
        BY <1>0, <2>3, <2>4, PathsAreShort
<1> QED
    BY <1>3, <1>4, <1>5

(* WALKUP_SCHED_ENTITY takes one step after the other. *)
LEMMA WalkupSteps ==
    ASSUME NEW s, NEW e
    PROVE  \E u :
            /\ u[0] = <<e>>
            /\ \A k \in 1 .. Cardinality(Group) :
                u[k] = LET p == ParentEntity(s, Last(u[k - 1]))
                       IN  IF p = NULL THEN u[k - 1] ELSE Append(u[k - 1], p)
            /\ Walkup(s, e) = u[Cardinality(Group)]
<1> DEFINE N == Cardinality(Group)
           Step(v) == LET p == ParentEntity(s, Last(v))
                      IN  IF p = NULL THEN v ELSE Append(v, p)
           F(n, g) == g = [k \in 0 .. n |-> IF k = 0 THEN <<e>>
                                            ELSE Step(g[k - 1])]
           S == {n \in 0 .. N : \E g : F(n, g)}
           up == CHOOSE g : F(N, g)
<1>0. N \in Nat
    BY GroupAssumption, FS_CardinalityType
<1> HIDE DEF Step
<1>1. 0 \in S
    <2>1. F(0, [k \in 0 .. 0 |-> <<e>>])
        OBVIOUS
    <2> HIDE DEF F
    <2> QED
        BY <1>0, <2>1
<1>2. ASSUME NEW n \in 1 .. N, n - 1 \in S PROVE n \in S
    <2>1. PICK g : F(n - 1, g)
        BY <1>2, Zenon
    <2> DEFINE h == [k \in 0 .. n |-> IF k = n THEN Step(g[n - 1]) ELSE g[k]]
    <2>2. ASSUME NEW k \in 0 .. n
          PROVE  h[k] = IF k = 0 THEN <<e>> ELSE Step(h[k - 1])
        <3>1. CASE k = n
            <4>1. n - 1 \in 0 .. n /\ n - 1 # n /\ n # 0
                BY <1>0
            <4> QED
                BY <3>1, <4>1
        <3>2. CASE k # n
            <4>1. k \in 0 .. n - 1 /\ h[k] = g[k]
                BY <1>0, <3>2
            <4>2. k # 0 => k - 1 \in 0 .. n /\ k - 1 # n
                BY <1>0, <3>2
            <4>3. k # 0 => h[k - 1] = g[k - 1]
                BY <4>2
            <4> HIDE DEF h
            <4> QED
                BY <2>1, <4>1, <4>3
        <3> QED
            BY <3>1, <3>2
    <2>3. F(n, h)
        <3>1. h = [k \in 0 .. n |-> h[k]]
            OBVIOUS
        <3> HIDE DEF h
        <3> QED
            BY <2>2, <3>1, Zenon
    <2> HIDE DEF F, h
    <2> QED
        BY <1>0, <2>3
<1>3. \E g : F(N, g)
    <2> HIDE DEF F
    <2>1. \A k \in 0 .. N : k \in S
        <3> HIDE DEF S
        <3> QED
            BY <1>0, <1>1, <1>2, StepByStep
    <2> QED
        BY <1>0, <2>1
<1>4. F(N, up)
    BY <1>3, Zenon
<1>5. Walkup(s, e) = up[N]
    BY Zenon DEF Walkup, Step
<1>6. up[0] = <<e>> /\ \A k \in 1 .. N : up[k] = Step(up[k - 1])
    <2> HIDE DEF up
    <2> QED
        BY <1>0, <1>4
<1> HIDE DEF up
<1> QED
    BY <1>5, <1>6 DEF Step

(* WALKUP_SCHED_ENTITY ends at the root queue. *)
LEMMA WalkupIsWalk ==
    ASSUME NEW s, s.group \in [Thread -> Queue], NEW e \in Entity
    PROVE  IsWalk(s, e, Walkup(s, e))
<1> DEFINE N == Cardinality(Group)
<1>0. N \in Nat
    BY GroupAssumption, FS_CardinalityType
<1>1. PICK u :
        /\ u[0] = <<e>>
        /\ \A k \in 1 .. N :
            u[k] = LET p == ParentEntity(s, Last(u[k - 1]))
                   IN  IF p = NULL THEN u[k - 1] ELSE Append(u[k - 1], p)
        /\ Walkup(s, e) = u[N]
    BY WalkupSteps
<1> DEFINE P(k) == /\ Climbs(s, e, u[k])
                   /\ ParentEntity(s, u[k][Len(u[k])]) = NULL
                      \/ Len(u[k]) = k + 1
           S == {k \in 0 .. N : P(k)}
<1>2. 0 \in S
    <2>1. /\ <<e>> \in Seq(Entity) /\ Len(<<e>>) = 1 /\ <<e>>[1] = e
          /\ 0 + 1 = 1 /\ 1 >= 1 /\ 1 .. 1 - 1 = {}
        OBVIOUS
    <2>2. P(0)
        BY <1>1, <2>1 DEF Climbs
    <2> QED
        BY <1>0, <2>2
<1>3. ASSUME NEW k \in 1 .. N, k - 1 \in S PROVE k \in S
    <2> DEFINE v == u[k - 1]
               n == Len(v)
               p == ParentEntity(s, v[n])
    <2>1. /\ Climbs(s, e, v)
          /\ p = NULL \/ n = (k - 1) + 1
        BY <1>3
    <2>2. v \in Seq(Entity) /\ n \in Nat /\ n >= 1 /\ v[n] \in Entity
        BY <2>1 DEF Climbs
    <2>3. Last(v) = v[n]
        BY DEF Last
    <2>4. u[k] = IF p = NULL THEN v ELSE Append(v, p)
        BY <1>1, <2>3
    <2>5. CASE p = NULL
        <3>1. u[k] = v
            BY <2>4, <2>5
        <3> QED
            BY <2>1, <2>5, <3>1
    <2>6. CASE p # NULL
        <3> DEFINE x == Append(v, p)
        <3>1. p \in Group
            BY <2>2, <2>6, ParentTypes
        <3>2. /\ x \in Seq(Entity) /\ Len(x) = n + 1
              /\ \A i \in 1 .. n : x[i] = v[i]
              /\ x[n + 1] = p
            BY <2>2, <3>1 DEF Entity
        <3>3. ASSUME NEW i \in 1 .. Len(x) - 1
              PROVE  x[i + 1] \in Group /\ ParentEntity(s, x[i]) = x[i + 1]
            <4> HIDE DEF x
            <4>1. i \in 1 .. n /\ x[i] = v[i]
                BY <2>2, <3>2
            <4>2. CASE i = n
                BY <3>1, <3>2, <4>1, <4>2
            <4>3. CASE i # n
                <5>1. i \in 1 .. n - 1 /\ i + 1 \in 1 .. n
                    BY <2>2, <4>1, <4>3
                <5>2. x[i + 1] = v[i + 1]
                    BY <3>2, <5>1
                <5>3. v[i + 1] \in Group /\ ParentEntity(s, v[i]) = v[i + 1]
                    BY <2>1, <5>1 DEF Climbs
                <5> QED
                    BY <4>1, <5>2, <5>3
            <4> QED
                BY <4>2, <4>3
        <3>4. x[1] = e /\ Len(x) >= 1 /\ Len(x) = k + 1
            <4>1. n = k /\ n \in Nat /\ n >= 1 /\ v[1] = e
                BY <2>1, <2>2, <2>6 DEF Climbs
            <4> HIDE DEF x, v, n
            <4> QED
                BY <3>2, <4>1
        <3>5. u[k] = x
            BY <2>4, <2>6
        <3> HIDE DEF x
        <3>6. Climbs(s, e, x)
            BY <3>2, <3>3, <3>4 DEF Climbs
        <3>7. P(k)
            BY <3>4, <3>5, <3>6, Zenon
        <3>8. k \in 0 .. N
            BY <1>0
        <3> HIDE DEF P
        <3> QED
            BY <3>7, <3>8
    <2> QED
        BY <2>5, <2>6
<1>4. \A k \in 0 .. N : k \in S
    <2> HIDE DEF S, N
    <2> QED
        BY <1>0, <1>2, <1>3, StepByStep
<1>5. P(N)
    BY <1>0, <1>4
<1>6. ASSUME ParentEntity(s, u[N][Len(u[N])]) # NULL PROVE FALSE
    <2>1. Len(u[N]) = N + 1
        BY <1>5, <1>6
    <2>2. Len(u[N]) <= N
        BY <1>5, <1>6, WalkIsShort
    <2> QED
        BY <1>0, <2>1, <2>2
<1> QED
    BY <1>1, <1>5, <1>6 DEF IsWalk

(* The entities of a walk: the entity and its ancestors *)
Path(s, e) == ToSet(Walkup(s, e))

(* No two of them are in the same queue, and all but the first are groups. *)
LEMMA WalkupLevels ==
    ASSUME NEW s, s.group \in [Thread -> Queue], NEW e \in Entity
    PROVE  LET w == Walkup(s, e)
           IN  /\ IsWalk(s, e, w)
               /\ \A i \in 2 .. Len(w) : w[i] \in Group
               /\ \A i, j \in 1 .. Len(w) :
                    Sfq(s, w[i]) = Sfq(s, w[j]) => i = j
<1> DEFINE w == Walkup(s, e)
           n == Len(w)
<1>1. /\ IsWalk(s, e, w) /\ Climbs(s, e, w)
      /\ ParentEntity(s, w[n]) = NULL
    BY WalkupIsWalk DEF IsWalk
<1> HIDE DEF w
<1>2. n \in Nat /\ n >= 1 /\ w \in Seq(Entity)
    BY <1>1 DEF Climbs
<1>3. ASSUME NEW i \in 2 .. n PROVE w[i] \in Group
    <2>1. i - 1 \in 1 .. n - 1 /\ (i - 1) + 1 = i
        BY <1>2
    <2> QED
        BY <1>1, <2>1 DEF Climbs
<1>4. \A i, j \in 2 .. n : w[i] = w[j] => i = j
    BY <1>1, WalkIsShort
<1>5. ASSUME NEW i \in 1 .. n, NEW j \in 1 .. n, i < j,
             Sfq(s, w[i]) = Sfq(s, w[j])
      PROVE  FALSE
    <2>1. w[i] \in Entity /\ w[j] \in Entity /\ i \in 1 .. n - 1
        BY <1>2, <1>5
    <2>2. w[i + 1] \in Group /\ ParentEntity(s, w[i]) = w[i + 1]
        BY <1>1, <2>1 DEF Climbs
    <2>3. ParentEntity(s, w[j]) = ParentEntity(s, w[i])
        BY <1>5 DEF ParentEntity
    <2>4. w[i + 1] # NULL
        BY <2>2, GroupAssumption
    <2>5. j # n
        BY <1>1, <2>2, <2>3, <2>4
    <2>6. j \in 1 .. n - 1
        BY <1>2, <2>5
    <2>7. ParentEntity(s, w[j]) = w[j + 1]
        BY <1>1, <2>6 DEF Climbs
    <2>8. /\ w[i + 1] = w[j + 1]
          /\ i + 1 \in 2 .. n /\ j + 1 \in 2 .. n
        BY <1>2, <2>1, <2>2, <2>3, <2>6, <2>7
    <2>9. i + 1 = j + 1
        BY <1>4, <2>8
    <2> QED
        BY <1>5, <2>9
<1>6. ASSUME NEW i \in 1 .. n, NEW j \in 1 .. n, Sfq(s, w[i]) = Sfq(s, w[j])
      PROVE  i = j
    <2>1. ~ (i < j) /\ ~ (j < i)
        BY <1>5, <1>6
    <2> QED
        BY <1>2, <2>1
<1> QED
    BY <1>1, <1>3, <1>6 DEF w

(* A path leads from the entity to the root queue, and is no more than     *)
(* that: what has the entity and the parents of its members has the path.  *)
LEMMA PathProperties ==
    ASSUME NEW s, s.group \in [Thread -> Queue], NEW e \in Entity
    PROVE  /\ Path(s, e) \subseteq Entity /\ e \in Path(s, e)
           /\ \A f \in Path(s, e) : f \in Group \/ f = e
           /\ \A f \in Path(s, e) :
                ParentEntity(s, f) # NULL => ParentEntity(s, f) \in Path(s, e)
           /\ \E f \in Path(s, e) : Sfq(s, f) = Root
           /\ \A f, g \in Path(s, e) : Sfq(s, f) = Sfq(s, g) => f = g
<1> DEFINE w == Walkup(s, e)
           n == Len(w)
<1>1. /\ Climbs(s, e, w)
      /\ ParentEntity(s, w[n]) = NULL
      /\ \A i \in 2 .. n : w[i] \in Group
      /\ \A i, j \in 1 .. n : Sfq(s, w[i]) = Sfq(s, w[j]) => i = j
    BY WalkupLevels DEF IsWalk
<1> HIDE DEF w
<1>2. n \in Nat /\ n >= 1 /\ w \in Seq(Entity) /\ w[1] = e
    BY <1>1 DEF Climbs
<1>3. \A f : f \in Path(s, e) <=> \E i \in 1 .. n : w[i] = f
    BY <1>2, ToSetMember DEF Path, w
<1>4. Path(s, e) \subseteq Entity /\ e \in Path(s, e)
    BY <1>2, <1>3
<1>5. \A f \in Path(s, e) : f \in Group \/ f = e
    <2> SUFFICES ASSUME NEW i \in 1 .. n PROVE w[i] \in Group \/ w[i] = e
        BY <1>3
    <2>1. i = 1 \/ i \in 2 .. n
        BY <1>2
    <2> QED
        BY <1>1, <1>2, <2>1
<1>6. ASSUME NEW f \in Path(s, e), ParentEntity(s, f) # NULL
      PROVE  ParentEntity(s, f) \in Path(s, e)
    <2>1. PICK i \in 1 .. n : w[i] = f
        BY <1>3
    <2>2. i \in 1 .. n - 1 /\ i + 1 \in 1 .. n
        BY <1>1, <1>2, <1>6, <2>1
    <2>3. ParentEntity(s, f) = w[i + 1]
        BY <1>1, <2>1, <2>2 DEF Climbs
    <2> QED
        BY <1>3, <2>2, <2>3
<1>7. \E f \in Path(s, e) : Sfq(s, f) = Root
    <2>1. n \in 1 .. n /\ w[n] \in Path(s, e) /\ w[n] \in Entity
        BY <1>2, <1>3
    <2> QED
        BY <1>1, <2>1, ParentTypes
<1>8. \A f, g \in Path(s, e) : Sfq(s, f) = Sfq(s, g) => f = g
    BY <1>1, <1>3
<1> QED
    BY <1>4, <1>5, <1>6, <1>7, <1>8

(* It is the least such set. *)
LEMMA PathIsLeast ==
    ASSUME NEW s, s.group \in [Thread -> Queue], NEW e \in Entity,
           NEW S, e \in S,
           \A f \in S \cap Entity :
                ParentEntity(s, f) # NULL => ParentEntity(s, f) \in S
    PROVE  Path(s, e) \subseteq S
<1> DEFINE w == Walkup(s, e)
           n == Len(w)
           T == {k \in 0 .. n - 1 : w[k + 1] \in S}
<1>1. Climbs(s, e, w)
    BY WalkupIsWalk DEF IsWalk
<1> HIDE DEF w
<1>2. n \in Nat /\ n >= 1 /\ w \in Seq(Entity) /\ w[1] = e /\ n - 1 \in Nat
    BY <1>1 DEF Climbs
<1>3. 0 \in T
    BY <1>2
<1>4. ASSUME NEW k \in 1 .. n - 1, k - 1 \in T PROVE k \in T
    <2>1. w[k] \in S /\ w[k] \in Entity
        BY <1>2, <1>4
    <2>2. w[k + 1] \in Group /\ ParentEntity(s, w[k]) = w[k + 1]
        BY <1>1 DEF Climbs
    <2>3. w[k + 1] # NULL
        BY <2>2, GroupAssumption
    <2>4. w[k + 1] \in S
        BY <2>1, <2>2, <2>3
    <2> QED
        BY <1>2, <2>4
<1>5. \A k \in 0 .. n - 1 : k \in T
    <2> HIDE DEF T, n
    <2> QED
        BY <1>2, <1>3, <1>4, StepByStep
<1>6. ASSUME NEW i \in 1 .. n PROVE w[i] \in S
    <2>1. i - 1 \in 0 .. n - 1 /\ (i - 1) + 1 = i
        BY <1>2
    <2>2. i - 1 \in T
        BY <1>5, <2>1
    <2> QED
        BY <2>1, <2>2
<1>7. \A f : f \in Path(s, e) <=> \E i \in 1 .. n : w[i] = f
    BY <1>2, ToSetMember DEF Path, w
<1> QED
    BY <1>6, <1>7

(* A path depends on the group of its thread only. *)
LEMMA PathFrame ==
    ASSUME NEW s, s.group \in [Thread -> Queue],
           NEW z, z.group \in [Thread -> Queue], NEW e \in Entity,
           e \in Thread => z.group[e] = s.group[e]
    PROVE  Path(z, e) = Path(s, e)
<1>1. ASSUME NEW f, f \in Group \/ f = e
      PROVE  ParentEntity(z, f) = ParentEntity(s, f)
    BY <1>1, GroupAssumption DEF ParentEntity, Sfq, Entity
<1>2. Path(z, e) \subseteq Path(s, e)
    <2>1. \A f \in Path(s, e) : ParentEntity(z, f) = ParentEntity(s, f)
        BY <1>1, PathProperties
    <2>2. /\ e \in Path(s, e)
          /\ \A f \in Path(s, e) \cap Entity :
                ParentEntity(z, f) # NULL => ParentEntity(z, f) \in Path(s, e)
        BY <2>1, PathProperties
    <2> QED
        BY <2>2, PathIsLeast
<1>3. Path(s, e) \subseteq Path(z, e)
    <2>1. \A f \in Path(z, e) : ParentEntity(z, f) = ParentEntity(s, f)
        BY <1>1, PathProperties
    <2>2. /\ e \in Path(z, e)
          /\ \A f \in Path(z, e) \cap Entity :
                ParentEntity(s, f) # NULL => ParentEntity(s, f) \in Path(z, e)
        BY <2>1, PathProperties
    <2> QED
        BY <2>2, PathIsLeast
<1> QED
    BY <1>2, <1>3

-----------------------------------------------------------------------------
(* The operations that walk, one step after the other *)

SliceStep(s, slice, f) ==
    ScaleByWeight(slice, s.weight[f],
                  IF f \in s.joined THEN s.load[Sfq(s, f)]
                  ELSE s.load[Sfq(s, f)] + s.weight[f])

(* sched_slice *)
LEMMA SchedSliceSteps ==
    ASSUME NEW s, s.group \in [Thread -> Queue], NEW e \in Entity
    PROVE  LET w == Walkup(s, e)
           IN  \E z : /\ z[0] = SchedPeriod(s.nr[Sfq(s, e)])
                      /\ \A k \in 1 .. Len(w) :
                            z[k] = SliceStep(s, z[k - 1], w[k])
                      /\ SchedSlice(s, e) = z[Len(w)]
<1> DEFINE w == Walkup(s, e)
           b == SchedPeriod(s.nr[Sfq(s, e)])
           Do(x, y) == SliceStep(s, x, y)
           F(n, g) == g = [d \in SUBSET (1 .. n) |->
                              IF d = {} THEN b
                              ELSE Do(g[d \ {Max(d)}], w[Max(d)])]
           S == {n \in 0 .. Len(w) : \E g : F(n, g)}
           iter == CHOOSE g : F(Len(w), g)
           z == [k \in 0 .. Len(w) |-> iter[1 .. k]]
<1>a. Len(w) \in Nat /\ DOMAIN w = 1 .. Len(w)
    BY WalkupIsWalk DEF IsWalk, Climbs
<1>b. SchedSlice(s, e) = iter[DOMAIN w]
    BY <1>a, Zenon DEF SchedSlice, FoldLeft, MapThenFoldSet, SliceStep
<1> HIDE DEF w, b, Do
<1> DEFINE N == Len(w)
<1>0. N \in Nat /\ DOMAIN w = 1 .. N
    BY <1>a
<1>1. 0 \in S
    <2>1. F(0, [d \in SUBSET (1 .. 0) |-> b])
        OBVIOUS
    <2> HIDE DEF F
    <2> QED
        BY <1>0, <2>1
<1>2. ASSUME NEW n \in 1 .. N, n - 1 \in S PROVE n \in S
    <2>1. PICK g : F(n - 1, g)
        BY <1>2, Zenon
    <2> DEFINE h == [d \in SUBSET (1 .. n) |->
                        IF n \in d THEN Do(g[d \ {n}], w[n]) ELSE g[d]]
    <2>2. ASSUME NEW d \in SUBSET (1 .. n)
          PROVE  h[d] = IF d = {} THEN b
                        ELSE Do(h[d \ {Max(d)}], w[Max(d)])
        <3>1. CASE n \in d
            <4>1. Max(d) = n
                BY <1>0, <3>1, MaxIsLast
            <4>2. d \ {n} \in SUBSET (1 .. n) /\ n \notin d \ {n}
                BY <3>1
            <4>3. h[d \ {n}] = g[d \ {n}]
                BY <4>2
            <4>4. h[d] = Do(g[d \ {n}], w[n])
                BY <3>1
            <4> HIDE DEF h
            <4> QED
                BY <3>1, <4>1, <4>3, <4>4
        <3>2. CASE n \notin d
            <4>1. d \in SUBSET (1 .. n - 1)
                BY <1>0, <3>2
            <4>2. h[d] = g[d]
                BY <3>2
            <4>3. h[d \ {Max(d)}] = g[d \ {Max(d)}]
                BY <3>2
            <4> HIDE DEF h
            <4> QED
                BY <2>1, <4>1, <4>2, <4>3
        <3> QED
            BY <3>1, <3>2
    <2>3. F(n, h)
        <3>1. h = [d \in SUBSET (1 .. n) |-> h[d]]
            OBVIOUS
        <3> HIDE DEF h
        <3> QED
            BY <2>2, <3>1, Zenon
    <2> HIDE DEF F, h
    <2> QED
        BY <1>0, <2>3
<1>3. \E g : F(N, g)
    <2> HIDE DEF F
    <2>1. \A k \in 0 .. N : k \in S
        <3> HIDE DEF S, N
        <3> QED
            BY <1>0, <1>1, <1>2, StepByStep
    <2> QED
        BY <1>0, <2>1
<1>4. F(N, iter)
    BY <1>3, Zenon
<1>5. z[0] = b
    <2>1. 1 .. 0 = {} /\ 0 \in 0 .. N
        BY <1>0
    <2>2. iter[{}] = b
        BY <1>4
    <2> QED
        BY <2>1, <2>2
<1>6. ASSUME NEW k \in 1 .. N PROVE z[k] = Do(z[k - 1], w[k])
    <2>1. z[k] = iter[1 .. k] /\ z[k - 1] = iter[1 .. k - 1]
        BY <1>0
    <2> HIDE DEF iter, N
    <2>2. /\ 1 .. k \in SUBSET (1 .. N) /\ 1 .. k # {}
          /\ (1 .. k) \ {k} = 1 .. k - 1 /\ Max(1 .. k) = k
        BY <1>0, FirstPositions
    <2> QED
        BY ZenonT(120), <1>4, <2>1, <2>2
<1>7. z[N] = iter[DOMAIN w]
    BY <1>0
<1> HIDE DEF iter, z
<1> QED
    BY <1>b, <1>5, <1>6, <1>7, Zenon DEF b, Do, w


-----------------------------------------------------------------------------
(* The state, and what an operation leaves alone *)

Fields == {"td_state", "group", "joined", "weight", "shares", "vruntime",
           "delta_exec", "exec_time", "timeline", "curr", "cand", "vtime",
           "load", "nr", "rq_load", "curthread", "need_resched", "unseen",
           "panics"}

TdState == {"none", "new", "sleeping", "runq", "running"}
EntityOrNull == Entity \cup {NULL}

Typed(s) ==
    /\ DOMAIN s = Fields
    /\ s.td_state \in [Thread -> TdState]
    /\ s.group \in [Thread -> Queue]
    /\ s.joined \in SUBSET Entity
    /\ s.weight \in [Entity -> Nat]
    /\ s.shares \in [Group -> Nat]
    /\ s.timeline \in [Queue -> Seq(Entity)]
    /\ s.curr \in [Queue -> EntityOrNull]
    /\ s.cand \in [Candidate -> [Queue -> EntityOrNull]]
    /\ s.nr \in [Queue -> Nat]
    /\ s.load \in [Queue -> Nat]
    /\ s.curthread \in Thread \cup {Idle}

(* Nothing but a walk through the entry points changes the other fields. *)
Frame(s, z) ==
    /\ DOMAIN z = Fields
    /\ z.group = s.group /\ z.shares = s.shares
    /\ z.curthread = s.curthread /\ z.need_resched = s.need_resched
    /\ z.panics = s.panics
SameThreads(s, z) == z.td_state = s.td_state /\ z.joined = s.joined
SameLoads(s, z) ==
    /\ z.weight = s.weight /\ z.load = s.load
    /\ z.nr = s.nr /\ z.rq_load = s.rq_load

(* Only times differ. *)
Quiet(s, z) ==
    /\ Frame(s, z) /\ SameThreads(s, z) /\ SameLoads(s, z)
    /\ z.timeline = s.timeline /\ z.curr = s.curr /\ z.cand = s.cand

(* update_rq_clock, update_sfq_vtime, update_curr and place_entity change  *)
(* times only.                                                             *)
LEMMA QuietOperations ==
    ASSUME NEW s, DOMAIN s = Fields
    PROVE  /\ Quiet(s, s)
           /\ Quiet(s, UpdateRqClock(s))
           /\ \A q : Quiet(s, UpdateSfqVtime(s, q))
           /\ \A q : Quiet(s, UpdateCurr(s, q))
           /\ \A e, v : Quiet(s, [s EXCEPT !.vruntime[e] = v])
           /\ \A e : Quiet(s, PlaceWakeup(s, e)) /\ Quiet(s, PlaceInitial(s, e))
<1> USE DEF Quiet, Frame, SameThreads, SameLoads
<1>1. Quiet(s, UpdateRqClock(s))
    BY Zenon DEF UpdateRqClock, Fields
<1>2. ASSUME NEW q, NEW r, DOMAIN r = Fields
      PROVE  Quiet(r, UpdateSfqVtime(r, q))
    <2>1. \A v : Quiet(r, [r EXCEPT !.vtime[q] = v])
        BY <1>2, Zenon DEF Fields
    <2> QED
        BY <1>2, <2>1, ZenonT(120) DEF UpdateSfqVtime
<1>3. ASSUME NEW q PROVE Quiet(s, UpdateCurr(s, q))
    <2> DEFINE c == s.curr[q]
               d == s.delta_exec[c]
               r == [s EXCEPT !.vruntime[c] = @ + ScaleDelta(s, d, c),
                              !.exec_time[c] = IF @ + d > ExecCap
                                               THEN ExecCap ELSE @ + d,
                              !.delta_exec[c] = 0]
    <2>2. UpdateCurr(s, q) = IF c = NULL THEN s ELSE IF d = 0 THEN s
                             ELSE UpdateSfqVtime(r, q)
        BY Zenon DEF UpdateCurr
    <2>4. Quiet(s, r)
        BY Zenon DEF Fields
    <2> HIDE DEF r, c, d
    <2>5. Quiet(r, UpdateSfqVtime(r, q))
        BY <1>2, <2>4
    <2> QED
        BY <2>2, <2>4, <2>5
<1>4. \A e, v : Quiet(s, [s EXCEPT !.vruntime[e] = v])
    BY ZenonT(60) DEF Fields
<1>5. ASSUME NEW e
      PROVE  Quiet(s, PlaceWakeup(s, e)) /\ Quiet(s, PlaceInitial(s, e))
    BY Zenon DEF PlaceWakeup, PlaceInitial, Fields
<1> QED
    BY <1>1, <1>2, <1>3, <1>4, <1>5

(* What is quiet keeps types, levels and paths. *)
LEMMA FrameTypes ==
    ASSUME NEW s, Typed(s), NEW z, Frame(s, z)
    PROVE  /\ DOMAIN z = Fields
           /\ z.group \in [Thread -> Queue]
           /\ \A e : Sfq(z, e) = Sfq(s, e)
           /\ \A e : ParentEntity(z, e) = ParentEntity(s, e)
           /\ \A e \in Entity : Path(z, e) = Path(s, e)
<1>1. z.group = s.group /\ DOMAIN z = Fields
    BY DEF Frame
<1>2. z.group \in [Thread -> Queue] /\ s.group \in [Thread -> Queue]
    BY <1>1 DEF Typed
<1>3. \A e : Sfq(z, e) = Sfq(s, e)
    BY <1>1 DEF Sfq
<1>4. \A e : ParentEntity(z, e) = ParentEntity(s, e)
    BY <1>3 DEF ParentEntity
<1>5. \A e \in Entity : Path(z, e) = Path(s, e)
    BY <1>1, <1>2, PathFrame
<1> QED
    BY <1>1, <1>2, <1>3, <1>4, <1>5

(* A quiet step keeps the types of the state.                              *)
LEMMA QuietTypes ==
    ASSUME NEW s, Typed(s), NEW z, Quiet(s, z)
    PROVE  Typed(z)
    BY DEF Typed, Quiet, Frame, SameThreads, SameLoads

-----------------------------------------------------------------------------
(* The operations on one queue *)

TimelineGains(s, e, z) ==
    LET q == Sfq(s, e)
    IN  /\ Frame(s, z) /\ SameThreads(s, z) /\ SameLoads(s, z)
        /\ z.curr = s.curr /\ z.cand = s.cand
        /\ z.timeline \in [Queue -> Seq(Entity)]
        /\ \A p \in Queue \ {q} : z.timeline[p] = s.timeline[p]
        /\ IsInjective(z.timeline[q])
        /\ ToSet(z.timeline[q]) = ToSet(s.timeline[q]) \cup {e}

(* __enqueue_entity puts an entity that is not in the timeline into it. *)
LEMMA EnqueueTimelineEffect ==
    ASSUME NEW s, Typed(s), NEW e \in Entity,
           IsInjective(s.timeline[Sfq(s, e)]),
           e \notin ToSet(s.timeline[Sfq(s, e)])
    PROVE  TimelineGains(s, e, EnqueueTimeline(s, e))
<1> DEFINE q == Sfq(s, e)
           z == EnqueueTimeline(s, e)
           later == {i \in DOMAIN s.timeline[q] :
                        s.vruntime[e] < s.vruntime[s.timeline[q][i]]}
           v == InsertBefore(s.timeline[q], later, e)
<1>1. /\ q \in Queue /\ s.timeline[q] \in Seq(Entity)
      /\ s.timeline \in [Queue -> Seq(Entity)]
    BY ParentTypes DEF Typed
<1>2. /\ v \in Seq(Entity) /\ IsInjective(v)
      /\ ToSet(v) = ToSet(s.timeline[q]) \cup {e}
    <2>1. later \in SUBSET DOMAIN s.timeline[q]
        OBVIOUS
    <2>2. IsInjective(s.timeline[q]) /\ e \notin ToSet(s.timeline[q])
        OBVIOUS
    <2> DEFINE tl == s.timeline[q]
    <2> HIDE DEF later, q, tl
    <2>3. tl \in Seq(Entity) /\ later \in SUBSET DOMAIN tl
        BY <1>1, <2>1 DEF tl
    <2>4. /\ InsertBefore(tl, later, e) \in Seq(Entity)
          /\ ToSet(InsertBefore(tl, later, e)) = ToSet(tl) \cup {e}
        BY <2>3, InsertBeforeContent
    <2>5. IsInjective(InsertBefore(tl, later, e))
        BY <2>2, <2>3, InsertBeforeInjective DEF tl
    <2> QED
        BY <2>4, <2>5 DEF tl
<1>3. (e \notin ToSet(s.timeline[q])) = TRUE
    OBVIOUS
<1>4. /\ Frame(s, z) /\ SameThreads(s, z) /\ SameLoads(s, z)
      /\ z.curr = s.curr /\ z.cand = s.cand
      /\ z.timeline = [s.timeline EXCEPT ![q] = v]
    BY <1>3, Zenon DEF EnqueueTimeline, Kassert, Typed, Fields, Frame,
        SameThreads, SameLoads
<1> HIDE DEF q, z, v
<1> QED
    BY <1>1, <1>2, <1>4 DEF q, z, TimelineGains

TimelineLoses(s, e, z) ==
    LET q == Sfq(s, e)
    IN  /\ Frame(s, z) /\ SameThreads(s, z) /\ SameLoads(s, z)
        /\ z.curr = s.curr /\ z.cand = s.cand
        /\ z.timeline \in [Queue -> Seq(Entity)]
        /\ \A p \in Queue \ {q} : z.timeline[p] = s.timeline[p]
        /\ IsInjective(z.timeline[q])
        /\ ToSet(z.timeline[q]) = ToSet(s.timeline[q]) \ {e}

(* __dequeue_entity takes an entity of the timeline out of it. *)
LEMMA DequeueTimelineEffect ==
    ASSUME NEW s, Typed(s), NEW e \in Entity,
           IsInjective(s.timeline[Sfq(s, e)]),
           e \in ToSet(s.timeline[Sfq(s, e)])
    PROVE  TimelineLoses(s, e, DequeueTimeline(s, e))
<1> DEFINE q == Sfq(s, e)
           z == DequeueTimeline(s, e)
           v == Without(s.timeline[q], e)
<1>1. /\ q \in Queue /\ s.timeline[q] \in Seq(Entity)
      /\ s.timeline \in [Queue -> Seq(Entity)]
    BY ParentTypes DEF Typed
<1>2. /\ v \in Seq(Entity) /\ IsInjective(v)
      /\ ToSet(v) = ToSet(s.timeline[q]) \ {e}
    BY <1>1, WithoutProperties
<1>3. z = [s EXCEPT !.timeline[q] = v]
    BY Zenon DEF DequeueTimeline
<1>4. /\ Frame(s, z) /\ SameThreads(s, z) /\ SameLoads(s, z)
      /\ z.curr = s.curr /\ z.cand = s.cand
      /\ z.timeline = [s.timeline EXCEPT ![q] = v]
    BY <1>3, ZenonT(60) DEF Typed, Fields, Frame, SameThreads, SameLoads
<1> HIDE DEF q, z, v
<1> QED
    BY <1>1, <1>2, <1>4 DEF q, z, TimelineLoses

-----------------------------------------------------------------------------
(* What every step of every walk keeps *)

Members(s, q) == {e \in s.joined : Sfq(s, e) = q}

(* A queue agrees with what has joined it.  What runs in it may have left  *)
(* already: it stays s.curr[q] until pss_put_prev_thread.                  *)
QueueOK(s, q) ==
    /\ IsInjective(s.timeline[q])
    /\ ToSet(s.timeline[q]) = Members(s, q) \ {s.curr[q]}
    /\ s.curr[q] # NULL => Sfq(s, s.curr[q]) = q
    /\ \A k \in Candidate : s.cand[k][q] \in Members(s, q) \cup {NULL}
    /\ s.nr[q] = Cardinality(Members(s, q))
    /\ s.load[q] = TotalWeight(s.weight, Members(s, q))

(* Without weights of 0 a queue has load exactly when it is not empty. *)
WeightsOK(s) ==
    /\ \A e \in s.joined \cup Thread : s.weight[e] > 0
    /\ \A g \in Group : s.shares[g] > 0

Sound(s) ==
    /\ Typed(s)
    /\ s.panics = {}
    /\ \A q \in Queue : QueueOK(s, q)
    /\ s.rq_load = s.load[Root]
    /\ WeightsOK(s)

(* A group has joined exactly when something has joined its queue. *)
Nested(s, X) == \A g \in Group \ X : g \in s.joined <=> Members(s, g) # {}

(* The entities that have joined a queue are finitely many, with weights.  *)
LEMMA QueuesAreFinite ==
    ASSUME NEW s, Typed(s)
    PROVE  /\ \A q \in Queue : IsFiniteSet(Members(s, q))
           /\ \A q \in Queue : Members(s, q) \in SUBSET Entity
           /\ \A e \in Entity : s.weight[e] \in Nat
<1>1. IsFiniteSet(Entity)
    BY GroupAssumption, FS_Union DEF Entity
<1>2. s.joined \in SUBSET Entity /\ s.weight \in [Entity -> Nat]
    BY DEF Typed
<1>3. \A q \in Queue : Members(s, q) \in SUBSET Entity
    BY <1>2 DEF Members
<1> QED
    BY <1>1, <1>2, <1>3, FS_Subset, Zenon

(* A queue is in order as long as its own fields are, whatever happens to  *)
(* the others.                                                             *)
LEMMA QueueFrame ==
    ASSUME NEW s, NEW z, z.group = s.group, NEW q,
           Members(z, q) = Members(s, q),
           z.timeline[q] = s.timeline[q], z.curr[q] = s.curr[q],
           \A k \in Candidate :
                z.cand[k][q] \in {s.cand[k][q], NULL} \cup Members(s, q),
           z.nr[q] = s.nr[q], z.load[q] = s.load[q],
           \A e \in Members(s, q) : z.weight[e] = s.weight[e],
           QueueOK(s, q)
    PROVE  QueueOK(z, q)
<1>1. \A e : Sfq(z, e) = Sfq(s, e)
    BY DEF Sfq
<1>2. TotalWeight(z.weight, Members(z, q))
        = TotalWeight(s.weight, Members(s, q))
    BY SameWeights
<1> QED
    BY <1>1, <1>2 DEF QueueOK

(* What has joined a queue is told by joined and group alone.              *)
LEMMA MembersFrame ==
    ASSUME NEW s, NEW z, z.group = s.group, z.joined = s.joined
    PROVE  \A q : Members(z, q) = Members(s, q)
    BY DEF Members, Sfq

(* Candidates may be dropped, those in S may become candidates, and times  *)
(* may differ.                                                             *)
Calm(s, z, S) ==
    /\ Frame(s, z) /\ SameThreads(s, z) /\ SameLoads(s, z)
    /\ z.timeline = s.timeline /\ z.curr = s.curr
    /\ z.cand \in [Candidate -> [Queue -> EntityOrNull]]
    /\ \A k \in Candidate, q \in Queue :
        z.cand[k][q] \in {s.cand[k][q], NULL} \cup {e \in S : Sfq(s, e) = q}

(* A calm step whose candidates have joined keeps every queue in order.    *)
LEMMA CalmSound ==
    ASSUME NEW s, Sound(s), NEW S, S \subseteq s.joined, NEW z, Calm(s, z, S)
    PROVE  /\ Sound(z)
           /\ \A q : Members(z, q) = Members(s, q)
           /\ \A X : Nested(s, X) => Nested(z, X)
<1>1. Typed(z)
    BY DEF Sound, Typed, Calm, Frame, SameThreads, SameLoads
<1>2. \A q : Members(z, q) = Members(s, q)
    BY MembersFrame DEF Calm, Frame, SameThreads
<1>3. \A q \in Queue : QueueOK(z, q)
    <2> SUFFICES ASSUME NEW q \in Queue PROVE QueueOK(z, q)
        OBVIOUS
    <2>1. /\ QueueOK(s, q) /\ Members(z, q) = Members(s, q)
          /\ \A k \in Candidate :
                z.cand[k][q] \in {s.cand[k][q], NULL} \cup Members(s, q)
        BY <1>2 DEF Sound, Calm, Members
    <2>2. /\ z.group = s.group /\ z.timeline = s.timeline /\ z.curr = s.curr
          /\ z.nr = s.nr /\ z.load = s.load /\ z.weight = s.weight
        BY DEF Calm, Frame, SameLoads
    <2> QED
        BY <2>1, <2>2, QueueFrame
<1>4. WeightsOK(z) /\ z.panics = {} /\ z.rq_load = z.load[Root]
    BY DEF Sound, WeightsOK, Calm, Frame, SameThreads, SameLoads
<1>5. \A X : Nested(s, X) => Nested(z, X)
    BY <1>2 DEF Nested, Calm, SameThreads
<1> QED
    BY <1>1, <1>2, <1>3, <1>4, <1>5 DEF Sound

(* A calm step keeps the types and the shape of the hierarchy.             *)
LEMMA CalmTypes ==
    ASSUME NEW s, Typed(s), NEW z, NEW S, Calm(s, z, S)
    PROVE  /\ Typed(z)
           /\ \A e : Sfq(z, e) = Sfq(s, e)
           /\ \A e : ParentEntity(z, e) = ParentEntity(s, e)
           /\ \A e \in Entity : Path(z, e) = Path(s, e)
<1>1. Typed(z)
    BY DEF Typed, Calm, Frame, SameThreads, SameLoads
<1> QED
    BY <1>1, FrameTypes DEF Calm

(* Two calm steps, one after the other, are one.                           *)
LEMMA CalmAfterCalm ==
    ASSUME NEW s, Typed(s), NEW y, NEW S, Calm(s, y, S), NEW z,
           Calm(y, z, S)
    PROVE  Calm(s, z, S)
<1>1. \A e : Sfq(y, e) = Sfq(s, e)
    BY CalmTypes
<1> QED
    BY <1>1 DEF Calm, Frame, SameThreads, SameLoads

(* A step that leaves the candidates alone is calm.                        *)
LEMMA QuietIsCalm ==
    ASSUME NEW s, Typed(s), NEW z, Quiet(s, z), NEW S
    PROVE  Calm(s, z, S)
<1>1. z.cand = s.cand /\ s.cand \in [Candidate -> [Queue -> EntityOrNull]]
    BY DEF Quiet, Typed
<1> QED
    BY <1>1 DEF Quiet, Calm

-----------------------------------------------------------------------------
(* Shares *)

LoadAdded(s, e, z) ==
    LET q == Sfq(s, e)
    IN  /\ Frame(s, z) /\ SameThreads(s, z)
        /\ z.weight = s.weight /\ z.timeline = s.timeline
        /\ z.curr = s.curr /\ z.cand = s.cand
        /\ z.load = [s.load EXCEPT ![q] = s.load[q] + s.weight[e]]
        /\ z.nr = [s.nr EXCEPT ![q] = s.nr[q] + 1]
        /\ z.rq_load = IF ParentEntity(s, e) = NULL
                       THEN s.rq_load + s.weight[e] ELSE s.rq_load

LoadTaken(s, e, z) ==
    LET q == Sfq(s, e)
    IN  /\ Frame(s, z) /\ SameThreads(s, z)
        /\ z.weight = s.weight /\ z.timeline = s.timeline
        /\ z.curr = s.curr /\ z.cand = s.cand
        /\ z.load = [s.load EXCEPT ![q] = s.load[q] - s.weight[e]]
        /\ z.nr = [s.nr EXCEPT ![q] = s.nr[q] - 1]
        /\ z.rq_load = IF ParentEntity(s, e) = NULL
                       THEN s.rq_load - s.weight[e] ELSE s.rq_load

(* account_entity_enqueue and account_entity_dequeue change loads only. *)
LEMMA AccountEffect ==
    ASSUME NEW s, DOMAIN s = Fields, NEW e
    PROVE  /\ LoadAdded(s, e, AccountEnqueue(s, e))
           /\ LoadTaken(s, e, AccountDequeue(s, e))
<1>1. LoadAdded(s, e, AccountEnqueue(s, e))
    BY Zenon DEF LoadAdded, AccountEnqueue, Fields, Frame, SameThreads
<1>2. LoadTaken(s, e, AccountDequeue(s, e))
    BY Zenon DEF LoadTaken, AccountDequeue, Fields, Frame, SameThreads
<1> QED
    BY <1>1, <1>2

Reweighed(s, q, z) ==
    LET p == Sfq(s, q)
    IN  /\ Frame(s, z) /\ SameThreads(s, z)
        /\ z.timeline = s.timeline /\ z.curr = s.curr
        /\ z.cand = s.cand /\ z.nr = s.nr
        /\ q = Root => SameLoads(s, z)
        /\ q \in Group =>
             /\ z.weight = [s.weight EXCEPT ![q] = s.shares[q]]
             /\ z.load = IF q \in s.joined
                         THEN [s.load EXCEPT ![p] =
                                 s.load[p] - s.weight[q] + s.shares[q]]
                         ELSE s.load
             /\ z.rq_load = IF q \in s.joined /\ p = Root
                            THEN s.rq_load - s.weight[q] + s.shares[q]
                            ELSE s.rq_load

(* update_sfq_shares makes the shares of a group the weight of its entity, *)
(* in the load of its parent's queue too if it has joined.                 *)
LEMMA UpdateSfqSharesEffect ==
    ASSUME NEW s, Typed(s), NEW q \in Queue, s.rq_load \in Int
    PROVE  Reweighed(s, q, UpdateSfqShares(s, q))
<1> DEFINE z == UpdateSfqShares(s, q)
           p == Sfq(s, q)
           w == s.shares[q]
<1>0. DOMAIN s = Fields
    BY DEF Typed
<1>1. Frame(s, s) /\ SameThreads(s, s) /\ SameLoads(s, s)
    BY <1>0 DEF Frame, SameThreads, SameLoads
<1>2. CASE q = Root
    <2>1. z = s
        BY <1>2 DEF UpdateSfqShares
    <2>2. q \notin Group
        BY <1>2, GroupAssumption
    <2> QED
        BY <1>1, <2>1, <2>2, Zenon DEF Reweighed
<1>3. CASE q # Root
    <2>1. /\ q \in Group /\ q \in Entity /\ p \in Queue
          /\ s.weight \in [Entity -> Nat] /\ s.shares \in [Group -> Nat]
          /\ s.load \in [Queue -> Nat] /\ s.nr \in [Queue -> Nat]
          /\ s.weight[q] \in Nat /\ w \in Nat
          /\ s.load[p] \in Nat /\ s.nr[p] \in Nat
        BY <1>3, ParentTypes DEF Typed, Queue, Entity
    <2>2. CASE s.weight[q] = w
        <3>1. z = s
            BY <1>3, <2>2 DEF UpdateSfqShares
        <3>2. /\ s.weight = [s.weight EXCEPT ![q] = w]
              /\ s.load = [s.load EXCEPT ![p] = s.load[p] - s.weight[q] + w]
              /\ s.rq_load = s.rq_load - s.weight[q] + w
            BY <2>1, <2>2
        <3> QED
            BY <1>1, <1>3, <3>1, <3>2, Zenon DEF Reweighed
    <2>3. CASE s.weight[q] # w /\ q \notin s.joined
        <3>1. z = [s EXCEPT !.weight[q] = w]
            BY <1>3, <2>3, Zenon DEF UpdateSfqShares, UpdateEntityWeight
        <3>2. /\ Frame(s, z) /\ SameThreads(s, z)
              /\ z.timeline = s.timeline /\ z.curr = s.curr
              /\ z.cand = s.cand /\ z.nr = s.nr
              /\ z.weight = [s.weight EXCEPT ![q] = w]
              /\ z.load = s.load /\ z.rq_load = s.rq_load
            BY <1>0, <3>1, ZenonT(60) DEF Fields, Frame, SameThreads
        <3> QED
            BY <1>3, <2>3, <3>2, Zenon DEF Reweighed
    <2>4. CASE s.weight[q] # w /\ q \in s.joined
        <3> DEFINE s0 == IF s.curr[p] = q THEN UpdateCurr(s, p) ELSE s
                   s1 == AccountDequeue(s0, q)
                   s2 == [s1 EXCEPT !.weight[q] = w]
                   low == IF p = Root THEN s.rq_load - s.weight[q]
                          ELSE s.rq_load
        <3>1. z = AccountEnqueue(s2, q)
            BY <1>3, <2>4, Zenon DEF UpdateSfqShares, UpdateEntityWeight
        <3>2. Quiet(s, s0)
            BY <1>0, QuietOperations
        <3> HIDE DEF s0
        <3>3. /\ DOMAIN s0 = Fields /\ Sfq(s0, q) = p /\ s0.weight = s.weight
              /\ s0.load = s.load /\ s0.nr = s.nr /\ s0.rq_load = s.rq_load
              /\ (ParentEntity(s0, q) = NULL) <=> (p = Root)
            BY ZenonT(60), <2>1, <3>2, ParentTypes
               DEF Quiet, Frame, SameLoads, Sfq,
                Typed, ParentEntity
        <3>4. /\ DOMAIN s1 = Fields
              /\ s1.load = [s.load EXCEPT ![p] = s.load[p] - s.weight[q]]
              /\ s1.nr = [s.nr EXCEPT ![p] = s.nr[p] - 1]
              /\ s1.rq_load = low
              /\ Frame(s0, s1) /\ SameThreads(s0, s1)
              /\ s1.weight = s.weight /\ s1.timeline = s0.timeline
              /\ s1.curr = s0.curr /\ s1.cand = s0.cand
            <4> HIDE DEF p
            <4>1. LoadTaken(s0, q, s1)
                BY <3>3, AccountEffect
            <4> HIDE DEF s1
            <4> QED
                BY <3>3, <4>1 DEF LoadTaken, Frame, low
        <3> HIDE DEF s1, low
        <3>5. /\ DOMAIN s2 = Fields
              /\ s2.load = s1.load /\ s2.nr = s1.nr /\ s2.rq_load = low
              /\ Frame(s1, s2) /\ SameThreads(s1, s2)
              /\ s2.weight = [s.weight EXCEPT ![q] = w]
              /\ s2.timeline = s1.timeline
              /\ s2.curr = s1.curr /\ s2.cand = s1.cand
            BY <3>4, Zenon DEF Fields, Frame, SameThreads
        <3> HIDE DEF s2
        <3>6. /\ Sfq(s2, q) = p /\ s2.weight[q] = w
              /\ (ParentEntity(s2, q) = NULL) <=> (p = Root)
            <4>1. s2.group = s.group
                BY <3>2, <3>4, <3>5 DEF Frame, Quiet
            <4> QED
                BY ZenonT(60), <2>1, <3>5, <4>1, ParentTypes
                   DEF Sfq, ParentEntity, Typed
        <3>7. /\ z.load = [s1.load EXCEPT ![p] = s1.load[p] + w]
              /\ z.nr = [s1.nr EXCEPT ![p] = s1.nr[p] + 1]
              /\ z.rq_load = IF p = Root THEN low + w ELSE low
              /\ Frame(s2, z) /\ SameThreads(s2, z)
              /\ z.weight = s2.weight /\ z.timeline = s2.timeline
              /\ z.curr = s2.curr /\ z.cand = s2.cand
            <4> HIDE DEF z, p, w
            <4>1. LoadAdded(s2, q, z)
                BY <3>1, <3>5, AccountEffect
            <4> QED
                BY <3>5, <3>6, <4>1 DEF LoadAdded
        <3> HIDE DEF z
        <3>8. /\ Frame(s, z) /\ SameThreads(s, z)
              /\ z.timeline = s.timeline /\ z.curr = s.curr
              /\ z.cand = s.cand
              /\ z.weight = [s.weight EXCEPT ![q] = w]
            BY <3>2, <3>4, <3>5, <3>7 DEF Quiet, Frame, SameThreads
        <3>9. z.nr = s.nr
            BY <2>1, <3>4, <3>7
        <3>10. z.load = [s.load EXCEPT ![p] = s.load[p] - s.weight[q] + w]
            <4>1. s1.load[p] = s.load[p] - s.weight[q]
                BY <2>1, <3>4
            <4> HIDE DEF p, w
            <4> QED
                BY <3>4, <3>7, <4>1
        <3>11. z.rq_load = IF p = Root THEN s.rq_load - s.weight[q] + w
                           ELSE s.rq_load
            BY <2>1, <3>7 DEF low
        <3> QED
            BY <1>3, <2>4, <3>8, <3>9, <3>10, <3>11 DEF z, Reweighed
    <2> QED
        BY <2>2, <2>3, <2>4
<1> QED
    BY <1>2, <1>3

(* Shares keep the queues sound, and give a queued entity a weight. *)
LEMMA ReweighedSound ==
    ASSUME NEW s, Sound(s), NEW q \in Queue, NEW z, Reweighed(s, q, z)
    PROVE  /\ Sound(z)
           /\ \A p : Members(z, p) = Members(s, p)
           /\ \A X : Nested(s, X) => Nested(z, X)
           /\ q \in Group => z.weight[q] > 0
<1>1. /\ Typed(s) /\ WeightsOK(s) /\ s.panics = {}
      /\ \A p \in Queue : QueueOK(s, p)
      /\ s.rq_load = s.load[Root]
    BY DEF Sound
<1>2. /\ Frame(s, z) /\ SameThreads(s, z)
      /\ z.timeline = s.timeline /\ z.curr = s.curr
      /\ z.cand = s.cand /\ z.nr = s.nr
    BY DEF Reweighed
<1>3. \A p : Members(z, p) = Members(s, p)
    BY <1>2, MembersFrame DEF Frame, SameThreads
<1>4. \A X : Nested(s, X) => Nested(z, X)
    BY <1>2, <1>3 DEF Nested, SameThreads
<1>5. CASE q = Root
    <2>1. q \notin Group
        BY <1>5, GroupAssumption
    <2>2. Calm(s, z, {})
        BY <1>1, <1>2, <1>5 DEF Reweighed, Calm, Typed
    <2> QED
        BY <1>3, <1>4, <2>1, <2>2, CalmSound
<1>6. CASE q # Root
    <2> DEFINE p == Sfq(s, q)
               w == s.shares[q]
    <2>1. /\ q \in Group /\ q \in Entity /\ p \in Queue /\ p # q
          /\ s.weight \in [Entity -> Nat] /\ s.shares \in [Group -> Nat]
          /\ s.load \in [Queue -> Nat] /\ w \in Nat /\ w > 0
          /\ s.joined \subseteq Entity /\ Root \in Queue
        <3>1. q \in Group
            BY <1>6 DEF Queue
        <3>2. \E g \in {q} : Parent[g] \notin {q}
            BY <3>1, GroupAssumption
        <3>3. p # q
            BY <3>1, <3>2, GroupAssumption DEF Sfq
        <3> QED
            BY <1>1, <3>1, <3>3, ParentTypes DEF Typed, Queue, Entity,
                WeightsOK
    <2>2. /\ z.weight = [s.weight EXCEPT ![q] = w]
          /\ z.load = IF q \in s.joined
                      THEN [s.load EXCEPT ![p] = s.load[p] - s.weight[q] + w]
                      ELSE s.load
          /\ z.rq_load = IF q \in s.joined /\ p = Root
                         THEN s.rq_load - s.weight[q] + w
                         ELSE s.rq_load
        BY <2>1 DEF Reweighed
    <2> HIDE DEF p, w
    <2>3. ASSUME NEW r \in Queue, r # p \/ q \notin s.joined
          PROVE  QueueOK(z, r)
        <3>1. q \notin Members(s, r)
            BY <2>3 DEF Members, p
        <3>2. z.load[r] = s.load[r]
            BY <2>1, <2>2, <2>3
        <3>3. \A e \in Members(s, r) : z.weight[e] = s.weight[e]
            BY <2>1, <2>2, <3>1 DEF Members
        <3> QED
            BY <1>1, <1>2, <1>3, <3>2, <3>3, QueueFrame DEF Frame
    <2>4. ASSUME q \in s.joined
          PROVE  /\ QueueOK(z, p) /\ z.load \in [Queue -> Nat]
                 /\ z.rq_load = z.load[Root]
        <3> DEFINE M == Members(s, p)
        <3>1. /\ q \in M /\ IsFiniteSet(M) /\ IsFiniteSet(M \ {q})
              /\ M \in SUBSET Entity
            BY <1>1, <2>1, <2>4, QueuesAreFinite, FS_Subset DEF Members, p
        <3> HIDE DEF M
        <3>2. TotalWeight(s.weight, M \ {q}) = s.load[p] - s.weight[q]
            <4>1. s.load[p] = TotalWeight(s.weight, M)
                BY <1>1, <2>1 DEF QueueOK, M
            <4>2. \A u \in M : s.weight[u] \in Nat
                BY <2>1, <3>1
            <4>3. TotalWeight(s.weight, M \ {q})
                    = TotalWeight(s.weight, M) - s.weight[q]
                BY <3>1, <4>2, TotalWeightSubtracts, Zenon
            <4> QED
                BY <4>1, <4>3
        <3>3. TotalWeight(z.weight, M \ {q}) = TotalWeight(s.weight, M \ {q})
            <4>1. \A u \in M \ {q} : z.weight[u] = s.weight[u]
                BY <2>1, <2>2, <3>1
            <4> QED
                BY <4>1, SameWeights
        <3>4. TotalWeight(z.weight, M) = s.load[p] - s.weight[q] + w
            <4>1. \A u \in (M \ {q}) \cup {q} : z.weight[u] \in Nat
                BY <2>1, <2>2, <3>1
            <4>2. TotalWeight(z.weight, (M \ {q}) \cup {q})
                    = TotalWeight(z.weight, M \ {q}) + z.weight[q]
                BY <3>1, <4>1, TotalWeightAdds
            <4>3. (M \ {q}) \cup {q} = M /\ z.weight[q] = w
                BY <2>1, <2>2, <3>1
            <4> QED
                BY <3>2, <3>3, <4>2, <4>3
        <3>5. /\ z.load = [s.load EXCEPT ![p] = s.load[p] - s.weight[q] + w]
              /\ z.load[p] = TotalWeight(z.weight, Members(z, p))
            BY <1>3, <2>1, <2>2, <2>4, <3>4 DEF M
        <3>6. QueueOK(z, p)
            <4>1. QueueOK(s, p) /\ \A e : Sfq(z, e) = Sfq(s, e)
                BY <1>1, <1>2, <2>1, FrameTypes
            <4> QED
                BY <1>2, <1>3, <3>5, <4>1 DEF QueueOK
        <3>7. s.load[p] - s.weight[q] + w \in Nat
            <4>1. IsFiniteSet(Units(s.weight, M \ {q}))
                BY <2>1, <3>1, UnitsFinite
            <4>2. TotalWeight(s.weight, M \ {q}) \in Nat
                BY <4>1, FS_CardinalityType DEF TotalWeight, Units
            <4> QED
                BY <2>1, <3>2, <4>2
        <3>8. z.rq_load = z.load[Root]
            BY <1>1, <2>1, <2>2, <2>4, <3>5
        <3>9. z.load \in [Queue -> Nat]
            BY <2>1, <3>5, <3>7
        <3> QED
            BY <3>6, <3>8, <3>9
    <2>5. ASSUME q \notin s.joined
          PROVE  z.load \in [Queue -> Nat] /\ z.rq_load = z.load[Root]
        BY <1>1, <2>1, <2>2, <2>5
    <2>6. \A r \in Queue : QueueOK(z, r)
        BY <2>3, <2>4
    <2>7. Typed(z)
        BY ZenonT(120), <1>1, <1>2, <2>1, <2>2, <2>4, <2>5
           DEF Typed, Frame, SameThreads
    <2>8. WeightsOK(z) /\ z.weight[q] > 0
        BY <1>1, <1>2, <2>1, <2>2 DEF WeightsOK, Frame, SameThreads, Typed,
            Entity
    <2>9. z.panics = {}
        BY <1>1, <1>2 DEF Frame
    <2> QED
        BY <1>3, <1>4, <2>4, <2>5, <2>6, <2>7, <2>8, <2>9 DEF Sound
<1> QED
    BY <1>5, <1>6

-----------------------------------------------------------------------------
(* Candidates *)

CandidateStep(k, z, f) == [z EXCEPT !.cand[k][Sfq(z, f)] = f]

SkipStep(s, acc, f) ==
    IF acc.stop THEN acc
    ELSE [s |-> [acc.s EXCEPT !.cand["skip"][Sfq(s, f)] = f],
          stop |-> s.nr[Sfq(s, f)] > 1]

ClearStep(s, k, acc, f) ==
    IF acc.stop \/ s.cand[k][Sfq(s, f)] # f
    THEN [acc EXCEPT !.stop = TRUE]
    ELSE [acc EXCEPT !.s.cand[k][Sfq(s, f)] = NULL]

(* set_next_candidate and set_last_candidate, one level after the other *)
LEMMA SetCandidateSteps ==
    ASSUME NEW s, s.group \in [Thread -> Queue], NEW e \in Entity,
           NEW k0
    PROVE  LET w == Walkup(s, e)
           IN  \E z : /\ z[0] = s
                      /\ \A k \in 1 .. Len(w) :
                            z[k] = CandidateStep(k0, z[k - 1], w[k])
                      /\ SetCandidate(s, k0, e) = z[Len(w)]
<1> DEFINE w == Walkup(s, e)
           b == s
           Do(x, y) == CandidateStep(k0, x, y)
           F(n, g) == g = [d \in SUBSET (1 .. n) |->
                              IF d = {} THEN b
                              ELSE Do(g[d \ {Max(d)}], w[Max(d)])]
           S == {n \in 0 .. Len(w) : \E g : F(n, g)}
           iter == CHOOSE g : F(Len(w), g)
           z == [k \in 0 .. Len(w) |-> iter[1 .. k]]
<1>a. Len(w) \in Nat /\ DOMAIN w = 1 .. Len(w)
    BY WalkupIsWalk DEF IsWalk, Climbs
<1>b. SetCandidate(s, k0, e) = iter[DOMAIN w]
    BY <1>a, ZenonT(60)
       DEF SetCandidate, FoldLeft, MapThenFoldSet, CandidateStep
<1> HIDE DEF w, b, Do
<1> DEFINE N == Len(w)
<1>0. N \in Nat /\ DOMAIN w = 1 .. N
    BY <1>a
<1>1. 0 \in S
    <2>1. F(0, [d \in SUBSET (1 .. 0) |-> b])
        OBVIOUS
    <2> HIDE DEF F
    <2> QED
        BY <1>0, <2>1
<1>2. ASSUME NEW n \in 1 .. N, n - 1 \in S PROVE n \in S
    <2>1. PICK g : F(n - 1, g)
        BY <1>2, Zenon
    <2> DEFINE h == [d \in SUBSET (1 .. n) |->
                        IF n \in d THEN Do(g[d \ {n}], w[n]) ELSE g[d]]
    <2>2. ASSUME NEW d \in SUBSET (1 .. n)
          PROVE  h[d] = IF d = {} THEN b
                        ELSE Do(h[d \ {Max(d)}], w[Max(d)])
        <3>1. CASE n \in d
            <4>1. Max(d) = n
                BY <1>0, <3>1, MaxIsLast
            <4>2. d \ {n} \in SUBSET (1 .. n) /\ n \notin d \ {n}
                BY <3>1
            <4>3. h[d \ {n}] = g[d \ {n}]
                BY <4>2
            <4>4. h[d] = Do(g[d \ {n}], w[n])
                BY <3>1
            <4> HIDE DEF h
            <4> QED
                BY <3>1, <4>1, <4>3, <4>4
        <3>2. CASE n \notin d
            <4>1. d \in SUBSET (1 .. n - 1)
                BY <1>0, <3>2
            <4>2. h[d] = g[d]
                BY <3>2
            <4>3. h[d \ {Max(d)}] = g[d \ {Max(d)}]
                BY <3>2
            <4> HIDE DEF h
            <4> QED
                BY <2>1, <4>1, <4>2, <4>3
        <3> QED
            BY <3>1, <3>2
    <2>3. F(n, h)
        <3>1. h = [d \in SUBSET (1 .. n) |-> h[d]]
            OBVIOUS
        <3> HIDE DEF h
        <3> QED
            BY <2>2, <3>1, Zenon
    <2> HIDE DEF F, h
    <2> QED
        BY <1>0, <2>3
<1>3. \E g : F(N, g)
    <2> HIDE DEF F
    <2>1. \A k \in 0 .. N : k \in S
        <3> HIDE DEF S, N
        <3> QED
            BY <1>0, <1>1, <1>2, StepByStep
    <2> QED
        BY <1>0, <2>1
<1>4. F(N, iter)
    BY <1>3, Zenon
<1>5. z[0] = b
    <2>1. 1 .. 0 = {} /\ 0 \in 0 .. N
        BY <1>0
    <2>2. iter[{}] = b
        BY <1>4
    <2> QED
        BY <2>1, <2>2
<1>6. ASSUME NEW k \in 1 .. N PROVE z[k] = Do(z[k - 1], w[k])
    <2>1. z[k] = iter[1 .. k] /\ z[k - 1] = iter[1 .. k - 1]
        BY <1>0
    <2> HIDE DEF iter, N
    <2>2. /\ 1 .. k \in SUBSET (1 .. N) /\ 1 .. k # {}
          /\ (1 .. k) \ {k} = 1 .. k - 1 /\ Max(1 .. k) = k
        BY <1>0, FirstPositions
    <2> QED
        BY <1>4, <2>1, <2>2
<1>7. z[N] = iter[DOMAIN w]
    BY <1>0
<1> HIDE DEF iter, z
<1> QED
    BY <1>b, <1>5, <1>6, <1>7, Zenon DEF b, Do, w


(* set_skip_candidate *)
LEMMA SetSkipSteps ==
    ASSUME NEW s, s.group \in [Thread -> Queue], NEW e \in Entity
    PROVE  LET w == Walkup(s, e)
           IN  \E z : /\ z[0] = [s |-> s, stop |-> FALSE]
                      /\ \A k \in 1 .. Len(w) :
                            z[k] = SkipStep(s, z[k - 1], w[k])
                      /\ SetSkip(s, e) = z[Len(w)].s
<1> DEFINE w == Walkup(s, e)
           b == [s |-> s, stop |-> FALSE]
           Do(x, y) == SkipStep(s, x, y)
           F(n, g) == g = [d \in SUBSET (1 .. n) |->
                              IF d = {} THEN b
                              ELSE Do(g[d \ {Max(d)}], w[Max(d)])]
           S == {n \in 0 .. Len(w) : \E g : F(n, g)}
           iter == CHOOSE g : F(Len(w), g)
           z == [k \in 0 .. Len(w) |-> iter[1 .. k]]
<1>a. Len(w) \in Nat /\ DOMAIN w = 1 .. Len(w)
    BY WalkupIsWalk DEF IsWalk, Climbs
<1>b. SetSkip(s, e) = iter[DOMAIN w].s
    BY <1>a, ZenonT(60) DEF SetSkip, FoldLeft, MapThenFoldSet, SkipStep
<1> HIDE DEF w, b, Do
<1> DEFINE N == Len(w)
<1>0. N \in Nat /\ DOMAIN w = 1 .. N
    BY <1>a
<1>1. 0 \in S
    <2>1. F(0, [d \in SUBSET (1 .. 0) |-> b])
        OBVIOUS
    <2> HIDE DEF F
    <2> QED
        BY <1>0, <2>1
<1>2. ASSUME NEW n \in 1 .. N, n - 1 \in S PROVE n \in S
    <2>1. PICK g : F(n - 1, g)
        BY <1>2, Zenon
    <2> DEFINE h == [d \in SUBSET (1 .. n) |->
                        IF n \in d THEN Do(g[d \ {n}], w[n]) ELSE g[d]]
    <2>2. ASSUME NEW d \in SUBSET (1 .. n)
          PROVE  h[d] = IF d = {} THEN b
                        ELSE Do(h[d \ {Max(d)}], w[Max(d)])
        <3>1. CASE n \in d
            <4>1. Max(d) = n
                BY <1>0, <3>1, MaxIsLast
            <4>2. d \ {n} \in SUBSET (1 .. n) /\ n \notin d \ {n}
                BY <3>1
            <4>3. h[d \ {n}] = g[d \ {n}]
                BY <4>2
            <4>4. h[d] = Do(g[d \ {n}], w[n])
                BY <3>1
            <4> HIDE DEF h
            <4> QED
                BY <3>1, <4>1, <4>3, <4>4
        <3>2. CASE n \notin d
            <4>1. d \in SUBSET (1 .. n - 1)
                BY <1>0, <3>2
            <4>2. h[d] = g[d]
                BY <3>2
            <4>3. h[d \ {Max(d)}] = g[d \ {Max(d)}]
                BY <3>2
            <4> HIDE DEF h
            <4> QED
                BY <2>1, <4>1, <4>2, <4>3
        <3> QED
            BY <3>1, <3>2
    <2>3. F(n, h)
        <3>1. h = [d \in SUBSET (1 .. n) |-> h[d]]
            OBVIOUS
        <3> HIDE DEF h
        <3> QED
            BY <2>2, <3>1, Zenon
    <2> HIDE DEF F, h
    <2> QED
        BY <1>0, <2>3
<1>3. \E g : F(N, g)
    <2> HIDE DEF F
    <2>1. \A k \in 0 .. N : k \in S
        <3> HIDE DEF S, N
        <3> QED
            BY <1>0, <1>1, <1>2, StepByStep
    <2> QED
        BY <1>0, <2>1
<1>4. F(N, iter)
    BY <1>3, Zenon
<1>5. z[0] = b
    <2>1. 1 .. 0 = {} /\ 0 \in 0 .. N
        BY <1>0
    <2>2. iter[{}] = b
        BY <1>4
    <2> QED
        BY <2>1, <2>2
<1>6. ASSUME NEW k \in 1 .. N PROVE z[k] = Do(z[k - 1], w[k])
    <2>1. z[k] = iter[1 .. k] /\ z[k - 1] = iter[1 .. k - 1]
        BY <1>0
    <2> HIDE DEF iter, N
    <2>2. /\ 1 .. k \in SUBSET (1 .. N) /\ 1 .. k # {}
          /\ (1 .. k) \ {k} = 1 .. k - 1 /\ Max(1 .. k) = k
        BY <1>0, FirstPositions
    <2> QED
        BY <1>4, <2>1, <2>2
<1>7. z[N] = iter[DOMAIN w]
    BY <1>0
<1> HIDE DEF iter, z
<1> QED
    BY <1>b, <1>5, <1>6, <1>7, Zenon DEF b, Do, w


(* clear_skip_candidate, clear_next_candidate and clear_last_candidate *)
LEMMA ClearCandidateSteps ==
    ASSUME NEW s, s.group \in [Thread -> Queue], NEW e \in Entity,
           NEW k0
    PROVE  LET w == Walkup(s, e)
           IN  \E z : /\ z[0] = [s |-> s, stop |-> FALSE]
                      /\ \A k \in 1 .. Len(w) :
                            z[k] = ClearStep(s, k0, z[k - 1], w[k])
                      /\ ClearCandidate(s, k0, e) = z[Len(w)].s
<1> DEFINE w == Walkup(s, e)
           b == [s |-> s, stop |-> FALSE]
           Do(x, y) == ClearStep(s, k0, x, y)
           F(n, g) == g = [d \in SUBSET (1 .. n) |->
                              IF d = {} THEN b
                              ELSE Do(g[d \ {Max(d)}], w[Max(d)])]
           S == {n \in 0 .. Len(w) : \E g : F(n, g)}
           iter == CHOOSE g : F(Len(w), g)
           z == [k \in 0 .. Len(w) |-> iter[1 .. k]]
<1>a. Len(w) \in Nat /\ DOMAIN w = 1 .. Len(w)
    BY WalkupIsWalk DEF IsWalk, Climbs
<1>b. ClearCandidate(s, k0, e) = iter[DOMAIN w].s
    BY <1>a, ZenonT(60) DEF ClearCandidate, FoldLeft, MapThenFoldSet, ClearStep
<1> HIDE DEF w, b, Do
<1> DEFINE N == Len(w)
<1>0. N \in Nat /\ DOMAIN w = 1 .. N
    BY <1>a
<1>1. 0 \in S
    <2>1. F(0, [d \in SUBSET (1 .. 0) |-> b])
        OBVIOUS
    <2> HIDE DEF F
    <2> QED
        BY <1>0, <2>1
<1>2. ASSUME NEW n \in 1 .. N, n - 1 \in S PROVE n \in S
    <2>1. PICK g : F(n - 1, g)
        BY <1>2, Zenon
    <2> DEFINE h == [d \in SUBSET (1 .. n) |->
                        IF n \in d THEN Do(g[d \ {n}], w[n]) ELSE g[d]]
    <2>2. ASSUME NEW d \in SUBSET (1 .. n)
          PROVE  h[d] = IF d = {} THEN b
                        ELSE Do(h[d \ {Max(d)}], w[Max(d)])
        <3>1. CASE n \in d
            <4>1. Max(d) = n
                BY <1>0, <3>1, MaxIsLast
            <4>2. d \ {n} \in SUBSET (1 .. n) /\ n \notin d \ {n}
                BY <3>1
            <4>3. h[d \ {n}] = g[d \ {n}]
                BY <4>2
            <4>4. h[d] = Do(g[d \ {n}], w[n])
                BY <3>1
            <4> HIDE DEF h
            <4> QED
                BY <3>1, <4>1, <4>3, <4>4
        <3>2. CASE n \notin d
            <4>1. d \in SUBSET (1 .. n - 1)
                BY <1>0, <3>2
            <4>2. h[d] = g[d]
                BY <3>2
            <4>3. h[d \ {Max(d)}] = g[d \ {Max(d)}]
                BY <3>2
            <4> HIDE DEF h
            <4> QED
                BY <2>1, <4>1, <4>2, <4>3
        <3> QED
            BY <3>1, <3>2
    <2>3. F(n, h)
        <3>1. h = [d \in SUBSET (1 .. n) |-> h[d]]
            OBVIOUS
        <3> HIDE DEF h
        <3> QED
            BY <2>2, <3>1, Zenon
    <2> HIDE DEF F, h
    <2> QED
        BY <1>0, <2>3
<1>3. \E g : F(N, g)
    <2> HIDE DEF F
    <2>1. \A k \in 0 .. N : k \in S
        <3> HIDE DEF S, N
        <3> QED
            BY <1>0, <1>1, <1>2, StepByStep
    <2> QED
        BY <1>0, <2>1
<1>4. F(N, iter)
    BY <1>3, Zenon
<1>5. z[0] = b
    <2>1. 1 .. 0 = {} /\ 0 \in 0 .. N
        BY <1>0
    <2>2. iter[{}] = b
        BY <1>4
    <2> QED
        BY <2>1, <2>2
<1>6. ASSUME NEW k \in 1 .. N PROVE z[k] = Do(z[k - 1], w[k])
    <2>1. z[k] = iter[1 .. k] /\ z[k - 1] = iter[1 .. k - 1]
        BY <1>0
    <2> HIDE DEF iter, N
    <2>2. /\ 1 .. k \in SUBSET (1 .. N) /\ 1 .. k # {}
          /\ (1 .. k) \ {k} = 1 .. k - 1 /\ Max(1 .. k) = k
        BY <1>0, FirstPositions
    <2> QED
        BY <1>4, <2>1, <2>2
<1>7. z[N] = iter[DOMAIN w]
    BY <1>0
<1> HIDE DEF iter, z
<1> QED
    BY <1>b, <1>5, <1>6, <1>7, Zenon DEF b, Do, w


WithCandidate(s, k, q, v) == [s EXCEPT !.cand[k][q] = v]

(* The positions of a walk and the entities of its path *)
LEMMA WalkupMembers ==
    ASSUME NEW s, Typed(s), NEW e \in Entity
    PROVE  LET w == Walkup(s, e)
           IN  /\ w \in Seq(Entity) /\ Len(w) \in Nat /\ Len(w) >= 1
               /\ w[1] = e
               /\ \A k \in 1 .. Len(w) : w[k] \in Path(s, e) /\ w[k] \in Entity
               /\ \A f \in Path(s, e) : \E k \in 1 .. Len(w) : w[k] = f
<1> DEFINE w == Walkup(s, e)
<1>1. Climbs(s, e, w)
    <2>1. s.group \in [Thread -> Queue]
        BY DEF Typed
    <2> QED
        BY <2>1, WalkupIsWalk DEF IsWalk
<1>2. Path(s, e) = ToSet(w)
    BY DEF Path
<1> HIDE DEF w
<1> QED
    BY <1>1, <1>2, ToSetMember DEF w, Climbs

(* Setting one candidate of one queue is calm.                             *)
LEMMA OneCandidate ==
    ASSUME NEW s, Typed(s), NEW k0 \in Candidate, NEW q \in Queue,
           NEW v \in EntityOrNull, NEW S, v # NULL => v \in S /\ Sfq(s, v) = q
    PROVE  LET z == WithCandidate(s, k0, q, v)
           IN  /\ Calm(s, z, S)
               /\ z.cand[k0][q] = v
               /\ \A p \in Queue : z.cand[k0][p] \in {s.cand[k0][p], v}
<1> DEFINE z == WithCandidate(s, k0, q, v)
<1>1. /\ Frame(s, z) /\ SameThreads(s, z) /\ SameLoads(s, z)
      /\ z.timeline = s.timeline /\ z.curr = s.curr
      /\ z.cand = [s.cand EXCEPT ![k0][q] = v]
    BY Zenon DEF WithCandidate, Typed, Fields, Frame, SameThreads,
        SameLoads
<1> HIDE DEF z
<1>2. s.cand \in [Candidate -> [Queue -> EntityOrNull]]
    BY DEF Typed
<1>3. z.cand \in [Candidate -> [Queue -> EntityOrNull]]
    BY <1>1, <1>2
<1>4. \A k \in Candidate, p \in Queue :
        z.cand[k][p] = IF k = k0 /\ p = q THEN v ELSE s.cand[k][p]
    BY <1>1, <1>2
<1>5. Calm(s, z, S)
    BY <1>1, <1>3, <1>4 DEF Calm
<1> QED
    BY <1>4, <1>5 DEF z

(* To do nothing is calm.                                                  *)
LEMMA CalmAtFirst ==
    ASSUME NEW s, Typed(s), NEW S
    PROVE  Calm(s, s, S)
    BY DEF Typed, Calm, Frame, SameThreads, SameLoads

(* The entities that a walk sets as candidates are those it passes.        *)
LEMMA SetCandidateCalm ==
    ASSUME NEW s, Typed(s), NEW e \in Entity, NEW k0 \in Candidate
    PROVE  Calm(s, SetCandidate(s, k0, e), Path(s, e))
<1> DEFINE w == Walkup(s, e)
           n == Len(w)
           P == Path(s, e)
<1>1. PICK z : /\ z[0] = s
               /\ \A k \in 1 .. n : z[k] = CandidateStep(k0, z[k - 1], w[k])
               /\ SetCandidate(s, k0, e) = z[n]
    BY SetCandidateSteps DEF Typed
<1> DEFINE S == {k \in 0 .. n : Calm(s, z[k], P)}
<1>2. /\ n \in Nat /\ w \in Seq(Entity)
      /\ \A k \in 1 .. n : w[k] \in P /\ w[k] \in Entity
    BY WalkupMembers
<1> HIDE DEF w, P
<1>3. 0 \in S
    BY <1>1, <1>2, CalmAtFirst
<1>4. ASSUME NEW k \in 1 .. n, k - 1 \in S PROVE k \in S
    <2> DEFINE y == z[k - 1]
               f == w[k]
    <2>1. Calm(s, y, P)
        BY <1>4
    <2>2. /\ Typed(y) /\ Sfq(y, f) \in Queue
          /\ f \in EntityOrNull /\ f \in P
        BY <1>2, <2>1, CalmTypes, ParentTypes DEF Typed, EntityOrNull
    <2>3. z[k] = WithCandidate(y, k0, Sfq(y, f), f)
        BY <1>1, Zenon DEF CandidateStep, WithCandidate
    <2> HIDE DEF y, f
    <2>4. Calm(y, z[k], P)
        BY <2>2, <2>3, OneCandidate
    <2>5. Calm(s, z[k], P)
        BY <2>1, <2>4, CalmAfterCalm
    <2> QED
        BY <1>2, <2>5
<1>5. \A k \in 0 .. n : k \in S
    <2> HIDE DEF S, n
    <2> QED
        BY <1>2, <1>3, <1>4, StepByStep
<1>6. n \in S
    BY <1>2, <1>5
<1> QED
    BY <1>1, <1>6 DEF P

(* set_skip_candidate: the entities it sets are those the walk passes.     *)
LEMMA SetSkipCalm ==
    ASSUME NEW s, Typed(s), NEW e \in Entity
    PROVE  Calm(s, SetSkip(s, e), Path(s, e))
<1> DEFINE w == Walkup(s, e)
           n == Len(w)
           P == Path(s, e)
<1>1. PICK z : /\ z[0] = [s |-> s, stop |-> FALSE]
               /\ \A k \in 1 .. n : z[k] = SkipStep(s, z[k - 1], w[k])
               /\ SetSkip(s, e) = z[n].s
    BY SetSkipSteps DEF Typed
<1> DEFINE S == {k \in 0 .. n : Calm(s, z[k].s, P)}
<1>2. /\ n \in Nat /\ w \in Seq(Entity)
      /\ \A k \in 1 .. n : w[k] \in P /\ w[k] \in Entity
    BY WalkupMembers
<1> HIDE DEF w, P
<1>3. 0 \in S
    <2>1. z[0].s = s
        BY <1>1
    <2> QED
        BY <1>2, <2>1, CalmAtFirst
<1>4. ASSUME NEW k \in 1 .. n, k - 1 \in S PROVE k \in S
    <2> DEFINE y == z[k - 1].s
               f == w[k]
    <2>1. Calm(s, y, P)
        BY <1>4
    <2>2. Typed(y) /\ Sfq(y, f) = Sfq(s, f)
        BY <2>1, CalmTypes
    <2>7. /\ Sfq(y, f) \in Queue /\ f \in P
           /\ f \in EntityOrNull /\ "skip" \in Candidate
        BY <1>2, <2>2, ParentTypes DEF Typed, EntityOrNull, Candidate
    <2>3. \/ z[k] = z[k - 1]
          \/ z[k].s = WithCandidate(y, "skip", Sfq(s, f), f)
        <3>1. z[k] = SkipStep(s, z[k - 1], f)
            BY <1>1
        <3> DEFINE r == WithCandidate(y, "skip", Sfq(s, f), f)
        <3>2. z[k] = IF z[k - 1].stop THEN z[k - 1]
                     ELSE [s |-> r, stop |-> s.nr[Sfq(s, f)] > 1]
            BY <3>1, Zenon DEF SkipStep, WithCandidate
        <3> HIDE DEF r
        <3>3. z[k] = z[k - 1] \/ z[k].s = r
            BY <3>2
        <3> QED
            BY <3>3 DEF r
    <2> HIDE DEF f
    <2>4. CASE z[k] = z[k - 1]
        BY <1>4, <2>1, <2>4
    <2>5. CASE z[k].s = WithCandidate(y, "skip", Sfq(s, f), f)
        <3> HIDE DEF y
        <3>1. Calm(y, z[k].s, P)
            BY <2>2, <2>7, <2>5, OneCandidate
        <3>2. Calm(s, z[k].s, P)
            BY <2>1, <3>1, CalmAfterCalm
        <3> QED
            BY <1>2, <3>2
    <2> QED
        BY <2>3, <2>4, <2>5
<1>5. \A k \in 0 .. n : k \in S
    <2> HIDE DEF S, n
    <2> QED
        BY <1>2, <1>3, <1>4, StepByStep
<1>6. n \in S
    BY <1>2, <1>5
<1> QED
    BY <1>1, <1>6 DEF P

(* An entity whose candidacy is cleared is no candidate in its own queue.  *)
LEMMA ClearCandidateCalm ==
    ASSUME NEW s, Typed(s), NEW e \in Entity, NEW k0 \in Candidate
    PROVE  /\ Calm(s, ClearCandidate(s, k0, e), {})
           /\ ClearCandidate(s, k0, e).cand[k0][Sfq(s, e)] # e
<1> DEFINE w == Walkup(s, e)
           n == Len(w)
           q == Sfq(s, e)
<1>1. PICK z : /\ z[0] = [s |-> s, stop |-> FALSE]
               /\ \A k \in 1 .. n : z[k] = ClearStep(s, k0, z[k - 1], w[k])
               /\ ClearCandidate(s, k0, e) = z[n].s
    BY ZenonT(60), ClearCandidateSteps DEF Typed
<1> DEFINE P(k) == /\ z[k] = [s |-> z[k].s, stop |-> z[k].stop]
                   /\ Calm(s, z[k].s, {})
                   /\ k = 0 => ~ z[k].stop
                   /\ k # 0 => z[k].s.cand[k0][q] # e
           S == {k \in 0 .. n : P(k)}
<1>2. /\ n \in Nat /\ n >= 1 /\ w \in Seq(Entity) /\ w[1] = e
      /\ \A k \in 1 .. n : w[k] \in Entity
    BY WalkupMembers
<1>3. e # NULL /\ q \in Queue
    BY GroupAssumption, ParentTypes DEF Entity, Typed
<1> HIDE DEF w
<1>4. 0 \in S
    <2>1. z[0].s = s /\ z[0].stop = FALSE
        BY <1>1
    <2>2. Calm(s, z[0].s, {})
        BY <2>1, CalmAtFirst
    <2> QED
        BY <1>1, <1>2, <2>1, <2>2
<1>5. ASSUME NEW k \in 1 .. n, k - 1 \in S PROVE k \in S
    <2> DEFINE x == z[k - 1]
               y == x.s
               f == w[k]
    <2>1. /\ x = [s |-> x.s, stop |-> x.stop] /\ Calm(s, y, {})
          /\ k = 1 => ~ x.stop
          /\ k # 1 => y.cand[k0][q] # e
        <3>1. k - 1 = 0 <=> k = 1
            BY <1>2
        <3> QED
            BY <1>5, <3>1
    <2>2. Typed(y) /\ Sfq(s, f) \in Queue /\ NULL \in EntityOrNull
        BY <1>2, <2>1, CalmTypes, ParentTypes DEF Typed, EntityOrNull
    <2>3. z[k] = IF x.stop \/ s.cand[k0][Sfq(s, f)] # f
                 THEN [x EXCEPT !.stop = TRUE]
                 ELSE [x EXCEPT !.s.cand[k0][Sfq(s, f)] = NULL]
        BY <1>1, Zenon DEF ClearStep
    <2> HIDE DEF x, f
    <2>4. CASE x.stop \/ s.cand[k0][Sfq(s, f)] # f
        <3>1. z[k].s = y /\ z[k] = [s |-> z[k].s, stop |-> z[k].stop]
            BY <2>1, <2>3, <2>4
        <3>2. ASSUME k = 1 PROVE y.cand[k0][q] # e
            <4>1. f = e /\ s.cand[k0][q] # e
                BY <1>2, <2>1, <2>4, <3>2 DEF f
            <4> QED
                BY <1>3, <2>1, <4>1 DEF Calm
        <3>3. y.cand[k0][q] # e
            BY <2>1, <3>2
        <3> QED
            BY <1>2, <2>1, <3>1, <3>3
    <2>5. CASE ~ (x.stop \/ s.cand[k0][Sfq(s, f)] # f)
        <3> DEFINE r == WithCandidate(y, k0, Sfq(s, f), NULL)
        <3>1. z[k] = [x EXCEPT !.s.cand[k0][Sfq(s, f)] = NULL]
            BY <2>3, <2>5
        <3>2. z[k].s = r /\ z[k] = [s |-> z[k].s, stop |-> z[k].stop]
            BY <2>1, <3>1 DEF WithCandidate
        <3> HIDE DEF y
        <3>3. /\ Calm(y, r, {}) /\ r.cand[k0][Sfq(s, f)] = NULL
              /\ r.cand[k0][q] \in {y.cand[k0][q], NULL}
            BY <1>3, <2>2, OneCandidate
        <3> HIDE DEF r
        <3>4. Calm(s, r, {})
            BY <2>1, <3>3, CalmAfterCalm
        <3>5. r.cand[k0][q] # e
            <4>1. k = 1 => f = e
                BY <1>2 DEF f
            <4> QED
                BY <1>3, <2>1, <3>3, <4>1
        <3> QED
            BY <1>2, <3>2, <3>4, <3>5
    <2> QED
        BY <2>4, <2>5
<1>6. \A k \in 0 .. n : k \in S
    <2> HIDE DEF S, n
    <2> QED
        BY <1>2, <1>4, <1>5, StepByStep
<1>7. n \in S /\ n # 0
    BY <1>2, <1>6
<1> QED
    BY <1>1, <1>7

(* clear_candidates: the entity is no candidate of its queue afterwards.   *)
LEMMA ClearCandidatesCalm ==
    ASSUME NEW s, Typed(s), NEW e \in Entity
    PROVE  /\ Calm(s, ClearCandidates(s, e), {})
           /\ \A k \in Candidate :
                ClearCandidates(s, e).cand[k][Sfq(s, e)] # e
<1> DEFINE q == Sfq(s, e)
           a == ClearCandidate(s, "skip", e)
           b == ClearCandidate(a, "next", e)
           c == ClearCandidate(b, "last", e)
<1>1. /\ "skip" \in Candidate /\ "next" \in Candidate /\ "last" \in Candidate
      /\ Candidate = {"skip", "next", "last"}
      /\ q \in Queue /\ e # NULL
    BY GroupAssumption, ParentTypes DEF Candidate, Entity, Typed
<1>2. Calm(s, a, {}) /\ a.cand["skip"][q] # e
    BY <1>1, ClearCandidateCalm
<1> HIDE DEF a
<1>3. Typed(a) /\ Sfq(a, e) = q
    BY <1>2, CalmTypes
<1>4. Calm(a, b, {}) /\ b.cand["next"][q] # e
    BY <1>1, <1>3, ClearCandidateCalm
<1> HIDE DEF b
<1>5. Typed(b) /\ Sfq(b, e) = q
    BY <1>3, <1>4, CalmTypes
<1>6. Calm(b, c, {}) /\ c.cand["last"][q] # e
    BY <1>1, <1>5, ClearCandidateCalm
<1> HIDE DEF c
<1>7. Calm(s, c, {})
    BY SMTT(60), <1>2, <1>4, <1>6, CalmAfterCalm
<1>8. /\ b.cand["skip"][q] \in {a.cand["skip"][q], NULL}
      /\ c.cand["skip"][q] \in {b.cand["skip"][q], NULL}
      /\ c.cand["next"][q] \in {b.cand["next"][q], NULL}
    BY <1>1, <1>4, <1>6 DEF Calm
<1>9. \A k \in Candidate : c.cand[k][q] # e
    BY <1>1, <1>2, <1>4, <1>6, <1>8
<1> QED
    BY <1>7, <1>9 DEF a, b, c, ClearCandidates

-----------------------------------------------------------------------------
(* Joining and leaving a queue *)

(* A KASSERT that holds changes nothing.                                   *)
LEMMA KassertQuiet ==
    ASSUME NEW s, DOMAIN s = Fields, NEW cond, cond = TRUE, NEW msg
    PROVE  Quiet(s, Kassert(s, cond, msg))
    BY Zenon DEF Kassert, Quiet, Frame, SameThreads, SameLoads, Fields

(* Two quiet steps, one after the other, are one.                          *)
LEMMA QuietAfterQuiet ==
    ASSUME NEW s, NEW y, Quiet(s, y), NEW z, Quiet(y, z)
    PROVE  Quiet(s, z)
    BY DEF Quiet, Frame, SameThreads, SameLoads

(* The group of a queue is not in that queue. *)
LEMMA NoSelfParent ==
    ASSUME NEW s, s.group \in [Thread -> Queue], NEW e \in Entity
    PROVE  Sfq(s, e) # e
<1>1. CASE e \in Group
    <2>1. \E g \in {e} : Parent[g] \notin {e}
        BY ZenonT(60), <1>1, GroupAssumption
    <2> QED
        BY <1>1, <2>1, GroupAssumption DEF Sfq
<1>2. CASE e \in Thread
    BY <1>2, GroupAssumption DEF Sfq, Queue
<1> QED
    BY <1>1, <1>2 DEF Entity

(* What __enqueue_entity, account_entity_enqueue and joining do together *)
Joined(s, e, z) ==
    LET q == Sfq(s, e)
    IN  /\ Frame(s, z)
        /\ z.joined = s.joined \cup {e}
        /\ z.td_state = IF e \in Thread
                        THEN [s.td_state EXCEPT ![e] = "runq"]
                        ELSE s.td_state
        /\ z.curr = s.curr /\ z.cand = s.cand /\ z.weight = s.weight
        /\ z.timeline \in [Queue -> Seq(Entity)]
        /\ \A p \in Queue \ {q} : z.timeline[p] = s.timeline[p]
        /\ IsInjective(z.timeline[q])
        /\ ToSet(z.timeline[q]) = ToSet(s.timeline[q]) \cup {e}
        /\ z.load = [s.load EXCEPT ![q] = s.load[q] + s.weight[e]]
        /\ z.nr = [s.nr EXCEPT ![q] = s.nr[q] + 1]
        /\ z.rq_load = IF q = Root THEN s.rq_load + s.weight[e]
                       ELSE s.rq_load

(* Every queue is in order after an entity has joined one.                 *)
LEMMA JoinedSound ==
    ASSUME NEW s, Sound(s), NEW e \in Entity \ s.joined,
           s.curr[Sfq(s, e)] # e, s.weight[e] > 0,
           NEW z, Joined(s, e, z)
    PROVE  Sound(z)
<1> DEFINE q == Sfq(s, e)
           M == Members(s, q)
<1>1. /\ Typed(s) /\ WeightsOK(s) /\ s.panics = {}
      /\ \A p \in Queue : QueueOK(s, p)
      /\ s.rq_load = s.load[Root]
    BY DEF Sound
<1>2. /\ q \in Queue /\ e \in Entity /\ e # NULL
      /\ \A f : Sfq(z, f) = Sfq(s, f)
      /\ \A p \in Queue \ {q} : Members(z, p) = Members(s, p)
      /\ Members(z, q) = M \cup {e} /\ e \notin M
      /\ M \in SUBSET Entity /\ IsFiniteSet(M)
      /\ s.load[q] \in Nat /\ s.nr[q] \in Nat /\ s.weight[e] \in Nat
    <2>1. q \in Queue /\ e \in Entity /\ e # NULL
        BY <1>1, ParentTypes, GroupAssumption DEF Typed, Entity
    <2>2. \A f : Sfq(z, f) = Sfq(s, f)
        BY <1>1, FrameTypes DEF Joined
    <2>3. z.joined = s.joined \cup {e}
        BY DEF Joined
    <2>4. /\ \A p \in Queue \ {q} : Members(z, p) = Members(s, p)
          /\ Members(z, q) = M \cup {e} /\ e \notin M
        BY <2>2, <2>3 DEF Members
    <2>5. /\ M \in SUBSET Entity /\ IsFiniteSet(M)
          /\ s.load[q] \in Nat /\ s.nr[q] \in Nat /\ s.weight[e] \in Nat
        BY <1>1, <2>1, QueuesAreFinite DEF Typed
    <2> QED
        BY <2>1, <2>2, <2>4, <2>5
<1>3. ASSUME NEW p \in Queue \ {q} PROVE QueueOK(z, p)
    <2>1. /\ z.group = s.group /\ z.timeline[p] = s.timeline[p]
          /\ z.curr = s.curr /\ z.cand = s.cand /\ z.weight = s.weight
          /\ z.load[p] = s.load[p] /\ z.nr[p] = s.nr[p]
        BY ZenonT(60), <1>1 DEF Joined, Frame, Typed
    <2> QED
        BY <1>1, <1>2, <2>1, QueueFrame
<1>4. QueueOK(z, q)
    <2>1. /\ QueueOK(s, q) /\ z.curr = s.curr /\ z.cand = s.cand
          /\ z.weight = s.weight /\ IsInjective(z.timeline[q])
          /\ ToSet(z.timeline[q]) = ToSet(s.timeline[q]) \cup {e}
          /\ z.load[q] = s.load[q] + s.weight[e]
          /\ z.nr[q] = s.nr[q] + 1
          /\ s.curr[q] # e
        BY ZenonT(60), <1>1, <1>2 DEF Joined, Typed
    <2>2. TotalWeight(s.weight, M \cup {e}) = s.load[q] + s.weight[e]
        <3>1. \A u \in M \cup {e} : s.weight[u] \in Nat
            BY <1>1, <1>2, QueuesAreFinite
        <3>2. s.load[q] = TotalWeight(s.weight, M)
            BY <2>1 DEF QueueOK
        <3>3. TotalWeight(s.weight, M \cup {e})
                = TotalWeight(s.weight, M) + s.weight[e]
            BY <1>2, <3>1, TotalWeightAdds, Zenon
        <3> QED
            BY <3>2, <3>3
    <2>3. Cardinality(M \cup {e}) = s.nr[q] + 1
        <3>1. s.nr[q] = Cardinality(M)
            BY <2>1 DEF QueueOK
        <3>2. Cardinality(M \cup {e}) = Cardinality(M) + 1
            BY <1>2, FS_AddElement, ZenonT(60)
        <3> QED
            BY <3>1, <3>2
    <2>4. ToSet(s.timeline[q]) \cup {e} = (M \cup {e}) \ {s.curr[q]}
        BY <1>2, <2>1 DEF QueueOK
    <2> HIDE DEF q, M
    <2> QED
        BY <1>2, <2>1, <2>2, <2>3, <2>4 DEF QueueOK, M
<1>5. Typed(z)
    <2>1. /\ z.joined \in SUBSET Entity /\ z.td_state \in [Thread -> TdState]
          /\ z.load \in [Queue -> Nat] /\ z.nr \in [Queue -> Nat]
        <3>1. z.joined \in SUBSET Entity
            BY <1>1 DEF Joined, Typed
        <3>2. z.td_state \in [Thread -> TdState]
            <4>1. s.td_state \in [Thread -> TdState]
                BY <1>1 DEF Typed
            <4>2. z.td_state = IF e \in Thread
                               THEN [s.td_state EXCEPT ![e] = "runq"]
                               ELSE s.td_state
                BY DEF Joined
            <4> QED
                BY <4>1, <4>2 DEF TdState
        <3>3. s.load \in [Queue -> Nat] /\ s.nr \in [Queue -> Nat]
            BY <1>1 DEF Typed
        <3>4. /\ z.load = [s.load EXCEPT ![q] = s.load[q] + s.weight[e]]
              /\ z.nr = [s.nr EXCEPT ![q] = s.nr[q] + 1]
            BY DEF Joined
        <3> HIDE DEF q, M
        <3> QED
            BY <1>2, <3>1, <3>2, <3>3, <3>4
    <2> QED
        BY <1>1, <2>1 DEF Joined, Typed, Frame
<1>6. WeightsOK(z) /\ z.panics = {}
    BY <1>1 DEF Joined, WeightsOK, Frame
<1>7. z.rq_load = z.load[Root]
    BY <1>1, <1>2 DEF Joined, Typed, Queue
<1> QED
    BY <1>3, <1>4, <1>5, <1>6, <1>7 DEF Sound

Entered(s, e, z) ==
    /\ Frame(s, z)
    /\ z.joined = s.joined \cup {e}
    /\ z.td_state = IF e \in Thread
                    THEN [s.td_state EXCEPT ![e] = "runq"] ELSE s.td_state
    /\ z.curr = s.curr
    /\ Sfq(s, e) \in Group => z.weight[Sfq(s, e)] > 0

(* enqueue_entity: what waits for an entity of a queue that is not empty   *)
(* has a weight, which the next level asks for.                            *)
LEMMA EnqueueEntityEffect ==
    ASSUME NEW s, Sound(s), NEW e \in Entity \ s.joined,
           s.curr[Sfq(s, e)] # e, s.weight[e] > 0, NEW wakeup
    PROVE  LET z == EnqueueEntity(s, e, wakeup)
           IN  Sound(z) /\ Entered(s, e, z)
<1> DEFINE q == Sfq(s, e)
           s0 == Kassert(s, e \notin s.joined, "joined")
           s1 == IF wakeup THEN s0
                 ELSE [s0 EXCEPT !.vruntime[e] = @ + s.vtime[q]]
           s2 == UpdateCurr(s1, q)
           s3 == IF wakeup THEN PlaceWakeup(s2, e) ELSE s2
           s4 == IF e \in Thread THEN [s3 EXCEPT !.td_state[e] = "runq"]
                 ELSE s3
           t == EnqueueTimeline(s4, e)
           a == AccountEnqueue(t, e)
           x == [a EXCEPT !.joined = @ \cup {e}]
           y == UpdateSfqShares(a, q)
           z == [y EXCEPT !.joined = @ \cup {e}]
<1>0. EnqueueEntity(s, e, wakeup) = z
    BY Zenon DEF EnqueueEntity
<1>1. /\ Typed(s) /\ DOMAIN s = Fields /\ QueueOK(s, q) /\ q \in Queue
      /\ e \in Entity /\ q # e /\ s.rq_load \in Nat
      /\ s.weight \in [Entity -> Nat] /\ s.load \in [Queue -> Nat]
      /\ s.nr \in [Queue -> Nat] /\ Root \in Queue
    BY ParentTypes, NoSelfParent DEF Sound, Typed, Queue
<1>2. Quiet(s, s3)
    <2>1. Quiet(s, s0)
        BY <1>1, KassertQuiet
    <2> HIDE DEF s0
    <2>2. Quiet(s0, s1)
        <3>1. DOMAIN s0 = Fields
            BY <2>1 DEF Quiet, Frame
        <3>2. Quiet(s0, [s0 EXCEPT !.vruntime[e] = @ + s.vtime[q]])
            BY <3>1, Zenon DEF Quiet, Frame, SameThreads, SameLoads, Fields
        <3> QED
            BY <3>1, <3>2, QuietOperations
    <2> HIDE DEF s1
    <2>3. Quiet(s1, s2)
        BY <2>2, QuietOperations DEF Quiet, Frame
    <2> HIDE DEF s2
    <2>4. Quiet(s2, s3)
        BY <2>3, QuietOperations DEF Quiet, Frame
    <2> HIDE DEF s3
    <2> QED
        BY <2>1, <2>2, <2>3, <2>4, QuietAfterQuiet
<1> HIDE DEF s3
<1>3. /\ Frame(s, s4) /\ SameLoads(s, s4) /\ s4.joined = s.joined
      /\ s4.timeline = s.timeline /\ s4.curr = s.curr /\ s4.cand = s.cand
      /\ s4.td_state = IF e \in Thread
                       THEN [s.td_state EXCEPT ![e] = "runq"]
                       ELSE s.td_state
    <2> DEFINE r == [s3 EXCEPT !.td_state[e] = "runq"]
    <2>1. /\ Frame(s3, r) /\ SameLoads(s3, r) /\ r.joined = s3.joined
          /\ r.timeline = s3.timeline /\ r.curr = s3.curr
          /\ r.cand = s3.cand
          /\ r.td_state = [s3.td_state EXCEPT ![e] = "runq"]
        <3>1. DOMAIN s3 = Fields
            BY <1>2 DEF Quiet, Frame
        <3> QED
            BY <3>1, Zenon DEF Frame, SameLoads, Fields
    <2> HIDE DEF r
    <2>2. s4 = IF e \in Thread THEN r ELSE s3
        BY DEF r
    <2> QED
        BY <1>2, <2>1, <2>2 DEF Quiet, Frame, SameThreads, SameLoads
<1> HIDE DEF s4
<1>4. /\ Typed(s4) /\ Sfq(s4, e) = q
      /\ IsInjective(s4.timeline[q]) /\ e \notin ToSet(s4.timeline[q])
    <2>1. s4.td_state \in [Thread -> TdState]
        BY ZenonT(60), <1>1, <1>3 DEF Typed, TdState
    <2>2. Typed(s4)
        BY <1>1, <1>3, <2>1 DEF Typed, Frame, SameLoads
    <2>3. Sfq(s4, e) = q
        BY <1>1, <1>3, FrameTypes
    <2>4. e \notin Members(s, q)
        BY DEF Members
    <2>5. /\ ToSet(s.timeline[q]) = Members(s, q) \ {s.curr[q]}
          /\ IsInjective(s.timeline[q])
        BY <1>1 DEF QueueOK
    <2> QED
        BY <1>3, <2>2, <2>3, <2>4, <2>5
<1>5. TimelineGains(s4, e, t)
    BY <1>1, <1>4, EnqueueTimelineEffect
<1> HIDE DEF t
<1>6. /\ DOMAIN t = Fields /\ Sfq(t, e) = q
      /\ ParentEntity(t, e) = NULL <=> q = Root
    <2>1. Frame(s4, t)
        BY <1>5 DEF TimelineGains
    <2>2. /\ DOMAIN t = Fields /\ Sfq(t, e) = q
          /\ t.group \in [Thread -> Queue]
        BY <1>4, <2>1, FrameTypes
    <2> QED
        BY <1>1, <2>2, ParentTypes
<1>7. LoadAdded(t, e, a)
    BY <1>6, AccountEffect
<1> HIDE DEF a
<1>8. DOMAIN a = Fields
    BY <1>7 DEF LoadAdded, Frame
<1>9. /\ Frame(a, x) /\ SameLoads(a, x) /\ x.joined = a.joined \cup {e}
      /\ x.timeline = a.timeline /\ x.curr = a.curr /\ x.cand = a.cand
      /\ x.td_state = a.td_state
    BY <1>8, Zenon DEF Frame, SameLoads, Fields
<1> HIDE DEF x
<1>10. Joined(s, e, x)
    <2>1. /\ a.load = [s.load EXCEPT ![q] = s.load[q] + s.weight[e]]
          /\ a.nr = [s.nr EXCEPT ![q] = s.nr[q] + 1]
          /\ a.rq_load = IF q = Root THEN s.rq_load + s.weight[e]
                         ELSE s.rq_load
          /\ a.weight = s.weight /\ a.timeline = t.timeline
          /\ a.curr = s.curr /\ a.cand = s.cand
          /\ a.joined = s.joined /\ a.td_state = s4.td_state
          /\ Frame(s, a)
        <3> HIDE DEF q
        <3> QED
            BY <1>3, <1>4, <1>5, <1>6, <1>7 DEF LoadAdded, TimelineGains,
                SameThreads, SameLoads, Frame
    <2>2. /\ t.timeline \in [Queue -> Seq(Entity)]
          /\ \A p \in Queue \ {q} : t.timeline[p] = s.timeline[p]
          /\ IsInjective(t.timeline[q])
          /\ ToSet(t.timeline[q]) = ToSet(s.timeline[q]) \cup {e}
        BY <1>3, <1>4, <1>5 DEF TimelineGains
    <2> HIDE DEF q
    <2> QED
        BY <1>3, <1>9, <2>1, <2>2 DEF Joined, SameLoads, Frame, q
<1>11. Sound(x)
    BY <1>10, JoinedSound
<1>12. Typed(a) /\ a.rq_load \in Int
    <2>1. a.joined \in SUBSET Entity
        <3>1. a.joined = s.joined
            BY <1>3, <1>5, <1>7 DEF LoadAdded, TimelineGains, SameThreads
        <3> QED
            BY <1>1, <3>1 DEF Typed
    <2>2. Typed(x) /\ x.rq_load = x.load[Root]
        BY <1>11 DEF Sound
    <2>3. Typed(a)
        BY <1>8, <1>9, <2>1, <2>2 DEF Typed, Frame, SameLoads
    <2>4. a.rq_load = a.load[Root]
        BY <1>9, <2>2 DEF SameLoads
    <2>5. a.load \in [Queue -> Nat]
        BY <2>3 DEF Typed
    <2> QED
        BY <1>1, <2>3, <2>4, <2>5
<1>13. Reweighed(a, q, y)
    BY <1>1, <1>12, UpdateSfqSharesEffect
<1> HIDE DEF y
<1>14. /\ Frame(y, z) /\ SameLoads(y, z) /\ z.joined = y.joined \cup {e}
       /\ z.timeline = y.timeline /\ z.curr = y.curr /\ z.cand = y.cand
       /\ z.td_state = y.td_state
    <2>1. DOMAIN y = Fields
        BY <1>13 DEF Reweighed, Frame
    <2> QED
        BY <2>1, Zenon DEF Frame, SameLoads, Fields
<1> HIDE DEF z
<1>15. Reweighed(x, q, z)
    <2>1. q \in x.joined <=> q \in a.joined
        BY <1>1, <1>9
    <2>2. Sfq(x, q) = Sfq(a, q)
        BY <1>9 DEF Frame, Sfq
    <2> HIDE DEF q
    <2> QED
        BY <1>9, <1>13, <1>14, <2>1, <2>2 DEF Reweighed, Frame, SameThreads,
            SameLoads
<1>16. Sound(z) /\ (q \in Group => z.weight[q] > 0)
    BY <1>1, <1>11, <1>15, ReweighedSound
<1>17. Entered(s, e, z)
    BY <1>10, <1>15, <1>16 DEF Joined, Reweighed, SameThreads, Entered, Frame
<1> QED
    BY <1>0, <1>16, <1>17

(* What __dequeue_entity, account_entity_dequeue, clear_candidates and     *)
(* leaving do together                                                     *)
Left(s, e, z) ==
    LET q == Sfq(s, e)
    IN  /\ Frame(s, z)
        /\ z.joined = s.joined \ {e}
        /\ z.td_state = s.td_state
        /\ z.curr = s.curr /\ z.weight = s.weight
        /\ z.cand \in [Candidate -> [Queue -> EntityOrNull]]
        /\ \A k \in Candidate, p \in Queue :
                z.cand[k][p] \in {s.cand[k][p], NULL}
        /\ \A k \in Candidate : z.cand[k][q] # e
        /\ z.timeline \in [Queue -> Seq(Entity)]
        /\ \A p \in Queue \ {q} : z.timeline[p] = s.timeline[p]
        /\ IsInjective(z.timeline[q])
        /\ ToSet(z.timeline[q]) = ToSet(s.timeline[q]) \ {e}
        /\ z.load = [s.load EXCEPT ![q] = s.load[q] - s.weight[e]]
        /\ z.nr = [s.nr EXCEPT ![q] = s.nr[q] - 1]
        /\ z.rq_load = IF q = Root THEN s.rq_load - s.weight[e]
                       ELSE s.rq_load

(* Every queue is in order after an entity has left one.                   *)
LEMMA LeftSound ==
    ASSUME NEW s, Sound(s), NEW e \in s.joined, NEW z, Left(s, e, z)
    PROVE  Sound(z)
<1> DEFINE q == Sfq(s, e)
           M == Members(s, q)
<1>1. /\ Typed(s) /\ WeightsOK(s) /\ s.panics = {}
      /\ \A p \in Queue : QueueOK(s, p)
      /\ s.rq_load = s.load[Root]
    BY DEF Sound
<1>2. /\ q \in Queue /\ e \in Entity /\ e # NULL
      /\ \A f : Sfq(z, f) = Sfq(s, f)
      /\ \A p \in Queue \ {q} : Members(z, p) = Members(s, p)
      /\ Members(z, q) = M \ {e} /\ e \in M
      /\ M \in SUBSET Entity /\ IsFiniteSet(M)
      /\ s.load[q] \in Nat /\ s.nr[q] \in Nat /\ s.weight[e] \in Nat
    <2>1. q \in Queue /\ e \in Entity /\ e # NULL
        BY ZenonT(60), <1>1, ParentTypes, GroupAssumption DEF Typed, Entity
    <2>2. \A f : Sfq(z, f) = Sfq(s, f)
        BY <1>1, FrameTypes DEF Left
    <2>3. z.joined = s.joined \ {e}
        BY DEF Left
    <2>4. /\ \A p \in Queue \ {q} : Members(z, p) = Members(s, p)
          /\ Members(z, q) = M \ {e} /\ e \in M
        BY <2>2, <2>3 DEF Members
    <2>5. /\ M \in SUBSET Entity /\ IsFiniteSet(M)
          /\ s.load[q] \in Nat /\ s.nr[q] \in Nat /\ s.weight[e] \in Nat
        BY <1>1, <2>1, QueuesAreFinite DEF Typed
    <2> QED
        BY <2>1, <2>2, <2>4, <2>5
<1>3. ASSUME NEW p \in Queue \ {q} PROVE QueueOK(z, p)
    <2>1. /\ z.group = s.group /\ z.timeline[p] = s.timeline[p]
          /\ z.curr = s.curr /\ z.weight = s.weight
          /\ \A k \in Candidate : z.cand[k][p] \in {s.cand[k][p], NULL}
          /\ z.load[p] = s.load[p] /\ z.nr[p] = s.nr[p]
        BY ZenonT(60), <1>1 DEF Left, Frame, Typed
    <2> QED
        BY SMTT(60), <1>1, <1>2, <2>1, QueueFrame
<1>4. /\ TotalWeight(s.weight, M \ {e}) = s.load[q] - s.weight[e]
      /\ TotalWeight(s.weight, M \ {e}) \in Nat
      /\ Cardinality(M \ {e}) = s.nr[q] - 1
      /\ Cardinality(M \ {e}) \in Nat
    <2>1. /\ s.load[q] = TotalWeight(s.weight, M)
          /\ s.nr[q] = Cardinality(M)
        BY <1>1, <1>2 DEF QueueOK
    <2>2. /\ \A u \in M : s.weight[u] \in Nat
          /\ \A u \in M \ {e} : s.weight[u] \in Nat
          /\ IsFiniteSet(M \ {e})
        BY <1>1, <1>2, QueuesAreFinite, FS_Subset
    <2>3. TotalWeight(s.weight, M \ {e})
            = TotalWeight(s.weight, M) - s.weight[e]
        BY <1>2, <2>2, TotalWeightSubtracts, Zenon
    <2>4. TotalWeight(s.weight, M \ {e}) \in Nat
        <3>1. IsFiniteSet(Units(s.weight, M \ {e}))
            BY <2>2, UnitsFinite
        <3> QED
            BY <3>1, FS_CardinalityType DEF TotalWeight, Units
    <2>5. /\ Cardinality(M \ {e}) = Cardinality(M) - 1
          /\ Cardinality(M \ {e}) \in Nat
        BY <1>2, <2>2, FS_RemoveElement, FS_CardinalityType
    <2> QED
        BY <2>1, <2>3, <2>4, <2>5
<1>5. /\ z.load[q] = s.load[q] - s.weight[e] /\ z.nr[q] = s.nr[q] - 1
      /\ z.load \in [Queue -> Nat] /\ z.nr \in [Queue -> Nat]
    <2>1. /\ z.load = [s.load EXCEPT ![q] = s.load[q] - s.weight[e]]
          /\ z.nr = [s.nr EXCEPT ![q] = s.nr[q] - 1]
          /\ s.load \in [Queue -> Nat] /\ s.nr \in [Queue -> Nat]
        BY <1>1 DEF Left, Typed
    <2> HIDE DEF q, M
    <2> QED
        BY <1>2, <1>4, <2>1
<1>6. QueueOK(z, q)
    <2>1. /\ QueueOK(s, q) /\ z.curr = s.curr /\ z.weight = s.weight
          /\ IsInjective(z.timeline[q])
          /\ ToSet(z.timeline[q]) = ToSet(s.timeline[q]) \ {e}
          /\ \A k \in Candidate : /\ z.cand[k][q] \in {s.cand[k][q], NULL}
                                  /\ z.cand[k][q] # e
        BY <1>1, <1>2 DEF Left
    <2>2. \A k \in Candidate : z.cand[k][q] \in (M \ {e}) \cup {NULL}
        BY <2>1 DEF QueueOK
    <2>3. ToSet(z.timeline[q]) = (M \ {e}) \ {s.curr[q]}
        BY <2>1 DEF QueueOK
    <2>4. z.curr[q] # NULL => Sfq(z, z.curr[q]) = q
        BY <1>2, <2>1 DEF QueueOK
    <2> HIDE DEF q, M
    <2> QED
        BY <1>2, <1>4, <1>5, <2>1, <2>2, <2>3, <2>4 DEF QueueOK
<1>7. Typed(z)
    <2>1. z.joined \in SUBSET Entity
        BY <1>1 DEF Left, Typed
    <2> QED
        BY <1>1, <1>5, <2>1 DEF Left, Typed, Frame
<1>8. WeightsOK(z) /\ z.panics = {}
    BY <1>1 DEF Left, WeightsOK, Frame
<1>9. z.rq_load = z.load[Root]
    <2>1. /\ z.load = [s.load EXCEPT ![q] = s.load[q] - s.weight[e]]
          /\ s.load \in [Queue -> Nat] /\ Root \in Queue
          /\ z.rq_load = IF q = Root THEN s.rq_load - s.weight[e]
                         ELSE s.rq_load
        BY <1>1 DEF Left, Typed, Queue
    <2> HIDE DEF q
    <2> QED
        BY <1>1, <1>2, <2>1
<1> QED
    BY <1>3, <1>6, <1>7, <1>8, <1>9 DEF Sound

Exited(s, e, z) ==
    /\ Frame(s, z)
    /\ z.joined = s.joined \ {e}
    /\ z.td_state = s.td_state
    /\ z.curr = s.curr

(* OutOfTimeline takes an entity of the timeline out, wherever it is. *)
LEMMA OutOfTimelineEffect ==
    ASSUME NEW s, Typed(s), NEW e \in Entity,
           IsInjective(s.timeline[Sfq(s, e)])
    PROVE  TimelineLoses(s, e, OutOfTimeline(s, e))
<1> DEFINE q == Sfq(s, e)
<1>1. CASE e \in ToSet(s.timeline[q])
    BY <1>1, DequeueTimelineEffect DEF OutOfTimeline
<1>2. CASE e \notin ToSet(s.timeline[q])
    <2>1. OutOfTimeline(s, e) = s
        BY <1>2 DEF OutOfTimeline
    <2>2. ToSet(s.timeline[q]) = ToSet(s.timeline[q]) \ {e}
        BY <1>2
    <2> HIDE DEF q
    <2> QED
        BY <2>1, <2>2 DEF q, TimelineLoses, Typed, Frame, SameThreads,
            SameLoads
<1> QED
    BY <1>1, <1>2

(* dequeue_entity *)
LEMMA DequeueEntityEffect ==
    ASSUME NEW s, Sound(s), NEW e \in s.joined, NEW sleep
    PROVE  LET z == DequeueEntity(s, e, sleep)
           IN  Sound(z) /\ Exited(s, e, z)
<1> DEFINE q == Sfq(s, e)
           a == UpdateCurr(s, q)
           b == ClearCandidates(a, e)
           c == OutOfTimeline(b, e)
           l == Leave(c, e, sleep)
           v == UpdateSfqVtime(l, q)
           z == UpdateSfqShares(v, q)
<1>0. DequeueEntity(s, e, sleep) = z
    BY Zenon DEF DequeueEntity
<1>1. /\ Typed(s) /\ DOMAIN s = Fields /\ QueueOK(s, q) /\ q \in Queue
      /\ e \in Entity
    BY ParentTypes DEF Sound, Typed
<1>2. Quiet(s, a)
    BY <1>1, QuietOperations
<1> HIDE DEF a
<1>3. Typed(a) /\ Sfq(a, e) = q
    BY <1>1, <1>2, QuietTypes, FrameTypes DEF Quiet
<1>4. Calm(a, b, {}) /\ \A k \in Candidate : b.cand[k][q] # e
    BY <1>1, <1>3, ClearCandidatesCalm
<1> HIDE DEF b
<1>5. Calm(s, b, {})
    BY <1>1, <1>2, <1>4, QuietIsCalm, CalmAfterCalm
<1>6. Typed(b) /\ Sfq(b, e) = q /\ IsInjective(b.timeline[q])
    <2>1. Typed(b) /\ Sfq(b, e) = q
        BY <1>1, <1>5, CalmTypes
    <2> QED
        BY <1>1, <1>5, <2>1 DEF Calm, QueueOK
<1>7. TimelineLoses(b, e, c)
    BY <1>1, <1>6, OutOfTimelineEffect
<1> HIDE DEF c
<1>8. /\ DOMAIN c = Fields /\ Sfq(c, e) = q
      /\ ParentEntity(c, e) = NULL <=> q = Root
    <2>1. Frame(b, c)
        BY <1>7 DEF TimelineLoses
    <2>2. /\ DOMAIN c = Fields /\ Sfq(c, e) = q
          /\ c.group \in [Thread -> Queue]
        BY <1>6, <2>1, FrameTypes
    <2> QED
        BY <1>1, <2>2, ParentTypes
<1> DEFINE d == AccountDequeue(c, e)
<1>9. LoadTaken(c, e, d)
    BY <1>8, AccountEffect
<1>10. /\ Frame(d, l) /\ SameLoads(d, l) /\ l.joined = d.joined \ {e}
       /\ l.timeline = d.timeline /\ l.curr = d.curr /\ l.cand = d.cand
       /\ l.td_state = d.td_state
    <2>1. DOMAIN d = Fields
        BY <1>9 DEF LoadTaken, Frame
    <2>2. l = [d EXCEPT !.joined = @ \ {e},
                        !.vruntime[e] = IF sleep THEN @
                                        ELSE @ - c.vtime[Sfq(c, e)]]
        BY Zenon DEF Leave
    <2> HIDE DEF d, l
    <2> QED
        BY <2>1, <2>2, ZenonT(60) DEF Frame, SameLoads, Fields
<1> HIDE DEF d, l
<1>11. Left(s, e, l)
    <2>1. /\ d.load = [s.load EXCEPT ![q] = s.load[q] - s.weight[e]]
          /\ d.nr = [s.nr EXCEPT ![q] = s.nr[q] - 1]
          /\ d.rq_load = IF q = Root THEN s.rq_load - s.weight[e]
                         ELSE s.rq_load
          /\ d.weight = s.weight /\ d.timeline = c.timeline
          /\ d.curr = s.curr /\ d.cand = b.cand
          /\ d.joined = s.joined /\ d.td_state = s.td_state
          /\ Frame(s, d)
        <3> HIDE DEF q
        <3> QED
            BY <1>5, <1>7, <1>8, <1>9 DEF LoadTaken, TimelineLoses,
                SameThreads, SameLoads, Frame, Calm
    <2>2. /\ c.timeline \in [Queue -> Seq(Entity)]
          /\ \A p \in Queue \ {q} : c.timeline[p] = s.timeline[p]
          /\ IsInjective(c.timeline[q])
          /\ ToSet(c.timeline[q]) = ToSet(s.timeline[q]) \ {e}
        BY <1>5, <1>6, <1>7 DEF TimelineLoses, Calm
    <2>3. /\ b.cand \in [Candidate -> [Queue -> EntityOrNull]]
          /\ \A k \in Candidate, p \in Queue :
                b.cand[k][p] \in {s.cand[k][p], NULL}
        BY <1>5 DEF Calm
    <2> HIDE DEF q
    <2> QED
        BY <1>4, <1>10, <2>1, <2>2, <2>3 DEF Left, SameLoads, Frame, q
<1>12. Sound(l)
    BY <1>11, LeftSound
<1>13. Typed(l) /\ DOMAIN l = Fields
    BY <1>12 DEF Sound, Typed
<1>14. Quiet(l, v)
    BY <1>13, QuietOperations
<1> HIDE DEF v
<1>15. Sound(v)
    BY <1>12, <1>13, <1>14, QuietIsCalm, CalmSound
<1>16. Typed(v) /\ v.rq_load \in Int
    <2>1. Typed(v) /\ v.rq_load = v.load[Root] /\ Root \in Queue
        BY <1>15 DEF Sound, Queue
    <2>2. v.load \in [Queue -> Nat]
        BY <2>1 DEF Typed
    <2> QED
        BY <2>1, <2>2
<1>17. Reweighed(v, q, z)
    BY <1>1, <1>16, UpdateSfqSharesEffect
<1> HIDE DEF z
<1>18. Sound(z)
    BY <1>1, <1>15, <1>17, ReweighedSound
<1>19. Exited(s, e, z)
    BY <1>11, <1>14, <1>17 DEF Left, Quiet, Reweighed, SameThreads, Exited,
        Frame
<1> QED
    BY <1>0, <1>18, <1>19

-----------------------------------------------------------------------------
(* Starting and ending to run *)

(* The queue q runs v, an entity of its own or none. *)
CurrBecomes(s, q, v, z) ==
    /\ Frame(s, z) /\ z.joined = s.joined /\ SameLoads(s, z)
    /\ z.cand = s.cand
    /\ z.curr = [s.curr EXCEPT ![q] = v]
    /\ z.timeline \in [Queue -> Seq(Entity)]
    /\ \A p \in Queue \ {q} : z.timeline[p] = s.timeline[p]
    /\ IsInjective(z.timeline[q])
    /\ ToSet(z.timeline[q]) = Members(s, q) \ {v}

(* Every queue is in order after one of them has taken or put back its     *)
(* current entity.                                                         *)
LEMMA CurrSound ==
    ASSUME NEW s, Sound(s), NEW q \in Queue, NEW v \in EntityOrNull,
           v # NULL => Sfq(s, v) = q,
           NEW z, CurrBecomes(s, q, v, z), z.td_state \in [Thread -> TdState]
    PROVE  /\ Sound(z)
           /\ \A p : Members(z, p) = Members(s, p)
           /\ \A X : Nested(s, X) => Nested(z, X)
<1>1. /\ Typed(s) /\ WeightsOK(s) /\ s.panics = {}
      /\ \A p \in Queue : QueueOK(s, p)
      /\ s.rq_load = s.load[Root] /\ s.curr \in [Queue -> EntityOrNull]
    BY DEF Sound, Typed
<1>2. /\ \A e : Sfq(z, e) = Sfq(s, e)
      /\ \A p : Members(z, p) = Members(s, p)
    BY <1>1, FrameTypes, MembersFrame DEF CurrBecomes, Frame
<1>3. ASSUME NEW p \in Queue \ {q} PROVE QueueOK(z, p)
    <2>1. /\ z.group = s.group /\ z.timeline[p] = s.timeline[p]
          /\ z.curr[p] = s.curr[p] /\ z.cand = s.cand /\ z.weight = s.weight
          /\ z.load = s.load /\ z.nr = s.nr
        BY <1>1 DEF CurrBecomes, Frame, SameLoads
    <2> QED
        BY <1>1, <1>2, <2>1, QueueFrame
<1>4. QueueOK(z, q)
    <2>1. /\ QueueOK(s, q) /\ z.curr[q] = v /\ z.cand = s.cand
          /\ z.weight = s.weight /\ z.load = s.load /\ z.nr = s.nr
          /\ IsInjective(z.timeline[q])
          /\ ToSet(z.timeline[q]) = Members(s, q) \ {v}
        BY <1>1 DEF CurrBecomes, SameLoads
    <2> QED
        BY <1>2, <2>1 DEF QueueOK
<1>5. Typed(z)
    <2>1. z.curr \in [Queue -> EntityOrNull]
        BY <1>1 DEF CurrBecomes
    <2> QED
        BY <1>1, <2>1 DEF CurrBecomes, Typed, Frame, SameLoads
<1>6. WeightsOK(z) /\ z.panics = {} /\ z.rq_load = z.load[Root]
    BY <1>1 DEF CurrBecomes, WeightsOK, Frame, SameLoads
<1>7. \A X : Nested(s, X) => Nested(z, X)
    BY <1>2 DEF Nested, CurrBecomes
<1> QED
    BY <1>2, <1>3, <1>4, <1>5, <1>6, <1>7 DEF Sound

(* put_prev_entity: what ran is put back if it has not left, and a thread  *)
(* that is put back waits.                                                 *)
PutBack(s, e, z) ==
    /\ Frame(s, z)
    /\ z.joined = s.joined
    /\ z.curr = [s.curr EXCEPT ![Sfq(s, e)] = NULL]
    /\ z.td_state = IF e \in Thread \cap s.joined
                    THEN [s.td_state EXCEPT ![e] = "runq"] ELSE s.td_state

(* put_prev_entity puts the current entity back into its timeline if it is *)
(* still joined.                                                           *)
LEMMA PutPrevEntityEffect ==
    ASSUME NEW s, Sound(s), NEW e \in Entity, s.curr[Sfq(s, e)] = e,
           NEW swt,
           e \in Thread /\ swt = "relinquish" =>
                Path(s, e) \subseteq s.joined
    PROVE  LET z == PutPrevEntity(s, e, swt)
           IN  /\ Sound(z) /\ PutBack(s, e, z)
               /\ \A X : Nested(s, X) => Nested(z, X)
<1> DEFINE q == Sfq(s, e)
           a == IF e \in Thread /\ swt = "relinquish" THEN SetSkip(s, e)
                ELSE s
           b == UpdateCurr(a, q)
           c == IF e \in Thread THEN [b EXCEPT !.td_state[e] = "runq"] ELSE b
           d == IF e \in s.joined THEN EnqueueTimeline(c, e) ELSE s
           z == [d EXCEPT !.curr[q] = NULL, !.delta_exec[e] = 0,
                          !.exec_time[e] = 0]
<1>0. PutPrevEntity(s, e, swt) = z
    BY Zenon DEF PutPrevEntity
<1>1. /\ Typed(s) /\ DOMAIN s = Fields /\ QueueOK(s, q) /\ q \in Queue
      /\ e \in Entity /\ e # NULL /\ NULL \notin Members(s, q)
      /\ s.td_state \in [Thread -> TdState] /\ NULL \in EntityOrNull
    BY ZenonT(60), ParentTypes, GroupAssumption
       DEF Sound, Typed, Entity, Members,
        EntityOrNull
<1>2. /\ Calm(s, a, Path(s, e)) /\ Sound(a)
      /\ \A X : Nested(s, X) => Nested(a, X)
    <2>1. CASE e \in Thread /\ swt = "relinquish"
        <3>1. Calm(s, a, Path(s, e))
            BY <1>1, <2>1, SetSkipCalm
        <3> QED
            BY <2>1, <3>1, CalmSound
    <2>2. CASE ~ (e \in Thread /\ swt = "relinquish")
        <3>1. a = s
            BY <2>2
        <3> QED
            BY <1>1, <3>1, CalmAtFirst
    <2> QED
        BY <2>1, <2>2
<1> HIDE DEF a
<1>3. Typed(a) /\ DOMAIN a = Fields
    BY <1>2 DEF Sound, Typed
<1>4. Quiet(a, b)
    BY <1>3, QuietOperations
<1> HIDE DEF b
<1>5. /\ Sound(b) /\ \A X : Nested(s, X) => Nested(b, X)
      /\ Typed(b) /\ Calm(s, b, Path(s, e))
      /\ Sfq(b, e) = q /\ \A p : Members(b, p) = Members(s, p)
    <2>1. Calm(a, b, {}) /\ Calm(a, b, Path(s, e))
        BY <1>3, <1>4, QuietIsCalm
    <2>2. Sound(b) /\ \A X : Nested(a, X) => Nested(b, X)
        BY <1>2, <2>1, CalmSound
    <2>3. Calm(s, b, Path(s, e))
        BY <1>1, <1>2, <2>1, CalmAfterCalm
    <2>4. Typed(b) /\ Sfq(b, e) = q
        BY <1>1, <2>3, CalmTypes
    <2>5. \A p : Members(b, p) = Members(s, p)
        BY <2>3, MembersFrame DEF Calm, Frame, SameThreads
    <2> QED
        BY <1>2, <2>2, <2>3, <2>4, <2>5
<1>6. CASE e \in s.joined
    <2>1. /\ Frame(b, c) /\ SameLoads(b, c) /\ c.joined = b.joined
          /\ c.timeline = b.timeline /\ c.curr = b.curr /\ c.cand = b.cand
          /\ c.td_state = IF e \in Thread
                          THEN [b.td_state EXCEPT ![e] = "runq"]
                          ELSE b.td_state
        <3> DEFINE r == [b EXCEPT !.td_state[e] = "runq"]
        <3>1. DOMAIN b = Fields
            BY <1>5 DEF Typed
        <3>2. /\ Frame(b, r) /\ SameLoads(b, r) /\ r.joined = b.joined
              /\ r.timeline = b.timeline /\ r.curr = b.curr
              /\ r.cand = b.cand
              /\ r.td_state = [b.td_state EXCEPT ![e] = "runq"]
            BY <3>1, Zenon DEF Frame, SameLoads, Fields
        <3> HIDE DEF r
        <3>3. c = IF e \in Thread THEN r ELSE b
            BY DEF r
        <3> QED
            BY <3>1, <3>2, <3>3 DEF Frame, SameLoads
    <2> HIDE DEF c
    <2>2. c.td_state \in [Thread -> TdState]
        <3>1. b.td_state \in [Thread -> TdState]
            BY <1>5 DEF Typed
        <3> QED
            BY <2>1, <3>1 DEF TdState
    <2>3. /\ Typed(c) /\ Sfq(c, e) = q
          /\ IsInjective(c.timeline[q]) /\ e \notin ToSet(c.timeline[q])
          /\ ToSet(c.timeline[q]) = Members(s, q) \ {e}
        <3>1. Typed(c)
            BY <1>5, <2>1, <2>2 DEF Typed, Frame, SameLoads
        <3>2. Sfq(c, e) = q
            BY <1>5, <2>1, FrameTypes
        <3>3. c.timeline = s.timeline
            BY <1>5, <2>1 DEF Calm
        <3> QED
            BY <1>1, <3>1, <3>2, <3>3 DEF QueueOK
    <2>4. TimelineGains(c, e, d)
        BY <1>6, <2>3, EnqueueTimelineEffect
    <2> HIDE DEF d
    <2>5. /\ Frame(d, z) /\ SameThreads(d, z) /\ SameLoads(d, z)
          /\ z.timeline = d.timeline /\ z.cand = d.cand
          /\ z.curr = [d.curr EXCEPT ![q] = NULL]
        <3>1. DOMAIN d = Fields
            BY <2>4 DEF TimelineGains, Frame
        <3> QED
            BY <3>1, Zenon DEF Frame, SameThreads, SameLoads, Fields
    <2> HIDE DEF z, q
    <2>6. CurrBecomes(b, q, NULL, z)
        <3>1. e \in Members(s, q)
            BY <1>6 DEF Members, q
        <3>2. ToSet(d.timeline[q]) = Members(b, q) \ {NULL}
            BY <1>1, <1>5, <2>3, <2>4, <3>1 DEF TimelineGains
        <3> QED
            BY <1>1, <2>1, <2>3, <2>4, <2>5, <3>2 DEF CurrBecomes,
                TimelineGains,
                Frame, SameThreads, SameLoads
    <2>7. /\ z.td_state = c.td_state /\ z.joined = s.joined
          /\ z.curr = [s.curr EXCEPT ![q] = NULL] /\ Frame(s, z)
          /\ b.td_state = s.td_state
        BY <1>5, <2>1, <2>4, <2>5 DEF TimelineGains, SameThreads, Calm, Frame
    <2>8. /\ Sound(z) /\ \A X : Nested(b, X) => Nested(z, X)
        BY <1>1, <1>5, <2>2, <2>6, <2>7, CurrSound
    <2>9. PutBack(s, e, z)
        BY <1>6, <2>1, <2>7 DEF PutBack, q
    <2> QED
        BY <1>0, <1>5, <2>8, <2>9
<1>7. CASE e \notin s.joined
    <2>1. d = s
        BY <1>7
    <2>2. /\ Frame(s, z) /\ SameThreads(s, z) /\ SameLoads(s, z)
          /\ z.timeline = s.timeline /\ z.cand = s.cand
          /\ z.curr = [s.curr EXCEPT ![q] = NULL]
        <3> HIDE DEF d
        <3> QED
            BY <1>1, <2>1, Zenon DEF Frame, SameThreads, SameLoads, Fields
    <2> HIDE DEF z
    <2>3. CurrBecomes(s, q, NULL, z)
        <3>1. e \notin Members(s, q)
            BY <1>7 DEF Members
        <3>2. /\ ToSet(s.timeline[q]) = Members(s, q) \ {NULL}
              /\ IsInjective(s.timeline[q])
            BY <1>1, <3>1 DEF QueueOK
        <3>3. s.timeline \in [Queue -> Seq(Entity)]
            BY <1>1 DEF Typed
        <3> HIDE DEF q
        <3> QED
            BY <2>2, <3>2, <3>3 DEF CurrBecomes, SameThreads
    <2>4. /\ Sound(z) /\ \A X : Nested(s, X) => Nested(z, X)
        BY <1>1, <2>2, <2>3, CurrSound DEF SameThreads
    <2>5. PutBack(s, e, z)
        BY <1>7, <2>2 DEF PutBack, SameThreads
    <2> QED
        BY <1>0, <2>4, <2>5
<1> QED
    BY <1>6, <1>7

(* activate_entity takes what is to run out of the timeline. *)
Activated(s, e, z) ==
    /\ Frame(s, z)
    /\ z.joined = s.joined /\ z.td_state = s.td_state
    /\ z.curr = [s.curr EXCEPT ![Sfq(s, e)] = e]

(* activate_entity takes an entity out of its timeline and makes it the    *)
(* current one.                                                            *)
LEMMA ActivateEntityEffect ==
    ASSUME NEW s, Sound(s), NEW e \in s.joined, s.curr[Sfq(s, e)] = NULL
    PROVE  LET z == ActivateEntity(s, e)
           IN  /\ Sound(z) /\ Activated(s, e, z)
               /\ \A X : Nested(s, X) => Nested(z, X)
<1> DEFINE q == Sfq(s, e)
           a == Kassert(s, e \in s.joined, "not joined")
           b == DequeueTimeline(a, e)
           c == Kassert(b, s.curr[q] = NULL, "curr already exists")
           z == [c EXCEPT !.curr[q] = e, !.delta_exec[e] = 0,
                          !.exec_time[e] = 0]
<1>0. ActivateEntity(s, e) = z
    BY Zenon DEF ActivateEntity
<1>1. /\ Typed(s) /\ DOMAIN s = Fields /\ QueueOK(s, q) /\ q \in Queue
      /\ e \in Entity /\ e \in EntityOrNull /\ e # NULL
      /\ e \in Members(s, q) /\ s.td_state \in [Thread -> TdState]
    BY ZenonT(60), ParentTypes, GroupAssumption
       DEF Sound, Typed, Entity, Members,
        EntityOrNull
<1>2. Quiet(s, a)
    BY ZenonT(60), <1>1, KassertQuiet
<1> HIDE DEF a
<1>3. /\ Typed(a) /\ Sfq(a, e) = q /\ IsInjective(a.timeline[q])
      /\ ToSet(a.timeline[q]) = Members(s, q)
      /\ e \in ToSet(a.timeline[q])
    <2>1. Typed(a) /\ Sfq(a, e) = q
        BY <1>1, <1>2, QuietTypes, FrameTypes DEF Quiet
    <2>2. a.timeline = s.timeline /\ NULL \notin Members(s, q)
        BY ZenonT(60), <1>1, <1>2, GroupAssumption
           DEF Quiet, Members, Typed, Entity
    <2> QED
        BY <1>1, <2>1, <2>2 DEF QueueOK
<1>4. TimelineLoses(a, e, b)
    BY <1>1, <1>3, DequeueTimelineEffect
<1> HIDE DEF b
<1>5. Quiet(b, c)
    BY ZenonT(60), <1>4, KassertQuiet DEF TimelineLoses, Frame
<1> HIDE DEF c
<1>6. /\ Frame(c, z) /\ SameThreads(c, z) /\ SameLoads(c, z)
      /\ z.timeline = c.timeline /\ z.cand = c.cand
      /\ z.curr = [c.curr EXCEPT ![q] = e]
    <2>1. DOMAIN c = Fields
        BY <1>5 DEF Quiet, Frame
    <2> QED
        BY <2>1, Zenon DEF Frame, SameThreads, SameLoads, Fields
<1> HIDE DEF z
<1>7. /\ Frame(s, z) /\ SameThreads(s, z) /\ SameLoads(s, z)
      /\ z.timeline = b.timeline /\ z.cand = s.cand
      /\ z.curr = [s.curr EXCEPT ![q] = e]
    <2> HIDE DEF q
    <2> QED
        BY <1>2, <1>4, <1>5, <1>6 DEF Quiet, TimelineLoses, Frame,
            SameThreads, SameLoads
<1>8. CurrBecomes(s, q, e, z)
    <2>1. /\ b.timeline \in [Queue -> Seq(Entity)]
          /\ \A p \in Queue \ {q} : b.timeline[p] = s.timeline[p]
          /\ IsInjective(b.timeline[q])
          /\ ToSet(b.timeline[q]) = Members(s, q) \ {e}
        BY <1>2, <1>3, <1>4 DEF TimelineLoses, Quiet
    <2> HIDE DEF q
    <2> QED
        BY <1>7, <2>1 DEF CurrBecomes, SameThreads
<1>9. Sound(z) /\ \A X : Nested(s, X) => Nested(z, X)
    BY <1>1, <1>7, <1>8, CurrSound DEF SameThreads
<1> QED
    BY <1>0, <1>7, <1>9 DEF Activated, SameThreads

-----------------------------------------------------------------------------
(* The walks of pss_put_prev_thread and pss_activate_thread *)

(* pss_put_prev_thread, one level after the other *)
LEMMA PutPrevSteps ==
    ASSUME NEW s, s.group \in [Thread -> Queue], NEW e \in Entity,
           NEW swt
    PROVE  LET w == Walkup(s, e)
           IN  \E z : /\ z[0] = s
                      /\ \A k \in 1 .. Len(w) :
                            z[k] = PutPrevEntity(z[k - 1], w[k], swt)
                      /\ PutPrev(s, e, swt) = z[Len(w)]
<1> DEFINE w == Walkup(s, e)
           b == s
           Do(x, y) == PutPrevEntity(x, y, swt)
           F(n, g) == g = [d \in SUBSET (1 .. n) |->
                              IF d = {} THEN b
                              ELSE Do(g[d \ {Max(d)}], w[Max(d)])]
           S == {n \in 0 .. Len(w) : \E g : F(n, g)}
           iter == CHOOSE g : F(Len(w), g)
           z == [k \in 0 .. Len(w) |-> iter[1 .. k]]
<1>a. Len(w) \in Nat /\ DOMAIN w = 1 .. Len(w)
    BY WalkupIsWalk DEF IsWalk, Climbs
<1>b. PutPrev(s, e, swt) = iter[DOMAIN w]
    BY <1>a, ZenonT(60) DEF PutPrev, FoldLeft, MapThenFoldSet
<1> HIDE DEF w, b, Do
<1> DEFINE N == Len(w)
<1>0. N \in Nat /\ DOMAIN w = 1 .. N
    BY <1>a
<1>1. 0 \in S
    <2>1. F(0, [d \in SUBSET (1 .. 0) |-> b])
        OBVIOUS
    <2> HIDE DEF F
    <2> QED
        BY <1>0, <2>1
<1>2. ASSUME NEW n \in 1 .. N, n - 1 \in S PROVE n \in S
    <2>1. PICK g : F(n - 1, g)
        BY <1>2, Zenon
    <2> DEFINE h == [d \in SUBSET (1 .. n) |->
                        IF n \in d THEN Do(g[d \ {n}], w[n]) ELSE g[d]]
    <2>2. ASSUME NEW d \in SUBSET (1 .. n)
          PROVE  h[d] = IF d = {} THEN b
                        ELSE Do(h[d \ {Max(d)}], w[Max(d)])
        <3>1. CASE n \in d
            <4>1. Max(d) = n
                BY <1>0, <3>1, MaxIsLast
            <4>2. d \ {n} \in SUBSET (1 .. n) /\ n \notin d \ {n}
                BY <3>1
            <4>3. h[d \ {n}] = g[d \ {n}]
                BY <4>2
            <4>4. h[d] = Do(g[d \ {n}], w[n])
                BY <3>1
            <4> HIDE DEF h
            <4> QED
                BY <3>1, <4>1, <4>3, <4>4
        <3>2. CASE n \notin d
            <4>1. d \in SUBSET (1 .. n - 1)
                BY <1>0, <3>2
            <4>2. h[d] = g[d]
                BY <3>2
            <4>3. h[d \ {Max(d)}] = g[d \ {Max(d)}]
                BY <3>2
            <4> HIDE DEF h
            <4> QED
                BY <2>1, <4>1, <4>2, <4>3
        <3> QED
            BY <3>1, <3>2
    <2>3. F(n, h)
        <3>1. h = [d \in SUBSET (1 .. n) |-> h[d]]
            OBVIOUS
        <3> HIDE DEF h
        <3> QED
            BY <2>2, <3>1, Zenon
    <2> HIDE DEF F, h
    <2> QED
        BY <1>0, <2>3
<1>3. \E g : F(N, g)
    <2> HIDE DEF F
    <2>1. \A k \in 0 .. N : k \in S
        <3> HIDE DEF S, N
        <3> QED
            BY <1>0, <1>1, <1>2, StepByStep
    <2> QED
        BY <1>0, <2>1
<1>4. F(N, iter)
    BY <1>3, Zenon
<1>5. z[0] = b
    <2>1. 1 .. 0 = {} /\ 0 \in 0 .. N
        BY <1>0
    <2>2. iter[{}] = b
        BY <1>4
    <2> QED
        BY <2>1, <2>2
<1>6. ASSUME NEW k \in 1 .. N PROVE z[k] = Do(z[k - 1], w[k])
    <2>1. z[k] = iter[1 .. k] /\ z[k - 1] = iter[1 .. k - 1]
        BY <1>0
    <2> HIDE DEF iter, N
    <2>2. /\ 1 .. k \in SUBSET (1 .. N) /\ 1 .. k # {}
          /\ (1 .. k) \ {k} = 1 .. k - 1 /\ Max(1 .. k) = k
        BY <1>0, FirstPositions
    <2> QED
        BY <1>4, <2>1, <2>2
<1>7. z[N] = iter[DOMAIN w]
    BY <1>0
<1> HIDE DEF iter, z
<1> QED
    BY <1>b, <1>5, <1>6, <1>7, Zenon DEF b, Do, w


(* pss_activate_thread, one level after the other *)
LEMMA ActivateSteps ==
    ASSUME NEW s, s.group \in [Thread -> Queue], NEW e \in Entity
    PROVE  LET w == Walkup(s, e)
           IN  \E z : /\ z[0] = s
                      /\ \A k \in 1 .. Len(w) :
                            z[k] = ActivateEntity(z[k - 1], w[k])
                      /\ Activate(s, e) =
                            [z[Len(w)] EXCEPT !.td_state[e] = "running"]
<1> DEFINE w == Walkup(s, e)
           b == s
           Do(x, y) == ActivateEntity(x, y)
           F(n, g) == g = [d \in SUBSET (1 .. n) |->
                              IF d = {} THEN b
                              ELSE Do(g[d \ {Max(d)}], w[Max(d)])]
           S == {n \in 0 .. Len(w) : \E g : F(n, g)}
           iter == CHOOSE g : F(Len(w), g)
           z == [k \in 0 .. Len(w) |-> iter[1 .. k]]
<1>a. Len(w) \in Nat /\ DOMAIN w = 1 .. Len(w)
    BY WalkupIsWalk DEF IsWalk, Climbs
<1>b. Activate(s, e) =
                            [iter[DOMAIN w] EXCEPT !.td_state[e] = "running"]
    BY <1>a, Zenon DEF Activate, FoldLeft, MapThenFoldSet
<1> HIDE DEF w, b, Do
<1> DEFINE N == Len(w)
<1>0. N \in Nat /\ DOMAIN w = 1 .. N
    BY <1>a
<1>1. 0 \in S
    <2>1. F(0, [d \in SUBSET (1 .. 0) |-> b])
        OBVIOUS
    <2> HIDE DEF F
    <2> QED
        BY <1>0, <2>1
<1>2. ASSUME NEW n \in 1 .. N, n - 1 \in S PROVE n \in S
    <2>1. PICK g : F(n - 1, g)
        BY <1>2, Zenon
    <2> DEFINE h == [d \in SUBSET (1 .. n) |->
                        IF n \in d THEN Do(g[d \ {n}], w[n]) ELSE g[d]]
    <2>2. ASSUME NEW d \in SUBSET (1 .. n)
          PROVE  h[d] = IF d = {} THEN b
                        ELSE Do(h[d \ {Max(d)}], w[Max(d)])
        <3>1. CASE n \in d
            <4>1. Max(d) = n
                BY <1>0, <3>1, MaxIsLast
            <4>2. d \ {n} \in SUBSET (1 .. n) /\ n \notin d \ {n}
                BY <3>1
            <4>3. h[d \ {n}] = g[d \ {n}]
                BY <4>2
            <4>4. h[d] = Do(g[d \ {n}], w[n])
                BY <3>1
            <4> HIDE DEF h
            <4> QED
                BY <3>1, <4>1, <4>3, <4>4
        <3>2. CASE n \notin d
            <4>1. d \in SUBSET (1 .. n - 1)
                BY <1>0, <3>2
            <4>2. h[d] = g[d]
                BY <3>2
            <4>3. h[d \ {Max(d)}] = g[d \ {Max(d)}]
                BY <3>2
            <4> HIDE DEF h
            <4> QED
                BY <2>1, <4>1, <4>2, <4>3
        <3> QED
            BY <3>1, <3>2
    <2>3. F(n, h)
        <3>1. h = [d \in SUBSET (1 .. n) |-> h[d]]
            OBVIOUS
        <3> HIDE DEF h
        <3> QED
            BY <2>2, <3>1, Zenon
    <2> HIDE DEF F, h
    <2> QED
        BY <1>0, <2>3
<1>3. \E g : F(N, g)
    <2> HIDE DEF F
    <2>1. \A k \in 0 .. N : k \in S
        <3> HIDE DEF S, N
        <3> QED
            BY <1>0, <1>1, <1>2, StepByStep
    <2> QED
        BY <1>0, <2>1
<1>4. F(N, iter)
    BY <1>3, Zenon
<1>5. z[0] = b
    <2>1. 1 .. 0 = {} /\ 0 \in 0 .. N
        BY <1>0
    <2>2. iter[{}] = b
        BY <1>4
    <2> QED
        BY <2>1, <2>2
<1>6. ASSUME NEW k \in 1 .. N PROVE z[k] = Do(z[k - 1], w[k])
    <2>1. z[k] = iter[1 .. k] /\ z[k - 1] = iter[1 .. k - 1]
        BY <1>0
    <2> HIDE DEF iter, N
    <2>2. /\ 1 .. k \in SUBSET (1 .. N) /\ 1 .. k # {}
          /\ (1 .. k) \ {k} = 1 .. k - 1 /\ Max(1 .. k) = k
        BY <1>0, FirstPositions
    <2> QED
        BY <1>4, <2>1, <2>2
<1>7. z[N] = iter[DOMAIN w]
    BY <1>0
<1> HIDE DEF iter, z
<1> QED
    BY <1>b, <1>5, <1>6, <1>7, ZenonT(60) DEF b, Do, w


(* What runs in the queues is the path of e. *)
OnPath(s, e) ==
    \A f \in Entity : s.curr[Sfq(s, f)] = f <=> f \in Path(s, e)

AllIdle(s) == \A q \in Queue : s.curr[q] = NULL

(* All that runs is put back, whether or not it has joined. *)
LEMMA PutPrevEffect ==
    ASSUME NEW s, Sound(s), NEW t \in Thread, OnPath(s, t),
           NEW swt, swt = "relinquish" => Path(s, t) \subseteq s.joined
    PROVE  LET z == PutPrev(s, t, swt)
           IN  /\ Sound(z) /\ Frame(s, z) /\ AllIdle(z)
               /\ z.joined = s.joined
               /\ z.td_state = IF t \in s.joined
                               THEN [s.td_state EXCEPT ![t] = "runq"]
                               ELSE s.td_state
               /\ \A X : Nested(s, X) => Nested(z, X)
<1> DEFINE w == Walkup(s, t)
           n == Len(w)
           td == IF t \in s.joined THEN [s.td_state EXCEPT ![t] = "runq"]
                 ELSE s.td_state
<1>1. /\ Typed(s) /\ t \in Entity /\ s.group \in [Thread -> Queue]
      /\ t \notin Group /\ DOMAIN s = Fields
    BY GroupAssumption DEF Sound, Typed, Entity
<1>2. PICK z : /\ z[0] = s
               /\ \A k \in 1 .. n : z[k] = PutPrevEntity(z[k - 1], w[k], swt)
               /\ PutPrev(s, t, swt) = z[n]
    BY <1>1, PutPrevSteps
<1>3. /\ n \in Nat /\ n >= 1 /\ w[1] = t
      /\ \A k \in 1 .. n : w[k] \in Path(s, t) /\ w[k] \in Entity
      /\ \A f \in Path(s, t) : \E k \in 1 .. n : w[k] = f
    BY SMTT(60), <1>1, WalkupMembers
<1>4. /\ \A i \in 2 .. n : w[i] \in Group
      /\ \A i, j \in 1 .. n : Sfq(s, w[i]) = Sfq(s, w[j]) => i = j
    BY <1>1, WalkupLevels
<1> HIDE DEF w
<1> DEFINE Q(k) == {Sfq(s, w[i]) : i \in 1 .. k}
           P(k) == /\ Sound(z[k]) /\ Frame(s, z[k])
                   /\ z[k].joined = s.joined
                   /\ z[k].td_state = IF k = 0 THEN s.td_state ELSE td
                   /\ \A q \in Queue :
                        z[k].curr[q] = IF q \in Q(k) THEN NULL
                                       ELSE s.curr[q]
                   /\ \A X : Nested(s, X) => Nested(z[k], X)
           S == {k \in 0 .. n : P(k)}
<1> HIDE DEF n, td
<1>5. 0 \in S
    <2>1. Q(0) = {} /\ Frame(s, s)
        BY <1>1 DEF Frame
    <2> QED
        BY <1>2, <1>3, <2>1
<1>6. ASSUME NEW k \in 1 .. n, k - 1 \in S PROVE k \in S
    <2> DEFINE y == z[k - 1]
               e == w[k]
    <2>1. /\ Sound(y) /\ Frame(s, y) /\ y.joined = s.joined
          /\ y.td_state = IF k = 1 THEN s.td_state ELSE td
          /\ \A q \in Queue :
                y.curr[q] = IF q \in Q(k - 1) THEN NULL ELSE s.curr[q]
          /\ \A X : Nested(s, X) => Nested(y, X)
        <3>1. k - 1 = 0 <=> k = 1
            BY <1>3
        <3> QED
            BY <1>6, <3>1
    <2>2. z[k] = PutPrevEntity(y, e, swt)
        BY <1>2
    <2>3. /\ e \in Entity /\ Sfq(y, e) = Sfq(s, e) /\ Sfq(s, e) \in Queue
          /\ Path(y, e) = Path(s, e)
        BY <1>1, <1>3, <2>1, FrameTypes, ParentTypes
    <2>4. Sfq(s, e) \notin Q(k - 1) /\ Q(k) = Q(k - 1) \cup {Sfq(s, e)}
        <3>1. \A i \in 1 .. k - 1 : i \in 1 .. n /\ i # k
            BY <1>3
        <3>2. Sfq(s, e) \notin Q(k - 1)
            BY <1>4, <3>1
        <3>3. 1 .. k = (1 .. k - 1) \cup {k}
            BY <1>3
        <3> QED
            BY <3>2, <3>3
    <2>5. y.curr[Sfq(y, e)] = e
        <3>1. s.curr[Sfq(s, e)] = e
            BY <1>3, <2>3 DEF OnPath
        <3> QED
            BY <2>1, <2>3, <2>4, <3>1
    <2>6. (k = 1 => e = t) /\ (k # 1 => e \in Group)
        BY <1>3, <1>4
    <2>7. e \in Thread /\ swt = "relinquish" => Path(y, e) \subseteq y.joined
        <3>1. e \in Thread => e = t
            BY <2>6, GroupAssumption
        <3> QED
            BY <2>1, <2>3, <3>1
    <2> HIDE DEF y, e, Q
    <2>8. /\ Sound(z[k]) /\ PutBack(y, e, z[k])
          /\ \A X : Nested(y, X) => Nested(z[k], X)
        BY <2>1, <2>2, <2>3, <2>5, <2>7, PutPrevEntityEffect
    <2>9. Frame(s, z[k]) /\ z[k].joined = s.joined
        BY <2>1, <2>8 DEF PutBack, Frame
    <2>10. z[k].td_state = td
        <3>1. CASE k = 1
            BY <2>1, <2>6, <2>8, <3>1 DEF PutBack, td
        <3>2. CASE k # 1
            <4>1. e \notin Thread
                BY <2>6, <3>2, GroupAssumption
            <4> QED
                BY <2>1, <2>8, <3>2, <4>1 DEF PutBack
        <3> QED
            BY <3>1, <3>2
    <2>11. ASSUME NEW q \in Queue
           PROVE  z[k].curr[q] = IF q \in Q(k) THEN NULL ELSE s.curr[q]
        <3>1. z[k].curr = [y.curr EXCEPT ![Sfq(s, e)] = NULL]
            BY <2>3, <2>8 DEF PutBack
        <3>2. y.curr \in [Queue -> EntityOrNull]
            BY <2>1 DEF Sound, Typed
        <3> QED
            BY <2>1, <2>4, <3>1, <3>2
    <2> QED
        BY <1>3, <2>1, <2>8, <2>9, <2>10, <2>11
<1>7. \A k \in 0 .. n : k \in S
    <2> HIDE DEF S
    <2> QED
        BY <1>3, <1>5, <1>6, StepByStep
<1>8. P(n) /\ n # 0
    BY <1>3, <1>7
<1>9. AllIdle(z[n])
    <2> SUFFICES ASSUME NEW q \in Queue, s.curr[q] # NULL
                 PROVE  q \in Q(n)
        BY <1>8 DEF AllIdle
    <2>1. s.curr[q] \in Entity /\ Sfq(s, s.curr[q]) = q
        BY <1>1 DEF Sound, QueueOK, Typed, EntityOrNull
    <2>2. s.curr[q] \in Path(s, t)
        BY <2>1 DEF OnPath
    <2> QED
        BY <1>3, <2>1, <2>2
<1> QED
    BY <1>2, <1>8, <1>9 DEF td

(* Which thread runs, and the states of the threads, are no part of what   *)
(* is sound.                                                               *)
SameQueues(s, z) ==
    /\ DOMAIN z = Fields
    /\ z.group = s.group /\ z.shares = s.shares /\ z.panics = s.panics
    /\ SameLoads(s, z)
    /\ z.joined = s.joined /\ z.timeline = s.timeline
    /\ z.curr = s.curr /\ z.cand = s.cand
    /\ z.td_state \in [Thread -> TdState]
    /\ z.curthread \in Thread \cup {Idle}

(* The state of threads and the current thread do not matter to the        *)
(* queues.                                                                 *)
LEMMA StateSound ==
    ASSUME NEW s, Sound(s), NEW z, SameQueues(s, z)
    PROVE  /\ Sound(z)
           /\ \A q : Members(z, q) = Members(s, q)
           /\ \A X : Nested(s, X) => Nested(z, X)
<1>1. /\ Typed(s) /\ WeightsOK(s) /\ s.panics = {}
      /\ \A q \in Queue : QueueOK(s, q)
      /\ s.rq_load = s.load[Root]
    BY DEF Sound
<1>2. \A q : Members(z, q) = Members(s, q)
    BY MembersFrame DEF SameQueues
<1>3. \A q \in Queue : QueueOK(z, q)
    BY <1>1, <1>2, QueueFrame DEF SameQueues, SameLoads
<1>4. Typed(z)
    BY <1>1 DEF Typed, SameQueues, SameLoads
<1>5. WeightsOK(z) /\ z.panics = {} /\ z.rq_load = z.load[Root]
    BY <1>1 DEF WeightsOK, SameQueues, SameLoads
<1>6. \A X : Nested(s, X) => Nested(z, X)
    BY <1>2 DEF Nested, SameQueues
<1> QED
    BY <1>1, <1>2, <1>3, <1>4, <1>5, <1>6 DEF Sound

(* A queued thread and its ancestors start to run. *)
LEMMA ActivateEffect ==
    ASSUME NEW s, Sound(s), NEW t \in Thread, AllIdle(s),
           Path(s, t) \subseteq s.joined
    PROVE  LET z == Activate(s, t)
           IN  /\ Sound(z) /\ Frame(s, z) /\ OnPath(z, t)
               /\ z.joined = s.joined
               /\ z.td_state = [s.td_state EXCEPT ![t] = "running"]
               /\ \A X : Nested(s, X) => Nested(z, X)
<1> DEFINE w == Walkup(s, t)
           n == Len(w)
<1>1. /\ Typed(s) /\ t \in Entity /\ s.group \in [Thread -> Queue]
      /\ DOMAIN s = Fields
    BY DEF Sound, Typed, Entity
<1>2. PICK z : /\ z[0] = s
               /\ \A k \in 1 .. n : z[k] = ActivateEntity(z[k - 1], w[k])
               /\ Activate(s, t) = [z[n] EXCEPT !.td_state[t] = "running"]
    BY <1>1, ActivateSteps
<1>3. /\ n \in Nat
      /\ \A k \in 1 .. n : w[k] \in Path(s, t) /\ w[k] \in Entity
      /\ \A f \in Path(s, t) : \E k \in 1 .. n : w[k] = f
    BY SMTT(60), <1>1, WalkupMembers
<1>4. \A i, j \in 1 .. n : Sfq(s, w[i]) = Sfq(s, w[j]) => i = j
    BY <1>1, WalkupLevels
<1> HIDE DEF w
<1> DEFINE P(k) == /\ Sound(z[k]) /\ Frame(s, z[k])
                   /\ z[k].joined = s.joined /\ z[k].td_state = s.td_state
                   /\ \A i \in 1 .. k : z[k].curr[Sfq(s, w[i])] = w[i]
                   /\ \A q \in Queue :
                        \/ z[k].curr[q] = NULL
                        \/ \E i \in 1 .. k : z[k].curr[q] = w[i]
                   /\ \A i \in k + 1 .. n : z[k].curr[Sfq(s, w[i])] = NULL
                   /\ \A X : Nested(s, X) => Nested(z[k], X)
           S == {k \in 0 .. n : P(k)}
<1> HIDE DEF n
<1>5. 0 \in S
    <2>1. Frame(s, s)
        BY <1>1 DEF Frame
    <2>2. \A i \in 0 + 1 .. n : s.curr[Sfq(s, w[i])] = NULL
        BY <1>1, <1>3, ParentTypes DEF AllIdle
    <2> QED
        BY <1>2, <1>3, <2>1, <2>2 DEF AllIdle
<1>6. ASSUME NEW k \in 1 .. n, k - 1 \in S PROVE k \in S
    <2> DEFINE y == z[k - 1]
               e == w[k]
    <2>1. /\ Sound(y) /\ Frame(s, y) /\ y.joined = s.joined
          /\ y.td_state = s.td_state
          /\ \A i \in 1 .. k - 1 : y.curr[Sfq(s, w[i])] = w[i]
          /\ \A q \in Queue :
                \/ y.curr[q] = NULL
                \/ \E i \in 1 .. k - 1 : y.curr[q] = w[i]
          /\ \A i \in k .. n : y.curr[Sfq(s, w[i])] = NULL
          /\ \A X : Nested(s, X) => Nested(y, X)
        <3>1. (k - 1) + 1 = k
            BY <1>3
        <3> QED
            BY <1>6, <3>1
    <2>2. z[k] = ActivateEntity(y, e)
        BY <1>2
    <2>3. /\ e \in s.joined /\ Sfq(y, e) = Sfq(s, e) /\ Sfq(s, e) \in Queue
        BY <1>1, <1>3, <2>1, FrameTypes, ParentTypes
    <2>4. y.curr[Sfq(y, e)] = NULL
        BY <1>3, <2>1, <2>3
    <2> HIDE DEF y, e
    <2>5. /\ Sound(z[k]) /\ Activated(y, e, z[k])
          /\ \A X : Nested(y, X) => Nested(z[k], X)
        BY <2>1, <2>2, <2>3, <2>4, ActivateEntityEffect
    <2>6. /\ Frame(s, z[k]) /\ z[k].joined = s.joined
          /\ z[k].td_state = s.td_state
        BY <2>1, <2>5 DEF Activated, Frame
    <2>7. \A q \in Queue : z[k].curr[q] = IF q = Sfq(s, e) THEN e
                                          ELSE y.curr[q]
        <3>1. z[k].curr = [y.curr EXCEPT ![Sfq(s, e)] = e]
            BY <2>3, <2>5 DEF Activated
        <3>2. y.curr \in [Queue -> EntityOrNull]
            BY <2>1 DEF Sound, Typed
        <3> QED
            BY <3>1, <3>2
    <2>8. \A i \in 1 .. n : Sfq(s, w[i]) \in Queue
        BY <1>1, <1>3, ParentTypes
    <2>9. ASSUME NEW i \in 1 .. k PROVE z[k].curr[Sfq(s, w[i])] = w[i]
        <3>1. CASE i = k
            BY <2>3, <2>7, <3>1 DEF e
        <3>2. CASE i # k
            <4>1. i \in 1 .. k - 1 /\ i \in 1 .. n
                BY <1>3, <3>2
            <4>2. Sfq(s, w[i]) # Sfq(s, e)
                BY <1>4, <3>2, <4>1 DEF e
            <4> QED
                BY <2>1, <2>7, <2>8, <4>1, <4>2
        <3> QED
            BY <3>1, <3>2
    <2>10. ASSUME NEW i \in k + 1 .. n
           PROVE  z[k].curr[Sfq(s, w[i])] = NULL
        <3>1. i \in k .. n /\ i \in 1 .. n /\ i # k
            BY <1>3
        <3>2. Sfq(s, w[i]) # Sfq(s, e)
            BY <1>4, <3>1 DEF e
        <3> QED
            BY <2>1, <2>7, <2>8, <3>1, <3>2
    <2>11. ASSUME NEW q \in Queue
           PROVE  z[k].curr[q] = NULL \/ \E i \in 1 .. k : z[k].curr[q] = w[i]
        <3>1. CASE q = Sfq(s, e)
            <4>1. z[k].curr[q] = w[k] /\ k \in 1 .. k
                BY <1>3, <2>7, <3>1 DEF e
            <4> QED
                BY <4>1
        <3>2. CASE q # Sfq(s, e)
            <4>1. \A i \in 1 .. k - 1 : i \in 1 .. k
                BY <1>3
            <4> QED
                BY <2>1, <2>7, <3>2, <4>1
        <3> QED
            BY <3>1, <3>2
    <2> QED
        BY <1>3, <2>1, <2>5, <2>6, <2>9, <2>10, <2>11
<1>7. \A k \in 0 .. n : k \in S
    <2> HIDE DEF S
    <2> QED
        BY <1>3, <1>5, <1>6, StepByStep
<1>8. P(n)
    BY <1>3, <1>7
<1> DEFINE y == z[n]
           r == [y EXCEPT !.td_state[t] = "running"]
<1>9. /\ Frame(y, r) /\ SameLoads(y, r) /\ r.joined = y.joined
      /\ r.timeline = y.timeline /\ r.curr = y.curr /\ r.cand = y.cand
      /\ r.td_state = [y.td_state EXCEPT ![t] = "running"]
    <2>1. DOMAIN y = Fields
        BY <1>8 DEF Frame
    <2> HIDE DEF y
    <2> QED
        BY <2>1, Zenon DEF Frame, SameLoads, Fields
<1> HIDE DEF r
<1>10. /\ Frame(s, r) /\ r.joined = s.joined
       /\ r.td_state = [s.td_state EXCEPT ![t] = "running"]
       /\ r.td_state \in [Thread -> TdState]
    BY SMTT(60), <1>1, <1>8, <1>9 DEF Frame, Typed, TdState
<1>11. Sound(r) /\ \A X : Nested(s, X) => Nested(r, X)
    BY ZenonT(60), <1>8, <1>9, <1>10, StateSound
       DEF Sound, Typed, SameQueues, Frame
<1>12. OnPath(r, t)
    <2> SUFFICES ASSUME NEW f \in Entity
                 PROVE  y.curr[Sfq(s, f)] = f <=> f \in Path(s, t)
        BY <1>1, <1>9, <1>10, FrameTypes DEF OnPath
    <2>1. Sfq(s, f) \in Queue /\ f # NULL
        BY <1>1, ParentTypes, GroupAssumption DEF Entity
    <2>2. y.curr[Sfq(s, f)] = f => f \in Path(s, t)
        BY <1>3, <1>8, <2>1
    <2>3. f \in Path(s, t) => y.curr[Sfq(s, f)] = f
        BY <1>3, <1>8
    <2> QED
        BY <2>2, <2>3
<1> QED
    BY <1>2, <1>10, <1>11, <1>12 DEF r

-----------------------------------------------------------------------------
(* The walks of pss_enqueue_thread and pss_dequeue_thread *)

EnqueueStep(s, acc, e) ==
    IF acc.above \/ e \in acc.s.joined
    THEN [acc EXCEPT !.s = UpdateSfqShares(@, Sfq(s, e)), !.above = TRUE]
    ELSE [s |-> EnqueueEntity(acc.s, e, acc.wakeup), wakeup |-> TRUE,
          above |-> FALSE]

DequeueStep(s, sleep, acc, e) ==
    LET z == DequeueEntity(acc.s, e, acc.sleep)
        p == ParentEntity(s, e)
    IN  IF acc.above
        THEN [acc EXCEPT !.s = UpdateSfqShares(@, Sfq(s, e))]
        ELSE IF z.load[Sfq(s, e)] # 0
        THEN [acc EXCEPT !.s = IF sleep /\ p # NULL THEN SetNext(z, p) ELSE z,
                         !.above = TRUE]
        ELSE [s |-> z, sleep |-> TRUE, above |-> FALSE]

(* pss_enqueue_thread, one level after the other *)
LEMMA EnqueueSteps ==
    ASSUME NEW s, s.group \in [Thread -> Queue], NEW e \in Entity,
           NEW wakeup
    PROVE  LET w == Walkup(s, e)
           IN  \E z : /\ z[0] = [s |-> UpdateRqClock(s), wakeup |-> wakeup,
                              above |-> FALSE]
                      /\ \A k \in 1 .. Len(w) :
                            z[k] = EnqueueStep(s, z[k - 1], w[k])
                      /\ Enqueue(s, e, wakeup) = z[Len(w)].s
<1> DEFINE w == Walkup(s, e)
           b == [s |-> UpdateRqClock(s), wakeup |-> wakeup,
                              above |-> FALSE]
           Do(x, y) == EnqueueStep(s, x, y)
           F(n, g) == g = [d \in SUBSET (1 .. n) |->
                              IF d = {} THEN b
                              ELSE Do(g[d \ {Max(d)}], w[Max(d)])]
           S == {n \in 0 .. Len(w) : \E g : F(n, g)}
           iter == CHOOSE g : F(Len(w), g)
           z == [k \in 0 .. Len(w) |-> iter[1 .. k]]
<1>a. Len(w) \in Nat /\ DOMAIN w = 1 .. Len(w)
    BY WalkupIsWalk DEF IsWalk, Climbs
<1>b. Enqueue(s, e, wakeup) = iter[DOMAIN w].s
    BY <1>a, ZenonT(60) DEF Enqueue, FoldLeft, MapThenFoldSet,
        EnqueueStep
<1> HIDE DEF w, b, Do
<1> DEFINE N == Len(w)
<1>0. N \in Nat /\ DOMAIN w = 1 .. N
    BY <1>a
<1>1. 0 \in S
    <2>1. F(0, [d \in SUBSET (1 .. 0) |-> b])
        OBVIOUS
    <2> HIDE DEF F
    <2> QED
        BY <1>0, <2>1
<1>2. ASSUME NEW n \in 1 .. N, n - 1 \in S PROVE n \in S
    <2>1. PICK g : F(n - 1, g)
        BY <1>2, Zenon
    <2> DEFINE h == [d \in SUBSET (1 .. n) |->
                        IF n \in d THEN Do(g[d \ {n}], w[n]) ELSE g[d]]
    <2>2. ASSUME NEW d \in SUBSET (1 .. n)
          PROVE  h[d] = IF d = {} THEN b
                        ELSE Do(h[d \ {Max(d)}], w[Max(d)])
        <3>1. CASE n \in d
            <4>1. Max(d) = n
                BY <1>0, <3>1, MaxIsLast
            <4>2. d \ {n} \in SUBSET (1 .. n) /\ n \notin d \ {n}
                BY <3>1
            <4>3. h[d \ {n}] = g[d \ {n}]
                BY <4>2
            <4>4. h[d] = Do(g[d \ {n}], w[n])
                BY <3>1
            <4> HIDE DEF h
            <4> QED
                BY <3>1, <4>1, <4>3, <4>4
        <3>2. CASE n \notin d
            <4>1. d \in SUBSET (1 .. n - 1)
                BY <1>0, <3>2
            <4>2. h[d] = g[d]
                BY <3>2
            <4>3. h[d \ {Max(d)}] = g[d \ {Max(d)}]
                BY <3>2
            <4> HIDE DEF h
            <4> QED
                BY <2>1, <4>1, <4>2, <4>3
        <3> QED
            BY <3>1, <3>2
    <2>3. F(n, h)
        <3>1. h = [d \in SUBSET (1 .. n) |-> h[d]]
            OBVIOUS
        <3> HIDE DEF h
        <3> QED
            BY <2>2, <3>1, Zenon
    <2> HIDE DEF F, h
    <2> QED
        BY <1>0, <2>3
<1>3. \E g : F(N, g)
    <2> HIDE DEF F
    <2>1. \A k \in 0 .. N : k \in S
        <3> HIDE DEF S, N
        <3> QED
            BY <1>0, <1>1, <1>2, StepByStep
    <2> QED
        BY <1>0, <2>1
<1>4. F(N, iter)
    BY <1>3, Zenon
<1>5. z[0] = b
    <2>1. 1 .. 0 = {} /\ 0 \in 0 .. N
        BY <1>0
    <2>2. iter[{}] = b
        BY <1>4
    <2> QED
        BY <2>1, <2>2
<1>6. ASSUME NEW k \in 1 .. N PROVE z[k] = Do(z[k - 1], w[k])
    <2>1. z[k] = iter[1 .. k] /\ z[k - 1] = iter[1 .. k - 1]
        BY <1>0
    <2> HIDE DEF iter, N
    <2>2. /\ 1 .. k \in SUBSET (1 .. N) /\ 1 .. k # {}
          /\ (1 .. k) \ {k} = 1 .. k - 1 /\ Max(1 .. k) = k
        BY <1>0, FirstPositions
    <2> QED
        BY <1>4, <2>1, <2>2
<1>7. z[N] = iter[DOMAIN w]
    BY <1>0
<1> HIDE DEF iter, z
<1> QED
    BY <1>b, <1>5, <1>6, <1>7, Zenon DEF b, Do, w


(* pss_dequeue_thread, one level after the other *)
LEMMA DequeueSteps ==
    ASSUME NEW s, s.group \in [Thread -> Queue], NEW e \in Entity,
           NEW sleep
    PROVE  LET w == Walkup(s, e)
           IN  \E z : /\ z[0] = [s |-> UpdateRqClock(s), sleep |-> sleep,
                              above |-> FALSE]
                      /\ \A k \in 1 .. Len(w) :
                            z[k] = DequeueStep(s, sleep, z[k - 1], w[k])
                      /\ Dequeue(s, e, sleep) = z[Len(w)].s
<1> DEFINE w == Walkup(s, e)
           b == [s |-> UpdateRqClock(s), sleep |-> sleep,
                              above |-> FALSE]
           Do(x, y) == DequeueStep(s, sleep, x, y)
           F(n, g) == g = [d \in SUBSET (1 .. n) |->
                              IF d = {} THEN b
                              ELSE Do(g[d \ {Max(d)}], w[Max(d)])]
           S == {n \in 0 .. Len(w) : \E g : F(n, g)}
           iter == CHOOSE g : F(Len(w), g)
           z == [k \in 0 .. Len(w) |-> iter[1 .. k]]
<1>a. Len(w) \in Nat /\ DOMAIN w = 1 .. Len(w)
    BY WalkupIsWalk DEF IsWalk, Climbs
<1>b. Dequeue(s, e, sleep) = iter[DOMAIN w].s
    BY <1>a, ZenonT(60) DEF Dequeue, FoldLeft, MapThenFoldSet,
        DequeueStep
<1> HIDE DEF w, b, Do
<1> DEFINE N == Len(w)
<1>0. N \in Nat /\ DOMAIN w = 1 .. N
    BY <1>a
<1>1. 0 \in S
    <2>1. F(0, [d \in SUBSET (1 .. 0) |-> b])
        OBVIOUS
    <2> HIDE DEF F
    <2> QED
        BY <1>0, <2>1
<1>2. ASSUME NEW n \in 1 .. N, n - 1 \in S PROVE n \in S
    <2>1. PICK g : F(n - 1, g)
        BY <1>2, Zenon
    <2> DEFINE h == [d \in SUBSET (1 .. n) |->
                        IF n \in d THEN Do(g[d \ {n}], w[n]) ELSE g[d]]
    <2>2. ASSUME NEW d \in SUBSET (1 .. n)
          PROVE  h[d] = IF d = {} THEN b
                        ELSE Do(h[d \ {Max(d)}], w[Max(d)])
        <3>1. CASE n \in d
            <4>1. Max(d) = n
                BY <1>0, <3>1, MaxIsLast
            <4>2. d \ {n} \in SUBSET (1 .. n) /\ n \notin d \ {n}
                BY <3>1
            <4>3. h[d \ {n}] = g[d \ {n}]
                BY <4>2
            <4>4. h[d] = Do(g[d \ {n}], w[n])
                BY <3>1
            <4> HIDE DEF h
            <4> QED
                BY <3>1, <4>1, <4>3, <4>4
        <3>2. CASE n \notin d
            <4>1. d \in SUBSET (1 .. n - 1)
                BY <1>0, <3>2
            <4>2. h[d] = g[d]
                BY <3>2
            <4>3. h[d \ {Max(d)}] = g[d \ {Max(d)}]
                BY <3>2
            <4> HIDE DEF h
            <4> QED
                BY <2>1, <4>1, <4>2, <4>3
        <3> QED
            BY <3>1, <3>2
    <2>3. F(n, h)
        <3>1. h = [d \in SUBSET (1 .. n) |-> h[d]]
            OBVIOUS
        <3> HIDE DEF h
        <3> QED
            BY <2>2, <3>1, Zenon
    <2> HIDE DEF F, h
    <2> QED
        BY <1>0, <2>3
<1>3. \E g : F(N, g)
    <2> HIDE DEF F
    <2>1. \A k \in 0 .. N : k \in S
        <3> HIDE DEF S, N
        <3> QED
            BY <1>0, <1>1, <1>2, StepByStep
    <2> QED
        BY <1>0, <2>1
<1>4. F(N, iter)
    BY <1>3, Zenon
<1>5. z[0] = b
    <2>1. 1 .. 0 = {} /\ 0 \in 0 .. N
        BY <1>0
    <2>2. iter[{}] = b
        BY <1>4
    <2> QED
        BY <2>1, <2>2
<1>6. ASSUME NEW k \in 1 .. N PROVE z[k] = Do(z[k - 1], w[k])
    <2>1. z[k] = iter[1 .. k] /\ z[k - 1] = iter[1 .. k - 1]
        BY <1>0
    <2> HIDE DEF iter, N
    <2>2. /\ 1 .. k \in SUBSET (1 .. N) /\ 1 .. k # {}
          /\ (1 .. k) \ {k} = 1 .. k - 1 /\ Max(1 .. k) = k
        BY <1>0, FirstPositions
    <2> QED
        BY <1>4, <2>1, <2>2
<1>7. z[N] = iter[DOMAIN w]
    BY <1>0
<1> HIDE DEF iter, z
<1> QED
    BY <1>b, <1>5, <1>6, <1>7, Zenon DEF b, Do, w


(* What has joined can be reached from the root queue. *)
LEMMA AncestorsJoined ==
    ASSUME NEW s, Typed(s), Nested(s, {}), NEW e \in s.joined
    PROVE  Path(s, e) \subseteq s.joined
<1>1. s.group \in [Thread -> Queue] /\ e \in Entity
    BY DEF Typed
<1>2. ASSUME NEW f \in s.joined \cap Entity, ParentEntity(s, f) # NULL
      PROVE  ParentEntity(s, f) \in s.joined
    <2>1. ParentEntity(s, f) = Sfq(s, f) /\ Sfq(s, f) \in Group
        BY <1>1, <1>2, ParentTypes
    <2>2. f \in Members(s, Sfq(s, f))
        BY DEF Members
    <2> QED
        BY <2>1, <2>2 DEF Nested
<1> QED
    BY <1>1, <1>2, PathIsLeast

(* A queue without load is empty, for no weight in it is 0. *)
LEMMA LoadMeansMembers ==
    ASSUME NEW s, Sound(s), NEW q \in Queue
    PROVE  s.load[q] # 0 <=> Members(s, q) # {}
<1>1. /\ Typed(s) /\ WeightsOK(s)
      /\ s.load[q] = TotalWeight(s.weight, Members(s, q))
    BY DEF Sound, QueueOK
<1>2. CASE Members(s, q) = {}
    BY <1>1, <1>2, NoWeight
<1>3. CASE Members(s, q) # {}
    <2> DEFINE M == Members(s, q)
    <2>1. PICK e \in M : TRUE
        BY <1>3
    <2>2. /\ IsFiniteSet(M) /\ IsFiniteSet(M \ {e}) /\ M \in SUBSET Entity
          /\ \A u \in M : s.weight[u] \in Nat
          /\ \A u \in M \ {e} : s.weight[u] \in Nat
        BY <1>1, QueuesAreFinite, FS_Subset
    <2>3. s.weight[e] \in Nat /\ s.weight[e] > 0
        BY <1>1, <2>1, <2>2 DEF WeightsOK, Members
    <2>4. TotalWeight(s.weight, M \ {e}) = s.load[q] - s.weight[e]
        <3>1. TotalWeight(s.weight, M \ {e})
                = TotalWeight(s.weight, M) - s.weight[e]
            BY <2>1, <2>2, TotalWeightSubtracts, Zenon
        <3> QED
            BY <1>1, <3>1
    <2>5. TotalWeight(s.weight, M \ {e}) \in Nat
        <3>1. IsFiniteSet(Units(s.weight, M \ {e}))
            BY <2>2, UnitsFinite
        <3> QED
            BY <3>1, FS_CardinalityType DEF TotalWeight, Units
    <2>6. s.load[q] \in Nat
        BY <1>1 DEF Typed
    <2> QED
        BY <1>3, <2>3, <2>4, <2>5, <2>6
<1> QED
    BY <1>2, <1>3

(* update_sfq_shares, wherever a walk calls it *)
LEMMA SharesEffect ==
    ASSUME NEW s, Sound(s), NEW q \in Queue
    PROVE  LET z == UpdateSfqShares(s, q)
           IN  /\ Sound(z) /\ Frame(s, z) /\ SameThreads(s, z)
               /\ z.curr = s.curr
               /\ \A X : Nested(s, X) => Nested(z, X)
<1> DEFINE z == UpdateSfqShares(s, q)
<1>1. Typed(s) /\ s.rq_load \in Int
    <2>1. Typed(s) /\ s.rq_load = s.load[Root] /\ Root \in Queue
        BY DEF Sound, Queue
    <2>2. s.load \in [Queue -> Nat]
        BY <2>1 DEF Typed
    <2> QED
        BY <2>1, <2>2
<1>2. Reweighed(s, q, z)
    BY <1>1, UpdateSfqSharesEffect
<1> HIDE DEF z
<1>3. Sound(z) /\ \A X : Nested(s, X) => Nested(z, X)
    BY <1>2, ReweighedSound
<1> QED
    BY <1>2, <1>3 DEF Reweighed, z

(* Every level of a walk is the group whose queue the level below is in.   *)
LEMMA WalkupLinks ==
    ASSUME NEW s, Typed(s), NEW e \in Entity
    PROVE  LET w == Walkup(s, e)
           IN  /\ \A k \in 2 .. Len(w) :
                    w[k] \in Group /\ w[k] = Sfq(s, w[k - 1])
               /\ Sfq(s, w[Len(w)]) = Root
<1> DEFINE w == Walkup(s, e)
           n == Len(w)
<1>1. s.group \in [Thread -> Queue]
    BY DEF Typed
<1>2. Climbs(s, e, w) /\ ParentEntity(s, w[n]) = NULL
    BY <1>1, WalkupIsWalk DEF IsWalk
<1>3. n \in Nat /\ n >= 1 /\ \A k \in 1 .. n : w[k] \in Entity
    <2>1. Typed(s) /\ e \in Entity
        OBVIOUS
    <2> QED
        BY <2>1, WalkupMembers
<1> HIDE DEF w
<1>4. Sfq(s, w[n]) = Root
    BY <1>1, <1>2, <1>3, ParentTypes
<1>5. ASSUME NEW k \in 2 .. n
      PROVE  w[k] \in Group /\ w[k] = Sfq(s, w[k - 1])
    <2>1. k - 1 \in 1 .. n - 1 /\ (k - 1) + 1 = k
        BY <1>3
    <2>2. w[k] \in Group /\ ParentEntity(s, w[k - 1]) = w[k]
        BY <1>2, <2>1 DEF Climbs
    <2>3. w[k - 1] \in Entity /\ w[k] # NULL
        BY <1>3, <2>1, <2>2, GroupAssumption
    <2> QED
        BY <1>1, <2>2, <2>3, ParentTypes
<1> QED
    BY <1>4, <1>5 DEF w

(* A thread that joins takes the groups above it along.  Up to the first   *)
(* that has joined they have waited for it; the queue that the walk has    *)
(* come to is the only one whose entity may still have to join.            *)
LEMMA EnqueueEffect ==
    ASSUME NEW s, Sound(s), Nested(s, {}), NEW t \in Thread \ s.joined,
           \A e \in Entity : s.curr[Sfq(s, e)] = e => e \in s.joined,
           NEW wakeup
    PROVE  LET z == Enqueue(s, t, wakeup)
           IN  /\ Sound(z) /\ Nested(z, {}) /\ Frame(s, z)
               /\ z.curr = s.curr
               /\ z.td_state = [s.td_state EXCEPT ![t] = "runq"]
               /\ \A u \in Thread :
                    u \in z.joined <=> u \in s.joined \/ u = t
<1> DEFINE w == Walkup(s, t)
           n == Len(w)
           td == [s.td_state EXCEPT ![t] = "runq"]
<1>1. /\ Typed(s) /\ t \in Entity /\ s.group \in [Thread -> Queue]
      /\ DOMAIN s = Fields
    BY DEF Sound, Typed, Entity
<1>2. PICK z : /\ z[0] = [s |-> UpdateRqClock(s), wakeup |-> wakeup,
                          above |-> FALSE]
               /\ \A k \in 1 .. n : z[k] = EnqueueStep(s, z[k - 1], w[k])
               /\ Enqueue(s, t, wakeup) = z[n].s
    BY <1>1, EnqueueSteps
<1>3. /\ n \in Nat /\ n >= 1 /\ w[1] = t
      /\ \A k \in 1 .. n : w[k] \in Entity
    BY <1>1, WalkupMembers
<1>4. /\ \A k \in 2 .. n : w[k] \in Group /\ w[k] = Sfq(s, w[k - 1])
      /\ Sfq(s, w[n]) = Root
    BY <1>1, WalkupLinks
<1> HIDE DEF w, n, td
<1> DEFINE P(k) == /\ z[k] = [s |-> z[k].s, wakeup |-> z[k].wakeup,
                               above |-> z[k].above]
                   /\ Sound(z[k].s) /\ Frame(s, z[k].s)
                   /\ z[k].s.curr = s.curr
                   /\ z[k].s.td_state = IF k = 0 THEN s.td_state ELSE td
                   /\ s.joined \subseteq z[k].s.joined
                   /\ \A u \in Thread :
                        u \in z[k].s.joined
                            <=> u \in s.joined \/ (k # 0 /\ u = t)
                   /\ z[k].above \in BOOLEAN
                   /\ z[k].above \/ k = 0 => Nested(z[k].s, {})
                   /\ k = 0 => ~ z[k].above
                   /\ ~ z[k].above /\ k # 0 =>
                        /\ Nested(z[k].s, {Sfq(s, w[k])})
                        /\ Sfq(s, w[k]) \in Group =>
                             /\ Members(z[k].s, Sfq(s, w[k])) # {}
                             /\ z[k].s.weight[Sfq(s, w[k])] > 0
           S == {k \in 0 .. n : P(k)}
<1>5. 0 \in S
    <2>1. Quiet(s, UpdateRqClock(s)) /\ Calm(s, UpdateRqClock(s), {})
        BY <1>1, QuietOperations, QuietIsCalm
    <2>2. Sound(UpdateRqClock(s)) /\ Nested(UpdateRqClock(s), {})
        BY <2>1, CalmSound
    <2>3. z[0].s = UpdateRqClock(s) /\ z[0].above = FALSE
        BY <1>2
    <2>4. P(0)
        BY <1>2, <2>1, <2>2, <2>3 DEF Quiet, SameThreads
    <2> QED
        BY <1>3, <2>4
<1>6. ASSUME NEW k \in 1 .. n, k - 1 \in S PROVE k \in S
    <2> DEFINE a == z[k - 1]
               y == a.s
               e == w[k]
               q == Sfq(s, e)
    <2>1. /\ a = [s |-> a.s, wakeup |-> a.wakeup, above |-> a.above]
          /\ Sound(y) /\ Frame(s, y) /\ y.curr = s.curr
          /\ y.td_state = IF k = 1 THEN s.td_state ELSE td
          /\ s.joined \subseteq y.joined
          /\ \A u \in Thread :
                u \in y.joined <=> u \in s.joined \/ (k # 1 /\ u = t)
          /\ a.above \in BOOLEAN
          /\ a.above \/ k = 1 => Nested(y, {})
          /\ k = 1 => ~ a.above
          /\ ~ a.above /\ k # 1 =>
                /\ Nested(y, {e}) /\ Members(y, e) # {} /\ y.weight[e] > 0
                /\ e \in Group
        <3>1. k - 1 = 0 <=> k = 1
            BY <1>3
        <3>2. k # 1 => e = Sfq(s, w[k - 1]) /\ e \in Group
            BY <1>3, <1>4
        <3> QED
            BY <1>6, <3>1, <3>2
    <2>2. z[k] = EnqueueStep(s, a, e)
        BY <1>2
    <2>3. /\ Sfq(y, e) = q /\ q \in Queue /\ e \in Entity /\ q # e
          /\ k = 1 => e = t
        BY <1>1, <1>3, <2>1, FrameTypes, ParentTypes, NoSelfParent
    <2> HIDE DEF a, e
    <2>4. CASE a.above \/ e \in y.joined
        <3>1. z[k] = [a EXCEPT !.s = UpdateSfqShares(@, q), !.above = TRUE]
            BY <2>2, <2>4 DEF EnqueueStep
        <3>2. /\ z[k].s = UpdateSfqShares(y, q) /\ z[k].above = TRUE
              /\ z[k] = [s |-> z[k].s, wakeup |-> z[k].wakeup,
                         above |-> z[k].above]
            BY <2>1, <3>1
        <3>3. k # 1
            <4>1. t \in Thread /\ t \notin s.joined
                OBVIOUS
            <4> QED
                BY <2>1, <2>3, <2>4, <4>1
        <3>4. Nested(y, {})
            <4>1. CASE a.above
                BY <2>1, <4>1
            <4>2. CASE ~ a.above
                <5>1. Nested(y, {e}) /\ Members(y, e) # {} /\ e \in y.joined
                    BY <2>1, <2>4, <3>3, <4>2
                <5> QED
                    BY <5>1 DEF Nested
            <4> QED
                BY <4>1, <4>2
        <3> HIDE DEF y
        <3>5. /\ Sound(z[k].s) /\ Frame(y, z[k].s) /\ SameThreads(y, z[k].s)
              /\ z[k].s.curr = y.curr /\ Nested(z[k].s, {})
            BY <2>1, <2>3, <3>2, <3>4, SharesEffect
        <3>6. k # 0
            BY <1>3
        <3>7. P(k)
            BY <2>1, <3>2, <3>3, <3>5, <3>6 DEF Frame, SameThreads
        <3> QED
            BY <1>3, <3>7
    <2>5. CASE ~ (a.above \/ e \in y.joined)
        <3> DEFINE r == z[k].s
        <3>1. /\ r = EnqueueEntity(y, e, a.wakeup) /\ z[k].above = FALSE
              /\ z[k] = [s |-> z[k].s, wakeup |-> z[k].wakeup,
                         above |-> z[k].above]
            BY <2>2, <2>5 DEF EnqueueStep
        <3>2. y.weight[e] > 0
            <4>1. CASE k = 1
                BY <2>1, <2>3, <4>1 DEF Sound, WeightsOK
            <4> QED
                BY <2>1, <2>5, <4>1
        <3>3. y.curr[Sfq(y, e)] # e
            <4>1. s.curr[Sfq(s, e)] # e
                BY <2>1, <2>3, <2>5
            <4> QED
                BY <2>1, <2>3, <4>1
        <3> HIDE DEF y, q
        <3>4. Sound(r) /\ Entered(y, e, r)
            BY <2>1, <2>3, <2>5, <3>1, <3>2, <3>3, EnqueueEntityEffect
        <3> HIDE DEF r
        <3>5. /\ Frame(s, r) /\ r.curr = s.curr /\ r.joined = y.joined \cup {e}
              /\ r.td_state = IF e \in Thread
                              THEN [y.td_state EXCEPT ![e] = "runq"]
                              ELSE y.td_state
              /\ q \in Group => r.weight[q] > 0
            BY <2>1, <2>3, <3>4 DEF Entered, Frame
        <3>6. /\ e \in Members(r, q)
              /\ \A p \in Queue \ {q} : Members(r, p) = Members(y, p)
            <4>1. \A f : Sfq(r, f) = Sfq(y, f)
                BY <2>1, <3>5 DEF Frame, Sfq
            <4> QED
                BY <2>3, <3>5, <4>1 DEF Members
        <3>7. /\ r.td_state = td
              /\ s.joined \subseteq r.joined
              /\ \A u \in Thread : u \in r.joined <=> u \in s.joined \/ u = t
            <4>1. CASE k = 1
                <5>1. e = t /\ t \in Thread
                    BY <2>3, <4>1
                <5> QED
                    BY <2>1, <3>5, <4>1, <5>1 DEF td
            <4>2. CASE k # 1
                <5>1. e \notin Thread
                    BY <2>1, <2>5, <4>2, GroupAssumption
                <5> QED
                    BY <2>1, <3>5, <4>2, <5>1
            <4> QED
                BY <4>1, <4>2
        <3>8. Nested(r, {q})
            <4> SUFFICES ASSUME NEW g \in Group \ {q}
                         PROVE  g \in r.joined <=> Members(r, g) # {}
                BY DEF Nested
            <4>1. Members(r, g) = Members(y, g)
                BY <3>6 DEF Queue
            <4>2. CASE g = e
                <5>1. k # 1
                    BY <2>3, <4>2, GroupAssumption
                <5>2. Members(y, e) # {}
                    BY <2>1, <2>5, <5>1
                <5> QED
                    BY <3>5, <4>1, <4>2, <5>2
            <4>3. CASE g # e
                <5>1. Nested(y, {e})
                    <6>1. k = 1 => Nested(y, {})
                        BY <2>1
                    <6> QED
                        BY <2>1, <2>5, <6>1 DEF Nested
                <5>2. g \in y.joined <=> Members(y, g) # {}
                    BY <4>3, <5>1 DEF Nested
                <5> QED
                    BY <3>5, <4>1, <4>3, <5>2
            <4> QED
                BY <4>2, <4>3
        <3>9. k # 0
            BY <1>3
        <3>10. P(k)
            BY <3>1, <3>4, <3>5, <3>6, <3>7, <3>8, <3>9 DEF q, e, r
        <3> QED
            BY <1>3, <3>10
    <2> QED
        BY <2>4, <2>5
<1>7. \A k \in 0 .. n : k \in S
    <2> HIDE DEF S
    <2> QED
        BY <1>3, <1>5, <1>6, StepByStep
<1>8. P(n) /\ n # 0
    BY <1>3, <1>7
<1>9. Nested(z[n].s, {})
    <2>1. Root \notin Group
        BY GroupAssumption
    <2>2. z[n].above \/ Nested(z[n].s, {Root})
        BY <1>4, <1>8
    <2> QED
        BY <1>8, <2>1, <2>2 DEF Nested
<1> QED
    BY <1>2, <1>8, <1>9 DEF td

(* A thread that leaves takes the groups that it leaves empty along, and   *)
(* the queue that the walk has come to is the only one that may be empty   *)
(* while its entity is still queued.                                       *)
LEMMA DequeueEffect ==
    ASSUME NEW s, Sound(s), Nested(s, {}), NEW t \in Thread \cap s.joined,
           NEW sleep
    PROVE  LET z == Dequeue(s, t, sleep)
           IN  /\ Sound(z) /\ Nested(z, {}) /\ Frame(s, z)
               /\ z.curr = s.curr /\ z.td_state = s.td_state
               /\ \A u \in Thread :
                    u \in z.joined <=> u \in s.joined /\ u # t
<1> DEFINE w == Walkup(s, t)
           n == Len(w)
<1>1. /\ Typed(s) /\ t \in Entity /\ s.group \in [Thread -> Queue]
      /\ DOMAIN s = Fields
    BY DEF Sound, Typed, Entity
<1>2. PICK z : /\ z[0] = [s |-> UpdateRqClock(s), sleep |-> sleep,
                          above |-> FALSE]
               /\ \A k \in 1 .. n :
                    z[k] = DequeueStep(s, sleep, z[k - 1], w[k])
               /\ Dequeue(s, t, sleep) = z[n].s
    BY <1>1, DequeueSteps
<1>3. /\ n \in Nat /\ n >= 1 /\ w[1] = t
      /\ \A k \in 1 .. n : w[k] \in Entity
    BY <1>1, WalkupMembers
<1>4. /\ \A k \in 2 .. n : w[k] \in Group /\ w[k] = Sfq(s, w[k - 1])
      /\ Sfq(s, w[n]) = Root
    BY <1>1, WalkupLinks
<1> HIDE DEF w, n
<1> DEFINE P(k) == /\ z[k] = [s |-> z[k].s, sleep |-> z[k].sleep,
                              above |-> z[k].above]
                   /\ Sound(z[k].s) /\ Frame(s, z[k].s)
                   /\ z[k].s.curr = s.curr
                   /\ z[k].s.td_state = s.td_state
                   /\ \A u \in Thread :
                        u \in z[k].s.joined
                            <=> u \in s.joined /\ (k = 0 \/ u # t)
                   /\ z[k].above \in BOOLEAN
                   /\ z[k].above \/ k = 0 => Nested(z[k].s, {})
                   /\ k = 0 => ~ z[k].above
                   /\ ~ z[k].above /\ k # 0 =>
                        /\ Nested(z[k].s, {Sfq(s, w[k])})
                        /\ Sfq(s, w[k]) \in Group =>
                             /\ Members(z[k].s, Sfq(s, w[k])) = {}
                             /\ Sfq(s, w[k]) \in z[k].s.joined
           S == {k \in 0 .. n : P(k)}
<1>5. 0 \in S
    <2>1. Quiet(s, UpdateRqClock(s)) /\ Calm(s, UpdateRqClock(s), {})
        BY <1>1, QuietOperations, QuietIsCalm
    <2>2. Sound(UpdateRqClock(s)) /\ Nested(UpdateRqClock(s), {})
        BY <2>1, CalmSound
    <2>3. z[0].s = UpdateRqClock(s) /\ z[0].above = FALSE
        BY <1>2
    <2>4. P(0)
        BY <1>2, <2>1, <2>2, <2>3 DEF Quiet, SameThreads
    <2> QED
        BY <1>3, <2>4
<1>6. ASSUME NEW k \in 1 .. n, k - 1 \in S PROVE k \in S
    <2> DEFINE a == z[k - 1]
               y == a.s
               e == w[k]
               q == Sfq(s, e)
    <2>1. /\ a = [s |-> a.s, sleep |-> a.sleep, above |-> a.above]
          /\ Sound(y) /\ Frame(s, y) /\ y.curr = s.curr
          /\ y.td_state = s.td_state
          /\ \A u \in Thread :
                u \in y.joined <=> u \in s.joined /\ (k = 1 \/ u # t)
          /\ a.above \in BOOLEAN
          /\ a.above \/ k = 1 => Nested(y, {})
          /\ k = 1 => ~ a.above
          /\ ~ a.above /\ k # 1 =>
                /\ Nested(y, {e}) /\ Members(y, e) = {} /\ e \in y.joined
                /\ e \in Group
        <3>1. k - 1 = 0 <=> k = 1
            BY <1>3
        <3>2. k # 1 => e = Sfq(s, w[k - 1]) /\ e \in Group
            BY <1>3, <1>4
        <3> QED
            BY <1>6, <3>1, <3>2
    <2>2. z[k] = DequeueStep(s, sleep, a, e)
        BY <1>2
    <2>3. /\ Sfq(y, e) = q /\ q \in Queue /\ e \in Entity /\ q # e
          /\ ParentEntity(y, e) = ParentEntity(s, e)
          /\ k = 1 => e = t
        BY <1>1, <1>3, <2>1, FrameTypes, ParentTypes, NoSelfParent
    <2>4. k # 0
        BY <1>3
    <2> HIDE DEF a, e
    <2>5. CASE a.above
        <3>1. z[k] = [a EXCEPT !.s = UpdateSfqShares(@, q)]
            BY <2>2, <2>5, Zenon DEF DequeueStep
        <3>2. /\ z[k].s = UpdateSfqShares(y, q) /\ z[k].above = a.above
              /\ z[k] = [s |-> z[k].s, sleep |-> z[k].sleep,
                         above |-> z[k].above]
            BY <2>1, <3>1
        <3> HIDE DEF y
        <3>3. /\ Sound(z[k].s) /\ Frame(y, z[k].s) /\ SameThreads(y, z[k].s)
              /\ z[k].s.curr = y.curr /\ Nested(z[k].s, {})
            BY <2>1, <2>3, <2>5, <3>2, SharesEffect
        <3>4. P(k)
            BY <2>1, <2>4, <2>5, <3>2, <3>3 DEF Frame, SameThreads
        <3> QED
            BY <1>3, <3>4
    <2>6. CASE ~ a.above
        <3> DEFINE r == DequeueEntity(y, e, a.sleep)
                   p == ParentEntity(s, e)
                   v == IF sleep /\ p # NULL THEN SetNext(r, p) ELSE r
        <3>1. z[k] = IF r.load[q] # 0 THEN [a EXCEPT !.s = v, !.above = TRUE]
                     ELSE [s |-> r, sleep |-> TRUE, above |-> FALSE]
            BY <2>2, <2>6, Zenon DEF DequeueStep
        <3>2. e \in y.joined
            <4>1. k = 1 => e = t /\ t \in s.joined /\ t \in Thread
                BY <2>3
            <4> QED
                BY <2>1, <2>6, <4>1
        <3> HIDE DEF y, q
        <3>3. Sound(r) /\ Exited(y, e, r)
            BY <2>1, <3>2, DequeueEntityEffect
        <3> HIDE DEF r
        <3>4. /\ Frame(s, r) /\ r.curr = s.curr /\ r.joined = y.joined \ {e}
              /\ r.td_state = s.td_state
            BY <2>1, <3>3 DEF Exited, Frame
        <3>5. /\ e \in Members(y, q)
              /\ Members(r, q) = Members(y, q) \ {e}
              /\ \A x \in Queue \ {q} : Members(r, x) = Members(y, x)
            <4>1. \A f : Sfq(r, f) = Sfq(y, f)
                BY <2>1, <3>4 DEF Frame, Sfq
            <4> QED
                BY <2>3, <3>2, <3>4, <4>1 DEF Members
        <3>6. \A u \in Thread : u \in r.joined <=> u \in s.joined /\ u # t
            <4>1. CASE k = 1
                <5>1. e = t
                    BY <2>3, <4>1
                <5> QED
                    BY <2>1, <3>4, <4>1, <5>1
            <4>2. CASE k # 1
                <5>1. e \notin Thread
                    BY <2>1, <2>6, <4>2, GroupAssumption
                <5> QED
                    BY <2>1, <3>4, <4>2, <5>1
            <4> QED
                BY <4>1, <4>2
        <3>7. Nested(y, {e})
            <4>1. k = 1 => Nested(y, {})
                BY <2>1
            <4> QED
                BY <2>1, <2>6, <4>1 DEF Nested
        <3>8. Nested(r, {q})
            <4> SUFFICES ASSUME NEW g \in Group \ {q}
                         PROVE  g \in r.joined <=> Members(r, g) # {}
                BY DEF Nested
            <4>1. Members(r, g) = Members(y, g)
                BY <3>5 DEF Queue
            <4>2. CASE g = e
                <5>1. k # 1
                    BY <2>3, <4>2, GroupAssumption
                <5>2. Members(y, e) = {}
                    BY <2>1, <2>6, <5>1
                <5> QED
                    BY <3>4, <4>1, <4>2, <5>2
            <4>3. CASE g # e
                <5>1. g \in y.joined <=> Members(y, g) # {}
                    BY <3>7, <4>3 DEF Nested
                <5> QED
                    BY <3>4, <4>1, <4>3, <5>1
            <4> QED
                BY <4>2, <4>3
        <3>9. q \in Group => q \in r.joined
            <4>1. q \in Group => q \in y.joined
                BY <2>3, <3>5, <3>7 DEF Nested
            <4> QED
                BY <2>3, <3>4, <4>1
        <3>10. CASE Members(r, q) = {}
            <4>1. r.load[q] = 0
                BY <2>3, <3>3, <3>10, LoadMeansMembers
            <4>2. /\ z[k].s = r /\ z[k].above = FALSE
                  /\ z[k] = [s |-> z[k].s, sleep |-> z[k].sleep,
                             above |-> z[k].above]
                BY <3>1, <4>1
            <4>3. P(k)
                BY <2>4, <3>3, <3>4, <3>6, <3>8, <3>9, <3>10, <4>2 DEF q, e
            <4> QED
                BY <1>3, <4>3
        <3>11. CASE Members(r, q) # {}
            <4>1. r.load[q] # 0
                BY <2>3, <3>3, <3>11, LoadMeansMembers
            <4>2. Nested(r, {})
                BY <3>8, <3>9, <3>11 DEF Nested
            <4>3. Typed(r)
                BY <3>3 DEF Sound
            <4>4. /\ Sound(v) /\ Nested(v, {}) /\ Frame(r, v)
                  /\ SameThreads(r, v) /\ v.curr = r.curr
                <5>1. CASE sleep /\ p # NULL
                    <6>1. p = q /\ q \in Group /\ p \in r.joined
                        BY <1>1, <2>3, <3>9, <5>1, ParentTypes DEF q
                    <6>2. Path(r, p) \subseteq r.joined
                        BY <4>2, <4>3, <6>1, AncestorsJoined
                    <6>3. v = SetCandidate(r, "next", p)
                        BY <5>1 DEF SetNext
                    <6>4. p \in Entity /\ "next" \in Candidate
                        BY <6>1 DEF Entity, Candidate
                    <6> HIDE DEF v, p
                    <6>5. Calm(r, v, Path(r, p))
                        BY <4>3, <6>3, <6>4, SetCandidateCalm
                    <6>6. Sound(v) /\ Nested(v, {})
                        BY <3>3, <4>2, <6>2, <6>5, CalmSound
                    <6> QED
                        BY <6>5, <6>6 DEF Calm
                <5>2. CASE ~ (sleep /\ p # NULL)
                    <6>1. v = r
                        BY <5>2
                    <6> HIDE DEF v
                    <6> QED
                        BY <3>3, <4>2, <4>3, <6>1 DEF Frame, SameThreads,
                            Typed
                <5> QED
                    BY <5>1, <5>2
            <4> HIDE DEF v
            <4>5. z[k] = [a EXCEPT !.s = v, !.above = TRUE]
                BY <3>1, <4>1, Zenon
            <4>6. /\ z[k].s = v /\ z[k].above = TRUE
                  /\ z[k] = [s |-> z[k].s, sleep |-> z[k].sleep,
                             above |-> z[k].above]
                BY <2>1, <4>5
            <4>7. /\ Frame(s, v) /\ v.curr = s.curr /\ v.td_state = s.td_state
                  /\ v.joined = r.joined
                BY <3>4, <4>4 DEF Frame, SameThreads
            <4>8. P(k)
                BY <2>4, <3>6, <4>4, <4>6, <4>7
            <4> QED
                BY <1>3, <4>8
        <3> QED
            BY <3>10, <3>11
    <2> QED
        BY <2>5, <2>6
<1>7. \A k \in 0 .. n : k \in S
    <2> HIDE DEF S
    <2> QED
        BY <1>3, <1>5, <1>6, StepByStep
<1>8. P(n) /\ n # 0
    BY <1>3, <1>7
<1>9. Nested(z[n].s, {})
    <2>1. Root \notin Group
        BY GroupAssumption
    <2>2. z[n].above \/ Nested(z[n].s, {Root})
        BY <1>4, <1>8
    <2> QED
        BY <1>8, <2>1, <2>2 DEF Nested
<1> QED
    BY <1>2, <1>8, <1>9

-----------------------------------------------------------------------------
(* The walks of the tick and of the shares, and the way down to a thread *)

DownStep(acc) ==
    IF acc.q = NULL THEN acc
    ELSE IF Leftmost(acc.s, acc.q) = NULL
    THEN [s |-> Kassert(acc.s, FALSE, "no entity to pick"),
          e |-> Idle, q |-> NULL]
    ELSE LET e == PickNextEntity(acc.s, acc.q)
         IN  [s |-> ClearCandidates(acc.s, e), e |-> e,
              q |-> IF e \in Group THEN e ELSE NULL]

TickWalk(s, e, r) == FoldLeft(EntityTick, r, Walkup(s, e))
SharesWalk(s, e, r) ==
    FoldLeft(LAMBDA y, f : UpdateSfqShares(y, Sfq(y, f)), r, Walkup(s, e))

(* pss_tick, one level after the other *)
LEMMA TickSteps ==
    ASSUME NEW s, s.group \in [Thread -> Queue], NEW e \in Entity,
           NEW r
    PROVE  LET w == Walkup(s, e)
           IN  \E z : /\ z[0] = r
                      /\ \A k \in 1 .. Len(w) :
                            z[k] = EntityTick(z[k - 1], w[k])
                      /\ TickWalk(s, e, r) = z[Len(w)]
<1> DEFINE w == Walkup(s, e)
           b == r
           Do(x, y) == EntityTick(x, y)
           F(n, g) == g = [d \in SUBSET (1 .. n) |->
                              IF d = {} THEN b
                              ELSE Do(g[d \ {Max(d)}], w[Max(d)])]
           S == {n \in 0 .. Len(w) : \E g : F(n, g)}
           iter == CHOOSE g : F(Len(w), g)
           z == [k \in 0 .. Len(w) |-> iter[1 .. k]]
<1>a. Len(w) \in Nat /\ DOMAIN w = 1 .. Len(w)
    BY WalkupIsWalk DEF IsWalk, Climbs
<1>b. TickWalk(s, e, r) = iter[DOMAIN w]
    BY <1>a, ZenonT(60) DEF TickWalk, FoldLeft, MapThenFoldSet
<1> HIDE DEF w, b, Do
<1> DEFINE N == Len(w)
<1>0. N \in Nat /\ DOMAIN w = 1 .. N
    BY <1>a
<1>1. 0 \in S
    <2>1. F(0, [d \in SUBSET (1 .. 0) |-> b])
        OBVIOUS
    <2> HIDE DEF F
    <2> QED
        BY <1>0, <2>1
<1>2. ASSUME NEW n \in 1 .. N, n - 1 \in S PROVE n \in S
    <2>1. PICK g : F(n - 1, g)
        BY <1>2, Zenon
    <2> DEFINE h == [d \in SUBSET (1 .. n) |->
                        IF n \in d THEN Do(g[d \ {n}], w[n]) ELSE g[d]]
    <2>2. ASSUME NEW d \in SUBSET (1 .. n)
          PROVE  h[d] = IF d = {} THEN b
                        ELSE Do(h[d \ {Max(d)}], w[Max(d)])
        <3>1. CASE n \in d
            <4>1. Max(d) = n
                BY <1>0, <3>1, MaxIsLast
            <4>2. d \ {n} \in SUBSET (1 .. n) /\ n \notin d \ {n}
                BY <3>1
            <4>3. h[d \ {n}] = g[d \ {n}]
                BY <4>2
            <4>4. h[d] = Do(g[d \ {n}], w[n])
                BY <3>1
            <4> HIDE DEF h
            <4> QED
                BY <3>1, <4>1, <4>3, <4>4
        <3>2. CASE n \notin d
            <4>1. d \in SUBSET (1 .. n - 1)
                BY <1>0, <3>2
            <4>2. h[d] = g[d]
                BY <3>2
            <4>3. h[d \ {Max(d)}] = g[d \ {Max(d)}]
                BY <3>2
            <4> HIDE DEF h
            <4> QED
                BY <2>1, <4>1, <4>2, <4>3
        <3> QED
            BY <3>1, <3>2
    <2>3. F(n, h)
        <3>1. h = [d \in SUBSET (1 .. n) |-> h[d]]
            OBVIOUS
        <3> HIDE DEF h
        <3> QED
            BY <2>2, <3>1, Zenon
    <2> HIDE DEF F, h
    <2> QED
        BY <1>0, <2>3
<1>3. \E g : F(N, g)
    <2> HIDE DEF F
    <2>1. \A k \in 0 .. N : k \in S
        <3> HIDE DEF S, N
        <3> QED
            BY <1>0, <1>1, <1>2, StepByStep
    <2> QED
        BY <1>0, <2>1
<1>4. F(N, iter)
    BY <1>3, Zenon
<1>5. z[0] = b
    <2>1. 1 .. 0 = {} /\ 0 \in 0 .. N
        BY <1>0
    <2>2. iter[{}] = b
        BY <1>4
    <2> QED
        BY <2>1, <2>2
<1>6. ASSUME NEW k \in 1 .. N PROVE z[k] = Do(z[k - 1], w[k])
    <2>1. z[k] = iter[1 .. k] /\ z[k - 1] = iter[1 .. k - 1]
        BY <1>0
    <2> HIDE DEF iter, N
    <2>2. /\ 1 .. k \in SUBSET (1 .. N) /\ 1 .. k # {}
          /\ (1 .. k) \ {k} = 1 .. k - 1 /\ Max(1 .. k) = k
        BY <1>0, FirstPositions
    <2> QED
        BY <1>4, <2>1, <2>2
<1>7. z[N] = iter[DOMAIN w]
    BY <1>0
<1> HIDE DEF iter, z
<1> QED
    BY <1>b, <1>5, <1>6, <1>7, Zenon DEF b, Do, w


(* pss_sched_group_set_shares, one level after the other *)
LEMMA SharesSteps ==
    ASSUME NEW s, s.group \in [Thread -> Queue], NEW e \in Entity,
           NEW r
    PROVE  LET w == Walkup(s, e)
           IN  \E z : /\ z[0] = r
                      /\ \A k \in 1 .. Len(w) :
                          z[k] = UpdateSfqShares(z[k - 1],
                                                 Sfq(z[k - 1], w[k]))
                      /\ SharesWalk(s, e, r) = z[Len(w)]
<1> DEFINE w == Walkup(s, e)
           b == r
           Do(x, y) == UpdateSfqShares(x, Sfq(x, y))
           F(n, g) == g = [d \in SUBSET (1 .. n) |->
                              IF d = {} THEN b
                              ELSE Do(g[d \ {Max(d)}], w[Max(d)])]
           S == {n \in 0 .. Len(w) : \E g : F(n, g)}
           iter == CHOOSE g : F(Len(w), g)
           z == [k \in 0 .. Len(w) |-> iter[1 .. k]]
<1>a. Len(w) \in Nat /\ DOMAIN w = 1 .. Len(w)
    BY WalkupIsWalk DEF IsWalk, Climbs
<1>b. SharesWalk(s, e, r) = iter[DOMAIN w]
    BY <1>a, ZenonT(60) DEF SharesWalk, FoldLeft, MapThenFoldSet
<1> HIDE DEF w, b, Do
<1> DEFINE N == Len(w)
<1>0. N \in Nat /\ DOMAIN w = 1 .. N
    BY <1>a
<1>1. 0 \in S
    <2>1. F(0, [d \in SUBSET (1 .. 0) |-> b])
        OBVIOUS
    <2> HIDE DEF F
    <2> QED
        BY <1>0, <2>1
<1>2. ASSUME NEW n \in 1 .. N, n - 1 \in S PROVE n \in S
    <2>1. PICK g : F(n - 1, g)
        BY <1>2, Zenon
    <2> DEFINE h == [d \in SUBSET (1 .. n) |->
                        IF n \in d THEN Do(g[d \ {n}], w[n]) ELSE g[d]]
    <2>2. ASSUME NEW d \in SUBSET (1 .. n)
          PROVE  h[d] = IF d = {} THEN b
                        ELSE Do(h[d \ {Max(d)}], w[Max(d)])
        <3>1. CASE n \in d
            <4>1. Max(d) = n
                BY <1>0, <3>1, MaxIsLast
            <4>2. d \ {n} \in SUBSET (1 .. n) /\ n \notin d \ {n}
                BY <3>1
            <4>3. h[d \ {n}] = g[d \ {n}]
                BY <4>2
            <4>4. h[d] = Do(g[d \ {n}], w[n])
                BY <3>1
            <4> HIDE DEF h
            <4> QED
                BY <3>1, <4>1, <4>3, <4>4
        <3>2. CASE n \notin d
            <4>1. d \in SUBSET (1 .. n - 1)
                BY <1>0, <3>2
            <4>2. h[d] = g[d]
                BY <3>2
            <4>3. h[d \ {Max(d)}] = g[d \ {Max(d)}]
                BY <3>2
            <4> HIDE DEF h
            <4> QED
                BY <2>1, <4>1, <4>2, <4>3
        <3> QED
            BY <3>1, <3>2
    <2>3. F(n, h)
        <3>1. h = [d \in SUBSET (1 .. n) |-> h[d]]
            OBVIOUS
        <3> HIDE DEF h
        <3> QED
            BY <2>2, <3>1, Zenon
    <2> HIDE DEF F, h
    <2> QED
        BY <1>0, <2>3
<1>3. \E g : F(N, g)
    <2> HIDE DEF F
    <2>1. \A k \in 0 .. N : k \in S
        <3> HIDE DEF S, N
        <3> QED
            BY <1>0, <1>1, <1>2, StepByStep
    <2> QED
        BY <1>0, <2>1
<1>4. F(N, iter)
    BY <1>3, Zenon
<1>5. z[0] = b
    <2>1. 1 .. 0 = {} /\ 0 \in 0 .. N
        BY <1>0
    <2>2. iter[{}] = b
        BY <1>4
    <2> QED
        BY <2>1, <2>2
<1>6. ASSUME NEW k \in 1 .. N PROVE z[k] = Do(z[k - 1], w[k])
    <2>1. z[k] = iter[1 .. k] /\ z[k - 1] = iter[1 .. k - 1]
        BY <1>0
    <2> HIDE DEF iter, N
    <2>2. /\ 1 .. k \in SUBSET (1 .. N) /\ 1 .. k # {}
          /\ (1 .. k) \ {k} = 1 .. k - 1 /\ Max(1 .. k) = k
        BY <1>0, FirstPositions
    <2>3. iter[1 .. k]
            = Do(iter[(1 .. k) \ {Max(1 .. k)}], w[Max(1 .. k)])
        BY <1>4, <2>2
    <2> HIDE DEF F, Do
    <2> QED
        BY <2>1, <2>2, <2>3
<1>7. z[N] = iter[DOMAIN w]
    BY <1>0
<1> HIDE DEF iter, z
<1> QED
    BY <1>b, <1>5, <1>6, <1>7, Zenon DEF b, Do, w


(* pss_pick_next_thread, one level after the other *)
LEMMA PickSteps ==
    ASSUME NEW s
    PROVE  LET w == [k \in 1 .. Cardinality(Group) + 1 |-> k]
           IN  \E z : /\ z[0] = [s |-> s, e |-> Idle, q |-> Root]
                      /\ \A k \in 1 .. Len(w) :
                            z[k] = DownStep(z[k - 1])
                      /\ PickNext(s) = z[Len(w)]
<1> DEFINE w == [k \in 1 .. Cardinality(Group) + 1 |-> k]
           b == [s |-> s, e |-> Idle, q |-> Root]
           Do(x, y) == DownStep(x)
           F(n, g) == g = [d \in SUBSET (1 .. n) |->
                              IF d = {} THEN b
                              ELSE Do(g[d \ {Max(d)}], w[Max(d)])]
           S == {n \in 0 .. Len(w) : \E g : F(n, g)}
           iter == CHOOSE g : F(Len(w), g)
           z == [k \in 0 .. Len(w) |-> iter[1 .. k]]
<1>a. Len(w) \in Nat /\ DOMAIN w = 1 .. Len(w)
    BY GroupAssumption, FS_CardinalityType
<1>b. PickNext(s) = iter[DOMAIN w]
    BY <1>a, Zenon DEF PickNext, FoldLeft, MapThenFoldSet,
        DownStep
<1> HIDE DEF w, b, Do
<1> DEFINE N == Len(w)
<1>0. N \in Nat /\ DOMAIN w = 1 .. N
    BY <1>a
<1>1. 0 \in S
    <2>1. F(0, [d \in SUBSET (1 .. 0) |-> b])
        OBVIOUS
    <2> HIDE DEF F
    <2> QED
        BY <1>0, <2>1
<1>2. ASSUME NEW n \in 1 .. N, n - 1 \in S PROVE n \in S
    <2>1. PICK g : F(n - 1, g)
        BY <1>2, Zenon
    <2> DEFINE h == [d \in SUBSET (1 .. n) |->
                        IF n \in d THEN Do(g[d \ {n}], w[n]) ELSE g[d]]
    <2>2. ASSUME NEW d \in SUBSET (1 .. n)
          PROVE  h[d] = IF d = {} THEN b
                        ELSE Do(h[d \ {Max(d)}], w[Max(d)])
        <3>1. CASE n \in d
            <4>1. Max(d) = n
                BY <1>0, <3>1, MaxIsLast
            <4>2. d \ {n} \in SUBSET (1 .. n) /\ n \notin d \ {n}
                BY <3>1
            <4>3. h[d \ {n}] = g[d \ {n}]
                BY <4>2
            <4>4. h[d] = Do(g[d \ {n}], w[n])
                BY <3>1
            <4> HIDE DEF h
            <4> QED
                BY <3>1, <4>1, <4>3, <4>4
        <3>2. CASE n \notin d
            <4>1. d \in SUBSET (1 .. n - 1)
                BY <1>0, <3>2
            <4>2. h[d] = g[d]
                BY <3>2
            <4>3. h[d \ {Max(d)}] = g[d \ {Max(d)}]
                BY <3>2
            <4> HIDE DEF h
            <4> QED
                BY <2>1, <4>1, <4>2, <4>3
        <3> QED
            BY <3>1, <3>2
    <2>3. F(n, h)
        <3>1. h = [d \in SUBSET (1 .. n) |-> h[d]]
            OBVIOUS
        <3> HIDE DEF h
        <3> QED
            BY <2>2, <3>1, Zenon
    <2> HIDE DEF F, h
    <2> QED
        BY <1>0, <2>3
<1>3. \E g : F(N, g)
    <2> HIDE DEF F
    <2>1. \A k \in 0 .. N : k \in S
        <3> HIDE DEF S, N
        <3> QED
            BY <1>0, <1>1, <1>2, StepByStep
    <2> QED
        BY <1>0, <2>1
<1>4. F(N, iter)
    BY <1>3, Zenon
<1>5. z[0] = b
    <2>1. 1 .. 0 = {} /\ 0 \in 0 .. N
        BY <1>0
    <2>2. iter[{}] = b
        BY <1>4
    <2> QED
        BY <2>1, <2>2
<1>6. ASSUME NEW k \in 1 .. N PROVE z[k] = Do(z[k - 1], w[k])
    <2>1. z[k] = iter[1 .. k] /\ z[k - 1] = iter[1 .. k - 1]
        BY <1>0
    <2> HIDE DEF iter, N
    <2>2. /\ 1 .. k \in SUBSET (1 .. N) /\ 1 .. k # {}
          /\ (1 .. k) \ {k} = 1 .. k - 1 /\ Max(1 .. k) = k
        BY <1>0, FirstPositions
    <2>3. iter[1 .. k]
            = Do(iter[(1 .. k) \ {Max(1 .. k)}], w[Max(1 .. k)])
        BY <1>4, <2>2
    <2> HIDE DEF F, Do
    <2> QED
        BY <2>1, <2>2, <2>3
<1>7. z[N] = iter[DOMAIN w]
    BY <1>0
<1> HIDE DEF iter, z
<1> QED
    BY <1>b, <1>5, <1>6, <1>7, Zenon DEF b, Do, w


-----------------------------------------------------------------------------
(* Calls that leave everything where it is *)

Stays(s, z) ==
    /\ Sound(z)
    /\ z.group = s.group /\ z.curthread = s.curthread
    /\ z.td_state = s.td_state /\ z.joined = s.joined /\ z.curr = s.curr
    /\ z.need_resched \in {s.need_resched, TRUE}

(* One such step after the other *)
LEMMA StaysAfterStays ==
    ASSUME NEW s, NEW y, Stays(s, y), NEW z, Stays(y, z)
    PROVE  Stays(s, z)
    BY DEF Stays

(* Times and candidates are no part of it. *)
LEMMA CalmStays ==
    ASSUME NEW s, Sound(s), NEW S, S \subseteq s.joined, NEW z, Calm(s, z, S)
    PROVE  Stays(s, z)
<1>1. Sound(z)
    BY CalmSound
<1> QED
    BY <1>1 DEF Stays, Calm, Frame, SameThreads

(* Nor is what only the switch looks at. *)
LEMMA ReschedStays ==
    ASSUME NEW s, Sound(s)
    PROVE  Stays(s, [s EXCEPT !.need_resched = TRUE])
<1> DEFINE z == [s EXCEPT !.need_resched = TRUE]
<1>1. /\ DOMAIN s = Fields /\ s.td_state \in [Thread -> TdState]
      /\ s.curthread \in Thread \cup {Idle}
    BY DEF Sound, Typed
<1>2. /\ SameQueues(s, z) /\ z.need_resched = TRUE
      /\ z.td_state = s.td_state /\ z.curthread = s.curthread
    BY <1>1, Zenon DEF Fields, SameQueues, SameLoads
<1> HIDE DEF z
<1>3. Sound(z)
    BY <1>2, StateSound
<1> QED
    BY <1>2, <1>3 DEF Stays, SameQueues, z

(* entity_tick asks for a switch at most. *)
LEMMA EntityTickStays ==
    ASSUME NEW s, Sound(s), NEW e \in Entity
    PROVE  Stays(s, EntityTick(s, e))
<1> DEFINE y == UpdateCurr(s, Sfq(s, e))
           z == ClearCandidates(y, e)
<1>1. Typed(s) /\ DOMAIN s = Fields
    BY DEF Sound, Typed
<1>2. Calm(s, y, {})
    BY <1>1, QuietOperations, QuietIsCalm
<1>3. Stays(s, y) /\ Sound(y)
    BY ZenonT(60), <1>2, CalmStays DEF Stays
<1>4. \/ EntityTick(s, e) = y
      \/ EntityTick(s, e) = [z EXCEPT !.need_resched = TRUE]
      \/ EntityTick(s, e) = [y EXCEPT !.need_resched = TRUE]
    BY Zenon DEF EntityTick, CheckPreemptTick
<1> HIDE DEF y
<1>5. Calm(y, z, {})
    BY <1>3, ClearCandidatesCalm DEF Sound
<1> HIDE DEF z
<1>6. Stays(y, z) /\ Sound(z)
    BY <1>3, <1>5, CalmStays DEF Stays
<1>7. /\ Stays(z, [z EXCEPT !.need_resched = TRUE])
      /\ Stays(y, [y EXCEPT !.need_resched = TRUE])
    BY <1>3, <1>6, ReschedStays
<1> QED
    BY <1>3, <1>4, <1>6, <1>7, StaysAfterStays

(* pss_tick, at every level *)
LEMMA TickStays ==
    ASSUME NEW s, Sound(s), NEW t \in Thread
    PROVE  Stays(s, TickWalk(s, t, UpdateRqClock(s)))
<1> DEFINE w == Walkup(s, t)
           n == Len(w)
           r == UpdateRqClock(s)
<1>1. Typed(s) /\ DOMAIN s = Fields /\ t \in Entity
      /\ s.group \in [Thread -> Queue]
    BY DEF Sound, Typed, Entity
<1>2. PICK z : /\ z[0] = r
               /\ \A k \in 1 .. n : z[k] = EntityTick(z[k - 1], w[k])
               /\ TickWalk(s, t, r) = z[n]
    BY <1>1, TickSteps
<1>3. n \in Nat /\ \A k \in 1 .. n : w[k] \in Entity
    BY <1>1, WalkupMembers
<1>4. Stays(s, r)
    <2>1. Calm(s, r, {})
        BY <1>1, QuietOperations, QuietIsCalm
    <2> QED
        BY <2>1, CalmStays
<1> HIDE DEF w, n, r
<1> DEFINE S == {k \in 0 .. n : Stays(s, z[k])}
<1>5. 0 \in S
    BY <1>2, <1>3, <1>4
<1>6. ASSUME NEW k \in 1 .. n, k - 1 \in S PROVE k \in S
    <2>1. Stays(s, z[k - 1]) /\ Sound(z[k - 1])
        BY <1>6 DEF Stays
    <2>2. Stays(z[k - 1], z[k])
        BY <1>2, <1>3, <2>1, EntityTickStays
    <2> QED
        BY <2>1, <2>2, StaysAfterStays
<1>7. \A k \in 0 .. n : k \in S
    <2> HIDE DEF S
    <2> QED
        BY <1>3, <1>5, <1>6, StepByStep
<1> QED
    BY <1>2, <1>3, <1>7 DEF w, r

(* update_sfq_shares on the way up from a group *)
LEMMA SharesStay ==
    ASSUME NEW s, s.group \in [Thread -> Queue], NEW g \in Entity,
           NEW r, Sound(r)
    PROVE  Stays(r, SharesWalk(s, g, r))
<1> DEFINE w == Walkup(s, g)
           n == Len(w)
<1>0. s.group \in [Thread -> Queue] /\ g \in Entity
    OBVIOUS
<1>1. PICK z : /\ z[0] = r
               /\ \A k \in 1 .. n :
                    z[k] = UpdateSfqShares(z[k - 1], Sfq(z[k - 1], w[k]))
               /\ SharesWalk(s, g, r) = z[n]
    BY <1>0, SharesSteps
<1>2. n \in Nat /\ \A k \in 1 .. n : w[k] \in Entity
    <2>1. Climbs(s, g, w)
        BY <1>0, WalkupIsWalk DEF IsWalk
    <2> HIDE DEF w
    <2> QED
        BY <2>1 DEF Climbs
<1> HIDE DEF w, n
<1> DEFINE S == {k \in 0 .. n : Stays(r, z[k])}
<1>3. 0 \in S
    <2>1. Sound(r)
        OBVIOUS
    <2>2. Stays(r, r)
        BY <2>1 DEF Stays
    <2> QED
        BY <1>1, <1>2, <2>2
<1>4. ASSUME NEW k \in 1 .. n, k - 1 \in S PROVE k \in S
    <2>1. Stays(r, z[k - 1]) /\ Sound(z[k - 1])
        BY <1>4 DEF Stays
    <2>2. Sfq(z[k - 1], w[k]) \in Queue
        BY <1>2, <2>1, ParentTypes DEF Sound, Typed
    <2>3. LET y == z[k]
          IN  /\ Sound(y) /\ Frame(z[k - 1], y) /\ SameThreads(z[k - 1], y)
              /\ y.curr = z[k - 1].curr
        BY <1>1, <2>1, <2>2, SharesEffect
    <2>4. Stays(z[k - 1], z[k])
        BY <2>3 DEF Stays, Frame, SameThreads
    <2> QED
        BY <2>1, <2>4, StaysAfterStays
<1>5. \A k \in 0 .. n : k \in S
    <2> HIDE DEF S
    <2> QED
        BY <1>2, <1>3, <1>4, StepByStep
<1> QED
    BY <1>1, <1>2, <1>5 DEF w

-----------------------------------------------------------------------------
(* The inductive invariant *)

(* A thread is queued exactly when it is runnable, the thread that the CPU *)
(* runs is the one that is running, and what the queues run is its path.   *)
Settled(s) ==
    /\ Sound(s) /\ Nested(s, {})
    /\ \A t \in Thread :
        t \in s.joined <=> s.td_state[t] \in {"runq", "running"}
    /\ \A t \in Thread : s.td_state[t] = "running" <=> t = s.curthread
    /\ s.curthread = Idle => AllIdle(s)
    /\ s.curthread # Idle => OnPath(s, s.curthread)
    /\ s.need_resched \in BOOLEAN

(* An idle CPU that nothing waits for need not look for work. *)
Inv(s) ==
    /\ Settled(s)
    /\ s.curthread = Idle /\ ~ s.need_resched =>
            \A t \in Thread : s.td_state[t] # "runq"

(* What runs has joined, up to the root queue. *)
LEMMA RunningHasJoined ==
    ASSUME NEW s, Settled(s)
    PROVE  /\ s.curthread # Idle =>
                /\ s.curthread \in Thread \cap s.joined
                /\ Path(s, s.curthread) \subseteq s.joined
           /\ \A e \in Entity : s.curr[Sfq(s, e)] = e => e \in s.joined
<1>1. Typed(s) /\ Nested(s, {}) /\ s.curthread \in Thread \cup {Idle}
    BY DEF Settled, Sound, Typed
<1>2. ASSUME s.curthread # Idle
      PROVE  /\ s.curthread \in Thread \cap s.joined
             /\ Path(s, s.curthread) \subseteq s.joined
    <2>1. s.curthread \in Thread /\ s.td_state[s.curthread] = "running"
        BY <1>1, <1>2 DEF Settled
    <2>2. s.curthread \in s.joined
        BY <2>1 DEF Settled
    <2> QED
        BY <1>1, <2>1, <2>2, AncestorsJoined
<1>3. ASSUME NEW e \in Entity, s.curr[Sfq(s, e)] = e PROVE e \in s.joined
    <2>1. CASE s.curthread = Idle
        <3>1. Sfq(s, e) \in Queue /\ e # NULL
            BY <1>1, ParentTypes, GroupAssumption DEF Typed, Entity
        <3> QED
            BY <1>3, <2>1, <3>1 DEF Settled, AllIdle
    <2>2. CASE s.curthread # Idle
        BY <1>2, <1>3, <2>2 DEF Settled, OnPath
    <2> QED
        BY <2>1, <2>2
<1> QED
    BY <1>2, <1>3

(* What leaves everything where it is keeps that. *)
LEMMA StaysSettled ==
    ASSUME NEW s, Settled(s), NEW z, Stays(s, z)
    PROVE  Settled(z)
<1>1. Typed(s) /\ s.group \in [Thread -> Queue]
    BY DEF Settled, Sound, Typed
<1>2. \A q : Members(z, q) = Members(s, q)
    BY MembersFrame DEF Stays
<1>3. Nested(z, {})
    BY <1>2 DEF Settled, Stays, Nested
<1>4. ASSUME s.curthread # Idle PROVE OnPath(z, s.curthread)
    <2>1. s.curthread \in Entity
        BY <1>1, <1>4 DEF Typed, Entity
    <2>2. Path(z, s.curthread) = Path(s, s.curthread)
        BY <1>1, <2>1, PathFrame DEF Stays
    <2>3. \A f : Sfq(z, f) = Sfq(s, f)
        BY DEF Stays, Sfq
    <2> QED
        BY <1>4, <2>2, <2>3 DEF Settled, OnPath, Stays
<1>5. /\ Sound(z) /\ z.need_resched \in BOOLEAN
      /\ \A t \in Thread :
            /\ t \in z.joined <=> z.td_state[t] \in {"runq", "running"}
            /\ z.td_state[t] = "running" <=> t = z.curthread
      /\ z.curthread = Idle => AllIdle(z)
    BY ZenonT(60) DEF Settled, Stays, AllIdle
<1> QED
    BY <1>3, <1>4, <1>5 DEF Settled, Stays

(* And the invariant. *)
LEMMA StaysInv ==
    ASSUME NEW s, Inv(s), NEW z, Stays(s, z)
    PROVE  Inv(z)
<1>1. Settled(z)
    BY StaysSettled DEF Inv
<1>2. z.curthread = Idle /\ ~ z.need_resched =>
            \A t \in Thread : z.td_state[t] # "runq"
    BY DEF Inv, Stays
<1> QED
    BY <1>1, <1>2 DEF Inv

-----------------------------------------------------------------------------
(* sched_choose *)

(* A queue that is not empty and runs nothing has something to pick. *)
LEMMA PickNextMember ==
    ASSUME NEW s, Sound(s), AllIdle(s), NEW q \in Queue, Members(s, q) # {}
    PROVE  /\ Leftmost(s, q) # NULL
           /\ PickNextEntity(s, q) \in Members(s, q)
<1> DEFINE tl == s.timeline[q]
           first == Leftmost(s, q)
           second == IF Len(tl) > 1 THEN tl[2] ELSE NULL
           Fits(e) == e # NULL /\ WithinGranularity(s, e, first)
<1>1. /\ tl \in Seq(Entity) /\ ToSet(tl) = Members(s, q) \ {NULL}
      /\ \A k \in Candidate : s.cand[k][q] \in Members(s, q) \cup {NULL}
      /\ Members(s, q) \subseteq Entity
    BY QueuesAreFinite DEF Sound, QueueOK, Typed, AllIdle
<1>2. NULL \notin Entity
    BY GroupAssumption DEF Entity
<1>3. \A x : x \in ToSet(tl) <=> \E i \in 1 .. Len(tl) : tl[i] = x
    BY <1>1, ToSetMember
<1>4. ToSet(tl) = Members(s, q)
    BY <1>1, <1>2
<1>5. PickNextEntity(s, q)
        = IF Fits(s.cand["next"][q]) THEN s.cand["next"][q]
          ELSE IF Fits(s.cand["last"][q]) THEN s.cand["last"][q]
          ELSE IF s.cand["skip"][q] = first /\ Fits(second) THEN second
          ELSE first
    BY Zenon DEF PickNextEntity
<1>6. first = IF tl = <<>> THEN NULL ELSE Head(tl)
    BY DEF Leftmost
<1> HIDE DEF tl, first
<1>7. Len(tl) \in Nat /\ tl # <<>> /\ Len(tl) >= 1 /\ Head(tl) = tl[1]
    <2>1. tl # <<>>
        <3>1. Len(<<>>) = 0 /\ 1 .. 0 = {}
            OBVIOUS
        <3> QED
            BY <1>3, <1>4, <3>1
    <2> QED
        BY <1>1, <2>1
<1>8. first \in Members(s, q) /\ (second \in Members(s, q) \/ second = NULL)
    BY <1>3, <1>4, <1>6, <1>7
<1>9. {"next", "last"} \subseteq Candidate
    BY DEF Candidate
<1>10. \A e : Fits(e) => e # NULL
    OBVIOUS
<1> HIDE DEF Fits, second
<1>11. PickNextEntity(s, q) \in Members(s, q)
    BY <1>1, <1>5, <1>8, <1>9, <1>10
<1> QED
    BY <1>1, <1>2, <1>8, <1>11 DEF first

(* pss_pick_next_thread reaches a queued thread: there is no level at      *)
(* which nothing can be picked, and there are no more levels than groups.  *)
LEMMA PickNextEffect ==
    ASSUME NEW s, Sound(s), Nested(s, {}), AllIdle(s), Members(s, Root) # {}
    PROVE  LET pick == PickNext(s)
           IN  /\ Calm(s, pick.s, {})
               /\ pick.e \in Thread \cap s.joined
<1> DEFINE N == Cardinality(Group)
           w == [k \in 1 .. N + 1 |-> k]
<1>1. /\ Typed(s) /\ s.group \in [Thread -> Queue] /\ DOMAIN s = Fields
      /\ s.joined \subseteq Entity
    BY DEF Sound, Typed
<1>2. N \in Nat
    BY GroupAssumption, FS_CardinalityType
<1>3. Len(w) = N + 1
    BY <1>2
<1>4. PICK z : /\ z[0] = [s |-> s, e |-> Idle, q |-> Root]
               /\ \A k \in 1 .. N + 1 : z[k] = DownStep(z[k - 1])
               /\ PickNext(s) = z[N + 1]
    <2>1. PICK z : /\ z[0] = [s |-> s, e |-> Idle, q |-> Root]
                   /\ \A k \in 1 .. Len(w) : z[k] = DownStep(z[k - 1])
                   /\ PickNext(s) = z[Len(w)]
        BY PickSteps
    <2> HIDE DEF w
    <2> QED
        BY <1>3, <2>1
<1> HIDE DEF w, N
<1> DEFINE Chain(k, q) ==
               \E f \in [1 .. k -> Group] :
                    /\ \A i \in 1 .. k - 1 : Parent[f[i + 1]] = f[i]
                    /\ q = IF k = 0 THEN Root ELSE f[k]
           P(k) == /\ Calm(s, z[k].s, {})
                   /\ z[k].q = NULL => z[k].e \in Thread \cap s.joined
                   /\ z[k].q # NULL =>
                        /\ z[k].q \in Queue /\ Members(s, z[k].q) # {}
                        /\ Chain(k, z[k].q)
           S == {k \in 0 .. N + 1 : P(k)}
<1>5. 0 \in S
    <2>1. /\ z[0].s = s /\ z[0].q = Root /\ Root \in Queue /\ Root # NULL
        BY <1>4, GroupAssumption DEF Queue
    <2>2. Chain(0, Root)
        <3>1. [i \in 1 .. 0 |-> Root] \in [1 .. 0 -> Group]
            OBVIOUS
        <3>2. \A i \in 1 .. 0 - 1 : FALSE
            OBVIOUS
        <3> QED
            BY <3>1, <3>2
    <2> HIDE DEF Chain
    <2>3. Calm(s, s, {})
        BY <1>1, CalmAtFirst
    <2> QED
        BY <1>2, <2>1, <2>2, <2>3
<1>6. ASSUME NEW k \in 1 .. N + 1, k - 1 \in S PROVE k \in S
    <2> DEFINE a == z[k - 1]
               e == PickNextEntity(a.s, a.q)
    <2>1. /\ P(k - 1) /\ z[k] = DownStep(a) /\ k \in Nat /\ k # 0
        <3>1. P(k - 1)
            <4> HIDE DEF P
            <4> QED
                BY <1>6
        <3>2. z[k] = DownStep(a)
            BY <1>4
        <3>3. k \in Nat /\ k # 0
            BY <1>2
        <3> HIDE DEF P, a
        <3> QED
            BY <3>1, <3>2, <3>3
    <2>2. CASE a.q = NULL
        <3>1. z[k] = a
            BY <2>1, <2>2 DEF DownStep
        <3> QED
            BY <1>2, <2>1, <2>2, <3>1
    <2>3. CASE a.q # NULL
        <3>1. /\ a.q \in Queue /\ Members(s, a.q) # {} /\ Chain(k - 1, a.q)
              /\ Calm(s, a.s, {})
            BY <2>1, <2>3
        <3> HIDE DEF a
        <3>2. Sound(a.s) /\ \A p : Members(a.s, p) = Members(s, p)
            BY SMTT(60), <3>1, CalmSound
        <3>3. AllIdle(a.s) /\ Members(a.s, a.q) # {}
            BY <3>1, <3>2 DEF Calm, AllIdle
        <3>4. Leftmost(a.s, a.q) # NULL /\ e \in Members(s, a.q)
            BY <3>1, <3>2, <3>3, PickNextMember
        <3>5. e \in s.joined /\ e \in Entity /\ Sfq(s, e) = a.q
            BY <1>1, <3>4 DEF Members
        <3> HIDE DEF e
        <3>6. z[k] = [s |-> ClearCandidates(a.s, e), e |-> e,
                      q |-> IF e \in Group THEN e ELSE NULL]
            BY <2>1, <2>3, <3>4 DEF DownStep, e
        <3>7. /\ z[k].s = ClearCandidates(a.s, e) /\ z[k].e = e
              /\ z[k].q = IF e \in Group THEN e ELSE NULL
            BY <3>6
        <3>8. Calm(s, z[k].s, {})
            <4>1. Typed(a.s)
                BY <3>2 DEF Sound
            <4>2. Calm(a.s, z[k].s, {})
                BY <3>5, <3>7, <4>1, ClearCandidatesCalm
            <4> QED
                BY <1>1, <3>1, <4>2, CalmAfterCalm
        <3>9. CASE e \notin Group
            <4>1. e \in Thread /\ z[k].q = NULL
                BY <3>5, <3>7, <3>9 DEF Entity
            <4> HIDE DEF Chain
            <4> QED
                BY <2>1, <3>5, <3>7, <3>8, <4>1
        <3>10. CASE e \in Group
            <4>1. /\ z[k].q = e /\ e # NULL /\ e \in Queue
                  /\ Members(s, e) # {} /\ Parent[e] = a.q
                BY <3>5, <3>7, <3>10, GroupAssumption DEF Nested, Queue, Sfq
            <4>2. PICK f \in [1 .. k - 1 -> Group] :
                    /\ \A i \in 1 .. (k - 1) - 1 : Parent[f[i + 1]] = f[i]
                    /\ a.q = IF k - 1 = 0 THEN Root ELSE f[k - 1]
                BY <3>1
            <4> DEFINE h == [i \in 1 .. k |-> IF i = k THEN e ELSE f[i]]
            <4>3. h \in [1 .. k -> Group] /\ h[k] = e
                BY <2>1, <3>10
            <4>4. ASSUME NEW i \in 1 .. k - 1 PROVE Parent[h[i + 1]] = h[i]
                <5>1. /\ h[i] = f[i]
                      /\ h[i + 1] = IF i = k - 1 THEN e ELSE f[i + 1]
                    BY <2>1
                <5>2. i # k - 1 => i \in 1 .. (k - 1) - 1
                    BY <2>1
                <5>3. i = k - 1 => a.q = f[i]
                    BY <2>1, <4>2
                <5> QED
                    BY <4>1, <4>2, <5>1, <5>2, <5>3
            <4> HIDE DEF h
            <4>5. Chain(k, e)
                BY <2>1, <4>3, <4>4
            <4> HIDE DEF Chain
            <4> QED
                BY <2>1, <3>8, <4>1, <4>5
        <3> QED
            BY <3>9, <3>10
    <2> QED
        BY <2>2, <2>3
<1>7. \A k \in 0 .. N + 1 : k \in S
    <2> HIDE DEF S
    <2> QED
        BY <1>2, <1>5, <1>6, StepByStep
<1>8. P(N + 1)
    BY <1>2, <1>7
<1>9. z[N + 1].q = NULL
    <2> SUFFICES ASSUME Chain(N + 1, z[N + 1].q) PROVE FALSE
        BY <1>8
    <2>1. PICK f \in [1 .. N + 1 -> Group] :
            \A i \in 1 .. (N + 1) - 1 : Parent[f[i + 1]] = f[i]
        OBVIOUS
    <2>2. N + 1 \in Nat
        BY <1>2
    <2>3. N + 1 <= N
        BY <2>1, <2>2, PathsAreShort DEF N
    <2> QED
        BY <1>2, <2>3
<1> QED
    BY <1>4, <1>8, <1>9

(* put_prev_thread leaves nothing running. *)
LEMMA PutPrevThreadEffect ==
    ASSUME NEW s, Sound(s), Nested(s, {}), NEW t \in Thread \cup {Idle},
           t = Idle => AllIdle(s), t # Idle => OnPath(s, t), NEW swt,
           t # Idle /\ swt = "relinquish" => Path(s, t) \subseteq s.joined
    PROVE  LET z == PutPrevThread(s, t, swt)
           IN  /\ Sound(z) /\ Nested(z, {}) /\ Frame(s, z) /\ AllIdle(z)
               /\ z.joined = s.joined
               /\ z.td_state = IF t \in s.joined
                               THEN [s.td_state EXCEPT ![t] = "runq"]
                               ELSE s.td_state
<1>1. /\ Typed(s) /\ DOMAIN s = Fields /\ Frame(s, s)
      /\ s.group \in [Thread -> Queue] /\ s.joined \subseteq Entity
    BY DEF Sound, Typed, Frame
<1>2. CASE t = Idle
    <2>1. t \notin s.joined
        BY <1>1, <1>2, GroupAssumption DEF Entity
    <2>2. PutPrevThread(s, t, swt) = s
        BY <1>2 DEF PutPrevThread
    <2> QED
        BY <1>1, <1>2, <2>1, <2>2
<1>3. CASE t # Idle
    <2> DEFINE r == IF t \in s.joined THEN UpdateRqClock(s) ELSE s
               z == PutPrev(r, t, swt)
    <2>1. t \in Thread /\ t \in Entity /\ PutPrevThread(s, t, swt) = z
        BY <1>3, Zenon DEF PutPrevThread, Entity
    <2>2. Quiet(s, r)
        BY <1>1, QuietOperations
    <2> HIDE DEF r
    <2>3. Sound(r) /\ Nested(r, {})
        <3>1. Calm(s, r, {})
            BY <1>1, <2>2, QuietIsCalm
        <3> QED
            BY <3>1, CalmSound
    <2>4. /\ r.group = s.group /\ r.joined = s.joined
          /\ r.td_state = s.td_state /\ r.curr = s.curr /\ Frame(s, r)
        BY <2>2 DEF Quiet, Frame, SameThreads
    <2>5. Path(r, t) = Path(s, t) /\ \A f : Sfq(r, f) = Sfq(s, f)
        BY <1>1, <2>1, <2>4, FrameTypes
    <2>6. OnPath(r, t)
        BY <1>3, <2>4, <2>5 DEF OnPath
    <2>7. swt = "relinquish" => Path(r, t) \subseteq r.joined
        BY <1>3, <2>4, <2>5
    <2>8. /\ Sound(z) /\ Frame(r, z) /\ AllIdle(z)
          /\ z.joined = r.joined
          /\ z.td_state = IF t \in r.joined
                          THEN [r.td_state EXCEPT ![t] = "runq"]
                          ELSE r.td_state
          /\ Nested(z, {})
        BY <2>1, <2>3, <2>6, <2>7, PutPrevEffect
    <2> HIDE DEF z
    <2>9. Frame(s, z)
        BY <2>4, <2>8 DEF Frame
    <2> QED
        BY <2>1, <2>4, <2>8, <2>9
<1> QED
    BY <1>2, <1>3

(* What sched_choose finds: nothing runs, and what is queued waits. *)
Resting(s) ==
    /\ Sound(s) /\ Nested(s, {}) /\ AllIdle(s)
    /\ \A t \in Thread : /\ t \in s.joined <=> s.td_state[t] = "runq"
                         /\ s.td_state[t] # "running"
    /\ s.need_resched = FALSE

(* Nothing waits when the root queue is empty. *)
LEMMA EmptyRoot ==
    ASSUME NEW s, Sound(s), Nested(s, {}), s.nr[Root] = 0
    PROVE  s.joined \cap Thread = {}
<1>1. Typed(s) /\ s.group \in [Thread -> Queue] /\ Root \in Queue
    BY DEF Sound, Typed, Queue
<1>2. Members(s, Root) = {}
    <2>1. Cardinality(Members(s, Root)) = 0
        BY <1>1 DEF Sound, QueueOK
    <2>2. IsFiniteSet(Members(s, Root))
        BY <1>1, QueuesAreFinite
    <2> QED
        BY <2>1, <2>2, FS_EmptySet
<1>3. ASSUME NEW t \in s.joined \cap Thread PROVE FALSE
    <2>1. t \in Entity /\ Path(s, t) \subseteq s.joined
        BY <1>1, AncestorsJoined DEF Entity
    <2>2. PICK f \in Path(s, t) : Sfq(s, f) = Root
        BY <1>1, <2>1, PathProperties
    <2>3. f \in Members(s, Root)
        BY <2>1, <2>2 DEF Members
    <2> QED
        BY <1>2, <2>3
<1> QED
    BY <1>3

(* sched_choose finds the thread that runs next, or that there is none. *)
LEMMA SchedChooseInv ==
    ASSUME NEW s, Resting(s)
    PROVE  Inv(SchedChoose(s))
<1> DEFINE pick == PickNext(s)
           y == Activate(pick.s, pick.e)
<1>1. /\ Typed(s) /\ DOMAIN s = Fields /\ Sound(s) /\ Nested(s, {})
      /\ AllIdle(s) /\ s.td_state \in [Thread -> TdState] /\ Root \in Queue
      /\ s.joined \subseteq Entity /\ s.group \in [Thread -> Queue]
    BY DEF Resting, Sound, Typed, Queue
<1>2. CASE s.nr[Root] = 0
    <2> DEFINE z == [s EXCEPT !.curthread = Idle]
    <2>1. SchedChoose(s) = z
        BY <1>2, Zenon DEF SchedChoose
    <2>2. /\ SameQueues(s, z) /\ z.td_state = s.td_state
          /\ z.curthread = Idle /\ z.need_resched = s.need_resched
        <3>1. z.curthread = Idle
            BY <1>1, Zenon DEF Fields
        <3> QED
            BY <1>1, <3>1, Zenon DEF Fields, SameQueues, SameLoads
    <2> HIDE DEF z
    <2>3. Sound(z) /\ Nested(z, {})
        BY <1>1, <2>2, StateSound
    <2>4. AllIdle(z) /\ z.joined = s.joined /\ z.need_resched = FALSE
        BY <1>1, <2>2 DEF SameQueues, AllIdle, Resting
    <2>5. \A t \in Thread : z.td_state[t] # "runq"
        BY <1>1, <1>2, <2>2, EmptyRoot DEF Resting
    <2>6. \A t \in Thread : t \notin z.joined /\ z.td_state[t] # "running"
        BY <1>1, <1>2, <2>2, <2>4, EmptyRoot DEF Resting
    <2>7. Idle \notin Thread
        BY GroupAssumption
    <2> QED
        BY <2>1, <2>2, <2>3, <2>4, <2>5, <2>6, <2>7 DEF Inv, Settled
<1>3. CASE s.nr[Root] # 0
    <2>1. Members(s, Root) # {}
        <3>1. s.nr[Root] = Cardinality(Members(s, Root))
            BY <1>1 DEF Sound, QueueOK
        <3>2. Cardinality({}) = 0
            BY FS_EmptySet
        <3> QED
            BY <1>3, <3>1, <3>2
    <2>2. Calm(s, pick.s, {}) /\ pick.e \in Thread \cap s.joined
        BY <1>1, <2>1, PickNextEffect
    <2> DEFINE r == pick.s
               t == pick.e
               z == [y EXCEPT !.curthread = t]
    <2>3. SchedChoose(s) = z
        <3>1. pick.e # Idle
            BY SMTT(60), <2>2, GroupAssumption
        <3> HIDE DEF pick
        <3> QED
            BY <1>3, <3>1, Zenon DEF SchedChoose, pick
    <2>4. /\ Sound(r) /\ Nested(r, {}) /\ r.joined = s.joined
          /\ r.td_state = s.td_state /\ r.curr = s.curr
          /\ r.need_resched = s.need_resched
        BY ZenonT(60), <1>1, <2>2, CalmSound DEF Calm, Frame, SameThreads
    <2>5. AllIdle(r) /\ t \in Thread /\ t \in r.joined
        BY <1>1, <2>2, <2>4 DEF AllIdle
    <2> HIDE DEF pick
    <2>6. Path(r, t) \subseteq r.joined
        BY <2>4, <2>5, AncestorsJoined DEF Sound
    <2>7. /\ Sound(y) /\ Frame(r, y) /\ OnPath(y, t)
          /\ y.joined = r.joined
          /\ y.td_state = [r.td_state EXCEPT ![t] = "running"]
          /\ Nested(y, {})
        BY SMTT(60), <2>4, <2>5, <2>6, ActivateEffect
    <2> HIDE DEF y, r, t
    <2>8. /\ DOMAIN y = Fields /\ y.td_state \in [Thread -> TdState]
        BY <2>7 DEF Sound, Typed
    <2>9. /\ SameQueues(y, z) /\ z.td_state = y.td_state
          /\ z.curthread = t /\ z.need_resched = y.need_resched
        <3>1. z.curthread = t
            BY <2>8, Zenon DEF Fields
        <3> QED
            BY <2>5, <2>8, <3>1, Zenon DEF Fields, SameQueues, SameLoads
    <2> HIDE DEF z
    <2>10. Sound(z) /\ Nested(z, {})
        BY <2>7, <2>9, StateSound
    <2>11. OnPath(z, t)
        <3>1. y.group \in [Thread -> Queue] /\ z.group = y.group
            BY <2>7, <2>9 DEF Sound, Typed, SameQueues
        <3>2. t \in Entity
            BY <2>5 DEF Entity
        <3>3. Path(z, t) = Path(y, t) /\ \A f : Sfq(z, f) = Sfq(y, f)
            BY <3>1, <3>2, PathFrame DEF Sfq
        <3> QED
            BY <2>7, <2>9, <3>3 DEF OnPath, SameQueues
    <2>12. /\ z.joined = s.joined /\ z.need_resched = FALSE
           /\ z.td_state = [s.td_state EXCEPT ![t] = "running"]
        BY <2>4, <2>7, <2>9 DEF SameQueues, Frame, Resting
    <2>13. ASSUME NEW u \in Thread
           PROVE  /\ u \in z.joined <=> z.td_state[u] \in {"runq", "running"}
                  /\ z.td_state[u] = "running" <=> u = z.curthread
        <3>1. /\ u \in s.joined <=> s.td_state[u] = "runq"
              /\ s.td_state[u] # "running"
            BY DEF Resting
        <3>2. t \in s.joined
            BY <2>4, <2>5
        <3>3. z.td_state[u] = IF u = t THEN "running" ELSE s.td_state[u]
            BY <1>1, <2>5, <2>12
        <3> QED
            BY <2>9, <2>12, <3>1, <3>2, <3>3
    <2>14. t # Idle
        BY <2>5, GroupAssumption
    <2> QED
        BY <2>3, <2>9, <2>10, <2>11, <2>12, <2>13, <2>14 DEF Inv, Settled
<1> QED
    BY <1>2, <1>3

-----------------------------------------------------------------------------
(* sched_switch *)

(* A path moves with the group of its thread only. *)
LEMMA OnPathFrame ==
    ASSUME NEW s, Typed(s), NEW z, z.group = s.group, z.curr = s.curr,
           NEW t \in Thread, OnPath(s, t)
    PROVE  OnPath(z, t)
<1>1. s.group \in [Thread -> Queue] /\ t \in Entity
    BY DEF Typed, Entity
<1>2. Path(z, t) = Path(s, t)
    BY <1>1, PathFrame
<1>3. \A f : Sfq(z, f) = Sfq(s, f)
    BY DEF Sfq
<1> QED
    BY <1>2, <1>3 DEF OnPath

(* sched_switch of a thread that is preempted or yields *)
LEMMA SwitchRunnableInv ==
    ASSUME NEW s, Inv(s), NEW swt
    PROVE  Inv(SwitchRunnable(s, swt))
<1> DEFINE t == s.curthread
           r == [s EXCEPT !.need_resched = FALSE]
           z == PutPrevThread(r, t, swt)
<1>1. /\ Typed(s) /\ DOMAIN s = Fields /\ Sound(s) /\ Nested(s, {})
      /\ t \in Thread \cup {Idle} /\ s.td_state \in [Thread -> TdState]
      /\ s.joined \subseteq Entity
    BY DEF Inv, Settled, Sound, Typed
<1>2. SwitchRunnable(s, swt) = SchedChoose(z)
    BY Zenon DEF SwitchRunnable
<1>3. /\ SameQueues(s, r) /\ r.td_state = s.td_state
      /\ r.need_resched = FALSE /\ r.curthread = s.curthread
    BY <1>1, Zenon DEF Fields, SameQueues, SameLoads
<1> HIDE DEF r
<1>4. Sound(r) /\ Nested(r, {}) /\ r.joined = s.joined
    BY <1>1, <1>3, StateSound DEF SameQueues
<1>5. t = Idle => AllIdle(r)
    BY <1>3 DEF Inv, Settled, AllIdle, SameQueues
<1>6. t # Idle => OnPath(r, t)
    BY <1>1, <1>3, OnPathFrame DEF Inv, Settled, SameQueues
<1>7. t # Idle => Path(r, t) \subseteq r.joined
    <2>1. ASSUME t # Idle PROVE Path(r, t) \subseteq r.joined
        <3>1. t \in s.joined
            BY <2>1, RunningHasJoined DEF Inv
        <3> QED
            BY <1>4, <3>1, AncestorsJoined DEF Sound
    <2> QED
        BY <2>1
<1> HIDE DEF t
<1>8. /\ Sound(z) /\ Nested(z, {}) /\ Frame(r, z) /\ AllIdle(z)
      /\ z.joined = r.joined
      /\ z.td_state = IF t \in r.joined
                      THEN [r.td_state EXCEPT ![t] = "runq"] ELSE r.td_state
    BY <1>1, <1>4, <1>5, <1>6, <1>7, PutPrevThreadEffect
<1> HIDE DEF z
<1>9. ASSUME NEW u \in Thread
      PROVE  /\ u \in z.joined <=> z.td_state[u] = "runq"
             /\ z.td_state[u] # "running"
    <2>1. /\ u \in s.joined <=> s.td_state[u] \in {"runq", "running"}
          /\ s.td_state[u] = "running" <=> u = t
        BY DEF Inv, Settled, t
    <2>2. t \in s.joined => t \in Thread
        BY <1>1, GroupAssumption DEF Entity
    <2>3. z.td_state[u] = IF u = t /\ t \in s.joined THEN "runq"
                          ELSE s.td_state[u]
        BY <1>1, <1>3, <1>4, <1>8, <2>2
    <2> QED
        BY <1>4, <1>8, <2>1, <2>3
<1>10. z.need_resched = FALSE
    BY <1>3, <1>8 DEF Frame
<1>11. Resting(z)
    BY <1>8, <1>9, <1>10 DEF Resting
<1> QED
    BY <1>2, <1>11, SchedChooseInv

(* sched_switch of a thread that sleeps or exits: it has left its queue    *)
(* when it is put back.                                                    *)
LEMMA SwitchAwayInv ==
    ASSUME NEW s, Inv(s), s.curthread # Idle,
           NEW state \in {"sleeping", "none"}
    PROVE  Inv(SwitchAway(s, state))
<1> DEFINE t == s.curthread
           r == [s EXCEPT !.need_resched = FALSE, !.td_state[t] = state]
           y == Dequeue(r, t, state = "sleeping")
           z == PutPrevThread(y, t, "none")
<1>1. /\ Typed(s) /\ DOMAIN s = Fields /\ Sound(s) /\ Nested(s, {})
      /\ t \in Thread /\ s.td_state \in [Thread -> TdState]
      /\ t \in s.joined /\ t # Idle /\ s.curthread \in Thread \cup {Idle}
    BY RunningHasJoined DEF Inv, Settled, Sound, Typed
<1>2. SwitchAway(s, state) = SchedChoose(z)
    BY Zenon DEF SwitchAway
<1>3. /\ r.td_state = [s.td_state EXCEPT ![t] = state]
      /\ r.td_state \in [Thread -> TdState]
      /\ r.need_resched = FALSE
    <2>1. /\ r.td_state = [s.td_state EXCEPT ![t] = state]
          /\ r.need_resched = FALSE
        BY <1>1, Zenon DEF Fields
    <2> HIDE DEF r
    <2>2. state \in TdState
        BY DEF TdState
    <2> QED
        BY <1>1, <2>1, <2>2
<1>4. SameQueues(s, r) /\ r.curthread = s.curthread
    BY <1>1, <1>3, Zenon DEF Fields, SameQueues, SameLoads
<1> HIDE DEF r
<1>5. Sound(r) /\ Nested(r, {}) /\ r.joined = s.joined
    BY <1>1, <1>4, StateSound DEF SameQueues
<1>6. t \in Thread \cap r.joined
    BY <1>1, <1>5
<1>7. OnPath(s, t)
    BY <1>1 DEF Inv, Settled
<1> HIDE DEF t
<1>8. /\ Sound(y) /\ Nested(y, {}) /\ Frame(r, y)
      /\ y.curr = r.curr /\ y.td_state = r.td_state
      /\ \A u \in Thread : u \in y.joined <=> u \in r.joined /\ u # t
    BY <1>5, <1>6, DequeueEffect
<1> HIDE DEF y
<1>9. OnPath(y, t)
    BY <1>1, <1>4, <1>7, <1>8, OnPathFrame DEF SameQueues, Frame
<1>10. "none" # "relinquish" /\ t \notin y.joined
    BY <1>1, <1>8
<1>11. /\ Sound(z) /\ Nested(z, {}) /\ Frame(y, z) /\ AllIdle(z)
       /\ z.joined = y.joined /\ z.td_state = y.td_state
    <2>1. /\ Sound(z) /\ Nested(z, {}) /\ Frame(y, z) /\ AllIdle(z)
          /\ z.joined = y.joined
          /\ z.td_state = IF t \in y.joined
                          THEN [y.td_state EXCEPT ![t] = "runq"]
                          ELSE y.td_state
        <3>1. /\ Sound(y) /\ Nested(y, {}) /\ t \in Thread \cup {Idle}
              /\ t = Idle => AllIdle(y)
              /\ t # Idle => OnPath(y, t)
              /\ t # Idle /\ "none" = "relinquish" =>
                    Path(y, t) \subseteq y.joined
            BY <1>1, <1>8, <1>9, <1>10
        <3> HIDE DEF z
        <3> QED
            BY <3>1, PutPrevThreadEffect DEF z
    <2> HIDE DEF z
    <2> QED
        BY <1>10, <2>1
<1> HIDE DEF z
<1>12. ASSUME NEW u \in Thread
       PROVE  /\ u \in z.joined <=> z.td_state[u] = "runq"
              /\ z.td_state[u] # "running"
    <2>1. /\ u \in s.joined <=> s.td_state[u] \in {"runq", "running"}
          /\ s.td_state[u] = "running" <=> u = t
        BY DEF Inv, Settled, t
    <2>2. z.td_state[u] = IF u = t THEN state ELSE s.td_state[u]
        BY <1>1, <1>3, <1>8, <1>11
    <2> QED
        BY <1>5, <1>8, <1>11, <2>1, <2>2
<1>13. z.need_resched = FALSE
    BY <1>3, <1>8, <1>11 DEF Frame
<1>14. Resting(z)
    BY <1>11, <1>12, <1>13 DEF Resting
<1> QED
    BY <1>2, <1>14, SchedChooseInv

-----------------------------------------------------------------------------
(* Threads that fork and threads that move *)

(* A thread has changed its group. *)
Regrouped(s, t, g, z) ==
    /\ DOMAIN z = Fields
    /\ z.group = [s.group EXCEPT ![t] = g]
    /\ z.shares = s.shares /\ z.panics = s.panics
    /\ z.curthread = s.curthread /\ z.need_resched = s.need_resched
    /\ SameLoads(s, z)
    /\ z.joined = s.joined /\ z.timeline = s.timeline
    /\ z.curr = s.curr /\ z.cand = s.cand

(* A thread that is in no queue and runs in none can do so. *)
LEMMA RegroupedSound ==
    ASSUME NEW s, Sound(s), NEW t \in Thread \ s.joined,
           s.curr[Sfq(s, t)] # t, NEW g \in Queue,
           NEW z, Regrouped(s, t, g, z), z.td_state \in [Thread -> TdState]
    PROVE  /\ Sound(z)
           /\ \A X : Nested(s, X) => Nested(z, X)
           /\ \A u \in Thread \ {t} : OnPath(s, u) => OnPath(z, u)
           /\ AllIdle(s) => AllIdle(z)
<1>1. /\ Typed(s) /\ WeightsOK(s) /\ s.panics = {}
      /\ \A q \in Queue : QueueOK(s, q)
      /\ s.rq_load = s.load[Root] /\ s.joined \subseteq Entity
      /\ s.group \in [Thread -> Queue] /\ t \in Entity
      /\ s.curr \in [Queue -> EntityOrNull]
    BY DEF Sound, Typed, Entity
<1>2. /\ z.group \in [Thread -> Queue] /\ z.group[t] = g
      /\ \A u \in Thread \ {t} : z.group[u] = s.group[u]
    BY <1>1 DEF Regrouped
<1>3. \A f : f # t => Sfq(z, f) = Sfq(s, f)
    BY <1>2 DEF Sfq
<1>4. \A q : Members(z, q) = Members(s, q)
    BY <1>3 DEF Members, Regrouped
<1>5. \A q \in Queue : s.curr[q] # t
    <2> SUFFICES ASSUME NEW q \in Queue, s.curr[q] = t PROVE FALSE
        OBVIOUS
    <2>1. t # NULL
        BY GroupAssumption
    <2>2. Sfq(s, t) = q
        BY <1>1, <2>1 DEF QueueOK
    <2> QED
        BY <2>2
<1>6. ASSUME NEW q \in Queue PROVE QueueOK(z, q)
    <2>1. z.curr[q] # NULL => Sfq(z, z.curr[q]) = q
        BY <1>1, <1>3, <1>5 DEF QueueOK, Regrouped
    <2>2. QueueOK(s, q)
        BY <1>1
    <2> QED
        BY <1>4, <2>1, <2>2 DEF QueueOK, Regrouped, SameLoads
<1>7. Typed(z)
    BY <1>1, <1>2 DEF Typed, Regrouped, SameLoads
<1>8. WeightsOK(z) /\ z.panics = {} /\ z.rq_load = z.load[Root]
    BY <1>1 DEF WeightsOK, Regrouped, SameLoads
<1>9. \A X : Nested(s, X) => Nested(z, X)
    BY <1>4 DEF Nested, Regrouped
<1>10. ASSUME NEW u \in Thread \ {t}, OnPath(s, u) PROVE OnPath(z, u)
    <2> SUFFICES ASSUME NEW f \in Entity
                 PROVE  z.curr[Sfq(z, f)] = f <=> f \in Path(z, u)
        BY DEF OnPath
    <2>1. u \in Entity /\ z.group[u] = s.group[u]
        BY <1>2 DEF Entity
    <2>2. Path(z, u) = Path(s, u)
        BY <1>1, <1>2, <2>1, PathFrame
    <2>3. CASE f = t
        <3>1. Sfq(z, t) = g
            BY <1>2 DEF Sfq
        <3>2. t \notin Path(s, u)
            BY <1>1, <2>1, PathProperties, GroupAssumption
        <3> QED
            BY <1>5, <2>2, <2>3, <3>1, <3>2 DEF Regrouped
    <2>4. CASE f # t
        BY <1>3, <1>10, <2>2, <2>4 DEF OnPath, Regrouped
    <2> QED
        BY <2>3, <2>4
<1>11. AllIdle(s) => AllIdle(z)
    BY DEF AllIdle, Regrouped
<1> QED
    BY <1>6, <1>7, <1>8, <1>9, <1>10, <1>11 DEF Sound

(* A thread that is not runnable changes its group, or is born. *)
LEMMA RegroupedInv ==
    ASSUME NEW s, Inv(s), NEW t \in Thread,
           s.td_state[t] \notin {"runq", "running"}, NEW g \in Queue,
           NEW z, Regrouped(s, t, g, z),
           NEW state \in TdState \ {"runq", "running"},
           z.td_state = [s.td_state EXCEPT ![t] = state]
    PROVE  Inv(z)
<1>1. /\ Sound(s) /\ Nested(s, {}) /\ t \notin s.joined /\ t \in Entity
      /\ s.td_state \in [Thread -> TdState]
    BY DEF Inv, Settled, Sound, Typed, Entity
<1>2. s.curr[Sfq(s, t)] # t
    BY <1>1, RunningHasJoined DEF Inv
<1>3. z.td_state \in [Thread -> TdState] /\ t \in Thread \ s.joined
    BY <1>1
<1>4. /\ Sound(z) /\ Nested(z, {})
      /\ \A u \in Thread \ {t} : OnPath(s, u) => OnPath(z, u)
      /\ AllIdle(s) => AllIdle(z)
    BY <1>1, <1>2, <1>3, RegroupedSound
<1>5. s.curthread # t /\ s.curthread \in Thread \cup {Idle}
    BY <1>1 DEF Inv, Settled, Sound, Typed
<1>6. z.curthread = Idle => AllIdle(z)
    BY <1>4 DEF Inv, Settled, Regrouped
<1>7. z.curthread # Idle => OnPath(z, z.curthread)
    BY <1>4, <1>5 DEF Inv, Settled, Regrouped
<1>8. ASSUME NEW u \in Thread
      PROVE  /\ u \in z.joined <=> z.td_state[u] \in {"runq", "running"}
             /\ z.td_state[u] = "running" <=> u = z.curthread
             /\ z.curthread = Idle /\ ~ z.need_resched =>
                    z.td_state[u] # "runq"
    <2>1. z.td_state[u] = IF u = t THEN state ELSE s.td_state[u]
        BY <1>1
    <2>2. /\ u \in s.joined <=> s.td_state[u] \in {"runq", "running"}
          /\ s.td_state[u] = "running" <=> u = s.curthread
          /\ s.curthread = Idle /\ ~ s.need_resched =>
                s.td_state[u] # "runq"
        BY DEF Inv, Settled
    <2>3. /\ z.joined = s.joined /\ z.curthread = s.curthread
          /\ z.need_resched = s.need_resched
        BY DEF Regrouped
    <2> QED
        BY <1>1, <1>5, <2>1, <2>2, <2>3
<1>9. z.need_resched \in BOOLEAN
    BY DEF Inv, Settled, Regrouped
<1> QED
    BY <1>4, <1>6, <1>7, <1>8, <1>9 DEF Inv, Settled

(* pss_fork_thread *)
LEMMA ForkThreadInv ==
    ASSUME NEW s, Inv(s), NEW t \in Thread, NEW child \in Thread,
           s.td_state[child] = "none"
    PROVE  Inv(ForkThread(s, t, child))
<1> DEFINE q == s.group[t]
           s1 == [s EXCEPT !.td_state[child] = "new", !.group[child] = q]
           s2 == UpdateRqClock(s1)
           s3 == UpdateCurr(s2, q)
           s4 == [s3 EXCEPT !.vruntime[child] = s3.vruntime[t]]
           s5 == PlaceInitial(s4, child)
           z  == [s5 EXCEPT !.vruntime[child] = @ - s5.vtime[q]]
<1>1. /\ DOMAIN s = Fields /\ s.group \in [Thread -> Queue] /\ q \in Queue
    BY DEF Inv, Settled, Sound, Typed
<1>2. ForkThread(s, t, child) = z
    BY Zenon DEF ForkThread
<1> HIDE DEF q
<1>3. /\ Regrouped(s, child, q, s1)
      /\ s1.td_state = [s.td_state EXCEPT ![child] = "new"]
    BY <1>1, Zenon DEF Fields, Regrouped, SameLoads
<1> HIDE DEF s1
<1>4. Inv(s1)
    <2>1. "new" \in TdState \ {"runq", "running"}
        BY DEF TdState
    <2>2. s.td_state[child] \notin {"runq", "running"}
        OBVIOUS
    <2> QED
        BY <1>1, <1>3, <2>1, <2>2, RegroupedInv
<1>5. Quiet(s1, s2) /\ DOMAIN s2 = Fields
    BY <1>3, QuietOperations DEF Regrouped, Quiet, Frame
<1> HIDE DEF s2
<1>6. Quiet(s2, s3) /\ DOMAIN s3 = Fields
    BY <1>5, QuietOperations DEF Quiet, Frame
<1> HIDE DEF s3
<1>7. Quiet(s3, s4) /\ DOMAIN s4 = Fields
    <2>1. Quiet(s3, s4)
        BY <1>6, QuietOperations
    <2> HIDE DEF s4
    <2> QED
        BY <2>1 DEF Quiet, Frame
<1> HIDE DEF s4
<1>8. Quiet(s4, s5) /\ DOMAIN s5 = Fields
    BY <1>7, QuietOperations DEF Quiet, Frame
<1> HIDE DEF s5
<1>9. Quiet(s5, z)
    BY <1>8, QuietOperations
<1> HIDE DEF z
<1>10. Quiet(s1, z)
    BY <1>5, <1>6, <1>7, <1>8, <1>9, QuietAfterQuiet
<1>11. Stays(s1, z)
    <2>1. Sound(s1) /\ Typed(s1)
        BY <1>4 DEF Inv, Settled, Sound
    <2>2. Calm(s1, z, {})
        BY <1>10, <2>1, QuietIsCalm
    <2> QED
        BY <2>1, <2>2, CalmStays
<1> QED
    BY <1>2, <1>4, <1>11, StaysInv

-----------------------------------------------------------------------------
(* Threads that become runnable *)

(* A set of positions that is not empty has a last one. *)
LEMMA LastPosition ==
    ASSUME NEW n \in Nat, NEW d \in SUBSET (1 .. n), d # {}
    PROVE  Max(d) \in d
<1> DEFINE T == {k \in 0 .. n : \A x \in SUBSET (1 .. k) :
                                    x # {} => Max(x) \in x}
<1>1. 0 \in T
    <2>1. \A i : i \notin 1 .. 0
        OBVIOUS
    <2>2. ASSUME NEW x \in SUBSET (1 .. 0), x # {} PROVE FALSE
        BY <2>1, <2>2
    <2> QED
        BY <2>2
<1>2. ASSUME NEW k \in 1 .. n, k - 1 \in T PROVE k \in T
    <2> SUFFICES ASSUME NEW x \in SUBSET (1 .. k), x # {}
                 PROVE  Max(x) \in x
        OBVIOUS
    <2>1. CASE k \in x
        <3>1. Max(x) = k
            BY <2>1, MaxIsLast
        <3> QED
            BY <2>1, <3>1
    <2>2. CASE k \notin x
        <3>1. x \in SUBSET (1 .. k - 1)
            BY <2>2
        <3> QED
            BY <1>2, <3>1
    <2> QED
        BY <2>1, <2>2
<1>3. \A k \in 0 .. n : k \in T
    <2> HIDE DEF T
    <2> QED
        BY <1>1, <1>2, StepByStep
<1>4. n \in T
    BY <1>3
<1> QED
    BY <1>4

(* find_common_ancestor finds ancestors: both paths end in the root queue. *)
LEMMA CommonAncestorOnPath ==
    ASSUME NEW s, Typed(s), NEW a \in Entity, NEW b \in Entity
    PROVE  /\ CommonAncestor(s, a, b)[1] \in Path(s, a)
           /\ CommonAncestor(s, a, b)[2] \in Path(s, b)
<1> DEFINE v == Walkup(s, a)
           w == Walkup(s, b)
           as == Reverse(v)
           bs == Reverse(w)
           D == {i \in DOMAIN as \cap DOMAIN bs : Sfq(s, as[i]) = Sfq(s, bs[i])}
           d == Max(D)
<1>1. /\ Len(v) \in Nat /\ Len(v) >= 1
      /\ \A k \in 1 .. Len(v) : v[k] \in Path(s, a)
      /\ Len(w) \in Nat /\ Len(w) >= 1
      /\ \A k \in 1 .. Len(w) : w[k] \in Path(s, b)
    BY WalkupMembers
<1>2. Sfq(s, v[Len(v)]) = Root /\ Sfq(s, w[Len(w)]) = Root
    BY WalkupLinks
<1>3. CommonAncestor(s, a, b) = <<as[d], bs[d]>>
    BY Zenon DEF CommonAncestor
<1> HIDE DEF v, w
<1>4. /\ DOMAIN as = 1 .. Len(v) /\ DOMAIN bs = 1 .. Len(w)
      /\ \A i \in 1 .. Len(v) : as[i] = v[Len(v) - i + 1]
      /\ \A i \in 1 .. Len(w) : bs[i] = w[Len(w) - i + 1]
    BY DEF Reverse
<1> HIDE DEF as, bs
<1>5. 1 \in D
    <2>1. /\ 1 \in 1 .. Len(v) /\ Len(v) - 1 + 1 = Len(v)
          /\ 1 \in 1 .. Len(w) /\ Len(w) - 1 + 1 = Len(w)
        BY <1>1
    <2>2. as[1] = v[Len(v)] /\ bs[1] = w[Len(w)]
        BY <1>4, <2>1
    <2> QED
        BY <1>2, <1>4, <2>1, <2>2
<1>6. D \in SUBSET (1 .. Len(v))
    BY <1>4
<1>7. d \in D
    <2> HIDE DEF D
    <2> QED
        BY <1>1, <1>5, <1>6, LastPosition
<1> HIDE DEF d
<1>8. d \in 1 .. Len(v) /\ d \in 1 .. Len(w)
    BY <1>4, <1>7
<1>9. /\ Len(v) - d + 1 \in 1 .. Len(v)
      /\ Len(w) - d + 1 \in 1 .. Len(w)
    BY <1>1, <1>8
<1>10. as[d] \in Path(s, a) /\ bs[d] \in Path(s, b)
    BY <1>1, <1>4, <1>8, <1>9
<1>11. <<as[d], bs[d]>>[1] = as[d] /\ <<as[d], bs[d]>>[2] = bs[d]
    OBVIOUS
<1> QED
    BY <1>3, <1>10, <1>11, Zenon

(* Candidates that have joined leave everything where it is. *)
LEMMA CandidateStays ==
    ASSUME NEW s, Sound(s), Nested(s, {}), NEW e \in s.joined,
           NEW k \in Candidate
    PROVE  Stays(s, SetCandidate(s, k, e))
<1>1. Typed(s) /\ e \in Entity /\ Path(s, e) \subseteq s.joined
    BY AncestorsJoined DEF Sound, Typed
<1>2. Calm(s, SetCandidate(s, k, e), Path(s, e))
    BY <1>1, SetCandidateCalm
<1> QED
    BY <1>1, <1>2, CalmStays

(* pss_check_preempt_curr: an idle CPU is asked to switch. *)
LEMMA CheckPreemptStays ==
    ASSUME NEW s, Sound(s), Nested(s, {}), s.need_resched \in BOOLEAN,
           NEW t \in Thread \cap s.joined
    PROVE  LET z == CheckPreemptCurr(s, t)
           IN  /\ Stays(s, z)
               /\ s.curthread = Idle => z.need_resched = TRUE
<1> DEFINE c == s.curthread
           pair == CommonAncestor(s, c, t)
           s1 == UpdateCurr(s, Sfq(s, pair[1]))
           f == pair[2]
           s2 == SetCandidate(s1, "next", f)
           s3 == [s2 EXCEPT !.need_resched = TRUE]
           s4 == SetCandidate(s3, "last", f)
           r == [s EXCEPT !.need_resched = TRUE]
           z == CheckPreemptCurr(s, t)
<1>1. Typed(s) /\ DOMAIN s = Fields /\ c \in Thread \cup {Idle}
    BY DEF Sound, Typed
<1>2. Stays(s, s) /\ Stays(s, r) /\ r.need_resched = TRUE
    <2>1. Stays(s, s)
        BY DEF Stays
    <2>2. r.need_resched = TRUE
        BY <1>1, Zenon DEF Fields
    <2> QED
        BY <2>1, <2>2, ReschedStays
<1>3. /\ s.need_resched => z = s
      /\ ~ s.need_resched /\ c = Idle => z = r
      /\ ~ s.need_resched /\ c # Idle => z \in {s1, s3, s4}
    BY Zenon DEF CheckPreemptCurr, SetNext, SetLast
<1>4. ASSUME c # Idle PROVE Stays(s, s1) /\ Stays(s, s3) /\ Stays(s, s4)
    <2>1. c \in Entity /\ t \in Entity
        BY <1>1, <1>4 DEF Entity
    <2>2. f \in Path(s, t)
        BY <1>1, <2>1, CommonAncestorOnPath
    <2>3. f \in s.joined
        BY <1>1, <2>2, AncestorsJoined
    <2>4. Stays(s, s1)
        <3>1. Calm(s, s1, {})
            BY <1>1, QuietOperations, QuietIsCalm
        <3> HIDE DEF s1
        <3> QED
            BY <3>1, CalmStays
    <2> HIDE DEF s1, f
    <2>5. \A y : Stays(s, y) => Sound(y) /\ Nested(y, {}) /\ f \in y.joined
        <3> SUFFICES ASSUME NEW y, Stays(s, y)
                     PROVE  Sound(y) /\ Nested(y, {}) /\ f \in y.joined
            OBVIOUS
        <3>1. \A q : Members(y, q) = Members(s, q)
            BY MembersFrame DEF Stays
        <3> QED
            BY <2>3, <3>1 DEF Stays, Nested
    <2>6. Stays(s, s2)
        <3>1. Stays(s1, s2)
            BY <2>4, <2>5, CandidateStays DEF Candidate
        <3> HIDE DEF s2
        <3> QED
            BY <2>4, <3>1, StaysAfterStays
    <2> HIDE DEF s2
    <2>7. Stays(s, s3)
        <3>1. Stays(s2, s3)
            BY <2>5, <2>6, ReschedStays
        <3> HIDE DEF s3
        <3> QED
            BY <2>6, <3>1, StaysAfterStays
    <2> HIDE DEF s3
    <2>8. Stays(s, s4)
        <3>1. Stays(s3, s4)
            BY <2>5, <2>7, CandidateStays DEF Candidate
        <3> HIDE DEF s4
        <3> QED
            BY <2>7, <3>1, StaysAfterStays
    <2> QED
        BY <2>4, <2>7, <2>8
<1> HIDE DEF s1, s3, s4, r, z
<1>5. Stays(s, z)
    BY <1>2, <1>3, <1>4
<1>6. c = Idle => z.need_resched = TRUE
    BY <1>2, <1>3
<1> QED
    BY <1>5, <1>6 DEF z

(* A thread is queued.  It waits until sched_add has asked for a switch.   *)
LEMMA EnqueueSettled ==
    ASSUME NEW s, Settled(s), NEW t \in Thread \ s.joined, NEW wakeup
    PROVE  LET z == Enqueue(s, t, wakeup)
           IN  /\ Settled(z) /\ Frame(s, z)
               /\ z.td_state = [s.td_state EXCEPT ![t] = "runq"]
               /\ t \in z.joined
<1> DEFINE z == Enqueue(s, t, wakeup)
<1>1. /\ Sound(s) /\ Typed(s) /\ Nested(s, {})
      /\ s.td_state \in [Thread -> TdState]
      /\ s.curthread \in Thread \cup {Idle}
    BY DEF Settled, Sound, Typed
<1>2. /\ Sound(z) /\ Nested(z, {}) /\ Frame(s, z)
      /\ z.curr = s.curr
      /\ z.td_state = [s.td_state EXCEPT ![t] = "runq"]
      /\ \A u \in Thread : u \in z.joined <=> u \in s.joined \/ u = t
    BY <1>1, RunningHasJoined, EnqueueEffect
<1> HIDE DEF z
<1>3. s.curthread # t
    BY RunningHasJoined, GroupAssumption
<1>4. ASSUME NEW u \in Thread
      PROVE  /\ u \in z.joined <=> z.td_state[u] \in {"runq", "running"}
             /\ z.td_state[u] = "running" <=> u = z.curthread
    <2>1. z.td_state[u] = IF u = t THEN "runq" ELSE s.td_state[u]
        BY <1>1, <1>2
    <2>2. /\ u \in s.joined <=> s.td_state[u] \in {"runq", "running"}
          /\ s.td_state[u] = "running" <=> u = s.curthread
        BY DEF Settled
    <2> QED
        BY <1>2, <1>3, <2>1, <2>2 DEF Frame
<1>5. z.curthread # Idle => OnPath(z, z.curthread)
    BY <1>1, <1>2, OnPathFrame DEF Settled, Frame
<1>6. /\ z.curthread = Idle => AllIdle(z)
      /\ z.need_resched \in BOOLEAN
    BY <1>2 DEF Settled, Frame, AllIdle
<1>7. Settled(z)
    BY <1>2, <1>4, <1>5, <1>6 DEF Settled
<1> QED
    BY <1>2, <1>7 DEF z

(* sched_add *)
LEMMA SchedAddInv ==
    ASSUME NEW s, Inv(s), NEW t \in Thread,
           s.td_state[t] \in {"new", "sleeping"}, NEW wakeup
    PROVE  Inv(CheckPreemptCurr(Enqueue(s, t, wakeup), t))
<1> DEFINE y == Enqueue(s, t, wakeup)
           z == CheckPreemptCurr(y, t)
<1>1. Settled(s) /\ t \in Thread \ s.joined
    BY DEF Inv, Settled
<1>2. Settled(y) /\ t \in Thread \cap y.joined
    BY <1>1, EnqueueSettled
<1> HIDE DEF y
<1>3. Stays(y, z) /\ (y.curthread = Idle => z.need_resched = TRUE)
    BY <1>2, CheckPreemptStays DEF Settled
<1> HIDE DEF z
<1>4. Settled(z)
    BY <1>2, <1>3, StaysSettled
<1>5. ~ (z.curthread = Idle /\ ~ z.need_resched)
    BY <1>3 DEF Stays
<1>6. Inv(z)
    BY <1>4, <1>5 DEF Inv
<1> QED
    BY <1>6 DEF y, z

-----------------------------------------------------------------------------
(* Moves *)

(* sched_group_move of a thread that is in no queue *)
LEMMA MoveToRegroups ==
    ASSUME NEW s, DOMAIN s = Fields, NEW t, NEW g
    PROVE  /\ Regrouped(s, t, g, MoveTo(s, t, g))
           /\ MoveTo(s, t, g).td_state = s.td_state
    BY Zenon DEF MoveTo, Fields, Regrouped, SameLoads

(* A sleeping thread moves. *)
LEMMA MoveSleeperInv ==
    ASSUME NEW s, Inv(s), NEW t \in Thread,
           s.td_state[t] \notin {"runq", "running"}, NEW g \in Queue
    PROVE  Inv(MoveTo(s, t, g))
<1> DEFINE z == MoveTo(s, t, g)
           state == s.td_state[t]
<1>1. DOMAIN s = Fields /\ s.td_state \in [Thread -> TdState]
    BY DEF Inv, Settled, Sound, Typed
<1>2. Regrouped(s, t, g, z) /\ z.td_state = s.td_state
    BY <1>1, MoveToRegroups
<1> HIDE DEF z
<1>3. /\ state \in TdState \ {"runq", "running"}
      /\ z.td_state = [s.td_state EXCEPT ![t] = state]
    BY <1>1, <1>2
<1>4. Inv(z)
    BY <1>2, <1>3, RegroupedInv
<1> QED
    BY <1>4 DEF z

(* What EnqueueEffect says, as one relation of two states. *)
Enqueued(s, t, z) ==
    /\ Sound(z) /\ Nested(z, {}) /\ Frame(s, z) /\ z.curr = s.curr
    /\ z.td_state = [s.td_state EXCEPT ![t] = "runq"]
    /\ \A u \in Thread : u \in z.joined <=> u \in s.joined \/ u = t

(* The current entities, where there are any, have to have joined. *)
LEMMA EnqueueRelates ==
    ASSUME NEW s, Sound(s), Nested(s, {}), NEW t \in Thread \ s.joined,
           \A e \in Entity : s.curr[Sfq(s, e)] = e => e \in s.joined,
           NEW wakeup
    PROVE  Enqueued(s, t, Enqueue(s, t, wakeup))
<1> DEFINE z == Enqueue(s, t, wakeup)
<1>1. /\ Sound(z) /\ Nested(z, {}) /\ Frame(s, z) /\ z.curr = s.curr
      /\ z.td_state = [s.td_state EXCEPT ![t] = "runq"]
      /\ \A u \in Thread : u \in z.joined <=> u \in s.joined \/ u = t
    BY EnqueueEffect
<1> HIDE DEF z
<1>2. Enqueued(s, t, z)
    BY <1>1 DEF Enqueued
<1> QED
    BY <1>2 DEF z

(* A thread that has not joined may be enqueued while no entity runs. *)
LEMMA EnqueueWhileIdle ==
    ASSUME NEW s, Sound(s), Nested(s, {}), AllIdle(s),
           NEW t \in Thread \ s.joined, NEW wakeup
    PROVE  Enqueued(s, t, Enqueue(s, t, wakeup))
<1>1. ASSUME NEW e \in Entity, s.curr[Sfq(s, e)] = e PROVE e \in s.joined
    <2>1. e # NULL /\ s.group \in [Thread -> Queue]
        BY GroupAssumption DEF Sound, Typed, Entity
    <2>2. Sfq(s, e) \in Queue
        BY <2>1, ParentTypes
    <2> QED
        BY <1>1, <2>1, <2>2 DEF AllIdle
<1> QED
    BY <1>1, EnqueueRelates

(* A queued thread changes queues. *)
LEMMA MoveQueuedInv ==
    ASSUME NEW s, Inv(s), NEW t \in Thread, s.td_state[t] = "runq",
           NEW g \in Queue
    PROVE  Inv(Enqueue(MoveTo(Dequeue(s, t, FALSE), t, g), t, FALSE))
<1> DEFINE c == s.curthread
           x == Dequeue(s, t, FALSE)
           y == MoveTo(x, t, g)
           z == Enqueue(y, t, FALSE)
<1>1. /\ Sound(s) /\ Typed(s) /\ Nested(s, {}) /\ Settled(s)
      /\ t \in Thread \cap s.joined
      /\ s.td_state \in [Thread -> TdState] /\ c \in Thread \cup {Idle}
      /\ c # t /\ (c = Idle => s.need_resched)
    BY DEF Inv, Settled, Sound, Typed
<1>2. /\ Sound(x) /\ Nested(x, {}) /\ Frame(s, x)
      /\ x.curr = s.curr /\ x.td_state = s.td_state
      /\ \A u \in Thread : u \in x.joined <=> u \in s.joined /\ u # t
    BY ZenonT(60), <1>1, DequeueEffect
<1> HIDE DEF x
<1>3. x.group = s.group /\ x.curthread = c
    BY <1>2 DEF Frame
<1>4. c # Idle => c \in Thread /\ OnPath(x, c) /\ c \in x.joined
    <2>1. ASSUME c # Idle PROVE OnPath(s, c) /\ c \in s.joined
        BY <1>1, <2>1, RunningHasJoined DEF Settled
    <2> QED
        BY <1>1, <1>2, <1>3, <2>1, OnPathFrame
<1>5. c = Idle => AllIdle(x)
    BY <1>1, <1>2 DEF Settled, AllIdle
<1>6. x.curr[Sfq(x, t)] # t
    <2>1. t \in Entity /\ t # NULL /\ Sfq(x, t) \in Queue
        BY <1>2, ParentTypes, GroupAssumption DEF Sound, Typed, Entity
    <2>2. c # Idle => t \notin Path(x, c)
        <3> SUFFICES ASSUME c # Idle PROVE t \notin Path(x, c)
            OBVIOUS
        <3>1. c \in Entity /\ x.group \in [Thread -> Queue]
            BY <1>2, <1>4 DEF Sound, Typed, Entity
        <3> QED
            BY <1>1, <3>1, PathProperties, GroupAssumption
    <2> QED
        BY <1>4, <1>5, <2>1, <2>2 DEF OnPath, AllIdle
<1>7. Regrouped(x, t, g, y) /\ y.td_state = x.td_state
    BY <1>2, MoveToRegroups DEF Frame
<1> HIDE DEF y
<1>8. /\ Sound(y) /\ Nested(y, {})
      /\ c # Idle => OnPath(y, c)
      /\ c = Idle => AllIdle(y)
    <2>1. y.td_state \in [Thread -> TdState] /\ t \in Thread \ x.joined
        BY <1>1, <1>2, <1>7
    <2>2. c # Idle => c \in Thread \ {t}
        BY <1>1
    <2> QED
        BY <1>2, <1>4, <1>5, <1>6, <1>7, <2>1, <2>2, RegroupedSound
<1>9. ASSUME NEW e \in Entity, y.curr[Sfq(y, e)] = e PROVE e \in y.joined
    <2>1. Typed(y) /\ Sfq(y, e) \in Queue /\ e # NULL
        BY <1>8, ParentTypes, GroupAssumption DEF Sound, Typed, Entity
    <2>2. CASE c = Idle
        BY <1>8, <1>9, <2>1, <2>2 DEF AllIdle
    <2>3. CASE c # Idle
        <3>1. c \in y.joined
            BY <1>4, <1>7, <2>3 DEF Regrouped
        <3>2. Path(y, c) \subseteq y.joined
            BY <1>8, <2>1, <3>1, AncestorsJoined
        <3> QED
            BY <1>8, <1>9, <2>3, <3>2 DEF OnPath
    <2> QED
        BY <2>2, <2>3
<1>10. t \in Thread \ y.joined
    BY <1>1, <1>2, <1>7 DEF Regrouped
<1>11. Enqueued(y, t, z)
    BY <1>8, <1>9, <1>10, EnqueueRelates
<1> HIDE DEF z
<1>12. /\ Sound(z) /\ Nested(z, {}) /\ Frame(y, z) /\ z.curr = y.curr
       /\ z.td_state = [y.td_state EXCEPT ![t] = "runq"]
       /\ \A u \in Thread : u \in z.joined <=> u \in y.joined \/ u = t
    BY <1>11 DEF Enqueued
<1>13. z.curthread = c /\ z.need_resched = s.need_resched
    BY <1>2, <1>7, <1>12 DEF Frame, Regrouped
<1>14. ASSUME NEW u \in Thread
       PROVE  /\ u \in z.joined <=> z.td_state[u] \in {"runq", "running"}
              /\ z.td_state[u] = "running" <=> u = z.curthread
    <2>1. z.td_state[u] = s.td_state[u]
        BY <1>1, <1>2, <1>7, <1>12
    <2>2. u \in z.joined <=> u \in s.joined
        BY <1>1, <1>2, <1>7, <1>12 DEF Regrouped
    <2> QED
        BY <1>1, <1>13, <2>1, <2>2 DEF Settled
<1>15. z.curthread # Idle => OnPath(z, z.curthread)
    BY <1>4, <1>8, <1>12, <1>13, OnPathFrame DEF Sound, Frame
<1>16. z.curthread = Idle => AllIdle(z)
    BY <1>8, <1>12, <1>13 DEF AllIdle
<1>17. z.need_resched \in BOOLEAN
    BY <1>1, <1>13 DEF Settled
<1>18. Settled(z)
    BY <1>12, <1>14, <1>15, <1>16, <1>17 DEF Settled
<1>19. Inv(z)
    BY <1>1, <1>13, <1>18 DEF Inv
<1> QED
    BY <1>19 DEF x, y, z

(* A running thread is put back and goes on running where it moves to. *)
LEMMA MoveRunningInv ==
    ASSUME NEW s, Inv(s), NEW t \in Thread, s.td_state[t] = "running",
           NEW g \in Queue
    PROVE  Inv(Activate(Enqueue(
                   MoveTo(PutPrevThread(Dequeue(s, t, FALSE), t, "none"), t, g),
                   t, FALSE), t))
<1> DEFINE v == Dequeue(s, t, FALSE)
           w == PutPrevThread(v, t, "none")
           x == MoveTo(w, t, g)
           y == Enqueue(x, t, FALSE)
           z == Activate(y, t)
<1>1. /\ Sound(s) /\ Typed(s) /\ Nested(s, {}) /\ Settled(s)
      /\ t \in Thread \cap s.joined /\ t \in Thread \cup {Idle}
      /\ s.td_state \in [Thread -> TdState] /\ s.curthread = t
      /\ t # Idle /\ t # NULL /\ OnPath(s, t)
    <2>1. t # Idle /\ t # NULL
        BY GroupAssumption
    <2> QED
        BY <2>1 DEF Inv, Settled, Sound, Typed
<1>2. /\ Sound(v) /\ Nested(v, {}) /\ Frame(s, v)
      /\ v.curr = s.curr /\ v.td_state = s.td_state
      /\ \A u \in Thread : u \in v.joined <=> u \in s.joined /\ u # t
    BY ZenonT(120), <1>1, DequeueEffect
<1> HIDE DEF v
<1>3. OnPath(v, t)
    BY <1>1, <1>2, OnPathFrame DEF Frame
<1>4. /\ Sound(w) /\ Nested(w, {}) /\ Frame(v, w) /\ AllIdle(w)
      /\ w.joined = v.joined /\ w.td_state = v.td_state
    <2>1. t \notin v.joined
        BY <1>1, <1>2
    <2>2. /\ t = Idle => AllIdle(v)
          /\ t # Idle => OnPath(v, t)
          /\ t # Idle /\ "none" = "relinquish" => Path(v, t) \subseteq v.joined
        BY <1>1, <1>3
    <2>3. /\ Sound(w) /\ Nested(w, {}) /\ Frame(v, w) /\ AllIdle(w)
          /\ w.joined = v.joined
          /\ w.td_state = IF t \in v.joined
                          THEN [v.td_state EXCEPT ![t] = "runq"]
                          ELSE v.td_state
        <3> HIDE DEF w
        <3> QED
            BY <1>1, <1>2, <2>2, PutPrevThreadEffect DEF w
    <2> HIDE DEF w
    <2> QED
        BY <2>1, <2>3
<1> HIDE DEF w
<1>5. Regrouped(w, t, g, x) /\ x.td_state = w.td_state
    BY <1>4, MoveToRegroups DEF Frame
<1> HIDE DEF x
<1>6. Sound(x) /\ Nested(x, {}) /\ AllIdle(x)
    <2>1. x.td_state \in [Thread -> TdState] /\ t \in Thread \ w.joined
        BY <1>1, <1>2, <1>4, <1>5
    <2>2. w.curr[Sfq(w, t)] # t
        <3>1. t \in Entity /\ w.group \in [Thread -> Queue]
            BY <1>4 DEF Sound, Typed, Entity
        <3>2. Sfq(w, t) \in Queue
            BY <3>1, ParentTypes
        <3> QED
            BY <1>1, <1>4, <3>2 DEF AllIdle
    <2> QED
        BY <1>4, <1>5, <2>1, <2>2, RegroupedSound
<1>7. t \in Thread \ x.joined
    BY <1>1, <1>2, <1>4, <1>5 DEF Regrouped
<1>8. Enqueued(x, t, y)
    BY <1>6, <1>7, EnqueueWhileIdle
<1> HIDE DEF y
<1>9. /\ Sound(y) /\ Nested(y, {}) /\ Frame(x, y) /\ y.curr = x.curr
      /\ y.td_state = [x.td_state EXCEPT ![t] = "runq"]
      /\ \A u \in Thread : u \in y.joined <=> u \in x.joined \/ u = t
    BY <1>8 DEF Enqueued
<1>10. AllIdle(y) /\ t \in y.joined
    BY <1>6, <1>9 DEF AllIdle
<1>11. Path(y, t) \subseteq y.joined
    BY <1>9, <1>10, AncestorsJoined DEF Sound
<1>12. /\ Sound(z) /\ Frame(y, z) /\ OnPath(z, t)
       /\ z.joined = y.joined
       /\ z.td_state = [y.td_state EXCEPT ![t] = "running"]
       /\ Nested(z, {})
    BY <1>9, <1>10, <1>11, ActivateEffect
<1> HIDE DEF z
<1>13. z.curthread = t /\ z.need_resched = s.need_resched
    BY <1>1, <1>2, <1>4, <1>5, <1>9, <1>12 DEF Frame, Regrouped
<1>14. ASSUME NEW u \in Thread
       PROVE  /\ u \in z.joined <=> z.td_state[u] \in {"runq", "running"}
              /\ z.td_state[u] = "running" <=> u = z.curthread
    <2>1. x.td_state = s.td_state
        BY <1>2, <1>4, <1>5
    <2>2. z.td_state[u] = s.td_state[u]
        BY <1>1, <1>9, <1>12, <2>1
    <2>3. u \in z.joined <=> u \in s.joined
        BY <1>1, <1>2, <1>4, <1>5, <1>9, <1>12 DEF Regrouped
    <2> QED
        BY <1>1, <1>13, <2>2, <2>3 DEF Settled
<1>15. Settled(z)
    BY <1>1, <1>12, <1>13, <1>14 DEF Settled
<1>16. Inv(z)
    BY <1>1, <1>13, <1>15 DEF Inv
<1> QED
    BY <1>16 DEF v, w, x, y, z

(* pss_sched_group_move *)
LEMMA GroupMoveInv ==
    ASSUME NEW s, Inv(s), NEW t \in Thread, NEW g \in Queue
    PROVE  Inv(GroupMove(s, t, g))
<1>1. CASE s.td_state[t] = "running"
    <2>1. GroupMove(s, t, g)
            = Activate(Enqueue(
                  MoveTo(PutPrevThread(Dequeue(s, t, FALSE), t, "none"), t, g),
                  t, FALSE), t)
        BY <1>1 DEF GroupMove
    <2> QED
        BY <1>1, <2>1, MoveRunningInv
<1>2. CASE s.td_state[t] = "runq"
    <2>1. GroupMove(s, t, g)
            = Enqueue(MoveTo(Dequeue(s, t, FALSE), t, g), t, FALSE)
        BY <1>2 DEF GroupMove
    <2> QED
        BY <1>2, <2>1, MoveQueuedInv
<1>3. CASE s.td_state[t] \notin {"runq", "running"}
    <2>1. GroupMove(s, t, g) = MoveTo(s, t, g)
        BY <1>3 DEF GroupMove
    <2> QED
        BY <1>3, <2>1, MoveSleeperInv
<1> QED
    BY <1>1, <1>2, <1>3

(* pss_sched_group_set_shares with shares that are not 0 *)
LEMMA SetSharesInv ==
    ASSUME NEW s, Inv(s), NEW g \in Group, NEW arg \in Nat \ {0}
    PROVE  Inv(SetShares(s, g, arg))
<1> DEFINE shares == IF arg = 0 THEN 0
                     ELSE IF arg < MIN_SHARES THEN MIN_SHARES
                     ELSE IF arg > MAX_SHARES THEN MAX_SHARES ELSE arg
           r == [s EXCEPT !.shares[g] = shares]
           z == SharesWalk(s, g, r)
<1>1. /\ Sound(s) /\ Typed(s) /\ DOMAIN s = Fields
      /\ s.group \in [Thread -> Queue] /\ g \in Entity
      /\ s.shares \in [Group -> Nat]
    BY DEF Inv, Settled, Sound, Typed, Entity
<1>2. shares \in Nat /\ shares > 0
    <2>1. InitShares[g] \in MIN_SHARES .. MAX_SHARES
        BY SharesAssumption
    <2> QED
        BY <2>1, SharesAssumption
<1>3. SetShares(s, g, arg) \in {s, z}
    BY Zenon DEF SetShares, SharesWalk
<1> HIDE DEF shares
<1>4. /\ DOMAIN r = Fields /\ r.shares = [s.shares EXCEPT ![g] = shares]
      /\ r.group = s.group /\ r.panics = s.panics
      /\ r.curthread = s.curthread /\ r.need_resched = s.need_resched
      /\ SameLoads(s, r) /\ SameThreads(s, r)
      /\ r.timeline = s.timeline /\ r.curr = s.curr /\ r.cand = s.cand
    BY <1>1, Zenon DEF Fields, SameLoads, SameThreads
<1> HIDE DEF r
<1>5. Sound(r)
    <2>1. \A q : Members(r, q) = Members(s, q)
        BY <1>4, MembersFrame DEF SameThreads
    <2>2. \A q \in Queue : QueueOK(r, q)
        BY <1>1, <1>4, <2>1, QueueFrame DEF Sound, SameLoads
    <2>3. Typed(r)
        BY SMTT(60), <1>1, <1>2, <1>4 DEF Typed, SameLoads, SameThreads
    <2>4. WeightsOK(r)
        BY <1>1, <1>2, <1>4 DEF Sound, WeightsOK, SameLoads, SameThreads
    <2> QED
        BY <1>1, <1>4, <2>2, <2>3, <2>4 DEF Sound, SameLoads
<1>6. Stays(s, r)
    BY <1>4, <1>5 DEF Stays, SameThreads
<1>7. Inv(r)
    BY <1>6, StaysInv
<1>8. Stays(r, z)
    BY <1>1, <1>5, SharesStay
<1> HIDE DEF z
<1>9. Inv(z)
    BY <1>7, <1>8, StaysInv
<1> QED
    BY <1>3, <1>9

-----------------------------------------------------------------------------
(* The theorems *)

(* thread0 runs in the root group and nothing else has joined. *)
LEMMA InitInv == Init => Inv(rq)
<1> SUFFICES ASSUME Init PROVE Inv(rq)
    OBVIOUS
<1> DEFINE weight == [e \in Entity |->
                         IF e \in Thread THEN NICE_0_WEIGHT ELSE 0]
<1>1. PICK t \in Thread :
        /\ DOMAIN rq = Fields
        /\ rq.td_state = [u \in Thread |-> IF u = t THEN "running" ELSE "none"]
        /\ rq.group = [u \in Thread |-> Root]
        /\ rq.joined = {t}
        /\ rq.weight = weight
        /\ rq.shares = InitShares
        /\ rq.timeline = [q \in Queue |-> <<>>]
        /\ rq.curr = [q \in Queue |-> IF q = Root THEN t ELSE NULL]
        /\ rq.cand = [k \in Candidate |-> [q \in Queue |-> NULL]]
        /\ rq.load = [q \in Queue |-> IF q = Root THEN NICE_0_WEIGHT ELSE 0]
        /\ rq.nr = [q \in Queue |-> IF q = Root THEN 1 ELSE 0]
        /\ rq.rq_load = NICE_0_WEIGHT
        /\ rq.curthread = t
        /\ rq.need_resched = FALSE
        /\ rq.panics = {}
    BY DEF Init, Fields
<1> HIDE DEF weight
<1>2. /\ Root \in Queue /\ t \in Entity /\ t # Root /\ t # NULL /\ t # Idle
      /\ Root # NULL /\ NULL \notin Entity
    BY GroupAssumption DEF Queue, Entity
<1>3. weight \in [Entity -> Nat] /\ weight[t] = NICE_0_WEIGHT
      /\ \A e \in Thread : weight[e] > 0
    BY <1>2, SharesAssumption DEF weight, Entity
<1>4. \A g \in Group : rq.shares[g] \in Nat /\ rq.shares[g] > 0
    <2> SUFFICES ASSUME NEW g \in Group
                 PROVE  rq.shares[g] \in Nat /\ rq.shares[g] > 0
        OBVIOUS
    <2>1. InitShares[g] \in MIN_SHARES .. MAX_SHARES
        BY SharesAssumption
    <2> QED
        BY <1>1, <2>1, SharesAssumption
<1>5. Typed(rq)
    <2>1. rq.td_state \in [Thread -> TdState]
        BY <1>1 DEF TdState
    <2>2. rq.group \in [Thread -> Queue] /\ rq.joined \in SUBSET Entity
        BY <1>1, <1>2
    <2>3. rq.shares \in [Group -> Nat]
        BY <1>1, <1>4, SharesAssumption
    <2>4. rq.timeline \in [Queue -> Seq(Entity)]
        BY <1>1
    <2>5. rq.curr \in [Queue -> EntityOrNull]
        BY <1>1, <1>2 DEF EntityOrNull
    <2>6. rq.cand \in [Candidate -> [Queue -> EntityOrNull]]
        BY <1>1 DEF EntityOrNull
    <2>7. rq.nr \in [Queue -> Nat] /\ rq.load \in [Queue -> Nat]
        BY <1>1, SharesAssumption
    <2> QED
        BY <1>1, <1>3, <2>1, <2>2, <2>3, <2>4, <2>5, <2>6, <2>7 DEF Typed
<1>6. \A q \in Queue : Members(rq, q) = IF q = Root THEN {t} ELSE {}
    BY <1>1, <1>2 DEF Members, Sfq
<1>7. ASSUME NEW q \in Queue PROVE QueueOK(rq, q)
    <2>1. /\ rq.timeline[q] = <<>>
          /\ rq.curr[q] = IF q = Root THEN t ELSE NULL
          /\ Members(rq, q) = IF q = Root THEN {t} ELSE {}
          /\ rq.load[q] = IF q = Root THEN NICE_0_WEIGHT ELSE 0
          /\ rq.nr[q] = IF q = Root THEN 1 ELSE 0
        BY <1>1, <1>6
    <2>2. IsInjective(rq.timeline[q])
        BY <2>1 DEF IsInjective
    <2>3. ToSet(rq.timeline[q]) = Members(rq, q) \ {rq.curr[q]}
        <3>1. ToSet(<<>>) = {}
            BY DEF ToSet
        <3> QED
            BY <2>1, <3>1
    <2>4. rq.curr[q] # NULL => Sfq(rq, rq.curr[q]) = q
        BY <1>1, <2>1 DEF Sfq
    <2>5. \A k \in Candidate : rq.cand[k][q] \in Members(rq, q) \cup {NULL}
        BY <1>1
    <2>6. rq.nr[q] = Cardinality(Members(rq, q))
        BY <2>1, FS_Singleton, FS_EmptySet
    <2>7. rq.load[q] = TotalWeight(rq.weight, Members(rq, q))
        <3>1. TotalWeight(weight, {}) = 0
            BY NoWeight, Zenon
        <3>2. TotalWeight(weight, {} \cup {t})
                = TotalWeight(weight, {}) + weight[t]
            <4>1. IsFiniteSet({}) /\ t \notin {}
                BY FS_EmptySet
            <4>2. \A u \in {} \cup {t} : weight[u] \in Nat
                BY <1>2, <1>3
            <4> QED
                BY <4>1, <4>2, TotalWeightAdds, Zenon
        <3>3. {} \cup {t} = {t} /\ NICE_0_WEIGHT \in Nat
            BY SharesAssumption
        <3>4. TotalWeight(weight, {t}) = NICE_0_WEIGHT
            <4>1. TotalWeight(weight, {t}) = 0 + weight[t]
                BY <3>1, <3>2, <3>3, Zenon
            <4> QED
                BY <1>3, <3>3, <4>1
        <3> QED
            BY <1>1, <2>1, <3>1, <3>4
    <2> QED
        BY <2>2, <2>3, <2>4, <2>5, <2>6, <2>7 DEF QueueOK
<1>8. WeightsOK(rq)
    BY <1>1, <1>3, <1>4 DEF WeightsOK
<1>9. Sound(rq)
    <2>1. rq.rq_load = rq.load[Root]
        BY <1>1, <1>2
    <2> QED
        BY <1>1, <1>5, <1>7, <1>8, <2>1 DEF Sound
<1>10. Nested(rq, {})
    <2> SUFFICES ASSUME NEW g \in Group
                 PROVE  g \in rq.joined <=> Members(rq, g) # {}
        BY DEF Nested
    <2>1. g # Root /\ g # t /\ g \in Queue
        BY GroupAssumption DEF Queue
    <2> QED
        BY <1>1, <1>6, <2>1
<1>11. OnPath(rq, t)
    <2>1. rq.group \in [Thread -> Queue] /\ Sfq(rq, t) = Root
        BY <1>1, <1>5 DEF Typed, Sfq
    <2>2. Path(rq, t) = {t}
        <3>1. ParentEntity(rq, t) = NULL
            BY <2>1 DEF ParentEntity
        <3>2. \A f \in {t} \cap Entity :
                ParentEntity(rq, f) # NULL => ParentEntity(rq, f) \in {t}
            BY <3>1
        <3>3. Path(rq, t) \subseteq {t}
            <4>1. t \in {t}
                OBVIOUS
            <4> HIDE DEF Path
            <4> QED
                BY <1>2, <2>1, <3>2, <4>1, PathIsLeast
        <3>4. t \in Path(rq, t)
            BY <1>2, <2>1, PathProperties
        <3> QED
            BY <3>3, <3>4
    <2> SUFFICES ASSUME NEW f \in Entity
                 PROVE  rq.curr[Sfq(rq, f)] = f <=> f = t
        BY <2>2 DEF OnPath
    <2>3. Sfq(rq, f) \in Queue
        BY <2>1, ParentTypes
    <2> QED
        BY <1>1, <1>2, <2>1, <2>3
<1>12. Settled(rq)
    BY ZenonT(60), <1>1, <1>2, <1>9, <1>10, <1>11 DEF Settled
<1> QED
    BY <1>1, <1>2, <1>12 DEF Inv

(* Every call keeps the invariant, if no shares are set to 0. *)
LEMMA NextInv ==
    ASSUME 0 \notin SharesArg
    PROVE  Inv(rq) /\ [Next]_rq => Inv(rq')
<1> SUFFICES ASSUME Inv(rq), [Next]_rq PROVE Inv(rq')
    OBVIOUS
<1>1. /\ Sound(rq) /\ Typed(rq) /\ DOMAIN rq = Fields
      /\ rq.curthread \in Thread \cup {Idle}
      /\ rq.td_state \in [Thread -> TdState]
    BY DEF Inv, Settled, Sound, Typed
<1>2. CASE Elapse
    <2> DEFINE z == [rq EXCEPT !.unseen = 1]
    <2>1. /\ rq' = z /\ SameQueues(rq, z) /\ z.td_state = rq.td_state
          /\ z.curthread = rq.curthread /\ z.need_resched = rq.need_resched
        BY <1>1, <1>2, Zenon DEF Elapse, Fields, SameQueues, SameLoads
    <2> HIDE DEF z
    <2>2. Stays(rq, z)
        BY <1>1, <2>1, StateSound DEF Stays, SameQueues
    <2> QED
        BY <2>1, <2>2, StaysInv
<1>3. CASE SchedTick
    <2>1. CASE Runs
        <3>1. rq' = TickWalk(rq, rq.curthread, UpdateRqClock(rq))
            BY <1>3, <2>1, Zenon DEF SchedTick, TickWalk
        <3>2. rq.curthread \in Thread
            BY <1>1, <2>1 DEF Runs
        <3> QED
            BY <1>1, <3>1, <3>2, TickStays, StaysInv
    <2>2. CASE ~ Runs
        <3>1. rq' = UpdateRqClock(rq)
            BY <1>3, <2>2, Zenon DEF SchedTick
        <3>2. Calm(rq, UpdateRqClock(rq), {})
            BY <1>1, QuietOperations, QuietIsCalm
        <3>3. Stays(rq, UpdateRqClock(rq))
            BY <1>1, <3>2, CalmStays
        <3> QED
            BY <3>1, <3>3, StaysInv
    <2> QED
        BY <2>1, <2>2
<1>4. CASE NeedResched
    BY <1>4, SwitchRunnableInv DEF NeedResched
<1>5. CASE SchedRelinquish
    BY <1>5, SwitchRunnableInv DEF SchedRelinquish
<1>6. CASE Sleep
    BY <1>6, SwitchAwayInv DEF Sleep, Runs
<1>7. CASE SchedThrow
    BY <1>7, SwitchAwayInv DEF SchedThrow, Runs
<1>8. ASSUME NEW t \in Thread, SchedAdd(t) PROVE Inv(rq')
    BY <1>8, SchedAddInv DEF SchedAdd
<1>9. ASSUME NEW t \in Thread, SchedFork(t) PROVE Inv(rq')
    <2>1. /\ rq' = ForkThread(rq, rq.curthread, t)
          /\ rq.td_state[t] = "none" /\ rq.curthread \in Thread
        BY <1>1, <1>9 DEF SchedFork, Runs
    <2> QED
        BY <2>1, ForkThreadInv
<1>10. ASSUME NEW t \in Thread, NEW g \in Queue, SchedGroupMove(t, g)
       PROVE  Inv(rq')
    BY <1>10, GroupMoveInv DEF SchedGroupMove
<1>11. ASSUME NEW g \in Group, NEW arg \in SharesArg, SetGroupShares(g, arg)
       PROVE  Inv(rq')
    <2>1. arg \in Nat \ {0}
        BY SharesAssumption
    <2>2. rq' = SetShares(rq, g, arg)
        BY <1>11 DEF SetGroupShares
    <2> QED
        BY <2>1, <2>2, SetSharesInv
<1>12. CASE UNCHANGED rq
    BY <1>12
<1> QED
    BY <1>2, <1>3, <1>4, <1>5, <1>6, <1>7, <1>8, <1>9, <1>10, <1>11, <1>12
        DEF Next

(* The inductive invariant implies what the runs check.                    *)
LEMMA InvImpliesHierarchy == Inv(rq) => HierarchyInv
<1> SUFFICES ASSUME Inv(rq) PROVE HierarchyInv
    OBVIOUS
<1>1. /\ Settled(rq) /\ Sound(rq) /\ Nested(rq, {}) /\ Typed(rq)
      /\ rq.joined \subseteq Entity
    BY DEF Inv, Settled, Sound, Typed
<1>2. \A q : In(q) = Members(rq, q)
    BY DEF In, Members
<1>3. TypeOK
    BY <1>1 DEF TypeOK, Typed, TdState, EntityOrNull
<1>4. ASSUME NEW q \in Queue
      PROVE  /\ IsInjective(rq.timeline[q])
             /\ ToSet(rq.timeline[q]) = In(q) \ {rq.curr[q]}
             /\ rq.curr[q] # NULL => rq.curr[q] \in In(q)
             /\ \A k \in Candidate : rq.cand[k][q] \in In(q) \cup {NULL}
             /\ rq.nr[q] = Cardinality(In(q))
             /\ rq.load[q] = TotalWeight(rq.weight, In(q))
    <2>1. QueueOK(rq, q)
        BY <1>1 DEF Sound
    <2>2. rq.curr[q] # NULL => rq.curr[q] \in In(q)
        <3>1. rq.curr[q] \in EntityOrNull
            BY <1>1 DEF Typed
        <3>2. rq.curr[q] # NULL =>
                rq.curr[q] \in Entity /\ Sfq(rq, rq.curr[q]) = q
            BY <2>1, <3>1 DEF QueueOK, EntityOrNull
        <3> QED
            BY <1>1, <3>2, RunningHasJoined DEF In
    <2> QED
        BY <1>2, <2>1, <2>2 DEF QueueOK
<1>5. \A t \in Thread :
        t \in rq.joined <=> rq.td_state[t] \in {"runq", "running"}
    BY <1>1 DEF Settled
<1>6. \A g \in Group : g \in rq.joined <=> In(g) # {}
    BY <1>1, <1>2 DEF Nested
<1>7. {rq.curr[q] : q \in Queue} \ {NULL} =
        IF Runs THEN ToSet(Walkup(rq, rq.curthread)) ELSE {}
    <2>1. CASE ~ Runs
        BY <1>1, <2>1 DEF Runs, Settled, AllIdle
    <2>2. CASE Runs
        <3>1. OnPath(rq, rq.curthread) /\ rq.curthread \in Entity
            BY <1>1, <2>2, RunningHasJoined DEF Runs, Settled
        <3>2. /\ Path(rq, rq.curthread) \subseteq Entity
              /\ rq.group \in [Thread -> Queue]
              /\ rq.curr \in [Queue -> EntityOrNull]
            BY <1>1, <3>1, PathProperties DEF Typed
        <3>3. \A f \in Entity : f # NULL /\ Sfq(rq, f) \in Queue
            BY <3>2, ParentTypes, GroupAssumption DEF Entity
        <3>4. \A q \in Queue : rq.curr[q] # NULL =>
                rq.curr[q] \in Entity /\ Sfq(rq, rq.curr[q]) = q
            BY <1>1, <3>2 DEF Sound, QueueOK, EntityOrNull
        <3>5. {rq.curr[q] : q \in Queue} \ {NULL} = Path(rq, rq.curthread)
            BY <3>1, <3>2, <3>3, <3>4 DEF OnPath
        <3> QED
            BY <2>2, <3>5 DEF Path
    <2> QED
        BY <2>1, <2>2
<1>8. LevelsAgree
    BY <1>4, <1>5, <1>6, <1>7 DEF LevelsAgree
<1>9. LoadInv
    BY <1>1, <1>4 DEF LoadInv, Sound
<1> QED
    BY <1>1, <1>3, <1>8, <1>9 DEF HierarchyInv, Sound

HInv == Inv(rq)

(* The invariant holds in every reachable state. *)
LEMMA InvHolds ==
    ASSUME 0 \notin SharesArg
    PROVE  Spec => []HInv
<1>1. Init => HInv
    BY InitInv DEF HInv
<1>2. HInv /\ [Next]_rq => HInv'
    BY NextInv DEF HInv
<1> QED
    BY <1>1, <1>2, PTL DEF Spec

(* The levels of the hierarchy agree, with the right loads, and no         *)
(* assertion fails: the walks of pss_enqueue_thread, pss_dequeue_thread,   *)
(* pss_put_prev_thread and pss_activate_thread, which stop at different    *)
(* levels, leave every queue of every hierarchy in order.                  *)
THEOREM LevelsStayInAgreement ==
    ASSUME 0 \notin SharesArg
    PROVE  Spec => []HierarchyInv
<1>1. Spec => []HInv
    BY InvHolds
<1>2. HInv => HierarchyInv
    BY InvImpliesHierarchy DEF HInv
<1> QED
    BY <1>1, <1>2, PTL

(* The CPU idles only when nothing is runnable: whatever is runnable, in   *)
(* whichever group, is found by pss_pick_next_thread.                      *)
THEOREM WorkIsFound ==
    ASSUME 0 \notin SharesArg
    PROVE  Spec => []NoIdleWithWork
<1>1. Spec => []HInv
    BY InvHolds
<1>2. HInv => NoIdleWithWork
    BY DEF HInv, Inv, NoIdleWithWork, Runs
<1> QED
    BY <1>1, <1>2, PTL

=============================================================================
