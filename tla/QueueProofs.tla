---------------------------- MODULE QueueProofs -----------------------------
(***************************************************************************)
(* What the operators of Queues return: the contents and the order of a    *)
(* queue after an insertion and after a removal, and the weight of what is *)
(* in it.  The operators are folds or make use of positions, so that the   *)
(* module begins with facts about positions and about steps by number.     *)
(***************************************************************************)
EXTENDS Queues, SequenceTheorems, FiniteSetTheorems, WellFoundedInduction,
        TLAPS

(* A set of positions of a queue, unless it is empty, has a first one. *)
LEMMA MinOfPositions ==
    ASSUME NEW ps \in SUBSET Nat, ps # {}
    PROVE  Min(ps) \in ps /\ \A i \in ps : Min(ps) <= i
<1>1. PICK m \in ps : \A i \in ps : ~ (<<i, m>> \in OpToRel(<, Nat))
    BY NatLessThanWellFounded, WFMin, Zenon
<1>2. ASSUME NEW i \in ps PROVE m <= i
    <2>1. i < m => <<i, m>> \in OpToRel(<, Nat)
        BY Zenon DEF OpToRel
    <2>2. ~ (i < m)
        BY <1>1, <2>1, Zenon
    <2> QED
        BY <2>2
<1>3. \E x \in ps : \A y \in ps : x =< y
    BY <1>2
<1> QED
    BY <1>3, Zenon DEF Min

(* What holds at first, and after each of n steps that it held before,     *)
(* holds after all of them.                                                *)
LEMMA StepByStep ==
    ASSUME NEW n \in Nat, NEW S, 0 \in S,
           \A k \in 1 .. n : k - 1 \in S => k \in S
    PROVE  \A k \in 0 .. n : k \in S
<1> SUFFICES ASSUME NEW x \in 0 .. n, x \notin S PROVE FALSE
    OBVIOUS
<1> DEFINE T == {k \in 0 .. n : k \notin S}
<1>1. T \in SUBSET Nat /\ T # {}
    OBVIOUS
<1>2. Min(T) \in T
    BY <1>1, MinOfPositions
<1>3. \A i \in T : Min(T) <= i
    BY <1>1, MinOfPositions
<1>4. Min(T) - 1 \in 0 .. n /\ Min(T) \in 1 .. n
    BY <1>2
<1>5. Min(T) - 1 \in S
    BY <1>2, <1>3, <1>4
<1> QED
    BY <1>2, <1>4, <1>5

(* A set of the first n positions that has the n-th has it as its last. *)
LEMMA MaxIsLast ==
    ASSUME NEW n \in Nat, NEW s \in SUBSET (1 .. n), n \in s
    PROVE  Max(s) = n
<1>1. \A x \in s : x \in Int /\ n >= x
    OBVIOUS
<1>2. \E x \in s : \A y \in s : x >= y
    BY <1>1
<1>3. Max(s) \in s /\ \A y \in s : Max(s) >= y
    BY <1>2, Zenon DEF Max
<1>4. Max(s) \in Int /\ n >= Max(s) /\ Max(s) >= n /\ n \in Int
    BY <1>1, <1>3
<1> QED
    BY <1>4

(* The first positions of a queue, without the last of them *)
LEMMA FirstPositions ==
    ASSUME NEW n \in Nat, NEW k \in 1 .. n
    PROVE  /\ 1 .. k \in SUBSET (1 .. n) /\ 1 .. k # {}
           /\ (1 .. k) \ {k} = 1 .. k - 1
           /\ Max(1 .. k) = k
<1>1. k \in Nat /\ k \in 1 .. k /\ 1 .. k \in SUBSET (1 .. n)
    OBVIOUS
<1>2. ASSUME NEW x PROVE x \in (1 .. k) \ {k} <=> x \in 1 .. k - 1
    BY <1>1
<1>3. Max(1 .. k) = k
    BY <1>1, MaxIsLast
<1> QED
    BY <1>1, <1>2, <1>3

(* The position that an insertion takes is one of the queue or its end. *)
LEMMA PositionBounds ==
    ASSUME NEW S, NEW q \in Seq(S), NEW ps \in SUBSET DOMAIN q
    PROVE  /\ Position(q, ps) \in 1 .. Len(q) + 1
           /\ \A i \in ps : Position(q, ps) <= i
           /\ Position(q, ps) \in ps \cup {Len(q) + 1}
<1>1. CASE ps = {}
    BY <1>1 DEF Position
<1>2. CASE ps # {}
    <2>1. ps \in SUBSET Nat
        OBVIOUS
    <2>2. Min(ps) \in ps /\ \A i \in ps : Min(ps) <= i
        BY <1>2, <2>1, MinOfPositions
    <2> QED
        BY <1>2, <2>2 DEF Position
<1> QED
    BY <1>1, <1>2

(* Insertion shifts what comes after the place of insertion. *)
LEMMA InsertAtProperties ==
    ASSUME NEW S, NEW q \in Seq(S), NEW t \in S, NEW p \in 1 .. Len(q) + 1
    PROVE  /\ InsertAt(q, p, t) \in Seq(S)
           /\ Len(InsertAt(q, p, t)) = Len(q) + 1
           /\ \A k \in 1 .. Len(q) + 1 :
                InsertAt(q, p, t)[k] = IF k < p THEN q[k]
                                       ELSE IF k = p THEN t ELSE q[k - 1]
<1> DEFINE a == SubSeq(q, 1, p - 1)
           b == SubSeq(q, p, Len(q))
<1>0. Len(q) \in Nat /\ p \in Int
    OBVIOUS
<1>1. /\ a \in Seq(S) /\ Len(a) = p - 1
      /\ \A i \in 1 .. p - 1 : a[i] = q[i]
    OBVIOUS
<1>2. /\ b \in Seq(S) /\ Len(b) = Len(q) - p + 1
      /\ \A i \in 1 .. Len(q) - p + 1 : b[i] = q[p + i - 1]
    OBVIOUS
<1>3. <<t>> \in Seq(S) /\ Len(<<t>>) = 1 /\ <<t>>[1] = t
    OBVIOUS
<1> HIDE DEF a, b
<1>4. /\ a \o <<t>> \in Seq(S) /\ Len(a \o <<t>>) = p
      /\ \A i \in 1 .. p : (a \o <<t>>)[i] = IF i < p THEN q[i] ELSE t
    BY <1>1, <1>3, ConcatProperties
<1>5. /\ (a \o <<t>>) \o b \in Seq(S)
      /\ Len((a \o <<t>>) \o b) = Len(q) + 1
      /\ \A k \in 1 .. Len(q) + 1 :
            ((a \o <<t>>) \o b)[k] = IF k <= p THEN (a \o <<t>>)[k]
                                     ELSE b[k - p]
    BY SMTT(60), <1>0, <1>2, <1>4, ConcatProperties
<1>6. InsertAt(q, p, t) = (a \o <<t>>) \o b
    BY DEF InsertAt, a, b
<1>7. ASSUME NEW k \in 1 .. Len(q) + 1
      PROVE  ((a \o <<t>>) \o b)[k] = IF k < p THEN q[k]
                                      ELSE IF k = p THEN t ELSE q[k - 1]
    <2>1. CASE k <= p
        BY <1>4, <1>5, <2>1
    <2>2. CASE k > p
        <3>1. k - p \in 1 .. Len(q) - p + 1 /\ p + (k - p) - 1 = k - 1
            BY <1>0, <2>2
        <3> QED
            BY SMTT(60), <1>0, <1>2, <1>5, <2>2, <3>1
    <2>3. k <= p \/ k > p
        BY <1>0
    <2> QED
        BY <2>1, <2>2, <2>3, Zenon
<1> QED
    BY <1>5, <1>6, <1>7

(* Removal shifts what comes after the place of removal. *)
LEMMA RemoveAtProperties ==
    ASSUME NEW S, NEW q \in Seq(S), NEW p \in 1 .. Len(q)
    PROVE  /\ RemoveAt(q, p) \in Seq(S)
           /\ Len(RemoveAt(q, p)) = Len(q) - 1
           /\ \A k \in 1 .. Len(q) - 1 :
                RemoveAt(q, p)[k] = IF k < p THEN q[k] ELSE q[k + 1]
<1> DEFINE a == SubSeq(q, 1, p - 1)
           b == SubSeq(q, p + 1, Len(q))
<1>0. Len(q) \in Nat /\ p \in Int
    OBVIOUS
<1>1. /\ a \in Seq(S) /\ Len(a) = p - 1
      /\ \A i \in 1 .. p - 1 : a[i] = q[i]
    OBVIOUS
<1>2. /\ b \in Seq(S) /\ Len(b) = Len(q) - p
      /\ \A i \in 1 .. Len(q) - p : b[i] = q[p + i]
    OBVIOUS
<1> HIDE DEF a, b
<1>3. /\ a \o b \in Seq(S)
      /\ Len(a \o b) = Len(q) - 1
      /\ \A k \in 1 .. Len(q) - 1 :
            (a \o b)[k] = IF k <= p - 1 THEN a[k] ELSE b[k - (p - 1)]
    BY SMTT(60), <1>1, <1>2, ConcatProperties
<1>4. RemoveAt(q, p) = a \o b
    BY DEF RemoveAt, a, b
<1>5. ASSUME NEW k \in 1 .. Len(q) - 1
      PROVE  (a \o b)[k] = IF k < p THEN q[k] ELSE q[k + 1]
    <2>1. CASE k < p
        BY <1>1, <1>3, <2>1
    <2>2. CASE k >= p
        <3>1. k - (p - 1) \in 1 .. Len(q) - p /\ p + (k - (p - 1)) = k + 1
            BY <1>0, <2>2
        <3> QED
            BY SMTT(60), <1>2, <1>3, <2>2, <3>1
    <2>3. k < p \/ k >= p
        BY <1>0
    <2> QED
        BY <2>1, <2>2, <2>3, Zenon
<1> QED
    BY <1>3, <1>4, <1>5

(* A set of the elements of a queue, spelled out for the provers. *)
LEMMA ToSetMember ==
    ASSUME NEW S, NEW q \in Seq(S), NEW x
    PROVE  x \in ToSet(q) <=> \E i \in 1 .. Len(q) : q[i] = x
    BY DEF ToSet

(* An insertion adds one element. *)
LEMMA InsertAtContent ==
    ASSUME NEW S, NEW q \in Seq(S), NEW t \in S, NEW p \in 1 .. Len(q) + 1
    PROVE  /\ InsertAt(q, p, t) \in Seq(S)
           /\ ToSet(InsertAt(q, p, t)) = ToSet(q) \cup {t}
<1>a. /\ InsertAt(q, p, t) \in Seq(S)
      /\ Len(InsertAt(q, p, t)) = Len(q) + 1
      /\ \A k \in 1 .. Len(q) + 1 :
            InsertAt(q, p, t)[k] = IF k < p THEN q[k]
                                   ELSE IF k = p THEN t ELSE q[k - 1]
    BY InsertAtProperties, SMT
<1> DEFINE r == InsertAt(q, p, t)
<1>0. Len(q) \in Nat /\ p \in 1 .. Len(q) + 1 /\ DOMAIN q = 1 .. Len(q)
    OBVIOUS
<1>1. /\ r \in Seq(S)
      /\ Len(r) = Len(q) + 1
      /\ \A k \in 1 .. Len(q) + 1 :
            r[k] = IF k < p THEN q[k] ELSE IF k = p THEN t ELSE q[k - 1]
    BY <1>a
<1> HIDE DEF r
<1>5. ASSUME NEW x \in ToSet(r) PROVE x \in ToSet(q) \cup {t}
    <2>1. PICK k \in 1 .. Len(q) + 1 : r[k] = x
        BY <1>1, ToSetMember
    <2>2. CASE k < p
        BY <1>0, <1>1, <2>1, <2>2, ToSetMember
    <2>3. CASE k = p
        BY <1>0, <1>1, <2>1, <2>3
    <2>4. CASE k > p
        <3>1. k - 1 \in 1 .. Len(q) /\ q[k - 1] = x
            BY <1>0, <1>1, <2>1, <2>4
        <3> QED
            BY <3>1, ToSetMember
    <2> QED
        BY <1>0, <2>2, <2>3, <2>4
<1>6. t \in ToSet(r)
    BY <1>0, <1>1, ToSetMember
<1>7. ASSUME NEW x \in ToSet(q) PROVE x \in ToSet(r)
    <2>1. PICK k \in 1 .. Len(q) : q[k] = x
        BY ToSetMember
    <2>2. CASE k < p
        <3>1. k \in 1 .. Len(q) + 1 /\ r[k] = x
            BY <1>0, <1>1, <2>1, <2>2
        <3> QED
            BY <1>1, <3>1, ToSetMember
    <2>3. CASE k >= p
        <3>1. k + 1 \in 1 .. Len(q) + 1 /\ r[k + 1] = x
            BY <1>0, <1>1, <2>1, <2>3
        <3> QED
            BY <1>1, <3>1, ToSetMember
    <2> QED
        BY <1>0, <2>2, <2>3
<1> QED
    BY <1>1, <1>5, <1>6, <1>7 DEF r

(* It keeps distinct elements distinct. *)
LEMMA InsertAtInjective ==
    ASSUME NEW S, NEW q \in Seq(S), NEW t \in S, NEW p \in 1 .. Len(q) + 1,
           IsInjective(q), t \notin ToSet(q)
    PROVE  IsInjective(InsertAt(q, p, t))
<1>a. /\ InsertAt(q, p, t) \in Seq(S)
      /\ Len(InsertAt(q, p, t)) = Len(q) + 1
      /\ \A k \in 1 .. Len(q) + 1 :
            InsertAt(q, p, t)[k] = IF k < p THEN q[k]
                                   ELSE IF k = p THEN t ELSE q[k - 1]
    BY InsertAtProperties, SMT
<1> DEFINE r == InsertAt(q, p, t)
<1>0. Len(q) \in Nat /\ p \in 1 .. Len(q) + 1 /\ DOMAIN q = 1 .. Len(q)
    OBVIOUS
<1>1. /\ DOMAIN r = 1 .. Len(q) + 1
      /\ \A k \in 1 .. Len(q) + 1 :
            r[k] = IF k < p THEN q[k] ELSE IF k = p THEN t ELSE q[k - 1]
    BY <1>a
<1> HIDE DEF r
<1>8. IsInjective(r)
    <2> SUFFICES ASSUME NEW a \in 1 .. Len(q) + 1, NEW b \in 1 .. Len(q) + 1,
                        r[a] = r[b], a < b
                 PROVE  FALSE
        BY <1>0, <1>1 DEF IsInjective
    <2>1. \A i \in 1 .. Len(q) : q[i] # t
        BY ToSetMember
    <2>2. \A i, j \in 1 .. Len(q) : q[i] = q[j] => i = j
        BY <1>0 DEF IsInjective
    <2>3. CASE b < p
        BY <1>0, <1>1, <2>2, <2>3
    <2>4. CASE b = p
        BY <1>0, <1>1, <2>1, <2>4
    <2>5. CASE b > p /\ a < p
        BY <1>0, <1>1, <2>2, <2>5
    <2>6. CASE b > p /\ a = p
        BY <1>0, <1>1, <2>1, <2>6
    <2>7. CASE b > p /\ a > p
        BY <1>0, <1>1, <2>2, <2>7
    <2> QED
        BY <1>0, <2>3, <2>4, <2>5, <2>6, <2>7
<1> QED
    BY <1>8 DEF r

(* It gives the queue a new head exactly when it is made at the first      *)
(* position, as it is in an empty queue.                                   *)
LEMMA InsertAtHead ==
    ASSUME NEW S, NEW q \in Seq(S), NEW t \in S, NEW p \in 1 .. Len(q) + 1
    PROVE  /\ InsertAt(q, p, t) # <<>>
           /\ p = 1 => Head(InsertAt(q, p, t)) = t
           /\ p # 1 =>
                 q # <<>> /\ Head(InsertAt(q, p, t)) = Head(q)
<1>a. /\ InsertAt(q, p, t) \in Seq(S)
      /\ Len(InsertAt(q, p, t)) = Len(q) + 1
      /\ \A k \in 1 .. Len(q) + 1 :
            InsertAt(q, p, t)[k] = IF k < p THEN q[k]
                                   ELSE IF k = p THEN t ELSE q[k - 1]
    BY InsertAtProperties, SMT
<1> DEFINE r == InsertAt(q, p, t)
<1>0. Len(q) \in Nat /\ p \in 1 .. Len(q) + 1 /\ DOMAIN q = 1 .. Len(q)
    OBVIOUS
<1>1. /\ r \in Seq(S)
      /\ Len(r) = Len(q) + 1
      /\ \A k \in 1 .. Len(q) + 1 :
            r[k] = IF k < p THEN q[k] ELSE IF k = p THEN t ELSE q[k - 1]
    BY <1>a
<1> HIDE DEF r
<1>2. q = <<>> => p = 1
    BY <1>0
<1>3. r # <<>>
    BY <1>0, <1>1
<1>4. Head(r) = IF p = 1 THEN t ELSE Head(q)
    <2>1. Head(r) = r[1]
        BY <1>1, <1>3, HeadTailProperties
    <2>2. CASE p = 1
        BY <1>0, <1>1, <2>1, <2>2
    <2>3. CASE p # 1
        <3>1. Head(q) = q[1]
            BY <1>2, <2>3, HeadTailProperties
        <3>2. r[1] = q[1]
            BY <1>0, <1>1, <2>3
        <3> QED
            BY <2>1, <2>3, <3>1, <3>2
    <2> QED
        BY <2>2, <2>3
<1> QED
    BY <1>2, <1>3, <1>4 DEF r

(* The same of an insertion before the first of a set of positions. *)
LEMMA InsertBeforeContent ==
    ASSUME NEW S, NEW q \in Seq(S), NEW ps \in SUBSET DOMAIN q, NEW t \in S
    PROVE  /\ InsertBefore(q, ps, t) \in Seq(S)
           /\ ToSet(InsertBefore(q, ps, t)) = ToSet(q) \cup {t}
<1>1. Position(q, ps) \in 1 .. Len(q) + 1
    BY PositionBounds
<1> QED
    BY <1>1, InsertAtContent DEF InsertBefore

(* Inserting a new element keeps the elements of a queue distinct. *)
LEMMA InsertBeforeInjective ==
    ASSUME NEW S, NEW q \in Seq(S), NEW ps \in SUBSET DOMAIN q, NEW t \in S,
           IsInjective(q), t \notin ToSet(q)
    PROVE  IsInjective(InsertBefore(q, ps, t))
<1>1. Position(q, ps) \in 1 .. Len(q) + 1
    BY PositionBounds
<1> QED
    BY <1>1, InsertAtInjective DEF InsertBefore

(* The head after an insertion: the new element when it was inserted at    *)
(* the first position, the old head otherwise.                             *)
LEMMA InsertBeforeHead ==
    ASSUME NEW S, NEW q \in Seq(S), NEW ps \in SUBSET DOMAIN q, NEW t \in S
    PROVE  /\ InsertBefore(q, ps, t) # <<>>
           /\ Position(q, ps) = 1 => Head(InsertBefore(q, ps, t)) = t
           /\ Position(q, ps) # 1 =>
                 q # <<>> /\ Head(InsertBefore(q, ps, t)) = Head(q)
<1>1. Position(q, ps) \in 1 .. Len(q) + 1
    BY PositionBounds
<1> QED
    BY <1>1, InsertAtHead DEF InsertBefore

(* A removal takes one occurrence of one element out, and keeps distinct   *)
(* elements distinct.                                                      *)
LEMMA WithoutProperties ==
    ASSUME NEW S, NEW q \in Seq(S), NEW t \in ToSet(q)
    PROVE  /\ IndexOf(q, t) \in 1 .. Len(q)
           /\ q[IndexOf(q, t)] = t
           /\ Without(q, t) \in Seq(S)
           /\ ToSet(Without(q, t)) \subseteq ToSet(q)
           /\ \A i \in 1 .. Len(q) :
                 i # IndexOf(q, t) => q[i] \in ToSet(Without(q, t))
           /\ IsInjective(q) => /\ IsInjective(Without(q, t))
                                /\ ToSet(Without(q, t)) = ToSet(q) \ {t}
           /\ Without(q, t) # <<>> =>
                 Head(Without(q, t)) = IF IndexOf(q, t) = 1 THEN q[2] ELSE q[1]
           /\ Without(q, t) = <<>> <=> Len(q) = 1
<1> DEFINE p == IndexOf(q, t)
           r == Without(q, t)
<1>0. Len(q) \in Nat /\ DOMAIN q = 1 .. Len(q)
    OBVIOUS
<1>1. p \in 1 .. Len(q) /\ q[p] = t
    <2>1. \E i \in DOMAIN q : q[i] = t
        BY <1>0, ToSetMember
    <2> QED
        BY <1>0, <2>1, Zenon DEF IndexOf
<1>2. /\ r \in Seq(S)
      /\ Len(r) = Len(q) - 1
      /\ DOMAIN r = 1 .. Len(q) - 1
      /\ \A k \in 1 .. Len(q) - 1 : r[k] = IF k < p THEN q[k] ELSE q[k + 1]
    <2>1. r = RemoveAt(q, p)
        BY DEF Without
    <2>2. /\ r \in Seq(S)
          /\ Len(r) = Len(q) - 1
          /\ \A k \in 1 .. Len(q) - 1 :
                r[k] = IF k < p THEN q[k] ELSE q[k + 1]
        BY <1>1, <2>1, RemoveAtProperties, ZenonT(60)
    <2> QED
        BY <2>2
<1> HIDE DEF p, r
<1>3. ASSUME NEW x \in ToSet(r)
      PROVE  \E i \in 1 .. Len(q) : i # p /\ q[i] = x
    <2>1. PICK k \in 1 .. Len(q) - 1 : r[k] = x
        BY <1>2, ToSetMember
    <2>2. CASE k < p
        BY <1>0, <1>1, <1>2, <2>1, <2>2
    <2>3. CASE k >= p
        <3>1. k + 1 \in 1 .. Len(q) /\ k + 1 # p /\ q[k + 1] = x
            BY <1>0, <1>1, <1>2, <2>1, <2>3
        <3> QED
            BY <3>1
    <2> QED
        BY <1>1, <2>2, <2>3
<1>4. ASSUME NEW i \in 1 .. Len(q), i # p PROVE q[i] \in ToSet(r)
    <2>1. CASE i < p
        <3>1. i \in 1 .. Len(r) /\ r[i] = q[i]
            BY <1>0, <1>1, <1>2, <2>1
        <3> QED
            BY <1>2, <3>1, ToSetMember
    <2>2. CASE i > p
        <3>1. i - 1 \in 1 .. Len(r) /\ r[i - 1] = q[i]
            BY <1>0, <1>1, <1>2, <2>2
        <3> QED
            BY <1>2, <3>1, ToSetMember
    <2> QED
        BY <1>1, <1>4, <2>1, <2>2
<1>5. ToSet(r) \subseteq ToSet(q)
    BY <1>3, ToSetMember
<1>6. ASSUME IsInjective(q) PROVE IsInjective(r) /\ ToSet(r) = ToSet(q) \ {t}
    <2>1. \A i, j \in 1 .. Len(q) : q[i] = q[j] => i = j
        BY <1>0, <1>6 DEF IsInjective
    <2>2. IsInjective(r)
        <3> SUFFICES ASSUME NEW a \in 1 .. Len(q) - 1,
                            NEW b \in 1 .. Len(q) - 1, r[a] = r[b], a < b
                     PROVE  FALSE
            BY <1>0, <1>2 DEF IsInjective
        <3>1. CASE b < p
            BY <1>0, <1>1, <1>2, <2>1, <3>1
        <3>2. CASE b >= p /\ a < p
            BY <1>0, <1>1, <1>2, <2>1, <3>2
        <3>3. CASE a >= p
            BY <1>0, <1>1, <1>2, <2>1, <3>3
        <3> QED
            BY <1>1, <3>1, <3>2, <3>3
    <2>3. t \notin ToSet(r)
        BY <1>1, <1>3, <2>1
    <2>4. ASSUME NEW x \in ToSet(q) \ {t} PROVE x \in ToSet(r)
        <3>1. PICK i \in 1 .. Len(q) : q[i] = x
            BY ToSetMember
        <3> QED
            BY <1>1, <1>4, <3>1
    <2> QED
        BY <1>5, <2>2, <2>3, <2>4
<1>7. ASSUME r # <<>> PROVE Head(r) = IF p = 1 THEN q[2] ELSE q[1]
    <2>1. Head(r) = r[1]
        BY <1>2, <1>7, HeadTailProperties
    <2>2. 1 \in 1 .. Len(q) - 1
        BY <1>0, <1>2, <1>7
    <2>3. r[1] = IF p = 1 THEN q[2] ELSE q[1]
        BY <1>1, <1>2, <2>2
    <2> QED
        BY <2>1, <2>3
<1>8. r = <<>> <=> Len(q) = 1
    BY <1>0, <1>1, <1>2
<1> QED
    BY <1>1, <1>2, <1>4, <1>5, <1>6, <1>7, <1>8, Zenon DEF p, r

(* An element at the end of a queue *)
LEMMA AppendContent ==
    ASSUME NEW S, NEW q \in Seq(S), NEW t \in S, t \notin ToSet(q)
    PROVE  /\ Append(q, t) \in Seq(S) /\ Append(q, t) # <<>>
           /\ q # <<>> => Head(Append(q, t)) = Head(q)
           /\ IsInjective(q) => IsInjective(Append(q, t))
           /\ ToSet(Append(q, t)) = ToSet(q) \cup {t}
<1> DEFINE r == Append(q, t)
<1>1. /\ r \in Seq(S) /\ Len(r) = Len(q) + 1
      /\ r[Len(q) + 1] = t /\ \A i \in 1 .. Len(q) : r[i] = q[i]
      /\ Len(q) \in Nat
    OBVIOUS
<1> HIDE DEF r
<1>2. \A i \in 1 .. Len(q) : q[i] # t
    BY ToSetMember
<1>3. (q # <<>> => Head(r) = Head(q)) /\ r # <<>>
    BY <1>1, HeadTailProperties
<1>4. ASSUME IsInjective(q)
      PROVE  IsInjective(r)
    <2>1. \A i, j \in 1 .. Len(q) : q[i] = q[j] => i = j
        BY <1>4 DEF IsInjective
    <2>2. ASSUME NEW i \in 1 .. Len(q) + 1, NEW j \in 1 .. Len(q) + 1,
                 r[i] = r[j]
          PROVE  i = j
        BY <1>1, <1>2, <2>1, <2>2
    <2>3. DOMAIN r = 1 .. Len(q) + 1
        BY <1>1
    <2> QED
        BY <2>2, <2>3 DEF IsInjective
<1>5. ToSet(r) = ToSet(q) \cup {t}
    <2>1. \A x : x \in ToSet(r) <=> \E i \in 1 .. Len(q) + 1 : r[i] = x
        BY <1>1, ToSetMember
    <2>2. \A x : x \in ToSet(q) <=> \E i \in 1 .. Len(q) : q[i] = x
        BY ToSetMember
    <2> QED
        BY <1>1, <2>1, <2>2
<1> QED
    BY <1>1, <1>3, <1>4, <1>5 DEF r

-----------------------------------------------------------------------------
(* Queues in the order of an index *)

Ordered(q, index) ==
    \A i, j \in DOMAIN q : i < j => index[q[i]] <= index[q[j]]

(* An insertion makes a queue longer by one. *)
LEMMA InsertBeforeLength ==
    ASSUME NEW S, NEW q \in Seq(S), NEW ps \in SUBSET DOMAIN q, NEW t \in S
    PROVE  Len(InsertBefore(q, ps, t)) = Len(q) + 1
<1>1. Position(q, ps) \in 1 .. Len(q) + 1
    BY PositionBounds
<1>2. PICK p \in 1 .. Len(q) + 1 : p = Position(q, ps)
    BY <1>1
<1>3. Len(InsertAt(q, p, t)) = Len(q) + 1
    BY InsertAtProperties, SMT
<1> QED
    BY <1>2, <1>3, Zenon DEF InsertBefore

(* The elements of a queue after an insertion *)
LEMMA InsertBeforeElements ==
    ASSUME NEW S, NEW q \in Seq(S), NEW ps \in SUBSET DOMAIN q, NEW t \in S
    PROVE  \A k \in 1 .. Len(q) + 1 :
                /\ k < Position(q, ps) => InsertBefore(q, ps, t)[k] = q[k]
                /\ k = Position(q, ps) => InsertBefore(q, ps, t)[k] = t
                /\ k > Position(q, ps) => InsertBefore(q, ps, t)[k] = q[k - 1]
<1>1. Position(q, ps) \in 1 .. Len(q) + 1
    BY PositionBounds
<1>2. PICK p \in 1 .. Len(q) + 1 : p = Position(q, ps)
    BY <1>1
<1>3. \A k \in 1 .. Len(q) + 1 :
            InsertAt(q, p, t)[k] = IF k < p THEN q[k]
                                   ELSE IF k = p THEN t ELSE q[k - 1]
    BY InsertAtProperties, SMT
<1>4. \A k \in 1 .. Len(q) + 1 :
        /\ k < p => InsertAt(q, p, t)[k] = q[k]
        /\ k = p => InsertAt(q, p, t)[k] = t
        /\ k > p => InsertAt(q, p, t)[k] = q[k - 1]
    BY <1>3
<1> QED
    BY <1>2, <1>3, <1>4, Zenon DEF InsertBefore

(* An element goes in front of some that do not come before it, and behind *)
(* all that do: the queue stays in order.                                  *)
LEMMA InsertBeforeOrdered ==
    ASSUME NEW S, NEW q \in Seq(S), NEW ps \in SUBSET DOMAIN q, NEW t \in S,
           NEW index \in [S -> Int], Ordered(q, index),
           \A i \in ps : index[t] <= index[q[i]],
           \A i \in DOMAIN q \ ps : index[q[i]] <= index[t]
    PROVE  Ordered(InsertBefore(q, ps, t), index)
<1> DEFINE p == Position(q, ps)
           r == InsertBefore(q, ps, t)
<1>1. /\ p \in 1 .. Len(q) + 1
      /\ \A i \in ps : p <= i
      /\ p \in ps \cup {Len(q) + 1}
    BY PositionBounds
<1>2. /\ r \in Seq(S) /\ Len(r) = Len(q) + 1
      /\ \A k \in 1 .. Len(q) + 1 :
            /\ k < p => r[k] = q[k]
            /\ k = p => r[k] = t
            /\ k > p => r[k] = q[k - 1]
    <2>1. r \in Seq(S)
        BY InsertBeforeContent
    <2>3. Len(r) = Len(q) + 1
        BY InsertBeforeLength
    <2>2. ASSUME NEW k \in 1 .. Len(q) + 1
          PROVE  /\ k < p => r[k] = q[k]
                 /\ k = p => r[k] = t
                 /\ k > p => r[k] = q[k - 1]
        BY InsertBeforeElements, SMTT(60)
    <2> QED
        BY <2>1, <2>2, <2>3
<1> HIDE DEF p, r
<1>3. DOMAIN q = 1 .. Len(q) /\ Len(q) \in Nat
    OBVIOUS
<1>4. \A k \in 1 .. Len(q) : index[q[k]] \in Int
    OBVIOUS
<1>5. index[t] \in Int
    OBVIOUS
<1>6. \A k \in 1 .. Len(q) : k < p => index[q[k]] <= index[t]
    <2> SUFFICES ASSUME NEW k \in 1 .. Len(q), k < p
                 PROVE  index[q[k]] <= index[t]
        OBVIOUS
    <2>1. k \notin ps
        BY <1>1, <1>3
    <2> QED
        BY <1>3, <2>1
<1>7. \A k \in 1 .. Len(q) : p <= k => index[t] <= index[q[k]]
    <2> SUFFICES ASSUME NEW k \in 1 .. Len(q), p <= k
                 PROVE  index[t] <= index[q[k]]
        OBVIOUS
    <2>1. p # Len(q) + 1
        BY <1>1, <1>3
    <2>4. p \in ps
        BY <1>1, <2>1
    <2>2. index[t] <= index[q[p]] /\ p \in 1 .. Len(q)
        BY <1>3, <2>4
    <2>3. p < k => index[q[p]] <= index[q[k]]
        BY <1>3, <2>2 DEF Ordered
    <2> QED
        BY <1>1, <1>4, <1>5, <2>2, <2>3
<1>8. \A k \in 1 .. Len(q) + 1 :
        /\ k < p => k \in 1 .. Len(q) /\ r[k] = q[k]
        /\ k = p => r[k] = t
        /\ p < k => k - 1 \in 1 .. Len(q) /\ p <= k - 1 /\ r[k] = q[k - 1]
    BY SMTT(60), <1>1, <1>2, <1>3
<1> SUFFICES ASSUME NEW i \in 1 .. Len(q) + 1, NEW j \in 1 .. Len(q) + 1, i < j
             PROVE  index[r[i]] <= index[r[j]]
    BY <1>2 DEF Ordered, r
<1>9. CASE j < p
    <2>1. i < p
        BY <1>1, <1>9
    <2> QED
        BY <1>3, <1>8, <1>9, <2>1 DEF Ordered
<1>10. CASE i < p /\ j = p
    BY <1>6, <1>8, <1>10
<1>11. CASE i < p /\ p < j
    <2>1. /\ i \in 1 .. Len(q) /\ r[i] = q[i]
          /\ j - 1 \in 1 .. Len(q) /\ p <= j - 1 /\ r[j] = q[j - 1]
        BY <1>8, <1>11
    <2>2. index[q[i]] <= index[t] /\ index[t] <= index[q[j - 1]]
        BY <1>6, <1>7, <1>11, <2>1
    <2>3. index[q[i]] \in Int /\ index[q[j - 1]] \in Int
        BY <1>4, <2>1
    <2> QED
        BY <1>5, <2>1, <2>2, <2>3
<1>12. CASE i = p
    BY <1>1, <1>7, <1>8, <1>12
<1>13. CASE p < i
    <2>1. p < j /\ i - 1 < j - 1
        BY <1>1, <1>13
    <2>2. /\ i - 1 \in 1 .. Len(q) /\ r[i] = q[i - 1]
          /\ j - 1 \in 1 .. Len(q) /\ r[j] = q[j - 1]
        BY <1>8, <1>13, <2>1
    <2>3. index[q[i - 1]] <= index[q[j - 1]]
        BY <1>3, <2>1, <2>2 DEF Ordered
    <2> QED
        BY <2>2, <2>3
<1> QED
    BY <1>1, <1>9, <1>10, <1>11, <1>12, <1>13

(* A removal keeps the order. *)
LEMMA WithoutOrdered ==
    ASSUME NEW S, NEW q \in Seq(S), NEW t \in ToSet(q), NEW index,
           Ordered(q, index)
    PROVE  Ordered(Without(q, t), index)
<1> DEFINE p == IndexOf(q, t)
           r == Without(q, t)
<1>1. p \in 1 .. Len(q)
    BY WithoutProperties
<1>2. /\ r \in Seq(S) /\ Len(r) = Len(q) - 1
      /\ \A k \in 1 .. Len(q) - 1 : r[k] = IF k < p THEN q[k] ELSE q[k + 1]
    BY <1>1, RemoveAtProperties DEF Without
<1> HIDE DEF p, r
<1>3. DOMAIN q = 1 .. Len(q) /\ Len(q) \in Nat
    OBVIOUS
<1> DEFINE from(k) == IF k < p THEN k ELSE k + 1
<1>4. \A k \in 1 .. Len(q) - 1 : from(k) \in 1 .. Len(q) /\ r[k] = q[from(k)]
    BY <1>1, <1>2, <1>3
<1>5. \A i, j \in 1 .. Len(q) - 1 : i < j => from(i) < from(j)
    BY <1>1, <1>3
<1> HIDE DEF from
<1> SUFFICES ASSUME NEW i \in 1 .. Len(q) - 1, NEW j \in 1 .. Len(q) - 1, i < j
             PROVE  index[r[i]] <= index[r[j]]
    BY <1>2 DEF Ordered, r
<1> QED
    BY <1>3, <1>4, <1>5 DEF Ordered

-----------------------------------------------------------------------------
(* The total weight *)

Units(weight, S) == UNION {{t} \X (1 .. weight[t]) : t \in S}

(* Only the weights of the entities in S count. *)
LEMMA SameWeights ==
    ASSUME NEW S, NEW v, NEW w, \A t \in S : v[t] = w[t]
    PROVE  TotalWeight(v, S) = TotalWeight(w, S)
<1>1. {{t} \X (1 .. v[t]) : t \in S} = {{t} \X (1 .. w[t]) : t \in S}
    BY Zenon
<1> QED
    BY <1>1, Zenon DEF TotalWeight

(* An entity has as many units as its weight is. *)
LEMMA UnitsOfEntity ==
    ASSUME NEW t, NEW n \in Nat
    PROVE  IsFiniteSet({t} \X (1 .. n)) /\ Cardinality({t} \X (1 .. n)) = n
<1>1. IsFiniteSet({t}) /\ Cardinality({t}) = 1
    BY FS_Singleton
<1>2. IsFiniteSet(1 .. n) /\ Cardinality(1 .. n) = n
    BY FS_Interval
<1>3. IsFiniteSet({t} \X (1 .. n))
      /\ Cardinality({t} \X (1 .. n)) = Cardinality({t}) * Cardinality(1 .. n)
    BY <1>1, <1>2, FS_Product, Zenon
<1> QED
    BY <1>1, <1>2, <1>3

(* Finitely many entities have finitely many units. *)
LEMMA UnitsFinite ==
    ASSUME NEW S, IsFiniteSet(S), NEW w, \A t \in S : w[t] \in Nat
    PROVE  IsFiniteSet(Units(w, S))
<1> DEFINE T == {{t} \X (1 .. w[t]) : t \in S}
           f == [t \in S |-> {t} \X (1 .. w[t])]
<1>1. f \in Surjection(S, T)
    BY DEF Surjection
<1>2. IsFiniteSet(T)
    BY <1>1, FS_Surjection
<1>3. \A u \in T : IsFiniteSet(u)
    <2>1. \A t \in S : IsFiniteSet({t} \X (1 .. w[t]))
        BY UnitsOfEntity, Zenon
    <2> QED
        BY <2>1, Zenon
<1> HIDE DEF T, f
<1>4. IsFiniteSet(UNION T)
    BY <1>2, <1>3, FS_UNION
<1> QED
    BY <1>4 DEF Units, T

(* An entity that comes adds its weight. *)
LEMMA TotalWeightAdds ==
    ASSUME NEW S, IsFiniteSet(S), NEW t, t \notin S, NEW w,
           \A u \in S \cup {t} : w[u] \in Nat
    PROVE  TotalWeight(w, S \cup {t}) = TotalWeight(w, S) + w[t]
<1> DEFINE U == Units(w, S)
           V == {t} \X (1 .. w[t])
<1>1. Units(w, S \cup {t}) = U \cup V
    BY Zenon DEF Units
<1>2. U \cap V = {}
    BY DEF Units
<1>3. IsFiniteSet(U) /\ IsFiniteSet(V) /\ Cardinality(V) = w[t]
    BY UnitsFinite, UnitsOfEntity
<1> HIDE DEF U, V
<1>4. Cardinality(U \cup V) = Cardinality(U) + Cardinality(V) - Cardinality({})
    BY <1>2, <1>3, FS_Union
<1>5. Cardinality(U) \in Nat /\ Cardinality({}) = 0 /\ w[t] \in Nat
    BY <1>3, FS_CardinalityType, FS_EmptySet
<1>6. /\ TotalWeight(w, S) = Cardinality(U)
      /\ TotalWeight(w, S \cup {t}) = Cardinality(U \cup V)
    BY <1>1, Zenon DEF TotalWeight, Units, U
<1> QED
    BY <1>3, <1>4, <1>5, <1>6

(* An entity that goes takes its weight away. *)
LEMMA TotalWeightSubtracts ==
    ASSUME NEW S, IsFiniteSet(S), NEW t \in S, NEW w,
           \A u \in S : w[u] \in Nat
    PROVE  TotalWeight(w, S \ {t}) = TotalWeight(w, S) - w[t]
<1> DEFINE R == S \ {t}
<1>1. IsFiniteSet(R) /\ t \notin R /\ R \cup {t} = S
    BY FS_RemoveElement
<1> HIDE DEF R
<1>2. TotalWeight(w, R \cup {t}) = TotalWeight(w, R) + w[t]
    BY <1>1, TotalWeightAdds
<1>3. IsFiniteSet(Units(w, R))
    BY <1>1, UnitsFinite
<1>4. TotalWeight(w, R) \in Nat /\ w[t] \in Nat
    BY <1>3, FS_CardinalityType DEF TotalWeight, Units
<1>5. TotalWeight(w, S) = TotalWeight(w, R) + w[t]
    BY <1>1, <1>2, Zenon
<1>6. TotalWeight(w, R) = TotalWeight(w, S) - w[t]
    BY <1>4, <1>5
<1> QED
    BY <1>6, Zenon DEF R

(* No entity, no weight. *)
LEMMA NoWeight == ASSUME NEW w PROVE TotalWeight(w, {}) = 0
<1>1. UNION {{t} \X (1 .. w[t]) : t \in {}} = {}
    OBVIOUS
<1> QED
    BY <1>1, FS_EmptySet DEF TotalWeight

(* A new entry is put first. *)
LEMMA Prepend ==
    ASSUME NEW S, NEW q \in Seq(S), NEW t \in S, IsInjective(q),
           t \notin ToSet(q)
    PROVE  /\ <<t>> \o q \in Seq(S) /\ Len(<<t>> \o q) = Len(q) + 1
           /\ IsInjective(<<t>> \o q)
           /\ ToSet(<<t>> \o q) = ToSet(q) \cup {t}
<1> DEFINE r == <<t>> \o q
<1>1. /\ r \in Seq(S) /\ Len(r) = Len(q) + 1 /\ Len(q) \in Nat
      /\ r[1] = t /\ \A i \in 2 .. Len(q) + 1 : r[i] = q[i - 1]
    OBVIOUS
<1>2. DOMAIN r = 1 .. Len(q) + 1 /\ DOMAIN q = 1 .. Len(q)
    BY <1>1
<1>3. \A i \in 1 .. Len(q) : q[i] # t
    BY <1>2 DEF ToSet
<1> HIDE DEF r
<1>4. IsInjective(r)
    <2> SUFFICES ASSUME NEW i \in 1 .. Len(q) + 1, NEW j \in 1 .. Len(q) + 1,
                        r[i] = r[j]
                 PROVE  i = j
        BY <1>2 DEF IsInjective
    <2>1. CASE i = 1 /\ j # 1
        <3>1. j - 1 \in 1 .. Len(q) /\ r[j] = q[j - 1]
            BY <1>1, <2>1
        <3> QED
            BY <1>1, <1>3, <2>1, <3>1
    <2>2. CASE j = 1 /\ i # 1
        <3>1. i - 1 \in 1 .. Len(q) /\ r[i] = q[i - 1]
            BY <1>1, <2>2
        <3> QED
            BY <1>1, <1>3, <2>2, <3>1
    <2>3. CASE i # 1 /\ j # 1
        <3>1. i - 1 \in 1 .. Len(q) /\ r[i] = q[i - 1]
            BY <1>1, <2>3
        <3>2. j - 1 \in 1 .. Len(q) /\ r[j] = q[j - 1]
            BY <1>1, <2>3
        <3>3. i - 1 = j - 1
            BY <1>2, <3>1, <3>2 DEF IsInjective
        <3> QED
            BY <1>1, <3>3
    <2> QED
        BY <2>1, <2>2, <2>3
<1>5. ASSUME NEW x
      PROVE  x \in ToSet(r) <=> x \in ToSet(q) \cup {t}
    <2>1. x \in ToSet(r) <=> \E i \in 1 .. Len(q) + 1 : r[i] = x
        BY <1>2 DEF ToSet
    <2>2. x \in ToSet(q) <=> \E i \in 1 .. Len(q) : q[i] = x
        BY <1>2 DEF ToSet
    <2>3. ASSUME NEW i \in 1 .. Len(q) + 1
          PROVE  r[i] \in ToSet(q) \cup {t}
        <3>1. i = 1 \/ (i - 1 \in 1 .. Len(q) /\ r[i] = q[i - 1])
            BY <1>1
        <3> QED
            BY <1>1, <1>2, <3>1 DEF ToSet
    <2>4. ASSUME NEW i \in 1 .. Len(q)
          PROVE  q[i] \in ToSet(r)
        <3>1. i + 1 \in 1 .. Len(q) + 1 /\ r[i + 1] = q[i]
            BY <1>1
        <3> QED
            BY <1>2, <3>1 DEF ToSet
    <2>5. t \in ToSet(r)
        BY <1>1, <1>2 DEF ToSet
    <2> QED
        BY <2>1, <2>2, <2>3, <2>4, <2>5
<1> QED
    BY <1>1, <1>4, <1>5 DEF r

(* Two sets that differ in one thing at most differ in size accordingly. *)
LEMMA OneMoreOrLess ==
    ASSUME NEW A, IsFiniteSet(A), NEW B, IsFiniteSet(B), NEW p,
           A \ {p} = B \ {p}
    PROVE  /\ Cardinality(A) \in Nat /\ Cardinality(B) \in Nat
           /\ (p \in A <=> p \in B) => Cardinality(B) = Cardinality(A)
           /\ p \in A /\ p \notin B => Cardinality(B) = Cardinality(A) - 1
           /\ p \notin A /\ p \in B => Cardinality(B) = Cardinality(A) + 1
<1>1. Cardinality(A) \in Nat /\ Cardinality(B) \in Nat
    BY FS_CardinalityType
<1>2. CASE p \in A <=> p \in B
    <2>1. A = B
        BY <1>2
    <2> QED
        BY <1>1, <1>2, <2>1
<1>3. CASE p \in A /\ p \notin B
    <2>1. B = A \ {p}
        BY <1>3
    <2>2. Cardinality(B) = Cardinality(A) - 1
        BY <1>3, <2>1, FS_RemoveElement
    <2> QED
        BY <1>1, <1>3, <2>2
<1>4. CASE p \notin A /\ p \in B
    <2>1. B = A \cup {p}
        BY <1>4
    <2>2. Cardinality(B) = Cardinality(A) + 1
        BY <1>4, <2>1, FS_AddElement
    <2> QED
        BY <1>1, <1>4, <2>2
<1> QED
    BY <1>2, <1>3, <1>4

(* Among one number more than there are places, there is a lowest one that *)
(* no place has.                                                           *)
LEMMA LowestFree ==
    ASSUME NEW S, IsFiniteSet(S), NEW f
    PROVE  \E k \in 1 .. Cardinality(S) + 1 :
                /\ \A n \in S : f[n] # k
                /\ \A j \in 1 .. k - 1 : \E n \in S : f[n] = j
<1> DEFINE N == Cardinality(S)
           T == {k \in 1 .. N + 1 : \A n \in S : f[n] # k}
           g == [k \in 1 .. N + 1 |-> CHOOSE n \in S : f[n] = k]
<1>1. N \in Nat
    BY FS_CardinalityType
<1>2. T # {}
    <2> SUFFICES ASSUME T = {} PROVE FALSE
        OBVIOUS
    <2>1. \A k \in 1 .. N + 1 : \E n \in S : f[n] = k
        OBVIOUS
    <2>2. \A k \in 1 .. N + 1 : g[k] \in S /\ f[g[k]] = k
        BY <2>1
    <2> HIDE DEF g, N
    <2>3. g \in [1 .. N + 1 -> S]
        BY <2>2 DEF g
    <2>4. g \in Injection(1 .. N + 1, S)
        BY <2>2, <2>3 DEF Injection, IsInjective
    <2>5. Cardinality(1 .. N + 1) <= Cardinality(S)
        BY <2>4, FS_Injection, Zenon
    <2>6. Cardinality(1 .. N + 1) = N + 1
        BY <1>1, FS_Interval
    <2> QED
        BY <1>1, <2>5, <2>6 DEF N
<1>3. T \in SUBSET Nat
    BY <1>1
<1>4. Min(T) \in T /\ \A i \in T : Min(T) <= i
    BY <1>2, <1>3, MinOfPositions
<1>5. ASSUME NEW j \in 1 .. Min(T) - 1
      PROVE  \E n \in S : f[n] = j
    <2> DEFINE k == Min(T)
    <2>1. k \in 1 .. N + 1 /\ (\A i \in T : k <= i) /\ j \in 1 .. k - 1
        BY <1>4
    <2> HIDE DEF k, N, T
    <2>2. j \in 1 .. N + 1 /\ ~(k <= j)
        BY <1>1, <2>1
    <2> USE DEF T
    <2>3. j \notin T
        BY <2>1, <2>2
    <2> QED
        BY <2>2, <2>3
<1> DEFINE k == Min(T)
<1>6. k \in T /\ \A j \in 1 .. k - 1 : \E n \in S : f[n] = j
    BY <1>4, <1>5
<1> HIDE DEF k
<1> QED
    BY <1>6

=============================================================================
