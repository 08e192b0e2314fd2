----------------------------- MODULE DataProofs -----------------------------
(***************************************************************************)
(* Proofs about the data of the membership protocol, over any set of       *)
(* members: gossip states, whose merge is the join of a lattice and whose  *)
(* events are what a merge changed, and the ring, which depends only on    *)
(* who is in it as long as no keys collide, in which charges inverts       *)
(* node_managers, everyone is managed, and only neighbours are affected by *)
(* a change.                                                               *)
(***************************************************************************)
EXTENDS Gossip, NodeRing, FiniteSetTheorems, WellFoundedInduction, TLAPS

(* Repeating, reordering or regrouping the gossip a node hears does not    *)
(* change what it ends up knowing: Merge is idempotent, commutative and    *)
(* associative.  This is why Gossip may travel over unordered UDP at all.  *)
THEOREM MergeIsSemilattice ==
  ASSUME NEW Member, NEW a \in GossipOver(Member), NEW b \in GossipOver(Member),
         NEW c \in GossipOver(Member)
  PROVE  /\ Merge(a, b) \in GossipOver(Member)
         /\ Merge(a, a) = a
         /\ Merge(a, b) = Merge(b, a)
         /\ Merge(Merge(a, b), c) = Merge(a, Merge(b, c))
<1> USE DEF GossipOver, MachineState, Absent, Up, Down
<1>1. \A x, y \in GossipOver(Member) :
        /\ Merge(x, y) \in GossipOver(Member)
        /\ \A m \in Member : Merge(x, y)[m] = IF x[m] < y[m] THEN y[m] ELSE x[m]
  BY DEF Merge, Changes
<1>2. Merge(a, b) \in GossipOver(Member) /\ Merge(b, a) \in GossipOver(Member)
      /\ Merge(b, c) \in GossipOver(Member) /\ Merge(a, a) \in GossipOver(Member)
  BY <1>1
<1>3. Merge(Merge(a, b), c) \in GossipOver(Member)
      /\ Merge(a, Merge(b, c)) \in GossipOver(Member)
  BY <1>1, <1>2
<1>4. Merge(a, a) = a
  BY <1>1, <1>2
<1>5. Merge(a, b) = Merge(b, a)
  <2>1. \A m \in Member : Merge(a, b)[m] = Merge(b, a)[m]
    BY <1>1
  <2> QED  BY <1>2, <2>1
<1>6. Merge(Merge(a, b), c) = Merge(a, Merge(b, c))
  <2>1. \A m \in Member : Merge(Merge(a, b), c)[m] = Merge(a, Merge(b, c))[m]
    BY <1>1, <1>2
  <2> QED  BY <1>3, <2>1
<1> QED  BY <1>2, <1>4, <1>5, <1>6

(* Merge(a, b) is the least state that knows everything a and b know: a    *)
(* merge neither forgets a downing nor invents one.                        *)
THEOREM MergeIsLeastUpperBound ==
  ASSUME NEW Member, NEW a \in GossipOver(Member), NEW b \in GossipOver(Member),
         NEW c \in GossipOver(Member)
  PROVE  /\ AtMost(a, Merge(a, b)) /\ AtMost(b, Merge(a, b))
         /\ AtMost(a, c) /\ AtMost(b, c) => AtMost(Merge(a, b), c)
BY DEF AtMost, Merge, Changes, GossipOver, MachineState, Absent, Up, Down

(* AddedBy and RemovedBy are the difference of the Up sets before and      *)
(* after a merge.                                                          *)
THEOREM EventsAreUpSetDifference ==
  ASSUME NEW Member, NEW a \in GossipOver(Member), NEW b \in GossipOver(Member)
  PROVE  /\ AddedBy(a, b)   = UpMembers(Merge(a, b)) \ UpMembers(a)
         /\ RemovedBy(a, b) = UpMembers(a) \ UpMembers(Merge(a, b))
<1> USE DEF GossipOver, MachineState, Absent, Up, Down
<1>1. \A m \in Member :
        Merge(a, b)[m] = IF m \in Changes(a, b) THEN b[m] ELSE a[m]
  BY DEF Merge
<1>2. \A m : m \in Changes(a, b) <=> m \in Member /\ a[m] < b[m]
  BY DEF Changes
<1>3. DOMAIN a = Member /\ DOMAIN Merge(a, b) = Member
  BY DEF Merge
<1>4. AddedBy(a, b) = UpMembers(Merge(a, b)) \ UpMembers(a)
  BY <1>1, <1>2, <1>3 DEF AddedBy, UpMembers
<1>5. RemovedBy(a, b) = UpMembers(a) \ UpMembers(Merge(a, b))
  BY <1>1, <1>2, <1>3 DEF RemovedBy, UpMembers, Knows
<1> QED  BY <1>4, <1>5
-----------------------------------------------------------------------------
\* The key sequences of a ring without collisions.
GoodChain ==
  /\ \A m \in DOMAIN Chain : Chain[m] \in Seq(Nat) /\ Len(Chain[m]) > 0
  /\ NoCollision

LEMMA KeysAreDisjoint ==
  ASSUME GoodChain, NEW m \in DOMAIN Chain, NEW n \in DOMAIN Chain,
         NEW p \in Keys(m), p \in Keys(n)
  PROVE  m = n
BY DEF GoodChain, NoCollision

LEMMA EntryMember ==
  ASSUME NEW p, NEW m
  PROVE  Entry(p, m).member = m
BY Zenon DEF Entry

LEMMA HashCodeIsKey ==
  ASSUME GoodChain, NEW m \in DOMAIN Chain
  PROVE  HashCode(m) \in Keys(m)
<1>1. 1 \in 1..Len(Chain[m])
  BY DEF GoodChain
<1> QED  BY <1>1 DEF HashCode, Keys

(* RingOf(S) holds the keys of S, each with its own member. *)
LEMMA RingOfLookup ==
  ASSUME GoodChain, NEW S \in SUBSET DOMAIN Chain
  PROVE  /\ RingOf(S) = [p \in KeysOf(S) |-> Entry(p, CHOOSE m \in S : p \in Keys(m))]
         /\ DOMAIN RingOf(S) = KeysOf(S)
         /\ \A m \in S : \A p \in Keys(m) : RingOf(S)[p] = Entry(p, m)
<1>1. RingOf(S) = [p \in KeysOf(S) |-> Entry(p, CHOOSE m \in S : p \in Keys(m))]
  BY DEF RingOf, InsertAll, EmptyRing
<1>2. \A m \in S : \A p \in Keys(m) : p \in KeysOf(S) /\ (CHOOSE n \in S : p \in Keys(n)) = m
  <2> TAKE m \in S
  <2> TAKE p \in Keys(m)
  <2>1. \A n \in S : p \in Keys(n) => n = m
    BY KeysAreDisjoint
  <2> QED  BY <2>1 DEF KeysOf
<1> QED  BY <1>1, <1>2

LEMMA RingOfMembers ==
  ASSUME GoodChain, NEW S \in SUBSET DOMAIN Chain, NEW p \in DOMAIN RingOf(S)
  PROVE  p \in Nat /\ RingOf(S)[p].member \in S
<1>0. p \in KeysOf(S) /\ \A n \in S : \A q \in Keys(n) : RingOf(S)[q] = Entry(q, n)
  BY RingOfLookup
<1>1. PICK m \in S : p \in Keys(m)
  BY <1>0 DEF KeysOf
<1>2. p \in Nat
  BY <1>1 DEF Keys, GoodChain
<1>3. RingOf(S)[p].member = m
  BY <1>0, <1>1, EntryMember
<1> QED  BY <1>1, <1>2, <1>3

(* Inserting into a ring adds to the set of its members, removing takes    *)
(* from it: the ring never depends on the order of what happened to it.    *)
THEOREM RingFollowsMembers ==
  ASSUME GoodChain, NEW S \in SUBSET DOMAIN Chain, NEW T \in SUBSET DOMAIN Chain
  PROVE  /\ InsertAll(RingOf(S), T) = RingOf(S \cup T)
         /\ RemoveAll(RingOf(S), T) = RingOf(S \ T)
<1> DEFINE owner(U, p) == CHOOSE m \in U : p \in Keys(m)
<1>1. \A U \in SUBSET DOMAIN Chain : \A m \in U : \A p \in Keys(m) : owner(U, p) = m
  <2> TAKE U \in SUBSET DOMAIN Chain
  <2> TAKE m \in U
  <2> TAKE p \in Keys(m)
  <2>1. \A n \in U : p \in Keys(n) => n = m
    BY KeysAreDisjoint
  <2> QED  BY <2>1
<1>2. \A U \in SUBSET DOMAIN Chain :
        RingOf(U) = [p \in KeysOf(U) |-> Entry(p, owner(U, p))]
  BY RingOfLookup
<1>3. KeysOf(S \cup T) = KeysOf(S) \cup KeysOf(T)
  BY DEF KeysOf
<1>4. KeysOf(S \ T) = KeysOf(S) \ KeysOf(T)
  BY KeysAreDisjoint DEF KeysOf
<1>5. InsertAll(RingOf(S), T) = RingOf(S \cup T)
  <2> DEFINE lhs == InsertAll(RingOf(S), T)
  <2>1. lhs = [p \in KeysOf(S) \cup KeysOf(T) |->
                 IF p \in KeysOf(T) THEN Entry(p, owner(T, p)) ELSE Entry(p, owner(S, p))]
    BY <1>2 DEF InsertAll
  <2>2. \A p \in KeysOf(T) : owner(T, p) = owner(S \cup T, p)
    BY <1>1 DEF KeysOf
  <2>3. \A p \in KeysOf(S) : owner(S, p) = owner(S \cup T, p)
    BY <1>1 DEF KeysOf
  <2>4. RingOf(S \cup T) = [p \in KeysOf(S) \cup KeysOf(T) |-> Entry(p, owner(S \cup T, p))]
    BY <1>2, <1>3
  <2> HIDE DEF owner, lhs
  <2>5. \A p \in KeysOf(S) \cup KeysOf(T) : lhs[p] = Entry(p, owner(S \cup T, p))
    BY <2>1, <2>2, <2>3
  <2> QED  BY <2>1, <2>4, <2>5 DEF lhs
<1>6. RemoveAll(RingOf(S), T) = RingOf(S \ T)
  <2>1. RemoveAll(RingOf(S), T) = [p \in KeysOf(S) \ KeysOf(T) |-> Entry(p, owner(S, p))]
    BY <1>2 DEF RemoveAll
  <2>2. \A p \in KeysOf(S \ T) : owner(S \ T, p) = owner(S, p)
    BY <1>1 DEF KeysOf
  <2>3. RingOf(S \ T) = [p \in KeysOf(S) \ KeysOf(T) |-> Entry(p, owner(S \ T, p))]
    BY <1>2, <1>4
  <2> HIDE DEF owner
  <2> QED  BY <1>4, <2>1, <2>2, <2>3
<1> QED  BY <1>5, <1>6

LEMMA EmptyRingIsRingOf == EmptyRing = RingOf({})
BY DEF EmptyRing, RingOf, InsertAll, KeysOf

(* Whoever is responsible for or to a member of a ring is another member   *)
(* of that ring, and the ring contains it: the unwraps of charges and      *)
(* node_managers succeed.                                                  *)
THEOREM ResponsibleAreMembers ==
  ASSUME GoodChain, NEW S \in SUBSET DOMAIN Chain, NEW m \in S
  PROVE  /\ Contains(RingOf(S), m)
         /\ Charges(RingOf(S), m) \subseteq S \ {m}
         /\ NodeManagers(RingOf(S), m) \subseteq S \ {m}
<1> DEFINE ring == RingOf(S)
<1>1. DOMAIN ring = KeysOf(S) /\ \A n \in S : \A p \in Keys(n) : ring[p] = Entry(p, n)
  BY RingOfLookup
<1> HIDE DEF ring
<1>2. \A p \in DOMAIN ring : p \in Nat /\ ring[p].member \in S
  BY RingOfMembers DEF ring
<1>3. \A p \in Keys(m) : p \in DOMAIN ring /\ ring[p].member = m
  BY <1>1, EntryMember DEF KeysOf
<1>4. Contains(ring, m)
  BY <1>3, HashCodeIsKey DEF Contains
<1>5. Charges(ring, m) \subseteq S \ {m}
  <2> SUFFICES ASSUME NEW q \in DOMAIN ring, NEW k \in Keys(m),
                      m \notin Owners(ring, Arc(ring, q, k))
               PROVE  ring[q].member \in S \ {m}
    BY DEF Charges
  <2>1. q \in Arc(ring, q, k)
    BY <1>2, <1>3 DEF Arc
  <2> QED  BY <1>2, <2>1 DEF Owners
<1>6. NodeManagers(ring, m) \subseteq S \ {m}
  <2> DEFINE key == HashCode(m)
  <2>1. NodeManagers(ring, m) \subseteq S
    BY <1>2 DEF NodeManagers, Managers, Owners
  <2>2. MetBefore(ring, key, m) = {}
    <3> SUFFICES ASSUME NEW p \in DOMAIN ring,
                        \A q \in DOMAIN ring : ring[q].member = m => Before(key, p, q)
                 PROVE  FALSE
      BY DEF MetBefore, Owners
    <3>1. key \in DOMAIN ring /\ ring[key].member = m
      BY <1>3, HashCodeIsKey
    <3> QED  BY <1>2, <3>1 DEF Before
  <2> QED  BY <2>1, <2>2 DEF NodeManagers
<1> QED  BY <1>4, <1>5, <1>6 DEF ring

-----------------------------------------------------------------------------
(* Who expects whose heartbeats.                                            *)
LEMMA LeastNumber ==
  ASSUME NEW T \in SUBSET Nat, T # {}
  PROVE  \E n \in T : \A k \in T : n <= k
<1>1. PICK n \in T : \A k \in T : ~(<<k, n>> \in OpToRel(<, Nat))
  BY NatLessThanWellFounded, WFMin
<1>2. \A j, k \in Nat : <<j, k>> \in OpToRel(<, Nat) <=> j < k
  BY DEF OpToRel
<1>3. \A k \in T : ~(k < n)
  BY <1>1, <1>2, Zenon
<1> QED
  BY <1>3

LEMMA EntryFirst ==
  ASSUME NEW p, NEW m
  PROVE  Entry(p, m).first <=> p = HashCode(m)
BY Zenon DEF Entry

(* A walk round the ring meets the keys of a member in some order.          *)
LEMMA FirstKey ==
  ASSUME GoodChain, NEW m \in DOMAIN Chain, NEW q \in Nat
  PROVE  \E k \in Keys(m) : \A j \in Keys(m) : j = k \/ Before(q, k, j)
<1>1. Keys(m) \in SUBSET Nat /\ Keys(m) # {}
  BY HashCodeIsKey DEF Keys, GoodChain
<1> DEFINE later == {k \in Keys(m) : k >= q}
<1>2. CASE later # {}
  <2>1. PICK k \in later : \A j \in later : k <= j
    BY <1>1, <1>2, LeastNumber
  <2> QED
    BY <1>1, <2>1 DEF Before
<1>3. CASE later = {}
  <2>1. PICK k \in Keys(m) : \A j \in Keys(m) : k <= j
    BY <1>1, LeastNumber
  <2>2. \A j \in Keys(m) : j < q
    BY <1>1, <1>3
  <2> QED
    BY <1>1, <2>1, <2>2 DEF Before
<1> QED
  BY <1>2, <1>3

LEMMA WalkIsOrder ==
  ASSUME NEW q \in Nat, NEW i \in Nat, NEW j \in Nat, NEW k \in Nat
  PROVE  /\ Before(q, i, j) /\ Before(q, j, k) => Before(q, i, k)
         /\ i # j => Before(q, i, j) \/ Before(q, j, i)
         /\ ~(Before(q, i, j) /\ Before(q, j, i))
BY DEF Before

(* The points passed from q to k are those met before k on the walk from q. *)
LEMMA ArcIsWalk ==
  ASSUME NEW ring, NEW q \in Nat, NEW k \in Nat, k # q,
         \A p \in DOMAIN ring : p \in Nat
  PROVE  Arc(ring, q, k) = {p \in DOMAIN ring : Before(q, p, k)}
BY DEF Arc, Before

(* charges is the inverse of node_managers: whoever a member sends its      *)
(* heartbeats to is one that expects them, in every ring (node_ring.rs:     *)
(* 65-113, cluster/mod.rs on heartbeats).                                   *)
THEOREM ChargesInvertManagers ==
  ASSUME GoodChain, RepFactor \in Nat, NEW S \in SUBSET DOMAIN Chain, IsFiniteSet(S),
         NEW m \in S, NEW n \in S
  PROVE  m \in NodeManagers(RingOf(S), n) <=> n \in Charges(RingOf(S), m)
<1> DEFINE ring == RingOf(S)
           q    == HashCode(n)
<1>1. DOMAIN ring = KeysOf(S) /\ \A o \in S : \A p \in Keys(o) : ring[p] = Entry(p, o)
  BY RingOfLookup
<1>2. \A p \in DOMAIN ring : p \in Nat /\ ring[p].member \in S
  BY RingOfMembers
<1> HIDE DEF ring
<1>3. CASE m = n
  BY <1>3, ResponsibleAreMembers DEF ring
<1>4. CASE m # n
  <2>1. /\ q \in Keys(n) /\ q \in DOMAIN ring /\ q \in Nat /\ q \notin Keys(m)
        /\ Keys(m) \subseteq DOMAIN ring
    BY <1>1, <1>2, <1>4, HashCodeIsKey, KeysAreDisjoint DEF KeysOf
  <2>2. \A o \in S : \A p \in DOMAIN ring : ring[p].member = o <=> p \in Keys(o)
    BY <1>1, EntryMember DEF KeysOf
  <2>3. \A p \in DOMAIN ring : ring[p].first /\ ring[p].member = n <=> p = q
    <3>1. \A p \in Keys(n) : ring[p].first <=> p = q
      <4> TAKE p \in Keys(n)
      <4>1. ring[p] = Entry(p, n)
        BY <1>1
      <4>2. Entry(p, n).first <=> p = q
        BY EntryFirst
      <4> QED
        BY <4>1, <4>2, Zenon
    <3> QED
      BY <2>1, <2>2, <3>1
  <2> HIDE DEF q
  <2>4. PICK k \in Keys(m) : \A j \in Keys(m) : j = k \/ Before(q, k, j)
    BY <2>1, FirstKey
  <2>5. \A j \in Keys(m) : j \in Nat /\ j # q /\ j \in DOMAIN ring
    BY <1>2, <2>1
  <2>6. MetBefore(ring, q, m) = Owners(ring, Arc(ring, q, k))
    <3>1. \A p \in DOMAIN ring :
            Before(q, p, k) <=> \A j \in DOMAIN ring : ring[j].member = m => Before(q, p, j)
      <4> TAKE p \in DOMAIN ring
      <4>1. p \in Nat
        BY <1>2
      <4>2. \A j \in Keys(m) : Before(q, p, k) => Before(q, p, j)
        BY <2>1, <2>4, <2>5, <4>1, WalkIsOrder
      <4> QED
        BY <2>2, <2>4, <2>5, <4>2
    <3>2. Arc(ring, q, k) = {p \in DOMAIN ring : Before(q, p, k)}
      BY <1>2, <2>1, <2>4, <2>5, ArcIsWalk
    <3>3. {p \in DOMAIN ring : Before(q, p, k)}
            = {p \in DOMAIN ring : \A j \in DOMAIN ring : ring[j].member = m => Before(q, p, j)}
      BY <3>1
    <3> QED
      BY <3>2, <3>3 DEF MetBefore
  <2>7. m \notin Owners(ring, Arc(ring, q, k))
    <3>1. Arc(ring, q, k) = {p \in DOMAIN ring : Before(q, p, k)}
      BY <1>2, <2>1, <2>4, <2>5, ArcIsWalk
    <3>2. \A p \in Keys(m) : ~Before(q, p, k)
      BY <2>1, <2>4, <2>5, WalkIsOrder
    <3> QED
      BY <2>2, <3>1, <3>2 DEF Owners
  <2>8. ASSUME NEW j \in Keys(m), m \notin Owners(ring, Arc(ring, q, j)) PROVE j = k
    <3>1. Arc(ring, q, j) = {p \in DOMAIN ring : Before(q, p, j)}
      BY <1>2, <2>1, <2>5, ArcIsWalk
    <3>2. ~Before(q, k, j)
      BY <2>2, <2>4, <2>5, <2>8, <3>1 DEF Owners
    <3> QED
      BY <2>4, <3>2
  <2>9. n \in MetBefore(ring, q, m)
    <3>1. \A j \in Keys(m) : Before(q, q, j)
      BY <2>1, <2>5 DEF Before
    <3> QED
      BY <2>1, <2>2, <2>3, <3>1 DEF MetBefore, Owners
  <2>10. Cardinality(MetBefore(ring, q, m)) \in Nat
    <3>1. MetBefore(ring, q, m) \subseteq S
      BY <1>2 DEF MetBefore, Owners
    <3> QED
      BY <3>1, FS_Subset, FS_CardinalityType
  <2>11. n \in Charges(ring, m) <=> Cardinality(MetBefore(ring, q, m)) <= RepFactor
    <3>1. n \in Charges(ring, m)
            <=> \E j \in Keys(m) : /\ m \notin Owners(ring, Arc(ring, q, j))
                                   /\ Cardinality(Owners(ring, Arc(ring, q, j))) <= RepFactor
      BY <2>1, <2>3 DEF Charges
    <3> QED
      BY <2>4, <2>6, <2>7, <2>8, <3>1
  <2>12. m \in NodeManagers(ring, n) <=> Cardinality(MetBefore(ring, q, m)) < RepFactor + 1
    <3>1. m \in Owners(ring, DOMAIN ring)
      BY <2>2, <2>4, <2>5 DEF Owners
    <3> QED
      BY <2>9, <3>1 DEF NodeManagers, Managers, q
  <2> QED
    BY <2>10, <2>11, <2>12 DEF ring
<1> QED
  BY <1>3, <1>4
-----------------------------------------------------------------------------
(* How many watch a member.                                                 *)

(* Ranks that are all different and below the number of elements are all    *)
(* taken.                                                                   *)
LEMMA RanksAreTaken ==
  ASSUME NEW S, IsFiniteSet(S), NEW r \in [S -> Nat],
         \A n \in S : r[n] < Cardinality(S),
         \A n, o \in S : r[n] = r[o] => n = o
  PROVE  \A i \in 0 .. Cardinality(S) - 1 : \E n \in S : r[n] = i
<1> DEFINE R == {r[n] : n \in S}
           all == 0 .. Cardinality(S) - 1
<1>1. Cardinality(S) \in Nat
  BY FS_CardinalityType
<1>2. r \in Bijection(S, R)
  BY DEF Bijection, Injection, Surjection, IsInjective
<1>3. IsFiniteSet(R) /\ Cardinality(R) = Cardinality(S)
  BY <1>2, FS_Bijection DEF ExistsBijection
<1>4. IsFiniteSet(all) /\ Cardinality(all) = Cardinality(S)
  BY <1>1, FS_Interval
<1>5. R \in SUBSET all
  BY <1>1
<1> HIDE DEF all
<1>6. R = all
  BY <1>3, <1>4, <1>5, FS_Subset
<1> QED
  BY <1>6 DEF all

LEMMA CountByRank ==
  ASSUME NEW S, IsFiniteSet(S), S # {}, NEW r \in [S -> Nat],
         \A n \in S : r[n] < Cardinality(S),
         \A n, o \in S : r[n] = r[o] => n = o,
         NEW k \in Nat
  PROVE  Cardinality({n \in S : 1 <= r[n] /\ r[n] <= k})
           = IF k < Cardinality(S) THEN k ELSE Cardinality(S) - 1
<1> DEFINE T == {n \in S : 1 <= r[n] /\ r[n] <= k}
           last == IF k < Cardinality(S) THEN k ELSE Cardinality(S) - 1
           g == [n \in T |-> r[n]]
<1>1. Cardinality(S) \in Nat /\ Cardinality(S) # 0
  BY FS_CardinalityType, FS_EmptySet
<1>2. last \in Nat /\ last <= k /\ last < Cardinality(S)
      /\ \A n \in S : r[n] <= k => r[n] <= last
  BY <1>1
<1>3. \A i \in 1 .. last : \E n \in S : r[n] = i
  BY <1>1, <1>2, RanksAreTaken
<1> HIDE DEF last
<1>4. g \in [T -> 1 .. last] /\ \A n \in T : g[n] = r[n]
  BY <1>2
<1>5. \A i \in 1 .. last : \E n \in T : g[n] = i
  BY <1>2, <1>3, <1>4
<1>6. \A n, o \in T : g[n] = g[o] => n = o
  BY <1>4
<1>7. g \in Bijection(T, 1 .. last)
  BY <1>4, <1>5, <1>6 DEF Bijection, Injection, Surjection, IsInjective
<1>8. IsFiniteSet(T)
  BY FS_Subset
<1>9. Cardinality(1 .. last) = Cardinality(T)
  BY <1>7, <1>8, FS_Bijection DEF ExistsBijection
<1>10. Cardinality(1 .. last) = last
  BY <1>2, FS_Interval
<1> QED
  BY <1>9, <1>10 DEF last

(* The first key of each member on the walk from q, and the members whose   *)
(* first key comes before that of n.                                        *)
FirstKeys(q, T, f) ==
  \A n \in T : f[n] \in Keys(n) /\ \A j \in Keys(n) : j = f[n] \/ Before(q, f[n], j)

Ahead(q, f, S, n) == {o \in S : Before(q, f[o], f[n])}

LEMMA FirstKeysExist ==
  ASSUME GoodChain, NEW T \in SUBSET DOMAIN Chain, NEW q \in Nat
  PROVE  \E f : FirstKeys(q, T, f)
<1> DEFINE IsFirst(n, k) == \A j \in Keys(n) : j = k \/ Before(q, k, j)
           f == [n \in T |-> CHOOSE k \in Keys(n) : IsFirst(n, k)]
<1>1. \A n \in T : f[n] \in Keys(n) /\ IsFirst(n, f[n])
  <2> TAKE n \in T
  <2>1. \E k \in Keys(n) : IsFirst(n, k)
    BY FirstKey
  <2> HIDE DEF IsFirst
  <2> QED
    BY <2>1
<1> HIDE DEF f
<1> QED
  BY <1>1 DEF FirstKeys

LEMMA FirstKeysDiffer ==
  ASSUME GoodChain, NEW T \in SUBSET DOMAIN Chain, NEW q \in Nat, NEW f, FirstKeys(q, T, f)
  PROVE  /\ \A n \in T : f[n] \in Nat
         /\ \A n, o \in T : f[n] = f[o] => n = o
<1>1. \A n \in T : f[n] \in Keys(n)
  BY DEF FirstKeys
<1>2. \A n \in T : Keys(n) \subseteq Nat
  BY DEF Keys, GoodChain
<1>3. \A n, o \in T : \A p \in Keys(n) : p \in Keys(o) => n = o
  BY KeysAreDisjoint
<1> QED
  BY <1>1, <1>2, <1>3

LEMMA MetByFirstKey ==
  ASSUME GoodChain, NEW S \in SUBSET DOMAIN Chain, NEW q \in Nat, NEW f, FirstKeys(q, S, f),
         NEW n \in S
  PROVE  MetBefore(RingOf(S), q, n) = Ahead(q, f, S, n)
<1> DEFINE ring == RingOf(S)
<1>1. DOMAIN ring = KeysOf(S) /\ \A o \in S : \A p \in Keys(o) : ring[p] = Entry(p, o)
  BY RingOfLookup
<1>2. \A p \in DOMAIN ring : p \in Nat /\ ring[p].member \in S
  BY RingOfMembers
<1> HIDE DEF ring
<1>3. \A o \in S : \A p \in DOMAIN ring : ring[p].member = o <=> p \in Keys(o)
  BY <1>1, KeysAreDisjoint, EntryMember DEF KeysOf
<1>4. \A o \in S : \A p \in Keys(o) : p \in DOMAIN ring /\ p \in Nat
  BY <1>1, <1>2 DEF KeysOf
<1>5. \A o \in S : f[o] \in Nat /\ f[o] \in Keys(o)
  BY FirstKeysDiffer DEF FirstKeys
<1>6. \A p \in DOMAIN ring :
        (\A j \in DOMAIN ring : ring[j].member = n => Before(q, p, j)) <=> Before(q, p, f[n])
  <2> TAKE p \in DOMAIN ring
  <2>1. p \in Nat
    BY <1>2
  <2>2. \A j \in Keys(n) : Before(q, p, f[n]) => Before(q, p, j)
    BY <1>4, <1>5, <2>1, WalkIsOrder DEF FirstKeys
  <2> QED
    BY <1>3, <1>4, <1>5, <2>2
<1>7. ASSUME NEW o \in S
      PROVE  (\E p \in DOMAIN ring : ring[p].member = o /\ Before(q, p, f[n]))
               <=> Before(q, f[o], f[n])
  <2>1. \A p \in Keys(o) : Before(q, p, f[n]) => Before(q, f[o], f[n])
    BY <1>4, <1>5, WalkIsOrder DEF FirstKeys
  <2> QED
    BY <1>3, <1>4, <1>5, <2>1
<1>8. MetBefore(ring, q, n) = {ring[p].member : p \in {p \in DOMAIN ring : Before(q, p, f[n])}}
  <2>1. {p \in DOMAIN ring : \A j \in DOMAIN ring : ring[j].member = n => Before(q, p, j)}
          = {p \in DOMAIN ring : Before(q, p, f[n])}
    BY <1>6
  <2> QED
    BY <2>1, Zenon DEF MetBefore, Owners
<1>9. \A o : o \in {ring[p].member : p \in {p \in DOMAIN ring : Before(q, p, f[n])}}
             <=> o \in S /\ Before(q, f[o], f[n])
  BY <1>2, <1>7
<1> QED
  BY <1>8, <1>9 DEF ring, Ahead

LEMMA AheadRanks ==
  ASSUME GoodChain, NEW S \in SUBSET DOMAIN Chain, IsFiniteSet(S), NEW q \in Nat,
         NEW f, FirstKeys(q, S, f)
  PROVE  /\ \A n \in S : /\ IsFiniteSet(Ahead(q, f, S, n))
                          /\ Cardinality(Ahead(q, f, S, n)) \in Nat
                          /\ Cardinality(Ahead(q, f, S, n)) < Cardinality(S)
         /\ \A n, o \in S : Before(q, f[o], f[n]) =>
                Cardinality(Ahead(q, f, S, o)) < Cardinality(Ahead(q, f, S, n))
         /\ \A n, o \in S :
                Cardinality(Ahead(q, f, S, o)) = Cardinality(Ahead(q, f, S, n)) => n = o
<1> DEFINE ahead(n) == Ahead(q, f, S, n)
<1>1. /\ \A n \in S : f[n] \in Nat
      /\ \A n, o \in S : f[n] = f[o] => n = o
  BY FirstKeysDiffer
<1>2. \A n \in S : ahead(n) = {o \in S : Before(q, f[o], f[n])}
  BY DEF Ahead
<1> HIDE DEF ahead
<1>3. \A n \in S : ahead(n) \in SUBSET S /\ n \notin ahead(n)
  BY <1>1, <1>2, WalkIsOrder
<1>4. \A n \in S : IsFiniteSet(ahead(n)) /\ Cardinality(ahead(n)) \in Nat
  BY <1>3, FS_Subset, FS_CardinalityType
<1>5. \A n \in S : Cardinality(ahead(n)) < Cardinality(S)
  <2> TAKE n \in S
  <2>1. Cardinality(ahead(n)) <= Cardinality(S) /\ Cardinality(ahead(n)) # Cardinality(S)
    BY <1>3, FS_Subset
  <2> QED
    BY <1>4, <2>1, FS_CardinalityType
<1>6. \A n, o \in S : Before(q, f[o], f[n]) => Cardinality(ahead(o)) < Cardinality(ahead(n))
  <2> TAKE n, o \in S
  <2> SUFFICES ASSUME Before(q, f[o], f[n]) PROVE Cardinality(ahead(o)) < Cardinality(ahead(n))
    OBVIOUS
  <2>1. ahead(o) \in SUBSET ahead(n)
    BY <1>1, <1>2, WalkIsOrder
  <2>2. o \in ahead(n) /\ o \notin ahead(o)
    BY <1>2, <1>3
  <2>3. Cardinality(ahead(o)) <= Cardinality(ahead(n)) /\ Cardinality(ahead(o)) # Cardinality(ahead(n))
    BY <1>4, <2>1, <2>2, FS_Subset
  <2> QED
    BY <1>4, <2>3
<1>7. \A n, o \in S : n # o => Before(q, f[n], f[o]) \/ Before(q, f[o], f[n])
  BY <1>1, WalkIsOrder
<1>8. \A n, o \in S : Cardinality(ahead(o)) = Cardinality(ahead(n)) => n = o
  BY <1>4, <1>6, <1>7
<1> QED
  BY <1>4, <1>5, <1>6, <1>8 DEF ahead

LEMMA ManagersAreAhead ==
  ASSUME GoodChain, NEW S \in SUBSET DOMAIN Chain, NEW m \in S, NEW f, FirstKeys(HashCode(m), S, f)
  PROVE  NodeManagers(RingOf(S), m)
           = {n \in S : /\ Ahead(HashCode(m), f, S, n) # {}
                        /\ Cardinality(Ahead(HashCode(m), f, S, n)) < RepFactor + 1}
<1> DEFINE q == HashCode(m)
           met(n) == MetBefore(RingOf(S), q, n)
<1>1. q \in Nat
  BY HashCodeIsKey DEF Keys, GoodChain
<1>2. \A n \in S : met(n) = Ahead(q, f, S, n)
  BY <1>1, MetByFirstKey
<1>3. Owners(RingOf(S), DOMAIN RingOf(S)) = S
  <2>1. \A p \in DOMAIN RingOf(S) : RingOf(S)[p].member \in S
    BY RingOfMembers
  <2>2. \A n \in S : f[n] \in DOMAIN RingOf(S) /\ RingOf(S)[f[n]].member = n
    <3> TAKE n \in S
    <3>1. f[n] \in Keys(n) /\ f[n] \in KeysOf(S)
      BY DEF KeysOf, FirstKeys
    <3>2. DOMAIN RingOf(S) = KeysOf(S) /\ RingOf(S)[f[n]] = Entry(f[n], n)
      BY <3>1, RingOfLookup
    <3> QED
      BY <3>1, <3>2, EntryMember
  <2> QED
    BY <2>1, <2>2 DEF Owners
<1>4. NodeManagers(RingOf(S), m)
        = {n \in {n \in S : Cardinality(met(n)) < RepFactor + 1} : met(n) # {}}
  BY <1>3, Zenon DEF NodeManagers, Managers
<1> HIDE DEF met, q
<1>5. {n \in {n \in S : Cardinality(met(n)) < RepFactor + 1} : met(n) # {}}
        = {n \in S : Ahead(q, f, S, n) # {} /\ Cardinality(Ahead(q, f, S, n)) < RepFactor + 1}
  BY <1>2
<1> QED
  BY <1>4, <1>5 DEF q

(* node_managers names RepFactor others, or all others when there are no    *)
(* more, and never the member itself: in a ring of any members nobody goes  *)
(* unwatched (node_ring.rs:98-113).                                         *)
THEOREM EveryoneIsManaged ==
  ASSUME GoodChain, RepFactor \in Nat, NEW S \in SUBSET DOMAIN Chain, IsFiniteSet(S), NEW m \in S
  PROVE  /\ m \notin NodeManagers(RingOf(S), m)
         /\ Cardinality(NodeManagers(RingOf(S), m))
              = IF RepFactor < Cardinality(S) THEN RepFactor ELSE Cardinality(S) - 1
<1> DEFINE q == HashCode(m)
<1>1. q \in Nat
  BY HashCodeIsKey DEF Keys, GoodChain
<1>2. PICK f : FirstKeys(q, S, f)
  BY <1>1, FirstKeysExist
<1> DEFINE r == [n \in S |-> Cardinality(Ahead(q, f, S, n))]
<1>3. NodeManagers(RingOf(S), m)
        = {n \in S : Ahead(q, f, S, n) # {} /\ Cardinality(Ahead(q, f, S, n)) < RepFactor + 1}
  BY <1>2, ManagersAreAhead
<1> HIDE DEF q
<1>4. /\ \A n \in S : /\ IsFiniteSet(Ahead(q, f, S, n))
                      /\ Cardinality(Ahead(q, f, S, n)) \in Nat
                      /\ Cardinality(Ahead(q, f, S, n)) < Cardinality(S)
      /\ \A n, o \in S :
           Cardinality(Ahead(q, f, S, o)) = Cardinality(Ahead(q, f, S, n)) => n = o
  BY <1>1, <1>2, AheadRanks
<1>5. /\ r \in [S -> Nat] /\ \A n \in S : r[n] < Cardinality(S)
      /\ \A n, o \in S : r[n] = r[o] => n = o
  BY <1>4
<1>6. \A n \in S : /\ Ahead(q, f, S, n) # {} <=> 1 <= r[n]
                   /\ Cardinality(Ahead(q, f, S, n)) < RepFactor + 1 <=> r[n] <= RepFactor
  <2> TAKE n \in S
  <2>1. Ahead(q, f, S, n) # {} <=> Cardinality(Ahead(q, f, S, n)) # 0
    BY <1>4, FS_EmptySet
  <2> QED
    BY <1>4, <2>1
<1> HIDE DEF r
<1>7. Cardinality({n \in S : 1 <= r[n] /\ r[n] <= RepFactor})
        = IF RepFactor < Cardinality(S) THEN RepFactor ELSE Cardinality(S) - 1
  <2>1. S # {}
    OBVIOUS
  <2> QED
    BY <1>5, <2>1, CountByRank
<1>8. NodeManagers(RingOf(S), m) = {n \in S : 1 <= r[n] /\ r[n] <= RepFactor}
  BY <1>3, <1>6
<1> QED
  BY <1>7, <1>8, ResponsibleAreMembers

(* A member that enters or leaves changes at most one manager of any other: *)
(* whoever is managed by somebody else afterwards has the newcomer for it,  *)
(* or had the one that left (cluster/mod.rs, "only that node's neighbors    *)
(* in the ring are affected").                                              *)
THEOREM OnlyNeighboursChange ==
  ASSUME GoodChain, RepFactor \in Nat, NEW S \in SUBSET DOMAIN Chain, IsFiniteSet(S), NEW m \in S,
         NEW x \in DOMAIN Chain \ S
  PROVE  LET without == NodeManagers(RingOf(S), m)
             with    == NodeManagers(RingOf(S \cup {x}), m)
         IN  /\ with \ without \subseteq {x}
             /\ \A n, o \in without \ with : n = o
             /\ without \ with # {} => x \in with
<1> DEFINE q == HashCode(m)
           T == S \cup {x}
           without == NodeManagers(RingOf(S), m)
           with    == NodeManagers(RingOf(T), m)
<1>1. /\ q \in Nat /\ q \in Keys(m) /\ T \in SUBSET DOMAIN Chain /\ IsFiniteSet(T)
      /\ m \in T /\ x # m /\ x \in T
  BY HashCodeIsKey, FS_AddElement DEF Keys, GoodChain
<1>2. PICK f : FirstKeys(q, T, f)
  BY <1>1, FirstKeysExist
<1>3. FirstKeys(q, S, f)
  BY <1>2 DEF FirstKeys
<1> DEFINE old(n) == Ahead(q, f, S, n)
           new(n) == Ahead(q, f, T, n)
<1>4. /\ without = {n \in S : old(n) # {} /\ Cardinality(old(n)) < RepFactor + 1}
      /\ with = {n \in T : new(n) # {} /\ Cardinality(new(n)) < RepFactor + 1}
  <2>1. without = {n \in S : old(n) # {} /\ Cardinality(old(n)) < RepFactor + 1}
    BY <1>3, ManagersAreAhead
  <2> HIDE DEF T
  <2>2. NodeManagers(RingOf(T), m) = {n \in T : new(n) # {} /\ Cardinality(new(n)) < RepFactor + 1}
    BY <1>1, <1>2, ManagersAreAhead
  <2> QED
    BY <2>1, <2>2
<1> HIDE DEF q, T, without, with
<1>5. /\ \A n \in S : IsFiniteSet(old(n)) /\ Cardinality(old(n)) \in Nat
      /\ \A n, o \in S : Cardinality(old(o)) = Cardinality(old(n)) => n = o
  BY <1>1, <1>3, AheadRanks
<1>6. /\ \A n \in T : IsFiniteSet(new(n)) /\ Cardinality(new(n)) \in Nat
      /\ \A n, o \in T : Before(q, f[o], f[n]) => Cardinality(new(o)) < Cardinality(new(n))
  BY <1>1, <1>2, AheadRanks
<1>7. ASSUME NEW n \in S
      PROVE  /\ n \in T /\ old(n) \subseteq new(n)
             /\ Cardinality(new(n)) = IF Before(q, f[x], f[n]) THEN Cardinality(old(n)) + 1
                                      ELSE Cardinality(old(n))
  <2>1. new(n) = IF Before(q, f[x], f[n]) THEN old(n) \cup {x} ELSE old(n)
    BY DEF Ahead, T
  <2>2. x \notin old(n)
    BY DEF Ahead
  <2> HIDE DEF old, new
  <2>3. IsFiniteSet(old(n)) /\ Cardinality(old(n) \cup {x}) = Cardinality(old(n)) + 1
    BY <1>5, <2>2, FS_AddElement
  <2> QED
    BY <2>1, <2>3 DEF T
<1>8. ASSUME NEW n \in T, n # m PROVE m \in old(n) /\ m \in new(n)
  <2>1. f[m] \in Nat /\ f[n] \in Nat /\ f[n] # f[m]
    BY <1>1, <1>2, <1>8, FirstKeysDiffer
  <2>2. f[m] = q
    BY <1>1, <1>2, <2>1 DEF FirstKeys, Before
  <2>3. Before(q, f[m], f[n])
    BY <1>1, <2>1, <2>2 DEF Before
  <2> QED
    BY <1>1, <2>3 DEF Ahead
<1>9. m \notin with /\ m \notin without
  BY <1>1, ResponsibleAreMembers DEF with, without
<1> HIDE DEF old, new
<1>10. ASSUME NEW n \in S, n \in with PROVE n \in without
  BY <1>4, <1>5, <1>6, <1>7, <1>8, <1>9, <1>10
<1>11. ASSUME NEW n \in without, n \notin with
       PROVE  /\ n \in S /\ Cardinality(old(n)) = RepFactor /\ Before(q, f[x], f[n])
              /\ Cardinality(new(n)) = RepFactor + 1
  <2>1. n \in S /\ n \in T /\ old(n) # {} /\ Cardinality(old(n)) < RepFactor + 1
    BY <1>4, <1>7, <1>11
  <2>2. new(n) # {}
    BY <1>7, <2>1
  <2>3. ~(Cardinality(new(n)) < RepFactor + 1)
    BY <1>4, <1>11, <2>1, <2>2
  <2> QED
    BY <1>5, <1>6, <1>7, <2>1, <2>3
<1>12. \A n \in with : n \in S \/ n = x
  BY <1>4 DEF T
<1>13. with \ without \subseteq {x}
  BY <1>10, <1>12
<1>14. \A n, o \in without \ with : n = o
  BY <1>5, <1>11
<1>15. ASSUME NEW n \in without \ with PROVE x \in with
  <2>1. Cardinality(new(x)) < RepFactor + 1 /\ n \in S
    BY <1>1, <1>6, <1>7, <1>11, <1>15
  <2>2. new(x) # {}
    BY <1>1, <1>8
  <2> QED
    BY <1>1, <1>4, <2>1, <2>2
<1> QED
  BY <1>13, <1>14, <1>15 DEF with, without, T
=============================================================================
