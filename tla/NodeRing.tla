------------------------------ MODULE NodeRing ------------------------------
(***************************************************************************)
(* The consistent-hashing ring of cluster/node_ring.rs.  A ring is a map   *)
(* from keys (the u64 values of the hash) to entries [first, member].      *)
(* Chain[m] is the sequence of keys of member m: hash_code(m), then one    *)
(* wyrng step per further vnode.  It has at least one key because insert   *)
(* places the first one whatever vnodes is.                                *)
(*                                                                         *)
(* There are no variables here.  The walks of managers and charges are     *)
(* given by the members met on an arc of the ring, not by iterators.       *)
(***************************************************************************)
EXTENDS Integers, Sequences, FiniteSets

CONSTANTS
  Chain,      \* the keys of every member, in hash order of generation
  RepFactor   \* rep_factor: how many members manage each member

Keys(m)     == {Chain[m][i] : i \in 1..Len(Chain[m])}
KeysOf(S)   == UNION {Keys(m) : m \in S}
HashCode(m) == Chain[m][1]

\* No two members share a key and no member repeats one.  The code relies on
\* 64-bit hashes for this and checks it nowhere.
NoCollision ==
  /\ \A m \in DOMAIN Chain : \A i, j \in 1..Len(Chain[m]) :
        Chain[m][i] = Chain[m][j] => i = j
  /\ \A m, n \in DOMAIN Chain : Keys(m) \cap Keys(n) # {} => m = n

EmptyRing == [p \in {} |-> p]

Entry(p, m) == [first |-> p = HashCode(m), member |-> m]

\* NodeRing::insert for each member of S.  Without collisions the order of
\* the insertions does not matter.
InsertAll(ring, S) ==
  [p \in DOMAIN ring \cup KeysOf(S) |->
     IF p \in KeysOf(S) THEN Entry(p, CHOOSE m \in S : p \in Keys(m)) ELSE ring[p]]
Insert(ring, m) == InsertAll(ring, {m})

\* NodeRing::remove takes out whatever sits at the member's keys.
RemoveAllFirstOnly(ring, S) ==
  [p \in DOMAIN ring \ {HashCode(m) : m \in S} |-> ring[p]]
RemoveAll(ring, S) == [p \in DOMAIN ring \ KeysOf(S) |-> ring[p]]
Remove(ring, m)    == RemoveAll(ring, {m})

\* The ring that holds exactly the members of S.
RingOf(S) == InsertAll(EmptyRing, S)

Contains(ring, m) == HashCode(m) \in DOMAIN ring /\ ring[HashCode(m)].member = m

Owners(ring, points) == {ring[p].member : p \in points}

\* A variant without the chained second range: the walk does not wrap.
BeforeUnwrapped(key, p, q) == p < q

\* p is met before q on the walk `range(key..).chain(range(..key))`.
Before(key, p, q) ==
  \/ p >= key /\ q < key
  \/ (p >= key <=> q >= key) /\ p < q

\* The members met before the first key of m on the walk from `key`.
MetBefore(ring, key, m) ==
  Owners(ring, {p \in DOMAIN ring :
                  \A q \in DOMAIN ring : ring[q].member = m => Before(key, p, q)})

\* NodeRing::managers: the first num distinct members met from `key` on.
Managers(ring, key, num) ==
  {m \in Owners(ring, DOMAIN ring) : Cardinality(MetBefore(ring, key, m)) < num}

\* A variant that forgets that the member itself is met first.
NodeManagersSelfCounted(ring, m) ==
  {n \in Managers(ring, HashCode(m), RepFactor) :
     MetBefore(ring, HashCode(m), n) # {}}

\* NodeRing::node_managers skips the first member met, which is the member
\* itself; charges and node_managers are None unless Contains(ring, m).
NodeManagers(ring, m) ==
  {n \in Managers(ring, HashCode(m), RepFactor + 1) :
     MetBefore(ring, HashCode(m), n) # {}}

\* The keys a backward walk from `to` passes until it reaches `from`,
\* inclusive; all of the ring when the two are equal.
Arc(ring, from, to) ==
  {p \in DOMAIN ring : IF from < to THEN from <= p /\ p < to ELSE from <= p \/ p < to}

\* A variant without take_while: the walk goes on past m's own next key.
ChargesPastOwnKey(ring, m) ==
  {ring[q].member : q \in
     {q \in DOMAIN ring :
        /\ ring[q].first
        /\ \E k \in Keys(m) : Cardinality(Owners(ring, Arc(ring, q, k)) \ {m}) <= RepFactor}}

\* NodeRing::charges walks back from every key of m, stops at m's own next
\* key or when one more distinct member than RepFactor comes up, and keeps
\* the members whose first vnode it passed.
Charges(ring, m) ==
  {ring[q].member : q \in
     {q \in DOMAIN ring :
        /\ ring[q].first
        /\ \E k \in Keys(m) :
             LET met == Owners(ring, Arc(ring, q, k))
             IN  m \notin met /\ Cardinality(met) <= RepFactor}}
=============================================================================
