---------------------------- MODULE CausalProofs ----------------------------
(***************************************************************************)
(* Proofs about the dispersal of a delta CRDT, for any sockets, operations *)
(* and preferences and any history of the membership.  The invariants come *)
(* in layers:                                                              *)
(*                                                                         *)
(*   Typed   the types; nobody speaks for a member that was not started    *)
(*   Sound   every buffer fits its clock, and whatever a peer acknowledged,*)
(*           or is about to receive or to acknowledge, covers all data     *)
(*           that is not in the buffer any more                            *)
(*                                                                         *)
(* Sound holds as long as no node that stopped starts again on its socket: *)
(* acks do not say for which run of their addressee they are.              *)
(***************************************************************************)
EXTENDS CausalDisperse, WellFoundedInduction, SequenceTheorems, TLAPS

ICType ==
  [me : Member \cup {NoMember}, data : SUBSET Op, clock : Nat, deltas : Seq(SUBSET Op),
   acks : UNION {[P -> Nat] : P \in SUBSET Member}, minOrd : Nat, minDelta : Nat]

Types ==
  /\ phase \in [Socket -> {"stopped", "waiting", "in_cluster", "panicked"}]
  /\ queue \in [Socket -> SUBSET Op]
  /\ ic \in [Socket -> ICType]
  /\ priority \in [Socket -> Preferences]
  /\ due \in [Socket -> BOOLEAN]
  /\ gone \in [Socket -> SUBSET Member]
  /\ lastId \in [Socket -> Nat] /\ \A s \in Socket : lastId[s] <= MaxId[s]
  /\ net \subseteq Message

Identities ==
  \A s \in Socket :
    /\ phase[s] # "in_cluster" => ic[s] = NotInCluster
    /\ IF phase[s] = "stopped" THEN s \in MayStop \/ lastId[s] = 0 ELSE lastId[s] >= 1
    /\ phase[s] = "in_cluster" => ic[s].me \in Started /\ ic[s].me.socket = s
    /\ Peers(ic[s]) \subseteq Started

Senders == \A m \in net : m.from \in Started /\ lastId[m.to] >= 1

Typed == Types /\ Identities /\ Senders
-----------------------------------------------------------------------------
\* No node that may stop has a second identity to come back with.
NoRestarts == \A s \in MayStop : MaxId[s] <= 1

Alive == {s \in Socket : phase[s] \in {"waiting", "in_cluster"}}

\* What c has changed since its clock was k.
Since(c, k) == JoinFrom(c.deltas, k - c.minDelta + 1)

\* Whoever has `have`, and c's buffer since k, lacks nothing of c.  If the
\* buffer does not reach back to k, c sends everything.
Covered(c, have, k) == k >= c.minDelta => c.data \subseteq have \cup Since(c, k)

BufferOK(c) ==
  /\ c.minDelta <= c.clock /\ Len(c.deltas) = c.clock - c.minDelta
  /\ c.minOrd = LeastAck(c.acks)
  /\ \A p \in Peers(c) : c.acks[p] <= c.clock
  /\ c.minDelta = 0 => c.data \subseteq JoinFrom(c.deltas, 1)

EntryOK(s, p) ==
  p.socket \in Alive => Covered(ic[s], ic[p.socket].data, ic[s].acks[p])

\* Whose data a message is about, and who has, or had, what it brings.
Source(m)  == IF m.kind = "Delta" THEN m.from.socket ELSE m.to
Holder(m)  == IF m.kind = "Delta" THEN m.to ELSE m.from.socket
Brought(m) == IF m.kind = "Delta" THEN m.data ELSE {}

MessageOK(m) ==
  Source(m) \in Alive =>
    /\ m.clock \in 1 .. ic[Source(m)].clock
    /\ Holder(m) \in Alive =>
         Covered(ic[Source(m)], Brought(m) \cup ic[Holder(m)].data, m.clock)

Sound ==
  /\ \A s \in Alive : BufferOK(ic[s]) /\ \A p \in Peers(ic[s]) : EntryOK(s, p)
  /\ \A m \in net : MessageOK(m)
-----------------------------------------------------------------------------
(* What is left of a state c of a replica after each of its changes.        *)

LEMMA MemberFields ==
  ASSUME NEW m \in Member
  PROVE  m.socket \in Socket /\ m.id \in 1 .. MaxId[m.socket]
BY DEF Member

LEMMA IncarnationIs ==
  ASSUME NEW s \in Socket, NEW i \in 1 .. MaxId[s]
  PROVE  Incarnation(s, i) \in Member /\ Incarnation(s, i).socket = s /\ Incarnation(s, i).id = i
BY DEF Member, Incarnation

LEMMA AcksAre ==
  ASSUME NEW c \in ICType
  PROVE  Peers(c) \in SUBSET Member /\ c.acks \in [Peers(c) -> Nat]
BY DEF ICType, Peers

LEMMA MinIsLeast ==
  ASSUME NEW N \in SUBSET Nat, N # {}
  PROVE  Min(N) \in N /\ \A k \in N : Min(N) <= k
<1>1. PICK n \in N : \A k \in N : ~(<<k, n>> \in OpToRel(<, Nat))
  BY NatLessThanWellFounded, WFMin
<1>2. \A k \in N : n <= k
  <2>1. \A j, k \in Nat : <<j, k>> \in OpToRel(<, Nat) <=> j < k
    BY DEF OpToRel
  <2>2. \A k \in N : k \in Nat
    OBVIOUS
  <2>3. \A k \in N : ~(k < n)
    BY <1>1, <2>1, <2>2, Zenon
  <2> QED
    BY <2>2, <2>3
<1> QED
  BY <1>1, <1>2 DEF Min

(* The least acknowledged clock is one of those acknowledged.               *)
LEMMA LeastAckIs ==
  ASSUME NEW P, NEW acks \in [P -> Nat]
  PROVE  /\ LeastAck(acks) \in Nat
         /\ \A p \in P : LeastAck(acks) <= acks[p]
         /\ IF P = {} THEN LeastAck(acks) = 0 ELSE \E p \in P : LeastAck(acks) = acks[p]
<1>1. CASE P = {}
  BY <1>1 DEF LeastAck
<1>2. CASE P # {}
  <2> DEFINE N == {acks[p] : p \in P}
  <2>1. N \in SUBSET Nat /\ N # {} /\ LeastAck(acks) = Min(N)
    BY <1>2 DEF LeastAck
  <2>2. Min(N) \in N /\ \A k \in N : Min(N) <= k
    BY <2>1, MinIsLeast
  <2> QED
    BY <1>2, <2>1, <2>2
<1> QED
  BY <1>1, <1>2

LEMMA JoinIsData ==
  ASSUME NEW deltas \in Seq(SUBSET Op), NEW i \in Nat, i >= 1
  PROVE  JoinFrom(deltas, i) \subseteq Op
<1>1. \A k \in i .. Len(deltas) : deltas[k] \in SUBSET Op
  OBVIOUS
<1> QED
  BY <1>1 DEF JoinFrom

LEMMA NotInClusterIs ==
  /\ NotInCluster \in ICType /\ Peers(NotInCluster) = {} /\ NotInCluster.data = {}
  /\ NotInCluster.clock = 0 /\ NotInCluster.minDelta = 0 /\ NotInCluster.minOrd = 0
  /\ NotInCluster.deltas = <<>> /\ LeastAck(NotInCluster.acks) = 0
<1>1. <<>> \in UNION {[P -> Nat] : P \in SUBSET Member} /\ DOMAIN <<>> = {}
  <2>1. <<>> \in [{} -> Nat]
    OBVIOUS
  <2> QED
    BY <2>1
<1>2. <<>> \in Seq(SUBSET Op)
  OBVIOUS
<1> QED
  BY <1>1, <1>2 DEF NotInCluster, InCluster, ICType, Peers, NoMember, LeastAck

GrownFields(c, d, g) ==
  /\ g.me = c.me /\ g.data = c.data \cup d /\ g.clock = c.clock + 1
  /\ g.deltas = Append(c.deltas, d) /\ g.acks = c.acks
  /\ g.minOrd = c.minOrd /\ g.minDelta = c.minDelta

LEMMA GrownIs ==
  ASSUME NEW c \in ICType, NEW d \in SUBSET Op
  PROVE  Grown(c, d) \in ICType /\ GrownFields(c, d, Grown(c, d))
<1>1. c.deltas \in Seq(SUBSET Op) /\ c.clock \in Nat /\ c.data \subseteq Op
  BY DEF ICType
<1>2. Append(c.deltas, d) \in Seq(SUBSET Op) /\ c.data \cup d \subseteq Op /\ c.clock + 1 \in Nat
  BY <1>1
<1> QED
  BY <1>2 DEF ICType, Grown, GrownFields

\* The peers of c after an update.
NewAcks(c, added, removed) ==
  [p \in (Peers(c) \ removed) \cup added |-> IF p \in added THEN 0 ELSE c.acks[p]]

LEMMA RegroupedIs ==
  ASSUME NEW c \in ICType, NEW added \in SUBSET Member, NEW removed
  PROVE  LET g == Regrouped(c, added, removed) IN
         /\ g \in ICType /\ g.me = c.me /\ g.data = c.data /\ g.clock = c.clock
         /\ g.deltas = c.deltas /\ g.minDelta = c.minDelta
         /\ g.acks = NewAcks(c, added, removed) /\ g.minOrd = LeastAck(g.acks)
         /\ Peers(g) = (Peers(c) \ removed) \cup added
<1> DEFINE acks == NewAcks(c, added, removed)
           g    == Regrouped(c, added, removed)
           P    == (Peers(c) \ removed) \cup added
<1>1. P \in SUBSET Member /\ acks \in [P -> Nat] /\ DOMAIN acks = P
  BY AcksAre DEF NewAcks
<1>2. acks \in UNION {[Q -> Nat] : Q \in SUBSET Member} /\ LeastAck(acks) \in Nat
  BY <1>1, LeastAckIs
<1>3. g = [c EXCEPT !.acks = acks, !.minOrd = LeastAck(acks)]
  BY DEF Regrouped, NewAcks
<1> HIDE DEF acks, g
<1>4. /\ g \in ICType /\ g.me = c.me /\ g.data = c.data /\ g.clock = c.clock
      /\ g.deltas = c.deltas /\ g.minDelta = c.minDelta
      /\ g.acks = acks /\ g.minOrd = LeastAck(acks)
  BY <1>2, <1>3 DEF ICType
<1> QED
  BY <1>1, <1>4 DEF g, acks, Peers

\* The entry of p in c moves to a clock, and the buffer reaches back to `keep`.
LEMMA AcknowledgedFields ==
  ASSUME NEW c \in ICType, NEW p \in Peers(c), NEW clock \in Nat
  PROVE  LET g == Acknowledged(c, p, clock) IN
         /\ g \in ICType /\ g.me = c.me /\ g.data = c.data /\ g.clock = c.clock
         /\ g.acks = [c.acks EXCEPT ![p] = clock] /\ g.minOrd = LeastAck(g.acks)
         /\ Peers(g) = Peers(c) /\ g.minDelta >= c.minDelta
         /\ g.minDelta \in {c.minDelta, LeastAck(g.acks)} /\ g.minDelta >= LeastAck(g.acks)
         /\ g.deltas = SubSeq(c.deltas, g.minDelta - c.minDelta + 1, Len(c.deltas))
<1> DEFINE acks == [c.acks EXCEPT ![p] = clock]
           keep == Max({c.minDelta, LeastAck(acks)})
           rest == SubSeq(c.deltas, keep - c.minDelta + 1, Len(c.deltas))
           g    == Acknowledged(c, p, clock)
<1>1. /\ c.minDelta \in Nat /\ c.clock \in Nat /\ c.deltas \in Seq(SUBSET Op)
      /\ Peers(c) \in SUBSET Member /\ c.acks \in [Peers(c) -> Nat]
  BY AcksAre DEF ICType
<1>2. acks \in [Peers(c) -> Nat] /\ LeastAck(acks) \in Nat
  BY <1>1, LeastAckIs
<1>3. /\ keep \in {c.minDelta, LeastAck(acks)} /\ keep \in Nat
      /\ keep >= c.minDelta /\ keep >= LeastAck(acks)
  <2>1. \E x \in {c.minDelta, LeastAck(acks)} : \A y \in {c.minDelta, LeastAck(acks)} : x >= y
    BY <1>1, <1>2
  <2>2. keep \in {c.minDelta, LeastAck(acks)} /\ \A y \in {c.minDelta, LeastAck(acks)} : keep >= y
    BY <2>1 DEF Max
  <2> QED
    BY <1>1, <1>2, <2>2
<1> HIDE DEF acks, keep
<1>4. rest \in Seq(SUBSET Op)
  <2>1. keep - c.minDelta + 1 \in Int /\ Len(c.deltas) \in Int
    BY <1>1, <1>3
  <2>2. \A i \in keep - c.minDelta + 1 .. Len(c.deltas) : c.deltas[i] \in SUBSET Op
    BY <1>1, <1>3
  <2> QED
    BY <2>1, <2>2, SubSeqProperties
<1>5. g = [c EXCEPT !.acks = acks, !.minOrd = LeastAck(acks), !.minDelta = keep, !.deltas = rest]
  BY DEF Acknowledged, acks, keep
<1>6. acks \in UNION {[Q -> Nat] : Q \in SUBSET Member} /\ DOMAIN acks = Peers(c)
  BY <1>1, <1>2
<1> HIDE DEF rest, g
<1>7. /\ g \in ICType /\ g.me = c.me /\ g.data = c.data /\ g.clock = c.clock
      /\ g.acks = acks /\ g.minOrd = LeastAck(acks) /\ g.minDelta = keep /\ g.deltas = rest
  <2> DEFINE Acks == UNION {[Q -> Nat] : Q \in SUBSET Member}
             Me   == Member \cup {NoMember}
  <2> HIDE DEF Acks, Me
  <2>1. c \in [me : Me, data : SUBSET Op, clock : Nat, deltas : Seq(SUBSET Op),
               acks : Acks, minOrd : Nat, minDelta : Nat]
    BY DEF ICType, Acks, Me
  <2>2. acks \in Acks /\ LeastAck(acks) \in Nat /\ keep \in Nat /\ rest \in Seq(SUBSET Op)
    BY <1>2, <1>3, <1>4, <1>6 DEF Acks
  <2>3. g \in [me : Me, data : SUBSET Op, clock : Nat, deltas : Seq(SUBSET Op),
               acks : Acks, minOrd : Nat, minDelta : Nat]
    BY <1>5, <2>1, <2>2
  <2>4. /\ g.me = c.me /\ g.data = c.data /\ g.clock = c.clock /\ g.acks = acks
        /\ g.minOrd = LeastAck(acks) /\ g.minDelta = keep /\ g.deltas = rest
    BY <1>5, <2>1
  <2> QED
    BY <2>3, <2>4 DEF ICType, Acks, Me
<1> QED
  BY <1>3, <1>6, <1>7 DEF g, acks, rest, Peers

\* What is left of a buffer that loses its first `drop` deltas.
LEMMA SuffixIs ==
  ASSUME NEW q \in Seq(SUBSET Op), NEW drop \in 0 .. Len(q)
  PROVE  LET r == SubSeq(q, drop + 1, Len(q)) IN
         Len(r) = Len(q) - drop /\ \A i \in 1 .. Len(r) : r[i] = q[i + drop]
<1> DEFINE n == Len(q)
           r == SubSeq(q, drop + 1, n)
<1>1. n \in Nat /\ drop \in Nat /\ drop <= n /\ drop + 1 \in Int /\ n \in Int
  OBVIOUS
<1>2. \A i \in drop + 1 .. n : q[i] \in SUBSET Op
  BY <1>1
<1> HIDE DEF n
<1>3. /\ Len(r) = IF drop + 1 <= n THEN n - (drop + 1) + 1 ELSE 0
      /\ \A i \in 1 .. n - (drop + 1) + 1 : r[i] = q[(drop + 1) + i - 1]
  BY <1>1, <1>2, SubSeqProperties
<1> HIDE DEF r
<1>4. Len(r) = n - drop
  BY <1>1, <1>3
<1>5. ASSUME NEW i \in 1 .. Len(r)
      PROVE  r[i] = q[i + drop]
  <2>1. (drop + 1) + i - 1 = i + drop /\ i \in 1 .. n - (drop + 1) + 1
    BY <1>1, <1>4
  <2> QED
    BY <1>3, <2>1
<1> QED
  BY <1>4, <1>5 DEF n, r

LEMMA JoinSuffix ==
  ASSUME NEW q \in Seq(SUBSET Op), NEW r \in Seq(SUBSET Op), NEW drop \in Nat,
         Len(q) = Len(r) + drop, \A i \in 1 .. Len(r) : r[i] = q[i + drop], NEW i \in Nat, i >= 1
  PROVE  JoinFrom(r, i) = JoinFrom(q, i + drop)
<1> DEFINE n == Len(r)
<1>0. n \in Nat /\ Len(q) = n + drop /\ \A k \in 1 .. n : r[k] = q[k + drop]
  OBVIOUS
<1> HIDE DEF n
<1>1. ASSUME NEW k \in i .. n
      PROVE  k + drop \in i + drop .. n + drop /\ r[k] = q[k + drop]
  <2>1. k \in 1 .. n /\ k + drop \in i + drop .. n + drop
    BY <1>0
  <2> QED
    BY <1>0, <2>1
<1>2. ASSUME NEW k \in i + drop .. n + drop
      PROVE  k - drop \in i .. n /\ r[k - drop] = q[k]
  <2>1. k - drop \in i .. n /\ (k - drop) + drop = k
    BY <1>0
  <2> QED
    BY <1>1, <2>1
<1>3. {r[k] : k \in i .. n} = {q[k] : k \in i + drop .. n + drop}
  BY <1>1, <1>2
<1> QED
  BY <1>0, <1>3 DEF JoinFrom, n

\* If nobody acknowledged more than there is, what leaves the buffer is the
\* first `drop` deltas.
LEMMA AcknowledgedIs ==
  ASSUME NEW c \in ICType, NEW p \in Peers(c), NEW clock \in Nat,
         c.minDelta <= c.clock, Len(c.deltas) = c.clock - c.minDelta,
         LeastAck([c.acks EXCEPT ![p] = clock]) <= c.clock
  PROVE  LET g    == Acknowledged(c, p, clock)
             drop == g.minDelta - c.minDelta
         IN
         /\ drop \in Nat /\ g.minDelta \in c.minDelta .. c.clock
         /\ Len(g.deltas) = c.clock - g.minDelta
         /\ \A i \in 1 .. Len(g.deltas) : g.deltas[i] = c.deltas[i + drop]
<1> DEFINE g    == Acknowledged(c, p, clock)
           keep == g.minDelta
           drop == keep - c.minDelta
<1>1. /\ g \in ICType /\ g.minDelta >= c.minDelta
      /\ g.minDelta \in {c.minDelta, LeastAck([c.acks EXCEPT ![p] = clock])}
      /\ g.deltas = SubSeq(c.deltas, g.minDelta - c.minDelta + 1, Len(c.deltas))
  BY AcknowledgedFields
<1>2. c.minDelta \in Nat /\ c.clock \in Nat /\ c.deltas \in Seq(SUBSET Op)
  BY DEF ICType
<1> HIDE DEF g
<1>3. keep \in Nat /\ keep >= c.minDelta /\ keep <= c.clock
  BY <1>1, <1>2 DEF ICType
<1>4. g.deltas = SubSeq(c.deltas, drop + 1, Len(c.deltas))
  BY <1>1
<1> HIDE DEF keep
<1>5. drop \in 0 .. Len(c.deltas) /\ drop \in Nat /\ Len(c.deltas) - drop = c.clock - keep
  BY <1>2, <1>3
<1> HIDE DEF drop
<1>6. /\ Len(g.deltas) = c.clock - keep
      /\ \A i \in 1 .. Len(g.deltas) : g.deltas[i] = c.deltas[i + drop]
  <2> DEFINE rest == SubSeq(c.deltas, drop + 1, Len(c.deltas))
  <2>1. Len(rest) = Len(c.deltas) - drop /\ \A i \in 1 .. Len(rest) : rest[i] = c.deltas[i + drop]
    BY <1>2, <1>5, SuffixIs
  <2> HIDE DEF rest
  <2> QED
    BY <1>4, <1>5, <2>1 DEF rest
<1>7. keep \in c.minDelta .. c.clock
  BY <1>2, <1>3
<1> QED
  BY <1>5, <1>6, <1>7 DEF g, keep, drop
-----------------------------------------------------------------------------
\* c becomes g and nobody who was covered falls behind the buffer.
Evolves(c, g) ==
  /\ c.data \subseteq g.data /\ c.clock <= g.clock
  /\ \A have \in SUBSET Op : \A k \in 0 .. c.clock : Covered(c, have, k) => Covered(g, have, k)

LEMMA SameEvolves ==
  ASSUME NEW c \in ICType, NEW g, g.data = c.data, g.clock = c.clock,
         g.deltas = c.deltas, g.minDelta = c.minDelta
  PROVE  Evolves(c, g)
<1>1. c.clock \in Nat
  BY DEF ICType
<1> QED
  BY <1>1 DEF Evolves, Covered, Since

LEMMA JoinAppend ==
  ASSUME NEW q \in Seq(SUBSET Op), NEW d \in SUBSET Op, NEW i \in 1 .. Len(q) + 1
  PROVE  JoinFrom(Append(q, d), i) = JoinFrom(q, i) \cup d
<1> DEFINE a == Append(q, d)
<1>1. /\ Len(q) \in Nat /\ Len(a) = Len(q) + 1 /\ a[Len(q) + 1] = d
      /\ \A k \in 1 .. Len(q) : a[k] = q[k]
  BY AppendProperties
<1> HIDE DEF a
<1>2. i .. Len(a) = (i .. Len(q)) \cup {Len(q) + 1}
  BY <1>1
<1>3. \A k \in i .. Len(q) : a[k] = q[k]
  BY <1>1
<1>4. JoinFrom(a, i) = (UNION {a[k] : k \in i .. Len(q)}) \cup a[Len(q) + 1]
  <2>1. {a[k] : k \in i .. Len(a)} = {a[k] : k \in i .. Len(q)} \cup {a[Len(q) + 1]}
    BY <1>2
  <2>2. \A S, x : UNION (S \cup {x}) = (UNION S) \cup x
    OBVIOUS
  <2>3. UNION {a[k] : k \in i .. Len(a)} = (UNION {a[k] : k \in i .. Len(q)}) \cup a[Len(q) + 1]
    BY <2>1, <2>2, Zenon
  <2> QED
    BY <2>3 DEF JoinFrom
<1>5. {a[k] : k \in i .. Len(q)} = {q[k] : k \in i .. Len(q)}
  BY <1>3
<1> QED
  BY <1>1, <1>4, <1>5 DEF JoinFrom, a

LEMMA GrownEvolves ==
  ASSUME NEW c \in ICType, BufferOK(c), NEW d \in SUBSET Op
  PROVE  Evolves(c, Grown(c, d)) /\ BufferOK(Grown(c, d))
<1> DEFINE g == Grown(c, d)
<1>1. GrownFields(c, d, g) /\ g \in ICType
  BY GrownIs
<1>2. /\ c.clock \in Nat /\ c.minDelta \in Nat /\ c.deltas \in Seq(SUBSET Op)
      /\ c.minDelta <= c.clock /\ Len(c.deltas) = c.clock - c.minDelta
  BY DEF ICType, BufferOK
<1> HIDE DEF g
<1>3. ASSUME NEW have \in SUBSET Op, NEW k \in 0 .. c.clock, Covered(c, have, k)
      PROVE  Covered(g, have, k)
  <2> SUFFICES ASSUME k >= c.minDelta PROVE g.data \subseteq have \cup Since(g, k)
    BY <1>1 DEF Covered, GrownFields
  <2>1. k - c.minDelta + 1 \in 1 .. Len(c.deltas) + 1
    <3> DEFINE n == Len(c.deltas)
    <3>1. n = c.clock - c.minDelta
      BY <1>2
    <3> HIDE DEF n
    <3>2. k - c.minDelta + 1 \in 1 .. n + 1
      BY <1>2, <3>1
    <3> QED
      BY <3>2 DEF n
  <2>2. Since(g, k) = Since(c, k) \cup d
    <3>1. g.deltas = Append(c.deltas, d) /\ g.minDelta = c.minDelta
      BY <1>1 DEF GrownFields
    <3>2. JoinFrom(Append(c.deltas, d), k - c.minDelta + 1) = JoinFrom(c.deltas, k - c.minDelta + 1) \cup d
      BY <1>2, <2>1, JoinAppend
    <3> QED
      BY <3>1, <3>2 DEF Since
  <2> QED
    BY <1>1, <1>3, <2>2 DEF Covered, GrownFields
<1>4. Evolves(c, g)
  BY <1>1, <1>2, <1>3 DEF Evolves, GrownFields
<1>5. Len(g.deltas) = g.clock - g.minDelta /\ g.minDelta <= g.clock
  BY <1>1, <1>2, AppendProperties DEF GrownFields
<1>6. g.minDelta = 0 => g.data \subseteq JoinFrom(g.deltas, 1)
  <2>1. 1 \in 1 .. Len(c.deltas) + 1
    BY <1>2
  <2>2. g.deltas = Append(c.deltas, d)
    BY <1>1 DEF GrownFields
  <2>3. JoinFrom(Append(c.deltas, d), 1) = JoinFrom(c.deltas, 1) \cup d
    BY <1>2, <2>1, JoinAppend
  <2> QED
    BY <1>1, <2>2, <2>3 DEF BufferOK, GrownFields
<1>7. g.minOrd = LeastAck(g.acks) /\ Peers(g) = Peers(c)
  BY <1>1 DEF BufferOK, GrownFields, Peers
<1>8. \A p \in Peers(g) : g.acks[p] <= g.clock
  <2> TAKE p \in Peers(g)
  <2>1. c.acks[p] \in Nat /\ c.acks[p] <= c.clock /\ g.acks[p] = c.acks[p]
    BY <1>1, <1>7, AcksAre DEF BufferOK, GrownFields
  <2> QED
    BY <1>1, <1>2, <2>1 DEF GrownFields
<1> QED
  BY <1>4, <1>5, <1>6, <1>7, <1>8 DEF BufferOK, g

LEMMA RegroupedEvolves ==
  ASSUME NEW c \in ICType, BufferOK(c), NEW added \in SUBSET Member, NEW removed
  PROVE  /\ Evolves(c, Regrouped(c, added, removed)) /\ BufferOK(Regrouped(c, added, removed))
         /\ \A p \in Peers(Regrouped(c, added, removed)) :
              \/ Regrouped(c, added, removed).acks[p] = 0
              \/ p \in Peers(c) /\ Regrouped(c, added, removed).acks[p] = c.acks[p]
<1> DEFINE g == Regrouped(c, added, removed)
<1>1. /\ g \in ICType /\ g.data = c.data /\ g.clock = c.clock
      /\ g.deltas = c.deltas /\ g.minDelta = c.minDelta
      /\ g.acks = NewAcks(c, added, removed) /\ g.minOrd = LeastAck(g.acks)
      /\ Peers(g) = (Peers(c) \ removed) \cup added
  BY RegroupedIs
<1> HIDE DEF g
<1>2. \A p \in Peers(g) : g.acks[p] = 0 \/ (p \in Peers(c) /\ g.acks[p] = c.acks[p])
  <2> TAKE p \in Peers(g)
  <2>1. p \in (Peers(c) \ removed) \cup added
    BY <1>1
  <2>2. g.acks[p] = IF p \in added THEN 0 ELSE c.acks[p]
    BY <1>1, <2>1 DEF NewAcks
  <2> QED
    BY <2>1, <2>2
<1>3. c.clock \in Nat
  BY DEF ICType
<1>4. BufferOK(g)
  BY <1>1, <1>2, <1>3 DEF BufferOK
<1>5. Evolves(c, g)
  BY <1>1, SameEvolves
<1> QED
  BY <1>2, <1>4, <1>5 DEF g

LEMMA AcknowledgedEvolves ==
  ASSUME NEW c \in ICType, BufferOK(c), NEW p \in Peers(c), NEW clock \in 1 .. c.clock
  PROVE  LET g == Acknowledged(c, p, clock) IN
         /\ Evolves(c, g) /\ BufferOK(g) /\ g \in ICType /\ ~BufferRunsOut(c, p, clock)
         /\ g.me = c.me /\ g.data = c.data /\ g.clock = c.clock /\ Peers(g) = Peers(c)
         /\ g.acks = [c.acks EXCEPT ![p] = clock]
<1> DEFINE acks == [c.acks EXCEPT ![p] = clock]
           g    == Acknowledged(c, p, clock)
           drop == g.minDelta - c.minDelta
<1>1. /\ c.clock \in Nat /\ c.minDelta \in Nat /\ c.deltas \in Seq(SUBSET Op)
      /\ c.minDelta <= c.clock /\ Len(c.deltas) = c.clock - c.minDelta
      /\ c.acks \in [Peers(c) -> Nat]
  BY AcksAre DEF ICType, BufferOK
<1>2. /\ acks \in [Peers(c) -> Nat] /\ LeastAck(acks) \in Nat
      /\ \A q \in Peers(c) : LeastAck(acks) <= acks[q] /\ acks[q] <= c.clock
  <2>1. acks \in [Peers(c) -> Nat] /\ \A q \in Peers(c) : acks[q] = IF q = p THEN clock ELSE c.acks[q]
    BY <1>1
  <2>2. \A q \in Peers(c) : acks[q] <= c.clock
    BY <1>1, <2>1 DEF BufferOK
  <2> HIDE DEF acks
  <2> QED
    BY <2>1, <2>2, LeastAckIs
<1>3. LeastAck(acks) <= c.clock
  <2>1. LeastAck(acks) <= acks[p] /\ acks[p] <= c.clock /\ acks[p] \in Nat
    BY <1>2
  <2> HIDE DEF acks
  <2> QED
    BY <1>1, <1>2, <2>1
<1>4. /\ g \in ICType /\ g.me = c.me /\ g.data = c.data /\ g.clock = c.clock
      /\ g.acks = acks /\ g.minOrd = LeastAck(g.acks) /\ Peers(g) = Peers(c)
      /\ drop \in Nat /\ g.minDelta \in c.minDelta .. c.clock
      /\ Len(g.deltas) = c.clock - g.minDelta
      /\ \A i \in 1 .. Len(g.deltas) : g.deltas[i] = c.deltas[i + drop]
  BY <1>1, <1>3, AcknowledgedFields, AcknowledgedIs
<1>5. /\ g.minDelta \in Nat /\ g.minDelta <= c.clock /\ drop \in Nat
      /\ drop = g.minDelta - c.minDelta /\ c.minDelta <= g.minDelta
  <2>1. g.minDelta \in Nat
    BY <1>4 DEF ICType
  <2> HIDE DEF g
  <2> QED
    BY <1>1, <1>4, <2>1
<1>10. ~BufferRunsOut(c, p, clock)
  <2> HIDE DEF acks
  <2>1. LeastAck(acks) - c.minDelta <= Len(c.deltas)
    BY <1>1, <1>2, <1>3
  <2> QED
    BY <1>1, <1>2, <2>1 DEF BufferRunsOut, acks
<1> HIDE DEF acks, g
<1>6. ASSUME NEW i \in Nat, i >= 1
      PROVE  JoinFrom(g.deltas, i) = JoinFrom(c.deltas, i + drop)
  <2>1. g.deltas \in Seq(SUBSET Op) /\ c.deltas \in Seq(SUBSET Op) /\ drop \in Nat
    BY <1>1, <1>4 DEF ICType
  <2>2. Len(c.deltas) = Len(g.deltas) + drop
    <3>1. Len(c.deltas) = c.clock - c.minDelta /\ Len(g.deltas) = c.clock - g.minDelta
      BY <1>1, <1>4
    <3>2. c.clock - c.minDelta = (c.clock - g.minDelta) + drop
      BY <1>1, <1>5
    <3> QED
      BY <3>1, <3>2
  <2>3. \A k \in 1 .. Len(g.deltas) : g.deltas[k] = c.deltas[k + drop]
    BY <1>4
  <2> HIDE DEF drop
  <2> QED
    BY <1>6, <2>1, <2>2, <2>3, JoinSuffix
<1>7. ASSUME NEW have \in SUBSET Op, NEW k \in 0 .. c.clock, Covered(c, have, k)
      PROVE  Covered(g, have, k)
  <2> SUFFICES ASSUME k >= g.minDelta PROVE g.data \subseteq have \cup Since(g, k)
    BY DEF Covered
  <2>1. /\ k >= c.minDelta /\ k - g.minDelta + 1 \in Nat /\ k - g.minDelta + 1 >= 1
        /\ (k - g.minDelta + 1) + drop = k - c.minDelta + 1
    <3> DEFINE old == c.minDelta
               new == g.minDelta
    <3>1. old \in Nat /\ new \in Nat /\ old <= new /\ drop = new - old /\ k \in Nat /\ k >= new
      BY <1>1, <1>5
    <3> HIDE DEF old, new, drop
    <3>2. k >= old /\ k - new + 1 \in Nat /\ k - new + 1 >= 1 /\ (k - new + 1) + drop = k - old + 1
      BY <3>1
    <3> QED
      BY <3>2 DEF old, new
  <2>2. Since(g, k) = Since(c, k)
    BY <1>6, <2>1 DEF Since
  <2> QED
    BY <1>4, <1>7, <2>1, <2>2 DEF Covered
<1>8. Evolves(c, g)
  BY <1>1, <1>4, <1>7 DEF Evolves
<1>9. BufferOK(g)
  <2>1. g.minDelta = 0 => drop = 0 /\ c.minDelta = 0
    BY <1>1, <1>4
  <2>2. g.minDelta = 0 => JoinFrom(g.deltas, 1) = JoinFrom(c.deltas, 1)
    BY <1>6, <2>1
  <2>3. g.minDelta = 0 => g.data \subseteq JoinFrom(g.deltas, 1)
    BY <1>4, <2>1, <2>2 DEF BufferOK
  <2>4. g.minDelta <= g.clock /\ Len(g.deltas) = g.clock - g.minDelta
    BY <1>1, <1>4
  <2>5. \A q \in Peers(g) : g.acks[q] <= g.clock
    BY <1>2, <1>4
  <2> QED
    BY <1>4, <2>3, <2>4, <2>5 DEF BufferOK
<1> QED
  BY <1>4, <1>8, <1>9, <1>10 DEF g, acks
-----------------------------------------------------------------------------
(* A step is one node's: it changes its own replica and sends messages.      *)

Others(s) ==
  \A t \in Socket :
    t # s => phase'[t] = phase[t] /\ ic'[t] = ic[t] /\ lastId'[t] = lastId[t] /\ due'[t] = due[t]

LEMMA MessageFields ==
  ASSUME NEW m \in Message
  PROVE  /\ m.kind \in {"Delta", "Ack"} /\ m.to \in Socket /\ m.from \in Member
         /\ m.clock \in Nat
         /\ m.kind = "Delta" => m.data \in SUBSET Op
BY DEF Message

LEMMA StartedGrows ==
  ASSUME Types, Types', \A t \in Socket : lastId[t] <= lastId'[t]
  PROVE  Started \subseteq Started'
<1> SUFFICES ASSUME NEW m \in Started PROVE m \in Started'
  OBVIOUS
<1>1. m \in Member /\ m.id <= lastId[m.socket] /\ m.socket \in Socket /\ m.id \in Nat
  BY MemberFields DEF Started
<1>2. lastId[m.socket] \in Nat /\ lastId'[m.socket] \in Nat /\ lastId[m.socket] <= lastId'[m.socket]
  BY <1>1 DEF Types
<1> QED
  BY <1>1, <1>2 DEF Started

(* The conjuncts of Typed that are about one node, from what it did.         *)
LEMMA TypedLocal ==
  ASSUME Typed, Types', NEW s \in Socket, Others(s), lastId[s] <= lastId'[s],
         phase'[s] # "in_cluster" => ic'[s] = NotInCluster,
         IF phase'[s] = "stopped" THEN s \in MayStop \/ lastId'[s] = 0 ELSE lastId'[s] >= 1,
         phase'[s] = "in_cluster" => ic'[s].me \in Started' /\ ic'[s].me.socket = s,
         Peers(ic'[s]) \subseteq Started',
         \A m \in net' : m \in net \/ (m.from \in Started' /\ lastId'[m.to] >= 1)
  PROVE  Typed'
<1>1. \A t \in Socket : lastId[t] \in Nat /\ lastId'[t] \in Nat /\ lastId[t] <= lastId'[t]
  <2> TAKE t \in Socket
  <2>1. lastId[t] \in Nat /\ lastId'[t] \in Nat
    BY DEF Typed, Types
  <2> QED
    BY <2>1 DEF Others
<1>2. Started \subseteq Started'
  BY <1>1, StartedGrows DEF Typed
<1>3. Identities'
  <2> SUFFICES ASSUME NEW t \in Socket
               PROVE  /\ phase'[t] # "in_cluster" => ic'[t] = NotInCluster
                      /\ IF phase'[t] = "stopped" THEN t \in MayStop \/ lastId'[t] = 0
                                                  ELSE lastId'[t] >= 1
                      /\ phase'[t] = "in_cluster" => ic'[t].me \in Started' /\ ic'[t].me.socket = t
                      /\ Peers(ic'[t]) \subseteq Started'
    BY DEF Identities
  <2>1. CASE t = s
    BY <2>1
  <2>2. CASE t # s
    <3>1. phase'[t] = phase[t] /\ ic'[t] = ic[t] /\ lastId'[t] = lastId[t]
      BY <2>2 DEF Others
    <3> QED
      BY <1>2, <3>1 DEF Typed, Identities
  <2> QED
    BY <2>1, <2>2
<1>4. Senders'
  <2> SUFFICES ASSUME NEW m \in net' PROVE m.from \in Started' /\ lastId'[m.to] >= 1
    BY DEF Senders
  <2>1. CASE m \in net
    <3>1. m.to \in Socket /\ m.from \in Started /\ lastId[m.to] >= 1
      BY <2>1, MessageFields DEF Typed, Types, Senders
    <3>2. lastId'[m.to] >= 1
      BY <1>1, <3>1
    <3> QED
      BY <1>2, <3>1, <3>2
  <2> QED
    BY <2>1
<1> QED
  BY <1>3, <1>4 DEF Typed

\* m is what c disperses to its peer p.
IsDeltaFor(m, c, p) ==
  /\ p \in Peers(c) /\ c.acks[p] < c.clock
  /\ m = [kind |-> "Delta", to |-> p.socket, from |-> c.me, clock |-> c.clock,
          data |-> Payload(c, p)]

LEMMA PayloadIsData ==
  ASSUME NEW c \in ICType, NEW p
  PROVE  Payload(c, p) \in SUBSET Op
<1>1. c.data \subseteq Op /\ c.deltas \in Seq(SUBSET Op)
  BY DEF ICType
<1>2. JoinFrom(c.deltas, 1) \subseteq Op
  <2>1. 1 \in Nat /\ 1 >= 1
    OBVIOUS
  <2> HIDE DEF JoinFrom
  <2> QED
    BY <1>1, <2>1, JoinIsData
<1> QED
  BY <1>1, <1>2 DEF Payload

LEMMA DeltaIsMessage ==
  ASSUME NEW c \in ICType, c.me \in Member, NEW p, NEW m, IsDeltaFor(m, c, p)
  PROVE  m \in Message /\ m.kind = "Delta" /\ m.from = c.me /\ m.to = p.socket
         /\ m.clock = c.clock /\ m.data = Payload(c, p) /\ p \in Peers(c)
<1>1. p \in Member /\ p.socket \in Socket /\ c.clock \in Nat /\ Payload(c, p) \in SUBSET Op
  BY AcksAre, MemberFields, PayloadIsData DEF IsDeltaFor, ICType
<1> QED
  BY <1>1 DEF IsDeltaFor, Message

(* Either the node has c now or it panicked; it told some of c's peers.      *)
LEMMA DisperseEffect ==
  ASSUME NEW s \in Socket, NEW c, NEW rest, NEW acked, Disperse(s, c, rest, acked)
  PROVE  \/ /\ phase' = phase /\ ic' = [ic EXCEPT ![s] = c] /\ due' = [due EXCEPT ![s] = TRUE]
            /\ \A m \in net' : m \in rest \cup acked \/ \E p \in Peers(c) : IsDeltaFor(m, c, p)
         \/ /\ phase' = [phase EXCEPT ![s] = "panicked"]
            /\ ic' = [ic EXCEPT ![s] = NotInCluster] /\ due' = [due EXCEPT ![s] = FALSE]
            /\ \A m \in net' : m \in rest \cup acked \/ \E p \in Peers(c) : IsDeltaFor(m, c, p)
<1>1. CASE priority[s] \subseteq Peers(c)
  <2>1. PICK targets \in Targets(c, priority[s]) : Post(rest, acked \cup DeltaMsgs(c, targets))
    BY <1>1 DEF Disperse
  <2>2. targets \subseteq Peers(c)
    BY <1>1, <2>1 DEF Targets, kSubset
  <2>3. net' \subseteq rest \cup acked \cup DeltaMsgs(c, targets)
    BY <2>1 DEF Post
  <2>4. \A m \in DeltaMsgs(c, targets) : \E p \in Peers(c) : IsDeltaFor(m, c, p)
    BY <2>2 DEF DeltaMsgs, IsDeltaFor
  <2> QED
    BY <1>1, <2>3, <2>4 DEF Disperse, Schedule
<1>2. CASE ~(priority[s] \subseteq Peers(c))
  <2>1. PICK told \in SUBSET (priority[s] \cap Peers(c)) :
          Post(rest, acked \cup DeltaMsgs(c, told))
    BY <1>2 DEF Disperse
  <2>2. net' \subseteq rest \cup acked \cup DeltaMsgs(c, told)
    BY <2>1 DEF Post
  <2>3. \A m \in DeltaMsgs(c, told) : \E p \in Peers(c) : IsDeltaFor(m, c, p)
    BY <2>1 DEF DeltaMsgs, IsDeltaFor
  <2> QED
    BY <1>2, <2>2, <2>3 DEF Disperse
<1> QED
  BY <1>1, <1>2

\* What a replica is when its node joins.
Joined(s, nodes) ==
  InCluster(Incarnation(s, lastId[s]), queue[s], IF queue[s] = {} THEN 0 ELSE 1,
            IF queue[s] = {} THEN <<>> ELSE <<queue[s]>>, [p \in nodes |-> 0], 0, 0)

LEMMA JoinedIs ==
  ASSUME Typed, NEW s \in Socket, phase[s] = "waiting", NEW nodes \in SUBSET Member
  PROVE  LET c == Joined(s, nodes) IN
         /\ c \in ICType /\ c.me = Incarnation(s, lastId[s]) /\ c.me \in Started /\ c.me.socket = s
         /\ Peers(c) = nodes /\ BufferOK(c) /\ Evolves(NotInCluster, c)
         /\ \A p \in nodes : c.acks[p] = 0
<1> DEFINE me == Incarnation(s, lastId[s])
           c  == Joined(s, nodes)
           acks == [p \in nodes |-> 0]
           clock == IF queue[s] = {} THEN 0 ELSE 1
           deltas == IF queue[s] = {} THEN <<>> ELSE <<queue[s]>>
<1>1. queue[s] \in SUBSET Op /\ lastId[s] \in Nat /\ lastId[s] >= 1 /\ lastId[s] <= MaxId[s]
  BY DEF Typed, Types, Identities
<1>2. me \in Member /\ me.socket = s /\ me.id = lastId[s]
  <2>1. MaxId[s] \in Nat
    BY CausalAssumption
  <2>2. lastId[s] \in 1 .. MaxId[s]
    BY <1>1, <2>1
  <2> QED
    BY <2>2, IncarnationIs
<1>3. acks \in [nodes -> Nat] /\ DOMAIN acks = nodes /\ \A p \in nodes : acks[p] = 0
  OBVIOUS
<1>4. acks \in UNION {[P -> Nat] : P \in SUBSET Member} /\ LeastAck(acks) = 0
  <2>1. acks \in UNION {[P -> Nat] : P \in SUBSET Member}
    BY <1>3
  <2>2. LeastAck(acks) = 0
    BY <1>3, LeastAckIs
  <2> QED
    BY <2>1, <2>2
<1>5. clock \in 0 .. 1 /\ deltas \in Seq(SUBSET Op) /\ Len(deltas) = clock
  BY <1>1
<1>6. queue[s] = JoinFrom(deltas, 1)
  <2>1. CASE queue[s] = {}
    <3>1. deltas = <<>> /\ 1 .. Len(<<>>) = {}
      BY <2>1
    <3> QED
      BY <2>1, <3>1 DEF JoinFrom
  <2>2. CASE queue[s] # {}
    <3>1. 1 .. Len(deltas) = {1} /\ deltas[1] = queue[s]
      BY <2>2
    <3>2. {deltas[k] : k \in 1 .. Len(deltas)} = {queue[s]}
      BY <3>1
    <3> QED
      BY <3>2 DEF JoinFrom
  <2> QED
    BY <2>1, <2>2
<1> HIDE DEF acks, clock, deltas, me
<1>7. c = InCluster(me, queue[s], clock, deltas, acks, 0, 0)
  BY DEF Joined, me, acks, clock, deltas
<1> HIDE DEF c
<1>8. /\ c.me = me /\ c.data = queue[s] /\ c.clock = clock /\ c.deltas = deltas
      /\ c.acks = acks /\ c.minOrd = 0 /\ c.minDelta = 0
  BY <1>7 DEF InCluster
<1>9. c \in ICType
  BY <1>1, <1>2, <1>4, <1>5, <1>7 DEF InCluster, ICType
<1>10. me \in Started
  BY <1>1, <1>2 DEF Started
<1>11. BufferOK(c) /\ Peers(c) = nodes
  BY <1>3, <1>4, <1>5, <1>6, <1>8 DEF BufferOK, Peers
<1>12. Evolves(NotInCluster, c)
  <2> SUFFICES ASSUME NEW have \in SUBSET Op, NEW k \in 0 .. 0 PROVE Covered(c, have, k)
    BY <1>5, <1>8, NotInClusterIs DEF Evolves
  <2>1. k = 0 /\ Since(c, k) = JoinFrom(deltas, 1)
    BY <1>8 DEF Since
  <2> QED
    BY <1>6, <1>8, <2>1 DEF Covered
<1> QED
  BY <1>2, <1>3, <1>8, <1>9, <1>10, <1>11, <1>12 DEF c, me
-----------------------------------------------------------------------------
(* Typed is inductive, action by action.                                     *)

\* A dispersal keeps Typed.
LEMMA DisperseTyped ==
  ASSUME Typed, NEW s \in Socket, phase[s] = "in_cluster", NEW c \in ICType,
         c.me = ic[s].me, Peers(c) \subseteq Started,
         NEW rest \in SUBSET net, NEW acked \in SUBSET Message,
         \A m \in acked : m.from \in Started /\ lastId[m.to] >= 1,
         Disperse(s, c, rest, acked), gone' \in [Socket -> SUBSET Member],
         UNCHANGED <<queue, priority, lastId>>
  PROVE  Typed' /\ Others(s)
<1>1. /\ ic \in [Socket -> ICType] /\ net \subseteq Message /\ NotInCluster \in ICType
      /\ phase \in [Socket -> {"stopped", "waiting", "in_cluster", "panicked"}]
      /\ due \in [Socket -> BOOLEAN] /\ lastId[s] \in Nat
  BY NotInClusterIs DEF Typed, Types
<1>2. c.me \in Started /\ c.me \in Member /\ c.me.socket = s /\ lastId[s] >= 1
  BY DEF Typed, Identities, Started
<1>3. \A p \in Peers(c) : p.socket \in Socket /\ lastId[p.socket] >= 1
  <2> TAKE p \in Peers(c)
  <2>1. p \in Member /\ p.id <= lastId[p.socket]
    BY DEF Started
  <2>2. p.socket \in Socket /\ p.id \in Nat /\ p.id >= 1 /\ lastId[p.socket] \in Nat
    <3>1. p.socket \in Socket /\ p.id \in 1 .. MaxId[p.socket]
      BY <2>1, MemberFields
    <3> QED
      BY <3>1 DEF Typed, Types
  <2> QED
    BY <2>1, <2>2
<1>4. Started' = Started /\ lastId' = lastId
  BY DEF Started
<1>5. ASSUME NEW m, NEW p \in Peers(c), IsDeltaFor(m, c, p)
      PROVE  m \in Message /\ m.from \in Started /\ lastId[m.to] >= 1
  BY <1>2, <1>3, <1>5, DeltaIsMessage
<1>6. /\ net' \subseteq Message
      /\ \A m \in net' : m \in net \/ (m.from \in Started' /\ lastId'[m.to] >= 1)
  <2> SUFFICES ASSUME NEW m \in net'
               PROVE m \in Message /\ (m \in net \/ (m.from \in Started' /\ lastId'[m.to] >= 1))
    OBVIOUS
  <2>1. m \in rest \cup acked \/ \E p \in Peers(c) : IsDeltaFor(m, c, p)
    BY DisperseEffect
  <2> QED
    BY <1>1, <1>4, <1>5, <2>1
<1>7. CASE /\ phase' = phase /\ ic' = [ic EXCEPT ![s] = c] /\ due' = [due EXCEPT ![s] = TRUE]
  <2>1. Others(s) /\ ic'[s] = c /\ phase'[s] = "in_cluster" /\ ic' \in [Socket -> ICType]
    BY <1>1, <1>4, <1>7 DEF Others
  <2>2. Types'
    BY <1>1, <1>6, <1>7, <2>1 DEF Typed, Types
  <2> QED
    BY <1>1, <1>2, <1>4, <1>6, <2>1, <2>2, TypedLocal
<1>8. CASE /\ phase' = [phase EXCEPT ![s] = "panicked"]
           /\ ic' = [ic EXCEPT ![s] = NotInCluster] /\ due' = [due EXCEPT ![s] = FALSE]
  <2>1. /\ Others(s) /\ ic'[s] = NotInCluster /\ phase'[s] = "panicked"
        /\ ic' \in [Socket -> ICType]
    BY <1>1, <1>4, <1>8 DEF Others
  <2>2. Types'
    BY <1>1, <1>6, <1>8, <2>1 DEF Typed, Types
  <2> QED
    BY <1>1, <1>2, <1>4, <1>6, <2>1, <2>2, TypedLocal, NotInClusterIs
<1> QED
  BY <1>7, <1>8, DisperseEffect

LEMMA StartTyped ==
  ASSUME Typed, NEW s \in Socket, Start(s)
  PROVE  Typed' /\ Others(s)
<1>1. /\ lastId \in [Socket -> Nat] /\ lastId[s] < MaxId[s] /\ MaxId[s] \in Nat
      /\ lastId' = [lastId EXCEPT ![s] = @ + 1]
      /\ \A t \in Socket : lastId[t] <= MaxId[t]
      /\ phase \in [Socket -> {"stopped", "waiting", "in_cluster", "panicked"}]
      /\ phase' = [phase EXCEPT ![s] = "waiting"] /\ phase[s] = "stopped"
  BY CausalAssumption DEF Start, Typed, Types
<1>2. /\ lastId' \in [Socket -> Nat] /\ lastId'[s] = lastId[s] + 1
      /\ \A t \in Socket : t # s => lastId'[t] = lastId[t]
      /\ \A t \in Socket : lastId'[t] <= MaxId[t]
  <2>1. lastId' \in [Socket -> Nat] /\ lastId'[s] = lastId[s] + 1
    BY <1>1
  <2>2. \A t \in Socket : t # s => lastId'[t] = lastId[t]
    BY <1>1
  <2>3. \A t \in Socket : lastId'[t] <= MaxId[t]
    BY <1>1, <2>1, <2>2
  <2> QED
    BY <2>1, <2>2, <2>3
<1>3. Types'
  BY <1>1, <1>2 DEF Start, Typed, Types
<1>4. Others(s)
  BY <1>1, <1>2 DEF Start, Others
<1>5. ic'[s] = NotInCluster /\ phase'[s] = "waiting" /\ net' = net
  BY <1>1 DEF Start, Typed, Identities
<1>6. lastId[s] <= lastId'[s] /\ lastId'[s] >= 1
  BY <1>1, <1>2
<1> QED
  BY <1>3, <1>4, <1>5, <1>6, TypedLocal, NotInClusterIs

LEMMA StopTyped ==
  ASSUME Typed, NEW s \in Socket, Stop(s)
  PROVE  Typed' /\ Others(s)
<1>1. /\ ic \in [Socket -> ICType] /\ NotInCluster \in ICType
      /\ phase \in [Socket -> {"stopped", "waiting", "in_cluster", "panicked"}]
      /\ due \in [Socket -> BOOLEAN] /\ lastId[s] \in Nat
      /\ queue \in [Socket -> SUBSET Op] /\ gone \in [Socket -> SUBSET Member]
      /\ priority \in [Socket -> Preferences] /\ {} \in Preferences
  BY NotInClusterIs, CausalAssumption DEF Typed, Types
<1>2. Others(s) /\ ic'[s] = NotInCluster /\ phase'[s] = "stopped" /\ s \in MayStop /\ net' = net
  BY <1>1 DEF Stop, Others
<1>3. Types'
  <2>1. ic' \in [Socket -> ICType] /\ due' \in [Socket -> BOOLEAN]
    BY <1>1 DEF Stop
  <2>2. /\ phase' \in [Socket -> {"stopped", "waiting", "in_cluster", "panicked"}]
        /\ queue' \in [Socket -> SUBSET Op] /\ gone' \in [Socket -> SUBSET Member]
        /\ priority' \in [Socket -> Preferences]
    BY <1>1 DEF Stop
  <2> QED
    BY <2>1, <2>2 DEF Stop, Typed, Types
<1>4. lastId' = lastId
  BY DEF Stop
<1> QED
  BY <1>1, <1>2, <1>3, <1>4, TypedLocal, NotInClusterIs

LEMMA JoinTyped ==
  ASSUME Typed, NEW s \in Socket, Join(s)
  PROVE  Typed' /\ Others(s)
<1>1. PICK nodes \in SUBSET (Started \ {Incarnation(s, lastId[s])}) :
        ic' = [ic EXCEPT ![s] = Joined(s, nodes)]
  BY DEF Join, Joined
<1>2. nodes \in SUBSET Member /\ phase[s] = "waiting"
  BY DEF Started, Join
<1> DEFINE c == Joined(s, nodes)
<1>3. c \in ICType /\ c.me \in Started /\ c.me.socket = s /\ Peers(c) = nodes
  BY <1>2, JoinedIs
<1> HIDE DEF c
<1>4. /\ ic \in [Socket -> ICType] /\ lastId[s] \in Nat /\ queue \in [Socket -> SUBSET Op]
      /\ phase \in [Socket -> {"stopped", "waiting", "in_cluster", "panicked"}]
      /\ ic' = [ic EXCEPT ![s] = c] /\ lastId[s] >= 1
  BY <1>1, <1>2 DEF Typed, Types, Identities, c
<1>5. /\ Others(s) /\ ic'[s] = c /\ phase'[s] = "in_cluster" /\ net' = net /\ lastId' = lastId
      /\ Started' = Started
  BY <1>4 DEF Join, Others, Started
<1>6. Types'
  <2>1. ic' \in [Socket -> ICType]
    BY <1>3, <1>4
  <2>2. /\ phase' \in [Socket -> {"stopped", "waiting", "in_cluster", "panicked"}]
        /\ queue' \in [Socket -> SUBSET Op]
    BY <1>4 DEF Join
  <2> QED
    BY <2>1, <2>2 DEF Join, Typed, Types
<1> QED
  BY <1>3, <1>4, <1>5, <1>6, TypedLocal

LEMMA RenameTyped ==
  ASSUME Typed, NEW s \in Socket, Rename(s)
  PROVE  /\ Typed' /\ Others(s) /\ ic'[s].data = ic[s].data /\ ic'[s].clock = ic[s].clock
         /\ ic'[s].deltas = ic[s].deltas /\ ic'[s].minDelta = ic[s].minDelta
         /\ ic'[s].acks = ic[s].acks /\ ic'[s].minOrd = ic[s].minOrd
<1> DEFINE me == Incarnation(s, lastId[s] + 1)
           c  == [ic[s] EXCEPT !.me = me]
<1>1. /\ ic \in [Socket -> ICType] /\ lastId \in [Socket -> Nat] /\ lastId[s] < MaxId[s]
      /\ \A t \in Socket : lastId[t] <= MaxId[t]
      /\ MaxId[s] \in Nat /\ phase[s] = "in_cluster" /\ lastId[s] >= 1
      /\ ic' = [ic EXCEPT ![s].me = me] /\ lastId' = [lastId EXCEPT ![s] = @ + 1]
  BY CausalAssumption DEF Rename, Typed, Types, Identities
<1>2. me \in Member /\ me.socket = s /\ me.id = lastId[s] + 1
  <2>1. lastId[s] + 1 \in 1 .. MaxId[s]
    BY <1>1
  <2> QED
    BY <2>1, IncarnationIs
<1>3. ic[s] \in ICType /\ ic[s].me \in Started /\ ic[s].me \in Member
  BY <1>1 DEF Typed, Identities, Started
<1> HIDE DEF me
<1>4. /\ c \in ICType /\ c.me = me /\ c.data = ic[s].data /\ c.clock = ic[s].clock
      /\ c.deltas = ic[s].deltas /\ c.acks = ic[s].acks
      /\ c.minOrd = ic[s].minOrd /\ c.minDelta = ic[s].minDelta
  BY <1>2, <1>3 DEF ICType
<1>5. ic' = [ic EXCEPT ![s] = c]
  BY <1>1
<1> HIDE DEF c
<1>6. /\ lastId' \in [Socket -> Nat] /\ lastId'[s] = lastId[s] + 1
      /\ \A t \in Socket : t # s => lastId'[t] = lastId[t]
      /\ \A t \in Socket : lastId'[t] <= MaxId[t]
  <2>1. lastId' \in [Socket -> Nat] /\ lastId'[s] = lastId[s] + 1
    BY <1>1
  <2>2. \A t \in Socket : t # s => lastId'[t] = lastId[t]
    BY <1>1
  <2>3. \A t \in Socket : lastId'[t] <= MaxId[t]
    BY <1>1, <2>1, <2>2
  <2> QED
    BY <2>1, <2>2, <2>3
<1>7. /\ Others(s) /\ ic'[s] = c /\ phase'[s] = "in_cluster" /\ net' = net
      /\ ic' \in [Socket -> ICType]
  BY <1>1, <1>4, <1>5, <1>6 DEF Others, Rename
<1>8. Types'
  <2>1. gone' \in [Socket -> SUBSET Member]
    BY <1>3 DEF Rename, Typed, Types
  <2> QED
    BY <1>6, <1>7, <2>1 DEF Rename, Typed, Types
<1>9. me \in Started' /\ lastId[s] <= lastId'[s] /\ lastId'[s] >= 1
  BY <1>1, <1>2, <1>6 DEF Started
<1>10. Peers(c) \subseteq Started'
  <2>1. Started \subseteq Started'
    <3>1. \A t \in Socket : lastId[t] <= lastId'[t]
      BY <1>1, <1>6
    <3> QED
      BY <1>8, <3>1, StartedGrows DEF Typed
  <2>2. Peers(c) = Peers(ic[s])
    BY <1>4 DEF Peers
  <2> QED
    BY <2>1, <2>2 DEF Typed, Identities
<1> QED
  BY <1>2, <1>4, <1>7, <1>8, <1>9, <1>10, TypedLocal

\* What a step leaves alone that neither answers nor changes a replica.
Quiet == phase' = phase /\ ic' = ic /\ lastId' = lastId /\ net' \subseteq net

LEMMA QuietTyped ==
  ASSUME Typed, Quiet, queue' \in [Socket -> SUBSET Op], priority' \in [Socket -> Preferences],
         due' \in [Socket -> BOOLEAN], gone' = gone
  PROVE  Typed'
<1>1. Types'
  BY DEF Typed, Types, Quiet
<1>2. Identities' /\ Senders'
  BY DEF Typed, Identities, Senders, Quiet, Started
<1> QED
  BY <1>1, <1>2 DEF Typed

LEMMA EnqueueTyped ==
  ASSUME Typed, NEW s \in Socket, NEW op \in Op, Enqueue(s, op)
  PROVE  Typed' /\ Quiet
<1>1. queue' \in [Socket -> SUBSET Op]
  BY DEF Enqueue, Typed, Types
<1> QED
  BY <1>1, QuietTyped DEF Enqueue, Quiet, Typed, Types

LEMMA SetPreferenceTyped ==
  ASSUME Typed, NEW s \in Socket, NEW first \in Preferences, SetPreference(s, first)
  PROVE  Typed' /\ Quiet
<1>1. priority' \in [Socket -> Preferences]
  BY DEF SetPreference, Typed, Types
<1> QED
  BY <1>1, QuietTyped DEF SetPreference, Quiet, Typed, Types

LEMMA UnheededTyped ==
  ASSUME Typed, NEW s \in Socket, NEW msg, Unheeded(s, msg)
  PROVE  Typed' /\ Quiet
BY QuietTyped DEF Unheeded, Quiet, Typed, Types

LEMMA MutateTyped ==
  ASSUME Typed, NEW s \in Socket, NEW op \in Op, Mutate(s, op)
  PROVE  Typed' /\ Others(s)
<1> DEFINE d == DeltaOf(op, ic[s].data)
           c == Grown(ic[s], d)
<1>1. ic[s] \in ICType /\ d \in SUBSET Op
  BY DEF Typed, Types, DeltaOf
<1> HIDE DEF d
<1>2. c \in ICType /\ GrownFields(ic[s], d, c)
  BY <1>1, GrownIs
<1> HIDE DEF c
<1>3. c.me = ic[s].me /\ Peers(c) \subseteq Started
  BY <1>2 DEF GrownFields, Peers, Typed, Identities
<1>4. phase[s] = "in_cluster" /\ Disperse(s, c, net, {}) /\ UNCHANGED <<queue, priority, gone, lastId>>
  BY DEF Mutate, c, d
<1>5. gone' \in [Socket -> SUBSET Member] /\ {} \in SUBSET Message /\ net \in SUBSET net
  BY <1>4 DEF Typed, Types
<1>6. \A m \in {} : m.from \in Started /\ lastId[m.to] >= 1
  OBVIOUS
<1> QED
  BY <1>2, <1>3, <1>4, <1>5, <1>6, DisperseTyped

LEMMA RegroupTyped ==
  ASSUME Typed, NEW s \in Socket, Regroup(s)
  PROVE  Typed' /\ Others(s)
<1>1. PICK added \in SUBSET (Started \ (Peers(ic[s]) \cup gone[s] \cup {ic[s].me})),
           removed \in SUBSET (Peers(ic[s]) \cap MayLeave) :
        /\ gone' = [gone EXCEPT ![s] = @ \cup removed]
        /\ Disperse(s, Regrouped(ic[s], added, removed), net, {})
  BY DEF Regroup
<1> DEFINE c == Regrouped(ic[s], added, removed)
<1>2. ic[s] \in ICType /\ added \in SUBSET Member /\ removed \in SUBSET Member
  <2>1. ic[s] \in ICType /\ added \in SUBSET Member
    BY DEF Typed, Types, Started
  <2>2. Peers(ic[s]) \in SUBSET Member
    BY <2>1, AcksAre
  <2>3. removed \subseteq Peers(ic[s])
    OBVIOUS
  <2> QED
    BY <2>1, <2>2, <2>3
<1>3. c \in ICType /\ c.me = ic[s].me /\ Peers(c) = (Peers(ic[s]) \ removed) \cup added
  <2>1. \A x \in ICType : \A a \in SUBSET Member : \A r :
          LET g == Regrouped(x, a, r) IN
          g \in ICType /\ g.me = x.me /\ Peers(g) = (Peers(x) \ r) \cup a
    BY RegroupedIs
  <2> QED
    BY <1>2, <2>1
<1>4. Disperse(s, c, net, {})
  BY <1>1
<1> HIDE DEF c
<1>5. Peers(c) \subseteq Started
  BY <1>1, <1>3 DEF Typed, Identities
<1>6. gone' \in [Socket -> SUBSET Member] /\ {} \in SUBSET Message /\ net \in SUBSET net
  BY <1>1, <1>2 DEF Typed, Types
<1>7. \A m \in {} : m.from \in Started /\ lastId[m.to] >= 1
  OBVIOUS
<1>8. phase[s] = "in_cluster" /\ UNCHANGED <<queue, priority, lastId>>
  BY DEF Regroup
<1> QED
  BY <1>3, <1>4, <1>5, <1>6, <1>7, <1>8, DisperseTyped

LEMMA TimeoutTyped ==
  ASSUME Typed, NEW s \in Socket, DisperseTimeout(s)
  PROVE  Typed' /\ Others(s)
<1>1. CASE Behind(ic[s])
  <2>1. phase[s] = "in_cluster" /\ Disperse(s, ic[s], net, {}) /\ UNCHANGED <<queue, priority, gone, lastId>>
    BY <1>1 DEF DisperseTimeout
  <2>2. ic[s] \in ICType /\ Peers(ic[s]) \subseteq Started
    BY DEF Typed, Types, Identities
  <2>3. gone' \in [Socket -> SUBSET Member] /\ {} \in SUBSET Message /\ net \in SUBSET net
    BY <2>1 DEF Typed, Types
  <2>4. \A m \in {} : m.from \in Started /\ lastId[m.to] >= 1
    OBVIOUS
  <2> QED
    BY <2>1, <2>2, <2>3, <2>4, DisperseTyped
<1>2. CASE ~Behind(ic[s])
  <2>1. Quiet /\ UNCHANGED <<queue, priority, gone>> /\ due' \in {due, [due EXCEPT ![s] = FALSE]}
    BY <1>2 DEF DisperseTimeout, Quiet
  <2>2. due' \in [Socket -> BOOLEAN] /\ \A t \in Socket : t # s => due'[t] = due[t]
    BY <2>1 DEF Typed, Types
  <2>3. Others(s)
    BY <2>1, <2>2 DEF Quiet, Others
  <2> QED
    BY <2>1, <2>2, <2>3, QuietTyped DEF Typed, Types
<1> QED
  BY <1>1, <1>2

\* The ack a replica of s sends for a delta it received.
LEMMA AckIsMessage ==
  ASSUME Typed, NEW s \in Socket, phase[s] = "in_cluster",
         NEW msg \in net, msg.kind = "Delta", msg.from \in Peers(ic[s])
  PROVE  LET m == AckOf(ic[s], msg) IN
         /\ m \in Message /\ m.kind = "Ack" /\ m.to = msg.from.socket /\ m.from = ic[s].me
         /\ m.clock = msg.clock /\ m.from \in Started /\ lastId[m.to] >= 1 /\ m.from.socket = s
<1>1. msg \in Message /\ msg.clock \in Nat /\ msg.from \in Member /\ msg.from \in Started
  BY MessageFields DEF Typed, Types, Senders
<1>2. ic[s].me \in Started /\ ic[s].me \in Member /\ ic[s].me.socket = s
  BY DEF Typed, Identities, Started
<1>3. /\ msg.from.socket \in Socket /\ msg.from.id \in Nat /\ msg.from.id >= 1
      /\ msg.from.id <= lastId[msg.from.socket]
  <2>1. /\ msg.from.socket \in Socket /\ msg.from.id \in 1 .. MaxId[msg.from.socket]
        /\ msg.from.id <= lastId[msg.from.socket]
    BY <1>1, MemberFields DEF Started
  <2> QED
    BY <2>1
<1>4. lastId[msg.from.socket] \in Nat
  BY <1>3 DEF Typed, Types
<1>5. lastId[msg.from.socket] >= 1
  BY <1>3, <1>4
<1> QED
  BY <1>1, <1>2, <1>3, <1>5 DEF AckOf, Message

LEMMA ReceiveDeltaTyped ==
  ASSUME Typed, NEW s \in Socket, NEW msg \in net, ReceiveDelta(s, msg)
  PROVE  Typed' /\ Others(s)
<1> DEFINE m == AckOf(ic[s], msg)
           c == Grown(ic[s], msg.data)
<1>1. /\ msg.kind = "Delta" /\ phase[s] = "in_cluster" /\ msg.from \in Peers(ic[s])
      /\ UNCHANGED <<queue, priority, gone, lastId>> /\ msg \in Message
  BY DEF ReceiveDelta, Typed, Types
<1>2. m \in Message /\ m.from \in Started /\ lastId[m.to] >= 1
  BY <1>1, AckIsMessage
<1> HIDE DEF m
<1>3. PICK rest \in AfterReceipt(msg) :
       IF msg.data \subseteq ic[s].data
       THEN Post(rest, {m}) /\ UNCHANGED <<phase, ic, due>>
       ELSE Disperse(s, c, rest, {m})
  BY DEF ReceiveDelta, m
<1>4. rest \in SUBSET net
  BY DEF AfterReceipt
<1>5. CASE msg.data \subseteq ic[s].data
  <2>1. net' \subseteq net \cup {m} /\ UNCHANGED <<phase, ic, due>>
    BY <1>3, <1>4, <1>5 DEF Post
  <2>2. Types'
    BY <1>1, <1>2, <2>1 DEF Typed, Types
  <2>3. Identities' /\ Senders'
    BY <1>1, <1>2, <2>1 DEF Typed, Identities, Senders, Started
  <2>4. Others(s)
    BY <1>1, <2>1 DEF Others
  <2> QED
    BY <2>2, <2>3, <2>4 DEF Typed
<1>6. CASE ~(msg.data \subseteq ic[s].data)
  <2>1. ic[s] \in ICType /\ msg.data \in SUBSET Op
    BY <1>1, MessageFields DEF Typed, Types
  <2>2. c \in ICType /\ GrownFields(ic[s], msg.data, c)
    BY <2>1, GrownIs
  <2>3. Disperse(s, c, rest, {m})
    BY <1>3, <1>6
  <2> HIDE DEF c
  <2>4. c.me = ic[s].me /\ Peers(c) \subseteq Started
    BY <2>2 DEF GrownFields, Peers, Typed, Identities
  <2>5. gone' \in [Socket -> SUBSET Member] /\ {m} \in SUBSET Message
    BY <1>1, <1>2 DEF Typed, Types
  <2>6. \A x \in {m} : x.from \in Started /\ lastId[x.to] >= 1
    BY <1>2
  <2> QED
    BY <1>1, <1>4, <2>2, <2>3, <2>4, <2>5, <2>6, DisperseTyped
<1> QED
  BY <1>5, <1>6

LEMMA ReceiveAckTyped ==
  ASSUME Typed, NEW s \in Socket, NEW msg \in net, ReceiveAck(s, msg)
  PROVE  Typed' /\ Others(s)
<1> DEFINE c == Acknowledged(ic[s], msg.from, msg.clock)
<1>1. /\ phase[s] = "in_cluster" /\ msg.from \in Peers(ic[s]) /\ msg.clock \in Nat
      /\ UNCHANGED <<queue, priority, gone, lastId>> /\ net' \subseteq net
  BY MessageFields DEF ReceiveAck, AfterReceipt, Typed, Types
<1>2. /\ ic \in [Socket -> ICType] /\ NotInCluster \in ICType /\ ic[s] \in ICType
      /\ phase \in [Socket -> {"stopped", "waiting", "in_cluster", "panicked"}]
      /\ due \in [Socket -> BOOLEAN] /\ lastId[s] \in Nat /\ lastId[s] >= 1
      /\ ic[s].me \in Started /\ ic[s].me.socket = s
  BY <1>1, NotInClusterIs DEF Typed, Types, Identities
<1>3. c \in ICType /\ c.me = ic[s].me /\ Peers(c) = Peers(ic[s])
  <2>1. \A x \in ICType : \A p \in Peers(x) : \A k \in Nat :
          LET g == Acknowledged(x, p, k) IN
          g \in ICType /\ g.me = x.me /\ Peers(g) = Peers(x)
    BY AcknowledgedFields
  <2>2. ic[s] \in ICType /\ msg.from \in Peers(ic[s]) /\ msg.clock \in Nat
    BY <1>1, <1>2
  <2> QED
    BY <2>1, <2>2
<1>4. Started' = Started /\ Peers(ic[s]) \subseteq Started
  BY <1>1 DEF Started, Typed, Identities
<1>5. CASE BufferRunsOut(ic[s], msg.from, msg.clock)
  <2>1. /\ phase' = [phase EXCEPT ![s] = "panicked"] /\ ic' = [ic EXCEPT ![s] = NotInCluster]
        /\ due' = [due EXCEPT ![s] = FALSE]
    BY <1>5 DEF ReceiveAck
  <2>2. /\ Others(s) /\ ic'[s] = NotInCluster /\ phase'[s] = "panicked"
        /\ ic' \in [Socket -> ICType]
    BY <1>1, <1>2, <2>1 DEF Others
  <2>3. Types'
    BY <1>1, <1>2, <2>1, <2>2 DEF Typed, Types
  <2> QED
    BY <1>1, <1>2, <1>4, <2>2, <2>3, TypedLocal, NotInClusterIs
<1>6. CASE ~BufferRunsOut(ic[s], msg.from, msg.clock)
  <2>1. phase' = phase /\ due' = due /\ ic' = [ic EXCEPT ![s] = c]
    BY <1>6 DEF ReceiveAck
  <2> HIDE DEF c
  <2>2. Others(s) /\ ic'[s] = c /\ phase'[s] = "in_cluster" /\ ic' \in [Socket -> ICType]
    BY <1>1, <1>2, <1>3, <2>1 DEF Others
  <2>3. Types'
    BY <1>1, <1>2, <2>1, <2>2 DEF Typed, Types
  <2> QED
    BY <1>1, <1>2, <1>3, <1>4, <2>2, <2>3, TypedLocal
<1> QED
  BY <1>5, <1>6

LEMMA InitTyped == Init => Typed
<1> SUFFICES ASSUME Init PROVE Typed
  OBVIOUS
<1>1. Types
  BY NotInClusterIs, CausalAssumption DEF Init, Types
<1>2. Identities /\ Senders
  BY NotInClusterIs DEF Init, Identities, Senders
<1> QED
  BY <1>1, <1>2 DEF Typed

LEMMA NextTyped == Typed /\ [Next]_vars => Typed'
<1> SUFFICES ASSUME Typed, [Next]_vars PROVE Typed'
  OBVIOUS
<1>1. CASE UNCHANGED vars
  BY <1>1 DEF vars, Typed, Types, Identities, Senders, Started
<1>2. ASSUME NEW s \in Socket,
             \/ Start(s) \/ Stop(s) \/ Join(s) \/ Regroup(s) \/ Rename(s) \/ DisperseTimeout(s)
      PROVE  Typed'
  BY <1>2, StartTyped, StopTyped, JoinTyped, RegroupTyped, RenameTyped, TimeoutTyped
<1>3. ASSUME NEW s \in Socket, NEW op \in Op, Enqueue(s, op) \/ Mutate(s, op)
      PROVE  Typed'
  BY <1>3, EnqueueTyped, MutateTyped
<1>4. ASSUME NEW s \in Socket, NEW first \in Preferences, SetPreference(s, first)
      PROVE  Typed'
  BY <1>4, SetPreferenceTyped
<1>5. ASSUME NEW s \in Socket, NEW msg \in net, Receive(s, msg)
      PROVE  Typed'
  BY <1>5, ReceiveDeltaTyped, ReceiveAckTyped, UnheededTyped DEF Receive
<1> QED
  BY <1>1, <1>2, <1>3, <1>4, <1>5 DEF Next

(* Nobody speaks for a member that was not started, and the types are right.*)
THEOREM TypedAlways == Spec => []Typed
<1> QED
  BY InitTyped, NextTyped, PTL DEF Spec
-----------------------------------------------------------------------------
(* The clock tells the data.                                                 *)

ClockStep(s) ==
  phase[s] = "in_cluster" /\ phase'[s] = "in_cluster"
    => /\ ic[s].data \subseteq ic'[s].data
       /\ ic[s].clock = ic'[s].clock <=> ic[s].data = ic'[s].data

\* The states a dispersal of c leaves its node in.
LEMMA DisperseLeaves ==
  ASSUME Typed, NEW s \in Socket, NEW c, NEW rest, NEW acked, Disperse(s, c, rest, acked)
  PROVE  phase'[s] = "in_cluster" => ic'[s] = c
<1>1. ic \in [Socket -> ICType] /\ phase \in [Socket -> {"stopped", "waiting", "in_cluster", "panicked"}]
  BY DEF Typed, Types
<1>2. CASE phase' = [phase EXCEPT ![s] = "panicked"]
  BY <1>1, <1>2
<1>3. CASE ic' = [ic EXCEPT ![s] = c]
  BY <1>1, <1>3
<1> QED
  BY <1>2, <1>3, DisperseEffect

LEMMA GrownTells ==
  ASSUME Typed, NEW s \in Socket, NEW d \in SUBSET Op, ~(d \subseteq ic[s].data),
         phase'[s] = "in_cluster" => ic'[s] = Grown(ic[s], d)
  PROVE  ClockStep(s)
<1>1. ic[s] \in ICType
  BY DEF Typed, Types
<1>2. GrownFields(ic[s], d, Grown(ic[s], d))
  BY <1>1, GrownIs
<1>3. ic[s].clock \in Nat
  BY <1>1 DEF ICType
<1> QED
  BY <1>2, <1>3 DEF GrownFields, ClockStep

LEMMA NextTells ==
  ASSUME Typed, [Next]_vars
  PROVE  \A t \in Socket : ClockStep(t)
<1> SUFFICES ASSUME NEW t \in Socket PROVE ClockStep(t)
  OBVIOUS
<1> DEFINE Same == ic'[t].data = ic[t].data /\ ic'[t].clock = ic[t].clock
<1>1. Same \/ phase[t] # "in_cluster" \/ phase'[t] # "in_cluster" => ClockStep(t)
  BY DEF ClockStep
<1>2. CASE Quiet \/ UNCHANGED vars
  BY <1>2 DEF Quiet, vars, ClockStep
<1>3. ASSUME NEW s \in Socket, Others(s), t # s
      PROVE  ClockStep(t)
  BY <1>3 DEF Others, ClockStep
<1>4. ASSUME NEW s \in Socket,
             \/ Start(s) \/ Stop(s) \/ Join(s) \/ Regroup(s) \/ Rename(s) \/ DisperseTimeout(s)
      PROVE  ClockStep(t)
  <2>1. Others(s)
    BY <1>4, StartTyped, StopTyped, JoinTyped, RegroupTyped, RenameTyped, TimeoutTyped
  <2> SUFFICES ASSUME t = s PROVE ClockStep(t)
    BY <1>3, <2>1
  <2>2. CASE Start(s) \/ Stop(s) \/ Join(s)
    <3>1. phase \in [Socket -> {"stopped", "waiting", "in_cluster", "panicked"}]
      BY DEF Typed, Types
    <3> QED
      BY <1>1, <2>2, <3>1 DEF Start, Stop, Join
  <2>3. CASE Regroup(s)
    <3>1. PICK added \in SUBSET (Started \ (Peers(ic[s]) \cup gone[s] \cup {ic[s].me})),
               removed \in SUBSET (Peers(ic[s]) \cap MayLeave) :
            Disperse(s, Regrouped(ic[s], added, removed), net, {})
      BY <2>3 DEF Regroup
    <3> DEFINE c == Regrouped(ic[s], added, removed)
    <3>2. c.data = ic[s].data /\ c.clock = ic[s].clock
      <4>1. ic[s] \in ICType
        BY DEF Typed, Types
      <4> QED
        BY <4>1 DEF ICType, Regrouped
    <3> HIDE DEF c
    <3>3. phase'[s] = "in_cluster" => ic'[s] = c
      BY <3>1, DisperseLeaves DEF c
    <3> QED
      BY <1>1, <3>2, <3>3
  <2>4. CASE Rename(s)
    BY <1>1, <2>4, RenameTyped
  <2>5. CASE DisperseTimeout(s)
    <3>1. CASE Disperse(s, ic[s], net, {})
      BY <1>1, <3>1, DisperseLeaves
    <3>2. CASE ic' = ic
      BY <1>1, <3>2
    <3> QED
      BY <2>5, <3>1, <3>2 DEF DisperseTimeout
  <2> QED
    BY <1>4, <2>2, <2>3, <2>4, <2>5
<1>5. ASSUME NEW s \in Socket, NEW op \in Op, Mutate(s, op)
      PROVE  ClockStep(t)
  <2>1. Others(s)
    BY <1>5, MutateTyped
  <2>2. DeltaOf(op, ic[s].data) \in SUBSET Op /\ ~(DeltaOf(op, ic[s].data) \subseteq ic[s].data)
    BY <1>5 DEF Mutate, DeltaOf
  <2>3. phase'[s] = "in_cluster" => ic'[s] = Grown(ic[s], DeltaOf(op, ic[s].data))
    BY <1>5, DisperseLeaves DEF Mutate
  <2> QED
    BY <1>3, <2>1, <2>2, <2>3, GrownTells
<1>6. ASSUME NEW s \in Socket, NEW msg \in net, ReceiveDelta(s, msg)
      PROVE  ClockStep(t)
  <2>1. Others(s) /\ msg.data \in SUBSET Op
    BY <1>6, ReceiveDeltaTyped, MessageFields DEF ReceiveDelta, Typed, Types
  <2>2. CASE ic' = ic
    BY <1>1, <2>2
  <2>3. ASSUME ~(msg.data \subseteq ic[s].data), NEW rest, NEW acked,
               Disperse(s, Grown(ic[s], msg.data), rest, acked)
        PROVE  ClockStep(t)
    <3>1. phase'[s] = "in_cluster" => ic'[s] = Grown(ic[s], msg.data)
      BY <2>3, DisperseLeaves
    <3> QED
      BY <1>3, <2>1, <2>3, <3>1, GrownTells
  <2> QED
    BY <1>6, <2>2, <2>3 DEF ReceiveDelta
<1>7. ASSUME NEW s \in Socket, NEW msg \in net, ReceiveAck(s, msg)
      PROVE  ClockStep(t)
  <2>1. Others(s)
    BY <1>7, ReceiveAckTyped
  <2> SUFFICES ASSUME t = s PROVE ClockStep(t)
    BY <1>3, <2>1
  <2>2. /\ ic \in [Socket -> ICType] /\ ic[s] \in ICType /\ msg.from \in Peers(ic[s])
        /\ phase \in [Socket -> {"stopped", "waiting", "in_cluster", "panicked"}]
    BY <1>7 DEF Typed, Types, ReceiveAck
  <2> DEFINE c == Acknowledged(ic[s], msg.from, msg.clock)
  <2>3. c.data = ic[s].data /\ c.clock = ic[s].clock
    BY <2>2 DEF Acknowledged, ICType
  <2> HIDE DEF c
  <2>4. CASE phase' = [phase EXCEPT ![s] = "panicked"]
    BY <1>1, <2>2, <2>4
  <2>5. CASE ic' = [ic EXCEPT ![s] = c]
    BY <1>1, <2>2, <2>3, <2>5
  <2> QED
    BY <1>7, <2>4, <2>5 DEF ReceiveAck, c
<1>8. ASSUME NEW s \in Socket,
             \/ \E op \in Op : Enqueue(s, op)
             \/ \E first \in Preferences : SetPreference(s, first)
             \/ \E msg \in net : Unheeded(s, msg)
      PROVE  Quiet
  BY <1>8, EnqueueTyped, SetPreferenceTyped, UnheededTyped
<1> QED
  BY <1>2, <1>4, <1>5, <1>6, <1>7, <1>8 DEF Next, Receive

(* While it runs, a replica only grows, and no two different values of its   *)
(* data are ever sent under the same clock, InCluster::op, delta and ack:    *)
(* under any membership, loss, repetition, restart or preference.            *)
THEOREM ClockAlwaysTellsData == Spec => ClockTellsData
<1>1. Typed /\ [Next]_vars
        => [\A s \in Socket :
              phase[s] = "in_cluster" /\ phase'[s] = "in_cluster"
                => /\ ic[s].data \subseteq ic'[s].data
                   /\ ic[s].clock = ic'[s].clock <=> ic[s].data = ic'[s].data]_vars
  BY NextTells DEF ClockStep
<1> QED
  BY <1>1, TypedAlways, PTL DEF Spec, ClockTellsData
-----------------------------------------------------------------------------
(* Sound is inductive, as long as nobody comes back.                         *)

\* How the entries of c relate to those before, at the replica of s.
EntriesFrom(s, c) ==
  \A p \in Peers(c) :
    \/ c.acks[p] = 0
    \/ /\ p \in Peers(ic[s]) /\ c.acks[p] = ic[s].acks[p]
    \/ \E m \in net : m.kind = "Ack" /\ m.to = s /\ m.from = p /\ m.clock = c.acks[p]

\* m acknowledges a delta that s received and that its data now covers.
AnswersDelta(s, m, running, data) ==
  \E d \in net : /\ d.kind = "Delta" /\ d.to = s
                 /\ m.kind = "Ack" /\ m.to = d.from.socket /\ m.from.socket = s
                 /\ m.clock = d.clock
                 /\ running => d.data \subseteq data

\* The step of s leaves its replica sound and sends what it may.
SoundStep(s) ==
  /\ s \in Alive' =>
       /\ s \in Alive /\ Evolves(ic[s], ic'[s]) /\ BufferOK(ic'[s])
       /\ EntriesFrom(s, ic'[s])
  /\ \A m \in net' :
       \/ m \in net
       \/ AnswersDelta(s, m, s \in Alive', ic'[s].data)
       \/ s \in Alive' /\ \E p \in Peers(ic'[s]) : IsDeltaFor(m, ic'[s], p)
       \/ ~(Source(m) \in Alive')

LEMMA SoundLocal ==
  ASSUME Typed, Typed', Sound, NEW s \in Socket, Others(s), SoundStep(s)
  PROVE  Sound'
<1>1. ASSUME NEW t \in Alive'
      PROVE  /\ t \in Socket /\ t \in Alive /\ ic[t] \in ICType /\ ic'[t] \in ICType
             /\ BufferOK(ic[t]) /\ Evolves(ic[t], ic'[t]) /\ BufferOK(ic'[t])
             /\ ic[t].clock \in Nat /\ ic'[t].clock \in Nat /\ ic[t].clock <= ic'[t].clock
             /\ ic[t].data \subseteq ic'[t].data /\ ic'[t].data \subseteq Op
  <2>1. t \in Socket /\ ic[t] \in ICType /\ ic'[t] \in ICType
    BY DEF Alive, Typed, Types
  <2>2. t \in Alive /\ Evolves(ic[t], ic'[t]) /\ BufferOK(ic[t]) /\ BufferOK(ic'[t])
    <3>1. CASE t = s
      BY <3>1 DEF SoundStep, Sound
    <3>2. CASE t # s
      <4>1. phase'[t] = phase[t] /\ ic'[t] = ic[t]
        BY <2>1, <3>2 DEF Others
      <4>2. t \in Alive /\ BufferOK(ic[t])
        BY <2>1, <4>1 DEF Alive, Sound
      <4> QED
        BY <2>1, <4>1, <4>2, SameEvolves
    <3> QED
      BY <3>1, <3>2
  <2>3. ic[t].clock \in Nat /\ ic'[t].clock \in Nat /\ ic'[t].data \subseteq Op
    BY <2>1 DEF ICType
  <2> QED
    BY <2>1, <2>2, <2>3 DEF Evolves
\* What covered u's lack of t's data still does.
<1>2. ASSUME NEW t \in Alive', NEW u \in Alive', NEW x \in SUBSET Op, NEW k \in 0 .. ic[t].clock,
             Covered(ic[t], x \cup ic[u].data, k)
      PROVE  Covered(ic'[t], x \cup ic'[u].data, k)
  <2>1. x \cup ic'[u].data \in SUBSET Op /\ ic[u].data \subseteq ic'[u].data
    BY <1>1
  <2>2. Covered(ic[t], x \cup ic'[u].data, k)
    BY <1>2, <2>1 DEF Covered
  <2>3. Evolves(ic[t], ic'[t])
    BY <1>1
  <2> QED
    BY <2>1, <2>2, <2>3 DEF Evolves
<1>3. ASSUME NEW m \in net
      PROVE  m \in Message /\ Brought(m) \in SUBSET Op /\ MessageOK(m)
  BY <1>3, MessageFields DEF Typed, Types, Sound, Brought
\* Messages in flight before.
<1>4. ASSUME NEW m \in net
      PROVE  MessageOK(m)'
  <2> SUFFICES ASSUME Source(m) \in Alive'
               PROVE  /\ m.clock \in 1 .. ic'[Source(m)].clock
                      /\ Holder(m) \in Alive' =>
                           Covered(ic'[Source(m)], Brought(m) \cup ic'[Holder(m)].data, m.clock)
    BY DEF MessageOK, Source, Holder, Brought
  <2>1. /\ Source(m) \in Alive /\ ic[Source(m)].clock \in Nat /\ ic'[Source(m)].clock \in Nat
        /\ ic[Source(m)].clock <= ic'[Source(m)].clock
    BY <1>1
  <2>2. /\ m.clock \in 1 .. ic[Source(m)].clock
        /\ Holder(m) \in Alive =>
             Covered(ic[Source(m)], Brought(m) \cup ic[Holder(m)].data, m.clock)
    BY <1>3, <2>1 DEF MessageOK
  <2>3. m.clock \in 1 .. ic'[Source(m)].clock /\ m.clock \in 0 .. ic[Source(m)].clock
    BY <2>1, <2>2
  <2>4. ASSUME Holder(m) \in Alive'
        PROVE  Covered(ic'[Source(m)], Brought(m) \cup ic'[Holder(m)].data, m.clock)
    BY <1>1, <1>2, <1>3, <2>2, <2>3, <2>4
  <2> QED
    BY <2>3, <2>4
\* What s acknowledges.
<1>5. ASSUME NEW m \in net', AnswersDelta(s, m, s \in Alive', ic'[s].data)
      PROVE  MessageOK(m)'
  <2>1. PICK d \in net : /\ d.kind = "Delta" /\ d.to = s
                         /\ m.kind = "Ack" /\ m.to = d.from.socket /\ m.from.socket = s
                         /\ m.clock = d.clock
                         /\ s \in Alive' => d.data \subseteq ic'[s].data
    BY <1>5 DEF AnswersDelta
  <2> DEFINE t == m.to
  <2>2. /\ Source(m) = t /\ Holder(m) = s /\ Brought(m) = {}
        /\ Source(d) = t /\ Holder(d) = s /\ Brought(d) = d.data
    BY <2>1 DEF Source, Holder, Brought
  <2>3. MessageOK(d)'
    BY <1>4
  <2>4. t \in Alive' =>
          /\ d.clock \in 1 .. ic'[t].clock
          /\ s \in Alive' => Covered(ic'[t], d.data \cup ic'[s].data, d.clock)
    BY <2>2, <2>3 DEF MessageOK, Source, Holder, Brought
  <2>5. s \in Alive' => d.data \cup ic'[s].data = {} \cup ic'[s].data
    BY <2>1
  <2>6. t \in Alive' =>
          /\ m.clock \in 1 .. ic'[t].clock
          /\ s \in Alive' => Covered(ic'[t], {} \cup ic'[s].data, m.clock)
    BY <2>1, <2>4, <2>5
  <2> QED
    BY <2>2, <2>6 DEF MessageOK, Source, Holder, Brought
<1>6. ASSUME NEW t \in Alive', NEW p \in Peers(ic'[t])
      PROVE  EntryOK(t, p)'
  <2> DEFINE c == ic'[t]
             u == p.socket
  <2> SUFFICES ASSUME u \in Alive' PROVE Covered(c, ic'[u].data, c.acks[p])
    BY DEF EntryOK
  <2>1. /\ t \in Alive /\ u \in Alive /\ ic[t] \in ICType /\ c \in ICType
        /\ BufferOK(ic[t]) /\ BufferOK(c)
    BY <1>1
  <2>2. ASSUME p \in Peers(ic[t]), c.acks[p] = ic[t].acks[p]
        PROVE  Covered(c, ic'[u].data, c.acks[p])
    <3>1. ic[t].acks[p] \in 0 .. ic[t].clock
      <4>1. ic[t].acks[p] \in Nat /\ ic[t].acks[p] <= ic[t].clock /\ ic[t].clock \in Nat
        BY <1>1, <2>1, <2>2, AcksAre DEF BufferOK
      <4> QED
        BY <4>1
    <3>2. Covered(ic[t], {} \cup ic[u].data, ic[t].acks[p])
      BY <2>1, <2>2 DEF Sound, EntryOK
    <3>3. Covered(c, {} \cup ic'[u].data, ic[t].acks[p])
      BY <1>2, <3>1, <3>2
    <3> QED
      BY <2>2, <3>3
  <2>3. ASSUME c.acks[p] = 0
        PROVE  Covered(c, ic'[u].data, c.acks[p])
    <3>1. c.minDelta \in Nat
      BY <2>1 DEF ICType
    <3> SUFFICES ASSUME c.minDelta = 0 PROVE c.data \subseteq ic'[u].data \cup Since(c, 0)
      BY <2>3, <3>1 DEF Covered
    <3> QED
      BY <2>1 DEF BufferOK, Since
  <2>4. ASSUME NEW m \in net, m.kind = "Ack", m.to = t, m.from = p, m.clock = c.acks[p]
        PROVE  Covered(c, ic'[u].data, c.acks[p])
    <3>1. MessageOK(m)'
      BY <1>4
    <3>2. Source(m) = t /\ Holder(m) = u /\ Brought(m) = {}
      BY <2>4 DEF Source, Holder, Brought
    <3>3. Covered(c, {} \cup ic'[u].data, m.clock)
      BY <3>1, <3>2 DEF MessageOK, Source, Holder, Brought
    <3> QED
      BY <2>4, <3>3
  <2>5. CASE t # s
    <3>1. c = ic[t]
      BY <1>1, <2>5 DEF Others
    <3> QED
      BY <2>2, <3>1
  <2>6. CASE t = s
    <3>1. EntriesFrom(t, c)
      BY <2>6 DEF SoundStep
    <3> QED
      BY <2>2, <2>3, <2>4, <3>1 DEF EntriesFrom
  <2> QED
    BY <2>5, <2>6
\* What s disperses.
<1>7. ASSUME s \in Alive', NEW m \in net', NEW p \in Peers(ic'[s]), IsDeltaFor(m, ic'[s], p)
      PROVE  MessageOK(m)'
  <2> DEFINE c == ic'[s]
             u == p.socket
  <2>1. /\ c \in ICType /\ c.me \in Member /\ c.me.socket = s
    <3>1. phase'[s] = "in_cluster"
      BY NotInClusterIs DEF Typed, Identities
    <3> QED
      BY <1>1, <1>7, <3>1 DEF Typed, Identities, Started
  <2>2. /\ Source(m) = s /\ Holder(m) = u /\ Brought(m) = Payload(c, p) /\ m.clock = c.clock
    BY <1>7, <2>1, DeltaIsMessage DEF Source, Holder, Brought
  <2>3. /\ c.acks[p] \in Nat /\ c.clock \in Nat /\ c.acks[p] < c.clock /\ c.minDelta \in Nat
        /\ BufferOK(c) /\ c.deltas \in Seq(SUBSET Op)
    BY <1>1, <1>7, <2>1, AcksAre DEF IsDeltaFor, ICType
  <2>4. ASSUME u \in Alive'
        PROVE  Covered(c, Payload(c, p) \cup ic'[u].data, c.clock)
    <3> SUFFICES c.data \subseteq Payload(c, p) \cup ic'[u].data
      BY DEF Covered
    <3>1. CASE c.acks[p] < c.minDelta
      BY <3>1 DEF Payload
    <3>2. CASE c.acks[p] >= c.minDelta
      <4>1. Payload(c, p) = JoinFrom(c.deltas, 1)
        BY <2>3, <3>2 DEF Payload
      <4>2. c.data \subseteq ic'[u].data \cup Since(c, c.acks[p])
        BY <1>6, <1>7, <2>4, <3>2 DEF EntryOK, Covered
      <4>3. Since(c, c.acks[p]) \subseteq JoinFrom(c.deltas, 1)
        <5>1. c.acks[p] - c.minDelta + 1 \in Nat /\ c.acks[p] - c.minDelta + 1 >= 1
          BY <2>3, <3>2
        <5>2. c.acks[p] - c.minDelta + 1 .. Len(c.deltas) \subseteq 1 .. Len(c.deltas)
          BY <5>1
        <5> QED
          BY <5>2 DEF Since, JoinFrom
      <4> QED
        BY <4>1, <4>2, <4>3
    <3> QED
      BY <2>3, <3>1, <3>2
  <2>5. m.clock \in 1 .. c.clock
    BY <2>2, <2>3
  <2> QED
    BY <2>2, <2>4, <2>5 DEF MessageOK, Source, Holder, Brought
<1>8. ASSUME NEW m \in net'
      PROVE  MessageOK(m)'
  <2>1. CASE ~(Source(m) \in Alive')
    BY <2>1 DEF MessageOK, Source, Holder, Brought
  <2>2. CASE Source(m) \in Alive'
    BY <1>4, <1>5, <1>7, <1>8, <2>2 DEF SoundStep
  <2> QED
    BY <2>1, <2>2
<1> QED
  BY <1>1, <1>6, <1>8 DEF Sound

LEMMA QuietSound ==
  ASSUME Sound, Quiet
  PROVE  Sound'
BY DEF Sound, Quiet, Alive, EntryOK, MessageOK, Source, Holder, Brought

\* A dispersal of c, which s has come to in step with its buffer.
LEMMA DisperseSound ==
  ASSUME Typed, Typed', Sound, NEW s \in Socket, Others(s), phase[s] = "in_cluster",
         NEW c, Evolves(ic[s], c), BufferOK(c), EntriesFrom(s, c),
         c.me = ic[s].me, NEW rest \in SUBSET net, NEW acked,
         \A m \in acked : AnswersDelta(s, m, TRUE, c.data),
         Disperse(s, c, rest, acked)
  PROVE  Sound'
<1>1. /\ ic \in [Socket -> ICType] /\ s \in Alive
      /\ phase \in [Socket -> {"stopped", "waiting", "in_cluster", "panicked"}]
  BY DEF Typed, Types, Alive
<1>2. CASE /\ phase' = phase /\ ic' = [ic EXCEPT ![s] = c]
           /\ \A m \in net' : m \in rest \cup acked \/ \E p \in Peers(c) : IsDeltaFor(m, c, p)
  <2>1. ic'[s] = c /\ s \in Alive'
    BY <1>1, <1>2 DEF Alive
  <2>2. \A m \in acked : AnswersDelta(s, m, s \in Alive', ic'[s].data)
    BY <2>1 DEF AnswersDelta
  <2>3. SoundStep(s)
    BY <1>1, <1>2, <2>1, <2>2 DEF SoundStep
  <2> QED
    BY <2>3, SoundLocal
<1>3. CASE /\ phase' = [phase EXCEPT ![s] = "panicked"]
           /\ \A m \in net' : m \in rest \cup acked \/ \E p \in Peers(c) : IsDeltaFor(m, c, p)
  <2>1. ~(s \in Alive')
    BY <1>1, <1>3 DEF Alive
  <2>2. \A m \in acked : AnswersDelta(s, m, s \in Alive', ic'[s].data)
    BY <2>1 DEF AnswersDelta
  <2>3. c.me.socket = s
    BY DEF Typed, Identities
  <2>4. ASSUME NEW m, NEW p \in Peers(c), IsDeltaFor(m, c, p)
        PROVE  ~(Source(m) \in Alive')
    BY <2>1, <2>3, <2>4 DEF IsDeltaFor, Source
  <2>5. SoundStep(s)
    BY <1>3, <2>1, <2>2, <2>4 DEF SoundStep
  <2> QED
    BY <2>5, SoundLocal
<1> QED
  BY <1>2, <1>3, DisperseEffect

LEMMA TellSound ==
  ASSUME Typed, Typed', Sound, NEW s \in Socket, Others(s), phase[s] = "in_cluster",
         NEW c, c.me = ic[s].me, Evolves(ic[s], c), BufferOK(c), EntriesFrom(s, c),
         Disperse(s, c, net, {})
  PROVE  Sound'
<1> DEFINE acked == {}
<1>1. \A m \in acked : AnswersDelta(s, m, TRUE, c.data)
  OBVIOUS
<1>2. Disperse(s, c, net, acked) /\ net \in SUBSET net
  OBVIOUS
<1> HIDE DEF acked
<1> QED
  BY <1>1, <1>2, DisperseSound

LEMMA StopSound ==
  ASSUME Typed, Sound, NEW s \in Socket, Stop(s)
  PROVE  Sound'
<1>1. phase' = [phase EXCEPT ![s] = "stopped"] /\ net' = net
  BY DEF Stop
<1>2. ~(s \in Alive')
  BY <1>1 DEF Alive, Typed, Types
<1>3. SoundStep(s)
  BY <1>1, <1>2 DEF SoundStep
<1> QED
  BY <1>3, StopTyped, SoundLocal

LEMMA EmptyIsSound == BufferOK(NotInCluster)
<1>1. Len(<<>>) = 0
  OBVIOUS
<1> QED
  BY <1>1, NotInClusterIs DEF BufferOK

\* A node starts for the first time: nobody has heard of it.
LEMMA StartSound ==
  ASSUME NoRestarts, Typed, Sound, NEW s \in Socket, Start(s)
  PROVE  Sound'
<1>1. /\ phase[s] = "stopped" /\ lastId[s] \in Nat /\ lastId[s] < MaxId[s] /\ MaxId[s] \in Nat
      /\ ic' = ic /\ net' = net /\ phase' = [phase EXCEPT ![s] = "waiting"]
      /\ phase \in [Socket -> {"stopped", "waiting", "in_cluster", "panicked"}]
  BY CausalAssumption DEF Start, Typed, Types
<1>2. lastId[s] = 0
  <2>1. s \in MayStop \/ lastId[s] = 0
    BY <1>1 DEF Typed, Identities
  <2> QED
    BY <1>1, <2>1 DEF NoRestarts
<1>3. ASSUME NEW p \in Started
      PROVE  p.socket # s
  <2>1. p.id \in 1 .. MaxId[p.socket] /\ p.id <= lastId[p.socket]
    BY <1>3, MemberFields DEF Started
  <2> QED
    BY <1>2, <2>1
<1>4. ASSUME NEW m \in net
      PROVE  Source(m) # s /\ Holder(m) # s
  <2>1. m.from.socket # s /\ m.to # s
    BY <1>2, <1>3 DEF Typed, Senders
  <2> QED
    BY <2>1 DEF Source, Holder
<1>5. ASSUME NEW t \in Socket, t # s
      PROVE  t \in Alive' <=> t \in Alive
  BY <1>1, <1>5 DEF Alive
<1>6. \A t \in Socket : \A p \in Peers(ic[t]) : p.socket \in Socket /\ p.socket # s
  BY <1>3, MemberFields DEF Typed, Identities, Started
<1>7. ic[s] = NotInCluster
  BY <1>1 DEF Typed, Identities
<1>8. ASSUME NEW t \in Alive'
      PROVE  BufferOK(ic'[t]) /\ \A p \in Peers(ic'[t]) : EntryOK(t, p)'
  <2>1. CASE t = s
    BY <1>1, <1>7, <2>1, EmptyIsSound, NotInClusterIs
  <2>2. CASE t # s
    <3>1. t \in Socket /\ t \in Alive /\ BufferOK(ic[t]) /\ \A p \in Peers(ic[t]) : EntryOK(t, p)
      BY <1>5, <2>2 DEF Sound, Alive
    <3>2. \A p \in Peers(ic[t]) : p.socket \in Alive' <=> p.socket \in Alive
      BY <1>5, <1>6, <3>1
    <3> QED
      BY <1>1, <3>1, <3>2 DEF EntryOK
  <2> QED
    BY <2>1, <2>2
<1>9. ASSUME NEW m \in net'
      PROVE  MessageOK(m)'
  <2>1. m \in net /\ m \in Message /\ MessageOK(m) /\ Source(m) # s /\ Holder(m) # s
    BY <1>1, <1>4 DEF Sound, Typed, Types
  <2>2. Source(m) \in Socket /\ Holder(m) \in Socket
    BY <2>1, MessageFields, MemberFields DEF Source, Holder
  <2>3. (Source(m) \in Alive' <=> Source(m) \in Alive) /\ (Holder(m) \in Alive' <=> Holder(m) \in Alive)
    BY <1>5, <2>1, <2>2
  <2> QED
    BY <1>1, <2>1, <2>3 DEF MessageOK, Source, Holder, Brought
<1> QED
  BY <1>8, <1>9 DEF Sound

LEMMA JoinSound ==
  ASSUME Typed, Sound, NEW s \in Socket, Join(s)
  PROVE  Sound'
<1>1. PICK nodes \in SUBSET (Started \ {Incarnation(s, lastId[s])}) :
        ic' = [ic EXCEPT ![s] = Joined(s, nodes)]
  BY DEF Join, Joined
<1>2. /\ nodes \in SUBSET Member /\ phase[s] = "waiting" /\ net' = net
      /\ phase' = [phase EXCEPT ![s] = "in_cluster"] /\ ic[s] = NotInCluster
      /\ phase \in [Socket -> {"stopped", "waiting", "in_cluster", "panicked"}]
      /\ ic \in [Socket -> ICType]
  BY DEF Started, Join, Typed, Types, Identities
<1> DEFINE c == Joined(s, nodes)
<1>3. /\ Peers(c) = nodes /\ BufferOK(c) /\ Evolves(NotInCluster, c)
      /\ \A p \in nodes : c.acks[p] = 0
  BY <1>2, JoinedIs
<1> HIDE DEF c
<1>4. ic'[s] = c /\ s \in Alive
  BY <1>1, <1>2 DEF c, Alive
<1>5. SoundStep(s)
  BY <1>2, <1>3, <1>4 DEF SoundStep, EntriesFrom
<1> QED
  BY <1>5, JoinTyped, SoundLocal

LEMMA MutateSound ==
  ASSUME Typed, Sound, NEW s \in Socket, NEW op \in Op, Mutate(s, op)
  PROVE  Sound'
<1> DEFINE d == DeltaOf(op, ic[s].data)
           c == Grown(ic[s], d)
<1>1. ic[s] \in ICType /\ d \in SUBSET Op /\ phase[s] = "in_cluster" /\ Disperse(s, c, net, {})
  BY DEF Typed, Types, DeltaOf, Mutate
<1>2. BufferOK(ic[s])
  BY <1>1 DEF Sound, Alive
<1> HIDE DEF d
<1>3. Evolves(ic[s], c) /\ BufferOK(c) /\ GrownFields(ic[s], d, c)
  BY <1>1, <1>2, GrownEvolves, GrownIs
<1> HIDE DEF c
<1>4. EntriesFrom(s, c) /\ c.me = ic[s].me
  BY <1>3 DEF EntriesFrom, GrownFields, Peers
<1>5. Typed' /\ Others(s)
  BY MutateTyped
<1>6. Disperse(s, c, net, {})
  BY <1>1 DEF c
<1> QED
  BY <1>1, <1>3, <1>4, <1>5, <1>6, TellSound

LEMMA RegroupSound ==
  ASSUME Typed, Sound, NEW s \in Socket, Regroup(s)
  PROVE  Sound'
<1>1. PICK added \in SUBSET (Started \ (Peers(ic[s]) \cup gone[s] \cup {ic[s].me})),
           removed \in SUBSET (Peers(ic[s]) \cap MayLeave) :
        Disperse(s, Regrouped(ic[s], added, removed), net, {})
  BY DEF Regroup
<1> DEFINE old == ic[s]
           c   == Regrouped(old, added, removed)
<1>2. old \in ICType /\ added \in SUBSET Member /\ phase[s] = "in_cluster" /\ BufferOK(old)
  BY DEF Typed, Types, Started, Sound, Alive, Regroup
<1>3. /\ Evolves(old, c) /\ BufferOK(c)
      /\ \A p \in Peers(c) : c.acks[p] = 0 \/ (p \in Peers(old) /\ c.acks[p] = old.acks[p])
  <2>1. \A x \in ICType : \A a \in SUBSET Member : \A r :
          BufferOK(x) =>
          LET g == Regrouped(x, a, r) IN
          /\ Evolves(x, g) /\ BufferOK(g)
          /\ \A p \in Peers(g) : g.acks[p] = 0 \/ (p \in Peers(x) /\ g.acks[p] = x.acks[p])
    BY RegroupedEvolves
  <2> HIDE DEF old
  <2> QED
    BY <1>2, <2>1
<1>4. Disperse(s, c, net, {})
  BY <1>1
<1>5. c.me = ic[s].me
  BY <1>2 DEF Regrouped, ICType
<1> HIDE DEF c
<1>6. EntriesFrom(s, c)
  BY <1>3 DEF EntriesFrom
<1>7. Typed' /\ Others(s)
  BY RegroupTyped
<1> QED
  BY <1>2, <1>3, <1>4, <1>5, <1>6, <1>7, TellSound

LEMMA RenameSound ==
  ASSUME Typed, Sound, NEW s \in Socket, Rename(s)
  PROVE  Sound'
<1>1. /\ Typed' /\ Others(s) /\ ic'[s].data = ic[s].data /\ ic'[s].clock = ic[s].clock
      /\ ic'[s].deltas = ic[s].deltas /\ ic'[s].minDelta = ic[s].minDelta
      /\ ic'[s].acks = ic[s].acks /\ ic'[s].minOrd = ic[s].minOrd
  BY RenameTyped
<1>2. ic[s] \in ICType /\ s \in Alive /\ BufferOK(ic[s]) /\ net' = net
  BY DEF Rename, Typed, Types, Alive, Sound
<1>3. Evolves(ic[s], ic'[s])
  BY <1>1, <1>2, SameEvolves
<1>4. BufferOK(ic'[s]) /\ EntriesFrom(s, ic'[s])
  BY <1>1, <1>2 DEF BufferOK, EntriesFrom, Peers
<1>5. SoundStep(s)
  BY <1>2, <1>3, <1>4 DEF SoundStep
<1> QED
  BY <1>1, <1>5, SoundLocal

LEMMA TimeoutSound ==
  ASSUME Typed, Sound, NEW s \in Socket, DisperseTimeout(s)
  PROVE  Sound'
<1>1. CASE Behind(ic[s])
  <2>1. phase[s] = "in_cluster" /\ Disperse(s, ic[s], net, {})
    BY <1>1 DEF DisperseTimeout
  <2>2. ic[s] \in ICType /\ BufferOK(ic[s])
    BY <2>1 DEF Typed, Types, Sound, Alive
  <2>3. Evolves(ic[s], ic[s]) /\ EntriesFrom(s, ic[s])
    BY <2>2, SameEvolves DEF EntriesFrom
  <2>4. Typed' /\ Others(s)
    BY TimeoutTyped
  <2> QED
    BY <2>1, <2>2, <2>3, <2>4, TellSound
<1>2. CASE ~Behind(ic[s])
  <2>1. Quiet
    BY <1>2 DEF DisperseTimeout, Quiet
  <2> QED
    BY <2>1, QuietSound
<1> QED
  BY <1>1, <1>2

LEMMA ReceiveDeltaSound ==
  ASSUME Typed, Sound, NEW s \in Socket, NEW msg \in net, ReceiveDelta(s, msg)
  PROVE  Sound'
<1> DEFINE m == AckOf(ic[s], msg)
           c == Grown(ic[s], msg.data)
<1>1. /\ msg.kind = "Delta" /\ phase[s] = "in_cluster" /\ msg.from \in Peers(ic[s]) /\ msg.to = s
      /\ msg \in Message /\ ic[s] \in ICType /\ s \in Alive /\ BufferOK(ic[s])
  BY DEF ReceiveDelta, Typed, Types, Sound, Alive
<1>2. /\ m.kind = "Ack" /\ m.to = msg.from.socket /\ m.clock = msg.clock /\ m.from.socket = s
  BY <1>1, AckIsMessage
<1>3. Typed' /\ Others(s)
  BY ReceiveDeltaTyped
<1> HIDE DEF m
<1>4. PICK rest \in AfterReceipt(msg) :
       IF msg.data \subseteq ic[s].data
       THEN Post(rest, {m}) /\ UNCHANGED <<phase, ic, due>>
       ELSE Disperse(s, c, rest, {m})
  BY DEF ReceiveDelta, m
<1>5. rest \in SUBSET net
  BY DEF AfterReceipt
<1>6. CASE msg.data \subseteq ic[s].data
  <2>1. net' \subseteq net \cup {m} /\ ic' = ic /\ phase' = phase
    BY <1>4, <1>5, <1>6 DEF Post
  <2>2. Evolves(ic[s], ic'[s]) /\ EntriesFrom(s, ic'[s])
    BY <1>1, <2>1, SameEvolves DEF EntriesFrom
  <2>3. AnswersDelta(s, m, s \in Alive', ic'[s].data)
    BY <1>1, <1>2, <1>6, <2>1 DEF AnswersDelta
  <2>4. SoundStep(s)
    BY <1>1, <2>1, <2>2, <2>3 DEF SoundStep
  <2> QED
    BY <1>3, <2>4, SoundLocal
<1>7. CASE ~(msg.data \subseteq ic[s].data)
  <2>1. msg.data \in SUBSET Op
    BY <1>1, MessageFields
  <2>2. Evolves(ic[s], c) /\ BufferOK(c) /\ GrownFields(ic[s], msg.data, c)
    BY <1>1, <2>1, GrownEvolves, GrownIs
  <2>3. Disperse(s, c, rest, {m})
    BY <1>4, <1>7
  <2> HIDE DEF c
  <2>4. EntriesFrom(s, c) /\ c.me = ic[s].me /\ msg.data \subseteq c.data
    BY <2>2 DEF EntriesFrom, GrownFields, Peers
  <2>5. \A x \in {m} : AnswersDelta(s, x, TRUE, c.data)
    BY <1>1, <1>2, <2>4 DEF AnswersDelta
  <2> QED
    BY <1>1, <1>3, <1>5, <2>2, <2>3, <2>4, <2>5, DisperseSound
<1> QED
  BY <1>6, <1>7

LEMMA ReceiveAckSound ==
  ASSUME Typed, Sound, NEW s \in Socket, NEW msg \in net, ReceiveAck(s, msg)
  PROVE  Sound' /\ ~BufferRunsOut(ic[s], msg.from, msg.clock)
<1> DEFINE old == ic[s]
           c   == Acknowledged(old, msg.from, msg.clock)
<1>1. /\ msg.kind = "Ack" /\ phase[s] = "in_cluster" /\ msg.from \in Peers(old) /\ msg.to = s
      /\ ic \in [Socket -> ICType] /\ old \in ICType /\ s \in Alive /\ BufferOK(old)
      /\ net' \subseteq net
  BY DEF ReceiveAck, Typed, Types, Sound, Alive, AfterReceipt
<1>2. msg.clock \in 1 .. old.clock
  <2>1. Source(msg) = s /\ MessageOK(msg)
    BY <1>1 DEF Source, Sound
  <2> QED
    BY <1>1, <2>1 DEF MessageOK
<1>3. /\ Evolves(old, c) /\ BufferOK(c) /\ ~BufferRunsOut(old, msg.from, msg.clock)
      /\ Peers(c) = Peers(old) /\ c.acks = [old.acks EXCEPT ![msg.from] = msg.clock]
  <2>1. \A x \in ICType : \A p \in Peers(x) : \A k \in 1 .. x.clock :
          BufferOK(x) =>
          LET g == Acknowledged(x, p, k) IN
          /\ Evolves(x, g) /\ BufferOK(g) /\ ~BufferRunsOut(x, p, k)
          /\ Peers(g) = Peers(x) /\ g.acks = [x.acks EXCEPT ![p] = k]
    BY AcknowledgedEvolves
  <2> HIDE DEF old
  <2> QED
    BY <1>1, <1>2, <2>1
<1>4. ic' = [ic EXCEPT ![s] = c] /\ phase' = phase
  BY <1>3 DEF ReceiveAck
<1> HIDE DEF c
<1>5. EntriesFrom(s, c)
  <2> SUFFICES ASSUME NEW p \in Peers(c)
               PROVE  \/ p \in Peers(old) /\ c.acks[p] = old.acks[p]
                      \/ p = msg.from /\ c.acks[p] = msg.clock
    BY <1>1 DEF EntriesFrom
  <2>1. old.acks \in [Peers(old) -> Nat]
    BY <1>1, AcksAre
  <2> QED
    BY <1>1, <1>3, <2>1
<1>6. ic'[s] = c
  BY <1>1, <1>4
<1>7. SoundStep(s)
  BY <1>1, <1>3, <1>5, <1>6 DEF SoundStep
<1> QED
  BY <1>3, <1>7, ReceiveAckTyped, SoundLocal

LEMMA InitSound == Init => Sound
BY DEF Init, Sound, Alive

LEMMA NextSound ==
  ASSUME NoRestarts, Typed, Sound, [Next]_vars
  PROVE  Sound'
<1>1. CASE UNCHANGED vars
  BY <1>1, QuietSound DEF vars, Quiet
<1>2. ASSUME NEW s \in Socket,
             \/ Start(s) \/ Stop(s) \/ Join(s) \/ Regroup(s) \/ Rename(s) \/ DisperseTimeout(s)
      PROVE  Sound'
  BY <1>2, StartSound, StopSound, JoinSound, RegroupSound, RenameSound, TimeoutSound
<1>3. ASSUME NEW s \in Socket, NEW op \in Op, Enqueue(s, op) \/ Mutate(s, op)
      PROVE  Sound'
  BY <1>3, EnqueueTyped, QuietSound, MutateSound
<1>4. ASSUME NEW s \in Socket, NEW first \in Preferences, SetPreference(s, first)
      PROVE  Sound'
  BY <1>4, SetPreferenceTyped, QuietSound
<1>5. ASSUME NEW s \in Socket, NEW msg \in net, Receive(s, msg)
      PROVE  Sound'
  BY <1>5, ReceiveDeltaSound, ReceiveAckSound, UnheededTyped, QuietSound DEF Receive
<1> QED
  BY <1>1, <1>2, <1>3, <1>4, <1>5 DEF Next

LEMMA SoundAlways == NoRestarts /\ Spec => [](Typed /\ Sound)
<1> SUFFICES ASSUME NoRestarts PROVE Spec => [](Typed /\ Sound)
  OBVIOUS
<1>1. Typed /\ Sound /\ [Next]_vars => (Typed /\ Sound)'
  BY NextTyped, NextSound
<1>2. Init => Typed /\ Sound
  BY InitTyped, InitSound
<1> QED
  BY <1>1, <1>2, PTL DEF Spec

\* A node that takes part is alive.
LEMMA BufferNow ==
  ASSUME Typed, Sound, NEW s \in InClusterNow
  PROVE  s \in Alive /\ s \in Socket /\ ic[s] \in ICType /\ BufferOK(ic[s]) /\ ic[s].me.socket = s
BY DEF InClusterNow, Alive, Sound, Typed, Types, Identities

(* The buffer of a replica that no node comes back to holds exactly one     *)
(* delta for each clock it still needs, and min_ord is the least clock      *)
(* acknowledged: pop_front().unwrap() in InCluster::ack always finds one.   *)
THEOREM BufferAlwaysMatches == NoRestarts /\ Spec => []BufferMatchesClock
<1>1. Typed /\ Sound => BufferMatchesClock
  BY BufferNow DEF BufferMatchesClock, BufferOK
<1> QED
  BY <1>1, SoundAlways, PTL

(* ack never drops from the buffer what some peer may lack, whatever is      *)
(* lost, repeated or reordered and whoever joins and leaves: a peer whose    *)
(* entry the buffer reaches back to has everything that is not in it.        *)
THEOREM AckedWasReceived == NoRestarts /\ Spec => []AckedIsReceived
<1>1. ASSUME Typed, Sound PROVE AckedIsReceived
  <2> SUFFICES ASSUME NEW s \in InClusterNow, NEW t \in InClusterNow, ic[t].me \in Peers(ic[s]),
                      ic[s].acks[ic[t].me] >= ic[s].minDelta
               PROVE  ic[s].data \subseteq
                        ic[t].data \cup JoinFrom(ic[s].deltas, ic[s].acks[ic[t].me] - ic[s].minDelta + 1)
    BY DEF AckedIsReceived
  <2>1. s \in Alive /\ t \in Alive /\ ic[t].me.socket = t
    BY <1>1, BufferNow
  <2>2. EntryOK(s, ic[t].me)
    BY <1>1, <2>1 DEF Sound
  <2> QED
    BY <2>1, <2>2 DEF EntryOK, Covered, Since
<1> QED
  BY <1>1, SoundAlways, PTL

(* The types, and that nobody acknowledged more than there is: minOrd and    *)
(* minDelta stay within the clock.                                           *)
THEOREM TypesAlways == NoRestarts /\ Spec => []TypeOK
<1>1. ASSUME Typed, Sound PROVE TypeOK
  <2> SUFFICES ASSUME NEW s \in Socket
               PROVE  LET c == ic[s] IN
                      /\ c.me \in Member \cup {NoMember} /\ c.data \subseteq Op /\ c.clock \in Nat
                      /\ c.deltas \in Seq(SUBSET Op)
                      /\ Peers(c) \subseteq Member /\ c.acks \in [Peers(c) -> 0..c.clock]
                      /\ c.minOrd \in 0..c.clock /\ c.minDelta \in 0..c.clock
    BY <1>1 DEF Typed, Types, TypeOK
  <2> DEFINE c == ic[s]
  <2>1. /\ c \in ICType /\ Peers(c) \in SUBSET Member /\ c.acks \in [Peers(c) -> Nat]
        /\ c.clock \in Nat /\ c.minDelta \in Nat
    BY <1>1, AcksAre DEF Typed, Types, ICType
  <2>2. BufferOK(c)
    <3>1. CASE s \in Alive
      BY <1>1, <3>1 DEF Sound
    <3>2. CASE s \notin Alive
      BY <1>1, <3>2, EmptyIsSound DEF Alive, Typed, Identities
    <3> QED
      BY <3>1, <3>2
  <2>3. c.acks \in [Peers(c) -> 0 .. c.clock]
    BY <2>1, <2>2 DEF BufferOK
  <2>4. c.minOrd \in 0 .. c.clock
    BY <2>1, <2>2, LeastAckIs DEF BufferOK
  <2>5. c.minDelta \in 0 .. c.clock
    BY <2>1, <2>2 DEF BufferOK
  <2> QED
    BY <2>1, <2>3, <2>4, <2>5 DEF ICType
<1> QED
  BY <1>1, SoundAlways, PTL
-----------------------------------------------------------------------------
(* Whoever lacks something is remembered.                                    *)

\* Only impatient nodes have anything to join with; no founder has peers yet.
Reminded ==
  /\ \A s \in Socket : queue[s] # {} => s \in Impatient
  /\ RetryIsDue

LEMMA InitReminded == Init => Reminded
BY DEF Init, Reminded, RetryIsDue, InClusterNow

\* The conjuncts about the nodes that a step is not of.
LEMMA RemindedLocal ==
  ASSUME Reminded, NEW s \in Socket, Others(s),
         \A t \in Socket : queue'[t] # {} => t \in Impatient,
         phase'[s] = "in_cluster" => (Behind(ic'[s]) => due'[s])
  PROVE  Reminded'
<1> SUFFICES ASSUME NEW t \in Socket, phase'[t] = "in_cluster", Behind(ic'[t]) PROVE due'[t]
  BY DEF Reminded, RetryIsDue, InClusterNow
<1>1. CASE t = s
  BY <1>1
<1>2. CASE t # s
  BY <1>2 DEF Others, Reminded, RetryIsDue, InClusterNow
<1> QED
  BY <1>1, <1>2

LEMMA DisperseReminds ==
  ASSUME Typed, Reminded, NEW s \in Socket, Others(s), NEW c, NEW rest, NEW acked,
         Disperse(s, c, rest, acked), queue' = queue
  PROVE  Reminded'
<1>1. due \in [Socket -> BOOLEAN] /\ phase \in [Socket -> {"stopped", "waiting", "in_cluster", "panicked"}]
  BY DEF Typed, Types
<1>2. phase'[s] = "in_cluster" => due'[s]
  <2>1. CASE phase' = [phase EXCEPT ![s] = "panicked"]
    BY <1>1, <2>1
  <2>2. CASE due' = [due EXCEPT ![s] = TRUE]
    BY <1>1, <2>2
  <2> QED
    BY <2>1, <2>2, DisperseEffect
<1>3. \A t \in Socket : queue'[t] # {} => t \in Impatient
  BY DEF Reminded
<1> QED
  BY <1>2, <1>3, RemindedLocal

LEMMA NextReminded ==
  ASSUME Impatient \subseteq Founders, Typed, Typed', Sound, Reminded, [Next]_vars
  PROVE  Reminded'
<1>1. CASE UNCHANGED vars
  BY <1>1 DEF vars, Reminded, RetryIsDue, InClusterNow
<1>2. ASSUME NEW s \in Socket, Start(s) \/ Stop(s)
      PROVE  Reminded'
  <2>1. Others(s)
    BY <1>2, StartTyped, StopTyped
  <2>2. /\ phase \in [Socket -> {"stopped", "waiting", "in_cluster", "panicked"}]
        /\ queue \in [Socket -> SUBSET Op]
    BY DEF Typed, Types
  <2>3. phase'[s] # "in_cluster"
    BY <1>2, <2>2 DEF Start, Stop
  <2>4. \A t \in Socket : queue'[t] # {} => t \in Impatient
    BY <1>2, <2>2 DEF Start, Stop, Reminded
  <2> QED
    BY <2>1, <2>3, <2>4, RemindedLocal
<1>3. ASSUME NEW s \in Socket, Join(s)
      PROVE  Reminded'
  <2>1. PICK nodes \in SUBSET (Started \ {Incarnation(s, lastId[s])}) :
          (s \in Founders => nodes = {}) /\ ic' = [ic EXCEPT ![s] = Joined(s, nodes)]
    BY <1>3 DEF Join, Joined
  <2> DEFINE c == Joined(s, nodes)
  <2>2. /\ nodes \in SUBSET Member /\ phase[s] = "waiting" /\ ic'[s] = c
        /\ queue \in [Socket -> SUBSET Op] /\ queue' = [queue EXCEPT ![s] = {}]
    BY <1>3, <2>1 DEF Started, Join, Typed, Types
  <2>3. Peers(c) = nodes
    BY <2>2, JoinedIs
  <2>4. queue[s] = {} => c.clock = 0 /\ c.minOrd = 0
    BY DEF Joined, InCluster
  <2> HIDE DEF c
  <2>5. ~Behind(c)
    <3>1. CASE queue[s] = {}
      BY <2>4, <3>1 DEF Behind
    <3>2. CASE queue[s] # {}
      BY <2>1, <2>3, <3>2 DEF Behind, Reminded
    <3> QED
      BY <3>1, <3>2
  <2>6. \A t \in Socket : queue'[t] # {} => t \in Impatient
    BY <2>2 DEF Reminded
  <2> QED
    BY <1>3, <2>2, <2>5, <2>6, JoinTyped, RemindedLocal
<1>4. ASSUME NEW s \in Socket, Regroup(s)
      PROVE  Reminded'
  BY <1>4, RegroupTyped, DisperseReminds DEF Regroup
<1>5. ASSUME NEW s \in Socket, Rename(s)
      PROVE  Reminded'
  <2>1. /\ Others(s) /\ ic'[s].clock = ic[s].clock /\ ic'[s].acks = ic[s].acks
        /\ ic'[s].minOrd = ic[s].minOrd
    BY <1>5, RenameTyped
  <2>2. Behind(ic'[s]) = Behind(ic[s])
    BY <2>1 DEF Behind, Peers
  <2> QED
    BY <1>5, <2>1, <2>2, RemindedLocal DEF Rename, Reminded, RetryIsDue, InClusterNow
<1>6. ASSUME NEW s \in Socket, DisperseTimeout(s)
      PROVE  Reminded'
  <2>1. Others(s) /\ queue' = queue
    BY <1>6, TimeoutTyped DEF DisperseTimeout
  <2>2. CASE Behind(ic[s])
    BY <1>6, <2>1, <2>2, DisperseReminds DEF DisperseTimeout
  <2>3. CASE ~Behind(ic[s])
    BY <1>6, <2>1, <2>3, RemindedLocal DEF DisperseTimeout, Reminded
  <2> QED
    BY <2>2, <2>3
<1>7. ASSUME NEW s \in Socket, NEW op \in Op, Mutate(s, op)
      PROVE  Reminded'
  BY <1>7, MutateTyped, DisperseReminds DEF Mutate
<1>8. ASSUME NEW s \in Socket, NEW op \in Op, Enqueue(s, op)
      PROVE  Reminded'
  <2>1. queue \in [Socket -> SUBSET Op]
    BY DEF Typed, Types
  <2> QED
    BY <1>8, <2>1 DEF Enqueue, Reminded, RetryIsDue, InClusterNow
<1>9. ASSUME NEW s \in Socket, NEW first, SetPreference(s, first)
      PROVE  Reminded'
  BY <1>9 DEF SetPreference, Reminded, RetryIsDue, InClusterNow
<1>10. ASSUME NEW s \in Socket, NEW msg \in net, ReceiveDelta(s, msg)
       PROVE  Reminded'
  <2>1. Others(s) /\ queue' = queue
    BY <1>10, ReceiveDeltaTyped DEF ReceiveDelta
  <2>2. CASE UNCHANGED <<phase, ic, due>>
    BY <2>1, <2>2 DEF Reminded, RetryIsDue, InClusterNow
  <2>3. ASSUME NEW rest, NEW acked, Disperse(s, Grown(ic[s], msg.data), rest, acked)
        PROVE  Reminded'
    BY <2>1, <2>3, DisperseReminds
  <2> QED
    BY <1>10, <2>2, <2>3 DEF ReceiveDelta
\* An ack that is news comes from a peer that was behind.
<1>11. ASSUME NEW s \in Socket, NEW msg \in net, ReceiveAck(s, msg)
       PROVE  Reminded'
  <2> DEFINE c == ic[s]
  <2>1. /\ Others(s) /\ queue' = queue /\ ~BufferRunsOut(c, msg.from, msg.clock)
        /\ msg.kind = "Ack" /\ msg.to = s /\ phase[s] = "in_cluster" /\ msg.from \in Peers(c)
        /\ c.acks[msg.from] < msg.clock
    BY <1>11, ReceiveAckTyped, ReceiveAckSound DEF ReceiveAck
  <2>2. due' = due
    BY <1>11, <2>1 DEF ReceiveAck
  <2>3. /\ s \in Alive /\ c \in ICType /\ BufferOK(c) /\ MessageOK(msg)
        /\ c.acks \in [Peers(c) -> Nat] /\ c.clock \in Nat
    <3>1. s \in Alive /\ c \in ICType
      BY <2>1 DEF Alive, Typed, Types
    <3>2. c.acks \in [Peers(c) -> Nat] /\ c.clock \in Nat
      BY <3>1, AcksAre DEF ICType
    <3> QED
      BY <3>1, <3>2 DEF Sound
  <2>4. msg.clock \in 1 .. c.clock
    BY <2>1, <2>3 DEF MessageOK, Source
  <2>5. LeastAck(c.acks) <= c.acks[msg.from] /\ LeastAck(c.acks) \in Nat /\ c.acks[msg.from] \in Nat
    BY <2>1, <2>3, LeastAckIs
  <2> HIDE DEF c
  <2>6. c.minOrd # c.clock
    BY <2>1, <2>3, <2>4, <2>5 DEF BufferOK
  <2>7. due[s]
    BY <2>1, <2>6 DEF Behind, c, Reminded, RetryIsDue, InClusterNow
  <2> QED
    BY <2>1, <2>2, <2>7, RemindedLocal DEF Reminded
<1>12. ASSUME NEW s \in Socket, NEW msg, Unheeded(s, msg)
       PROVE  Reminded'
  BY <1>12 DEF Unheeded, Reminded, RetryIsDue, InClusterNow
<1> QED
  BY <1>1, <1>2, <1>3, <1>4, <1>5, <1>6, <1>7, <1>8, <1>9, <1>10, <1>11, <1>12 DEF Next, Receive

(* Whenever some peer is behind, a DisperseTimeout is on its way: the        *)
(* dispersal is taken up again after any loss.  Operations queued by a node  *)
(* that joins others are excepted; Waiting::to_ic schedules nothing.         *)
THEOREM RetryIsAlwaysDue ==
  NoRestarts /\ Impatient \subseteq Founders /\ Spec => []RetryIsDue
<1> SUFFICES ASSUME NoRestarts, Impatient \subseteq Founders PROVE Spec => []RetryIsDue
  OBVIOUS
<1>1. Typed /\ Sound /\ Reminded /\ [Next]_vars => (Typed /\ Sound /\ Reminded)'
  BY NextTyped, NextSound, NextReminded
<1>2. Init => Typed /\ Sound /\ Reminded
  BY InitTyped, InitSound, InitReminded
<1>3. Reminded => RetryIsDue
  BY DEF Reminded
<1> QED
  BY <1>1, <1>2, <1>3, PTL DEF Spec

\* A replica that is not behind has been acknowledged by all its peers, and
\* nothing of its buffer is for any of them.
LEMMA NotBehindIsCovered ==
  ASSUME Typed, Sound, NEW s \in InClusterNow, NEW t \in InClusterNow,
         ic[t].me \in Peers(ic[s]), ~Behind(ic[s])
  PROVE  ic[s].data \subseteq ic[t].data
<1> DEFINE c == ic[s]
           p == ic[t].me
<1>1. /\ s \in Alive /\ t \in Alive /\ p.socket = t
      /\ c \in ICType /\ BufferOK(c)
  BY BufferNow
<1>2. /\ c.clock \in Nat /\ c.minDelta \in Nat /\ c.acks \in [Peers(c) -> Nat]
      /\ c.deltas \in Seq(SUBSET Op)
  BY <1>1, AcksAre DEF ICType
<1>3. LeastAck(c.acks) = c.clock
  BY <1>1 DEF Behind, BufferOK
<1>4. c.acks[p] = c.clock
  BY <1>1, <1>2, <1>3, LeastAckIs DEF BufferOK
<1>5. c.data \subseteq ic[t].data \cup Since(c, c.clock)
  BY <1>1, <1>2, <1>4 DEF Sound, EntryOK, Covered, BufferOK
<1>6. Since(c, c.clock) = {}
  BY <1>1, <1>2 DEF Since, JoinFrom, BufferOK
<1> QED
  BY <1>5, <1>6

(* The safety half of convergence: replicas that count each other as members *)
(* and rest, with no DisperseTimeout under way, have the same data.  It is   *)
(* RetryIsDue, with what is known of entries that have reached the clock.    *)
THEOREM RestingAlwaysAgree ==
  NoRestarts /\ Impatient \subseteq Founders /\ Spec => []RestingAgree
<1>1. Typed /\ Sound /\ RetryIsDue => RestingAgree
  <2> SUFFICES ASSUME Typed, Sound, RetryIsDue,
                      NEW s \in Socket, NEW t \in Socket, Linked(s, t), ~due[s], ~due[t]
               PROVE  ic[s].data = ic[t].data
    BY DEF RestingAgree
  <2>1. /\ s \in InClusterNow /\ t \in InClusterNow
        /\ ic[s].me \in Peers(ic[t]) /\ ic[t].me \in Peers(ic[s])
    BY DEF Linked
  <2>2. ~Behind(ic[s]) /\ ~Behind(ic[t])
    BY <2>1 DEF RetryIsDue
  <2>3. ic[s].data \subseteq ic[t].data
    BY <2>1, <2>2, NotBehindIsCovered
  <2>4. ic[t].data \subseteq ic[s].data
    BY <2>1, <2>2, NotBehindIsCovered
  <2> QED
    BY <2>3, <2>4
<1> QED
  BY <1>1, SoundAlways, RetryIsAlwaysDue, PTL
-----------------------------------------------------------------------------
(* Panics.                                                                   *)

NobodyPanicked == \A s \in Socket : phase[s] # "panicked"

\* Without members given priority a dispersal finds all its entries.
LEMMA DisperseIsSafe ==
  ASSUME NEW s, NEW c, NEW rest, NEW acked, priority[s] = {}, Disperse(s, c, rest, acked)
  PROVE  phase' = phase
BY DEF Disperse

(* Neither unwrap of InCluster ever panics as long as the user gives nobody  *)
(* priority: not on the buffer's front in ack, whatever order acks, updates  *)
(* and renamings come in, nor on the entries in disperse.                    *)
THEOREM PriorityAloneCausesPanic ==
  NoRestarts /\ Preferences = {{}} /\ Spec => []NobodyPanicked
<1> SUFFICES ASSUME NoRestarts, Preferences = {{}} PROVE Spec => []NobodyPanicked
  OBVIOUS
<1>1. ASSUME Typed, Sound, NobodyPanicked, [Next]_vars
      PROVE  NobodyPanicked'
  <2>1. /\ \A s \in Socket : priority[s] = {}
        /\ phase \in [Socket -> {"stopped", "waiting", "in_cluster", "panicked"}]
    BY <1>1 DEF Typed, Types
  <2>2. CASE phase' = phase
    BY <1>1, <2>2 DEF NobodyPanicked
  <2>3. ASSUME NEW s \in Socket, Start(s) \/ Stop(s) \/ Join(s)
        PROVE  NobodyPanicked'
    BY <1>1, <2>1, <2>3 DEF Start, Stop, Join, NobodyPanicked
  <2>4. ASSUME NEW s \in Socket,
               \/ Regroup(s) \/ Rename(s) \/ DisperseTimeout(s)
               \/ \E op \in Op : Enqueue(s, op) \/ Mutate(s, op)
               \/ \E first \in Preferences : SetPreference(s, first)
        PROVE  phase' = phase
    BY <2>1, <2>4, DisperseIsSafe
       DEF Regroup, Rename, DisperseTimeout, Enqueue, Mutate, SetPreference
  <2>5. ASSUME NEW s \in Socket, NEW msg \in net, Receive(s, msg)
        PROVE  phase' = phase
    <3>1. ReceiveDelta(s, msg) => phase' = phase
      BY <2>1, DisperseIsSafe DEF ReceiveDelta
    <3>2. ReceiveAck(s, msg) => phase' = phase
      BY <1>1, ReceiveAckSound DEF ReceiveAck
    <3> QED
      BY <2>5, <3>1, <3>2 DEF Receive, Unheeded
  <2>6. CASE UNCHANGED vars
    BY <2>2, <2>6 DEF vars
  <2> QED
    BY <1>1, <2>2, <2>3, <2>4, <2>5, <2>6 DEF Next
<1>2. Init => NobodyPanicked
  BY DEF Init, NobodyPanicked
<1>3. Spec => [](Typed /\ Sound)
  BY SoundAlways
<1> QED
  BY <1>1, <1>2, <1>3, PTL DEF Spec
=============================================================================
