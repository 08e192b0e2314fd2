---------------------------- MODULE RingChanges -----------------------------
(***************************************************************************)
(* Sequences of insertions and removals on one ring, for every placement   *)
(* of the members' keys: the hash is an arbitrary injective choice made in *)
(* the initial state.  Rings of every replication factor in RepFactors.    *)
(***************************************************************************)
EXTENDS Integers, Sequences, FiniteSets, FiniteSetsExt

CONSTANTS
  M,           \* members
  MaxVnodes,   \* every member has 1 to MaxVnodes vnodes
  NumPoints,   \* keys are 0 .. NumPoints - 1
  RepFactors   \* replication factors tried

ASSUME RingChangesAssumption ==
  IsFiniteSet(M) /\ MaxVnodes \in Nat /\ NumPoints \in Nat /\ RepFactors \subseteq Nat

VARIABLES chain, rep, members, ring
ringVars == <<chain, rep, members, ring>>

R == INSTANCE NodeRing WITH Chain <- chain, RepFactor <- rep

Points == 0 .. NumPoints - 1
Chains == UNION {[1..n -> Points] : n \in 1..MaxVnodes}

RingInit ==
  /\ chain \in [M -> Chains]
  /\ R!NoCollision
  /\ rep \in RepFactors
  /\ members = {}
  /\ ring = R!EmptyRing

InsertMember(m) ==
  /\ m \notin members
  /\ ring' = R!Insert(ring, m)
  /\ members' = members \cup {m}
  /\ UNCHANGED <<chain, rep>>

RemoveMember(m) ==
  /\ m \in members
  /\ ring' = R!Remove(ring, m)
  /\ members' = members \ {m}
  /\ UNCHANGED <<chain, rep>>

RingNext == \E m \in M : InsertMember(m) \/ RemoveMember(m)
RingSpec == RingInit /\ [][RingNext]_ringVars
-----------------------------------------------------------------------------
(* The ring is determined by who is in it: two nodes that agree on the     *)
(* members agree on the ring, whatever order they learnt of them in.       *)
HistoryIndependent == ring = R!RingOf(members)

(* charges is the inverse of node_managers (cluster/mod.rs): whoever a     *)
(* node sends its heartbeats to is a node that expects them.               *)
InverseResponsibility ==
  \A m \in members : \A n \in members :
    m \in R!NodeManagers(ring, n) <=> n \in R!Charges(ring, m)

(* Every member is watched by rep_factor others, or by all of them, and    *)
(* never by itself.                                                        *)
FullyManaged ==
  \A m \in members :
    /\ m \notin R!NodeManagers(ring, m)
    /\ Cardinality(R!NodeManagers(ring, m)) = Min({rep, Cardinality(members) - 1})

(* One insertion or removal replaces at most one manager of any other      *)
(* member, and only by or of the member concerned (mod.rs: "only that      *)
(* node's neighbors in the ring are affected").                            *)
OnlyNeighboursAffected ==
  [][\A n \in members \cap members' :
       LET old == R!NodeManagers(ring, n)
           new == R!NodeManagers(ring', n)
       IN /\ new \ old \subseteq IF members \subseteq members' THEN members' \ members ELSE new
          /\ old \ new \subseteq IF members \subseteq members' THEN old ELSE members \ members'
          /\ Cardinality(new \ old) <= 1 /\ Cardinality(old \ new) <= 1]_ringVars
=============================================================================
