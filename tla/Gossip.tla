------------------------------- MODULE Gossip -------------------------------
(***************************************************************************)
(* The gossip data of cluster/gossip.rs.  A Gossip is a map from members   *)
(* to a MachineState, Up or Down; the model makes it total with Absent for *)
(* a member that is not in the map.  The three values are numbers because  *)
(* the derived order of MachineState, with Absent below it, is the whole   *)
(* point of the type: knowledge about a member only ever grows.            *)
(*                                                                         *)
(* This module has the values and the result a merge promises.  The loop   *)
(* that computes it is in GossipMerge.                                     *)
(***************************************************************************)
EXTENDS Integers

Absent == 0
Up     == 1
Down   == 2

MachineState == {Absent, Up, Down}

GossipOver(M) == [M -> MachineState]

Knows(gossip, m) == gossip[m] # Absent
UpMembers(gossip) == {m \in DOMAIN gossip : gossip[m] = Up}

\* The members whose state in other is news to local: what merge collects in
\* `changes`.
Changes(local, other) == {m \in DOMAIN local : local[m] < other[m]}

\* A variant in which whatever is heard last replaces what was known.
MergeOverwrites(local, other) ==
  [m \in DOMAIN local |-> IF Knows(other, m) THEN other[m] ELSE local[m]]

\* Gossip::merge, the new value of self.states.
Merge(local, other) ==
  [m \in DOMAIN local |-> IF m \in Changes(local, other) THEN other[m] ELSE local[m]]

\* A variant that reports no member the local side had not heard of.
AddedByKnown(local, other) ==
  {m \in Changes(local, other) : other[m] = Up /\ Knows(local, m)}

\* Gossip::merge, the events it returns.  A member first heard of as Down is
\* recorded and gives no event.
AddedBy(local, other)   == {m \in Changes(local, other) : other[m] = Up}
RemovedBy(local, other) == {m \in Changes(local, other) : other[m] = Down /\ Knows(local, m)}

\* The order on gossip states: everything that is known to a is known to b.
AtMost(a, b) == \A m \in DOMAIN a : a[m] <= b[m]
=============================================================================
