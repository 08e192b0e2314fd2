----------------------------- MODULE MCCluster -----------------------------
(* Instances of Cluster for TLC. *)
EXTENDS Cluster, TLC

CONSTANTS n1, n2, n3

\* The first node has no seed, the others have the first.
SeedsOfFirst == [s \in Socket |-> IF s = n1 THEN {} ELSE {n1}]

\* Each node after the first has the one before it as its seed.
SeedsChain == [s \in Socket |-> IF s = n1 THEN {} ELSE IF s = n2 THEN {n1} ELSE {n2}]

\* Every node has every node as a seed.
SeedsAll == [s \in Socket |-> Socket]

\* A hash: positions on the ring in an order that mixes sockets and
\* incarnations, one key for each member.
Rank(s) == IF s = n1 THEN 0 ELSE IF s = n2 THEN 1 ELSE 2
OneVnode == [m \in Member |-> <<10 * ((m.id * 2 + Rank(m.socket)) % 3) + 3 * Rank(m.socket) + m.id>>]

\* Two keys for each member.
TwoVnodes == [m \in Member |->
  <<10 * ((m.id * 2 + Rank(m.socket)) % 3) + 3 * Rank(m.socket) + m.id,
    100 + 10 * ((m.id + Rank(m.socket)) % 2) + 3 * Rank(m.socket) + m.id>>]
=============================================================================
