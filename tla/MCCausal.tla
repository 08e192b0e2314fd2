------------------------------ MODULE MCCausal ------------------------------
(* Instances of CausalDisperse for TLC. *)
EXTENDS CausalDisperse, TLC

CONSTANTS n1, n2, n3

\* Each node draws one identifier, or the first draws another.
OneEach == [s \in Socket |-> 1]
TwoAndOne == [s \in Socket |-> IF s = n1 THEN 2 ELSE 1]

\* Any member may be removed by the others.
Anybody == Member

\* The user gives priority to nobody, to the second node, or to all but the first.
Nobody == {{}}
NobodyOrSome == {{}, {Incarnation(n2, 1)}, {Incarnation(n2, 1), Incarnation(n3, 1)}}
=============================================================================
