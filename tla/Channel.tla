------------------------------ MODULE Channel ------------------------------
(***************************************************************************)
(* What Node::udp promises of whole messages between two nodes: a message  *)
(* that is sent may be lost, delayed, overtaken and repeated, but it is    *)
(* never invented and comes whole.  sends[m] is how often m was sent,      *)
(* copies[m] how often it may still come, delivered[m] how often it came.  *)
(***************************************************************************)
EXTENDS Naturals

CONSTANT Message

VARIABLES sends, copies, delivered

vars == <<sends, copies, delivered>>

Init ==
  /\ sends = [m \in Message |-> 0]
  /\ copies = [m \in Message |-> 0]
  /\ delivered = [m \in Message |-> 0]

Send(m) ==
  /\ sends' = [sends EXCEPT ![m] = @ + 1]
  /\ copies' = [copies EXCEPT ![m] = @ + 1]
  /\ UNCHANGED delivered

\* Only what is still on its way can be repeated.
Repeat(m) ==
  /\ copies[m] > 0
  /\ copies' = [copies EXCEPT ![m] = @ + 1]
  /\ UNCHANGED <<sends, delivered>>

Lose(m) ==
  /\ copies[m] > 0
  /\ copies' = [copies EXCEPT ![m] = @ - 1]
  /\ UNCHANGED <<sends, delivered>>

Deliver(m) ==
  /\ copies[m] > 0
  /\ copies' = [copies EXCEPT ![m] = @ - 1]
  /\ delivered' = [delivered EXCEPT ![m] = @ + 1]
  /\ UNCHANGED sends

Next == \E m \in Message : Send(m) \/ Repeat(m) \/ Lose(m) \/ Deliver(m)

Spec == Init /\ [][Next]_vars
=============================================================================
