-------------------------------- MODULE Udp --------------------------------
(***************************************************************************)
(* UDP as the protocols use it: messages are a set in flight, any of which *)
(* may be received next.  Unreliable, it also loses and repeats them.      *)
(***************************************************************************)
EXTENDS Naturals, FiniteSets

CONSTANTS
  Unreliable,      \* may messages be lost or delivered twice?
  MaxInFlight      \* bound: messages in flight

VARIABLE net       \* messages in flight

\* Whatever a handler sends may be lost on the way.
Post(rest, msgs) ==
  \E kept \in SUBSET msgs :
    /\ Unreliable \/ kept = msgs
    /\ Cardinality(rest \cup kept) <= MaxInFlight
    /\ net' = rest \cup kept

\* What is left in flight once msg is received: it may come again.
AfterReceipt(msg) == {net \ {msg}} \cup (IF Unreliable THEN {net} ELSE {})
=============================================================================
