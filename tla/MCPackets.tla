------------------------------ MODULE MCPackets ------------------------------
(* Instances of Packets for TLC. *)
EXTENDS Packets, TLC

CONSTANTS short, long

\* One message fits a single packet, the other takes three, the last of them
\* not full.  With three units of header and two of payload a header covers
\* more than the end of one packet.
MsgSizes  == short :> 1 @@ long :> 3
DestSizes == short :> 1 @@ long :> 2
AnyOf     == {<<short, 0>>, <<long, 0>>}
=============================================================================
