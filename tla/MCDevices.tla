------------------------------ MODULE MCDevices ------------------------------
(* Instances of Devices for TLC. *)
EXTENDS Devices, TLC

CONSTANTS d, s1, s2

\* The device's manager is s2, where there is an s2.
SecondFirst == s1 :> 2 @@ s2 :> 1
=============================================================================
