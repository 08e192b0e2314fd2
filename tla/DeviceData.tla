----------------------------- MODULE DeviceData -----------------------------
(***************************************************************************)
(* The CRDT behind the device servers (cluster/devices/devices_state.rs):  *)
(* for each device how often it was removed and, while it is there, its    *)
(* heartbeat interval.                                                     *)
(*                                                                         *)
(* An entry's Option<DeviceInterval> is `there` with clock and dur, both 0 *)
(* when the device is not there.  A device without an entry has the entry  *)
(* Absent, which no mutator makes.                                         *)
(***************************************************************************)
EXTENDS Naturals

CONSTANT Device

Interval == [clock : Nat, dur : Nat]
Entry    == {e \in [removals : Nat, there : BOOLEAN, clock : Nat, dur : Nat] :
               ~e.there => e.clock = 0 /\ e.dur = 0}
Devices  == [Device -> Entry]

Present(removals, i) == [removals |-> removals, there |-> TRUE, clock |-> i.clock, dur |-> i.dur]
Removed(removals)    == [removals |-> removals, there |-> FALSE, clock |-> 0, dur |-> 0]
Absent  == Removed(0)
Minimum == [d \in Device |-> Absent]
-----------------------------------------------------------------------------
\* DeviceInterval::partial_cmp: of two intervals with the same clock the
\* shorter is the greater.
IntervalAtLeast(a, b) ==
  \/ a.clock > b.clock
  \/ a.clock = b.clock /\ a.dur <= b.dur

\* Ord of DeviceEntry, derived: removals first, then None before Some.
AtLeast(a, b) ==
  \/ a.removals > b.removals
  \/ /\ a.removals = b.removals
     /\ \/ a.there /\ ~b.there
        \/ a.there = b.there /\ IntervalAtLeast(a, b)

\* A variant in which what comes last takes the place of what was there.
LatestArrived(a, b) == IF b = Absent THEN a ELSE b

\* max, as union_with uses it.
Latest(a, b) == IF AtLeast(a, b) THEN a ELSE b

\* CRDT::join
Join(f, g) == [d \in Device |-> Latest(f[d], g[d])]

\* DeltaMutator::apply: the entry a mutator makes of a device's present one.
\* An older interval is not put, and what is not there is not removed.  In a
\* variant the interval outlives the removal.
PutEntry(e, i) ==
  IF e.there /\ IntervalAtLeast(e, i) THEN Absent ELSE Present(e.removals, i)
RemoveEntryOnly(e) ==
  IF e.there THEN [e EXCEPT !.removals = @ + 1, !.there = FALSE] ELSE Absent
RemoveEntry(e) == IF e.there THEN Removed(e.removals + 1) ELSE Absent

Put(f, d, i)  == [Minimum EXCEPT ![d] = PutEntry(f[d], i)]
Remove(f, d)  == [Minimum EXCEPT ![d] = RemoveEntry(f[d])]
=============================================================================
