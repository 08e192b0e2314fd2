---------------------------- MODULE GossipMerge ----------------------------
(***************************************************************************)
(* The loop of Gossip::merge (cluster/gossip.rs): two iterators over       *)
(* sorted maps advance in step, changes are collected, and are applied     *)
(* after the loop.  An iterator is the set of keys it has yet to yield; its *)
(* current item is the least of them.  The module shows that the loop      *)
(* computes the join of Gossip.tla and reports exactly the differences.    *)
(***************************************************************************)
EXTENDS Gossip, Sequences

CONSTANT Member   \* members, as numbers: only their order matters here

ASSUME MemberAssumption == Member \subseteq Int

VARIABLES
  before,   \* self.states when merge was called
  other,    \* the argument
  states,   \* self.states
  left,     \* members left_iter has still to yield, `left` included
  right,    \* members right_iter has still to yield, `right` included
  changes,  \* the members whose state in other is to be taken over
  events,   \* the returned events, in order
  done      \* the loop has ended and changes are applied

vars == <<before, other, states, left, right, changes, events, done>>

Event == [kind : {"Added", "Removed"}, member : Member]

IsNext(m, iter) == m \in iter /\ \A x \in iter : m <= x

Init ==
  /\ before \in GossipOver(Member)
  /\ other \in GossipOver(Member)
  /\ states = before
  /\ left = {m \in Member : Knows(before, m)}
  /\ right = {m \in Member : Knows(other, m)}
  /\ changes = {}
  /\ events = <<>>
  /\ done = FALSE

\* Variants with a plausible bug stand before the definition they vary.
EventForSwapped(m) == [kind |-> IF other[m] = Up THEN "Removed" ELSE "Added", member |-> m]
EventFor(m) == [kind |-> IF other[m] = Up THEN "Added" ELSE "Removed", member |-> m]

\* `if let Less = l_state.cmp(&r_state)`
GainsReversed(m) == states[m] > other[m]
Gains(m) == states[m] < other[m]

\* right_iter.next()
AdvanceRight(m) == right' = right \ {m}

\* An equal key advances both iterators.
AdvanceBoth(m) == left' = left \ {m} /\ AdvanceRight(m)

\* The match arm that breaks out of the loop.
Exhausted == right = {}

\* Equal: both sides know m; the greater state wins and is reported.
BothKnow(m) ==
  /\ IsNext(m, left) /\ IsNext(m, right)
  /\ AdvanceBoth(m)
  /\ IF Gains(m)
     THEN changes' = changes \cup {m} /\ events' = Append(events, EventFor(m))
     ELSE UNCHANGED <<changes, events>>
  /\ UNCHANGED <<before, other, states, done>>

\* Greater, or left exhausted: only other knows m.  Up is reported, Down is not.
OnlyRightKnows(m) ==
  /\ IsNext(m, right)
  /\ \A x \in left : m < x
  /\ AdvanceRight(m)
  /\ changes' = changes \cup {m}
  /\ events' = IF other[m] = Up THEN Append(events, EventFor(m)) ELSE events
  /\ UNCHANGED <<before, other, states, left, done>>

\* Less: only self knows m.
OnlyLeftKnows(m) ==
  /\ IsNext(m, left)
  /\ \E r \in right : IsNext(r, right) /\ m < r
  /\ left' = left \ {m}
  /\ UNCHANGED <<before, other, states, right, changes, events, done>>

\* The right side is exhausted: leave the loop and apply the changes.
Apply ==
  /\ Exhausted /\ ~done
  /\ done' = TRUE
  /\ states' = [m \in Member |-> IF m \in changes THEN other[m] ELSE states[m]]
  /\ UNCHANGED <<before, other, left, right, changes, events>>

Finished == done /\ UNCHANGED vars

Next ==
  \/ \E m \in Member : BothKnow(m) \/ OnlyRightKnows(m) \/ OnlyLeftKnows(m)
  \/ Apply
  \/ Finished

Spec == Init /\ [][Next]_vars
-----------------------------------------------------------------------------
(* Type correctness of the loop's variables. *)
TypeOK ==
  /\ before \in GossipOver(Member) /\ other \in GossipOver(Member)
  /\ states \in GossipOver(Member)
  /\ left \subseteq Member /\ right \subseteq Member /\ changes \subseteq Member
  /\ events \in Seq(Event)
  /\ done \in BOOLEAN

Reported(kind) == {events[i].member : i \in {j \in 1..Len(events) : events[j].kind = kind}}

(* merge leaves in self.states the join of both maps: whichever side knows *)
(* more about a member prevails, and nothing else changes.                 *)
MergeIsJoin == done => states = Merge(before, other)

(* The returned events name exactly the members that entered or left the   *)
(* Up set: InCluster folds them into ring and members, so a missing or an  *)
(* extra one would make those differ from the gossip for good.             *)
EventsAreTheDifference ==
  done => /\ Reported("Added")   = UpMembers(states) \ UpMembers(before)
          /\ Reported("Removed") = UpMembers(before) \ UpMembers(states)

(* No member is reported twice: a second Removed would find no ring entry  *)
(* to remove and the unwrap in InCluster would abort the actor.            *)
EachMemberOnce ==
  \A i, j \in 1..Len(events) : events[i].member = events[j].member => i = j

-----------------------------------------------------------------------------
(* What is left to visit, compared with what was visited: the strengthening *)
(* that makes MergeIsJoin inductive.                                        *)
Unvisited ==
  /\ right \subseteq {m \in Member : Knows(other, m)}
  /\ left \subseteq {m \in Member : Knows(before, m)}
  /\ \A m \in Member \ left : Knows(before, m) => \A r \in right : m < r
  /\ \A m \in Member \ right : Knows(other, m) => \A l \in left : m < l

CollectedSoFar == changes = {m \in Changes(before, other) : m \notin right}

ReportedSoFar ==
  \A m \in Member :
    /\ m \in Reported("Added")   <=> m \in changes /\ other[m] = Up
    /\ m \in Reported("Removed") <=> m \in changes /\ other[m] = Down /\ Knows(before, m)

EventsArePast == \A i \in 1..Len(events) : events[i].member \notin right

AppliedAtTheEnd ==
  /\ done => right = {}
  /\ states = IF done THEN Merge(before, other) ELSE before

(* The inductive invariant of the loop: it is checked here and proved in    *)
(* DataStepsProofs, where the properties above follow from it.              *)
IInv ==
  /\ TypeOK /\ Unvisited /\ CollectedSoFar /\ ReportedSoFar
  /\ EventsArePast /\ EachMemberOnce /\ AppliedAtTheEnd
=============================================================================
