-------------------------- MODULE DataStepsProofs ---------------------------
(***************************************************************************)
(* Proofs about the two machines that work on the data of the membership   *)
(* protocol, from the theorems of DataProofs about that data.  The loop of *)
(* GossipMerge computes the join, for all maps over any ordered set of     *)
(* members; and a ring whose members come and go (RingChanges) is at all   *)
(* times the ring of its members, for any placement of their keys.         *)
(***************************************************************************)
EXTENDS GossipMerge, RingChanges, DataProofs

(* What appending one event does to the reports. *)
LEMMA ReportedAppend ==
  ASSUME events \in Seq(Event), NEW e \in Event, events' = Append(events, e), NEW k
  PROVE  Reported(k)' = Reported(k) \cup (IF e.kind = k THEN {e.member} ELSE {})
<1>1. Len(events') = Len(events) + 1 /\ events'[Len(events) + 1] = e
      /\ \A i \in 1..Len(events) : events'[i] = events[i]
  OBVIOUS
<1>2. \A i \in 1..Len(events') : i \in 1..Len(events) \/ i = Len(events) + 1
  BY <1>1
<1> QED  BY <1>1, <1>2 DEF Reported

LEMMA InitIInv == Init => IInv
<1> SUFFICES ASSUME Init PROVE IInv
  OBVIOUS
<1> USE MemberAssumption DEF Init
<1>1. events = <<>> /\ Len(events) = 0
  OBVIOUS
<1>2. TypeOK
  <2>1. <<>> \in Seq(Event)
    OBVIOUS
  <2> QED  BY <2>1 DEF TypeOK
<1>3. Unvisited
  BY DEF Unvisited
<1>4. CollectedSoFar
  BY DEF CollectedSoFar, Changes, GossipOver, MachineState, Knows, Absent, Up, Down
<1>5. ReportedSoFar
  BY <1>1 DEF ReportedSoFar, Reported
<1>6. EventsArePast /\ EachMemberOnce
  BY <1>1 DEF EventsArePast, EachMemberOnce
<1>7. AppliedAtTheEnd
  BY DEF AppliedAtTheEnd
<1> QED  BY <1>2, <1>3, <1>4, <1>5, <1>6, <1>7 DEF IInv

(* A step that appends an event about a member still in right keeps the    *)
(* events past and distinct, provided the member leaves right.             *)
LEMMA AppendKeepsOnce ==
  ASSUME events \in Seq(Event), EventsArePast, EachMemberOnce,
         NEW m \in right, right' = right \ {m},
         NEW e \in Event, e.member = m,
         events' = events \/ events' = Append(events, e)
  PROVE  EventsArePast' /\ EachMemberOnce'
<1>1. CASE events' = events
  BY <1>1 DEF EventsArePast, EachMemberOnce
<1>2. CASE events' = Append(events, e)
  <2>1. Len(events') = Len(events) + 1 /\ events'[Len(events) + 1] = e
        /\ \A i \in 1..Len(events) : events'[i] = events[i]
    BY <1>2
  <2>2. \A i \in 1..Len(events') : i \in 1..Len(events) \/ i = Len(events) + 1
    BY <2>1
  <2>3. EventsArePast'
    BY <2>1, <2>2 DEF EventsArePast
  <2>4. EachMemberOnce'
    BY <2>1, <2>2 DEF EventsArePast, EachMemberOnce
  <2> QED  BY <2>3, <2>4
<1> QED  BY <1>1, <1>2

LEMMA NextIInv == IInv /\ [Next]_vars => IInv'
<1> SUFFICES ASSUME IInv, [Next]_vars PROVE IInv'
  OBVIOUS
<1> USE MemberAssumption
<1>0. /\ TypeOK /\ Unvisited /\ CollectedSoFar /\ ReportedSoFar
      /\ EventsArePast /\ EachMemberOnce /\ AppliedAtTheEnd
  BY DEF IInv
<1>1. ASSUME NEW m \in Member, BothKnow(m) PROVE IInv'
  <2>0. m \in left /\ m \in right /\ Knows(before, m) /\ Knows(other, m)
        /\ UNCHANGED <<before, other, states, done>>
        /\ left' = left \ {m} /\ right' = right \ {m}
        /\ (\A x \in left : m <= x) /\ (\A x \in right : m <= x)
    BY <1>0, <1>1 DEF BothKnow, AdvanceBoth, AdvanceRight, IsNext, Unvisited
  <2>1. ~done /\ states = before
    BY <1>0, <2>0 DEF AppliedAtTheEnd
  <2>2. EventFor(m) \in Event /\ EventFor(m).member = m
    BY DEF EventFor, Event
  <2>3. TypeOK'
    <3>1. events \in Seq(Event) => Append(events, EventFor(m)) \in Seq(Event)
      BY <2>2
    <3> QED  BY <1>0, <1>1, <2>0, <3>1 DEF TypeOK, BothKnow
  <2>4. Unvisited'
    BY <1>0, <2>0 DEF Unvisited, TypeOK, Knows
  <2>5. CollectedSoFar'
    BY <1>0, <1>1, <2>0, <2>1
    DEF CollectedSoFar, BothKnow, Gains, Changes, TypeOK, GossipOver
  <2>6. ReportedSoFar'
    <3>1. m \notin changes
      BY <1>0, <2>0 DEF CollectedSoFar
    <3>2. CASE states[m] < other[m]
      <4>1. changes' = changes \cup {m} /\ events' = Append(events, EventFor(m))
        BY <1>1, <3>2 DEF BothKnow, Gains
      <4>2. other[m] \in {Up, Down}
        BY <1>0, <2>0 DEF TypeOK, GossipOver, MachineState, Knows
      <4>3. \A k : Reported(k)' = Reported(k) \cup
                     (IF EventFor(m).kind = k THEN {EventFor(m).member} ELSE {})
        BY <1>0, <2>2, <4>1, ReportedAppend DEF TypeOK
      <4>4. EventFor(m).kind = IF other[m] = Up THEN "Added" ELSE "Removed"
        BY DEF EventFor
      <4> QED  BY <1>0, <2>0, <2>2, <3>1, <4>1, <4>2, <4>3, <4>4
               DEF ReportedSoFar, Knows, Up, Down
    <3>3. CASE ~(states[m] < other[m])
      BY <1>0, <1>1, <2>0, <3>3 DEF ReportedSoFar, Reported, BothKnow, Gains, Knows
    <3> QED  BY <3>2, <3>3
  <2>7. EventsArePast' /\ EachMemberOnce'
    BY <1>0, <1>1, <2>0, <2>2, AppendKeepsOnce DEF TypeOK, BothKnow
  <2>8. AppliedAtTheEnd'
    BY <1>0, <2>0, <2>1 DEF AppliedAtTheEnd
  <2> QED  BY <2>3, <2>4, <2>5, <2>6, <2>7, <2>8 DEF IInv
<1>2. ASSUME NEW m \in Member, OnlyRightKnows(m) PROVE IInv'
  <2>0. m \in right /\ m \notin left /\ Knows(other, m)
        /\ UNCHANGED <<before, other, states, left, done>>
        /\ right' = right \ {m} /\ changes' = changes \cup {m}
        /\ (\A x \in left : m < x) /\ (\A x \in right : m <= x)
    BY <1>0, <1>2 DEF OnlyRightKnows, AdvanceRight, IsNext, Unvisited, TypeOK
  <2>1. ~done /\ states = before
    BY <1>0, <2>0 DEF AppliedAtTheEnd
  <2>2. EventFor(m) \in Event /\ EventFor(m).member = m
    BY DEF EventFor, Event
  <2>3. before[m] = Absent /\ other[m] \in {Up, Down}
    BY <1>0, <2>0 DEF Unvisited, Knows, TypeOK, GossipOver, MachineState
  <2>4. TypeOK'
    BY <1>0, <1>2, <2>0, <2>2 DEF TypeOK, OnlyRightKnows
  <2>5. Unvisited'
    BY <1>0, <2>0 DEF Unvisited, TypeOK, Knows
  <2>6. CollectedSoFar'
    BY <1>0, <2>0, <2>3
    DEF CollectedSoFar, Changes, TypeOK, GossipOver, Absent, Up, Down
  <2>7. ReportedSoFar'
    <3>1. m \notin changes
      BY <1>0, <2>0 DEF CollectedSoFar
    <3>2. CASE other[m] = Up
      <4>1. events' = Append(events, EventFor(m))
        BY <1>2, <3>2 DEF OnlyRightKnows
      <4>2. \A k : Reported(k)' = Reported(k) \cup
                     (IF EventFor(m).kind = k THEN {EventFor(m).member} ELSE {})
        BY <1>0, <2>2, <4>1, ReportedAppend DEF TypeOK
      <4>3. EventFor(m).kind = "Added"
        BY <3>2 DEF EventFor
      <4> QED  BY <1>0, <2>0, <2>2, <2>3, <3>1, <3>2, <4>2, <4>3
               DEF ReportedSoFar, Knows, Up, Down
    <3>3. CASE other[m] # Up
      BY <1>0, <1>2, <2>0, <2>3, <3>1, <3>3
      DEF ReportedSoFar, Reported, OnlyRightKnows, Knows, Up, Down, Absent
    <3> QED  BY <3>2, <3>3
  <2>8. EventsArePast' /\ EachMemberOnce'
    BY <1>0, <1>2, <2>0, <2>2, AppendKeepsOnce DEF TypeOK, OnlyRightKnows
  <2>9. AppliedAtTheEnd'
    BY <1>0, <2>0, <2>1 DEF AppliedAtTheEnd
  <2> QED  BY <2>4, <2>5, <2>6, <2>7, <2>8, <2>9 DEF IInv
<1>3. ASSUME NEW m \in Member, OnlyLeftKnows(m) PROVE IInv'
  <2>0. UNCHANGED <<before, other, states, right, changes, events, done>>
        /\ left' = left \ {m} /\ \A r \in right : m < r
    BY <1>0, <1>3 DEF OnlyLeftKnows, IsNext, TypeOK
  <2>1. TypeOK'
    BY <1>0, <2>0 DEF TypeOK
  <2>2. Unvisited'
    BY <1>0, <2>0 DEF Unvisited, Knows
  <2>3. CollectedSoFar' /\ ReportedSoFar' /\ EventsArePast' /\ EachMemberOnce'
        /\ AppliedAtTheEnd'
    BY <1>0, <2>0 DEF CollectedSoFar, ReportedSoFar, Reported, Knows,
                      EventsArePast, EachMemberOnce, AppliedAtTheEnd
  <2> QED  BY <2>1, <2>2, <2>3 DEF IInv
<1>4. CASE Apply
  <2>0. UNCHANGED <<before, other, left, right, changes, events>>
        /\ right = {} /\ ~done /\ done'
        /\ states' = [m \in Member |-> IF m \in changes THEN other[m] ELSE before[m]]
    BY <1>0, <1>4 DEF Apply, Exhausted, AppliedAtTheEnd
  <2>1. changes = Changes(before, other) /\ DOMAIN before = Member
    BY <1>0, <2>0 DEF CollectedSoFar, TypeOK, GossipOver
  <2>2. AppliedAtTheEnd'
    BY <2>0, <2>1 DEF AppliedAtTheEnd, Merge, Changes
  <2>3. TypeOK'
    BY <1>0, <1>4, <2>0 DEF TypeOK, Apply, GossipOver
  <2>4. Unvisited' /\ CollectedSoFar' /\ ReportedSoFar' /\ EventsArePast'
        /\ EachMemberOnce'
    BY <1>0, <2>0 DEF Unvisited, CollectedSoFar, ReportedSoFar, Reported, Knows,
                      EventsArePast, EachMemberOnce
  <2> QED  BY <2>2, <2>3, <2>4 DEF IInv
<1>5. CASE UNCHANGED vars
  BY <1>0, <1>5 DEF vars, IInv, TypeOK, Unvisited, CollectedSoFar, ReportedSoFar,
                    Reported, Knows, EventsArePast, EachMemberOnce, AppliedAtTheEnd
<1> QED  BY <1>1, <1>2, <1>3, <1>4, <1>5 DEF Next, Finished

(* For every two gossip maps over any ordered set of members, the loop of  *)
(* Gossip::merge leaves their join in self.states, returns exactly the     *)
(* members that entered or left the Up set, and reports none twice.        *)
THEOREM MergeLoopCorrect ==
  Spec => [](IInv /\ MergeIsJoin /\ EventsAreTheDifference /\ EachMemberOnce)
<1>1. IInv => MergeIsJoin
  BY DEF IInv, AppliedAtTheEnd, MergeIsJoin
<1>2. IInv => EventsAreTheDifference
  <2> SUFFICES ASSUME IInv, done PROVE EventsAreTheDifference
    BY DEF EventsAreTheDifference
  <2>1. before \in GossipOver(Member) /\ other \in GossipOver(Member)
        /\ DOMAIN before = Member /\ states = Merge(before, other)
        /\ changes = Changes(before, other) /\ events \in Seq(Event)
    BY DEF IInv, TypeOK, AppliedAtTheEnd, CollectedSoFar, GossipOver
  <2>2. \A k : Reported(k) \subseteq Member
    <3>1. \A i \in 1..Len(events) : events[i] \in Event
      BY <2>1
    <3>2. \A e \in Event : e.member \in Member
      BY DEF Event
    <3> QED  BY <3>1, <3>2 DEF Reported
  <2>3. changes \subseteq Member
    BY <2>1 DEF Changes
  <2>4. Reported("Added") = AddedBy(before, other)
    BY <2>1, <2>2, <2>3 DEF IInv, ReportedSoFar, AddedBy
  <2>5. Reported("Removed") = RemovedBy(before, other)
    BY <2>1, <2>2, <2>3 DEF IInv, ReportedSoFar, RemovedBy
  <2> QED  BY <2>1, <2>4, <2>5, EventsAreUpSetDifference DEF EventsAreTheDifference
<1>3. IInv => EachMemberOnce
  BY DEF IInv
<1> QED  BY InitIInv, NextIInv, <1>1, <1>2, <1>3, PTL DEF Spec

(* The part of it InCluster folds into ring and members: the events name    *)
(* exactly the members that entered or left the Up set.                     *)
THEOREM MergeReportsDifference == Spec => []EventsAreTheDifference
BY MergeLoopCorrect, PTL
-----------------------------------------------------------------------------
(* A ring whose members come and go, for all placements of the keys of any *)
(* finite set of members.  The theorems of DataProofs are about one fixed  *)
(* placement; D states them of the placement of a behaviour.               *)
D == INSTANCE DataProofs WITH Chain <- chain, RepFactor <- rep

(* The ring holds exactly its members: what InverseResponsibility,         *)
(* FullyManaged and OnlyNeighboursAffected need besides the types.         *)
RingIInv ==
  /\ chain \in [M -> Chains] /\ R!NoCollision
  /\ rep \in Nat
  /\ members \subseteq M
  /\ HistoryIndependent

LEMMA SameRings ==
  ASSUME NEW S, NEW r
  PROVE  /\ R!RingOf(S) = D!RingOf(S)
         /\ R!InsertAll(r, S) = D!InsertAll(r, S)
         /\ R!RemoveAll(r, S) = D!RemoveAll(r, S)
BY DEF R!RingOf, R!InsertAll, R!RemoveAll, R!EmptyRing, R!KeysOf, R!Keys, R!Entry, R!HashCode,
       D!RingOf, D!InsertAll, D!RemoveAll, D!EmptyRing, D!KeysOf, D!Keys, D!Entry, D!HashCode

LEMMA SameResponsibility ==
  ASSUME NEW r, NEW m
  PROVE  /\ R!NodeManagers(r, m) = D!NodeManagers(r, m)
         /\ R!Charges(r, m) = D!Charges(r, m)
<1>1. \A key, num : R!Managers(r, key, num) = D!Managers(r, key, num)
  BY DEF R!Managers, R!MetBefore, R!Before, R!Owners, R!Cardinality,
         D!Managers, D!MetBefore, D!Before, D!Owners, D!Cardinality
<1>2. \A key, n : R!MetBefore(r, key, n) = D!MetBefore(r, key, n)
  BY DEF R!MetBefore, R!Before, R!Owners, D!MetBefore, D!Before, D!Owners
<1>3. R!NodeManagers(r, m) = D!NodeManagers(r, m)
  BY <1>1, <1>2 DEF R!NodeManagers, R!HashCode, D!NodeManagers, D!HashCode
<1>4. R!Charges(r, m) = D!Charges(r, m)
  BY DEF R!Charges, R!Arc, R!Owners, R!Keys, R!Cardinality,
         D!Charges, D!Arc, D!Owners, D!Keys, D!Cardinality
<1> QED
  BY <1>3, <1>4

LEMMA SameCounts ==
  ASSUME NEW S
  PROVE  (IsFiniteSet(S) <=> D!IsFiniteSet(S)) /\ Cardinality(S) = D!Cardinality(S)
<1>1. IsFiniteSet(S) <=> D!IsFiniteSet(S)
  BY DEF IsFiniteSet, D!IsFiniteSet
<1>2. Cardinality(S) = D!Cardinality(S)
  BY DEF Cardinality, D!Cardinality
<1> QED
  BY <1>1, <1>2

LEMMA ChainIsGood ==
  ASSUME chain \in [M -> Chains], R!NoCollision
  PROVE  D!GoodChain /\ DOMAIN chain = M
<1>1. DOMAIN chain = M /\ \A m \in M : chain[m] \in Chains
  OBVIOUS
<1>2. \A s \in Chains : s \in Seq(Nat) /\ Len(s) > 0
  <2> TAKE s \in Chains
  <2>1. PICK n \in 1..MaxVnodes : s \in [1..n -> Points]
    BY DEF Chains
  <2>2. s \in [1..n -> Nat] /\ n \in Nat /\ n > 0
    BY <2>1, RingChangesAssumption DEF Points
  <2>3. s \in Seq(Nat) /\ Len(s) = n
    BY <2>2
  <2> QED
    BY <2>2, <2>3
<1>3. D!NoCollision
  BY DEF R!NoCollision, R!Keys, D!NoCollision, D!Keys
<1> QED
  BY <1>1, <1>2, <1>3 DEF D!GoodChain

LEMMA MembersAreFinite ==
  ASSUME members \subseteq M
  PROVE  IsFiniteSet(members) /\ D!IsFiniteSet(members)
BY RingChangesAssumption, FS_Subset, SameCounts

(* A step leaves the placement alone and the ring with whoever is in it.   *)
LEMMA RingSteps ==
  ASSUME RingIInv, RingNext
  PROVE  /\ chain' = chain /\ rep' = rep /\ members' \subseteq M
         /\ ring' = D!RingOf(members')
         /\ \E x \in M : \/ x \notin members /\ members' = members \cup {x}
                         \/ x \in members /\ members' = members \ {x}
<1>0. /\ D!GoodChain /\ DOMAIN chain = M /\ members \subseteq M
      /\ ring = D!RingOf(members)
  BY ChainIsGood, SameRings DEF RingIInv, HistoryIndependent
<1>1. ASSUME NEW m \in M, InsertMember(m)
      PROVE  ring' = D!RingOf(members') /\ members' = members \cup {m} /\ m \notin members
  <2>1. ring' = D!InsertAll(ring, {m})
    BY <1>1, SameRings DEF InsertMember, R!Insert
  <2>2. {m} \in SUBSET DOMAIN chain /\ members \in SUBSET DOMAIN chain
    BY <1>0
  <2>3. ring' = D!RingOf(members \cup {m})
    BY <1>0, <2>1, <2>2, D!RingFollowsMembers
  <2> QED
    BY <1>1, <2>3 DEF InsertMember
<1>2. ASSUME NEW m \in M, RemoveMember(m)
      PROVE  ring' = D!RingOf(members') /\ members' = members \ {m} /\ m \in members
  <2>1. ring' = D!RemoveAll(ring, {m})
    BY <1>2, SameRings DEF RemoveMember, R!Remove
  <2>2. {m} \in SUBSET DOMAIN chain /\ members \in SUBSET DOMAIN chain
    BY <1>0
  <2>3. ring' = D!RingOf(members \ {m})
    BY <1>0, <2>1, <2>2, D!RingFollowsMembers
  <2> QED
    BY <1>2, <2>3 DEF RemoveMember
<1>3. PICK m \in M : InsertMember(m) \/ RemoveMember(m)
  BY DEF RingNext
<1>4. chain' = chain /\ rep' = rep
  BY <1>3 DEF InsertMember, RemoveMember
<1>5. ring' = D!RingOf(members')
      /\ \/ m \notin members /\ members' = members \cup {m}
         \/ m \in members /\ members' = members \ {m}
  BY <1>1, <1>2, <1>3
<1> QED
  BY <1>0, <1>4, <1>5

LEMMA RingInitIInv == RingInit => RingIInv
<1> SUFFICES ASSUME RingInit PROVE RingIInv
  OBVIOUS
<1>1. R!EmptyRing = R!RingOf({})
  BY DEF R!EmptyRing, R!RingOf, R!InsertAll, R!KeysOf
<1> QED
  BY <1>1, RingChangesAssumption DEF RingInit, RingIInv, HistoryIndependent

LEMMA PlacementStaysGood ==
  ASSUME chain' = chain, R!NoCollision
  PROVE  R!NoCollision'
<1>1. \A m : R!Keys(m)' = R!Keys(m)
  BY DEF R!Keys
<1> QED
  BY <1>1 DEF R!NoCollision

LEMMA RingNextIInv == RingIInv /\ [RingNext]_ringVars => RingIInv'
<1> SUFFICES ASSUME RingIInv, [RingNext]_ringVars PROVE RingIInv'
  OBVIOUS
<1>1. /\ chain' = chain /\ rep' = rep /\ members' \subseteq M
      /\ ring' = R!RingOf(members')
  <2>1. CASE RingNext
    BY <2>1, RingSteps, SameRings
  <2>2. CASE UNCHANGED ringVars
    BY <2>2 DEF ringVars, RingIInv, HistoryIndependent
  <2> QED
    BY <2>1, <2>2
<1>2. R!NoCollision'
  BY <1>1, PlacementStaysGood DEF RingIInv
<1>3. R!RingOf(members)' = R!RingOf(members')
  BY <1>1 DEF R!RingOf, R!InsertAll, R!EmptyRing, R!KeysOf, R!Keys, R!Entry,
              R!HashCode
<1> QED
  BY <1>1, <1>2, <1>3 DEF RingIInv, HistoryIndependent

LEMMA RingIInvHolds == RingSpec => []RingIInv
BY RingInitIInv, RingNextIInv, PTL DEF RingSpec

(* Whatever members enter and leave a ring in whatever order, it is the    *)
(* ring that the members who are in it would give by themselves: nodes     *)
(* that agree on the members agree on who watches whom.                    *)
THEOREM RingForgetsHistory == RingSpec => []HistoryIndependent
<1>1. RingIInv => HistoryIndependent
  BY DEF RingIInv
<1> QED
  BY <1>1, RingIInvHolds, PTL

(* In every ring reached, a node sends its heartbeats to exactly those     *)
(* that expect them.                                                       *)
THEOREM ResponsibilityInverts == RingSpec => []InverseResponsibility
<1>1. RingIInv => InverseResponsibility
  <2> SUFFICES ASSUME RingIInv, NEW m \in members, NEW n \in members
               PROVE  m \in R!NodeManagers(ring, n) <=> n \in R!Charges(ring, m)
    BY DEF InverseResponsibility
  <2>1. /\ D!GoodChain /\ rep \in Nat /\ members \in SUBSET DOMAIN chain
        /\ D!IsFiniteSet(members) /\ ring = D!RingOf(members)
    BY ChainIsGood, MembersAreFinite, SameRings DEF RingIInv, HistoryIndependent
  <2>2. m \in D!NodeManagers(ring, n) <=> n \in D!Charges(ring, m)
    BY <2>1, D!ChargesInvertManagers
  <2> QED
    BY <2>2, SameResponsibility
<1> QED
  BY <1>1, RingIInvHolds, PTL

(* In every ring reached, every member is watched by rep_factor others, or *)
(* by all the others when there are no more.                               *)
THEOREM NobodyIsUnwatched == RingSpec => []FullyManaged
<1>1. RingIInv => FullyManaged
  <2> SUFFICES ASSUME RingIInv, NEW m \in members
               PROVE  /\ m \notin R!NodeManagers(ring, m)
                      /\ Cardinality(R!NodeManagers(ring, m)) = Min({rep, Cardinality(members) - 1})
    BY DEF FullyManaged
  <2>1. /\ D!GoodChain /\ rep \in Nat /\ members \in SUBSET DOMAIN chain
        /\ D!IsFiniteSet(members) /\ ring = D!RingOf(members)
    BY ChainIsGood, MembersAreFinite, SameRings DEF RingIInv, HistoryIndependent
  <2>2. /\ m \notin D!NodeManagers(ring, m)
        /\ Cardinality(D!NodeManagers(ring, m))
             = IF rep < Cardinality(members) THEN rep ELSE Cardinality(members) - 1
    <3>1. /\ m \notin D!NodeManagers(ring, m)
          /\ D!Cardinality(D!NodeManagers(ring, m))
               = IF rep < D!Cardinality(members) THEN rep ELSE D!Cardinality(members) - 1
      BY <2>1, D!EveryoneIsManaged
    <3> QED
      BY <3>1, SameCounts
  <2>3. Cardinality(members) \in Nat
    BY MembersAreFinite, FS_CardinalityType DEF RingIInv
  <2>4. \A i, j \in Int : Min({i, j}) = IF i < j THEN i ELSE j
    <3> SUFFICES ASSUME NEW i \in Int, NEW j \in Int
                 PROVE  Min({i, j}) = IF i < j THEN i ELSE j
      OBVIOUS
    <3> DEFINE P(x) == x \in {i, j} /\ \A y \in {i, j} : x <= y
    <3>1. Min({i, j}) = CHOOSE x : P(x)
      BY DEF Min
    <3>2. P(IF i < j THEN i ELSE j) /\ \A x : P(x) => x = IF i < j THEN i ELSE j
      OBVIOUS
    <3> HIDE DEF P
    <3> QED
      BY <3>1, <3>2
  <2> QED
    BY <2>1, <2>2, <2>3, <2>4, SameResponsibility
<1> QED
  BY <1>1, RingIInvHolds, PTL

LEMMA AtMostOne ==
  ASSUME NEW S, \A i, j \in S : i = j
  PROVE  Cardinality(S) <= 1
<1>1. CASE S = {}
  BY <1>1, FS_EmptySet
<1>2. CASE S # {}
  <2>1. PICK i \in S : TRUE
    BY <1>2
  <2>2. S = {i}
    BY <2>1
  <2>3. Cardinality({i}) = 1
    BY FS_Singleton
  <2> QED
    BY <2>2, <2>3
<1> QED
  BY <1>1, <1>2

(* One member entering or leaving any ring gives every other member at     *)
(* most one new manager and takes at most one away: the newcomer is the    *)
(* only new one, and only the one that leaves is replaced.                 *)
THEOREM OnlyNeighboursMove == RingSpec => OnlyNeighboursAffected
<1> DEFINE Small(n) ==
       LET old == R!NodeManagers(ring, n)
           new == R!NodeManagers(ring', n)
       IN /\ new \ old \subseteq IF members \subseteq members' THEN members' \ members ELSE new
          /\ old \ new \subseteq IF members \subseteq members' THEN old ELSE members \ members'
          /\ Cardinality(new \ old) <= 1 /\ Cardinality(old \ new) <= 1
           A == \A n \in members \cap members' : Small(n)
<1>1. RingIInv /\ [RingNext]_ringVars => [A]_ringVars
  <2> SUFFICES ASSUME RingIInv, RingNext, NEW n \in members \cap members'
               PROVE  Small(n)
    OBVIOUS
  <2> DEFINE old == D!NodeManagers(ring, n)
             new == D!NodeManagers(ring', n)
  <2>0. old = R!NodeManagers(ring, n) /\ new = R!NodeManagers(ring', n)
    BY SameResponsibility
  <2>1. /\ D!GoodChain /\ rep \in Nat /\ DOMAIN chain = M /\ members \subseteq M
        /\ D!IsFiniteSet(members) /\ ring = D!RingOf(members)
    BY ChainIsGood, MembersAreFinite, SameRings DEF RingIInv, HistoryIndependent
  <2>2. members' \subseteq M /\ ring' = D!RingOf(members') /\ D!IsFiniteSet(members')
    BY RingSteps, RingChangesAssumption, FS_Subset, SameCounts
  <2>3. PICK x \in M : \/ x \notin members /\ members' = members \cup {x}
                       \/ x \in members /\ members' = members \ {x}
    BY RingSteps
  <2> HIDE DEF old, new
  <2>4. CASE x \notin members /\ members' = members \cup {x}
    <3>1. /\ new \ old \subseteq {x} /\ \A i, j \in old \ new : i = j
      <4>1. n \in members /\ x \in DOMAIN chain \ members /\ members \in SUBSET DOMAIN chain
        BY <2>1, <2>4
      <4> QED
        BY <2>1, <2>2, <2>4, <4>1, D!OnlyNeighboursChange DEF old, new
    <3>2. Cardinality(new \ old) <= 1 /\ Cardinality(old \ new) <= 1
      BY <3>1, AtMostOne
    <3> QED
      BY <2>0, <2>4, <3>1, <3>2
  <2>5. CASE x \in members /\ members' = members \ {x}
    <3>1. /\ old \ new \subseteq {x} /\ \A i, j \in new \ old : i = j
      <4>1. n \in members' /\ x \in DOMAIN chain \ members' /\ members' \in SUBSET DOMAIN chain
            /\ members = members' \cup {x}
        BY <2>1, <2>5
      <4>2. ring = D!RingOf(members' \cup {x})
        BY <2>1, <4>1
      <4> DEFINE without(S) == D!NodeManagers(D!RingOf(S), n)
                 with(S, y) == D!NodeManagers(D!RingOf(S \cup {y}), n)
      <4>3. /\ with(members', x) \ without(members') \subseteq {x}
            /\ \A i, j \in without(members') \ with(members', x) : i = j
        <5>1. \A S \in SUBSET DOMAIN chain : \A y \in DOMAIN chain \ S :
                D!IsFiniteSet(S) /\ n \in S
                  => /\ with(S, y) \ without(S) \subseteq {y}
                     /\ \A i, j \in without(S) \ with(S, y) : i = j
          BY <2>1, D!OnlyNeighboursChange
        <5> QED
          BY <2>2, <4>1, <5>1
      <4> QED
        BY <2>2, <4>2, <4>3 DEF old, new
    <3>2. Cardinality(new \ old) <= 1 /\ Cardinality(old \ new) <= 1
      BY <3>1, AtMostOne
    <3>3. ~(members \subseteq members') /\ members \ members' = {x}
      BY <2>5
    <3> QED
      BY <2>0, <3>1, <3>2, <3>3
  <2> QED
    BY <2>3, <2>4, <2>5
<1>2. RingSpec => [][A]_ringVars
  <2> HIDE DEF A
  <2> QED
    BY <1>1, RingIInvHolds, PTL DEF RingSpec
<1> QED
  BY <1>2 DEF OnlyNeighboursAffected
=============================================================================
