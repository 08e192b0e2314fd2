---------------------------- MODULE ClusterProofs ----------------------------
(***************************************************************************)
(* Proofs about the membership protocol, for any set of nodes, seeds, ring *)
(* and bounds.  The invariants come in layers, each of which relies on the *)
(* ones before.                                                            *)
(*                                                                         *)
(*   Typed      the types, and what a node is while it is stopped or       *)
(*              pinging                                                    *)
(*   Heard      whatever is known anywhere was started at some time        *)
(*   Coherent   gossip, members, ring, charges and managers of a node in   *)
(*              a cluster fit each other and its identity                  *)
(*                                                                         *)
(* Coherent rests on Heard: a node that takes a new identity must not meet *)
(* it in gossip, in its ring or in the verdicts of its receivers.  On the  *)
(* three rest an account of how the gossip and the identity of a node move *)
(* in a step (HistoryStep), and from it: nothing is forgotten, only        *)
(* declared deaths are spread, former identities stay down, a subscriber   *)
(* has the picture of its node, and heartbeats go where they are expected. *)
(***************************************************************************)
EXTENDS Cluster, DataProofs

ICType ==
  [gossip : GossipOver(Member), members : SUBSET Member, ring : Ring,
   charges : SUBSET Member, managers : SUBSET Member]

LEMMA ChainIsGood == GoodChain
BY RingAssumption DEF GoodChain

LEMMA RingMoves ==
  ASSUME NEW ring \in Ring, NEW T \in SUBSET Member
  PROVE  /\ EmptyRing \in Ring
         /\ RingOf(T) \in Ring
         /\ InsertAll(ring, T) \in Ring
         /\ RemoveAll(ring, T) \in Ring
<1>1. PICK S \in SUBSET Member : ring = RingOf(S)
  BY DEF Ring
<1>2. InsertAll(ring, T) = RingOf(S \cup T) /\ RemoveAll(ring, T) = RingOf(S \ T)
  BY <1>1, RingFollowsMembers, ChainIsGood, RingAssumption
<1> QED  BY <1>2, EmptyRingIsRingOf DEF Ring

LEMMA Responsible ==
  ASSUME NEW ring \in Ring, NEW me \in Member
  PROVE  /\ ChargesIn[ring][me] = Charges(ring, me)
         /\ ManagersIn[ring][me] = NodeManagers(ring, me)
         /\ Charges(ring, me) \subseteq Member
         /\ NodeManagers(ring, me) \subseteq Member
<1>1. PICK S \in SUBSET Member : ring = RingOf(S)
  BY DEF Ring
<1>2. \A p \in DOMAIN ring : ring[p].member \in Member
  BY <1>1, RingOfMembers, ChainIsGood, RingAssumption
<1>3. Charges(ring, me) \subseteq Member
  BY <1>2 DEF Charges
<1>4. NodeManagers(ring, me) \subseteq Member
  BY <1>2 DEF NodeManagers, Managers, Owners
<1> QED  BY <1>3, <1>4 DEF ChargesIn, ManagersIn

LEMMA ResponsibilityType ==
  ASSUME NEW gossip \in GossipOver(Member), NEW members \in SUBSET Member,
         NEW ring \in Ring, NEW charges \in SUBSET Member,
         NEW managers \in SUBSET Member, NEW me \in Member
  PROVE  /\ InCluster(gossip, members, ring, charges, managers) \in ICType
         /\ WithResponsibility(InCluster(gossip, members, ring, charges, managers), me)
              = InCluster(gossip, members, ring, Charges(ring, me), NodeManagers(ring, me))
         /\ InCluster(gossip, members, ring, Charges(ring, me), NodeManagers(ring, me))
              \in ICType
<1>1. InCluster(gossip, members, ring, charges, managers) \in ICType
  BY DEF InCluster, ICType
<1>2. WithResponsibility(InCluster(gossip, members, ring, charges, managers), me)
        = InCluster(gossip, members, ring, Charges(ring, me), NodeManagers(ring, me))
  BY Responsible DEF WithResponsibility, InCluster
<1>3. InCluster(gossip, members, ring, Charges(ring, me), NodeManagers(ring, me)) \in ICType
  BY Responsible DEF InCluster, ICType
<1> QED  BY <1>1, <1>2, <1>3
-----------------------------------------------------------------------------
(* Types of what the operators of the actions build.                       *)
LEMMA PostType ==
  ASSUME NEW rest \in SUBSET Message, NEW msgs \in SUBSET Message, Post(rest, msgs)
  PROVE  net' \subseteq rest \cup msgs /\ net' \in SUBSET Message
BY DEF Post

LEMMA RestType ==
  ASSUME NEW msg \in net, NEW rest \in AfterReceipt(msg)
  PROVE  rest \subseteq net
BY DEF AfterReceipt

LEMMA RoundType ==
  ASSUME NEW c \in ICType, NEW me \in Member, NEW sure \in SUBSET Member,
         NEW rest \in SUBSET Message, GossipRound(c, me, sure, rest)
  PROVE  /\ net' \in SUBSET Message
         /\ \A n \in net' \ rest : n.kind = "State" /\ n.gossip = c.gossip
<1>1. PICK targets \in GossipTargets(c, me, sure) : Post(rest, StateMsgs(targets, c.gossip))
  BY DEF GossipRound
<1>2. targets \in SUBSET Member
  BY <1>1 DEF GossipTargets, kSubset, ICType
<1>3. \A n \in StateMsgs(targets, c.gossip) :
        n \in Message /\ n.kind = "State" /\ n.gossip = c.gossip
  BY <1>2 DEF StateMsgs, Message, Member, ICType
<1>4. StateMsgs(targets, c.gossip) \in SUBSET Message
  BY <1>3
<1> QED  BY <1>1, <1>3, <1>4, PostType

ViewType == [phase : {"none", "waiting", "panicked", "synced"},
             me : Member \cup {NoMember}, peers : SUBSET Member]

LEMMA FoldType ==
  ASSUME NEW v \in ViewType, NEW added \in SUBSET Member, NEW removed \in SUBSET Member,
         NEW me \in Member \cup {NoMember}, NEW nodes \in SUBSET Member
  PROVE  Fold(v, Events(added, removed, me), nodes) \in ViewType
BY DEF Fold, Events, ViewType, Panicked, Synced

LEMMA NotifyType ==
  ASSUME view \in [Socket -> ViewType], NEW s \in Socket,
         NEW added \in SUBSET Member, NEW removed \in SUBSET Member,
         NEW me \in Member \cup {NoMember}, NEW nodes \in SUBSET Member,
         Notify(s, Events(added, removed, me), nodes)
  PROVE  /\ view' \in [Socket -> ViewType]
         /\ \A t \in Socket \ {s} : view'[t] = view[t]
         /\ view'[s] = IF \/ Events(added, removed, me) = Events({}, {}, NoMember)
                          \/ view[s].phase \in {"none", "panicked"}
                       THEN view[s]
                       ELSE Fold(view[s], Events(added, removed, me), nodes)
<1>1. Fold(view[s], Events(added, removed, me), nodes) \in ViewType
  BY FoldType
<1> QED  BY <1>1 DEF Notify

LEMMA JoinedType ==
  ASSUME view \in [Socket -> ViewType], NEW s \in Socket, NEW me \in Member,
         NEW nodes \in SUBSET Member, Notify(s, Events({}, {}, me), nodes)
  PROVE  /\ view' \in [Socket -> ViewType]
         /\ \A t \in Socket \ {s} : view'[t] = view[t]
         /\ view'[s] = IF view[s].phase \in {"none", "panicked"} THEN view[s]
                       ELSE Fold(view[s], Events({}, {}, me), nodes)
<1>1. Fold(view[s], Events({}, {}, me), nodes) \in ViewType
  BY FoldType
<1>2. me # NoMember
  BY DEF Member, NoMember, Id
<1>3. Events({}, {}, me) # Events({}, {}, NoMember)
  BY <1>2 DEF Events
<1> QED  BY <1>1, <1>3 DEF Notify
-----------------------------------------------------------------------------
(* First layer.  A running node bears the last identifier its socket drew; *)
(* a node that is in no cluster keeps nothing of one.                      *)
NodesInOrder ==
  \A s \in Socket :
    /\ status[s] # "left" =>
         /\ lastId[s] \in Id
         /\ self[s] = Incarnation(s, lastId[s])
         /\ born[s] \in 1..lastId[s]
    /\ status[s] = "pinging" => born[s] = lastId[s]
    /\ status[s] # "in_cluster" => ic[s] = NotInCluster /\ downed[s] = {}

Typed == TypeOK /\ NodesInOrder

LEMMA RunningIsMember ==
  ASSUME Typed, NEW s \in Socket, status[s] # "left"
  PROVE  self[s] \in Member /\ self[s].socket = s /\ self[s].id = lastId[s]
<1>1. lastId[s] \in Id /\ self[s] = Incarnation(s, lastId[s])
  BY DEF Typed, NodesInOrder
<1> QED  BY <1>1 DEF Member, Incarnation

LEMMA NextIsMember ==
  ASSUME Typed, NEW s \in Socket, lastId[s] < MaxId
  PROVE  /\ NextMember(s) \in Member
         /\ NextMember(s) = Incarnation(s, lastId[s] + 1)
         /\ NextMember(s).socket = s /\ NextMember(s).id = lastId[s] + 1
         /\ lastId[s] + 1 \in Id
<1>1. lastId[s] \in Nat /\ MaxId \in Nat
  BY ClusterAssumption DEF Typed, TypeOK, Id
<1>2. lastId[s] + 1 \in Id
  BY <1>1 DEF Id
<1> QED
  BY <1>2 DEF NextMember, Incarnation, Member

LEMMA NotInClusterType == NotInCluster \in ICType
<1>1. Nothing \in GossipOver(Member)
  BY DEF Nothing, GossipOver, MachineState
<1>2. EmptyRing \in Ring
  BY EmptyRingIsRingOf DEF Ring
<1> QED  BY <1>1, <1>2 DEF NotInCluster, InCluster, ICType

LEMMA AloneType ==
  ASSUME NEW me \in Member
  PROVE  /\ Alone(me) \in ICType
         /\ Alone(me).ring = RingOf({me})
         /\ Alone(me).members = {me}
         /\ Alone(me).gossip = [Nothing EXCEPT ![me] = Up]
<1>1. [Nothing EXCEPT ![me] = Up] \in GossipOver(Member)
  BY DEF Nothing, GossipOver, MachineState
<1>2. Insert(EmptyRing, me) = RingOf({me}) /\ RingOf({me}) \in Ring
  BY DEF Insert, RingOf, Ring
<1> QED  BY <1>1, <1>2 DEF Alone, InCluster, ICType

LEMMA TypedInit == Init => Typed
<1> SUFFICES ASSUME Init PROVE Typed
  OBVIOUS
<1>1. NotInCluster \in ICType
  BY NotInClusterType
<1>2. view \in [Socket -> ViewType]
  BY DEF Init, ViewType, Unsubscribed
<1>3. TypeOK
  BY <1>1, <1>2, ClusterAssumption DEF Init, TypeOK, ICType, ViewType
<1> QED  BY <1>3 DEF Init, Typed, NodesInOrder

LEMMA TypedStart ==
  ASSUME Typed, NEW s \in Socket, Start(s)
  PROVE  Typed'
<1> DEFINE me == NextMember(s)
<1>1. me \in Member /\ me = Incarnation(s, lastId[s] + 1) /\ lastId[s] + 1 \in Id
  BY NextIsMember DEF Start
<1>2. view \in [Socket -> ViewType] /\ ic \in [Socket -> ICType] /\ net \in SUBSET Message
  BY DEF Typed, TypeOK, ViewType, ICType
<1>3. CASE Seeds[s] \ {s} = {}
  <2>1. CreateCluster(s, me) /\ UNCHANGED <<count, net>>
    BY <1>3 DEF Start
  <2>2. view' \in [Socket -> ViewType]
    BY <1>1, <1>2, <2>1, JoinedType DEF CreateCluster
  <2>3. ic' = [ic EXCEPT ![s] = Alone(me)] /\ ic' \in [Socket -> ICType]
    BY <1>1, <1>2, <2>1, AloneType DEF CreateCluster
  <2>4. TypeOK'
    BY <1>1, <2>1, <2>2, <2>3 DEF Typed, TypeOK, Start, CreateCluster, ICType, ViewType
  <2>5. NodesInOrder'
    BY <1>1, <2>1, <2>3 DEF Typed, TypeOK, NodesInOrder, Start, CreateCluster, Id
  <2> QED  BY <2>4, <2>5 DEF Typed
<1>4. CASE Seeds[s] \ {s} # {}
  <2>1. SendPings(s, me, NumPings) /\ UNCHANGED <<ic, view>>
    BY <1>4 DEF Start
  <2>2. net' \in SUBSET Message
    BY <1>1, <1>2, <2>1, ClusterAssumption, PostType DEF SendPings, Message
  <2>3. count' \in [Socket -> 0..NumPings]
    BY <2>1, ClusterAssumption DEF SendPings, Typed, TypeOK
  <2>4. TypeOK'
    BY <1>1, <1>4, <2>1, <2>2, <2>3 DEF Typed, TypeOK, Start
  <2>5. NodesInOrder'
    BY <1>1, <1>4, <2>1 DEF Typed, TypeOK, NodesInOrder, Start, Id
  <2> QED  BY <2>4, <2>5 DEF Typed
<1> QED  BY <1>3, <1>4

LEMMA TypedStop ==
  ASSUME Typed, NEW s \in Socket, Stop(s)
  PROVE  Typed'
<1>1. NotInCluster \in ICType
  BY NotInClusterType
<1>2. TypeOK'
  BY <1>1, ClusterAssumption DEF Typed, TypeOK, Stop, ICType, Unsubscribed
<1>3. NodesInOrder'
  BY DEF Typed, TypeOK, NodesInOrder, Stop
<1> QED  BY <1>2, <1>3 DEF Typed

LEMMA TypedSubscribe ==
  ASSUME Typed, NEW s \in Socket, Subscribe(s)
  PROVE  Typed'
<1>1. Waiting \in ViewType
  BY DEF Waiting, ViewType
<1>2. status[s] = "in_cluster" =>
        Fold(Waiting, Events({}, {}, self[s]), ic[s].members) \in ViewType
  BY <1>1, FoldType, RunningIsMember DEF Typed, TypeOK
<1>3. view' \in [Socket -> ViewType]
  BY <1>1, <1>2 DEF Subscribe, Typed, TypeOK, ViewType
<1>4. TypeOK'
  BY <1>3 DEF Typed, TypeOK, Subscribe, ViewType
<1>5. NodesInOrder'
  BY DEF Typed, NodesInOrder, Subscribe
<1> QED  BY <1>4, <1>5 DEF Typed

LEMMA TypedPingTimeout ==
  ASSUME Typed, NEW s \in Socket, PingTimeout(s)
  PROVE  Typed'
<1> DEFINE me == self[s]
<1>1. me \in Member
  BY RunningIsMember DEF PingTimeout
<1>2. view \in [Socket -> ViewType] /\ ic \in [Socket -> ICType] /\ net \in SUBSET Message
  BY DEF Typed, TypeOK, ViewType, ICType
<1>3. CASE count[s] = 0
  <2>1. CreateCluster(s, me) /\ UNCHANGED <<count, net>>
    BY <1>3 DEF PingTimeout
  <2>2. view' \in [Socket -> ViewType]
    BY <1>1, <1>2, <2>1, JoinedType DEF CreateCluster
  <2>3. ic' = [ic EXCEPT ![s] = Alone(me)] /\ ic' \in [Socket -> ICType]
    BY <1>1, <1>2, <2>1, AloneType DEF CreateCluster
  <2>4. TypeOK'
    BY <2>1, <2>2, <2>3 DEF Typed, TypeOK, PingTimeout, CreateCluster, ICType, ViewType
  <2>5. NodesInOrder'
    BY <2>1, <2>3 DEF Typed, TypeOK, NodesInOrder, PingTimeout, CreateCluster
  <2> QED  BY <2>4, <2>5 DEF Typed
<1>4. CASE count[s] # 0
  <2>1. SendPings(s, me, count[s]) /\ UNCHANGED <<status, ic, view>>
    BY <1>4 DEF PingTimeout
  <2>2. net' \in SUBSET Message
    BY <1>1, <1>2, <2>1, ClusterAssumption, PostType DEF SendPings, Message
  <2>3. count' \in [Socket -> 0..NumPings]
    <3>1. count \in [Socket -> 0..NumPings] /\ count[s] \in 0..NumPings
      BY DEF Typed, TypeOK
    <3>2. count[s] - 1 \in 0..NumPings
      BY <1>4, <3>1, ClusterAssumption
    <3> QED  BY <2>1, <3>1, <3>2 DEF SendPings
  <2>4. TypeOK'
    BY <2>1, <2>2, <2>3 DEF Typed, TypeOK, PingTimeout
  <2>5. NodesInOrder'
    BY <2>1 DEF Typed, NodesInOrder, PingTimeout
  <2> QED  BY <2>4, <2>5 DEF Typed
<1> QED  BY <1>3, <1>4

LEMMA MessageFields ==
  ASSUME NEW msg \in Message
  PROVE  /\ msg.kind \in {"State", "Ping", "ReqGossip", "ReqHeartbeat"}
         /\ msg.kind = "State" => msg.gossip \in GossipOver(Member)
         /\ msg.kind # "State" => msg.from \in Member
BY DEF Message

LEMMA EnterType ==
  ASSUME Typed, NEW s \in Socket, NEW me \in Member, NEW gossip \in GossipOver(Member),
         NEW rest \in SUBSET Message, EnterCluster(s, me, gossip, rest)
  PROVE  /\ ic' \in [Socket -> ICType]
         /\ \A t \in Socket \ {s} : ic'[t] = ic[t]
         /\ ic'[s] = LET up == UpMembers(gossip)
                     IN  InCluster(gossip, up, RingOf(up), Charges(RingOf(up), me),
                                   NodeManagers(RingOf(up), me))
         /\ view' \in [Socket -> ViewType]
         /\ \A t \in Socket \ {s} : view'[t] = view[t]
         /\ view'[s] = IF view[s].phase \in {"none", "panicked"} THEN view[s]
                       ELSE Fold(view[s], Events({}, {}, me), UpMembers(gossip))
         /\ net' \in SUBSET Message
         /\ \A n \in net' \ rest : n.kind = "State" /\ n.gossip = gossip
         /\ status' = [status EXCEPT ![s] = "in_cluster"]
         /\ armed' = [armed EXCEPT ![s] = TRUE]
<1> DEFINE up == UpMembers(gossip)
           c  == InCluster(gossip, up, RingOf(up), Charges(RingOf(up), me),
                           NodeManagers(RingOf(up), me))
<1>1. up \in SUBSET Member /\ RingOf(up) \in Ring
  BY DEF UpMembers, GossipOver, Ring
<1>2. /\ WithResponsibility(InCluster(gossip, up, RingOf(up), {}, {}), me) = c
      /\ c \in ICType
  BY <1>1, ResponsibilityType
<1>3. view \in [Socket -> ViewType] /\ ic \in [Socket -> ICType]
  BY DEF Typed, TypeOK, ViewType, ICType
<1>4. /\ ic' = [ic EXCEPT ![s] = c]
      /\ GossipRound(c, me, {}, rest)
      /\ Notify(s, Events({}, {}, me), up)
  BY <1>2 DEF EnterCluster
<1>5. c.gossip = gossip
  BY DEF InCluster
<1>6. net' \in SUBSET Message /\ \A n \in net' \ rest : n.kind = "State" /\ n.gossip = gossip
  BY <1>2, <1>4, <1>5, RoundType
<1>7. /\ view' \in [Socket -> ViewType]
      /\ \A t \in Socket \ {s} : view'[t] = view[t]
      /\ view'[s] = IF view[s].phase \in {"none", "panicked"} THEN view[s]
                    ELSE Fold(view[s], Events({}, {}, me), up)
  BY <1>1, <1>3, <1>4, JoinedType
<1>8. /\ ic' \in [Socket -> ICType] /\ ic'[s] = c
      /\ \A t \in Socket \ {s} : ic'[t] = ic[t]
  BY <1>2, <1>3, <1>4
<1> QED  BY <1>6, <1>7, <1>8 DEF EnterCluster

LEMMA TypedPingedBySeed ==
  ASSUME Typed, NEW s \in Socket, NEW msg \in net, PingedBySeed(s, msg)
  PROVE  Typed'
<1> DEFINE gossip == [Nothing EXCEPT ![msg.from] = Up, ![self[s]] = Up]
<1>1. self[s] \in Member /\ msg \in Message /\ msg.from \in Member
  BY RunningIsMember, MessageFields DEF PingedBySeed, Typed, TypeOK
<1>2. gossip \in GossipOver(Member)
  BY <1>1 DEF GossipOver, Nothing, MachineState
<1>3. PICK rest \in AfterReceipt(msg) : EnterCluster(s, self[s], gossip, rest)
  BY DEF PingedBySeed
<1>4. rest \in SUBSET Message
  BY RestType DEF Typed, TypeOK
<1> HIDE DEF gossip
<1>5. TypeOK'
  <2>1. /\ ic' \in [Socket -> ICType] /\ view' \in [Socket -> ViewType]
        /\ net' \in SUBSET Message
        /\ status' = [status EXCEPT ![s] = "in_cluster"]
        /\ armed' = [armed EXCEPT ![s] = TRUE]
    BY <1>1, <1>2, <1>3, <1>4, EnterType
  <2> QED  BY <2>1 DEF Typed, TypeOK, PingedBySeed, ICType, ViewType
<1>6. NodesInOrder'
  BY <1>1, <1>2, <1>3, <1>4, EnterType DEF Typed, TypeOK, NodesInOrder, PingedBySeed
<1> QED  BY <1>5, <1>6 DEF Typed

LEMMA TypedWelcomed ==
  ASSUME Typed, NEW s \in Socket, NEW msg \in net, Welcomed(s, msg)
  PROVE  Typed'
<1> DEFINE wasDowned == msg.gossip[self[s]] = Down
           me == IF wasDowned THEN NextMember(s) ELSE self[s]
           gossip == [msg.gossip EXCEPT ![me] = Up]
<1>1. /\ self[s] \in Member /\ self[s] = Incarnation(s, lastId[s])
      /\ msg \in Message /\ msg.gossip \in GossipOver(Member)
  BY RunningIsMember, MessageFields DEF Welcomed, Typed, TypeOK, NodesInOrder
<1>2. /\ me \in Member /\ me = Incarnation(s, me.id)
      /\ me.id \in Id /\ me.id \in {lastId[s], lastId[s] + 1}
  BY <1>1, NextIsMember DEF Welcomed, Incarnation, Member
<1>3. gossip \in GossipOver(Member)
  BY <1>1, <1>2 DEF GossipOver, MachineState
<1>4. PICK rest \in AfterReceipt(msg) : EnterCluster(s, me, gossip, rest)
  BY DEF Welcomed
<1>5. /\ self' = [self EXCEPT ![s] = me] /\ lastId' = [lastId EXCEPT ![s] = me.id]
      /\ UNCHANGED <<born, count, loose, downed, suspected>>
  BY DEF Welcomed
<1>6. rest \in SUBSET Message
  BY RestType DEF Typed, TypeOK
<1> HIDE DEF gossip, me
<1>7. TypeOK'
  <2>1. /\ ic' \in [Socket -> ICType] /\ view' \in [Socket -> ViewType]
        /\ net' \in SUBSET Message
        /\ status' = [status EXCEPT ![s] = "in_cluster"]
        /\ armed' = [armed EXCEPT ![s] = TRUE]
    BY <1>2, <1>3, <1>4, <1>6, EnterType
  <2> QED  BY <1>2, <1>5, <2>1 DEF Typed, TypeOK, ICType, ViewType
<1>8. NodesInOrder'
  BY <1>2, <1>3, <1>4, <1>5, <1>6, EnterType DEF Typed, TypeOK, NodesInOrder, Id, Welcomed
<1> QED  BY <1>7, <1>8 DEF Typed

LEMMA TypedAskMonitor ==
  ASSUME Typed, NEW s \in Socket, NEW msg \in net, AskMonitor(s, msg)
  PROVE  Typed'
<1>1. self[s] \in Member /\ msg \in Message /\ msg.from \in Member
  BY RunningIsMember, MessageFields DEF AskMonitor, Typed, TypeOK
<1> DEFINE req == [kind |-> "ReqGossip", to |-> msg.from.socket, from |-> self[s]]
<1>2. req \in Message
  BY <1>1 DEF Message, Member
<1>3. PICK rest \in AfterReceipt(msg) : Post(rest, {req})
  BY DEF AskMonitor
<1>4. rest \in SUBSET Message
  BY RestType DEF Typed, TypeOK
<1>5. net' \in SUBSET Message
  BY <1>2, <1>3, <1>4, PostType
<1> QED  BY <1>5 DEF Typed, TypeOK, NodesInOrder, AskMonitor

LEMMA TypedGossipRequested ==
  ASSUME Typed, NEW s \in Socket, NEW msg \in net, GossipRequested(s, msg)
  PROVE  Typed'
<1>1. msg.from \in Member /\ ic[s].gossip \in GossipOver(Member)
  BY MessageFields DEF GossipRequested, Typed, TypeOK
<1>2. StateMsgs({msg.from}, ic[s].gossip) \in SUBSET Message
  BY <1>1 DEF StateMsgs, Message, Member
<1>3. PICK rest \in AfterReceipt(msg) : Post(rest, StateMsgs({msg.from}, ic[s].gossip))
  BY DEF GossipRequested
<1>4. rest \in SUBSET Message
  BY RestType DEF Typed, TypeOK
<1>5. net' \in SUBSET Message
  BY <1>2, <1>3, <1>4, PostType
<1> QED  BY <1>5 DEF Typed, TypeOK, NodesInOrder, GossipRequested

LEMMA TypedRequestHeartbeat ==
  ASSUME Typed, NEW s \in Socket, NEW m \in Member, RequestHeartbeat(s, m)
  PROVE  Typed'
<1>1. status[s] = "in_cluster"
  BY DEF Typed, TypeOK, NodesInOrder, RequestHeartbeat, NotInCluster, InCluster
<1>2. self[s] \in Member
  BY <1>1, RunningIsMember
<1> DEFINE req == [kind |-> "ReqHeartbeat", to |-> m.socket, from |-> self[s], id |-> m.id]
<1>3. req \in Message
  BY <1>2 DEF Message, Member
<1>4. net' \in SUBSET Message
  BY <1>3, PostType DEF RequestHeartbeat, Typed, TypeOK
<1> QED  BY <1>4 DEF Typed, TypeOK, NodesInOrder, RequestHeartbeat

LEMMA TypedGossipTimeout ==
  ASSUME Typed, NEW s \in Socket, GossipTimeout(s)
  PROVE  Typed'
<1>1. self[s] \in Member /\ ic[s] \in ICType
  BY RunningIsMember DEF GossipTimeout, Typed, TypeOK, ICType
<1> DEFINE others == ic[s].members \ {self[s]}
           reqs(asked) == {[kind |-> "ReqGossip", to |-> m.socket, from |-> self[s]] : m \in asked}
<1>2. PICK targets \in GossipTargets(ic[s], self[s], {}) :
        \E asked \in Asked(ic[s], self[s]) :
          Post(net, StateMsgs(targets, ic[s].gossip) \cup reqs(asked))
  BY DEF GossipTimeout
<1>3. PICK asked \in SUBSET others : Post(net, StateMsgs(targets, ic[s].gossip) \cup reqs(asked))
  BY <1>2 DEF Asked, kSubset
<1>4. targets \in SUBSET Member /\ asked \in SUBSET Member
  BY <1>1, <1>2 DEF GossipTargets, kSubset, ICType
<1>5. StateMsgs(targets, ic[s].gossip) \in SUBSET Message /\ reqs(asked) \in SUBSET Message
  BY <1>1, <1>4 DEF StateMsgs, Message, Member, ICType
<1>6. net' \in SUBSET Message
  BY <1>3, <1>5, PostType DEF Typed, TypeOK
<1> QED  BY <1>6 DEF Typed, TypeOK, NodesInOrder, GossipTimeout

LEMMA TypedLocal ==
  ASSUME Typed, NEW s \in Socket,
         \/ TimerFires(s)
         \/ \E msg \in net : Unheeded(s, msg)
         \/ \E m \in Member : GiveUpOn(s, m)
  PROVE  Typed'
<1>1. CASE TimerFires(s)
  BY <1>1, ClusterAssumption DEF Typed, TypeOK, NodesInOrder, TimerFires
<1>2. CASE \E msg \in net : Unheeded(s, msg)
  BY <1>2 DEF Typed, TypeOK, NodesInOrder, Unheeded
<1>3. ASSUME NEW m \in Member, GiveUpOn(s, m) PROVE Typed'
  <2>1. status[s] = "in_cluster"
    BY <1>3 DEF Typed, TypeOK, NodesInOrder, GiveUpOn, NotInCluster, InCluster
  <2> QED  BY <1>3, <2>1 DEF Typed, TypeOK, NodesInOrder, GiveUpOn
<1> QED  BY <1>1, <1>2, <1>3

\* What a node holds once gossip, members and ring have changed and charges
\* and managers were recomputed for `me`.
Recomputed(gossip, members, ring, me) ==
  InCluster(gossip, members, ring, Charges(ring, me), NodeManagers(ring, me))

LEMMA RecomputedFields ==
  ASSUME NEW gossip, NEW members, NEW ring, NEW me
  PROVE  /\ Recomputed(gossip, members, ring, me).gossip = gossip
         /\ Recomputed(gossip, members, ring, me).members = members
         /\ Recomputed(gossip, members, ring, me).ring = ring
         /\ Recomputed(gossip, members, ring, me).charges = Charges(ring, me)
         /\ Recomputed(gossip, members, ring, me).managers = NodeManagers(ring, me)
BY DEF Recomputed, InCluster

LEMMA PingedEffect ==
  ASSUME Typed, NEW s \in Socket, NEW msg \in net, Pinged(s, msg)
  PROVE  LET old == ic[s]
             new == ~Knows(old.gossip, msg.from)
             c   == IF new
                    THEN Recomputed([old.gossip EXCEPT ![msg.from] = Up],
                                    old.members \cup {msg.from},
                                    InsertAll(old.ring, {msg.from}), self[s])
                    ELSE old
         IN  /\ msg.from \in Member /\ c \in ICType
             /\ ic' = [ic EXCEPT ![s] = c]
             /\ Notify(s, Events(IF new THEN {msg.from} ELSE {}, {}, NoMember), c.members)
             /\ view' \in [Socket -> ViewType]
             /\ net' \in SUBSET Message
             /\ \A n \in net' \ net : n.kind = "State" /\ n.gossip = c.gossip
<1> DEFINE old == ic[s]
           new == ~Knows(old.gossip, msg.from)
           gossip  == [old.gossip EXCEPT ![msg.from] = Up]
           members == old.members \cup {msg.from}
           ring    == InsertAll(old.ring, {msg.from})
           c == IF new THEN Recomputed(gossip, members, ring, self[s]) ELSE old
<1>1. /\ self[s] \in Member /\ old \in ICType /\ msg.from \in Member
      /\ view \in [Socket -> ViewType]
  BY RunningIsMember, MessageFields DEF Pinged, Typed, TypeOK, ICType, ViewType
<1>2. /\ gossip \in GossipOver(Member) /\ members \in SUBSET Member /\ ring \in Ring
      /\ old.charges \in SUBSET Member /\ old.managers \in SUBSET Member
  BY <1>1, RingMoves DEF ICType, GossipOver, MachineState
<1> HIDE DEF gossip, members, ring
<1>3. /\ WithResponsibility(InCluster(gossip, members, ring, old.charges, old.managers), self[s])
           = Recomputed(gossip, members, ring, self[s])
      /\ Recomputed(gossip, members, ring, self[s]) \in ICType
  BY <1>1, <1>2, ResponsibilityType DEF Recomputed
<1>4. /\ ic' = [ic EXCEPT ![s] = c]
      /\ Notify(s, Events(IF new THEN {msg.from} ELSE {}, {}, NoMember), c.members)
      /\ \E rest \in AfterReceipt(msg) : GossipRound(c, self[s], {msg.from}, rest)
  BY <1>3 DEF Pinged, Insert, gossip, members, ring
<1>5. c \in ICType
  BY <1>1, <1>3
<1> HIDE DEF c
<1>6. view' \in [Socket -> ViewType]
  <2> DEFINE added == IF new THEN {msg.from} ELSE {}
  <2>1. added \in SUBSET Member /\ c.members \in SUBSET Member
    BY <1>1, <1>5 DEF ICType
  <2>2. Notify(s, Events(added, {}, NoMember), c.members)
    BY <1>4
  <2> HIDE DEF added
  <2> QED  BY <1>1, <2>1, <2>2, NotifyType
<1>7. net' \in SUBSET Message /\ \A n \in net' \ net : n.kind = "State" /\ n.gossip = c.gossip
  <2>1. PICK rest \in AfterReceipt(msg) : GossipRound(c, self[s], {msg.from}, rest)
    BY <1>4
  <2>2. rest \subseteq net /\ rest \in SUBSET Message
    BY RestType DEF Typed, TypeOK
  <2> QED  BY <1>1, <1>5, <2>1, <2>2, RoundType
<1> QED  BY <1>1, <1>4, <1>5, <1>6, <1>7 DEF c, gossip, members, ring

LEMMA TypedPinged ==
  ASSUME Typed, NEW s \in Socket, NEW msg \in net, Pinged(s, msg)
  PROVE  Typed'
<1>1. PICK c \in ICType : ic' = [ic EXCEPT ![s] = c]
  BY PingedEffect
<1>2. view' \in [Socket -> ViewType] /\ net' \in SUBSET Message
  BY PingedEffect
<1>3. TypeOK'
  <2>1. UNCHANGED <<status, self, born, count, armed, loose, downed, lastId, suspected>>
    BY DEF Pinged
  <2> QED  BY <1>1, <1>2, <2>1 DEF Typed, TypeOK, ICType, ViewType
<1>4. NodesInOrder'
  BY <1>1 DEF Typed, TypeOK, NodesInOrder, Pinged
<1> QED  BY <1>3, <1>4 DEF Typed

LEMMA DownedEffect ==
  ASSUME Typed, NEW s \in Socket, NEW m \in Member, Downed(s, m), ic[s].gossip[m] = Up
  PROVE  LET old == ic[s]
             c   == Recomputed([old.gossip EXCEPT ![m] = Down], old.members \ {m},
                               RemoveAll(old.ring, {m}), self[s])
         IN  /\ c \in ICType
             /\ ic' = [ic EXCEPT ![s] = c]
             /\ Notify(s, Events({}, {m}, NoMember), c.members)
             /\ view' \in [Socket -> ViewType]
             /\ net' \in SUBSET Message
             /\ \A n \in net' \ net : n.kind = "State" /\ n.gossip = c.gossip
<1> DEFINE old == ic[s]
           gossip  == [old.gossip EXCEPT ![m] = Down]
           members == old.members \ {m}
           ring    == RemoveAll(old.ring, {m})
           c == Recomputed(gossip, members, ring, self[s])
<1>1. /\ self[s] \in Member /\ old \in ICType /\ view \in [Socket -> ViewType]
      /\ net \in SUBSET Message
  BY RunningIsMember DEF Downed, Typed, TypeOK, ICType, ViewType
<1>2. /\ gossip \in GossipOver(Member) /\ members \in SUBSET Member /\ ring \in Ring
      /\ old.charges \in SUBSET Member /\ old.managers \in SUBSET Member
  BY <1>1, RingMoves DEF ICType, GossipOver, MachineState
<1> HIDE DEF gossip, members, ring
<1>3. /\ WithResponsibility(InCluster(gossip, members, ring, old.charges, old.managers), self[s]) = c
      /\ c \in ICType
  BY <1>1, <1>2, ResponsibilityType DEF Recomputed
<1>4. /\ ic' = [ic EXCEPT ![s] = c]
      /\ Notify(s, Events({}, {m}, NoMember), c.members)
      /\ GossipRound(c, self[s], {m}, net)
  BY <1>3 DEF Downed, Remove, MarkDown, gossip, members, ring
<1> HIDE DEF c
<1>5. view' \in [Socket -> ViewType]
  <2>1. {m} \in SUBSET Member /\ {} \in SUBSET Member /\ c.members \in SUBSET Member
    BY <1>3 DEF ICType
  <2> QED  BY <1>1, <1>4, <2>1, NotifyType
<1>6. net' \in SUBSET Message /\ \A n \in net' \ net : n.kind = "State" /\ n.gossip = c.gossip
  BY <1>1, <1>3, <1>4, RoundType
<1> QED  BY <1>3, <1>4, <1>5, <1>6 DEF c, gossip, members, ring

LEMMA TypedDowned ==
  ASSUME Typed, NEW s \in Socket, NEW m \in Member, Downed(s, m)
  PROVE  Typed'
<1>1. CASE ic[s].gossip[m] = Up
  <2>1. PICK c \in ICType : ic' = [ic EXCEPT ![s] = c]
    BY <1>1, DownedEffect
  <2>2. view' \in [Socket -> ViewType] /\ net' \in SUBSET Message
    BY <1>1, DownedEffect
  <2>3. TypeOK'
    <3>1. /\ downed' = [downed EXCEPT ![s] = @ \ {m}]
          /\ UNCHANGED <<status, self, born, count, armed, loose, lastId, suspected>>
      BY DEF Downed
    <3>2. downed' \in [Socket -> SUBSET Member]
      BY <3>1 DEF Typed, TypeOK
    <3> QED  BY <2>1, <2>2, <3>1, <3>2 DEF Typed, TypeOK, ICType, ViewType
  <2>4. NodesInOrder'
    BY <2>1 DEF Typed, TypeOK, NodesInOrder, Downed
  <2> QED  BY <2>3, <2>4 DEF Typed
<1>2. CASE ic[s].gossip[m] # Up
  BY <1>2 DEF Typed, TypeOK, NodesInOrder, Downed
<1> QED  BY <1>1, <1>2

\* What gossip leaves of InCluster, with the new self in fresh if there is one.
GossipedEffectOf(s, msg, fresh) ==
  LET old     == ic[s]
      added   == AddedBy(old.gossip, msg.gossip)
      removed == RemovedBy(old.gossip, msg.gossip)
      merged  == Merge(old.gossip, msg.gossip)
      me      == IF fresh = {} THEN self[s] ELSE NextMember(s)
  IN  Recomputed([m \in Member |-> IF m \in fresh THEN Up ELSE merged[m]],
                 (old.members \ removed) \cup added \cup fresh,
                 InsertAll(RemoveAll(old.ring, removed), added \cup fresh), me)

LEMMA GossipedEffect ==
  ASSUME Typed, NEW s \in Socket, NEW msg \in net, Gossiped(s, msg)
  PROVE  LET old     == ic[s]
             added   == AddedBy(old.gossip, msg.gossip)
             removed == RemovedBy(old.gossip, msg.gossip)
             fresh   == IF self[s] \in removed THEN {NextMember(s)} ELSE {}
             me      == IF fresh = {} THEN self[s] ELSE NextMember(s)
             c       == GossipedEffectOf(s, msg, fresh)
         IN  /\ msg.gossip \in GossipOver(Member) /\ msg.kind = "State"
             /\ fresh # {} => lastId[s] < MaxId
             /\ added \in SUBSET Member /\ removed \in SUBSET Member
             /\ me \in Member
             /\ self' = [self EXCEPT ![s] = me]
             /\ lastId' = [lastId EXCEPT ![s] = me.id]
             /\ c \in ICType
             /\ ic' = [ic EXCEPT ![s] = c]
             /\ Notify(s, Events(added, removed, IF fresh # {} THEN me ELSE NoMember), c.members)
             /\ view' \in [Socket -> ViewType]
             /\ net' \in SUBSET Message
             /\ \A n \in net' \ net : n.kind = "State" /\ n.gossip = c.gossip
             /\ armed' = [armed EXCEPT ![s] = TRUE]
<1> DEFINE old     == ic[s]
           added   == AddedBy(old.gossip, msg.gossip)
           removed == RemovedBy(old.gossip, msg.gossip)
           fresh   == IF self[s] \in removed THEN {NextMember(s)} ELSE {}
           me      == IF fresh = {} THEN self[s] ELSE NextMember(s)
           merged  == Merge(old.gossip, msg.gossip)
           gossip  == [m \in Member |-> IF m \in fresh THEN Up ELSE merged[m]]
           members == (old.members \ removed) \cup added \cup fresh
           ring    == InsertAll(RemoveAll(old.ring, removed), added \cup fresh)
           c       == GossipedEffectOf(s, msg, fresh)
           absorbed == Absorb(old, msg.gossip, added, removed, fresh)
<1>1. /\ self[s] \in Member /\ old \in ICType /\ view \in [Socket -> ViewType]
      /\ net \in SUBSET Message /\ old.gossip \in GossipOver(Member)
      /\ msg.gossip \in GossipOver(Member) /\ msg.kind = "State"
  BY RunningIsMember, MessageFields DEF Gossiped, Typed, TypeOK, ICType, ViewType
<1>2. added \in SUBSET Member /\ removed \in SUBSET Member /\ merged \in GossipOver(Member)
  BY <1>1, MergeIsSemilattice DEF AddedBy, RemovedBy, Changes, GossipOver
<1>3. /\ fresh # {} => lastId[s] < MaxId
      /\ self' = [self EXCEPT ![s] = me]
      /\ lastId' = [lastId EXCEPT ![s] = me.id]
      /\ ic' = [ic EXCEPT ![s] = WithResponsibility(absorbed, me)]
      /\ \E rest \in AfterReceipt(msg) :
           IF added \cup removed # {} THEN GossipRound(absorbed, me, {}, rest) ELSE net' = rest
      /\ Notify(s, Events(added, removed, IF fresh # {} THEN me ELSE NoMember), absorbed.members)
      /\ armed' = [armed EXCEPT ![s] = TRUE]
  <2> DEFINE Outcome(a, r, f, m, k) ==
               /\ self' = [self EXCEPT ![s] = m]
               /\ lastId' = [lastId EXCEPT ![s] = m.id]
               /\ ic' = [ic EXCEPT ![s] = WithResponsibility(k, m)]
               /\ \E rest \in AfterReceipt(msg) :
                    IF a \cup r # {} THEN GossipRound(k, m, {}, rest) ELSE net' = rest
               /\ Notify(s, Events(a, r, IF f # {} THEN m ELSE NoMember), k.members)
  <2>1. \E a \in {added}, r \in {removed} :
        \E f \in {IF Reborn(s, r) THEN {NextMember(s)} ELSE {}} :
          /\ f # {} => lastId[s] < MaxId
          /\ \E m \in IF f # {} THEN f ELSE {self[s]}, k \in {Absorb(old, msg.gossip, a, r, f)} :
               Outcome(a, r, f, m, k)
    BY DEF Gossiped
  <2> HIDE DEF Outcome, added, removed
  <2>2. /\ fresh # {} => lastId[s] < MaxId
        /\ \E m \in IF fresh # {} THEN fresh ELSE {self[s]} :
             Outcome(added, removed, fresh, m, absorbed)
    BY <2>1 DEF Reborn
  <2>3. \A m : m \in (IF fresh # {} THEN fresh ELSE {self[s]}) => m = me
    OBVIOUS
  <2>4. Outcome(added, removed, fresh, me, absorbed)
    BY <2>2, <2>3
  <2>5. armed' = [armed EXCEPT ![s] = TRUE]
    BY DEF Gossiped
  <2> QED  BY <2>2, <2>4, <2>5 DEF Outcome
<1>4. me \in Member /\ fresh \in SUBSET Member
  BY <1>1, <1>3, NextIsMember
<1> HIDE DEF fresh, me, added, removed
<1>5. /\ gossip \in GossipOver(Member) /\ members \in SUBSET Member /\ ring \in Ring
      /\ old.charges \in SUBSET Member /\ old.managers \in SUBSET Member
  BY <1>1, <1>2, <1>4, RingMoves DEF ICType, GossipOver, MachineState
<1>6. absorbed = InCluster(gossip, members, ring, old.charges, old.managers)
  BY DEF Absorb
<1>7. c = Recomputed(gossip, members, ring, me)
  BY DEF GossipedEffectOf, added, removed, me
<1> HIDE DEF gossip, members, ring, absorbed, c
<1>8. /\ WithResponsibility(absorbed, me) = c /\ c \in ICType /\ absorbed \in ICType
      /\ absorbed.members = c.members /\ absorbed.gossip = c.gossip
  BY <1>4, <1>5, <1>6, <1>7, ResponsibilityType DEF Recomputed, InCluster
<1>9. view' \in [Socket -> ViewType]
  <2> DEFINE named == IF fresh # {} THEN me ELSE NoMember
  <2>1. named \in Member \cup {NoMember} /\ absorbed.members \in SUBSET Member
    BY <1>4, <1>8 DEF ICType
  <2>2. Notify(s, Events(added, removed, named), absorbed.members)
    BY <1>3
  <2> HIDE DEF named
  <2> QED  BY <1>1, <1>2, <2>1, <2>2, NotifyType
<1>10. net' \in SUBSET Message /\ \A n \in net' \ net : n.kind = "State" /\ n.gossip = c.gossip
  <2>1. PICK rest \in AfterReceipt(msg) :
          IF added \cup removed # {} THEN GossipRound(absorbed, me, {}, rest) ELSE net' = rest
    BY <1>3
  <2>2. rest \subseteq net /\ rest \in SUBSET Message
    BY <1>1, RestType
  <2>3. CASE added \cup removed # {}
    BY <1>4, <1>8, <2>1, <2>2, <2>3, RoundType
  <2>4. CASE added \cup removed = {}
    BY <2>1, <2>2, <2>4
  <2> QED  BY <2>3, <2>4
<1> QED  BY <1>1, <1>2, <1>3, <1>4, <1>8, <1>9, <1>10 DEF c, fresh, me, added, removed

LEMMA TypedGossiped ==
  ASSUME Typed, NEW s \in Socket, NEW msg \in net, Gossiped(s, msg)
  PROVE  Typed'
<1>1. PICK c \in ICType : ic' = [ic EXCEPT ![s] = c]
  BY GossipedEffect
<1>2. PICK me \in Member : /\ self' = [self EXCEPT ![s] = me]
                           /\ lastId' = [lastId EXCEPT ![s] = me.id]
                           /\ me \in {self[s], NextMember(s)}
                           /\ me = NextMember(s) => lastId[s] < MaxId \/ me = self[s]
  BY GossipedEffect
<1>3. /\ view' \in [Socket -> ViewType] /\ net' \in SUBSET Message
      /\ armed' = [armed EXCEPT ![s] = TRUE]
      /\ UNCHANGED <<status, born, count, loose, downed, suspected>>
      /\ status[s] = "in_cluster"
  BY GossipedEffect DEF Gossiped
<1>4. me.id \in Id /\ me = Incarnation(s, me.id) /\ me.id \in {lastId[s], lastId[s] + 1}
  <2>1. CASE me = self[s]
    BY <1>3, <2>1, RunningIsMember DEF Typed, NodesInOrder, Member, Incarnation
  <2>2. CASE me # self[s]
    BY <1>2, <2>2, NextIsMember
  <2> QED  BY <2>1, <2>2
<1>5. TypeOK'
  BY <1>1, <1>2, <1>3, <1>4 DEF Typed, TypeOK, ICType, ViewType
<1>6. NodesInOrder'
  BY <1>1, <1>2, <1>3, <1>4 DEF Typed, TypeOK, NodesInOrder, Id
<1> QED  BY <1>5, <1>6 DEF Typed

LEMMA TypedNext == Typed /\ [Next]_vars => Typed'
<1> SUFFICES ASSUME Typed, [Next]_vars PROVE Typed'
  OBVIOUS
<1>1. ASSUME NEW s \in Socket, Start(s) \/ Stop(s) \/ Subscribe(s) \/ PingTimeout(s)
      PROVE  Typed'
  BY <1>1, TypedStart, TypedStop, TypedSubscribe, TypedPingTimeout
<1>2. ASSUME NEW s \in Socket, NEW msg \in net, Receive(s, msg) PROVE Typed'
  BY <1>2, TypedPingedBySeed, TypedWelcomed, TypedAskMonitor, TypedPinged, TypedGossiped,
     TypedGossipRequested, TypedLocal DEF Receive
<1>3. ASSUME NEW s \in Socket, TimerFires(s) \/ GossipTimeout(s) PROVE Typed'
  BY <1>3, TypedLocal, TypedGossipTimeout
<1>4. ASSUME NEW s \in Socket, NEW m \in Member,
             RequestHeartbeat(s, m) \/ GiveUpOn(s, m) \/ Downed(s, m)
      PROVE  Typed'
  BY <1>4, TypedRequestHeartbeat, TypedLocal, TypedDowned
<1>5. CASE UNCHANGED vars
  BY <1>5 DEF vars, Typed, TypeOK, NodesInOrder
<1> QED  BY <1>1, <1>2, <1>3, <1>4, <1>5 DEF Next

(* Type correctness of the membership protocol: in particular every node   *)
(* in a cluster keeps a ring that some set of members makes.               *)
THEOREM TypeCorrect == Spec => []TypeOK
<1>1. Typed => TypeOK
  BY DEF Typed
<1> QED  BY <1>1, TypedInit, TypedNext, PTL DEF Spec
-----------------------------------------------------------------------------
\* All members that g knows have been started.
Started(g) == \A m \in Member : Knows(g, m) => m.id <= lastId[m.socket]

HeardMessage(n) ==
  IF n.kind = "State" THEN Started(n.gossip) ELSE n.from.id <= lastId[n.from.socket]

Heard == /\ \A s \in Socket : Started(ic[s].gossip)
         /\ \A n \in net : HeardMessage(n)

\* No step takes an identifier back, and a step of one node leaves the
\* InCluster of the others alone.
StepOf(s) == /\ \A t \in Socket : lastId[t] <= lastId'[t]
             /\ \A t \in Socket \ {s} : ic'[t] = ic[t]

LEMMA SameIds ==
  ASSUME Typed, lastId' = lastId
  PROVE  \A t \in Socket : lastId[t] <= lastId'[t]
<1>1. \A t \in Socket : lastId[t] \in Int
  BY DEF Typed, TypeOK, Id
<1> QED  BY <1>1

LEMMA StartedStays ==
  ASSUME Typed, Typed', \A t \in Socket : lastId[t] <= lastId'[t],
         NEW g \in GossipOver(Member), Started(g)
  PROVE  Started(g)'
<1>1. \A t \in Socket : lastId[t] \in Int /\ lastId'[t] \in Int
  BY DEF Typed, TypeOK, Id
<1> SUFFICES ASSUME NEW m \in Member, Knows(g, m) PROVE m.id <= lastId'[m.socket]
  BY DEF Started
<1>2. m.id <= lastId[m.socket] /\ m.socket \in Socket /\ m.id \in Int
  BY DEF Started, Member, Id
<1> QED  BY <1>1, <1>2

LEMMA HeardStep ==
  ASSUME Typed, Typed', Heard, NEW s \in Socket, StepOf(s), Started(ic[s].gossip)',
         \A n \in net' \ net : HeardMessage(n)'
  PROVE  Heard'
<1>1. \A g \in GossipOver(Member) : Started(g) => Started(g)'
  BY StartedStays DEF StepOf
<1>2. \A t \in Socket : ic[t].gossip \in GossipOver(Member)
  BY DEF Typed, TypeOK
<1>3. ASSUME NEW t \in Socket PROVE Started(ic[t].gossip)'
  <2>1. CASE t = s
    BY <2>1
  <2>2. CASE t # s
    <3>1. ic'[t] = ic[t]
      BY <2>2 DEF StepOf
    <3>2. Started(ic[t].gossip)
      BY DEF Heard
    <3> DEFINE g == ic[t].gossip
    <3>3. \A m \in Member : Knows(g, m) => m.id <= lastId'[m.socket]
      BY <1>1, <1>2, <3>2 DEF Started
    <3> QED  BY <3>1, <3>3 DEF Started
  <2> QED  BY <2>1, <2>2
<1>4. ASSUME NEW n \in net' PROVE HeardMessage(n)'
  <2>1. CASE n \in net
    <3>1. HeardMessage(n) /\ n \in Message
      BY <2>1 DEF Heard, Typed, TypeOK
    <3>2. CASE n.kind = "State"
      BY <1>1, <3>1, <3>2, MessageFields DEF HeardMessage
    <3>3. CASE n.kind # "State"
      <4>1. n.from \in Member /\ n.from.id <= lastId[n.from.socket]
        BY <3>1, <3>3, MessageFields DEF HeardMessage
      <4>2. n.from.socket \in Socket /\ n.from.id \in Int
        BY <4>1 DEF Member, Id
      <4>3. \A t \in Socket : lastId[t] \in Int /\ lastId'[t] \in Int /\ lastId[t] <= lastId'[t]
        BY DEF Typed, TypeOK, Id, StepOf
      <4>4. n.from.id <= lastId'[n.from.socket]
        BY <4>1, <4>2, <4>3
      <4> QED  BY <3>3, <4>4 DEF HeardMessage
    <3> QED  BY <3>2, <3>3
  <2>2. CASE n \notin net
    BY <2>2
  <2> QED  BY <2>1, <2>2
<1> QED  BY <1>3, <1>4 DEF Heard
-----------------------------------------------------------------------------
NodeCoherent(s) ==
  status[s] = "in_cluster" =>
    /\ ic[s].members = UpMembers(ic[s].gossip)
    /\ ic[s].ring = RingOf(ic[s].members)
    /\ ic[s].charges = Charges(ic[s].ring, self[s])
    /\ ic[s].managers = NodeManagers(ic[s].ring, self[s])
    /\ ic[s].gossip[self[s]] = Up
    /\ \A m \in downed[s] : m # self[s] /\ Knows(ic[s].gossip, m)

Coherent == \A s \in Socket : NodeCoherent(s)

Known == Typed /\ Heard /\ Coherent

OthersStay(s) ==
  \A t \in Socket \ {s} : /\ status'[t] = status[t] /\ self'[t] = self[t]
                          /\ ic'[t] = ic[t] /\ downed'[t] = downed[t]

LEMMA CoherentStep ==
  ASSUME Coherent, NEW s \in Socket, OthersStay(s), NodeCoherent(s)'
  PROVE  Coherent'
<1> SUFFICES ASSUME NEW t \in Socket PROVE NodeCoherent(t)'
  BY DEF Coherent
<1>1. CASE t = s
  BY <1>1
<1>2. CASE t # s
  BY <1>2 DEF Coherent, OthersStay, NodeCoherent
<1> QED  BY <1>1, <1>2

\* Steps that at most send something other than gossip, or a node's gossip.
LEMMA QuietStep ==
  ASSUME Known, Typed', UNCHANGED <<status, self, ic, downed, lastId>>,
         \A n \in net' \ net :
           \/ n.kind = "State" /\ \E s \in Socket : n.gossip = ic[s].gossip
           \/ n.kind # "State" /\ \E s \in Socket : status[s] # "left" /\ n.from = self[s]
  PROVE  Known'
<1>1. Coherent'
  BY DEF Known, Coherent, NodeCoherent
<1>2. ASSUME NEW n \in net' PROVE HeardMessage(n)'
  <2>1. CASE n \in net
    BY <2>1 DEF Known, Heard, HeardMessage, Started
  <2>2. CASE \E s \in Socket : n.kind = "State" /\ n.gossip = ic[s].gossip
    BY <2>2 DEF Known, Heard, HeardMessage, Started
  <2>3. ASSUME NEW s \in Socket, n.kind # "State", status[s] # "left", n.from = self[s]
        PROVE HeardMessage(n)'
    <3>1. n.from.socket = s /\ n.from.id = lastId[s] /\ lastId[s] \in Nat
      BY <2>3, RunningIsMember DEF Known, Typed, TypeOK, Id
    <3> QED  BY <2>3, <3>1 DEF HeardMessage
  <2> QED  BY <2>1, <2>2, <2>3
<1>3. Heard'
  BY <1>2 DEF Known, Heard, Started
<1> QED  BY <1>1, <1>3 DEF Known

LEMMA AloneCoherent ==
  ASSUME NEW me \in Member
  PROVE  /\ UpMembers(Alone(me).gossip) = {me}
         /\ \A m \in Member : Knows(Alone(me).gossip, m) => m = me
         /\ Alone(me).gossip[me] = Up
         /\ Alone(me).charges = Charges(RingOf({me}), me)
         /\ Alone(me).managers = NodeManagers(RingOf({me}), me)
<1>1. /\ Alone(me).gossip = [Nothing EXCEPT ![me] = Up]
      /\ Alone(me).charges = {} /\ Alone(me).managers = {}
  BY AloneType DEF Alone, InCluster
<1>2. Charges(RingOf({me}), me) = {} /\ NodeManagers(RingOf({me}), me) = {}
  BY ResponsibleAreMembers, ChainIsGood, RingAssumption
<1>3. /\ UpMembers(Alone(me).gossip) = {me} /\ Alone(me).gossip[me] = Up
      /\ \A m \in Member : Knows(Alone(me).gossip, m) => m = me
  BY <1>1 DEF UpMembers, Nothing, Knows, Absent, Up
<1> QED  BY <1>1, <1>2, <1>3

(* A node that founds a cluster of its own.                                *)
LEMMA FoundsCluster ==
  ASSUME Known, Typed', NEW s \in Socket, NEW me \in Member, CreateCluster(s, me),
         status[s] # "in_cluster", me.socket = s, me.id = lastId'[s], self'[s] = me,
         \A t \in Socket : lastId[t] <= lastId'[t],
         \A t \in Socket \ {s} : self'[t] = self[t],
         UNCHANGED <<net, downed>>
  PROVE  Known'
<1>1. /\ ic' = [ic EXCEPT ![s] = Alone(me)]
      /\ status' = [status EXCEPT ![s] = "in_cluster"]
  BY DEF CreateCluster
<1>2. ic'[s] = Alone(me) /\ status'[s] = "in_cluster" /\ OthersStay(s) /\ StepOf(s)
  BY <1>1 DEF Known, Typed, TypeOK, OthersStay, StepOf
<1>3. downed'[s] = {}
  BY DEF Known, Typed, NodesInOrder
<1>4. Coherent'
  <2>1. NodeCoherent(s)'
    <3>1. /\ Alone(me).members = UpMembers(Alone(me).gossip)
          /\ Alone(me).ring = RingOf(Alone(me).members)
          /\ Alone(me).charges = Charges(Alone(me).ring, me)
          /\ Alone(me).managers = NodeManagers(Alone(me).ring, me)
          /\ Alone(me).gossip[me] = Up
      BY AloneCoherent, AloneType
    <3>2. ic'[s] = Alone(me) /\ self'[s] = me /\ downed'[s] = {}
      BY <1>2, <1>3
    <3> QED  BY <3>1, <3>2 DEF NodeCoherent
  <2> QED  BY <1>2, <2>1, CoherentStep DEF Known
<1>5. Heard'
  <2>1. \A m \in Member : Knows(ic'[s].gossip, m) => m.id <= lastId'[m.socket]
    <3>1. lastId'[s] \in Int /\ lastId'[me.socket] = lastId'[s]
      BY DEF Typed, TypeOK, Id
    <3>2. me.id <= lastId'[me.socket]
      BY <3>1
    <3>3. \A m \in Member : Knows(Alone(me).gossip, m) => m = me
      BY AloneCoherent
    <3>4. ic'[s] = Alone(me)
      BY <1>2
    <3> QED  BY <3>2, <3>3, <3>4
  <2>2. Started(ic[s].gossip)'
    BY <2>1 DEF Started
  <2> QED  BY <1>2, <2>2, HeardStep DEF Known
<1> QED  BY <1>4, <1>5 DEF Known

LEMMA KnownStart ==
  ASSUME Known, NEW s \in Socket, Start(s)
  PROVE  Known'
<1> DEFINE me == NextMember(s)
<1>1. Typed' /\ Typed
  BY TypedStart DEF Known
<1>2. /\ me \in Member /\ me.socket = s /\ me.id = lastId[s] + 1
      /\ me = Incarnation(s, lastId[s] + 1)
  BY <1>1, NextIsMember DEF Start
<1>3. /\ self' = [self EXCEPT ![s] = me] /\ lastId' = [lastId EXCEPT ![s] = lastId[s] + 1]
      /\ UNCHANGED downed /\ status[s] = "left"
  BY DEF Start
<1> HIDE DEF me
<1>4. /\ self'[s] = me /\ me.id = lastId'[s]
      /\ \A t \in Socket : lastId[t] \in Int /\ lastId[t] <= lastId'[t]
      /\ \A t \in Socket \ {s} : self'[t] = self[t] /\ lastId'[t] = lastId[t]
  BY <1>1, <1>2, <1>3 DEF Typed, TypeOK, Id
<1>5. CASE Seeds[s] \ {s} = {}
  <2>1. CreateCluster(s, me) /\ UNCHANGED net
    BY <1>5 DEF Start, me
  <2> QED  BY <1>1, <1>2, <1>3, <1>4, <2>1, FoundsCluster
<1>6. CASE Seeds[s] \ {s} # {}
  <2>1. /\ SendPings(s, me, NumPings) /\ UNCHANGED ic
        /\ status' = [status EXCEPT ![s] = "pinging"]
    BY <1>6 DEF Start, me
  <2>2. status'[s] = "pinging" /\ OthersStay(s) /\ StepOf(s)
    BY <1>1, <1>3, <1>4, <2>1 DEF OthersStay, StepOf, Typed, TypeOK
  <2>3. Coherent'
    BY <2>2, CoherentStep DEF Known, NodeCoherent
  <2>4. \A n \in net' \ net : n.kind # "State" /\ n.from = me
    BY <2>1 DEF SendPings, Post
  <2>5. \A n \in net' \ net : HeardMessage(n)'
    BY <1>1, <1>2, <1>4, <2>4 DEF HeardMessage, Typed, TypeOK, Id
  <2>6. Started(ic[s].gossip)'
    <3>1. \A m \in Member : ~Knows(NotInCluster.gossip, m)
      BY DEF NotInCluster, InCluster, Nothing, Knows
    <3>2. ic'[s] = NotInCluster
      BY <1>1, <1>3, <2>1 DEF Typed, NodesInOrder
    <3> QED  BY <3>1, <3>2 DEF Started
  <2>7. Heard'
    BY <1>1, <2>2, <2>5, <2>6, HeardStep DEF Known
  <2> QED  BY <1>1, <2>3, <2>7 DEF Known
<1> QED  BY <1>5, <1>6

LEMMA KnownStop ==
  ASSUME Known, NEW s \in Socket, Stop(s)
  PROVE  Known'
<1>1. Typed' /\ Typed
  BY TypedStop DEF Known
<1>2. /\ status'[s] = "left" /\ OthersStay(s) /\ StepOf(s)
      /\ ic'[s] = NotInCluster /\ net' = net
  <2>1. lastId' = lastId
    BY DEF Stop
  <2> QED  BY <1>1, <2>1, SameIds DEF Stop, OthersStay, StepOf, Typed, TypeOK
<1>3. Coherent'
  BY <1>2, CoherentStep DEF Known, NodeCoherent
<1>4. \A m \in Member : ~Knows(NotInCluster.gossip, m)
  BY DEF NotInCluster, InCluster, Nothing, Knows
<1>5. Started(ic[s].gossip)'
  BY <1>2, <1>4 DEF Started
<1>6. Heard'
  BY <1>1, <1>2, <1>5, HeardStep DEF Known
<1> QED  BY <1>1, <1>3, <1>6 DEF Known

LEMMA KnownPingTimeout ==
  ASSUME Known, NEW s \in Socket, PingTimeout(s)
  PROVE  Known'
<1>1. Typed' /\ Typed
  BY TypedPingTimeout DEF Known
<1>2. self[s] \in Member /\ self[s].socket = s /\ self[s].id = lastId[s]
  BY <1>1, RunningIsMember DEF PingTimeout
<1>3. UNCHANGED <<self, downed, lastId>> /\ status[s] = "pinging"
  BY DEF PingTimeout
<1>4. CASE count[s] = 0
  <2>1. CreateCluster(s, self[s]) /\ UNCHANGED net
    BY <1>4 DEF PingTimeout
  <2>2. \A t \in Socket : lastId[t] <= lastId'[t]
    BY <1>1, <1>3, SameIds
  <2> QED  BY <1>1, <1>2, <1>3, <2>1, <2>2, FoundsCluster
<1>5. CASE count[s] # 0
  <2>1. SendPings(s, self[s], count[s]) /\ UNCHANGED <<status, ic>>
    BY <1>5 DEF PingTimeout
  <2>2. \A n \in net' \ net : n.kind # "State" /\ n.from = self[s]
    BY <2>1 DEF SendPings, Post
  <2> QED  BY <1>1, <1>3, <2>1, <2>2, QuietStep
<1> QED  BY <1>4, <1>5

(* A node that enters a cluster, as a member of the gossip it starts with. *)
LEMMA EntersCluster ==
  ASSUME Known, Typed', NEW s \in Socket, NEW me \in Member,
         NEW gossip \in GossipOver(Member), NEW msg \in net, NEW rest \in AfterReceipt(msg),
         EnterCluster(s, me, gossip, rest),
         status[s] # "in_cluster", gossip[me] = Up, self'[s] = me,
         \A t \in Socket : lastId[t] <= lastId'[t],
         \A t \in Socket \ {s} : self'[t] = self[t],
         UNCHANGED downed,
         \A m \in Member : Knows(gossip, m) => m.id <= lastId'[m.socket]
  PROVE  Known'
<1> DEFINE up == UpMembers(gossip)
           c  == Recomputed(gossip, up, RingOf(up), me)
<1>1. rest \subseteq net /\ rest \in SUBSET Message /\ Typed
  BY RestType DEF Known, Typed, TypeOK
<1>2. /\ ic'[s] = c /\ status' = [status EXCEPT ![s] = "in_cluster"]
      /\ \A t \in Socket \ {s} : ic'[t] = ic[t]
      /\ \A n \in net' \ rest : n.kind = "State" /\ n.gossip = gossip
  BY <1>1, EnterType DEF Recomputed
<1>3. /\ c.gossip = gossip /\ c.members = up /\ c.ring = RingOf(up)
      /\ c.charges = Charges(RingOf(up), me) /\ c.managers = NodeManagers(RingOf(up), me)
  BY RecomputedFields
<1> HIDE DEF c
<1>4. OthersStay(s) /\ StepOf(s) /\ downed'[s] = {}
  BY <1>1, <1>2 DEF OthersStay, StepOf, Typed, TypeOK, NodesInOrder
<1>5. NodeCoherent(s)'
  BY <1>2, <1>3, <1>4 DEF NodeCoherent
<1>6. Coherent'
  BY <1>4, <1>5, CoherentStep DEF Known
<1>7. Started(ic[s].gossip)'
  BY <1>2, <1>3 DEF Started
<1>8. \A n \in net' \ net : HeardMessage(n)'
  BY <1>1, <1>2 DEF HeardMessage, Started
<1>9. Heard'
  BY <1>1, <1>4, <1>7, <1>8, HeardStep DEF Known
<1> QED  BY <1>6, <1>9 DEF Known

LEMMA KnownPingedBySeed ==
  ASSUME Known, NEW s \in Socket, NEW msg \in net, PingedBySeed(s, msg)
  PROVE  Known'
<1> DEFINE gossip == [Nothing EXCEPT ![msg.from] = Up, ![self[s]] = Up]
<1>1. Typed' /\ Typed
  BY TypedPingedBySeed DEF Known
<1>2. /\ self[s] \in Member /\ self[s].socket = s /\ self[s].id = lastId[s]
      /\ msg \in Message /\ msg.from \in Member /\ msg.kind = "Ping" /\ status[s] = "pinging"
      /\ UNCHANGED <<self, downed>> /\ lastId' = lastId
  BY <1>1, RunningIsMember, MessageFields DEF PingedBySeed, Typed, TypeOK
<1>3. msg.from.id <= lastId[msg.from.socket]
  BY <1>2 DEF Known, Heard, HeardMessage
<1>4. /\ gossip \in GossipOver(Member) /\ gossip[self[s]] = Up
      /\ \A m \in Member : Knows(gossip, m) => m \in {msg.from, self[s]}
  BY <1>2 DEF GossipOver, Nothing, MachineState, Knows
<1>5. PICK rest \in AfterReceipt(msg) : EnterCluster(s, self[s], gossip, rest)
  BY DEF PingedBySeed
<1> HIDE DEF gossip
<1>6. \A t \in Socket : lastId[t] <= lastId'[t]
  BY <1>1, <1>2, SameIds
<1>7. \A m \in Member : Knows(gossip, m) => m.id <= lastId'[m.socket]
  <2>1. lastId[s] <= lastId[s]
    BY <1>2, <1>6
  <2> QED  BY <1>2, <1>3, <1>4, <2>1
<1> QED  BY <1>1, <1>2, <1>4, <1>5, <1>6, <1>7, EntersCluster

LEMMA KnownWelcomed ==
  ASSUME Known, NEW s \in Socket, NEW msg \in net, Welcomed(s, msg)
  PROVE  Known'
<1> DEFINE wasDowned == msg.gossip[self[s]] = Down
           me == IF wasDowned THEN NextMember(s) ELSE self[s]
           gossip == [msg.gossip EXCEPT ![me] = Up]
<1>1. Typed' /\ Typed
  BY TypedWelcomed DEF Known
<1>2. /\ self[s] \in Member /\ self[s].socket = s /\ self[s].id = lastId[s]
      /\ msg \in Message /\ msg.gossip \in GossipOver(Member)
      /\ status[s] = "pinging" /\ UNCHANGED downed
  BY <1>1, RunningIsMember, MessageFields DEF Welcomed, Typed, TypeOK
<1>3. /\ me \in Member /\ me.socket = s /\ me.id \in {lastId[s], lastId[s] + 1}
  BY <1>1, <1>2, NextIsMember DEF Welcomed
<1>4. self' = [self EXCEPT ![s] = me] /\ lastId' = [lastId EXCEPT ![s] = me.id]
  BY DEF Welcomed
<1>5. PICK rest \in AfterReceipt(msg) : EnterCluster(s, me, gossip, rest)
  BY DEF Welcomed
<1>6. Started(msg.gossip)
  BY DEF Known, Heard, HeardMessage, Welcomed
<1> HIDE DEF me
<1>7. gossip \in GossipOver(Member) /\ gossip[me] = Up
  BY <1>2, <1>3 DEF GossipOver, MachineState
<1>8. /\ \A t \in Socket : lastId[t] \in Int /\ lastId'[t] \in Int /\ lastId[t] <= lastId'[t]
      /\ self'[s] = me /\ me.id = lastId'[s]
      /\ \A t \in Socket \ {s} : self'[t] = self[t]
  BY <1>1, <1>3, <1>4 DEF Typed, TypeOK, Id
<1>9. \A m \in Member : Knows(gossip, m) => m.id <= lastId'[m.socket]
  <2>1. Started(msg.gossip)'
    BY <1>1, <1>2, <1>6, <1>8, StartedStays
  <2>2. \A m \in Member : m # me => gossip[m] = msg.gossip[m]
    BY <1>2 DEF GossipOver
  <2>3. me.id <= lastId'[me.socket]
    BY <1>3, <1>8
  <2> QED  BY <2>1, <2>2, <2>3 DEF Started, Knows
<1> HIDE DEF gossip
<1> QED  BY <1>1, <1>2, <1>3, <1>5, <1>7, <1>8, <1>9, EntersCluster

LEMMA KnownPinged ==
  ASSUME Known, NEW s \in Socket, NEW msg \in net, Pinged(s, msg)
  PROVE  Known'
<1> DEFINE old == ic[s]
           new == ~Knows(old.gossip, msg.from)
           gossip  == [old.gossip EXCEPT ![msg.from] = Up]
           members == old.members \cup {msg.from}
           ring    == InsertAll(old.ring, {msg.from})
           c   == IF new THEN Recomputed(gossip, members, ring, self[s]) ELSE old
<1>1. Typed' /\ Typed
  BY TypedPinged DEF Known
<1>2. /\ ic' = [ic EXCEPT ![s] = c] /\ msg.from \in Member
      /\ \A n \in net' \ net : n.kind = "State" /\ n.gossip = c.gossip
  BY <1>1, PingedEffect
<1>3. /\ UNCHANGED <<status, self, downed>> /\ lastId' = lastId /\ status[s] = "in_cluster"
      /\ msg.kind = "Ping"
  BY DEF Pinged
<1>4. /\ self[s] \in Member /\ old \in ICType /\ old.gossip \in GossipOver(Member)
      /\ ic'[s] = c
  BY <1>1, <1>2, <1>3, RunningIsMember DEF Typed, TypeOK, ICType
<1>5. /\ old.members = UpMembers(old.gossip) /\ old.ring = RingOf(old.members)
      /\ old.gossip[self[s]] = Up
      /\ \A m \in downed[s] : m # self[s] /\ Knows(old.gossip, m)
  BY <1>3 DEF Known, Coherent, NodeCoherent
<1>6. OthersStay(s) /\ StepOf(s)
  BY <1>1, <1>2, <1>3, SameIds DEF OthersStay, StepOf, Typed, TypeOK
<1>7. gossip[self[s]] = Up /\ \A m \in Member : gossip[m] = IF m = msg.from THEN Up ELSE old.gossip[m]
  BY <1>2, <1>4, <1>5 DEF GossipOver
<1>8. NodeCoherent(s)'
  <2>1. CASE new
    <3>1. members = UpMembers(gossip)
      BY <1>2, <1>4, <1>5 DEF UpMembers, GossipOver
    <3>2. ring = RingOf(members)
      BY <1>2, <1>4, <1>5, RingFollowsMembers, ChainIsGood, RingAssumption DEF ICType
    <3>3. \A m \in downed[s] : m # self[s] /\ Knows(gossip, m)
      BY <1>1, <1>5, <1>7 DEF Knows, Typed, TypeOK, Up, Absent
    <3>4. ic'[s] = Recomputed(gossip, members, ring, self[s])
      BY <1>4, <2>1
    <3>5. self'[s] = self[s] /\ downed'[s] = downed[s]
      BY <1>3
    <3> HIDE DEF gossip, members, ring
    <3> QED  BY <1>7, <3>1, <3>2, <3>3, <3>4, <3>5, RecomputedFields DEF NodeCoherent
  <2>2. CASE ~new
    <3>1. ic'[s] = ic[s] /\ self'[s] = self[s] /\ downed'[s] = downed[s] /\ status' = status
      BY <1>3, <1>4, <2>2
    <3>2. NodeCoherent(s)
      BY DEF Known, Coherent
    <3> QED  BY <3>1, <3>2 DEF NodeCoherent
  <2> QED  BY <2>1, <2>2
<1>9. \A m \in Member : Knows(c.gossip, m) => m.id <= lastId'[m.socket]
  <2>1. msg.from.id <= lastId[msg.from.socket]
    BY <1>3 DEF Known, Heard, HeardMessage
  <2>2. Started(old.gossip)
    BY DEF Known, Heard
  <2>3. c.gossip = IF new THEN gossip ELSE old.gossip
    BY RecomputedFields
  <2> QED  BY <1>3, <1>7, <2>1, <2>2, <2>3 DEF Started, Knows
<1> HIDE DEF c
<1>10. Started(ic[s].gossip)' /\ \A n \in net' \ net : HeardMessage(n)'
  BY <1>2, <1>4, <1>9 DEF Started, HeardMessage
<1>11. Heard'
  BY <1>1, <1>6, <1>10, HeardStep DEF Known
<1> QED  BY <1>1, <1>6, <1>8, <1>11, CoherentStep DEF Known

LEMMA KnownDowned ==
  ASSUME Known, NEW s \in Socket, NEW d \in Member, Downed(s, d)
  PROVE  Known'
<1> DEFINE old == ic[s]
           gossip  == [old.gossip EXCEPT ![d] = Down]
           members == old.members \ {d}
           ring    == RemoveAll(old.ring, {d})
           c == Recomputed(gossip, members, ring, self[s])
<1>1. Typed' /\ Typed
  BY TypedDowned DEF Known
<1>2. /\ UNCHANGED <<status, self>> /\ lastId' = lastId /\ status[s] = "in_cluster"
      /\ d \in downed[s] /\ downed' = [downed EXCEPT ![s] = @ \ {d}]
  BY DEF Downed
<1>3. /\ self[s] \in Member /\ old \in ICType /\ old.gossip \in GossipOver(Member)
      /\ downed'[s] = downed[s] \ {d} /\ \A t \in Socket \ {s} : downed'[t] = downed[t]
      /\ downed[s] \subseteq Member
  BY <1>1, <1>2, RunningIsMember DEF Typed, TypeOK, ICType
<1>4. /\ old.members = UpMembers(old.gossip) /\ old.ring = RingOf(old.members)
      /\ old.gossip[self[s]] = Up
      /\ \A m \in downed[s] : m # self[s] /\ Knows(old.gossip, m)
  BY <1>2 DEF Known, Coherent, NodeCoherent
<1>5. CASE old.gossip[d] = Up
  <2>1. /\ ic' = [ic EXCEPT ![s] = c] /\ c.gossip = gossip
        /\ \A n \in net' \ net : n.kind = "State" /\ n.gossip = c.gossip
    <3>1. c.gossip = gossip
      BY RecomputedFields
    <3>2. /\ ic' = [ic EXCEPT ![s] = c]
          /\ \A n \in net' \ net : n.kind = "State" /\ n.gossip = c.gossip
      BY <1>1, <1>5, DownedEffect
    <3> QED  BY <3>1, <3>2
  <2>2. OthersStay(s) /\ StepOf(s) /\ ic'[s] = c
    BY <1>1, <1>2, <1>3, <2>1, SameIds DEF OthersStay, StepOf, Typed, TypeOK
  <2>3. \A m \in Member : gossip[m] = IF m = d THEN Down ELSE old.gossip[m]
    BY <1>3 DEF GossipOver
  <2>4. gossip[self[s]] = Up
    BY <1>2, <1>3, <1>4, <2>3
  <2>5. members = UpMembers(gossip)
    BY <1>3, <1>4 DEF UpMembers, GossipOver, Up, Down
  <2>6. ring = RingOf(members)
    BY <1>3, <1>4, RingFollowsMembers, ChainIsGood, RingAssumption DEF ICType
  <2>7. \A m \in downed'[s] : m # self[s] /\ Knows(gossip, m)
    BY <1>3, <1>4, <2>3 DEF Knows
  <2>8. Started(old.gossip)
    BY DEF Known, Heard
  <2>9. \A m \in Member : Knows(gossip, m) => m.id <= lastId'[m.socket]
    BY <1>2, <1>4, <2>3, <2>8 DEF Started, Knows
  <2>10. self'[s] = self[s]
    BY <1>2
  <2> HIDE DEF gossip, members, ring
  <2>11. NodeCoherent(s)'
    BY <2>2, <2>4, <2>5, <2>6, <2>7, <2>10, RecomputedFields DEF NodeCoherent
  <2> HIDE DEF c
  <2>12. Started(ic[s].gossip)' /\ \A n \in net' \ net : HeardMessage(n)'
    BY <2>1, <2>2, <2>9 DEF Started, HeardMessage
  <2>13. Heard'
    BY <1>1, <2>2, <2>12, HeardStep DEF Known
  <2> QED  BY <1>1, <2>2, <2>11, <2>13, CoherentStep DEF Known
<1>6. CASE old.gossip[d] # Up
  <2>1. UNCHANGED <<ic, net>>
    BY <1>6 DEF Downed
  <2>2. Heard'
    BY <1>2, <2>1 DEF Known, Heard, HeardMessage, Started
  <2>3. OthersStay(s)
    BY <1>2, <1>3, <2>1 DEF OthersStay
  <2>4. NodeCoherent(s)'
    BY <1>2, <1>3, <2>1 DEF Known, Coherent, NodeCoherent
  <2> QED  BY <1>1, <2>2, <2>3, <2>4, CoherentStep DEF Known
<1> QED  BY <1>5, <1>6

LEMMA KnownGiveUpOn ==
  ASSUME Known, NEW s \in Socket, NEW d \in Member, GiveUpOn(s, d)
  PROVE  Known'
<1>1. Typed' /\ Typed
  BY TypedLocal DEF Known
<1>2. /\ UNCHANGED <<status, self, ic, net>> /\ lastId' = lastId
      /\ d \in ic[s].charges /\ downed' = [downed EXCEPT ![s] = @ \cup {d}]
  BY DEF GiveUpOn
<1>3. /\ downed'[s] = downed[s] \cup {d} /\ \A t \in Socket \ {s} : downed'[t] = downed[t]
  BY <1>1, <1>2 DEF Typed, TypeOK
<1>4. status[s] = "in_cluster"
  BY <1>1, <1>2 DEF Typed, TypeOK, NodesInOrder, NotInCluster, InCluster
<1>5. /\ ic[s].members = UpMembers(ic[s].gossip) /\ ic[s].ring = RingOf(ic[s].members)
      /\ ic[s].charges = Charges(ic[s].ring, self[s]) /\ ic[s].gossip[self[s]] = Up
      /\ ic[s].members \subseteq Member /\ self[s] \in Member
      /\ ic[s].gossip \in GossipOver(Member)
  BY <1>1, <1>4, RunningIsMember DEF Known, Coherent, NodeCoherent, Typed, TypeOK
<1>6. d \in ic[s].members \ {self[s]}
  <2>1. self[s] \in ic[s].members
    BY <1>5 DEF UpMembers, GossipOver
  <2> QED  BY <1>2, <1>5, <2>1, ResponsibleAreMembers, ChainIsGood, RingAssumption
<1>7. d # self[s] /\ Knows(ic[s].gossip, d)
  BY <1>5, <1>6 DEF UpMembers, Knows, Up, Absent
<1>8. NodeCoherent(s)'
  BY <1>2, <1>3, <1>7 DEF Known, Coherent, NodeCoherent
<1>9. Heard'
  BY <1>2 DEF Known, Heard, HeardMessage, Started
<1>10. OthersStay(s)
  BY <1>2, <1>3 DEF OthersStay
<1> QED  BY <1>1, <1>8, <1>9, <1>10, CoherentStep DEF Known

LEMMA KnownGossiped ==
  ASSUME Known, NEW s \in Socket, NEW msg \in net, Gossiped(s, msg)
  PROVE  Known'
<1> DEFINE old     == ic[s]
           added   == AddedBy(old.gossip, msg.gossip)
           removed == RemovedBy(old.gossip, msg.gossip)
           merged  == Merge(old.gossip, msg.gossip)
           fresh   == IF self[s] \in removed THEN {NextMember(s)} ELSE {}
           me      == IF fresh = {} THEN self[s] ELSE NextMember(s)
           gossip  == [m \in Member |-> IF m \in fresh THEN Up ELSE merged[m]]
           members == (old.members \ removed) \cup added \cup fresh
           ring    == InsertAll(RemoveAll(old.ring, removed), added \cup fresh)
           c       == Recomputed(gossip, members, ring, me)
<1>1. Typed' /\ Typed
  BY TypedGossiped DEF Known
<1>2. /\ msg.gossip \in GossipOver(Member) /\ msg.kind = "State"
      /\ fresh # {} => lastId[s] < MaxId
      /\ added \in SUBSET Member /\ removed \in SUBSET Member /\ me \in Member
      /\ self' = [self EXCEPT ![s] = me] /\ lastId' = [lastId EXCEPT ![s] = me.id]
      /\ ic' = [ic EXCEPT ![s] = c]
      /\ \A n \in net' \ net : n.kind = "State" /\ n.gossip = c.gossip
  BY <1>1, GossipedEffect DEF GossipedEffectOf
<1>3. UNCHANGED <<status, downed>> /\ status[s] = "in_cluster"
  BY DEF Gossiped
<1>4. /\ self[s] \in Member /\ self[s].socket = s /\ self[s].id = lastId[s]
      /\ old \in ICType /\ old.gossip \in GossipOver(Member)
      /\ downed[s] \subseteq Member
  BY <1>1, <1>3, RunningIsMember DEF Typed, TypeOK, ICType
<1>5. /\ old.members = UpMembers(old.gossip) /\ old.ring = RingOf(old.members)
      /\ old.gossip[self[s]] = Up
      /\ \A m \in downed[s] : m # self[s] /\ Knows(old.gossip, m)
  BY <1>3 DEF Known, Coherent, NodeCoherent
<1>6. /\ Started(old.gossip) /\ Started(msg.gossip)
      /\ \A t \in Socket : lastId[t] \in Int
  <2>1. Started(old.gossip)
    BY DEF Known, Heard
  <2>2. Started(msg.gossip)
    BY <1>2 DEF Known, Heard, HeardMessage
  <2>3. \A t \in Socket : lastId[t] \in Int
    <3>1. Typed
      BY <1>1
    <3> QED
      BY <3>1 DEF Typed, TypeOK, Id
  <2> QED
    BY <2>1, <2>2, <2>3
<1>7. /\ merged \in GossipOver(Member)
      /\ added = UpMembers(merged) \ UpMembers(old.gossip)
      /\ removed = UpMembers(old.gossip) \ UpMembers(merged)
      /\ \A m \in Member : merged[m] = old.gossip[m] \/ merged[m] = msg.gossip[m]
      /\ \A m \in Member : Knows(old.gossip, m) => Knows(merged, m)
  <2>1. merged \in GossipOver(Member)
    BY <1>2, <1>4, MergeIsSemilattice
  <2>2. /\ added = UpMembers(merged) \ UpMembers(old.gossip)
        /\ removed = UpMembers(old.gossip) \ UpMembers(merged)
    BY <1>2, <1>4, EventsAreUpSetDifference
  <2>3. \A m \in Member : merged[m] = IF old.gossip[m] < msg.gossip[m]
                                     THEN msg.gossip[m] ELSE old.gossip[m]
    BY <1>4 DEF Merge, Changes, GossipOver
  <2>4. \A m \in Member : old.gossip[m] \in {0, 1, 2} /\ msg.gossip[m] \in {0, 1, 2}
    BY <1>2, <1>4 DEF GossipOver, MachineState, Absent, Up, Down
  <2> QED  BY <2>1, <2>2, <2>3, <2>4 DEF Knows, Absent
<1>8. /\ fresh \subseteq {NextMember(s)} /\ fresh \subseteq {me}
      /\ fresh = {} => me = self[s] /\ self[s] \notin removed
      /\ fresh # {} => /\ fresh = {me} /\ me = NextMember(s) /\ self[s] \in removed
                       /\ me.socket = s /\ me.id = lastId[s] + 1
  BY <1>1, <1>2, NextIsMember
<1>9. ~Knows(merged, NextMember(s)) \/ fresh = {}
  BY <1>2, <1>4, <1>6, <1>7, <1>8 DEF Started, Knows
<1> HIDE DEF merged, added, removed, fresh, me
<1>10. /\ gossip \in GossipOver(Member)
       /\ \A m \in Member : gossip[m] = IF m \in fresh THEN Up ELSE merged[m]
       /\ gossip[me] = Up
  <2>1. /\ gossip \in GossipOver(Member)
        /\ \A m \in Member : gossip[m] = IF m \in fresh THEN Up ELSE merged[m]
    BY <1>7 DEF GossipOver, MachineState
  <2>2. CASE fresh = {}
    <3>1. me = self[s] /\ me \in UpMembers(old.gossip) /\ me \notin removed
      BY <1>4, <1>5, <1>8, <2>2 DEF UpMembers, GossipOver
    <3>2. me \in UpMembers(merged)
      BY <1>7, <3>1
    <3> QED  BY <1>2, <2>1, <2>2, <3>2 DEF UpMembers
  <2>3. CASE fresh # {}
    BY <1>2, <1>8, <2>1, <2>3
  <2> QED  BY <2>1, <2>2, <2>3
<1>11. members = UpMembers(gossip)
  <2>1. UpMembers(gossip) = UpMembers(merged) \cup fresh
    BY <1>2, <1>7, <1>8, <1>10 DEF UpMembers, GossipOver
  <2>2. (UpMembers(old.gossip) \ removed) \cup added = UpMembers(merged)
    BY <1>7
  <2> QED  BY <1>5, <2>1, <2>2
<1>12. ring = RingOf(members)
  <2>1. /\ old.members \in SUBSET Member /\ removed \in SUBSET Member
        /\ added \cup fresh \in SUBSET Member
    BY <1>2, <1>4, <1>8 DEF ICType
  <2>2. RemoveAll(old.ring, removed) = RingOf(old.members \ removed)
    BY <1>5, <2>1, RingFollowsMembers, ChainIsGood, RingAssumption
  <2>3. InsertAll(RingOf(old.members \ removed), added \cup fresh)
          = RingOf((old.members \ removed) \cup (added \cup fresh))
    BY <2>1, RingFollowsMembers, ChainIsGood, RingAssumption
  <2>4. (old.members \ removed) \cup (added \cup fresh) = members
    OBVIOUS
  <2> QED  BY <2>2, <2>3, <2>4
<1>13. \A m \in downed[s] : m # me /\ Knows(gossip, m)
  <2> SUFFICES ASSUME NEW m \in downed[s] PROVE m # me /\ Knows(gossip, m)
    OBVIOUS
  <2>1. m \in Member /\ m # self[s] /\ Knows(merged, m)
    BY <1>4, <1>5, <1>7
  <2>2. m # me
    BY <1>8, <1>9, <2>1
  <2> QED  BY <1>8, <1>10, <2>1, <2>2 DEF Knows
<1>14. /\ lastId'[s] = me.id /\ me.id \in {lastId[s], lastId[s] + 1} /\ me.socket = s
       /\ \A t \in Socket \ {s} : lastId'[t] = lastId[t]
  BY <1>1, <1>2, <1>4, <1>8 DEF Typed, TypeOK
<1>15. \A m \in Member : Knows(gossip, m) => m.id <= lastId'[m.socket]
  <2> SUFFICES ASSUME NEW m \in Member, Knows(gossip, m) PROVE m.id <= lastId'[m.socket]
    OBVIOUS
  <2>1. CASE m \in fresh
    <3>1. m = me
      BY <1>8, <2>1
    <3> QED  BY <1>6, <1>14, <3>1
  <2>2. CASE m \notin fresh
    <3>1. m.id <= lastId[m.socket] /\ m.socket \in Socket /\ m.id \in Int
      BY <1>6, <1>7, <1>10, <2>2 DEF Started, Knows, Member, Id
    <3> QED  BY <1>6, <1>14, <3>1
  <2> QED  BY <2>1, <2>2
<1>16. /\ ic'[s] = c /\ self'[s] = me /\ downed'[s] = downed[s]
       /\ OthersStay(s) /\ StepOf(s)
  <2>1. \A t \in Socket : lastId[t] <= lastId'[t]
    BY <1>6, <1>14
  <2> QED  BY <1>1, <1>2, <1>3, <2>1 DEF OthersStay, StepOf, Typed, TypeOK
<1> HIDE DEF gossip, members, ring
<1>17. NodeCoherent(s)'
  BY <1>10, <1>11, <1>12, <1>13, <1>16, RecomputedFields DEF NodeCoherent
<1>18. c.gossip = gossip
  BY RecomputedFields
<1> HIDE DEF c
<1>19. Started(ic[s].gossip)' /\ \A n \in net' \ net : HeardMessage(n)'
  BY <1>2, <1>15, <1>16, <1>18 DEF Started, HeardMessage
<1>20. Heard'
  BY <1>1, <1>16, <1>19, HeardStep DEF Known
<1> QED  BY <1>1, <1>16, <1>17, <1>20, CoherentStep DEF Known

(* The other actions leave what nodes know alone, and send at most their   *)
(* own gossip or requests in their own name.                               *)
LEMMA KnownQuiet ==
  ASSUME Known, NEW s \in Socket,
         \/ Subscribe(s) \/ TimerFires(s) \/ GossipTimeout(s)
         \/ \E msg \in net : AskMonitor(s, msg) \/ GossipRequested(s, msg) \/ Unheeded(s, msg)
         \/ \E m \in Member : RequestHeartbeat(s, m)
  PROVE  Known'
<1>1. Typed
  BY DEF Known
<1>2. CASE Subscribe(s) \/ TimerFires(s) \/ \E msg \in net : Unheeded(s, msg)
  <2>1. Typed'
    BY <1>1, <1>2, TypedSubscribe, TypedLocal
  <2>2. UNCHANGED <<status, self, ic, downed, lastId>> /\ net' \subseteq net
    BY <1>2 DEF Subscribe, TimerFires, Unheeded
  <2> QED  BY <2>1, <2>2, QuietStep
<1>3. CASE GossipTimeout(s)
  <2>1. Typed'
    BY <1>1, <1>3, TypedGossipTimeout
  <2>2. UNCHANGED <<status, self, ic, downed, lastId>> /\ status[s] = "in_cluster"
    BY <1>3 DEF GossipTimeout
  <2>3. PICK targets, asked :
          Post(net, StateMsgs(targets, ic[s].gossip)
               \cup {[kind |-> "ReqGossip", to |-> m.socket, from |-> self[s]] : m \in asked})
    BY <1>3 DEF GossipTimeout
  <2>4. \A n \in net' \ net :
          \/ n.kind = "State" /\ n.gossip = ic[s].gossip
          \/ n.kind = "ReqGossip" /\ n.from = self[s]
    BY <2>3 DEF Post, StateMsgs
  <2> QED  BY <2>1, <2>2, <2>4, QuietStep
<1>4. ASSUME NEW msg \in net, AskMonitor(s, msg) PROVE Known'
  <2>1. Typed'
    BY <1>1, <1>4, TypedAskMonitor
  <2>2. UNCHANGED <<status, self, ic, downed, lastId>> /\ status[s] = "pinging"
    BY <1>4 DEF AskMonitor
  <2>3. \A n \in net' \ net : n.kind = "ReqGossip" /\ n.from = self[s]
    BY <1>4 DEF AskMonitor, Post, AfterReceipt
  <2> QED  BY <2>1, <2>2, <2>3, QuietStep
<1>5. ASSUME NEW msg \in net, GossipRequested(s, msg) PROVE Known'
  <2>1. Typed'
    BY <1>1, <1>5, TypedGossipRequested
  <2>2. UNCHANGED <<status, self, ic, downed, lastId>>
    BY <1>5 DEF GossipRequested
  <2>3. \A n \in net' \ net : n.kind = "State" /\ n.gossip = ic[s].gossip
    BY <1>5 DEF GossipRequested, Post, AfterReceipt, StateMsgs
  <2> QED  BY <2>1, <2>2, <2>3, QuietStep
<1>6. ASSUME NEW m \in Member, RequestHeartbeat(s, m) PROVE Known'
  <2>1. Typed'
    BY <1>1, <1>6, TypedRequestHeartbeat
  <2>2. UNCHANGED <<status, self, ic, downed, lastId>>
    BY <1>6 DEF RequestHeartbeat
  <2>3. status[s] = "in_cluster"
    BY <1>1, <1>6 DEF Typed, TypeOK, NodesInOrder, RequestHeartbeat, NotInCluster, InCluster
  <2>4. \A n \in net' \ net : n.kind = "ReqHeartbeat" /\ n.from = self[s]
    BY <1>6 DEF RequestHeartbeat, Post
  <2> QED  BY <2>1, <2>2, <2>3, <2>4, QuietStep
<1> QED  BY <1>2, <1>3, <1>4, <1>5, <1>6

LEMMA KnownInit == Init => Known
<1> SUFFICES ASSUME Init PROVE Known
  OBVIOUS
<1>1. \A m \in Member : ~Knows(NotInCluster.gossip, m)
  BY DEF NotInCluster, InCluster, Nothing, Knows
<1>2. Heard
  BY <1>1 DEF Init, Heard, Started
<1>3. Coherent
  BY DEF Init, Coherent, NodeCoherent
<1> QED  BY <1>2, <1>3, TypedInit DEF Known

LEMMA KnownNext == Known /\ [Next]_vars => Known'
<1> SUFFICES ASSUME Known, [Next]_vars PROVE Known'
  OBVIOUS
<1>1. ASSUME NEW s \in Socket,
             Start(s) \/ Stop(s) \/ Subscribe(s) \/ PingTimeout(s) \/ TimerFires(s)
               \/ GossipTimeout(s)
      PROVE  Known'
  BY <1>1, KnownStart, KnownStop, KnownPingTimeout, KnownQuiet
<1>2. ASSUME NEW s \in Socket, NEW msg \in net, Receive(s, msg) PROVE Known'
  BY <1>2, KnownPingedBySeed, KnownWelcomed, KnownPinged, KnownGossiped, KnownQuiet DEF Receive
<1>3. ASSUME NEW s \in Socket, NEW m \in Member,
             RequestHeartbeat(s, m) \/ GiveUpOn(s, m) \/ Downed(s, m)
      PROVE  Known'
  BY <1>3, KnownQuiet, KnownGiveUpOn, KnownDowned
<1>4. CASE UNCHANGED vars
  <2>1. Typed'
    BY <1>4, TypedNext DEF Known
  <2> QED  BY <1>4, <2>1 DEF vars, Known, Heard, HeardMessage, Started, Coherent, NodeCoherent
<1> QED  BY <1>1, <1>2, <1>3, <1>4 DEF Next

LEMMA KnownAlways == Spec => []Known
BY KnownInit, KnownNext, PTL DEF Spec

(* For any number of nodes, identifiers, restarts, losses and repetitions: *)
(* gossip, members and ring of a node always show the same members, the    *)
(* node is one of them, its charges and managers are those of that ring,   *)
(* and every verdict it has yet to read is about another known member.  So *)
(* no unwrap of cluster.rs on members, ring and gossip can fail.           *)
THEOREM NodesAreCoherent ==
  Spec => [](ViewsAgree /\ SelfIsUp /\ ResponsibilityCurrent /\ VerdictsKnown)
<1>1. Known => ViewsAgree /\ SelfIsUp /\ ResponsibilityCurrent
  <2> SUFFICES ASSUME Known PROVE ViewsAgree /\ SelfIsUp /\ ResponsibilityCurrent
    OBVIOUS
  <2>1. \A s \in InClusterNow : self[s].socket = s
    BY RunningIsMember DEF Known, InClusterNow
  <2> QED  BY <2>1 DEF Known, Coherent, NodeCoherent, InClusterNow, ViewsAgree, SelfIsUp,
              ResponsibilityCurrent
<1>2. Known => VerdictsKnown
  BY DEF Known, Typed, TypeOK, NodesInOrder, Coherent, NodeCoherent, VerdictsKnown
<1> QED  BY <1>1, <1>2, KnownAlways, PTL

(* Its part about heartbeats: after any sequence of joins, leaves, deaths   *)
(* and rejoins a node's charges and managers are those its ring names for   *)
(* the identity it has now (update_charges_managers, cluster.rs).           *)
THEOREM ResponsibilityStaysCurrent == Spec => []ResponsibilityCurrent
BY NodesAreCoherent, PTL
-----------------------------------------------------------------------------
(* What a node's gossip was.  A step of s leaves the other nodes alone, and *)
(* what it sends is the gossip of s; a member is down in it only if it was, *)
(* or a message or a verdict says so; what was known stays known as long   *)
(* as s is in its cluster; and if s takes a new identity, the one before    *)
(* is down.                                                                 *)
SaidDown(s, m) ==
  \/ ic[s].gossip[m] = Down
  \/ m \in downed[s]
  \/ \E n \in net : n.kind = "State" /\ n.gossip[m] = Down

GossipMoves(s) ==
  /\ \A t \in Socket \ {s} : UNCHANGED <<status[t], self[t], born[t], ic[t]>>
  /\ \A n \in net' \ net : n.kind = "State" => n.gossip \in {ic[s].gossip, ic'[s].gossip}
  /\ \A m \in Member : ic'[s].gossip[m] = Down => SaidDown(s, m)
  /\ suspected \subseteq suspected' /\ \A t \in Socket : downed'[t] \subseteq downed[t] \cup suspected'

SelfMoves(s) ==
  status'[s] = "in_cluster" =>
    IF status[s] = "in_cluster"
    THEN /\ born'[s] = born[s]
         /\ AtMost(ic[s].gossip, ic'[s].gossip)
         /\ \/ self'[s] = self[s]
            \/ self'[s].id = self[s].id + 1 /\ ic'[s].gossip[self[s]] = Down
    ELSE \/ self'[s].id = born'[s]
         \/ self'[s].id = born'[s] + 1 /\ ic'[s].gossip[Incarnation(s, born'[s])] = Down

(* The steps that leave all gossip alone and send none but a node's own.    *)
LEMMA HistoryQuiet ==
  ASSUME Known, NEW s \in Socket,
         \/ Subscribe(s) \/ TimerFires(s) \/ GossipTimeout(s) \/ Stop(s)
         \/ \E msg \in net : AskMonitor(s, msg) \/ GossipRequested(s, msg) \/ Unheeded(s, msg)
         \/ \E m \in Member : \/ RequestHeartbeat(s, m) \/ GiveUpOn(s, m)
                              \/ Downed(s, m) /\ ic[s].gossip[m] # Up
  PROVE  GossipMoves(s) /\ SelfMoves(s)
<1>0. /\ status \in [Socket -> {"left", "pinging", "in_cluster"}]
      /\ self \in [Socket -> Member \cup {NoMember}] /\ born \in [Socket -> Id \cup {0}]
      /\ ic \in [Socket -> ICType] /\ downed \in [Socket -> SUBSET Member]
  BY DEF Known, Typed, TypeOK, ICType
<1>1. CASE Stop(s)
  <2>1. /\ \A t \in Socket \ {s} : UNCHANGED <<status[t], self[t], born[t], ic[t]>>
        /\ \A t \in Socket : downed'[t] \subseteq downed[t]
        /\ status'[s] = "left" /\ ic'[s] = NotInCluster /\ UNCHANGED <<net, suspected>>
    BY <1>0, <1>1 DEF Stop
  <2>2. \A m \in Member : NotInCluster.gossip[m] # Down
    BY DEF NotInCluster, InCluster, Nothing, Absent, Down
  <2> QED
    BY <2>1, <2>2 DEF GossipMoves, SelfMoves
<1>2. CASE ~Stop(s)
  <2>1. /\ UNCHANGED <<status, self, born, ic>>
        /\ suspected \subseteq suspected' /\ \A t \in Socket : downed'[t] \subseteq downed[t] \cup suspected'
    <3>1. CASE \E m \in Member : GiveUpOn(s, m)
      BY <1>0, <3>1 DEF GiveUpOn
    <3>2. CASE \E m \in Member : Downed(s, m) /\ ic[s].gossip[m] # Up
      BY <1>0, <3>2 DEF Downed
    <3>3. CASE ~(\E m \in Member : GiveUpOn(s, m) \/ (Downed(s, m) /\ ic[s].gossip[m] # Up))
      BY <1>2, <3>3 DEF Subscribe, TimerFires, GossipTimeout, AskMonitor, GossipRequested, Unheeded, RequestHeartbeat
    <3> QED
      BY <3>1, <3>2, <3>3
  <2>2. \A n \in net' \ net : n.kind = "State" => n.gossip = ic[s].gossip
    <3>1. CASE GossipTimeout(s)
      <4>1. PICK targets, asked :
              Post(net, StateMsgs(targets, ic[s].gossip)
                   \cup {[kind |-> "ReqGossip", to |-> m.socket, from |-> self[s]] : m \in asked})
        BY <3>1 DEF GossipTimeout
      <4> QED
        BY <4>1 DEF Post, StateMsgs
    <3>2. ASSUME NEW msg \in net, AskMonitor(s, msg) PROVE \A n \in net' \ net : n.kind = "ReqGossip"
      BY <3>2 DEF AskMonitor, Post, AfterReceipt
    <3>3. ASSUME NEW msg \in net, GossipRequested(s, msg)
          PROVE  \A n \in net' \ net : n.kind = "State" /\ n.gossip = ic[s].gossip
      BY <3>3 DEF GossipRequested, Post, AfterReceipt, StateMsgs
    <3>4. ASSUME NEW m \in Member, RequestHeartbeat(s, m)
          PROVE  \A n \in net' \ net : n.kind = "ReqHeartbeat"
      BY <3>4 DEF RequestHeartbeat, Post
    <3>5. CASE \/ Subscribe(s) \/ TimerFires(s) \/ \E msg \in net : Unheeded(s, msg)
               \/ \E m \in Member : GiveUpOn(s, m) \/ (Downed(s, m) /\ ic[s].gossip[m] # Up)
      <4>1. net' \subseteq net
        BY <3>5 DEF Subscribe, TimerFires, Unheeded, GiveUpOn, Downed
      <4> QED
        BY <4>1
    <3> QED
      BY <1>2, <3>1, <3>2, <3>3, <3>4, <3>5
  <2>3. \A g \in GossipOver(Member) : AtMost(g, g)
    BY DEF AtMost, GossipOver, MachineState, Absent, Up, Down
  <2>4. status[s] = "in_cluster" => AtMost(ic[s].gossip, ic'[s].gossip)
    BY <1>0, <2>1, <2>3 DEF ICType
  <2>5. SelfMoves(s)
    BY <2>1, <2>4 DEF SelfMoves
  <2> QED
    BY <2>1, <2>2, <2>5 DEF GossipMoves, SaidDown
<1> QED
  BY <1>1, <1>2

(* The steps by which a node founds a cluster or starts to ping.            *)
LEMMA HistoryAlone ==
  ASSUME Known, NEW s \in Socket, Start(s) \/ PingTimeout(s)
  PROVE  GossipMoves(s) /\ SelfMoves(s)
<1>0. /\ status \in [Socket -> {"left", "pinging", "in_cluster"}]
      /\ self \in [Socket -> Member \cup {NoMember}] /\ born \in [Socket -> Id \cup {0}]
      /\ ic \in [Socket -> ICType] /\ downed \in [Socket -> SUBSET Member]
      /\ Typed
  BY DEF Known, Typed, TypeOK, ICType
<1>1. ASSUME NEW me \in Member, self'[s] = me, me.id = born'[s], status[s] # "in_cluster",
             \A t \in Socket \ {s} : UNCHANGED <<self[t], born[t]>>, UNCHANGED <<downed, suspected>>,
             \/ CreateCluster(s, me) /\ UNCHANGED net
             \/ /\ UNCHANGED ic /\ \A n \in net' \ net : n.kind = "Ping"
                /\ \A t \in Socket \ {s} : UNCHANGED status[t]
      PROVE  GossipMoves(s) /\ SelfMoves(s)
  <2>1. \A t \in Socket \ {s} : UNCHANGED <<status[t], ic[t]>>
    BY <1>0, <1>1 DEF CreateCluster
  <2>2. \A n \in net' \ net : n.kind # "State"
    BY <1>1
  <2>3. \A m \in Member : ic'[s].gossip[m] = Down => ic[s].gossip[m] = Down
    <3>1. CASE CreateCluster(s, me)
      <4>1. ic'[s] = Alone(me)
        BY <1>0, <3>1 DEF CreateCluster
      <4>2. \A m \in Member : Alone(me).gossip[m] # Down
        <5>1. \A m \in Member : [Nothing EXCEPT ![me] = Up][m] = IF m = me THEN Up ELSE Absent
          BY DEF Nothing
        <5>2. Alone(me).gossip = [Nothing EXCEPT ![me] = Up]
          BY <1>1, AloneType
        <5> QED
          BY <5>1, <5>2 DEF Up, Down, Absent
      <4> QED
        BY <4>1, <4>2
    <3> QED
      BY <1>1, <3>1
  <2>4. SelfMoves(s)
    BY <1>1 DEF SelfMoves
  <2> QED
    BY <1>1, <2>1, <2>2, <2>3, <2>4 DEF GossipMoves, SaidDown
<1>2. CASE Start(s)
  <2>1. /\ NextMember(s) \in Member /\ NextMember(s).id = lastId[s] + 1
    BY <1>0, <1>2, NextIsMember DEF Start
  <2>2. /\ self'[s] = NextMember(s) /\ born'[s] = lastId[s] + 1 /\ status[s] # "in_cluster"
        /\ \A t \in Socket \ {s} : UNCHANGED <<self[t], born[t]>>
        /\ UNCHANGED <<downed, suspected>>
    BY <1>0, <1>2 DEF Start
  <2>3. \/ CreateCluster(s, NextMember(s)) /\ UNCHANGED net
        \/ /\ UNCHANGED ic /\ \A n \in net' \ net : n.kind = "Ping"
           /\ \A t \in Socket \ {s} : UNCHANGED status[t]
    <3>1. CASE Seeds[s] \ {s} = {}
      BY <1>2, <3>1 DEF Start
    <3>2. CASE Seeds[s] \ {s} # {}
      <4>1. /\ SendPings(s, NextMember(s), NumPings) /\ UNCHANGED ic
            /\ status' = [status EXCEPT ![s] = "pinging"]
        BY <1>2, <3>2 DEF Start
      <4> QED
        BY <1>0, <4>1 DEF SendPings, Post
    <3> QED
      BY <3>1, <3>2
  <2> QED
    BY <1>1, <2>1, <2>2, <2>3
<1>3. CASE PingTimeout(s)
  <2>1. /\ self[s] \in Member /\ self[s].id = born[s]
    BY <1>0, <1>3, RunningIsMember DEF PingTimeout, Typed, NodesInOrder
  <2>2. /\ UNCHANGED <<self, born, downed, suspected>> /\ status[s] # "in_cluster"
    BY <1>3 DEF PingTimeout
  <2>3. \/ CreateCluster(s, self[s]) /\ UNCHANGED net
        \/ /\ UNCHANGED ic /\ \A n \in net' \ net : n.kind = "Ping"
           /\ \A t \in Socket \ {s} : UNCHANGED status[t]
    <3>1. CASE count[s] = 0
      BY <1>3, <3>1 DEF PingTimeout
    <3>2. CASE count[s] # 0
      <4>1. SendPings(s, self[s], count[s]) /\ UNCHANGED <<ic, status>>
        BY <1>3, <3>2 DEF PingTimeout
      <4> QED
        BY <4>1 DEF SendPings, Post
    <3> QED
      BY <3>1, <3>2
  <2> QED
    BY <1>1, <2>1, <2>2, <2>3
<1> QED
  BY <1>2, <1>3

(* A node that enters a cluster.                                            *)
LEMMA HistoryEnters ==
  ASSUME Known, NEW s \in Socket, NEW me \in Member,
         NEW gossip \in GossipOver(Member), NEW msg \in net, NEW rest \in AfterReceipt(msg),
         EnterCluster(s, me, gossip, rest), status[s] = "pinging",
         \A t \in Socket \ {s} : self'[t] = self[t],
         UNCHANGED <<born, downed, suspected>>, self'[s] = me,
         \A m \in Member : gossip[m] = Down => SaidDown(s, m),
         \/ me.id = born[s]
         \/ me.id = born[s] + 1 /\ gossip[Incarnation(s, born[s])] = Down
  PROVE  GossipMoves(s) /\ SelfMoves(s)
<1>1. rest \subseteq net /\ rest \in SUBSET Message /\ Typed
      /\ status \in [Socket -> {"left", "pinging", "in_cluster"}]
  BY RestType DEF Known, Typed, TypeOK
<1>2. /\ ic'[s].gossip = gossip /\ status' = [status EXCEPT ![s] = "in_cluster"]
      /\ \A t \in Socket \ {s} : ic'[t] = ic[t]
      /\ \A n \in net' \ rest : n.kind = "State" /\ n.gossip = gossip
  <2>1. /\ ic'[s] = LET up == UpMembers(gossip)
                    IN  InCluster(gossip, up, RingOf(up), Charges(RingOf(up), me),
                                  NodeManagers(RingOf(up), me))
        /\ status' = [status EXCEPT ![s] = "in_cluster"]
        /\ \A t \in Socket \ {s} : ic'[t] = ic[t]
        /\ \A n \in net' \ rest : n.kind = "State" /\ n.gossip = gossip
    BY <1>1, EnterType
  <2> QED
    BY <2>1 DEF InCluster
<1>3. \A t \in Socket \ {s} : UNCHANGED <<status[t], self[t], born[t], ic[t]>>
  BY <1>1, <1>2
<1>4. SelfMoves(s)
  BY <1>2 DEF SelfMoves
<1> QED
  BY <1>1, <1>2, <1>3, <1>4 DEF GossipMoves

LEMMA HistoryPingedBySeed ==
  ASSUME Known, NEW s \in Socket, NEW msg \in net, PingedBySeed(s, msg)
  PROVE  GossipMoves(s) /\ SelfMoves(s)
<1> DEFINE gossip == [Nothing EXCEPT ![msg.from] = Up, ![self[s]] = Up]
<1>1. Typed
  BY DEF Known
<1>2. /\ self[s] \in Member /\ self[s].id = born[s] /\ msg.from \in Member
      /\ status[s] = "pinging" /\ UNCHANGED <<self, born, downed, suspected>>
  BY <1>1, RunningIsMember, MessageFields DEF PingedBySeed, Typed, TypeOK, NodesInOrder
<1>3. \A m \in Member : gossip[m] = IF m \in {msg.from, self[s]} THEN Up ELSE Absent
  BY <1>2 DEF Nothing
<1>4. gossip \in GossipOver(Member)
  BY DEF GossipOver, Nothing, MachineState
<1>5. PICK rest \in AfterReceipt(msg) : EnterCluster(s, self[s], gossip, rest)
  BY DEF PingedBySeed
<1> HIDE DEF gossip
<1>6. \A m \in Member : gossip[m] # Down
  BY <1>3 DEF Up, Down, Absent
<1>7. \A t \in Socket \ {s} : self'[t] = self[t]
  BY <1>2
<1> QED
  BY <1>2, <1>4, <1>5, <1>6, <1>7, HistoryEnters

LEMMA HistoryWelcomed ==
  ASSUME Known, NEW s \in Socket, NEW msg \in net, Welcomed(s, msg)
  PROVE  GossipMoves(s) /\ SelfMoves(s)
<1> DEFINE wasDowned == msg.gossip[self[s]] = Down
           me == IF wasDowned THEN NextMember(s) ELSE self[s]
           gossip == [msg.gossip EXCEPT ![me] = Up]
<1>1. Typed
  BY DEF Known
<1>2. /\ self[s] \in Member /\ self[s].id = born[s] /\ self[s].id = lastId[s]
      /\ self[s] = Incarnation(s, born[s]) /\ born[s] \in Int
      /\ msg \in Message /\ msg.gossip \in GossipOver(Member) /\ msg.kind = "State"
      /\ status[s] = "pinging" /\ UNCHANGED <<born, downed, suspected>>
      /\ self \in [Socket -> Member \cup {NoMember}]
  BY <1>1, RunningIsMember, MessageFields DEF Welcomed, Typed, TypeOK, NodesInOrder, Id
<1>3. /\ wasDowned => lastId[s] < MaxId
      /\ self' = [self EXCEPT ![s] = me]
  BY DEF Welcomed
<1>4. PICK rest \in AfterReceipt(msg) : EnterCluster(s, me, gossip, rest)
  BY DEF Welcomed
<1>5. /\ me \in Member
      /\ ~wasDowned => me = self[s]
      /\ wasDowned => me.id = born[s] + 1
  BY <1>1, <1>2, <1>3, NextIsMember
<1>6. gossip \in GossipOver(Member)
  BY <1>2, <1>5 DEF GossipOver, MachineState
<1>7. \A m \in Member : gossip[m] = IF m = me THEN Up ELSE msg.gossip[m]
  BY <1>2, <1>5 DEF GossipOver
<1>8. \A m \in Member : gossip[m] = Down => SaidDown(s, m)
  BY <1>2, <1>7 DEF Up, Down, SaidDown
<1>9. me.id = born[s] \/ (me.id = born[s] + 1 /\ gossip[Incarnation(s, born[s])] = Down)
  <2>1. wasDowned => me # self[s]
    BY <1>2, <1>5
  <2> QED
    BY <1>2, <1>5, <1>7, <2>1
<1>10. self'[s] = me /\ \A t \in Socket \ {s} : self'[t] = self[t]
  BY <1>2, <1>3
<1>11. me \in Member /\ status[s] = "pinging" /\ UNCHANGED <<born, downed, suspected>>
  BY <1>2, <1>5
<1> HIDE DEF gossip, me
<1> QED
  BY <1>4, <1>6, <1>8, <1>9, <1>10, <1>11, HistoryEnters

(* What a step in a cluster makes of the node's own gossip.                 *)
LEMMA HistoryWithin ==
  ASSUME Known, NEW s \in Socket, NEW c \in ICType, ic' = [ic EXCEPT ![s] = c],
         UNCHANGED <<status, born, suspected>>,
         \A t \in Socket : downed'[t] \subseteq downed[t],
         \A t \in Socket \ {s} : self'[t] = self[t],
         \A n \in net' \ net : n.kind = "State" /\ n.gossip = c.gossip,
         \A m \in Member : /\ ic[s].gossip[m] <= c.gossip[m]
                           /\ c.gossip[m] = Down => SaidDown(s, m),
         \/ self'[s] = self[s]
         \/ self'[s].id = self[s].id + 1 /\ c.gossip[self[s]] = Down
  PROVE  GossipMoves(s) /\ SelfMoves(s)
<1>1. ic \in [Socket -> ICType]
  BY DEF Known, Typed, TypeOK, ICType
<1>2. ic'[s] = c /\ \A t \in Socket \ {s} : ic'[t] = ic[t]
  BY <1>1
<1>3. AtMost(ic[s].gossip, ic'[s].gossip)
  BY <1>1, <1>2 DEF AtMost, ICType, GossipOver
<1> QED
  BY <1>2, <1>3 DEF GossipMoves, SelfMoves

LEMMA HistoryPinged ==
  ASSUME Known, NEW s \in Socket, NEW msg \in net, Pinged(s, msg)
  PROVE  GossipMoves(s) /\ SelfMoves(s)
<1> DEFINE old == ic[s]
           new == ~Knows(old.gossip, msg.from)
           gossip == [old.gossip EXCEPT ![msg.from] = Up]
           c == IF new
                THEN Recomputed(gossip, old.members \cup {msg.from},
                                InsertAll(old.ring, {msg.from}), self[s])
                ELSE old
<1>1. Typed /\ old.gossip \in GossipOver(Member)
  BY DEF Known, Typed, TypeOK
<1>2. /\ ic' = [ic EXCEPT ![s] = c] /\ c \in ICType /\ msg.from \in Member
      /\ \A n \in net' \ net : n.kind = "State" /\ n.gossip = c.gossip
  BY <1>1, PingedEffect
<1>3. UNCHANGED <<status, self, born, downed, suspected>>
  BY DEF Pinged
<1>4. \A m \in Member : gossip[m] = IF m = msg.from THEN Up ELSE old.gossip[m]
  BY <1>1, <1>2 DEF GossipOver
<1>5. c.gossip = IF new THEN gossip ELSE old.gossip
  BY RecomputedFields
<1>6. \A m \in Member : old.gossip[m] \in {0, 1, 2}
  BY <1>1 DEF GossipOver, MachineState, Absent, Up, Down
<1> HIDE DEF gossip, c
<1>7. \A m \in Member : /\ old.gossip[m] <= c.gossip[m]
                        /\ c.gossip[m] = Down => SaidDown(s, m)
  BY <1>4, <1>5, <1>6 DEF SaidDown, Knows, Absent, Up, Down
<1> QED
  BY <1>2, <1>3, <1>7, HistoryWithin

LEMMA HistoryDowned ==
  ASSUME Known, NEW s \in Socket, NEW d \in Member, Downed(s, d)
  PROVE  GossipMoves(s) /\ SelfMoves(s)
<1> DEFINE old == ic[s]
           gossip == [old.gossip EXCEPT ![d] = Down]
           c == Recomputed(gossip, old.members \ {d}, RemoveAll(old.ring, {d}), self[s])
<1>1. CASE old.gossip[d] # Up
  BY <1>1, HistoryQuiet
<1>2. CASE old.gossip[d] = Up
  <2>1. Typed /\ old.gossip \in GossipOver(Member) /\ downed \in [Socket -> SUBSET Member]
    BY DEF Known, Typed, TypeOK
  <2>2. /\ ic' = [ic EXCEPT ![s] = c] /\ c \in ICType
        /\ \A n \in net' \ net : n.kind = "State" /\ n.gossip = c.gossip
    BY <1>2, <2>1, DownedEffect
  <2>3. /\ UNCHANGED <<status, self, born, suspected>> /\ d \in downed[s]
        /\ \A t \in Socket : downed'[t] \subseteq downed[t]
    BY <2>1 DEF Downed
  <2>4. \A m \in Member : gossip[m] = IF m = d THEN Down ELSE old.gossip[m]
    BY <2>1 DEF GossipOver
  <2>5. c.gossip = gossip
    BY RecomputedFields
  <2>6. \A m \in Member : old.gossip[m] \in {0, 1, 2}
    BY <2>1 DEF GossipOver, MachineState, Absent, Up, Down
  <2> HIDE DEF gossip, c
  <2>7. \A m \in Member : /\ old.gossip[m] <= c.gossip[m]
                          /\ c.gossip[m] = Down => SaidDown(s, m)
    BY <2>3, <2>4, <2>5, <2>6 DEF SaidDown, Down
  <2> QED
    BY <2>2, <2>3, <2>7, HistoryWithin
<1> QED
  BY <1>1, <1>2

LEMMA HistoryGossiped ==
  ASSUME Known, NEW s \in Socket, NEW msg \in net, Gossiped(s, msg)
  PROVE  GossipMoves(s) /\ SelfMoves(s)
<1> DEFINE old     == ic[s]
           added   == AddedBy(old.gossip, msg.gossip)
           removed == RemovedBy(old.gossip, msg.gossip)
           merged  == Merge(old.gossip, msg.gossip)
           fresh   == IF self[s] \in removed THEN {NextMember(s)} ELSE {}
           me      == IF fresh = {} THEN self[s] ELSE NextMember(s)
           gossip  == [m \in Member |-> IF m \in fresh THEN Up ELSE merged[m]]
           c       == Recomputed(gossip, (old.members \ removed) \cup added \cup fresh,
                                 InsertAll(RemoveAll(old.ring, removed), added \cup fresh), me)
<1>1. Typed /\ old.gossip \in GossipOver(Member) /\ self \in [Socket -> Member \cup {NoMember}]
  BY DEF Known, Typed, TypeOK
<1>2. /\ msg.gossip \in GossipOver(Member) /\ msg.kind = "State"
      /\ fresh # {} => lastId[s] < MaxId
      /\ self' = [self EXCEPT ![s] = me]
      /\ ic' = [ic EXCEPT ![s] = c] /\ c \in ICType
      /\ \A n \in net' \ net : n.kind = "State" /\ n.gossip = c.gossip
  BY <1>1, GossipedEffect DEF GossipedEffectOf
<1>3. /\ UNCHANGED <<status, born, downed, suspected>> /\ status[s] = "in_cluster"
  BY DEF Gossiped
<1>4. self[s] \in Member /\ self[s].socket = s /\ self[s].id = lastId[s] /\ lastId[s] \in Int
  BY <1>1, <1>3, RunningIsMember DEF Typed, TypeOK, Id
<1>5. Started(old.gossip) /\ Started(msg.gossip)
  BY <1>2 DEF Known, Heard, HeardMessage
<1>6. \A m \in Member : merged[m] = IF old.gossip[m] < msg.gossip[m]
                                    THEN msg.gossip[m] ELSE old.gossip[m]
  BY <1>1 DEF Merge, Changes, GossipOver
<1>7. \A m \in Member : old.gossip[m] \in {0, 1, 2} /\ msg.gossip[m] \in {0, 1, 2}
  BY <1>1, <1>2 DEF GossipOver, MachineState, Absent, Up, Down
<1>8. fresh = {} \/ (/\ fresh = {NextMember(s)} /\ me = NextMember(s) /\ self[s] \in removed
                     /\ NextMember(s) \in Member
                     /\ me.socket = s /\ me.id = lastId[s] + 1)
  BY <1>1, <1>2, NextIsMember
<1>9. \A m \in removed : merged[m] = Down
  BY <1>1, <1>2 DEF RemovedBy, Changes, Merge, GossipOver
<1>10. c.gossip = gossip
  BY RecomputedFields
<1>11. fresh = {} => me = self[s]
  OBVIOUS
<1>12. \A m \in Member : gossip[m] = IF m \in fresh THEN Up ELSE merged[m]
  OBVIOUS
<1> HIDE DEF gossip, c, merged, removed, fresh, added, me
<1>13. \A m \in Member : m \in fresh => old.gossip[m] = Absent
  BY <1>4, <1>5, <1>8 DEF Started, Knows
<1>14. \A m \in Member : /\ old.gossip[m] <= c.gossip[m]
                         /\ c.gossip[m] = Down => SaidDown(s, m)
  <2> SUFFICES ASSUME NEW m \in Member
               PROVE  old.gossip[m] <= gossip[m] /\ (gossip[m] = Down => SaidDown(s, m))
    BY <1>10
  <2>1. CASE m \in fresh
    BY <1>12, <1>13, <2>1 DEF Absent, Up, Down
  <2>2. CASE m \notin fresh
    BY <1>2, <1>6, <1>7, <1>12, <2>2 DEF SaidDown
  <2> QED
    BY <2>1, <2>2
<1>15. self'[s] = me /\ \A t \in Socket \ {s} : self'[t] = self[t]
  BY <1>1, <1>2
<1>16. self'[s] = self[s] \/ (self'[s].id = self[s].id + 1 /\ c.gossip[self[s]] = Down)
  <2>1. CASE fresh = {}
    BY <1>11, <1>15, <2>1
  <2>2. CASE fresh # {}
    <3>1. self[s] \notin fresh
      BY <1>4, <1>8
    <3> QED
      BY <1>4, <1>8, <1>9, <1>10, <1>12, <1>15, <2>2, <3>1
  <2> QED
    BY <2>1, <2>2
<1>17. \A t \in Socket : downed'[t] \subseteq downed[t]
  BY <1>3
<1> QED
  BY <1>2, <1>3, <1>14, <1>15, <1>16, <1>17, HistoryWithin

NodeStep(s) ==
  \/ Start(s) \/ Stop(s) \/ Subscribe(s)
  \/ PingTimeout(s) \/ TimerFires(s) \/ GossipTimeout(s)
  \/ \E msg \in net : Receive(s, msg)
  \/ \E m \in Member : RequestHeartbeat(s, m) \/ GiveUpOn(s, m) \/ Downed(s, m)

LEMMA NodeHistory ==
  ASSUME Known, NEW s \in Socket, NodeStep(s)
  PROVE  GossipMoves(s) /\ SelfMoves(s)
<1>1. ASSUME NEW msg \in net, Receive(s, msg) PROVE GossipMoves(s) /\ SelfMoves(s)
  BY <1>1, HistoryPingedBySeed, HistoryWelcomed, HistoryPinged, HistoryGossiped, HistoryQuiet DEF Receive
<1>2. ASSUME NEW m \in Member, RequestHeartbeat(s, m) \/ GiveUpOn(s, m) \/ Downed(s, m)
      PROVE GossipMoves(s) /\ SelfMoves(s)
  BY <1>2, HistoryDowned, HistoryQuiet
<1>3. CASE Start(s) \/ Stop(s) \/ Subscribe(s) \/ PingTimeout(s) \/ TimerFires(s) \/ GossipTimeout(s)
  BY <1>3, HistoryAlone, HistoryQuiet
<1> QED
  BY <1>1, <1>2, <1>3 DEF NodeStep

LEMMA HistoryStep ==
  ASSUME Known, Next
  PROVE  \E s \in Socket : GossipMoves(s) /\ SelfMoves(s)
BY NodeHistory DEF Next, NodeStep

(* The gossip of whoever runs only grows: what was down stays down, also    *)
(* across a change of identity (gossip.rs:15-65, cluster.rs:94-155,         *)
(* 274-289).                                                                *)
THEOREM NothingIsForgotten == Spec => NeverForgets
<1>1. Known /\ [Next]_vars
        => [\A s \in Socket : status[s] = "in_cluster" /\ status'[s] = "in_cluster"
              => AtMost(ic[s].gossip, ic'[s].gossip)]_vars
  <2> SUFFICES ASSUME Known, Next, NEW t \in Socket, status[t] = "in_cluster", status'[t] = "in_cluster"
               PROVE  AtMost(ic[t].gossip, ic'[t].gossip)
    OBVIOUS
  <2>1. PICK s \in Socket : GossipMoves(s) /\ SelfMoves(s)
    BY HistoryStep
  <2>2. CASE t = s
    BY <2>1, <2>2 DEF SelfMoves
  <2>3. CASE t # s
    <3>1. ic'[t] = ic[t] /\ ic[t].gossip \in GossipOver(Member)
      BY <2>1, <2>3 DEF GossipMoves, Known, Typed, TypeOK
    <3> QED
      BY <3>1 DEF AtMost, GossipOver, MachineState, Absent, Up, Down
  <2> QED
    BY <2>2, <2>3
<1> QED
  BY <1>1, KnownAlways, PTL DEF Spec, NeverForgets
-----------------------------------------------------------------------------
(* Deaths.  A member is down in no gossip unless it was suspected.          *)
DeathsEarned ==
  /\ \A s \in Socket : \A m \in Member : ic[s].gossip[m] = Down => m \in suspected
  /\ \A n \in net : n.kind = "State" => \A m \in Member : n.gossip[m] = Down => m \in suspected
  /\ \A s \in Socket : downed[s] \subseteq suspected

LEMMA DeathsNext == Known /\ DeathsEarned /\ [Next]_vars => DeathsEarned'
<1> SUFFICES ASSUME Known, DeathsEarned, [Next]_vars PROVE DeathsEarned'
  OBVIOUS
<1>1. CASE UNCHANGED vars
  BY <1>1 DEF vars, DeathsEarned
<1>2. CASE Next
  <2>1. PICK s \in Socket : GossipMoves(s)
    BY <1>2, HistoryStep
  <2>2. /\ \A t \in Socket \ {s} : ic'[t] = ic[t]
        /\ \A n \in net' \ net : n.kind = "State" => n.gossip \in {ic[s].gossip, ic'[s].gossip}
        /\ \A m \in Member : ic'[s].gossip[m] = Down => SaidDown(s, m)
        /\ suspected \subseteq suspected' /\ \A t \in Socket : downed'[t] \subseteq downed[t] \cup suspected'
    BY <2>1 DEF GossipMoves
  <2>3. /\ \A t \in Socket : \A m \in Member : ic[t].gossip[m] = Down => m \in suspected
        /\ \A n \in net : n.kind = "State" => \A m \in Member : n.gossip[m] = Down => m \in suspected
        /\ \A t \in Socket : downed[t] \subseteq suspected
    BY DEF DeathsEarned
  <2>4. \A m \in Member : ic'[s].gossip[m] = Down => m \in suspected
    BY <2>2, <2>3 DEF SaidDown
  <2>5. \A t \in Socket : \A m \in Member : ic'[t].gossip[m] = Down => m \in suspected'
    <3> TAKE t \in Socket
    <3>1. CASE t = s
      BY <2>2, <2>4, <3>1
    <3>2. CASE t # s
      BY <2>2, <2>3, <3>2
    <3> QED
      BY <3>1, <3>2
  <2>6. \A n \in net' : n.kind = "State" => \A m \in Member : n.gossip[m] = Down => m \in suspected'
    <3> SUFFICES ASSUME NEW n \in net', n.kind = "State", NEW m \in Member, n.gossip[m] = Down
                 PROVE  m \in suspected'
      OBVIOUS
    <3>1. CASE n \in net
      BY <2>2, <2>3, <3>1
    <3>2. CASE n \notin net
      BY <2>2, <2>3, <2>4, <3>2
    <3> QED
      BY <3>1, <3>2
  <2>7. \A t \in Socket : downed'[t] \subseteq suspected'
    BY <2>2, <2>3
  <2> QED
    BY <2>5, <2>6, <2>7 DEF DeathsEarned
<1> QED
  BY <1>1, <1>2

(* Nobody makes up a death or a member: a member is down in some gossip,    *)
(* of a node or on its way, only if a heartbeat receiver gave up on that    *)
(* incarnation, and known only if it was started (cluster.rs:94-155,        *)
(* 274-289, 327-417).                                                       *)
THEOREM NewsIsTrue == Spec => []NoInventedNews
<1>1. Init => DeathsEarned
  <2>1. \A m \in Member : NotInCluster.gossip[m] # Down
    BY DEF NotInCluster, InCluster, Nothing, Absent, Down
  <2> QED
    BY <2>1 DEF Init, DeathsEarned
<1>2. ASSUME Known, DeathsEarned PROVE NoInventedNews
  <2> SUFFICES ASSUME NEW g \in AllGossip, NEW m \in Member
               PROVE  /\ g[m] = Down => m \in suspected
                      /\ Knows(g, m) => m.id <= lastId[m.socket]
    BY DEF NoInventedNews
  <2>1. CASE \E s \in Socket : g = ic[s].gossip
    BY <1>2, <2>1 DEF DeathsEarned, Known, Heard, Started
  <2>2. CASE \E n \in net : n.kind = "State" /\ g = n.gossip
    BY <1>2, <2>2 DEF DeathsEarned, Known, Heard, HeardMessage, Started
  <2> QED
    BY <2>1, <2>2 DEF AllGossip
<1> QED
  BY <1>1, <1>2, DeathsNext, KnownInit, KnownNext, PTL DEF Spec
-----------------------------------------------------------------------------
LEMMA FormerNext == Known /\ Known' /\ FormerSelvesDown /\ [Next]_vars => FormerSelvesDown'
<1> SUFFICES ASSUME Known, Known', FormerSelvesDown, [Next]_vars,
                    NEW t \in Socket, status'[t] = "in_cluster", NEW i \in born'[t] .. (self'[t].id - 1)
             PROVE  ic'[t].gossip[Incarnation(t, i)] = Down
  BY DEF FormerSelvesDown, InClusterNow
<1>1. \A k : status[t] = "in_cluster" /\ k \in born[t] .. (self[t].id - 1)
               => ic[t].gossip[Incarnation(t, k)] = Down
  BY DEF FormerSelvesDown, InClusterNow
<1>2. CASE UNCHANGED vars
  BY <1>1, <1>2 DEF vars
<1>3. CASE Next
  <2>1. PICK s \in Socket : GossipMoves(s) /\ SelfMoves(s)
    BY <1>3, HistoryStep
  <2>2. CASE t # s
    <3>1. UNCHANGED <<status[t], self[t], born[t], ic[t]>>
      BY <2>1, <2>2 DEF GossipMoves
    <3> QED
      BY <1>1, <3>1
  <2>3. CASE t = s
    <3>1. IF status[t] = "in_cluster"
          THEN /\ born'[t] = born[t]
               /\ AtMost(ic[t].gossip, ic'[t].gossip)
               /\ \/ self'[t] = self[t]
                  \/ self'[t].id = self[t].id + 1 /\ ic'[t].gossip[self[t]] = Down
          ELSE \/ self'[t].id = born'[t]
               \/ self'[t].id = born'[t] + 1 /\ ic'[t].gossip[Incarnation(t, born'[t])] = Down
      BY <2>1, <2>3 DEF SelfMoves
    <3>2. /\ MaxId \in Nat /\ self'[t].id \in 1..MaxId /\ born'[t] \in 1..self'[t].id
          /\ status[t] = "in_cluster" =>
               /\ self[t] = Incarnation(t, self[t].id)
               /\ self[t].id \in 1..MaxId /\ born[t] \in 1..self[t].id
      <4>1. lastId'[t] \in 1..MaxId /\ self'[t] = Incarnation(t, lastId'[t]) /\ born'[t] \in 1..lastId'[t]
        BY DEF Known, Typed, NodesInOrder, Id
      <4>2. status[t] = "in_cluster" =>
              lastId[t] \in 1..MaxId /\ self[t] = Incarnation(t, lastId[t]) /\ born[t] \in 1..lastId[t]
        BY DEF Known, Typed, NodesInOrder, Id
      <4>3. \A k : Incarnation(t, k).id = k
        BY DEF Incarnation
      <4> QED
        BY <4>1, <4>2, <4>3, ClusterAssumption
    <3>3. CASE status[t] # "in_cluster"
      <4>1. i = born'[t] /\ ic'[t].gossip[Incarnation(t, born'[t])] = Down
        BY <3>1, <3>2, <3>3
      <4> QED
        BY <4>1
    <3>4. CASE status[t] = "in_cluster"
      <4>1. CASE i \in born[t] .. (self[t].id - 1)
        <5> DEFINE m == Incarnation(t, i)
        <5>1. m \in Member
          <6>1. i \in Id
            BY <3>2, <3>4, <4>1 DEF Id
          <6> QED
            BY <6>1 DEF Incarnation, Member
        <5>2. ic[t].gossip[m] = Down /\ AtMost(ic[t].gossip, ic'[t].gossip)
          BY <1>1, <3>1, <3>4, <4>1
        <5>3. ic[t].gossip \in GossipOver(Member) /\ ic'[t].gossip \in GossipOver(Member)
          BY DEF Known, Typed, TypeOK
        <5> HIDE DEF m
        <5>4. ic[t].gossip[m] <= ic'[t].gossip[m]
          BY <5>1, <5>2, <5>3 DEF AtMost, GossipOver
        <5>5. ic'[t].gossip[m] \in {0, 1, 2}
          BY <5>1, <5>3 DEF GossipOver, MachineState, Absent, Up, Down
        <5>6. ic'[t].gossip[m] = Down
          BY <5>2, <5>4, <5>5 DEF Down
        <5> QED
          BY <5>6 DEF m
      <4>2. CASE i \notin born[t] .. (self[t].id - 1)
        <5>1. i = self[t].id /\ ic'[t].gossip[self[t]] = Down
          BY <3>1, <3>2, <3>4, <4>2
        <5> QED
          BY <3>2, <3>4, <5>1
      <4> QED
        BY <4>1, <4>2
    <3> QED
      BY <3>3, <3>4
  <2> QED
    BY <2>2, <2>3
<1> QED
  BY <1>2, <1>3

(* Whatever a running node was before its present identity is down in its   *)
(* own gossip: it never counts two incarnations of itself as members        *)
(* (cluster.rs:114-139, 355-377).                                           *)
THEOREM FormerSelvesStayDown == Spec => []FormerSelvesDown
<1>1. Init => FormerSelvesDown
  BY DEF Init, FormerSelvesDown, InClusterNow
<1> QED
  BY <1>1, FormerNext, KnownInit, KnownNext, PTL DEF Spec
-----------------------------------------------------------------------------
(* The subscriber.                                                          *)
ViewInSync(s) ==
  /\ view[s].phase # "panicked"
  /\ view[s].phase = "synced" =>
       status[s] = "in_cluster" /\ view[s] = Synced(self[s], ic[s].members \ {self[s]})
  /\ view[s].phase = "waiting" => status[s] = "pinging"

LEMMA ViewStep ==
  ASSUME SubscriberInSync, NEW s \in Socket, ViewInSync(s)',
         \A t \in Socket \ {s} : UNCHANGED <<status[t], self[t], ic[t], view[t]>>
  PROVE  SubscriberInSync'
<1> SUFFICES ASSUME NEW t \in Socket PROVE ViewInSync(t)'
  BY DEF SubscriberInSync, ViewInSync
<1>1. CASE t = s
  BY <1>1
<1>2. CASE t # s
  BY <1>2 DEF SubscriberInSync, ViewInSync
<1> QED
  BY <1>1, <1>2

LEMMA ViewsHere ==
  ASSUME Known, SubscriberInSync, NEW s \in Socket
  PROVE  /\ view \in [Socket -> ViewType] /\ ViewInSync(s)
         /\ status[s] = "left" => view[s].phase = "none"
         /\ status[s] = "pinging" => view[s].phase \in {"none", "waiting"}
         /\ status[s] = "in_cluster" => view[s].phase \in {"none", "synced"}
<1>1. view \in [Socket -> ViewType] /\ view[s].phase \in {"none", "waiting", "panicked", "synced"}
  BY DEF Known, Typed, TypeOK, ViewType
<1>2. ViewInSync(s)
  BY DEF SubscriberInSync, ViewInSync
<1> QED
  BY <1>1, <1>2 DEF ViewInSync

(* A subscriber that waits learns of a cluster the moment there is one.     *)
LEMMA ViewJoins ==
  ASSUME Known, SubscriberInSync, NEW s \in Socket, NEW me \in Member, NEW up \in SUBSET Member,
         status[s] # "in_cluster",
         view'[s] = (IF view[s].phase \in {"none", "panicked"} THEN view[s]
                     ELSE Fold(view[s], Events({}, {}, me), up)),
         status'[s] = "in_cluster", self'[s] = me, ic'[s].members = up
  PROVE  ViewInSync(s)'
<1>0. status[s] \in {"left", "pinging", "in_cluster"}
  BY DEF Known, Typed, TypeOK
<1>1. CASE view[s].phase = "none"
  BY <1>1 DEF ViewInSync
<1>2. CASE view[s].phase = "waiting"
  <2>1. me # NoMember
    BY DEF Member, NoMember, Id
  <2>2. view'[s] = Synced(me, up \ {me})
    BY <1>2, <2>1 DEF Fold, Events
  <2>3. view'[s].phase = "synced"
    BY <2>2 DEF Synced
  <2> QED
    BY <2>2, <2>3 DEF ViewInSync
<1> QED
  BY <1>0, <1>1, <1>2, ViewsHere

LEMMA SyncQuiet ==
  ASSUME Known, SubscriberInSync, NEW s \in Socket,
         \/ TimerFires(s) \/ GossipTimeout(s)
         \/ \E msg \in net : AskMonitor(s, msg) \/ GossipRequested(s, msg) \/ Unheeded(s, msg)
         \/ \E m \in Member : \/ RequestHeartbeat(s, m) \/ GiveUpOn(s, m)
                              \/ Downed(s, m) /\ ic[s].gossip[m] # Up
  PROVE  SubscriberInSync'
<1>1. UNCHANGED <<status, self, ic, view>>
  BY DEF TimerFires, GossipTimeout, AskMonitor, GossipRequested, Unheeded, RequestHeartbeat, GiveUpOn,
         Downed
<1> QED
  BY <1>1 DEF SubscriberInSync

LEMMA SyncStop ==
  ASSUME Known, SubscriberInSync, NEW s \in Socket, Stop(s)
  PROVE  SubscriberInSync'
<1>1. /\ status \in [Socket -> {"left", "pinging", "in_cluster"}]
      /\ self \in [Socket -> Member \cup {NoMember}] /\ ic \in [Socket -> ICType]
      /\ view \in [Socket -> ViewType]
  BY DEF Known, Typed, TypeOK, ICType, ViewType
<1>2. /\ view'[s] = Unsubscribed
      /\ \A t \in Socket \ {s} : UNCHANGED <<status[t], self[t], ic[t], view[t]>>
  BY <1>1 DEF Stop
<1>3. ViewInSync(s)'
  BY <1>2 DEF ViewInSync, Unsubscribed
<1> QED
  BY <1>2, <1>3, ViewStep

LEMMA SyncSubscribe ==
  ASSUME Known, SubscriberInSync, NEW s \in Socket, Subscribe(s)
  PROVE  SubscriberInSync'
<1>1. view \in [Socket -> ViewType] /\ status[s] \in {"left", "pinging", "in_cluster"}
  BY DEF Known, Typed, TypeOK, ViewType
<1>2. /\ UNCHANGED <<status, self, ic>> /\ status[s] # "left"
      /\ view'[s] = IF status[s] = "in_cluster"
                    THEN Fold(Waiting, Events({}, {}, self[s]), ic[s].members)
                    ELSE Waiting
      /\ \A t \in Socket \ {s} : view'[t] = view[t]
  BY <1>1 DEF Subscribe
<1>3. ViewInSync(s)'
  <2>1. CASE status[s] = "in_cluster"
    <3>1. self[s] \in Member
      BY <1>2, RunningIsMember DEF Known
    <3>2. self[s] # NoMember
      BY <3>1 DEF Member, NoMember, Id
    <3>3. view'[s] = Synced(self[s], ic[s].members \ {self[s]})
      BY <1>2, <2>1, <3>2 DEF Fold, Events, Waiting
    <3>4. view'[s].phase = "synced"
      BY <3>3 DEF Synced
    <3> QED
      BY <1>2, <2>1, <3>3, <3>4 DEF ViewInSync
  <2>2. CASE status[s] = "pinging"
    BY <1>2, <2>2 DEF ViewInSync, Waiting
  <2> QED
    BY <1>1, <1>2, <2>1, <2>2
<1> QED
  BY <1>2, <1>3, ViewStep

LEMMA SyncFounds ==
  ASSUME Known, SubscriberInSync, NEW s \in Socket, NEW me \in Member, CreateCluster(s, me),
         status[s] # "in_cluster", self'[s] = me, \A t \in Socket \ {s} : self'[t] = self[t]
  PROVE  SubscriberInSync'
<1>1. /\ status \in [Socket -> {"left", "pinging", "in_cluster"}]
      /\ ic \in [Socket -> ICType] /\ view \in [Socket -> ViewType]
  BY DEF Known, Typed, TypeOK, ICType, ViewType
<1>2. /\ ic'[s] = Alone(me) /\ status'[s] = "in_cluster"
      /\ \A t \in Socket \ {s} : UNCHANGED <<status[t], ic[t]>>
      /\ Notify(s, Events({}, {}, me), {me})
  BY <1>1 DEF CreateCluster
<1>3. /\ \A t \in Socket \ {s} : view'[t] = view[t]
      /\ view'[s] = IF view[s].phase \in {"none", "panicked"} THEN view[s]
                    ELSE Fold(view[s], Events({}, {}, me), {me})
  BY <1>1, <1>2, JoinedType
<1>4. ic'[s].members = {me} /\ {me} \in SUBSET Member
  BY <1>2, AloneType
<1>5. ViewInSync(s)'
  BY <1>2, <1>3, <1>4, ViewJoins
<1> QED
  BY <1>2, <1>3, <1>5, ViewStep

LEMMA SyncAlone ==
  ASSUME Known, SubscriberInSync, NEW s \in Socket, Start(s) \/ PingTimeout(s)
  PROVE  SubscriberInSync'
<1>0. /\ Typed /\ status \in [Socket -> {"left", "pinging", "in_cluster"}]
      /\ self \in [Socket -> Member \cup {NoMember}]
  BY DEF Known, Typed, TypeOK
<1>1. CASE Start(s)
  <2>1. /\ self'[s] = NextMember(s) /\ \A t \in Socket \ {s} : self'[t] = self[t]
        /\ status[s] = "left" /\ NextMember(s) \in Member
    BY <1>0, <1>1, NextIsMember DEF Start
  <2>2. CASE Seeds[s] \ {s} = {}
    BY <1>1, <2>1, <2>2, SyncFounds DEF Start
  <2>3. CASE Seeds[s] \ {s} # {}
    <3>1. status' = [status EXCEPT ![s] = "pinging"] /\ UNCHANGED <<ic, view>>
      BY <1>1, <2>3 DEF Start
    <3>2. view[s].phase = "none"
      BY <2>1, ViewsHere
    <3>3. ViewInSync(s)'
      BY <3>1, <3>2 DEF ViewInSync
    <3> QED
      BY <1>0, <2>1, <3>1, <3>3, ViewStep
  <2> QED
    BY <2>2, <2>3
<1>2. CASE PingTimeout(s)
  <2>1. self[s] \in Member /\ status[s] = "pinging" /\ UNCHANGED self
    BY <1>0, <1>2, RunningIsMember DEF PingTimeout
  <2>2. CASE count[s] = 0
    <3>1. CreateCluster(s, self[s])
      BY <1>2, <2>2 DEF PingTimeout
    <3> QED
      BY <2>1, <3>1, SyncFounds
  <2>3. CASE count[s] # 0
    BY <1>2, <2>1, <2>3 DEF PingTimeout, SubscriberInSync
  <2> QED
    BY <2>2, <2>3
<1> QED
  BY <1>1, <1>2

LEMMA SyncEnters ==
  ASSUME Known, SubscriberInSync, NEW s \in Socket, NEW me \in Member,
         NEW gossip \in GossipOver(Member), NEW msg \in net, NEW rest \in AfterReceipt(msg),
         EnterCluster(s, me, gossip, rest), status[s] = "pinging",
         self'[s] = me, \A t \in Socket \ {s} : self'[t] = self[t]
  PROVE  SubscriberInSync'
<1> DEFINE up == UpMembers(gossip)
<1>1. rest \in SUBSET Message /\ Typed /\ status \in [Socket -> {"left", "pinging", "in_cluster"}]
  BY RestType DEF Known, Typed, TypeOK
<1>2. /\ ic'[s] = InCluster(gossip, up, RingOf(up), Charges(RingOf(up), me), NodeManagers(RingOf(up), me))
      /\ status' = [status EXCEPT ![s] = "in_cluster"]
      /\ \A t \in Socket \ {s} : ic'[t] = ic[t]
      /\ \A t \in Socket \ {s} : view'[t] = view[t]
      /\ view'[s] = IF view[s].phase \in {"none", "panicked"} THEN view[s]
                    ELSE Fold(view[s], Events({}, {}, me), up)
  BY <1>1, EnterType
<1>3. up \in SUBSET Member /\ ic'[s].members = up
  BY <1>2 DEF UpMembers, GossipOver, InCluster
<1>4. status'[s] = "in_cluster" /\ \A t \in Socket \ {s} : status'[t] = status[t]
  BY <1>1, <1>2
<1> HIDE DEF up
<1>5. ViewInSync(s)'
  BY <1>2, <1>3, <1>4, ViewJoins
<1> QED
  BY <1>2, <1>4, <1>5, ViewStep

LEMMA SyncPingedBySeed ==
  ASSUME Known, SubscriberInSync, NEW s \in Socket, NEW msg \in net, PingedBySeed(s, msg)
  PROVE  SubscriberInSync'
<1> DEFINE gossip == [Nothing EXCEPT ![msg.from] = Up, ![self[s]] = Up]
<1>1. self[s] \in Member /\ status[s] = "pinging" /\ UNCHANGED self
  BY RunningIsMember DEF PingedBySeed, Known
<1>2. gossip \in GossipOver(Member)
  BY DEF GossipOver, Nothing, MachineState
<1>3. PICK rest \in AfterReceipt(msg) : EnterCluster(s, self[s], gossip, rest)
  BY DEF PingedBySeed
<1> HIDE DEF gossip
<1> QED
  BY <1>1, <1>2, <1>3, SyncEnters

LEMMA SyncWelcomed ==
  ASSUME Known, SubscriberInSync, NEW s \in Socket, NEW msg \in net, Welcomed(s, msg)
  PROVE  SubscriberInSync'
<1> DEFINE wasDowned == msg.gossip[self[s]] = Down
           me == IF wasDowned THEN NextMember(s) ELSE self[s]
           gossip == [msg.gossip EXCEPT ![me] = Up]
<1>1. Typed
  BY DEF Known
<1>2. /\ self[s] \in Member /\ msg.gossip \in GossipOver(Member) /\ status[s] = "pinging"
      /\ self \in [Socket -> Member \cup {NoMember}]
  BY <1>1, RunningIsMember, MessageFields DEF Welcomed, Typed, TypeOK
<1>3. /\ wasDowned => lastId[s] < MaxId
      /\ self' = [self EXCEPT ![s] = me]
  BY DEF Welcomed
<1>4. PICK rest \in AfterReceipt(msg) : EnterCluster(s, me, gossip, rest)
  BY DEF Welcomed
<1>5. me \in Member
  BY <1>1, <1>2, <1>3, NextIsMember
<1>6. gossip \in GossipOver(Member)
  BY <1>2, <1>5 DEF GossipOver, MachineState
<1>7. self'[s] = me /\ \A t \in Socket \ {s} : self'[t] = self[t]
  BY <1>2, <1>3
<1> HIDE DEF gossip, me
<1> QED
  BY <1>2, <1>4, <1>5, <1>6, <1>7, SyncEnters

(* What a subscriber folds the events of a change into.                     *)
LEMMA ViewFolds ==
  ASSUME Known, SubscriberInSync, NEW s \in Socket, status[s] = "in_cluster",
         NEW me \in Member, NEW added \in SUBSET Member, NEW removed \in SUBSET ic[s].members,
         NEW name \in Member \cup {NoMember},
         \/ name = NoMember /\ me = self[s] /\ self[s] \notin removed
         \/ name = me /\ self[s] \in removed /\ me \notin (ic[s].members \cup added),
         added \cap ic[s].members = {},
         NEW members,
         members \ {me} = ((ic[s].members \ removed) \cup added) \ {me},
         Notify(s, Events(added, removed, name), members),
         UNCHANGED status, self'[s] = me, \A t \in Socket \ {s} : self'[t] = self[t],
         ic'[s].members = members, \A t \in Socket \ {s} : ic'[t] = ic[t]
  PROVE  SubscriberInSync'
<1>1. /\ view \in [Socket -> ViewType] /\ ViewInSync(s)
      /\ view[s].phase \in {"none", "synced"}
      /\ self[s] \in Member /\ ic[s].members \subseteq Member
      /\ self[s] \in ic[s].members
  <2>1. self[s] \in Member /\ ic[s].gossip[self[s]] = Up /\ ic[s].members = UpMembers(ic[s].gossip)
        /\ ic[s].gossip \in GossipOver(Member)
    BY RunningIsMember DEF Known, Typed, TypeOK, Coherent, NodeCoherent
  <2> QED
    BY <2>1, ViewsHere DEF UpMembers, GossipOver
<1>2. \A t \in Socket \ {s} : view'[t] = view[t]
  BY <1>1 DEF Notify
<1>3. ViewInSync(s)'
  <2>1. CASE view[s].phase = "none"
    <3>1. view'[s] = view[s]
      BY <1>1, <2>1 DEF Notify
    <3> QED
      BY <2>1, <3>1 DEF ViewInSync
  <2>2. CASE view[s].phase = "synced"
    <3>1. view[s] = Synced(self[s], ic[s].members \ {self[s]})
      BY <1>1, <2>2 DEF ViewInSync
    <3>2. view[s].me = self[s] /\ view[s].peers = ic[s].members \ {self[s]}
      BY <3>1 DEF Synced
    <3>3. CASE Events(added, removed, name) = Events({}, {}, NoMember)
      <4>1. added = {} /\ removed = {} /\ name = NoMember
        BY <3>3 DEF Events
      <4>2. me = self[s] /\ members \ {me} = ic[s].members \ {me}
        BY <4>1
      <4>3. view'[s] = view[s]
        BY <3>3 DEF Notify
      <4> QED
        BY <2>2, <3>1, <4>2, <4>3 DEF ViewInSync
    <3>4. CASE Events(added, removed, name) # Events({}, {}, NoMember)
      <4>1. view'[s] = Fold(view[s], Events(added, removed, name), members)
        BY <1>1, <2>2, <3>4 DEF Notify
      <4> DEFINE gone == removed \ {self[s]}
      <4>2. gone \subseteq view[s].peers
        BY <3>2
      <4>3. view'[s] = Synced(IF name = NoMember THEN self[s] ELSE name,
                              ((ic[s].members \ {self[s]}) \cup added) \ gone)
        BY <2>2, <3>2, <4>1, <4>2 DEF Fold, Events
      <4>4. me # NoMember
        BY DEF Member, NoMember, Id
      <4>5. (IF name = NoMember THEN self[s] ELSE name) = me
        BY <4>4
      <4>6. ((ic[s].members \ {self[s]}) \cup added) \ gone = members \ {me}
        <5>1. members \ {me} = ((ic[s].members \ removed) \cup added) \ {me}
          OBVIOUS
        <5>2. CASE me = self[s] /\ self[s] \notin removed
          BY <1>1, <5>1, <5>2
        <5>3. CASE self[s] \in removed /\ me \notin (ic[s].members \cup added)
          BY <1>1, <5>1, <5>3
        <5> QED
          BY <5>2, <5>3
      <4>7. view'[s] = Synced(me, members \ {me})
        BY <4>3, <4>5, <4>6
      <4>8. view'[s].phase = "synced"
        BY <4>7 DEF Synced
      <4> QED
        BY <4>7, <4>8 DEF ViewInSync
    <3> QED
      BY <3>3, <3>4
  <2> QED
    BY <1>1, <2>1, <2>2
<1> QED
  BY <1>2, <1>3, ViewStep

LEMMA SyncPinged ==
  ASSUME Known, SubscriberInSync, NEW s \in Socket, NEW msg \in net, Pinged(s, msg)
  PROVE  SubscriberInSync'
<1> DEFINE old == ic[s]
           new == ~Knows(old.gossip, msg.from)
           c == IF new
                THEN Recomputed([old.gossip EXCEPT ![msg.from] = Up], old.members \cup {msg.from},
                                InsertAll(old.ring, {msg.from}), self[s])
                ELSE old
           added == IF new THEN {msg.from} ELSE {}
<1>1. Typed /\ old.gossip \in GossipOver(Member) /\ ic \in [Socket -> ICType]
  BY DEF Known, Typed, TypeOK, ICType
<1>2. /\ ic' = [ic EXCEPT ![s] = c] /\ c \in ICType /\ msg.from \in Member
      /\ Notify(s, Events(added, {}, NoMember), c.members)
  BY <1>1, PingedEffect
<1>3. UNCHANGED <<status, self>> /\ status[s] = "in_cluster" /\ self[s] \in Member
  BY <1>1, RunningIsMember DEF Pinged
<1>4. old.members = UpMembers(old.gossip)
  BY <1>3 DEF Known, Coherent, NodeCoherent
<1>5. /\ c.members = old.members \cup added /\ added \in SUBSET Member
      /\ added \cap old.members = {}
  <2>1. new => msg.from \notin old.members
    BY <1>4 DEF UpMembers, Knows, Up, Absent
  <2>2. CASE new
    BY <1>2, <2>1, <2>2, RecomputedFields
  <2>3. CASE ~new
    BY <2>3
  <2> QED
    BY <2>2, <2>3
<1>6. ic'[s].members = c.members /\ \A t \in Socket \ {s} : ic'[t] = ic[t]
  BY <1>1, <1>2
<1>7. /\ c.members \ {self[s]} = ((old.members \ {}) \cup added) \ {self[s]}
      /\ {} \in SUBSET old.members /\ self[s] \notin {}
      /\ self'[s] = self[s] /\ \A t \in Socket \ {s} : self'[t] = self[t]
      /\ UNCHANGED status
  BY <1>3, <1>5
<1>8. NoMember \in Member \cup {NoMember}
  OBVIOUS
<1> HIDE DEF c, added
<1> QED
  BY <1>2, <1>3, <1>5, <1>6, <1>7, <1>8, ViewFolds

LEMMA SyncDowned ==
  ASSUME Known, SubscriberInSync, NEW s \in Socket, NEW d \in Member, Downed(s, d)
  PROVE  SubscriberInSync'
<1> DEFINE old == ic[s]
           c == Recomputed([old.gossip EXCEPT ![d] = Down], old.members \ {d},
                           RemoveAll(old.ring, {d}), self[s])
<1>1. CASE old.gossip[d] # Up
  BY <1>1, SyncQuiet
<1>2. CASE old.gossip[d] = Up
  <2>1. Typed /\ old.gossip \in GossipOver(Member) /\ ic \in [Socket -> ICType]
    BY DEF Known, Typed, TypeOK, ICType
  <2>2. /\ ic' = [ic EXCEPT ![s] = c] /\ c \in ICType
        /\ Notify(s, Events({}, {d}, NoMember), c.members)
    BY <1>2, <2>1, DownedEffect
  <2>3. /\ UNCHANGED <<status, self>> /\ status[s] = "in_cluster" /\ self[s] \in Member
        /\ d \in downed[s]
    BY <2>1, RunningIsMember DEF Downed
  <2>4. old.members = UpMembers(old.gossip) /\ d # self[s]
    BY <2>3 DEF Known, Coherent, NodeCoherent
  <2>5. /\ c.members = old.members \ {d} /\ {d} \in SUBSET old.members
    BY <1>2, <2>1, <2>4, RecomputedFields DEF UpMembers, GossipOver
  <2>6. ic'[s].members = c.members /\ \A t \in Socket \ {s} : ic'[t] = ic[t]
    BY <2>1, <2>2
  <2>7. /\ c.members \ {self[s]} = ((old.members \ {d}) \cup {}) \ {self[s]}
        /\ {} \in SUBSET Member /\ {} \cap old.members = {} /\ self[s] \notin {d}
        /\ self'[s] = self[s] /\ \A t \in Socket \ {s} : self'[t] = self[t]
        /\ UNCHANGED status /\ NoMember \in Member \cup {NoMember}
    BY <2>3, <2>4, <2>5
  <2> HIDE DEF c
  <2> QED
    BY <2>2, <2>3, <2>5, <2>6, <2>7, ViewFolds
<1> QED
  BY <1>1, <1>2

LEMMA SyncGossiped ==
  ASSUME Known, SubscriberInSync, NEW s \in Socket, NEW msg \in net, Gossiped(s, msg)
  PROVE  SubscriberInSync'
<1> DEFINE old     == ic[s]
           added   == AddedBy(old.gossip, msg.gossip)
           removed == RemovedBy(old.gossip, msg.gossip)
           merged  == Merge(old.gossip, msg.gossip)
           fresh   == IF self[s] \in removed THEN {NextMember(s)} ELSE {}
           me      == IF fresh = {} THEN self[s] ELSE NextMember(s)
           members == (old.members \ removed) \cup added \cup fresh
           name    == IF fresh # {} THEN me ELSE NoMember
           c       == Recomputed([m \in Member |-> IF m \in fresh THEN Up ELSE merged[m]], members,
                                 InsertAll(RemoveAll(old.ring, removed), added \cup fresh), me)
<1>1. /\ Typed /\ old.gossip \in GossipOver(Member) /\ self \in [Socket -> Member \cup {NoMember}]
      /\ ic \in [Socket -> ICType]
  BY DEF Known, Typed, TypeOK, ICType
<1>2. /\ msg.gossip \in GossipOver(Member) /\ msg.kind = "State"
      /\ fresh # {} => lastId[s] < MaxId
      /\ added \in SUBSET Member /\ removed \in SUBSET Member /\ me \in Member
      /\ self' = [self EXCEPT ![s] = me]
      /\ ic' = [ic EXCEPT ![s] = c] /\ c \in ICType
      /\ Notify(s, Events(added, removed, name), c.members)
  <2>1. GossipedEffectOf(s, msg, fresh) = c
    BY DEF GossipedEffectOf
  <2> HIDE DEF c
  <2> QED
    BY <1>1, <2>1, GossipedEffect
<1>3. UNCHANGED status /\ status[s] = "in_cluster" /\ self[s] \in Member
  BY <1>1, RunningIsMember DEF Gossiped
<1>4. old.members = UpMembers(old.gossip)
  BY <1>3 DEF Known, Coherent, NodeCoherent
<1>5. Started(old.gossip) /\ Started(msg.gossip) /\ lastId[s] \in Int
  BY <1>1, <1>2 DEF Known, Heard, HeardMessage, TypeOK, Typed, Id
<1>6. /\ added = UpMembers(merged) \ UpMembers(old.gossip)
      /\ removed = UpMembers(old.gossip) \ UpMembers(merged)
  BY <1>1, <1>2, EventsAreUpSetDifference
<1>7. added \cap old.members = {} /\ removed \in SUBSET old.members
  BY <1>4, <1>6
<1>8. CASE self[s] \in removed
  <2>1. /\ fresh = {NextMember(s)} /\ me = NextMember(s) /\ name = me
        /\ me \in Member /\ me.socket = s /\ me.id = lastId[s] + 1
    BY <1>1, <1>2, <1>8, NextIsMember
  <2>2. ~Knows(old.gossip, me) /\ ~Knows(msg.gossip, me)
    BY <1>5, <2>1 DEF Started
  <2>3. me \notin old.members
    BY <1>4, <2>2 DEF UpMembers, Knows, Up, Absent
  <2>4. me \notin added
    BY <2>2 DEF AddedBy, Knows, Up, Absent
  <2>5. /\ c.members \ {me} = ((old.members \ removed) \cup added) \ {me}
        /\ c.members = members
    <3>1. c.members = members
      BY RecomputedFields
    <3> HIDE DEF c, me, added, removed
    <3> QED
      BY <2>1, <3>1
  <2>6. /\ ic'[s].members = c.members /\ \A t \in Socket \ {s} : ic'[t] = ic[t]
        /\ self'[s] = me /\ \A t \in Socket \ {s} : self'[t] = self[t]
    BY <1>1, <1>2
  <2>7. Notify(s, Events(added, removed, name), c.members) /\ name \in Member \cup {NoMember}
    BY <1>2, <2>1
  <2> HIDE DEF c, me, added, removed, name
  <2>8. me \notin (ic[s].members \cup added) /\ name = me /\ added \in SUBSET Member
    BY <1>2, <2>1, <2>3, <2>4
  <2> QED
    BY <1>3, <1>7, <1>8, <2>1, <2>5, <2>6, <2>7, <2>8, ViewFolds
<1>9. CASE self[s] \notin removed
  <2>1. fresh = {} /\ me = self[s] /\ name = NoMember
    BY <1>9
  <2>2. /\ c.members \ {me} = ((old.members \ removed) \cup added) \ {me}
        /\ c.members = members
    <3>1. c.members = members
      BY RecomputedFields
    <3> HIDE DEF c, me, added, removed
    <3> QED
      BY <2>1, <3>1
  <2>3. /\ ic'[s].members = c.members /\ \A t \in Socket \ {s} : ic'[t] = ic[t]
        /\ self'[s] = me /\ \A t \in Socket \ {s} : self'[t] = self[t]
    BY <1>1, <1>2
  <2>4. Notify(s, Events(added, removed, name), c.members) /\ name \in Member \cup {NoMember}
        /\ added \in SUBSET Member /\ me \in Member
    BY <1>2, <2>1
  <2> HIDE DEF c, me, added, removed, name
  <2> QED
    BY <1>3, <1>7, <1>9, <2>1, <2>2, <2>3, <2>4, ViewFolds
<1> QED
  BY <1>8, <1>9

LEMMA SyncNext == Known /\ SubscriberInSync /\ [Next]_vars => SubscriberInSync'
<1> SUFFICES ASSUME Known, SubscriberInSync, [Next]_vars PROVE SubscriberInSync'
  OBVIOUS
<1>1. ASSUME NEW s \in Socket,
             Start(s) \/ Stop(s) \/ Subscribe(s) \/ PingTimeout(s) \/ TimerFires(s)
               \/ GossipTimeout(s)
      PROVE  SubscriberInSync'
  BY <1>1, SyncAlone, SyncStop, SyncSubscribe, SyncQuiet
<1>2. ASSUME NEW s \in Socket, NEW msg \in net, Receive(s, msg) PROVE SubscriberInSync'
  BY <1>2, SyncPingedBySeed, SyncWelcomed, SyncPinged, SyncGossiped, SyncQuiet DEF Receive
<1>3. ASSUME NEW s \in Socket, NEW m \in Member,
             RequestHeartbeat(s, m) \/ GiveUpOn(s, m) \/ Downed(s, m)
      PROVE  SubscriberInSync'
  BY <1>3, SyncQuiet, SyncDowned
<1>4. CASE UNCHANGED vars
  BY <1>4 DEF vars, SubscriberInSync
<1> QED  BY <1>1, <1>2, <1>3, <1>4 DEF Next

(* Whoever folds the updates of the membership actor, as the causal actor   *)
(* and the device server do, has its picture of the members at every        *)
(* moment, whenever it subscribed, and never removes a peer it does not     *)
(* have (cluster.rs:94-155, 190-289, crdt/causal.rs:202-235).               *)
THEOREM SubscribersStayInSync == Spec => []SubscriberInSync
<1>1. Init => SubscriberInSync
  BY DEF Init, SubscriberInSync, Unsubscribed
<1> QED
  BY <1>1, SyncNext, KnownInit, KnownNext, PTL DEF Spec
-----------------------------------------------------------------------------
LEMMA MembersAreFinite ==
  ASSUME IsFiniteSet(Socket)
  PROVE  IsFiniteSet(Member)
<1> DEFINE f == [p \in Socket \X Id |-> Incarnation(p[1], p[2])]
<1>1. IsFiniteSet(Socket \X Id)
  <2>1. IsFiniteSet(Id)
    BY FS_Interval, ClusterAssumption DEF Id
  <2> QED  BY <2>1, FS_Product, Zenon
<1>2. f \in Surjection(Socket \X Id, Member)
  <2>1. f \in [Socket \X Id -> Member]
    BY DEF Member, Incarnation
  <2>2. \A m \in Member : \E p \in Socket \X Id : f[p] = m
    <3> TAKE m \in Member
    <3>1. <<m.socket, m.id>> \in Socket \X Id /\ m = [socket |-> m.socket, id |-> m.id]
      BY DEF Member
    <3>2. f[<<m.socket, m.id>>] = m
      BY <3>1 DEF Incarnation
    <3> QED  BY <3>1, <3>2
  <2> QED  BY <2>1, <2>2 DEF Surjection
<1> QED  BY <1>1, <1>2, FS_Surjection

(* Whenever two nodes know the same members, one sends its heartbeats to   *)
(* the other exactly if the other has started a receiver for it: no node   *)
(* is declared down for heartbeats it was never asked to send.  For any    *)
(* finite number of nodes, any hashes without collision and any            *)
(* replication factor.                                                     *)
THEOREM HeartbeatsAreExpected ==
  ASSUME IsFiniteSet(Socket)
  PROVE  Spec => []HeartbeatsExpected
<1>1. Known => HeartbeatsExpected
  <2> SUFFICES ASSUME Known,
                      NEW s \in InClusterNow, NEW t \in InClusterNow,
                      ic[s].members = ic[t].members
               PROVE  self[t] \in ic[s].managers <=> self[s] \in ic[t].charges
    BY DEF HeartbeatsExpected
  <2> DEFINE S == ic[s].members
  <2>1. \A r \in InClusterNow :
          /\ self[r] \in ic[r].members /\ ic[r].members \subseteq Member
          /\ ic[r].ring = RingOf(ic[r].members)
          /\ ic[r].charges = Charges(ic[r].ring, self[r])
          /\ ic[r].managers = NodeManagers(ic[r].ring, self[r])
    <3> TAKE r \in InClusterNow
    <3>1. r \in Socket /\ NodeCoherent(r) /\ status[r] = "in_cluster" /\ self[r] \in Member
      BY RunningIsMember DEF Known, Coherent, InClusterNow
    <3>2. ic[r].gossip \in GossipOver(Member) /\ ic[r].members \in SUBSET Member
      BY <3>1 DEF Known, Typed, TypeOK
    <3>3. self[r] \in UpMembers(ic[r].gossip)
      BY <3>1, <3>2 DEF NodeCoherent, UpMembers, GossipOver
    <3> QED  BY <3>1, <3>2, <3>3 DEF NodeCoherent
  <2>2. IsFiniteSet(S) /\ S \in SUBSET DOMAIN Chain
    BY <2>1, MembersAreFinite, FS_Subset, RingAssumption
  <2>3. self[s] \in S /\ self[t] \in S
    BY <2>1
  <2> HIDE DEF S
  <2>4. self[t] \in NodeManagers(RingOf(S), self[s])
          <=> self[s] \in Charges(RingOf(S), self[t])
    BY <2>2, <2>3, ChargesInvertManagers, ChainIsGood, RingAssumption
  <2> QED  BY <2>1, <2>4 DEF S
<1> QED  BY <1>1, KnownAlways, PTL
-----------------------------------------------------------------------------
(* The refinement of Membership.  What a node knows and what there is to    *)
(* know are those of the mapping in Cluster.                                *)
Picture == [s \in Socket |-> ic[s].gossip]
Ledger ==
  [m \in Member |-> IF m \in suspected THEN Down
                    ELSE IF m.id <= lastId[m.socket] THEN Up ELSE Absent]

(* Whoever was given up on had been started, and a node that does not run  *)
(* has no identity.                                                        *)
Accounted ==
  /\ Known /\ DeathsEarned
  /\ \A m \in suspected : m.id <= lastId[m.socket]
  /\ \A s \in Socket : status[s] = "left" <=> self[s] = NoMember

WithinLedger == \A s \in Socket : AtMost(ic[s].gossip, Ledger)

LEMMA AccountedPictures == Accounted => WithinLedger
<1> SUFFICES ASSUME Accounted, NEW s \in Socket, NEW m \in Member
             PROVE  ic[s].gossip[m] <= Ledger[m]
  <2>1. Accounted => \A s \in Socket : DOMAIN ic[s].gossip = Member
    BY DEF Accounted, Known, Typed, TypeOK, GossipOver
  <2> QED
    BY <2>1 DEF WithinLedger, AtMost
<1>1. ic[s].gossip[m] \in MachineState
  BY DEF Accounted, Known, Typed, TypeOK, GossipOver
<1>2. /\ ic[s].gossip[m] = Down => m \in suspected
      /\ ic[s].gossip[m] # Absent => m.id <= lastId[m.socket]
  BY DEF Accounted, DeathsEarned, Known, Heard, Started, Knows
<1> QED
  BY <1>1, <1>2 DEF Ledger, MachineState, Absent, Up, Down

LEMMA NobodyIsNoMember == NoMember \notin Member
BY DEF NoMember, Member, Id

(* How identifiers are drawn: none, or the next of one node, which takes   *)
(* the identity it makes.                                                  *)
KeepsIdentity == lastId' = lastId /\ self' = self

TakesIdentity(s) ==
  /\ lastId[s] < MaxId
  /\ self' = [self EXCEPT ![s] = NextMember(s)]
  /\ lastId' = [lastId EXCEPT ![s] = lastId[s] + 1]

\* A step of a running node that neither stops nor gives up on anybody.
Works(s) ==
  /\ status[s] # "left" /\ status'[s] \in {status[s], "in_cluster"}
  /\ suspected' = suspected /\ born' = born
  /\ \/ KeepsIdentity
     \/ TakesIdentity(s) /\ status'[s] = "in_cluster"

LEMMA SameIdentity ==
  ASSUME Typed, NEW s \in Socket, status[s] # "left",
         self' = [self EXCEPT ![s] = self[s]], lastId' = [lastId EXCEPT ![s] = self[s].id]
  PROVE  KeepsIdentity
<1>1. self[s].id = lastId[s] /\ DOMAIN self = Socket /\ DOMAIN lastId = Socket
  BY RunningIsMember DEF Typed, TypeOK
<1>2. self = [t \in Socket |-> self[t]] /\ lastId = [t \in Socket |-> lastId[t]]
  BY DEF Typed, TypeOK
<1> QED
  BY <1>1, <1>2 DEF KeepsIdentity

LEMMA WelcomedWorks ==
  ASSUME Known, NEW s \in Socket, NEW msg \in net, Welcomed(s, msg)
  PROVE  Works(s)
<1> DEFINE wasDowned == msg.gossip[self[s]] = Down
           me == IF wasDowned THEN NextMember(s) ELSE self[s]
<1>1. /\ status[s] = "pinging" /\ suspected' = suspected /\ born' = born
      /\ wasDowned => lastId[s] < MaxId
      /\ self' = [self EXCEPT ![s] = me] /\ lastId' = [lastId EXCEPT ![s] = me.id]
      /\ status' = [status EXCEPT ![s] = "in_cluster"]
  BY DEF Welcomed, EnterCluster
<1>2. status'[s] = "in_cluster" /\ Typed
  BY <1>1 DEF Known, Typed, TypeOK
<1>3. CASE wasDowned
  BY <1>1, <1>2, <1>3, NextIsMember DEF Works, TakesIdentity
<1>4. CASE ~wasDowned
  BY <1>1, <1>2, <1>4, SameIdentity DEF Works
<1> QED
  BY <1>3, <1>4

LEMMA GossipedWorks ==
  ASSUME Known, NEW s \in Socket, NEW msg \in net, Gossiped(s, msg)
  PROVE  Works(s)
<1> DEFINE removed == RemovedBy(ic[s].gossip, msg.gossip)
           reborn == self[s] \in removed
           me == IF reborn THEN NextMember(s) ELSE self[s]
<1>1. /\ reborn => lastId[s] < MaxId
      /\ self' = [self EXCEPT ![s] = me] /\ lastId' = [lastId EXCEPT ![s] = me.id]
  BY GossipedEffect DEF Known
<1>2. status[s] = "in_cluster" /\ status' = status /\ Typed
      /\ suspected' = suspected /\ born' = born
  BY DEF Gossiped, Known
<1>3. CASE reborn
  BY <1>1, <1>2, <1>3, NextIsMember DEF Works, TakesIdentity
<1>4. CASE ~reborn
  BY <1>1, <1>2, <1>4, SameIdentity DEF Works
<1> QED
  BY <1>3, <1>4

LEMMA OthersWork ==
  ASSUME Known, NEW s \in Socket,
         \/ Subscribe(s) \/ PingTimeout(s) \/ TimerFires(s) \/ GossipTimeout(s)
         \/ \E msg \in net : \/ PingedBySeed(s, msg) \/ AskMonitor(s, msg) \/ Pinged(s, msg)
                             \/ GossipRequested(s, msg) \/ Unheeded(s, msg)
         \/ \E m \in Member : RequestHeartbeat(s, m) \/ Downed(s, m)
  PROVE  \/ Works(s)
         \/ UNCHANGED <<self, ic, lastId, suspected, status>>
<1>1. status \in [Socket -> {"left", "pinging", "in_cluster"}]
  BY DEF Known, Typed, TypeOK
<1>2. CASE PingTimeout(s)
  BY <1>1, <1>2 DEF PingTimeout, CreateCluster, Works, KeepsIdentity
<1>3. ASSUME NEW msg \in net, PingedBySeed(s, msg) PROVE Works(s)
  BY <1>1, <1>3 DEF PingedBySeed, EnterCluster, Works, KeepsIdentity
<1>4. ASSUME NEW msg \in net, Pinged(s, msg) PROVE Works(s)
  BY <1>1, <1>4 DEF Pinged, Works, KeepsIdentity
<1>5. ASSUME NEW m \in Member, Downed(s, m) PROVE Works(s)
  BY <1>1, <1>5 DEF Downed, Works, KeepsIdentity
<1>6. CASE Subscribe(s) \/ TimerFires(s) \/ GossipTimeout(s)
  BY <1>6 DEF Subscribe, TimerFires, GossipTimeout
<1>7. ASSUME NEW msg \in net, AskMonitor(s, msg) \/ GossipRequested(s, msg) \/ Unheeded(s, msg)
      PROVE  UNCHANGED <<self, ic, lastId, suspected, status>>
  BY <1>7 DEF AskMonitor, GossipRequested, Unheeded
<1>8. ASSUME NEW m \in Member, RequestHeartbeat(s, m)
      PROVE  UNCHANGED <<self, ic, lastId, suspected, status>>
  BY <1>8 DEF RequestHeartbeat
<1> QED
  BY <1>2, <1>3, <1>4, <1>5, <1>6, <1>7, <1>8

LEMMA NodeWorks ==
  ASSUME Known, NEW s \in Socket, NodeStep(s)
  PROVE  \/ Start(s) \/ Stop(s) \/ Works(s)
         \/ \E m \in Member : GiveUpOn(s, m)
         \/ UNCHANGED <<self, ic, lastId, suspected, status>>
BY WelcomedWorks, GossipedWorks, OthersWork DEF NodeStep, Receive

(* A step of s moves no picture but that of s. *)
LEMMA PictureMoves ==
  ASSUME NEW s \in Socket, GossipMoves(s)
  PROVE  /\ Picture[s] = ic[s].gossip /\ Picture'[s] = ic'[s].gossip
         /\ Picture' = [Picture EXCEPT ![s] = ic'[s].gossip]
         /\ ic'[s].gossip = ic[s].gossip => Picture' = Picture
<1>1. \A t \in Socket \ {s} : ic'[t].gossip = ic[t].gossip
  BY DEF GossipMoves
<1> QED
  BY <1>1 DEF Picture

LEMMA LedgerStays ==
  ASSUME lastId' = lastId, suspected' = suspected
  PROVE  Ledger' = Ledger
BY DEF Ledger

(* An identity that is drawn is nobody's, and the only new one.            *)
LEMMA LedgerDraws ==
  ASSUME Accounted, NEW s \in Socket, lastId[s] < MaxId,
         lastId' = [lastId EXCEPT ![s] = lastId[s] + 1], suspected' = suspected
  PROVE  LET m == NextMember(s)
         IN  /\ m \in Member /\ m.socket = s /\ Ledger[m] = Absent
             /\ Ledger' = [Ledger EXCEPT ![m] = Up]
<1> DEFINE m == NextMember(s)
<1>1. m \in Member /\ m.socket = s /\ m.id = lastId[s] + 1
  BY NextIsMember DEF Accounted, Known
<1>2. lastId \in [Socket -> Nat]
  BY DEF Accounted, Known, Typed, TypeOK, Id
<1>3. m \notin suspected
  BY <1>1, <1>2 DEF Accounted
<1>4. Ledger[m] = Absent
  BY <1>1, <1>2, <1>3 DEF Ledger
<1>5. \A n \in Member : n.socket \in Socket /\ n.id \in Nat
                       /\ (n.socket = s /\ n.id = lastId[s] + 1 => n = m)
  BY <1>1 DEF Member, Id
<1> HIDE DEF m
<1>6. \A n \in Member \ {m} : n.id <= lastId'[n.socket] <=> n.id <= lastId[n.socket]
  BY <1>2, <1>5
<1>7. m.id <= lastId'[m.socket]
  BY <1>1, <1>2
<1>8. Ledger' = [Ledger EXCEPT ![m] = Up]
  BY <1>1, <1>3, <1>6, <1>7 DEF Ledger
<1> QED
  BY <1>1, <1>4, <1>8 DEF m

LEMMA StartRefines ==
  ASSUME Accounted, NEW s \in Socket, Start(s), GossipMoves(s)
  PROVE  Promise!Begin(s)
<1> DEFINE m == NextMember(s)
<1>1. /\ self[s] = NoMember /\ lastId[s] < MaxId /\ suspected' = suspected
      /\ self' = [self EXCEPT ![s] = m] /\ lastId' = [lastId EXCEPT ![s] = lastId[s] + 1]
      /\ ic' = ic \/ ic' = [ic EXCEPT ![s] = Alone(m)]
  BY DEF Accounted, Start, CreateCluster
<1>2. m \in Member /\ m.socket = s /\ Ledger[m] = Absent /\ Ledger' = [Ledger EXCEPT ![m] = Up]
  BY <1>1, LedgerDraws
<1>3. Picture' = Picture \/ Picture' = [Picture EXCEPT ![s] = [Nothing EXCEPT ![m] = Up]]
  <2>1. CASE ic' = ic
    BY <2>1 DEF Picture
  <2>2. CASE ic' = [ic EXCEPT ![s] = Alone(m)]
    <3>1. ic'[s].gossip = [Nothing EXCEPT ![m] = Up]
      BY <2>2 DEF Alone, InCluster, Accounted, Known, Typed, TypeOK
    <3> QED
      BY <3>1, PictureMoves
  <2> QED
    BY <1>1, <2>1, <2>2
<1> HIDE DEF m
<1> QED
  BY <1>1, <1>2, <1>3 DEF Promise!Begin, Promise!Draw, Promise!Nothing, Promise!Absent, Promise!Up,
                         Nothing, Absent, Up, Picture, Ledger

LEMMA StopRefines ==
  ASSUME Accounted, NEW s \in Socket, Stop(s), GossipMoves(s)
  PROVE  Promise!End(s)
<1>1. /\ self[s] # NoMember /\ self' = [self EXCEPT ![s] = NoMember]
      /\ lastId' = lastId /\ suspected' = suspected /\ ic' = [ic EXCEPT ![s] = NotInCluster]
  BY DEF Stop, Accounted
<1>2. ic'[s].gossip = Nothing
  BY <1>1 DEF NotInCluster, InCluster, Accounted, Known, Typed, TypeOK
<1>3. Picture' = [Picture EXCEPT ![s] = Nothing]
  BY <1>2, PictureMoves
<1>4. Ledger' = Ledger
  BY <1>1, LedgerStays
<1> QED
  BY <1>1, <1>3, <1>4 DEF Promise!End, Promise!Nothing, Promise!Absent, Nothing, Absent,
                         Picture, Ledger

LEMMA WatchedIsUp ==
  ASSUME Known, NEW s \in Socket, NEW d \in ic[s].charges
  PROVE  d \in Member /\ ic[s].gossip[d] = Up /\ d # self[s]
<1>1. status[s] = "in_cluster"
  BY DEF Known, Typed, TypeOK, NodesInOrder, NotInCluster, InCluster
<1>2. /\ ic[s].members = UpMembers(ic[s].gossip) /\ ic[s].ring = RingOf(ic[s].members)
      /\ ic[s].charges = Charges(ic[s].ring, self[s]) /\ ic[s].gossip[self[s]] = Up
      /\ ic[s].members \subseteq Member /\ self[s] \in Member
      /\ ic[s].gossip \in GossipOver(Member)
  BY <1>1, RunningIsMember DEF Known, Coherent, NodeCoherent, Typed, TypeOK
<1>3. self[s] \in ic[s].members
  BY <1>2 DEF UpMembers, GossipOver
<1>4. d \in ic[s].members \ {self[s]}
  BY <1>2, <1>3, ResponsibleAreMembers, ChainIsGood, RingAssumption
<1> QED
  BY <1>2, <1>4 DEF UpMembers

LEMMA GiveUpRefines ==
  ASSUME Accounted, NEW s \in Socket, NEW m \in Member, GiveUpOn(s, m)
  PROVE  Promise!GiveUp(m) \/ UNCHANGED Promise!vars
<1>1. /\ UNCHANGED <<self, ic, lastId>> /\ suspected' = suspected \cup {m}
      /\ m \in ic[s].charges
  BY DEF GiveUpOn
<1>2. Picture' = Picture
  BY <1>1 DEF Picture
<1>3. ic[s].gossip[m] = Up /\ m # self[s]
  BY WatchedIsUp DEF Accounted, GiveUpOn
<1>4. CASE m \in suspected
  <2>1. suspected' = suspected
    BY <1>1, <1>4
  <2>2. Ledger' = Ledger
    BY <1>1, <2>1, LedgerStays
  <2> QED
    BY <1>1, <1>2, <2>2 DEF Promise!vars, Picture, Ledger
<1>5. CASE m \notin suspected
  <2>1. m.id <= lastId[m.socket]
    BY <1>3 DEF Accounted, Known, Heard, Started, Knows, Up, Absent
  <2>2. Ledger[m] = Up
    BY <1>5, <2>1 DEF Ledger
  <2>3. Ledger' = [Ledger EXCEPT ![m] = Down]
    BY <1>1 DEF Ledger
  <2>4. Picture[s][m] = Up
    BY <1>3 DEF Picture
  <2> QED
    BY <1>1, <1>2, <1>3, <2>2, <2>3, <2>4 DEF Promise!GiveUp, Promise!Up, Promise!Down,
                                             Up, Down, Picture, Ledger
<1> QED
  BY <1>4, <1>5

LEMMA WorkRefines ==
  ASSUME Accounted, Accounted', NEW s \in Socket, Works(s), GossipMoves(s), SelfMoves(s)
  PROVE  Promise!Learn(s) \/ Promise!Return(s) \/ UNCHANGED Promise!vars
<1>1. WithinLedger'
  BY AccountedPictures, PTL
<1>2. /\ \A t \in Socket : ic[t].gossip \in GossipOver(Member) /\ ic'[t].gossip \in GossipOver(Member)
      /\ self[s] \in Member /\ self[s] # NoMember
      /\ self[s] = Incarnation(s, lastId[s]) /\ self[s].id = lastId[s]
      /\ status[s] = "pinging" => born[s] = lastId[s] /\ ic[s] = NotInCluster
      /\ status'[s] # "in_cluster" => ic'[s] = NotInCluster
      /\ status[s] \in {"pinging", "in_cluster"}
  BY RunningIsMember, NobodyIsNoMember DEF Works, Accounted, Known, Typed, TypeOK, NodesInOrder
<1>3. CASE ic'[s].gossip = ic[s].gossip /\ KeepsIdentity
  <2>1. Ledger' = Ledger /\ Picture' = Picture
    BY <1>3, PictureMoves, LedgerStays DEF Works, KeepsIdentity
  <2> QED
    BY <1>3, <2>1 DEF KeepsIdentity, Promise!vars, Picture, Ledger
<1>4. CASE ~(ic'[s].gossip = ic[s].gossip /\ KeepsIdentity)
  <2>1. status'[s] = "in_cluster"
    BY <1>2, <1>4 DEF Works
  <2>2. AtMost(Picture[s], Picture'[s])
    <3>1. AtMost(ic[s].gossip, ic'[s].gossip)
      <4>1. CASE status[s] = "in_cluster"
        BY <2>1, <4>1 DEF SelfMoves
      <4>2. CASE status[s] = "pinging"
        <5>1. \A m \in Member : ic[s].gossip[m] = Absent /\ ic'[s].gossip[m] \in MachineState
          BY <1>2, <4>2 DEF NotInCluster, InCluster, Nothing, GossipOver
        <5>2. DOMAIN ic[s].gossip = Member
          BY <1>2 DEF GossipOver
        <5> QED
          BY <5>1, <5>2 DEF AtMost, MachineState, Absent, Up, Down
      <4> QED
        BY <1>2, <4>1, <4>2
    <3> QED
      BY <3>1, PictureMoves
  <2>3. AtMost(Picture'[s], Ledger')
    <3>1. AtMost(ic'[s].gossip, Ledger')
      BY <1>1 DEF WithinLedger
    <3> QED
      BY <3>1, PictureMoves
  <2>4. Picture'[s][self'[s]] = Up
    <3>1. ic'[s].gossip[self'[s]] = Up
      BY <2>1 DEF Accounted, Known, Coherent, NodeCoherent
    <3> QED
      BY <3>1, PictureMoves
  <2>5. Picture'[s] \in GossipOver(Member) /\ Picture' = [Picture EXCEPT ![s] = Picture'[s]]
    BY <1>2, PictureMoves
  <2>6. Promise!Grows(s)
    BY <2>2, <2>3, <2>4, <2>5 DEF Promise!Grows, Promise!AtMost, Promise!GossipOver,
         Promise!MachineState, Promise!Absent, Promise!Up, Promise!Down,
         AtMost, GossipOver, MachineState, Absent, Up, Down, Picture, Ledger
  <2>7. CASE KeepsIdentity
    <3>1. Ledger' = Ledger
      BY <2>7, LedgerStays DEF Works, KeepsIdentity
    <3> QED
      BY <1>2, <2>6, <2>7, <3>1 DEF Promise!Learn, KeepsIdentity, Ledger
  <2>8. CASE TakesIdentity(s)
    <3> DEFINE m == NextMember(s)
    <3>1. m \in Member /\ m.socket = s /\ Ledger[m] = Absent /\ Ledger' = [Ledger EXCEPT ![m] = Up]
      BY <2>8, LedgerDraws DEF Works, TakesIdentity
    <3>2. self'[s].id = lastId[s] + 1 /\ self' = [self EXCEPT ![s] = m]
      <4>1. self' = [self EXCEPT ![s] = m] /\ m.id = lastId[s] + 1 /\ DOMAIN self = Socket
        BY <2>8, NextIsMember DEF TakesIdentity, Accounted, Known, Typed, TypeOK
      <4> QED
        BY <4>1
    <3>3. ic'[s].gossip[self[s]] = Down
      <4>1. lastId[s] \in Int /\ self'[s].id # lastId[s] /\ self'[s] # self[s]
        <5>1. lastId[s] \in Int
          BY DEF Accounted, Known, Typed, TypeOK, Id
        <5> QED
          BY <1>2, <3>2, <5>1
      <4>2. CASE status[s] = "in_cluster"
        BY <2>1, <4>1, <4>2 DEF SelfMoves
      <4>3. CASE status[s] = "pinging"
        <5>1. born'[s] = lastId[s]
          BY <1>2, <4>3 DEF Works
        <5> QED
          BY <1>2, <2>1, <4>1, <4>3, <5>1 DEF SelfMoves
      <4> QED
        BY <1>2, <4>2, <4>3
    <3>4. Picture'[s][self[s]] = Down
      BY <3>3, PictureMoves
    <3> HIDE DEF m
    <3> QED
      BY <1>2, <2>6, <3>1, <3>2, <3>4 DEF Promise!Return, Promise!Draw,
         Promise!Absent, Promise!Up, Promise!Down, Absent, Up, Down, Picture, Ledger
  <2> QED
    BY <2>7, <2>8 DEF Works
<1> QED
  BY <1>3, <1>4

RunningNamed == \A s \in Socket : status[s] # "left" => self[s] \in Member

LEMMA RunningHaveNames == Typed => RunningNamed
BY RunningIsMember DEF RunningNamed

LEMMA AccountedInit == Init => Accounted
<1> SUFFICES ASSUME Init PROVE Accounted
  OBVIOUS
<1>1. \A m \in Member : NotInCluster.gossip[m] # Down
  BY DEF NotInCluster, InCluster, Nothing, Absent, Down
<1>2. DeathsEarned
  BY <1>1 DEF Init, DeathsEarned
<1> QED
  BY <1>2, KnownInit DEF Init, Accounted

LEMMA AccountedStep ==
  ASSUME Accounted, Known', DeathsEarned', NEW s \in Socket, NodeStep(s)
  PROVE  Accounted'
<1>1. GossipMoves(s)
  BY NodeHistory DEF Accounted
<1>2. \A t \in Socket : status'[t] # "left" => self'[t] \in Member
  <2>1. Typed'
    BY DEF Known
  <2>2. RunningNamed'
    BY <2>1, RunningHaveNames, PTL
  <2> QED
    BY <2>2 DEF RunningNamed
<1>3. /\ Start(s) \/ Stop(s) \/ Works(s)
         \/ (\E m \in Member : GiveUpOn(s, m))
         \/ UNCHANGED <<self, ic, lastId, suspected, status>>
  BY NodeWorks DEF Accounted
<1>4. /\ status' \in [Socket -> {"left", "pinging", "in_cluster"}]
      /\ lastId \in [Socket -> Nat]
      /\ self \in [Socket -> Member \cup {NoMember}]
  BY DEF Accounted, Known, Typed, TypeOK, Id
<1>5. ASSUME NEW t \in Socket PROVE status'[t] = "left" <=> self'[t] = NoMember
  <2>1. CASE t # s
    BY <1>1, <2>1 DEF GossipMoves, Accounted
  <2>2. CASE t = s
    <3>1. status'[s] = "left" => self'[s] = NoMember
      <4>1. CASE Start(s)
        BY <1>4, <4>1 DEF Start, CreateCluster, Accounted, Known, Typed, TypeOK
      <4>2. CASE Stop(s)
        BY <1>4, <4>2 DEF Stop
      <4>3. CASE Works(s)
        BY <4>3 DEF Works
      <4>4. ASSUME NEW m \in Member, GiveUpOn(s, m)
            PROVE  status'[s] = "left" => self'[s] = NoMember
        BY <4>4 DEF GiveUpOn, Accounted
      <4>5. CASE UNCHANGED <<self, ic, lastId, suspected, status>>
        BY <4>5 DEF Accounted
      <4> QED
        BY <1>3, <4>1, <4>2, <4>3, <4>4, <4>5
    <3> QED
      BY <1>2, <2>2, <3>1, NobodyIsNoMember
  <2> QED
    BY <2>1, <2>2
<1>6. /\ \A t \in Socket : lastId[t] <= lastId'[t]
      /\ \A m \in suspected' : m \in suspected \/ m.id <= lastId[m.socket]
      /\ suspected' \subseteq Member
  <2>0. /\ lastId' = lastId => \A t \in Socket : lastId[t] <= lastId'[t]
        /\ lastId' = [lastId EXCEPT ![s] = lastId[s] + 1] => \A t \in Socket : lastId[t] <= lastId'[t]
    BY <1>4
  <2>1. suspected' \subseteq Member
    BY DEF Known, Typed, TypeOK
  <2>2. CASE Start(s) \/ Stop(s)
    BY <2>0, <2>1, <2>2 DEF Start, Stop
  <2>3. CASE Works(s)
    BY <2>0, <2>1, <2>3 DEF Works, KeepsIdentity, TakesIdentity
  <2>4. ASSUME NEW m \in Member, GiveUpOn(s, m)
        PROVE  lastId' = lastId /\ suspected' = suspected \cup {m} /\ m.id <= lastId[m.socket]
    <3>1. lastId' = lastId /\ suspected' = suspected \cup {m} /\ m \in ic[s].charges
      BY <2>4 DEF GiveUpOn
    <3>2. Knows(ic[s].gossip, m)
      BY <3>1, WatchedIsUp DEF Accounted, Knows, Up, Absent
    <3> QED
      BY <3>1, <3>2 DEF Accounted, Known, Heard, Started
  <2>5. CASE UNCHANGED <<self, ic, lastId, suspected, status>>
    BY <2>0, <2>1, <2>5
  <2> QED
    BY <1>3, <2>0, <2>1, <2>2, <2>3, <2>4, <2>5
<1>7. \A m \in suspected' : m.id <= lastId'[m.socket]
  <2> SUFFICES ASSUME NEW m \in suspected' PROVE m.id <= lastId'[m.socket]
    OBVIOUS
  <2>1. m.id <= lastId[m.socket] /\ m.socket \in Socket /\ m.id \in Int
    BY <1>6 DEF Accounted, Member, Id
  <2>2. lastId[m.socket] \in Int /\ lastId'[m.socket] \in Int
    BY <2>1 DEF Accounted, Known, Typed, TypeOK, Id
  <2> QED
    BY <1>6, <2>1, <2>2
<1> QED
  BY <1>5, <1>7 DEF Accounted

LEMMA AccountedNext == Accounted /\ [Next]_vars => Accounted'
<1> SUFFICES ASSUME Accounted, [Next]_vars PROVE Accounted'
  OBVIOUS
<1>1. Known' /\ DeathsEarned'
  BY KnownNext, DeathsNext DEF Accounted
<1>2. CASE Next
  BY <1>1, <1>2, AccountedStep DEF Next, NodeStep
<1>3. CASE UNCHANGED vars
  BY <1>1, <1>3 DEF vars, Accounted
<1> QED
  BY <1>2, <1>3

(* For any number of nodes, identifiers, restarts, losses and repetitions, *)
(* every behaviour of the cluster is one that Membership allows: gossip,   *)
(* verdicts, rejoining and restarting keep each node's picture between     *)
(* what it knew and what happened, identities are drawn afresh and left    *)
(* for good, and only a member's peers give up on it (cluster/mod.rs:      *)
(* 9-28).                                                                  *)
THEOREM PromiseIsKept == Spec => ImplementsMembership
<1>1. Init => Promise!Init
  <2> SUFFICES ASSUME Init PROVE Promise!Init
    OBVIOUS
  <2>1. Picture = [s \in Socket |-> Nothing]
    BY DEF Init, Picture, NotInCluster, InCluster
  <2>2. Ledger = Nothing
    <3>1. \A m \in Member : ~(m.id <= lastId[m.socket]) /\ m \notin suspected
      BY DEF Init, Member, Id
    <3> QED
      BY <3>1 DEF Ledger, Nothing
  <2> QED
    BY <2>1, <2>2 DEF Init, Promise!Init, Promise!Nothing, Promise!Absent, Nothing, Absent,
         Picture, Ledger
<1>2. Accounted /\ Accounted' /\ [Next]_vars => [Promise!Next]_(Promise!vars)
  <2> SUFFICES ASSUME Accounted, Accounted', [Next]_vars
               PROVE  Promise!Next \/ UNCHANGED Promise!vars
    OBVIOUS
  <2>1. CASE UNCHANGED vars
    <3>1. Picture' = Picture /\ Ledger' = Ledger /\ self' = self
      BY <2>1 DEF vars, Picture, Ledger
    <3> QED
      BY <3>1 DEF Promise!vars, Picture, Ledger
  <2>2. CASE Next
    <3>1. PICK s \in Socket : NodeStep(s)
      BY <2>2 DEF Next, NodeStep
    <3>2. GossipMoves(s) /\ SelfMoves(s)
      BY <3>1, NodeHistory DEF Accounted
    <3>3. \/ Start(s) \/ Stop(s) \/ Works(s)
          \/ \E m \in Member : GiveUpOn(s, m)
          \/ UNCHANGED <<self, ic, lastId, suspected, status>>
      BY <3>1, NodeWorks DEF Accounted
    <3>4. CASE UNCHANGED <<self, ic, lastId, suspected, status>>
      <4>1. Picture' = Picture /\ Ledger' = Ledger /\ self' = self
        BY <3>4 DEF Picture, Ledger
      <4> QED
        BY <4>1 DEF Promise!vars, Picture, Ledger
    <3>5. CASE Start(s) \/ Stop(s)
      BY <3>2, <3>5, StartRefines, StopRefines DEF Promise!Next
    <3>6. CASE Works(s)
      BY <3>2, <3>6, WorkRefines DEF Promise!Next
    <3>7. ASSUME NEW m \in Member, GiveUpOn(s, m) PROVE Promise!Next \/ UNCHANGED Promise!vars
      BY <3>7, GiveUpRefines DEF Promise!Next
    <3> QED
      BY <3>3, <3>4, <3>5, <3>6, <3>7
  <2> QED
    BY <2>1, <2>2
<1> QED
  BY <1>1, <1>2, AccountedInit, AccountedNext, PTL DEF Spec, ImplementsMembership, Promise!Spec
=============================================================================
