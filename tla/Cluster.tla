------------------------------ MODULE Cluster ------------------------------
(***************************************************************************)
(* The membership protocol of cluster/cluster.rs: one Cluster actor per    *)
(* socket, the heartbeat receivers it spawns (as an oracle that may give   *)
(* any verdict on a charge), one subscriber per node, and UDP.             *)
(*                                                                         *)
(* An actor handles one message at a time and every handler runs to its    *)
(* end before the next, so each handler is one action.                     *)
(***************************************************************************)
EXTENDS Gossip, NodeRing, Udp, FiniteSetsExt

CONSTANTS
  Socket,          \* the nodes
  Seeds,           \* seed_nodes of each node
  NumPings,        \* num_pings
  GossipDisperse,  \* gossip_disperse
  MaxId,           \* bound: identifiers a socket ever draws
  MaxTimers,       \* bound: gossip timers nobody holds a handle to
  MaxSuspected,    \* bound: members ever declared down by a heartbeat receiver
  MayStop,         \* bound: the nodes that may stop and start again
  Subscribed       \* bound: the nodes that may get a subscriber

\* Identifiers are drawn at random from 64 bits; the model draws them fresh.
Id     == 1..MaxId
Member == [socket : Socket, id : Id]
Incarnation(s, i) == [socket |-> s, id |-> i]
NoMember == [socket |-> "none", id |-> 0]

ASSUME ClusterAssumption ==
  /\ Seeds \in [Socket -> SUBSET Socket]
  /\ NumPings \in Nat \ {0} /\ GossipDisperse \in Nat
  /\ Unreliable \in BOOLEAN
  /\ MayStop \subseteq Socket /\ Subscribed \subseteq Socket
  /\ MaxId \in Nat /\ MaxInFlight \in Nat /\ MaxTimers \in Nat /\ MaxSuspected \in Nat

ASSUME RingAssumption ==
  /\ DOMAIN Chain = Member
  /\ \A m \in Member : Chain[m] \in Seq(Nat) /\ Len(Chain[m]) > 0
  /\ NoCollision
  /\ RepFactor \in Nat

VARIABLES
  status,    \* State: "left" before start and after stop, "pinging", "in_cluster"
  self,      \* common.member
  born,      \* history: the id the running actor was created with
  count,     \* Pinging.count
  ic,        \* InCluster: gossip, members, ring, charges, managers
  armed,     \* the timer behind ic.gossip_timeout has yet to fire
  loose,     \* gossip timers and GossipTimeout messages no handle can abort
  downed,    \* Downed messages in the actor's mailbox
  view,      \* what the subscriber has folded the ClusterUpdates into
  lastId,    \* the last id drawn at each socket
  suspected  \* history: members some heartbeat receiver declared down

vars == <<status, self, born, count, ic, armed, loose, downed, view, lastId,
          suspected, net>>


Ring == {RingOf(S) : S \in SUBSET Member}

\* ring.charges(m) and ring.node_managers(m), tabulated for every ring.
ChargesIn  == [ring \in Ring |-> [m \in Member |-> Charges(ring, m)]]
ManagersIn == [ring \in Ring |-> [m \in Member |-> NodeManagers(ring, m)]]

InCluster(gossip, members, ring, charges, managers) ==
  [gossip |-> gossip, members |-> members, ring |-> ring,
   charges |-> charges, managers |-> managers]

Nothing == [m \in Member |-> Absent]
NotInCluster == InCluster(Nothing, {}, EmptyRing, {}, {})

Message ==
  [kind : {"State"}, to : Socket, gossip : GossipOver(Member)]
    \cup [kind : {"Ping", "ReqGossip"}, to : Socket, from : Member]
    \cup [kind : {"ReqHeartbeat"}, to : Socket, from : Member, id : Id]
-----------------------------------------------------------------------------
(* The subscriber, as crdt/causal.rs and devices/server.rs keep one: the   *)
(* first update must end in Alone or Joined and gives the local member and *)
(* its peers; later ones change them by their events alone.  Removing a    *)
(* peer it does not have is an unwrap of None.                             *)
Unsubscribed == [phase |-> "none", me |-> NoMember, peers |-> {}]
Waiting      == [phase |-> "waiting", me |-> NoMember, peers |-> {}]
Panicked     == [phase |-> "panicked", me |-> NoMember, peers |-> {}]
Synced(me, peers) == [phase |-> "synced", me |-> me, peers |-> peers]

\* The events of one ClusterUpdate.  me is NoMember when no Alone or Joined
\* is among them; when there is one it comes last.
Events(added, removed, me) == [added |-> added, removed |-> removed, me |-> me]

\* A variant of the fold that counts its own former self among its peers.
FoldWithFormerSelf(v, events, nodes) ==
  IF v.phase = "waiting"
  THEN IF events.me = NoMember THEN Panicked ELSE Synced(events.me, nodes \ {events.me})
  ELSE IF ~(events.removed \subseteq v.peers) THEN Panicked
       ELSE Synced(IF events.me = NoMember THEN v.me ELSE events.me,
                   (v.peers \cup events.added) \ events.removed)

Fold(v, events, nodes) ==
  LET gone == events.removed \ {v.me} IN
  IF v.phase = "waiting"
  THEN IF events.me = NoMember THEN Panicked ELSE Synced(events.me, nodes \ {events.me})
  ELSE IF ~(gone \subseteq v.peers) THEN Panicked
       ELSE Synced(IF events.me = NoMember THEN v.me ELSE events.me,
                   (v.peers \cup events.added) \ gone)

\* InCluster::notify
Notify(s, events, nodes) ==
  view' = IF events = Events({}, {}, NoMember) \/ view[s].phase \in {"none", "panicked"}
          THEN view
          ELSE [view EXCEPT ![s] = Fold(view[s], events, nodes)]
-----------------------------------------------------------------------------
StateMsgs(targets, gossip) ==
  {[kind |-> "State", to |-> m.socket, gossip |-> gossip] : m \in targets}

\* Variants that forget the members to be told in any case, and the ring.
GossipTargetsRandomOnly(c, me, guaranteed) ==
  LET others == c.members \ {me}
  IN  kSubset(Min({GossipDisperse, Cardinality(others)}), others)
GossipTargetsNoNeighbours(c, me, guaranteed) == {guaranteed \ {me}}

\* InCluster::gossip_round: neighbours in the ring and the guaranteed
\* members, and up to gossip_disperse others picked at random; never itself.
GossipTargets(c, me, guaranteed) ==
  LET sure   == (c.managers \cup c.charges \cup guaranteed) \ {me}
      others == c.members \ (sure \cup {me})
  IN  {sure \cup picked :
         picked \in kSubset(Min({GossipDisperse, Cardinality(others)}), others)}

GossipRound(c, me, guaranteed, rest) ==
  \E targets \in GossipTargets(c, me, guaranteed) :
    Post(rest, StateMsgs(targets, c.gossip))

\* InCluster::gossip_reqs: the members it asks, anybody but itself.
Asked(c, me) ==
  LET others == c.members \ {me}
  IN  kSubset(Min({GossipDisperse, Cardinality(others)}), others)
-----------------------------------------------------------------------------
\* A variant that keeps the managers of an earlier ring.
WithResponsibilityForCharges(c, me) == [c EXCEPT !.charges = ChargesIn[c.ring][me]]

\* InCluster::update_charges_managers.  A receiver that stays is kept, the
\* others are stopped; the actors behind `charges` are the oracle GiveUpOn.
WithResponsibility(c, me) ==
  InCluster(c.gossip, c.members, c.ring, ChargesIn[c.ring][me], ManagersIn[c.ring][me])

\* NodeState::new_id, and the id drawn by Cluster::new.
NextMember(s) == Incarnation(s, lastId[s] + 1)

\* Does this node learn from the events that it is down itself?
Reborn(s, removed) == self[s] \in removed

\* What down() writes.  The variant tells members apart by socket only.
MarkSocketDown(gossip, m) ==
  [n \in Member |-> IF n.socket = m.socket THEN Down ELSE gossip[n]]
MarkDown(gossip, m) == [gossip EXCEPT ![m] = Down]

\* InCluster::alone: no charges, no managers, and a gossip_timeout handle
\* with no timer behind it.
Alone(me) ==
  InCluster([Nothing EXCEPT ![me] = Up], {me}, Insert(EmptyRing, me), {}, {})

\* Cluster::create_cluster
CreateCluster(s, me) ==
  /\ ic' = [ic EXCEPT ![s] = Alone(me)]
  /\ status' = [status EXCEPT ![s] = "in_cluster"]
  /\ Notify(s, Events({}, {}, me), {me})

\* Both ways a pinging node enters a cluster end like this.
EnterCluster(s, me, gossip, rest) ==
  LET up == UpMembers(gossip)
      c  == WithResponsibility(InCluster(gossip, up, RingOf(up), {}, {}), me)
  IN  /\ ic' = [ic EXCEPT ![s] = c]
      /\ status' = [status EXCEPT ![s] = "in_cluster"]
      /\ armed' = [armed EXCEPT ![s] = TRUE]
      /\ GossipRound(c, me, {}, rest)
      /\ Notify(s, Events({}, {}, me), up)

\* Pinging::ping
SendPings(s, me, left) ==
  /\ count' = [count EXCEPT ![s] = left - 1]
  /\ Post(net, {[kind |-> "Ping", to |-> t, from |-> me] : t \in Seeds[s] \ {s}})

Init ==
  /\ status = [s \in Socket |-> "left"]
  /\ self = [s \in Socket |-> NoMember]
  /\ born = [s \in Socket |-> 0]
  /\ count = [s \in Socket |-> 0]
  /\ ic = [s \in Socket |-> NotInCluster]
  /\ armed = [s \in Socket |-> FALSE]
  /\ loose = [s \in Socket |-> 0]
  /\ downed = [s \in Socket |-> {}]
  /\ view = [s \in Socket |-> Unsubscribed]
  /\ lastId = [s \in Socket |-> 0]
  /\ suspected = {}
  /\ net = {}
-----------------------------------------------------------------------------
\* Cluster::new and pre_start, for the first time or after a stop.
Start(s) ==
  /\ status[s] = "left"
  /\ lastId[s] < MaxId
  /\ self' = [self EXCEPT ![s] = NextMember(s)]
  /\ lastId' = [lastId EXCEPT ![s] = lastId[s] + 1]
  /\ born' = [born EXCEPT ![s] = lastId[s] + 1]
  /\ IF Seeds[s] \ {s} = {}
     THEN CreateCluster(s, NextMember(s)) /\ UNCHANGED <<count, net>>
     ELSE /\ status' = [status EXCEPT ![s] = "pinging"]
          /\ SendPings(s, NextMember(s), NumPings)
          /\ UNCHANGED <<ic, view>>
  /\ UNCHANGED <<armed, loose, downed, suspected>>

\* post_stop after a Term signal, or the process dies: nothing is sent.
Stop(s) ==
  /\ s \in MayStop
  /\ status[s] # "left"
  /\ status' = [status EXCEPT ![s] = "left"]
  /\ self' = [self EXCEPT ![s] = NoMember]
  /\ born' = [born EXCEPT ![s] = 0]
  /\ count' = [count EXCEPT ![s] = 0]
  /\ ic' = [ic EXCEPT ![s] = NotInCluster]
  /\ armed' = [armed EXCEPT ![s] = FALSE]
  /\ loose' = [loose EXCEPT ![s] = 0]
  /\ downed' = [downed EXCEPT ![s] = {}]
  /\ view' = [view EXCEPT ![s] = Unsubscribed]
  /\ UNCHANGED <<lastId, suspected, net>>

\* LocalCmd(Subscribe): a subscriber that comes late gets one update at once.
Subscribe(s) ==
  /\ s \in Subscribed
  /\ status[s] # "left"
  /\ view[s] = Unsubscribed
  /\ view' = [view EXCEPT ![s] =
       IF status[s] = "in_cluster"
       THEN Fold(Waiting, Events({}, {}, self[s]), ic[s].members)
       ELSE Waiting]
  /\ UNCHANGED <<status, self, born, count, ic, armed, loose, downed, lastId,
                 suspected, net>>

\* A variant that does not look at the count.
PingTimeoutUncounted(s) ==
  /\ status[s] = "pinging"
  /\ SendPings(s, self[s], count[s])
  /\ UNCHANGED <<status, self, born, ic, armed, loose, downed, view, lastId, suspected>>

\* PingTimeout while pinging.  One that comes later finds another state and
\* does nothing.
PingTimeout(s) ==
  /\ status[s] = "pinging"
  /\ IF count[s] # 0
     THEN SendPings(s, self[s], count[s]) /\ UNCHANGED <<status, ic, view>>
     ELSE CreateCluster(s, self[s]) /\ UNCHANGED <<count, net>>
  /\ UNCHANGED <<self, born, armed, loose, downed, lastId, suspected>>
-----------------------------------------------------------------------------
\* IntraMsg(Ping) while pinging: a ping from a seed makes a cluster of two.
PingedBySeed(s, msg) ==
  /\ msg \in net /\ msg.kind = "Ping" /\ msg.to = s
  /\ status[s] = "pinging"
  /\ msg.from.socket \in Seeds[s] \ {s}
  /\ \E rest \in AfterReceipt(msg) :
       EnterCluster(s, self[s],
                    [Nothing EXCEPT ![msg.from] = Up, ![self[s]] = Up], rest)
  /\ UNCHANGED <<self, born, count, loose, downed, lastId, suspected>>

\* IntraMsg(State) while pinging: the answer to a ping, or gossip that some
\* earlier run of this socket is still known for.
Welcomed(s, msg) ==
  /\ msg \in net /\ msg.kind = "State" /\ msg.to = s
  /\ status[s] = "pinging"
  /\ LET wasDowned == msg.gossip[self[s]] = Down
         me == IF wasDowned THEN NextMember(s) ELSE self[s]
     IN  /\ wasDowned => lastId[s] < MaxId
         /\ self' = [self EXCEPT ![s] = me]
         /\ lastId' = [lastId EXCEPT ![s] = me.id]
         /\ \E rest \in AfterReceipt(msg) :
              EnterCluster(s, me, [msg.gossip EXCEPT ![me] = Up], rest)
  /\ UNCHANGED <<born, count, loose, downed, suspected>>

\* IntraMsg(ReqHeartbeat) while pinging: somebody counts this node as a
\* member, so it asks for the gossip it missed.
AskMonitor(s, msg) ==
  /\ msg \in net /\ msg.kind = "ReqHeartbeat" /\ msg.to = s
  /\ status[s] = "pinging"
  /\ \E rest \in AfterReceipt(msg) :
       Post(rest, {[kind |-> "ReqGossip", to |-> msg.from.socket, from |-> self[s]]})
  /\ UNCHANGED <<status, self, born, count, ic, armed, loose, downed, view, lastId,
                 suspected>>

\* IntraMsg(Ping) in a cluster: a new member is added, a known one is not,
\* whatever its state; both are told what this node knows.
Pinged(s, msg) ==
  /\ msg \in net /\ msg.kind = "Ping" /\ msg.to = s
  /\ status[s] = "in_cluster"
  /\ LET new == ~Knows(ic[s].gossip, msg.from)
         c   == IF new
                THEN WithResponsibility(
                       InCluster([ic[s].gossip EXCEPT ![msg.from] = Up],
                                 ic[s].members \cup {msg.from},
                                 Insert(ic[s].ring, msg.from),
                                 ic[s].charges, ic[s].managers), self[s])
                ELSE ic[s]
     IN  /\ ic' = [ic EXCEPT ![s] = c]
         /\ Notify(s, Events(IF new THEN {msg.from} ELSE {}, {}, NoMember), c.members)
         /\ \E rest \in AfterReceipt(msg) : GossipRound(c, self[s], {msg.from}, rest)
  /\ UNCHANGED <<status, self, born, count, armed, loose, downed, lastId, suspected>>

\* What the loop over the events of a merge leaves of InCluster; fresh holds
\* the new self if there is one.
Absorb(old, gossip, added, removed, fresh) ==
  LET merged == Merge(old.gossip, gossip) IN
  InCluster([m \in Member |-> IF m \in fresh THEN Up ELSE merged[m]],
            (old.members \ removed) \cup added \cup fresh,
            InsertAll(RemoveAll(old.ring, removed), added \cup fresh),
            old.charges, old.managers)

\* IntraMsg(State) in a cluster.  The round goes out before charges and
\* managers are recomputed, so members just found down still hear of it.
\* (\E x \in {e} only gives the value of e a name.)
Gossiped(s, msg) ==
  /\ msg \in net /\ msg.kind = "State" /\ msg.to = s
  /\ status[s] = "in_cluster"
  /\ \E added \in {AddedBy(ic[s].gossip, msg.gossip)},
        removed \in {RemovedBy(ic[s].gossip, msg.gossip)} :
     \E fresh \in {IF Reborn(s, removed) THEN {NextMember(s)} ELSE {}} :
       /\ fresh # {} => lastId[s] < MaxId
       /\ \E me \in IF fresh # {} THEN fresh ELSE {self[s]},
             c \in {Absorb(ic[s], msg.gossip, added, removed, fresh)} :
            /\ self' = [self EXCEPT ![s] = me]
            /\ lastId' = [lastId EXCEPT ![s] = me.id]
            /\ ic' = [ic EXCEPT ![s] = WithResponsibility(c, me)]
            /\ \E rest \in AfterReceipt(msg) :
                 IF added \cup removed # {} THEN GossipRound(c, me, {}, rest) ELSE net' = rest
            /\ Notify(s, Events(added, removed, IF fresh # {} THEN me ELSE NoMember), c.members)
  /\ armed' = [armed EXCEPT ![s] = TRUE]
  /\ UNCHANGED <<status, born, count, loose, downed, suspected>>

\* IntraMsg(ReqGossip) in a cluster
GossipRequested(s, msg) ==
  /\ msg \in net /\ msg.kind = "ReqGossip" /\ msg.to = s
  /\ status[s] = "in_cluster"
  /\ \E rest \in AfterReceipt(msg) : Post(rest, StateMsgs({msg.from}, ic[s].gossip))
  /\ UNCHANGED <<status, self, born, count, ic, armed, loose, downed, view, lastId,
                 suspected>>

\* Messages that change nothing here: any to a socket nobody listens on, a
\* ping from a stranger or a gossip request while pinging, and a heartbeat
\* request in a cluster, which is answered to the heartbeat receiver.
Unheeded(s, msg) ==
  /\ msg \in net /\ msg.to = s
  /\ \/ status[s] = "left"
     \/ status[s] = "pinging" /\ msg.kind = "ReqGossip"
     \/ /\ status[s] = "pinging" /\ msg.kind = "Ping"
        /\ msg.from.socket \notin Seeds[s] \ {s}
     \/ status[s] = "in_cluster" /\ msg.kind = "ReqHeartbeat"
  /\ net' = net \ {msg}
  /\ UNCHANGED <<status, self, born, count, ic, armed, loose, downed, view, lastId,
                 suspected>>
-----------------------------------------------------------------------------
\* The timer behind the stored handle fires: abort() comes too late for it.
TimerFires(s) ==
  /\ armed[s] /\ loose[s] < MaxTimers
  /\ armed' = [armed EXCEPT ![s] = FALSE]
  /\ loose' = [loose EXCEPT ![s] = @ + 1]
  /\ UNCHANGED <<status, self, born, count, ic, downed, view, lastId, suspected, net>>

\* GossipTimeout: gossip, ask for gossip, and schedule the next timeout
\* without keeping its handle.
GossipTimeout(s) ==
  /\ status[s] = "in_cluster"
  /\ loose[s] > 0
  /\ \E targets \in GossipTargets(ic[s], self[s], {}), asked \in Asked(ic[s], self[s]) :
       Post(net, StateMsgs(targets, ic[s].gossip)
                   \cup {[kind |-> "ReqGossip", to |-> m.socket, from |-> self[s]] : m \in asked})
  /\ UNCHANGED <<status, self, born, count, ic, armed, loose, downed, view, lastId,
                 suspected>>

\* A heartbeat receiver asks its charge for a heartbeat.
RequestHeartbeat(s, m) ==
  /\ m \in ic[s].charges
  /\ Post(net, {[kind |-> "ReqHeartbeat", to |-> m.socket, from |-> self[s], id |-> m.id]})
  /\ UNCHANGED <<status, self, born, count, ic, armed, loose, downed, view, lastId,
                 suspected>>

\* A heartbeat receiver gives up on its charge, rightly or not, and says so
\* to its supervisor.
GiveUpOn(s, m) ==
  /\ m \in ic[s].charges
  /\ m \notin downed[s]
  /\ Cardinality(suspected \cup {m}) <= MaxSuspected
  /\ downed' = [downed EXCEPT ![s] = @ \cup {m}]
  /\ suspected' = suspected \cup {m}
  /\ UNCHANGED <<status, self, born, count, ic, armed, loose, view, lastId, net>>

\* Downed, and InCluster::down: a verdict that gossip has overtaken does
\* nothing.
Downed(s, m) ==
  /\ m \in downed[s]
  /\ status[s] = "in_cluster"
  /\ downed' = [downed EXCEPT ![s] = @ \ {m}]
  /\ IF ic[s].gossip[m] = Up
     THEN LET c == WithResponsibility(
                     InCluster(MarkDown(ic[s].gossip, m),
                               ic[s].members \ {m}, Remove(ic[s].ring, m),
                               ic[s].charges, ic[s].managers), self[s])
          IN  /\ ic' = [ic EXCEPT ![s] = c]
              /\ GossipRound(c, self[s], {m}, net)
              /\ Notify(s, Events({}, {m}, NoMember), c.members)
     ELSE UNCHANGED <<ic, net, view>>
  /\ UNCHANGED <<status, self, born, count, armed, loose, lastId, suspected>>

Receive(s, msg) ==
  \/ PingedBySeed(s, msg)
  \/ Welcomed(s, msg)
  \/ AskMonitor(s, msg)
  \/ Pinged(s, msg)
  \/ Gossiped(s, msg)
  \/ GossipRequested(s, msg)
  \/ Unheeded(s, msg)

Next ==
  \E s \in Socket :
    \/ Start(s) \/ Stop(s) \/ Subscribe(s)
    \/ PingTimeout(s) \/ TimerFires(s) \/ GossipTimeout(s)
    \/ \E msg \in net : Receive(s, msg)
    \/ \E m \in Member : RequestHeartbeat(s, m) \/ GiveUpOn(s, m) \/ Downed(s, m)

Spec == Init /\ [][Next]_vars
-----------------------------------------------------------------------------
(* Type correctness.  The ring is one that some set of members makes.      *)
TypeOK ==
  /\ status \in [Socket -> {"left", "pinging", "in_cluster"}]
  /\ self \in [Socket -> Member \cup {NoMember}]
  /\ born \in [Socket -> Id \cup {0}]
  /\ count \in [Socket -> 0..NumPings]
  /\ ic \in [Socket -> [gossip : GossipOver(Member), members : SUBSET Member,
                        ring : Ring, charges : SUBSET Member, managers : SUBSET Member]]
  /\ armed \in [Socket -> BOOLEAN]
  /\ loose \in [Socket -> 0..MaxTimers]
  /\ downed \in [Socket -> SUBSET Member]
  /\ view \in [Socket -> [phase : {"none", "waiting", "panicked", "synced"},
                          me : Member \cup {NoMember}, peers : SUBSET Member]]
  /\ lastId \in [Socket -> Id \cup {0}]
  /\ suspected \subseteq Member
  /\ net \subseteq Message

InClusterNow == {s \in Socket : status[s] = "in_cluster"}

(* The three pictures of the cluster that InCluster keeps by separate      *)
(* incremental updates, gossip, members and ring, always show the same     *)
(* members; every unwrap of ring.remove and members.remove relies on it.   *)
ViewsAgree ==
  \A s \in InClusterNow :
    /\ ic[s].members = UpMembers(ic[s].gossip)
    /\ ic[s].ring = RingOf(ic[s].members)

(* A node in a cluster counts itself as a live member, also right after it *)
(* learnt that it had been declared down: ring.charges(self).unwrap() and  *)
(* ring.node_managers(self).unwrap() rely on it.                           *)
SelfIsUp ==
  \A s \in InClusterNow : self[s].socket = s /\ ic[s].gossip[self[s]] = Up

(* Charges and managers are those of the ring the node has now: no change  *)
(* of the ring is left without a recomputation.                            *)
ResponsibilityCurrent ==
  \A s \in InClusterNow :
    /\ ic[s].charges = Charges(ic[s].ring, self[s])
    /\ ic[s].managers = NodeManagers(ic[s].ring, self[s])

(* Nodes that agree on the members agree on who monitors whom: the node    *)
(* that sends its heartbeats to t is one t has a heartbeat receiver for.   *)
HeartbeatsExpected ==
  \A s, t \in InClusterNow :
    ic[s].members = ic[t].members =>
      (self[t] \in ic[s].managers <=> self[s] \in ic[t].charges)

(* The subscriber, which only folds events, has the same picture as the    *)
(* node, whenever it subscribed: it knows the node's current identity and  *)
(* exactly its peers, and no update makes it unwrap a None.                *)
SubscriberInSync ==
  \A s \in Socket :
    /\ view[s].phase # "panicked"
    /\ view[s].phase = "synced" =>
         status[s] = "in_cluster" /\ view[s] = Synced(self[s], ic[s].members \ {self[s]})
    /\ view[s].phase = "waiting" => status[s] = "pinging"

(* Every verdict in the mailbox is about another member that gossip knows, *)
(* though it may be down by now: down() unwraps the look-up.               *)
VerdictsKnown ==
  \A s \in Socket : \A m \in downed[s] :
    status[s] = "in_cluster" /\ m # self[s] /\ Knows(ic[s].gossip, m)

(* Every identity a running node had before the present one is down in its *)
(* own gossip: it never counts two of its own incarnations as members, and *)
(* what it spreads buries the old ones.                                    *)
FormerSelvesDown ==
  \A s \in InClusterNow : \A i \in born[s] .. (self[s].id - 1) :
    ic[s].gossip[Incarnation(s, i)] = Down

(* All gossip there is, in nodes and in flight. *)
AllGossip == {ic[s].gossip : s \in Socket} \cup {m.gossip : m \in {n \in net : n.kind = "State"}}

(* A member is down in some gossip only if a heartbeat receiver once gave  *)
(* up on that very incarnation, and is known only if it was ever started:  *)
(* merging, restarting and renaming never make up a death or a member.     *)
NoInventedNews ==
  \A g \in AllGossip : \A m \in Member :
    /\ g[m] = Down => m \in suspected
    /\ Knows(g, m) => m.id <= lastId[m.socket]

(* While it runs, a node never forgets what it knew: above all no member   *)
(* it has seen go down becomes a member again.                             *)
NeverForgets ==
  [][\A s \in Socket :
       status[s] = "in_cluster" /\ status'[s] = "in_cluster"
         => AtMost(ic[s].gossip, ic'[s].gossip)]_vars

Promise == INSTANCE Membership
  WITH me <- self,
       picture <- [s \in Socket |-> ic[s].gossip],
       ledger <- [m \in Member |-> IF m \in suspected THEN Down
                                   ELSE IF m.id <= lastId[m.socket] THEN Up ELSE Absent]

(* Pings, gossip, verdicts, timers and lost messages aside, the cluster    *)
(* does what Membership promises: what a node knows only grows, and never  *)
(* beyond what happened; nobody is given up on but by one that counts it   *)
(* as a member, and whoever learns of that comes back as somebody new.     *)
ImplementsMembership == Promise!Spec
-----------------------------------------------------------------------------
(* Scheduling.  Mailboxes are served: verdicts and, on a reliable network, *)
(* gossip keep being received.  That alone suffices for the properties     *)
(* that hold.  TimersToo adds that timers fire and that every mailbox is   *)
(* served whatever is in it.  Nothing makes a node start, stop or be       *)
(* suspected.                                                              *)
Served(s) ==
  /\ WF_vars(\E m \in Member : Downed(s, m))
  /\ WF_vars(\E msg \in net : Welcomed(s, msg) \/ Gossiped(s, msg))

TimersToo(s) ==
  /\ WF_vars(PingTimeout(s)) /\ WF_vars(TimerFires(s)) /\ WF_vars(GossipTimeout(s))
  /\ WF_vars(\E msg \in net : Receive(s, msg))

ServedSpec == Spec /\ \A s \in Socket : Served(s)
FairSpec == Spec /\ \A s \in Socket : Served(s) /\ TimersToo(s)

\* All nodes are in one cluster.
Together ==
  \A s, t \in Socket : status[s] = "in_cluster" /\ self[t] \in ic[s].members

(* Erroneous downings heal: a cluster that was once complete is complete   *)
(* again and again (cluster/mod.rs: a downed node "will eventually receive *)
(* word", "assign itself a new identifier and rejoin the cluster").        *)
DowningsHeal == [](Together => []<>Together)

(* In the end every node that another counts as a member knows as much as  *)
(* that other one.                                                         *)
MembersConverge ==
  <>[](\A s, t \in InClusterNow :
         self[s] \in ic[t].members => ic[s].gossip = ic[t].gossip)
=============================================================================
