# A verification of aurum_actors

`aurum_actors` is an actor library in Rust. It has local and remote actors, and on top of
them cluster membership by gossip, failure detection by heartbeats, delta CRDTs and a service
for IoT devices. This directory holds TLA+ models of its protocols, TLC configurations that
check them on small instances, and proofs for any size that the TLAPS proof system checks.

Paths below are relative to `src/aurum_actors/src/`.

## 1. The system

| Part | State | Operations | Speaks with |
|---|---|---|---|
| Gossip (`cluster/gossip.rs`) | a sorted map from members to `Up`/`Down` | `merge`, which also returns what entered or left the Up set | the membership actor |
| Ring (`cluster/node_ring.rs`) | a consistent-hash ring, `vnodes` keys for each member | `insert`, `remove`, `managers`, `node_managers`, `charges` | membership, device servers |
| Membership (`cluster/cluster.rs`) | `Pinging{count}` or `InCluster{gossip, members, ring, charges, managers, gossip_timeout}`; its own `Member` | pings, gossip, gossip requests, heartbeats, verdicts, timeouts, subscriptions | its peers by UDP; its heartbeat receivers and its subscribers by mailbox |
| Heartbeat receivers (`cluster/heartbeat_receiver.rs`) | `Initial`, `Receiving` or `Downed`; a phi accrual statistic | heartbeats, timeouts, the verdict `Downed` | membership (its supervisor), the charge's node by UDP |
| Causal dispersal (`cluster/crdt/causal.rs`) | the CRDT, a buffer of deltas with a clock, what each peer acknowledged | operations, deltas, acks, updates of membership, timeouts | membership (as a subscriber), its peers by UDP |
| Device server, senders, client (`cluster/devices/`) | a causal CRDT of devices; which devices a server charges, with a sender of heartbeat requests for each; the device's server and a log of who asked it | intervals, heartbeat requests, verdicts, complaints about several senders | the causal actor, membership, devices by UDP |
| Actor runtime (`core/actor*.rs`) | mailboxes; the two tasks of a double-threaded actor; per-actor timeouts | receive, signals `Term`, handover from the secondary to the primary task | everything |
| Registry, node (`core/registry.rs`, `core/node.rs`) | a map from names to serialized-message channels | register, deregister, forward | actors of both threadings, UDP receiver |
| UDP and packets (`core/udp_receiver.rs`, `packets.rs`, `udp_serial.rs`, `remoting.rs`) | a map of message builders, one for each message under way | send in fragments, reassemble, time out | registry |
| Serialization, macros (`core/unification.rs`, `aurum_actors_macros`) | none | compile-time interfaces | |
| Test kit (`testkit/`) | a map of simulated failures | drops messages, writes logs | membership, devices |

What is hard here, and no unit test reaches: the handlers of several nodes interleave with
messages that UDP loses, delays, reorders and repeats; nodes crash and come back on the same
socket under a new identifier; a node learns from gossip that it was itself declared dead and
takes a new identity in the middle of a loop; verdicts and timeouts are overtaken in the
mailbox; and the membership actor keeps the same information in three structures (gossip,
members, ring) that many `unwrap`s assume to agree. `PROJECT.json` lists each hazard at its
line with the properties that cover it.

What makes each part correct:

* gossip: the merge is a join, so order and repetition do not matter; its events are exactly
  the change of the Up set;
* ring: it depends on the set of members only; `charges` is the inverse of `node_managers`;
  everybody has as many managers as there can be; a change affects neighbours only;
* membership: the three pictures agree; a node is a member of its own cluster; nobody is
  reported dead without a verdict; what was dead stays dead; views converge; a node wrongly
  declared dead comes back;
* subscribers: whoever folds the updates has the picture the membership actor has;
* causal dispersal: a peer's acknowledgement is never ahead of what the peer has, the buffer
  has every delta somebody still needs, replicas converge;
* receivers and registry: a receiver that runs is registered; a verdict is earned; silence is
  noticed; a receiver that is not wanted gives its name back;
* packets: a message is delivered whole or not at all, none of its packets is used twice, and the
  receiver never gets stuck;
* devices: a server that charges a device watches it; in the end exactly one does, and all
  servers know the same; what they know never goes back;
* runtime: a double-threaded actor handles messages in mailbox order, none lost or twice.

## 2. Modules

| Module | What it is |
|---|---|
| `Gossip` | gossip as a value: `Merge`, the events `AddedBy` and `RemovedBy`, the order `AtMost` |
| `GossipMerge` | the loop of `gossip.rs:15-65`, one iteration an action, against `Gossip` |
| `NodeRing` | the ring and its queries as operators |
| `RingChanges` | a ring that grows and shrinks, for every placement of keys; over `NodeRing` |
| `MCNodeRing` | its instance for TLC |
| `Udp` | messages in flight: `Post` sends, `AfterReceipt` receives |
| `Membership` | what the cluster promises of who is a member; over `Gossip` |
| `Cluster` | the membership protocol, which implements `Membership`: all nodes, restarts, a subscriber; over `Gossip`, `NodeRing`, `Udp` |
| `MCCluster` | its instances for TLC |
| `CausalDisperse` | dispersal of a delta CRDT: all replicas; over `Udp` |
| `MCCausal` | its instances for TLC |
| `Mail` | what is sent to an actor |
| `Mailbox` | what an actor promises: one task, one mailbox; it is also the single-threaded actor |
| `DoubleThreaded` | the two tasks of a double-threaded actor, which implement `Mailbox` |
| `Channel` | what UDP promises of whole messages |
| `Packets` | fragments, the receiver's builders and their time-outs, which implement `Channel` |
| `MCPackets` | its instance for TLC |
| `Receivers` | heartbeat receivers as tasks, the registry, and the part of the membership actor that starts and stops them |
| `MCReceivers` | its instances for TLC |
| `DeviceData` | the CRDT of devices |
| `Devices` | a device, the servers and their senders; over `DeviceData` |
| `MCDevices` | its instance for TLC |
| `DataProofs` (of `Gossip` and `NodeRing`), `DataStepsProofs` (of `GossipMerge` and `RingChanges`), `ClusterProofs`, `CausalProofs`, `ReceiversProofs`, `DevicesProofs`, `DoubleThreadedProofs`, `PacketsProofs` | theorems |

An arrow points from a module to those it builds on:

    MCNodeRing -> RingChanges -> NodeRing
    MCCluster -> Cluster -> Gossip, NodeRing, Udp
    Cluster -> Membership -> Gossip     (the protocol refines the promise)
    MCCausal  -> CausalDisperse -> Udp
    GossipMerge -> Gossip               (the loop refines the operator)
    DoubleThreaded -> Mailbox -> Mail   (two tasks refine one)
    MCPackets -> Packets -> Channel     (fragments refine whole messages)
    MCReceivers -> Receivers
    MCDevices -> Devices -> DeviceData
    ClusterProofs -> Cluster, DataProofs
    DataStepsProofs -> GossipMerge, RingChanges, DataProofs

### Gossip and GossipMerge

Gossip is a function from members to `Absent < Up < Down`. The code's derived `Ord` of
`MachineState` gives the order and an absent key is its bottom, so a merge is the pointwise
maximum. `GossipMerge` is the code as it is written: two iterators over sorted maps, the three
cases of their heads, the events pushed and the map changed after the loop. It is the detailed
specification, and `MergeIsJoin` and `EventsAreTheDifference` say that its result is the abstract
`Merge` with its events. `Cluster` uses the abstract form, which is therefore justified.

### NodeRing and RingChanges

A ring maps keys to members. `Chain` gives the keys of a member: the real program hashes a
member and hashes again for each further vnode; the model takes any placement without
collisions (`NoCollision`). `insert` puts one key and one more for each `i` in `1..vnodes`, so
`Chain[m]` has max(1, `vnodes`) keys, the first of which is the one a member is found by.
`Managers` walks clockwise and collects the first `RepFactor` distinct
members; `Charges` walks back until it meets the member's own previous key. `RingChanges` is a
machine over these operators: it starts from any placement of keys, which is a variable that never
changes, and inserts and removes members in any order.

### Membership and Cluster

One action for each handler, with everything the handler calls.

| Action | Code in `cluster/cluster.rs` |
|---|---|
| `Start` | `Cluster::new` 591-623, `pre_start` 500-518 |
| `Stop` | `post_stop` 582-588, or the process dies: nothing is sent, nothing persists |
| `Subscribe` | `LocalCmd(Subscribe)` 525-541 |
| `PingTimeout` | 545-554 with `Pinging::ping` 308-324 |
| `PingedBySeed`, `Welcomed`, `AskMonitor` | `Pinging::process` 327-417 |
| `Pinged`, `Gossiped`, `GossipRequested` | `InCluster::process` 80-155 |
| `Unheeded` | the branches of both that change nothing |
| `TimerFires`, `GossipTimeout` | `schedule_gossip_timeout` 478-484, `GossipTimeout` 555-561 |
| `RequestHeartbeat`, `GiveUpOn` | a heartbeat receiver: asks its charge, or gives up on it at any time |
| `Downed` | `InCluster::down` 274-289 |

An actor handles one message at a time and a handler does not give way to another message,
so a handler is one step. `net` is the set of messages in flight. With `Unreliable`, a sender
loses any part of what it sends (`Post`) and a received message may stay to come again
(`AfterReceipt`); any message may be received next. Both are in `Udp`, which `CausalDisperse`
shares. The heartbeat receiver is an oracle: phi is
a statistic of arrival times, and whatever it says, right or wrong, is one of the oracle's
choices. So no property here depends on the quality of failure detection.

The gossip timer deserves a word. `ic.gossip_timeout` holds the handle of one timer, which a
State message aborts and replaces (`armed`). The handler of `GossipTimeout` schedules the next
one and throws its handle away; a timer that has fired before the abort is also out of reach.
Both kinds are counted in `loose`, and nothing ever decreases it while the actor lives.

Identifiers are 64 random bits. The model draws them fresh and in sequence for each socket, so
that "an earlier incarnation" can be said; no action compares them by size, apart from the
deterministic order in which the merge visits them.

The subscriber (`view`) folds ClusterUpdates the way `crdt/causal.rs:202-235` does. It panics where
the code would unwrap a `None`.

`Membership` says what all of this is for, in three variables and no messages: the identity and the picture
(gossip) of each node, and a ledger of what there is to know. An identity enters the ledger as `Up` when a node
draws it, and becomes `Down` when a node that has it for another member gives up on it. Pictures grow and
never exceed the ledger; a node that learns that its own identity is down takes one nobody had. The
refinement mapping takes the ledger from what was drawn (`lastId`) and given up (`suspected`), both of which
`Cluster` records for its properties. Pings, gossip rounds and requests, timers, subscriptions, lost and repeated
messages are stutters; a `Downed` verdict or a State message is a `Learn` or a `Return`, and `GiveUpOn`, the oracle, a
`GiveUp`. So `ImplementsMembership` bounds what nodes know by what happened, where the other properties say how
the pieces of it fit each other.

Left out of `Cluster`: `HeartbeatTick`, which sends heartbeats to the managers and changes
nothing; the `FailureMap`, a device of the test kit, whose losses `Post` has anyway; logs.

### CausalDisperse

| Action | Code in `cluster/crdt/causal.rs` |
|---|---|
| `Start`, `Stop` | `CausalDisperse::new` and `pre_start`; the node stops or dies |
| `Enqueue`, `Mutate` | `Cmd(Mutate)` while waiting, and `InCluster::op` |
| `SetPreference` | `Cmd(SetDispersalPreference)` |
| `Join` | the first `Update`, with `Waiting::to_ic` |
| `Regroup`, `Rename` | `InCluster::update` for members that came and went, and for a new identity |
| `ReceiveDelta`, `ReceiveAck` | `InCluster::delta` and `InCluster::ack` |
| `Unheeded` | messages both of these pass over, and all that come before joining |
| `DisperseTimeout` | the timeout, with what `InCluster::disperse` does |

`Disperse` is the code's `disperse`, which most handlers call last: it is part of their action. What
the model abstracts:

* the data is the set of operations applied, the most general CRDT: any other is a function of
  it, and whatever is lost here is lost there. The delta of an operation is what it adds;
* `ord_acks` holds the pairs of `acks` in order; it is not kept apart, and `Targets` says what
  the code reads off it: any `Amount` of the most out-of-date peers. The selector `All` is an
  `Amount` of all members;
* of the timeouts on their way only whether there are any is kept (`due`). Each dispersal
  schedules one more; a timeout that finds nothing to do may be the last or not;
* the membership actor is an environment: the first update gives identity and peers, later ones
  add, remove and rename, and nobody who was removed comes back. `Cluster` shows that a
  subscriber sees nothing else (`SubscriberInSync`, `FormerSelvesDown`, `NeverForgets`); the
  environment here may do more, as it adds and removes at any time and differently at each node;
* publishing to local subscribers changes no state.

A buffer that runs out, and a preferred member that is no peer, are unwraps of `None`: the
actor is `panicked` from then on.

### Mail, Mailbox and DoubleThreaded

`Mailbox` is `unit_single` of `core/actor_tasks_unit.rs`: one task that registers its name, starts,
takes one message after the other and stops at the first `Term`. It is also the abstract
specification of a double-threaded actor, whose two tasks `DoubleThreaded` models one loop
iteration at a time: `unit_secondary` owns the mailbox and a queue, `unit_primary` runs the user's
code and asks for each message by a request that goes *through the same mailbox* as everybody's
messages. The refinement mapping reads the two as one:

* `AsOneBox` is what is on its way to the primary, then the queue, then the mailbox without the
  request (`Pending`), and is empty once the primary is gone;
* `AsOneTask` is the primary's state, where waiting for an answer is being idle.

User code may panic wherever it runs (`Crash`). When the primary has panicked the secondary stays
behind, with its queue, until the last reference to the mailbox is dropped (`LastReferenceDropped`),
and then panics too, harmlessly. All messages deserialize: in the code one that does not ends the secondary alone, at the
`unwrap` of actor_tasks_unit.rs:93, while the primary still runs.
`MaxSent` bounds what is sent, and each of `Msg` is sent once, so that order can be told.

### Channel and Packets

| Action | Code |
|---|---|
| `Send` | `UdpSerial::send`, `core/udp_serial.rs` 101-109 |
| `Lose`, `Repeat`, `Arrive`, `ArriveStray` | the network; `Lose` is also `udp_unreliable_msg`, `core/node.rs` 241-268 |
| `Reject` | a header that does not decode, `core/udp_receiver.rs` 22-28 |
| `ReceiveOnly`, `ReceiveFirst`, `ReceiveNext` | a message of one packet, `Entry::Vacant`, `Entry::Occupied`, 29-54 |
| `TimerFires`, `Expire` | the sleep of 48-51 and the other branch of the `select!`, 57-61 |

A message is one `UdpSerial` with its random `msg_id`, taken to be unique; it may be sent several
times, which the code does when it memoizes. Bytes are units: unit i of message m is `<<m, i>>`. The code
receives a datagram, header and all, into the place where its payload belongs less the length of a header,
and then puts back what the header overwrote; `Received` and `Insert` do the same, so `ForwardedWhole`
checks the arithmetic with packets in any order. All of it is said of the datagrams of `UdpSerial`: a stray never decodes in
the model, but `header_buf` outlives an iteration (udp_receiver.rs:14-22), so a stray shorter than the 19 bytes of a header is read
with the end of the header before it, may decode, and be forwarded as a buffer of zeros or count as a packet of a builder. What the
receiver does with such a stray is out of scope. So are an error of `peek_from`, which ends the receiver for good (18-21), and
a destination whose length does not fit `dest_size` (udp_serial.rs:80). `head` is the front of the socket's queue, which
`udp_receiver` only peeks at: a packet its builder already has stays there, and nothing else is received
until the builder is gone. That is why a `ReceiveNext` with a repeated packet is no step at all, and why
`Drains` is a question. `detached` counts timers whose builder was removed by the timer of an earlier builder
under the same id: dropping a tokio handle does not stop its task.

`ImplementsChannel` reads as copies of a message what can still be put together from what is on the
wire and held (`Available`), and as deliveries what was forwarded. `Udp`, the network of `Cluster` and
`CausalDisperse`, is such a channel with its choices made at once.

### Receivers

| Action | Code |
|---|---|
| `Gain`, `Lose` | `update_charges_managers`, `cluster/cluster.rs` 157-180, with `HeartbeatReceiver::spawn` |
| `MarkDown`, `Stop` | `ClusterMsg::Downed` 562-568 and `post_stop` 582-588 |
| `Start`, `Begin`, `TakeTerm` | `run_single_timeout`, `core/actor_tasks_timeout.rs` 20-25, 40-52 |
| `TakeHeartbeat`, `Timeout` | `recv` and `timeout` of `cluster/heartbeat_receiver.rs` 87-186 |
| `HandleRegister`, `HandleDeregister`, `HandleForward` | `Registry::recv`, `core/registry.rs` 35-74 |
| `Beat` | a heartbeat that UDP brings |

A receiver is named after its charge's id, and the name is its address: heartbeats find it through the
registry. A charge that leaves and comes back gets a new task under the same name while the former one may
still be registered. `rushed` remembers the charges for which that happened; the passing properties
`RunningAreRegistered` and `FailuresNoticed` except them, so neither says anything of a charge that came back too early;
`v_receiver_lost` shows what they are excepted for. A heartbeat that is still queued under the name takes nothing from a
successor, so it does not count as a remnant (`NameFree`). A verdict that comes late is believed here as well (`MarkDown`);
what it does to the cluster is a matter of `Cluster`. When a timer fires is an oracle, as phi is a floating-point statistic of arrival times (`interval_storage.rs`), and
what a heartbeat does to the storage only sets the next timer; so a receiver may time out at any moment,
rightly or not. Which members are charges is an oracle as well; `Cluster` has the ring.

### DeviceData and Devices

| Action | Code in `cluster/devices/` |
|---|---|
| `Tick`, `SetInterval`, `ReceiveRequest` | `client.rs` 167-176, 225 with `new_interval`, 177-204 |
| `Pushed`, `Popped`, `Several` | `FrequencyBuffer` 234-277 and the test at 193 |
| `Request`, `GiveUp`, `ReceiveMultiple`, `Die` | `heartbeat_request_sender.rs` 85-95, 106-108, and its `Term` |
| `Enter`, `Update` | `server.rs` 96-111, 221-263 |
| `ReceiveTooEarly`, `ReceiveWithSender`, `ReceiveAsManager`, `ReceiveAsOther` | `SetHeartbeatInterval`, 174-220 |
| `AmISender`, `DownedDevice`, `Stop` | 272-301, with `remove_device` 58-64 |
| `Disperse` | `CausalDisperse` brings one server's data to another |
| `Fail`, `Lose` | the device dies; UDP |

`DeviceData` has the three levels of the derived order of entries (removals, `None` before `Some`, intervals)
and the mutators. `Devices` abstracts:

* devices do not interact, so there is one. A server that waits may enter with any view of the servers; later
  updates have the true one, as gossip settles (`MembersConverge`);
* phi is doubt: a sender or the device may take the other side for dead while it is not, which is a trouble
  and bounded; when it is dead it is given up in the end;
* senders have the device's interval, so their timers keep their order (`NextOn`), and a request and what it
  sets off arrive or are lost before the next timer. `SetHeartbeatInterval` takes as long as it likes;
* what is mutated is dispersed at some time, in any order, which is what `CausalDisperse` gives.


## 3. Runs

| Run | Instance | What it shows |
|---|---|---|
| `gossip_merge` | every pair of states over 4 members | the loop is the join; events are right |
| `node_ring` | every placement of up to 2 keys for each of 4 members on 6 points, replication 0 to 2 | the properties of the ring in section 1 |
| `cluster_trio` | 3 sockets, seeds in a chain, 2 identifiers each, UDP unreliable with 1 in flight; the last of the chain stops and restarts, and has a subscriber, before, while or after it joins; one member wrongly suspected | the protocol implements `Membership`; all safety of the membership actor and its subscriber; nodes with the same members agree on who monitors whom |
| `cluster_live` | 2 sockets, reliable UDP in any order, one suspected | downings heal, gossip converges |
| `causal_trio` | 3 replicas, 1 operation, UDP unreliable with 2 in flight; one writes, another may stop, nobody, one or both of the others are preferred | nothing a peer lacks is dropped or taken for received, relayed deltas included |
| `causal_live` | 2 replicas, 2 operations, fair-lossy UDP, 2 in flight; one is renamed, the other may stop; members come and go | buffer, clock and acknowledgements fit each other; whoever is behind is retried; the clock tells the data; linked replicas that rest have the same data; replicas converge |
| `double_threaded` | 3 messages, 5 sent in all, `Term` any number of times and anywhere | two tasks implement one mailbox, liveness included; `Term` ends both |
| `packets` | a message of 1 packet and one of 3, each sent twice, first packets repeated once, one stray | messages come whole, each packet is used once, the receiver drains; fragments implement a channel |
| `receivers` | 1 charge that has up to 3 receivers, 2 heartbeats, 2 tries | verdicts are earned, running receivers are registered, silence is noticed, names are given back |
| `devices` | 1 device, 2 servers, both seeds, one of which may stop; up to 3 senders; one trouble | one server in the end, which watches the device and keeps it; data agree and never go back; the log counts right |
| `v_receiver_lost` | 1 charge, 2 receivers | **finding**: a charge that comes back too soon is watched by nobody |
| `v_cluster_split` | 2 sockets, reliable, every timer fires, two suspected | **finding**: two nodes that declare each other down never meet again |

Bounds, and why they are enough. Two identifiers for a socket give one restart, or one renaming
after a verdict, or a restart meeting the gossip of the earlier run: each is what the safety
properties are about, and a third repeats them. The node of `cluster_trio` that restarts has a seed, so it pings and may
be sent gossip meant for its earlier run, in which its present identity is unknown or down. With one message in flight, that message may
be lost, late or come twice, but none is overtaken by the next; in `cluster_live` up to 20 are received in any
order, over a reliable network, and that any number may be under way, lost, repeated and overtaken is left to the theorems. Three
sockets are the least for a node that is neither end of a change, and for a ring on which
`RepFactor` = 1 leaves a choice. One suspected member shows a downing and its healing; two are
needed for the split.  In `cluster_live` no bound of a guard can stop a message: 20 in flight is
never reached.

The replicas draw one identifier each but for one that is renamed once. In `causal_live` two operations are the
least for a buffer from which one delta is dropped while another is needed, and with the join of
both in one message; two messages in flight let an ack overtake the one before it. `causal_trio` has one operation: there the
third replica relays what it did not write, and a preference for both others can meet one that is no peer after the other has been
sent to. More operations relayed in more orders are left to `AckedWasReceived`. No
replica restarts on the same socket, and nobody queues operations before it joins others (`Impatient`
holds founders only): section 6 says what happens then.
Three messages and a `Term` between them put the request at every place of the mailbox, before and
behind what the queue holds.

Three packets are the least with a first, a full middle and a last one that is not full, and the header is longer
than a payload so that it covers more than one neighbour. Sending a message twice lets a resend meet the
builder, its expired timer and its successor. Receivers have no business with each other, so one charge is
enough; three of its receivers let a late Deregister of the first meet the third. Two servers give a manager
and one that is not, or no longer; three senders let a server that lost the device win it back, and a log of
three is the least in which senders that took turns show. Two troubles at once (a wrong doubt and a
crash, say) are out of reach of the run's time; the theorems on safety hold for any number.

Deadlock is not checked in the runs of `Cluster` and `CausalDisperse`: all nodes may have stopped, and
the bounds on identifiers may leave nothing to do. Nor in `double_threaded`, where an actor that
has ended, or is sent nothing, does nothing; that it does not get stuck before is
`ImplementsMailbox` and `TermStops`. `packets`, `receivers` and `devices` end quietly when everything sent has been
dealt with; that they do not get stuck before is `Drains`, `NamesGivenBack` and `DeviceConvergence`.

## 4. Fairness

`ServedSpec` says that mailboxes are served: a verdict or gossip that waits is handled. Each actor is
a task in a loop on its mailbox, and tokio runs ready tasks; the reliable network of
`cluster_live` is an assumption under which the code is supposed to work, as UDP promises
nothing. It is enough for both liveness properties, because a merge that changes something
sends a round to the neighbours in the ring. `FairSpec` adds that timers fire and that every mailbox
is served whatever it holds; it is used for the split, where the counterexample must not be
one of a system that simply stops. Nothing makes a node start, stop or be suspected.

`CausalDisperse!FairSpec` takes UDP for fair-lossy: of the deltas a node keeps sending to a peer some
get through, and so does one of the peer's acks. The network loses at the moment of sending, so
this is strong fairness of a timeout (or of a received delta) whose message is kept. Retrying for
ever is what the code must do by itself: `RetryIsDue` and `ReplicasConverge` check that it does.
Without that assumption no protocol over UDP converges. No fairness is assumed of operations,
joins, updates or preferences.

`DoubleThreaded!FairSpec` says that both tasks are scheduled and that the actor's own handlers return. It is
the same assumption that `Mailbox!FairSpec` makes of one task, and TLC checks that it is enough.

`Packets!FairSpec` says that `udp_receiver` serves both branches of its `select!` and that timers fire;
nothing is assumed of the network or the sender. `Receivers!FairSpec` says that tasks are scheduled and
timers fire, and nothing of charges and heartbeats: as heartbeats are bounded, every charge falls silent in
the end, and the failure must be noticed. `Devices!FairSpec` says in addition that messages which are
not lost arrive, that views settle, and that whoever is dead is given up (phi grows without bound while
nothing arrives).

## 5. Proofs

All proofs are for any finite or infinite values of the constants that the named assumptions
allow: `ClusterAssumption` (types of the parameters, `NumPings` > 0), `RingAssumption` (every member
has at least one key, no two members share one), `MemberAssumption` for the merge loop (members
are numbers, as only their order matters), and so on for each module. An invariant is proved in layers: types first, then
what the properties need from each other. Each action has a lemma of its own for each layer.

* **`DataProofs`**: the merge of gossip is idempotent, commutative and associative (`MergeIsSemilattice`); it is the least upper
  bound (`MergeIsLeastUpperBound`); its events are the difference of the Up sets (`EventsAreUpSetDifference`).
  `RingFollowsMembers`, insertion and removal keep a ring the one of its member set,
  so it depends on that set only; `ResponsibleAreMembers`, charges and managers are other members.
  For any finite set of members: `ChargesInvertManagers`, whoever a member has for its manager has it for its charge, which compares
  the walk forward of `node_managers` with the walks back of `charges` (`ArcIsWalk`: the points passed on a walk back are those met
  before its start on the walk forward); `EveryoneIsManaged`, a member has `RepFactor` managers or, if there are fewer others, all of them;
  `OnlyNeighboursChange`, an insertion or removal changes at most one manager of any other member. The last two order the members
  by the first of their keys on the walk (`ManagersAreAhead`); the number of members ahead is a rank, all ranks differ
  and are below the number of members, so all are taken (`RanksAreTaken`), and an insertion adds one to the ranks behind it.
* **`DataStepsProofs`**: `MergeLoopCorrect`, the loop computes the join and reports each
  change once (`MergeIsJoin`, `EachMemberOnce`); `MergeReportsDifference`, its part about the events. `IInv` is the inductive invariant: what is already visited is
  merged, what is not is as it was. Of the ring machine (from `RingChangesAssumption`: finitely many members): `RingForgetsHistory`,
  `ResponsibilityInverts`, `NobodyIsUnwatched` and `OnlyNeighboursMove`, the four properties of the run `node_ring`.
  `RingIInv` is inductive: the placement has no collisions and the ring is that of the members. The theorems of
  `DataProofs` are about constants and the placement of this machine is a variable, so they are taken once more, for the
  placement of a state (`D`); the operators of both are the same text, which `SameRings`, `SameResponsibility` and `SameCounts` say.
* **`ClusterProofs`**: `TypeCorrect`; next to the types the invariant `Typed` says what a node is
  while it is stopped or pinging. `NodesAreCoherent`, for `ViewsAgree`, `SelfIsUp`,
  `ResponsibilityCurrent` and `VerdictsKnown`. None of them is inductive alone. A node that takes
  a new identity must not meet it in its gossip, its ring or its verdicts, which holds because
  nobody knows a member that was not started; this is `Heard`, about every gossip and every
  message there is. `Coherent` adds what the four need from each other, and `Known` is
  `Typed /\ Heard /\ Coherent`, the inductive invariant. `ResponsibilityStaysCurrent` is its part about charges and managers.
  With `Known`, `HistoryStep` says of any step how the gossip of a node moves (`GossipMoves`: what is down in it
  was, or a message or a verdict says so) and its identity (`SelfMoves`: what it knew in its cluster it knows, and an
  identity it gives up is down). From that follow
  `NothingIsForgotten`, `NewsIsTrue` (with `DeathsEarned`, which includes the verdicts still to be read), and
  `FormerSelvesStayDown`. `SubscribersStayInSync` is a layer beside these: the
  events of a step, folded into a picture that fitted before it, give one that fits after it (`ViewFolds`).
  `HeartbeatsAreExpected` (for finitely many nodes) is `Known` with `ChargesInvertManagers`.
  `ResponsibilityCurrent`, `FormerSelvesDown` and `NeverForgets` are proved and in no run: the first shows in `HeartbeatsExpected`, the
  others follow from `ImplementsMembership`.
  `PromiseIsKept` is the refinement `Spec => Promise!Spec`. Its invariant `Accounted` is `Known` and `DeathsEarned`, and that only
  members that were started are given up and that a node that does not run has no identity. From the first, no gossip exceeds the
  ledger (`WithinLedger`); from `NodeHistory`, how a step moves one node's gossip and identity, each working step is a `Learn`, a `Return` or
  a stutter (`WorkRefines`); starting, stopping and giving up have a lemma each.
* **`CausalProofs`**: `TypesAlways`, `AckedWasReceived`, `BufferAlwaysMatches`, `ClockAlwaysTellsData`,
  `RetryIsAlwaysDue`. The layer `Typed` is the types; `Sound` says of every delta and every ack in flight, and of
  every entry of `acks`, what the sender had when it was sent and that the addressee has it since; `Reminded`
  adds that whoever is behind has a timeout under way. Two hypotheses name what the code does not survive (section 6):
  no replica restarts on its socket (`NoRestarts`: an ack does not say for which run of its addressee it is), and for
  `RetryIsAlwaysDue` only founders queue operations while they wait (`Impatient \subseteq Founders`: `Waiting::to_ic`
  schedules nothing). `PriorityAloneCausesPanic`: where in addition nobody prefers anybody, no replica ever panics,
  so the buffer never lacks a delta that `disperse` unwraps. `RestingAlwaysAgree`, under the same two hypotheses as `RetryIsAlwaysDue`, is the
  safety half of convergence: a replica with no timeout under way is not behind, so every entry of its `acks` has reached
  its clock, and nothing is left in its buffer that a peer may lack (`NotBehindIsCovered`).
* **`ReceiversProofs`**: `TypeCorrect`; `VerdictsAreEarned`; `RunningStayRegistered`, that a receiver that runs is the one its
  name leads to. The last is a matter of order in the registry's mailbox. `Named` says of each task, by its phase, what is in the mailbox
  for it and what the registry has under its name; of two tasks with a name all but the last are on their way out
  with their Deregister before the Register of the next, unless the charge was `rushed`.
* **`DevicesProofs`** (from `DevicesAssumption`): the data of devices form a join-semilattice (`JoinIsSemilattice`), from
  the totality of the order of entries; mutators only grow it (`MutatorsGrow`); so what a server knows never goes back
  (`DataNeverGoesBack`). `ChargesWatched` is inductive once one knows that senders and their numbers fit (`IInv`
  there): a sender leaves a server only by `remove_device` or a stop, and both tell it to stop.
  `Bounded` adds to `IInv` the bounds and what is in flight; `TypeCorrect` and `LogStaysInSync` follow from both. For the latter
  `LogOK` counts the turns and the places of each sender in the buffer; a push moves all places by one, which keeps their number
  (`ShiftedCount`), and makes at most one new turn, at the front; a pop takes at most one, at the back.
  `SettledForGood` is the stability of convergence: while a device is settled with a server, each step that is no trouble is `Calm`,
  it moves neither the servers, nor who requests heartbeats, nor the device's server. The data may still change, as late intervals arrive.
* **`DoubleThreadedProofs`** (from `DoubleThreadedAssumption`: the signals are no messages): `NobodyStrays`,
  the two panics of the secondary (a second request, or a primary that is gone while it waits)
  are unreachable. The inductive invariant is `Handshake`: at most one request
  or answer is under way, the secondary believes the primary waits only when nothing is queued,
  and `Die` is only ever sent by a primary that has ended. `TwoTasksActAsOne` is the safety part of
  the refinement, `Spec => Single!Spec`: one lemma for each action, over facts about taking
  the request out of a mailbox (`PendingAppend`, `PendingServe`, `PendingTail`), which moves what is behind it.
* **`PacketsProofs`** (from `PacketsAssumption` and `NoTruncation`, the sizes of messages): `TypeCorrect`; `PacketsConserved`. `Conserved` counts
  every copy of a packet; it is inductive together with `BuildersOK`, a builder has only packets of its
  message and lacks one of them. That is why finishing a builder, which uses one copy of each packet, keeps the count
  for all of them (`NextKeeps`), and why a message of one packet never meets a builder (`OnlyKeeps`).
  `ForwardedAreWhole`: a builder's buffer has the payload of every packet it has, in place (`Content`), whatever order
  they came in, though each packet is received over the bytes before its own (`InsertIs`). `FragmentsMakeChannel`
  is the refinement `Spec => MessageChannel!Spec`: by `Conserved`, `There(m)[i]` is what was sent and repeated of
  packet i less what was lost and used, so every step moves each of them, and with them their least, `Available(m)`, by at most one, as a
  step of `Channel` does.

Only model-checked: the liveness properties, and the fairness half of `ImplementsMailbox`. Liveness under fairness, and
anything with ENABLED, is out of the prover's reach and stays with TLC, as do recursive
operators and what a recursive function computes for every input; where a proof needs the least of a set of numbers
(`ManagerInView`, `LeastIs`, `LeastNumber`), it takes it from the well-foundedness of the naturals.

## 6. Findings

1. **Permanent split** (`v_cluster_split`). `gossip_reqs` asks members only (cluster.rs:256) and a
   member that was declared down is none. When two nodes give up on each other, each hears
   of its own death in the other's last message, takes a new identifier, and counts nobody but itself.
   Nobody is left to ask. `cluster/mod.rs:20-22` promises that a downed node will hear of it,
   "assign itself a new identifier and rejoin the cluster".
2. **A charge nobody watches** (`v_receiver_lost`). A receiver is named after its charge. When a charge leaves and
   comes back, `update_charges_managers` sends `Term` to the old receiver and spawns a new one without waiting; if
   the registry gets the Register before the Deregister, it refuses (registry.rs:55-58), the
   `expect` at actor_tasks_timeout.rs:23 panics, and `charges` keeps a reference to a dead task for as long as the
   charge stays. `cluster/mod.rs:11` promises that "should a node fail, it will be noticed".

Observed with the same models, but no run of the project:

* **Acks outlive a restart.** An ack names the member that acknowledges and a
  clock, not whose clock. Where a replica may restart on its socket (`MaxId` 2 for one that `MayStop`), TLC finds that one
  for the earlier run moves the peer's entry beyond the new clock, and causal.rs:150 unwraps a delta that
  is not there (`BufferRunsOut`).
* **Queued operations stay at home.** `to_ic` makes the operations queued while
  waiting into a first delta at clock 1, but joining sends nothing and schedules no timeout
  (causal.rs:376-384). With an `Impatient` node that is no founder, `ReplicasConverge` fails: unless something else happens, the
  members the node joined never get them, though `tests/crdt-test.rs` takes every `Mutate` to arrive everywhere.
* **A silent peer starves others.** `disperse` turns to the `amount` peers with the least acknowledged clock
  (causal.rs:98-115). One that does not acknowledge (it has stopped, or does not count the sender as a member yet) stays
  least, and with `Amount` = 1 takes every dispersal until the membership removes it or changes: with three replicas, two
  operations and no preference `ReplicasConverge` fails though no replica stops, as the newest operation never reaches the
  third. A preferred peer that is no member makes `disperse` panic (causal.rs:113).
* `utils.rs:98` calls `req_tries` the "maximum number of heartbeat requests each HBR sends"; it sends one more, the
  first of `pre_start`, and gives its verdict after `req_tries` + 1 silent timeouts (`VerdictEarned`).
* Nothing sends `IntervalAck`, so a device's new interval that is lost is not repeated (client.rs:147, 205).
* A verdict on a device names the device, not the sender that gave it up (server.rs:284). One that is late removes the entry of a
  device that is alive and charged by another sender; the entry comes back with the device's next `SetHeartbeatInterval`.

Noted, but no finding: `InCluster::alone` stores a task that is already over in the place of the
gossip timer, and neither `ping` nor the handler of `Ping` schedules another, so the founder of a
cluster asks for no gossip until the first State message reaches it. No property relies on
that timer, and no text promises it.

## 7. Plan

Done: gossip, ring and membership, with proofs of every safety property the runs check, and that membership implements its promise; causal dispersal, with the proofs
of its invariants; the double-threaded actor, with the proof that it implements a FIFO mailbox; packets, with the proofs that
none is lost or used twice by the receiver, that what is forwarded is whole, and that they implement a channel of messages; heartbeat
receivers with the registry, with proofs of their safety; device servers and clients, with the
proofs of all their safety properties.

What a next step would be: proofs of what of `AckedIsReceived` and `BufferMatchesClock` is left for causal dispersal without
`NoRestarts`, and of the safety half of `MembersConverge`, which needs an invariant of who has still to be told in a ring of any size.

### Not modelled

* the phi accrual statistics (`interval_storage.rs`, floating point; in every module an oracle decides when a timeout comes) and the
  intervals of heartbeats;
* serialization, interfaces and macros (`unification.rs`, `lib.rs`, `aurum_actors_macros`): resolved at compile time, no state;
* starting a `Node` and binding its socket (pure I/O); addresses that do not resolve;
* messages that do not deserialize: a panic of the actor's task, as `Crash` has it, but in a double-threaded actor of the secondary;
* datagrams that are not of `UdpSerial` and decode all the same, and errors of the socket (section 2, Packets);
* the handler of `IntervalAck`, which nothing sends; devices and device servers that come back after a stop; subscribers of
  `Charges` and `Manager`, which change no state of their publisher;
* the configuration of the test kit beyond losses and delays (`Post`, `Lose`), logs, benchmarks.
