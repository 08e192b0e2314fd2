--------------------------- MODULE CausalDisperse ---------------------------
(***************************************************************************)
(* Dispersal of a delta CRDT, crdt/causal.rs: one CausalDisperse actor per *)
(* socket.  It buffers the deltas of its data, sends their join to peers   *)
(* that lack some of them and the whole data to peers it cannot serve from *)
(* the buffer, and drops what every peer has acknowledged.                 *)
(*                                                                         *)
(* The data is the most general CRDT, the set of the operations applied.   *)
(* What the membership actor tells its subscriber is any history that      *)
(* module Cluster shows it may tell: the first update gives the node's     *)
(* identity and peers, later ones add members, remove peers or rename the  *)
(* node, and nobody comes back who was once removed.                       *)
(***************************************************************************)
EXTENDS Udp, Integers, Sequences, FiniteSetsExt

CONSTANTS
  Socket,       \* the nodes
  Op,           \* operations on the data
  Amount,       \* preference.amount; selector All is an amount of all members
  Preferences,  \* values of preference.priority a user may set
  Founders,     \* nodes that found a cluster alone
  MaxId,        \* bound: identifiers each socket ever draws
  MayStop,      \* bound: the nodes that may stop
  MayLeave,     \* bound: the members others may remove
  Writers,      \* bound: the nodes whose user applies operations
  Impatient     \* bound: those that apply some before they have joined

Member == UNION {[socket : {s}, id : 1..MaxId[s]] : s \in Socket}
Incarnation(s, i) == [socket |-> s, id |-> i]
NoMember == [socket |-> "none", id |-> 0]

ASSUME CausalAssumption ==
  /\ MaxId \in [Socket -> Nat]
  /\ Amount \in Nat
  /\ {} \in Preferences /\ Preferences \subseteq SUBSET Member
  /\ Founders \subseteq Socket /\ MayStop \subseteq Socket
  /\ Impatient \subseteq Writers /\ Writers \subseteq Socket /\ MayLeave \subseteq Member
  /\ Unreliable \in BOOLEAN /\ MaxInFlight \in Nat

VARIABLES
  phase,     \* "stopped", "waiting", "in_cluster" or "panicked"
  queue,     \* Waiting.ops_queue
  ic,        \* InCluster: member, data, clock, deltas, acks, min_ord, min_delta
  priority,  \* preference.priority
  due,       \* some DisperseTimeout is on its way
  gone,      \* members removed, and this run's former identities
  lastId     \* the last id drawn at each socket

vars == <<phase, queue, ic, priority, due, gone, lastId, net>>

\* acks is a function from the peers to the clocks they acknowledged; ord_acks,
\* which holds the same pairs in order, is not kept apart.
InCluster(me, data, clock, deltas, acks, minOrd, minDelta) ==
  [me |-> me, data |-> data, clock |-> clock, deltas |-> deltas, acks |-> acks,
   minOrd |-> minOrd, minDelta |-> minDelta]

NotInCluster == InCluster(NoMember, {}, 0, <<>>, <<>>, 0, 0)
Peers(c) == DOMAIN c.acks

Message ==
  [kind : {"Delta"}, to : Socket, from : Member, clock : Nat, data : SUBSET Op]
    \cup [kind : {"Ack"}, to : Socket, from : Member, clock : Nat]

\* op.apply: the delta of an operation that changes nothing is empty.
DeltaOf(op, data) == {op} \ data

\* The join of all deltas from the i-th in the buffer on.
JoinFrom(deltas, i) == UNION {deltas[k] : k \in i..Len(deltas)}

\* The least acknowledged clock, 0 without peers.
LeastAck(acks) == IF DOMAIN acks = {} THEN 0 ELSE Min({acks[p] : p \in DOMAIN acks})
-----------------------------------------------------------------------------
\* A variant that never sends the whole data.
PayloadFromBuffer(c, p) == JoinFrom(c.deltas, 1)

\* What disperse sends to p: the buffer, or all data if p acknowledged less
\* than the buffer reaches back to.
Payload(c, p) == IF c.acks[p] < c.minDelta THEN c.data ELSE JoinFrom(c.deltas, 1)

\* The peers disperse turns to: those with priority, and the `Amount` most
\* out of date among the others.
Targets(c, first) ==
  LET others == Peers(c) \ first
  IN  {first \cup picked : picked \in
         {P \in kSubset(Min({Amount, Cardinality(others)}), others) :
            \A p \in P, q \in others \ P : c.acks[p] <= c.acks[q]}}

DeltaMsgs(c, targets) ==
  {[kind |-> "Delta", to |-> p.socket, from |-> c.me, clock |-> c.clock,
    data |-> Payload(c, p)] : p \in {q \in targets : c.acks[q] < c.clock}}

\* schedule_local_msg(DisperseTimeout)
ScheduleNot(s) == due
Schedule(s) == [due EXCEPT ![s] = TRUE]

\* InCluster::disperse at the end of a handler that has sent `acked` and has
\* made c of the state.  It unwraps the entry of every member with priority,
\* in the order of a hash set, as it sends to it; then it schedules a timeout.
Disperse(s, c, rest, acked) ==
  IF priority[s] \subseteq Peers(c)
  THEN /\ \E targets \in Targets(c, priority[s]) :
            Post(rest, acked \cup DeltaMsgs(c, targets))
       /\ ic' = [ic EXCEPT ![s] = c]
       /\ due' = Schedule(s)
       /\ UNCHANGED phase
  ELSE /\ \E told \in SUBSET (priority[s] \cap Peers(c)) :
            Post(rest, acked \cup DeltaMsgs(c, told))
       /\ phase' = [phase EXCEPT ![s] = "panicked"]
       /\ ic' = [ic EXCEPT ![s] = NotInCluster]
       /\ due' = [due EXCEPT ![s] = FALSE]

\* Data that has grown by a delta.  The variant forgets the clock.
GrownSameClock(c, delta) ==
  [c EXCEPT !.data = @ \cup delta, !.deltas = Append(@, delta)]
Grown(c, delta) ==
  [c EXCEPT !.data = @ \cup delta, !.deltas = Append(@, delta), !.clock = @ + 1]

Init ==
  /\ phase = [s \in Socket |-> "stopped"]
  /\ queue = [s \in Socket |-> {}]
  /\ ic = [s \in Socket |-> NotInCluster]
  /\ priority = [s \in Socket |-> {}]
  /\ due = [s \in Socket |-> FALSE]
  /\ gone = [s \in Socket |-> {}]
  /\ lastId = [s \in Socket |-> 0]
  /\ net = {}
-----------------------------------------------------------------------------
\* CausalDisperse::new and pre_start; the membership actor beside it draws
\* the identity.
Start(s) ==
  /\ phase[s] = "stopped" /\ lastId[s] < MaxId[s]
  /\ phase' = [phase EXCEPT ![s] = "waiting"]
  /\ lastId' = [lastId EXCEPT ![s] = @ + 1]
  /\ UNCHANGED <<queue, ic, priority, due, gone, net>>

\* The node stops or crashes: nothing persists.
Stop(s) ==
  /\ s \in MayStop /\ phase[s] # "stopped"
  /\ phase' = [phase EXCEPT ![s] = "stopped"]
  /\ queue' = [queue EXCEPT ![s] = {}]
  /\ ic' = [ic EXCEPT ![s] = NotInCluster]
  /\ priority' = [priority EXCEPT ![s] = {}]
  /\ due' = [due EXCEPT ![s] = FALSE]
  /\ gone' = [gone EXCEPT ![s] = {}]
  /\ UNCHANGED <<lastId, net>>

\* Cmd(Mutate) while waiting
Enqueue(s, op) ==
  /\ phase[s] = "waiting" /\ s \in Impatient
  /\ queue' = [queue EXCEPT ![s] = @ \cup {op}]
  /\ UNCHANGED <<phase, ic, priority, due, gone, lastId, net>>

\* Cmd(Mutate) in a cluster: InCluster::op
Mutate(s, op) ==
  /\ phase[s] = "in_cluster" /\ s \in Writers
  /\ DeltaOf(op, ic[s].data) # {}
  /\ Disperse(s, Grown(ic[s], DeltaOf(op, ic[s].data)), net, {})
  /\ UNCHANGED <<queue, priority, gone, lastId>>

\* Cmd(SetDispersalPreference)
SetPreference(s, first) ==
  /\ phase[s] # "panicked" /\ phase[s] # "stopped"
  /\ priority' = [priority EXCEPT ![s] = first]
  /\ UNCHANGED <<phase, queue, ic, due, gone, lastId, net>>
-----------------------------------------------------------------------------
Started == {m \in Member : m.id <= lastId[m.socket]}

\* Update while waiting, and Waiting::to_ic: queued operations make the first
\* delta.  Nothing is sent and no timeout is scheduled.
Join(s) ==
  /\ phase[s] = "waiting"
  /\ LET me == Incarnation(s, lastId[s]) IN
     \E nodes \in SUBSET (Started \ {me}) :
       /\ s \in Founders => nodes = {}
       /\ ic' = [ic EXCEPT ![s] =
            InCluster(me, queue[s], IF queue[s] = {} THEN 0 ELSE 1,
                      IF queue[s] = {} THEN <<>> ELSE <<queue[s]>>,
                      [p \in nodes |-> 0], 0, 0)]
  /\ phase' = [phase EXCEPT ![s] = "in_cluster"]
  /\ queue' = [queue EXCEPT ![s] = {}]
  /\ UNCHANGED <<priority, due, gone, lastId, net>>

\* The peers after an update.  The variant takes new peers to be up to date.
RegroupedUpToDate(c, added, removed) ==
  LET acks == [p \in (Peers(c) \ removed) \cup added |->
                 IF p \in added THEN c.clock ELSE c.acks[p]]
  IN  [c EXCEPT !.acks = acks, !.minOrd = LeastAck(acks)]
Regrouped(c, added, removed) ==
  LET acks == [p \in (Peers(c) \ removed) \cup added |->
                 IF p \in added THEN 0 ELSE c.acks[p]]
  IN  [c EXCEPT !.acks = acks, !.minOrd = LeastAck(acks)]

\* Update in a cluster: InCluster::update for members that came and went.
Regroup(s) ==
  /\ phase[s] = "in_cluster"
  /\ \E added \in SUBSET (Started \ (Peers(ic[s]) \cup gone[s] \cup {ic[s].me})),
        removed \in SUBSET (Peers(ic[s]) \cap MayLeave) :
       /\ added \cup removed # {}
       /\ gone' = [gone EXCEPT ![s] = @ \cup removed]
       /\ Disperse(s, Regrouped(ic[s], added, removed), net, {})
  /\ UNCHANGED <<queue, priority, lastId>>

\* Update in a cluster: the node was declared down and has a new identity.
\* Removed(former self) is passed over.
Rename(s) ==
  /\ phase[s] = "in_cluster" /\ lastId[s] < MaxId[s]
  /\ lastId' = [lastId EXCEPT ![s] = @ + 1]
  /\ ic' = [ic EXCEPT ![s].me = Incarnation(s, lastId[s] + 1)]
  /\ gone' = [gone EXCEPT ![s] = @ \cup {ic[s].me}]
  /\ UNCHANGED <<phase, queue, priority, due, net>>
-----------------------------------------------------------------------------
\* A variant that acknowledges with its own clock.
AckOfOwnClock(c, msg) ==
  [kind |-> "Ack", to |-> msg.from.socket, from |-> c.me, clock |-> c.clock]
AckOf(c, msg) ==
  [kind |-> "Ack", to |-> msg.from.socket, from |-> c.me, clock |-> msg.clock]

\* Intra(Delta): InCluster::delta.  The buffer takes the delta as it came.
ReceiveDelta(s, msg) ==
  /\ msg \in net /\ msg.kind = "Delta" /\ msg.to = s
  /\ phase[s] = "in_cluster" /\ msg.from \in Peers(ic[s])
  /\ \E rest \in AfterReceipt(msg) :
       IF msg.data \subseteq ic[s].data
       THEN Post(rest, {AckOf(ic[s], msg)}) /\ UNCHANGED <<phase, ic, due>>
       ELSE Disperse(s, Grown(ic[s], msg.data), rest, {AckOf(ic[s], msg)})
  /\ UNCHANGED <<queue, priority, gone, lastId>>

\* The entry moves up, and what all peers have acknowledged leaves the buffer.
\* The variant counts what it drops from min_ord as it was before.
AcknowledgedLate(c, p, clock) ==
  LET acks == [c.acks EXCEPT ![p] = clock]
  IN  [c EXCEPT !.acks = acks, !.minOrd = LeastAck(acks),
                !.minDelta = Max({c.minDelta, LeastAck(acks)}),
                !.deltas = SubSeq(@, Max({c.minDelta, c.minOrd}) - c.minDelta + 1, Len(@))]
Acknowledged(c, p, clock) ==
  LET acks == [c.acks EXCEPT ![p] = clock]
      keep == Max({c.minDelta, LeastAck(acks)})
  IN  [c EXCEPT !.acks = acks, !.minOrd = LeastAck(acks), !.minDelta = keep,
                !.deltas = SubSeq(@, keep - c.minDelta + 1, Len(@))]

\* pop_front().unwrap() for every clock between the old and the new min_delta
BufferRunsOut(c, p, clock) ==
  LeastAck([c.acks EXCEPT ![p] = clock]) - c.minDelta > Len(c.deltas)

\* Intra(Ack): InCluster::ack
ReceiveAck(s, msg) ==
  /\ msg \in net /\ msg.kind = "Ack" /\ msg.to = s
  /\ phase[s] = "in_cluster" /\ msg.from \in Peers(ic[s])
  /\ ic[s].acks[msg.from] < msg.clock
  /\ net' \in AfterReceipt(msg)
  /\ IF BufferRunsOut(ic[s], msg.from, msg.clock)
     THEN /\ phase' = [phase EXCEPT ![s] = "panicked"]
          /\ ic' = [ic EXCEPT ![s] = NotInCluster]
          /\ due' = [due EXCEPT ![s] = FALSE]
     ELSE /\ ic' = [ic EXCEPT ![s] = Acknowledged(ic[s], msg.from, msg.clock)]
          /\ UNCHANGED <<phase, due>>
  /\ UNCHANGED <<queue, priority, gone, lastId>>

\* Messages that change nothing: to an actor that is not in a cluster and has
\* no peers, from a stranger, or an ack that is no news.
Unheeded(s, msg) ==
  /\ msg \in net /\ msg.to = s
  /\ msg.from \in Peers(ic[s]) => msg.kind = "Ack" /\ msg.clock <= ic[s].acks[msg.from]
  /\ net' = net \ {msg}
  /\ UNCHANGED <<phase, queue, ic, priority, due, gone, lastId>>

Behind(c) == c.minOrd # c.clock /\ Peers(c) # {}

\* DisperseTimeout.  Every dispersal has scheduled one, so others may be on
\* their way when this one finds nothing to do.
DisperseTimeout(s) ==
  /\ due[s] /\ phase[s] = "in_cluster"
  /\ IF Behind(ic[s])
     THEN Disperse(s, ic[s], net, {})
     ELSE due' \in {due, [due EXCEPT ![s] = FALSE]} /\ UNCHANGED <<phase, ic, net>>
  /\ UNCHANGED <<queue, priority, gone, lastId>>

Receive(s, msg) == ReceiveDelta(s, msg) \/ ReceiveAck(s, msg) \/ Unheeded(s, msg)

Next ==
  \E s \in Socket :
    \/ Start(s) \/ Stop(s) \/ Join(s) \/ Regroup(s) \/ Rename(s) \/ DisperseTimeout(s)
    \/ \E op \in Op : Enqueue(s, op) \/ Mutate(s, op)
    \/ \E first \in Preferences : SetPreference(s, first)
    \/ \E msg \in net : Receive(s, msg)

Spec == Init /\ [][Next]_vars
-----------------------------------------------------------------------------
(* Type correctness; nobody acknowledged more than there is.               *)
TypeOK ==
  /\ phase \in [Socket -> {"stopped", "waiting", "in_cluster", "panicked"}]
  /\ queue \in [Socket -> SUBSET Op]
  /\ \A s \in Socket :
       LET c == ic[s] IN
       /\ c.me \in Member \cup {NoMember} /\ c.data \subseteq Op /\ c.clock \in Nat
       /\ c.deltas \in Seq(SUBSET Op)
       /\ Peers(c) \subseteq Member /\ c.acks \in [Peers(c) -> 0..c.clock]
       /\ c.minOrd \in 0..c.clock /\ c.minDelta \in 0..c.clock
  /\ priority \in [Socket -> Preferences]
  /\ due \in [Socket -> BOOLEAN]
  /\ gone \in [Socket -> SUBSET Member]
  /\ lastId \in [Socket -> Nat] /\ \A s \in Socket : lastId[s] <= MaxId[s]
  /\ net \subseteq Message

InClusterNow == {s \in Socket : phase[s] = "in_cluster"}

(* The deltas in the buffer are exactly those between min_delta and the     *)
(* clock, min_delta is never ahead of what some peer acknowledged, and     *)
(* min_ord is the least acknowledged clock: pop_front finds a delta for     *)
(* every clock it drops, whatever order acks and updates come in.          *)
BufferMatchesClock ==
  \A s \in InClusterNow :
    /\ Len(ic[s].deltas) = ic[s].clock - ic[s].minDelta
    /\ ic[s].minOrd = LeastAck(ic[s].acks)

(* What a peer lacks of a node's data is in the node's buffer behind the   *)
(* clock the peer acknowledged, unless the buffer does not reach back that *)
(* far and the peer will get the whole data: no delta that somebody needs  *)
(* is dropped or taken for received.                                       *)
AckedIsReceived ==
  \A s, t \in InClusterNow :
    LET c == ic[s]
        p == ic[t].me
    IN  s # t /\ p \in Peers(c) /\ c.acks[p] >= c.minDelta
          => c.data \subseteq ic[t].data \cup JoinFrom(c.deltas, c.acks[p] - c.minDelta + 1)

(* A peer that lacks something is remembered by a timeout: whenever some    *)
(* peer is behind, a DisperseTimeout is on its way.                        *)
RetryIsDue ==
  \A s \in InClusterNow : Behind(ic[s]) => due[s]

(* While it runs, a replica only grows, and its clock with it: no two       *)
(* different values of its data are sent under the same clock.             *)
ClockTellsData ==
  [][\A s \in Socket :
       phase[s] = "in_cluster" /\ phase'[s] = "in_cluster"
         => /\ ic[s].data \subseteq ic'[s].data
            /\ ic[s].clock = ic'[s].clock <=> ic[s].data = ic'[s].data]_vars
-----------------------------------------------------------------------------
(* Scheduling.  Timeouts fire and mailboxes are served.  UDP loses and      *)
(* repeats, but not everything for ever: of what one node disperses to     *)
(* another again and again some gets through, and so does one of the acks. *)
DeltaGetsThrough(s, t) ==
  /\ DisperseTimeout(s)
  /\ \E msg \in DeltaMsgs(ic[s], Peers(ic[s])) : msg.to = t /\ msg \in net'

AckGetsThrough(s, msg) ==
  /\ ReceiveDelta(s, msg)
  /\ AckOf(ic[s], msg) \in net'

FairSpec ==
  /\ Spec
  /\ \A s, t \in Socket :
       s # t => /\ SF_vars(DeltaGetsThrough(s, t))
                /\ SF_vars(\E msg \in net : msg.from.socket = t /\ AckGetsThrough(s, msg))
  /\ \A s \in Socket :
       /\ WF_vars(\E msg \in net : ReceiveAck(s, msg))
       /\ WF_vars(\E msg \in net : Unheeded(s, msg))

\* Two nodes in a cluster that count each other as members.
Linked(s, t) ==
  /\ s \in InClusterNow /\ t \in InClusterNow
  /\ ic[s].me \in Peers(ic[t]) /\ ic[t].me \in Peers(ic[s])

(* What convergence amounts to at any one time: when two nodes that count   *)
(* each other as members have nothing more to send, with no timeout on its  *)
(* way at either, it is because their data is the same.                     *)
RestingAgree ==
  \A s, t \in Socket : Linked(s, t) /\ ~due[s] /\ ~due[t] => ic[s].data = ic[t].data

(* Two nodes in a cluster that count each other as members have the same   *)
(* data in the end.                                                        *)
ReplicasConverge == <>[](\A s, t \in Socket : Linked(s, t) => ic[s].data = ic[t].data)
=============================================================================
