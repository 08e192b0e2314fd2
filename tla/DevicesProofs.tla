---------------------------- MODULE DevicesProofs ----------------------------
(***************************************************************************)
(* Proofs about the devices' data and their servers, for any servers, any  *)
(* order of them on the ring and any bounds.                               *)
(***************************************************************************)
EXTENDS Devices, FiniteSetTheorems, WellFoundedInduction, SequenceTheorems, TLAPS

-----------------------------------------------------------------------------
(* The order on entries, devices_state.rs:75-96. *)

LEMMA AtLeastIsTotalOrder ==
  ASSUME NEW a \in Entry, NEW b \in Entry, NEW c \in Entry
  PROVE  /\ AtLeast(a, a)
         /\ AtLeast(a, b) \/ AtLeast(b, a)
         /\ AtLeast(a, b) /\ AtLeast(b, a) => a = b
         /\ AtLeast(a, b) /\ AtLeast(b, c) => AtLeast(a, c)
<1>1. \A x \in Entry : x = [removals |-> x.removals, there |-> x.there,
                            clock |-> x.clock, dur |-> x.dur]
  BY DEF Entry
<1>2. /\ a.removals \in Nat /\ a.there \in BOOLEAN /\ a.clock \in Nat /\ a.dur \in Nat
      /\ b.removals \in Nat /\ b.there \in BOOLEAN /\ b.clock \in Nat /\ b.dur \in Nat
      /\ c.removals \in Nat /\ c.there \in BOOLEAN /\ c.clock \in Nat /\ c.dur \in Nat
  BY DEF Entry
<1>3. AtLeast(a, a) /\ (AtLeast(a, b) \/ AtLeast(b, a))
  BY <1>2 DEF AtLeast, IntervalAtLeast
<1>4. AtLeast(a, b) /\ AtLeast(b, a) => a = b
  <2> SUFFICES ASSUME AtLeast(a, b), AtLeast(b, a) PROVE a = b
    OBVIOUS
  <2>1. a.removals = b.removals /\ a.there = b.there /\ a.clock = b.clock /\ a.dur = b.dur
    BY <1>2 DEF AtLeast, IntervalAtLeast
  <2> QED
    BY <1>1, <2>1
<1>5. AtLeast(a, b) /\ AtLeast(b, c) => AtLeast(a, c)
  BY <1>2 DEF AtLeast, IntervalAtLeast
<1> QED
  BY <1>3, <1>4, <1>5

LEMMA LatestIsGreatest ==
  ASSUME NEW a \in Entry, NEW b \in Entry
  PROVE  /\ Latest(a, b) \in Entry
         /\ AtLeast(Latest(a, b), a) /\ AtLeast(Latest(a, b), b)
         /\ Latest(a, b) = a \/ Latest(a, b) = b
BY AtLeastIsTotalOrder DEF Latest

(* The join of what two servers know is idempotent, commutative and        *)
(* associative: in whatever order and however often CausalDisperse joins   *)
(* deltas, servers that got the same ones know the same                    *)
(* (Devices::join, devices_state.rs:107-111).                              *)
THEOREM JoinIsSemilattice ==
  ASSUME NEW f \in Devices, NEW g \in Devices, NEW h \in Devices
  PROVE  /\ Join(f, g) \in Devices
         /\ Join(f, f) = f
         /\ Join(f, g) = Join(g, f)
         /\ Join(f, Join(g, h)) = Join(Join(f, g), h)
<1> USE DEF Devices
<1>1. \A d \in Device : f[d] \in Entry /\ g[d] \in Entry /\ h[d] \in Entry
  OBVIOUS
<1>2. Join(f, g) \in Devices /\ Join(g, h) \in Devices
  BY <1>1, LatestIsGreatest DEF Join
<1>3. Join(f, f) = f
  BY DEF Join, Latest
<1>4. ASSUME NEW a \in Entry, NEW b \in Entry, NEW c \in Entry
      PROVE  Latest(a, b) = Latest(b, a) /\ Latest(a, Latest(b, c)) = Latest(Latest(a, b), c)
  <2>1. Latest(a, b) = Latest(b, a)
    BY AtLeastIsTotalOrder DEF Latest
  <2>2. Latest(a, Latest(b, c)) = Latest(Latest(a, b), c)
    <3>1. \A x, y, z \in Entry :
            /\ AtLeast(x, x) /\ (AtLeast(x, y) \/ AtLeast(y, x))
            /\ AtLeast(x, y) /\ AtLeast(y, z) => AtLeast(x, z)
            /\ AtLeast(x, y) /\ AtLeast(y, x) => x = y
      BY AtLeastIsTotalOrder
    <3> HIDE DEF Entry, AtLeast
    <3> QED
      BY <3>1 DEF Latest
  <2> QED
    BY <2>1, <2>2
<1>5. Join(f, g) = Join(g, f)
  BY <1>1, <1>4 DEF Join
<1>6. Join(f, Join(g, h)) = Join(Join(f, g), h)
  <2>1. \A d \in Device : Join(g, h)[d] = Latest(g[d], h[d]) /\ Join(f, g)[d] = Latest(f[d], g[d])
    BY DEF Join
  <2>2. \A d \in Device : Latest(f[d], Latest(g[d], h[d])) = Latest(Latest(f[d], g[d]), h[d])
    <3> TAKE d \in Device
    <3> HIDE DEF Devices
    <3>1. f[d] \in Entry /\ g[d] \in Entry /\ h[d] \in Entry
      BY <1>1
    <3>2. \A a, b, c \in Entry : Latest(a, Latest(b, c)) = Latest(Latest(a, b), c)
      BY <1>4
    <3> HIDE DEF Entry
    <3> QED
      BY <3>1, <3>2
  <2>3. \A d \in Device : Latest(f[d], Join(g, h)[d]) = Latest(Join(f, g)[d], h[d])
    BY <2>1, <2>2
  <2>4. \A d \in Device : Join(f, Join(g, h))[d] = Join(Join(f, g), h)[d]
    <3> TAKE d \in Device
    <3>1. \A x, y : Join(x, y)[d] = Latest(x[d], y[d])
      BY DEF Join
    <3> QED
      BY <2>3, <3>1, Zenon
  <2>5. /\ Join(f, Join(g, h)) = [d \in Device |-> Join(f, Join(g, h))[d]]
        /\ Join(Join(f, g), h) = [d \in Device |-> Join(Join(f, g), h)[d]]
    BY DEF Join
  <2> QED
    BY <2>4, <2>5, Zenon
<1> QED
  BY <1>2, <1>3, <1>5, <1>6

(* A mutator's delta, joined into the data it was made from, replaces one   *)
(* entry, by a greater one, and says what was asked: the interval put is    *)
(* there, or one that beats it, and what is removed is not there            *)
(* (DeviceMutator::apply, devices_state.rs:24-68).                          *)
THEOREM MutatorsGrow ==
  ASSUME NEW f \in Devices, NEW d \in Device, NEW i \in Interval
  PROVE  /\ Join(f, Put(f, d, i)) = [f EXCEPT ![d] = Latest(@, PutEntry(@, i))]
         /\ Join(f, Remove(f, d)) = [f EXCEPT ![d] = Latest(@, RemoveEntry(@))]
         /\ LET e == Join(f, Put(f, d, i))[d] IN
              e.there /\ IntervalAtLeast(e, i) /\ AtLeast(e, f[d])
         /\ LET e == Join(f, Remove(f, d))[d] IN ~e.there /\ AtLeast(e, f[d])
<1>1. /\ f[d] \in Entry /\ Absent \in Entry
      /\ PutEntry(f[d], i) \in Entry /\ RemoveEntry(f[d]) \in Entry
  BY DEF Devices, Interval, Entry, Absent, Present, Removed, PutEntry, RemoveEntry
<1>2. \A x \in Entry : Latest(x, Absent) = x
  <2> SUFFICES ASSUME NEW x \in Entry PROVE AtLeast(x, Absent)
    BY DEF Latest
  <2>1. x.removals \in Nat /\ x.there \in BOOLEAN /\ (~x.there => x.clock = 0 /\ x.dur = 0)
    BY DEF Entry
  <2>2. Absent.removals = 0 /\ ~Absent.there /\ Absent.clock = 0 /\ Absent.dur = 0
    BY DEF Absent, Removed
  <2>3. x.removals = 0 /\ ~x.there => x.there = Absent.there
    BY <2>1, <2>2, Zenon DEF Absent, Removed
  <2> QED
    BY <2>1, <2>2, <2>3 DEF AtLeast, IntervalAtLeast
<1>3. Join(f, Put(f, d, i)) = [f EXCEPT ![d] = Latest(@, PutEntry(@, i))]
  BY <1>2 DEF Devices, Join, Put, Minimum
<1>4. Join(f, Remove(f, d)) = [f EXCEPT ![d] = Latest(@, RemoveEntry(@))]
  BY <1>2 DEF Devices, Join, Remove, Minimum
<1>5. LET e == Latest(f[d], PutEntry(f[d], i)) IN
        e.there /\ IntervalAtLeast(e, i) /\ AtLeast(e, f[d])
  <2>1. AtLeast(Latest(f[d], PutEntry(f[d], i)), f[d])
    BY <1>1, LatestIsGreatest
  <2>2. CASE f[d].there /\ IntervalAtLeast(f[d], i)
    BY <1>1, <1>2, <2>1, <2>2 DEF PutEntry
  <2>3. CASE ~(f[d].there /\ IntervalAtLeast(f[d], i))
    <3>1. PutEntry(f[d], i) = Present(f[d].removals, i)
      BY <2>3 DEF PutEntry
    <3>2. ~AtLeast(f[d], Present(f[d].removals, i))
      <4>1. /\ f[d].removals \in Nat /\ Present(f[d].removals, i).removals = f[d].removals
            /\ Present(f[d].removals, i).there
            /\ f[d].there \in BOOLEAN
            /\ Present(f[d].removals, i).clock = i.clock /\ Present(f[d].removals, i).dur = i.dur
        BY <1>1 DEF Entry, Present
      <4>2. f[d].there = Present(f[d].removals, i).there => f[d].there
        BY <4>1
      <4>3. ~IntervalAtLeast(f[d], i) => ~IntervalAtLeast(f[d], Present(f[d].removals, i))
        BY <4>1 DEF IntervalAtLeast
      <4>4. AtLeast(f[d], Present(f[d].removals, i)) =>
              f[d].there /\ IntervalAtLeast(f[d], Present(f[d].removals, i))
        <5> HIDE DEF IntervalAtLeast
        <5> DEFINE p == Present(f[d].removals, i)
        <5> HIDE DEF p
        <5>1. ~(f[d].removals > p.removals)
          BY <4>1, SMT DEF p
        <5>2. p.there /\ (f[d].there = p.there => f[d].there)
          BY <4>1, <4>2, Zenon DEF p
        <5>3. AtLeast(f[d], p) => f[d].there /\ IntervalAtLeast(f[d], p)
          BY <5>1, <5>2, Zenon DEF AtLeast
        <5> QED
          BY <5>3 DEF p
      <4> QED
        BY <2>3, <4>3, <4>4
    <3> QED
      BY <2>1, <3>1, <3>2 DEF Latest, Present, IntervalAtLeast, Interval
  <2> QED
    BY <2>2, <2>3
<1>6. LET e == Latest(f[d], RemoveEntry(f[d])) IN ~e.there /\ AtLeast(e, f[d])
  <2>1. AtLeast(Latest(f[d], RemoveEntry(f[d])), f[d])
    BY <1>1, LatestIsGreatest
  <2>2. CASE f[d].there
    <3>1. f[d].removals \in Nat
      BY <1>1 DEF Entry
    <3>2. RemoveEntry(f[d]) = Removed(f[d].removals + 1)
      BY <2>2 DEF RemoveEntry
    <3>3. Removed(f[d].removals + 1).removals = f[d].removals + 1
      BY DEF Removed
    <3>4. ~AtLeast(f[d], Removed(f[d].removals + 1))
      BY <3>1, <3>3 DEF AtLeast
    <3> QED
      BY <2>1, <3>2, <3>4 DEF Latest, Removed
  <2>3. CASE ~f[d].there
    BY <1>1, <1>2, <2>1, <2>3 DEF RemoveEntry
  <2> QED
    BY <2>2, <2>3
<1> QED
  BY <1>3, <1>4, <1>5, <1>6 DEF Devices

-----------------------------------------------------------------------------
(* The servers.  ChargesAreWatched is not inductive by itself: a sender     *)
(* that is told to stop must be one there is, a message must be for a      *)
(* server and from a sender there is, and a server that stopped must hold  *)
(* no sender, or the DownedDevice it never gets would be missed.           *)
Sender == [server : Server, phase : {"on", "quiet", "dead"}, term : BOOLEAN]

ServersOK ==
  /\ server \in [Server -> [phase : {"waiting", "in", "stopped"}, ring : SUBSET Server, sender : Nat]]
  /\ \A s \in Server : /\ server[s].phase = "in" => s \in server[s].ring
                       /\ server[s].phase = "stopped" => server[s].sender = NoSender
SendersOK ==
  /\ sender \in Seq(Sender)
  /\ inbox \in [Server -> Seq({"AmISender", "DownedDevice"})]
  /\ \A s \in Server : server[s].sender \in {NoSender} \cup DOMAIN sender
ClientOK ==
  /\ client = [up |-> client.up, server |-> client.server, seeds |-> client.seeds,
               clock |-> client.clock, log |-> client.log]
  /\ client.server \in Server \cup {NoServer} /\ client.seeds \subseteq Server
  /\ client.clock \in Nat
NetOK ==
  \A m \in net : /\ m.kind = "set" => m.to \in Server /\ m.clock \in Nat
                 /\ m.kind = "request" => m.from \in DOMAIN sender
DataOK == data \in [Server -> Entry]

IInv == ServersOK /\ SendersOK /\ ClientOK /\ NetOK /\ DataOK /\ ChargesAreWatched

LEMMA ManagerInView ==
  ASSUME NEW view \in SUBSET Server, view # {}
  PROVE  ManagerIn(view) \in view
<1>1. Rank \in [Server -> Nat]
  BY DevicesAssumption
<1> DEFINE ranks == {Rank[s] : s \in view}
<1>2. PICK n \in ranks : \A k \in ranks : ~(<<k, n>> \in OpToRel(<, Nat))
  <2>1. ranks \subseteq Nat /\ ranks # {}
    BY <1>1
  <2> QED
    BY <2>1, NatLessThanWellFounded, WFMin
<1>3. \A k \in ranks : n <= k
  <2>1. \A j, k \in Nat : <<j, k>> \in OpToRel(<, Nat) <=> j < k
    BY DEF OpToRel
  <2>2. \A k \in ranks : k \in Nat
    BY <1>1
  <2> HIDE DEF ranks
  <2>3. \A k \in ranks : ~(k < n)
    BY <1>2, <2>1, <2>2, Zenon
  <2> QED
    BY <2>2, <2>3
<1>4. \E s \in view : \A t \in view : Rank[s] <= Rank[t]
  BY <1>2, <1>3
<1> QED
  BY <1>4 DEF ManagerIn

LEMMA NotificationsOK ==
  ASSUME NEW c, c.server \in Server \cup {NoServer}, c.seeds \subseteq Server, c.clock \in Nat,
         NEW m \in Notifications(c)
  PROVE  m.kind = "set" /\ m.to \in Server /\ m.clock \in Nat
<1>1. PICK s \in Server : m = SetHeartbeatInterval(s, c.clock)
  BY DEF Notifications
<1> QED
  BY <1>1 DEF SetHeartbeatInterval

LEMMA EntriesStayEntries ==
  ASSUME NEW e \in Entry, NEW n \in Nat
  PROVE  /\ PutEntry(e, IntervalOf(n)) \in Entry /\ RemoveEntry(e) \in Entry
         /\ Absent \in Entry
BY DEF Entry, PutEntry, RemoveEntry, IntervalOf, Absent, Present, Removed

(* What a server joins into its data keeps it data, and no older.           *)
LEMMA MutateGrows ==
  ASSUME DataOK, NEW s, NEW e \in Entry, Mutate(s, e)
  PROVE  DataOK' /\ \A t \in Server : AtLeast(data'[t], data[t])
<1>1. \A t \in Server : /\ data[t] \in Entry
                        /\ data'[t] = IF t = s THEN Latest(data[t], e) ELSE data[t]
  BY DEF DataOK, Mutate
<1>2. \A t \in Server : data'[t] \in Entry /\ AtLeast(data'[t], data[t])
  BY <1>1, LatestIsGreatest, AtLeastIsTotalOrder
<1>3. data' = [t \in Server |-> data'[t]]
  BY DEF DataOK, Mutate
<1> QED
  BY <1>2, <1>3 DEF DataOK

(* Nothing a step leaves alone can break the invariant.                     *)
LEMMA Undisturbed ==
  ASSUME IInv
  PROVE  /\ UNCHANGED server => ServersOK'
         /\ UNCHANGED <<server, sender, inbox>> => SendersOK' /\ ChargesAreWatched'
         /\ UNCHANGED client => ClientOK'
         /\ UNCHANGED sender /\ net' \subseteq net => NetOK'
         /\ UNCHANGED data => DataOK'
BY DEF IInv, ServersOK, SendersOK, ClientOK, NetOK, DataOK, ChargesAreWatched

LEMMA SendersAre ==
  ASSUME NEW q \in Seq(Sender), NEW i \in DOMAIN q
  PROVE  q[i] \in Sender
BY ElementOfSeq, LenProperties

LEMMA SenderChanged ==
  ASSUME NEW q \in Seq(Sender), NEW i \in DOMAIN q, NEW p \in {"on", "quiet", "dead"},
         NEW t, t = [q EXCEPT ![i].phase = p]
  PROVE  /\ t \in Seq(Sender) /\ DOMAIN t = DOMAIN q
         /\ \A j \in DOMAIN q : /\ t[j].server = q[j].server
                                /\ t[j].term = q[j].term
                                /\ j # i => t[j] = q[j]
<1>1. q[i] \in Sender
  BY SendersAre
<1>2. [q[i] EXCEPT !.phase = p] \in Sender
  BY <1>1 DEF Sender
<1>3. t = [q EXCEPT ![i] = [q[i] EXCEPT !.phase = p]]
  OBVIOUS
<1>4. t \in Seq(Sender)
  BY <1>2, <1>3, ExceptSeq, LenProperties
<1>5. [q[i] EXCEPT !.phase = p].server = q[i].server /\ [q[i] EXCEPT !.phase = p].term = q[i].term
  BY <1>1 DEF Sender
<1>6. DOMAIN t = DOMAIN q /\ \A j \in DOMAIN q : t[j] = IF j = i THEN [q[i] EXCEPT !.phase = p] ELSE q[j]
  BY <1>3
<1> QED
  BY <1>4, <1>5, <1>6

LEMMA InitIInv == Init => IInv
<1> SUFFICES ASSUME Init PROVE IInv
  OBVIOUS
<1>1. ServersOK /\ SendersOK /\ ChargesAreWatched
  <2>1. DOMAIN sender = {} /\ sender \in Seq(Sender)
    BY DEF Init
  <2> QED
    BY <2>1 DEF Init, Waiting, NoSender, ServersOK, SendersOK, ChargesAreWatched
<1>2. ClientOK
  BY DevicesAssumption DEF Init, ClientOK
<1>3. NetOK
  BY DevicesAssumption DEF Init, NetOK, SetHeartbeatInterval
<1>4. DataOK
  BY DEF Init, DataOK, Absent, Removed, Entry
<1> QED
  BY <1>1, <1>2, <1>3, <1>4 DEF IInv

(* The steps of the device: it sends to servers it has heard of, and the    *)
(* server it takes has a sender.                                            *)
LEMMA DeviceKeeps ==
  ASSUME IInv,
         \/ Tick \/ SetInterval \/ Fail
         \/ \E m \in net : ReceiveRequest(m)
  PROVE  IInv'
<1>1. UNCHANGED <<server, inbox, sender, data>>
  BY DEF Tick, SetInterval, Fail, ReceiveRequest
<1>2. /\ client = [up |-> client.up, server |-> client.server, seeds |-> client.seeds,
                   clock |-> client.clock, log |-> client.log]
      /\ client.server \in Server \cup {NoServer} /\ client.seeds \subseteq Server
      /\ client.clock \in Nat
  BY DEF IInv, ClientOK
<1>3. \A m \in net : /\ m.kind = "set" => m.to \in Server /\ m.clock \in Nat
                     /\ m.kind = "request" => m.from \in DOMAIN sender
  BY DEF IInv, NetOK
<1>4. CASE Tick \/ SetInterval
  <2>1. ClientOK'
    BY <1>2, <1>4 DEF Tick, SetInterval, ClientOK
  <2>2. net' = net \cup Notifications(client')
    BY <1>4 DEF Tick, SetInterval
  <2>3. \A m \in Notifications(client') : m.kind = "set" /\ m.to \in Server /\ m.clock \in Nat
    <3>1. /\ client'.server \in Server \cup {NoServer} /\ client'.seeds \subseteq Server
          /\ client'.clock \in Nat
      BY <2>1 DEF ClientOK
    <3> HIDE DEF Notifications
    <3> QED
      BY <3>1, NotificationsOK
  <2>4. NetOK'
    BY <1>1, <1>3, <2>2, <2>3 DEF NetOK
  <2> QED
    BY <1>1, <2>1, <2>4, Undisturbed DEF IInv
<1>5. CASE Fail
  <2>1. ClientOK'
    BY <1>2, <1>5 DEF Fail, ClientOK
  <2>2. net' \subseteq net
    BY <1>5 DEF Fail
  <2> QED
    BY <1>1, <2>1, <2>2, Undisturbed DEF IInv
<1>6. ASSUME NEW r \in net, ReceiveRequest(r) PROVE IInv'
  <2>1. sender[r.from].server \in Server
    <3>1. r.from \in DOMAIN sender /\ sender \in Seq(Sender)
      BY <1>3, <1>6 DEF ReceiveRequest, IInv, SendersOK
    <3> QED
      BY <3>1, SendersAre DEF Sender
  <2>2. ClientOK'
    BY <1>2, <1>6, <2>1 DEF ReceiveRequest, ClientOK
  <2>3. \A m \in net' : m \in net \/ m.kind = "multiple"
    <3>1. net' \subseteq net \cup {MultipleSenders(i) : i \in Keys(client'.log)}
      BY <1>6 DEF ReceiveRequest
    <3>2. \A i : MultipleSenders(i).kind = "multiple"
      BY DEF MultipleSenders
    <3> QED
      BY <3>1, <3>2
  <2>4. NetOK'
    BY <1>1, <1>3, <2>3 DEF NetOK
  <2> QED
    BY <1>1, <2>2, <2>4, Undisturbed DEF IInv
<1> QED
  BY <1>4, <1>5, <1>6

(* The steps of the senders.  One that gives up says so before its server   *)
(* can learn it otherwise.                                                  *)
LEMMA SenderKeeps ==
  ASSUME IInv,
         \/ \E i \in SenderId : Request(i) \/ GiveUp(i) \/ Die(i)
         \/ \E m \in net : ReceiveMultiple(m)
  PROVE  IInv'
<1>1. UNCHANGED <<server, client, data>>
  BY DEF Request, GiveUp, Die, ReceiveMultiple
<1>2. /\ sender \in Seq(Sender) /\ inbox \in [Server -> Seq({"AmISender", "DownedDevice"})]
      /\ \A s \in Server : server[s].sender \in {NoSender} \cup DOMAIN sender
  BY DEF IInv, SendersOK
<1>3. \A s \in Server : server[s].phase = "stopped" => server[s].sender = NoSender
  BY DEF IInv, ServersOK
<1>4. \A m \in net : /\ m.kind = "set" => m.to \in Server /\ m.clock \in Nat
                     /\ m.kind = "request" => m.from \in DOMAIN sender
  BY DEF IInv, NetOK
<1>5. ASSUME NEW i \in SenderId, Request(i) PROVE IInv'
  <2>1. UNCHANGED <<server, inbox, sender, client, data>>
    BY <1>5 DEF Request
  <2>2. \A m \in net' : m \in net \/ (m.kind = "request" /\ m.from = i)
    BY <1>5 DEF Request, HeartbeatRequest
  <2>3. i \in DOMAIN sender
    BY <1>5 DEF Request, On
  <2>4. NetOK'
    <3>1. \A m \in net' : m.kind = "request" => m.from \in DOMAIN sender
      BY <1>4, <2>2, <2>3
    <3>2. \A m \in net' : m.kind = "set" => m.to \in Server /\ m.clock \in Nat
      BY <1>4, <2>2
    <3> QED
      BY <2>1, <3>1, <3>2 DEF NetOK
  <2> QED
    BY <2>1, <2>4, Undisturbed DEF IInv
<1>6. ASSUME NEW i \in SenderId, GiveUp(i) PROVE IInv'
  <2>1. /\ i \in DOMAIN sender /\ sender' = [sender EXCEPT ![i].phase = "quiet"]
        /\ Tell(sender[i].server, "DownedDevice") /\ net' = net
    BY <1>6 DEF GiveUp, On
  <2>2. /\ sender' \in Seq(Sender) /\ DOMAIN sender' = DOMAIN sender
        /\ \A j \in DOMAIN sender : /\ sender'[j].server = sender[j].server
                                    /\ sender'[j].term = sender[j].term
                                    /\ j # i => sender'[j] = sender[j]
    <3>1. "quiet" \in {"on", "quiet", "dead"}
      OBVIOUS
    <3>2. sender \in Seq(Sender) /\ i \in DOMAIN sender /\ sender' = [sender EXCEPT ![i].phase = "quiet"]
      BY <1>2, <2>1
    <3> QED
      BY <3>1, <3>2, SenderChanged
  <2>3. sender[i].server \in Server
    BY <1>2, <2>1, SendersAre DEF Sender
  <2>4. /\ inbox' \in [Server -> Seq({"AmISender", "DownedDevice"})]
        /\ \A s \in Server : s # sender[i].server => inbox'[s] = inbox[s]
        /\ server[sender[i].server].phase # "stopped" =>
             inbox'[sender[i].server] = Append(inbox[sender[i].server], "DownedDevice")
    BY <1>2, <2>1, <2>3 DEF Tell
  <2>5. SendersOK'
    BY <1>1, <1>2, <2>2, <2>4 DEF SendersOK
  <2>6. ChargesAreWatched'
    <3> SUFFICES ASSUME NEW s \in Server
                 PROVE  /\ server[s].sender # NoSender =>
                             /\ sender'[server[s].sender].server = s
                             /\ ~sender'[server[s].sender].term
                             /\ \/ sender'[server[s].sender].phase = "on"
                                \/ \E j \in DOMAIN inbox'[s] : inbox'[s][j] = "DownedDevice"
                        /\ \A j \in DOMAIN sender' :
                             sender'[j].server = s /\ ~sender'[j].term => j = server[s].sender
      BY <1>1 DEF ChargesAreWatched
    <3>1. /\ server[s].sender # NoSender =>
               /\ sender[server[s].sender].server = s
               /\ ~sender[server[s].sender].term
               /\ \/ sender[server[s].sender].phase = "on"
                  \/ \E j \in DOMAIN inbox[s] : inbox[s][j] = "DownedDevice"
          /\ \A j \in DOMAIN sender :
               sender[j].server = s /\ ~sender[j].term => j = server[s].sender
      BY DEF IInv, ChargesAreWatched
    <3>2. CASE s # sender[i].server
      BY <1>2, <2>2, <2>4, <3>1, <3>2
    <3>3. CASE s = sender[i].server
      <4>1. ASSUME server[s].sender # NoSender
            PROVE  \E j \in DOMAIN inbox'[s] : inbox'[s][j] = "DownedDevice"
        <5>1. inbox'[s] = Append(inbox[s], "DownedDevice") /\ inbox[s] \in Seq({"AmISender", "DownedDevice"})
          BY <1>2, <1>3, <2>4, <3>3, <4>1
        <5>2. Len(inbox[s]) + 1 \in DOMAIN inbox'[s] /\ inbox'[s][Len(inbox[s]) + 1] = "DownedDevice"
          BY <5>1
        <5> QED
          BY <5>2
      <4> QED
        BY <1>2, <2>2, <3>1, <4>1
    <3> QED
      BY <3>2, <3>3
  <2>7. NetOK'
    BY <1>4, <2>1, <2>2 DEF NetOK
  <2> QED
    BY <1>1, <2>5, <2>6, <2>7, Undisturbed DEF IInv
<1>7. ASSUME NEW i \in SenderId, Die(i) PROVE IInv'
  <2>1. /\ i \in DOMAIN sender /\ sender[i].term /\ sender' = [sender EXCEPT ![i].phase = "dead"]
        /\ inbox' = inbox /\ net' = net
    BY <1>7 DEF Die
  <2>2. /\ sender' \in Seq(Sender) /\ DOMAIN sender' = DOMAIN sender
        /\ \A j \in DOMAIN sender : /\ sender'[j].server = sender[j].server
                                    /\ sender'[j].term = sender[j].term
                                    /\ j # i => sender'[j] = sender[j]
    <3>1. "dead" \in {"on", "quiet", "dead"}
      OBVIOUS
    <3>2. sender \in Seq(Sender) /\ i \in DOMAIN sender /\ sender' = [sender EXCEPT ![i].phase = "dead"]
      BY <1>2, <2>1
    <3> QED
      BY <3>1, <3>2, SenderChanged
  <2>3. SendersOK'
    BY <1>1, <1>2, <2>1, <2>2 DEF SendersOK
  <2>4. ChargesAreWatched'
    <3> SUFFICES ASSUME NEW s \in Server
                 PROVE  /\ server[s].sender # NoSender =>
                             /\ sender'[server[s].sender].server = s
                             /\ ~sender'[server[s].sender].term
                             /\ \/ sender'[server[s].sender].phase = "on"
                                \/ \E j \in DOMAIN inbox[s] : inbox[s][j] = "DownedDevice"
                        /\ \A j \in DOMAIN sender' :
                             sender'[j].server = s /\ ~sender'[j].term => j = server[s].sender
      BY <1>1, <2>1 DEF ChargesAreWatched
    <3>1. /\ server[s].sender # NoSender =>
               /\ sender[server[s].sender].server = s
               /\ ~sender[server[s].sender].term
               /\ \/ sender[server[s].sender].phase = "on"
                  \/ \E j \in DOMAIN inbox[s] : inbox[s][j] = "DownedDevice"
          /\ \A j \in DOMAIN sender :
               sender[j].server = s /\ ~sender[j].term => j = server[s].sender
      BY DEF IInv, ChargesAreWatched
    <3> QED
      BY <1>2, <2>1, <2>2, <3>1
  <2>5. NetOK'
    BY <1>4, <2>1, <2>2 DEF NetOK
  <2> QED
    BY <1>1, <2>3, <2>4, <2>5, Undisturbed DEF IInv
<1>8. ASSUME NEW m \in net, ReceiveMultiple(m) PROVE IInv'
  <2>1. UNCHANGED sender /\ net' \subseteq net
    BY <1>8 DEF ReceiveMultiple
  <2>2. /\ inbox' \in [Server -> Seq({"AmISender", "DownedDevice"})]
        /\ \A s \in Server : inbox'[s] = inbox[s] \/ inbox'[s] = Append(inbox[s], "AmISender")
    <3>1. UNCHANGED inbox \/ Tell(sender[m.to].server, "AmISender")
      BY <1>8 DEF ReceiveMultiple
    <3>2. ASSUME Tell(sender[m.to].server, "AmISender")
          PROVE  /\ inbox' = [s \in Server |-> inbox'[s]]
                 /\ \A s \in Server : inbox'[s] = inbox[s] \/ inbox'[s] = Append(inbox[s], "AmISender")
      BY <1>2, <3>2 DEF Tell
    <3>3. \A s \in Server : Append(inbox[s], "AmISender") \in Seq({"AmISender", "DownedDevice"})
      BY <1>2
    <3> QED
      BY <1>2, <3>1, <3>2, <3>3
  <2>3. SendersOK'
    BY <1>1, <1>2, <2>1, <2>2 DEF SendersOK
  <2>4. \A s \in Server : (\E j \in DOMAIN inbox[s] : inbox[s][j] = "DownedDevice")
                          => (\E j \in DOMAIN inbox'[s] : inbox'[s][j] = "DownedDevice")
    <3> TAKE s \in Server
    <3> HAVE \E j \in DOMAIN inbox[s] : inbox[s][j] = "DownedDevice"
    <3>1. PICK j \in DOMAIN inbox[s] : inbox[s][j] = "DownedDevice"
      OBVIOUS
    <3>2. inbox[s] \in Seq({"AmISender", "DownedDevice"})
      BY <1>2
    <3>3. /\ j \in DOMAIN Append(inbox[s], "AmISender")
          /\ Append(inbox[s], "AmISender")[j] = "DownedDevice"
      BY <3>1, <3>2
    <3> QED
      BY <2>2, <3>1, <3>3
  <2>5. ChargesAreWatched'
    <3>1. ChargesAreWatched
      BY DEF IInv
    <3> QED
      BY <1>1, <2>1, <2>4, <3>1 DEF ChargesAreWatched
  <2> QED
    BY <1>1, <2>1, <2>3, <2>5, Undisturbed DEF IInv
<1> QED
  BY <1>5, <1>6, <1>7, <1>8

(* Told to stop: all senders of the server are.                             *)
LEMMA Dropped ==
  ASSUME IInv, NEW s \in Server,
         sender' = [i \in DOMAIN sender |->
                      IF i = server[s].sender THEN [sender[i] EXCEPT !.term = TRUE] ELSE sender[i]]
  PROVE  /\ sender' \in Seq(Sender) /\ DOMAIN sender' = DOMAIN sender
         /\ \A i \in DOMAIN sender :
              /\ sender'[i].server = sender[i].server
              /\ sender[i].server = s => sender'[i].term
              /\ sender[i].server # s => sender'[i] = sender[i]
<1>1. /\ sender \in Seq(Sender)
      /\ server[s].sender \in {NoSender} \cup DOMAIN sender
  BY DEF IInv, SendersOK
<1>2. /\ server[s].sender # NoSender => sender[server[s].sender].server = s
      /\ \A j \in DOMAIN sender : sender[j].server = s /\ ~sender[j].term => j = server[s].sender
  BY DEF IInv, ChargesAreWatched
<1>3. NoSender \notin DOMAIN sender
  BY <1>1 DEF NoSender
<1>4. \A i \in DOMAIN sender : sender[i] \in Sender
  BY <1>1, SendersAre
<1>5. \A i \in DOMAIN sender :
        LET x == [sender[i] EXCEPT !.term = TRUE] IN
        x \in Sender /\ x.server = sender[i].server /\ x.term
  BY <1>4 DEF Sender
<1>6. \A i \in DOMAIN sender : sender'[i] \in Sender
  BY <1>4, <1>5
<1>7. DOMAIN sender = 1 .. Len(sender) /\ Len(sender) \in Nat
  BY <1>1
<1>8. sender' = [i \in 1 .. Len(sender) |-> sender'[i]]
  BY <1>7
<1>9. sender' \in Seq(Sender)
  BY <1>6, <1>7, <1>8, SeqDef
<1>10. ASSUME NEW i \in DOMAIN sender
       PROVE  /\ sender'[i].server = sender[i].server
              /\ sender[i].server = s => sender'[i].term
              /\ sender[i].server # s => sender'[i] = sender[i]
  <2>1. CASE i = server[s].sender
    BY <1>2, <1>3, <1>5, <2>1
  <2>2. CASE i # server[s].sender
    BY <1>2, <2>2
  <2> QED
    BY <2>1, <2>2
<1> QED
  BY <1>8, <1>9, <1>10, <1>7

(* A server without a charge has no sender that was not told to stop.       *)
LEMMA DroppedKeeps ==
  ASSUME IInv, NEW s \in Server,
         sender' = [i \in DOMAIN sender |->
                      IF i = server[s].sender THEN [sender[i] EXCEPT !.term = TRUE] ELSE sender[i]],
         \A t \in Server : t # s => server'[t] = server[t] /\ inbox'[t] = inbox[t],
         server'[s].sender = NoSender,
         inbox' \in [Server -> Seq({"AmISender", "DownedDevice"})]
  PROVE  SendersOK' /\ ChargesAreWatched'
<1>1. /\ sender' \in Seq(Sender) /\ DOMAIN sender' = DOMAIN sender
      /\ \A i \in DOMAIN sender :
           /\ sender'[i].server = sender[i].server
           /\ sender[i].server = s => sender'[i].term
           /\ sender[i].server # s => sender'[i] = sender[i]
  BY Dropped
<1>2. \A t \in Server : server[t].sender \in {NoSender} \cup DOMAIN sender
  BY DEF IInv, SendersOK
<1>3. SendersOK'
  BY <1>1, <1>2 DEF SendersOK
<1>4. ChargesAreWatched
  BY DEF IInv
<1>5. ASSUME NEW t \in Server, t # s
      PROVE  /\ server[t].sender # NoSender =>
                  /\ sender'[server[t].sender].server = t
                  /\ ~sender'[server[t].sender].term
                  /\ \/ sender'[server[t].sender].phase = "on"
                     \/ \E j \in DOMAIN inbox[t] : inbox[t][j] = "DownedDevice"
             /\ \A j \in DOMAIN sender' :
                  sender'[j].server = t /\ ~sender'[j].term => j = server[t].sender
  BY <1>1, <1>2, <1>4, <1>5 DEF ChargesAreWatched
<1>6. \A j \in DOMAIN sender' : ~(sender'[j].server = s /\ ~sender'[j].term)
  BY <1>1
<1>7. ChargesAreWatched'
  BY <1>5, <1>6 DEF ChargesAreWatched
<1> QED
  BY <1>3, <1>7

(* What the data of a server becomes.                                       *)
LEMMA DataStep ==
  ASSUME IInv, [Next]_vars
  PROVE  DataOK' /\ \A s \in Server : AtLeast(data'[s], data[s])
<1>1. DataOK /\ \A s \in Server : data[s] \in Entry
  BY DEF IInv, DataOK
<1>2. CASE UNCHANGED data
  BY <1>1, <1>2, AtLeastIsTotalOrder DEF DataOK
<1>3. ASSUME NEW m \in net, ReceiveWithSender(m) \/ ReceiveAsManager(m)
      PROVE  DataOK' /\ \A s \in Server : AtLeast(data'[s], data[s])
  <2>1. m.to \in Server /\ m.clock \in Nat /\ Mutate(m.to, PutEntry(data[m.to], IntervalOf(m.clock)))
    BY <1>3 DEF IInv, NetOK, ReceiveWithSender, ReceiveAsManager
  <2>2. PutEntry(data[m.to], IntervalOf(m.clock)) \in Entry
    BY <1>1, <2>1, EntriesStayEntries
  <2> QED
    BY <1>1, <2>1, <2>2, MutateGrows
<1>4. ASSUME NEW s \in Server, DownedDevice(s)
      PROVE  DataOK' /\ \A t \in Server : AtLeast(data'[t], data[t])
  <2>1. Mutate(s, RemoveEntry(data[s]))
    BY <1>4 DEF DownedDevice
  <2>2. RemoveEntry(data[s]) \in Entry
    <3>1. 0 \in Nat
      OBVIOUS
    <3> QED
      BY <1>1, <3>1, EntriesStayEntries
  <2> QED
    BY <1>1, <2>1, <2>2, MutateGrows
<1>5. ASSUME NEW s \in Server, NEW t \in Server, Disperse(s, t)
      PROVE  DataOK' /\ \A u \in Server : AtLeast(data'[u], data[u])
  <2>1. Mutate(t, data[s])
    BY <1>5 DEF Disperse
  <2> QED
    BY <1>1, <2>1, MutateGrows
<1>6. CASE Next
  <2>1. UNCHANGED data
        \/ (\E m \in net : ReceiveWithSender(m) \/ ReceiveAsManager(m))
        \/ (\E s \in Server : DownedDevice(s))
        \/ (\E s, t \in Server : Disperse(s, t))
    BY <1>6, Zenon DEF Next, Tick, SetInterval, Fail, Receive, ReceiveSet, ReceiveTooEarly, ReceiveAsOther,
       ReceiveRequest, ReceiveMultiple, Lose, Request, GiveUp, Die, Enter, Update, AmISender, Stop
  <2> QED
    BY <1>2, <1>3, <1>4, <1>5, <2>1
<1> QED
  BY <1>2, <1>6 DEF vars

(* The steps of the servers and of the network.                            *)
LEMMA ServerKeeps ==
  ASSUME IInv, [Next]_vars,
         \/ \E m \in net : ReceiveSet(m) \/ Lose(m)
         \/ \E s \in Server :
              \/ \E view \in SUBSET Server : Enter(s, view)
              \/ \E t \in Server : Disperse(s, t)
              \/ Update(s) \/ AmISender(s) \/ DownedDevice(s) \/ Stop(s)
  PROVE  IInv'
<1>0. DataOK'
  BY DataStep
<1>1. /\ server \in [Server -> [phase : {"waiting", "in", "stopped"}, ring : SUBSET Server, sender : Nat]]
      /\ \A s \in Server : /\ server[s].phase = "in" => s \in server[s].ring
                           /\ server[s].phase = "stopped" => server[s].sender = NoSender
  BY DEF IInv, ServersOK
<1>2. /\ sender \in Seq(Sender) /\ inbox \in [Server -> Seq({"AmISender", "DownedDevice"})]
      /\ \A s \in Server : server[s].sender \in {NoSender} \cup DOMAIN sender
  BY DEF IInv, SendersOK
<1>3. \A m \in net : /\ m.kind = "set" => m.to \in Server /\ m.clock \in Nat
                     /\ m.kind = "request" => m.from \in DOMAIN sender
  BY DEF IInv, NetOK
<1>4. \A s \in Server :
        /\ server[s].sender # NoSender =>
             /\ sender[server[s].sender].server = s
             /\ ~sender[server[s].sender].term
             /\ \/ sender[server[s].sender].phase = "on"
                \/ \E j \in DOMAIN inbox[s] : inbox[s][j] = "DownedDevice"
        /\ \A j \in DOMAIN sender :
             sender[j].server = s /\ ~sender[j].term => j = server[s].sender
  BY DEF IInv, ChargesAreWatched
<1>5. ASSUME NEW m \in net, ReceiveTooEarly(m) \/ ReceiveWithSender(m) \/ Lose(m) PROVE IInv'
  <2>1. UNCHANGED <<server, inbox, sender, client>> /\ net' \subseteq net
    BY <1>5 DEF ReceiveTooEarly, ReceiveWithSender, Lose
  <2> QED
    BY <1>0, <2>1, Undisturbed DEF IInv
<1>6. ASSUME NEW m \in net, ReceiveAsOther(m) PROVE IInv'
  <2>1. UNCHANGED <<server, inbox, sender, client>>
    BY <1>6 DEF ReceiveAsOther
  <2>2. m.to \in Server /\ m.clock \in Nat /\ server[m.to].phase = "in"
    BY <1>3, <1>6 DEF ReceiveAsOther
  <2>3. ManagerIn(server[m.to].ring) \in Server
    <3>1. server[m.to].ring \in SUBSET Server /\ server[m.to].ring # {}
      BY <1>1, <2>2
    <3> QED
      BY <3>1, ManagerInView
  <2>4. \A n \in net' : n \in net
                        \/ (n.kind = "set" /\ n.to = ManagerIn(server[m.to].ring) /\ n.clock = m.clock)
    BY <1>6 DEF ReceiveAsOther, SetHeartbeatInterval
  <2>5. NetOK'
    <3>1. \A n \in net' : n.kind = "set" => n.to \in Server /\ n.clock \in Nat
      BY <1>3, <2>2, <2>3, <2>4
    <3>2. \A n \in net' : n.kind = "request" => n.from \in DOMAIN sender
      BY <1>3, <2>4
    <3> QED
      BY <2>1, <3>1, <3>2 DEF NetOK
  <2> QED
    BY <1>0, <2>1, <2>5, Undisturbed DEF IInv
<1>7. ASSUME NEW m \in net, ReceiveAsManager(m) PROVE IInv'
  <2> DEFINE new == [server |-> m.to, phase |-> "on", term |-> FALSE]
  <2>1. /\ m.to \in Server /\ server[m.to].phase = "in" /\ server[m.to].sender = NoSender
        /\ sender' = Append(sender, new)
        /\ server' = [server EXCEPT ![m.to].sender = Len(sender')]
        /\ UNCHANGED <<inbox, client>> /\ net' \subseteq net
    BY <1>3, <1>7 DEF ReceiveAsManager
  <2>2. new \in Sender
    BY <2>1 DEF Sender
  <2> HIDE DEF new
  <2>3. /\ sender' \in Seq(Sender) /\ Len(sender') = Len(sender) + 1
        /\ Len(sender) \in Nat /\ DOMAIN sender = 1 .. Len(sender)
        /\ DOMAIN sender' = 1 .. Len(sender) + 1
        /\ sender'[Len(sender) + 1] = new
        /\ \A j \in DOMAIN sender : sender'[j] = sender[j]
    BY <1>2, <2>1, <2>2
  <2>4. /\ server' \in [Server -> [phase : {"waiting", "in", "stopped"}, ring : SUBSET Server, sender : Nat]]
        /\ \A s \in Server : /\ server'[s].phase = server[s].phase /\ server'[s].ring = server[s].ring
                             /\ s # m.to => server'[s] = server[s]
        /\ server'[m.to].sender = Len(sender) + 1
    <3>1. \A s \in Server : server'[s] = IF s = m.to THEN [server[s] EXCEPT !.sender = Len(sender')] ELSE server[s]
      BY <1>1, <2>1
    <3>2. server' = [s \in Server |-> server'[s]]
      BY <1>1, <2>1
    <3>3. \A s \in Server : LET x == [server[s] EXCEPT !.sender = Len(sender')] IN
            /\ x \in [phase : {"waiting", "in", "stopped"}, ring : SUBSET Server, sender : Nat]
            /\ x.phase = server[s].phase /\ x.ring = server[s].ring /\ x.sender = Len(sender')
      BY <1>1, <2>3
    <3>4. \A s \in Server :
            /\ server'[s] \in [phase : {"waiting", "in", "stopped"}, ring : SUBSET Server, sender : Nat]
            /\ server'[s].phase = server[s].phase /\ server'[s].ring = server[s].ring
            /\ s # m.to => server'[s] = server[s]
      <4> TAKE s \in Server
      <4>1. CASE s = m.to
        BY <3>1, <3>3, <4>1
      <4>2. CASE s # m.to
        <5>1. server'[s] = server[s]
          BY <3>1, <4>2
        <5> QED
          BY <1>1, <5>1
      <4> QED
        BY <4>1, <4>2
    <3>5. server'[m.to].sender = Len(sender) + 1
      <4>1. server'[m.to] = [server[m.to] EXCEPT !.sender = Len(sender')]
        BY <2>1, <3>1
      <4>2. [server[m.to] EXCEPT !.sender = Len(sender')].sender = Len(sender')
        BY <2>1, <3>3
      <4> QED
        BY <2>3, <4>1, <4>2
    <3> QED
      BY <3>2, <3>4, <3>5
  <2>5. ServersOK'
    <3>1. \A s \in Server : server'[s].phase = "stopped" => s # m.to
      BY <2>1, <2>4
    <3> QED
      BY <1>1, <2>4, <3>1 DEF ServersOK
  <2>6. SendersOK'
    BY <1>2, <2>1, <2>3, <2>4 DEF SendersOK
  <2>7. NetOK'
    BY <1>3, <2>1, <2>3 DEF NetOK
  <2>8. ChargesAreWatched'
    <3>1. new.server = m.to /\ new.phase = "on" /\ ~new.term
      BY DEF new
    <3>2. ASSUME NEW s \in Server, s # m.to
          PROVE  /\ server[s].sender # NoSender =>
                      /\ sender'[server[s].sender].server = s
                      /\ ~sender'[server[s].sender].term
                      /\ \/ sender'[server[s].sender].phase = "on"
                         \/ \E j \in DOMAIN inbox[s] : inbox[s][j] = "DownedDevice"
                 /\ \A j \in DOMAIN sender' :
                      sender'[j].server = s /\ ~sender'[j].term => j = server[s].sender
      <4>1. \A j \in DOMAIN sender' : j \in DOMAIN sender \/ j = Len(sender) + 1
        BY <2>3
      <4> QED
        BY <1>2, <1>4, <2>3, <3>1, <3>2, <4>1
    <3>3. \A j \in DOMAIN sender' :
            sender'[j].server = m.to /\ ~sender'[j].term => j = Len(sender) + 1
      <4>1. \A j \in DOMAIN sender' : j \in DOMAIN sender \/ j = Len(sender) + 1
        BY <2>3
      <4>2. NoSender \notin DOMAIN sender
        BY <2>3 DEF NoSender
      <4>3. \A j \in DOMAIN sender : ~(sender[j].server = m.to /\ ~sender[j].term)
        BY <1>4, <2>1, <4>2
      <4> QED
        BY <2>3, <4>1, <4>3
    <3>4. /\ sender'[server'[m.to].sender].server = m.to
          /\ ~sender'[server'[m.to].sender].term
          /\ sender'[server'[m.to].sender].phase = "on"
          /\ \A j \in DOMAIN sender' :
               sender'[j].server = m.to /\ ~sender'[j].term => j = server'[m.to].sender
      BY <2>3, <2>4, <3>1, <3>3
    <3>5. \A s \in Server : s # m.to => server'[s].sender = server[s].sender
      BY <2>4
    <3> SUFFICES ASSUME NEW s \in Server
                 PROVE  /\ server'[s].sender # NoSender =>
                             /\ sender'[server'[s].sender].server = s
                             /\ ~sender'[server'[s].sender].term
                             /\ \/ sender'[server'[s].sender].phase = "on"
                                \/ \E j \in DOMAIN inbox'[s] : inbox'[s][j] = "DownedDevice"
                        /\ \A j \in DOMAIN sender' :
                             sender'[j].server = s /\ ~sender'[j].term => j = server'[s].sender
      BY DEF ChargesAreWatched
    <3>6. CASE s = m.to
      BY <3>4, <3>6, Zenon
    <3>7. CASE s # m.to
      <4>1. server'[s].sender = server[s].sender /\ inbox'[s] = inbox[s]
        BY <2>1, <3>5, <3>7
      <4> QED
        BY <3>2, <3>7, <4>1, Zenon
    <3> QED
      BY <3>6, <3>7
  <2> QED
    BY <1>0, <2>1, <2>5, <2>6, <2>7, <2>8, Undisturbed DEF IInv
<1>8. ASSUME NEW s \in Server, NEW view \in SUBSET Server, Enter(s, view) \/ Update(s) PROVE IInv'
  <2>1. UNCHANGED <<inbox, sender, client, net>>
    BY <1>8 DEF Enter, Update
  <2>2. PICK ring \in SUBSET Server :
          /\ s \in ring /\ server[s].phase # "stopped"
          /\ server' = [server EXCEPT ![s].phase = "in", ![s].ring = ring]
    <3>1. CASE Enter(s, view)
      BY <3>1 DEF Enter
    <3>2. CASE Update(s)
      <4>1. s \in Running /\ Running \in SUBSET Server
        BY <3>2 DEF Update, Running
      <4>2. server' = [server EXCEPT ![s].phase = "in", ![s].ring = Running]
        <5>1. server[s] \in [phase : {"waiting", "in", "stopped"}, ring : SUBSET Server, sender : Nat]
          BY <1>1
        <5>2. [server[s] EXCEPT !.ring = Running] = [server[s] EXCEPT !.phase = "in", !.ring = Running]
          BY <3>2, <5>1 DEF Update
        <5> QED
          BY <3>2, <5>2 DEF Update
      <4> QED
        BY <3>2, <4>1, <4>2 DEF Update
    <3> QED
      BY <1>8, <3>1, <3>2
  <2>3. /\ server' \in [Server -> [phase : {"waiting", "in", "stopped"}, ring : SUBSET Server, sender : Nat]]
        /\ \A t \in Server : t # s => server'[t] = server[t]
        /\ server'[s].phase = "in" /\ server'[s].ring = ring /\ server'[s].sender = server[s].sender
    <3> DEFINE entry == [server[s] EXCEPT !.phase = "in", !.ring = ring]
    <3>1. server[s] \in [phase : {"waiting", "in", "stopped"}, ring : SUBSET Server, sender : Nat]
      BY <1>1
    <3>2. /\ entry \in [phase : {"waiting", "in", "stopped"}, ring : SUBSET Server, sender : Nat]
          /\ entry.phase = "in" /\ entry.ring = ring /\ entry.sender = server[s].sender
      BY <3>1
    <3>3. server' = [server EXCEPT ![s] = entry]
      BY <2>2
    <3> HIDE DEF entry
    <3>4. server' \in [Server -> [phase : {"waiting", "in", "stopped"}, ring : SUBSET Server, sender : Nat]]
      BY <1>1, <3>2, <3>3
    <3>5. server'[s] = entry /\ \A t \in Server : t # s => server'[t] = server[t]
      BY <1>1, <3>3
    <3> QED
      BY <3>2, <3>4, <3>5
  <2>4. ServersOK'
    BY <1>1, <2>2, <2>3 DEF ServersOK
  <2>5. \A t \in Server : server'[t].sender = server[t].sender
    BY <2>3
  <2>6. SendersOK'
    BY <1>2, <2>1, <2>5 DEF SendersOK
  <2>7. ChargesAreWatched'
    BY <1>4, <2>1, <2>5 DEF ChargesAreWatched
  <2> QED
    BY <1>0, <2>1, <2>4, <2>6, <2>7, Undisturbed DEF IInv
<1>9. ASSUME NEW s \in Server, AmISender(s) \/ DownedDevice(s) PROVE IInv'
  <2>1. PICK x \in {"AmISender", "DownedDevice"} :
          /\ Takes(s, x) /\ UNCHANGED <<client, net>>
          /\ RemoveDevice(s) \/ (x = "AmISender" /\ UNCHANGED <<server, sender>>)
    BY <1>9 DEF AmISender, DownedDevice
  <2>2. /\ inbox' \in [Server -> Seq({"AmISender", "DownedDevice"})]
        /\ inbox[s] \in Seq({"AmISender", "DownedDevice"}) /\ inbox[s] # <<>> /\ Head(inbox[s]) = x
        /\ inbox'[s] = Tail(inbox[s]) /\ \A t \in Server : t # s => inbox'[t] = inbox[t]
    <3>1. inbox[s] \in Seq({"AmISender", "DownedDevice"}) /\ inbox[s] # <<>> /\ Head(inbox[s]) = x
      BY <1>2, <2>1 DEF Takes
    <3>2. Tail(inbox[s]) \in Seq({"AmISender", "DownedDevice"})
      BY <3>1
    <3> QED
      BY <1>2, <2>1, <3>1, <3>2 DEF Takes
  <2>3. CASE RemoveDevice(s)
    <3>1. /\ server' \in [Server -> [phase : {"waiting", "in", "stopped"}, ring : SUBSET Server, sender : Nat]]
          /\ \A t \in Server : t # s => server'[t] = server[t]
          /\ server'[s].phase = server[s].phase /\ server'[s].ring = server[s].ring
          /\ server'[s].sender = NoSender
      BY <1>1, <2>3 DEF RemoveDevice, NoSender
    <3>2. ServersOK'
      BY <1>1, <3>1 DEF ServersOK
    <3>3. sender' = [i \in DOMAIN sender |->
                       IF i = server[s].sender THEN [sender[i] EXCEPT !.term = TRUE] ELSE sender[i]]
      BY <2>3 DEF RemoveDevice
    <3>4. SendersOK' /\ ChargesAreWatched'
      BY <2>2, <3>1, <3>3, DroppedKeeps
    <3>5. NetOK'
      BY <1>3, <2>1, <3>3, Dropped DEF NetOK
    <3> QED
      BY <1>0, <2>1, <3>2, <3>4, <3>5, Undisturbed DEF IInv
  <2>4. CASE x = "AmISender" /\ UNCHANGED <<server, sender>>
    <3>1. \A t \in Server : (\E j \in DOMAIN inbox[t] : inbox[t][j] = "DownedDevice")
                            => (\E j \in DOMAIN inbox'[t] : inbox'[t][j] = "DownedDevice")
      <4> TAKE t \in Server
      <4> HAVE \E j \in DOMAIN inbox[t] : inbox[t][j] = "DownedDevice"
      <4>1. CASE t # s
        BY <2>2, <4>1
      <4>2. CASE t = s
        <5>1. PICK j \in DOMAIN inbox[s] : inbox[s][j] = "DownedDevice"
          BY <4>2
        <5>2. j \in 1 .. Len(inbox[s]) /\ Len(inbox[s]) \in Nat /\ inbox[s][1] = "AmISender"
          BY <2>2, <2>4, <5>1
        <5>3. j # 1
          BY <5>1, <5>2
        <5>4. j - 1 \in 1 .. Len(inbox[s]) - 1
          BY <5>2, <5>3
        <5>5. j - 1 \in DOMAIN Tail(inbox[s]) /\ Tail(inbox[s])[j - 1] = inbox[s][j]
          BY <2>2, <5>2, <5>4
        <5> QED
          BY <2>2, <4>2, <5>1, <5>5
      <4> QED
        BY <4>1, <4>2
    <3>2. ChargesAreWatched'
      BY <1>4, <2>4, <3>1 DEF ChargesAreWatched
    <3>3. SendersOK'
      BY <1>2, <2>2, <2>4 DEF SendersOK
    <3> QED
      BY <1>0, <2>1, <2>4, <3>2, <3>3, Undisturbed DEF IInv
  <2> QED
    BY <2>1, <2>3, <2>4
<1>10. ASSUME NEW s \in Server, Stop(s) PROVE IInv'
  <2>1. /\ server' = [server EXCEPT ![s] = [Waiting EXCEPT !.phase = "stopped"]]
        /\ inbox' = [inbox EXCEPT ![s] = <<>>] /\ UNCHANGED <<client, net>>
        /\ sender' = [i \in DOMAIN sender |->
                        IF i = server[s].sender THEN [sender[i] EXCEPT !.term = TRUE] ELSE sender[i]]
    BY <1>10 DEF Stop
  <2>2. /\ server' \in [Server -> [phase : {"waiting", "in", "stopped"}, ring : SUBSET Server, sender : Nat]]
        /\ \A t \in Server : t # s => server'[t] = server[t]
        /\ server'[s].phase = "stopped" /\ server'[s].sender = NoSender
    BY <1>1, <2>1 DEF Waiting, NoSender
  <2>3. ServersOK'
    BY <1>1, <2>2 DEF ServersOK
  <2>4. /\ inbox' \in [Server -> Seq({"AmISender", "DownedDevice"})]
        /\ \A t \in Server : t # s => inbox'[t] = inbox[t]
    BY <1>2, <2>1
  <2>5. SendersOK' /\ ChargesAreWatched'
    BY <2>1, <2>2, <2>4, DroppedKeeps
  <2>6. NetOK'
    BY <1>3, <2>1, Dropped DEF NetOK
  <2> QED
    BY <1>0, <2>1, <2>3, <2>5, <2>6, Undisturbed DEF IInv
<1>11. ASSUME NEW s \in Server, NEW t \in Server, Disperse(s, t) PROVE IInv'
  <2>1. UNCHANGED <<server, inbox, sender, client, net>>
    BY <1>11 DEF Disperse
  <2> QED
    BY <1>0, <2>1, Undisturbed DEF IInv
<1> QED
  BY <1>5, <1>6, <1>7, <1>8, <1>9, <1>10, <1>11 DEF ReceiveSet

LEMMA NextKeeps == IInv /\ [Next]_vars => IInv'
<1> SUFFICES ASSUME IInv, [Next]_vars PROVE IInv'
  OBVIOUS
<1>1. CASE UNCHANGED vars
  BY <1>1, Undisturbed DEF vars, IInv
<1>2. CASE Next
  BY <1>2, DeviceKeeps, SenderKeeps, ServerKeeps DEF Next, Receive
<1> QED
  BY <1>1, <1>2

LEMMA Always == Spec => []IInv
BY InitIInv, NextKeeps, PTL DEF Spec

(* A server's charge is watched: the sender it holds was not told to stop   *)
(* and requests heartbeats, or its verdict is in the mailbox; no other      *)
(* sender of the server is left running (server.rs:58-64, 190-204,          *)
(* heartbeat_request_sender.rs:85-108).                                     *)
THEOREM ChargesWatched == Spec => []ChargesAreWatched
<1>1. IInv => ChargesAreWatched
  BY DEF IInv
<1> QED
  BY <1>1, Always, PTL

(* No step of anybody takes what a server knows of the device back: what a  *)
(* mutator makes and what another server sends is joined, and the join is   *)
(* the greater of the two (devices_state.rs:24-68, 107-111).                *)
THEOREM DataNeverGoesBack == Spec => DataGrows
<1>1. IInv /\ [Next]_vars => [\A s \in Server : AtLeast(data'[s], data[s])]_vars
  BY DataStep
<1> QED
  BY <1>1, Always, PTL DEF Spec, DataGrows
-----------------------------------------------------------------------------
(* The log of the device, frequency_buffer.rs: counters that are kept up to *)
(* date and never recounted.                                                *)
Buffer == Seq(SenderId)

TurnsIn(b)  == {j \in 2 .. Len(b) : b[j] # b[j - 1]}
Places(b, i) == {j \in DOMAIN b : b[j] = i}

LogOK(log, capacity) ==
  /\ log = [buffer |-> log.buffer, frequencies |-> log.frequencies, changes |-> log.changes]
  /\ log.buffer \in Buffer /\ Len(log.buffer) <= capacity
  /\ log.frequencies \in [SenderId -> Nat]
  /\ log.changes = Cardinality(TurnsIn(log.buffer))
  /\ \A i \in SenderId : log.frequencies[i] = Cardinality(Places(log.buffer, i))

(* A set of places has as many elements as the same places one further on.  *)
LEMMA ShiftedCount ==
  ASSUME NEW n \in Nat, NEW S \in SUBSET (1 .. n), NEW T, T = {k + 1 : k \in S}
  PROVE  /\ IsFiniteSet(S) /\ IsFiniteSet(T) /\ 1 \notin T
         /\ Cardinality(T) = Cardinality(S) /\ Cardinality(S) \in Nat
<1> DEFINE f == [k \in S |-> k + 1]
<1>1. IsFiniteSet(S) /\ Cardinality(S) \in Nat
  <2>1. IsFiniteSet(1 .. n)
    BY FS_Interval
  <2> QED
    BY <2>1, FS_Subset, FS_CardinalityType
<1>2. \A k \in S : k \in Nat /\ k >= 1
  OBVIOUS
<1>3. f \in Bijection(S, T)
  <2>1. f \in [S -> T] /\ \A k \in S : f[k] = k + 1
    OBVIOUS
  <2>2. \A j, k \in S : f[j] = f[k] => j = k
    BY <1>2, <2>1
  <2>3. \A t \in T : \E k \in S : f[k] = t
    BY <2>1
  <2> QED
    BY <2>1, <2>2, <2>3 DEF Bijection, Injection, Surjection, IsInjective
<1> QED
  BY <1>1, <1>2, <1>3, FS_Bijection DEF ExistsBijection

LEMMA CountsAreFinite ==
  ASSUME NEW b \in Buffer, NEW i
  PROVE  /\ IsFiniteSet(TurnsIn(b)) /\ Cardinality(TurnsIn(b)) \in Nat
         /\ IsFiniteSet(Places(b, i)) /\ Cardinality(Places(b, i)) \in Nat
         /\ DOMAIN b = 1 .. Len(b) /\ Len(b) \in Nat
<1>1. DOMAIN b = 1 .. Len(b) /\ Len(b) \in Nat
  BY LenProperties DEF Buffer
<1>2. TurnsIn(b) \subseteq 1 .. Len(b) /\ Places(b, i) \subseteq 1 .. Len(b)
  BY <1>1 DEF TurnsIn, Places
<1>3. IsFiniteSet(1 .. Len(b))
  BY <1>1, FS_Interval
<1> QED
  BY <1>1, <1>2, <1>3, FS_Subset, FS_CardinalityType

(* pop at the back, frequency_buffer.rs.                                    *)
LEMMA PoppedOK ==
  ASSUME NEW log, NEW n \in Nat, LogOK(log, n), Len(log.buffer) > 0
  PROVE  LogOK(Popped(log), n) /\ Len(Popped(log).buffer) = Len(log.buffer) - 1
<1> DEFINE b == log.buffer
           last == Len(b)
           c == SubSeq(b, 1, last - 1)
           x == b[last]
           turned == last > 1 /\ b[last - 1] # x
<1>1. /\ b \in Buffer /\ last \in Nat /\ last > 0 /\ last <= n /\ DOMAIN b = 1 .. last
      /\ x \in SenderId
  BY CountsAreFinite DEF LogOK, Buffer
<1>2. /\ c \in Buffer /\ Len(c) = last - 1 /\ DOMAIN c = 1 .. last - 1
      /\ \A j \in 1 .. last - 1 : c[j] = b[j]
  BY <1>1 DEF Buffer
<1>3. TurnsIn(c) = TurnsIn(b) \ {last} /\ (last \in TurnsIn(b) <=> turned)
  BY <1>1, <1>2 DEF TurnsIn
<1>4. \A i : Places(c, i) = Places(b, i) \ {last}
  BY <1>1, <1>2 DEF Places
<1>5. \A i : last \in Places(b, i) <=> x = i
  BY <1>1 DEF Places
<1>6. Popped(log) = [buffer |-> c, frequencies |-> [log.frequencies EXCEPT ![x] = @ - 1],
                     changes |-> IF turned THEN log.changes - 1 ELSE log.changes]
  BY DEF Popped
<1>7. /\ log.changes = Cardinality(TurnsIn(b)) /\ log.frequencies \in [SenderId -> Nat]
      /\ \A i \in SenderId : log.frequencies[i] = Cardinality(Places(b, i))
  BY DEF LogOK
<1> HIDE DEF b, last, c, x, turned
<1>8. Cardinality(TurnsIn(c)) = IF turned THEN log.changes - 1 ELSE log.changes
  <2>1. IsFiniteSet(TurnsIn(b))
    BY <1>1, CountsAreFinite
  <2>2. Cardinality(TurnsIn(b) \ {last})
          = IF last \in TurnsIn(b) THEN Cardinality(TurnsIn(b)) - 1 ELSE Cardinality(TurnsIn(b))
    BY <2>1, FS_RemoveElement
  <2> QED
    BY <1>3, <1>7, <2>2
<1>9. \A i \in SenderId : Cardinality(Places(c, i)) = IF i = x THEN log.frequencies[i] - 1 ELSE log.frequencies[i]
  BY <1>1, <1>4, <1>5, <1>7, CountsAreFinite, FS_RemoveElement
<1> DEFINE freq == [log.frequencies EXCEPT ![x] = @ - 1]
<1>10. /\ \A i \in SenderId : freq[i] = Cardinality(Places(c, i)) /\ freq[i] \in Nat
       /\ freq = [i \in SenderId |-> freq[i]]
  <2>1. \A i \in SenderId : freq[i] = IF i = x THEN log.frequencies[i] - 1 ELSE log.frequencies[i]
    BY <1>1, <1>7
  <2>2. freq = [i \in SenderId |-> freq[i]]
    BY <1>7
  <2> HIDE DEF freq
  <2>3. \A i \in SenderId : Cardinality(Places(c, i)) \in Nat
    BY <1>2, CountsAreFinite
  <2> QED
    BY <1>9, <2>1, <2>2, <2>3
<1> HIDE DEF freq
<1>11. freq \in [SenderId -> Nat]
  BY <1>10
<1> QED
  BY <1>1, <1>2, <1>6, <1>8, <1>10, <1>11 DEF LogOK, freq, b, last

(* push at the front of a log that has room.                                *)
LEMMA PrependedOK ==
  ASSUME NEW log, NEW n \in Nat, LogOK(log, n), Len(log.buffer) < n, NEW x \in SenderId
  PROVE  LogOK([buffer |-> <<x>> \o log.buffer,
                frequencies |-> [log.frequencies EXCEPT ![x] = @ + 1],
                changes |-> IF log.buffer # <<>> /\ log.buffer[1] # x
                            THEN log.changes + 1 ELSE log.changes], n)
<1> DEFINE b == log.buffer
           c == <<x>> \o b
           turned == b # <<>> /\ b[1] # x
           changes == IF turned THEN log.changes + 1 ELSE log.changes
           freq == [log.frequencies EXCEPT ![x] = @ + 1]
<1>1. /\ b \in Buffer /\ Len(b) \in Nat /\ Len(b) < n /\ DOMAIN b = 1 .. Len(b)
      /\ b # <<>> <=> Len(b) > 0
  BY CountsAreFinite DEF LogOK, Buffer
<1>2. /\ c \in Buffer /\ Len(c) = Len(b) + 1 /\ DOMAIN c = 1 .. Len(b) + 1
      /\ c[1] = x /\ \A j \in 1 .. Len(b) : c[j + 1] = b[j]
  BY <1>1 DEF Buffer
<1>3. /\ log.changes = Cardinality(TurnsIn(b)) /\ log.frequencies \in [SenderId -> Nat]
      /\ \A i \in SenderId : log.frequencies[i] = Cardinality(Places(b, i))
  BY DEF LogOK
<1>4. \A j \in 2 .. Len(b) + 1 : c[j] = b[j - 1] /\ j - 1 \in 1 .. Len(b)
  <2> TAKE j \in 2 .. Len(b) + 1
  <2>1. j - 1 \in 1 .. Len(b) /\ (j - 1) + 1 = j
    BY <1>1
  <2> QED
    BY <1>2, <2>1
<1>5. turned <=> Len(b) > 0 /\ b[1] # x
  BY <1>1
<1> HIDE DEF b, c, turned
<1>6. TurnsIn(c) = {k + 1 : k \in TurnsIn(b)} \cup (IF turned THEN {2} ELSE {})
  <2>1. \A j \in 3 .. Len(b) + 1 : j \in TurnsIn(c) <=> j - 1 \in TurnsIn(b)
    <3> TAKE j \in 3 .. Len(b) + 1
    <3>1. j - 1 \in 2 .. Len(b) /\ j \in 2 .. Len(c) /\ c[j] = b[j - 1] /\ c[j - 1] = b[(j - 1) - 1]
      BY <1>1, <1>2, <1>4
    <3> QED
      BY <3>1 DEF TurnsIn
  <2>2. 2 \in TurnsIn(c) <=> turned
    <3>1. Len(b) > 0 => c[2] = b[1]
      BY <1>1, <1>4
    <3> QED
      BY <1>1, <1>2, <1>5, <3>1 DEF TurnsIn
  <2>3. TurnsIn(c) \subseteq 2 .. Len(b) + 1 /\ TurnsIn(b) \subseteq 2 .. Len(b)
    BY <1>2 DEF TurnsIn
  <2>4. \A j \in TurnsIn(c) : j = 2 \/ j - 1 \in TurnsIn(b)
    BY <1>1, <2>1, <2>3
  <2>5. \A k \in TurnsIn(b) : k + 1 \in TurnsIn(c) /\ k + 1 # 2
    <3> TAKE k \in TurnsIn(b)
    <3>1. k \in 2 .. Len(b) /\ k + 1 \in 3 .. Len(b) + 1 /\ (k + 1) - 1 = k
      BY <1>1, <2>3
    <3> QED
      BY <2>1, <3>1
  <2>6. \A j \in TurnsIn(c) : j = 2 \/ j \in {k + 1 : k \in TurnsIn(b)}
    <3> TAKE j \in TurnsIn(c)
    <3>1. j \in Int /\ j = (j - 1) + 1
      BY <2>3
    <3> QED
      BY <2>4, <3>1
  <2> QED
    BY <2>2, <2>5, <2>6
<1>7. Cardinality(TurnsIn(c)) = changes
  <2>1. TurnsIn(b) \in SUBSET (1 .. Len(b)) /\ 1 \notin TurnsIn(b)
    BY <1>1 DEF TurnsIn
  <2> DEFINE T == {k + 1 : k \in TurnsIn(b)}
  <2>2. IsFiniteSet(T) /\ Cardinality(T) = Cardinality(TurnsIn(b)) /\ Cardinality(T) \in Nat
    BY <1>1, <2>1, ShiftedCount
  <2>3. 2 \notin T
    BY <2>1
  <2> HIDE DEF T
  <2>4. TurnsIn(c) = IF turned THEN T \cup {2} ELSE T
    BY <1>6 DEF T
  <2>5. Cardinality(T \cup {2}) = Cardinality(T) + 1
    BY <2>2, <2>3, FS_AddElement
  <2> QED
    BY <1>3, <2>2, <2>4, <2>5 DEF changes
<1>8. ASSUME NEW i \in SenderId
      PROVE  Cardinality(Places(c, i)) = IF i = x THEN log.frequencies[i] + 1 ELSE log.frequencies[i]
  <2> DEFINE T == {k + 1 : k \in Places(b, i)}
  <2>1. Places(b, i) \in SUBSET (1 .. Len(b))
    BY <1>1 DEF Places
  <2>2. IsFiniteSet(T) /\ Cardinality(T) = log.frequencies[i] /\ Cardinality(T) \in Nat /\ 1 \notin T
    BY <1>1, <1>3, <2>1, ShiftedCount
  <2>3. Places(c, i) = IF i = x THEN T \cup {1} ELSE T
    <3>1. \A j \in 2 .. Len(b) + 1 : j \in Places(c, i) <=> j - 1 \in Places(b, i)
      BY <1>1, <1>2, <1>4 DEF Places
    <3>2. 1 \in Places(c, i) <=> i = x
      BY <1>1, <1>2 DEF Places
    <3>3. Places(c, i) \subseteq 1 .. Len(b) + 1
      BY <1>2 DEF Places
    <3>4. \A j \in Places(c, i) : j = 1 \/ j \in T
      <4> TAKE j \in Places(c, i)
      <4>1. j = 1 \/ (j \in 2 .. Len(b) + 1 /\ j = (j - 1) + 1)
        BY <1>1, <3>3
      <4> QED
        BY <3>1, <4>1
    <3>5. \A k \in Places(b, i) : k + 1 \in Places(c, i)
      <4> TAKE k \in Places(b, i)
      <4>1. k + 1 \in 2 .. Len(b) + 1 /\ (k + 1) - 1 = k
        BY <1>1, <2>1
      <4> QED
        BY <3>1, <4>1
    <3> QED
      BY <2>2, <3>2, <3>4, <3>5
  <2> HIDE DEF T
  <2> QED
    BY <2>2, <2>3, FS_AddElement
<1>9. \A i \in SenderId : freq[i] = Cardinality(Places(c, i))
  BY <1>3, <1>8
<1>10. freq \in [SenderId -> Nat]
  BY <1>3
<1> HIDE DEF changes, freq
<1> DEFINE pushed == [buffer |-> c, frequencies |-> freq, changes |-> changes]
<1>11. pushed.buffer = c /\ pushed.frequencies = freq /\ pushed.changes = changes
  OBVIOUS
<1>12. pushed = [buffer |-> pushed.buffer, frequencies |-> pushed.frequencies, changes |-> pushed.changes]
  OBVIOUS
<1> HIDE DEF pushed
<1>13. LogOK(pushed, n)
  BY <1>1, <1>2, <1>7, <1>9, <1>10, <1>11, <1>12 DEF LogOK
<1> QED
  BY <1>13 DEF pushed, freq, changes, turned, c, b

LEMMA PushedOK ==
  ASSUME NEW log, LogOK(log, LogCapacity), NEW x \in SenderId
  PROVE  LogOK(Pushed(log, x), LogCapacity)
<1> DEFINE room == IF Len(log.buffer) >= LogCapacity THEN Popped(log) ELSE log
<1>1. LogCapacity \in Nat /\ LogCapacity > 0
  BY DevicesAssumption
<1>2. Len(log.buffer) \in Nat /\ Len(log.buffer) <= LogCapacity
  BY CountsAreFinite DEF LogOK
<1>3. LogOK(room, LogCapacity) /\ Len(room.buffer) < LogCapacity
  BY <1>1, <1>2, PoppedOK
<1> HIDE DEF room
<1>4. Pushed(log, x) = [buffer |-> <<x>> \o room.buffer,
                        frequencies |-> [room.frequencies EXCEPT ![x] = @ + 1],
                        changes |-> IF room.buffer # <<>> /\ room.buffer[1] # x
                                    THEN room.changes + 1 ELSE room.changes]
  BY DEF Pushed, room
<1> QED
  BY <1>1, <1>3, <1>4, PrependedOK
-----------------------------------------------------------------------------
(* The types, which rest on IInv, and the log, which is pushed a sender.    *)
Bounded ==
  /\ Len(sender) <= MaxSenders
  /\ client.up \in BOOLEAN /\ client.clock \in 1 .. troubles + 1
  /\ net \subseteq Message
  /\ ticked \in {NoSender} \cup DOMAIN sender
  /\ troubles \in 0 .. MaxTroubles
  /\ LogOK(client.log, LogCapacity)

LEMMA MessagesAre ==
  /\ \A s \in Server : \A c \in 1 .. MaxTroubles + 1 : SetHeartbeatInterval(s, c) \in Message
  /\ \A i \in SenderId : HeartbeatRequest(i) \in Message /\ MultipleSenders(i) \in Message
  /\ \A m \in Message : /\ m.kind = "set" => m.to \in Server /\ m.clock \in 1 .. MaxTroubles + 1
                        /\ m.kind = "multiple" => m.to \in SenderId
<1>1. \A s \in Server : \A c \in 1 .. MaxTroubles + 1 : SetHeartbeatInterval(s, c) \in Message
  BY DEF Message
<1>2. \A i \in SenderId : HeartbeatRequest(i) \in Message /\ MultipleSenders(i) \in Message
  BY DEF Message
<1>3. ASSUME NEW m \in Message
      PROVE  /\ m.kind = "set" => m.to \in Server /\ m.clock \in 1 .. MaxTroubles + 1
             /\ m.kind = "multiple" => m.to \in SenderId
  <2>1. CASE \E s \in Server, c \in 1 .. MaxTroubles + 1 : m = SetHeartbeatInterval(s, c)
    BY <2>1 DEF SetHeartbeatInterval
  <2>2. CASE \E i \in SenderId : m = HeartbeatRequest(i) \/ m = MultipleSenders(i)
    BY <2>2 DEF HeartbeatRequest, MultipleSenders
  <2> QED
    BY <2>1, <2>2 DEF Message
<1> QED
  BY <1>1, <1>2, <1>3

LEMMA NotificationsAre ==
  ASSUME NEW c, c.server \in Server \cup {NoServer}, c.seeds \subseteq Server,
         c.clock \in 1 .. MaxTroubles + 1
  PROVE  Notifications(c) \subseteq Message
<1>1. \A m \in Notifications(c) : \E s \in Server : m = SetHeartbeatInterval(s, c.clock)
  BY DEF Notifications
<1> QED
  BY <1>1, MessagesAre

LEMMA SenderIds ==
  ASSUME IInv, Bounded
  PROVE  /\ DOMAIN sender = 1 .. Len(sender) /\ Len(sender) \in Nat
         /\ DOMAIN sender \subseteq SenderId
<1>1. DOMAIN sender = 1 .. Len(sender) /\ Len(sender) \in Nat
  BY LenProperties DEF IInv, SendersOK
<1> QED
  BY <1>1, DevicesAssumption DEF Bounded, SenderId

LEMMA BoundedInit == Init => Bounded
<1> SUFFICES ASSUME Init PROVE Bounded
  OBVIOUS
<1>1. MaxTroubles \in Nat /\ MaxSenders \in Nat /\ LogCapacity \in Nat /\ Seeds \subseteq Server
  BY DevicesAssumption
<1>2. LogOK(EmptyLog, LogCapacity)
  <2>1. <<>> \in Buffer /\ Len(<<>>) = 0 /\ TurnsIn(<<>>) = {} /\ \A i : Places(<<>>, i) = {}
    BY DEF Buffer, TurnsIn, Places
  <2>2. /\ EmptyLog.buffer = <<>> /\ EmptyLog.changes = 0
        /\ EmptyLog.frequencies = [i \in SenderId |-> 0]
        /\ EmptyLog = [buffer |-> EmptyLog.buffer, frequencies |-> EmptyLog.frequencies,
                       changes |-> EmptyLog.changes]
    BY DEF EmptyLog
  <2>3. Cardinality({}) = 0
    BY FS_EmptySet
  <2>4. /\ EmptyLog.frequencies \in [SenderId -> Nat] /\ Len(EmptyLog.buffer) <= LogCapacity
        /\ \A i \in SenderId : EmptyLog.frequencies[i] = 0
    BY <1>1, <2>1, <2>2
  <2>5. /\ EmptyLog.changes = Cardinality(TurnsIn(EmptyLog.buffer))
        /\ \A i \in SenderId : EmptyLog.frequencies[i] = Cardinality(Places(EmptyLog.buffer, i))
    BY <2>1, <2>2, <2>3, <2>4
  <2> QED
    BY <2>1, <2>2, <2>4, <2>5, Zenon DEF LogOK
<1>3. net \subseteq Message
  BY <1>1, MessagesAre DEF Init
<1> QED
  BY <1>1, <1>2, <1>3 DEF Init, Bounded

LEMMA BoundedDevice ==
  ASSUME IInv, IInv', Bounded,
         \/ Tick \/ SetInterval \/ Fail
         \/ \E m \in net : ReceiveRequest(m)
  PROVE  Bounded'
<1> DEFINE log == client.log
<1>1. UNCHANGED <<sender, ticked>>
  BY DEF Tick, SetInterval, Fail, ReceiveRequest
<1>2. /\ client = [up |-> client.up, server |-> client.server, seeds |-> client.seeds,
                   clock |-> client.clock, log |-> client.log]
      /\ client'.server \in Server \cup {NoServer} /\ client'.seeds \subseteq Server
  BY DEF IInv, ClientOK
<1>3. /\ client.up \in BOOLEAN /\ client.clock \in 1 .. troubles + 1 /\ troubles \in 0 .. MaxTroubles
      /\ net \subseteq Message /\ MaxTroubles \in Nat
  BY DevicesAssumption DEF Bounded
<1>4. CASE Tick \/ SetInterval
  <2>1. /\ client'.up = client.up /\ client'.log = client.log
        /\ net' = net \cup Notifications(client')
    BY <1>2, <1>4 DEF Tick, SetInterval
  <2>2. troubles' \in 0 .. MaxTroubles /\ client'.clock \in 1 .. troubles' + 1
    <3>1. CASE Tick
      BY <1>2, <1>3, <3>1 DEF Tick, Trouble, NoTrouble
    <3>2. CASE SetInterval
      BY <1>2, <1>3, <3>2 DEF SetInterval, Trouble
    <3> QED
      BY <1>4, <3>1, <3>2
  <2>3. Notifications(client') \subseteq Message
    BY <1>2, <1>3, <2>2, NotificationsAre
  <2> QED
    BY <1>1, <1>3, <2>1, <2>2, <2>3 DEF Bounded
<1>5. CASE Fail
  <2>1. /\ client'.up \in BOOLEAN /\ client'.log = client.log /\ client'.clock = client.clock
        /\ net' \subseteq net /\ troubles' = troubles + 1 /\ troubles < MaxTroubles
    BY <1>2, <1>5 DEF Fail, Trouble
  <2> QED
    BY <1>1, <1>3, <2>1 DEF Bounded
<1>6. ASSUME NEW r \in net, ReceiveRequest(r) PROVE Bounded'
  <2>1. r.from \in SenderId
    BY <1>6, SenderIds DEF ReceiveRequest, IInv, NetOK
  <2>2. /\ client'.up = client.up /\ client'.clock = client.clock /\ UNCHANGED troubles
        /\ client'.log = Pushed(client.log, r.from)
    BY <1>2, <1>6 DEF ReceiveRequest
  <2>3. LogOK(client'.log, LogCapacity)
    BY <2>1, <2>2, PushedOK DEF Bounded
  <2>4. net' \subseteq Message
    <3>1. net' \subseteq net \cup {MultipleSenders(i) : i \in Keys(client'.log)}
      BY <1>6 DEF ReceiveRequest
    <3>2. Keys(client'.log) \subseteq SenderId
      BY DEF Keys
    <3> QED
      BY <1>3, <3>1, <3>2, MessagesAre
  <2> QED
    BY <1>1, <1>3, <2>2, <2>3, <2>4 DEF Bounded
<1> QED
  BY <1>4, <1>5, <1>6

LEMMA BoundedOthers ==
  ASSUME IInv, Bounded, UNCHANGED client,
         Len(sender') <= MaxSenders, DOMAIN sender \subseteq DOMAIN sender',
         net' \subseteq Message,
         troubles' = troubles \/ Trouble,
         ticked' = ticked \/ ticked' \in DOMAIN sender
  PROVE  Bounded'
<1>1. /\ client.up \in BOOLEAN /\ client.clock \in 1 .. troubles + 1 /\ troubles \in 0 .. MaxTroubles
      /\ MaxTroubles \in Nat
  BY DevicesAssumption DEF Bounded
<1>2. troubles' \in 0 .. MaxTroubles /\ client.clock \in 1 .. troubles' + 1
  BY <1>1 DEF Trouble
<1> QED
  BY <1>1, <1>2 DEF Bounded

LEMMA BoundedSender ==
  ASSUME IInv, IInv', Bounded,
         \/ \E i \in SenderId : Request(i) \/ GiveUp(i) \/ Die(i)
         \/ \E m \in net : ReceiveMultiple(m)
  PROVE  Bounded'
<1>1. /\ UNCHANGED client /\ net \subseteq Message /\ Len(sender) <= MaxSenders
  BY DEF Request, GiveUp, Die, ReceiveMultiple, Bounded
<1>2. ASSUME NEW i \in SenderId, Request(i) PROVE Bounded'
  <2>1. /\ ticked' = i /\ i \in DOMAIN sender /\ UNCHANGED <<sender, troubles>>
        /\ net' \subseteq net \cup {HeartbeatRequest(i)}
    BY <1>2 DEF Request, On
  <2>2. net' \subseteq Message
    BY <1>1, <2>1, MessagesAre
  <2> QED
    BY <1>1, <2>1, <2>2, BoundedOthers
<1>3. ASSUME NEW i \in SenderId, NEW p \in {"quiet", "dead"}, i \in DOMAIN sender,
             sender' = [sender EXCEPT ![i].phase = p], UNCHANGED <<net, ticked>>,
             troubles' = troubles \/ Trouble
      PROVE  Bounded'
  <2>1. DOMAIN sender' = DOMAIN sender /\ Len(sender') = Len(sender)
    <3>1. sender' \in Seq(Sender) /\ sender \in Seq(Sender) /\ DOMAIN sender' = DOMAIN sender
      BY <1>3 DEF IInv, SendersOK
    <3> QED
      BY <3>1, LenProperties
  <2> QED
    BY <1>1, <1>3, <2>1, BoundedOthers
<1>4. ASSUME NEW i \in SenderId, GiveUp(i) PROVE Bounded'
  BY <1>3, <1>4 DEF GiveUp, On, NoTrouble
<1>5. ASSUME NEW i \in SenderId, Die(i) PROVE Bounded'
  BY <1>3, <1>5 DEF Die
<1>6. ASSUME NEW m \in net, ReceiveMultiple(m) PROVE Bounded'
  BY <1>1, <1>6, BoundedOthers DEF ReceiveMultiple
<1> QED
  BY <1>2, <1>4, <1>5, <1>6

LEMMA BoundedServer ==
  ASSUME IInv, IInv', Bounded,
         \/ \E m \in net : ReceiveSet(m) \/ Lose(m)
         \/ \E s \in Server :
              \/ \E view \in SUBSET Server : Enter(s, view)
              \/ \E t \in Server : Disperse(s, t)
              \/ Update(s) \/ AmISender(s) \/ DownedDevice(s) \/ Stop(s)
  PROVE  Bounded'
<1>1. /\ net \subseteq Message /\ Len(sender) <= MaxSenders
      /\ sender \in Seq(Sender) /\ sender' \in Seq(Sender)
      /\ Len(sender) \in Nat /\ DOMAIN sender = 1 .. Len(sender)
      /\ Len(sender') \in Nat /\ DOMAIN sender' = 1 .. Len(sender')
  <2>1. sender \in Seq(Sender) /\ sender' \in Seq(Sender)
    BY DEF IInv, SendersOK
  <2> QED
    BY <2>1, LenProperties DEF Bounded
<1>2. UNCHANGED <<client, ticked>>
  BY DEF ReceiveSet, ReceiveTooEarly, ReceiveWithSender, ReceiveAsManager, ReceiveAsOther, Lose,
         Enter, Disperse, Update, AmISender, DownedDevice, RemoveDevice, Stop
<1>3. ASSUME NEW m \in net, ReceiveAsManager(m) PROVE Bounded'
  <2>1. /\ sender' = Append(sender, [server |-> m.to, phase |-> "on", term |-> FALSE])
        /\ Len(sender) < MaxSenders /\ net' \subseteq net /\ UNCHANGED troubles
    BY <1>3 DEF ReceiveAsManager
  <2>2. Len(sender') = Len(sender) + 1
    BY <1>1, <2>1
  <2>3. Len(sender') <= MaxSenders /\ DOMAIN sender \subseteq DOMAIN sender'
    BY <1>1, <2>1, <2>2, DevicesAssumption
  <2> QED
    BY <1>1, <1>2, <2>1, <2>3, BoundedOthers
<1>4. ASSUME NEW m \in net, ReceiveAsOther(m) PROVE Bounded'
  <2>1. /\ m.to \in Server /\ m.clock \in 1 .. MaxTroubles + 1
        /\ net' = (net \ {m}) \cup {SetHeartbeatInterval(ManagerIn(server[m.to].ring), m.clock)}
        /\ UNCHANGED <<sender, troubles>> /\ server[m.to].phase = "in"
    BY <1>1, <1>4, MessagesAre DEF ReceiveAsOther
  <2>2. server[m.to].ring \in SUBSET Server /\ server[m.to].ring # {}
    BY <2>1 DEF IInv, ServersOK
  <2>3. ManagerIn(server[m.to].ring) \in Server
    BY <2>2, ManagerInView
  <2>4. net' \subseteq Message
    BY <1>1, <2>1, <2>3, MessagesAre
  <2> QED
    BY <1>1, <1>2, <2>1, <2>4, BoundedOthers
<1>5. ASSUME NEW m \in net, ReceiveTooEarly(m) \/ ReceiveWithSender(m) \/ Lose(m) PROVE Bounded'
  <2>1. net' \subseteq net /\ UNCHANGED sender /\ (troubles' = troubles \/ Trouble)
    BY <1>5 DEF ReceiveTooEarly, ReceiveWithSender, Lose
  <2> QED
    BY <1>1, <1>2, <2>1, BoundedOthers
<1>6. ASSUME NEW s \in Server,
             \/ \E view \in SUBSET Server : Enter(s, view)
             \/ \E t \in Server : Disperse(s, t)
             \/ Update(s) \/ AmISender(s) \/ DownedDevice(s) \/ Stop(s)
      PROVE  Bounded'
  <2>1. /\ net' = net /\ (troubles' = troubles \/ Trouble)
        /\ DOMAIN sender' = DOMAIN sender
    BY <1>6 DEF Enter, Disperse, Update, AmISender, DownedDevice, RemoveDevice, Stop
  <2>2. Len(sender') <= Len(sender)
    <3>1. Len(sender') > 0 => Len(sender') \in DOMAIN sender'
      BY <1>1
    <3> QED
      BY <1>1, <2>1, <3>1
  <2> QED
    BY <1>1, <1>2, <2>1, <2>2, BoundedOthers
<1> QED
  BY <1>3, <1>4, <1>5, <1>6 DEF ReceiveSet

LEMMA BoundedNext == IInv /\ IInv' /\ Bounded /\ [Next]_vars => Bounded'
<1> SUFFICES ASSUME IInv, IInv', Bounded, [Next]_vars PROVE Bounded'
  OBVIOUS
<1>1. CASE UNCHANGED vars
  BY <1>1 DEF vars, Bounded
<1>2. CASE Next
  BY <1>2, BoundedDevice, BoundedSender, BoundedServer DEF Next, Receive
<1> QED
  BY <1>1, <1>2

LEMMA BoundedAlways == Spec => []Bounded
BY BoundedInit, BoundedNext, Always, PTL DEF Spec

(* Type correctness, for any servers and bounds: no server ever holds a     *)
(* sender that was not spawned, and senders, intervals and messages stay    *)
(* within what the device and the servers have caused.                      *)
THEOREM TypeCorrect == Spec => []TypeOK
<1>1. IInv /\ Bounded => TypeOK
  <2> SUFFICES ASSUME IInv, Bounded PROVE TypeOK
    OBVIOUS
  <2>1. server \in [Server -> [phase : {"waiting", "in", "stopped"}, ring : SUBSET Server,
                               sender : {NoSender} \cup DOMAIN sender]]
    <3> DEFINE State == [phase : {"waiting", "in", "stopped"}, ring : SUBSET Server,
                         sender : {NoSender} \cup DOMAIN sender]
    <3>1. \A s \in Server : server[s] \in State
      BY DEF IInv, ServersOK, SendersOK
    <3>2. server = [s \in Server |-> server[s]]
      BY DEF IInv, ServersOK
    <3> QED
      BY <3>1, <3>2
  <2> QED
    BY <2>1, SenderIds DEF IInv, SendersOK, ClientOK, DataOK, Bounded, TypeOK, Sender
<1> QED
  BY <1>1, Always, BoundedAlways, PTL

(* The counters of the device's log are those of its buffer, after any      *)
(* number of pushes and pops: neither a pop of the oldest item nor a push   *)
(* next to the latest puts one of them off, so the device notices senders   *)
(* that take turns (frequency_buffer.rs, client.rs:138-146).                *)
THEOREM LogStaysInSync == Spec => []LogInSync
<1>1. Bounded => LogInSync
  BY DEF Bounded, LogOK, LogInSync, TurnsIn, Places
<1> QED
  BY <1>1, BoundedAlways, PTL
-----------------------------------------------------------------------------
(* A device that has settled.                                               *)

\* What of a step the settling depends on: nothing of it changed.
Calm(s) ==
  /\ server' = server
  /\ client'.up = client.up /\ client'.server = client.server
  /\ On' = On
  /\ \A m \in net' : m.kind = "request" => m.from = server[s].sender
  /\ \A j \in DOMAIN inbox'[s] : inbox'[s][j] # "DownedDevice"

LEMMA CalmKeeps ==
  ASSUME NEW s \in Running, SettledWith(s), Calm(s)
  PROVE  s \in Running' /\ SettledWith(s)'
<1>1. Running' = Running
  BY DEF Calm, Running
<1>2. IsManager(s)' = IsManager(s)
  BY DEF Calm, IsManager, ManagerIn
<1> QED
  BY <1>1, <1>2 DEF Calm, SettledWith

\* There is one sender that requests heartbeats, the one s holds, and no
\* server but s holds any.
LEMMA OneSender ==
  ASSUME IInv, NEW s \in Running, SettledWith(s)
  PROVE  LET i == server[s].sender IN
         /\ s \in Server /\ client.up /\ client.server = s /\ IsManager(s)
         /\ i \in DOMAIN sender /\ i # NoSender /\ On = {i}
         /\ sender[i].server = s /\ ~sender[i].term
         /\ \A t \in Server : t # s => server[t].sender = NoSender
         /\ \A t \in Running : server[t].phase = "in" /\ server[t].ring = Running
         /\ \A m \in net : m.kind = "request" => m.from = i
         /\ \A j \in DOMAIN inbox[s] : inbox[s][j] # "DownedDevice"
<1>1. /\ server[s].sender # NoSender
      /\ \A t \in Running : t # s => server[t].sender = NoSender
  BY DEF SettledWith
<1>2. s \in Server
  BY DEF Running
<1>3. \A t \in Server \ Running : server[t].sender = NoSender
  BY DEF IInv, ServersOK, Running
<1>4. server[s].sender \in DOMAIN sender
  BY <1>1, <1>2 DEF IInv, SendersOK
<1>5. sender[server[s].sender].server = s /\ ~sender[server[s].sender].term
  BY <1>1, <1>2 DEF IInv, ChargesAreWatched
<1> QED
  BY <1>1, <1>2, <1>3, <1>4, <1>5 DEF SettledWith

\* The device and its senders.
LEMMA SettledDevice ==
  ASSUME IInv, troubles \in Nat, UNCHANGED troubles, NEW s \in Running, SettledWith(s),
         \/ Tick \/ SetInterval \/ Fail
         \/ \E m \in net : ReceiveRequest(m) \/ ReceiveMultiple(m) \/ Lose(m)
         \/ \E i \in SenderId : Request(i) \/ GiveUp(i) \/ Die(i)
  PROVE  Calm(s)
<1> DEFINE i == server[s].sender
<1>0. /\ s \in Server /\ client.up /\ client.server = s
      /\ i \in DOMAIN sender /\ i # NoSender /\ On = {i}
      /\ sender[i].server = s /\ ~sender[i].term
      /\ \A m \in net : m.kind = "request" => m.from = i
      /\ \A j \in DOMAIN inbox[s] : inbox[s][j] # "DownedDevice"
  BY OneSender
<1>1. ~Trouble
  BY DEF Trouble
<1>2. ~Unwatched
  BY <1>0 DEF Unwatched
<1>3. ~(Tick \/ SetInterval \/ Fail \/ \E m \in net : Lose(m))
  BY <1>1, <1>2 DEF Tick, SetInterval, Fail, Lose
<1>4. ~(\E j \in SenderId : GiveUp(j))
  BY <1>0, <1>1 DEF GiveUp
<1>5. ASSUME UNCHANGED sender PROVE On' = On
  BY <1>5 DEF On
<1>6. ASSUME NEW r \in net, ReceiveRequest(r) PROVE Calm(s)
  <2>1. UNCHANGED <<server, inbox, sender>>
    BY <1>6 DEF ReceiveRequest
  <2>2. client'.up = client.up /\ client'.server = client.server
    <3>1. r.from = i
      BY <1>0, <1>6 DEF ReceiveRequest
    <3>2. client' = [client EXCEPT !.server = s,
                                   !.seeds = @ \cup {s},
                                   !.log = Pushed(@, i)]
      BY <1>0, <1>6, <3>1 DEF ReceiveRequest
    <3>3. client = [up |-> client.up, server |-> client.server, seeds |-> client.seeds,
                    clock |-> client.clock, log |-> client.log]
      BY DEF IInv, ClientOK
    <3> QED
      BY <1>0, <3>2, <3>3
  <2>3. \A m \in net' : m \in net \/ m.kind = "multiple"
    <3>1. net' \subseteq net \cup {MultipleSenders(k) : k \in Keys(client'.log)}
      BY <1>6 DEF ReceiveRequest
    <3>2. \A k : MultipleSenders(k).kind = "multiple"
      BY DEF MultipleSenders
    <3> QED
      BY <3>1, <3>2
  <2> QED
    BY <1>0, <1>5, <2>1, <2>2, <2>3 DEF Calm
<1>7. ASSUME NEW m \in net, ReceiveMultiple(m) PROVE Calm(s)
  <2>1. UNCHANGED <<server, sender, client>> /\ net' \subseteq net
    BY <1>7 DEF ReceiveMultiple
  <2>2. inbox' = inbox \/ inbox'[s] = inbox[s] \/ inbox'[s] = Append(inbox[s], "AmISender")
    BY <1>0, <1>7 DEF ReceiveMultiple, Tell, IInv, SendersOK
  <2>3. \A j \in DOMAIN inbox'[s] : inbox'[s][j] # "DownedDevice"
    <3>1. inbox[s] \in Seq({"AmISender", "DownedDevice"})
      BY <1>0 DEF IInv, SendersOK
    <3> QED
      BY <1>0, <2>2, <3>1, AppendProperties
  <2> QED
    BY <1>0, <1>5, <2>1, <2>3 DEF Calm
<1>8. ASSUME NEW k \in SenderId, Request(k) PROVE Calm(s)
  <2>1. UNCHANGED <<server, sender, inbox, client>> /\ k = i
    BY <1>0, <1>8 DEF Request
  <2>2. \A m \in net' : m \in net \/ m.from = i
    BY <1>8, <2>1 DEF Request, HeartbeatRequest
  <2> QED
    BY <1>0, <1>5, <2>1, <2>2 DEF Calm
<1>9. ASSUME NEW k \in SenderId, Die(k) PROVE Calm(s)
  <2>1. UNCHANGED <<server, inbox, client, net>> /\ k # i /\ k \in DOMAIN sender
    BY <1>0, <1>9 DEF Die
  <2>2. k \notin On
    BY <1>0, <2>1
  <2>3. sender' = [sender EXCEPT ![k].phase = "dead"] /\ sender \in Seq(Sender)
    BY <1>9 DEF Die, IInv, SendersOK
  <2>4. sender[k] \in Sender
    BY <2>1, <2>3, SendersAre
  <2>5. /\ DOMAIN sender' = DOMAIN sender /\ sender'[k].phase = "dead"
        /\ \A j \in DOMAIN sender : j # k => sender'[j] = sender[j]
    BY <2>1, <2>3, <2>4 DEF Sender
  <2>6. On' = On
    BY <2>2, <2>5 DEF On
  <2> QED
    BY <1>0, <2>1, <2>6 DEF Calm
<1> QED
  BY <1>3, <1>4, <1>6, <1>7, <1>8, <1>9

\* The servers: the manager has a sender, and no other has any to stop.
LEMMA SettledServers ==
  ASSUME IInv, troubles \in Nat, UNCHANGED troubles, NEW s \in Running, SettledWith(s),
         \/ \E m \in net : ReceiveSet(m)
         \/ \E t \in Server :
              \/ \E view \in SUBSET Server : Enter(t, view)
              \/ \E u \in Server : Disperse(t, u)
              \/ Update(t) \/ AmISender(t) \/ DownedDevice(t) \/ Stop(t)
  PROVE  Calm(s)
<1> DEFINE i == server[s].sender
<1>0. /\ s \in Server /\ IsManager(s)
      /\ i \in DOMAIN sender /\ i # NoSender
      /\ \A t \in Server : t # s => server[t].sender = NoSender
      /\ \A t \in Running : server[t].phase = "in" /\ server[t].ring = Running
      /\ \A m \in net : m.kind = "request" => m.from = i
      /\ \A j \in DOMAIN inbox[s] : inbox[s][j] # "DownedDevice"
  BY OneSender
<1>1. ASSUME NEW t \in Server PROVE ~Stop(t)
  BY DEF Stop, Trouble
<1>2. ASSUME NEW t \in Server PROVE ~Update(t) /\ \A view \in SUBSET Server : ~Enter(t, view)
  BY <1>0 DEF Update, Enter, Running
<1>3. ASSUME UNCHANGED <<server, sender, client>>,
             \A m \in net' : m \in net \/ m.kind = "set",
             \A j \in DOMAIN inbox'[s] : inbox'[s][j] # "DownedDevice"
      PROVE  Calm(s)
  BY <1>0, <1>3 DEF Calm, On
<1>4. ASSUME NEW t \in Server, NEW u \in Server, Disperse(t, u) PROVE Calm(s)
  BY <1>0, <1>3, <1>4 DEF Disperse
<1>5. ASSUME NEW m \in net, ReceiveSet(m) PROVE Calm(s)
  <2>1. ~ReceiveAsManager(m)
    <3>1. SUFFICES ASSUME ReceiveAsManager(m) PROVE FALSE
      OBVIOUS
    <3>2. m.to \in Server /\ server[m.to].phase = "in" /\ server[m.to].sender = NoSender /\ IsManager(m.to)
      BY <3>1 DEF ReceiveAsManager, IInv, NetOK
    <3>3. m.to \in Running /\ m.to # s
      BY <1>0, <3>2 DEF Running
    <3>4. server[m.to].ring = server[s].ring
      BY <1>0, <3>3
    <3> QED
      BY <1>0, <3>2, <3>3, <3>4 DEF IsManager
  <2>2. UNCHANGED <<server, sender, client, inbox>>
    BY <1>5, <2>1 DEF ReceiveSet, ReceiveTooEarly, ReceiveWithSender, ReceiveAsOther
  <2>3. \A n \in net' : n \in net \/ n.kind = "set"
    BY <1>5, <2>1 DEF ReceiveSet, ReceiveTooEarly, ReceiveWithSender, ReceiveAsOther, SetHeartbeatInterval
  <2> QED
    BY <1>0, <1>3, <2>2, <2>3
<1>6. ASSUME NEW t \in Server, NEW x, Takes(t, x)
      PROVE  /\ \A j \in DOMAIN inbox'[s] : inbox'[s][j] # "DownedDevice"
             /\ t = s => x # "DownedDevice"
  <2>1. /\ inbox \in [Server -> Seq({"AmISender", "DownedDevice"})]
        /\ inbox[t] # <<>> /\ Head(inbox[t]) = x /\ inbox' = [inbox EXCEPT ![t] = Tail(@)]
    BY <1>6 DEF Takes, IInv, SendersOK
  <2>2. inbox[t] \in Seq({"AmISender", "DownedDevice"})
    BY <2>1
  <2>3. /\ Head(inbox[t]) = inbox[t][1] /\ 1 \in DOMAIN inbox[t]
        /\ \A j \in DOMAIN Tail(inbox[t]) : j + 1 \in DOMAIN inbox[t] /\ Tail(inbox[t])[j] = inbox[t][j + 1]
    BY <2>1, <2>2
  <2>4. inbox'[s] = IF t = s THEN Tail(inbox[t]) ELSE inbox[s]
    BY <1>0, <2>1
  <2> QED
    BY <1>0, <2>1, <2>3, <2>4
<1>7. ASSUME NEW t \in Server, t # s, RemoveDevice(t) PROVE UNCHANGED <<server, sender>>
  <2>1. server[t].sender = NoSender
    BY <1>0, <1>7
  <2>2. server' = server
    <3>1. server' = [server EXCEPT ![t] = [server[t] EXCEPT !.sender = NoSender]]
      BY <1>7 DEF RemoveDevice
    <3>2. [server[t] EXCEPT !.sender = NoSender] = server[t]
      BY <2>1 DEF IInv, ServersOK
    <3> QED
      BY <3>1, <3>2 DEF IInv, ServersOK
  <2>3. \A j \in DOMAIN sender : j # NoSender
    BY DEF IInv, SendersOK, NoSender
  <2>4. sender' = [j \in DOMAIN sender |-> sender[j]]
    BY <1>7, <2>1, <2>3 DEF RemoveDevice
  <2>5. sender = [j \in DOMAIN sender |-> sender[j]]
    BY DEF IInv, SendersOK
  <2> QED
    BY <2>2, <2>4, <2>5
<1>8. ASSUME NEW t \in Server, AmISender(t) PROVE Calm(s)
  <2>1. UNCHANGED <<server, sender>>
    BY <1>0, <1>7, <1>8 DEF AmISender
  <2> QED
    BY <1>3, <1>6, <1>8, <2>1 DEF AmISender
<1>9. ASSUME NEW t \in Server, DownedDevice(t) PROVE Calm(s)
  <2>1. UNCHANGED <<server, sender>>
    BY <1>6, <1>7, <1>9 DEF DownedDevice
  <2> QED
    BY <1>3, <1>6, <1>9, <2>1 DEF DownedDevice
<1> QED
  BY <1>1, <1>2, <1>4, <1>5, <1>8, <1>9

(* The safety half of convergence: once one server has the device and no    *)
(* verdict or request of another is left, nothing but a further trouble     *)
(* takes the device from it.  Late intervals reach a manager that has a     *)
(* sender already or are passed on to it, complaints are put aside by the   *)
(* manager (server.rs:272-283), senders that were stopped are silent.       *)
THEOREM SettledForGood == Spec => SettledStays
<1>1. ASSUME IInv, Bounded, [Next]_vars
      PROVE  [\A s \in Running :
                SettledWith(s) /\ UNCHANGED troubles => s \in Running' /\ SettledWith(s)']_vars
  <2> SUFFICES ASSUME Next, NEW s \in Running, SettledWith(s), UNCHANGED troubles
               PROVE  s \in Running' /\ SettledWith(s)'
    BY <1>1
  <2>1. troubles \in Nat
    BY <1>1 DEF Bounded
  <2>2. Calm(s)
    BY <1>1, <2>1, SettledDevice, SettledServers DEF Next, Receive
  <2> QED
    BY <2>2, CalmKeeps
<1> QED
  BY <1>1, Always, BoundedAlways, PTL DEF Spec, SettledStays
=============================================================================
