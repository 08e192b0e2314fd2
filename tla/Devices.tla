------------------------------ MODULE Devices ------------------------------
(***************************************************************************)
(* A device outside the cluster and the servers that watch it              *)
(* (cluster/devices/server.rs, heartbeat_request_sender.rs, client.rs).    *)
(* The device tells the servers it knows that it is there; the server that *)
(* the ring makes its manager starts a sender of heartbeat requests; the   *)
(* device takes whoever requests heartbeats for its server, and tells the  *)
(* senders when there are several.  What the servers know of the device    *)
(* goes into the CRDT of DeviceData, which CausalDisperse spreads.         *)
(*                                                                         *)
(* Devices do not interact, so there is one.  Heartbeats and their timing  *)
(* are abstracted into doubt: a sender or the device may take the other    *)
(* side for dead while it is not, and does so in the end when it is.  All  *)
(* senders of a device have its interval, so their timers keep their       *)
(* order; a request and what it sets off arrive or are lost before the     *)
(* next timer, other messages of UDP when they like.  The ring is the set  *)
(* of servers in a view, its manager the server that comes first for the   *)
(* device.  The handler of IntervalAck is left out: nothing sends one.     *)
(*                                                                         *)
(* Bounds: MaxSenders senders ever, MaxInbox waiting messages of senders to *)
(* a server, and MaxTroubles in all of what disturbs them: unjust doubts,  *)
(* lost messages, servers and devices that stop, intervals that change.    *)
(***************************************************************************)
EXTENDS DeviceData, Sequences, FiniteSetsExt

CONSTANTS
  Server,
  Rank,          \* where a server comes in the device's walk round the ring
  Seeds,         \* DeviceClientConfig::seeds
  LogCapacity,   \* DeviceClientConfig::log_capacity
  MayStop,       \* servers that may stop
  MaxSenders, MaxInbox, MaxTroubles

ASSUME DevicesAssumption ==
  /\ IsFiniteSet(Server) /\ Seeds \subseteq Server /\ MayStop \subseteq Server
  /\ Rank \in [Server -> Nat] /\ \A s, t \in Server : Rank[s] = Rank[t] => s = t
  /\ LogCapacity \in Nat \ {0}
  /\ {MaxSenders, MaxInbox, MaxTroubles} \subseteq Nat

VARIABLES
  server,   \* the server actors: phase, ring, req_senders[device]
  inbox,    \* what senders have told each server and it has not handled
  sender,   \* the sender actors, by number
  client,   \* the device: is it up, its server, seeds, interval.clock, server_log
  net,      \* messages in flight
  ticked,   \* the sender whose timer fired last
  data,     \* the entry of the device in the CRDT at each server
  troubles

vars == <<server, inbox, sender, client, net, ticked, data, troubles>>
-----------------------------------------------------------------------------
NoServer == "none"
NoSender == 0
SenderId == 1 .. MaxSenders

SetHeartbeatInterval(s, clock) == [kind |-> "set", to |-> s, clock |-> clock]
HeartbeatRequest(i) == [kind |-> "request", from |-> i]
MultipleSenders(i)  == [kind |-> "multiple", to |-> i]

\* ring.managers(device, 1)
ManagerIn(view) == CHOOSE s \in view : \A t \in view : Rank[s] <= Rank[t]
IsManager(s) == ManagerIn(server[s].ring) = s

\* Something may go wrong once more.
Trouble == troubles < MaxTroubles /\ troubles' = troubles + 1
NoTrouble == UNCHANGED troubles

Running == {s \in Server : server[s].phase # "stopped"}
On == {i \in DOMAIN sender : sender[i].phase = "on"}
-----------------------------------------------------------------------------
(* FrequencyBuffer: the front of the buffer is the latest item. *)

EmptyLog == [buffer |-> <<>>, frequencies |-> [i \in SenderId |-> 0], changes |-> 0]

\* The items of a log are those with a frequency.
Keys(log) == {i \in SenderId : log.frequencies[i] > 0}

Popped(log) ==
  LET last == Len(log.buffer) IN
  [buffer |-> SubSeq(log.buffer, 1, last - 1),
   frequencies |-> [log.frequencies EXCEPT ![log.buffer[last]] = @ - 1],
   changes |-> IF last > 1 /\ log.buffer[last - 1] # log.buffer[last]
               THEN log.changes - 1 ELSE log.changes]

\* A variant that compares with the oldest item.
PushedComparingBack(full, i) ==
  LET log == IF Len(full.buffer) >= LogCapacity THEN Popped(full) ELSE full IN
  [buffer |-> <<i>> \o log.buffer,
   frequencies |-> [log.frequencies EXCEPT ![i] = @ + 1],
   changes |-> IF log.buffer # <<>> /\ log.buffer[Len(log.buffer)] # i
               THEN log.changes + 1 ELSE log.changes]

Pushed(full, i) ==
  LET log == IF Len(full.buffer) >= LogCapacity THEN Popped(full) ELSE full IN
  [buffer |-> <<i>> \o log.buffer,
   frequencies |-> [log.frequencies EXCEPT ![i] = @ + 1],
   changes |-> IF log.buffer # <<>> /\ log.buffer[1] # i
               THEN log.changes + 1 ELSE log.changes]

\* Senders that took turns: more changes than a change of sender explains.
Several(log) == log.changes + 1 # Cardinality(Keys(log))
-----------------------------------------------------------------------------
Waiting == [phase |-> "waiting", ring |-> {}, sender |-> NoSender]

Init ==
  /\ server = [s \in Server |-> Waiting]
  /\ inbox = [s \in Server |-> <<>>]
  /\ sender = <<>>
  /\ client = [up |-> TRUE, server |-> NoServer, seeds |-> Seeds, clock |-> 1, log |-> EmptyLog]
  /\ net = {SetHeartbeatInterval(s, 1) : s \in Seeds}   \* pre_start
  /\ data = [s \in Server |-> Absent]
  /\ ticked = NoSender /\ troubles = 0
-----------------------------------------------------------------------------
(* The device *)

\* notify_server: to its server, or to all the servers it has heard of.
Notifications(c) ==
  {SetHeartbeatInterval(s, c.clock) : s \in IF c.server = NoServer THEN c.seeds ELSE {c.server}}

\* No sender is left that would request a heartbeat for its server.
Unwatched == \A i \in On : sender[i].server # client.server

\* Tick with phi exceeded.  Any other Tick changes nothing.
Tick ==
  /\ client.up
  /\ IF Unwatched THEN NoTrouble ELSE Trouble
  /\ client' = [client EXCEPT !.server = NoServer]
  /\ net' = net \cup Notifications(client')
  /\ UNCHANGED <<server, inbox, sender, ticked, data>>

\* Cmd(SetInterval)
SetInterval ==
  /\ client.up /\ Trouble
  /\ client' = [client EXCEPT !.clock = @ + 1]
  /\ net' = net \cup Notifications(client')
  /\ UNCHANGED <<server, inbox, sender, ticked, data>>

\* Remote(HeartbeatRequest): whoever asks is the server from now on.
ReceiveRequest(m) ==
  /\ m \in net /\ m.kind = "request" /\ client.up
  /\ client' = [client EXCEPT !.server = sender[m.from].server,
                              !.seeds = @ \cup {sender[m.from].server},
                              !.log = Pushed(@, m.from)]
  /\ net' = (net \ {m}) \cup
       IF Several(client'.log) THEN {MultipleSenders(i) : i \in Keys(client'.log)} ELSE {}
  /\ UNCHANGED <<server, inbox, sender, ticked, data, troubles>>

\* The device stops; what is sent to it is lost.
Fail ==
  /\ client.up /\ Trouble
  /\ client' = [client EXCEPT !.up = FALSE]
  /\ net' = {m \in net : m.kind # "request"}
  /\ UNCHANGED <<server, inbox, sender, ticked, data>>
-----------------------------------------------------------------------------
(* The senders *)

Tell(s, x) == inbox' = [inbox EXCEPT ![s] = IF server[s].phase = "stopped" THEN @ ELSE Append(@, x)]
HasRoom(s) == Len(inbox[s]) < MaxInbox

\* The sender whose timer is next.
NextOn ==
  LET later == {i \in On : i > ticked} IN
  IF On = {} THEN NoSender ELSE IF later # {} THEN Min(later) ELSE Min(On)

\* Tick: a request, one round after the other.
Request(i) ==
  /\ i \in On /\ i = NextOn
  /\ ticked' = i
  /\ \A m \in net : m.kind = "set"
  /\ net' = IF client.up THEN net \cup {HeartbeatRequest(i)} ELSE net
  /\ UNCHANGED <<server, inbox, sender, client, data, troubles>>

\* Tick with phi exceeded: the sender falls silent and waits for its Term.
GiveUp(i) ==
  /\ i \in On /\ HasRoom(sender[i].server)
  /\ IF client.up THEN Trouble ELSE NoTrouble
  /\ sender' = [sender EXCEPT ![i].phase = "quiet"]
  /\ Tell(sender[i].server, "DownedDevice")
  /\ UNCHANGED <<server, client, net, ticked, data>>

\* Remote(MultipleSenders); the registry drops it when the sender is dead.
ReceiveMultiple(m) ==
  /\ m \in net /\ m.kind = "multiple"
  /\ net' = net \ {m}
  /\ IF sender[m.to].phase = "dead" THEN UNCHANGED inbox
     ELSE HasRoom(sender[m.to].server) /\ Tell(sender[m.to].server, "AmISender")
  /\ UNCHANGED <<server, sender, client, ticked, data, troubles>>

\* The signal Term comes behind whatever the sender still handles.
Die(i) ==
  /\ i \in DOMAIN sender /\ sender[i].term /\ sender[i].phase # "dead"
  /\ sender' = [sender EXCEPT ![i].phase = "dead"]
  /\ UNCHANGED <<server, inbox, client, net, ticked, data, troubles>>
-----------------------------------------------------------------------------
(* The servers *)

\* Update or DeviceData, whichever completes what a Waiting server needs: to_ic.
\* Its first view may be any.
Enter(s, view) ==
  /\ server[s].phase = "waiting" /\ s \in view
  /\ server' = [server EXCEPT ![s].phase = "in", ![s].ring = view]
  /\ UNCHANGED <<inbox, sender, client, net, ticked, data, troubles>>

\* Update in the cluster: by then the view is that of the servers there are.
Update(s) ==
  /\ server[s].phase = "in" /\ server[s].ring # Running
  /\ server' = [server EXCEPT ![s].ring = Running]
  /\ UNCHANGED <<inbox, sender, client, net, ticked, data, troubles>>

\* CausalCmd::Mutate: CausalDisperse joins the delta into what it has, in its
\* own turn, which may as well come at once as no handler reads the data.
\* What the senders make of the interval's length is left out.
Mutate(s, e) == data' = [data EXCEPT ![s] = Latest(@, e)]
IntervalOf(clock) == [clock |-> clock, dur |-> 0]

\* Remote(SetHeartbeatInterval) at a server that is not in the cluster yet.
ReceiveTooEarly(m) ==
  /\ m \in net /\ m.kind = "set" /\ server[m.to].phase # "in"
  /\ net' = net \ {m}
  /\ UNCHANGED <<server, inbox, sender, client, ticked, data, troubles>>

\* ... at one that has a sender, which takes the interval over,
ReceiveWithSender(m) ==
  /\ m \in net /\ m.kind = "set" /\ server[m.to].phase = "in"
  /\ server[m.to].sender # NoSender
  /\ net' = net \ {m}
  /\ Mutate(m.to, PutEntry(data[m.to], IntervalOf(m.clock)))
  /\ UNCHANGED <<server, inbox, sender, client, ticked, troubles>>

\* ... at the manager,
ReceiveAsManager(m) ==
  /\ m \in net /\ m.kind = "set" /\ server[m.to].phase = "in"
  /\ server[m.to].sender = NoSender /\ IsManager(m.to)
  /\ Len(sender) < MaxSenders
  /\ net' = net \ {m}
  /\ sender' = Append(sender, [server |-> m.to, phase |-> "on", term |-> FALSE])
  /\ server' = [server EXCEPT ![m.to].sender = Len(sender')]
  /\ Mutate(m.to, PutEntry(data[m.to], IntervalOf(m.clock)))
  /\ UNCHANGED <<inbox, client, ticked, troubles>>

\* ... and at any other, which passes it on.
ReceiveAsOther(m) ==
  /\ m \in net /\ m.kind = "set" /\ server[m.to].phase = "in"
  /\ server[m.to].sender = NoSender /\ ~IsManager(m.to)
  /\ net' = (net \ {m}) \cup {SetHeartbeatInterval(ManagerIn(server[m.to].ring), m.clock)}
  /\ UNCHANGED <<server, inbox, sender, client, ticked, data, troubles>>

\* remove_device: the sender there is now, whoever it was that complained.
RemoveDevice(s) ==
  /\ server' = [server EXCEPT ![s].sender = NoSender]
  /\ sender' = [i \in DOMAIN sender |->
                  IF i = server[s].sender THEN [sender[i] EXCEPT !.term = TRUE] ELSE sender[i]]

Takes(s, x) == inbox[s] # <<>> /\ Head(inbox[s]) = x /\ inbox' = [inbox EXCEPT ![s] = Tail(@)]

\* A variant in which the manager gives way, too.
AmISenderMeek(s) ==
  /\ Takes(s, "AmISender")
  /\ RemoveDevice(s)
  /\ UNCHANGED <<client, net, ticked, data, troubles>>
AmISender(s) ==
  /\ Takes(s, "AmISender")
  /\ IF IsManager(s) THEN UNCHANGED <<server, sender>> ELSE RemoveDevice(s)
  /\ UNCHANGED <<client, net, ticked, data, troubles>>

\* A variant that keeps the sender that gave up.
DownedDeviceKept(s) ==
  /\ Takes(s, "DownedDevice")
  /\ UNCHANGED <<server, sender, client, net, ticked, data, troubles>>
DownedDevice(s) ==
  /\ Takes(s, "DownedDevice")
  /\ RemoveDevice(s)
  /\ Mutate(s, RemoveEntry(data[s]))
  /\ UNCHANGED <<client, net, ticked, troubles>>

\* post_stop, and nothing is sent to the server any more.
Stop(s) ==
  /\ s \in MayStop /\ s \in Running /\ Trouble
  /\ server' = [server EXCEPT ![s] = [Waiting EXCEPT !.phase = "stopped"]]
  /\ sender' = [i \in DOMAIN sender |->
                  IF i = server[s].sender THEN [sender[i] EXCEPT !.term = TRUE] ELSE sender[i]]
  /\ inbox' = [inbox EXCEPT ![s] = <<>>]
  /\ UNCHANGED <<client, net, ticked, data>>

-----------------------------------------------------------------------------
Lose(m) ==
  /\ Trouble
  /\ net' = net \ {m}
  /\ UNCHANGED <<server, inbox, sender, client, ticked, data>>

\* CausalDisperse brings the data of s to t.
Disperse(s, t) ==
  /\ {s, t} \subseteq Running /\ Latest(data[t], data[s]) # data[t]
  /\ Mutate(t, data[s])
  /\ UNCHANGED <<server, inbox, sender, client, net, ticked, troubles>>

ReceiveSet(m) ==
  ReceiveTooEarly(m) \/ ReceiveWithSender(m) \/ ReceiveAsManager(m) \/ ReceiveAsOther(m)
Receive(m) == ReceiveSet(m) \/ ReceiveRequest(m) \/ ReceiveMultiple(m)

Next ==
  \/ Tick \/ SetInterval \/ Fail
  \/ \E m \in net : Receive(m) \/ Lose(m)
  \/ \E i \in SenderId : Request(i) \/ GiveUp(i) \/ Die(i)
  \/ \E s \in Server :
       \/ \E view \in SUBSET Server : Enter(s, view)
       \/ \E t \in Server : Disperse(s, t)
       \/ Update(s) \/ AmISender(s) \/ DownedDevice(s) \/ Stop(s)

Spec == Init /\ [][Next]_vars

Message ==
  {SetHeartbeatInterval(s, c) : s \in Server, c \in 1 .. MaxTroubles + 1}
  \cup {HeartbeatRequest(i) : i \in SenderId} \cup {MultipleSenders(i) : i \in SenderId}

\* Actors are scheduled, timers fire, views settle, and messages that are not
\* lost arrive.  Whoever is dead is given up in the end.
FairSpec ==
  /\ Spec
  /\ WF_vars(Unwatched /\ Tick)
  /\ WF_vars(~client.up /\ \E i \in SenderId : GiveUp(i))
  /\ WF_vars(\E s \in Server : Update(s) \/ Enter(s, Running))
  /\ WF_vars(\E i \in SenderId : Die(i))
  /\ WF_vars(\E s, t \in Server : Disperse(s, t))
  /\ \A i \in SenderId :
       /\ WF_vars(Request(i) \/ ReceiveRequest(HeartbeatRequest(i)))
       /\ WF_vars(ReceiveMultiple(MultipleSenders(i)))
  /\ \A s \in Server :
       /\ WF_vars(\E m \in net : m.kind = "set" /\ m.to = s /\ ReceiveSet(m))
       /\ WF_vars(AmISender(s) \/ DownedDevice(s))
-----------------------------------------------------------------------------
TypeOK ==
  /\ server \in [Server -> [phase : {"waiting", "in", "stopped"}, ring : SUBSET Server, sender : {NoSender} \cup DOMAIN sender]]
  /\ inbox \in [Server -> Seq({"AmISender", "DownedDevice"})]
  /\ Len(sender) <= MaxSenders
  /\ sender \in Seq([server : Server, phase : {"on", "quiet", "dead"}, term : BOOLEAN])
  /\ client.up \in BOOLEAN /\ client.server \in Server \cup {NoServer}
  /\ client.seeds \subseteq Server /\ client.clock \in Nat
  /\ net \subseteq Message
  /\ data \in [Server -> Entry]
  /\ ticked \in {NoSender} \cup DOMAIN sender
  /\ troubles \in 0 .. MaxTroubles

(* The log's counts are those of its buffer, whatever was pushed and popped: *)
(* neither counter is off, so senders that took turns are noticed as long as *)
(* the log remembers it.                                                     *)
LogInSync ==
  LET b == client.log.buffer IN
  /\ Len(b) <= LogCapacity
  /\ client.log.changes = Cardinality({j \in 2 .. Len(b) : b[j] # b[j - 1]})
  /\ \A i \in SenderId : client.log.frequencies[i] = Cardinality({j \in DOMAIN b : b[j] = i})

(* A server that counts the device among its charges does watch it: the     *)
(* sender it holds is one that was not told to stop and that requests       *)
(* heartbeats, unless its verdict lies in the server's mailbox; and no      *)
(* sender is left running that no server holds.                             *)
ChargesAreWatched ==
  \A s \in Server :
    LET i == server[s].sender IN
    /\ i # NoSender =>
         /\ sender[i].server = s /\ ~sender[i].term
         /\ sender[i].phase = "on" \/ \E j \in DOMAIN inbox[s] : inbox[s][j] = "DownedDevice"
    /\ \A j \in DOMAIN sender : sender[j].server = s /\ ~sender[j].term => j = i

(* What a server knows of the device never goes back to something older, in *)
(* whatever order intervals, removals and other servers' data come in.      *)
DataGrows == [][\A s \in Server : AtLeast(data'[s], data[s])]_vars

(* device_convergence_reached of tests/devices-test.rs: in the end exactly  *)
(* one server has the device among its charges, the device takes that one   *)
(* for its server, and all have the same data; a dead device is nobody's    *)
(* charge.                                                                  *)
Served ==
  \E s \in Running :
    /\ client.server = s
    /\ \A t \in Running : server[t].sender # NoSender <=> t = s
Converged ==
  /\ IF client.up THEN Served ELSE \A s \in Running : server[s].sender = NoSender
  /\ \A s, t \in Running : data[s] = data[t]
DeviceConvergence == <>[]Converged

\* Server s has the device, and no word of anybody else is left to change that.
\* Intervals and complaints may still be under way, from and to anybody.
SettledWith(s) ==
  /\ client.up /\ client.server = s /\ IsManager(s)
  /\ \A t \in Running : /\ server[t].phase = "in" /\ server[t].ring = Running
                        /\ server[t].sender # NoSender <=> t = s
  /\ On = {server[s].sender}
  /\ \A m \in net : m.kind = "request" => m.from = server[s].sender
  /\ \A j \in DOMAIN inbox[s] : inbox[s][j] # "DownedDevice"

(* Convergence lasts: unless something goes wrong once more, a device that  *)
(* has settled with a server stays with it, whatever late intervals, late   *)
(* complaints of the device and dying senders still do.                     *)
SettledStays ==
  [][\A s \in Running :
       SettledWith(s) /\ UNCHANGED troubles => s \in Running' /\ SettledWith(s)']_vars
=============================================================================
