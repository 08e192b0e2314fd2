------------------------------ MODULE Packets ------------------------------
(***************************************************************************)
(* How a message travels from one node to another: UdpSerial cuts it into  *)
(* datagrams (core/udp_serial.rs), the network loses, repeats and reorders  *)
(* them, and udp_receiver (core/udp_receiver.rs) puts them together in     *)
(* MessageBuilders (core/packets.rs), which it hands to the registry or    *)
(* drops MSG_TIMEOUT after their first packet.                             *)
(*                                                                         *)
(* A Message is one UdpSerial: it has one random msg_id, taken to be       *)
(* unique, and may be sent several times (the code memoizes them).  Bytes  *)
(* are units: unit i of message m is <<m, i>>, the header of a datagram    *)
(* takes HeaderSize units.  The network delivers in any order, so the      *)
(* queue of the socket is its front, `head`, and the rest is on the wire.  *)
(*                                                                         *)
(* A stray, somebody else's datagram, is taken not to decode.  (The code    *)
(* reads one shorter than a header with the end of the header before it.)   *)
(*                                                                         *)
(* Bounds: MaxSends sends of each message, MaxRepeats repetitions of each  *)
(* datagram of Repeatable, MaxStrays datagrams that are nobody's message.  *)
(***************************************************************************)
EXTENDS Naturals, Sequences, FiniteSetsExt

CONSTANTS
  Message,
  MsgSize, DestSize,  \* their lengths once serialized, for every message
  HeaderSize,         \* DatagramHeader::SIZE
  Payload,            \* PAYLOAD_PER_PACKET
  SeqSpace,           \* seq_num and max_seq_num are taken modulo SeqSpace (2^16)
  MaxSends,
  Repeatable, MaxRepeats, MaxStrays

ASSUME PacketsAssumption ==
  /\ HeaderSize \in Nat \ {0} /\ Payload \in Nat \ {0} /\ SeqSpace \in Nat \ {0}
  /\ MaxSends \in Nat /\ MaxRepeats \in Nat /\ MaxStrays \in Nat
  /\ MsgSize \in [Message -> Nat \ {0}] /\ DestSize \in [Message -> Nat \ {0}]

VARIABLES
  sends,      \* how often each message has been sent
  wire,       \* the datagrams under way: how many copies of each
  head,       \* the datagram at the front of the socket's queue, or NoDatagram
  recvd,      \* the builders of udp_receiver, by msg_id
  detached,   \* timers still running whose builder has been removed
  expired,    \* the ids in the channel from the timers to the receiver
  forwarded,  \* the buffers handed to the registry, by msg_id
  repeated,   \* how often the network repeated each datagram
  lost,       \* history: copies of each datagram that are gone
  strays      \* how many datagrams of other programs came in

net  == <<sends, wire, repeated, strays>>
vars == <<sends, wire, head, recvd, detached, expired, forwarded, repeated, lost, strays>>
-----------------------------------------------------------------------------
Total(m)  == MsgSize[m] + DestSize[m]
BufLen(m) == HeaderSize + Total(m)

\* Every packet but the last is full.
LastSeq(m) == (Total(m) - 1) \div Payload

\* No message is so long that its numbers do not fit their 16 bits: such a
\* message (3.6 MB) would come apart, as the code does not look.  Nor is any
\* destination, whose length has 16 bits as well (udp_serial.rs:80).
ASSUME NoTruncation == \A m \in Message : LastSeq(m) < SeqSpace

Datagram == UNION {{m} \X (0 .. LastSeq(m)) : m \in Message}
NoDatagram == <<>>
Stray == <<"stray">>

\* The header of a datagram as the receiver decodes it.
SeqNum(d)    == d[2] % SeqSpace
MaxSeqNum(m) == LastSeq(m) % SeqSpace

\* DatagramHeader::try_from; of the datagrams of UdpSerial none is shorter.
Accepted(d) == d # Stray /\ SeqNum(d) <= MaxSeqNum(d[1])

\* The units of a datagram: the header, then a slice of message and dest.
DatagramLen(d) ==
  HeaderSize + Min({Payload, Total(d[1]) - d[2] * Payload})
DatagramUnit(d, j) ==
  IF j < HeaderSize THEN <<"header", d[2]>> ELSE <<d[1], d[2] * Payload + j - HeaderSize>>

Blank == <<"blank">>
Unit == {Blank} \cup Message \X Nat \cup {"header"} \X Nat

\* The buffer of a message that has come whole: room for a header nobody
\* reads, then message and dest.
Whole(m) == [x \in 0 .. BufLen(m) - 1 |-> IF x < HeaderSize THEN Blank ELSE <<m, x - HeaderSize>>]
-----------------------------------------------------------------------------
Builder(got, buf, armed) == [got |-> got, buf |-> buf, armed |-> armed]
NoBuilder == Builder({}, <<>>, FALSE)

\* MessageBuilder::new
NewBuilder(m) == Builder({}, [x \in 0 .. BufLen(m) - 1 |-> Blank], FALSE)

\* The slice of the buffer a datagram is received into, header and all: it
\* begins with the end of the packet before.
SliceEnd(b, d) == Min({SeqNum(d) * Payload + HeaderSize + Payload, Cardinality(DOMAIN b.buf)})
Received(b, d) ==
  LET start == SeqNum(d) * Payload IN
  [x \in DOMAIN b.buf |->
     IF x >= start /\ x < Min({SliceEnd(b, d), start + DatagramLen(d)})
     THEN DatagramUnit(d, x - start) ELSE b.buf[x]]

\* A variant that leaves the header where it was received.
InsertUnrestored(b, d) ==
  [b EXCEPT !.got = @ \cup {SeqNum(d)}, !.buf = Received(b, d)]

\* MessageBuilder::insert of a datagram that is new to the builder: what the
\* header overwrote is saved and put back.
Insert(b, d) ==
  LET start == SeqNum(d) * Payload IN
  [b EXCEPT
     !.got = @ \cup {SeqNum(d)},
     !.buf = [x \in DOMAIN @ |->
                IF x >= start /\ x < start + HeaderSize THEN @[x] ELSE Received(b, d)[x]]]

\* MessageBuilder::finished.  The variant looks for the last packet only.
FinishedAtLast(b, m) == MaxSeqNum(m) \in b.got
Finished(b, m) == Cardinality(b.got) = MaxSeqNum(m) + 1
-----------------------------------------------------------------------------
Init ==
  /\ sends = [m \in Message |-> 0]
  /\ wire = [d \in Datagram |-> 0]
  /\ head = NoDatagram
  /\ recvd = [m \in Message |-> NoBuilder]
  /\ detached = [m \in Message |-> 0]
  /\ expired = [m \in Message |-> 0]
  /\ forwarded = [m \in Message |-> <<>>]
  /\ repeated = [d \in Datagram |-> 0]
  /\ lost = [d \in Datagram |-> 0]
  /\ strays = 0

\* UdpSerial::send, one send_to after the other.  As the wire delays every
\* datagram for as long as it likes, they may as well all leave at once.
Send(m) ==
  /\ sends[m] < MaxSends
  /\ sends' = [sends EXCEPT ![m] = @ + 1]
  /\ wire' = [d \in Datagram |-> IF d[1] = m THEN wire[d] + 1 ELSE wire[d]]
  /\ UNCHANGED <<head, recvd, detached, expired, forwarded, repeated, lost, strays>>

\* The network, and a socket whose queue is full.
Lose(d) ==
  /\ wire[d] > 0
  /\ wire' = [wire EXCEPT ![d] = @ - 1]
  /\ lost' = [lost EXCEPT ![d] = @ + 1]
  /\ UNCHANGED <<sends, head, recvd, detached, expired, forwarded, repeated, strays>>
Repeat(d) ==
  /\ wire[d] > 0 /\ d \in Repeatable /\ repeated[d] < MaxRepeats
  /\ wire' = [wire EXCEPT ![d] = @ + 1]
  /\ repeated' = [repeated EXCEPT ![d] = @ + 1]
  /\ UNCHANGED <<sends, head, recvd, detached, expired, forwarded, lost, strays>>
Arrive(d) ==
  /\ wire[d] > 0 /\ head = NoDatagram
  /\ wire' = [wire EXCEPT ![d] = @ - 1]
  /\ head' = d
  /\ UNCHANGED <<sends, recvd, detached, expired, forwarded, repeated, lost, strays>>
ArriveStray ==
  /\ strays < MaxStrays /\ head = NoDatagram
  /\ strays' = strays + 1
  /\ head' = Stray
  /\ UNCHANGED <<sends, wire, recvd, detached, expired, forwarded, repeated, lost>>
-----------------------------------------------------------------------------
\* A datagram that does not decode is received into the header buffer.
Reject ==
  /\ head # NoDatagram /\ ~Accepted(head)
  /\ head' = NoDatagram
  /\ UNCHANGED <<net, recvd, detached, expired, forwarded, lost>>

Forward(m, buf) == forwarded' = [forwarded EXCEPT ![m] = Append(@, buf)]

\* A message of one packet goes to the registry at once.
ReceiveOnly ==
  /\ head # NoDatagram /\ Accepted(head) /\ MaxSeqNum(head[1]) = 0
  /\ Forward(head[1], Insert(NewBuilder(head[1]), head).buf)
  /\ head' = NoDatagram
  /\ UNCHANGED <<net, recvd, detached, expired, lost>>

\* A variant that forgets to spawn the timer.
ReceiveFirstUntimed ==
  /\ head # NoDatagram /\ Accepted(head) /\ MaxSeqNum(head[1]) > 0
  /\ recvd[head[1]] = NoBuilder
  /\ recvd' = [recvd EXCEPT ![head[1]] = Insert(NewBuilder(head[1]), head)]
  /\ head' = NoDatagram
  /\ UNCHANGED <<net, detached, expired, forwarded, lost>>

\* Entry::Vacant: the builder gets its timer with its first packet.
ReceiveFirst ==
  /\ head # NoDatagram /\ Accepted(head) /\ MaxSeqNum(head[1]) > 0
  /\ recvd[head[1]] = NoBuilder
  /\ recvd' = [recvd EXCEPT ![head[1]] =
                 [Insert(NewBuilder(head[1]), head) EXCEPT !.armed = TRUE]]
  /\ head' = NoDatagram
  /\ UNCHANGED <<net, detached, expired, forwarded, lost>>

\* A variant that receives a repeated packet, too, and counts it.
ReceiveNextRepeated ==
  /\ head # NoDatagram /\ Accepted(head)
  /\ recvd[head[1]] # NoBuilder
  /\ LET m == head[1]
         b == Insert(recvd[m], head)
     IN  IF Finished(b, m)
         THEN recvd' = [recvd EXCEPT ![m] = NoBuilder] /\ Forward(m, b.buf)
         ELSE recvd' = [recvd EXCEPT ![m] = b] /\ UNCHANGED forwarded
  /\ head' = NoDatagram
  /\ UNCHANGED <<net, detached, expired, lost>>

\* Entry::Occupied.  A packet the builder has is only peeked at: it stays at
\* the front of the socket, nothing changes, and the receiver comes back to
\* it until the builder expires.  abort() stops the timer of a finished
\* builder unless it has fired already.
ReceiveNext ==
  /\ head # NoDatagram /\ Accepted(head)
  /\ recvd[head[1]] # NoBuilder
  /\ SeqNum(head) \notin recvd[head[1]].got
  /\ LET m == head[1]
         b == Insert(recvd[m], head)
     IN  IF Finished(b, m)
         THEN recvd' = [recvd EXCEPT ![m] = NoBuilder] /\ Forward(m, b.buf)
         ELSE recvd' = [recvd EXCEPT ![m] = b] /\ UNCHANGED forwarded
  /\ head' = NoDatagram
  /\ UNCHANGED <<net, detached, expired, lost>>

\* MSG_TIMEOUT is over for the timer of a builder, or for one whose builder
\* is gone: dropping its handle does not stop it.
TimerFires(m) ==
  /\ \/ /\ recvd[m].armed
        /\ recvd' = [recvd EXCEPT ![m].armed = FALSE]
        /\ UNCHANGED detached
     \/ /\ detached[m] > 0
        /\ detached' = [detached EXCEPT ![m] = @ - 1]
        /\ UNCHANGED recvd
  /\ expired' = [expired EXCEPT ![m] = @ + 1]
  /\ UNCHANGED <<net, head, forwarded, lost>>

\* The receiver takes an id from the channel and removes what it has under
\* it, which may be a later builder than the one the timer was for.
Expire(m) ==
  /\ expired[m] > 0
  /\ expired' = [expired EXCEPT ![m] = @ - 1]
  /\ recvd' = [recvd EXCEPT ![m] = NoBuilder]
  /\ detached' = [detached EXCEPT ![m] = IF recvd[m].armed THEN @ + 1 ELSE @]
  /\ lost' = [d \in Datagram |->
                IF d[1] = m /\ SeqNum(d) \in recvd[m].got THEN lost[d] + 1 ELSE lost[d]]
  /\ UNCHANGED <<net, head, forwarded>>

Receive == Reject \/ ReceiveOnly \/ ReceiveFirst \/ ReceiveNext

Network == ArriveStray \/ \E d \in Datagram : Lose(d) \/ Repeat(d) \/ Arrive(d)

Next ==
  \/ \E m \in Message : Send(m) \/ TimerFires(m) \/ Expire(m)
  \/ Network
  \/ Receive

Spec == Init /\ [][Next]_vars

\* The receiver's select! serves both of its sources, and timers fire.
FairSpec ==
  /\ Spec
  /\ WF_vars(Receive)
  /\ \A m \in Message : WF_vars(TimerFires(m)) /\ WF_vars(Expire(m))
-----------------------------------------------------------------------------
BuilderOf(m) ==
  [got : SUBSET (0 .. MaxSeqNum(m)), buf : [0 .. BufLen(m) - 1 -> Unit], armed : BOOLEAN]

TypeOK ==
  /\ sends \in [Message -> 0 .. MaxSends]
  /\ wire \in [Datagram -> Nat]
  /\ head \in Datagram \cup {NoDatagram, Stray}
  /\ \A m \in Message : recvd[m] \in BuilderOf(m) \cup {NoBuilder} /\ ~Finished(recvd[m], m)
  /\ detached \in [Message -> Nat]
  /\ expired \in [Message -> Nat]
  /\ DOMAIN forwarded = Message
  /\ \A m \in Message : forwarded[m] \in Seq([0 .. BufLen(m) - 1 -> Unit])
  /\ repeated \in [Datagram -> 0 .. MaxRepeats]
  /\ lost \in [Datagram -> Nat]
  /\ strays \in 0 .. MaxStrays

(* Whatever udp_receiver hands to the registry is the message its id stands *)
(* for, complete and in order, however its packets came: headers that were  *)
(* received over the end of the packet before leave no trace, and a builder *)
(* is never handed over with a packet missing.                              *)
ForwardedWhole ==
  \A m \in Message : \A i \in DOMAIN forwarded[m] : forwarded[m][i] = Whole(m)

\* The copies of a datagram that the receiver holds.
Held(d) ==
  (IF head = d THEN 1 ELSE 0) + (IF SeqNum(d) \in recvd[d[1]].got THEN 1 ELSE 0)

(* Every copy of a packet there ever was is under way, at the front of the  *)
(* socket, in a builder, in a message that was forwarded, or lost with the  *)
(* network or an expired builder: the receiver drops none of its own accord *)
(* and uses none twice, so a message is not forwarded more often than each  *)
(* of its packets came, whatever was repeated, resent or timed out.         *)
Conserved ==
  \A d \in Datagram :
    sends[d[1]] + repeated[d] = wire[d] + Held(d) + Len(forwarded[d[1]]) + lost[d]

(* Whatever expired, was repeated or blocks the front of the socket, once   *)
(* nothing more is sent the receiver gets through its socket and is left    *)
(* with no builder and no timer.                                            *)
Quiet ==
  /\ head = NoDatagram
  /\ \A m \in Message : recvd[m] = NoBuilder /\ detached[m] = 0 /\ expired[m] = 0
Drains == <>[]Quiet

\* How often a message can still be put together from what is there.
Available(m) == Min({wire[d] + Held(d) : d \in {<<m, i>> : i \in 0 .. LastSeq(m)}})

MessageChannel == INSTANCE Channel
  WITH copies <- [m \in Message |-> Available(m)],
       delivered <- [m \in Message |-> Len(forwarded[m])]

(* Fragments, repetitions, resends and time-outs behind it, the transport   *)
(* is the channel of whole messages that the modules of the cluster assume: *)
(* a message comes only if it was sent, and again only if it was repeated.  *)
ImplementsChannel == MessageChannel!Spec
=============================================================================
