---------------------------- MODULE PacketsProofs ----------------------------
(***************************************************************************)
(* No packet is dropped or used twice by the receiver, what it hands to    *)
(* the registry is whole, and the transport is a channel of messages: for  *)
(* any messages, sizes, headers and any behaviour of the network.          *)
(***************************************************************************)
EXTENDS Packets, FiniteSetTheorems, WellFoundedInduction, TLAPS

-----------------------------------------------------------------------------
LEMMA LastSeqIsNat ==
  ASSUME NEW m \in Message
  PROVE  LastSeq(m) \in Nat /\ MaxSeqNum(m) = LastSeq(m)
<1>1. MsgSize[m] \in Nat \ {0} /\ DestSize[m] \in Nat \ {0} /\ Payload \in Nat \ {0}
      /\ SeqSpace \in Nat \ {0} /\ LastSeq(m) < SeqSpace
  BY PacketsAssumption, NoTruncation
<1>2. Total(m) - 1 \in Nat
  BY <1>1 DEF Total
<1>3. \A a \in Nat, b \in Nat \ {0} : a \div b \in Nat
  OBVIOUS
<1>4. LastSeq(m) \in Nat
  BY <1>1, <1>2, <1>3 DEF LastSeq
<1>5. \A a \in Nat, b \in Nat \ {0} : a < b => a % b = a
  OBVIOUS
<1> QED
  BY <1>1, <1>4, <1>5 DEF MaxSeqNum

(* The numbers of a message fit their 16 bits: what the receiver decodes is *)
(* the number the sender gave (packets.rs:153-190).                         *)
LEMMA DatagramIsPacket ==
  ASSUME NEW d \in Datagram
  PROVE  /\ d[1] \in Message /\ d[2] \in 0 .. LastSeq(d[1]) /\ d = <<d[1], d[2]>>
         /\ SeqNum(d) = d[2] /\ d # NoDatagram /\ d # Stray /\ Accepted(d)
<1>1. PICK m \in Message : d \in {m} \X (0 .. LastSeq(m))
  BY DEF Datagram
<1>2. d[1] = m /\ d[2] \in 0 .. LastSeq(m) /\ d = <<d[1], d[2]>>
  BY <1>1
<1>3. SeqSpace \in Nat \ {0} /\ LastSeq(m) < SeqSpace /\ LastSeq(m) \in Nat
  BY PacketsAssumption, NoTruncation, LastSeqIsNat
<1>4. \A a \in Nat, b \in Nat \ {0} : a < b => a % b = a
  OBVIOUS
<1>5. d[2] \in Nat /\ d[2] <= LastSeq(m) /\ d[2] < SeqSpace
  BY <1>2, <1>3
<1>6. SeqNum(d) = d[2]
  BY <1>3, <1>4, <1>5 DEF SeqNum
<1>7. d # NoDatagram /\ d # Stray
  <2>1. Len(d) = 2 /\ Len(<<>>) = 0 /\ Len(<<"stray">>) = 1
    BY <1>2
  <2> QED
    BY <2>1 DEF NoDatagram, Stray
<1> QED
  BY <1>2, <1>5, <1>6, <1>7, LastSeqIsNat DEF Accepted

LEMMA PacketIsDatagram ==
  ASSUME NEW m \in Message, NEW i \in 0 .. LastSeq(m)
  PROVE  <<m, i>> \in Datagram
BY DEF Datagram

(* A builder is finished when it has all packets (packets.rs:85-87).        *)
LEMMA FinishedHasAll ==
  ASSUME NEW m \in Message, NEW b, b.got \subseteq 0 .. LastSeq(m)
  PROVE  Finished(b, m) <=> b.got = 0 .. LastSeq(m)
<1>1. LastSeq(m) \in Nat /\ MaxSeqNum(m) = LastSeq(m)
  BY LastSeqIsNat
<1>2. IsFiniteSet(0 .. LastSeq(m)) /\ Cardinality(0 .. LastSeq(m)) = LastSeq(m) + 1
  <2>1. 0 \in Int /\ LastSeq(m) \in Int /\ ~(0 > LastSeq(m))
    BY <1>1
  <2> QED
    BY <1>1, <2>1, FS_Interval
<1>3. b.got # 0 .. LastSeq(m) => Cardinality(b.got) # LastSeq(m) + 1
  BY <1>2, FS_Subset
<1> QED
  BY <1>1, <1>2, <1>3 DEF Finished

-----------------------------------------------------------------------------
(* Conserved needs to know of a builder that it lacks some packet of its    *)
(* message and has no other: then finishing it uses one copy of each.       *)
CountsOK ==
  /\ sends \in [Message -> Nat] /\ wire \in [Datagram -> Nat]
  /\ repeated \in [Datagram -> Nat] /\ lost \in [Datagram -> Nat]
  /\ head \in Datagram \cup {NoDatagram, Stray}
ForwardedOK ==
  /\ forwarded = [m \in Message |-> forwarded[m]]
  /\ \A m \in Message : \E S : forwarded[m] \in Seq(S)
BuildersOK ==
  /\ recvd = [m \in Message |-> recvd[m]]
  /\ \A m \in Message :
       /\ "got" \in DOMAIN recvd[m]
       /\ recvd[m].got \subseteq 0 .. LastSeq(m) /\ recvd[m].got # 0 .. LastSeq(m)

IInv == CountsOK /\ ForwardedOK /\ BuildersOK /\ Conserved

\* How often a message was handed to the registry.
Times(m) == Len(forwarded[m])

LEMMA LengthIsNat ==
  ASSUME IInv, NEW m \in Message
  PROVE  Len(forwarded[m]) \in Nat
BY DEF IInv, ForwardedOK

LEMMA NoBuilderLacksAll ==
  ASSUME NEW m \in Message
  PROVE  /\ "got" \in DOMAIN NoBuilder
         /\ NoBuilder.got = {} /\ {} # 0 .. LastSeq(m)
<1>1. 0 \in 0 .. LastSeq(m)
  BY LastSeqIsNat
<1> QED
  BY <1>1 DEF NoBuilder, Builder

(* A buffer handed over is one more.                                        *)
LEMMA ForwardCounts ==
  ASSUME IInv, NEW m \in Message, NEW buf, Forward(m, buf)
  PROVE  /\ ForwardedOK'
         /\ Len(forwarded'[m]) = Len(forwarded[m]) + 1
         /\ \A n \in Message : n # m => forwarded'[n] = forwarded[n]
<1>1. /\ forwarded = [n \in Message |-> forwarded[n]]
      /\ \A n \in Message : \E S : forwarded[n] \in Seq(S)
  BY DEF IInv, ForwardedOK
<1>2. /\ forwarded' = [n \in Message |-> forwarded'[n]]
      /\ forwarded'[m] = Append(forwarded[m], buf)
      /\ \A n \in Message : n # m => forwarded'[n] = forwarded[n]
  BY <1>1 DEF Forward
<1>3. PICK S : forwarded[m] \in Seq(S)
  BY <1>1
<1>4. forwarded[m] \in Seq(S \cup {buf}) /\ buf \in S \cup {buf}
  BY <1>3
<1>5. forwarded'[m] \in Seq(S \cup {buf}) /\ Len(forwarded'[m]) = Len(forwarded[m]) + 1
  BY <1>2, <1>4
<1>6. \A n \in Message : \E T : forwarded'[n] \in Seq(T)
  <2> TAKE n \in Message
  <2>1. CASE n = m
    BY <1>5, <2>1
  <2>2. CASE n # m
    BY <1>1, <1>2, <2>2
  <2> QED
    BY <2>1, <2>2
<1> QED
  BY <1>2, <1>5, <1>6 DEF ForwardedOK

(* A builder put in place of another.                                       *)
LEMMA BuilderReplaced ==
  ASSUME BuildersOK, NEW m \in Message, NEW b, recvd' = [recvd EXCEPT ![m] = b],
         "got" \in DOMAIN b, b.got \subseteq 0 .. LastSeq(m), b.got # 0 .. LastSeq(m)
  PROVE  /\ BuildersOK' /\ recvd'[m] = b
         /\ \A n \in Message : n # m => recvd'[n] = recvd[n]
<1>1. /\ recvd' = [n \in Message |-> recvd'[n]] /\ recvd'[m] = b
      /\ \A n \in Message : n # m => recvd'[n] = recvd[n]
  BY DEF BuildersOK
<1> QED
  BY <1>1 DEF BuildersOK

LEMMA InitIInv == Init => IInv
<1> SUFFICES ASSUME Init PROVE IInv
  OBVIOUS
<1>1. CountsOK
  BY DEF Init, CountsOK
<1>2. ForwardedOK
  <2>1. \A m \in Message : forwarded[m] = <<>>
    BY DEF Init
  <2>2. <<>> \in Seq({})
    OBVIOUS
  <2> QED
    BY <2>1, <2>2 DEF Init, ForwardedOK
<1>3. BuildersOK
  <2>1. \A m \in Message : recvd[m] = NoBuilder
    BY DEF Init
  <2> QED
    BY <2>1, NoBuilderLacksAll DEF Init, BuildersOK
<1>4. Conserved
  <2> SUFFICES ASSUME NEW d \in Datagram
               PROVE  sends[d[1]] + repeated[d] = wire[d] + Held(d) + Len(forwarded[d[1]]) + lost[d]
    BY DEF Conserved
  <2>1. d[1] \in Message /\ d # NoDatagram
    BY DatagramIsPacket
  <2>2. Held(d) = 0
    BY <2>1 DEF Init, Held, NoBuilder, Builder
  <2> QED
    BY <2>1, <2>2 DEF Init
<1> QED
  BY <1>1, <1>2, <1>3, <1>4 DEF IInv

(* Where copies are, in numbers.                                            *)
LEMMA HeldIs ==
  ASSUME NEW d \in Datagram
  PROVE  /\ Held(d) = (IF head = d THEN 1 ELSE 0) + (IF d[2] \in recvd[d[1]].got THEN 1 ELSE 0)
         /\ Held(d) \in Nat
BY DatagramIsPacket DEF Held

LEMMA HeldWillBe ==
  ASSUME NEW d \in Datagram
  PROVE  Held(d)' = (IF head' = d THEN 1 ELSE 0) + (IF d[2] \in recvd'[d[1]].got THEN 1 ELSE 0)
BY DatagramIsPacket DEF Held

(* The steps of the sender, the network and the timers: a copy comes, goes  *)
(* or moves to the front of the socket.                                     *)
LEMMA NetworkKeeps ==
  ASSUME IInv, Network \/ Reject \/ \E m \in Message : Send(m) \/ TimerFires(m)
  PROVE  IInv'
<1>1. /\ sends \in [Message -> Nat] /\ wire \in [Datagram -> Nat]
      /\ repeated \in [Datagram -> Nat] /\ lost \in [Datagram -> Nat]
      /\ head \in Datagram \cup {NoDatagram, Stray}
  BY DEF IInv, CountsOK
<1>2. ASSUME NEW d \in Datagram
      PROVE  /\ d[1] \in Message /\ d # NoDatagram /\ d # Stray
             /\ sends[d[1]] + repeated[d] = wire[d] + Held(d) + Times(d[1]) + lost[d]
             /\ sends[d[1]] \in Nat /\ repeated[d] \in Nat /\ wire[d] \in Nat
             /\ Held(d) \in Nat /\ Times(d[1]) \in Nat /\ lost[d] \in Nat
  <2>1. d[1] \in Message /\ d # NoDatagram /\ d # Stray
    BY DatagramIsPacket
  <2>2. sends[d[1]] + repeated[d] = wire[d] + Held(d) + Times(d[1]) + lost[d]
    BY DEF IInv, Conserved, Times
  <2>3. Times(d[1]) \in Nat
    BY <2>1, LengthIsNat DEF Times
  <2> QED
    BY <1>1, <2>1, <2>2, <2>3, HeldIs
<1>3. ForwardedOK /\ BuildersOK
  BY DEF IInv
<1>4. UNCHANGED forwarded => ForwardedOK' /\ \A m \in Message : Times(m)' = Times(m)
  BY <1>3 DEF ForwardedOK, Times
<1>5. UNCHANGED recvd => BuildersOK'
  BY <1>3 DEF BuildersOK
<1>5a. ASSUME UNCHANGED forwarded, NEW d \in Datagram PROVE Times(d[1])' = Times(d[1])
  BY <1>5a DEF Times
<1>6. ASSUME NEW m \in Message, Send(m) PROVE IInv'
  <2>1. /\ UNCHANGED <<head, recvd, forwarded, repeated, lost>>
        /\ sends' = [sends EXCEPT ![m] = @ + 1]
        /\ wire' = [d \in Datagram |-> IF d[1] = m THEN wire[d] + 1 ELSE wire[d]]
    BY <1>6 DEF Send
  <2>2. CountsOK'
    BY <1>1, <2>1 DEF CountsOK
  <2>3. ASSUME NEW d \in Datagram
        PROVE  sends'[d[1]] + repeated'[d] = wire'[d] + Held(d)' + Times(d[1])' + lost'[d]
    <3>0. /\ sends[d[1]] + repeated[d] = wire[d] + Held(d) + Times(d[1]) + lost[d]
          /\ sends[d[1]] \in Nat /\ repeated[d] \in Nat /\ wire[d] \in Nat
          /\ Held(d) \in Nat /\ Times(d[1]) \in Nat /\ lost[d] \in Nat
      BY <1>2
    <3>1. Held(d)' = Held(d)
      BY <2>1 DEF Held
    <3>2. CASE d[1] = m
      <4>1. sends'[d[1]] = sends[d[1]] + 1 /\ wire'[d] = wire[d] + 1
        BY <1>1, <2>1, <3>2
      <4>2. /\ repeated'[d] = repeated[d] /\ lost'[d] = lost[d]
            /\ Times(d[1])' = Times(d[1])
        BY <2>1 DEF Times
      <4>3. (sends[d[1]] + 1) + repeated[d]
              = (wire[d] + 1) + Held(d) + Times(d[1]) + lost[d]
        BY <3>0
      <4> QED
        BY <3>1, <4>1, <4>2, <4>3, Zenon
    <3>3. CASE d[1] # m
      <4>1. sends'[d[1]] = sends[d[1]] /\ wire'[d] = wire[d]
        BY <1>1, <1>2, <2>1, <3>3
      <4> QED
        BY <1>2, <1>5a, <2>1, <3>1, <4>1
    <3> QED
      BY <3>2, <3>3
  <2> QED
    BY <1>4, <1>5, <2>1, <2>2, <2>3 DEF IInv, Conserved, Times
<1>7. ASSUME NEW e \in Datagram, Lose(e) \/ Repeat(e) \/ Arrive(e) PROVE IInv'
  <2>1. /\ UNCHANGED <<sends, recvd, forwarded>> /\ wire[e] > 0
        /\ \A d \in Datagram : d # e => /\ wire'[d] = wire[d] /\ repeated'[d] = repeated[d]
                                        /\ lost'[d] = lost[d]
    BY <1>1, <1>7 DEF Lose, Repeat, Arrive
  <2>2. CountsOK'
    <3>1. wire[e] - 1 \in Nat
      BY <1>2, <2>1
    <3> QED
      BY <1>1, <1>7, <3>1 DEF CountsOK, Lose, Repeat, Arrive
  <2>3. ASSUME NEW d \in Datagram
        PROVE  sends'[d[1]] + repeated'[d] = wire'[d] + Held(d)' + Times(d[1])' + lost'[d]
    <3>0. /\ sends[d[1]] + repeated[d] = wire[d] + Held(d) + Times(d[1]) + lost[d]
          /\ sends[d[1]] \in Nat /\ repeated[d] \in Nat /\ wire[d] \in Nat
          /\ Held(d) \in Nat /\ Times(d[1]) \in Nat /\ lost[d] \in Nat
      BY <1>2
    <3>1. CASE Lose(e) \/ Repeat(e)
      <4>1. Held(d)' = Held(d)
        BY <3>1 DEF Held, Lose, Repeat
      <4>2. CASE d = e
        <5>1. CASE Lose(e)
          <6>1. wire'[d] = wire[d] - 1 /\ lost'[d] = lost[d] + 1 /\ repeated'[d] = repeated[d]
            BY <1>1, <4>2, <5>1 DEF Lose
          <6>2. sends'[d[1]] = sends[d[1]] /\ Times(d[1])' = Times(d[1])
            BY <2>1 DEF Times
          <6>3. sends[d[1]] + repeated[d]
                  = (wire[d] - 1) + Held(d) + Times(d[1]) + (lost[d] + 1)
            BY <3>0
          <6> QED
            BY <4>1, <6>1, <6>2, <6>3, Zenon
        <5>2. CASE Repeat(e)
          <6>1. wire'[d] = wire[d] + 1 /\ lost'[d] = lost[d] /\ repeated'[d] = repeated[d] + 1
            BY <1>1, <4>2, <5>2 DEF Repeat
          <6>2. sends'[d[1]] = sends[d[1]] /\ Times(d[1])' = Times(d[1])
            BY <2>1 DEF Times
          <6>3. sends[d[1]] + (repeated[d] + 1)
                  = (wire[d] + 1) + Held(d) + Times(d[1]) + lost[d]
            BY <3>0
          <6> QED
            BY <4>1, <6>1, <6>2, <6>3, Zenon
        <5> QED
          BY <3>1, <5>1, <5>2
      <4>3. CASE d # e
        BY <1>2, <1>5a, <2>1, <4>1, <4>3
      <4> QED
        BY <4>2, <4>3
    <3>2. CASE Arrive(e)
      <4>1. head = NoDatagram /\ head' = e /\ wire' = [wire EXCEPT ![e] = @ - 1]
            /\ UNCHANGED <<sends, recvd, forwarded, repeated, lost>>
        BY <3>2 DEF Arrive
      <4>2. CASE d = e
        <5>1. Held(d)' = Held(d) + 1
          BY <1>2, <4>1, <4>2, HeldIs, HeldWillBe
        <5>2. wire'[d] = wire[d] - 1
          BY <1>1, <4>1, <4>2
        <5> QED
          BY <1>2, <1>5a, <4>1, <5>1, <5>2
      <4>3. CASE d # e
        <5>1. Held(d)' = Held(d)
          BY <1>2, <4>1, <4>3, HeldIs, HeldWillBe
        <5> QED
          BY <1>2, <1>5a, <2>1, <4>1, <4>3, <5>1
      <4> QED
        BY <4>2, <4>3
    <3> QED
      BY <1>7, <3>1, <3>2
  <2> QED
    BY <1>4, <1>5, <2>1, <2>2, <2>3 DEF IInv, Conserved, Times
<1>8. ASSUME ArriveStray \/ Reject PROVE IInv'
  <2>1. /\ UNCHANGED <<sends, wire, recvd, forwarded, repeated, lost>>
        /\ head' \in {NoDatagram, Stray}
        /\ head \notin Datagram
    <3>1. ArriveStray => head = NoDatagram
      BY DEF ArriveStray
    <3>2. Reject => ~Accepted(head)
      BY DEF Reject
    <3>3. head \notin Datagram
      BY <1>2, <1>8, <3>1, <3>2, DatagramIsPacket
    <3> QED
      BY <1>8, <3>3 DEF ArriveStray, Reject, net
  <2>2. CountsOK'
    BY <1>1, <2>1 DEF CountsOK
  <2>3. ASSUME NEW d \in Datagram
        PROVE  sends'[d[1]] + repeated'[d] = wire'[d] + Held(d)' + Times(d[1])' + lost'[d]
    <3>1. Held(d)' = Held(d)
      BY <1>2, <2>1, HeldIs, HeldWillBe
    <3> QED
      BY <1>2, <1>5a, <2>1, <3>1
  <2> QED
    BY <1>4, <1>5, <2>1, <2>2, <2>3 DEF IInv, Conserved, Times
<1>9. ASSUME NEW m \in Message, TimerFires(m) PROVE IInv'
  <2>1. UNCHANGED <<sends, wire, head, forwarded, repeated, lost>>
    BY <1>9 DEF TimerFires, net
  <2>2. BuildersOK' /\ \A n \in Message : recvd'[n].got = recvd[n].got
    <3>1. CASE UNCHANGED recvd
      BY <1>5, <3>1
    <3>2. CASE recvd' = [recvd EXCEPT ![m].armed = FALSE]
      <4>1. /\ "got" \in DOMAIN recvd[m]
            /\ recvd[m].got \subseteq 0 .. LastSeq(m) /\ recvd[m].got # 0 .. LastSeq(m)
        BY <1>3 DEF BuildersOK
      <4> DEFINE b == [recvd[m] EXCEPT !.armed = FALSE]
      <4>2. "got" \in DOMAIN b /\ b.got = recvd[m].got
        BY <4>1
      <4>4. recvd' = [recvd EXCEPT ![m] = b]
        BY <3>2
      <4> HIDE DEF b
      <4>5. BuildersOK' /\ recvd'[m] = b /\ \A n \in Message : n # m => recvd'[n] = recvd[n]
        <5>1. b.got \subseteq 0 .. LastSeq(m) /\ b.got # 0 .. LastSeq(m)
          BY <4>1, <4>2
        <5> QED
          BY <1>3, <4>2, <4>4, <5>1, BuilderReplaced
      <4> QED
        BY <4>2, <4>5
    <3> QED
      BY <1>9, <3>1, <3>2 DEF TimerFires
  <2>3. CountsOK'
    BY <1>1, <2>1 DEF CountsOK
  <2>4. ASSUME NEW d \in Datagram
        PROVE  sends'[d[1]] + repeated'[d] = wire'[d] + Held(d)' + Times(d[1])' + lost'[d]
    <3>1. Held(d)' = Held(d)
      BY <1>2, <2>1, <2>2, HeldIs, HeldWillBe
    <3> QED
      BY <1>2, <1>5a, <2>1, <3>1
  <2> QED
    BY <1>4, <2>1, <2>2, <2>3, <2>4 DEF IInv, Conserved, Times
<1> QED
  BY <1>6, <1>7, <1>8, <1>9 DEF Network

-----------------------------------------------------------------------------
(* Where the copies that have arrived are, in numbers.                      *)
LEMMA Amounts ==
  ASSUME IInv, NEW d \in Datagram
  PROVE  Held(d) \in Nat /\ Times(d[1]) \in Nat /\ lost[d] \in Nat
BY DatagramIsPacket, HeldIs, LengthIsNat DEF Times, IInv, CountsOK

(* A step of the receiver moves copies between the front of its socket, its *)
(* builders, the registry and the bin.                                      *)
LEMMA MovesKeep ==
  ASSUME IInv, UNCHANGED net, ForwardedOK', BuildersOK',
         head' \in {head, NoDatagram}, lost' \in [Datagram -> Nat],
         \A d \in Datagram :
           Held(d)' + Times(d[1])' + lost'[d] = Held(d) + Times(d[1]) + lost[d],
         \A d \in Datagram : Held(d)' \in Nat /\ Times(d[1])' \in Nat
  PROVE  IInv'
<1>1. CountsOK'
  BY DEF IInv, CountsOK, net
<1>2. ASSUME NEW d \in Datagram
      PROVE  sends'[d[1]] + repeated'[d] = wire'[d] + Held(d)' + Times(d[1])' + lost'[d]
  <2>1. sends[d[1]] + repeated[d] = wire[d] + Held(d) + Times(d[1]) + lost[d]
    BY DEF IInv, Conserved, Times
  <2>2. /\ sends'[d[1]] = sends[d[1]] /\ repeated'[d] = repeated[d] /\ wire'[d] = wire[d]
        /\ wire[d] \in Nat /\ lost'[d] \in Nat
    BY DEF IInv, CountsOK, net
  <2>3. /\ Held(d) \in Nat /\ Times(d[1]) \in Nat /\ lost[d] \in Nat
        /\ Held(d)' \in Nat /\ Times(d[1])' \in Nat
        /\ Held(d)' + Times(d[1])' + lost'[d] = Held(d) + Times(d[1]) + lost[d]
    BY Amounts
  <2>4. wire[d] + Held(d)' + Times(d[1])' + lost'[d] = wire[d] + Held(d) + Times(d[1]) + lost[d]
    BY <2>2, <2>3
  <2> QED
    BY <2>1, <2>2, <2>4, Zenon
<1> QED
  BY <1>1, <1>2 DEF IInv, Conserved, Times

(* What is at the front of the socket when a packet is received.            *)
LEMMA AtHead ==
  ASSUME IInv, head # NoDatagram, Accepted(head)
  PROVE  /\ head \in Datagram /\ head[1] \in Message /\ head[2] \in 0 .. LastSeq(head[1])
         /\ head = <<head[1], head[2]>> /\ SeqNum(head) = head[2]
         /\ MaxSeqNum(head[1]) = LastSeq(head[1]) /\ LastSeq(head[1]) \in Nat
<1>1. head \in Datagram
  BY DEF IInv, CountsOK, Accepted
<1> QED
  BY <1>1, DatagramIsPacket, LastSeqIsNat

(* Two packets of one message with one number are the same packet.          *)
LEMMA SamePacket ==
  ASSUME NEW d \in Datagram, NEW e \in Datagram, d[1] = e[1], d[2] = e[2]
  PROVE  d = e
BY DatagramIsPacket, Zenon

(* ReceiveOnly: the one packet of its message is there and no builder.      *)
LEMMA OnlyKeeps ==
  ASSUME IInv, ReceiveOnly
  PROVE  IInv'
<1>0. PICK m : m = head[1]
  OBVIOUS
<1>1. /\ head \in Datagram /\ m \in Message /\ head[2] \in 0 .. LastSeq(m)
      /\ MaxSeqNum(m) = LastSeq(m)
  BY <1>0, AtHead DEF ReceiveOnly
<1>2. LastSeq(m) = 0
  BY <1>0, <1>1 DEF ReceiveOnly
<1>3. PICK buf : Forward(m, buf)
  BY <1>0 DEF ReceiveOnly
<1>4. head' = NoDatagram /\ UNCHANGED <<net, recvd, lost>>
  BY DEF ReceiveOnly
<1>5. BuildersOK /\ lost \in [Datagram -> Nat]
  BY DEF IInv, CountsOK
<1>6. ForwardedOK' /\ Times(m)' = Times(m) + 1 /\ \A n \in Message : n # m => Times(n)' = Times(n)
  BY <1>1, <1>3, ForwardCounts DEF Times
<1>7. recvd[m].got = {}
  <2>1. recvd[m].got \subseteq 0 .. LastSeq(m) /\ recvd[m].got # 0 .. LastSeq(m)
    BY <1>1, <1>5 DEF BuildersOK
  <2>2. 0 .. LastSeq(m) = {0}
    BY <1>2
  <2> QED
    BY <2>1, <2>2
<1>8. ASSUME NEW d \in Datagram
      PROVE  /\ Held(d)' + Times(d[1])' + lost'[d] = Held(d) + Times(d[1]) + lost[d]
             /\ Held(d)' \in Nat /\ Times(d[1])' \in Nat
  <2>1. d[1] \in Message /\ d # NoDatagram /\ d[2] \in 0 .. LastSeq(d[1])
    BY DatagramIsPacket
  <2>2. Held(d) \in Nat /\ Times(d[1]) \in Nat /\ lost[d] \in Nat
    BY Amounts
  <2>3. CASE d[1] = m
    <3>1. d[2] = head[2]
      BY <1>1, <1>2, <2>1, <2>3
    <3>2. d = head
      BY <1>0, <1>1, <2>3, <3>1, SamePacket
    <3>3. Held(d) = 1 /\ Held(d)' = 0
      BY <1>4, <1>7, <2>1, <2>3, <3>2, HeldIs, HeldWillBe
    <3>4. Times(d[1])' = Times(d[1]) + 1
      BY <1>6, <2>3
    <3> QED
      BY <1>4, <2>2, <3>3, <3>4
  <2>4. CASE d[1] # m
    <3>1. d # head
      BY <1>0, <2>4
    <3>2. Held(d)' = Held(d)
      BY <1>4, <2>1, <3>1, HeldIs, HeldWillBe
    <3>3. Times(d[1])' = Times(d[1])
      BY <1>6, <2>1, <2>4
    <3> QED
      BY <1>4, <2>2, <3>2, <3>3
  <2> QED
    BY <2>3, <2>4
<1>9. BuildersOK'
  BY <1>4, <1>5 DEF BuildersOK
<1> QED
  BY <1>4, <1>5, <1>6, <1>8, <1>9, MovesKeep

(* A packet that goes from the front of the socket into a builder, where it *)
(* was missing, stays held.                                                 *)
LEMMA PutInBuilder ==
  ASSUME IInv, head # NoDatagram, Accepted(head), NEW b,
         recvd' = [recvd EXCEPT ![head[1]] = b], "got" \in DOMAIN b,
         head[2] \notin recvd[head[1]].got,
         b.got = recvd[head[1]].got \cup {head[2]}, b.got # 0 .. LastSeq(head[1]),
         head' = NoDatagram, UNCHANGED <<net, forwarded, lost>>
  PROVE  IInv'
<1> DEFINE m == head[1]
<1>1. /\ head \in Datagram /\ m \in Message /\ head[2] \in 0 .. LastSeq(m)
  BY AtHead
<1>2. BuildersOK /\ ForwardedOK /\ lost \in [Datagram -> Nat]
  BY DEF IInv, CountsOK
<1>3. b.got \subseteq 0 .. LastSeq(m)
  BY <1>1, <1>2 DEF BuildersOK
<1>4. BuildersOK' /\ recvd'[m] = b /\ \A n \in Message : n # m => recvd'[n] = recvd[n]
  BY <1>1, <1>2, <1>3, BuilderReplaced
<1>5. ForwardedOK'
  BY <1>2 DEF ForwardedOK
<1>6. ASSUME NEW d \in Datagram
      PROVE  /\ Held(d)' + Times(d[1])' + lost'[d] = Held(d) + Times(d[1]) + lost[d]
             /\ Held(d)' \in Nat /\ Times(d[1])' \in Nat
  <2>1. d[1] \in Message /\ d # NoDatagram
    BY DatagramIsPacket
  <2>2. Held(d) \in Nat /\ Times(d[1]) \in Nat /\ lost[d] \in Nat
    BY Amounts
  <2>3. Times(d[1])' = Times(d[1]) /\ lost'[d] = lost[d]
    BY DEF Times
  <2>4. Held(d)' = Held(d)
    <3>1. CASE d = head
      BY <1>4, <2>1, <3>1, HeldIs, HeldWillBe
    <3>2. CASE d # head /\ d[1] = m
      <4>1. d[2] # head[2]
        BY <1>1, <3>2, SamePacket
      <4>2. d[2] \in recvd'[d[1]].got <=> d[2] \in recvd[d[1]].got
        BY <1>4, <3>2, <4>1
      <4> QED
        BY <2>1, <3>2, <4>2, HeldIs, HeldWillBe
    <3>3. CASE d[1] # m
      BY <1>4, <2>1, <3>3, HeldIs, HeldWillBe
    <3> QED
      BY <3>1, <3>2, <3>3
  <2> QED
    BY <2>2, <2>3, <2>4
<1> QED
  BY <1>2, <1>4, <1>5, <1>6, MovesKeep

(* ReceiveFirst: the first packet of a message of several.                  *)
LEMMA FirstKeeps ==
  ASSUME IInv, ReceiveFirst
  PROVE  IInv'
<1> DEFINE b == [Insert(NewBuilder(head[1]), head) EXCEPT !.armed = TRUE]
<1>1. /\ head[1] \in Message /\ SeqNum(head) = head[2] /\ LastSeq(head[1]) \in Nat
      /\ LastSeq(head[1]) > 0
  BY AtHead DEF ReceiveFirst
<1>2. "got" \in DOMAIN b /\ b.got = {head[2]}
  BY <1>1 DEF Insert, NewBuilder, Builder
<1>3. recvd[head[1]].got = {}
  BY NoBuilderLacksAll, <1>1 DEF ReceiveFirst
<1> HIDE DEF b
<1>4. b.got # 0 .. LastSeq(head[1])
  <2>1. 0 \in 0 .. LastSeq(head[1]) /\ 1 \in 0 .. LastSeq(head[1]) /\ 0 # 1
    BY <1>1
  <2>2. ~(0 \in b.got /\ 1 \in b.got)
    BY <1>2, <2>1, Zenon
  <2> QED
    BY <2>1, <2>2, Zenon
<1>5. recvd' = [recvd EXCEPT ![head[1]] = b] /\ head' = NoDatagram
      /\ UNCHANGED <<net, forwarded, lost>> /\ head # NoDatagram /\ Accepted(head)
  BY DEF ReceiveFirst, b
<1> QED
  BY <1>2, <1>3, <1>4, <1>5, PutInBuilder

(* ReceiveNext: the packet was missing.  If it was the last one, the        *)
(* builder goes, with one copy of each packet, and the message is one more. *)
LEMMA NextKeeps ==
  ASSUME IInv, ReceiveNext
  PROVE  IInv'
<1>1. PICK m : m = head[1]
  OBVIOUS
<1>2. PICK b : b = Insert(recvd[m], head)
  OBVIOUS
<1>3. /\ head \in Datagram /\ m \in Message /\ head[2] \in 0 .. LastSeq(m)
      /\ SeqNum(head) = head[2] /\ head # NoDatagram /\ Accepted(head)
  BY <1>1, AtHead DEF ReceiveNext
<1>4. /\ BuildersOK /\ ForwardedOK /\ lost \in [Datagram -> Nat]
      /\ recvd[m].got \subseteq 0 .. LastSeq(m) /\ "got" \in DOMAIN recvd[m]
  BY <1>3 DEF IInv, CountsOK, BuildersOK
<1>5. "got" \in DOMAIN b /\ b.got = recvd[m].got \cup {head[2]}
  BY <1>2, <1>3, <1>4 DEF Insert
<1>6. b.got \subseteq 0 .. LastSeq(m)
  BY <1>3, <1>4, <1>5
<1>7. /\ head[2] \notin recvd[m].got /\ head' = NoDatagram /\ UNCHANGED <<net, lost>>
      /\ IF Finished(b, m) THEN recvd' = [recvd EXCEPT ![m] = NoBuilder] /\ Forward(m, b.buf)
                           ELSE recvd' = [recvd EXCEPT ![m] = b] /\ UNCHANGED forwarded
  BY <1>1, <1>2, <1>3 DEF ReceiveNext
<1>8. CASE ~Finished(b, m)
  <2>1. b.got # 0 .. LastSeq(m)
    BY <1>3, <1>6, <1>8, FinishedHasAll
  <2> QED
    BY <1>1, <1>3, <1>5, <1>7, <1>8, <2>1, PutInBuilder
<1>9. CASE Finished(b, m)
  <2>1. b.got = 0 .. LastSeq(m)
    BY <1>3, <1>6, <1>9, FinishedHasAll
  <2>2. BuildersOK' /\ recvd'[m] = NoBuilder /\ \A n \in Message : n # m => recvd'[n] = recvd[n]
    <3>1. /\ "got" \in DOMAIN NoBuilder /\ NoBuilder.got \subseteq 0 .. LastSeq(m)
          /\ NoBuilder.got # 0 .. LastSeq(m)
      BY <1>3, NoBuilderLacksAll
    <3>2. recvd' = [recvd EXCEPT ![m] = NoBuilder]
      BY <1>7, <1>9
    <3> QED
      BY <1>3, <1>4, <3>1, <3>2, BuilderReplaced
  <2>3. /\ ForwardedOK' /\ Times(m)' = Times(m) + 1
        /\ \A n \in Message : n # m => Times(n)' = Times(n)
    BY <1>3, <1>7, <1>9, ForwardCounts DEF Times
  <2>4. ASSUME NEW d \in Datagram
        PROVE  /\ Held(d)' + Times(d[1])' + lost'[d] = Held(d) + Times(d[1]) + lost[d]
               /\ Held(d)' \in Nat /\ Times(d[1])' \in Nat
    <3>1. d[1] \in Message /\ d # NoDatagram /\ d[2] \in 0 .. LastSeq(d[1])
      BY DatagramIsPacket
    <3>2. Held(d) \in Nat /\ Times(d[1]) \in Nat /\ lost[d] \in Nat
      BY Amounts
    <3>3. lost'[d] = lost[d]
      BY <1>7
    <3>4. CASE d[1] = m
      <4>1. Held(d)' = 0
        BY <1>7, <2>2, <3>1, <3>4, HeldWillBe, NoBuilderLacksAll
      <4>2. Held(d) = 1
        <5>1. CASE d[2] = head[2]
          <6>1. d = head
            BY <1>1, <1>3, <3>4, <5>1, SamePacket
          <6> QED
            BY <1>7, <3>4, <5>1, <6>1, HeldIs
        <5>2. CASE d[2] # head[2]
          <6>1. d[2] \in recvd[d[1]].got
            BY <1>5, <2>1, <3>1, <3>4, <5>2
          <6> QED
            BY <5>2, <6>1, HeldIs
        <5> QED
          BY <5>1, <5>2
      <4>3. Times(d[1])' = Times(d[1]) + 1
        BY <2>3, <3>4
      <4> QED
        BY <3>2, <3>3, <4>1, <4>2, <4>3
    <3>5. CASE d[1] # m
      <4>1. Held(d)' = Held(d)
        BY <1>1, <1>7, <2>2, <3>1, <3>5, HeldIs, HeldWillBe
      <4>2. Times(d[1])' = Times(d[1])
        BY <2>3, <3>1, <3>5
      <4> QED
        BY <3>2, <3>3, <4>1, <4>2
    <3> QED
      BY <3>4, <3>5
  <2> QED
    BY <1>4, <1>7, <2>2, <2>3, <2>4, MovesKeep
<1> QED
  BY <1>8, <1>9

(* Expire: whatever builder is there goes, and its copies are lost.         *)
LEMMA ExpireKeeps ==
  ASSUME IInv, NEW m \in Message, Expire(m)
  PROVE  IInv'
<1>1. BuildersOK /\ ForwardedOK /\ lost \in [Datagram -> Nat]
  BY DEF IInv, CountsOK
<1>2. /\ recvd' = [recvd EXCEPT ![m] = NoBuilder] /\ UNCHANGED <<net, head, forwarded>>
      /\ lost' = [d \in Datagram |->
                    IF d[1] = m /\ SeqNum(d) \in recvd[m].got THEN lost[d] + 1 ELSE lost[d]]
  BY DEF Expire
<1>3. BuildersOK' /\ recvd'[m] = NoBuilder /\ \A n \in Message : n # m => recvd'[n] = recvd[n]
  BY <1>1, <1>2, NoBuilderLacksAll, BuilderReplaced
<1>4. ForwardedOK'
  BY <1>1, <1>2 DEF ForwardedOK
<1>5. lost' \in [Datagram -> Nat]
  BY <1>1, <1>2
<1>6. ASSUME NEW d \in Datagram
      PROVE  /\ Held(d)' + Times(d[1])' + lost'[d] = Held(d) + Times(d[1]) + lost[d]
             /\ Held(d)' \in Nat /\ Times(d[1])' \in Nat
  <2>1. d[1] \in Message /\ SeqNum(d) = d[2]
    BY DatagramIsPacket
  <2>2. Held(d) \in Nat /\ Times(d[1]) \in Nat /\ lost[d] \in Nat
    BY Amounts
  <2>3. Times(d[1])' = Times(d[1])
    BY <1>2 DEF Times
  <2>4. CASE d[1] = m /\ d[2] \in recvd[m].got
    <3>1. Held(d) = Held(d)' + 1 /\ Held(d)' \in Nat
      BY <1>2, <1>3, <2>4, HeldIs, HeldWillBe, NoBuilderLacksAll
    <3>2. lost'[d] = lost[d] + 1
      BY <1>2, <2>1, <2>4
    <3> QED
      BY <2>2, <2>3, <3>1, <3>2
  <2>5. CASE ~(d[1] = m /\ d[2] \in recvd[m].got)
    <3>1. d[2] \in recvd'[d[1]].got <=> d[2] \in recvd[d[1]].got
      BY <1>3, <2>1, <2>5, NoBuilderLacksAll
    <3>2. Held(d)' = Held(d)
      BY <1>2, <3>1, HeldIs, HeldWillBe
    <3>3. lost'[d] = lost[d]
      BY <1>2, <2>1, <2>5
    <3> QED
      BY <2>2, <2>3, <3>2, <3>3
  <2> QED
    BY <2>4, <2>5
<1> QED
  BY <1>2, <1>3, <1>4, <1>5, <1>6, MovesKeep

LEMMA StutterKeeps ==
  ASSUME IInv, UNCHANGED vars
  PROVE  IInv'
<1>1. BuildersOK /\ ForwardedOK /\ lost \in [Datagram -> Nat]
  BY DEF IInv, CountsOK
<1>2. UNCHANGED <<net, head, recvd, forwarded, lost>>
  BY DEF vars, net
<1>3. BuildersOK' /\ ForwardedOK'
  BY <1>1, <1>2 DEF BuildersOK, ForwardedOK
<1>4. ASSUME NEW d \in Datagram
      PROVE  /\ Held(d)' + Times(d[1])' + lost'[d] = Held(d) + Times(d[1]) + lost[d]
             /\ Held(d)' \in Nat /\ Times(d[1])' \in Nat
  <2>1. Held(d)' = Held(d) /\ Times(d[1])' = Times(d[1]) /\ lost'[d] = lost[d]
    BY <1>2 DEF Held, Times
  <2> QED
    BY <2>1, Amounts
<1> QED
  BY <1>1, <1>2, <1>3, <1>4, MovesKeep

LEMMA NextIInv == IInv /\ [Next]_vars => IInv'
<1> SUFFICES ASSUME IInv, [Next]_vars PROVE IInv'
  OBVIOUS
<1>1. ASSUME NEW m \in Message, Send(m) \/ TimerFires(m) PROVE IInv'
  BY <1>1, NetworkKeeps
<1>2. ASSUME NEW m \in Message, Expire(m) PROVE IInv'
  BY <1>2, ExpireKeeps
<1>3. ASSUME Network \/ Reject PROVE IInv'
  BY <1>3, NetworkKeeps
<1>4. CASE ReceiveOnly
  BY <1>4, OnlyKeeps
<1>5. CASE ReceiveFirst
  BY <1>5, FirstKeeps
<1>6. CASE ReceiveNext
  BY <1>6, NextKeeps
<1>7. CASE UNCHANGED vars
  BY <1>7, StutterKeeps
<1> QED
  BY <1>1, <1>2, <1>3, <1>4, <1>5, <1>6, <1>7 DEF Next, Receive

(* No packet is dropped or used twice by the receiver, whatever the         *)
(* messages and their sizes and whatever the network and the timers do      *)
(* (udp_receiver.rs:11-64, packets.rs:48-96).                               *)
THEOREM PacketsConserved == Spec => []Conserved
<1>1. IInv => Conserved
  BY DEF IInv
<1> QED
  BY <1>1, InitIInv, NextIInv, PTL DEF Spec
-----------------------------------------------------------------------------
(* What is in the buffers.                                                  *)

LEMMA MinIs ==
  ASSUME NEW a \in Int, NEW b \in Int
  PROVE  Min({a, b}) = IF a <= b THEN a ELSE b
<1> DEFINE least == IF a <= b THEN a ELSE b
<1>1. least \in {a, b} /\ \A y \in {a, b} : least <= y
  OBVIOUS
<1>2. \A x \in {a, b} : (\A y \in {a, b} : x <= y) => x = least
  OBVIOUS
<1> HIDE DEF least
<1>3. (CHOOSE x \in {a, b} : \A y \in {a, b} : x <= y) = least
  BY <1>1, <1>2
<1> QED
  BY <1>3 DEF Min, least

LEMMA Sizes ==
  ASSUME NEW m \in Message
  PROVE  /\ HeaderSize \in Nat \ {0} /\ Payload \in Nat \ {0} /\ Total(m) \in Nat \ {0}
         /\ BufLen(m) = HeaderSize + Total(m) /\ BufLen(m) \in Nat \ {0}
         /\ LastSeq(m) = (Total(m) - 1) \div Payload
BY PacketsAssumption DEF Total, BufLen, LastSeq

LEMMA Division ==
  ASSUME NEW a \in Nat, NEW b \in Nat \ {0}
  PROVE  /\ a \div b \in Nat
         /\ (a \div b) * b <= a /\ a < (a \div b) * b + b
OBVIOUS

LEMMA DivisionGrows ==
  ASSUME NEW a \in Nat, NEW c \in Nat, NEW b \in Nat \ {0}, a <= c
  PROVE  a \div b <= c \div b
<1> DEFINE p == a \div b
           q == c \div b
<1>1. p \in Nat /\ q \in Nat /\ p * b <= a /\ c < q * b + b
  BY Division
<1> HIDE DEF p, q
<1>2. SUFFICES ASSUME p > q PROVE FALSE
  BY <1>1 DEF p, q
<1>3. \A n \in Nat : n * b >= 0 /\ n * b \in Nat
  OBVIOUS
<1>4. PICK n \in Nat : p = q + 1 + n
  <2>1. p - q - 1 \in Nat /\ p = q + 1 + (p - q - 1)
    BY <1>1, <1>2
  <2> QED
    BY <2>1
<1>5. p * b = q * b + b + n * b
  BY <1>1, <1>4
<1> QED
  BY <1>1, <1>3, <1>5

Position(m) == 0 .. BufLen(m) - 1

\* The place packet k has in the buffer.
InPlace(k, x) == k * Payload + HeaderSize <= x /\ x < k * Payload + HeaderSize + Payload

\* What the builder has got is in its place; the room for a header is blank.
BufferOK(m, b) ==
  /\ b \in BuilderOf(m)
  /\ \A x \in Position(m) : x < HeaderSize => b.buf[x] = Blank
  /\ \A k \in b.got, x \in Position(m) : InPlace(k, x) => b.buf[x] = <<m, x - HeaderSize>>

LEMMA BuilderIs ==
  ASSUME NEW m \in Message, NEW b \in BuilderOf(m)
  PROVE  /\ b.got \in SUBSET (0 .. LastSeq(m)) /\ b.buf \in [Position(m) -> Unit]
         /\ b.armed \in BOOLEAN /\ "got" \in DOMAIN b
         /\ b = [got |-> b.got, buf |-> b.buf, armed |-> b.armed]
BY LastSeqIsNat DEF BuilderOf, Position

LEMMA BuilderHas ==
  ASSUME NEW m \in Message, NEW got \in SUBSET (0 .. LastSeq(m)),
         NEW buf \in [Position(m) -> Unit], NEW armed \in BOOLEAN
  PROVE  [got |-> got, buf |-> buf, armed |-> armed] \in BuilderOf(m)
BY LastSeqIsNat DEF BuilderOf, Position

(* A packet is received into its place and nowhere else: the header, which  *)
(* is received over the packet before it, leaves nothing behind.            *)
LEMMA InsertIs ==
  ASSUME NEW m \in Message, NEW b \in BuilderOf(m), NEW k \in 0 .. LastSeq(m)
  PROVE  LET c == Insert(b, <<m, k>>) IN
         /\ c = [got |-> b.got \cup {k}, buf |-> c.buf, armed |-> b.armed]
         /\ c.buf = [x \in Position(m) |-> c.buf[x]]
         /\ \A x \in Position(m) :
              c.buf[x] = IF InPlace(k, x) THEN <<m, x - HeaderSize>> ELSE b.buf[x]
<1> DEFINE d == <<m, k>>
           s == k * Payload
           H == HeaderSize
           received == Received(b, d)
           buf == [x \in Position(m) |->
                     IF x >= s /\ x < s + H THEN b.buf[x] ELSE received[x]]
<1>1. d \in Datagram /\ SeqNum(d) = k /\ d[1] = m /\ d[2] = k
  BY PacketIsDatagram, DatagramIsPacket
<1>2. /\ H \in Nat /\ Payload \in Nat /\ Total(m) \in Nat /\ k \in Nat /\ s \in Nat
      /\ BufLen(m) = H + Total(m)
  <2>1. H \in Nat /\ Payload \in Nat /\ Total(m) \in Nat /\ BufLen(m) = H + Total(m)
    BY Sizes
  <2>2. k \in Nat
    BY LastSeqIsNat
  <2>3. \A i, j \in Nat : i * j \in Nat
    OBVIOUS
  <2> QED
    BY <2>1, <2>2, <2>3
<1>3. DOMAIN b.buf = Position(m) /\ Cardinality(DOMAIN b.buf) = BufLen(m)
  <2>1. DOMAIN b.buf = Position(m)
    BY BuilderIs
  <2>2. BufLen(m) \in Nat /\ BufLen(m) > 0
    BY Sizes
  <2>3. 0 \in Int /\ BufLen(m) - 1 \in Int /\ ~(0 > BufLen(m) - 1)
    BY <2>2
  <2>4. Cardinality(0 .. BufLen(m) - 1) = (BufLen(m) - 1) - 0 + 1
    BY <2>3, FS_Interval
  <2> QED
    BY <2>1, <2>2, <2>4 DEF Position
<1>4. Insert(b, d) = [got |-> b.got \cup {k}, buf |-> buf, armed |-> b.armed]
  <2>1. Insert(b, d) = [b EXCEPT !.got = @ \cup {k},
                                 !.buf = [x \in DOMAIN @ |->
                                            IF x >= s /\ x < s + H THEN @[x] ELSE received[x]]]
    BY <1>1 DEF Insert
  <2> HIDE DEF received, s, H
  <2>2. b = [got |-> b.got, buf |-> b.buf, armed |-> b.armed]
    BY BuilderIs
  <2> QED
    BY <1>3, <2>1, <2>2
<1>5. ASSUME NEW x \in Position(m)
      PROVE  buf[x] = IF InPlace(k, x) THEN <<m, x - H>> ELSE b.buf[x]
  <2> DEFINE limit == Min({SliceEnd(b, d), s + DatagramLen(d)})
             length == DatagramLen(d)
             end == SliceEnd(b, d)
  <2>1. x \in Nat /\ x < H + Total(m)
    BY <1>2 DEF Position
  <2>2. length = H + (IF Payload <= Total(m) - s THEN Payload ELSE Total(m) - s)
    <3>1. Total(m) - s \in Int /\ Payload \in Int
      BY <1>2
    <3> QED
      BY <1>1, <3>1, MinIs DEF DatagramLen
  <2>3. end = IF s + H + Payload <= BufLen(m) THEN s + H + Payload ELSE BufLen(m)
    <3>1. s + H + Payload \in Int /\ BufLen(m) \in Int
      BY <1>2
    <3> QED
      BY <1>1, <1>3, <3>1, MinIs DEF SliceEnd
  <2> HIDE DEF s, H, length, end
  <2>4. length \in Int /\ end \in Int
    BY <1>2, <2>2, <2>3
  <2>5. limit = IF end <= s + length THEN end ELSE s + length
    <3>1. s + length \in Int
      BY <1>2, <2>4
    <3> QED
      BY <2>4, <3>1, MinIs DEF end, length
  <2> HIDE DEF limit
  <2>6. x < limit <=> x < s + H + Payload
    BY <1>2, <2>1, <2>2, <2>3, <2>4, <2>5
  <2>7. received[x] = IF x >= s /\ x < limit THEN DatagramUnit(d, x - s) ELSE b.buf[x]
    BY <1>1, <1>3 DEF Received, limit, s
  <2>8. InPlace(k, x) <=> s + H <= x /\ x < s + H + Payload
    BY DEF InPlace, s, H
  <2>9. CASE InPlace(k, x)
    <3>1. ~(x >= s /\ x < s + H) /\ x >= s /\ x < limit /\ ~(x - s < H)
      BY <1>2, <2>1, <2>6, <2>8, <2>9
    <3>2. s + (x - s) - H = x - H
      BY <1>2, <2>1
    <3>3. DatagramUnit(d, x - s) = <<m, s + (x - s) - H>>
      BY <1>1, <3>1 DEF DatagramUnit, s, H
    <3> QED
      BY <2>7, <2>9, <3>1, <3>2, <3>3
  <2>10. CASE ~InPlace(k, x)
    <3>1. (x >= s /\ x < s + H) \/ ~(x >= s /\ x < limit)
      BY <1>2, <2>1, <2>6, <2>8, <2>10
    <3> QED
      BY <2>7, <2>10, <3>1
  <2> QED
    BY <2>9, <2>10
<1> HIDE DEF buf
<1>6. Insert(b, d).buf = buf /\ buf = [x \in Position(m) |-> buf[x]]
  BY <1>4 DEF buf
<1> QED
  BY <1>4, <1>5, <1>6

LEMMA InsertKeepsBuffer ==
  ASSUME NEW m \in Message, NEW b, BufferOK(m, b), NEW k \in 0 .. LastSeq(m)
  PROVE  BufferOK(m, Insert(b, <<m, k>>))
<1> DEFINE c == Insert(b, <<m, k>>)
<1>1. b \in BuilderOf(m) /\ b.buf \in [Position(m) -> Unit] /\ b.got \subseteq 0 .. LastSeq(m)
      /\ b.armed \in BOOLEAN
  BY BuilderIs DEF BufferOK
<1>2. /\ c = [got |-> b.got \cup {k}, buf |-> c.buf, armed |-> b.armed]
      /\ c.buf = [x \in Position(m) |-> c.buf[x]]
      /\ \A x \in Position(m) :
           c.buf[x] = IF InPlace(k, x) THEN <<m, x - HeaderSize>> ELSE b.buf[x]
  BY <1>1, InsertIs
<1> HIDE DEF c
<1>3. /\ HeaderSize \in Nat /\ Payload \in Nat /\ Position(m) \subseteq Nat
      /\ \A i \in 0 .. LastSeq(m) : i * Payload \in Nat
  <2>1. HeaderSize \in Nat /\ Payload \in Nat /\ BufLen(m) \in Nat /\ LastSeq(m) \in Nat
    BY Sizes, LastSeqIsNat
  <2>2. \A i, j \in Nat : i * j \in Nat
    OBVIOUS
  <2> QED
    BY <2>1, <2>2 DEF Position
<1>4. \A x \in Position(m) :
        InPlace(k, x) => x - HeaderSize \in Nat /\ ~(x < HeaderSize)
  <2> SUFFICES ASSUME NEW x \in Position(m), InPlace(k, x)
               PROVE  x - HeaderSize \in Nat /\ ~(x < HeaderSize)
    OBVIOUS
  <2> DEFINE s == k * Payload
  <2>1. s \in Nat /\ s + HeaderSize <= x /\ x \in Nat
    BY <1>3 DEF InPlace
  <2> HIDE DEF s
  <2> QED
    BY <1>3, <2>1
<1>5. c.buf \in [Position(m) -> Unit]
  <2>1. \A n \in Nat : <<m, n>> \in Unit
    BY DEF Unit
  <2>2. ASSUME NEW x \in Position(m) PROVE c.buf[x] \in Unit
    <3>1. CASE InPlace(k, x)
      BY <1>2, <1>4, <2>1, <3>1
    <3>2. CASE ~InPlace(k, x)
      BY <1>1, <1>2, <3>2
    <3> QED
      BY <3>1, <3>2
  <2> QED
    BY <1>2, <2>2
<1>6. c \in BuilderOf(m)
  <2>1. b.got \cup {k} \in SUBSET (0 .. LastSeq(m))
    BY <1>1
  <2> QED
    BY <1>1, <1>2, <1>5, <2>1, BuilderHas
<1>7. c.got = b.got \cup {k}
  BY <1>2
<1>8. \A x \in Position(m) : x < HeaderSize => c.buf[x] = Blank
  BY <1>2, <1>4 DEF BufferOK
<1>9. \A i \in c.got, x \in Position(m) : InPlace(i, x) => c.buf[x] = <<m, x - HeaderSize>>
  BY <1>2, <1>7 DEF BufferOK
<1> QED
  BY <1>6, <1>8, <1>9 DEF BufferOK, c

LEMMA NewBufferOK ==
  ASSUME NEW m \in Message
  PROVE  BufferOK(m, NewBuilder(m))
<1>1. NewBuilder(m) = [got |-> {}, buf |-> [x \in Position(m) |-> Blank], armed |-> FALSE]
  BY DEF NewBuilder, Builder, Position
<1>2. [x \in Position(m) |-> Blank] \in [Position(m) -> Unit]
  BY DEF Unit
<1>3. NewBuilder(m) \in BuilderOf(m)
  BY <1>1, <1>2, BuilderHas
<1> QED
  BY <1>1, <1>3 DEF BufferOK

(* Every place is some packet's: with all packets the buffer is whole.      *)
LEMMA AllIsWhole ==
  ASSUME NEW m \in Message, NEW b, BufferOK(m, b), b.got = 0 .. LastSeq(m)
  PROVE  b.buf = Whole(m)
<1>1. b.buf = [x \in Position(m) |-> b.buf[x]]
  BY BuilderIs DEF BufferOK
<1>2. ASSUME NEW x \in Position(m), ~(x < HeaderSize)
      PROVE  b.buf[x] = <<m, x - HeaderSize>>
  <2> DEFINE j == x - HeaderSize
             k == j \div Payload
  <2>1. /\ HeaderSize \in Nat /\ Payload \in Nat \ {0} /\ Total(m) \in Nat \ {0}
        /\ BufLen(m) = HeaderSize + Total(m) /\ LastSeq(m) = (Total(m) - 1) \div Payload
    BY Sizes
  <2>2. x \in Nat /\ j \in Nat /\ j <= Total(m) - 1 /\ Total(m) - 1 \in Nat
    BY <1>2, <2>1 DEF Position
  <2>3. k \in Nat /\ k * Payload <= j /\ j < k * Payload + Payload
    BY <2>1, <2>2, Division
  <2>4. k <= LastSeq(m)
    BY <2>1, <2>2, DivisionGrows
  <2>5. k \in b.got
    BY <2>3, <2>4, LastSeqIsNat
  <2> HIDE DEF k
  <2> DEFINE s == k * Payload
  <2>6. s \in Nat
    <3>1. \A i, n \in Nat : i * n \in Nat
      OBVIOUS
    <3> QED
      BY <2>1, <2>3, <3>1
  <2>7. s <= x - HeaderSize /\ x - HeaderSize < s + Payload
    BY <2>3
  <2> HIDE DEF s
  <2>8. s + HeaderSize <= x /\ x < s + HeaderSize + Payload
    BY <2>1, <2>2, <2>6, <2>7
  <2>9. InPlace(k, x)
    BY <2>8 DEF InPlace, s
  <2> QED
    BY <2>5, <2>9 DEF BufferOK
<1>3. \A x \in Position(m) :
        b.buf[x] = IF x < HeaderSize THEN Blank ELSE <<m, x - HeaderSize>>
  BY <1>2 DEF BufferOK
<1> QED
  BY <1>1, <1>3 DEF Whole, Position

LEMMA Rearmed ==
  ASSUME NEW m \in Message, NEW b, BufferOK(m, b), NEW armed \in BOOLEAN
  PROVE  BufferOK(m, [b EXCEPT !.armed = armed])
<1>1. /\ b.got \in SUBSET (0 .. LastSeq(m)) /\ b.buf \in [Position(m) -> Unit]
      /\ b = [got |-> b.got, buf |-> b.buf, armed |-> b.armed]
  BY BuilderIs DEF BufferOK
<1>2. [b EXCEPT !.armed = armed] = [got |-> b.got, buf |-> b.buf, armed |-> armed]
  BY <1>1
<1>3. [b EXCEPT !.armed = armed] \in BuilderOf(m)
  BY <1>1, <1>2, BuilderHas
<1> QED
  BY <1>2, <1>3 DEF BufferOK

\* Builders hold what has come, and the registry got nothing but whole messages.
Content ==
  /\ \A m \in Message : recvd[m] = NoBuilder \/ BufferOK(m, recvd[m])
  /\ \A m \in Message : forwarded[m] \in Seq({Whole(m)})

\* The types that neither Content nor IInv speaks of.
Rest ==
  /\ sends \in [Message -> 0 .. MaxSends] /\ repeated \in [Datagram -> 0 .. MaxRepeats]
  /\ detached \in [Message -> Nat] /\ expired \in [Message -> Nat]
  /\ strays \in 0 .. MaxStrays

\* One builder is put in place of another, or goes.
LEMMA ContentBuilder ==
  ASSUME IInv, Content, NEW m \in Message, NEW b, b = NoBuilder \/ BufferOK(m, b),
         recvd' = [recvd EXCEPT ![m] = b], UNCHANGED forwarded
  PROVE  Content'
<1>1. recvd'[m] = b /\ \A n \in Message : n # m => recvd'[n] = recvd[n]
  BY DEF IInv, BuildersOK
<1> QED
  BY <1>1 DEF Content

\* A whole message goes to the registry; its builder, if any, is gone.
LEMMA ContentForward ==
  ASSUME IInv, Content, NEW m \in Message, Forward(m, Whole(m)),
         recvd' = recvd \/ recvd' = [recvd EXCEPT ![m] = NoBuilder]
  PROVE  Content'
<1>1. \A n \in Message : recvd'[n] \in {recvd[n], NoBuilder}
  BY DEF IInv, BuildersOK
<1>2. /\ forwarded'[m] = Append(forwarded[m], Whole(m))
      /\ \A n \in Message : n # m => forwarded'[n] = forwarded[n]
  BY DEF IInv, ForwardedOK, Forward
<1>3. forwarded'[m] \in Seq({Whole(m)})
  BY <1>2 DEF Content
<1>4. \A n \in Message : forwarded'[n] \in Seq({Whole(n)})
  BY <1>2, <1>3 DEF Content
<1>5. \A n \in Message : recvd'[n] = NoBuilder \/ BufferOK(n, recvd'[n])
  BY <1>1 DEF Content
<1> QED
  BY <1>4, <1>5 DEF Content

LEMMA ContentOnly ==
  ASSUME IInv, Content, ReceiveOnly
  PROVE  Content'
<1>1. PICK m \in Message : m = head[1]
  BY AtHead DEF ReceiveOnly
<1> DEFINE b == Insert(NewBuilder(m), head)
<1>2. /\ head[2] \in 0 .. LastSeq(m) /\ head = <<m, head[2]>> /\ LastSeq(m) = 0
      /\ Forward(m, b.buf) /\ recvd' = recvd /\ SeqNum(head) = head[2]
  BY <1>1, AtHead DEF ReceiveOnly
<1>3. BufferOK(m, b)
  BY <1>2, NewBufferOK, InsertKeepsBuffer
<1>4. b.got = 0 .. LastSeq(m)
  <2>1. b.got = {head[2]}
    BY <1>2 DEF Insert, NewBuilder, Builder
  <2>2. 0 .. LastSeq(m) = {0} /\ head[2] = 0
    BY <1>2
  <2> QED
    BY <2>1, <2>2
<1> HIDE DEF b
<1>5. b.buf = Whole(m)
  BY <1>3, <1>4, AllIsWhole
<1> QED
  BY <1>2, <1>5, ContentForward

LEMMA ContentFirst ==
  ASSUME IInv, Content, ReceiveFirst
  PROVE  Content'
<1>1. PICK m \in Message : m = head[1]
  BY AtHead DEF ReceiveFirst
<1> DEFINE b == [Insert(NewBuilder(m), head) EXCEPT !.armed = TRUE]
<1>2. /\ head[2] \in 0 .. LastSeq(m) /\ head = <<m, head[2]>>
      /\ recvd' = [recvd EXCEPT ![m] = b] /\ UNCHANGED forwarded
  BY <1>1, AtHead DEF ReceiveFirst
<1>3. BufferOK(m, b)
  <2>1. BufferOK(m, Insert(NewBuilder(m), head))
    BY <1>2, NewBufferOK, InsertKeepsBuffer
  <2> QED
    BY <2>1, Rearmed
<1> HIDE DEF b
<1> QED
  BY <1>2, <1>3, ContentBuilder

LEMMA ContentNext ==
  ASSUME IInv, Content, ReceiveNext
  PROVE  Content'
<1>1. PICK m \in Message : m = head[1]
  BY AtHead DEF ReceiveNext
<1>2. PICK b : b = Insert(recvd[m], head)
  OBVIOUS
<1>3. /\ head[2] \in 0 .. LastSeq(m) /\ head = <<m, head[2]>> /\ recvd[m] # NoBuilder
      /\ IF Finished(b, m) THEN recvd' = [recvd EXCEPT ![m] = NoBuilder] /\ Forward(m, b.buf)
                           ELSE recvd' = [recvd EXCEPT ![m] = b] /\ UNCHANGED forwarded
  BY <1>1, <1>2, AtHead DEF ReceiveNext
<1>4. BufferOK(m, b)
  BY <1>2, <1>3, InsertKeepsBuffer DEF Content
<1>5. CASE Finished(b, m)
  <2>1. b.got \subseteq 0 .. LastSeq(m)
    BY <1>4, BuilderIs DEF BufferOK
  <2>2. b.buf = Whole(m)
    BY <1>4, <1>5, <2>1, FinishedHasAll, AllIsWhole
  <2> QED
    BY <1>3, <1>5, <2>2, ContentForward
<1>6. CASE ~Finished(b, m)
  BY <1>3, <1>4, <1>6, ContentBuilder
<1> QED
  BY <1>5, <1>6

LEMMA ContentTimer ==
  ASSUME IInv, Content, NEW m \in Message, TimerFires(m)
  PROVE  Content'
<1>1. CASE UNCHANGED recvd
  BY <1>1 DEF TimerFires, Content
<1>2. CASE recvd[m].armed /\ recvd' = [recvd EXCEPT ![m].armed = FALSE]
  <2>1. recvd[m] # NoBuilder
    BY <1>2 DEF NoBuilder, Builder
  <2>2. BufferOK(m, [recvd[m] EXCEPT !.armed = FALSE])
    BY <2>1, Rearmed DEF Content
  <2>3. recvd' = [recvd EXCEPT ![m] = [recvd[m] EXCEPT !.armed = FALSE]] /\ UNCHANGED forwarded
    BY <1>2 DEF TimerFires
  <2> QED
    BY <2>2, <2>3, ContentBuilder
<1> QED
  BY <1>1, <1>2 DEF TimerFires

LEMMA NextContent == IInv /\ Content /\ [Next]_vars => Content'
<1> SUFFICES ASSUME IInv, Content, [Next]_vars PROVE Content'
  OBVIOUS
<1>1. ASSUME NEW m \in Message, Send(m) PROVE Content'
  BY <1>1 DEF Send, Content
<1>2. CASE Network \/ Reject \/ UNCHANGED vars
  <2>1. UNCHANGED <<recvd, forwarded>>
    BY <1>2 DEF Network, Lose, Repeat, Arrive, ArriveStray, Reject, vars
  <2> QED
    BY <2>1 DEF Content
<1>3. ASSUME NEW m \in Message, Expire(m) PROVE Content'
  BY <1>3, ContentBuilder DEF Expire
<1> QED
  BY <1>1, <1>2, <1>3, ContentTimer, ContentOnly, ContentFirst, ContentNext DEF Next, Receive

LEMMA NextRest == Rest /\ [Next]_vars => Rest'
<1> SUFFICES ASSUME Rest, [Next]_vars PROVE Rest'
  OBVIOUS
<1>0. /\ MaxSends \in Nat /\ MaxRepeats \in Nat /\ MaxStrays \in Nat
      /\ sends \in [Message -> 0 .. MaxSends] /\ repeated \in [Datagram -> 0 .. MaxRepeats]
      /\ detached \in [Message -> Nat] /\ expired \in [Message -> Nat]
      /\ strays \in 0 .. MaxStrays
  BY PacketsAssumption DEF Rest
<1>1. ASSUME NEW m \in Message, Send(m) PROVE Rest'
  <2>1. sends[m] + 1 \in 0 .. MaxSends
    BY <1>0, <1>1 DEF Send
  <2> QED
    BY <1>0, <1>1, <2>1 DEF Send, Rest
<1>2. ASSUME NEW d \in Datagram, Repeat(d) PROVE Rest'
  <2>1. repeated[d] + 1 \in 0 .. MaxRepeats
    BY <1>0, <1>2 DEF Repeat
  <2> QED
    BY <1>0, <1>2, <2>1 DEF Repeat, Rest
<1>3. ASSUME ArriveStray PROVE Rest'
  <2>1. strays + 1 \in 0 .. MaxStrays
    BY <1>0, <1>3 DEF ArriveStray
  <2> QED
    BY <1>0, <1>3, <2>1 DEF ArriveStray, Rest
<1>4. ASSUME NEW d \in Datagram, Lose(d) \/ Arrive(d) PROVE Rest'
  BY <1>0, <1>4 DEF Lose, Arrive, Rest
<1>5. ASSUME NEW m \in Message, TimerFires(m) PROVE Rest'
  <2>1. expired[m] + 1 \in Nat /\ (detached[m] > 0 => detached[m] - 1 \in Nat)
    BY <1>0
  <2>2. detached' \in [Message -> Nat] /\ expired' \in [Message -> Nat]
    BY <1>0, <1>5, <2>1 DEF TimerFires
  <2> QED
    BY <1>0, <1>5, <2>2 DEF TimerFires, Rest, net
<1>6. ASSUME NEW m \in Message, Expire(m) PROVE Rest'
  <2>1. expired[m] - 1 \in Nat /\ detached[m] + 1 \in Nat
    BY <1>0, <1>6 DEF Expire
  <2> QED
    BY <1>0, <1>6, <2>1 DEF Expire, Rest, net
<1>7. CASE Receive \/ UNCHANGED vars
  BY <1>7 DEF Receive, Reject, ReceiveOnly, ReceiveFirst, ReceiveNext, vars, net, Rest
<1> QED
  BY <1>1, <1>2, <1>3, <1>4, <1>5, <1>6, <1>7 DEF Next, Network

LEMMA AlwaysContent == Spec => [](IInv /\ Content /\ Rest)
<1>1. Init => IInv /\ Content /\ Rest
  <2> SUFFICES ASSUME Init PROVE Content /\ Rest
    BY InitIInv
  <2>1. Content
    <3>1. \A m \in Message : <<>> \in Seq({Whole(m)})
      OBVIOUS
    <3> QED
      BY <3>1 DEF Init, Content
  <2>2. Rest
    <3>1. 0 \in 0 .. MaxSends /\ 0 \in 0 .. MaxRepeats /\ 0 \in 0 .. MaxStrays
      BY PacketsAssumption
    <3> QED
      BY <3>1 DEF Init, Rest
  <2> QED
    BY <2>1, <2>2
<1> QED
  BY <1>1, NextIInv, NextContent, NextRest, PTL DEF Spec

(* Whatever the order, the losses and the repetitions, every buffer handed  *)
(* to the registry is the whole message its id stands for: the header       *)
(* trick of packets.rs:48-83 damages no byte, and no message is cut short.  *)
THEOREM ForwardedAreWhole == Spec => []ForwardedWhole
<1>1. Content => ForwardedWhole
  <2> SUFFICES ASSUME Content, NEW m \in Message, NEW i \in DOMAIN forwarded[m]
               PROVE  forwarded[m][i] = Whole(m)
    BY DEF ForwardedWhole
  <2> DEFINE w == Whole(m)
  <2>1. forwarded[m] \in Seq({w})
    BY DEF Content
  <2> HIDE DEF w
  <2>2. forwarded[m][i] \in {w}
    BY <2>1
  <2> QED
    BY <2>2 DEF w
<1> QED
  BY <1>1, AlwaysContent, PTL

(* Buffers keep their length and a builder is never left finished, or with  *)
(* a packet that is none of its message.                                    *)
THEOREM TypeCorrect == Spec => []TypeOK
<1>1. IInv /\ Content /\ Rest => TypeOK
  <2> SUFFICES ASSUME IInv, Content, Rest PROVE TypeOK
    OBVIOUS
  <2>1. ASSUME NEW m \in Message
        PROVE  recvd[m] \in BuilderOf(m) \cup {NoBuilder} /\ ~Finished(recvd[m], m)
    <3>1. recvd[m].got \subseteq 0 .. LastSeq(m) /\ recvd[m].got # 0 .. LastSeq(m)
      BY DEF IInv, BuildersOK
    <3> QED
      BY <3>1, FinishedHasAll DEF Content, BufferOK
  <2>2. ASSUME NEW m \in Message
        PROVE  forwarded[m] \in Seq([0 .. BufLen(m) - 1 -> Unit])
    <3>1. Whole(m) \in [0 .. BufLen(m) - 1 -> Unit]
      <4>1. \A x \in Position(m) : ~(x < HeaderSize) => x - HeaderSize \in Nat
        BY Sizes DEF Position
      <4>2. Blank \in Unit /\ \A n \in Nat : <<m, n>> \in Unit
        BY DEF Unit
      <4> QED
        BY <4>1, <4>2 DEF Whole, Position
    <3> DEFINE S == [0 .. BufLen(m) - 1 -> Unit]
    <3>2. {Whole(m)} \subseteq S
      BY <3>1
    <3> HIDE DEF S
    <3>3. forwarded[m] \in Seq({Whole(m)})
      BY DEF Content
    <3>4. forwarded[m] \in Seq(S)
      BY <3>2, <3>3
    <3> QED
      BY <3>4 DEF S
  <2>3. DOMAIN forwarded = Message
    BY DEF IInv, ForwardedOK
  <2> QED
    BY <2>1, <2>2, <2>3 DEF TypeOK, IInv, CountsOK, Rest
<1> QED
  BY <1>1, AlwaysContent, PTL
-----------------------------------------------------------------------------
(* Fragments implement a channel of messages.                               *)

\* The copies of packet i of m that may still come, and how they come about.
There(m) == [i \in 0 .. LastSeq(m) |-> wire[<<m, i>>] + Held(<<m, i>>)]

ThereOK ==
  \A m \in Message : \A i \in 0 .. LastSeq(m) :
    /\ There(m)[i] \in Nat /\ There(m)[i] >= wire[<<m, i>>]
    /\ There(m)[i] = sends[m] + repeated[<<m, i>>] - Times(m) - lost[<<m, i>>]

LEMMA ThereIs == IInv => ThereOK
<1> SUFFICES ASSUME IInv, NEW m \in Message, NEW i \in 0 .. LastSeq(m)
             PROVE  /\ There(m)[i] \in Nat /\ There(m)[i] >= wire[<<m, i>>]
                    /\ There(m)[i] = sends[m] + repeated[<<m, i>>] - Times(m) - lost[<<m, i>>]
  BY DEF ThereOK
<1> DEFINE d == <<m, i>>
<1>1. d \in Datagram /\ d[1] = m
  BY PacketIsDatagram
<1>2. There(m)[i] = wire[d] + Held(d)
  BY DEF There
<1> HIDE DEF d
<1>3. /\ sends[m] \in Nat /\ repeated[d] \in Nat /\ wire[d] \in Nat /\ lost[d] \in Nat
      /\ Held(d) \in Nat /\ Times(m) \in Nat
  BY <1>1, Amounts DEF IInv, CountsOK
<1>4. sends[m] + repeated[d] = wire[d] + Held(d) + Times(m) + lost[d]
  BY <1>1 DEF IInv, Conserved, Times
<1>5. There(m)[i] \in Nat /\ There(m)[i] >= wire[d]
  BY <1>2, <1>3
<1>6. There(m)[i] = sends[m] + repeated[d] - Times(m) - lost[d]
  BY <1>2, <1>3, <1>4
<1> QED
  BY <1>5, <1>6 DEF d

LEMMA ThereAfter == IInv' => ThereOK'
BY ThereIs, PTL

LEMMA LessIs == \A y \in Nat, z \in Nat : y < z => <<y, z>> \in OpToRel(<, Nat)
BY DEF OpToRel

\* A set of numbers has a least one.
LEMMA LeastIs ==
  ASSUME NEW S \in SUBSET Nat, S # {}
  PROVE  Min(S) \in S /\ \A y \in S : Min(S) <= y
<1>1. S \subseteq Nat /\ S # {}
  OBVIOUS
<1>2. \E x \in S : \A y \in S : ~(<<y, x>> \in OpToRel(<, Nat))
  BY <1>1, NatLessThanWellFounded, WFMin, Zenon
<1>3. \E x \in S : \A y \in S : ~(y < x)
  BY <1>1, <1>2, LessIs, Zenon
<1>4. \E x \in S : \A y \in S : x <= y
  BY <1>1, <1>3
<1> QED
  BY <1>4 DEF Min

Least(n, f) == Min({f[i] : i \in 0 .. n})

LEMMA LeastOf ==
  ASSUME NEW n \in Nat, NEW f, \A i \in 0 .. n : f[i] \in Nat
  PROVE  /\ Least(n, f) \in Nat
         /\ \E i \in 0 .. n : Least(n, f) = f[i]
         /\ \A i \in 0 .. n : Least(n, f) <= f[i]
<1> DEFINE S == {f[i] : i \in 0 .. n}
<1>1. S \in SUBSET Nat
  OBVIOUS
<1>2. S # {}
  <2>1. 0 \in 0 .. n
    OBVIOUS
  <2>2. f[0] \in S
    BY <2>1
  <2> QED
    BY <2>2
<1>3. Min(S) \in S /\ \A y \in S : Min(S) <= y
  BY <1>1, <1>2, LeastIs
<1> QED
  BY <1>1, <1>3 DEF Least

\* How the least number moves when some or all of them do.
LEMMA LeastMoves ==
  ASSUME NEW n \in Nat, NEW f, NEW g, \A i \in 0 .. n : f[i] \in Nat /\ g[i] \in Nat
  PROVE  /\ (\A i \in 0 .. n : g[i] = f[i] + 1) => Least(n, g) = Least(n, f) + 1
         /\ (\A i \in 0 .. n : f[i] = g[i] + 1) => Least(n, f) = Least(n, g) + 1
         /\ (\A i \in 0 .. n : g[i] = f[i]) => Least(n, g) = Least(n, f)
         /\ (\A i \in 0 .. n : g[i] \in {f[i], f[i] + 1}) =>
              Least(n, g) \in {Least(n, f), Least(n, f) + 1}
<1> DEFINE a == Least(n, f)
           b == Least(n, g)
<1>1. a \in Nat /\ b \in Nat
  BY LeastOf
<1>2. PICK i \in 0 .. n : a = f[i] /\ \A k \in 0 .. n : a <= f[k]
  BY LeastOf
<1>3. PICK j \in 0 .. n : b = g[j] /\ \A k \in 0 .. n : b <= g[k]
  BY LeastOf
<1> HIDE DEF a, b
<1>4. a <= f[j] /\ b <= g[i] /\ f[i] \in Nat /\ f[j] \in Nat /\ g[i] \in Nat /\ g[j] \in Nat
  BY <1>2, <1>3
<1>5. (\A k \in 0 .. n : g[k] = f[k] + 1) => b = a + 1
  BY <1>1, <1>2, <1>3, <1>4
<1>6. (\A k \in 0 .. n : f[k] = g[k] + 1) => a = b + 1
  BY <1>1, <1>2, <1>3, <1>4
<1>7. (\A k \in 0 .. n : g[k] = f[k]) => b = a
  BY <1>1, <1>2, <1>3, <1>4
<1>8. (\A k \in 0 .. n : g[k] \in {f[k], f[k] + 1}) => b \in {a, a + 1}
  BY <1>1, <1>2, <1>3, <1>4
<1> QED
  BY <1>5, <1>6, <1>7, <1>8 DEF a, b

LEMMA AvailableIs ==
  ASSUME NEW m \in Message
  PROVE  Available(m) = Least(LastSeq(m), There(m)) /\ LastSeq(m) \in Nat
<1>1. LastSeq(m) \in Nat
  BY LastSeqIsNat
<1>2. {wire[d] + Held(d) : d \in {<<m, i>> : i \in 0 .. LastSeq(m)}}
        = {There(m)[i] : i \in 0 .. LastSeq(m)}
  BY DEF There
<1> QED
  BY <1>1, <1>2 DEF Available, Least

LEMMA AvailableAfter ==
  \A m \in Message : Available(m)' = Least(LastSeq(m), There(m)')
<1>1. \A m \in Message : Available(m) = Least(LastSeq(m), There(m))
  BY AvailableIs
<1>2. (\A m \in Message : Available(m) = Least(LastSeq(m), There(m)))'
  BY <1>1, PTL
<1> QED
  BY <1>2

\* In numbers, what there is of a packet before and after a step.
LEMMA Balance ==
  ASSUME IInv, IInv', NEW m \in Message, NEW i \in 0 .. LastSeq(m)
  PROVE  LET d == <<m, i>> IN
         /\ There(m)[i] \in Nat /\ There(m)'[i] \in Nat /\ There(m)[i] >= wire[d]
         /\ There(m)[i] = sends[m] + repeated[d] - Times(m) - lost[d]
         /\ There(m)'[i] = sends'[m] + repeated'[d] - Times(m)' - lost'[d]
         /\ sends[m] \in Nat /\ repeated[d] \in Nat /\ Times(m) \in Nat /\ lost[d] \in Nat
         /\ sends'[m] \in Nat /\ repeated'[d] \in Nat /\ Times(m)' \in Nat /\ lost'[d] \in Nat
         /\ wire[d] \in Nat /\ d \in Datagram
<1> DEFINE d == <<m, i>>
<1>1. d \in Datagram
  BY PacketIsDatagram
<1>2. Times(m) \in Nat
  BY LengthIsNat DEF Times
<1>3. Times(m)' \in Nat
  <2>1. PICK S : forwarded'[m] \in Seq(S)
    BY DEF IInv, ForwardedOK
  <2> QED
    BY <2>1 DEF Times
<1>4. /\ sends[m] \in Nat /\ repeated[d] \in Nat /\ lost[d] \in Nat /\ wire[d] \in Nat
      /\ sends'[m] \in Nat /\ repeated'[d] \in Nat /\ lost'[d] \in Nat
  BY <1>1 DEF IInv, CountsOK
<1>5. ThereOK /\ ThereOK'
  BY ThereIs, ThereAfter
<1> QED
  BY <1>1, <1>2, <1>3, <1>4, <1>5 DEF ThereOK

LEMMA Shift ==
  ASSUME IInv, IInv', NEW m \in Message, NEW i \in 0 .. LastSeq(m),
         repeated'[<<m, i>>] = repeated[<<m, i>>], lost'[<<m, i>>] = lost[<<m, i>>]
  PROVE  /\ sends'[m] = sends[m] /\ Times(m)' = Times(m) => There(m)'[i] = There(m)[i]
         /\ sends'[m] = sends[m] + 1 /\ Times(m)' = Times(m) => There(m)'[i] = There(m)[i] + 1
         /\ sends'[m] = sends[m] /\ Times(m)' = Times(m) + 1 => There(m)[i] = There(m)'[i] + 1
<1> DEFINE d == <<m, i>>
           t == There(m)[i]
           u == There(m)'[i]
           k == Times(m)
           l == Times(m)'
<1>1. /\ t \in Nat /\ u \in Nat
      /\ t = sends[m] + repeated[d] - k - lost[d]
      /\ u = sends'[m] + repeated'[d] - l - lost'[d]
      /\ sends[m] \in Nat /\ repeated[d] \in Nat /\ k \in Nat /\ lost[d] \in Nat
      /\ sends'[m] \in Nat /\ repeated'[d] \in Nat /\ l \in Nat /\ lost'[d] \in Nat
  BY Balance
<1>2. repeated'[d] = repeated[d] /\ lost'[d] = lost[d]
  OBVIOUS
<1> HIDE DEF d, t, u, k, l
<1>3. /\ sends'[m] = sends[m] /\ l = k => u = t
      /\ sends'[m] = sends[m] + 1 /\ l = k => u = t + 1
      /\ sends'[m] = sends[m] /\ l = k + 1 => t = u + 1
  BY <1>1, <1>2
<1> QED
  BY <1>3 DEF t, u, k, l

\* What is there of a message's packets has not changed, or has by one.
Same(m)  == \A i \in 0 .. LastSeq(m) : There(m)'[i] = There(m)[i]
Rises(m) == \A i \in 0 .. LastSeq(m) : There(m)'[i] \in {There(m)[i], There(m)[i] + 1}
Falls(m) == \A i \in 0 .. LastSeq(m) : There(m)[i] \in {There(m)'[i], There(m)'[i] + 1}

LEMMA Moves ==
  ASSUME IInv, IInv', NEW m \in Message
  PROVE  /\ Available(m) \in Nat /\ Available(m)' \in Nat
         /\ Same(m) => Available(m)' = Available(m)
         /\ Rises(m) => Available(m)' \in {Available(m), Available(m) + 1}
         /\ Falls(m) => Available(m) \in {Available(m)', Available(m)' + 1}
         /\ (\A i \in 0 .. LastSeq(m) : There(m)'[i] = There(m)[i] + 1) =>
              Available(m)' = Available(m) + 1
         /\ (\A i \in 0 .. LastSeq(m) : There(m)[i] = There(m)'[i] + 1) =>
              Available(m) = Available(m)' + 1
<1> DEFINE n == LastSeq(m)
           a == Available(m)
           b == Available(m)'
           f == There(m)
           g == There(m)'
<1>1. n \in Nat /\ a = Least(n, f) /\ b = Least(n, g)
  BY AvailableIs, AvailableAfter
<1>2. \A i \in 0 .. n : f[i] \in Nat /\ g[i] \in Nat
  BY Balance
<1> HIDE DEF n, f, g, a, b
<1>3. a \in Nat /\ b \in Nat
  BY <1>1, <1>2, LeastOf
<1>4. /\ (\A i \in 0 .. n : g[i] = f[i]) => b = a
      /\ (\A i \in 0 .. n : g[i] \in {f[i], f[i] + 1}) => b \in {a, a + 1}
      /\ (\A i \in 0 .. n : f[i] \in {g[i], g[i] + 1}) => a \in {b, b + 1}
      /\ (\A i \in 0 .. n : g[i] = f[i] + 1) => b = a + 1
      /\ (\A i \in 0 .. n : f[i] = g[i] + 1) => a = b + 1
  BY <1>1, <1>2, LeastMoves
<1> QED
  BY <1>3, <1>4 DEF n, f, g, a, b, Same, Rises, Falls

\* The channel as the packets show it.
Copies    == [m \in Message |-> Available(m)]
Delivered == [m \in Message |-> Len(forwarded[m])]

LEMMA CopiesMove ==
  ASSUME IInv, IInv', NEW m \in Message, \A n \in Message : n # m => Same(n)
  PROVE  Copies' = [Copies EXCEPT ![m] = Available(m)']
<1>1. \A n \in Message : n # m => Available(n)' = Available(n)
  BY Moves
<1> QED
  BY <1>1 DEF Copies

LEMMA NothingMoves ==
  ASSUME IInv, IInv', UNCHANGED <<sends, repeated, forwarded, lost>>
  PROVE  UNCHANGED MessageChannel!vars
<1>1. \A m \in Message : Same(m)
  BY Shift DEF Same, Times
<1>2. Copies' = Copies
  BY <1>1, Moves DEF Copies
<1>3. Delivered' = Delivered
  BY DEF Delivered
<1> QED
  BY <1>2, <1>3 DEF MessageChannel!vars, Copies, Delivered

\* Packets of m that are lost make one message less, or none.
LEMMA FallMaps ==
  ASSUME IInv, IInv', NEW m \in Message, UNCHANGED <<sends, forwarded>>,
         Falls(m), \A n \in Message : n # m => Same(n)
  PROVE  MessageChannel!Lose(m) \/ UNCHANGED MessageChannel!vars
<1>1. /\ Available(m) \in Nat /\ Available(m)' \in Nat
      /\ Available(m) \in {Available(m)', Available(m)' + 1}
  BY Moves
<1>2. Copies' = [Copies EXCEPT ![m] = Available(m)'] /\ Copies[m] = Available(m)
  BY CopiesMove DEF Copies
<1>3. Delivered' = Delivered
  BY DEF Delivered
<1>4. CASE Available(m)' = Available(m)
  <2>1. Copies' = Copies
    BY <1>2, <1>4 DEF Copies
  <2> QED
    BY <1>3, <2>1 DEF MessageChannel!vars, Copies, Delivered
<1>5. CASE Available(m) = Available(m)' + 1
  <2>1. Copies[m] > 0 /\ Available(m)' = Copies[m] - 1
    BY <1>1, <1>2, <1>5
  <2>2. Copies' = [Copies EXCEPT ![m] = @ - 1]
    BY <1>2, <2>1
  <2> QED
    BY <1>3, <2>1, <2>2 DEF MessageChannel!Lose, Copies, Delivered
<1> QED
  BY <1>1, <1>4, <1>5

LEMMA SendMaps ==
  ASSUME IInv, IInv', NEW m \in Message, Send(m)
  PROVE  MessageChannel!Send(m)
<1>1. sends \in [Message -> Nat]
  BY DEF IInv, CountsOK
<1>2. /\ sends' = [sends EXCEPT ![m] = @ + 1] /\ sends'[m] = sends[m] + 1
      /\ \A n \in Message : n # m => sends'[n] = sends[n]
      /\ UNCHANGED <<forwarded, repeated, lost>>
  BY <1>1 DEF Send
<1>3. \A n \in Message : n # m => Same(n)
  BY <1>2, Shift DEF Same, Times
<1>4. \A i \in 0 .. LastSeq(m) : There(m)'[i] = There(m)[i] + 1
  <2> SUFFICES ASSUME NEW i \in 0 .. LastSeq(m) PROVE There(m)'[i] = There(m)[i] + 1
    OBVIOUS
  <2>1. Times(m)' = Times(m) /\ repeated'[<<m, i>>] = repeated[<<m, i>>] /\ lost'[<<m, i>>] = lost[<<m, i>>]
    BY <1>2 DEF Times
  <2> QED
    BY <1>2, <2>1, Shift
<1>5. Available(m)' = Available(m) + 1
  BY <1>4, Moves
<1>6. Copies' = [Copies EXCEPT ![m] = @ + 1]
  BY <1>3, <1>5, CopiesMove DEF Copies
<1>7. Delivered' = Delivered
  BY <1>2 DEF Delivered
<1> QED
  BY <1>2, <1>6, <1>7 DEF MessageChannel!Send, Copies, Delivered

LEMMA LoseMaps ==
  ASSUME IInv, IInv', NEW d \in Datagram, Lose(d)
  PROVE  MessageChannel!Lose(d[1]) \/ UNCHANGED MessageChannel!vars
<1>1. lost \in [Datagram -> Nat] /\ d[1] \in Message
  BY DatagramIsPacket DEF IInv, CountsOK
<1>2. /\ lost'[d] = lost[d] + 1 /\ \A e \in Datagram : e # d => lost'[e] = lost[e]
      /\ UNCHANGED <<sends, forwarded, repeated>>
  BY <1>1 DEF Lose
<1>3. ASSUME NEW n \in Message, NEW i \in 0 .. LastSeq(n)
      PROVE  /\ There(n)[i] \in {There(n)'[i], There(n)'[i] + 1}
             /\ n # d[1] => There(n)'[i] = There(n)[i]
  <2>1. <<n, i>> \in Datagram /\ Times(n)' = Times(n)
    BY <1>2, PacketIsDatagram DEF Times
  <2>2. n # d[1] => <<n, i>> # d
    BY DatagramIsPacket
  <2> QED
    BY <1>2, <2>1, <2>2, Balance
<1> QED
  BY <1>1, <1>2, <1>3, FallMaps DEF Falls, Same

LEMMA ExpireMaps ==
  ASSUME IInv, IInv', NEW m \in Message, Expire(m)
  PROVE  MessageChannel!Lose(m) \/ UNCHANGED MessageChannel!vars
<1>1. lost \in [Datagram -> Nat]
  BY DEF IInv, CountsOK
<1>2. /\ \A e \in Datagram : lost'[e] \in {lost[e], lost[e] + 1} /\ (e[1] # m => lost'[e] = lost[e])
      /\ UNCHANGED <<sends, forwarded, repeated>>
  BY <1>1 DEF Expire, net
<1>3. ASSUME NEW n \in Message, NEW i \in 0 .. LastSeq(n)
      PROVE  /\ There(n)[i] \in {There(n)'[i], There(n)'[i] + 1}
             /\ n # m => There(n)'[i] = There(n)[i]
  <2>1. <<n, i>> \in Datagram /\ <<n, i>>[1] = n /\ Times(n)' = Times(n)
    BY <1>2, PacketIsDatagram DEF Times
  <2> QED
    BY <1>2, <2>1, Balance
<1> QED
  BY <1>2, <1>3, FallMaps DEF Falls, Same

\* A repeated packet makes one message more if it was the scarcest one.
LEMMA RepeatMaps ==
  ASSUME IInv, IInv', NEW d \in Datagram, Repeat(d)
  PROVE  MessageChannel!Repeat(d[1]) \/ UNCHANGED MessageChannel!vars
<1>1. /\ repeated \in [Datagram -> Nat] /\ d[1] \in Message /\ d[2] \in 0 .. LastSeq(d[1])
      /\ d = <<d[1], d[2]>>
  BY DatagramIsPacket DEF IInv, CountsOK
<1> DEFINE m == d[1]
<1>2. /\ repeated'[d] = repeated[d] + 1
      /\ \A e \in Datagram : e # d => repeated'[e] = repeated[e]
      /\ UNCHANGED <<sends, forwarded, lost>> /\ wire[d] > 0
  BY <1>1 DEF Repeat
<1>3. ASSUME NEW n \in Message, NEW i \in 0 .. LastSeq(n)
      PROVE  /\ There(n)'[i] \in {There(n)[i], There(n)[i] + 1}
             /\ <<n, i>> # d => There(n)'[i] = There(n)[i]
  <2>1. <<n, i>> \in Datagram /\ Times(n)' = Times(n)
    BY <1>2, PacketIsDatagram DEF Times
  <2> QED
    BY <1>2, <2>1, Balance
<1>4. \A n \in Message : n # m => Same(n)
  BY <1>1, <1>3 DEF Same
<1>5. /\ Available(m) \in Nat /\ Available(m)' \in Nat
      /\ Available(m)' \in {Available(m), Available(m) + 1}
  BY <1>1, <1>3, Moves DEF Rises
<1>6. Copies' = [Copies EXCEPT ![m] = Available(m)'] /\ Copies[m] = Available(m)
  BY <1>1, <1>4, CopiesMove DEF Copies
<1>7. Delivered' = Delivered
  BY <1>2 DEF Delivered
<1>8. CASE Available(m)' = Available(m)
  <2>1. Copies' = Copies
    BY <1>6, <1>8 DEF Copies
  <2> QED
    BY <1>2, <1>7, <2>1 DEF MessageChannel!vars, Copies, Delivered
<1>9. CASE Available(m)' = Available(m) + 1
  <2>1. Available(m) > 0
    <3> SUFFICES ASSUME Available(m) = 0 PROVE FALSE
      BY <1>5
    <3>1. PICK i \in 0 .. LastSeq(m) : There(m)[i] = 0
      <4>1. Available(m) = Least(LastSeq(m), There(m)) /\ LastSeq(m) \in Nat
        BY <1>1, AvailableIs
      <4>2. \A k \in 0 .. LastSeq(m) : There(m)[k] \in Nat
        BY <1>1, Balance
      <4> HIDE DEF m
      <4>3. \E k \in 0 .. LastSeq(m) : Available(m) = There(m)[k]
        BY <4>1, <4>2, LeastOf
      <4> QED
        BY <4>3
    <3>2. There(m)'[i] >= 1
      <4>1. \A k \in 0 .. LastSeq(m) : There(m)'[k] >= Available(m)'
        BY <1>1, AvailableIs, AvailableAfter, LeastOf, Balance
      <4> QED
        BY <1>5, <1>9, <4>1, Balance
    <3>3. <<m, i>> = d
      BY <1>1, <1>3, <3>1, <3>2
    <3>4. There(m)[i] >= wire[d] /\ wire[d] \in Nat
      BY <1>1, <3>3, Balance
    <3> QED
      BY <1>2, <3>1, <3>4
  <2>2. Copies' = [Copies EXCEPT ![m] = @ + 1]
    BY <1>6, <1>9
  <2> QED
    BY <1>2, <1>6, <1>7, <2>1, <2>2 DEF MessageChannel!Repeat, Copies, Delivered
<1> QED
  BY <1>5, <1>8, <1>9

\* A message handed over takes one copy of each of its packets.
LEMMA DeliverMaps ==
  ASSUME IInv, IInv', NEW m \in Message, NEW buf, Forward(m, buf),
         UNCHANGED <<sends, repeated, lost>>
  PROVE  MessageChannel!Deliver(m)
<1>1. /\ Len(forwarded'[m]) = Len(forwarded[m]) + 1
      /\ \A n \in Message : n # m => forwarded'[n] = forwarded[n]
  BY ForwardCounts
<1>2. \A n \in Message : n # m => Same(n)
  BY <1>1, Shift DEF Same, Times
<1>3. \A i \in 0 .. LastSeq(m) : There(m)[i] = There(m)'[i] + 1
  <2> SUFFICES ASSUME NEW i \in 0 .. LastSeq(m) PROVE There(m)[i] = There(m)'[i] + 1
    OBVIOUS
  <2>1. Times(m)' = Times(m) + 1
    BY <1>1 DEF Times
  <2> QED
    BY <2>1, Shift
<1>4. Available(m) = Available(m)' + 1 /\ Available(m) \in Nat /\ Available(m)' \in Nat
  BY <1>3, Moves
<1>5. Copies[m] = Available(m) /\ Copies[m] > 0 /\ Available(m)' = Copies[m] - 1
  BY <1>4 DEF Copies
<1>6. Copies' = [Copies EXCEPT ![m] = @ - 1]
  BY <1>2, <1>5, CopiesMove
<1>7. Delivered' = [Delivered EXCEPT ![m] = @ + 1]
  BY <1>1 DEF Delivered
<1> QED
  BY <1>5, <1>6, <1>7 DEF MessageChannel!Deliver, Copies, Delivered

LEMMA InitChannel == Init => MessageChannel!Init
<1> SUFFICES ASSUME Init PROVE MessageChannel!Init
  OBVIOUS
<1>1. \A m \in Message : Len(forwarded[m]) = 0
  BY DEF Init
<1>2. ASSUME NEW m \in Message PROVE Available(m) = 0
  <2>1. \A i \in 0 .. LastSeq(m) : There(m)[i] = 0
    <3> SUFFICES ASSUME NEW i \in 0 .. LastSeq(m) PROVE There(m)[i] = 0
      OBVIOUS
    <3>1. IInv /\ <<m, i>> \in Datagram
      BY InitIInv, PacketIsDatagram
    <3>2. There(m)[i] = sends[m] + repeated[<<m, i>>] - Times(m) - lost[<<m, i>>]
      BY <3>1, ThereIs DEF ThereOK
    <3> QED
      BY <1>1, <3>1, <3>2 DEF Init, Times
  <2> QED
    BY <2>1, AvailableIs, LeastOf
<1> QED
  BY <1>1, <1>2 DEF Init, MessageChannel!Init

LEMMA NextChannel ==
  IInv /\ IInv' /\ [Next]_vars => [MessageChannel!Next]_MessageChannel!vars
<1> SUFFICES ASSUME IInv, IInv', [Next]_vars PROVE MessageChannel!Next \/ UNCHANGED MessageChannel!vars
  OBVIOUS
<1>1. ASSUME NEW m \in Message, Send(m) \/ Expire(m)
      PROVE  MessageChannel!Next \/ UNCHANGED MessageChannel!vars
  BY <1>1, SendMaps, ExpireMaps DEF MessageChannel!Next
<1>2. ASSUME NEW d \in Datagram, Lose(d) \/ Repeat(d)
      PROVE  MessageChannel!Next \/ UNCHANGED MessageChannel!vars
  BY <1>2, LoseMaps, RepeatMaps, DatagramIsPacket DEF MessageChannel!Next
<1>3. ASSUME \/ UNCHANGED vars \/ Reject \/ ReceiveFirst \/ ArriveStray
             \/ \E d \in Datagram : Arrive(d)
             \/ \E m \in Message : TimerFires(m)
      PROVE  UNCHANGED MessageChannel!vars
  <2>1. UNCHANGED <<sends, repeated, forwarded, lost>>
    BY <1>3 DEF vars, Reject, ReceiveFirst, ArriveStray, Arrive, TimerFires, net
  <2> QED
    BY <2>1, NothingMoves
<1>4. CASE ReceiveOnly
  <2>1. PICK m \in Message : \E buf : Forward(m, buf)
    BY <1>4, AtHead DEF ReceiveOnly
  <2>2. UNCHANGED <<sends, repeated, lost>>
    BY <1>4 DEF ReceiveOnly, net
  <2> QED
    BY <2>1, <2>2, DeliverMaps DEF MessageChannel!Next
<1>5. CASE ReceiveNext
  <2>1. UNCHANGED <<sends, repeated, lost>>
    BY <1>5 DEF ReceiveNext, net
  <2>2. UNCHANGED forwarded \/ \E m \in Message : \E buf : Forward(m, buf)
    BY <1>5, AtHead DEF ReceiveNext
  <2> QED
    BY <2>1, <2>2, DeliverMaps, NothingMoves DEF MessageChannel!Next
<1> QED
  BY <1>1, <1>2, <1>3, <1>4, <1>5 DEF Next, Network, Receive

(* For a sender and a receiver of whole messages, fragments, resends and    *)
(* time-outs do not exist: udp_serial.rs, udp_receiver.rs and packets.rs    *)
(* are a channel that loses, delays and repeats messages and does no more.  *)
THEOREM FragmentsMakeChannel == Spec => ImplementsChannel
BY InitIInv, NextIInv, InitChannel, NextChannel, PTL DEF Spec, ImplementsChannel, MessageChannel!Spec
=============================================================================
