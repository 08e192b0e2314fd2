------------------------ MODULE DoubleThreadedProofs ------------------------
(***************************************************************************)
(* The two tasks of an actor agree on whose turn it is, so that the panics *)
(* of the secondary are unreachable; and together they do what one task    *)
(* with one mailbox does.  Both for any set of messages.                   *)
(***************************************************************************)
EXTENDS DoubleThreaded, TLAPS, SequenceTheorems

Inv == TypeOK /\ Handshake /\ NeverStray

RxItem == Item \cup {PrimaryRequest, Die}

\* Appending x puts it at the end and leaves other positions as they were.
LEMMA AtAppend ==
  ASSUME NEW S, NEW q \in Seq(S), NEW x \in S, NEW y
  PROVE  /\ At(y, Append(q, x)) = At(y, q) \cup (IF x = y THEN {Len(q) + 1} ELSE {})
         /\ At(y, q) \subseteq 1..Len(q)
BY DEF At

\* Taking the head moves all others up.
LEMMA AtTail ==
  ASSUME NEW S, NEW q \in Seq(S), q # <<>>, NEW y
  PROVE  /\ At(y, Tail(q)) = {i - 1 : i \in At(y, q) \ {1}}
         /\ At(y, q) \subseteq 1..Len(q)
         /\ Head(q) = y <=> 1 \in At(y, q)
BY DEF At

LEMMA AtEmpty ==
  ASSUME NEW y
  PROVE  At(y, <<>>) = {}
BY DEF At

LEMMA NamesDiffer ==
  /\ Term \notin Msg /\ NoMsg \notin Msg
  /\ PrimaryRequest \notin Item /\ Die \notin Item /\ NoMsg \notin Item
  /\ PrimaryRequest # Die
BY DoubleThreadedAssumption DEF Term, NoMsg, PrimaryRequest, Die, Item

LEMMA InitInv == Init => Inv
<1> SUFFICES ASSUME Init PROVE Inv
  OBVIOUS
<1>1. TypeOK
  <2>1. \A S : <<>> \in Seq(S) /\ Len(<<>>) = 0
    OBVIOUS
  <2>2. /\ rx \in Seq(Item \cup {PrimaryRequest, Die}) /\ queue \in Seq(Item)
        /\ primary_rx \in Seq(Item) /\ Len(primary_rx) <= 1
        /\ handled \in Seq(Msg) /\ sent \in Seq(Item)
    BY <2>1 DEF Init
  <2>3. /\ secondary \in {"registering", "running", "stray", "gone"}
        /\ primary \in {"starting", "waiting", "handling", "stopping", "ended", "crashed"}
        /\ primary_waiting \in BOOLEAN /\ now \in Msg \cup {NoMsg}
        /\ (now = NoMsg <=> primary # "handling")
    BY DEF Init
  <2> QED BY <2>2, <2>3 DEF TypeOK
<1>2. Handshake
  BY AtEmpty DEF Init, Handshake
<1>3. NeverStray
  BY DEF Init, NeverStray
<1> QED BY <1>1, <1>2, <1>3 DEF Inv

LEMMA SendKeeps ==
  ASSUME Inv, NEW x \in Item, Send(x)
  PROVE  Inv'
<1>1. rx \in Seq(RxItem) /\ x \in RxItem
  BY DEF Inv, TypeOK, RxItem
<1>2. At(PrimaryRequest, rx') = At(PrimaryRequest, rx) /\ At(Die, rx') = At(Die, rx)
  <2>1. /\ At(PrimaryRequest, Append(rx, x)) = At(PrimaryRequest, rx)
        /\ At(Die, Append(rx, x)) = At(Die, rx)
    <3>1. x # PrimaryRequest /\ x # Die
      BY NamesDiffer
    <3>2. \A y : At(y, Append(rx, x)) = At(y, rx) \cup (IF x = y THEN {Len(rx) + 1} ELSE {})
      BY <1>1, AtAppend
    <3> QED BY <3>1, <3>2
  <2> QED BY <2>1 DEF Send
<1>3. TypeOK'
  BY DEF Inv, TypeOK, Send, Item
<1>4. Handshake' /\ NeverStray'
  BY <1>2 DEF Inv, TypeOK, Handshake, NeverStray, Send
<1> QED BY <1>3, <1>4 DEF Inv

LEMMA RegisterKeeps ==
  ASSUME Inv, Register
  PROVE  Inv'
<1>1. At(PrimaryRequest, rx') \subseteq At(PrimaryRequest, rx) /\ At(Die, rx') \subseteq At(Die, rx)
  BY AtEmpty DEF Register
<1>2. TypeOK'
  BY DEF Inv, TypeOK, Handshake, Register
<1>3. Handshake' /\ NeverStray'
  BY <1>1, AtEmpty DEF Inv, TypeOK, Handshake, NeverStray, Register
<1> QED BY <1>2, <1>3 DEF Inv

LEMMA SecondaryReceivesKeeps ==
  ASSUME Inv, SecondaryReceives
  PROVE  Inv'
<1> USE DEF Inv
<1>1. rx \in Seq(RxItem) /\ rx # <<>> /\ Head(rx) \in RxItem /\ secondary = "running"
  BY DEF TypeOK, SecondaryReceives, RxItem
<1>2. /\ At(PrimaryRequest, Tail(rx)) = {i - 1 : i \in At(PrimaryRequest, rx) \ {1}}
      /\ At(Die, Tail(rx)) = {i - 1 : i \in At(Die, rx) \ {1}}
      /\ Tail(rx) \in Seq(RxItem)
  BY <1>1, AtTail
<1>3. CASE Head(rx) = PrimaryRequest
  <2>1. 1 \in At(PrimaryRequest, rx)
    BY <1>1, <1>3, AtTail
  <2>2. At(PrimaryRequest, Tail(rx)) = {}
    BY <1>2, <2>1 DEF Handshake
  <2>3. ~primary_waiting /\ primary_rx = <<>> /\ primary = "waiting"
    BY <2>1 DEF Handshake, TypeOK
  <2>4. ServeRequest /\ UNCHANGED <<primary, now, handled, sent>>
    BY <1>3, NamesDiffer DEF SecondaryReceives
  <2>5. CASE queue = <<>>
    BY <1>1, <1>2, <2>2, <2>3, <2>4, <2>5 DEF ServeRequest, TypeOK, Handshake, NeverStray, RxItem
  <2>6. CASE queue # <<>>
    <3>1. /\ primary_rx' = Append(primary_rx, Head(queue)) /\ queue' = Tail(queue)
          /\ primary_waiting' = FALSE /\ rx' = Tail(rx) /\ UNCHANGED secondary
      BY <2>3, <2>4, <2>6 DEF ServeRequest, SendToPrimary
    <3>2. /\ Head(queue) \in Item /\ queue' \in Seq(Item)
          /\ primary_rx' \in Seq(Item) /\ Len(primary_rx') = 1
      BY <2>3, <2>6, <3>1 DEF TypeOK
    <3>3. TypeOK'
      <4>1. primary_waiting' \in BOOLEAN
        BY <3>1
      <4>2. rx' \in Seq(Item \cup {PrimaryRequest, Die})
        BY <1>2, <3>1 DEF RxItem
      <4> QED BY <4>1, <4>2, <2>4, <3>1, <3>2 DEF TypeOK
    <3> QED BY <1>1, <1>2, <2>2, <2>3, <2>4, <3>1, <3>3 DEF Handshake, NeverStray
  <2> QED BY <2>5, <2>6
<1>4. CASE Head(rx) = Die
  <2>1. 1 \in At(Die, rx)
    BY <1>1, <1>4, AtTail
  <2>2. primary = "ended"
    BY <2>1 DEF Handshake
  <2>3. Leave /\ UNCHANGED <<primary, now, handled, sent>>
    BY <1>4, NamesDiffer DEF SecondaryReceives
  <2>4. TypeOK'
    BY <2>3 DEF Leave, TypeOK
  <2> QED BY <2>2, <2>3, <2>4, AtEmpty DEF Leave, Handshake, NeverStray
<1>5. CASE Head(rx) \notin {PrimaryRequest, Die}
  <2>1. Head(rx) \in Item
    BY <1>1, <1>5 DEF RxItem
  <2>2. Deliver(Head(rx)) /\ UNCHANGED <<primary, now, handled, sent>>
    BY <1>5 DEF SecondaryReceives
  <2>3. CASE primary_waiting
    <3>1. primary = "waiting" /\ At(PrimaryRequest, rx) = {} /\ primary_rx = <<>>
      BY <2>3 DEF Handshake
    <3>2. /\ primary_rx' = Append(primary_rx, Head(rx)) /\ queue' = queue
          /\ primary_waiting' = FALSE /\ rx' = Tail(rx) /\ UNCHANGED secondary
      BY <2>2, <2>3, <3>1 DEF Deliver, SendToPrimary
    <3>3. At(PrimaryRequest, rx') = {} /\ (At(Die, rx') # {} => At(Die, rx) # {})
      BY <1>2, <3>1, <3>2
    <3>4. primary_rx' \in Seq(Item) /\ Len(primary_rx') = 1
      BY <2>1, <3>1, <3>2 DEF TypeOK
    <3>5. TypeOK'
      <4>1. primary_waiting' \in BOOLEAN
        BY <3>2
      <4>2. rx' \in Seq(Item \cup {PrimaryRequest, Die})
        BY <1>2, <3>2 DEF RxItem
      <4> QED BY <4>1, <4>2, <2>2, <3>2, <3>4 DEF TypeOK
    <3> QED BY <1>1, <2>2, <3>1, <3>2, <3>3, <3>5 DEF Handshake, NeverStray
  <2>4. CASE ~primary_waiting
    <3>1. /\ queue' = Append(queue, Head(rx)) /\ rx' = Tail(rx)
          /\ UNCHANGED <<secondary, primary_waiting, primary_rx>>
      BY <2>2, <2>4 DEF Deliver
    <3> QED BY <1>1, <1>2, <2>1, <2>2, <2>4, <3>1 DEF TypeOK, Handshake, NeverStray, RxItem
  <2> QED BY <2>3, <2>4
<1> QED BY <1>3, <1>4, <1>5

LEMMA LastReferenceDroppedKeeps ==
  ASSUME Inv, LastReferenceDropped
  PROVE  Inv'
BY DEF Inv, TypeOK, Handshake, NeverStray, LastReferenceDropped

\* What a primary that goes on sends to the secondary.
LEMMA PrimaryAsks ==
  ASSUME Inv, primary \in {"starting", "handling"}, secondary # "registering",
         SendToSecondary(PrimaryRequest, "waiting")
  PROVE  /\ rx' = Append(rx, PrimaryRequest) /\ primary' = "waiting" /\ rx' \in Seq(RxItem)
         /\ At(PrimaryRequest, rx') = {Len(rx) + 1} /\ At(Die, rx') = {}
<1>1. secondary = "running" /\ At(PrimaryRequest, rx) = {} /\ At(Die, rx) = {}
  BY DEF Inv, Handshake
<1>2. rx \in Seq(RxItem) /\ PrimaryRequest \in RxItem
  BY DEF Inv, TypeOK, RxItem
<1>3. rx' = Append(rx, PrimaryRequest) /\ primary' = "waiting"
  BY <1>1 DEF SendToSecondary
<1>4. /\ At(PrimaryRequest, Append(rx, PrimaryRequest)) = {Len(rx) + 1}
      /\ At(Die, Append(rx, PrimaryRequest)) = {}
  BY <1>1, <1>2, AtAppend, NamesDiffer
<1> QED BY <1>2, <1>3, <1>4

LEMMA BeginKeeps ==
  ASSUME Inv, Begin
  PROVE  Inv'
<1>1. /\ rx' = Append(rx, PrimaryRequest) /\ primary' = "waiting" /\ rx' \in Seq(RxItem)
      /\ At(PrimaryRequest, rx') = {Len(rx) + 1} /\ At(Die, rx') = {}
  BY PrimaryAsks DEF Begin
<1>2. secondary = "running" /\ ~primary_waiting /\ primary_rx = <<>>
  BY DEF Begin, Inv, Handshake
<1> QED BY <1>1, <1>2 DEF Inv, TypeOK, Handshake, NeverStray, Begin, RxItem

LEMMA FinishKeeps ==
  ASSUME Inv, Finish
  PROVE  Inv'
<1>1. secondary # "registering" /\ ~primary_waiting /\ primary_rx = <<>> /\ now \in Msg
  BY DEF Inv, TypeOK, Handshake, Finish
<1>2. /\ rx' = Append(rx, PrimaryRequest) /\ primary' = "waiting" /\ rx' \in Seq(RxItem)
      /\ At(PrimaryRequest, rx') = {Len(rx) + 1} /\ At(Die, rx') = {}
  BY <1>1, PrimaryAsks DEF Finish
<1> QED BY <1>1, <1>2 DEF Inv, TypeOK, Handshake, NeverStray, Finish, RxItem

LEMMA TakeKeeps ==
  ASSUME Inv, Take
  PROVE  Inv'
<1>1. primary = "waiting" /\ secondary = "running" /\ primary_rx # <<>>
  BY DEF Inv, Handshake, Take
<1>2. /\ At(PrimaryRequest, rx) = {} /\ ~primary_waiting /\ Tail(primary_rx) = <<>>
      /\ Head(primary_rx) \in Item
  BY <1>1 DEF Inv, TypeOK, Handshake
<1>3. Head(primary_rx) # Term => Head(primary_rx) \in Msg
  BY <1>2 DEF Item
<1> QED BY <1>1, <1>2, <1>3, NamesDiffer DEF Inv, TypeOK, Handshake, NeverStray, Take

LEMMA EndKeeps ==
  ASSUME Inv, End
  PROVE  Inv'
<1>1. /\ secondary = "running" /\ At(PrimaryRequest, rx) = {} /\ ~primary_waiting
      /\ primary_rx = <<>>
  BY DEF Inv, Handshake, End
<1>2. rx' = Append(rx, Die) /\ primary' = "ended"
  BY <1>1 DEF End, SendToSecondary
<1>3. rx \in Seq(RxItem) /\ Die \in RxItem /\ rx' \in Seq(RxItem)
  BY <1>2 DEF Inv, TypeOK, RxItem
<1>4. At(PrimaryRequest, rx') = {}
  BY <1>1, <1>2, <1>3, AtAppend, NamesDiffer
<1> QED BY <1>1, <1>2, <1>3, <1>4 DEF Inv, TypeOK, Handshake, NeverStray, End, RxItem

LEMMA CrashKeeps ==
  ASSUME Inv, Crash
  PROVE  Inv'
BY DEF Inv, TypeOK, Handshake, NeverStray, Crash

LEMMA NextKeeps == Inv /\ [Next]_vars => Inv'
<1> SUFFICES ASSUME Inv, [Next]_vars PROVE Inv'
  OBVIOUS
<1>1. CASE \E x \in Item : Send(x)
  BY <1>1, SendKeeps
<1>2. CASE UNCHANGED vars
  BY <1>2 DEF vars, Inv, TypeOK, Handshake, NeverStray
<1> QED BY <1>1, <1>2, RegisterKeeps, SecondaryReceivesKeeps, LastReferenceDroppedKeeps, BeginKeeps,
           TakeKeeps, FinishKeeps, EndKeeps, CrashKeeps DEF Next

(* Types, the handshake, and no panic of the secondary (unit_secondary,    *)
(* actor_tasks_unit.rs:72 and 82) for any set of messages.                 *)
THEOREM SecondaryNeverPanics == Spec => []Inv
BY InitInv, NextKeeps, PTL DEF Spec

(* The property that the run double_threaded checks on three messages.     *)
COROLLARY NobodyStrays == Spec => []NeverStray
BY SecondaryNeverPanics, PTL DEF Inv
-----------------------------------------------------------------------------
LEMMA RemoveOne ==
  ASSUME NEW S, NEW q \in Seq(S), NEW i \in 1..Len(q)
  PROVE  /\ RemoveAt(q, i) \in Seq(S) /\ Len(RemoveAt(q, i)) = Len(q) - 1
         /\ \A k \in 1..Len(q) - 1 : RemoveAt(q, i)[k] = IF k < i THEN q[k] ELSE q[k + 1]
<1> DEFINE l == SubSeq(q, 1, i - 1)
           r == SubSeq(q, i + 1, Len(q))
<1>1. l \in Seq(S) /\ Len(l) = i - 1 /\ \A k \in 1..i - 1 : l[k] = q[k]
  OBVIOUS
<1>2. r \in Seq(S) /\ Len(r) = Len(q) - i /\ \A k \in 1..Len(q) - i : r[k] = q[k + i]
  OBVIOUS
<1>3. RemoveAt(q, i) = l \o r
  BY DEF RemoveAt
<1> HIDE DEF l, r
<1>4. /\ l \o r \in Seq(S) /\ Len(l \o r) = Len(q) - 1
      /\ \A k \in 1..Len(q) - 1 : (l \o r)[k] = IF k <= i - 1 THEN l[k] ELSE r[k - (i - 1)]
  <2>1. /\ l \o r \in Seq(S) /\ Len(l \o r) = Len(l) + Len(r)
        /\ \A k \in 1..Len(l) + Len(r) : (l \o r)[k] = IF k <= Len(l) THEN l[k] ELSE r[k - Len(l)]
    BY <1>1, <1>2, ConcatProperties
  <2>2. Len(l) + Len(r) = Len(q) - 1
    BY <1>1, <1>2
  <2> QED BY <1>1, <2>1, <2>2
<1> SUFFICES ASSUME NEW k \in 1..Len(q) - 1
             PROVE  (l \o r)[k] = IF k < i THEN q[k] ELSE q[k + 1]
  BY <1>3, <1>4
<1>5. CASE k < i
  BY <1>1, <1>4, <1>5
<1>6. CASE ~(k < i)
  <2>1. k - (i - 1) \in 1..Len(q) - i /\ ~(k <= i - 1)
    BY <1>6
  <2>2. r[k - (i - 1)] = q[k + 1]
    BY <1>2, <2>1
  <2> QED BY <1>4, <1>6, <2>1, <2>2
<1> QED BY <1>5, <1>6

\* A mailbox with no request, or one.
OneRequest(q) == \A i, j \in At(PrimaryRequest, q) : i = j

LEMMA PendingIs ==
  ASSUME NEW S, NEW q \in Seq(S), OneRequest(q)
  PROVE  /\ Pending(q) \in Seq(S)
         /\ At(PrimaryRequest, q) = {} => Pending(q) = q
         /\ \A i \in At(PrimaryRequest, q) : i \in 1..Len(q) /\ Pending(q) = RemoveAt(q, i)
<1>1. CASE At(PrimaryRequest, q) = {}
  BY <1>1 DEF Pending
<1>2. ASSUME NEW i \in At(PrimaryRequest, q)
      PROVE  i \in 1..Len(q) /\ Pending(q) = RemoveAt(q, i)
  <2>1. (CHOOSE j \in At(PrimaryRequest, q) : TRUE) = i
    BY <1>2 DEF OneRequest
  <2>2. Pending(q) = RemoveAt(q, CHOOSE j \in At(PrimaryRequest, q) : TRUE)
    BY <1>2 DEF Pending
  <2>3. i \in 1..Len(q)
    BY <1>2 DEF At
  <2> QED BY <2>1, <2>2, <2>3
<1> QED BY <1>1, <1>2, RemoveOne

LEMMA PendingAppend ==
  ASSUME NEW S, NEW q \in Seq(S), OneRequest(q), NEW x \in S, x # PrimaryRequest
  PROVE  Pending(Append(q, x)) = Append(Pending(q), x)
<1>1. At(PrimaryRequest, Append(q, x)) = At(PrimaryRequest, q)
  <2>1. At(PrimaryRequest, Append(q, x)) = At(PrimaryRequest, q) \cup (IF x = PrimaryRequest THEN {Len(q) + 1} ELSE {})
    BY AtAppend
  <2> QED BY <2>1
<1>2. OneRequest(Append(q, x)) /\ Append(q, x) \in Seq(S)
  BY <1>1 DEF OneRequest
<1>3. CASE At(PrimaryRequest, q) = {}
  BY <1>1, <1>3 DEF Pending
<1>4. ASSUME NEW i \in At(PrimaryRequest, q)
      PROVE  RemoveAt(Append(q, x), i) = Append(RemoveAt(q, i), x)
  <2> DEFINE t == Append(q, x)
             a == RemoveAt(t, i)
             b == Append(RemoveAt(q, i), x)
  <2>t. t \in Seq(S) /\ Len(t) = Len(q) + 1
    BY AppendProperties
  <2> HIDE DEF t
  <2>1. i \in 1..Len(q) /\ i \in 1..Len(t)
    BY <1>4, <2>t DEF At
  <2>2. /\ a \in Seq(S) /\ Len(a) = Len(q)
        /\ \A k \in 1..Len(q) : a[k] = IF k < i THEN t[k] ELSE t[k + 1]
    <3>1. /\ a \in Seq(S) /\ Len(a) = Len(t) - 1
          /\ \A k \in 1..Len(t) - 1 : a[k] = IF k < i THEN t[k] ELSE t[k + 1]
      BY <2>t, <2>1, RemoveOne
    <3> QED BY <3>1, <2>t
  <2>3. /\ RemoveAt(q, i) \in Seq(S) /\ Len(RemoveAt(q, i)) = Len(q) - 1
        /\ \A k \in 1..Len(q) - 1 : RemoveAt(q, i)[k] = IF k < i THEN q[k] ELSE q[k + 1]
    BY <2>1, RemoveOne
  <2>4. /\ b \in Seq(S) /\ Len(b) = Len(q) /\ b[Len(q)] = x
        /\ \A k \in 1..Len(q) - 1 : b[k] = RemoveAt(q, i)[k]
    BY <2>1, <2>3, AppendProperties
  <2>u. t[Len(q) + 1] = x /\ \A k \in 1..Len(q) : t[k] = q[k]
    BY AppendProperties DEF t
  <2> HIDE DEF a, b
  <2>5. ASSUME NEW k \in 1..Len(q)
        PROVE  a[k] = b[k]
    <3>1. CASE k = Len(q)
      BY <3>1, <2>1, <2>2, <2>4, <2>u
    <3>2. CASE k # Len(q)
      <4>1. k \in 1..Len(q) - 1 /\ k + 1 \in 1..Len(q)
        BY <3>2
      <4>2. b[k] = IF k < i THEN q[k] ELSE q[k + 1]
        BY <4>1, <2>3, <2>4
      <4>3. a[k] = IF k < i THEN q[k] ELSE q[k + 1]
        BY <4>1, <2>2, <2>u
      <4> QED BY <4>2, <4>3
    <3> QED BY <3>1, <3>2
  <2>6. a = b
    BY <2>2, <2>4, <2>5, SeqEqual
  <2> QED BY <2>6 DEF a, b, t
<1>5. ASSUME NEW i \in At(PrimaryRequest, q)
      PROVE  Pending(Append(q, x)) = Append(Pending(q), x)
  <2>1. Pending(q) = RemoveAt(q, i)
    BY PendingIs
  <2>2. Pending(Append(q, x)) = RemoveAt(Append(q, x), i)
    BY <1>1, <1>2, PendingIs
  <2> QED BY <1>4, <2>1, <2>2
<1> QED BY <1>3, <1>5

LEMMA PendingAsk ==
  ASSUME NEW S, NEW q \in Seq(S), PrimaryRequest \in S, At(PrimaryRequest, q) = {}
  PROVE  Pending(Append(q, PrimaryRequest)) = q
<1>1. At(PrimaryRequest, Append(q, PrimaryRequest)) = {Len(q) + 1}
  BY AtAppend
<1>2. Append(q, PrimaryRequest) \in Seq(S) /\ OneRequest(Append(q, PrimaryRequest))
  BY <1>1 DEF OneRequest
<1>3. Pending(Append(q, PrimaryRequest)) = RemoveAt(Append(q, PrimaryRequest), Len(q) + 1)
  BY <1>1, <1>2, PendingIs
<1>4. RemoveAt(Append(q, PrimaryRequest), Len(q) + 1) = q
  <2> DEFINE t == Append(q, PrimaryRequest)
             a == RemoveAt(t, Len(q) + 1)
  <2>1. /\ t \in Seq(S) /\ Len(t) = Len(q) + 1 /\ Len(q) + 1 \in 1..Len(t)
        /\ \A k \in 1..Len(q) : t[k] = q[k]
    BY AppendProperties
  <2> HIDE DEF t
  <2>2. /\ a \in Seq(S) /\ Len(a) = Len(t) - 1
        /\ \A k \in 1..Len(t) - 1 : a[k] = IF k < Len(q) + 1 THEN t[k] ELSE t[k + 1]
    BY <2>1, RemoveOne
  <2> HIDE DEF a
  <2>3. a = q
    BY <2>1, <2>2, SeqEqual
  <2> QED BY <2>3 DEF a, t
<1> QED BY <1>3, <1>4

LEMMA PendingServe ==
  ASSUME NEW S, NEW q \in Seq(S), OneRequest(q), q # <<>>, Head(q) = PrimaryRequest
  PROVE  Pending(Tail(q)) = Tail(q) /\ Pending(q) = Tail(q)
<1>1. 1 \in At(PrimaryRequest, q) /\ At(PrimaryRequest, Tail(q)) = {}
  BY AtTail DEF OneRequest
<1>2. Pending(q) = RemoveAt(q, 1) /\ 1 \in 1..Len(q)
  BY <1>1, PendingIs
<1>3. RemoveAt(q, 1) = Tail(q)
  <2>1. /\ RemoveAt(q, 1) \in Seq(S) /\ Len(RemoveAt(q, 1)) = Len(q) - 1
        /\ \A k \in 1..Len(q) - 1 : RemoveAt(q, 1)[k] = q[k + 1]
    <3>1. /\ RemoveAt(q, 1) \in Seq(S) /\ Len(RemoveAt(q, 1)) = Len(q) - 1
          /\ \A k \in 1..Len(q) - 1 : RemoveAt(q, 1)[k] = IF k < 1 THEN q[k] ELSE q[k + 1]
      BY <1>2, RemoveOne
    <3>2. \A k \in 1..Len(q) - 1 : ~(k < 1)
      OBVIOUS
    <3> QED BY <3>1, <3>2
  <2>2. /\ Tail(q) \in Seq(S) /\ Len(Tail(q)) = Len(q) - 1
        /\ \A k \in 1..Len(q) - 1 : Tail(q)[k] = q[k + 1]
    BY HeadTailProperties
  <2> QED BY <2>1, <2>2, SeqEqual
<1> QED BY <1>1, <1>2, <1>3 DEF Pending

LEMMA PendingTail ==
  ASSUME NEW S, NEW q \in Seq(S), OneRequest(q), q # <<>>, Head(q) # PrimaryRequest
  PROVE  /\ Pending(q) # <<>> /\ Head(Pending(q)) = Head(q) /\ Pending(Tail(q)) = Tail(Pending(q))
         /\ OneRequest(Tail(q))
<1>1. At(PrimaryRequest, Tail(q)) = {i - 1 : i \in At(PrimaryRequest, q)}
  BY AtTail
<1>2. OneRequest(Tail(q)) /\ Tail(q) \in Seq(S)
  BY <1>1 DEF OneRequest
<1>3. CASE At(PrimaryRequest, q) = {}
  BY <1>1, <1>2, <1>3 DEF Pending
<1>4. ASSUME NEW i \in At(PrimaryRequest, q)
      PROVE  /\ RemoveAt(q, i) # <<>> /\ Head(RemoveAt(q, i)) = Head(q)
             /\ RemoveAt(Tail(q), i - 1) = Tail(RemoveAt(q, i))
  <2>1. i \in 2..Len(q)
    BY AtTail
  <2> DEFINE p == RemoveAt(q, i)
             t == Tail(q)
             a == RemoveAt(t, i - 1)
  <2>2. /\ p \in Seq(S) /\ Len(p) = Len(q) - 1
        /\ \A k \in 1..Len(q) - 1 : p[k] = IF k < i THEN q[k] ELSE q[k + 1]
    BY <2>1, RemoveOne
  <2>3. /\ t \in Seq(S) /\ Len(t) = Len(q) - 1
        /\ \A k \in 1..Len(q) - 1 : t[k] = q[k + 1]
    BY HeadTailProperties
  <2> HIDE DEF t
  <2>4. /\ a \in Seq(S) /\ Len(a) = Len(q) - 2
        /\ \A k \in 1..Len(q) - 2 : a[k] = IF k < i - 1 THEN t[k] ELSE t[k + 1]
    <3>1. i - 1 \in 1..Len(t)
      BY <2>1, <2>3
    <3>2. /\ a \in Seq(S) /\ Len(a) = Len(t) - 1
          /\ \A k \in 1..Len(t) - 1 : a[k] = IF k < i - 1 THEN t[k] ELSE t[k + 1]
      BY <2>3, <3>1, RemoveOne
    <3> QED BY <2>3, <3>2
  <2> HIDE DEF p, a
  <2>5. p # <<>> /\ Head(p) = Head(q)
    BY <2>1, <2>2
  <2>6. /\ Tail(p) \in Seq(S) /\ Len(Tail(p)) = Len(q) - 2
        /\ \A k \in 1..Len(q) - 2 : Tail(p)[k] = p[k + 1]
    BY <2>1, <2>2, <2>5, HeadTailProperties
  <2>7. \A k \in 1..Len(q) - 2 : a[k] = Tail(p)[k]
    BY <2>1, <2>2, <2>3, <2>4, <2>6
  <2>8. a = Tail(p)
    BY <2>4, <2>6, <2>7, SeqEqual
  <2> QED BY <2>5, <2>8 DEF p, a, t
<1>5. ASSUME NEW i \in At(PrimaryRequest, q)
      PROVE  Pending(Tail(q)) = RemoveAt(Tail(q), i - 1) /\ Pending(q) = RemoveAt(q, i)
  BY <1>1, <1>2, PendingIs
<1> QED BY <1>2, <1>3, <1>4, <1>5
-----------------------------------------------------------------------------
\* The mailbox as one sequence: what the primary was handed, the queue, the rest.
LEMMA ConcatAppend ==
  ASSUME NEW S, NEW p \in Seq(S), NEW r \in Seq(S), NEW x \in S
  PROVE  p \o Append(r, x) = Append(p \o r, x)
<1>1. Append(r, x) = r \o <<x>> /\ <<x>> \in Seq(S) /\ p \o r \in Seq(S)
  BY AppendIsConcat, ConcatProperties
<1>2. Append(p \o r, x) = (p \o r) \o <<x>>
  BY <1>1, AppendIsConcat
<1> QED BY <1>1, <1>2, ConcatAssociative

LEMMA HeadFirst ==
  ASSUME NEW S, NEW w \in Seq(S), w # <<>>
  PROVE  Head(w) \in S /\ Tail(w) \in Seq(S) /\ <<Head(w)>> \in Seq(S) /\ w = <<Head(w)>> \o Tail(w)
<1>1. Head(w) \in S /\ Tail(w) \in Seq(S) /\ Len(Tail(w)) = Len(w) - 1
  BY HeadTailProperties
<1>2. \A k \in 1..Len(w) - 1 : Tail(w)[k] = w[k + 1]
  BY <1>1, HeadTailProperties
<1>3. <<Head(w)>> \in Seq(S) /\ Len(<<Head(w)>>) = 1 /\ <<Head(w)>>[1] = w[1]
  BY <1>1
<1> DEFINE h == <<Head(w)>>
<1>4. h \in Seq(S) /\ Len(h) = 1 /\ h[1] = w[1]
  BY <1>3
<1> HIDE DEF h
<1>5. /\ h \o Tail(w) \in Seq(S) /\ Len(h \o Tail(w)) = Len(h) + Len(Tail(w))
      /\ \A i \in 1..Len(h) + Len(Tail(w)) :
            (h \o Tail(w))[i] = IF i <= Len(h) THEN h[i] ELSE Tail(w)[i - Len(h)]
  BY <1>1, <1>4, ConcatProperties
<1>6. Len(h) + Len(Tail(w)) = Len(w)
  BY <1>1, <1>4
<1>7. \A i \in 1..Len(w) : (h \o Tail(w))[i] = w[i]
  BY <1>1, <1>2, <1>4, <1>5, <1>6
<1>8. h \o Tail(w) = w
  BY <1>5, <1>6, <1>7, SeqEqual
<1> QED BY <1>1, <1>3, <1>8 DEF h

LEMMA HeadOfConcat ==
  ASSUME NEW S, NEW p \in Seq(S), NEW r \in Seq(S), p # <<>>
  PROVE  /\ p \o r # <<>> /\ Head(p \o r) = Head(p) /\ Tail(p \o r) = Tail(p) \o r
<1>1. p = <<Head(p)>> \o Tail(p) /\ <<Head(p)>> \in Seq(S) /\ Tail(p) \in Seq(S)
  BY HeadFirst
<1>2. p \o r \in Seq(S) /\ Len(p \o r) = Len(p) + Len(r) /\ Len(p) > 0
      /\ \A i \in 1..Len(p) + Len(r) : (p \o r)[i] = IF i <= Len(p) THEN p[i] ELSE r[i - Len(p)]
  BY ConcatProperties
<1>3. p \o r # <<>> /\ Head(p \o r) = Head(p)
  BY <1>2
<1>4. Tail(p \o r) = Tail(p) \o r
  <2>1. /\ Tail(p \o r) \in Seq(S) /\ Len(Tail(p \o r)) = Len(p) + Len(r) - 1
        /\ \A i \in 1..Len(p) + Len(r) - 1 : Tail(p \o r)[i] = (p \o r)[i + 1]
    BY <1>2, <1>3, HeadTailProperties
  <2>2. /\ Len(Tail(p)) = Len(p) - 1
        /\ \A i \in 1..Len(p) - 1 : Tail(p)[i] = p[i + 1]
    BY HeadTailProperties
  <2>3. /\ Tail(p) \o r \in Seq(S) /\ Len(Tail(p) \o r) = Len(Tail(p)) + Len(r)
        /\ \A i \in 1..Len(Tail(p)) + Len(r) :
              (Tail(p) \o r)[i] = IF i <= Len(Tail(p)) THEN Tail(p)[i] ELSE r[i - Len(Tail(p))]
    BY <1>1, ConcatProperties
  <2>4. \A i \in 1..Len(p) + Len(r) - 1 : Tail(p \o r)[i] = (Tail(p) \o r)[i]
    BY <1>2, <2>1, <2>2, <2>3
  <2> QED BY <1>2, <2>1, <2>2, <2>3, <2>4, SeqEqual
<1> QED BY <1>3, <1>4

LEMMA MoveHead ==
  ASSUME NEW S, NEW u \in Seq(S), NEW w \in Seq(S), w # <<>>
  PROVE  Append(u, Head(w)) \o Tail(w) = u \o w
<1>1. Head(w) \in S /\ Tail(w) \in Seq(S) /\ <<Head(w)>> \in Seq(S) /\ w = <<Head(w)>> \o Tail(w)
  BY HeadFirst
<1>2. Append(u, Head(w)) = u \o <<Head(w)>>
  BY <1>1, AppendIsConcat
<1>3. (u \o <<Head(w)>>) \o Tail(w) = u \o (<<Head(w)>> \o Tail(w))
  BY <1>1, ConcatAssociative
<1> QED BY <1>1, <1>2, <1>3
-----------------------------------------------------------------------------
LEMMA BoxTypes ==
  ASSUME Inv
  PROVE  /\ rx \in Seq(RxItem) /\ queue \in Seq(RxItem) /\ primary_rx \in Seq(RxItem)
         /\ OneRequest(rx) /\ Pending(rx) \in Seq(RxItem) /\ primary_rx \o queue \in Seq(RxItem)
         /\ AsOneBox \in Seq(RxItem)
<1>1. Item \subseteq RxItem
  BY DEF RxItem
<1>2. rx \in Seq(RxItem) /\ queue \in Seq(RxItem) /\ primary_rx \in Seq(RxItem)
  BY <1>1, SeqMonotonic DEF Inv, TypeOK, RxItem
<1>3. OneRequest(rx)
  BY DEF Inv, Handshake, OneRequest
<1>4. Pending(rx) \in Seq(RxItem) /\ primary_rx \o queue \in Seq(RxItem)
  BY <1>2, <1>3, PendingIs, ConcatProperties
<1>5. (primary_rx \o queue) \o Pending(rx) \in Seq(RxItem)
  BY <1>4, ConcatProperties
<1> QED BY <1>2, <1>3, <1>4, <1>5, EmptySeq DEF AsOneBox

\* Both specifications speak of the same mail.
LEMMA SameMail == Single!Unsent = Unsent
<1>1. \A x, q : Single!At(x, q) = At(x, q)
  BY DEF Single!At, At
<1>2. Single!Term = Term
  BY DEF Single!Term, Term
<1>3. Single!Item = Item
  BY <1>2 DEF Single!Item, Item
<1> QED BY <1>1, <1>3 DEF Single!Unsent, Unsent

LEMMA SendMaps ==
  ASSUME Inv, NEW x \in Item, Send(x)
  PROVE  Single!Send(x)
<1>1. x \in RxItem /\ x # PrimaryRequest
  BY NamesDiffer DEF RxItem
<1>2. CASE primary \in {"ended", "crashed"}
  <2>1. secondary # "registering"
    BY <1>2 DEF Inv, Handshake
  <2>2. x \in Single!Unsent /\ sent' = Append(sent, x)
    BY SameMail DEF Send
  <2>3. AsOneTask = primary /\ AsOneTask' = AsOneTask /\ AsOneBox = <<>> /\ AsOneBox' = AsOneBox
    BY <1>2, <2>1 DEF Send, AsOneTask, AsOneBox
  <2> QED BY <1>2, <2>2, <2>3 DEF Send, Single!Send, Single!Over
<1>3. CASE primary \notin {"ended", "crashed"}
  <2>1. rx' = Append(rx, x) /\ UNCHANGED <<primary, secondary, queue, primary_rx>>
    BY <1>3 DEF Send, MailboxOpen, Inv, Handshake
  <2>2. Pending(Append(rx, x)) = Append(Pending(rx), x)
    BY <1>1, BoxTypes, PendingAppend
  <2>3. AsOneBox' = Append(AsOneBox, x)
    BY <1>1, <1>3, <2>1, <2>2, BoxTypes, ConcatAppend DEF AsOneBox
  <2>4. AsOneTask \notin {"ended", "crashed"} /\ AsOneTask' = AsOneTask
    BY <1>3, <2>1 DEF AsOneTask, Inv, TypeOK
  <2>5. x \in Single!Unsent /\ sent' = Append(sent, x)
    BY SameMail DEF Send
  <2> QED BY <2>3, <2>4, <2>5 DEF Send, Single!Send, Single!Over
<1> QED BY <1>2, <1>3

LEMMA RegisterMaps ==
  ASSUME Inv, Register
  PROVE  Single!Register
<1>1. primary = "starting" /\ secondary = "registering"
  BY DEF Inv, Handshake, Register
<1>2. CASE secondary' = "running" /\ UNCHANGED <<primary, rx>>
  BY <1>1, <1>2 DEF Register, Single!Register, AsOneTask, AsOneBox
<1>3. CASE secondary' = "gone" /\ primary' = "crashed"
  BY <1>1, <1>3 DEF Register, Single!Register, AsOneTask, AsOneBox
<1> QED BY <1>2, <1>3 DEF Register

LEMMA SecondaryReceivesMaps ==
  ASSUME Inv, Inv', SecondaryReceives
  PROVE  UNCHANGED <<AsOneTask, AsOneBox, now, handled, sent>>
<1>1. /\ rx # <<>> /\ secondary = "running" /\ secondary' # "stray"
      /\ UNCHANGED <<primary, now, handled, sent>>
  BY DEF SecondaryReceives, Inv, NeverStray
<1>2. secondary' # "registering"
  BY <1>1 DEF SecondaryReceives, ServeRequest, Leave, Deliver, SendToPrimary, Astray
<1>3. AsOneTask' = AsOneTask
  BY <1>1, <1>2 DEF AsOneTask
<1>4. CASE primary \in {"ended", "crashed"}
  BY <1>1, <1>3, <1>4 DEF AsOneBox
<1>5. CASE primary \notin {"ended", "crashed"}
  <2>1. At(Die, rx) = {} /\ Head(rx) # Die
    BY <1>1, <1>5, AtTail, BoxTypes DEF Inv, Handshake
  <2>2. CASE Head(rx) = PrimaryRequest
    <3>1. ServeRequest /\ ~primary_waiting /\ primary_rx = <<>>
      <4>1. 1 \in At(PrimaryRequest, rx)
        BY <1>1, <2>2, AtTail, BoxTypes
      <4> QED BY <2>1, <2>2, <4>1 DEF SecondaryReceives, Inv, Handshake
    <3>2. Pending(Tail(rx)) = Pending(rx)
      BY <1>1, <2>2, BoxTypes, PendingServe
    <3>3. CASE queue = <<>>
      BY <1>1, <1>3, <1>5, <3>1, <3>2, <3>3 DEF ServeRequest, AsOneBox
    <3>4. CASE queue # <<>>
      <4>1. /\ primary_rx' = Append(<<>>, Head(queue)) /\ queue' = Tail(queue)
            /\ rx' = Tail(rx)
        BY <1>5, <3>1, <3>4 DEF ServeRequest, SendToPrimary
      <4>2. Append(<<>>, Head(queue)) \o Tail(queue) = <<>> \o queue
        BY <3>4, BoxTypes, EmptySeq, MoveHead
      <4> QED BY <1>1, <1>3, <1>5, <3>1, <3>2, <4>1, <4>2 DEF AsOneBox
    <3> QED BY <3>3, <3>4
  <2>3. CASE Head(rx) # PrimaryRequest
    <3>1. /\ Pending(rx) # <<>> /\ Head(Pending(rx)) = Head(rx)
          /\ Pending(Tail(rx)) = Tail(Pending(rx)) /\ Head(rx) \in RxItem
      BY <1>1, <2>3, BoxTypes, PendingTail, HeadTailProperties
    <3>2. Deliver(Head(rx))
      BY <2>1, <2>3 DEF SecondaryReceives
    <3>3. CASE primary_waiting
      <4>1. primary_rx = <<>> /\ queue = <<>>
        BY <3>3 DEF Inv, Handshake
      <4>2. primary_rx' = Append(primary_rx, Head(rx)) /\ queue' = queue /\ rx' = Tail(rx)
        BY <1>5, <3>2, <3>3 DEF Deliver, SendToPrimary
      <4>3. Append(<<>>, Head(rx)) \in Seq(RxItem)
        BY <3>1, EmptySeq, AppendProperties
      <4>4. primary_rx' \o queue' = Append(primary_rx \o queue, Head(rx))
        BY <4>1, <4>2, <4>3, EmptySeq, ConcatEmptySeq
      <4>5. Append(primary_rx \o queue, Head(Pending(rx))) \o Tail(Pending(rx))
              = (primary_rx \o queue) \o Pending(rx)
        BY <3>1, BoxTypes, MoveHead
      <4> QED BY <1>1, <1>3, <1>5, <3>1, <4>2, <4>4, <4>5 DEF AsOneBox
    <3>4. CASE ~primary_waiting
      <4>1. primary_rx' = primary_rx /\ queue' = Append(queue, Head(rx)) /\ rx' = Tail(rx)
        BY <3>2, <3>4 DEF Deliver
      <4>2. primary_rx \o Append(queue, Head(rx)) = Append(primary_rx \o queue, Head(rx))
        <5>1. primary_rx \in Seq(RxItem) /\ queue \in Seq(RxItem) /\ Head(rx) \in RxItem
          BY <3>1, BoxTypes
        <5> QED BY <5>1, ConcatAppend
      <4>3. Append(primary_rx \o queue, Head(Pending(rx))) \o Tail(Pending(rx))
              = (primary_rx \o queue) \o Pending(rx)
        BY <3>1, BoxTypes, MoveHead
      <4> QED BY <1>1, <1>3, <1>5, <3>1, <4>1, <4>2, <4>3 DEF AsOneBox
    <3> QED BY <3>3, <3>4
  <2> QED BY <2>2, <2>3
<1> QED BY <1>4, <1>5

LEMMA LastReferenceDroppedMaps ==
  ASSUME Inv, LastReferenceDropped
  PROVE  UNCHANGED <<AsOneTask, AsOneBox, now, handled, sent>>
BY DEF LastReferenceDropped, AsOneTask, AsOneBox

\* The request of the primary is no part of the mailbox.
LEMMA AskingChangesNothing ==
  ASSUME Inv, primary \in {"starting", "handling"}, secondary # "registering",
         SendToSecondary(PrimaryRequest, "waiting"), UNCHANGED <<secondary, queue, primary_rx>>
  PROVE  AsOneBox' = AsOneBox /\ AsOneTask' = "idle"
<1>1. At(PrimaryRequest, rx) = {} /\ PrimaryRequest \in RxItem
  BY DEF Inv, Handshake, RxItem
<1>2. Pending(Append(rx, PrimaryRequest)) = rx /\ Pending(rx) = rx
  BY <1>1, BoxTypes, PendingAsk DEF Pending
<1>3. rx' = Append(rx, PrimaryRequest) /\ primary' = "waiting"
  BY PrimaryAsks
<1> QED BY <1>2, <1>3 DEF AsOneBox, AsOneTask

LEMMA BeginMaps ==
  ASSUME Inv, Begin
  PROVE  Single!Begin
BY AskingChangesNothing DEF Begin, Single!Begin, AsOneTask

LEMMA FinishMaps ==
  ASSUME Inv, Finish
  PROVE  Single!Finish
<1>1. secondary # "registering"
  BY DEF Inv, Handshake, Finish
<1> QED BY <1>1, AskingChangesNothing DEF Finish, Single!Finish, AsOneTask, NoMsg, Single!NoMsg

LEMMA TakeMaps ==
  ASSUME Inv, Take
  PROVE  Single!Take
<1>1. primary = "waiting" /\ secondary = "running" /\ primary_rx # <<>>
  BY DEF Inv, Handshake, Take
<1>2. /\ primary_rx \o queue # <<>> /\ Head(primary_rx \o queue) = Head(primary_rx)
      /\ Tail(primary_rx \o queue) = Tail(primary_rx) \o queue
  BY <1>1, BoxTypes, HeadOfConcat
<1>3. /\ AsOneBox # <<>> /\ Head(AsOneBox) = Head(primary_rx)
      /\ Tail(AsOneBox) = (Tail(primary_rx) \o queue) \o Pending(rx)
  BY <1>1, <1>2, BoxTypes, HeadOfConcat DEF AsOneBox
<1>4. /\ primary_rx' = Tail(primary_rx) /\ UNCHANGED <<secondary, rx, queue, handled, sent>>
      /\ primary' \in {"stopping", "handling"}
  BY <1>1 DEF Take
<1>5. AsOneBox' = Tail(AsOneBox)
  BY <1>3, <1>4 DEF AsOneBox
<1>6. AsOneTask = "idle" /\ AsOneTask' = primary'
  BY <1>1, <1>4 DEF AsOneTask
<1> QED BY <1>1, <1>3, <1>4, <1>5, <1>6 DEF Take, Single!Take, Term, Single!Term

LEMMA EndMaps ==
  ASSUME Inv, End
  PROVE  Single!End
<1>1. secondary = "running" /\ primary' = "ended"
  BY DEF Inv, Handshake, End, SendToSecondary
<1> QED BY <1>1 DEF End, Single!End, AsOneTask, AsOneBox

LEMMA CrashMaps ==
  ASSUME Inv, Crash
  PROVE  Single!Crash
BY DEF Crash, Single!Crash, AsOneTask, AsOneBox, NoMsg, Single!NoMsg

LEMMA InitMaps == Init => Single!Init
<1> SUFFICES ASSUME Init PROVE Single!Init
  OBVIOUS
<1>1. Pending(<<>>) = <<>>
  BY AtEmpty DEF Pending
<1>2. <<>> \o <<>> = <<>>
  BY EmptySeq, ConcatEmptySeq
<1> QED BY <1>1, <1>2 DEF Init, Single!Init, AsOneTask, AsOneBox, NoMsg, Single!NoMsg

LEMMA NextMaps == Inv /\ Inv' /\ [Next]_vars => [Single!Next]_Single!vars
<1> SUFFICES ASSUME Inv, Inv', [Next]_vars PROVE [Single!Next]_Single!vars
  OBVIOUS
<1>1. CASE \E x \in Item : Send(x)
  <2>1. PICK x \in Item : Send(x)
    BY <1>1
  <2>2. Single!Send(x)
    BY <2>1, SendMaps
  <2> QED BY <2>2 DEF Single!Next, Single!Item, Item, Single!Term, Term
<1>2. CASE SecondaryReceives \/ LastReferenceDropped
  BY <1>2, SecondaryReceivesMaps, LastReferenceDroppedMaps DEF Single!vars
<1>3. CASE UNCHANGED vars
  BY <1>3 DEF vars, Single!vars, AsOneTask, AsOneBox
<1> QED BY <1>1, <1>2, <1>3, RegisterMaps, BeginMaps, TakeMaps, FinishMaps, EndMaps, CrashMaps
        DEF Next, Single!Next

(* To its users a double-threaded actor is a single task with one mailbox, *)
(* whatever the messages and however the two tasks interleave: every       *)
(* behaviour of the two tasks is one of unit_single.                       *)
THEOREM TwoTasksActAsOne == Spec => Single!Spec
BY SecondaryNeverPanics, InitMaps, NextMaps, PTL DEF Spec, Single!Spec
=============================================================================
