--------------------------- MODULE ReceiversProofs ---------------------------
(***************************************************************************)
(* Proofs about the heartbeat receivers, for any charges, tries and bounds.*)
(* Two inductive invariants on top of the types:                           *)
(*                                                                         *)
(*   Earned  what a receiver has still to ask for, and how long its charge *)
(*           has been silent, add up to the tries required                 *)
(*   Named   who of the receivers of a charge may be in the registry, and  *)
(*           which messages to the registry are on their way               *)
(***************************************************************************)
EXTENDS Receivers, SequenceTheorems, TLAPS

TaskEarned(t) ==
  /\ t.state \in {Receiving, Downed} \cup {Initial(k) : k \in 0 .. ReqTries}
  /\ t.state.mode = "initial" => t.state.left + t.silent >= ReqTries
  /\ t.state # Downed => t.told = <<>>
  /\ Len(t.told) <= 1 /\ \A i \in DOMAIN t.told : t.told[i] > ReqTries

Earned == \A r \in Receiver : TaskEarned(task[r])

Latest(c) == <<c, spawned[c]>>

\* A message of one of c's receivers, and one that is queued once at most.
Speaks(m, c) == m.op # "forward" /\ m.r[1] = c
Once(x) == \A i, j \in DOMAIN regbox : regbox[i] = x /\ regbox[j] = x => i = j

\* The registry and the tasks of a charge that never came back too early.
NamedOK(c) ==
  /\ \A k \in Number : k < spawned[c] => task[<<c, k>>].phase = "ended"
  /\ \A m \in RegistryMsg :
       Queued(m) /\ Speaks(m, c) =>
         /\ m.r = Latest(c)
         /\ task[m.r].phase = IF m.op = "register" THEN "awaiting" ELSE "ended"
  /\ Once(Register(Latest(c)))
  /\ register[c] \in {None, spawned[c]}
  /\ spawned[c] \in Number =>
       /\ task[Latest(c)].phase # "panicked"
       /\ task[Latest(c)].phase \in {"confirmed", "running"} => register[c] = spawned[c]
       /\ register[c] # None =>
            \/ task[Latest(c)].phase \in {"confirmed", "running"}
            \/ task[Latest(c)].phase = "ended" /\ Queued(Deregister(Latest(c)))

Named ==
  /\ \A c \in Charge, k \in Number : task[<<c, k>>].phase = "unborn" <=> k > spawned[c]
  /\ \A m \in RegistryMsg :
       Queued(m) /\ m.op # "forward" => task[m.r].phase # "unborn"
  /\ \A c \in Charge \ rushed : NamedOK(c)
-----------------------------------------------------------------------------
(* The types.                                                               *)

Types == TypeOK /\ charges \in [Charge -> Nat]

\* What differs at most in what the mailbox holds.
SameLife(t, u) ==
  u.phase = t.phase /\ u.state = t.state /\ u.silent = t.silent /\ u.told = t.told

LEMMA NumberIs == Number \subseteq Nat /\ None \notin Number /\ None \in Nat /\ 1 \in Number
BY ReceiversAssumption DEF Number, None

LEMMA ReceiverIs ==
  ASSUME NEW r \in Receiver
  PROVE  r[1] \in Charge /\ r[2] \in Number /\ r = <<r[1], r[2]>>
BY DEF Receiver

LEMMA TaskIs ==
  ASSUME NEW t \in Task
  PROVE  /\ t.phase \in Phase /\ t.state \in HBRState /\ t.box \in Seq({"heartbeat", "term"})
         /\ t.silent \in Nat /\ t.told \in Seq(Nat)
BY DEF Task

LEMMA StatesAre ==
  ASSUME NEW n \in 0 .. ReqTries
  PROVE  Initial(n) \in HBRState /\ Receiving \in HBRState /\ Downed \in HBRState
         /\ Initial(n).mode = "initial" /\ Initial(n).left = n
BY ReceiversAssumption DEF Initial, Receiving, Downed, HBRState

LEMMA PutIs ==
  ASSUME NEW t \in Task, NEW x \in {"heartbeat", "term"}
  PROVE  Put(t, x) \in Task /\ SameLife(t, Put(t, x))
<1> DEFINE box == Append(t.box, x)
<1>1. box \in Seq({"heartbeat", "term"})
  BY TaskIs
<1> HIDE DEF box
<1>2. [t EXCEPT !.box = box] \in Task /\ SameLife(t, [t EXCEPT !.box = box])
  BY <1>1 DEF Task, SameLife
<1>3. Put(t, x) = IF t.phase \in {"ended", "panicked"} THEN t ELSE [t EXCEPT !.box = box]
  BY DEF Put, box
<1> QED
  BY <1>2, <1>3 DEF SameLife

LEMMA TerminatedIs ==
  ASSUME Types, NEW C
  PROVE  /\ Terminated(C) \in [Receiver -> Task]
         /\ \A r \in Receiver : SameLife(task[r], Terminated(C)[r])
<1>1. \A r \in Receiver : task[r] \in Task
  BY DEF Types, TypeOK
<1>2. \A r \in Receiver : Put(task[r], "term") \in Task /\ SameLife(task[r], Put(task[r], "term"))
  BY <1>1, PutIs
<1>3. ASSUME NEW r \in Receiver
      PROVE  Terminated(C)[r] \in Task /\ SameLife(task[r], Terminated(C)[r])
  BY <1>1, <1>2 DEF Terminated, SameLife
<1> QED
  BY <1>3 DEF Terminated

\* Elements of a queue that has lost its head or got another one.
LEMMA TailHas ==
  ASSUME NEW S, NEW q \in Seq(S), q # <<>>
  PROVE  /\ Tail(q) \in Seq(S) /\ Head(q) \in S /\ 1 \in DOMAIN q /\ q[1] = Head(q)
         /\ \A i \in DOMAIN Tail(q) : i + 1 \in DOMAIN q /\ i + 1 # 1 /\ Tail(q)[i] = q[i + 1]
         /\ \A i \in DOMAIN q : i # 1 => i - 1 \in DOMAIN Tail(q) /\ Tail(q)[i - 1] = q[i]
<1>1. /\ Len(q) \in Nat /\ Len(q) >= 1 /\ DOMAIN q = 1 .. Len(q)
      /\ Tail(q) \in Seq(S) /\ Head(q) \in S /\ Head(q) = q[1]
      /\ Len(Tail(q)) = Len(q) - 1 /\ \A i \in 1 .. Len(Tail(q)) : Tail(q)[i] = q[i + 1]
      /\ DOMAIN Tail(q) = 1 .. Len(Tail(q))
  OBVIOUS
<1> DEFINE n == Len(q)
<1> HIDE DEF n
<1>2. n \in Nat /\ n >= 1 /\ DOMAIN q = 1 .. n /\ DOMAIN Tail(q) = 1 .. n - 1
  BY <1>1 DEF n
<1>3. \A i \in 1 .. n - 1 : Tail(q)[i] = q[i + 1]
  BY <1>1 DEF n
<1>4. \A i \in 1 .. n - 1 : i + 1 \in 1 .. n /\ i + 1 # 1
  BY <1>2
<1>5. \A i \in 1 .. n : i # 1 => i - 1 \in 1 .. n - 1 /\ (i - 1) + 1 = i
  BY <1>2
<1>6. 1 \in 1 .. n
  BY <1>2
<1> QED
  BY <1>1, <1>2, <1>3, <1>4, <1>5, <1>6

LEMMA AppendHas ==
  ASSUME NEW S, NEW q \in Seq(S), NEW x \in S
  PROVE  /\ Append(q, x) \in Seq(S)
         /\ DOMAIN Append(q, x) = DOMAIN q \cup {Len(q) + 1} /\ Len(q) + 1 \notin DOMAIN q
         /\ \A i \in DOMAIN q : Append(q, x)[i] = q[i]
         /\ Append(q, x)[Len(q) + 1] = x
<1>1. /\ Append(q, x) \in Seq(S) /\ Len(q) \in Nat /\ Len(Append(q, x)) = Len(q) + 1
      /\ DOMAIN q = 1 .. Len(q) /\ DOMAIN Append(q, x) = 1 .. Len(Append(q, x))
      /\ \A i \in 1 .. Len(q) : Append(q, x)[i] = q[i]
      /\ Append(q, x)[Len(q) + 1] = x
  BY AppendProperties
<1> DEFINE n == Len(q)
<1> HIDE DEF n
<1>2. n \in Nat /\ DOMAIN q = 1 .. n /\ DOMAIN Append(q, x) = 1 .. n + 1
  BY <1>1 DEF n
<1>3. 1 .. n + 1 = (1 .. n) \cup {n + 1} /\ n + 1 \notin 1 .. n
  BY <1>2
<1> QED
  BY <1>1, <1>2, <1>3 DEF n

LEMMA RegistryMsgs ==
  ASSUME NEW r \in Receiver
  PROVE  /\ Register(r) \in RegistryMsg /\ Deregister(r) \in RegistryMsg
         /\ Register(r).op = "register" /\ Register(r).r = r
         /\ Deregister(r).op = "deregister" /\ Deregister(r).r = r
BY DEF Register, Deregister, RegistryMsg

LEMMA RegistryMsgIs ==
  ASSUME NEW m \in RegistryMsg
  PROVE  /\ m.op \in {"register", "deregister", "forward"}
         /\ m.r[1] \in Charge
         /\ m.op = "forward" => m.r[2] = None
         /\ m.op # "forward" =>
              /\ m.r \in Receiver
              /\ m = IF m.op = "register" THEN Register(m.r) ELSE Deregister(m.r)
BY DEF RegistryMsg, Receiver, Register, Deregister
-----------------------------------------------------------------------------
(* What each action does to the tasks, and that it keeps the types.         *)

\* Only the task r has changed, to u.
Becomes(r, u) ==
  /\ r \in Receiver /\ u \in Task
  /\ task' \in [Receiver -> Task] /\ task'[r] = u
  /\ \A q \in Receiver : q # r => task'[q] = task[q]

LEMMA TaskChange ==
  ASSUME Types, NEW r \in Receiver, NEW u \in Task, task' = [task EXCEPT ![r] = u]
  PROVE  Becomes(r, u)
<1>1. task \in [Receiver -> Task]
  BY DEF Types, TypeOK
<1> HIDE DEF Task
<1>2. task' \in [Receiver -> Task] /\ task'[r] = u
  BY <1>1
<1>3. \A q \in Receiver : q # r => task'[q] = task[q]
  BY <1>1
<1> QED
  BY <1>2, <1>3 DEF Becomes

\* No task has changed but for its mailbox.
SameLives ==
  /\ task' \in [Receiver -> Task]
  /\ \A r \in Receiver : SameLife(task[r], task'[r])

LEMMA TypesAre ==
  ASSUME Types
  PROVE  /\ up \in BOOLEAN /\ spawned \in [Charge -> 0 .. MaxSpawns] /\ charges \in [Charge -> Nat]
         /\ \A c \in Charge : charges[c] \in {None, spawned[c]}
         /\ downed \in Seq(Charge) /\ gone \subseteq Charge /\ task \in [Receiver -> Task]
         /\ register \in [Charge -> Number \cup {None}] /\ regbox \in Seq(RegistryMsg)
         /\ rushed \subseteq Charge /\ beats \in [Charge -> 0 .. MaxBeats]
         /\ \A c \in Charge : spawned[c] \in Nat
BY DEF Types, TypeOK

LEMMA GainEffect ==
  ASSUME Types, NEW c \in Charge, Gain(c)
  PROVE  LET r == <<c, spawned[c] + 1>> IN
         /\ Becomes(r, [task[r] EXCEPT !.phase = "spawned"]) /\ Types'
         /\ spawned' = [spawned EXCEPT ![c] = @ + 1] /\ spawned'[c] = spawned[c] + 1
         /\ \A d \in Charge : d # c => spawned'[d] = spawned[d]
         /\ c \notin rushed' => NameFree(c)
         /\ rushed \subseteq rushed' /\ register' = register /\ regbox' = regbox
<1> DEFINE n == spawned[c] + 1
           r == <<c, n>>
           u == [task[r] EXCEPT !.phase = "spawned"]
<1>1. /\ spawned \in [Charge -> 0 .. MaxSpawns] /\ spawned[c] < MaxSpawns /\ MaxSpawns \in Nat
      /\ charges \in [Charge -> Nat] /\ task \in [Receiver -> Task]
      /\ spawned' = [spawned EXCEPT ![c] = @ + 1]
  BY TypesAre, ReceiversAssumption DEF Gain
<1>2. n \in Number /\ n \in 0 .. MaxSpawns /\ n \in Nat /\ r \in Receiver
  <2>1. spawned[c] \in 0 .. MaxSpawns
    BY <1>1
  <2>2. n \in 1 .. MaxSpawns /\ n \in 0 .. MaxSpawns /\ n \in Nat
    BY <1>1, <2>1
  <2> QED
    BY <2>2 DEF Number, Receiver
<1>3. spawned'[c] = n /\ spawned' \in [Charge -> 0 .. MaxSpawns]
      /\ \A d \in Charge : d # c => spawned'[d] = spawned[d]
  BY <1>1, <1>2
<1> HIDE DEF n
<1>4. u \in Task
  <2>1. task[r] \in Task
    BY <1>1, <1>2
  <2> QED
    BY <2>1 DEF Task, Phase
<1>5. task' = [task EXCEPT ![r] = u] /\ charges' = [charges EXCEPT ![c] = n]
  BY <1>3 DEF Gain
<1>6. Becomes(r, u)
  BY <1>2, <1>4, <1>5, TaskChange
<1>7. charges' \in [Charge -> Nat] /\ \A d \in Charge : charges'[d] \in {None, spawned'[d]}
  BY <1>1, <1>2, <1>3, <1>5, TypesAre
<1>8. /\ rushed' \subseteq Charge /\ rushed \subseteq rushed'
      /\ c \notin rushed' => NameFree(c)
  BY TypesAre DEF Gain
<1>9. Types'
  BY <1>3, <1>6, <1>7, <1>8, TypesAre DEF Gain, Types, TypeOK, registry, Becomes
<1> QED
  BY <1>1, <1>3, <1>6, <1>8, <1>9 DEF n, Gain, registry

LEMMA WithoutTypes ==
  ASSUME Types, NEW C
  PROVE  Without(C) \in [Charge -> Nat] /\ \A c \in Charge : Without(C)[c] \in {None, spawned[c]}
BY TypesAre, NumberIs DEF Without

LEMMA LoseEffect ==
  ASSUME Types, NEW c \in Charge, Lose(c)
  PROVE  Types' /\ SameLives /\ UNCHANGED <<spawned, rushed, register, regbox>>
<1>1. SameLives
  BY TerminatedIs DEF Lose, SameLives
<1>2. Types'
  BY <1>1, WithoutTypes, TypesAre DEF Lose, Types, TypeOK, registry, SameLives
<1> QED
  BY <1>1, <1>2 DEF Lose, registry

LEMMA MarkDownEffect ==
  ASSUME Types, MarkDown
  PROVE  Types' /\ SameLives /\ UNCHANGED <<spawned, rushed, register, regbox>>
<1>1. SameLives
  BY TerminatedIs DEF MarkDown, SameLives
<1>2. downed' \in Seq(Charge) /\ Head(downed) \in Charge
  BY TypesAre DEF MarkDown
<1>3. Types'
  BY <1>1, <1>2, WithoutTypes, TypesAre DEF MarkDown, Types, TypeOK, registry, SameLives
<1> QED
  BY <1>1, <1>3 DEF MarkDown, registry

LEMMA StopEffect ==
  ASSUME Types, Stop
  PROVE  Types' /\ SameLives /\ UNCHANGED <<spawned, rushed, register, regbox>>
<1>1. SameLives
  BY TerminatedIs DEF Stop, SameLives
<1>2. downed' \in Seq(Charge)
  BY DEF Stop
<1>3. Types'
  BY <1>1, <1>2, WithoutTypes, TypesAre DEF Stop, Types, TypeOK, registry, SameLives
<1> QED
  BY <1>1, <1>3 DEF Stop, registry

LEMMA StartEffect ==
  ASSUME Types, NEW r \in Receiver, Start(r)
  PROVE  /\ Types' /\ Becomes(r, [task[r] EXCEPT !.phase = "awaiting"])
         /\ task[r].phase = "spawned" /\ regbox' = Append(regbox, Register(r))
         /\ UNCHANGED <<spawned, rushed, register>>
<1>1. [task[r] EXCEPT !.phase = "awaiting"] \in Task
  BY TypesAre DEF Task, Phase
<1>2. task' = [task EXCEPT ![r] = [task[r] EXCEPT !.phase = "awaiting"]]
  BY DEF Start
<1>3. Becomes(r, [task[r] EXCEPT !.phase = "awaiting"])
  BY <1>1, <1>2, TaskChange
<1>4. regbox' \in Seq(RegistryMsg)
  BY TypesAre, RegistryMsgs DEF Start
<1>5. Types'
  BY <1>3, <1>4, TypesAre DEF Start, Types, TypeOK, cluster, Becomes
<1> QED
  BY <1>3, <1>5 DEF Start, cluster

LEMMA BeginEffect ==
  ASSUME Types, NEW r \in Receiver, Begin(r)
  PROVE  /\ Types' /\ Becomes(r, [task[r] EXCEPT !.phase = "running"])
         /\ task[r].phase = "confirmed"
         /\ UNCHANGED <<spawned, rushed, register, regbox>>
<1>1. [task[r] EXCEPT !.phase = "running"] \in Task
  BY TypesAre DEF Task, Phase
<1>2. task' = [task EXCEPT ![r] = [task[r] EXCEPT !.phase = "running"]]
  BY DEF Begin
<1>3. Becomes(r, [task[r] EXCEPT !.phase = "running"])
  BY <1>1, <1>2, TaskChange
<1>4. Types'
  BY <1>3, TypesAre DEF Begin, Types, TypeOK, cluster, registry, Becomes
<1> QED
  BY <1>3, <1>4 DEF Begin, cluster, registry

LEMMA TakeHeartbeatEffect ==
  ASSUME Types, NEW r \in Receiver, TakeHeartbeat(r)
  PROVE  /\ Types'
         /\ \E u \in Task :
              /\ Becomes(r, u) /\ u.phase = task[r].phase /\ u.told = task[r].told
              /\ u.state = IF task[r].state = Downed THEN Downed ELSE Receiving
         /\ UNCHANGED <<spawned, rushed, register, regbox>>
<1> DEFINE u == [task[r] EXCEPT !.box = Tail(@),
                                !.state = IF @ = Downed THEN Downed ELSE Receiving, !.silent = 0]
<1>1. task[r] \in Task /\ Tail(task[r].box) \in Seq({"heartbeat", "term"})
  BY TypesAre, TaskIs DEF TakeHeartbeat
<1>2. Receiving \in HBRState /\ Downed \in HBRState
  BY StatesAre, ReceiversAssumption
<1>3. /\ u \in Task /\ u.phase = task[r].phase /\ u.told = task[r].told
      /\ u.state = IF task[r].state = Downed THEN Downed ELSE Receiving
  BY <1>1, <1>2 DEF Task
<1>4. task' = [task EXCEPT ![r] = u]
  BY DEF TakeHeartbeat
<1> HIDE DEF u
<1>5. Becomes(r, u)
  BY <1>3, <1>4, TaskChange
<1>6. Types'
  BY <1>5, TypesAre DEF TakeHeartbeat, Types, TypeOK, cluster, registry, Becomes
<1> QED
  BY <1>3, <1>5, <1>6 DEF TakeHeartbeat, cluster, registry

LEMMA TakeTermEffect ==
  ASSUME Types, NEW r \in Receiver, TakeTerm(r)
  PROVE  /\ Types' /\ Becomes(r, [task[r] EXCEPT !.box = <<>>, !.phase = "ended"])
         /\ task[r].phase = "running" /\ regbox' = Append(regbox, Deregister(r))
         /\ UNCHANGED <<spawned, rushed, register>>
<1> DEFINE u == [task[r] EXCEPT !.box = <<>>, !.phase = "ended"]
<1>1. u \in Task
  <2>1. task[r] \in Task /\ <<>> \in Seq({"heartbeat", "term"})
    BY TypesAre
  <2> QED
    BY <2>1 DEF Task, Phase
<1>2. task' = [task EXCEPT ![r] = u]
  BY DEF TakeTerm
<1> HIDE DEF u
<1>3. Becomes(r, u)
  BY <1>1, <1>2, TaskChange
<1>4. regbox' \in Seq(RegistryMsg)
  BY TypesAre, RegistryMsgs DEF TakeTerm
<1>5. Types'
  BY <1>3, <1>4, TypesAre DEF TakeTerm, Types, TypeOK, cluster, Becomes
<1> QED
  BY <1>3, <1>5 DEF TakeTerm, cluster, u

LEMMA AfterTimeoutIs ==
  ASSUME NEW s \in HBRState
  PROVE  AfterTimeout(s) \in HBRState
<1>1. s.left \in Nat /\ s.left <= ReqTries /\ ReqTries \in Nat
  BY ReceiversAssumption DEF HBRState
<1>2. ReqTries \in 0 .. ReqTries /\ (s.left > 0 => s.left - 1 \in 0 .. ReqTries)
  BY <1>1
<1> QED
  BY <1>2, StatesAre DEF AfterTimeout

LEMMA TimeoutEffect ==
  ASSUME Types, NEW r \in Receiver, Timeout(r)
  PROVE  /\ Types'
         /\ task[r].state # Downed
         /\ \E u \in Task :
              /\ Becomes(r, u) /\ u.phase = task[r].phase /\ u.state = AfterTimeout(task[r].state)
              /\ u.silent = task[r].silent + 1
              /\ u.told = IF task[r].state = Initial(0) THEN Append(task[r].told, task[r].silent + 1)
                                                        ELSE task[r].told
         /\ UNCHANGED <<spawned, rushed, register, regbox>>
<1> DEFINE told == IF task[r].state = Initial(0) THEN Append(task[r].told, task[r].silent + 1)
                                                 ELSE task[r].told
           u == [task[r] EXCEPT !.state = AfterTimeout(@), !.silent = @ + 1, !.told = told]
<1>1. task[r] \in Task
  BY TypesAre
<1>2. /\ told \in Seq(Nat) /\ task[r].silent + 1 \in Nat
      /\ AfterTimeout(task[r].state) \in HBRState
  BY <1>1, TaskIs, AfterTimeoutIs
<1>3. task' = [task EXCEPT ![r] = u]
  BY DEF Timeout
<1> HIDE DEF told
<1>4. /\ u \in Task /\ u.phase = task[r].phase /\ u.state = AfterTimeout(task[r].state)
      /\ u.silent = task[r].silent + 1 /\ u.told = told
  BY <1>1, <1>2 DEF Task
<1> HIDE DEF u
<1>5. Becomes(r, u)
  BY <1>3, <1>4, TaskChange
<1>6. downed' \in Seq(Charge)
  <2>1. Append(downed, r[1]) \in Seq(Charge)
    BY TypesAre, ReceiverIs
  <2> QED
    BY <2>1, TypesAre DEF Timeout
<1>7. Types'
  BY <1>5, <1>6, TypesAre DEF Timeout, Types, TypeOK, cluster, registry, Becomes
<1> QED
  BY <1>4, <1>5, <1>7 DEF Timeout, cluster, registry, told

LEMMA BeatEffect ==
  ASSUME Types, NEW c \in Charge, Beat(c)
  PROVE  /\ Types' /\ task' = task /\ UNCHANGED <<spawned, rushed, register>>
         /\ \E x \in RegistryMsg : x.op = "forward" /\ regbox' = Append(regbox, x)
<1>1. Forward(<<c, None>>) \in RegistryMsg /\ Forward(<<c, None>>).op = "forward"
  BY DEF Forward, RegistryMsg
<1>2. regbox' \in Seq(RegistryMsg)
  BY <1>1, TypesAre DEF Beat
<1>3. beats' \in [Charge -> 0 .. MaxBeats]
  <2>1. beats[c] + 1 \in 0 .. MaxBeats
    <3>1. beats[c] \in 0 .. MaxBeats /\ beats[c] < MaxBeats /\ MaxBeats \in Nat
      BY TypesAre, ReceiversAssumption DEF Beat
    <3> QED
      BY <3>1
  <2> QED
    BY <2>1, TypesAre DEF Beat
<1>4. Types'
  BY <1>2, <1>3, TypesAre DEF Beat, Types, TypeOK, cluster
<1> QED
  BY <1>1, <1>4 DEF Beat, cluster

\* The registry has taken the first message.
LEMMA ReceivedIs ==
  ASSUME Types, NEW op, Received(op)
  PROVE  /\ Head(regbox) \in RegistryMsg /\ Head(regbox).op = op /\ regbox # <<>>
         /\ regbox' = Tail(regbox) /\ regbox' \in Seq(RegistryMsg)
BY TypesAre, TailHas DEF Received

LEMMA HandleRegisterEffect ==
  ASSUME Types, HandleRegister
  PROVE  LET r == Head(regbox).r IN
         /\ Types' /\ r \in Receiver /\ Head(regbox) = Register(r) /\ regbox # <<>>
         /\ regbox' = Tail(regbox) /\ UNCHANGED <<spawned, rushed>>
         /\ \E u \in Task :
              /\ Becomes(r, u) /\ u.state = task[r].state /\ u.silent = task[r].silent
              /\ u.told = task[r].told
              /\ u.phase = IF register[r[1]] = None THEN "confirmed" ELSE "panicked"
         /\ register' = IF register[r[1]] = None THEN [register EXCEPT ![r[1]] = r[2]] ELSE register
<1> DEFINE r == Head(regbox).r
<1>1. /\ Head(regbox) \in RegistryMsg /\ Head(regbox).op = "register" /\ regbox # <<>>
      /\ regbox' = Tail(regbox) /\ regbox' \in Seq(RegistryMsg)
  BY ReceivedIs DEF HandleRegister
<1>2. r \in Receiver /\ Head(regbox) = Register(r) /\ r[1] \in Charge /\ r[2] \in Number
  BY <1>1, RegistryMsgIs, ReceiverIs
<1> HIDE DEF r
<1>3. task[r] \in Task
  BY <1>2, TypesAre
<1>4. UNCHANGED <<up, spawned, charges, gone, rushed, downed, beats>>
  BY DEF HandleRegister, cluster
<1>5. CASE register[r[1]] = None
  <2> DEFINE u == [task[r] EXCEPT !.phase = "confirmed"]
  <2>1. /\ u \in Task /\ u.phase = "confirmed" /\ u.state = task[r].state
        /\ u.silent = task[r].silent /\ u.told = task[r].told
    BY <1>3 DEF Task, Phase
  <2>2. task' = [task EXCEPT ![r] = u] /\ register' = [register EXCEPT ![r[1]] = r[2]]
    BY <1>5 DEF HandleRegister, r
  <2> HIDE DEF u
  <2>3. Becomes(r, u)
    BY <1>2, <2>1, <2>2, TaskChange
  <2>4. register' \in [Charge -> Number \cup {None}]
    BY <1>2, <2>2, TypesAre
  <2>5. Types'
    BY <1>1, <1>4, <2>3, <2>4, TypesAre DEF Types, TypeOK, Becomes
  <2> QED
    BY <1>1, <1>2, <1>4, <1>5, <2>1, <2>2, <2>3, <2>5 DEF r
<1>6. CASE register[r[1]] # None
  <2> DEFINE u == [task[r] EXCEPT !.phase = "panicked", !.box = <<>>]
  <2>1. /\ u \in Task /\ u.phase = "panicked" /\ u.state = task[r].state
        /\ u.silent = task[r].silent /\ u.told = task[r].told
    <3>1. <<>> \in Seq({"heartbeat", "term"})
      OBVIOUS
    <3> QED
      BY <1>3, <3>1 DEF Task, Phase
  <2>2. task' = [task EXCEPT ![r] = u] /\ register' = register
    BY <1>6 DEF HandleRegister, r
  <2> HIDE DEF u
  <2>3. Becomes(r, u)
    BY <1>2, <2>1, <2>2, TaskChange
  <2>4. Types'
    BY <1>1, <1>4, <2>2, <2>3, TypesAre DEF Types, TypeOK, Becomes
  <2> QED
    BY <1>1, <1>2, <1>4, <1>6, <2>1, <2>2, <2>3, <2>4 DEF r
<1> QED
  BY <1>5, <1>6

LEMMA HandleDeregisterEffect ==
  ASSUME Types, HandleDeregister
  PROVE  LET r == Head(regbox).r IN
         /\ Types' /\ r \in Receiver /\ Head(regbox) = Deregister(r) /\ regbox # <<>>
         /\ regbox' = Tail(regbox) /\ task' = task /\ UNCHANGED <<spawned, rushed>>
         /\ register' = [register EXCEPT ![r[1]] = None]
<1>1. /\ Head(regbox) \in RegistryMsg /\ Head(regbox).op = "deregister" /\ regbox # <<>>
      /\ regbox' = Tail(regbox) /\ regbox' \in Seq(RegistryMsg)
  BY ReceivedIs DEF HandleDeregister
<1>2. Head(regbox).r \in Receiver /\ Head(regbox) = Deregister(Head(regbox).r)
  BY <1>1, RegistryMsgIs
<1>3. register' \in [Charge -> Number \cup {None}]
  BY TypesAre DEF HandleDeregister
<1>4. Types'
  BY <1>1, <1>3, TypesAre DEF HandleDeregister, cluster, Types, TypeOK
<1> QED
  BY <1>1, <1>2, <1>4 DEF HandleDeregister, cluster

LEMMA HandleForwardEffect ==
  ASSUME Types, HandleForward
  PROVE  LET c == Head(regbox).r[1]
             r == <<c, register[c]>>
         IN
         /\ Types' /\ SameLives /\ c \in Charge /\ Head(regbox).op = "forward" /\ regbox # <<>>
         /\ regbox' = Tail(regbox) /\ UNCHANGED <<spawned, rushed>>
         /\ \/ register' = register
            \/ /\ register[c] # None /\ r \in Receiver /\ task[r].phase \in {"ended", "panicked"}
               /\ register' = [register EXCEPT ![c] = None]
<1> DEFINE c == Head(regbox).r[1]
           r == <<c, register[c]>>
<1>1. /\ Head(regbox) \in RegistryMsg /\ Head(regbox).op = "forward" /\ regbox # <<>>
      /\ regbox' = Tail(regbox) /\ regbox' \in Seq(RegistryMsg)
  BY ReceivedIs DEF HandleForward
<1>2. c \in Charge /\ register[c] \in Number \cup {None}
  BY <1>1, RegistryMsgIs, TypesAre
<1>3. UNCHANGED <<up, spawned, charges, gone, rushed, downed, beats>>
  BY DEF HandleForward, cluster
<1>4. CASE register[c] = None
  <2>1. register' = register /\ task' = task
    BY <1>4 DEF HandleForward
  <2>2. Types' /\ SameLives
    BY <1>1, <1>3, <2>1, TypesAre DEF Types, TypeOK, SameLives, SameLife
  <2> QED
    BY <1>1, <1>2, <1>3, <2>1, <2>2
<1>5. CASE register[c] # None
  <2>1. r \in Receiver
    BY <1>2, <1>5 DEF Receiver
  <2> DEFINE u == Put(task[r], "heartbeat")
  <2>2. u \in Task /\ SameLife(task[r], u)
    BY <2>1, TypesAre, PutIs
  <2>3. /\ task' = [task EXCEPT ![r] = u]
        /\ register' = IF Closed(r) THEN [register EXCEPT ![c] = None] ELSE register
    BY <1>5 DEF HandleForward
  <2> HIDE DEF u, r, c
  <2>4. Becomes(r, u)
    BY <2>1, <2>2, <2>3, TaskChange
  <2>5. SameLives
    BY <2>2, <2>4 DEF SameLives, SameLife, Becomes
  <2>6. register' \in [Charge -> Number \cup {None}]
    BY <1>2, <2>3, TypesAre
  <2>7. Types'
    BY <1>1, <1>3, <2>4, <2>6, TypesAre DEF Types, TypeOK, Becomes
  <2> QED
    BY <1>1, <1>2, <1>3, <1>5, <2>1, <2>3, <2>5, <2>7 DEF Closed, r, c
<1> QED
  BY <1>4, <1>5
-----------------------------------------------------------------------------
(* Typed and earned.                                                        *)

LEMMA InitTypes == Init => Types
<1> SUFFICES ASSUME Init PROVE Types
  OBVIOUS
<1>1. NoTask \in Task
  <2>1. <<>> \in Seq({"heartbeat", "term"}) /\ <<>> \in Seq(Nat) /\ ReqTries \in 0 .. ReqTries
    BY ReceiversAssumption
  <2>2. Initial(ReqTries) \in HBRState
    BY <2>1, StatesAre
  <2> QED
    BY <2>1, <2>2 DEF NoTask, Task, Phase
<1>2. 0 \in 0 .. MaxSpawns /\ 0 \in 0 .. MaxBeats /\ None \in Nat
  BY ReceiversAssumption DEF None
<1>3. <<>> \in Seq(Charge) /\ <<>> \in Seq(RegistryMsg)
  OBVIOUS
<1> QED
  BY <1>1, <1>2, <1>3 DEF Init, Types, TypeOK

LEMMA NextTypes == Types /\ [Next]_vars => Types'
<1> SUFFICES ASSUME Types, [Next]_vars PROVE Types'
  OBVIOUS
<1>1. CASE UNCHANGED vars
  BY <1>1 DEF vars, Types, TypeOK
<1>2. ASSUME NEW c \in Charge, Gain(c) \/ Lose(c) \/ Beat(c)
      PROVE  Types'
  BY <1>2, GainEffect, LoseEffect, BeatEffect
<1>3. CASE MarkDown \/ Stop \/ Registry
  BY <1>3, MarkDownEffect, StopEffect, HandleRegisterEffect, HandleDeregisterEffect,
     HandleForwardEffect DEF Registry
<1>4. ASSUME NEW r \in Receiver, Step(r) \/ Timeout(r)
      PROVE  Types'
  BY <1>4, StartEffect, BeginEffect, TakeHeartbeatEffect, TakeTermEffect, TimeoutEffect DEF Step
<1> QED
  BY <1>1, <1>2, <1>3, <1>4 DEF Next

(* The receivers, their mailboxes and the registry keep their types; a      *)
(* charge's receiver, if it has one, is the one spawned last.               *)
THEOREM TypeCorrect == Spec => []TypeOK
<1>1. Types => TypeOK
  BY DEF Types
<1> QED
  BY <1>1, InitTypes, NextTypes, PTL DEF Spec

\* A task whose life has not changed keeps what it has earned.
LEMMA EarnedBecomes ==
  ASSUME Earned, NEW r, NEW u, Becomes(r, u), TaskEarned(task[r]) => TaskEarned(u)
  PROVE  Earned'
BY DEF Becomes, Earned

LEMMA EarnedLives ==
  ASSUME Earned, SameLives
  PROVE  Earned'
BY DEF Earned, SameLives, SameLife, TaskEarned

LEMMA EarnedTimeout ==
  ASSUME NEW t \in Task, NEW u \in Task, TaskEarned(t), t.state # Downed,
         u.state = AfterTimeout(t.state), u.silent = t.silent + 1,
         u.told = IF t.state = Initial(0) THEN Append(t.told, t.silent + 1) ELSE t.told
  PROVE  TaskEarned(u)
<1>1. /\ t.silent \in Nat /\ ReqTries \in Nat /\ t.told = <<>>
      /\ t.state = Receiving \/ \E k \in 0 .. ReqTries : t.state = Initial(k)
  BY TaskIs, ReceiversAssumption DEF TaskEarned
<1>2. CASE t.state = Receiving
  <2>1. u.state = Initial(ReqTries) /\ u.told = <<>>
    BY <1>1, <1>2 DEF AfterTimeout, Receiving, Initial
  <2>2. ReqTries \in 0 .. ReqTries /\ Initial(ReqTries).left = ReqTries /\ DOMAIN <<>> = {}
    BY <1>1 DEF Initial
  <2>3. ReqTries + (t.silent + 1) >= ReqTries /\ Len(<<>>) = 0
    BY <1>1
  <2>4. u.state \in {Initial(k) : k \in 0 .. ReqTries}
    BY <2>1, <2>2
  <2> QED
    BY <2>1, <2>2, <2>3, <2>4 DEF TaskEarned
<1>3. ASSUME NEW k \in 0 .. ReqTries, t.state = Initial(k)
      PROVE  TaskEarned(u)
  <2>1. k + t.silent >= ReqTries /\ t.state.left = k /\ t.state.mode = "initial"
    BY <1>3 DEF TaskEarned, Initial
  <2>2. CASE k = 0
    <3>1. u.state = Downed /\ u.told = <<t.silent + 1>>
      BY <1>1, <1>3, <2>1, <2>2 DEF AfterTimeout
    <3>2. Downed.mode # "initial" /\ Len(<<t.silent + 1>>) = 1 /\ t.silent + 1 > ReqTries
          /\ DOMAIN <<t.silent + 1>> = {1} /\ <<t.silent + 1>>[1] = t.silent + 1
      BY <1>1, <2>1, <2>2 DEF Downed
    <3> QED
      BY <3>1, <3>2 DEF TaskEarned
  <2>3. CASE k # 0
    <3>1. k - 1 \in 0 .. ReqTries /\ k > 0 /\ (k - 1) + (t.silent + 1) >= ReqTries
      BY <1>1, <2>1, <2>3
    <3>2. u.state = Initial(k - 1) /\ u.told = <<>>
      <4>1. t.state # Initial(0)
        BY <2>1, <2>3 DEF Initial
      <4> QED
        BY <1>1, <1>3, <2>1, <3>1, <4>1 DEF AfterTimeout
    <3>3. Initial(k - 1).left = k - 1 /\ DOMAIN <<>> = {}
      BY DEF Initial
    <3> QED
      BY <3>1, <3>2, <3>3 DEF TaskEarned
  <2> QED
    BY <2>2, <2>3
<1> QED
  BY <1>1, <1>2, <1>3

LEMMA InitEarned == Init => Earned
<1>1. Initial(ReqTries).left = ReqTries /\ ReqTries \in 0 .. ReqTries /\ ReqTries \in Nat
  BY ReceiversAssumption DEF Initial
<1> QED
  BY <1>1 DEF Init, Earned, TaskEarned, NoTask

LEMMA NextEarned ==
  ASSUME Types, Earned, [Next]_vars
  PROVE  Earned'
<1>1. ASSUME NEW r \in Receiver, NEW ph
      PROVE  /\ TaskEarned(task[r]) => TaskEarned([task[r] EXCEPT !.phase = ph])
             /\ TaskEarned(task[r]) => TaskEarned([task[r] EXCEPT !.box = <<>>, !.phase = ph])
  BY TypesAre DEF TaskEarned, Task
<1>2. CASE UNCHANGED vars
  BY <1>2 DEF vars, Earned
<1>3. ASSUME NEW c \in Charge, Gain(c)
      PROVE  Earned'
  <2> DEFINE r == <<c, spawned[c] + 1>>
  <2>1. Becomes(r, [task[r] EXCEPT !.phase = "spawned"])
    BY <1>3, GainEffect
  <2> HIDE DEF r
  <2>2. r \in Receiver
    BY <2>1 DEF Becomes
  <2> QED
    BY <1>1, <2>1, <2>2, EarnedBecomes
<1>4. ASSUME NEW c \in Charge, Lose(c) \/ Beat(c)
      PROVE  Earned'
  BY <1>4, LoseEffect, BeatEffect, EarnedLives DEF Earned
<1>5. CASE MarkDown \/ Stop \/ HandleDeregister \/ HandleForward
  BY <1>5, MarkDownEffect, StopEffect, HandleDeregisterEffect, HandleForwardEffect, EarnedLives DEF Earned
<1>6. CASE HandleRegister
  <2> DEFINE r == Head(regbox).r
  <2>1. PICK u \in Task : Becomes(r, u) /\ u.state = task[r].state /\ u.silent = task[r].silent
                          /\ u.told = task[r].told
    BY <1>6, HandleRegisterEffect
  <2> QED
    BY <2>1, EarnedBecomes DEF TaskEarned
<1>7. ASSUME NEW r \in Receiver, Start(r) \/ Begin(r) \/ TakeTerm(r)
      PROVE  Earned'
  BY <1>1, <1>7, StartEffect, BeginEffect, TakeTermEffect, EarnedBecomes
<1>8. ASSUME NEW r \in Receiver, TakeHeartbeat(r)
      PROVE  Earned'
  <2>1. PICK u \in Task : /\ Becomes(r, u) /\ u.told = task[r].told
                          /\ u.state = IF task[r].state = Downed THEN Downed ELSE Receiving
    BY <1>8, TakeHeartbeatEffect
  <2>2. Receiving.mode # "initial" /\ Downed.mode # "initial" /\ Receiving # Downed
    BY DEF Receiving, Downed
  <2>3. TaskEarned(task[r]) => TaskEarned(u)
    BY <2>1, <2>2 DEF TaskEarned
  <2> QED
    BY <2>1, <2>3, EarnedBecomes
<1>9. ASSUME NEW r \in Receiver, Timeout(r)
      PROVE  Earned'
  <2>1. PICK u \in Task :
          /\ Becomes(r, u) /\ u.state = AfterTimeout(task[r].state)
          /\ u.silent = task[r].silent + 1
          /\ u.told = IF task[r].state = Initial(0) THEN Append(task[r].told, task[r].silent + 1)
                                                    ELSE task[r].told
    BY <1>9, TimeoutEffect
  <2>2. task[r] \in Task /\ task[r].state # Downed
    BY <1>9, TimeoutEffect, TypesAre
  <2>3. TaskEarned(task[r]) => TaskEarned(u)
    BY <2>1, <2>2, EarnedTimeout
  <2> QED
    BY <2>1, <2>3, EarnedBecomes
<1> QED
  BY <1>2, <1>3, <1>4, <1>5, <1>6, <1>7, <1>8, <1>9 DEF Next, Step, Registry

(* A receiver gives its verdict at most once and never before its charge    *)
(* was silent for ReqTries + 1 timeouts in a row, whatever it was sent and   *)
(* however often heartbeats stopped and resumed: HBRState and run_timeout.  *)
THEOREM VerdictsAreEarned == Spec => []VerdictEarned
<1>1. Earned => VerdictEarned
  BY DEF Earned, TaskEarned, VerdictEarned
<1>2. Types /\ Earned /\ [Next]_vars => (Types /\ Earned)'
  BY NextTypes, NextEarned
<1> QED
  BY <1>1, <1>2, InitTypes, InitEarned, PTL DEF Spec
-----------------------------------------------------------------------------
(* Who is in the registry.                                                  *)

LEMMA TailQueue ==
  ASSUME Types, regbox # <<>>, regbox' = Tail(regbox)
  PROVE  /\ \A x : Queued(x)' => Queued(x)
         /\ \A x : Queued(x) /\ x # Head(regbox) => Queued(x)'
         /\ \A x : Once(x) => Once(x)'
         /\ Queued(Head(regbox))
         /\ Once(Head(regbox)) => ~(\E i \in DOMAIN regbox' : regbox'[i] = Head(regbox))
<1>1. /\ 1 \in DOMAIN regbox /\ regbox[1] = Head(regbox)
      /\ \A i \in DOMAIN regbox' : i + 1 \in DOMAIN regbox /\ i + 1 # 1 /\ regbox'[i] = regbox[i + 1]
      /\ \A i \in DOMAIN regbox : i # 1 => i - 1 \in DOMAIN regbox' /\ regbox'[i - 1] = regbox[i]
  BY TypesAre, TailHas
<1>2. \A i, j \in DOMAIN regbox' : i + 1 = j + 1 => i = j
  <2>1. regbox' \in Seq(RegistryMsg)
    BY TypesAre, TailHas
  <2>2. \A i \in DOMAIN regbox' : i \in Nat
    BY <2>1
  <2> QED
    BY <2>2
<1>3. \A x : Queued(x)' => Queued(x)
  BY <1>1 DEF Queued
<1>4. \A x : Queued(x) /\ x # Head(regbox) => Queued(x)'
  BY <1>1 DEF Queued
<1>5. \A x : Once(x) => Once(x)'
  BY <1>1, <1>2 DEF Once
<1>6. Queued(Head(regbox))
  BY <1>1 DEF Queued
<1>7. ASSUME Once(Head(regbox)) PROVE ~(\E i \in DOMAIN regbox' : regbox'[i] = Head(regbox))
  BY <1>1, <1>7 DEF Once
<1> QED
  BY <1>3, <1>4, <1>5, <1>6, <1>7

LEMMA AppendQueue ==
  ASSUME Types, NEW x \in RegistryMsg, regbox' = Append(regbox, x)
  PROVE  /\ \A y : Queued(y)' <=> Queued(y) \/ y = x
         /\ \A y : Once(y) /\ (y # x \/ ~Queued(x)) => Once(y)'
<1> DEFINE n == Len(regbox) + 1
<1>1. /\ DOMAIN regbox' = DOMAIN regbox \cup {n} /\ n \notin DOMAIN regbox
      /\ \A i \in DOMAIN regbox : regbox'[i] = regbox[i]
      /\ regbox'[n] = x
  BY TypesAre, AppendHas
<1> HIDE DEF n
<1>2. \A y : Queued(y)' <=> Queued(y) \/ y = x
  BY <1>1 DEF Queued
<1>3. \A y : Once(y) /\ (y # x \/ ~Queued(x)) => Once(y)'
  BY <1>1 DEF Once, Queued
<1> QED
  BY <1>2, <1>3

Born  == \A c \in Charge, k \in Number : task[<<c, k>>].phase = "unborn" <=> k > spawned[c]
Known == \A m \in RegistryMsg : Queued(m) /\ m.op # "forward" => task[m.r].phase # "unborn"

LEMMA NamedIs == Named <=> Born /\ Known /\ \A c \in Charge \ rushed : NamedOK(c)
BY DEF Named, Born, Known

SamePhases(c) == \A k \in Number : task'[<<c, k>>].phase = task[<<c, k>>].phase

LEMMA PairIs ==
  ASSUME NEW c \in Charge, NEW k \in Number
  PROVE  <<c, k>> \in Receiver /\ <<c, k>>[1] = c /\ <<c, k>>[2] = k
BY DEF Receiver

LEMMA BornKept ==
  ASSUME Born, spawned' = spawned,
         \A r \in Receiver : task'[r].phase = "unborn" <=> task[r].phase = "unborn"
  PROVE  Born'
BY PairIs DEF Born

LEMMA KnownKept ==
  ASSUME Known,
         \A m \in RegistryMsg : m.op # "forward" /\ Queued(m)' => Queued(m) \/ task'[m.r].phase # "unborn",
         \A r \in Receiver : task[r].phase # "unborn" => task'[r].phase # "unborn"
  PROVE  Known'
BY RegistryMsgIs DEF Known

\* A step that is none of c's.
LEMMA NamedKept ==
  ASSUME NEW c \in Charge, NamedOK(c), spawned'[c] = spawned[c], register'[c] = register[c],
         SamePhases(c),
         \A m \in RegistryMsg : Speaks(m, c) => (Queued(m)' <=> Queued(m)),
         \A x : Once(x) /\ Speaks(x, c) => Once(x)'
  PROVE  NamedOK(c)'
<1>1. Latest(c)' = Latest(c) /\ Speaks(Register(Latest(c)), c) /\ Speaks(Deregister(Latest(c)), c)
  BY DEF Latest, Speaks, Register, Deregister
<1>2. spawned[c] \in Number =>
        /\ Latest(c) \in Receiver /\ task'[Latest(c)].phase = task[Latest(c)].phase
        /\ Deregister(Latest(c)) \in RegistryMsg
  BY PairIs, RegistryMsgs DEF Latest, SamePhases
<1>3. \A k \in Number : k < spawned[c] => task'[<<c, k>>].phase = "ended"
  BY DEF NamedOK, SamePhases
<1>4. ASSUME NEW m \in RegistryMsg, Queued(m)', Speaks(m, c)
      PROVE  /\ m.r = Latest(c)
             /\ task'[m.r].phase = IF m.op = "register" THEN "awaiting" ELSE "ended"
  <2>1. /\ m.r = Latest(c)
        /\ task[m.r].phase = IF m.op = "register" THEN "awaiting" ELSE "ended"
    BY <1>4 DEF NamedOK
  <2>2. m.r \in Receiver
    BY <1>4, RegistryMsgIs DEF Speaks
  <2>3. spawned[c] \in Number
    BY <2>1, <2>2 DEF Latest, Receiver
  <2> QED
    BY <1>2, <2>1, <2>3
<1>5. Once(Register(Latest(c)))'
  BY <1>1 DEF NamedOK
<1>6. spawned[c] \in Number =>
        /\ task'[Latest(c)].phase # "panicked"
        /\ task'[Latest(c)].phase \in {"confirmed", "running"} => register'[c] = spawned[c]
        /\ register'[c] # None =>
             \/ task'[Latest(c)].phase \in {"confirmed", "running"}
             \/ task'[Latest(c)].phase = "ended" /\ Queued(Deregister(Latest(c)))'
  BY <1>1, <1>2 DEF NamedOK
<1>7. register'[c] \in {None, spawned[c]}
  BY DEF NamedOK
<1> QED
  BY <1>1, <1>3, <1>4, <1>5, <1>6, <1>7 DEF NamedOK

\* No receiver's phase changes, and none of their messages.
LEMMA PhasesKept ==
  ASSUME Types, Named, \A r \in Receiver : task'[r].phase = task[r].phase,
         UNCHANGED <<spawned, rushed, register>>,
         \A m \in RegistryMsg : m.op # "forward" => (Queued(m)' <=> Queued(m)),
         \A x : Once(x) /\ x.op # "forward" => Once(x)'
  PROVE  Named'
<1>1. Born'
  BY BornKept, NamedIs
<1>2. Known'
  BY KnownKept, NamedIs
<1>3. ASSUME NEW c \in Charge, c \notin rushed
      PROVE  NamedOK(c)'
  <2>1. SamePhases(c)
    BY PairIs DEF SamePhases
  <2>2. NamedOK(c)
    BY <1>3, NamedIs
  <2> QED
    BY <2>1, <2>2, NamedKept DEF Speaks
<1> QED
  BY <1>1, <1>2, <1>3 DEF Named, Born, Known

LEMMA QuietNamed ==
  ASSUME Types, Named, \A r \in Receiver : task'[r].phase = task[r].phase,
         UNCHANGED <<spawned, rushed, register, regbox>>
  PROVE  Named'
<1>1. /\ \A m \in RegistryMsg : m.op # "forward" => (Queued(m)' <=> Queued(m))
      /\ \A x : Once(x) /\ x.op # "forward" => Once(x)'
  BY DEF Queued, Once
<1> QED
  BY <1>1, PhasesKept

LEMMA BeatNamed ==
  ASSUME Types, Named, NEW c \in Charge, Beat(c)
  PROVE  Named'
<1>1. PICK x \in RegistryMsg : x.op = "forward" /\ regbox' = Append(regbox, x)
  BY BeatEffect
<1>2. /\ \A m \in RegistryMsg : m.op # "forward" => (Queued(m)' <=> Queued(m))
      /\ \A y : Once(y) /\ y.op # "forward" => Once(y)'
  BY <1>1, AppendQueue
<1>3. task' = task /\ UNCHANGED <<spawned, rushed, register>>
  BY BeatEffect
<1> QED
  BY <1>2, <1>3, PhasesKept

LEMMA GainNamed ==
  ASSUME Types, Named, NEW c \in Charge, Gain(c)
  PROVE  Named'
<1> DEFINE n == spawned[c] + 1
           r == <<c, n>>
<1>1. /\ Becomes(r, [task[r] EXCEPT !.phase = "spawned"])
      /\ spawned'[c] = n /\ \A d \in Charge : d # c => spawned'[d] = spawned[d]
      /\ c \notin rushed' => NameFree(c)
      /\ rushed \subseteq rushed' /\ register' = register /\ regbox' = regbox
  BY GainEffect
<1>2. spawned[c] \in Nat /\ n \in Nat /\ n > spawned[c]
  BY TypesAre
<1>3. /\ r \in Receiver /\ task'[r].phase = "spawned" /\ n \in Number
      /\ \A q \in Receiver : q # r => task'[q] = task[q]
  <2>1. r \in Receiver /\ task[r] \in Task
    BY <1>1, TypesAre DEF Becomes
  <2>2. [task[r] EXCEPT !.phase = "spawned"].phase = "spawned"
    BY <2>1 DEF Task
  <2> QED
    BY <1>1, <2>1, <2>2, ReceiverIs DEF Becomes
<1> HIDE DEF n
<1>4. Born'
  <2> SUFFICES ASSUME NEW d \in Charge, NEW k \in Number
               PROVE  task'[<<d, k>>].phase = "unborn" <=> k > spawned'[d]
    BY DEF Born
  <2>1. <<d, k>> \in Receiver /\ k \in Nat /\ (task[<<d, k>>].phase = "unborn" <=> k > spawned[d])
    BY PairIs, NumberIs, NamedIs DEF Born
  <2>2. CASE d # c
    BY <1>1, <1>3, <2>1, <2>2
  <2>3. CASE d = c /\ k = n
    BY <1>1, <1>2, <1>3, <2>3
  <2>4. CASE d = c /\ k # n
    <3>1. task'[<<d, k>>] = task[<<d, k>>]
      BY <1>3, <2>1, <2>4
    <3>2. k > spawned[c] <=> k > n
      BY <1>2, <2>1, <2>4 DEF n
    <3> QED
      BY <1>1, <2>1, <2>4, <3>1, <3>2
  <2> QED
    BY <2>2, <2>3, <2>4
<1>5. Known'
  <2>1. \A m \in RegistryMsg : Queued(m)' => Queued(m)
    BY <1>1 DEF Queued
  <2>2. \A q \in Receiver : task[q].phase # "unborn" => task'[q].phase # "unborn"
    BY <1>3
  <2> QED
    BY <2>1, <2>2, KnownKept, NamedIs
<1>6. ASSUME NEW d \in Charge, d \notin rushed', d # c
      PROVE  NamedOK(d)'
  <2>1. NamedOK(d)
    BY <1>1, <1>6, NamedIs
  <2>2. SamePhases(d)
    BY <1>3, <1>6, PairIs DEF SamePhases
  <2>3. \A m \in RegistryMsg : Queued(m)' <=> Queued(m)
    BY <1>1 DEF Queued
  <2>4. \A x : Once(x) => Once(x)'
    BY <1>1 DEF Once
  <2> QED
    BY <1>1, <1>6, <2>1, <2>2, <2>3, <2>4, NamedKept
<1>7. ASSUME c \notin rushed'
      PROVE  NamedOK(c)'
  <2>1. NameFree(c) /\ NamedOK(c)
    BY <1>1, <1>7, NamedIs
  <2>2. Latest(c)' = r
    BY <1>1 DEF Latest
  <2>3. \A i \in DOMAIN regbox' : regbox'[i].op # "forward" => regbox'[i].r[1] # c
    BY <1>1, <2>1 DEF NameFree
  <2>4. \A m \in RegistryMsg : Queued(m)' => ~Speaks(m, c)
    BY <2>3 DEF Queued, Speaks
  <2>5. \A x : x.op # "forward" /\ x.r[1] = c => Once(x)'
    BY <2>3 DEF Once
  <2>6. \A k \in Number : k < spawned'[c] => task'[<<c, k>>].phase = "ended"
    <3> SUFFICES ASSUME NEW k \in Number, k < n PROVE task'[<<c, k>>].phase = "ended"
      BY <1>1
    <3>1. k \in Nat /\ <<c, k>> \in Receiver /\ task'[<<c, k>>] = task[<<c, k>>]
      BY <1>2, <1>3, PairIs, NumberIs
    <3>2. task[<<c, k>>].phase \in {"unborn", "ended", "panicked"} /\ ~(k > spawned[c])
      BY <1>2, <2>1, <3>1 DEF NameFree, n
    <3>3. task[<<c, k>>].phase # "unborn"
      BY <3>2, NamedIs DEF Born
    <3>4. task[<<c, k>>].phase # "panicked"
      <4>1. CASE k < spawned[c]
        BY <2>1, <4>1 DEF NamedOK
      <4>2. CASE k = spawned[c]
        BY <2>1, <4>2 DEF NamedOK, Latest
      <4> QED
        BY <1>2, <3>1, <3>2, <4>1, <4>2
    <3> QED
      BY <3>1, <3>2, <3>3, <3>4
  <2>7. register'[c] = None
    BY <1>1, <2>1 DEF NameFree
  <2>8. task'[Latest(c)'].phase = "spawned"
    BY <1>3, <2>2
  <2>9. Once(Register(Latest(c)))'
    <3>1. /\ Register(Latest(c)').op # "forward"
          /\ Register(Latest(c)').r = r /\ r[1] = c
      BY <1>3, <2>2, RegistryMsgs, PairIs
    <3> QED
      BY <2>5, <3>1
  <2> QED
    BY <2>4, <2>6, <2>7, <2>8, <2>9 DEF NamedOK
<1> QED
  BY <1>4, <1>5, <1>6, <1>7 DEF Named, Born, Known

\* Who does something in its life is the latest of its name.
LEMMA LatestIs ==
  ASSUME Types, Named, NEW r \in Receiver, r[1] \notin rushed,
         task[r].phase \notin {"unborn", "ended"}
  PROVE  r = Latest(r[1]) /\ spawned[r[1]] = r[2] /\ spawned[r[1]] \in Number /\ NamedOK(r[1])
<1>1. r[1] \in Charge /\ r[2] \in Number /\ r = <<r[1], r[2]>> /\ r[2] \in Nat
  BY ReceiverIs, NumberIs
<1>2. spawned[r[1]] \in Nat /\ NamedOK(r[1])
  BY <1>1, TypesAre, NamedIs
<1>3. ~(r[2] > spawned[r[1]])
  BY <1>1, NamedIs DEF Born
<1>4. ~(r[2] < spawned[r[1]])
  BY <1>1, <1>2 DEF NamedOK
<1>5. r[2] = spawned[r[1]]
  BY <1>1, <1>2, <1>3, <1>4
<1> QED
  BY <1>1, <1>2, <1>5 DEF Latest

\* A receiver that has been born enters another phase, and what that does to
\* the other charges and to its own.
LEMMA NamedBecomes ==
  ASSUME Types, Named, NEW r \in Receiver, NEW u, Becomes(r, u),
         task[r].phase # "unborn", u.phase # "unborn",
         UNCHANGED <<spawned, rushed>>,
         \A d \in Charge : d # r[1] => register'[d] = register[d],
         \A m \in RegistryMsg : m.op # "forward" /\ m.r # r => (Queued(m)' <=> Queued(m)),
         \A x : Once(x) /\ x.op # "forward" /\ x.r # r => Once(x)',
         r[1] \notin rushed =>
           /\ r = Latest(r[1])
           /\ register'[r[1]] \in {None, spawned[r[1]]}
           /\ Once(Register(r))'
           /\ \A m \in RegistryMsg :
                Queued(m)' /\ Speaks(m, r[1]) =>
                  m.r = r /\ u.phase = IF m.op = "register" THEN "awaiting" ELSE "ended"
           /\ u.phase # "panicked"
           /\ u.phase \in {"confirmed", "running"} => register'[r[1]] = spawned[r[1]]
           /\ register'[r[1]] # None =>
                u.phase \in {"confirmed", "running"} \/ (u.phase = "ended" /\ Queued(Deregister(r))')
  PROVE  Named'
<1>1. task'[r] = u /\ \A q \in Receiver : q # r => task'[q] = task[q]
  BY DEF Becomes
<1>2. Born'
  BY <1>1, BornKept, NamedIs
<1>3. Known'
  <2>1. \A m \in RegistryMsg :
          m.op # "forward" /\ Queued(m)' => Queued(m) \/ task'[m.r].phase # "unborn"
    BY <1>1
  <2>2. \A q \in Receiver : task[q].phase # "unborn" => task'[q].phase # "unborn"
    BY <1>1
  <2> QED
    BY <2>1, <2>2, KnownKept, NamedIs
<1>4. r[1] \in Charge /\ r = <<r[1], r[2]>> /\ r[2] \in Number
  BY ReceiverIs
<1>5. ASSUME NEW d \in Charge, d \notin rushed, d # r[1]
      PROVE  NamedOK(d)'
  <2>1. NamedOK(d) /\ register'[d] = register[d] /\ spawned'[d] = spawned[d]
    BY <1>5, NamedIs
  <2>2. SamePhases(d)
    <3>1. \A k \in Number : <<d, k>> \in Receiver /\ <<d, k>> # r
      BY <1>5, PairIs
    <3> QED
      BY <1>1, <3>1 DEF SamePhases
  <2>3. \A m \in RegistryMsg : Speaks(m, d) => (Queued(m)' <=> Queued(m))
    BY <1>5 DEF Speaks
  <2>4. \A x : Once(x) /\ Speaks(x, d) => Once(x)'
    BY <1>5 DEF Speaks
  <2> QED
    BY <2>1, <2>2, <2>3, <2>4, NamedKept
<1>6. ASSUME r[1] \notin rushed
      PROVE  NamedOK(r[1])'
  <2> DEFINE c == r[1]
  <2>1. Latest(c)' = r /\ spawned'[c] = spawned[c] /\ NamedOK(c) /\ r = Latest(c)
    BY <1>4, <1>6, NamedIs DEF Latest
  <2>2. r[2] = spawned[c] /\ spawned[c] \in Nat
    BY <1>4, <2>1, TypesAre DEF Latest
  <2>3. \A k \in Number : k < spawned'[c] => task'[<<c, k>>].phase = "ended"
    <3> SUFFICES ASSUME NEW k \in Number, k < spawned[c] PROVE task'[<<c, k>>].phase = "ended"
      BY <2>1
    <3>1. k # r[2]
      BY <2>2, NumberIs
    <3>2. <<c, k>> \in Receiver /\ <<c, k>> # r
      BY <1>4, <3>1, PairIs
    <3> QED
      BY <1>1, <2>1, <3>2 DEF NamedOK
  <2> HIDE DEF c
  <2>4. \A m \in RegistryMsg :
          Queued(m)' /\ Speaks(m, c) =>
            /\ m.r = Latest(c)'
            /\ task'[m.r].phase = IF m.op = "register" THEN "awaiting" ELSE "ended"
    BY <1>1, <1>6, <2>1 DEF c
  <2>5. /\ Once(Register(r))' /\ register'[c] \in {None, spawned'[c]}
        /\ task'[r].phase # "panicked"
        /\ task'[r].phase \in {"confirmed", "running"} => register'[c] = spawned'[c]
        /\ register'[c] # None =>
             \/ task'[r].phase \in {"confirmed", "running"}
             \/ task'[r].phase = "ended" /\ Queued(Deregister(r))'
    BY <1>1, <1>6, <2>1 DEF c
  <2> QED
    BY <2>1, <2>3, <2>4, <2>5 DEF NamedOK, c
<1> QED
  BY <1>2, <1>3, <1>5, <1>6 DEF Named, Born, Known

LEMMA PhaseSet ==
  ASSUME Types, NEW r \in Receiver, NEW p
  PROVE  [task[r] EXCEPT !.phase = p].phase = p
<1>1. task[r] \in Task
  BY TypesAre
<1> QED
  BY <1>1 DEF Task

LEMMA StartNamed ==
  ASSUME Types, Named, NEW r \in Receiver, Start(r)
  PROVE  Named'
<1> DEFINE u == [task[r] EXCEPT !.phase = "awaiting"]
<1>1. /\ Becomes(r, u) /\ task[r].phase = "spawned" /\ u.phase = "awaiting"
      /\ regbox' = Append(regbox, Register(r)) /\ UNCHANGED <<spawned, rushed, register>>
  BY StartEffect, PhaseSet
<1> HIDE DEF u
<1>2. Register(r) \in RegistryMsg /\ Register(r).r = r /\ Register(r).op = "register"
  BY RegistryMsgs
<1>3. /\ \A y : Queued(y)' <=> Queued(y) \/ y = Register(r)
      /\ \A y : Once(y) /\ (y # Register(r) \/ ~Queued(Register(r))) => Once(y)'
  BY <1>1, <1>2, AppendQueue
<1>4. /\ \A m \in RegistryMsg : m.op # "forward" /\ m.r # r => (Queued(m)' <=> Queued(m))
      /\ \A y : Once(y) /\ y.op # "forward" /\ y.r # r => Once(y)'
  BY <1>2, <1>3
<1>5. ASSUME r[1] \notin rushed
      PROVE  /\ r = Latest(r[1]) /\ register'[r[1]] = None /\ Once(Register(r))'
             /\ \A m \in RegistryMsg :
                  Queued(m)' /\ Speaks(m, r[1]) => m.r = r /\ m.op = "register"
  <2>1. r = Latest(r[1]) /\ spawned[r[1]] \in Number /\ NamedOK(r[1])
    BY <1>1, <1>5, LatestIs
  <2>2. \A m \in RegistryMsg : Queued(m) => ~Speaks(m, r[1])
    BY <1>1, <2>1 DEF NamedOK
  <2>3. ~Queued(Register(r))
    BY <1>2, <2>2 DEF Speaks
  <2>4. Once(Register(r))'
    BY <1>3, <2>1, <2>3 DEF NamedOK
  <2>5. register[r[1]] = None
    BY <1>1, <2>1 DEF NamedOK
  <2> QED
    BY <1>1, <1>2, <1>3, <2>1, <2>2, <2>4, <2>5
<1> QED
  BY <1>1, <1>4, <1>5, NamedBecomes

LEMMA BeginNamed ==
  ASSUME Types, Named, NEW r \in Receiver, Begin(r)
  PROVE  Named'
<1> DEFINE u == [task[r] EXCEPT !.phase = "running"]
<1>1. /\ Becomes(r, u) /\ task[r].phase = "confirmed" /\ u.phase = "running"
      /\ UNCHANGED <<spawned, rushed, register, regbox>>
  BY BeginEffect, PhaseSet
<1> HIDE DEF u
<1>2. (\A x : Queued(x)' <=> Queued(x)) /\ (\A x : Once(x) => Once(x)')
  BY <1>1 DEF Queued, Once
<1>3. ASSUME r[1] \notin rushed
      PROVE  /\ r = Latest(r[1]) /\ register'[r[1]] = spawned[r[1]] /\ Once(Register(r))'
             /\ \A m \in RegistryMsg : Queued(m)' => ~Speaks(m, r[1])
  <2>1. r = Latest(r[1]) /\ spawned[r[1]] \in Number /\ NamedOK(r[1])
    BY <1>1, <1>3, LatestIs
  <2>2. \A m \in RegistryMsg : Queued(m) => ~Speaks(m, r[1])
    BY <1>1, <2>1 DEF NamedOK
  <2>3. Once(Register(r))'
    BY <1>2, <2>1 DEF NamedOK
  <2>4. register[r[1]] = spawned[r[1]]
    BY <1>1, <2>1 DEF NamedOK
  <2> QED
    BY <1>1, <1>2, <2>1, <2>2, <2>3, <2>4
<1> QED
  BY <1>1, <1>2, <1>3, NamedBecomes

LEMMA TakeTermNamed ==
  ASSUME Types, Named, NEW r \in Receiver, TakeTerm(r)
  PROVE  Named'
<1> DEFINE u == [task[r] EXCEPT !.box = <<>>, !.phase = "ended"]
<1>1. /\ Becomes(r, u) /\ task[r].phase = "running"
      /\ regbox' = Append(regbox, Deregister(r)) /\ UNCHANGED <<spawned, rushed, register>>
  BY TakeTermEffect
<1>2. u.phase = "ended"
  BY TypesAre DEF Task
<1> HIDE DEF u
<1>3. /\ Deregister(r) \in RegistryMsg /\ Deregister(r).r = r /\ Deregister(r).op = "deregister"
      /\ Register(r).op = "register"
  BY RegistryMsgs
<1>4. /\ \A y : Queued(y)' <=> Queued(y) \/ y = Deregister(r)
      /\ \A y : Once(y) /\ (y # Deregister(r) \/ ~Queued(Deregister(r))) => Once(y)'
  BY <1>1, <1>3, AppendQueue
<1>5. /\ \A m \in RegistryMsg : m.op # "forward" /\ m.r # r => (Queued(m)' <=> Queued(m))
      /\ \A y : Once(y) /\ y.op # "forward" /\ y.r # r => Once(y)'
  BY <1>3, <1>4
<1>6. ASSUME r[1] \notin rushed
      PROVE  /\ r = Latest(r[1]) /\ register'[r[1]] = spawned[r[1]] /\ Once(Register(r))'
             /\ \A m \in RegistryMsg :
                  Queued(m)' /\ Speaks(m, r[1]) => m.r = r /\ m.op # "register"
             /\ Queued(Deregister(r))'
  <2>1. r = Latest(r[1]) /\ spawned[r[1]] \in Number /\ NamedOK(r[1])
    BY <1>1, <1>6, LatestIs
  <2>2. \A m \in RegistryMsg : Queued(m) => ~Speaks(m, r[1])
    BY <1>1, <2>1 DEF NamedOK
  <2>3. Once(Register(r))'
    BY <1>3, <1>4, <2>1 DEF NamedOK
  <2>4. register[r[1]] = spawned[r[1]]
    BY <1>1, <2>1 DEF NamedOK
  <2> QED
    BY <1>1, <1>3, <1>4, <2>1, <2>2, <2>3, <2>4
<1> QED
  BY <1>1, <1>2, <1>5, <1>6, NamedBecomes

LEMMA HandleRegisterNamed ==
  ASSUME Types, Named, HandleRegister
  PROVE  Named'
<1>1. PICK r \in Receiver : r = Head(regbox).r
  BY HandleRegisterEffect
<1>2. /\ Head(regbox) = Register(r) /\ regbox # <<>> /\ regbox' = Tail(regbox)
      /\ UNCHANGED <<spawned, rushed>>
      /\ register' = IF register[r[1]] = None THEN [register EXCEPT ![r[1]] = r[2]] ELSE register
  BY <1>1, HandleRegisterEffect
<1>3. PICK u \in Task :
        Becomes(r, u) /\ u.phase = IF register[r[1]] = None THEN "confirmed" ELSE "panicked"
  BY <1>1, HandleRegisterEffect
<1>4. Register(r) \in RegistryMsg /\ Register(r).r = r /\ Register(r).op = "register"
  BY RegistryMsgs
<1>5. /\ \A x : Queued(x)' => Queued(x)
      /\ \A x : Queued(x) /\ x # Register(r) => Queued(x)'
      /\ \A x : Once(x) => Once(x)'
      /\ Queued(Register(r))
      /\ Once(Register(r)) => ~Queued(Register(r))'
  BY <1>2, TailQueue DEF Queued
<1>6. task[r].phase # "unborn"
  BY <1>4, <1>5, NamedIs DEF Known
<1>7. r[1] \in Charge /\ r[2] \in Number /\ r = <<r[1], r[2]>>
  BY ReceiverIs
<1>8. \A d \in Charge : d # r[1] => register'[d] = register[d]
  BY <1>2, TypesAre
<1>9. \A m \in RegistryMsg : m.op # "forward" /\ m.r # r => (Queued(m)' <=> Queued(m))
  BY <1>4, <1>5
<1>10. ASSUME r[1] \notin rushed
       PROVE  /\ r = Latest(r[1]) /\ register'[r[1]] = spawned[r[1]] /\ u.phase = "confirmed"
              /\ Once(Register(r))' /\ \A m \in RegistryMsg : Queued(m)' => ~Speaks(m, r[1])
  <2>1. task[r].phase = "awaiting"
    BY <1>4, <1>5, <1>7, <1>10, NamedIs DEF NamedOK, Speaks
  <2>2. r = Latest(r[1]) /\ spawned[r[1]] = r[2] /\ spawned[r[1]] \in Number /\ NamedOK(r[1])
    BY <1>10, <2>1, LatestIs
  <2>3. register[r[1]] = None
    BY <2>1, <2>2 DEF NamedOK
  <2>4. register'[r[1]] = spawned[r[1]] /\ u.phase = "confirmed"
    BY <1>2, <1>3, <1>7, <2>2, <2>3, TypesAre
  <2>5. Once(Register(r))
    BY <2>2 DEF NamedOK
  <2>6. ASSUME NEW m \in RegistryMsg, Queued(m)', Speaks(m, r[1])
        PROVE  FALSE
    <3>1. m.r = r /\ m.op = "register"
      BY <1>5, <2>1, <2>2, <2>6 DEF NamedOK
    <3>2. m = Register(r)
      BY <3>1, RegistryMsgIs
    <3> QED
      BY <1>5, <2>5, <2>6, <3>2
  <2> QED
    BY <1>5, <2>2, <2>4, <2>5, <2>6
<1> QED
  BY <1>2, <1>3, <1>5, <1>6, <1>8, <1>9, <1>10, NamedBecomes

\* The registry forgets the name of a charge whose receiver has ended.
LEMMA NameLost ==
  ASSUME NEW c \in Charge, NamedOK(c), spawned'[c] = spawned[c], SamePhases(c),
         register'[c] = None,
         spawned[c] \in Number => task[Latest(c)].phase \notin {"confirmed", "running"},
         \A m \in RegistryMsg : Queued(m)' => Queued(m),
         \A x : Once(x) => Once(x)'
  PROVE  NamedOK(c)'
<1>1. Latest(c)' = Latest(c)
  BY DEF Latest
<1>2. spawned[c] \in Number =>
        Latest(c) \in Receiver /\ task'[Latest(c)].phase = task[Latest(c)].phase
  BY PairIs DEF Latest, SamePhases
<1>3. \A k \in Number : k < spawned[c] => task'[<<c, k>>].phase = "ended"
  BY DEF NamedOK, SamePhases
<1>4. ASSUME NEW m \in RegistryMsg, Queued(m)', Speaks(m, c)
      PROVE  /\ m.r = Latest(c)
             /\ task'[m.r].phase = IF m.op = "register" THEN "awaiting" ELSE "ended"
  <2>1. /\ m.r = Latest(c)
        /\ task[m.r].phase = IF m.op = "register" THEN "awaiting" ELSE "ended"
    BY <1>4 DEF NamedOK
  <2>2. m.r \in Receiver
    BY <1>4, RegistryMsgIs DEF Speaks
  <2>3. spawned[c] \in Number
    BY <2>1, <2>2 DEF Latest, Receiver
  <2> QED
    BY <1>2, <2>1, <2>3
<1>5. Once(Register(Latest(c)))'
  BY <1>1 DEF NamedOK
<1>6. spawned[c] \in Number => task'[Latest(c)].phase \notin {"panicked", "confirmed", "running"}
  BY <1>2 DEF NamedOK
<1> QED
  BY <1>1, <1>3, <1>4, <1>5, <1>6 DEF NamedOK

\* The registry has handled the message m and at most c has lost its name.
LEMMA HandledNamed ==
  ASSUME Types, Named, \A r \in Receiver : task'[r].phase = task[r].phase,
         UNCHANGED <<spawned, rushed>>, regbox # <<>>, regbox' = Tail(regbox),
         NEW c \in Charge, Head(regbox).op # "forward" => Head(regbox).r[1] = c,
         register' = [register EXCEPT ![c] = None],
         c \notin rushed /\ spawned[c] \in Number =>
           task[Latest(c)].phase \notin {"confirmed", "running"}
  PROVE  Named'
<1>1. /\ \A x : Queued(x)' => Queued(x)
      /\ \A x : Queued(x) /\ x # Head(regbox) => Queued(x)'
      /\ \A x : Once(x) => Once(x)'
  BY TailQueue
<1>2. register'[c] = None /\ \A d \in Charge : d # c => register'[d] = register[d]
  BY TypesAre
<1>3. Born'
  BY BornKept, NamedIs
<1>4. Known'
  BY <1>1, KnownKept, NamedIs
<1>5. ASSUME NEW d \in Charge, d \notin rushed
      PROVE  NamedOK(d)'
  <2>1. SamePhases(d)
    BY PairIs DEF SamePhases
  <2>2. NamedOK(d)
    BY <1>5, NamedIs
  <2>3. CASE d = c
    BY <1>1, <1>2, <1>5, <2>1, <2>2, <2>3, NameLost
  <2>4. CASE d # c
    <3>1. \A m \in RegistryMsg : Speaks(m, d) => (Queued(m)' <=> Queued(m))
      BY <1>1, <2>4 DEF Speaks
    <3> QED
      BY <1>1, <1>2, <2>1, <2>2, <2>4, <3>1, NamedKept
  <2> QED
    BY <2>3, <2>4
<1> QED
  BY <1>3, <1>4, <1>5 DEF Named, Born, Known

LEMMA HandleDeregisterNamed ==
  ASSUME Types, Named, HandleDeregister
  PROVE  Named'
<1>1. PICK r \in Receiver : r = Head(regbox).r
  BY HandleDeregisterEffect
<1>2. /\ Head(regbox) = Deregister(r) /\ regbox # <<>> /\ regbox' = Tail(regbox)
      /\ task' = task /\ UNCHANGED <<spawned, rushed>>
      /\ register' = [register EXCEPT ![r[1]] = None]
  BY <1>1, HandleDeregisterEffect
<1>3. /\ Deregister(r) \in RegistryMsg /\ Deregister(r).r = r /\ Deregister(r).op = "deregister"
      /\ Queued(Deregister(r)) /\ r[1] \in Charge
  BY <1>2, RegistryMsgs, TailQueue, ReceiverIs
<1>4. ASSUME r[1] \notin rushed
      PROVE  task[Latest(r[1])].phase = "ended"
  BY <1>3, <1>4, NamedIs DEF NamedOK, Speaks
<1> QED
  BY <1>1, <1>2, <1>3, <1>4, HandledNamed

LEMMA HandleForwardNamed ==
  ASSUME Types, Named, HandleForward
  PROVE  Named'
<1>1. PICK c \in Charge : c = Head(regbox).r[1]
  BY HandleForwardEffect
<1>2. /\ SameLives /\ Head(regbox).op = "forward" /\ regbox # <<>> /\ regbox' = Tail(regbox)
      /\ UNCHANGED <<spawned, rushed>>
      /\ \/ register' = register
         \/ /\ register[c] # None /\ task[<<c, register[c]>>].phase \in {"ended", "panicked"}
            /\ register' = [register EXCEPT ![c] = None]
  BY <1>1, HandleForwardEffect
<1>3. \A r \in Receiver : task'[r].phase = task[r].phase
  BY <1>2 DEF SameLives, SameLife
<1>4. CASE register' = register
  <2>1. /\ \A m \in RegistryMsg : m.op # "forward" => (Queued(m)' <=> Queued(m))
        /\ \A x : Once(x) => Once(x)'
    BY <1>2, TailQueue
  <2> QED
    BY <1>2, <1>3, <1>4, <2>1, PhasesKept
<1>5. CASE /\ register[c] # None /\ task[<<c, register[c]>>].phase \in {"ended", "panicked"}
           /\ register' = [register EXCEPT ![c] = None]
  <2>1. ASSUME c \notin rushed
        PROVE  task[Latest(c)].phase \in {"ended", "panicked"}
    <3>1. register[c] = spawned[c]
      BY <1>5, <2>1, NamedIs DEF NamedOK
    <3> QED
      BY <1>5, <3>1 DEF Latest
  <2> QED
    BY <1>2, <1>3, <1>5, <2>1, HandledNamed
<1> QED
  BY <1>2, <1>4, <1>5

LEMMA InitNamed == Init => Named
<1> SUFFICES ASSUME Init PROVE Named
  OBVIOUS
<1>1. \A r \in Receiver : task[r].phase = "unborn"
  BY DEF Init, NoTask
<1>2. (\A x : ~Queued(x)) /\ (\A x : Once(x))
  BY DEF Init, Queued, Once
<1>3. \A c \in Charge : spawned[c] = 0 /\ register[c] = None
  BY DEF Init
<1>4. \A k \in Number : k > 0 /\ ~(k < 0)
  BY ReceiversAssumption DEF Number
<1>5. 0 \notin Number
  BY ReceiversAssumption DEF Number
<1>6. Born
  <2> SUFFICES ASSUME NEW c \in Charge, NEW k \in Number
               PROVE  task[<<c, k>>].phase = "unborn" /\ k > spawned[c]
    BY DEF Born
  <2>1. <<c, k>> \in Receiver
    BY PairIs
  <2> QED
    BY <1>1, <1>3, <1>4, <2>1
<1>7. Known
  BY <1>2 DEF Known
<1>8. \A c \in Charge : NamedOK(c)
  BY <1>2, <1>3, <1>4, <1>5 DEF NamedOK
<1> QED
  BY <1>6, <1>7, <1>8, NamedIs

LEMMA NextNamed == Types /\ Named /\ [Next]_vars => Named'
<1> SUFFICES ASSUME Types, Named, [Next]_vars PROVE Named'
  OBVIOUS
<1>1. CASE UNCHANGED vars
  BY <1>1, QuietNamed DEF vars
<1>2. ASSUME NEW c \in Charge, Gain(c) \/ Lose(c) \/ Beat(c)
      PROVE  Named'
  <2>1. CASE Lose(c)
    BY <2>1, LoseEffect, QuietNamed DEF SameLives, SameLife
  <2> QED
    BY <1>2, <2>1, GainNamed, BeatNamed
<1>3. CASE MarkDown \/ Stop
  BY <1>3, MarkDownEffect, StopEffect, QuietNamed DEF SameLives, SameLife
<1>4. CASE Registry
  BY <1>4, HandleRegisterNamed, HandleDeregisterNamed, HandleForwardNamed DEF Registry
<1>5. ASSUME NEW r \in Receiver, TakeHeartbeat(r) \/ Timeout(r)
      PROVE  Named'
  <2>1. PICK u : Becomes(r, u) /\ u.phase = task[r].phase
    BY <1>5, TakeHeartbeatEffect, TimeoutEffect
  <2>2. UNCHANGED <<spawned, rushed, register, regbox>>
    BY <1>5, TakeHeartbeatEffect, TimeoutEffect
  <2>3. \A q \in Receiver : task'[q].phase = task[q].phase
    BY <2>1 DEF Becomes
  <2> QED
    BY <2>2, <2>3, QuietNamed
<1>6. ASSUME NEW r \in Receiver, Start(r) \/ Begin(r) \/ TakeTerm(r)
      PROVE  Named'
  BY <1>6, StartNamed, BeginNamed, TakeTermNamed
<1> QED
  BY <1>1, <1>2, <1>3, <1>4, <1>5, <1>6 DEF Next, Step

(* As long as a charge never came back before its name was free, a receiver *)
(* of it that runs has its name in the registry, and the name stands for    *)
(* nobody else: heartbeats that arrive are not delivered to a receiver that *)
(* is gone while another one waits for them (registry.rs, run_timeout).     *)
THEOREM RunningStayRegistered == Spec => []RunningAreRegistered
<1>1. ASSUME Types, Named, NEW c \in Charge, c \notin rushed
      PROVE  Registered(c)
  <2>1. NamedOK(c)
    BY <1>1, NamedIs
  <2>2. ASSUME NEW k \in Number, task[<<c, k>>].phase \in {"confirmed", "running"}
        PROVE  register[c] = k
    <3>1. spawned[c] = k /\ Latest(c) = <<c, k>>
      BY <1>1, <2>2, LatestIs, PairIs
    <3> QED
      BY <2>1, <2>2, <3>1 DEF NamedOK
  <2>3. ASSUME register[c] # None
        PROVE  /\ <<c, register[c]>> = Latest(c)
               /\ \/ task[Latest(c)].phase \in {"confirmed", "running"}
                  \/ Queued(Deregister(Latest(c)))
    <3>1. register[c] = spawned[c] /\ register[c] \in Number
      BY <1>1, <2>1, <2>3, TypesAre DEF NamedOK
    <3> QED
      BY <2>1, <2>3, <3>1 DEF NamedOK, Latest
  <2> QED
    BY <2>2, <2>3 DEF Registered
<1>2. Types /\ Named => RunningAreRegistered
  BY <1>1 DEF RunningAreRegistered
<1>3. Types /\ Named /\ [Next]_vars => (Types /\ Named)'
  BY NextTypes, NextNamed
<1> QED
  BY <1>2, <1>3, InitTypes, InitNamed, PTL DEF Spec
=============================================================================
