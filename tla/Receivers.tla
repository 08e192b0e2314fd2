----------------------------- MODULE Receivers -----------------------------
(***************************************************************************)
(* The heartbeat receivers of one node (cluster/heartbeat_receiver.rs), as *)
(* the tasks they are (core/actor_tasks_timeout.rs), with the registry     *)
(* that routes heartbeats to them by name (core/registry.rs) and the part  *)
(* of the cluster actor that starts and stops them (cluster/cluster.rs).   *)
(*                                                                         *)
(* The receiver of charge c is named after c's id.  A charge that leaves   *)
(* and comes back is given a new task under the same name: <<c, k>> is the *)
(* k-th receiver of c.  Timers are timeouts that may come at any moment,   *)
(* the charges' nodes and the network an environment that delivers         *)
(* heartbeats or does not, and the ring an oracle for the charges.         *)
(*                                                                         *)
(* Names are reused, and the code does not wait for the old receiver to    *)
(* leave the registry: `rushed` remembers the charges for which it had to. *)
(*                                                                         *)
(* Bounds: MaxSpawns receivers and MaxBeats heartbeats for each charge.    *)
(***************************************************************************)
EXTENDS Naturals, Sequences

CONSTANTS
  Charge,
  ReqTries,   \* HBRConfig::req_tries
  MaxSpawns, MaxBeats

ASSUME ReceiversAssumption ==
  ReqTries \in Nat /\ MaxSpawns \in Nat \ {0} /\ MaxBeats \in Nat

VARIABLES
  up,        \* is the cluster actor running?
  spawned,   \* how many receivers each charge has had
  charges,   \* InCluster::charges: the number of the receiver of each charge, or None
  downed,    \* Downed messages in the cluster actor's mailbox
  gone,      \* charges the cluster actor has marked down
  task,      \* the receivers' tasks
  register,  \* Registry::register: the receiver registered under each name, or None
  regbox,    \* the registry's mailbox
  rushed,    \* history: charges that came back while their name was taken
  beats      \* heartbeats that have reached this node, for each charge

vars == <<up, spawned, charges, downed, gone, task, register, regbox, rushed,
          beats>>
cluster  == <<up, spawned, charges, gone, rushed>>
registry == <<register, regbox>>
-----------------------------------------------------------------------------
None == 0
Number == 1 .. MaxSpawns
Receiver == Charge \X Number

\* HBRState
Initial(n) == [mode |-> "initial", left |-> n]
Receiving  == [mode |-> "receiving", left |-> 0]
Downed     == [mode |-> "downed", left |-> 0]
HBRState == [mode : {"initial", "receiving", "downed"}, left : 0 .. ReqTries]

\* A task: its phase, the actor's state, its mailbox, and history: timeouts
\* since it handled a heartbeat, and what that number was when it gave a
\* verdict.
Phase == {"unborn", "spawned", "awaiting", "confirmed", "running", "ended", "panicked"}
NoTask == [phase |-> "unborn", state |-> Initial(ReqTries), box |-> <<>>, silent |-> 0, told |-> <<>>]

Closed(r) == task[r].phase \in {"ended", "panicked"}

\* The mailboxes are FIFO; what is sent to a closed one is gone.
Put(t, x) == IF t.phase \in {"ended", "panicked"} THEN t ELSE [t EXCEPT !.box = Append(@, x)]

Register(r)   == [op |-> "register", r |-> r]
Deregister(r) == [op |-> "deregister", r |-> r]
Forward(r)    == [op |-> "forward", r |-> r]
RegistryMsg   == [op : {"register", "deregister"}, r : Receiver]
                 \cup [op : {"forward"}, r : Charge \X {None}]

Init ==
  /\ up = TRUE
  /\ spawned = [c \in Charge |-> 0] /\ charges = [c \in Charge |-> None]
  /\ downed = <<>> /\ gone = {}
  /\ task = [r \in Receiver |-> NoTask]
  /\ register = [c \in Charge |-> None] /\ regbox = <<>>
  /\ rushed = {} /\ beats = [c \in Charge |-> 0]
-----------------------------------------------------------------------------
(* The cluster actor *)

\* Nothing of an earlier receiver of c is left that goes by its name.  (A
\* heartbeat still queued for it finds no name, or its successor's.)
NameFree(c) ==
  /\ register[c] = None
  /\ \A k \in Number : task[<<c, k>>].phase \in {"unborn", "ended", "panicked"}
  /\ \A i \in DOMAIN regbox : regbox[i].op # "forward" => regbox[i].r[1] # c

\* update_charges_managers finds c among its charges: HeartbeatReceiver::spawn.
Gain(c) ==
  /\ up /\ charges[c] = None /\ c \notin gone
  /\ spawned[c] < MaxSpawns
  /\ spawned' = [spawned EXCEPT ![c] = @ + 1]
  /\ charges' = [charges EXCEPT ![c] = spawned'[c]]
  /\ task' = [task EXCEPT ![<<c, spawned'[c]>>].phase = "spawned"]
  /\ rushed' = IF NameFree(c) THEN rushed ELSE rushed \cup {c}
  /\ UNCHANGED <<up, downed, gone, registry, beats>>

\* The tasks once the receivers of the charges in C have been sent Term.
Terminated(C) ==
  [r \in Receiver |-> IF r[1] \in C /\ charges[r[1]] = r[2] THEN Put(task[r], "term") ELSE task[r]]
Without(C) == [c \in Charge |-> IF c \in C THEN None ELSE charges[c]]

\* A variant that forgets the receiver and does not stop it.
LoseUnsignalled(c) ==
  /\ up /\ charges[c] # None
  /\ charges' = Without({c}) /\ task' = task
  /\ UNCHANGED <<up, spawned, downed, gone, rushed, registry, beats>>

\* update_charges_managers no longer finds c among its charges.
Lose(c) ==
  /\ up /\ charges[c] # None
  /\ charges' = Without({c}) /\ task' = Terminated({c})
  /\ UNCHANGED <<up, spawned, downed, gone, rushed, registry, beats>>

\* ClusterMsg::Downed: down() believes any receiver, that of a charge of
\* another node by now included.
MarkDown ==
  /\ up /\ downed # <<>>
  /\ downed' = Tail(downed)
  /\ gone' = gone \cup {Head(downed)}
  /\ charges' = Without({Head(downed)}) /\ task' = Terminated({Head(downed)})
  /\ UNCHANGED <<up, spawned, rushed, registry, beats>>

\* post_stop
Stop ==
  /\ up /\ up' = FALSE
  /\ charges' = Without(Charge) /\ task' = Terminated(Charge)
  /\ downed' = <<>>
  /\ UNCHANGED <<spawned, gone, rushed, registry, beats>>
-----------------------------------------------------------------------------
(* The tasks: run_single_timeout *)

\* The task runs for the first time and asks to be registered.
Start(r) ==
  /\ task[r].phase = "spawned"
  /\ task' = [task EXCEPT ![r].phase = "awaiting"]
  /\ regbox' = Append(regbox, Register(r))
  /\ UNCHANGED <<cluster, downed, register, beats>>

\* The confirmation is there: pre_start sends a first request.
Begin(r) ==
  /\ task[r].phase = "confirmed"
  /\ task' = [task EXCEPT ![r].phase = "running"]
  /\ UNCHANGED <<cluster, downed, registry, beats>>

\* Variants that ask only once more when heartbeats stop, or once too often.
AfterTimeoutHurried(s) ==
  IF s.mode = "receiving" THEN Initial(0)
  ELSE IF s.left > 0 THEN Initial(s.left - 1) ELSE Downed
AfterTimeoutPatient(s) ==
  IF s.mode = "receiving" THEN Initial(ReqTries + 1)
  ELSE IF s.left > 0 THEN Initial(s.left - 1) ELSE Downed

\* HBRState after a timeout: requests are repeated as often as there are
\* tries left, then the charge is given up.
AfterTimeout(s) ==
  IF s.mode = "receiving" THEN Initial(ReqTries)
  ELSE IF s.left > 0 THEN Initial(s.left - 1) ELSE Downed

\* rx.recv(): a heartbeat starts or feeds the interval storage, which only
\* sets the next timeout; Term ends the loop.  The name is given up with a
\* message to the registry, then the mailbox is dropped.
TakeHeartbeat(r) ==
  /\ task[r].phase = "running" /\ task[r].box # <<>> /\ Head(task[r].box) = "heartbeat"
  /\ task' = [task EXCEPT ![r].box = Tail(@),
                          ![r].state = IF @ = Downed THEN Downed ELSE Receiving,
                          ![r].silent = 0]
  /\ UNCHANGED <<cluster, downed, registry, beats>>

\* A variant that keeps its name.
TakeTermSilently(r) ==
  /\ task[r].phase = "running" /\ task[r].box # <<>> /\ Head(task[r].box) = "term"
  /\ task' = [task EXCEPT ![r].box = <<>>, ![r].phase = "ended"]
  /\ UNCHANGED <<cluster, downed, registry, beats>>

TakeTerm(r) ==
  /\ task[r].phase = "running" /\ task[r].box # <<>> /\ Head(task[r].box) = "term"
  /\ task' = [task EXCEPT ![r].box = <<>>, ![r].phase = "ended"]
  /\ regbox' = Append(regbox, Deregister(r))
  /\ UNCHANGED <<cluster, downed, register, beats>>

\* A variant that stops without a word to its supervisor.
TimeoutUnreported(r) ==
  /\ task[r].phase = "running" /\ task[r].state # Downed
  /\ task' = [task EXCEPT ![r].state = AfterTimeout(@), ![r].silent = @ + 1]
  /\ UNCHANGED <<cluster, downed, registry, beats>>

\* sleep(timeout): select! may take it although a message is waiting.  Once
\* Downed the receiver sleeps for good (2^32 s).
Timeout(r) ==
  /\ task[r].phase = "running" /\ task[r].state # Downed
  /\ LET verdict == task[r].state = Initial(0) IN
     /\ task' = [task EXCEPT ![r].state = AfterTimeout(@),
                             ![r].silent = @ + 1,
                             ![r].told = IF verdict THEN Append(@, task[r].silent + 1) ELSE @]
     /\ downed' = IF verdict /\ up THEN Append(downed, r[1]) ELSE downed
  /\ UNCHANGED <<cluster, registry, beats>>
-----------------------------------------------------------------------------
(* The registry *)

\* UDP brings a heartbeat of c.
Beat(c) ==
  /\ beats[c] < MaxBeats
  /\ beats' = [beats EXCEPT ![c] = @ + 1]
  /\ regbox' = Append(regbox, Forward(<<c, None>>))
  /\ UNCHANGED <<cluster, downed, task, register>>

\* Registry::recv is given the next message.
Received(op) == regbox # <<>> /\ Head(regbox).op = op /\ regbox' = Tail(regbox)

\* A name that is taken is not given: the confirmation is dropped and with
\* it the task.
HandleRegister ==
  /\ Received("register")
  /\ LET r == Head(regbox).r IN
     IF register[r[1]] = None
     THEN /\ register' = [register EXCEPT ![r[1]] = r[2]]
          /\ task' = [task EXCEPT ![r].phase = "confirmed"]
     ELSE /\ task' = [task EXCEPT ![r].phase = "panicked", ![r].box = <<>>]
          /\ UNCHANGED register
  /\ UNCHANGED <<cluster, downed, beats>>

\* Whoever has the name loses it.
HandleDeregister ==
  /\ Received("deregister")
  /\ register' = [register EXCEPT ![Head(regbox).r[1]] = None]
  /\ UNCHANGED <<cluster, downed, task, beats>>

\* A name whose channel is closed is removed.
HandleForward ==
  /\ Received("forward")
  /\ LET c == Head(regbox).r[1]
         r == <<c, register[c]>>
     IN  IF register[c] = None THEN UNCHANGED <<register, task>>
         ELSE /\ register' = IF Closed(r) THEN [register EXCEPT ![c] = None] ELSE register
              /\ task' = [task EXCEPT ![r] = Put(@, "heartbeat")]
  /\ UNCHANGED <<cluster, downed, beats>>

Registry == HandleRegister \/ HandleDeregister \/ HandleForward
-----------------------------------------------------------------------------
Step(r) == Start(r) \/ Begin(r) \/ TakeHeartbeat(r) \/ TakeTerm(r)

Next ==
  \/ \E c \in Charge : Gain(c) \/ Lose(c) \/ Beat(c)
  \/ MarkDown \/ Stop \/ Registry
  \/ \E r \in Receiver : Step(r) \/ Timeout(r)

Spec == Init /\ [][Next]_vars

\* Tasks are scheduled and their timers fire; charges come and go and
\* heartbeats arrive or not.
FairSpec ==
  /\ Spec
  /\ WF_vars(MarkDown) /\ WF_vars(Registry)
  /\ \A r \in Receiver : WF_vars(Step(r)) /\ WF_vars(Timeout(r))
-----------------------------------------------------------------------------
Task == [phase : Phase, state : HBRState, box : Seq({"heartbeat", "term"}),
         silent : Nat, told : Seq(Nat)]

TypeOK ==
  /\ up \in BOOLEAN
  /\ spawned \in [Charge -> 0 .. MaxSpawns]
  /\ \A c \in Charge : charges[c] \in {None, spawned[c]}
  /\ downed \in Seq(Charge) /\ gone \subseteq Charge
  /\ task \in [Receiver -> Task]
  /\ register \in [Charge -> Number \cup {None}]
  /\ regbox \in Seq(RegistryMsg)
  /\ rushed \subseteq Charge
  /\ beats \in [Charge -> 0 .. MaxBeats]

(* A receiver gives its verdict once, and only after its charge was silent *)
(* for ReqTries + 1 timeouts in a row: heartbeats that stop are asked for  *)
(* again before the charge is given up, whatever came before.              *)
VerdictEarned ==
  \A r \in Receiver :
    Len(task[r].told) <= 1 /\ \A i \in DOMAIN task[r].told : task[r].told[i] > ReqTries

\* What has been sent to the registry and not been handled.
Queued(x) == \E i \in DOMAIN regbox : regbox[i] = x

(* Heartbeats reach their receiver: a receiver that runs has its name in   *)
(* the registry, and a name is there only for a receiver that runs, is     *)
(* about to, or has its Deregister under way; so no charge is given up     *)
(* for heartbeats that were delivered to nobody.                           *)
Registered(c) ==
  /\ \A k \in Number : task[<<c, k>>].phase \in {"confirmed", "running"} => register[c] = k
  /\ register[c] # None =>
       LET r == <<c, register[c]>>
       IN  task[r].phase \in {"confirmed", "running"} \/ Queued(Deregister(r))
RunningAreRegistered == \A c \in Charge \ rushed : Registered(c)

(* Should a charge fail, its receiver notices: a charge that sends no      *)
(* heartbeat any more is marked down, unless it is taken off this node or  *)
(* came back to it before its name was free.                               *)
(* (Heartbeats are bounded, so all charges fall silent.)                   *)
FailuresNoticed == \A c \in Charge : charges[c] # None ~> charges[c] = None \/ c \in rushed

(* Should a node fail, it will be noticed (cluster/mod.rs:11).             *)
EveryFailureNoticed == \A c \in Charge : charges[c] # None ~> charges[c] = None

(* A receiver that is no longer wanted, as its charge has left or the      *)
(* cluster actor has stopped, stops and gives its name back, wherever it   *)
(* is in its life.                                                         *)
NamesGivenBack == \A c \in Charge : charges[c] = None ~> register[c] = None \/ charges[c] # None
=============================================================================
