--------------------------- MODULE DoubleThreaded ---------------------------
(***************************************************************************)
(* A double-threaded actor, core/actor_tasks_unit.rs: the secondary task   *)
(* owns the mailbox and a queue, the primary runs the user's code and asks *)
(* for one message at a time through the same mailbox others send to.      *)
(***************************************************************************)
EXTENDS Mail, SequencesExt

PrimaryRequest == "PrimaryRequest"
Die == "Die"

ASSUME DoubleThreadedAssumption ==
  MaxSent \in Nat /\ Msg \cap {Term, NoMsg, PrimaryRequest, Die} = {}

VARIABLES
  secondary,       \* "registering", "running", "stray" (panicked) or "gone"
  rx,              \* the mailbox: messages, signals, PrimaryRequest and Die
  queue,           \* messages and signals the primary has not asked for
  primary_waiting, \* has the primary asked in vain?
  primary,         \* "starting", "waiting", "handling", "stopping", "ended", "crashed"
  primary_rx,      \* the channel from the secondary to the primary
  now,             \* the message being handled
  handled          \* the messages handled so far

vars == <<secondary, rx, queue, primary_waiting, primary, primary_rx, now, handled, sent>>

Init ==
  /\ secondary = "registering" /\ primary = "starting" /\ primary_waiting = FALSE
  /\ rx = <<>> /\ queue = <<>> /\ primary_rx = <<>>
  /\ now = NoMsg /\ handled = <<>> /\ sent = <<>>

MailboxOpen == secondary \in {"registering", "running"}

\* LocalRef::send and signal
Send(x) ==
  /\ x \in Unsent
  /\ sent' = Append(sent, x)
  /\ rx' = IF MailboxOpen THEN Append(rx, x) ELSE rx
  /\ UNCHANGED <<secondary, queue, primary_waiting, primary, primary_rx, now, handled>>

\* The registry confirms the name and the primary is spawned, or the name is
\* taken and the secondary panics.
Register ==
  /\ secondary = "registering"
  /\ \/ secondary' = "running" /\ UNCHANGED <<primary, rx>>
     \/ secondary' = "gone" /\ primary' = "crashed" /\ rx' = <<>>
  /\ UNCHANGED <<queue, primary_waiting, primary_rx, now, handled, sent>>
-----------------------------------------------------------------------------
\* The secondary panics; its mailbox and queue go with it.
Astray ==
  secondary' = "stray" /\ rx' = <<>> /\ queue' = <<>> /\ UNCHANGED <<primary_waiting, primary_rx>>

\* A variant that does not remember that it has served the primary.
SendToPrimaryStillWaiting(x, rest) ==
  IF primary \in {"ended", "crashed"}
  THEN Astray
  ELSE /\ primary_rx' = Append(primary_rx, x)
       /\ queue' = rest
       /\ rx' = Tail(rx)
       /\ UNCHANGED <<secondary, primary_waiting>>

\* send_to_primary(x) with the queue and the flag it leaves, which is down
\* already when a request is served; it fails once the primary has dropped
\* its end.
SendToPrimary(x, rest) ==
  IF primary \in {"ended", "crashed"}
  THEN Astray
  ELSE /\ primary_rx' = Append(primary_rx, x)
       /\ queue' = rest /\ primary_waiting' = FALSE
       /\ rx' = Tail(rx)
       /\ UNCHANGED secondary

\* PrimaryRequest
ServeRequest ==
  IF primary_waiting THEN Astray
  ELSE IF queue # <<>> THEN SendToPrimary(Head(queue), Tail(queue))
  ELSE /\ primary_waiting' = TRUE /\ rx' = Tail(rx)
       /\ UNCHANGED <<secondary, queue, primary_rx>>

\* A message or signal goes to a waiting primary or into the queue.  The
\* variant queues it in any case.
DeliverLater(x) ==
  /\ queue' = Append(queue, x) /\ rx' = Tail(rx)
  /\ UNCHANGED <<secondary, primary_waiting, primary_rx>>
Deliver(x) ==
  IF primary_waiting THEN SendToPrimary(x, queue)
  ELSE /\ queue' = Append(queue, x) /\ rx' = Tail(rx)
       /\ UNCHANGED <<secondary, primary_waiting, primary_rx>>

\* Die: the loop ends and all that is left is dropped.
Leave ==
  /\ secondary' = "gone" /\ rx' = <<>> /\ queue' = <<>>
  /\ UNCHANGED <<primary_waiting, primary_rx>>

\* One iteration of unit_secondary.
SecondaryReceives ==
  /\ secondary = "running" /\ rx # <<>>
  /\ CASE Head(rx) = PrimaryRequest -> ServeRequest
       [] Head(rx) = Die -> Leave
       [] OTHER -> Deliver(Head(rx))
  /\ UNCHANGED <<primary, now, handled, sent>>

\* The primary has panicked and the last reference to the mailbox is dropped:
\* rx.recv() yields None and is unwrapped.
LastReferenceDropped ==
  /\ secondary = "running" /\ primary = "crashed" /\ rx = <<>>
  /\ secondary' = "gone" /\ queue' = <<>>
  /\ UNCHANGED <<rx, primary_waiting, primary, primary_rx, now, handled, sent>>
-----------------------------------------------------------------------------
\* send_to_secondary(x) and what becomes of the primary then; it panics when
\* the secondary is gone.
SendToSecondary(x, next) ==
  IF secondary = "running"
  THEN rx' = Append(rx, x) /\ primary' = next
  ELSE primary' = "crashed" /\ UNCHANGED rx

\* pre_start returns, and the primary asks for the first message.
Begin ==
  /\ secondary # "registering" /\ primary = "starting"
  /\ SendToSecondary(PrimaryRequest, "waiting")
  /\ UNCHANGED <<secondary, queue, primary_waiting, primary_rx, now, handled, sent>>

\* rx.recv() of the primary; None when the secondary is gone.
Take ==
  /\ primary = "waiting" /\ (primary_rx # <<>> \/ secondary # "running")
  /\ IF primary_rx = <<>> THEN primary' = "crashed" /\ UNCHANGED <<primary_rx, now>>
     ELSE /\ primary_rx' = Tail(primary_rx)
          /\ IF Head(primary_rx) = Term
             THEN primary' = "stopping" /\ UNCHANGED now
             ELSE primary' = "handling" /\ now' = Head(primary_rx)
  /\ UNCHANGED <<secondary, rx, queue, primary_waiting, handled, sent>>

\* actor.recv returns, and the primary asks for the next message.
Finish ==
  /\ primary = "handling"
  /\ handled' = Append(handled, now) /\ now' = NoMsg
  /\ SendToSecondary(PrimaryRequest, "waiting")
  /\ UNCHANGED <<secondary, queue, primary_waiting, primary_rx, sent>>

\* post_stop returns.  The variant forgets to tell the secondary.
EndAlone ==
  /\ primary = "stopping" /\ primary' = "ended" /\ primary_rx' = <<>>
  /\ UNCHANGED <<secondary, rx, queue, primary_waiting, now, handled, sent>>
End ==
  /\ primary = "stopping"
  /\ SendToSecondary(Die, "ended") /\ primary_rx' = <<>>
  /\ UNCHANGED <<secondary, queue, primary_waiting, now, handled, sent>>

\* pre_start, recv or post_stop panics.
Crash ==
  /\ primary \in {"starting", "handling", "stopping"} /\ secondary # "registering"
  /\ primary' = "crashed" /\ primary_rx' = <<>> /\ now' = NoMsg
  /\ UNCHANGED <<secondary, rx, queue, primary_waiting, handled, sent>>

Next ==
  \/ \E x \in Item : Send(x)
  \/ Register \/ SecondaryReceives \/ LastReferenceDropped
  \/ Begin \/ Take \/ Finish \/ End \/ Crash

Spec == Init /\ [][Next]_vars

\* Both tasks are scheduled and the actor's handlers return.
FairSpec ==
  /\ Spec
  /\ WF_vars(Register) /\ WF_vars(SecondaryReceives)
  /\ WF_vars(Begin) /\ WF_vars(Take) /\ WF_vars(Finish) /\ WF_vars(End)
-----------------------------------------------------------------------------
(* Type correctness; the primary is handed one message at a time.          *)
TypeOK ==
  /\ secondary \in {"registering", "running", "stray", "gone"}
  /\ rx \in Seq(Item \cup {PrimaryRequest, Die}) /\ queue \in Seq(Item)
  /\ primary_waiting \in BOOLEAN
  /\ primary \in {"starting", "waiting", "handling", "stopping", "ended", "crashed"}
  /\ primary_rx \in Seq(Item) /\ Len(primary_rx) <= 1
  /\ now \in Msg \cup {NoMsg} /\ handled \in Seq(Msg) /\ sent \in Seq(Item)
  /\ now = NoMsg <=> primary # "handling"

(* There is at most one answer due: the primary has asked in the mailbox,  *)
(* or is known to wait, with nothing queued, or one message is on its way  *)
(* to it; and while it runs the secondary does.                            *)
Handshake ==
  /\ At(PrimaryRequest, rx) # {} \/ primary_waiting \/ primary_rx # <<>> => primary = "waiting"
  /\ \A i, j \in At(PrimaryRequest, rx) : i = j
  /\ primary_waiting => At(PrimaryRequest, rx) = {} /\ queue = <<>> /\ primary_rx = <<>>
  /\ primary_rx # <<>> => At(PrimaryRequest, rx) = {}
  /\ At(Die, rx) # {} => primary = "ended"
  /\ primary \notin {"ended", "crashed"} => secondary \in {"registering", "running"}
  /\ secondary = "registering" => primary = "starting" /\ rx \in Seq(Item)

(* The secondary never meets a second request and never serves a primary   *)
(* that is gone: the two panics of unit_secondary are unreachable.         *)
NeverStray == secondary # "stray"

(* After a Term the actor ends, both tasks of it, unless its code panics.  *)
TermStops == At(Term, sent) # {} ~> secondary = "gone" \/ primary = "crashed"
-----------------------------------------------------------------------------
\* The two tasks as one; the request is no part of the mailbox.
AsOneTask ==
  IF secondary = "registering" THEN "registering"
  ELSE IF primary = "waiting" THEN "idle" ELSE primary
Pending(q) ==
  IF At(PrimaryRequest, q) = {} THEN q
  ELSE RemoveAt(q, CHOOSE i \in At(PrimaryRequest, q) : TRUE)
AsOneBox ==
  IF primary \in {"ended", "crashed"} THEN <<>> ELSE (primary_rx \o queue) \o Pending(rx)

Single == INSTANCE Mailbox WITH task <- AsOneTask, box <- AsOneBox

(* To its users a double-threaded actor is one task with one mailbox: no   *)
(* message is lost, repeated, overtaken or left lying between the two.     *)
ImplementsMailbox == Single!FairSpec
=============================================================================
