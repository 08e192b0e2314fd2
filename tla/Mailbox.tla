------------------------------- MODULE Mailbox -------------------------------
(***************************************************************************)
(* What an actor promises: one task that registers, starts, handles the    *)
(* messages of an unbounded mailbox one by one and stops at the first      *)
(* Term.  This is unit_single of core/actor_tasks_unit.rs, and the         *)
(* abstract specification of a double-threaded actor.                      *)
(*                                                                         *)
(* User code may panic wherever it runs.                                   *)
(***************************************************************************)
EXTENDS Mail

VARIABLES
  task,       \* "registering", "starting", "idle", "handling", "stopping", "ended", "crashed"
  box,        \* the mailbox
  now,        \* the message being handled
  handled     \* the messages handled so far

vars == <<task, box, now, handled, sent>>

Over == task \in {"ended", "crashed"}

Init ==
  /\ task = "registering" /\ now = NoMsg
  /\ box = <<>> /\ handled = <<>> /\ sent = <<>>

\* LocalRef::send and signal; without a receiver the message is dropped.
Send(x) ==
  /\ x \in Unsent
  /\ sent' = Append(sent, x)
  /\ box' = IF Over THEN box ELSE Append(box, x)
  /\ UNCHANGED <<task, now, handled>>

\* The name is confirmed by the registry, or taken and the task panics.
Register ==
  /\ task = "registering"
  /\ \/ task' = "starting" /\ UNCHANGED box
     \/ task' = "crashed" /\ box' = <<>>
  /\ UNCHANGED <<now, handled, sent>>

\* pre_start returns
Begin ==
  /\ task = "starting" /\ task' = "idle"
  /\ UNCHANGED <<box, now, handled, sent>>

\* rx.recv() yields a message or the signal.
Take ==
  /\ task = "idle" /\ box # <<>>
  /\ box' = Tail(box)
  /\ IF Head(box) = Term
     THEN task' = "stopping" /\ UNCHANGED now
     ELSE task' = "handling" /\ now' = Head(box)
  /\ UNCHANGED <<handled, sent>>

\* actor.recv returns
Finish ==
  /\ task = "handling" /\ task' = "idle"
  /\ handled' = Append(handled, now) /\ now' = NoMsg
  /\ UNCHANGED <<box, sent>>

\* post_stop returns; what is left in the mailbox is dropped.
End ==
  /\ task = "stopping" /\ task' = "ended"
  /\ box' = <<>>
  /\ UNCHANGED <<now, handled, sent>>

\* pre_start, recv or post_stop panics.
Crash ==
  /\ task \in {"starting", "handling", "stopping"} /\ task' = "crashed"
  /\ box' = <<>> /\ now' = NoMsg
  /\ UNCHANGED <<handled, sent>>

Next ==
  \/ \E x \in Item : Send(x)
  \/ Register \/ Begin \/ Take \/ Finish \/ End \/ Crash

Spec == Init /\ [][Next]_vars

\* The task is scheduled and the actor's handlers return.
FairSpec ==
  Spec /\ WF_vars(Register) /\ WF_vars(Begin) /\ WF_vars(Take) /\ WF_vars(Finish) /\ WF_vars(End)
=============================================================================
