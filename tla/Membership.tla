----------------------------- MODULE Membership -----------------------------
(***************************************************************************)
(* What the cluster promises of who is a member, messages, rings and       *)
(* timers aside.  Every running node has an identity of its own and a      *)
(* picture of who is up and who is down.  The ledger is what there is to   *)
(* know: an identity is entered Up when it is drawn, and Down when some    *)
(* node gives up on it.  Pictures only move up, from what the node knew    *)
(* towards the ledger, however late, repeated or out of order the news is. *)
(***************************************************************************)
EXTENDS Gossip

CONSTANTS Socket, Member, NoMember

VARIABLES
  me,       \* the identity of each node, NoMember if it does not run
  picture,  \* what each node knows of every member
  ledger    \* what there is to know of every member

vars == <<me, picture, ledger>>

Nothing == [m \in Member |-> Absent]

Init ==
  /\ me = [s \in Socket |-> NoMember]
  /\ picture = [s \in Socket |-> Nothing]
  /\ ledger = Nothing

\* A node takes an identity that nobody ever had.
Draw(s, m) ==
  /\ m.socket = s /\ ledger[m] = Absent
  /\ me' = [me EXCEPT ![s] = m]
  /\ ledger' = [ledger EXCEPT ![m] = Up]

\* A node that starts looks for a cluster, or is one by itself.
Begin(s) ==
  /\ me[s] = NoMember
  /\ \E m \in Member :
       /\ Draw(s, m)
       /\ \/ UNCHANGED picture
          \/ picture' = [picture EXCEPT ![s] = [Nothing EXCEPT ![m] = Up]]

\* It takes its picture, and its identity, with it when it stops.
End(s) ==
  /\ me[s] # NoMember
  /\ me' = [me EXCEPT ![s] = NoMember]
  /\ picture' = [picture EXCEPT ![s] = Nothing]
  /\ UNCHANGED ledger

\* The picture of s grows within the ledger, and shows s itself Up.
Grows(s) ==
  /\ picture' = [picture EXCEPT ![s] = picture'[s]]
  /\ picture'[s] \in GossipOver(Member)
  /\ AtMost(picture[s], picture'[s]) /\ AtMost(picture'[s], ledger')
  /\ picture'[s][me'[s]] = Up

Learn(s) ==
  /\ me[s] # NoMember
  /\ UNCHANGED <<me, ledger>>
  /\ Grows(s)

\* A node that learns that it is down comes back as somebody else.
Return(s) ==
  /\ me[s] # NoMember
  /\ \E m \in Member : Draw(s, m)
  /\ Grows(s)
  /\ picture'[s][me[s]] = Down

\* Only another node that counts m as a member gives up on it.
GiveUp(m) ==
  /\ ledger[m] = Up
  /\ \E s \in Socket : picture[s][m] = Up /\ me[s] # m
  /\ ledger' = [ledger EXCEPT ![m] = Down]
  /\ UNCHANGED <<me, picture>>

Next ==
  \/ \E s \in Socket : Learn(s) \/ Begin(s) \/ End(s) \/ Return(s)
  \/ \E m \in Member : GiveUp(m)

Spec == Init /\ [][Next]_vars
=============================================================================
