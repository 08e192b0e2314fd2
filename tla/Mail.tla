-------------------------------- MODULE Mail --------------------------------
(***************************************************************************)
(* What is sent to an actor: messages and the signal Term.  All messages   *)
(* deserialize, and no two are alike.                                      *)
(***************************************************************************)
EXTENDS Naturals, Sequences

CONSTANTS
  Msg,        \* messages; each is sent at most once
  MaxSent     \* bound: messages and signals ever sent

VARIABLE sent   \* all messages and signals sent so far

Term == "Term"
NoMsg == "none"
Item == Msg \cup {Term}

\* Where x is in a sequence.
At(x, q) == {i \in DOMAIN q : q[i] = x}

\* What may still be sent.
Unsent == {x \in Item : Len(sent) < MaxSent /\ (x \in Msg => At(x, sent) = {})}
=============================================================================
