------------------------------ MODULE Mailbox ------------------------------
(***************************************************************************)
(* What a task's mailbox promises: a first-in-first-out queue of whole     *)
(* messages.  A send returns 1 and appends, or returns 0 and loses the     *)
(* message; it may do the latter only when messages are waiting, or for a  *)
(* message that is too large (not in Small).  The owner takes the oldest   *)
(* message or throws it away.  No bytes, no positions, no rollover.        *)
(***************************************************************************)
EXTENDS Sequences, Integers

CONSTANTS Msg, NoMsg, Sender, from, Small

VARIABLES
  box,     \* the messages that wait, oldest first
  inHand,  \* the message taken last
  ret      \* per sender, what its last call of send returned

vars == <<box, inHand, ret>>

Init ==
  /\ box = << >>
  /\ inHand = NoMsg
  /\ ret = [s \in Sender |-> 1]

Accept(m) ==
  /\ box' = Append(box, m)
  /\ ret' = [ret EXCEPT ![from[m]] = 1]
  /\ UNCHANGED inHand

Refuse(m) ==
  /\ box # << >> \/ m \notin Small
  /\ ret' = [ret EXCEPT ![from[m]] = 0]
  /\ UNCHANGED <<box, inHand>>

Take ==
  /\ box # << >>
  /\ inHand' = Head(box)
  /\ box' = Tail(box)
  /\ UNCHANGED ret

Discard ==
  /\ box # << >>
  /\ box' = Tail(box)
  /\ UNCHANGED <<inHand, ret>>

Next == (\E m \in Msg : Accept(m) \/ Refuse(m)) \/ Take \/ Discard

Spec == Init /\ [][Next]_vars

(* Messages do not wait for ever.                                          *)
FairSpec == Spec /\ WF_vars(Take \/ Discard)

=============================================================================
