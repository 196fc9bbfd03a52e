------------------------------ MODULE MCTasks ------------------------------
(***************************************************************************)
(* TaskSystem for TLC: the mailbox of a task whose senders never wait (the *)
(* open one), the mailbox of a server whose clients wait for each response *)
(* (the closed one), and the System object.  They do not interact; a       *)
(* behaviour is a behaviour of the one that was chosen at the start.       *)
(***************************************************************************)
EXTENDS TaskMailbox, System

CONSTANTS
  a, b, c, d, e, A, B,   \* messages and their senders
  P1, P2, t1, t2,        \* processes and tasks
  Halves                 \* what may be chosen: of "open", "closed", "system"

(* c is longer than half of the ring.                                      *)
MCsize == [m \in Msg |->
             CASE m = a -> 2 [] m = b -> 4 [] m = c -> 5 [] m = d -> 1]
MCfrom == [m \in Msg |-> IF m \in {a, c} THEN A ELSE B]
MCHome == [t \in Task |-> IF t = t1 THEN P1 ELSE P2]

(* The requests of the closed mailbox: the ring, of the same length, has   *)
(* room for one of the longest more than the clients can have there.       *)
Requests == {a, d, e}

VARIABLES
  half,   \* what runs
  cq, cmem, cslots, coutstanding, cret, cpc, cptr, ctag, cinHand, ccopy

Closed == INSTANCE TaskMailbox WITH
            Msg <- Requests, Handled <- {a, e}, Ignored <- {},
            Outstanding <- 1,
            msg_size <- [m \in Requests |-> IF m = a THEN 2 ELSE 1],
            from <- [m \in Requests |-> IF m = e THEN B ELSE A],
            q <- cq, mem <- cmem, slots <- cslots,
            outstanding <- coutstanding, ret <- cret, pc <- cpc, ptr <- cptr,
            tag <- ctag, inHand <- cinHand, copy <- ccopy

closedVars ==
  <<cq, cmem, cslots, coutstanding, cret, cpc, cptr, ctag, cinHand, ccopy>>
allVars == <<half, vars, closedVars, systemVars>>

TasksInit == half \in Halves /\ Init /\ Closed!Init /\ SystemInit

OpenHalf(step) ==
  half = "open" /\ step /\ UNCHANGED <<half, closedVars, systemVars>>
ClosedHalf(step) ==
  half = "closed" /\ step /\ UNCHANGED <<half, vars, systemVars>>
SystemHalf(step) ==
  half = "system" /\ step /\ UNCHANGED <<half, vars, closedVars>>

TasksNext ==
  OpenHalf(Next) \/ ClosedHalf(Closed!Next) \/ SystemHalf(SystemNext)

TasksSpec == TasksInit /\ [][TasksNext]_allVars

(* The fairness of each, while it is the one that runs.                    *)
TasksFairSpec ==
  /\ TasksSpec
  /\ WF_allVars(ClosedHalf(Closed!Owner))
  /\ WF_allVars(SystemHalf(Loop)) /\ WF_allVars(SystemHalf(Destroy))
  /\ \A t \in Task : WF_allVars(SystemHalf(TaskStep(t)))

-----------------------------------------------------------------------------
(* TaskMailbox.CloneFaithful: the handler gets the message that was taken. *)
ClosedCloneFaithful == Closed!CloneFaithful

(* TaskMailbox.NeverRefused: no message of a client that waits is lost.    *)
ClosedNeverRefused == Closed!NeverRefused

(* TaskMailbox.Delivered: an accepted message reaches its handler.         *)
ClosedDelivered == Closed!Delivered

(* TaskMailbox.FairFifo: the ring implements the fair abstract mailbox.    *)
ClosedFairFifo == Closed!FairFifo

=============================================================================
