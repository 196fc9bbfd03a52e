---------------------------- MODULE TaskMailbox ----------------------------
(***************************************************************************)
(* The mailbox of one task: threads of any process send to it, the task's  *)
(* own thread takes messages from it (send, getMsgTag, receive and dropMsg *)
(* of TaskSystem/src/System/System.c on one CircularMsgQ).                 *)
(*                                                                         *)
(* The owner runs the receive loop every task has: getMsgTag until there   *)
(* is a tag, a switch on it, then receive, dropMsg, or nothing for a tag   *)
(* that "should never be received".  getMsgTag reads the tag, and receive  *)
(* clones the message, through a pointer into the ring after QLock has     *)
(* been released: those reads are steps of their own, so that any number   *)
(* of sends can happen before them.                                        *)
(*                                                                         *)
(* A sender has at most Outstanding of its messages in the mailbox or in   *)
(* the owner's hand.  With 1 it is a client that waits for each response   *)
(* before it sends again (ClientTask); a large value stands for a sender   *)
(* that never waits.                                                       *)
(***************************************************************************)
EXTENDS CircularMsgQ

CONSTANTS
  Sender,       \* the threads that send to this task
  from,         \* from[m]: the sender of message m
  Handled,      \* messages with a tag the task's switch receives
  Ignored,      \* messages with a tag whose case does nothing
  Outstanding   \* messages one sender may have here

ASSUME MailboxAssumption ==
  /\ from \in [Msg -> Sender]
  /\ Handled \subseteq Msg
  /\ Ignored \subseteq Msg \ Handled
  /\ Outstanding \in Nat \ {0}

VARIABLES
  q,            \* struct Queue of the mailbox
  mem,          \* the bytes behind it
  slots,        \* history: where each accepted message was written, oldest
                \* first, until it is dequeued
  outstanding,  \* per sender, its messages in the mailbox or in hand
  ret,          \* per sender, what its last call of send returned
  pc,           \* the owner's place in its receive loop
  ptr,          \* the owner's pointer into the ring
  tag,          \* the tag read by getMsgTag
  inHand,       \* the message Dequeue returned, at the time it returned it
  copy          \* the message the handler gets: inHand's clone

vars == <<q, mem, slots, outstanding, ret, pc, ptr, tag, inHand, copy>>
ownerVars == <<ptr, tag, inHand, copy>>

Init ==
  /\ q = CreateQueue
  /\ mem = FreshSegment
  /\ slots = << >>
  /\ outstanding = [s \in Sender |-> 0]
  /\ ret = [s \in Sender |-> 1]
  /\ pc = "getMsgTag"
  /\ ptr = HDR
  /\ tag = NoMsg
  /\ inHand = NoMsg
  /\ copy = NoMsg

-----------------------------------------------------------------------------
(* Senders                                                                 *)

(* Variants with a slip: the caller is told 0 although the message was     *)
(* written, or a client does not wait for its responses.                   *)
SendAcceptedUnreported(m) ==
  /\ outstanding[from[m]] < Outstanding
  /\ ~IsFull(q, m)
  /\ q' = Enqueue(q, m)
  /\ mem' = WriteAt(mem, m, WritePos(q, m))
  /\ slots' = Append(slots, [at |-> WritePos(q, m), msg |-> m])
  /\ outstanding' = [outstanding EXCEPT ![from[m]] = @ + 1]
  /\ ret' = [ret EXCEPT ![from[m]] = 0]
  /\ UNCHANGED <<pc, ownerVars>>

SendAcceptedEager(m) ==
  /\ ~IsFull(q, m)
  /\ q' = Enqueue(q, m)
  /\ mem' = WriteAt(mem, m, WritePos(q, m))
  /\ slots' = Append(slots, [at |-> WritePos(q, m), msg |-> m])
  /\ outstanding' = [outstanding EXCEPT ![from[m]] = @ + 1]
  /\ ret' = [ret EXCEPT ![from[m]] = 1]
  /\ UNCHANGED <<pc, ownerVars>>

(* send returns 1.                                                         *)
SendAccepted(m) ==
  /\ outstanding[from[m]] < Outstanding
  /\ ~IsFull(q, m)
  /\ q' = Enqueue(q, m)
  /\ mem' = WriteAt(mem, m, WritePos(q, m))
  /\ slots' = Append(slots, [at |-> WritePos(q, m), msg |-> m])
  /\ outstanding' = [outstanding EXCEPT ![from[m]] = @ + 1]
  /\ ret' = [ret EXCEPT ![from[m]] = 1]
  /\ UNCHANGED <<pc, ownerVars>>

(* send returns 0: the message is not written.  No task looks at the       *)
(* result, so the message is lost.                                         *)
SendRefused(m) ==
  /\ outstanding[from[m]] < Outstanding
  /\ IsFull(q, m)
  /\ ret' = [ret EXCEPT ![from[m]] = 0]
  /\ UNCHANGED <<q, mem, slots, outstanding, pc, ownerVars>>

-----------------------------------------------------------------------------
(* The owner                                                               *)

(* One message of a sender is neither in the mailbox nor in hand any more  *)
(* (bytes that are no message are nobody's).                               *)
Release(m) ==
  outstanding' = [s \in Sender |->
                    IF m \in Msg /\ s = from[m] THEN outstanding[s] - 1
                                                ELSE outstanding[s]]

(* Peek, under QLock, of a queue that is not empty.  On an empty queue     *)
(* getMsgTag returns -1 and the owner tries again: nothing changes.        *)
Peek ==
  /\ pc = "getMsgTag"
  /\ ~IsEmpty(q)
  /\ ptr' = ReadPos(q)
  /\ pc' = "readTag"
  /\ UNCHANGED <<q, mem, slots, outstanding, ret, tag, inHand, copy>>

(* return msg->tag, after the unlock.                                      *)
ReadTag ==
  /\ pc = "readTag"
  /\ tag' = MessageAt(mem, ptr)
  /\ pc' = "switch"
  /\ UNCHANGED <<q, mem, slots, outstanding, ret, ptr, inHand, copy>>

(* Dequeue under QLock, called from receive for a tag the task handles.    *)
(* The branch that returns NULL is not modelled: DispatchOnHead shows that *)
(* it is never taken.                                                      *)
Receive ==
  /\ pc = "switch"
  /\ tag \in Handled
  /\ ~IsEmpty(q)
  /\ ptr' = ReadPos(q)
  /\ inHand' = Clone(mem, ReadPos(q))
  /\ q' = Dequeue(q, mem)
  /\ slots' = Tail(slots)
  /\ pc' = "clone"
  /\ UNCHANGED <<mem, outstanding, ret, tag, copy>>

(* return msg->clone(msg), after the unlock.                               *)
CloneMsg ==
  /\ pc = "clone"
  /\ copy' = Clone(mem, ptr)
  /\ pc' = "handle"
  /\ UNCHANGED <<q, mem, slots, outstanding, ret, ptr, tag, inHand>>

(* A variant with a slip: the loop goes on with the tag it has.            *)
HandleOldTag ==
  /\ pc = "handle"
  /\ Release(copy)
  /\ pc' = "switch"
  /\ UNCHANGED <<q, mem, slots, ret, ownerVars>>

(* The task's handler runs on the copy and sends its response.             *)
Handle ==
  /\ pc = "handle"
  /\ Release(copy)
  /\ pc' = "getMsgTag"
  /\ UNCHANGED <<q, mem, slots, ret, ownerVars>>

(* dropMsg, for a tag the switch does not name.                            *)
DropMsg ==
  /\ pc = "switch"
  /\ tag \notin Handled \cup Ignored
  /\ ~IsEmpty(q)
  /\ Release(Clone(mem, ReadPos(q)))
  /\ q' = Dequeue(q, mem)
  /\ slots' = Tail(slots)
  /\ pc' = "getMsgTag"
  /\ UNCHANGED <<mem, ret, ownerVars>>

(* The case of a tag that "should never be received": the message stays    *)
(* at the head of the queue.                                               *)
Ignore ==
  /\ pc = "switch"
  /\ tag \in Ignored
  /\ pc' = "getMsgTag"
  /\ UNCHANGED <<q, mem, slots, outstanding, ret, ownerVars>>

-----------------------------------------------------------------------------
Send(m) == SendAccepted(m) \/ SendRefused(m)

Owner == Peek \/ ReadTag \/ Receive \/ CloneMsg \/ Handle \/ DropMsg \/ Ignore

Next == (\E m \in Msg : Send(m)) \/ Owner

Spec == Init /\ [][Next]_vars

(* The owner's thread is scheduled; nobody has to send.                    *)
FairSpec == Spec /\ WF_vars(Owner)

-----------------------------------------------------------------------------
TypeOK ==
  /\ q \in Queue
  /\ mem \in [Offset -> Byte \cup {Zero}]
  /\ slots \in Seq(Slot)
  /\ outstanding \in [Sender -> Int]
  /\ ret \in [Sender -> {0, 1}]
  /\ pc \in {"getMsgTag", "readTag", "switch", "clone", "handle"}
  /\ ptr \in HDR .. Q_SIZE
  /\ tag \in Msg \cup {NoMsg}
  /\ inHand \in Msg \cup {NoMsg}
  /\ copy \in Msg \cup {NoMsg}

(* The live messages lie end to end from head to tail, in the order in     *)
(* which they were accepted, through at most one rollover, and cover       *)
(* nothing twice: what Enqueue's and Dequeue's arithmetic must maintain.   *)
RingLayout == Layout(q, slots)

(* Every message that was accepted and not taken is in the ring unharmed,  *)
(* and the next read finds the oldest of them: no Enqueue, before or after *)
(* any number of rollovers, writes over a message that waits.              *)
LiveIntact ==
  /\ q.size = Len(slots)
  /\ slots # << >> => ReadPos(q) = slots[1].at
  /\ AllIntact(mem, slots)

(* When the owner acts on a tag, the message with that tag is still the    *)
(* one that receive and dropMsg take: the tag was read without the lock,   *)
(* yet no other message can have come first, and the queue is not empty    *)
(* (the NULL branch of receive, which exits the process).                  *)
DispatchOnHead ==
  pc = "switch" => slots # << >> /\ tag = slots[1].msg

(* A message that fits into half of the ring is never refused by an empty  *)
(* queue, wherever head and tail have stopped.  A larger one can be, and   *)
(* then for ever: nothing moves the head of an empty queue.                *)
EmptyAccepts ==
  \A m \in Msg :
    slots = << >> /\ 2 * msg_size[m] <= Q_SIZE - HDR + 1 => ~IsFull(q, m)

(* The handler works on the message that was taken from the queue.         *)
CloneFaithful ==
  pc = "handle" => copy = inHand

(* A sender that may send is never refused: no message is lost.            *)
NeverRefused ==
  \A m \in Msg : outstanding[from[m]] < Outstanding => ~IsFull(q, m)

(* A message with a handler that was accepted reaches the handler.         *)
Delivered ==
  \A m \in Handled :
    (\E i \in 1 .. Len(slots) : slots[i].msg = m)
      ~> (pc = "handle" /\ copy = m)

-----------------------------------------------------------------------------
(* The abstract mailbox: the messages in the slots, in their order.        *)
box == [i \in 1 .. Len(slots) |-> slots[i].msg]

M == INSTANCE Mailbox
       WITH Small <- {m \in Msg : 2 * msg_size[m] <= Q_SIZE - HDR + 1}

(* The ring is a FIFO queue of whole messages: what Dequeue returns is the *)
(* message that was accepted first, and Enqueue refuses only for a reason. *)
Fifo == M!Spec

(* It also does not keep a message for ever, when no tag is ignored.       *)
FairFifo == M!FairSpec

=============================================================================
