---------------------------- MODULE CircularMsgQ ----------------------------
(***************************************************************************)
(* The message queue of TaskSystem/src/MsgQueue/CircularMsgQ.c: a ring of  *)
(* Q_SIZE bytes in a shared memory segment that starts with the struct     *)
(* Queue (HDR bytes) and holds messages of different sizes, each in        *)
(* consecutive bytes.  A message that does not fit before the end of the   *)
(* segment goes to its start, and rollover_position remembers where the    *)
(* messages written before it end.                                         *)
(*                                                                         *)
(* A queue is a record with the four fields of struct Queue; the bytes of  *)
(* the segment are a separate function, mem.  Every operation of the C     *)
(* file runs between the lock and the unlock of QLock, so it is one state  *)
(* function here; what the callers do with the returned pointer after the  *)
(* unlock is in the modules that use this one.                             *)
(***************************************************************************)
EXTENDS Integers, Sequences

CONSTANTS
  Msg,       \* the message objects handed to Enqueue
  msg_size,  \* msg_size[m]: the field item->msg_size, in bytes
  NoMsg,     \* what a zero byte decodes to: a header with msg_size 0
  HDR,       \* sizeof(struct Queue)
  Q_SIZE     \* size of the segment

ASSUME QueueAssumption ==
  /\ HDR \in Nat \ {0}
  /\ Q_SIZE \in Nat
  /\ HDR < Q_SIZE
  /\ msg_size \in [Msg -> Nat \ {0}]
  /\ NoMsg \notin Msg

(* The bytes that messages may occupy, and what one byte holds: byte number *)
(* off of message of.  A fresh segment is zero-filled.                      *)
Offset == HDR .. Q_SIZE - 1
Byte == [of : Msg, off : Nat]
Zero == [of |-> NoMsg, off |-> 0]
FreshSegment == [o \in Offset |-> Zero]

(* struct Queue; the unsigned fields never exceed Q_SIZE.                  *)
Queue == [head : HDR .. Q_SIZE,
          tail : HDR .. Q_SIZE,
          size : Nat,
          rollover_position : {-1} \cup HDR .. Q_SIZE]

CreateQueue ==
  [head |-> HDR, tail |-> HDR, size |-> 0, rollover_position |-> -1]

(* A variant with a slip: the last message is not seen.                    *)
IsEmptyOffByOne(q) == q.size <= 1

IsEmpty(q) == q.size = 0

-----------------------------------------------------------------------------
(* Enqueue                                                                 *)

(* A variant with a slip: the message may cross the end by one byte.       *)
HasToRolloverLate(q, m) ==
  /\ q.rollover_position = -1
  /\ q.tail + msg_size[m] > Q_SIZE + 1

(* The tail is moved to the start of the segment: only when it has not     *)
(* been moved there already and the message would cross the end.           *)
HasToRollover(q, m) ==
  /\ q.rollover_position = -1
  /\ q.tail + msg_size[m] > Q_SIZE

FutureTail(q, m) ==
  IF HasToRollover(q, m) THEN HDR + msg_size[m] ELSE q.tail + msg_size[m]

(* Variants with a slip: the tail may pass the head by one byte, or may    *)
(* not reach it.                                                           *)
IsFullLate(q, m) ==
  /\ HasToRollover(q, m) \/ q.rollover_position # -1
  /\ FutureTail(q, m) > q.head + 1

IsFullEarly(q, m) ==
  /\ HasToRollover(q, m) \/ q.rollover_position # -1
  /\ FutureTail(q, m) >= q.head

(* "Circular array full": Enqueue returns 0 and changes nothing.           *)
IsFull(q, m) ==
  /\ HasToRollover(q, m) \/ q.rollover_position # -1
  /\ FutureTail(q, m) > q.head

WritePos(q, m) == FutureTail(q, m) - msg_size[m]

(* A variant with a slip: one byte more than the message has.              *)
WriteAtTooLong(mem, m, at) ==
  [o \in DOMAIN mem |->
     IF o \in at .. at + msg_size[m] THEN [of |-> m, off |-> o - at]
                                     ELSE mem[o]]

(* item->writeAt(item, addr): the message's bytes, header first.           *)
WriteAt(mem, m, at) ==
  [o \in DOMAIN mem |->
     IF o \in at .. at + msg_size[m] - 1 THEN [of |-> m, off |-> o - at]
                                         ELSE mem[o]]

(* The queue after an Enqueue that returns 1.                              *)
Enqueue(q, m) ==
  [head |-> q.head,
   tail |-> FutureTail(q, m),
   size |-> q.size + 1,
   rollover_position |->
     IF HasToRollover(q, m) THEN q.tail ELSE q.rollover_position]

-----------------------------------------------------------------------------
(* Peek and Dequeue                                                        *)

(* Where the next message starts: at the head, unless the messages before  *)
(* the rollover are used up.                                               *)
ReadPos(q) == IF q.head = q.rollover_position THEN HDR ELSE q.head

(* message_part: the message whose header is at an offset, and its size.   *)
MessageAt(mem, at) == mem[at].of

SizeAt(mem, at) ==
  IF mem[at].of = NoMsg THEN 0 ELSE msg_size[mem[at].of]

(* A variant with a slip: rollover_position is not reset.                  *)
DequeueNoReset(q, mem) ==
  [head |-> ReadPos(q) + SizeAt(mem, ReadPos(q)),
   tail |-> q.tail,
   size |-> q.size - 1,
   rollover_position |-> q.rollover_position]

(* The queue after a Dequeue of a queue that is not empty.                 *)
Dequeue(q, mem) ==
  [head |-> ReadPos(q) + SizeAt(mem, ReadPos(q)),
   tail |-> q.tail,
   size |-> q.size - 1,
   rollover_position |->
     IF q.head = q.rollover_position THEN -1 ELSE q.rollover_position]

(* The bytes from an offset on are exactly those of message m.             *)
Intact(mem, at, m) ==
  \A k \in 0 .. msg_size[m] - 1 :
    at + k \in DOMAIN mem /\ mem[at + k] = [of |-> m, off |-> k]

(* msg->clone(msg): the message read from the bytes at an offset, or NoMsg *)
(* when they are not, or no longer, the bytes of one message.              *)
Clone(mem, at) ==
  LET m == MessageAt(mem, at)
  IN  IF m \in Msg /\ Intact(mem, at, m) THEN m ELSE NoMsg

-----------------------------------------------------------------------------
(* How messages lie in the ring.  A slot records where a message was       *)
(* written; S is the sequence of the slots that were accepted by Enqueue   *)
(* and not yet dequeued, oldest first.  Before a rollover they fill        *)
(* head..tail; after one, head..rollover_position and then HDR..tail.      *)

Slot == [at : Offset, msg : Msg]

SlotEnd(s) == s.at + msg_size[s.msg]

(* The slot is not in the part that was written after the rollover.        *)
BeforeRollover(q, s) == q.rollover_position = -1 \/ s.at >= q.head

Positions(q) ==
  IF q.rollover_position = -1
    THEN q.head <= q.tail
    ELSE HDR < q.tail /\ q.tail <= q.head /\ q.head <= q.rollover_position

Ends(q, S) ==
  IF S = << >>
    THEN q.rollover_position = -1 /\ q.head = q.tail
    ELSE S[1].at = ReadPos(q) /\ SlotEnd(S[Len(S)]) = q.tail

Regions(q, S) ==
  \A i \in 1 .. Len(S) :
    /\ BeforeRollover(q, S[i]) =>
         /\ q.head <= S[i].at
         /\ SlotEnd(S[i]) <= IF q.rollover_position = -1
                               THEN q.tail ELSE q.rollover_position
    /\ ~BeforeRollover(q, S[i]) => SlotEnd(S[i]) <= q.tail

Ordered(q, S) ==
  \A i, j \in 1 .. Len(S) :
    i < j => \/ BeforeRollover(q, S[i]) /\ ~BeforeRollover(q, S[j])
             \/ /\ BeforeRollover(q, S[i]) <=> BeforeRollover(q, S[j])
                /\ SlotEnd(S[i]) <= S[j].at

Contiguous(q, S) ==
  \A i \in 1 .. Len(S) - 1 :
    S[i+1].at =
      IF BeforeRollover(q, S[i]) /\ SlotEnd(S[i]) = q.rollover_position
        THEN HDR
        ELSE SlotEnd(S[i])

Layout(q, S) ==
  /\ Positions(q)
  /\ Ends(q, S)
  /\ Regions(q, S)
  /\ Ordered(q, S)
  /\ Contiguous(q, S)

(* Every slot still holds its message.                                     *)
AllIntact(mem, S) == \A i \in 1 .. Len(S) : Intact(mem, S[i].at, S[i].msg)

=============================================================================
