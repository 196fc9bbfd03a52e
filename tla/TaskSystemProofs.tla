------------------------- MODULE TaskSystemProofs -------------------------
(***************************************************************************)
(* Proofs about the two halves of TaskSystem: the mailbox of one task      *)
(* (TaskMailbox) and the System object (System).  Their variables are      *)
(* apart, and so are their invariants; nothing here composes them.         *)
(*                                                                         *)
(* TaskMailbox: for every ring size, every set of messages of any sizes,   *)
(* every number of senders and every window.  IInv is the inductive        *)
(* invariant.  LiveIntact alone is not inductive: an Enqueue is harmless   *)
(* only because every live message lies in the part of the ring that head, *)
(* tail and rollover_position describe, and a Dequeue finds the next       *)
(* message only because the slots lie end to end.                          *)
(*                                                                         *)
(* System: for any number of processes and tasks, when no process acquires *)
(* the system while it is being created.  SysInv is the inductive          *)
(* invariant.  That destroy cleans up rests on the IDs: the names it       *)
(* removes are 1..nextTaskID-1, so every linked queue must have an ID      *)
(* below nextTaskID, and a task that creates its queue while destroy is    *)
(* running must not bring back a name already removed.                     *)
(***************************************************************************)
EXTENDS TaskMailbox, System, FiniteSetTheorems, TLAPS

-----------------------------------------------------------------------------
(* What Enqueue and Dequeue do to the ring: they keep the layout of the    *)
(* live messages (Layout) and their bytes (AllIntact).                     *)

(* A size is at least one byte.                                            *)
LEMMA SizePositive ==
  ASSUME NEW m \in Msg
  PROVE  msg_size[m] \in Nat /\ msg_size[m] >= 1
BY QueueAssumption

(* writeAt puts the whole message at the offset, when it fits there.       *)
LEMMA WriteAtWrites ==
  ASSUME NEW m \in Msg, NEW at \in Offset, NEW mm,
         mm \in [Offset -> Byte \cup {Zero}],
         at + msg_size[m] <= Q_SIZE
  PROVE  /\ WriteAt(mm, m, at) \in [Offset -> Byte \cup {Zero}]
         /\ Intact(WriteAt(mm, m, at), at, m)
<1>1. msg_size[m] \in Nat /\ msg_size[m] >= 1
  BY SizePositive
<1>2. HDR \in Nat /\ Q_SIZE \in Nat /\ DOMAIN mm = Offset
  BY QueueAssumption
<1>3. ASSUME NEW o \in Offset, o \in at .. at + msg_size[m] - 1
      PROVE  [of |-> m, off |-> o - at] \in Byte
  BY <1>1, <1>2, <1>3 DEF Byte, Offset
<1>4. WriteAt(mm, m, at) \in [Offset -> Byte \cup {Zero}]
  BY <1>2, <1>3 DEF WriteAt
<1>5. ASSUME NEW k \in 0 .. msg_size[m] - 1
      PROVE  /\ at + k \in Offset
             /\ WriteAt(mm, m, at)[at + k] = [of |-> m, off |-> k]
  <2>1. at + k \in Offset /\ at + k \in at .. at + msg_size[m] - 1
    BY <1>1, <1>2 DEF Offset
  <2>2. (at + k) - at = k
    BY <1>2 DEF Offset
  <2>3. WriteAt(mm, m, at)[at + k] = [of |-> m, off |-> (at + k) - at]
    BY <2>1, <1>2 DEF WriteAt
  <2> QED BY <2>1, <2>2, <2>3
<1>6. DOMAIN WriteAt(mm, m, at) = Offset
  BY <1>2 DEF WriteAt
<1> QED BY <1>4, <1>5, <1>6 DEF Intact

(* writeAt leaves a message alone that it does not overlap.                *)
LEMMA WriteAtFrame ==
  ASSUME NEW m \in Msg, NEW at \in Offset, NEW n \in Msg, NEW p \in Offset,
         NEW mm, mm \in [Offset -> Byte \cup {Zero}],
         Intact(mm, p, n),
         p + msg_size[n] <= at \/ at + msg_size[m] <= p
  PROVE  Intact(WriteAt(mm, m, at), p, n)
<1>1. /\ msg_size[m] \in Nat /\ msg_size[n] \in Nat
      /\ at \in Int /\ p \in Int /\ DOMAIN mm = Offset
  BY SizePositive, QueueAssumption DEF Offset
<1>2. DOMAIN WriteAt(mm, m, at) = Offset
  BY <1>1 DEF WriteAt
<1>3. ASSUME NEW k \in 0 .. msg_size[n] - 1
      PROVE  /\ p + k \in Offset
             /\ WriteAt(mm, m, at)[p + k] = [of |-> n, off |-> k]
  <2>1. p + k \in Offset /\ mm[p + k] = [of |-> n, off |-> k]
    BY <1>1 DEF Intact
  <2>2. p + k \notin at .. at + msg_size[m] - 1
    BY <1>1
  <2> QED BY <1>1, <2>1, <2>2 DEF WriteAt
<1> QED BY <1>2, <1>3 DEF Intact

(* The header of an intact message names it and gives its size, and a      *)
(* clone of it is the message.                                             *)
LEMMA IntactHeader ==
  ASSUME NEW m \in Msg, NEW at \in Offset, NEW mm, Intact(mm, at, m)
  PROVE  /\ MessageAt(mm, at) = m
         /\ SizeAt(mm, at) = msg_size[m]
         /\ Clone(mm, at) = m
<1>1. 0 \in 0 .. msg_size[m] - 1 /\ at + 0 = at
  BY SizePositive, QueueAssumption DEF Offset
<1>2. mm[at] = [of |-> m, off |-> 0]
  BY <1>1 DEF Intact
<1>3. mm[at].of = m /\ m # NoMsg
  BY <1>2, QueueAssumption
<1> QED BY <1>3 DEF MessageAt, SizeAt, Clone

-----------------------------------------------------------------------------
(* Enqueue                                                                 *)

(* Where an accepted message is written: at the tail of a queue that has   *)
(* room behind it, at the start of the ring when the tail rolls over, or   *)
(* at the tail between the start and the head after a rollover.            *)
LEMMA EnqueueCases ==
  ASSUME NEW m \in Msg, NEW u \in Queue, Positions(u), ~IsFull(u, m)
  PROVE  LET w == WritePos(u, m)
             e == Enqueue(u, m)
             r == u.rollover_position
         IN  /\ e \in Queue
             /\ e.head = u.head /\ e.size = u.size + 1
             /\ e.tail = w + msg_size[m]
             /\ w \in Offset /\ w + msg_size[m] <= Q_SIZE
             /\ \/ /\ r = -1 /\ e.rollover_position = -1
                   /\ w = u.tail
                \/ /\ r = -1 /\ e.rollover_position = u.tail
                   /\ w = HDR /\ HDR + msg_size[m] <= u.head
                \/ /\ r # -1 /\ e.rollover_position = r
                   /\ w = u.tail /\ u.tail + msg_size[m] <= u.head
<1> DEFINE w == WritePos(u, m)
           e == Enqueue(u, m)
           r == u.rollover_position
<1>1. /\ msg_size[m] \in Nat /\ msg_size[m] >= 1
      /\ HDR \in Nat /\ HDR >= 1 /\ Q_SIZE \in Nat /\ HDR < Q_SIZE
  BY SizePositive, QueueAssumption
<1>2. /\ u.head \in HDR .. Q_SIZE /\ u.tail \in HDR .. Q_SIZE
      /\ u.size \in Nat /\ r \in {-1} \cup HDR .. Q_SIZE
  BY DEF Queue
<1>3. /\ e.head = u.head /\ e.size = u.size + 1
      /\ e.tail = FutureTail(u, m)
      /\ e.rollover_position = IF HasToRollover(u, m) THEN u.tail ELSE r
  BY DEF Enqueue
<1>4. \/ /\ r = -1 /\ ~HasToRollover(u, m)
         /\ FutureTail(u, m) = u.tail + msg_size[m]
         /\ u.tail + msg_size[m] <= Q_SIZE
      \/ /\ r = -1 /\ HasToRollover(u, m)
         /\ FutureTail(u, m) = HDR + msg_size[m]
         /\ HDR + msg_size[m] <= u.head
      \/ /\ r # -1 /\ ~HasToRollover(u, m)
         /\ FutureTail(u, m) = u.tail + msg_size[m]
         /\ u.tail + msg_size[m] <= u.head
  BY <1>1, <1>2 DEF IsFull, HasToRollover, FutureTail
<1>5. FutureTail(u, m) \in HDR .. Q_SIZE
  BY <1>1, <1>2, <1>4
<1>6. e \in Queue
  BY <1>2, <1>5 DEF Enqueue, Queue
<1>7. w = FutureTail(u, m) - msg_size[m]
  BY DEF WritePos
<1>8. w \in Offset /\ w + msg_size[m] <= Q_SIZE /\ e.tail = w + msg_size[m]
  BY <1>1, <1>2, <1>3, <1>4, <1>7 DEF Offset
<1> QED BY <1>1, <1>2, <1>3, <1>4, <1>6, <1>7, <1>8

(* The fields of a slot, of a queue and of the sizes involved.             *)
LEMMA SlotFacts ==
  ASSUME NEW s \in Slot
  PROVE  /\ s.at \in Offset /\ s.at \in Int /\ s.at >= HDR
         /\ s.msg \in Msg
         /\ msg_size[s.msg] \in Nat /\ msg_size[s.msg] >= 1
         /\ SlotEnd(s) = s.at + msg_size[s.msg]
         /\ SlotEnd(s) \in Int /\ SlotEnd(s) > s.at
<1>1. s.at \in Offset /\ s.msg \in Msg
  BY DEF Slot
<1>2. msg_size[s.msg] \in Nat /\ msg_size[s.msg] >= 1
  BY <1>1, SizePositive
<1> QED BY <1>1, <1>2, QueueAssumption DEF Offset, SlotEnd

(* What struct Queue says of its fields, with the bounds of the segment.    *)
LEMMA QueueFacts ==
  ASSUME NEW u \in Queue
  PROVE  /\ HDR \in Nat /\ HDR >= 1 /\ Q_SIZE \in Nat /\ HDR < Q_SIZE
         /\ u.head \in HDR .. Q_SIZE /\ u.tail \in HDR .. Q_SIZE
         /\ u.size \in Nat
         /\ u.rollover_position \in {-1} \cup HDR .. Q_SIZE
BY QueueAssumption DEF Queue

(* An accepted message is appended to the layout.                          *)
LEMMA EnqueueKeepsLayout ==
  ASSUME NEW m \in Msg, NEW u \in Queue, NEW S \in Seq(Slot),
         Layout(u, S), ~IsFull(u, m)
  PROVE  /\ Append(S, [at |-> WritePos(u, m), msg |-> m]) \in Seq(Slot)
         /\ Layout(Enqueue(u, m),
                   Append(S, [at |-> WritePos(u, m), msg |-> m]))
<1> DEFINE w == WritePos(u, m)
           r == u.rollover_position
           new == [at |-> w, msg |-> m]
           n == Len(S)
           T == Append(S, new)
           e == Enqueue(u, m)
<1>1. msg_size[m] \in Nat /\ msg_size[m] >= 1
  BY SizePositive
<1>2. /\ HDR \in Nat /\ HDR >= 1 /\ Q_SIZE \in Nat /\ HDR < Q_SIZE
      /\ u.head \in HDR .. Q_SIZE /\ u.tail \in HDR .. Q_SIZE
      /\ r \in {-1} \cup HDR .. Q_SIZE
  BY QueueFacts
<1>3. /\ Positions(u) /\ Ends(u, S) /\ Regions(u, S)
      /\ Ordered(u, S) /\ Contiguous(u, S)
  BY DEF Layout
<1>4. /\ e \in Queue
      /\ e.head = u.head /\ e.tail = w + msg_size[m]
      /\ w \in Offset /\ w + msg_size[m] <= Q_SIZE
  BY <1>3, EnqueueCases
<1>5. \/ r = -1 /\ e.rollover_position = -1 /\ w = u.tail
      \/ /\ r = -1 /\ e.rollover_position = u.tail
         /\ w = HDR /\ HDR + msg_size[m] <= u.head
      \/ /\ r # -1 /\ e.rollover_position = r
         /\ w = u.tail /\ u.tail + msg_size[m] <= u.head
  BY <1>3, EnqueueCases
<1>6. new \in Slot /\ new.at = w /\ SlotEnd(new) = e.tail
  BY <1>4 DEF Slot, SlotEnd
<1>7. /\ T \in Seq(Slot) /\ Len(T) = n + 1 /\ n \in Nat
      /\ T[n + 1] = new /\ T # << >>
      /\ \A i \in 1 .. n : T[i] = S[i]
  BY <1>6
<1>8. \A i \in 1 .. n :
        /\ S[i].at \in Int /\ S[i].at >= HDR
        /\ SlotEnd(S[i]) \in Int /\ SlotEnd(S[i]) > S[i].at
  BY SlotFacts
<1>9. \A i \in 1 .. n : BeforeRollover(e, S[i]) <=> BeforeRollover(u, S[i])
  BY <1>1, <1>2, <1>3, <1>4, <1>5, <1>8
     DEF BeforeRollover, Regions, Positions
<1>10. BeforeRollover(e, new) <=> e.rollover_position = -1
  BY <1>1, <1>2, <1>4, <1>5, <1>6 DEF BeforeRollover, Offset
<1> HIDE DEF T, e, w, new
<1>11. Positions(e)
  BY <1>1, <1>2, <1>3, <1>4, <1>5 DEF Positions, Offset
<1>12. Ends(e, T)
  <2>1. T[1].at = ReadPos(e)
    <3>1. CASE S = << >>
      <4>1. n = 0 /\ T[1] = new
        BY <3>1, <1>7
      <4> QED BY <3>1, <4>1, <1>1, <1>2, <1>3, <1>4, <1>5, <1>6
              DEF Ends, ReadPos
    <3>2. CASE S # << >>
      <4>1. 1 \in 1 .. n /\ T[1] = S[1] /\ S[1].at = ReadPos(u)
        BY <3>2, <1>3, <1>7 DEF Ends
      <4>2. S[1].at = ReadPos(e)
        BY <4>1, <1>1, <1>2, <1>3, <1>4, <1>5, <1>8
           DEF ReadPos, Regions, Positions, BeforeRollover
      <4> QED BY <4>1, <4>2
    <3> QED BY <3>1, <3>2
  <2> QED BY <2>1, <1>6, <1>7 DEF Ends
<1>13. Regions(e, T)
  <2> SUFFICES ASSUME NEW i \in 1 .. n + 1
               PROVE  /\ BeforeRollover(e, T[i]) =>
                           /\ e.head <= T[i].at
                           /\ SlotEnd(T[i]) <= IF e.rollover_position = -1
                                THEN e.tail ELSE e.rollover_position
                      /\ ~BeforeRollover(e, T[i]) => SlotEnd(T[i]) <= e.tail
    BY <1>7 DEF Regions
  <2>1. CASE i = n + 1
    <3>1. T[i] = new /\ T[i].at = w /\ SlotEnd(T[i]) = e.tail
      BY <2>1, <1>6, <1>7
    <3> QED BY <3>1, <1>1, <1>2, <1>3, <1>4, <1>5, <1>10
            DEF Positions, Offset
  <2>2. CASE i \in 1 .. n
    <3>1. T[i] = S[i]
      BY <2>2, <1>7
    <3>2. /\ BeforeRollover(u, S[i]) =>
               /\ u.head <= S[i].at
               /\ SlotEnd(S[i]) <= IF r = -1 THEN u.tail ELSE r
          /\ ~BeforeRollover(u, S[i]) => SlotEnd(S[i]) <= u.tail
      BY <2>2, <1>3 DEF Regions
    <3>3. r = -1 => BeforeRollover(u, S[i])
      BY DEF BeforeRollover
    <3>4. SlotEnd(S[i]) \in Int
      BY <2>2, <1>8
    <3> QED BY <2>2, <3>1, <3>2, <3>3, <3>4, <1>1, <1>2, <1>4, <1>5, <1>9
            DEF Offset
  <2> QED BY <2>1, <2>2, <1>7
<1>14. Ordered(e, T)
  <2> SUFFICES ASSUME NEW i \in 1 .. n + 1, NEW j \in 1 .. n + 1, i < j
               PROVE  \/ BeforeRollover(e, T[i]) /\ ~BeforeRollover(e, T[j])
                      \/ /\ BeforeRollover(e, T[i]) <=> BeforeRollover(e, T[j])
                         /\ SlotEnd(T[i]) <= T[j].at
    BY <1>7 DEF Ordered
  <2>1. i \in 1 .. n /\ T[i] = S[i]
    BY <1>7
  <2>2. CASE j = n + 1
    <3>1. T[j] = new /\ T[j].at = w
      BY <2>2, <1>6, <1>7
    <3>2. /\ BeforeRollover(u, S[i]) =>
               SlotEnd(S[i]) <= IF r = -1 THEN u.tail ELSE r
          /\ ~BeforeRollover(u, S[i]) => SlotEnd(S[i]) <= u.tail
          /\ r = -1 => BeforeRollover(u, S[i])
      BY <2>1, <1>3 DEF Regions, BeforeRollover
    <3>3. BeforeRollover(e, S[i]) <=> BeforeRollover(u, S[i])
      BY <2>1, <1>9
    <3> QED BY <2>1, <3>1, <3>2, <3>3, <1>2, <1>5, <1>10
  <2>3. CASE j \in 1 .. n
    BY <2>1, <2>3, <1>3, <1>7, <1>9 DEF Ordered
  <2> QED BY <2>2, <2>3, <1>7
<1>15. Contiguous(e, T)
  <2> SUFFICES ASSUME NEW i \in 1 .. n
               PROVE  T[i+1].at =
                        IF /\ BeforeRollover(e, T[i])
                           /\ SlotEnd(T[i]) = e.rollover_position
                        THEN HDR ELSE SlotEnd(T[i])
    BY <1>7 DEF Contiguous
  <2>1. T[i] = S[i]
    BY <1>7
  <2>2. CASE i = n
    <3>1. T[i+1] = new /\ SlotEnd(S[i]) = u.tail
      BY <2>2, <1>3, <1>7 DEF Ends
    <3> QED BY <3>1, <2>1, <1>1, <1>2, <1>3, <1>4, <1>5, <1>6, <1>8, <1>9
            DEF BeforeRollover, Positions, Regions
  <2>3. CASE i \in 1 .. n - 1
    <3>1. i + 1 \in 1 .. n /\ T[i+1] = S[i+1]
      BY <2>3, <1>7
    <3>2. S[i+1].at = IF /\ BeforeRollover(u, S[i])
                         /\ SlotEnd(S[i]) = u.rollover_position
                      THEN HDR ELSE SlotEnd(S[i])
      BY <2>3, <1>3 DEF Contiguous
    <3>3. CASE e.rollover_position = r
      BY <3>1, <3>2, <3>3, <2>1, <1>9
    <3>4. CASE r = -1 /\ e.rollover_position = u.tail
      <4>1. SlotEnd(S[i]) = S[i+1].at
        BY <3>2, <3>4, <1>2, <1>8
      <4>2. SlotEnd(S[i+1]) <= u.tail /\ S[i+1].at < SlotEnd(S[i+1])
        BY <3>1, <3>4, <1>3, <1>8 DEF Regions
      <4>3. SlotEnd(S[i]) # u.tail
        BY <4>1, <4>2, <3>1, <1>2, <1>8
      <4> QED BY <4>1, <4>3, <3>1, <3>4, <2>1
    <3> QED BY <3>3, <3>4, <1>5
  <2> QED BY <2>2, <2>3, <1>7
<1> QED BY <1>7, <1>11, <1>12, <1>13, <1>14, <1>15 DEF Layout, T, e, w, new

(* An accepted message is written whole and over no message that waits.    *)
LEMMA EnqueueKeepsBytes ==
  ASSUME NEW m \in Msg, NEW u \in Queue, NEW S \in Seq(Slot),
         NEW raw, raw \in [Offset -> Byte \cup {Zero}],
         Layout(u, S), AllIntact(raw, S), ~IsFull(u, m)
  PROVE  /\ WriteAt(raw, m, WritePos(u, m)) \in [Offset -> Byte \cup {Zero}]
         /\ AllIntact(WriteAt(raw, m, WritePos(u, m)),
                      Append(S, [at |-> WritePos(u, m), msg |-> m]))
<1> DEFINE w == WritePos(u, m)
           r == u.rollover_position
           new == [at |-> w, msg |-> m]
           n == Len(S)
           T == Append(S, new)
           mm == WriteAt(raw, m, w)
<1>1. Positions(u) /\ Regions(u, S)
  BY DEF Layout
<1>2. /\ w \in Offset /\ w + msg_size[m] <= Q_SIZE
      /\ \/ r = -1 /\ w = u.tail
         \/ r = -1 /\ w = HDR /\ HDR + msg_size[m] <= u.head
         \/ r # -1 /\ w = u.tail /\ u.tail + msg_size[m] <= u.head
  BY <1>1, EnqueueCases
<1>3. mm \in [Offset -> Byte \cup {Zero}] /\ Intact(mm, w, m)
  BY <1>2, WriteAtWrites
<1>4. ASSUME NEW i \in 1 .. n
      PROVE  Intact(mm, S[i].at, S[i].msg)
  <2>1. /\ S[i].at \in Offset /\ S[i].at \in Int /\ S[i].at >= HDR
        /\ S[i].msg \in Msg
        /\ SlotEnd(S[i]) = S[i].at + msg_size[S[i].msg]
        /\ SlotEnd(S[i]) \in Int
    BY SlotFacts
  <2>2. /\ BeforeRollover(u, S[i]) =>
             /\ u.head <= S[i].at
             /\ SlotEnd(S[i]) <= IF r = -1 THEN u.tail ELSE r
        /\ ~BeforeRollover(u, S[i]) => SlotEnd(S[i]) <= u.tail
        /\ r = -1 => BeforeRollover(u, S[i])
    BY <1>1 DEF Regions, BeforeRollover
  <2>3. /\ u.head \in Int /\ u.tail \in Int /\ HDR \in Int
        /\ msg_size[m] \in Nat
    BY QueueFacts, SizePositive
  <2>4. SlotEnd(S[i]) <= w \/ w + msg_size[m] <= S[i].at
    <3> DEFINE p == S[i].at
               e == SlotEnd(S[i])
               z == msg_size[m]
    <3>1. p \in Int /\ e \in Int /\ w \in Int /\ z \in Int /\ u.head \in Int
      BY <1>2, <2>1, <2>3 DEF Offset
    <3> HIDE DEF p, e, z, w
    <3>2. CASE BeforeRollover(u, S[i])
      <4>1. u.head <= p /\ (r = -1 => e <= u.tail)
        BY <2>2, <3>2 DEF p, e
      <4>2. CASE r = -1 /\ w = u.tail
        BY <4>1, <4>2 DEF e
      <4>3. CASE w + z <= u.head
        BY <3>1, <4>1, <4>3 DEF p, z
      <4> QED BY <1>2, <4>2, <4>3 DEF z
    <3>3. CASE ~BeforeRollover(u, S[i])
      BY <1>2, <2>2, <3>3 DEF e
    <3> QED BY <3>2, <3>3
  <2>5. Intact(raw, S[i].at, S[i].msg)
    BY DEF AllIntact
  <2> QED BY <1>2, <2>1, <2>4, <2>5, WriteAtFrame
<1>5. new \in Slot
  BY <1>2 DEF Slot
<1>6. /\ Len(T) = n + 1 /\ n \in Nat /\ T[n + 1] = new
      /\ \A i \in 1 .. n : T[i] = S[i]
  BY <1>5
<1>7. new.at = w /\ new.msg = m
  OBVIOUS
<1> HIDE DEF T, new, mm, w
<1>8. ASSUME NEW i \in 1 .. n + 1
      PROVE  Intact(mm, T[i].at, T[i].msg)
  <2>1. CASE i = n + 1
    BY <2>1, <1>3, <1>6, <1>7
  <2>2. CASE i \in 1 .. n
    BY <2>2, <1>4, <1>6
  <2> QED BY <2>1, <2>2, <1>6
<1> QED BY <1>3, <1>6, <1>8 DEF AllIntact, T, new, mm, w

-----------------------------------------------------------------------------
(* Dequeue                                                                 *)

(* Dequeue takes the oldest message out of the layout.                     *)
LEMMA DequeueKeepsLayout ==
  ASSUME NEW u \in Queue, NEW S \in Seq(Slot), NEW raw,
         Layout(u, S), AllIntact(raw, S), S # << >>, u.size = Len(S)
  PROVE  /\ Dequeue(u, raw) \in Queue
         /\ Dequeue(u, raw).size = Len(Tail(S))
         /\ Tail(S) \in Seq(Slot)
         /\ Layout(Dequeue(u, raw), Tail(S))
         /\ AllIntact(raw, Tail(S))
<1> DEFINE r == u.rollover_position
           n == Len(S)
           T == Tail(S)
           e == Dequeue(u, raw)
<1>1. /\ HDR \in Nat /\ HDR >= 1 /\ Q_SIZE \in Nat /\ HDR < Q_SIZE
      /\ u.head \in HDR .. Q_SIZE /\ u.tail \in HDR .. Q_SIZE
      /\ r \in {-1} \cup HDR .. Q_SIZE /\ u.size \in Nat
  BY QueueFacts
<1>2. /\ Positions(u) /\ Ends(u, S) /\ Regions(u, S)
      /\ Ordered(u, S) /\ Contiguous(u, S)
  BY DEF Layout
<1>3. /\ T \in Seq(Slot) /\ n \in Nat /\ n >= 1 /\ Len(T) = n - 1
      /\ \A i \in 1 .. n - 1 : T[i] = S[i + 1]
  OBVIOUS
<1>4. \A i \in 1 .. n :
        /\ S[i].at \in Int /\ S[i].at >= HDR
        /\ SlotEnd(S[i]) \in Int /\ SlotEnd(S[i]) > S[i].at
  BY SlotFacts
<1>5. S[1] \in Slot /\ 1 \in 1 .. n /\ n \in 1 .. n
  BY <1>3
<1>6. S[1].at = ReadPos(u) /\ SlotEnd(S[n]) = u.tail
  BY <1>2 DEF Ends
<1>7. e.head = SlotEnd(S[1])
  <2>1. Intact(raw, S[1].at, S[1].msg)
    BY <1>5 DEF AllIntact
  <2>2. SizeAt(raw, ReadPos(u)) = msg_size[S[1].msg]
    BY <1>5, <1>6, <2>1, IntactHeader, SlotFacts
  <2> QED BY <1>5, <1>6, <2>2 DEF Dequeue, SlotEnd
<1>8. /\ e.tail = u.tail /\ e.size = u.size - 1
      /\ e.rollover_position = IF u.head = r THEN -1 ELSE r
  BY DEF Dequeue
(* Where the first message lies.                                           *)
<1>9. \/ r = -1 /\ S[1].at = u.head
      \/ r # -1 /\ u.head = r /\ S[1].at = HDR
      \/ r # -1 /\ u.head # r /\ S[1].at = u.head
  BY <1>1, <1>6 DEF ReadPos
<1>10. \A i \in 1 .. n :
         /\ BeforeRollover(u, S[i]) =>
              /\ u.head <= S[i].at
              /\ SlotEnd(S[i]) <= IF r = -1 THEN u.tail ELSE r
         /\ ~BeforeRollover(u, S[i]) => SlotEnd(S[i]) <= u.tail
  BY <1>2 DEF Regions
<1>11. \A i \in 2 .. n :
         \/ BeforeRollover(u, S[1]) /\ ~BeforeRollover(u, S[i])
         \/ /\ BeforeRollover(u, S[1]) <=> BeforeRollover(u, S[i])
            /\ SlotEnd(S[1]) <= S[i].at
  BY <1>2, <1>3 DEF Ordered
<1> HIDE DEF e, T
<1>12. /\ SlotEnd(S[1]) \in HDR .. Q_SIZE
       /\ r = -1 => SlotEnd(S[1]) <= u.tail
       /\ r # -1 /\ u.head # r => SlotEnd(S[1]) <= r
       /\ r # -1 /\ u.head = r => SlotEnd(S[1]) <= u.tail
  BY <1>1, <1>2, <1>4, <1>5, <1>9, <1>10 DEF BeforeRollover, Positions
<1>13. e \in Queue /\ e.size = Len(T)
  <2>1. e.size \in Nat /\ e.size = n - 1
    BY <1>3, <1>8
  <2> QED BY <2>1, <1>1, <1>3, <1>7, <1>8, <1>12 DEF Queue, Dequeue, e
<1>14. Positions(e)
  BY <1>1, <1>2, <1>4, <1>5, <1>7, <1>8, <1>9, <1>12 DEF Positions
(* A later message is on the same side of the rollover as it was.          *)
<1>15. \A i \in 2 .. n :
         BeforeRollover(e, S[i]) <=>
           u.head = r \/ BeforeRollover(u, S[i])
  <2> SUFFICES ASSUME NEW i \in 2 .. n
               PROVE  BeforeRollover(e, S[i]) <=>
                        u.head = r \/ BeforeRollover(u, S[i])
    OBVIOUS
  <2> QED BY <1>1, <1>2, <1>3, <1>4, <1>5, <1>7, <1>8, <1>9, <1>10, <1>11
          DEF BeforeRollover, Positions
(* Once the part before the rollover is used up, no message is in it.      *)
<1>16. u.head = r => \A i \in 1 .. n : ~BeforeRollover(u, S[i])
  BY <1>1, <1>4, <1>10 DEF BeforeRollover
<1>17. Ends(e, T)
  <2>1. CASE T = << >>
    <3>1. n = 1
      BY <2>1, <1>3
    <3>2. SlotEnd(S[1]) = u.tail
      BY <3>1, <1>6
    <3>3. r = -1 \/ u.head = r
      BY <3>2, <1>1, <1>2, <1>4, <1>5, <1>9 DEF Positions
    <3> QED BY <2>1, <3>2, <3>3, <1>1, <1>7, <1>8 DEF Ends
  <2>2. CASE T # << >>
    <3>1. n >= 2 /\ T[1] = S[2] /\ T[Len(T)] = S[n]
      BY <2>2, <1>3
    <3>2. S[2].at = IF BeforeRollover(u, S[1]) /\ SlotEnd(S[1]) = r
                      THEN HDR ELSE SlotEnd(S[1])
      BY <3>1, <1>2, <1>3 DEF Contiguous
    <3>3. S[2].at = ReadPos(e)
      BY <3>1, <3>2, <1>1, <1>2, <1>4, <1>5, <1>7, <1>8, <1>9, <1>12, <1>16
         DEF ReadPos, BeforeRollover, Positions
    <3> QED BY <2>2, <3>1, <3>3, <1>6, <1>8 DEF Ends
  <2> QED BY <2>1, <2>2
<1>18. Regions(e, T)
  <2> SUFFICES ASSUME NEW i \in 1 .. n - 1
               PROVE  /\ BeforeRollover(e, T[i]) =>
                           /\ e.head <= T[i].at
                           /\ SlotEnd(T[i]) <= IF e.rollover_position = -1
                                THEN e.tail ELSE e.rollover_position
                      /\ ~BeforeRollover(e, T[i]) => SlotEnd(T[i]) <= e.tail
    BY <1>3 DEF Regions
  <2>1. T[i] = S[i + 1] /\ i + 1 \in 2 .. n /\ i + 1 \in 1 .. n
    BY <1>3
  <2>2. r = -1 => BeforeRollover(u, S[i + 1]) /\ BeforeRollover(u, S[1])
    BY DEF BeforeRollover
  <2>3. r # -1 /\ u.head # r => BeforeRollover(u, S[1])
    BY <1>1, <1>9 DEF BeforeRollover
  <2> QED BY <2>1, <2>2, <2>3, <1>1, <1>4, <1>5, <1>7, <1>8, <1>10, <1>11,
             <1>15, <1>16
<1>19. Ordered(e, T)
  <2> SUFFICES ASSUME NEW i \in 1 .. n - 1, NEW j \in 1 .. n - 1, i < j
               PROVE  \/ BeforeRollover(e, T[i]) /\ ~BeforeRollover(e, T[j])
                      \/ /\ BeforeRollover(e, T[i]) <=> BeforeRollover(e, T[j])
                         /\ SlotEnd(T[i]) <= T[j].at
    BY <1>3 DEF Ordered
  <2>1. /\ T[i] = S[i + 1] /\ i + 1 \in 2 .. n /\ i + 1 \in 1 .. n
        /\ T[j] = S[j + 1] /\ j + 1 \in 2 .. n /\ j + 1 \in 1 .. n
    BY <1>3
  <2>2. \/ BeforeRollover(u, S[i + 1]) /\ ~BeforeRollover(u, S[j + 1])
        \/ /\ BeforeRollover(u, S[i + 1]) <=> BeforeRollover(u, S[j + 1])
           /\ SlotEnd(S[i + 1]) <= S[j + 1].at
    BY <2>1, <1>2 DEF Ordered
  <2> QED BY <2>1, <2>2, <1>15, <1>16
<1>20. Contiguous(e, T)
  <2>0. 1 .. Len(T) - 1 = 1 .. n - 2
    BY <1>3
  <2> SUFFICES ASSUME NEW i \in 1 .. n - 2
               PROVE  T[i+1].at =
                        IF /\ BeforeRollover(e, T[i])
                           /\ SlotEnd(T[i]) = e.rollover_position
                        THEN HDR ELSE SlotEnd(T[i])
    BY <2>0 DEF Contiguous
  <2>1. /\ T[i] = S[i + 1] /\ i + 1 \in 2 .. n /\ i + 1 \in 1 .. n - 1
        /\ T[i + 1] = S[(i + 1) + 1]
    BY <1>3
  <2>2. S[(i + 1) + 1].at =
          IF BeforeRollover(u, S[i + 1]) /\ SlotEnd(S[i + 1]) = r
            THEN HDR ELSE SlotEnd(S[i + 1])
    BY <2>1, <1>2 DEF Contiguous
  <2>3. SlotEnd(S[i + 1]) # -1
    BY <2>1, <1>1, <1>4
  <2> QED BY <2>1, <2>2, <2>3, <1>8, <1>15, <1>16
<1>21. AllIntact(raw, T)
  BY <1>3 DEF AllIntact
<1> QED BY <1>3, <1>13, <1>14, <1>17, <1>18, <1>19, <1>20, <1>21
        DEF Layout, e, T

-----------------------------------------------------------------------------
(* The mailbox                                                             *)

(* What the owner relies on between the locked steps.                      *)
OwnerInv ==
  /\ pc = "readTag" => slots # << >> /\ ptr = slots[1].at
  /\ DispatchOnHead

IInv == TypeOK /\ RingLayout /\ LiveIntact /\ OwnerInv

-----------------------------------------------------------------------------
(* A queue that holds messages reads the oldest of them.                   *)
LEMMA HeadOfQueue ==
  ASSUME IInv, slots # << >>
  PROVE  /\ slots[1] \in Slot /\ slots[1].at \in Offset /\ slots[1].msg \in Msg
         /\ ReadPos(q) = slots[1].at
         /\ Intact(mem, slots[1].at, slots[1].msg)
         /\ MessageAt(mem, ReadPos(q)) = slots[1].msg
         /\ Clone(mem, ReadPos(q)) = slots[1].msg
<1>1. slots \in Seq(Slot) /\ 1 \in 1 .. Len(slots)
  BY DEF IInv, TypeOK
<1>2. slots[1] \in Slot /\ slots[1].at \in Offset /\ slots[1].msg \in Msg
  BY <1>1, SlotFacts
<1>3. /\ ReadPos(q) = slots[1].at
      /\ Intact(mem, slots[1].at, slots[1].msg)
  BY <1>1 DEF IInv, LiveIntact, AllIntact
<1> QED BY <1>2, <1>3, IntactHeader

(* The count of the queue is that of the slots.                            *)
LEMMA EmptyQueue ==
  ASSUME IInv
  PROVE  IsEmpty(q) <=> slots = << >>
<1>1. slots \in Seq(Slot) /\ q.size = Len(slots)
  BY DEF IInv, TypeOK, LiveIntact
<1> QED BY <1>1 DEF IsEmpty

(* Initially the ring is empty.                                            *)
LEMMA InitIInv == Init => IInv
<1> SUFFICES ASSUME Init PROVE IInv
  OBVIOUS
<1> USE QueueAssumption DEF Init
<1>1. q \in Queue
  BY DEF CreateQueue, Queue
<1>2. mem \in [Offset -> Byte \cup {Zero}]
  BY DEF FreshSegment
<1>3. slots \in Seq(Slot) /\ Len(slots) = 0
  OBVIOUS
<1>4. TypeOK
  BY <1>1, <1>2, <1>3 DEF TypeOK
<1>5. RingLayout
  BY <1>3 DEF RingLayout, Layout, Positions, Ends, Regions, Ordered,
              Contiguous, CreateQueue
<1>6. LiveIntact
  BY <1>3 DEF LiveIntact, AllIntact, CreateQueue
<1>7. OwnerInv
  BY DEF OwnerInv, DispatchOnHead
<1> QED BY <1>4, <1>5, <1>6, <1>7 DEF IInv

(* An accepted send.                                                       *)
LEMMA AcceptIInv ==
  ASSUME IInv, NEW m \in Msg, SendAccepted(m)
  PROVE  IInv'
<1> DEFINE new == [at |-> WritePos(q, m), msg |-> m]
<1>1. /\ q \in Queue /\ mem \in [Offset -> Byte \cup {Zero}]
      /\ slots \in Seq(Slot) /\ Layout(q, slots) /\ AllIntact(mem, slots)
      /\ q.size = Len(slots) /\ ~IsFull(q, m)
  BY DEF IInv, TypeOK, RingLayout, LiveIntact, SendAccepted
<1>2. q' = Enqueue(q, m) /\ slots' = Append(slots, new)
  BY DEF SendAccepted
<1>3. slots' \in Seq(Slot) /\ Layout(q', slots')
  BY <1>1, <1>2, EnqueueKeepsLayout
<1>4. mem' \in [Offset -> Byte \cup {Zero}] /\ AllIntact(mem', slots')
  BY <1>1, <1>2, EnqueueKeepsBytes DEF SendAccepted
<1>5. q' \in Queue /\ q'.size = q.size + 1
  BY <1>1, <1>2, EnqueueCases DEF Layout
<1>6. TypeOK'
  BY <1>3, <1>4, <1>5, MailboxAssumption
     DEF IInv, TypeOK, SendAccepted, ownerVars
<1>7. new \in Slot
  BY <1>1, EnqueueCases DEF Layout, Slot
<1>8. /\ Len(slots') = Len(slots) + 1
      /\ slots' # << >>
      /\ slots # << >> => slots'[1] = slots[1]
  BY <1>1, <1>2, <1>7
<1>9. LiveIntact'
  BY <1>1, <1>3, <1>4, <1>5, <1>8 DEF LiveIntact, Layout, Ends
<1>10. OwnerInv'
  BY <1>8 DEF IInv, OwnerInv, DispatchOnHead, SendAccepted, ownerVars
<1> QED BY <1>3, <1>6, <1>9, <1>10 DEF IInv, RingLayout

(* What Dequeue does to the queue, for receive and for dropMsg.            *)
LEMMA DequeueIInv ==
  ASSUME IInv, ~IsEmpty(q), q' = Dequeue(q, mem), slots' = Tail(slots),
         UNCHANGED mem
  PROVE  /\ q' \in Queue /\ slots' \in Seq(Slot)
         /\ RingLayout' /\ LiveIntact'
<1>1. /\ q \in Queue /\ slots \in Seq(Slot) /\ Layout(q, slots)
      /\ AllIntact(mem, slots) /\ q.size = Len(slots) /\ slots # << >>
  BY EmptyQueue DEF IInv, TypeOK, RingLayout, LiveIntact
<1>2. /\ q' \in Queue /\ q'.size = Len(slots') /\ slots' \in Seq(Slot)
      /\ Layout(q', slots') /\ AllIntact(mem', slots')
  BY <1>1, DequeueKeepsLayout
<1>3. slots' # << >> => ReadPos(q') = slots'[1].at
  BY <1>2 DEF Layout, Ends
<1> QED BY <1>2, <1>3 DEF RingLayout, LiveIntact

(* A clone is a message or garbage.                                        *)
LEMMA CloneType ==
  ASSUME NEW mm, NEW at
  PROVE  Clone(mm, at) \in Msg \cup {NoMsg}
BY DEF Clone

(* Every step keeps the invariant.                                         *)
LEMMA NextIInv == IInv /\ [Next]_vars => IInv'
<1> SUFFICES ASSUME IInv, [Next]_vars PROVE IInv'
  OBVIOUS
<1>1. ASSUME NEW m \in Msg, SendAccepted(m) PROVE IInv'
  BY <1>1, AcceptIInv
<1>2. ASSUME NEW m \in Msg, SendRefused(m) PROVE IInv'
  <2>1. TypeOK'
    BY <1>2, MailboxAssumption DEF IInv, TypeOK, SendRefused, ownerVars
  <2> QED BY <1>2, <2>1
          DEF IInv, RingLayout, LiveIntact, OwnerInv, DispatchOnHead,
              SendRefused, ownerVars
<1>3. CASE Peek
  <2>1. slots # << >> /\ ReadPos(q) = slots[1].at /\ slots[1].at \in Offset
    BY <1>3, EmptyQueue, HeadOfQueue DEF Peek
  <2>2. ReadPos(q) \in HDR .. Q_SIZE
    BY <2>1, QueueAssumption DEF Offset
  <2>3. TypeOK'
    BY <1>3, <2>2 DEF IInv, TypeOK, Peek
  <2> QED BY <1>3, <2>1, <2>3
          DEF IInv, RingLayout, LiveIntact, OwnerInv, DispatchOnHead, Peek
<1>4. CASE ReadTag
  <2>1. slots # << >> /\ ptr = slots[1].at
    BY <1>4 DEF IInv, OwnerInv, ReadTag
  <2>2. tag' = slots[1].msg /\ slots[1].msg \in Msg
    BY <1>4, <2>1, HeadOfQueue DEF ReadTag
  <2>3. TypeOK'
    BY <1>4, <2>2 DEF IInv, TypeOK, ReadTag
  <2> QED BY <1>4, <2>1, <2>2, <2>3
          DEF IInv, RingLayout, LiveIntact, OwnerInv, DispatchOnHead, ReadTag
<1>5. CASE Receive
  <2>1. /\ q' \in Queue /\ slots' \in Seq(Slot)
        /\ RingLayout' /\ LiveIntact'
    BY <1>5, DequeueIInv DEF Receive
  <2>2. ReadPos(q) \in HDR .. Q_SIZE
    <3>1. ReadPos(q) \in Offset
      BY <1>5, EmptyQueue, HeadOfQueue DEF Receive
    <3> QED BY <3>1, QueueAssumption DEF Offset
  <2>3. TypeOK'
    BY <1>5, <2>1, <2>2, CloneType DEF IInv, TypeOK, Receive
  <2> QED BY <1>5, <2>1, <2>3 DEF IInv, OwnerInv, DispatchOnHead, Receive
<1>6. CASE CloneMsg
  <2>1. TypeOK'
    BY <1>6, CloneType DEF IInv, TypeOK, CloneMsg
  <2> QED BY <1>6, <2>1
          DEF IInv, RingLayout, LiveIntact, OwnerInv, DispatchOnHead, CloneMsg
<1>7. CASE Handle
  <2>1. outstanding' \in [Sender -> Int]
    BY <1>7 DEF IInv, TypeOK, Handle, Release
  <2>2. TypeOK'
    BY <1>7, <2>1 DEF IInv, TypeOK, Handle, ownerVars
  <2> QED BY <1>7, <2>2
          DEF IInv, RingLayout, LiveIntact, OwnerInv, DispatchOnHead, Handle,
              ownerVars
<1>8. CASE DropMsg
  <2>1. /\ q' \in Queue /\ slots' \in Seq(Slot)
        /\ RingLayout' /\ LiveIntact'
    BY <1>8, DequeueIInv DEF DropMsg
  <2>2. outstanding' \in [Sender -> Int]
    BY <1>8 DEF IInv, TypeOK, DropMsg, Release
  <2>3. TypeOK'
    BY <1>8, <2>1, <2>2 DEF IInv, TypeOK, DropMsg, ownerVars
  <2> QED BY <1>8, <2>1, <2>3 DEF IInv, OwnerInv, DispatchOnHead, DropMsg
<1>9. CASE Ignore
  <2>1. TypeOK'
    BY <1>9 DEF IInv, TypeOK, Ignore, ownerVars
  <2> QED BY <1>9, <2>1
          DEF IInv, RingLayout, LiveIntact, OwnerInv, DispatchOnHead, Ignore,
              ownerVars
<1>10. CASE UNCHANGED vars
  BY <1>10 DEF IInv, TypeOK, RingLayout, LiveIntact, OwnerInv,
               DispatchOnHead, vars
<1> QED BY <1>1, <1>2, <1>3, <1>4, <1>5, <1>6, <1>7, <1>8, <1>9, <1>10
        DEF Next, Send, Owner

-----------------------------------------------------------------------------
(* The inductive invariant holds in every reachable state.                 *)
THEOREM Invariance == Spec => []IInv
BY InitIInv, NextIInv, PTL DEF Spec

(* Type correctness: in particular head, tail and rollover_position stay   *)
(* inside the segment and size never falls below zero.                     *)
THEOREM TypeCorrect == Spec => []TypeOK
<1>1. IInv => TypeOK
  BY DEF IInv
<1> QED BY <1>1, Invariance, PTL

(* The live messages lie end to end and apart, after any sequence of       *)
(* Enqueue and Dequeue with any number of rollovers.                       *)
THEOREM LayoutKept == Spec => []RingLayout
<1>1. IInv => RingLayout
  BY DEF IInv
<1> QED BY <1>1, Invariance, PTL

(* No accepted message is ever overwritten before it is taken, and         *)
(* Dequeue always finds the oldest one.                                    *)
THEOREM NoOverwrite == Spec => []LiveIntact
<1>1. IInv => LiveIntact
  BY DEF IInv
<1> QED BY <1>1, Invariance, PTL

(* The tag that the owner switches on, read outside the lock, is the tag   *)
(* of the message it then takes; receive never meets an empty queue.       *)
THEOREM DispatchCorrect == Spec => []DispatchOnHead
<1>1. IInv => DispatchOnHead
  BY DEF IInv, OwnerInv
<1> QED BY <1>1, Invariance, PTL

(* An empty queue refuses no message of at most half the ring.             *)
LEMMA EmptyNotFull == IInv => EmptyAccepts
<1> SUFFICES ASSUME IInv, NEW m \in Msg, slots = << >>,
                    2 * msg_size[m] <= Q_SIZE - HDR + 1
             PROVE  ~IsFull(q, m)
  BY DEF EmptyAccepts
<1>1. q.rollover_position = -1 /\ q.head = q.tail /\ q \in Queue
  BY DEF IInv, TypeOK, RingLayout, Layout, Ends
<1> QED BY <1>1, QueueFacts, SizePositive
        DEF IsFull, HasToRollover, FutureTail

(* So a task that has nothing to do can always be sent such a message.     *)
THEOREM EmptyNeverRefuses == Spec => []EmptyAccepts
BY EmptyNotFull, Invariance, PTL

-----------------------------------------------------------------------------
(* The ring implements the abstract mailbox                                *)

(* The abstract content of the mailbox follows the slots.                  *)
LEMMA BoxOfSlots ==
  ASSUME slots \in Seq(Slot)
  PROVE  /\ box \in Seq(Msg) /\ Len(box) = Len(slots)
         /\ slots = << >> <=> box = << >>
         /\ slots # << >> => Head(box) = slots[1].msg
<1>1. \A i \in 1 .. Len(slots) : slots[i].msg \in Msg
  BY SlotFacts
<1>2. Len(slots) \in Nat /\ box = [i \in 1 .. Len(slots) |-> slots[i].msg]
  BY DEF box
<1>3. box \in Seq(Msg) /\ Len(box) = Len(slots)
  BY <1>1, <1>2
<1>4. slots = << >> <=> Len(slots) = 0
  OBVIOUS
<1>5. box = << >> <=> Len(box) = 0
  BY <1>3
<1>6. slots # << >> => 1 \in 1 .. Len(slots)
  BY <1>2, <1>4
<1>7. slots # << >> => Head(box) = slots[1].msg
  BY <1>2, <1>3, <1>6
<1> QED BY <1>3, <1>4, <1>5, <1>7

(* Appending a slot appends its message.                                   *)
LEMMA BoxAppend ==
  ASSUME slots \in Seq(Slot), NEW s \in Slot, slots' = Append(slots, s)
  PROVE  box' = Append(box, s.msg)
<1>1. /\ Len(slots) \in Nat
      /\ box = [i \in 1 .. Len(slots) |-> slots[i].msg]
      /\ box' = [i \in 1 .. Len(slots') |-> slots'[i].msg]
  BY DEF box
<1>2. /\ Len(slots') = Len(slots) + 1
      /\ slots'[Len(slots) + 1] = s
      /\ \A i \in 1 .. Len(slots) : slots'[i] = slots[i]
  OBVIOUS
<1>3. box \in Seq(Msg) /\ Len(box) = Len(slots) /\ s.msg \in Msg
  BY BoxOfSlots, SlotFacts
<1>4. /\ Append(box, s.msg) \in Seq(Msg)
      /\ Append(box, s.msg) =
           [i \in 1 .. Len(box) + 1 |->
              IF i = Len(box) + 1 THEN s.msg ELSE box[i]]
  BY <1>3
<1> QED BY <1>1, <1>2, <1>3, <1>4

(* Dropping the first slot drops the first message.                        *)
LEMMA BoxTail ==
  ASSUME slots \in Seq(Slot), slots # << >>, slots' = Tail(slots)
  PROVE  box' = Tail(box)
<1>1. /\ Len(slots) \in Nat /\ Len(slots) # 0
      /\ box = [i \in 1 .. Len(slots) |-> slots[i].msg]
      /\ box' = [i \in 1 .. Len(slots') |-> slots'[i].msg]
  BY DEF box
<1>2. /\ Len(slots') = Len(slots) - 1
      /\ \A i \in 1 .. Len(slots) - 1 : slots'[i] = slots[i + 1]
  BY <1>1
<1>3. box \in Seq(Msg) /\ Len(box) = Len(slots) /\ box # << >>
  BY BoxOfSlots
<1>4. Tail(box) = [i \in 1 .. Len(box) - 1 |-> box[i + 1]]
  BY <1>1, <1>3
<1> QED BY <1>1, <1>2, <1>3, <1>4

(* Every step of the ring is a step of the abstract mailbox or changes     *)
(* nothing of it.                                                          *)
LEMMA StepImplements == IInv /\ [Next]_vars => [M!Next]_(M!vars)
<1> SUFFICES ASSUME IInv, [Next]_vars PROVE [M!Next]_(M!vars)
  OBVIOUS
<1> USE DEF M!vars
<1>1. slots \in Seq(Slot)
  BY DEF IInv, TypeOK
<1>2. slots' = slots => box' = box
  BY DEF box
<1>3. ASSUME NEW m \in Msg, SendAccepted(m) PROVE M!Next
  <2> DEFINE new == [at |-> WritePos(q, m), msg |-> m]
  <2>1. new \in Slot
    BY <1>3, EnqueueCases
       DEF Slot, SendAccepted, IInv, TypeOK, RingLayout, Layout
  <2>2. box' = Append(box, m)
    BY <1>1, <1>3, <2>1, BoxAppend DEF SendAccepted
  <2>3. M!Accept(m)
    BY <1>3, <2>2 DEF M!Accept, SendAccepted, ownerVars
  <2> QED BY <2>3 DEF M!Next
<1>4. ASSUME NEW m \in Msg, SendRefused(m) PROVE M!Next
  <2>1. slots # << >> \/ ~(2 * msg_size[m] <= Q_SIZE - HDR + 1)
    BY <1>4, EmptyNotFull DEF EmptyAccepts, SendRefused
  <2>2. box # << >> \/ m \notin {k \in Msg :
                                   2 * msg_size[k] <= Q_SIZE - HDR + 1}
    BY <1>1, <2>1, BoxOfSlots
  <2>3. M!Refuse(m)
    BY <1>2, <1>4, <2>2 DEF M!Refuse, SendRefused, ownerVars
  <2> QED BY <2>3 DEF M!Next
<1>5. CASE Receive
  <2>1. slots # << >> /\ Clone(mem, ReadPos(q)) = slots[1].msg
    BY <1>5, EmptyQueue, HeadOfQueue DEF Receive
  <2>2. box # << >> /\ Head(box) = slots[1].msg /\ box' = Tail(box)
    BY <1>1, <1>5, <2>1, BoxOfSlots, BoxTail DEF Receive
  <2>3. M!Take
    BY <1>5, <2>1, <2>2 DEF M!Take, Receive
  <2> QED BY <2>3 DEF M!Next
<1>6. CASE DropMsg
  <2>1. slots # << >>
    BY <1>6, EmptyQueue DEF DropMsg
  <2>2. box # << >> /\ box' = Tail(box)
    BY <1>1, <1>6, <2>1, BoxOfSlots, BoxTail DEF DropMsg
  <2>3. M!Discard
    BY <1>6, <2>2 DEF M!Discard, DropMsg, ownerVars
  <2> QED BY <2>3 DEF M!Next
<1>7. CASE Peek \/ ReadTag \/ CloneMsg \/ Handle \/ Ignore
  BY <1>2, <1>7 DEF Peek, ReadTag, CloneMsg, Handle, Ignore, ownerVars
<1>8. CASE UNCHANGED vars
  BY <1>2, <1>8 DEF vars
<1> QED BY <1>3, <1>4, <1>5, <1>6, <1>7, <1>8 DEF Next, Send, Owner

(* The byte ring with its rollover is a FIFO queue of whole messages:      *)
(* messages come out in the order in which they were accepted, each once   *)
(* and unchanged, and a send is refused only when messages wait or the     *)
(* message is longer than half of the ring.                                *)
THEOREM RingIsFifo == Spec => Fifo
<1>1. Init => M!Init
  BY BoxOfSlots DEF Init, M!Init
<1>2. Init /\ [][Next]_vars => M!Init /\ [][M!Next]_(M!vars)
  BY <1>1, StepImplements, Invariance, PTL DEF Spec
<1> QED BY <1>2 DEF Spec, Fifo, M!Spec

-----------------------------------------------------------------------------
(* Closed loops                                                            *)
(*                                                                         *)
(* Enqueue protects only what waits in the ring: the message that receive  *)
(* has dequeued and not yet cloned is no longer counted, and a full ring   *)
(* refuses.  When the ring has room for one message more than the senders  *)
(* can have outstanding, all of the largest size, neither does harm.       *)

(* The ring has that room, for messages of at most L bytes.                *)
Roomy(L) ==
  /\ IsFiniteSet(Sender)
  /\ L \in Nat
  /\ \A m \in Msg : msg_size[m] <= L
  /\ (Cardinality(Sender) * Outstanding + 1) * L <= Q_SIZE - HDR

(* The bytes from a slot to the tail, through the rollover if it is ahead. *)
Span(r, at) ==
  IF r.rollover_position = -1 \/ at < r.head
    THEN r.tail - at
    ELSE r.rollover_position - at + r.tail - HDR

(* The messages from each slot on take no more than L bytes each.          *)
Spans(L, r, S) ==
  \A i \in 1 .. Len(S) : Span(r, S[i].at) <= (Len(S) - i + 1) * L

(* The slots with messages of one sender.                                  *)
Mine(S, s) == {S[i] : i \in {j \in 1 .. Len(S) : from[S[j].msg] = s}}

Holding == pc \in {"clone", "handle"}
Held(s) == IF Holding /\ from[inHand] = s THEN 1 ELSE 0

Tokens == {x \in Sender \X (1 .. Outstanding) : x[2] <= outstanding[x[1]]}

(* outstanding counts each sender's messages, in the ring and in hand.     *)
Counted ==
  /\ \A s \in Sender :
       /\ IsFiniteSet(Mine(slots, s))
       /\ outstanding[s] = Cardinality(Mine(slots, s)) + Held(s)
       /\ outstanding[s] <= Outstanding
  /\ Len(slots) + (IF Holding THEN 1 ELSE 0) = Cardinality(Tokens)

(* The message in hand lies, still unharmed, just before the head.         *)
HandKept ==
  /\ Holding => inHand \in Msg
  /\ pc = "clone" => /\ ptr \in Offset
                     /\ ptr + msg_size[inHand] = q.head
                     /\ Intact(mem, ptr, inHand)
  /\ CloneFaithful

ClosedInv(L) ==
  /\ Spans(L, q, slots)
  /\ q.rollover_position # -1 => q.rollover_position + L > Q_SIZE
  /\ Counted
  /\ HandKept

(* One message more takes L bytes more.                                    *)
LEMMA OneMore ==
  ASSUME NEW L \in Nat, NEW k \in Int
  PROVE  (k + 1) * L = k * L + L
OBVIOUS

(* More messages take no less.                                             *)
LEMMA TimesMonotone ==
  ASSUME NEW L \in Nat, NEW j \in Int, NEW k \in Int, j <= k
  PROVE  j * L <= k * L /\ j * L \in Int /\ k * L \in Int
OBVIOUS

(* Slots of one layout lie at different places.                            *)
LEMMA SlotsApart ==
  ASSUME NEW r \in Queue, NEW S \in Seq(Slot), Layout(r, S)
  PROVE  \A i, j \in 1 .. Len(S) : i < j => S[i].at # S[j].at
<1> SUFFICES ASSUME NEW i \in 1 .. Len(S), NEW j \in 1 .. Len(S), i < j
             PROVE  S[i].at # S[j].at
  OBVIOUS
<1>1. /\ S[i].at \in Int /\ SlotEnd(S[i]) \in Int /\ SlotEnd(S[i]) > S[i].at
      /\ S[j].at \in Int
  BY SlotFacts
<1>2. \/ BeforeRollover(r, S[i]) /\ ~BeforeRollover(r, S[j])
      \/ SlotEnd(S[i]) <= S[j].at
  BY DEF Layout, Ordered
<1> QED BY <1>1, <1>2 DEF BeforeRollover

(* Enqueue puts one more message behind every slot.                        *)
LEMMA EnqueueSpans ==
  ASSUME NEW L, Roomy(L), NEW m \in Msg, NEW r \in Queue,
         NEW S \in Seq(Slot), Layout(r, S), ~IsFull(r, m), Spans(L, r, S)
  PROVE  Spans(L, Enqueue(r, m),
               Append(S, [at |-> WritePos(r, m), msg |-> m]))
<1> DEFINE w == WritePos(r, m)
           new == [at |-> w, msg |-> m]
           n == Len(S)
           T == Append(S, new)
           e == Enqueue(r, m)
<1>1. /\ msg_size[m] \in Nat /\ msg_size[m] >= 1 /\ L \in Nat
      /\ msg_size[m] <= L
  BY SizePositive DEF Roomy
<1>2. /\ HDR \in Nat /\ HDR >= 1 /\ Q_SIZE \in Nat
      /\ r.head \in HDR .. Q_SIZE /\ r.tail \in HDR .. Q_SIZE
      /\ r.rollover_position \in {-1} \cup HDR .. Q_SIZE
  BY QueueFacts
<1>3. Positions(r) /\ Regions(r, S) /\ r.rollover_position \in Int
  BY <1>2 DEF Layout
<1>4. /\ e.head = r.head /\ e.tail = w + msg_size[m] /\ w \in Offset
      /\ \/ /\ r.rollover_position = -1 /\ e.rollover_position = -1
            /\ w = r.tail
         \/ /\ r.rollover_position = -1 /\ e.rollover_position = r.tail
            /\ w = HDR /\ HDR + msg_size[m] <= r.head
         \/ /\ r.rollover_position # -1
            /\ e.rollover_position = r.rollover_position
            /\ w = r.tail /\ r.tail + msg_size[m] <= r.head
  BY <1>3, EnqueueCases
<1>5. new \in Slot
  BY <1>4 DEF Slot
<1>6. /\ Len(T) = n + 1 /\ n \in Nat /\ T[n + 1] = new
      /\ \A i \in 1 .. n : T[i] = S[i]
  BY <1>5
<1>7. w \in Int
  BY <1>4, <1>2 DEF Offset
<1>8. Span(e, new.at) <= 1 * L
  BY <1>1, <1>2, <1>4, <1>7 DEF Span
<1>9. ASSUME NEW i \in 1 .. n
      PROVE  Span(e, S[i].at) <= (n + 1 - i + 1) * L
  <2>1. S[i].at \in Int
    BY SlotFacts
  <2>2. r.rollover_position = -1 => r.head <= S[i].at
    BY <1>3 DEF Regions, BeforeRollover
  <2>3. Span(e, S[i].at) = Span(r, S[i].at) + msg_size[m]
    <3>1. CASE r.rollover_position = -1 /\ e.rollover_position = -1
      BY <1>1, <1>2, <1>4, <2>1, <3>1 DEF Span
    <3>2. CASE r.rollover_position = -1 /\ e.rollover_position # -1
      <4>1. /\ e.rollover_position = r.tail /\ e.tail = HDR + msg_size[m]
            /\ e.head = r.head /\ ~(S[i].at < r.head)
        BY <1>2, <1>4, <2>1, <2>2, <3>2
      <4> QED BY <1>1, <1>2, <2>1, <3>2, <4>1 DEF Span
    <3>3. CASE r.rollover_position # -1
      <4>1. /\ e.rollover_position = r.rollover_position
            /\ e.tail = r.tail + msg_size[m] /\ e.head = r.head
        BY <1>4, <3>3
      <4>2. r.rollover_position \in Int /\ r.tail \in Int /\ HDR \in Int
        BY <1>2, <1>3
      <4>3. CASE S[i].at < r.head
        <5>1. S[i].at < e.head
          BY <4>1, <4>3
        <5>2. Span(e, S[i].at) = e.tail - S[i].at
          BY <5>1 DEF Span
        <5>3. Span(r, S[i].at) = r.tail - S[i].at
          BY <4>3 DEF Span
        <5> QED BY <1>1, <2>1, <4>1, <4>2, <5>2, <5>3
      <4>4. CASE ~(S[i].at < r.head)
        <5>1. /\ Span(e, S[i].at) = r.rollover_position - S[i].at
                                     + (r.tail + msg_size[m]) - HDR
              /\ Span(r, S[i].at) = r.rollover_position - S[i].at
                                     + r.tail - HDR
          BY <3>3, <4>1, <4>4 DEF Span
        <5> QED BY <1>1, <2>1, <4>2, <5>1
      <4> QED BY <4>3, <4>4
    <3> QED BY <3>1, <3>2, <3>3
  <2>4. Span(r, S[i].at) <= (n - i + 1) * L /\ Span(r, S[i].at) \in Int
    <3>1. Span(r, S[i].at) \in Int
      <4>1. r.rollover_position \in Int /\ r.tail \in Int /\ HDR \in Int
        BY <1>2, <1>3
      <4> QED BY <2>1, <4>1 DEF Span
    <3> QED BY <3>1 DEF Spans
  <2>5. (n - i + 1 + 1) * L = (n - i + 1) * L + L /\ (n - i + 1) * L \in Int
    BY <1>1, <1>6, OneMore
  <2>6. n + 1 - i + 1 = n - i + 1 + 1
    BY <1>6
  <2>7. Span(e, S[i].at) <= (n - i + 1) * L + L
    BY <1>1, <2>3, <2>4, <2>5
  <2> QED BY <2>5, <2>6, <2>7
<1>10. ASSUME NEW i \in 1 .. Len(T)
       PROVE  Span(e, T[i].at) <= (Len(T) - i + 1) * L
  <2>1. CASE i = n + 1
    <3>1. Len(T) - i + 1 = 1
      BY <1>6, <2>1
    <3> QED BY <1>6, <1>8, <2>1, <3>1
  <2>2. CASE i \in 1 .. n
    BY <1>6, <1>9, <2>2
  <2> QED BY <1>6, <2>1, <2>2
<1> QED BY <1>10 DEF Spans

(* Dequeue leaves the bytes behind the other slots as they are.            *)
LEMMA DequeueSpans ==
  ASSUME NEW L, Roomy(L), NEW r \in Queue, NEW S \in Seq(Slot), NEW mm,
         Layout(r, S), AllIntact(mm, S), S # << >>, Spans(L, r, S)
  PROVE  Spans(L, Dequeue(r, mm), Tail(S))
<1> DEFINE n == Len(S)
           e == Dequeue(r, mm)
<1>1. /\ HDR \in Nat /\ HDR >= 1 /\ Q_SIZE \in Nat
      /\ r.head \in HDR .. Q_SIZE /\ r.tail \in HDR .. Q_SIZE
      /\ r.rollover_position \in {-1} \cup HDR .. Q_SIZE
  BY QueueFacts
<1>2. Positions(r) /\ Ends(r, S) /\ Regions(r, S) /\ Ordered(r, S)
  BY DEF Layout
<1>3. /\ n \in Nat /\ n >= 1 /\ 1 \in 1 .. n /\ Len(Tail(S)) = n - 1
      /\ \A i \in 1 .. n - 1 : Tail(S)[i] = S[i + 1]
  OBVIOUS
<1>4. S[1] \in Slot /\ S[1].at = ReadPos(r)
  BY <1>2, <1>3 DEF Ends
<1>5. e.head = SlotEnd(S[1])
  <2>1. SizeAt(mm, ReadPos(r)) = msg_size[S[1].msg]
    BY <1>3, <1>4, IntactHeader, SlotFacts DEF AllIntact
  <2> QED BY <1>4, <2>1 DEF Dequeue, SlotEnd
<1>6. /\ e.tail = r.tail
      /\ e.rollover_position = IF r.head = r.rollover_position
                                 THEN -1 ELSE r.rollover_position
  BY DEF Dequeue
<1>7. ASSUME NEW i \in 1 .. n - 1
      PROVE  Span(e, S[i + 1].at) <= (n - 1 - i + 1) * L
  <2>1. i + 1 \in 1 .. n /\ S[i + 1] \in Slot /\ 1 < i + 1
    BY <1>3
  <2>2. /\ S[i + 1].at \in Int /\ SlotEnd(S[i + 1]) \in Int
        /\ SlotEnd(S[i + 1]) > S[i + 1].at
        /\ S[1].at \in Int /\ SlotEnd(S[1]) \in Int /\ SlotEnd(S[1]) > S[1].at
    BY <1>4, <2>1, SlotFacts
  <2>3. \/ BeforeRollover(r, S[1]) /\ ~BeforeRollover(r, S[i + 1])
        \/ /\ BeforeRollover(r, S[1]) <=> BeforeRollover(r, S[i + 1])
           /\ SlotEnd(S[1]) <= S[i + 1].at
    BY <1>2, <1>3, <2>1 DEF Ordered
  <2>4. /\ BeforeRollover(r, S[i + 1]) /\ r.rollover_position # -1
             => SlotEnd(S[i + 1]) <= r.rollover_position
        /\ BeforeRollover(r, S[1]) => r.head <= S[1].at
        /\ BeforeRollover(r, S[1]) /\ r.rollover_position # -1
             => SlotEnd(S[1]) <= r.rollover_position
    BY <1>2, <1>3, <2>1 DEF Regions
  <2>5. Span(e, S[i + 1].at) = Span(r, S[i + 1].at)
    <3>1. CASE r.rollover_position = -1
      BY <1>1, <1>5, <1>6, <2>2, <3>1 DEF Span
    <3>2. CASE r.rollover_position # -1 /\ r.head = r.rollover_position
      <4>1. S[i + 1].at < r.head
        BY <1>1, <2>2, <2>4, <3>2 DEF BeforeRollover
      <4> QED BY <1>1, <1>6, <2>2, <3>2, <4>1 DEF Span
    <3>3. CASE r.rollover_position # -1 /\ r.head # r.rollover_position
      <4>1. S[1].at = r.head
        BY <1>4, <3>3 DEF ReadPos
      <4>2. S[i + 1].at < r.head <=> S[i + 1].at < e.head
        BY <1>1, <1>5, <2>2, <2>3, <3>3, <4>1 DEF BeforeRollover
      <4> QED BY <1>1, <1>6, <2>2, <3>3, <4>2 DEF Span
    <3> QED BY <3>1, <3>2, <3>3
  <2>6. Span(r, S[i + 1].at) <= (n - (i + 1) + 1) * L
    BY <2>1 DEF Spans
  <2>7. n - (i + 1) + 1 = n - 1 - i + 1
    BY <1>3
  <2> QED BY <2>5, <2>6, <2>7
<1> QED BY <1>3, <1>7 DEF Spans

(* A message that is appended is one more of its sender.                   *)
LEMMA MineAppend ==
  ASSUME NEW S \in Seq(Slot), NEW x \in Slot, NEW s,
         \A i \in 1 .. Len(S) : S[i].at # x.at
  PROVE  /\ from[x.msg] = s => Mine(Append(S, x), s) = Mine(S, s) \cup {x}
         /\ from[x.msg] # s => Mine(Append(S, x), s) = Mine(S, s)
         /\ x \notin Mine(S, s)
<1> DEFINE n == Len(S)
           T == Append(S, x)
<1>1. /\ n \in Nat /\ Len(T) = n + 1 /\ T[n + 1] = x
      /\ \A i \in 1 .. n : T[i] = S[i]
  OBVIOUS
<1>2. x \notin Mine(S, s)
  BY DEF Mine
<1>3. \A y : y \in Mine(S, s) => y \in Mine(T, s)
  <2> SUFFICES ASSUME NEW i \in 1 .. n, from[S[i].msg] = s
               PROVE  S[i] \in Mine(T, s)
    BY DEF Mine
  <2>1. i \in 1 .. Len(T) /\ T[i] = S[i]
    BY <1>1
  <2> QED BY <2>1 DEF Mine
<1>4. from[x.msg] = s => x \in Mine(T, s)
  <2>1. n + 1 \in 1 .. Len(T) /\ T[n + 1] = x
    BY <1>1
  <2> QED BY <2>1 DEF Mine
<1>5. \A y : y \in Mine(T, s) =>
              y \in Mine(S, s) \/ (y = x /\ from[x.msg] = s)
  <2> SUFFICES ASSUME NEW i \in 1 .. n + 1, from[T[i].msg] = s
               PROVE  T[i] \in Mine(S, s) \/ (T[i] = x /\ from[x.msg] = s)
    BY <1>1 DEF Mine
  <2>1. CASE i = n + 1
    BY <1>1, <2>1
  <2>2. CASE i # n + 1
    <3>1. i \in 1 .. n /\ T[i] = S[i]
      BY <1>1, <2>2
    <3> QED BY <3>1 DEF Mine
  <2> QED BY <2>1, <2>2
<1>6. ASSUME from[x.msg] = s PROVE Mine(T, s) = Mine(S, s) \cup {x}
  <2>1. \A y : y \in Mine(T, s) <=> y \in Mine(S, s) \cup {x}
    BY <1>3, <1>4, <1>5, <1>6
  <2> QED BY <2>1
<1>7. from[x.msg] # s => Mine(T, s) = Mine(S, s)
  BY <1>3, <1>5, Zenon
<1> QED BY <1>2, <1>6, <1>7

(* The message that is taken is one less of its sender.                    *)
LEMMA MineTail ==
  ASSUME NEW S \in Seq(Slot), S # << >>, NEW s,
         \A i \in 2 .. Len(S) : S[i].at # S[1].at
  PROVE  /\ Mine(Tail(S), s) = Mine(S, s) \ {S[1]}
         /\ S[1] \in Mine(S, s) <=> from[S[1].msg] = s
<1> DEFINE n == Len(S)
           T == Tail(S)
<1>1. /\ n \in Nat /\ n >= 1 /\ Len(T) = n - 1
      /\ \A i \in 1 .. n - 1 : T[i] = S[i + 1]
  OBVIOUS
<1>2. S[1] \in Mine(S, s) <=> from[S[1].msg] = s
  <2>1. 1 \in 1 .. n
    BY <1>1
  <2> QED BY <2>1 DEF Mine
<1>3. \A y : y \in Mine(T, s) => y \in Mine(S, s) /\ y # S[1]
  <2> SUFFICES ASSUME NEW i \in 1 .. n - 1, from[T[i].msg] = s
               PROVE  T[i] \in Mine(S, s) /\ T[i] # S[1]
    BY <1>1 DEF Mine
  <2>1. i + 1 \in 1 .. n /\ i + 1 \in 2 .. Len(S) /\ T[i] = S[i + 1]
    BY <1>1
  <2> QED BY <2>1 DEF Mine
<1>4. \A y : y \in Mine(S, s) /\ y # S[1] => y \in Mine(T, s)
  <2> SUFFICES ASSUME NEW i \in 1 .. n, from[S[i].msg] = s, S[i] # S[1]
               PROVE  S[i] \in Mine(T, s)
    BY DEF Mine
  <2>1. i # 1
    OBVIOUS
  <2>2. i - 1 \in 1 .. n - 1 /\ i - 1 + 1 = i
    BY <1>1, <2>1
  <2>3. T[i - 1] = S[i] /\ i - 1 \in 1 .. Len(T)
    BY <1>1, <2>2
  <2>4. i - 1 \in {j \in 1 .. Len(T) : from[T[j].msg] = s}
    BY <2>3
  <2> QED BY <2>3, <2>4 DEF Mine
<1> QED BY <1>2, <1>3, <1>4

(* The tokens are those of a finite grid.                                  *)
LEMMA TokensFinite ==
  ASSUME IsFiniteSet(Sender)
  PROVE  /\ IsFiniteSet(Sender \X (1 .. Outstanding)) /\ IsFiniteSet(Tokens)
         /\ Cardinality(Tokens) \in Nat /\ Cardinality(Sender) \in Nat
         /\ Cardinality(Sender \X (1 .. Outstanding))
              = Cardinality(Sender) * Outstanding
<1>1. Outstanding \in Nat /\ Outstanding >= 1
  BY MailboxAssumption
<1>2. /\ IsFiniteSet(1 .. Outstanding)
      /\ Cardinality(1 .. Outstanding) = Outstanding
  BY <1>1, FS_Interval
<1>3. /\ IsFiniteSet(Sender \X (1 .. Outstanding))
      /\ Cardinality(Sender \X (1 .. Outstanding))
           = Cardinality(Sender) * Outstanding
  BY <1>2, FS_Product
<1>4. Tokens \in SUBSET (Sender \X (1 .. Outstanding))
  BY DEF Tokens
<1>5. IsFiniteSet(Tokens)
  BY <1>3, <1>4, FS_Subset
<1> QED BY <1>3, <1>5, FS_CardinalityType

(* One token more for a sender that may send.                              *)
LEMMA TokensUp ==
  ASSUME IsFiniteSet(Sender), TypeOK, NEW s \in Sender,
         outstanding[s] >= 0, outstanding[s] < Outstanding,
         outstanding' = [outstanding EXCEPT ![s] = @ + 1]
  PROVE  Cardinality(Tokens') = Cardinality(Tokens) + 1
<1>1. /\ outstanding \in [Sender -> Int] /\ Outstanding \in Nat
      /\ outstanding[s] + 1 \in 1 .. Outstanding
  BY MailboxAssumption DEF TypeOK
<1>2. \A u \in Sender : outstanding'[u] = IF u = s THEN outstanding[s] + 1
                                                   ELSE outstanding[u]
  BY <1>1
<1>3. \A u \in Sender, k \in 1 .. Outstanding :
        k <= outstanding'[u] <=> \/ k <= outstanding[u]
                                 \/ u = s /\ k = outstanding[s] + 1
  BY <1>1, <1>2
<1>4. Tokens' = Tokens \cup {<<s, outstanding[s] + 1>>}
  BY <1>1, <1>3 DEF Tokens
<1>5. <<s, outstanding[s] + 1>> \notin Tokens
  BY <1>1 DEF Tokens
<1> QED BY <1>4, <1>5, TokensFinite, FS_AddElement

(* One token less when its message is released.                            *)
LEMMA TokensDown ==
  ASSUME IsFiniteSet(Sender), TypeOK, NEW m \in Msg,
         outstanding[from[m]] >= 1, outstanding[from[m]] <= Outstanding,
         Release(m)
  PROVE  Cardinality(Tokens') = Cardinality(Tokens) - 1
<1> DEFINE s == from[m]
<1>1. /\ outstanding \in [Sender -> Int] /\ Outstanding \in Nat
      /\ s \in Sender /\ outstanding[s] \in 1 .. Outstanding
  BY MailboxAssumption DEF TypeOK
<1>2. \A u \in Sender : outstanding'[u] = IF u = s THEN outstanding[s] - 1
                                                   ELSE outstanding[u]
  BY <1>1 DEF Release
<1>3. \A u \in Sender, k \in 1 .. Outstanding :
        k <= outstanding'[u] <=> /\ k <= outstanding[u]
                                 /\ ~(u = s /\ k = outstanding[s])
  BY <1>1, <1>2
<1>4. Tokens' = Tokens \ {<<s, outstanding[s]>>}
  BY <1>1, <1>3 DEF Tokens
<1>5. <<s, outstanding[s]>> \in Tokens
  BY <1>1 DEF Tokens
<1> QED BY <1>4, <1>5, TokensFinite, FS_RemoveElement

(* The bytes in use: those that wait, and those of a message in hand that  *)
(* has not been cloned.                                                    *)
Live(r) ==
  IF r.rollover_position = -1
    THEN r.tail - r.head
    ELSE r.rollover_position - r.head + r.tail - HDR

HandBytes == IF pc = "clone" THEN msg_size[inHand] ELSE 0

(* The bytes that wait are no more than L for each slot.                   *)
LEMMA LiveBytes ==
  ASSUME NEW L, Roomy(L), IInv, Spans(L, q, slots)
  PROVE  Live(q) \in Int /\ Live(q) <= Len(slots) * L
<1>1. /\ q \in Queue /\ slots \in Seq(Slot) /\ Len(slots) \in Nat
      /\ Positions(q) /\ Ends(q, slots) /\ L \in Nat
  BY DEF IInv, TypeOK, RingLayout, Layout, Roomy
<1>2. /\ HDR \in Int /\ q.head \in Int /\ q.tail \in Int
      /\ q.rollover_position \in Int
      /\ q.rollover_position # -1 => q.rollover_position >= HDR
      /\ HDR >= 1 /\ q.head >= HDR
  BY <1>1, QueueFacts
<1>3. Live(q) \in Int
  BY <1>2 DEF Live
<1>4. CASE slots = << >>
  <2>1. Live(q) = 0
    BY <1>1, <1>2, <1>4 DEF Ends, Live
  <2>2. Len(slots) * L = 0
    BY <1>1, <1>4
  <2> QED BY <1>3, <2>1, <2>2
<1>5. CASE slots # << >>
  <2>1. 1 \in 1 .. Len(slots) /\ slots[1].at = ReadPos(q)
    BY <1>1, <1>5 DEF Ends
  <2>2. Span(q, slots[1].at) <= (Len(slots) - 1 + 1) * L
    BY <2>1 DEF Spans
  <2>3. Len(slots) - 1 + 1 = Len(slots)
    BY <1>1
  <2>4. Span(q, ReadPos(q)) = Live(q)
    <3>1. CASE q.rollover_position = -1
      <4>1. ReadPos(q) = q.head
        BY <1>2, <3>1 DEF ReadPos
      <4> QED BY <3>1, <4>1 DEF Span, Live
    <3>2. CASE q.rollover_position # -1 /\ q.head = q.rollover_position
      <4>1. ReadPos(q) = HDR /\ HDR < q.head
        BY <1>1, <1>2, <3>2 DEF ReadPos, Positions
      <4>2. Span(q, ReadPos(q)) = q.tail - HDR
        BY <4>1 DEF Span
      <4>3. Live(q) = q.rollover_position - q.head + q.tail - HDR
        BY <3>2 DEF Live
      <4> QED BY <1>2, <3>2, <4>2, <4>3
    <3>3. CASE q.rollover_position # -1 /\ q.head # q.rollover_position
      <4>1. ReadPos(q) = q.head /\ ~(q.head < q.head)
        BY <1>2, <3>3 DEF ReadPos
      <4> QED BY <3>3, <4>1 DEF Span, Live
    <3> QED BY <3>1, <3>2, <3>3
  <2> QED BY <1>3, <2>1, <2>2, <2>3, <2>4
<1> QED BY <1>4, <1>5

(* While a sender may send, two messages of the largest size still fit.    *)
LEMMA Room ==
  ASSUME NEW L, Roomy(L), IInv, ClosedInv(L), NEW m \in Msg,
         outstanding[from[m]] < Outstanding
  PROVE  /\ Live(q) \in Int /\ HandBytes \in Nat /\ L \in Nat
         /\ Live(q) + HandBytes + L + L <= Q_SIZE - HDR
<1> DEFINE N == Cardinality(Sender) * Outstanding
           Grid == Sender \X (1 .. Outstanding)
           last == <<from[m], Outstanding>>
           n == Len(slots)
           h == IF Holding THEN 1 ELSE 0
<1>1. /\ L \in Nat /\ IsFiniteSet(Sender) /\ (N + 1) * L <= Q_SIZE - HDR
      /\ Outstanding \in Nat /\ Outstanding >= 1 /\ from[m] \in Sender
      /\ outstanding[from[m]] \in Int /\ n \in Nat
      /\ Q_SIZE \in Nat /\ HDR \in Nat
  BY MailboxAssumption, QueueAssumption DEF Roomy, IInv, TypeOK
<1>2. /\ IsFiniteSet(Grid) /\ Cardinality(Grid) = N /\ N \in Nat
      /\ Cardinality(Tokens) \in Nat
  BY <1>1, TokensFinite
<1>3. last \in Grid /\ last \notin Tokens
  BY <1>1 DEF Tokens
<1>4. Tokens \in SUBSET (Grid \ {last})
  BY <1>3 DEF Tokens
<1>5. /\ IsFiniteSet(Grid \ {last})
      /\ Cardinality(Grid \ {last}) = Cardinality(Grid) - 1
  BY <1>2, <1>3, FS_RemoveElement
<1>6. Cardinality(Tokens) <= N - 1
  <2>1. Cardinality(Tokens) <= Cardinality(Grid \ {last})
    BY <1>4, <1>5, FS_Subset
  <2> QED BY <1>2, <1>5, <2>1
<1>7. n + h = Cardinality(Tokens)
  BY DEF ClosedInv, Counted
<1>8. n + h <= N - 1 /\ n + h \in Nat /\ N - 1 \in Int
  BY <1>2, <1>6, <1>7
<1>9. /\ (n + h) * L <= (N - 1) * L
      /\ (n + h) * L \in Int /\ (N - 1) * L \in Int
  BY <1>1, <1>8, TimesMonotone
<1>10. (N + 1) * L = (N - 1) * L + L + L
  <2>1. (N - 1 + 1) * L = (N - 1) * L + L /\ (N + 1) * L = N * L + L
    BY <1>1, <1>2, OneMore
  <2>2. N - 1 + 1 = N
    BY <1>2
  <2> QED BY <2>1, <2>2
<1>11. Live(q) \in Int /\ Live(q) <= n * L
  BY LiveBytes DEF ClosedInv
<1>12. HandBytes \in Nat /\ HandBytes <= h * L
  <2>1. CASE pc = "clone"
    <3>1. inHand \in Msg /\ h = 1
      BY <2>1 DEF ClosedInv, HandKept, Holding
    <3>2. msg_size[inHand] \in Nat /\ msg_size[inHand] <= L /\ 1 * L = L
      BY <1>1, <3>1, SizePositive DEF Roomy
    <3> QED BY <2>1, <3>1, <3>2 DEF HandBytes
  <2>2. CASE pc # "clone"
    <3>1. h * L >= 0
      <4>1. 0 * L = 0 /\ 1 * L = L
        BY <1>1
      <4> QED BY <1>1, <4>1
    <3> QED BY <2>2, <3>1 DEF HandBytes
  <2> QED BY <2>1, <2>2
<1>13. (n + h) * L = n * L + h * L /\ n * L \in Int /\ h * L \in Int
  <2>1. n * L \in Int
    BY <1>1
  <2>2. CASE h = 1
    BY <1>1, <2>1, <2>2, OneMore
  <2>3. CASE h = 0
    BY <1>1, <2>1, <2>3
  <2> QED BY <2>2, <2>3
<1> QED BY <1>1, <1>9, <1>10, <1>11, <1>12, <1>13

(* So no send is refused.                                                  *)
LEMMA ClosedNotFull ==
  ASSUME NEW L, Roomy(L), IInv, ClosedInv(L), NEW m \in Msg,
         outstanding[from[m]] < Outstanding
  PROVE  ~IsFull(q, m)
<1>1. /\ Live(q) + HandBytes + L + L <= Q_SIZE - HDR
      /\ Live(q) \in Int /\ HandBytes \in Nat /\ L \in Nat
  BY Room
<1>2. /\ q \in Queue /\ Positions(q)
      /\ q.rollover_position # -1 => q.rollover_position + L > Q_SIZE
  BY DEF IInv, TypeOK, RingLayout, Layout, ClosedInv
<1>3. /\ HDR \in Nat /\ Q_SIZE \in Nat /\ q.head \in HDR .. Q_SIZE
      /\ q.tail \in HDR .. Q_SIZE /\ q.rollover_position \in Int
  BY <1>2, QueueFacts
<1>4. msg_size[m] \in Nat /\ msg_size[m] <= L
  BY SizePositive DEF Roomy
<1>5. CASE q.rollover_position = -1
  <2>1. Live(q) = q.tail - q.head
    BY <1>5 DEF Live
  <2>2. q.tail + msg_size[m] <= Q_SIZE \/ HDR + msg_size[m] <= q.head
    BY <1>1, <1>3, <1>4, <2>1
  <2> QED BY <1>3, <1>4, <1>5, <2>2 DEF IsFull, HasToRollover, FutureTail
<1>6. CASE q.rollover_position # -1
  <2>1. Live(q) = q.rollover_position - q.head + q.tail - HDR
    BY <1>6 DEF Live
  <2>2. q.tail + msg_size[m] <= q.head
    BY <1>1, <1>2, <1>3, <1>4, <1>6, <2>1
  <2> QED BY <1>3, <1>4, <1>6, <2>2 DEF IsFull, HasToRollover, FutureTail
<1> QED BY <1>5, <1>6

(* Initially nothing is outstanding.                                       *)
LEMMA InitClosed ==
  ASSUME NEW L, Roomy(L), Init
  PROVE  ClosedInv(L)
<1>1. slots = << >> /\ Len(slots) = 0 /\ ~Holding
  BY DEF Init, Holding
<1>2. Spans(L, q, slots)
  BY <1>1 DEF Spans
<1>3. q.rollover_position = -1
  BY DEF Init, CreateQueue
<1>4. \A s \in Sender : Mine(slots, s) = {} /\ Held(s) = 0
  BY <1>1 DEF Mine, Held
<1>5. Tokens = {}
  BY MailboxAssumption DEF Init, Tokens
<1>6. Counted
  BY <1>1, <1>4, <1>5, FS_EmptySet, MailboxAssumption DEF Init, Counted
<1>7. HandKept
  BY DEF Init, HandKept, CloneFaithful, Holding
<1> QED BY <1>2, <1>3, <1>6, <1>7 DEF ClosedInv

(* An accepted send leaves the message in hand alone.                      *)
LEMMA AcceptHand ==
  ASSUME NEW L, Roomy(L), IInv, ClosedInv(L), NEW m \in Msg, SendAccepted(m)
  PROVE  HandKept'
<1> DEFINE w == WritePos(q, m)
<1>1. UNCHANGED <<pc, ptr, tag, inHand, copy>> /\ mem' = WriteAt(mem, m, w)
      /\ q' = Enqueue(q, m) /\ q'.head = q.head
  BY DEF SendAccepted, ownerVars, Enqueue
<1>2. CASE pc = "clone"
  <2>1. /\ inHand \in Msg /\ ptr \in Offset /\ Intact(mem, ptr, inHand)
        /\ ptr + msg_size[inHand] = q.head
    BY <1>2 DEF ClosedInv, HandKept, Holding
  <2>2. /\ Live(q) + HandBytes + L + L <= Q_SIZE - HDR
        /\ Live(q) \in Int /\ HandBytes = msg_size[inHand] /\ L \in Nat
    BY <1>2, Room DEF SendAccepted, HandBytes
  <2>3. /\ q \in Queue /\ Positions(q) /\ ~IsFull(q, m)
        /\ mem \in [Offset -> Byte \cup {Zero}]
        /\ q.rollover_position # -1 => q.rollover_position + L > Q_SIZE
    BY DEF IInv, TypeOK, RingLayout, Layout, ClosedInv, SendAccepted
  <2>4. /\ HDR \in Nat /\ Q_SIZE \in Nat /\ q.head \in HDR .. Q_SIZE
        /\ q.tail \in HDR .. Q_SIZE /\ q.rollover_position \in Int
        /\ ptr \in Int /\ msg_size[inHand] \in Nat
    BY <2>1, <2>3, QueueFacts, SizePositive, QueueAssumption DEF Offset
  <2>5. msg_size[m] \in Nat /\ msg_size[m] <= L
    BY SizePositive DEF Roomy
  <2>6. /\ w \in Offset /\ w \in Int
        /\ w = FutureTail(q, m) - msg_size[m]
    BY <2>3, <2>4, EnqueueCases DEF Offset, WritePos
  <2>7. ptr + msg_size[inHand] <= w \/ w + msg_size[m] <= ptr
    <3>1. CASE q.rollover_position = -1 /\ ~HasToRollover(q, m)
      <4>1. w = q.tail /\ q.head <= q.tail
        BY <2>3, <2>4, <2>5, <2>6, <3>1 DEF FutureTail, Positions
      <4> QED BY <2>1, <4>1
    <3>2. CASE q.rollover_position = -1 /\ HasToRollover(q, m)
      <4>1. /\ w = HDR /\ Live(q) = q.tail - q.head
            /\ q.tail + msg_size[m] > Q_SIZE
        BY <2>4, <2>5, <2>6, <3>2 DEF FutureTail, HasToRollover, Live
      <4> QED BY <2>1, <2>2, <2>4, <2>5, <4>1
    <3>3. CASE q.rollover_position # -1
      <4>1. /\ w = q.tail
            /\ Live(q) = q.rollover_position - q.head + q.tail - HDR
        BY <2>4, <2>5, <2>6, <3>3 DEF FutureTail, HasToRollover, Live
      <4> QED BY <2>1, <2>2, <2>3, <2>4, <2>5, <3>3, <4>1
    <3> QED BY <3>1, <3>2, <3>3
  <2>8. Intact(mem', ptr, inHand)
    BY <1>1, <2>1, <2>3, <2>6, <2>7, WriteAtFrame
  <2> QED BY <1>1, <1>2, <2>1, <2>8 DEF HandKept, CloneFaithful, Holding
<1>3. CASE pc # "clone"
  BY <1>1, <1>3 DEF ClosedInv, HandKept, CloneFaithful, Holding
<1> QED BY <1>2, <1>3

(* An accepted send.                                                       *)
LEMMA AcceptClosed ==
  ASSUME NEW L, Roomy(L), IInv, ClosedInv(L), NEW m \in Msg, SendAccepted(m)
  PROVE  ClosedInv(L)'
<1> DEFINE w == WritePos(q, m)
           new == [at |-> w, msg |-> m]
           s0 == from[m]
<1>1. /\ q \in Queue /\ slots \in Seq(Slot) /\ Layout(q, slots)
      /\ ~IsFull(q, m) /\ q' = Enqueue(q, m) /\ slots' = Append(slots, new)
      /\ outstanding' = [outstanding EXCEPT ![s0] = @ + 1]
      /\ UNCHANGED <<pc, inHand>> /\ outstanding[s0] < Outstanding
      /\ outstanding \in [Sender -> Int] /\ s0 \in Sender
      /\ Outstanding \in Nat
  BY MailboxAssumption
     DEF IInv, TypeOK, RingLayout, SendAccepted, ownerVars
<1>2. Spans(L, q', slots')
  BY <1>1, EnqueueSpans DEF ClosedInv
<1>3. q'.rollover_position # -1 => q'.rollover_position + L > Q_SIZE
  <2>1. /\ msg_size[m] \in Nat /\ msg_size[m] <= L /\ L \in Nat
        /\ q.tail \in Int /\ Q_SIZE \in Int
    BY <1>1, SizePositive, QueueFacts DEF Roomy
  <2>2. q'.rollover_position =
          IF HasToRollover(q, m) THEN q.tail ELSE q.rollover_position
    BY <1>1 DEF Enqueue
  <2>3. HasToRollover(q, m) => q.tail + L > Q_SIZE
    BY <2>1 DEF HasToRollover
  <2> QED BY <2>2, <2>3 DEF ClosedInv
<1>4. new \in Slot /\ new.at = w /\ new.msg = m
  BY <1>1, EnqueueCases DEF Slot, Layout
<1>5. \A i \in 1 .. Len(slots) : slots[i].at # new.at
  <2>1. q' \in Queue /\ slots' \in Seq(Slot) /\ Layout(q', slots')
    BY <1>1, EnqueueKeepsLayout, EnqueueCases DEF Layout
  <2>2. /\ Len(slots') = Len(slots) + 1 /\ slots'[Len(slots) + 1] = new
        /\ \A i \in 1 .. Len(slots) : slots'[i] = slots[i]
        /\ Len(slots) \in Nat
    BY <1>1, <1>4
  <2>3. \A i, j \in 1 .. Len(slots') : i < j => slots'[i].at # slots'[j].at
    BY <2>1, SlotsApart
  <2> QED BY <2>2, <2>3
<1>6. Counted'
  <2>1. ASSUME NEW s \in Sender
        PROVE  /\ IsFiniteSet(Mine(slots', s))
               /\ outstanding'[s] = Cardinality(Mine(slots', s)) + Held(s)'
               /\ outstanding'[s] <= Outstanding
    <3>1. /\ IsFiniteSet(Mine(slots, s)) /\ Cardinality(Mine(slots, s)) \in Nat
          /\ outstanding[s] = Cardinality(Mine(slots, s)) + Held(s)
          /\ outstanding[s] <= Outstanding /\ outstanding[s] \in Int
      BY <1>1, FS_CardinalityType DEF ClosedInv, Counted
    <3>2. Held(s)' = Held(s) /\ Held(s) \in Nat
      BY <1>1 DEF Held, Holding
    <3>3. CASE s = s0
      <4>1. /\ Mine(slots', s) = Mine(slots, s) \cup {new}
            /\ new \notin Mine(slots, s)
        <5>1. /\ Mine(Append(slots, new), s) = Mine(slots, s) \cup {new}
              /\ new \notin Mine(slots, s)
          <6>1. from[new.msg] = s /\ slots \in Seq(Slot) /\ new \in Slot
            BY <1>1, <1>4, <3>3
          <6> HIDE DEF new
          <6>2. Mine(Append(slots, new), s) = Mine(slots, s) \cup {new}
            BY <1>5, <6>1, MineAppend
          <6>3. new \notin Mine(slots, s)
            BY <1>5, <6>1, MineAppend
          <6> QED BY <6>2, <6>3
        <5> QED BY <1>1, <5>1
      <4>2. /\ IsFiniteSet(Mine(slots', s))
            /\ Cardinality(Mine(slots', s)) = Cardinality(Mine(slots, s)) + 1
        BY <3>1, <4>1, FS_AddElement
      <4>3. outstanding'[s] = outstanding[s] + 1
        BY <1>1, <3>3
      <4> QED BY <1>1, <3>1, <3>2, <3>3, <4>2, <4>3
    <3>4. CASE s # s0
      <4>1. Mine(slots', s) = Mine(slots, s)
        <5>1. Mine(Append(slots, new), s) = Mine(slots, s)
          <6>1. from[new.msg] # s
            BY <1>4, <3>4
          <6> HIDE DEF new
          <6> QED BY <1>1, <1>4, <1>5, <6>1, MineAppend
        <5> QED BY <1>1, <5>1
      <4>2. outstanding'[s] = outstanding[s]
        BY <1>1, <3>4
      <4> QED BY <3>1, <3>2, <4>1, <4>2
    <3> QED BY <3>3, <3>4
  <2>2. outstanding[s0] >= 0
    <3>1. /\ outstanding[s0] = Cardinality(Mine(slots, s0)) + Held(s0)
          /\ Cardinality(Mine(slots, s0)) \in Nat /\ Held(s0) \in Nat
      BY <1>1, FS_CardinalityType DEF ClosedInv, Counted, Held
    <3> QED BY <3>1
  <2>3. Cardinality(Tokens') = Cardinality(Tokens) + 1
    BY <1>1, <2>2, TokensUp DEF Roomy, IInv
  <2>4. Len(slots') = Len(slots) + 1 /\ Len(slots) \in Nat
    BY <1>1, <1>4
  <2>5. Holding' = Holding
    BY <1>1 DEF Holding
  <2>6. Len(slots) + (IF Holding THEN 1 ELSE 0) = Cardinality(Tokens)
    BY DEF ClosedInv, Counted
  <2>7. Len(slots') + (IF Holding' THEN 1 ELSE 0) = Cardinality(Tokens')
    BY <2>3, <2>4, <2>5, <2>6
  <2> QED BY <2>1, <2>7 DEF Counted
<1> QED BY <1>2, <1>3, <1>6, AcceptHand DEF ClosedInv

(* What a Dequeue takes away, for receive and for dropMsg.                 *)
LEMMA TakeClosed ==
  ASSUME NEW L, Roomy(L), IInv, ClosedInv(L), ~IsEmpty(q),
         q' = Dequeue(q, mem), slots' = Tail(slots)
  PROVE  /\ slots # << >> /\ slots[1].msg \in Msg
         /\ Spans(L, q', slots')
         /\ q'.rollover_position # -1 => q'.rollover_position + L > Q_SIZE
         /\ Len(slots) \in Nat /\ Len(slots') = Len(slots) - 1
         /\ q'.head = slots[1].at + msg_size[slots[1].msg]
         /\ \A s \in Sender :
              /\ IsFiniteSet(Mine(slots', s))
              /\ Cardinality(Mine(slots', s)) \in Nat
              /\ Cardinality(Mine(slots, s)) \in Nat
              /\ Cardinality(Mine(slots, s)) =
                   Cardinality(Mine(slots', s))
                     + (IF from[slots[1].msg] = s THEN 1 ELSE 0)
<1>1. /\ q \in Queue /\ slots \in Seq(Slot) /\ Layout(q, slots)
      /\ AllIntact(mem, slots) /\ slots # << >>
  BY EmptyQueue DEF IInv, TypeOK, RingLayout, LiveIntact
<1>2. slots[1].msg \in Msg /\ slots[1].at \in Offset
      /\ ReadPos(q) = slots[1].at /\ Intact(mem, slots[1].at, slots[1].msg)
  BY <1>1, HeadOfQueue
<1>3. Spans(L, q', slots')
  BY <1>1, DequeueSpans DEF ClosedInv
<1>4. q'.rollover_position # -1 => q'.rollover_position + L > Q_SIZE
  BY DEF Dequeue, ClosedInv
<1>5. Len(slots) \in Nat /\ Len(slots') = Len(slots) - 1
  BY <1>1
<1>6. q'.head = slots[1].at + msg_size[slots[1].msg]
  BY <1>2, IntactHeader DEF Dequeue
<1>7. \A i \in 2 .. Len(slots) : slots[i].at # slots[1].at
  <2>1. \A i, j \in 1 .. Len(slots) : i < j => slots[i].at # slots[j].at
    BY <1>1, SlotsApart
  <2> QED BY <1>5, <2>1
<1>8. ASSUME NEW s \in Sender
      PROVE  /\ IsFiniteSet(Mine(slots', s))
             /\ Cardinality(Mine(slots', s)) \in Nat
             /\ Cardinality(Mine(slots, s)) \in Nat
             /\ Cardinality(Mine(slots, s)) =
                  Cardinality(Mine(slots', s))
                    + (IF from[slots[1].msg] = s THEN 1 ELSE 0)
  <2>1. Mine(Tail(slots), s) = Mine(slots, s) \ {slots[1]}
    BY <1>1, <1>7, MineTail
  <2>2. slots[1] \in Mine(slots, s) <=> from[slots[1].msg] = s
    BY <1>1, <1>7, MineTail
  <2>3. IsFiniteSet(Mine(slots, s))
    BY DEF ClosedInv, Counted
  <2>4. /\ IsFiniteSet(Mine(slots', s))
        /\ Cardinality(Mine(slots', s)) =
             IF slots[1] \in Mine(slots, s) THEN Cardinality(Mine(slots, s)) - 1
                                            ELSE Cardinality(Mine(slots, s))
    BY <2>1, <2>3, FS_RemoveElement
  <2>5. /\ Cardinality(Mine(slots, s)) \in Nat
        /\ Cardinality(Mine(slots', s)) \in Nat
    BY <2>3, <2>4, FS_CardinalityType
  <2> QED BY <2>2, <2>4, <2>5
<1> QED BY <1>1, <1>2, <1>3, <1>4, <1>5, <1>6, <1>8

(* receive moves the message from the ring into the owner's hand.          *)
LEMMA ReceiveClosed ==
  ASSUME NEW L, Roomy(L), IInv, ClosedInv(L), Receive
  PROVE  ClosedInv(L)'
<1> DEFINE m == slots[1].msg
<1>1. /\ ~IsEmpty(q) /\ q' = Dequeue(q, mem) /\ slots' = Tail(slots)
      /\ UNCHANGED <<mem, outstanding>> /\ pc = "switch" /\ pc' = "clone"
      /\ ptr' = ReadPos(q) /\ inHand' = Clone(mem, ReadPos(q))
  BY DEF Receive
<1>2. /\ slots # << >> /\ m \in Msg /\ Spans(L, q', slots')
      /\ q'.rollover_position # -1 => q'.rollover_position + L > Q_SIZE
      /\ Len(slots) \in Nat /\ Len(slots') = Len(slots) - 1
      /\ q'.head = slots[1].at + msg_size[m]
  BY <1>1, TakeClosed
<1>3. /\ inHand' = m /\ ptr' = slots[1].at /\ slots[1].at \in Offset
      /\ Intact(mem, slots[1].at, m)
  BY <1>1, <1>2, HeadOfQueue
<1>4. ~Holding /\ Holding'
  BY <1>1 DEF Holding
<1>5. ASSUME NEW s \in Sender
      PROVE  /\ IsFiniteSet(Mine(slots', s))
             /\ outstanding'[s] = Cardinality(Mine(slots', s)) + Held(s)'
             /\ outstanding'[s] <= Outstanding
  <2>1. /\ IsFiniteSet(Mine(slots', s))
        /\ Cardinality(Mine(slots', s)) \in Nat
        /\ Cardinality(Mine(slots, s)) \in Nat
        /\ Cardinality(Mine(slots, s)) =
             Cardinality(Mine(slots', s)) + (IF from[m] = s THEN 1 ELSE 0)
    BY <1>1, TakeClosed
  <2>2. /\ outstanding[s] = Cardinality(Mine(slots, s)) + Held(s)
        /\ outstanding[s] <= Outstanding
    BY DEF ClosedInv, Counted
  <2>3. Held(s) = 0 /\ Held(s)' = IF from[m] = s THEN 1 ELSE 0
    BY <1>3, <1>4 DEF Held
  <2> QED BY <1>1, <2>1, <2>2, <2>3
<1>6. Tokens' = Tokens
  BY <1>1 DEF Tokens
<1>7. Len(slots') + (IF Holding' THEN 1 ELSE 0) = Cardinality(Tokens')
  BY <1>2, <1>4, <1>6 DEF ClosedInv, Counted
<1>8. HandKept'
  BY <1>1, <1>2, <1>3, <1>4 DEF HandKept, CloneFaithful
<1> QED BY <1>2, <1>5, <1>7, <1>8 DEF ClosedInv, Counted

(* dropMsg takes the message off and lets its sender go on.                *)
LEMMA DropClosed ==
  ASSUME NEW L, Roomy(L), IInv, ClosedInv(L), DropMsg
  PROVE  ClosedInv(L)'
<1> DEFINE m == slots[1].msg
<1>1. /\ ~IsEmpty(q) /\ q' = Dequeue(q, mem) /\ slots' = Tail(slots)
      /\ pc = "switch" /\ pc' = "getMsgTag"
      /\ Release(Clone(mem, ReadPos(q)))
  BY DEF DropMsg
<1>2. /\ slots # << >> /\ m \in Msg /\ Spans(L, q', slots')
      /\ q'.rollover_position # -1 => q'.rollover_position + L > Q_SIZE
      /\ Len(slots) \in Nat /\ Len(slots') = Len(slots) - 1
  BY <1>1, TakeClosed
<1>3. Release(m)
  BY <1>1, <1>2, HeadOfQueue
<1>4. ~Holding /\ ~Holding' /\ TypeOK /\ IsFiniteSet(Sender)
      /\ from[m] \in Sender
  BY <1>1, <1>2, MailboxAssumption DEF Holding, IInv, Roomy
<1>5. \A s \in Sender :
        outstanding'[s] = outstanding[s] - (IF from[m] = s THEN 1 ELSE 0)
  BY <1>2, <1>3, <1>4 DEF Release, TypeOK
<1>6. ASSUME NEW s \in Sender
      PROVE  /\ IsFiniteSet(Mine(slots', s))
             /\ outstanding'[s] = Cardinality(Mine(slots', s)) + Held(s)'
             /\ outstanding'[s] <= Outstanding
             /\ from[m] = s => outstanding[s] >= 1
             /\ outstanding[s] <= Outstanding
  <2>1. /\ IsFiniteSet(Mine(slots', s))
        /\ Cardinality(Mine(slots', s)) \in Nat
        /\ Cardinality(Mine(slots, s)) \in Nat
        /\ Cardinality(Mine(slots, s)) =
             Cardinality(Mine(slots', s)) + (IF from[m] = s THEN 1 ELSE 0)
    BY <1>1, TakeClosed
  <2>2. /\ outstanding[s] = Cardinality(Mine(slots, s)) + Held(s)
        /\ outstanding[s] <= Outstanding /\ Outstanding \in Nat
    BY MailboxAssumption DEF ClosedInv, Counted
  <2>3. Held(s) = 0 /\ Held(s)' = 0
    BY <1>4 DEF Held
  <2> QED BY <1>5, <2>1, <2>2, <2>3
<1>7. Cardinality(Tokens') = Cardinality(Tokens) - 1
  BY <1>2, <1>3, <1>4, <1>6, TokensDown
<1>8. Len(slots') + (IF Holding' THEN 1 ELSE 0) = Cardinality(Tokens')
  BY <1>2, <1>4, <1>7 DEF ClosedInv, Counted
<1>9. HandKept'
  BY <1>1 DEF HandKept, CloneFaithful, Holding
<1> QED BY <1>2, <1>6, <1>8, <1>9 DEF ClosedInv, Counted

(* The handler is done with the message in hand.                           *)
LEMMA HandleClosed ==
  ASSUME NEW L, Roomy(L), IInv, ClosedInv(L), Handle
  PROVE  ClosedInv(L)'
<1>1. /\ pc = "handle" /\ pc' = "getMsgTag" /\ Release(copy)
      /\ UNCHANGED <<q, mem, slots, ptr, inHand, copy>>
  BY DEF Handle, ownerVars
<1>2. inHand \in Msg /\ copy = inHand /\ Holding /\ ~Holding'
  BY <1>1 DEF ClosedInv, HandKept, CloneFaithful, Holding
<1>3. /\ TypeOK /\ IsFiniteSet(Sender) /\ from[inHand] \in Sender
      /\ Release(inHand) /\ Outstanding \in Nat /\ Len(slots) \in Nat
  BY <1>1, <1>2, MailboxAssumption DEF IInv, Roomy, TypeOK
<1>4. \A s \in Sender :
        outstanding'[s] = outstanding[s] - (IF from[inHand] = s THEN 1 ELSE 0)
  BY <1>2, <1>3 DEF Release, TypeOK
<1>5. ASSUME NEW s \in Sender
      PROVE  /\ IsFiniteSet(Mine(slots', s))
             /\ outstanding'[s] = Cardinality(Mine(slots', s)) + Held(s)'
             /\ outstanding'[s] <= Outstanding
             /\ from[inHand] = s => outstanding[s] >= 1
             /\ outstanding[s] <= Outstanding
  <2>1. /\ IsFiniteSet(Mine(slots, s)) /\ Cardinality(Mine(slots, s)) \in Nat
        /\ outstanding[s] = Cardinality(Mine(slots, s)) + Held(s)
        /\ outstanding[s] <= Outstanding
    BY FS_CardinalityType DEF ClosedInv, Counted
  <2>2. Held(s)' = 0 /\ Held(s) = IF from[inHand] = s THEN 1 ELSE 0
    BY <1>2 DEF Held
  <2> QED BY <1>1, <1>3, <1>4, <2>1, <2>2
<1>6. Cardinality(Tokens') = Cardinality(Tokens) - 1
  BY <1>2, <1>3, <1>5, TokensDown
<1>7. Len(slots') + (IF Holding' THEN 1 ELSE 0) = Cardinality(Tokens')
  BY <1>1, <1>2, <1>3, <1>6 DEF ClosedInv, Counted
<1>8. HandKept'
  BY <1>1 DEF HandKept, CloneFaithful, Holding
<1> QED BY <1>1, <1>5, <1>7, <1>8 DEF ClosedInv, Counted

(* Every step of a closed loop keeps the invariant.                        *)
LEMMA NextClosed ==
  ASSUME NEW L, Roomy(L), IInv, ClosedInv(L), [Next]_vars
  PROVE  ClosedInv(L)'
<1>1. ASSUME NEW m \in Msg, SendAccepted(m) PROVE ClosedInv(L)'
  BY <1>1, AcceptClosed
<1>2. ASSUME NEW m \in Msg, SendRefused(m) PROVE ClosedInv(L)'
  BY <1>2, ClosedNotFull DEF SendRefused
<1>3. CASE Receive
  BY <1>3, ReceiveClosed
<1>4. CASE DropMsg
  BY <1>4, DropClosed
<1>5. CASE Handle
  BY <1>5, HandleClosed
<1>6. CASE CloneMsg
  <2>1. /\ pc = "clone" /\ pc' = "handle" /\ copy' = Clone(mem, ptr)
        /\ UNCHANGED <<q, mem, slots, outstanding, ptr, inHand>>
    BY <1>6 DEF CloneMsg
  <2>2. inHand \in Msg /\ copy' = inHand
    BY <2>1, IntactHeader DEF ClosedInv, HandKept, Holding
  <2>3. Holding' = Holding /\ Tokens' = Tokens
    BY <2>1 DEF Holding, Tokens
  <2>4. \A s : Held(s)' = Held(s)
    BY <2>1, <2>3 DEF Held
  <2>5. Counted'
    BY <2>1, <2>3, <2>4 DEF ClosedInv, Counted
  <2>6. HandKept'
    BY <2>1, <2>2 DEF HandKept, CloneFaithful
  <2> QED BY <2>1, <2>5, <2>6 DEF ClosedInv
<1>7. CASE Peek \/ ReadTag \/ Ignore \/ UNCHANGED vars
  <2>1. /\ UNCHANGED <<q, mem, slots, outstanding, inHand, copy>>
        /\ \/ ~Holding /\ ~Holding'
           \/ UNCHANGED <<pc, ptr>>
    BY <1>7 DEF Peek, ReadTag, Ignore, ownerVars, vars, Holding
  <2>2. Holding' = Holding /\ Tokens' = Tokens
    BY <2>1 DEF Holding, Tokens
  <2>3. \A s : Held(s)' = Held(s)
    BY <2>1, <2>2 DEF Held
  <2>4. Counted'
    BY <2>1, <2>2, <2>3 DEF ClosedInv, Counted
  <2>5. HandKept'
    BY <2>1 DEF ClosedInv, HandKept, CloneFaithful, Holding
  <2> QED BY <2>1, <2>4, <2>5 DEF ClosedInv
<1> QED BY <1>1, <1>2, <1>3, <1>4, <1>5, <1>6, <1>7 DEF Next, Send, Owner

(* In a roomy ring the invariant of the closed loop holds throughout.      *)
THEOREM ClosedInvariance ==
  ASSUME NEW CONSTANT L, Roomy(L)
  PROVE  Spec => []ClosedInv(L)
<1>1. Init => ClosedInv(L)
  BY InitClosed
<1>2. IInv /\ ClosedInv(L) /\ [Next]_vars => ClosedInv(L)'
  BY NextClosed
<1> QED BY <1>1, <1>2, Invariance, PTL DEF Spec

(* The handler gets the message that was dequeued: although receive clones *)
(* it after the unlock, no send overwrites it before, when each sender has *)
(* a bounded number of messages here and the ring has room for one more.   *)
THEOREM CloneIsFaithful ==
  ASSUME NEW CONSTANT L, Roomy(L)
  PROVE  Spec => []CloneFaithful
<1>1. ClosedInv(L) => CloneFaithful
  BY DEF ClosedInv, HandKept
<1> QED BY <1>1, ClosedInvariance, PTL

(* And no sender that keeps to its bound is ever refused, wherever head    *)
(* and tail lie: no message is lost.                                       *)
THEOREM ClosedNeverRefuses ==
  ASSUME NEW CONSTANT L, Roomy(L)
  PROVE  Spec => []NeverRefused
<1>1. IInv /\ ClosedInv(L) => NeverRefused
  BY ClosedNotFull DEF NeverRefused
<1> QED BY <1>1, ClosedInvariance, Invariance, PTL

-----------------------------------------------------------------------------
(* The System object.                                                      *)

TaskPlace == {"none", "createMsgQ", "notify", "wait", "asleep", "receive"}
MainPlace == {"start", "init", "running", "join", "unlink", "done"}

(* What the types of the fields in use must say, without their bounds.     *)
Types ==
  /\ nextTaskID \in Nat
  /\ taskID \in [Task -> Int]
  /\ place \in [Task -> TaskPlace]
  /\ up \in [Process -> BOOLEAN]
  /\ main \in [pc : MainPlace, i : Nat]
  /\ linked \subseteq Nat
  /\ early \subseteq Nat

(* Before the fields of the segment are set, nothing uses it.              *)
Creating ==
  main.pc \in {"start", "init"} =>
    /\ main.pc = "start" => linked = {}
    /\ linked \subseteq {0}
    /\ early = {}
    /\ \A p \in Process : ~up[p]
    /\ \A t \in Task : taskID[t] = -1 /\ place[t] = "none"

IDs ==
  /\ main.pc \notin {"start", "init"} => nextTaskID >= 1
  /\ \A t \in Task : taskID[t] # -1 => taskID[t] \in 1 .. nextTaskID - 1
  /\ \A t \in Task : taskID[t] = -1 <=> place[t] = "none"
  /\ UniqueTaskIDs

(* Names of queues, and those that are still to be created.                *)
Names ==
  /\ \A n \in linked \cup early : n # 0 => n < nextTaskID
  /\ 0 \notin early
  /\ \A t \in Task :
       place[t] = "createMsgQ" => taskID[t] \notin linked \cup early

Unlinking ==
  /\ main.pc \in {"start", "init", "running"} => early = {}
  /\ main.pc = "unlink" =>
       main.i >= 1 /\ \A n \in early : n < main.i => n \notin linked
  /\ DestroyCleans

SysInv == Types /\ Creating /\ IDs /\ Names /\ Unlinking

-----------------------------------------------------------------------------
(* No task exists and nothing is linked when the creator starts.           *)
LEMMA SysInit == SystemInit => SysInv
<1> SUFFICES ASSUME SystemInit PROVE SysInv
  OBVIOUS
<1>1. Types
  BY SystemAssumption DEF SystemInit, Types, TaskPlace, MainPlace
<1>2. Creating
  BY SystemAssumption DEF SystemInit, Creating
<1>3. IDs
  BY SystemAssumption DEF SystemInit, IDs, UniqueTaskIDs, HasID
<1>4. Names
  BY SystemAssumption DEF SystemInit, Names
<1>5. Unlinking
  BY SystemAssumption DEF SystemInit, Unlinking, DestroyCleans
<1> QED BY <1>1, <1>2, <1>3, <1>4, <1>5 DEF SysInv

(* SysInv speaks of nothing else than the variables named here.            *)
LEMMA SysFrame ==
  ASSUME SysInv,
         UNCHANGED <<linked, nextTaskID, up, place, taskID, main, early>>
  PROVE  SysInv'
BY DEF SysInv, Types, Creating, IDs, Names, Unlinking, UniqueTaskIDs, HasID,
       DestroyCleans

(* Every step of every thread keeps SysInv.  The steps that matter are     *)
(* getNextTaskID, whose ID is new because IDs and names are all below      *)
(* nextTaskID, and createMsgQ, which can run while destroy removes names.  *)
LEMMA SysNext ==
  ASSUME ~EarlyAcquire, SysInv, [SystemNext]_systemVars
  PROVE  SysInv'
<1> USE SystemAssumption
<1>0. Types /\ Creating /\ IDs /\ Names /\ Unlinking
  BY DEF SysInv
<1>1. CASE OpenSegment
  <2>1. Types'
    BY <1>0, <1>1 DEF OpenSegment, taskVars, Types, TaskPlace, MainPlace
  <2>2. Creating'
    BY <1>0, <1>1 DEF OpenSegment, taskVars, Creating
  <2>3. IDs'
    BY <1>0, <1>1 DEF OpenSegment, taskVars, IDs, UniqueTaskIDs, HasID
  <2>4. Names'
    BY <1>0, <1>1 DEF OpenSegment, taskVars, Types, Creating, Names
  <2>5. Unlinking'
    BY <1>0, <1>1 DEF OpenSegment, taskVars, Unlinking, DestroyCleans
  <2> QED BY <2>1, <2>2, <2>3, <2>4, <2>5 DEF SysInv
<1>2. CASE InitializeData
  <2>1. Types'
    BY <1>0, <1>2 DEF InitializeData, taskVars, Types, TaskPlace, MainPlace
  <2>2. Creating'
    BY <1>0, <1>2 DEF InitializeData, taskVars, Creating
  <2>3. IDs'
    BY <1>0, <1>2
       DEF InitializeData, taskVars, Types, Creating, IDs,
           UniqueTaskIDs, HasID
  <2>4. Names'
    BY <1>0, <1>2 DEF InitializeData, taskVars, Types, Creating, Names
  <2>5. Unlinking'
    BY <1>0, <1>2 DEF InitializeData, taskVars, Unlinking, DestroyCleans
  <2> QED BY <2>1, <2>2, <2>3, <2>4, <2>5 DEF SysInv
<1>3. ASSUME NEW p \in Process, System_acquire(p) PROVE SysInv'
  <2>1. Types'
    BY <1>0, <1>3 DEF System_acquire, sharedVars, taskVars, Types
  <2>2. Creating'
    BY <1>0, <1>3 DEF System_acquire, sharedVars, taskVars, Creating
  <2>3. IDs'
    BY <1>0, <1>3
       DEF System_acquire, sharedVars, taskVars, IDs, UniqueTaskIDs,
           HasID
  <2>4. Names'
    BY <1>0, <1>3 DEF System_acquire, sharedVars, taskVars, Names
  <2>5. Unlinking'
    BY <1>0, <1>3
       DEF System_acquire, sharedVars, taskVars, Unlinking,
           DestroyCleans
  <2> QED BY <2>1, <2>2, <2>3, <2>4, <2>5 DEF SysInv
<1>4. ASSUME NEW t \in Task, getNextTaskID(t) PROVE SysInv'
  <2>1. Types'
    BY <1>0, <1>4 DEF getNextTaskID, Types, TaskPlace
  <2>2. Creating'
    BY <1>0, <1>4 DEF getNextTaskID, Creating
  <2>3. main.pc \notin {"start", "init"}
    BY <1>0, <1>4 DEF getNextTaskID, Creating
  <2>4. \A u \in Task : /\ taskID'[u] = IF u = t THEN nextTaskID ELSE taskID[u]
                        /\ place'[u] = IF u = t THEN "createMsgQ" ELSE place[u]
    BY <1>0, <1>4 DEF getNextTaskID, Types
  <2>5. nextTaskID' = nextTaskID + 1 /\ nextTaskID \in Nat /\ nextTaskID >= 1
    BY <1>0, <1>4, <2>3 DEF getNextTaskID, Types, IDs
  <2>6. linked' = linked /\ early' = early /\ main' = main
    BY <1>4 DEF getNextTaskID
  <2>7. IDs'
    <3>1. \A u \in Task :
            taskID'[u] # -1 => taskID'[u] \in 1 .. nextTaskID' - 1
      BY <1>0, <2>4, <2>5 DEF Types, IDs
    <3>2. \A u \in Task : taskID'[u] = -1 <=> place'[u] = "none"
      BY <1>0, <2>4, <2>5 DEF Types, IDs
    <3>3. UniqueTaskIDs'
      BY <1>0, <2>4, <2>5 DEF Types, IDs, UniqueTaskIDs, HasID
    <3> QED BY <2>5, <3>1, <3>2, <3>3 DEF IDs
  <2>8. Names'
    <3>1. \A n \in linked \cup early : n # 0 => n < nextTaskID + 1
      BY <1>0, <2>5 DEF Types, Names
    <3>2. nextTaskID \notin linked \cup early
      BY <1>0, <2>5 DEF Types, Names
    <3>3. \A u \in Task :
            place'[u] = "createMsgQ" => taskID'[u] \notin linked \cup early
      BY <1>0, <2>4, <3>2 DEF Names
    <3> QED BY <1>0, <2>5, <2>6, <3>1, <3>3 DEF Names
  <2>9. Unlinking'
    BY <1>0, <2>6 DEF Unlinking, DestroyCleans
  <2> QED BY <2>1, <2>2, <2>7, <2>8, <2>9 DEF SysInv
<1>5. ASSUME NEW t \in Task, createMsgQ(t) PROVE SysInv'
  <2>1. /\ taskID[t] \in 1 .. nextTaskID - 1
        /\ taskID[t] \notin linked \cup early
        /\ main.pc \notin {"start", "init"}
    BY <1>0, <1>5 DEF createMsgQ, Creating, IDs, Names
  <2>2. /\ linked' = linked \cup {taskID[t]}
        /\ UNCHANGED <<nextTaskID, up, taskID, main, early>>
        /\ \A u \in Task : place'[u] = IF u = t THEN "notify" ELSE place[u]
    BY <1>0, <1>5 DEF createMsgQ, Types
  <2>3. Types'
    <3>1. linked' \subseteq Nat
      <4>1. taskID[t] \in Nat /\ linked \subseteq Nat
        BY <1>0, <2>1 DEF Types
      <4> QED BY <2>2, <4>1
    <3>2. place' \in [Task -> TaskPlace]
      BY <1>0, <1>5 DEF createMsgQ, Types, TaskPlace
    <3> QED BY <1>0, <2>2, <3>1, <3>2 DEF Types
  <2>4. Creating'
    BY <2>1, <2>2 DEF Creating
  <2>5. IDs'
    <3>1. \A u \in Task : place'[u] = "none" <=> place[u] = "none"
      BY <1>5, <2>2 DEF createMsgQ
    <3> QED BY <1>0, <2>2, <3>1 DEF IDs, UniqueTaskIDs, HasID
  <2>6. Names'
    <3>1. \A n \in linked' \cup early' : n # 0 => n < nextTaskID'
      BY <1>0, <2>1, <2>2 DEF Types, Names
    <3>2. ASSUME NEW u \in Task, place'[u] = "createMsgQ"
          PROVE  taskID'[u] \notin linked' \cup early'
      <4>1. u # t /\ place[u] = "createMsgQ"
        BY <2>2, <3>2
      <4>2. taskID[u] # taskID[t]
        BY <1>0, <1>5, <4>1 DEF createMsgQ, IDs, UniqueTaskIDs, HasID
      <4> QED BY <1>0, <2>2, <4>1, <4>2 DEF Names
    <3> QED BY <1>0, <2>2, <3>1, <3>2 DEF Names
  <2>7. Unlinking'
    <3>1. \A n \in early \cup {0} : n \in linked' => n \in linked
      BY <2>1, <2>2
    <3> QED BY <1>0, <2>2, <3>1 DEF Unlinking, DestroyCleans
  <2> QED BY <2>3, <2>4, <2>5, <2>6, <2>7 DEF SysInv
<1>6. ASSUME NEW t \in Task, TaskStep(t) PROVE SysInv'
  <2>1. Types'
    BY <1>0, <1>6
       DEF TaskStep, message_immediate, cond_wait, receive, sharedVars,
           Types, TaskPlace, MainPlace
  <2>2. Creating'
    BY <1>0, <1>6
       DEF TaskStep, message_immediate, cond_wait, receive, sharedVars,
           Creating
  <2>3. IDs'
    BY <1>0, <1>6
       DEF TaskStep, message_immediate, cond_wait, receive, sharedVars,
           Types, IDs, UniqueTaskIDs, HasID
  <2>4. Names'
    BY <1>0, <1>6
       DEF TaskStep, message_immediate, cond_wait, receive, sharedVars,
           Types, Names
  <2>5. Unlinking'
    BY <1>0, <1>6
       DEF TaskStep, message_immediate, cond_wait, receive, sharedVars,
           Unlinking, DestroyCleans
  <2> QED BY <2>1, <2>2, <2>3, <2>4, <2>5 DEF SysInv
<1>7. ASSUME NEW p \in Process, NEW t \in Task, send(p, t) PROVE SysInv'
  BY <1>7, SysFrame DEF send, taskVars
<1>8. CASE LoopWhile \/ LoopMax \/ LoopCheck \/ LoopSleep
  BY <1>8, SysFrame
     DEF LoopWhile, LoopMax, LoopCheck, LoopSleep, sharedVars, taskVars
<1>9. CASE LoopSignal
  <2>1. Types'
    BY <1>0, <1>9 DEF LoopSignal, sharedVars, Types, TaskPlace, MainPlace
  <2>2. Creating'
    BY <1>0, <1>9 DEF LoopSignal, sharedVars, Creating
  <2>3. IDs'
    BY <1>0, <1>9 DEF LoopSignal, sharedVars, IDs, UniqueTaskIDs, HasID
  <2>4. Names'
    BY <1>0, <1>9 DEF LoopSignal, sharedVars, Names
  <2>5. Unlinking'
    BY <1>0, <1>9 DEF LoopSignal, sharedVars, Unlinking, DestroyCleans
  <2> QED BY <2>1, <2>2, <2>3, <2>4, <2>5 DEF SysInv
<1>10. CASE DestroySignal
  <2>1. Types'
    BY <1>0, <1>10 DEF DestroySignal, taskVars, Types, TaskPlace, MainPlace
  <2>2. Creating'
    BY <1>0, <1>10 DEF DestroySignal, taskVars, Creating
  <2>3. IDs'
    BY <1>0, <1>10 DEF DestroySignal, taskVars, IDs, UniqueTaskIDs, HasID
  <2>4. Names'
    BY <1>0, <1>10 DEF DestroySignal, taskVars, Names
  <2>5. Unlinking'
    BY <1>0, <1>10 DEF DestroySignal, taskVars, Unlinking, DestroyCleans
  <2> QED BY <2>1, <2>2, <2>3, <2>4, <2>5 DEF SysInv
<1>11. CASE DestroyJoin
  <2>1. Types'
    BY <1>0, <1>11
       DEF DestroyJoin, sharedVars, taskVars, Types, TaskPlace,
           MainPlace
  <2>2. Creating'
    BY <1>0, <1>11 DEF DestroyJoin, sharedVars, taskVars, Creating
  <2>3. IDs'
    BY <1>0, <1>11
       DEF DestroyJoin, sharedVars, taskVars, IDs, UniqueTaskIDs, HasID
  <2>4. Names'
    BY <1>0, <1>11 DEF DestroyJoin, sharedVars, taskVars, Names
  <2>5. Unlinking'
    BY <1>0, <1>11
       DEF DestroyJoin, sharedVars, taskVars, Types, IDs, Names,
           Unlinking, DestroyCleans
  <2> QED BY <2>1, <2>2, <2>3, <2>4, <2>5 DEF SysInv
<1>12. CASE DestroyUnlink
  <2>1. Types'
    BY <1>0, <1>12 DEF DestroyUnlink, taskVars, Types
  <2>2. Creating'
    BY <1>0, <1>12 DEF DestroyUnlink, taskVars, Creating
  <2>3. IDs'
    BY <1>0, <1>12 DEF DestroyUnlink, taskVars, IDs, UniqueTaskIDs, HasID
  <2>4. Names'
    BY <1>0, <1>12 DEF DestroyUnlink, taskVars, Names
  <2>5. Unlinking'
    BY <1>0, <1>12
       DEF DestroyUnlink, taskVars, Types, Unlinking, DestroyCleans
  <2> QED BY <2>1, <2>2, <2>3, <2>4, <2>5 DEF SysInv
<1>13. CASE DestroyEnd
  <2>1. Types'
    BY <1>0, <1>13 DEF DestroyEnd, taskVars, Types, TaskPlace, MainPlace
  <2>2. Creating'
    BY <1>0, <1>13 DEF DestroyEnd, taskVars, Creating
  <2>3. IDs'
    BY <1>0, <1>13 DEF DestroyEnd, taskVars, IDs, UniqueTaskIDs, HasID
  <2>4. Names'
    BY <1>0, <1>13 DEF DestroyEnd, taskVars, Names
  <2>5. Unlinking'
    BY <1>0, <1>13
       DEF DestroyEnd, taskVars, Types, IDs, Names, Unlinking,
           DestroyCleans
  <2> QED BY <2>1, <2>2, <2>3, <2>4, <2>5 DEF SysInv
<1>14. CASE UNCHANGED systemVars
  BY <1>14, SysFrame DEF systemVars
<1> QED BY <1>1, <1>2, <1>3, <1>4, <1>5, <1>6, <1>7, <1>8, <1>9, <1>10, <1>11,
        <1>12, <1>13, <1>14
       DEF SystemNext, Loop, Destroy

-----------------------------------------------------------------------------
(* SysInv holds in every reachable state of a system that nobody acquires  *)
(* before it has been created.                                             *)
THEOREM SystemInvariance == ASSUME ~EarlyAcquire PROVE SystemSpec => []SysInv
<1>1. SystemInit => SysInv
  BY SysInit
<1>2. SysInv /\ [SystemNext]_systemVars => SysInv'
  BY SysNext
<1> QED BY <1>1, <1>2, PTL DEF SystemSpec

(* getNextTaskID gives no ID twice, to any number of tasks in any number   *)
(* of processes, while the system is also being destroyed.                 *)
THEOREM IDsAreUnique == ASSUME ~EarlyAcquire PROVE SystemSpec => []UniqueTaskIDs
<1>1. SysInv => UniqueTaskIDs
  BY DEF SysInv, IDs
<1> QED BY <1>1, SystemInvariance, PTL

(* destroy leaves no segment of a queue that existed when it was called,   *)
(* whatever tasks are created while it runs.                               *)
THEOREM DestroyIsComplete ==
  ASSUME ~EarlyAcquire PROVE SystemSpec => []DestroyCleans
<1>1. SysInv => DestroyCleans
  BY DEF SysInv, Unlinking
<1> QED BY <1>1, SystemInvariance, PTL

-----------------------------------------------------------------------------
(* Types with their bounds                                                 *)

Named == {t \in Task : taskID[t] # -1}

(* nextTaskID counts the tasks that have an ID; the index of the thread    *)
(* that wakes sleepers and that of destroy stay below it.                  *)
Bounds ==
  /\ nextTaskID <= 1 + Cardinality(Named)
  /\ main.i <= nextTaskID
  /\ loop.max <= nextTaskID /\ loop.i <= loop.max
  /\ loop.pc = "signal" => loop.i < loop.max

TypeInv == SystemTypeOK /\ Bounds

(* An ID given out, and the next one, are numbers the arrays of the model  *)
(* have.                                                                   *)
LEMMA IDRange ==
  ASSUME SysInv, TypeInv
  PROVE  /\ IsFiniteSet(Named) /\ Cardinality(Named) \in Nat
         /\ Cardinality(Named) <= Cardinality(Task)
         /\ Cardinality(Task) \in Nat /\ MAX_TASK \in Nat /\ MAX_TASK >= 1
         /\ nextTaskID \in Nat
         /\ 0 .. nextTaskID \subseteq AnyID
         /\ \A t \in Task : taskID[t] # -1 => taskID[t] \in 1 .. nextTaskID - 1
<1>1. Named \subseteq Task
  BY DEF Named
<1>2. /\ IsFiniteSet(Named) /\ Cardinality(Named) <= Cardinality(Task)
      /\ Cardinality(Named) \in Nat /\ Cardinality(Task) \in Nat
  BY <1>1, SystemAssumption, FS_Subset, FS_CardinalityType
<1>3. /\ MAX_TASK \in Nat /\ MAX_TASK >= 1 /\ nextTaskID \in Nat
      /\ nextTaskID <= 1 + Cardinality(Named)
      /\ \A t \in Task : taskID[t] # -1 => taskID[t] \in 1 .. nextTaskID - 1
  BY SystemAssumption DEF SysInv, Types, IDs, TypeInv, Bounds
<1>4. 0 .. nextTaskID \subseteq AnyID
  BY <1>2, <1>3 DEF AnyID
<1> QED BY <1>2, <1>3, <1>4

(* Initially.                                                              *)
LEMMA TypeInit == SystemInit => TypeInv
<1> SUFFICES ASSUME SystemInit PROVE TypeInv
  OBVIOUS
<1>1. Cardinality(Task) \in Nat /\ MAX_TASK \in Nat /\ MaxMsg \in Nat
  BY SystemAssumption, FS_CardinalityType
<1>2. 0 \in AnyID
  BY <1>1 DEF AnyID
<1>3. SystemTypeOK
  BY <1>1, <1>2, SystemAssumption DEF SystemInit, SystemTypeOK
<1>4. Named = {} /\ Cardinality({}) = 0
  BY FS_EmptySet DEF SystemInit, Named
<1>5. Bounds
  BY <1>4 DEF SystemInit, Bounds
<1> QED BY <1>3, <1>5 DEF TypeInv

(* The steps of the tasks: getNextTaskID is the only one that moves        *)
(* nextTaskID, and it gives a name to one more task.                       *)
LEMMA TypeTasks ==
  ASSUME SysInv, TypeInv, NEW t \in Task,
         getNextTaskID(t) \/ createMsgQ(t) \/ TaskStep(t)
  PROVE  TypeInv'
<1> USE SystemAssumption
<1>0. /\ SystemTypeOK /\ Bounds /\ Types /\ IDs /\ Creating
  BY DEF TypeInv, SysInv
<1>1. CASE getNextTaskID(t)
  <2>1. main.pc \notin {"start", "init"} /\ nextTaskID >= 1 /\ taskID[t] = -1
    BY <1>0, <1>1 DEF getNextTaskID, Creating, IDs
  <2>2. \A u \in Task : taskID'[u] = IF u = t THEN nextTaskID ELSE taskID[u]
    BY <1>0, <1>1 DEF getNextTaskID, Types
  <2>3. Named' = Named \cup {t} /\ t \notin Named
    BY <2>1, <2>2, <1>0 DEF Named, Types
  <2>4. Cardinality(Named') = Cardinality(Named) + 1
    BY <2>3, IDRange, FS_AddElement
  <2>5. Named' \subseteq Task
    BY DEF Named
  <2>6. Cardinality(Named') <= Cardinality(Task)
    BY <2>5, FS_Subset
  <2>7. nextTaskID \in AnyID /\ nextTaskID' \in AnyID
    BY <1>0, <1>1, <2>4, <2>6, IDRange DEF getNextTaskID, Bounds, AnyID
  <2>8. SystemTypeOK'
    BY <1>0, <1>1, <2>7 DEF getNextTaskID, SystemTypeOK
  <2>9. Bounds'
    <3>1. loop.i \in Int /\ loop.max \in Int /\ main.i \in Int
      BY <1>0, IDRange DEF SystemTypeOK, AnyID
    <3> QED BY <1>0, <1>1, <2>4, <3>1, IDRange DEF getNextTaskID, Bounds
  <2> QED BY <2>8, <2>9 DEF TypeInv
<1>2. CASE createMsgQ(t)
  <2>1. taskID[t] \in AnyID
    <3>1. taskID[t] # -1
      BY <1>0, <1>2 DEF createMsgQ, IDs
    <3> QED BY <3>1, IDRange
  <2>2. MaxMsg \in Nat
    OBVIOUS
  <2>3. SystemTypeOK'
    BY <1>0, <1>2, <2>1, <2>2 DEF createMsgQ, SystemTypeOK
  <2> QED BY <1>0, <1>2, <2>3 DEF createMsgQ, Bounds, TypeInv, Named
<1>3. CASE TaskStep(t)
  <2>1. place[t] # "none" => taskID[t] \in AnyID
    BY <1>0, IDRange DEF IDs
  <2>2. queue' \in [AnyID -> 0 .. MaxMsg]
    <3>1. CASE receive(t)
      <4>1. queue[taskID[t]] - 1 \in 0 .. MaxMsg
        BY <1>0, <2>1, <3>1 DEF receive, SystemTypeOK
      <4> QED BY <1>0, <3>1, <4>1 DEF receive, SystemTypeOK
    <3>2. CASE message_immediate(t) \/ cond_wait(t)
      BY <1>0, <3>2 DEF message_immediate, cond_wait, sharedVars, SystemTypeOK
    <3> QED BY <1>3, <3>1, <3>2 DEF TaskStep
  <2>3. SystemTypeOK'
    BY <1>0, <1>3, <2>2
       DEF TaskStep, message_immediate, cond_wait, receive, sharedVars,
           SystemTypeOK
  <2> QED BY <1>0, <1>3, <2>3
          DEF TaskStep, message_immediate, cond_wait, receive, sharedVars,
              Bounds, TypeInv, Named
<1> QED BY <1>1, <1>2, <1>3

(* The steps of the thread that wakes sleepers and of destroy.             *)
LEMMA TypeThreads ==
  ASSUME SysInv, TypeInv, Loop \/ DestroySignal \/ Destroy
  PROVE  TypeInv'
<1>0. /\ SystemTypeOK /\ Bounds /\ Types /\ IDs
  BY DEF TypeInv, SysInv
<1>1. /\ loop.i \in Nat /\ loop.max \in Nat /\ main.i \in Nat
      /\ loop.i <= loop.max /\ loop.max <= nextTaskID
      /\ main.i <= nextTaskID /\ nextTaskID \in Nat /\ 0 \in AnyID
      /\ 0 .. nextTaskID \subseteq AnyID
  BY <1>0, IDRange DEF SystemTypeOK, AnyID, Bounds
<1>2. UNCHANGED <<nextTaskID, queue, TaskTable, up, taskID>>
      /\ Named' = Named
  BY DEF Loop, LoopWhile, LoopMax, LoopCheck, LoopSignal, LoopSleep, Destroy,
         DestroySignal, DestroyJoin, DestroyUnlink, DestroyEnd, sharedVars,
         taskVars, Named
<1>3. CASE Loop
  <2>1. UNCHANGED <<linked, shutdown_signal, main, early>>
    BY <1>3 DEF Loop, LoopWhile, LoopMax, LoopCheck, LoopSignal, LoopSleep,
                sharedVars
  <2>2. /\ loop' \in [pc : {"off", "while", "max", "for", "signal", "exit"},
                      i : AnyID, max : AnyID]
        /\ loop'.max <= nextTaskID /\ loop'.i <= loop'.max
        /\ loop'.pc = "signal" => loop'.i < loop'.max
        /\ place' \in [Task -> {"none", "createMsgQ", "notify", "wait",
                             "asleep", "receive"}]
    <3>1. CASE LoopWhile \/ LoopSleep
      BY <1>0, <1>1, <3>1 DEF LoopWhile, LoopSleep, SystemTypeOK, taskVars
    <3>2. CASE LoopMax
      <4>1. nextTaskID \in AnyID
        BY <1>1
      <4> QED BY <1>0, <1>1, <3>2, <4>1 DEF LoopMax, SystemTypeOK, taskVars
    <3>3. CASE LoopCheck
      <4>1. loop.i + 1 \in AnyID
        BY <1>1, <3>3 DEF LoopCheck
      <4> QED BY <1>0, <1>1, <3>3, <4>1 DEF LoopCheck, SystemTypeOK, taskVars
    <3>4. CASE LoopSignal
      <4>1. loop.i + 1 \in AnyID /\ loop.i < loop.max
        BY <1>0, <1>1, <3>4 DEF LoopSignal, Bounds
      <4>2. place' \in [Task -> {"none", "createMsgQ", "notify", "wait",
                              "asleep", "receive"}]
        BY <1>0, <3>4 DEF LoopSignal, SystemTypeOK
      <4>3. loop' = [loop EXCEPT !.pc = "for", !.i = loop.i + 1]
        BY <3>4 DEF LoopSignal
      <4>4. /\ loop'.pc = "for" /\ loop'.i = loop.i + 1
            /\ loop'.max = loop.max
            /\ loop' \in [pc : {"off", "while", "max", "for", "signal",
                                "exit"}, i : AnyID, max : AnyID]
        BY <1>0, <4>1, <4>3 DEF SystemTypeOK
      <4> QED BY <1>1, <4>1, <4>2, <4>4
    <3> QED BY <1>3, <3>1, <3>2, <3>3, <3>4 DEF Loop
  <2> QED BY <1>0, <1>2, <2>1, <2>2 DEF TypeInv, SystemTypeOK, Bounds
<1>4. CASE DestroySignal \/ Destroy
  <2>1. UNCHANGED <<loop, place>>
    BY <1>4 DEF Destroy, DestroySignal, DestroyJoin, DestroyUnlink,
                DestroyEnd, taskVars
  <2>2. /\ linked' \subseteq AnyID /\ early' \subseteq AnyID
        /\ shutdown_signal' \in {0, 1}
    BY <1>0, <1>4 DEF Destroy, DestroySignal, DestroyJoin, DestroyUnlink,
                      DestroyEnd, sharedVars, SystemTypeOK
  <2>3. /\ main' \in [pc : {"start", "init", "running", "join", "unlink",
                            "done"}, i : AnyID]
        /\ main'.i <= nextTaskID
    <3>1. CASE DestroySignal \/ DestroyEnd
      BY <1>0, <1>1, <3>1 DEF DestroySignal, DestroyEnd, SystemTypeOK
    <3>2. CASE DestroyJoin
      <4>1. nextTaskID >= 1
        BY <1>0, <3>2 DEF DestroyJoin, IDs
      <4>2. 1 \in AnyID
        BY <1>1, <4>1
      <4> QED BY <1>1, <3>2, <4>1, <4>2 DEF DestroyJoin
    <3>3. CASE DestroyUnlink
      <4>1. main.i + 1 \in AnyID
        BY <1>1, <3>3 DEF DestroyUnlink
      <4> QED BY <1>0, <1>1, <3>3, <4>1 DEF DestroyUnlink, SystemTypeOK
    <3> QED BY <1>4, <3>1, <3>2, <3>3 DEF Destroy
  <2> QED BY <1>0, <1>2, <2>1, <2>2, <2>3 DEF TypeInv, SystemTypeOK, Bounds
<1> QED BY <1>3, <1>4

(* Every step keeps the types.                                             *)
LEMMA TypeNext ==
  ASSUME SysInv, TypeInv, [SystemNext]_systemVars
  PROVE  TypeInv'
<1> USE SystemAssumption
<1>0. /\ SystemTypeOK /\ Bounds /\ Types /\ IDs /\ Creating
  BY DEF TypeInv, SysInv
<1>1. CASE OpenSegment
  <2>1. 0 \in AnyID
    BY <1>0, IDRange
  <2>2. SystemTypeOK'
    BY <1>0, <1>1, <2>1 DEF OpenSegment, taskVars, SystemTypeOK
  <2> QED BY <1>0, <1>1, <2>2 DEF OpenSegment, taskVars, Bounds, TypeInv, Named
<1>2. CASE InitializeData
  <2>1. Named = {} /\ Named' = {} /\ Cardinality({}) = 0
    BY <1>0, <1>2, FS_EmptySet DEF InitializeData, taskVars, Creating, Named
  <2>2. /\ loop.i \in Nat /\ loop.max \in Nat /\ main.i \in Nat
        /\ nextTaskID <= 1
    BY <1>0, <2>1, IDRange DEF SystemTypeOK, AnyID, Bounds
  <2>3. 1 \in AnyID
    BY IDRange DEF AnyID
  <2>4. SystemTypeOK'
    BY <1>0, <1>2, <2>3 DEF InitializeData, taskVars, SystemTypeOK
  <2>5. Bounds'
    BY <1>0, <1>2, <2>1, <2>2, IDRange DEF InitializeData, Bounds, SystemTypeOK
  <2> QED BY <2>4, <2>5 DEF TypeInv
<1>3. ASSUME NEW p \in Process, System_acquire(p) PROVE TypeInv'
  BY <1>0, <1>3
     DEF System_acquire, sharedVars, taskVars, TypeInv, SystemTypeOK, Bounds,
         Named
<1>4. ASSUME NEW t \in Task, getNextTaskID(t) \/ createMsgQ(t) \/ TaskStep(t)
      PROVE  TypeInv'
  BY <1>4, TypeTasks
<1>5. ASSUME NEW p \in Process, NEW t \in Task, send(p, t) PROVE TypeInv'
  <2>1. taskID[t] \in AnyID
    <3>1. taskID[t] # -1
      BY <1>0, <1>5 DEF send, IDs
    <3> QED BY <3>1, IDRange
  <2>2. queue[taskID[t]] + 1 \in 0 .. MaxMsg
    BY <1>0, <1>5, <2>1 DEF send, SystemTypeOK
  <2>3. SystemTypeOK'
    BY <1>0, <1>5, <2>1, <2>2 DEF send, taskVars, SystemTypeOK
  <2> QED BY <1>0, <1>5, <2>3 DEF send, taskVars, Bounds, TypeInv, Named
<1>6. CASE Loop \/ DestroySignal \/ Destroy
  BY <1>6, TypeThreads
<1>7. CASE UNCHANGED systemVars
  BY <1>0, <1>7 DEF systemVars, TypeInv, SystemTypeOK, Bounds, Named
<1> QED BY <1>1, <1>2, <1>3, <1>4, <1>5, <1>6, <1>7 DEF SystemNext

(* Type correctness: no ID, name or index goes beyond one more than the    *)
(* tasks created, and no queue is taken from when it is empty.             *)
THEOREM SystemTypes == ASSUME ~EarlyAcquire PROVE SystemSpec => []SystemTypeOK
<1>1. TypeInv => SystemTypeOK
  BY DEF TypeInv
<1>2. SystemInit => TypeInv
  BY TypeInit
<1>3. SysInv /\ TypeInv /\ [SystemNext]_systemVars => TypeInv'
  BY TypeNext
<1> QED BY <1>1, <1>2, <1>3, SystemInvariance, PTL DEF SystemSpec

=============================================================================
