----------------------------- MODULE SampleSort -----------------------------
(***************************************************************************)
(* The parallel sample sort of TaskSystem/src/Tasks/SampleSortTask and     *)
(* BucketTask, started by test/samplesort_test.c.  The root picks          *)
(* splitters from a random sample, K buckets partition one slice of the    *)
(* data each, the root hands the k-th part of every partition to bucket k, *)
(* and the buckets sort what they got.                                     *)
(*                                                                         *)
(* A mailbox is a FIFO sequence of whole messages (module Mailbox), and    *)
(* message_notify followed by receive is a step that waits for a message   *)
(* (module System shows that a sleeping task notices it).                  *)
(*                                                                         *)
(* The arrays of the partitions are passed by reference.  The values are   *)
(* in the heap, but the array of pointers to them, values_to_propagate, is *)
(* a local variable of the bucket: it exists until the bucket's thread     *)
(* ends.  What a later read finds there is undefined.                      *)
(***************************************************************************)
EXTENDS Integers, Sequences, SequencesExt

CONSTANTS
  K,              \* number of buckets
  Inputs,         \* the sequences of integers to sort
  SAMPLE_SIZE,    \* how many values the root samples
  LastSplitter,   \* the value given to the last splitter
  Garbage,        \* what a value read through a dead pointer is
  StackSurvives   \* is the stack of an ended thread still as it was?

Root == 0
Bucket == 1 .. K
Task == {Root} \cup Bucket

VARIABLES
  data,     \* the input
  main,     \* the place of the test's main thread
  root,     \* the root's place pc, its loop index ki and what it received
  bucket,   \* per bucket: its place pc and what it received
  subs,     \* buckets_values_arr: the buckets whose partition has arrived
  box,      \* the mailboxes
  final     \* final_data_values of each bucket

vars == <<data, main, root, bucket, subs, box, final>>

Init ==
  /\ data \in Inputs
  /\ main = "sendK"
  /\ root = [pc |-> "recvK", ki |-> 1, K |-> 0, size |-> 0,
             splitters |-> << >>]
  /\ bucket = [b \in Bucket |->
                 [pc |-> "none", got |-> 0, bucket_count |-> 0,
                  first |-> 1, size |-> 0, splitters |-> << >>]]
  /\ subs = << >>
  /\ box = [t \in Task |-> << >>]
  /\ final = [b \in Bucket |-> << >>]

(* qsort with cmpfunc: the values in their order.                          *)
Sorted(s) ==
  LET index == CHOOSE p \in Bijection(1 .. Len(s), 1 .. Len(s)) :
                 \A i, j \in 1 .. Len(s) : i < j => s[p[i]] <= s[p[j]]
  IN  [i \in 1 .. Len(s) |-> s[index[i]]]

Put(t, m) == box' = [box EXCEPT ![t] = Append(@, m)]

-----------------------------------------------------------------------------
(* main: sends K and the data to the root and waits for MainSleepCond.     *)

MainSend ==
  /\ \/ /\ main = "sendK" /\ main' = "sendData"
        /\ Put(Root, [tag |-> "BAR_MSG", value |-> K])
     \/ /\ main = "sendData" /\ main' = "wait"
        /\ Put(Root, [tag |-> "REF_INTARRAY_MSG", size |-> Len(data)])
  /\ UNCHANGED <<data, root, bucket, subs, final>>

MainWait ==
  /\ main = "wait"
  /\ main' = "asleep"
  /\ UNCHANGED <<data, root, bucket, subs, box, final>>

-----------------------------------------------------------------------------
(* The root                                                                *)

(* receive: the handler is chosen by the tag, the place in start follows.  *)
RootReceive ==
  /\ root.pc \in {"recvK", "recvData", "recvSub", "recvDone"}
  /\ box[Root] # << >>
  /\ box' = [box EXCEPT ![Root] = Tail(@)]
  /\ LET m == Head(box[Root])
         handled ==
           CASE m.tag = "BAR_MSG"          -> [root EXCEPT !.K = m.value]
             [] m.tag = "REF_INTARRAY_MSG" -> [root EXCEPT !.size = m.size]
             [] OTHER                      -> root
         last == root.ki = root.K
     IN  /\ subs' = IF m.tag = "SUB_ARRAT_MSG" THEN Append(subs, m.bucket)
                                               ELSE subs
         /\ root' =
              CASE root.pc = "recvK"    -> [handled EXCEPT !.pc = "recvData"]
                [] root.pc = "recvData" -> [handled EXCEPT !.pc = "sample"]
                [] root.pc \in {"recvSub", "recvDone"} /\ ~last ->
                     [handled EXCEPT !.ki = @ + 1]
                [] root.pc = "recvSub" /\ last ->
                     [handled EXCEPT !.pc = "setSub", !.ki = 1]
                [] root.pc = "recvDone" /\ last ->
                     [handled EXCEPT !.pc = "signal"]
  /\ UNCHANGED <<data, main, bucket, final>>

(* The splitters are taken at equal steps from a sorted random sample.     *)
Splitters(sample) ==
  LET step == SAMPLE_SIZE \div root.K
      samples == Sorted([i \in 1 .. SAMPLE_SIZE |-> data[sample[i]]])
  IN  [i \in 1 .. root.K |-> IF i < root.K THEN samples[i * step + 1]
                                           ELSE LastSplitter]

Sample ==
  /\ root.pc = "sample"
  /\ \E sample \in [1 .. SAMPLE_SIZE -> 1 .. root.size] :
       root' = [root EXCEPT !.pc = "create",
                            !.splitters = Splitters(sample)]
  /\ UNCHANGED <<data, main, bucket, subs, box, final>>

CreateBucket ==
  /\ root.pc = "create"
  /\ bucket' = [bucket EXCEPT ![root.ki].pc = "receive"]
  /\ root' = IF root.ki < root.K THEN [root EXCEPT !.ki = @ + 1]
                                 ELSE [root EXCEPT !.pc = "topology", !.ki = 1]
  /\ UNCHANGED <<data, main, subs, box, final>>

(* A variant with a slip: nobody gets the rest.                            *)
SliceNoRest(k) ==
  LET n == root.size \div root.K
  IN  [first |-> (k - 1) * n + 1, size |-> n]

(* The slice of bucket k: size / K values, the last one has the rest.      *)
Slice(k) ==
  LET n == root.size \div root.K
  IN  [first |-> (k - 1) * n + 1,
       size |-> IF k < root.K THEN n ELSE root.size - (k - 1) * n]

(* A variant with a slip: splitters are sent before the data.              *)
NextLoopSwapped == [topology |-> "splitters", splitters |-> "dataRef",
                    dataRef |-> "getSub", getSub |-> "recvSub"]

NextLoop == [topology |-> "dataRef", dataRef |-> "splitters",
             splitters |-> "getSub", getSub |-> "recvSub"]

(* One send of the four loops of rounds 1 and 2.                           *)
RootSend ==
  /\ root.pc \in DOMAIN NextLoop
  /\ Put(root.ki,
         CASE root.pc = "topology" ->
                [tag |-> "TOPOLOGY_MSG", bucket_count |-> root.K]
           [] root.pc = "dataRef" ->
                [tag |-> "DATA_REF_MSG", first |-> Slice(root.ki).first,
                 size |-> Slice(root.ki).size]
           [] root.pc = "splitters" ->
                [tag |-> "SPLITTER_MSG", splitters |-> root.splitters]
           [] root.pc = "getSub" -> [tag |-> "GET_SUB_ARRAY_MSG"])
  /\ root' = IF root.ki < root.K THEN [root EXCEPT !.ki = @ + 1]
             ELSE [root EXCEPT !.pc = NextLoop[root.pc], !.ki = 1]
  /\ UNCHANGED <<data, main, bucket, subs, final>>

-----------------------------------------------------------------------------
(* The partitions                                                          *)

(* The bucket a value belongs to: the first splitter that is not smaller,  *)
(* or the last one.                                                        *)
Dest(v, splitters) ==
  LET fits == {si \in 1 .. Len(splitters) :
                 v <= splitters[si] \/ si = Len(splitters)}
  IN  CHOOSE si \in fits : \A sj \in fits : si <= sj

(* values_to_propagate[si] of bucket b, and counts[si] is its length: the  *)
(* slice's values for bucket si, added one by one.                         *)
Part(b, si) ==
  LET first == bucket[b].first
      last == first + bucket[b].size - 1
      part[i \in first - 1 .. last] ==
        IF i < first THEN << >>
        ELSE IF Dest(data[i], bucket[b].splitters) = si
               THEN Append(part[i - 1], data[i]) ELSE part[i - 1]
  IN  part[last]

(* What the root reads as values[si] of bucket b, with counts[si] values.  *)
ReadPart(b, si) ==
  {Part(b, si)} \cup
  IF bucket[b].pc = "ended" /\ ~StackSurvives
    THEN {[j \in 1 .. Len(Part(b, si)) |-> Garbage]} ELSE {}

(* One pass of the loop of round 3: bucket ki gets the ki-th part of every *)
(* partition, in the order in which the partitions arrived.                *)
SendSetSubArray ==
  /\ root.pc = "setSub"
  /\ \E values \in [1 .. root.K ->
                     UNION {ReadPart(b, root.ki) : b \in Bucket}] :
       /\ \A kj \in 1 .. root.K : values[kj] \in ReadPart(subs[kj], root.ki)
       /\ Put(root.ki, [tag |-> "SET_SUB_ARRAY_MSG", values |-> values])
  /\ root' = IF root.ki < root.K THEN [root EXCEPT !.ki = @ + 1]
                                 ELSE [root EXCEPT !.pc = "recvDone", !.ki = 1]
  /\ UNCHANGED <<data, main, bucket, subs, final>>

(* pthread_cond_signal(&MainSleepCond), and the end of the root's thread.  *)
SignalMain ==
  /\ root.pc = "signal"
  /\ root' = [root EXCEPT !.pc = "ended"]
  /\ main' = IF main = "asleep" THEN "woken" ELSE main
  /\ UNCHANGED <<data, bucket, subs, box, final>>

-----------------------------------------------------------------------------
(* A bucket                                                                *)

(* receive.  After the fourth message the bucket partitions its slice,     *)
(* after the fifth it sorts.                                               *)
BucketReceive(b) ==
  /\ bucket[b].pc = "receive"
  /\ box[b] # << >>
  /\ box' = [box EXCEPT ![b] = Tail(@)]
  /\ LET m == Head(box[b])
         n == bucket[b].got + 1
         at == [bucket[b] EXCEPT !.got = n,
                  !.pc = CASE n = 4 -> "partition"
                           [] n = 5 -> "sort"
                           [] OTHER -> "receive"]
     IN  /\ bucket' = [bucket EXCEPT ![b] =
              CASE m.tag = "TOPOLOGY_MSG" ->
                     [at EXCEPT !.bucket_count = m.bucket_count]
                [] m.tag = "DATA_REF_MSG" ->
                     [at EXCEPT !.first = m.first, !.size = m.size]
                [] m.tag = "SPLITTER_MSG" ->
                     [at EXCEPT !.splitters = m.splitters]
                [] OTHER -> at]
         /\ final' = [final EXCEPT ![b] =
              IF m.tag = "SET_SUB_ARRAY_MSG" THEN FlattenSeq(m.values) ELSE @]
  /\ UNCHANGED <<data, main, root, subs>>

(* The partition is made and a reference to it is sent to the root.        *)
Partition(b) ==
  /\ bucket[b].pc = "partition"
  /\ Put(Root, [tag |-> "SUB_ARRAT_MSG", bucket |-> b])
  /\ bucket' = [bucket EXCEPT ![b].pc = "receive"]
  /\ UNCHANGED <<data, main, root, subs, final>>

(* A variant with a slip: a bucket without values does not report.         *)
FinalSortSilent(b) ==
  /\ bucket[b].pc = "sort"
  /\ final' = [final EXCEPT ![b] = Sorted(@)]
  /\ IF final[b] # << >> THEN Put(Root, [tag |-> "DONE_MSG"])
                         ELSE UNCHANGED box
  /\ bucket' = [bucket EXCEPT ![b].pc = "return"]
  /\ UNCHANGED <<data, main, root, subs>>

FinalSort(b) ==
  /\ bucket[b].pc = "sort"
  /\ final' = [final EXCEPT ![b] = Sorted(@)]
  /\ Put(Root, [tag |-> "DONE_MSG"])
  /\ bucket' = [bucket EXCEPT ![b].pc = "return"]
  /\ UNCHANGED <<data, main, root, subs>>

(* start returns and the thread ends: its stack is gone.                   *)
BucketEnd(b) ==
  /\ bucket[b].pc = "return"
  /\ bucket' = [bucket EXCEPT ![b].pc = "ended"]
  /\ UNCHANGED <<data, main, root, subs, box, final>>

-----------------------------------------------------------------------------
MainStep == MainSend \/ MainWait

RootStep == \/ RootReceive \/ Sample \/ CreateBucket \/ RootSend
            \/ SendSetSubArray \/ SignalMain

BucketStep(b) ==
  BucketReceive(b) \/ Partition(b) \/ FinalSort(b) \/ BucketEnd(b)

Next == MainStep \/ RootStep \/ \E b \in Bucket : BucketStep(b)

Spec == Init /\ [][Next]_vars

(* Every thread is scheduled.                                              *)
FairSpec ==
  /\ Spec
  /\ WF_vars(MainStep)
  /\ WF_vars(RootStep)
  /\ \A b \in Bucket : WF_vars(BucketStep(b))

-----------------------------------------------------------------------------
(* What tool/validate_result.py checks: when the sort is reported done,    *)
(* the buckets' values one after the other are the sorted input, and no    *)
(* value exceeds its bucket's splitter (the last one counts for nothing).  *)
SortedOutput ==
  root.pc \in {"signal", "ended"} =>
    /\ FlattenSeq(final) = Sorted(data)
    /\ \A b \in 1 .. K - 1 :
         \A i \in 1 .. Len(final[b]) : final[b][i] <= root.splitters[b]

(* Each receive in start meets the message that its place expects: the     *)
(* handlers are chosen by tag alone, and a tag that "should never be       *)
(* received" would be left at the head of the queue.                       *)
ExpectedTag ==
  /\ box[Root] # << >> =>
       Head(box[Root]).tag =
         CASE root.pc = "recvK" -> "BAR_MSG"
           [] root.pc = "recvData" -> "REF_INTARRAY_MSG"
           [] root.pc \in {"sample", "create", "topology", "dataRef",
                           "splitters", "getSub", "recvSub"} ->
                "SUB_ARRAT_MSG"
           [] OTHER -> "DONE_MSG"
  /\ \A b \in Bucket :
       bucket[b].pc = "receive" /\ box[b] # << >> =>
         Head(box[b]).tag =
           <<"TOPOLOGY_MSG", "DATA_REF_MSG", "SPLITTER_MSG",
             "GET_SUB_ARRAY_MSG", "SET_SUB_ARRAY_MSG">>[bucket[b].got + 1]

(* The sort comes to its end: no task waits for a message that nobody      *)
(* sends, and all threads of the sort end with empty mailboxes.            *)
SortEnds ==
  <>( /\ root.pc = "ended"
      /\ \A b \in Bucket : bucket[b].pc = "ended"
      /\ \A t \in Task : box[t] = << >>)

(* The main thread is woken at the end.                                    *)
MainUnlocked == <>(main = "woken")

=============================================================================
