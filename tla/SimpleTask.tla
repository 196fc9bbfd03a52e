----------------------------- MODULE SimpleTask -----------------------------
(***************************************************************************)
(* The demonstration of TaskSystem/test/simple_task_test.c: PapaTask       *)
(* creates two FooTasks and a BazTask and sends two messages to each; a    *)
(* child calls receive twice and ends, and receive does not wait.          *)
(***************************************************************************)
EXTENDS Integers, Sequences

Child == {"child1", "child2", "child3"}

(* The messages of PapaTask.start in the order they are sent.              *)
Letters == << <<"child1", "TEXT">>, <<"child2", "BAR">>, <<"child1", "BAR">>,
              <<"child2", "TEXT">>, <<"child3", "BAR">>,
              <<"child3", "TEXT">> >>

(* FooTask has handlers for both tags, BazTask for TEXT only.              *)
Handles(c) == IF c = "child3" THEN {"TEXT"} ELSE {"TEXT", "BAR"}

VARIABLES
  spawned,   \* the children created so far
  sent,      \* how many of Letters have been sent
  mail,      \* per child: its queue
  turn,      \* per child: receives still to do
  handled, dropped

simpleVars == <<spawned, sent, mail, turn, handled, dropped>>

Init ==
  /\ spawned = {} /\ sent = 0
  /\ mail = [c \in Child |-> << >>]
  /\ turn = [c \in Child |-> 2]
  /\ handled = [c \in Child |-> << >>]
  /\ dropped = [c \in Child |-> << >>]

(* FooTask_create, FooTask_create, BazTask_create: the threads run at once. *)
Spawn(c) ==
  /\ c \notin spawned
  /\ c = "child2" => "child1" \in spawned
  /\ c = "child3" => "child2" \in spawned
  /\ spawned' = spawned \cup {c}
  /\ UNCHANGED <<sent, mail, turn, handled, dropped>>

PapaSend ==
  /\ spawned = Child /\ sent < Len(Letters)
  /\ sent' = sent + 1
  /\ mail' = [mail EXCEPT ![Letters[sent'][1]] =
                Append(@, Letters[sent'][2])]
  /\ UNCHANGED <<spawned, turn, handled, dropped>>

(* receive finds no message and returns at once.                           *)
ReceiveNothing(c) ==
  /\ c \in spawned /\ turn[c] > 0 /\ mail[c] = << >>
  /\ turn' = [turn EXCEPT ![c] = @ - 1]
  /\ UNCHANGED <<spawned, sent, mail, handled, dropped>>

(* A variant with a slip: a message without a handler stays in the queue.  *)
ReceiveKeeping(c) ==
  /\ c \in spawned /\ turn[c] > 0 /\ mail[c] # << >>
  /\ turn' = [turn EXCEPT ![c] = @ - 1]
  /\ \/ /\ Head(mail[c]) \in Handles(c)
        /\ handled' = [handled EXCEPT ![c] = Append(@, Head(mail[c]))]
        /\ mail' = [mail EXCEPT ![c] = Tail(@)]
        /\ UNCHANGED dropped
     \/ /\ Head(mail[c]) \notin Handles(c)
        /\ dropped' = [dropped EXCEPT ![c] = Append(@, Head(mail[c]))]
        /\ UNCHANGED <<handled, mail>>
  /\ UNCHANGED <<spawned, sent>>

(* receive: the handler of the tag, or dropMsg.                            *)
Receive(c) ==
  /\ c \in spawned /\ turn[c] > 0 /\ mail[c] # << >>
  /\ turn' = [turn EXCEPT ![c] = @ - 1]
  /\ mail' = [mail EXCEPT ![c] = Tail(@)]
  /\ \/ /\ Head(mail[c]) \in Handles(c)
        /\ handled' = [handled EXCEPT ![c] = Append(@, Head(mail[c]))]
        /\ UNCHANGED dropped
     \/ /\ Head(mail[c]) \notin Handles(c)
        /\ dropped' = [dropped EXCEPT ![c] = Append(@, Head(mail[c]))]
        /\ UNCHANGED handled
  /\ UNCHANGED <<spawned, sent>>

Next ==
  \/ PapaSend
  \/ \E c \in Child : Spawn(c) \/ ReceiveNothing(c) \/ Receive(c)

Spec == Init /\ [][Next]_simpleVars

-----------------------------------------------------------------------------
(* No message is lost inside the framework or handled twice: when all has  *)
(* been sent, each child has handled or dropped its two messages or they   *)
(* still wait, however the receives fell before the sends.  (A child that  *)
(* looked too early leaves its messages unread.)                           *)
NothingLost ==
  sent = Len(Letters) =>
    \A c \in Child :
      Len(handled[c]) + Len(dropped[c]) + Len(mail[c]) = 2

=============================================================================
